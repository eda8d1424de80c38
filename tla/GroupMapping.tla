---------------------------- MODULE GroupMapping ----------------------------
(***************************************************************************)
(* The mapping of a requested identity (#TSI_IDENTITY user group:group...) *)
(* to a primary gid and a set of gids: get_primary_group,                  *)
(* get_supplementary_groups and the branch of become_user that calls them. *)
(*                                                                         *)
(* The operators are pure.  What the user cache answers is a parameter:    *)
(*   gid      get_gid_4user(user)                                          *)
(*   gids     get_gids_4user(user), as a set                               *)
(*   grp[g]   get_gid_4group(g), NoId for a group the OS does not know     *)
(* and so are the two flags tsi.enforce_os_gids and                        *)
(* tsi.fail_on_invalid_gids.  A RuntimeError is the value Raised.          *)
(***************************************************************************)
EXTENDS Integers, Sequences

\* what the cache returns for a name that cannot be resolved
NoId == -1

\* the two reserved group names of a request
DefaultGid == "DEFAULT_GID"
NoGroups == "NONE"

\* the outcome of an operation that raises a RuntimeError
Raised == [raised |-> TRUE]

\* check_membership: is the group allowed for this user under the settings?
CheckMembership(gGid, gid, gids, enforce) ==
    enforce => \/ gGid = gid
               \/ gGid \in gids

\* get_primary_group for a requested primary group.  An unknown group and
\* one the user is not in either raise or fall back to the default gid.
GetPrimaryGroup(primary, gid, gids, grp, enforce, failInvalid) ==
    IF primary = DefaultGid THEN [raised |-> FALSE, gid |-> gid]
    ELSE IF failInvalid /\ \/ grp[primary] = NoId
                           \/ ~CheckMembership(grp[primary], gid, gids, enforce)
    THEN Raised
    ELSE [raised |-> FALSE,
          gid |-> IF \/ grp[primary] = NoId
                     \/ ~CheckMembership(grp[primary], gid, gids, enforce)
                  THEN gid
                  ELSE grp[primary]]

\* the named groups of a request
Named(requested) ==
    {requested[i] : i \in DOMAIN requested} \ {DefaultGid}

\* get_supplementary_groups: the new primary gid, the user's own groups when
\* DEFAULT_GID is among the requested ones, and every named group the OS
\* knows.  A group that fails the membership check is logged as skipped, and
\* then added all the same.
GetSupplementaryGroups(requested, newGid, gid, gids, grp, enforce, failInvalid) ==
    IF failInvalid /\ \E g \in Named(requested) :
           \/ grp[g] = NoId
           \/ ~CheckMembership(grp[g], gid, gids, enforce)
    THEN Raised
    ELSE [raised |-> FALSE,
          gids |-> {newGid}
                     \cup (IF \E i \in DOMAIN requested : requested[i] = DefaultGid
                           THEN gids ELSE {})
                     \cup ({grp[g] : g \in Named(requested)} \ {NoId})]

\* the group part of become_user: NONE as the first group selects the
\* system's defaults, anything else is mapped group by group
MapGroups(requested, gid, gids, grp, enforce, failInvalid) ==
    IF requested[1] = NoGroups
    THEN [raised |-> FALSE, gid |-> gid, gids |-> gids]
    ELSE LET p == GetPrimaryGroup(requested[1], gid, gids, grp, enforce, failInvalid)
         IN  IF p.raised THEN Raised
             ELSE LET s == GetSupplementaryGroups(requested, p.gid, gid, gids,
                                                  grp, enforce, failInvalid)
                  IN  IF s.raised THEN Raised
                      ELSE [raised |-> FALSE, gid |-> p.gid, gids |-> s.gids]
=============================================================================

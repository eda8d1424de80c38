------------------------------ MODULE UserCache -----------------------------
(***************************************************************************)
(* The cache of user and group data of a worker (UserCache.py) while the   *)
(* user database changes, and on it the lookups of one become_user after   *)
(* the other, each in its place: get_primary_group, check_membership and   *)
(* get_supplementary_groups ask the cache again and again for the same     *)
(* user, and its entry may expire between any two of these questions.      *)
(*                                                                         *)
(* Time is counted in ticks.  The database may change at every tick.       *)
(* Ticks may pass between any two lookups and, while an entry is filled,   *)
(* between getpwnam and the end of `id -G`.                                *)
(***************************************************************************)
EXTENDS GroupMapping, FiniteSets, FiniteSetsExt

CONSTANTS
    Users,       \* user names
    GroupNames,  \* group names, the reserved ones not included
    Entries,     \* the entries a user may have in the database
    Gids,        \* the gids a group may have in the database
    Asked,       \* the lists of groups a request may ask for
    Settings,    \* values of tsi.enforce_os_gids and tsi.fail_on_invalid_gids
    CacheTtl,    \* tsi.userCacheTtl
    MaxDelay,    \* bound: ticks that `id -G` may take
    MaxChanges,  \* bound: changes of the database
    MaxTime      \* bound: ticks

NoTime == -1
NoGids == {NoId}
Absent == [uid |-> NoId, gid |-> NoId, home |-> NoId, gids |-> NoGids]

\* an entry lists the user's primary gid among its groups, as `id -G` does
ASSUME EntryAssumption ==
    /\ Entries \subseteq [uid : Nat, gid : Nat, home : Nat, gids : SUBSET Nat]
    /\ \A e \in Entries : e.gid \in e.gids
\* NONE is special in the first place only, elsewhere it is the name of a group
ASSUME OtherAssumption ==
    /\ Gids \subseteq Nat /\ DefaultGid \notin GroupNames
    /\ \A a \in Asked : /\ a \in Seq(GroupNames \cup {NoGroups, DefaultGid}) \ {<<>>}
                        /\ \A k \in 2 .. Len(a) : a[k] \in GroupNames \cup {DefaultGid}
    /\ Settings \subseteq [enforce : BOOLEAN, failInvalid : BOOLEAN]
    /\ CacheTtl \in Nat /\ MaxDelay \in Nat
    /\ MaxChanges \in Nat /\ MaxTime \in Nat

VARIABLES
    now,     \* the time
    hist,    \* the database at every time up to now
    cache,   \* uids, gids, homes, all_groups and users_timestamps
    gcache,  \* groups and groups_timestamps
    filling, \* update_user_info waits for `id -G`
    waited,  \* ticks it has waited
    conf,    \* the settings
    user,    \* the user become_user works for
    asked,   \* requested_groups
    call,    \* become_user: the lookup it is at (pc), the requested group it is
             \* at (k, 0 for the primary one), the gid of that group (tmp), and
             \* new_gid and new_gids as far as they are known
    last,    \* ghost: the last answer of the cache, what it was about (of: a user
             \* or a group), and when it was given
    began,   \* ghost: when become_user was called
    lost     \* ghost: an `id -G` has failed

vars == <<now, hist, cache, gcache, filling, waited, conf, user, asked, call,
          last, began, lost>>
cacheVars == <<cache, gcache, filling, waited, lost>>
callVars == <<conf, user, asked, call, last, began>>

Database == [users : [Users -> Entries \cup {Absent}],
             groups : [GroupNames -> Gids \cup {NoId}]]
Db == hist[now]
Empty == [uid |-> NoId, gid |-> NoId, home |-> NoId, gids |-> NoGids, ts |-> NoTime]
NoAnswer == [of |-> "none", item |-> "none", value |-> NoId, at |-> NoTime]
Idle == [pc |-> "idle", k |-> 0, tmp |-> NoId, gid |-> NoId, gids |-> {}]

\* the item of the user's data that become_user asks for at each place
Asks == [uid |-> "uid", none_gid |-> "gid", none_gids |-> "gids",
         default_gid |-> "gid", unknown_gid |-> "gid", check_gid |-> "gid",
         check_gids |-> "gids", default_gids |-> "gids", home |-> "home"]

\* hist is a function of the times 0 .. now
Init ==
    /\ now = 0
    /\ hist \in [{0} -> Database]
    /\ cache = [u \in Users |-> Empty]
    /\ gcache = [g \in GroupNames |-> [gid |-> NoId, ts |-> NoTime]]
    /\ filling = FALSE /\ waited = 0 /\ lost = FALSE
    /\ conf \in Settings
    /\ user \in Users /\ asked = <<NoGroups>>
    /\ call = Idle /\ last = NoAnswer /\ began = 0

\* time passes, and the database changes or not
Tick ==
    /\ now < MaxTime
    /\ filling => waited < MaxDelay
    /\ now' = now + 1
    /\ \E d \in Database : hist' = [t \in 0 .. now + 1 |-> IF t <= now THEN hist[t] ELSE d]
    /\ Cardinality({t \in 0 .. now : hist'[t] # hist'[t + 1]}) <= MaxChanges
    /\ waited' = IF filling THEN waited + 1 ELSE 0
    /\ UNCHANGED <<cache, gcache, filling, lost>> /\ UNCHANGED callVars

-----------------------------------------------------------------------------
(* become_user, as a function from the answer of the cache to what it does  *)
(* next.  c is the state of the call.                                       *)

Refused(c) == [c EXCEPT !.pc = "refused"]

\* a second DEFAULT_GID is passed over
Repeated(j) == asked[j] = DefaultGid /\ \E h \in 1 .. j - 1 : asked[h] = DefaultGid

\* get_supplementary_groups goes on with the requested group number j
Supplementary(c, j) ==
    LET k == Min({h \in j .. Len(asked) + 1 : h = Len(asked) + 1 \/ ~Repeated(h)})
    IN  [c EXCEPT !.k = k,
                  !.pc = IF k = Len(asked) + 1 THEN "set"
                         ELSE IF asked[k] = DefaultGid THEN "default_gids"
                         ELSE "group"]

\* the primary group is settled
Primary(c, gid) ==
    Supplementary([c EXCEPT !.gid = gid, !.gids = {gid}], 1)

\* the group of the gid c.tmp is taken
TakeGroup(c) ==
    IF c.k = 0 THEN Primary(c, c.tmp)
    ELSE Supplementary([c EXCEPT !.gids = @ \cup {c.tmp}], c.k + 1)

\* fault: membership is checked although groups are not enforced
CheckAlways(c, tmp) == [c EXCEPT !.tmp = tmp, !.pc = "check_gid"]

\* check_membership asks for the user's primary gid, if groups are enforced
Check(c, tmp) ==
    LET d == [c EXCEPT !.tmp = tmp]
    IN  IF conf.enforce THEN [d EXCEPT !.pc = "check_gid"] ELSE TakeGroup(d)

\* fault: an invalid group does not fail
NotMemberPasses(c) ==
    IF c.k = 0 THEN [c EXCEPT !.pc = "default_gid"] ELSE TakeGroup(c)

\* the user is not a member of the group: a primary group is replaced by the
\* default, a supplementary one is logged as skipped and then added
NotMember(c) ==
    IF conf.failInvalid THEN Refused(c)
    ELSE IF c.k = 0 THEN [c EXCEPT !.pc = "default_gid"]
    ELSE TakeGroup(c)

\* the answer of get_gid_4group
GotGroup(c, v) ==
    IF v # NoId THEN Check(c, v)
    ELSE IF conf.failInvalid THEN Refused(c)
    ELSE IF c.k = 0 THEN [c EXCEPT !.pc = "unknown_gid"]
    ELSE Supplementary(c, c.k + 1)

\* the answer of get_uid_4user: unknown users and root are refused
GotUid(c, v) ==
    IF v \in {NoId, 0} THEN Refused(c)
    ELSE [c EXCEPT !.pc = IF asked[1] = NoGroups THEN "none_gid"
                          ELSE IF asked[1] = DefaultGid THEN "default_gid"
                          ELSE "group"]

\* the answers about the user
Continue(c, v) ==
    CASE c.pc = "uid" -> GotUid(c, v)
      [] c.pc = "none_gid" -> [c EXCEPT !.gid = v, !.pc = "none_gids"]
      [] c.pc = "none_gids" -> [c EXCEPT !.gids = v, !.pc = "set"]
      [] c.pc = "default_gid" -> Primary(c, v)
      [] c.pc = "unknown_gid" -> Check(c, v)
      [] c.pc = "check_gid" ->
            IF v = c.tmp THEN TakeGroup(c) ELSE [c EXCEPT !.pc = "check_gids"]
      [] c.pc = "check_gids" -> IF c.tmp \in v THEN TakeGroup(c) ELSE NotMember(c)
      [] c.pc = "default_gids" ->
            Supplementary([c EXCEPT !.gids = @ \cup v], c.k + 1)
      [] c.pc = "home" -> IF v = NoId THEN Refused(c) ELSE [c EXCEPT !.pc = "done"]

-----------------------------------------------------------------------------
(* The cache, as become_user uses it. *)

\* a request arrives
BecomeUser(u, a) ==
    /\ call.pc = "idle"
    /\ user' = u /\ asked' = a
    /\ call' = [Idle EXCEPT !.pc = "uid"]
    /\ last' = NoAnswer /\ began' = now
    /\ UNCHANGED <<now, hist, conf>> /\ UNCHANGED cacheVars

\* the call is over, and nothing is kept of it
Over == call' = Idle /\ asked' = <<NoGroups>> /\ last' = NoAnswer /\ began' = 0

\* fault: an entry lives one tick longer
ExpiredLate(ts) == ts = NoTime \/ ts + CacheTtl + 1 < now

\* expired
Expired(ts) == ts = NoTime \/ ts + CacheTtl < now

\* fault: the timestamp is set before the groups are known
UpdateUserInfoStamped ==
    /\ call.pc \in DOMAIN Asks /\ ~filling
    /\ Expired(cache[user].ts)
    /\ LET e == Db.users[user]
       IN  /\ e # Absent
           /\ cache' = [cache EXCEPT ![user] =
                 [Empty EXCEPT !.uid = e.uid, !.gid = e.gid, !.home = e.home, !.ts = now]]
    /\ filling' = TRUE /\ waited' = 0
    /\ UNCHANGED <<now, hist, gcache, lost>> /\ UNCHANGED callVars

\* update_user_info up to getpwnam: everything known is dropped first.  A user
\* the database does not know leaves the entry without a timestamp.
UpdateUserInfo ==
    /\ call.pc \in DOMAIN Asks /\ ~filling
    /\ Expired(cache[user].ts)
    /\ LET e == Db.users[user]
       IN  /\ e # Absent
           /\ cache' = [cache EXCEPT ![user] =
                 [Empty EXCEPT !.uid = e.uid, !.gid = e.gid, !.home = e.home]]
    /\ filling' = TRUE /\ waited' = 0
    /\ UNCHANGED <<now, hist, gcache, lost>> /\ UNCHANGED callVars

\* get_gids_4user_nc, and the timestamp: `id -G` may fail, as it does for a
\* user removed meanwhile, which gives an empty list
GroupsResolved ==
    /\ filling
    /\ \/ /\ cache' = [cache EXCEPT ![user].gids = {}, ![user].ts = now]
          /\ lost' = TRUE
       \/ /\ Db.users[user] # Absent
          /\ cache' = [cache EXCEPT
                ![user].gids = Db.users[user].gids \cup {cache[user].gid},
                ![user].ts = now]
          /\ UNCHANGED lost
    /\ filling' = FALSE /\ waited' = 0
    /\ UNCHANGED <<now, hist, gcache>> /\ UNCHANGED callVars

\* output that is no list of numbers, or a process that cannot be started:
\* an exception that ends the request
GroupsRaise ==
    /\ filling
    /\ filling' = FALSE /\ waited' = 0
    /\ Over
    /\ UNCHANGED <<now, hist, cache, gcache, lost, conf, user>>

\* the getters turn a missing list into an empty one
Item(entry, item) ==
    IF item = "gids" /\ entry.gids = NoGids THEN {} ELSE entry[item]

\* fault: a user that does not exist gets a timestamp
UserAnswerNegative ==
    /\ call.pc \in DOMAIN Asks /\ ~filling
    /\ Expired(cache[user].ts) => Db.users[user] = Absent
    /\ LET entry == IF Expired(cache[user].ts) THEN [Empty EXCEPT !.ts = now]
                    ELSE cache[user]
           value == Item(entry, Asks[call.pc])
       IN  /\ cache' = [cache EXCEPT ![user] = entry]
           /\ last' = [of |-> "user", item |-> Asks[call.pc], value |-> value, at |-> now]
           /\ call' = Continue(call, value)
    /\ UNCHANGED <<now, hist, gcache, filling, waited, lost, conf, user, asked, began>>

\* prepare_users and the getter, with an entry that has not expired or for a
\* user the database does not know
UserAnswer ==
    /\ call.pc \in DOMAIN Asks /\ ~filling
    /\ Expired(cache[user].ts) => Db.users[user] = Absent
    /\ LET entry == IF Expired(cache[user].ts) THEN Empty ELSE cache[user]
           value == Item(entry, Asks[call.pc])
       IN  /\ cache' = [cache EXCEPT ![user] = entry]
           /\ last' = [of |-> "user", item |-> Asks[call.pc], value |-> value, at |-> now]
           /\ call' = Continue(call, value)
    /\ UNCHANGED <<now, hist, gcache, filling, waited, lost, conf, user, asked, began>>

\* fault: the timestamp is the time of expiry
GroupAnswerExpiry ==
    /\ call.pc = "group"
    /\ LET g == asked[IF call.k = 0 THEN 1 ELSE call.k]
           found == Db.groups[g]
           entry == IF ~Expired(gcache[g].ts) THEN gcache[g]
                    ELSE [gid |-> found,
                          ts |-> IF found = NoId THEN NoTime ELSE now + CacheTtl]
       IN  /\ gcache' = [gcache EXCEPT ![g] = entry]
           /\ last' = [of |-> "group", item |-> g, value |-> entry.gid, at |-> now]
           /\ call' = GotGroup(call, entry.gid)
    /\ UNCHANGED <<now, hist, cache, filling, waited, lost, conf, user, asked, began>>

\* get_gid_4group with prepare_groups and update_group_info: a group that does
\* not exist gets no timestamp
GroupAnswer ==
    /\ call.pc = "group"
    /\ LET g == asked[IF call.k = 0 THEN 1 ELSE call.k]
           found == Db.groups[g]
           entry == IF ~Expired(gcache[g].ts) THEN gcache[g]
                    ELSE [gid |-> found, ts |-> IF found = NoId THEN NoTime ELSE now]
       IN  /\ gcache' = [gcache EXCEPT ![g] = entry]
           /\ last' = [of |-> "group", item |-> g, value |-> entry.gid, at |-> now]
           /\ call' = GotGroup(call, entry.gid)
    /\ UNCHANGED <<now, hist, cache, filling, waited, lost, conf, user, asked, began>>

\* setgid refuses the gid -1; otherwise the home directory is next
SetIds ==
    /\ call.pc = "set"
    /\ call' = [call EXCEPT !.pc = IF call.gid = NoId THEN "refused" ELSE "home"]
    /\ UNCHANGED <<now, hist, conf, user, asked, last, began>> /\ UNCHANGED cacheVars

\* the end of become_user, with a new identity or an exception
Finish ==
    /\ call.pc \in {"done", "refused"}
    /\ Over
    /\ UNCHANGED <<now, hist, conf, user>> /\ UNCHANGED cacheVars

Next ==
    \/ Tick
    \/ \E u \in Users, a \in Asked : BecomeUser(u, a)
    \/ UpdateUserInfo \/ GroupsResolved \/ GroupsRaise
    \/ UserAnswer \/ GroupAnswer \/ SetIds \/ Finish

Spec == Init /\ [][Next]_vars

-----------------------------------------------------------------------------
(* Properties. *)

\* The types of the variables.
TypeOK ==
    /\ now \in 0 .. MaxTime /\ began \in 0 .. now
    /\ hist \in [0 .. now -> Database]
    /\ \A u \in Users : cache[u].ts \in {NoTime} \cup 0 .. now
    /\ \A g \in GroupNames : gcache[g].ts \in {NoTime} \cup 0 .. now
    /\ call.pc \in DOMAIN Asks \cup {"idle", "group", "set", "done", "refused"}
    /\ call.k \in 0 .. Len(asked) + 1
    /\ {call.tmp, call.gid} \cup call.gids \subseteq Nat \cup {NoId}
    /\ filling \in BOOLEAN /\ waited \in 0 .. MaxDelay /\ lost \in BOOLEAN
    /\ conf \in Settings

\* the times that an answer given at time t may speak of
Window(t) == {s \in 0 .. t : t - s <= CacheTtl + MaxDelay}

\* An answer is never older than the time to live and the time that `id -G`
\* takes: the database did contain it within that time.  The list of groups
\* may also be empty, when `id -G` failed; it holds no group that was taken
\* away longer ago.
FreshAnswers ==
    LET was(t) == hist[t].users[user]
    IN  CASE last.of = "none" -> TRUE
          [] last.of = "group" ->
                \E t \in Window(last.at) : last.value = hist[t].groups[last.item]
          [] last.of = "user" /\ last.item = "gids" ->
                \A x \in last.value : \E t \in Window(last.at) : x \in was(t).gids
          [] OTHER ->
                \E t \in Window(last.at) : last.value = was(t)[last.item]

\* That a user or a group does not exist is not cached: the answer is true when
\* it is given, so that a new account, or a new group, works at once.
UnknownIsCurrent ==
    /\ last.of = "group" /\ last.value = NoId =>
            hist[last.at].groups[last.item] = NoId
    /\ last.of = "user" /\ last.item # "gids" /\ last.value = NoId =>
            hist[last.at].users[user] = Absent

\* Whatever fails while an entry is filled, an entry with a timestamp is whole:
\* its uid, gid and home are those of one entry of the database.
EntriesWhole ==
    \A u \in Users : cache[u].ts # NoTime =>
        /\ cache[u].gids # NoGids
        /\ \E t \in 0 .. now : \A f \in {"uid", "gid", "home"} :
              cache[u][f] = hist[t].users[u][f] /\ cache[u][f] # NoId

\* When groups are enforced and invalid ones refused, the identity become_user
\* ends up with has no group beyond those the user had within the lifetime of
\* the cached data, even when the entry expires and changes between the check
\* of one group and the check of the next.
GroupsWithinWindow ==
    call.pc = "done" /\ conf.enforce /\ conf.failInvalid =>
        \A x \in call.gids \cup {call.gid} :
            \E t \in {s \in 0 .. now : began - s <= CacheTtl + MaxDelay} :
                x \in hist[t].users[user].gids

\* With a database that does not change, and as long as `id -G` works, the
\* lookups of become_user come to what the mapping of the groups is defined to
\* be, under all settings.
MappingAsDefined ==
    LET e == Db.users[user]
        grp == [g \in GroupNames \cup {NoGroups, DefaultGid} |->
                  IF g \in GroupNames THEN Db.groups[g] ELSE NoId]
        m == MapGroups(asked, e.gid, e.gids, grp, conf.enforce, conf.failInvalid)
    IN  call.pc \in {"done", "refused"} /\ ~lost /\ (\A t \in 0 .. now : hist[t] = Db) =>
            IF e = Absent \/ e.uid = 0 \/ m.raised
            THEN call.pc = "refused"
            ELSE call.pc = "done" /\ call.gid = m.gid /\ call.gids = m.gids
=============================================================================

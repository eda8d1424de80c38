----------------------------- MODULE MCUserCache ----------------------------
(***************************************************************************)
(* One user and one group: an account can be changed, removed and made     *)
(* again, and entries expire between lookups and while they are filled.    *)
(***************************************************************************)
EXTENDS UserCache

MCEntries ==
    {[uid |-> 1, gid |-> 11, home |-> 1, gids |-> {11, 20}],
     [uid |-> 2, gid |-> 12, home |-> 2, gids |-> {12}]}
MCAsked == {<<"NONE">>, <<"project">>, <<"DEFAULT_GID", "project", "DEFAULT_GID">>}
MCSettings ==
    {[enforce |-> TRUE, failInvalid |-> TRUE], [enforce |-> TRUE, failInvalid |-> FALSE],
     [enforce |-> FALSE, failInvalid |-> FALSE]}
=============================================================================

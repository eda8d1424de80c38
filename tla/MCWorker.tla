------------------------------ MODULE MCWorker ------------------------------
(***************************************************************************)
(* A small instance of Worker: two ordinary users, root, and a name the OS *)
(* does not know; a group of each user, one that is nobody's, one that     *)
(* does not exist.                                                         *)
(***************************************************************************)
EXTENDS WorkerService

MCUsers == {"alice", "bob", "root", "ghost"}
MCGroupNames == {"NONE", "DEFAULT_GID", "users", "wheel", "nosuch"}
MCUidOf == [u \in MCUsers |-> CASE u = "alice" -> 1 [] u = "bob" -> 2 [] u = "root" -> 0
                                [] u = "ghost" -> -1]
MCGidOf == [u \in MCUsers |-> CASE u = "alice" -> 11 [] u = "bob" -> 12 [] u = "root" -> 0
                                [] u = "ghost" -> -1]
MCGidsOf == [u \in MCUsers |-> CASE u = "alice" -> {11, 20}
                                 [] u = "bob" -> {12} [] u = "root" -> {0}
                                 [] u = "ghost" -> {}]
MCGrpGid == [g \in MCGroupNames |-> CASE g = "users" -> 20 [] g = "wheel" -> 30
                                      [] OTHER -> -1]

Cfg(base, sw, se, en, fa, one, fw) ==
    [base |-> base, switch |-> sw, sessions |-> se, enforce |-> en,
     failInvalid |-> fa, oneShot |-> one, forwarder |-> fw]

\* root with and without sessions, unprivileged without and with the switch
\* (which then fails), one-shot, forwarding
MCConfigs ==
    {Cfg(0, TRUE, FALSE, TRUE, FALSE, FALSE, FALSE),
     Cfg(0, FALSE, TRUE, TRUE, TRUE, FALSE, FALSE),
     Cfg(5, FALSE, TRUE, TRUE, TRUE, FALSE, FALSE),
     Cfg(5, TRUE, FALSE, TRUE, TRUE, FALSE, FALSE),
     Cfg(5, FALSE, FALSE, TRUE, TRUE, TRUE, FALSE),
     Cfg(0, TRUE, TRUE, FALSE, FALSE, FALSE, TRUE)}

Rq(cmd, user, groups) == [cmd |-> cmd, user |-> user, groups |-> groups]

MCRequests ==
    {Rq("TSI_PING", NoIdentity, <<"NONE">>),
     Rq("unknown", NoIdentity, <<"NONE">>),
     Rq("TSI_EXECUTESCRIPT", "alice", <<"NONE">>),
     Rq("TSI_EXECUTESCRIPT", "alice", <<"wheel">>),
     Rq("TSI_SUBMIT", NoIdentity, <<"NONE">>),
     Rq("TSI_PUTFILECHUNK", "alice", <<"users", "DEFAULT_GID">>),
     Rq("TSI_LS", "root", <<"NONE">>),
     Rq("TSI_LS", "bob", <<"nosuch">>),
     Rq("TSI_FILE_ACL", "alice", <<"DEFAULT_GID">>),
     Rq("TSI_DF", "ghost", <<"NONE">>),
     Rq("_START_FORWARDING", "alice", <<"users">>)}
=============================================================================

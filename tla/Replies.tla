------------------------------ MODULE Replies ------------------------------
(***************************************************************************)
(* The commands of the TSI and what their functions may write on the       *)
(* control channel: the interface between the request loop (Worker) and    *)
(* the command functions (BatchSystem, FileFunctions).  Worker runs a      *)
(* function as any of these outcomes; the modules of the functions are     *)
(* checked to have no other.                                               *)
(***************************************************************************)

Forwarding == "_START_FORWARDING"
Ping == "TSI_PING"
Unknown == "unknown"

\* init_functions: the table of commands, by the way their functions reply
SpawnCommands ==
    {"TSI_EXECUTESCRIPT", "TSI_RUN_ON_LOGIN_NODE", "TSI_SUBMIT", "TSI_UFTP"}
DataCommands == {"TSI_GETFILECHUNK", "TSI_PUTFILECHUNK"}
PlainCommands ==
    SpawnCommands \cup
    {"TSI_PING_UID", "TSI_GET_USER_INFO", "TSI_DF", "TSI_GETSTATUSLISTING",
     "TSI_GETPROCESSLISTING", "TSI_GETJOBDETAILS", "TSI_GET_PARTITIONS",
     "TSI_ABORTJOB", "TSI_HOLDJOB", "TSI_RESUMEJOB", "TSI_GET_COMPUTE_BUDGET",
     "TSI_MAKE_RESERVATION", "TSI_QUERY_RESERVATION", "TSI_CANCEL_RESERVATION"}
Commands ==
    PlainCommands \cup DataCommands \cup
    {Ping, "TSI_LS", "TSI_FILE_ACL", Forwarding, Unknown}

\* The replies a function may write on the control channel and whether it
\* then raises: execute_script, df, the BSS calls and most others reply once,
\* a file transfer replies before it moves data and may fail after that, ls
\* may raise between its TSI_OK and its last line, and process_acl replies
\* never (NFS), once, or twice (a missing parameter is reported and the
\* command runs all the same).
Outcome(writes, raises) == [writes |-> writes, raises |-> raises]
OneReply ==
    {Outcome(<<>>, TRUE), Outcome(<<"OK">>, FALSE), Outcome(<<"FAILED">>, FALSE)}
DataReply ==
    {Outcome(<<>>, TRUE), Outcome(<<"OK", "END">>, FALSE),
     Outcome(<<"OK", "END">>, TRUE)}
ListReply == OneReply \cup {Outcome(<<"OK">>, TRUE)}
AclReply ==
    OneReply \cup {Outcome(<<>>, FALSE), Outcome(<<"FAILED">>, TRUE),
                   Outcome(<<"FAILED", "OK">>, FALSE),
                   Outcome(<<"FAILED", "FAILED">>, FALSE),
                   Outcome(<<"FAILED", "FAILED">>, TRUE),
                   Outcome(<<"FAILED", "FAILED", "FAILED">>, FALSE)}

Outcomes(cmd) ==
    IF cmd \in DataCommands THEN DataReply
    ELSE IF cmd = "TSI_LS" THEN ListReply
    ELSE IF cmd = "TSI_FILE_ACL" THEN AclReply
    ELSE OneReply
=============================================================================

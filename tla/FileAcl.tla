------------------------------ MODULE FileAcl ------------------------------
(***************************************************************************)
(* The file ACL functions (ACL.py) as operators: what process_acl replies, *)
(* and which setting of tsi.acl is found for a path.                       *)
(*                                                                         *)
(* A path is the sequence of its pieces, "/" being a piece of its own, so  *)
(* that /home and /home2 are <<"/", "home">> and <<"/", "home", "2">>.     *)
(* The setting is a sequence of entries, in the order of the file.         *)
(***************************************************************************)
EXTENDS Replies, Integers, SequencesExt

Missing == "missing"
Supports == {"POSIX", "NFS", "NONE"}
AclCommands == {"RM_ALL", "MODIFY", "RM", "other"}
Specs == [subject : {"U", "G", "other"}, words : 1 .. 3]
NoSpec == [subject |-> Missing, words |-> 0]

\* fault: the last entry that matches is taken
CheckSupportLast(acl, path) ==
    LET match == {i \in DOMAIN acl : IsPrefix(acl[i].path, path)}
    IN  IF match = {} THEN "NONE" ELSE acl[Max(match)].support

\* check_support: the entry with the longest match at the beginning of the path
CheckSupport(acl, path) ==
    LET match == {i \in DOMAIN acl : IsPrefix(acl[i].path, path)}
        best == {i \in match : \A k \in match : Len(acl[k].path) <= Len(acl[i].path)}
    IN  IF match = {} THEN "NONE" ELSE acl[Min(best)].support

\* an outcome that follows what is already written
After(written, outcome) == Outcome(written \o outcome.writes, outcome.raises)

\* getfacl_posix, and the last lines of setfacl_posix: the command may fail
RunsCommand == {Outcome(<<"OK">>, FALSE), Outcome(<<"FAILED">>, FALSE)}

\* prepare_posix_arg: the words it looks at are there
PreparePosixArgRaises(spec, remove) ==
    \/ spec.subject # "other" /\ spec.words < 2
    \/ ~remove /\ spec.words < 3

\* setfacl_posix
SetfaclPosix(command, spec) ==
    CASE command = Missing -> {Outcome(<<>>, TRUE)}
      [] command = "RM_ALL" -> RunsCommand
      [] command # "RM_ALL" /\ spec = NoSpec -> {Outcome(<<>>, TRUE)}
      [] command = "other" /\ spec # NoSpec -> {Outcome(<<"FAILED">>, FALSE)}
      [] OTHER -> IF PreparePosixArgRaises(spec, command = "RM")
                  THEN {Outcome(<<>>, TRUE)} ELSE RunsCommand

\* process_acl, operation GETFACL
Getfacl(support) ==
    CASE support = "POSIX" -> RunsCommand
      [] support = "NFS" -> {Outcome(<<>>, FALSE)}
      [] support = "NONE" -> {Outcome(<<"FAILED">>, FALSE)}

\* process_acl, operation SETFACL: a missing parameter is reported, and the
\* command is run all the same
Setfacl(support, command, spec) ==
    LET reported == (IF spec = NoSpec THEN <<"FAILED">> ELSE <<>>) \o
                    (IF command = Missing THEN <<"FAILED">> ELSE <<>>)
    IN  {After(reported, outcome) : outcome \in
            CASE support = "POSIX" -> SetfaclPosix(command, spec)
              [] support = "NFS" -> {Outcome(<<>>, FALSE)}
              [] support = "NONE" -> {Outcome(<<"FAILED">>, FALSE)}}

\* process_acl
ProcessAcl(operation, support, command, spec) ==
    CASE operation = "CHECK_SUPPORT" -> {Outcome(<<"OK">>, FALSE)}
      [] operation = "GETFACL" -> Getfacl(support)
      [] operation = "SETFACL" -> Setfacl(support, command, spec)
      [] operation = "other" -> {Outcome(<<"FAILED">>, FALSE)}

-----------------------------------------------------------------------------
(* What the manual says of tsi.acl: the setting of a directory is for        *)
(* everything under it, the most specific one is used.                       *)

IsUnder(path, dir) ==
    /\ IsPrefix(dir, path)
    /\ \/ dir = path
       \/ Last(dir) = "/"
       \/ path[Len(dir) + 1] = "/"

MostSpecific(acl, path) ==
    LET over == {i \in DOMAIN acl : IsUnder(path, acl[i].path)}
    IN  IF over = {} THEN "NONE"
        ELSE acl[CHOOSE i \in over : \A k \in over :
                     IsUnder(acl[i].path, acl[k].path)].support

\* a path without ".." that begins with no configured path it is not under
PlainPath(acl, path) ==
    /\ ".." \notin Range(path)
    /\ \A i \in DOMAIN acl : IsPrefix(acl[i].path, path) => IsUnder(path, acl[i].path)
=============================================================================

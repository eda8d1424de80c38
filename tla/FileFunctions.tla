--------------------------- MODULE FileFunctions ---------------------------
(***************************************************************************)
(* The functions for files that reply on the control channel only: the     *)
(* listing of directories (ls, list_directory and get_info of IO.py), df,  *)
(* and file ACLs (FileAcl), beside other processes that remove files.      *)
(*                                                                         *)
(* A file system is a set of nodes below a directory Top: what is in each  *)
(* directory, which nodes are symbolic links to Top, which directories can *)
(* be read, and which nodes have an owner that the system has a name for.  *)
(* A path is the sequence of nodes that lead to it; the kernel follows at  *)
(* most MaxLinks links in a path.                                          *)
(***************************************************************************)
EXTENDS FileAcl

CONSTANTS
    FileSystems,  \* the file systems to list
    Top,          \* the directory that is listed
    MaxLinks,     \* bound: links the kernel follows in a path
    AclSettings,  \* settings of tsi.acl
    AclRequests   \* requests for ACLs: operation, path, command and its argument

ASSUME MaxLinksAssumption == MaxLinks \in Nat

\* tsi.acl is a dictionary, so a path has one setting; one for the empty path
\* would never be used
ASSUME SettingsAssumption ==
    \A setting \in AclSettings :
        /\ setting \in Seq([path : Seq(STRING) \ {<<>>}, support : Supports])
        /\ \A i, k \in DOMAIN setting : setting[i].path = setting[k].path => i = k
ASSUME RequestsAssumption ==
    AclRequests \subseteq
        [operation : {"CHECK_SUPPORT", "GETFACL", "SETFACL", "other"}, path : Seq(STRING),
         command : AclCommands \cup {Missing}, spec : Specs \cup {NoSpec}]

VARIABLES
    settings,   \* tsi.acl of the configuration
    fs,         \* [in : directory |-> nodes, links, readable, named]
    present,    \* nodes that have not been removed
    pc,         \* "idle", "take", "listdir", "info", "single", "end"
    recursive,  \* TSI_LS_MODE is "R"
    stack,      \* list_directory: the path and the entries left, per call
    out,        \* the lines written after START_LISTING: a path or Up
    cut,        \* an OSError has ended the listing
    acl,        \* the path of the last ACL request and the support found for it
    reply       \* the command replied to and what was written

vars == <<settings, fs, present, pc, recursive, stack, out, cut, acl, reply>>
lsvars == <<recursive, stack, out, cut>>

Up == <<>>     \* the line "<"
NoReply == [cmd |-> "none", outcome |-> Outcome(<<>>, FALSE)]
NoAcl == [path |-> <<>>, support |-> "NONE"]

Nodes == {Top} \cup UNION Range(fs.in)
Target(node) == IF node \in fs.links THEN Top ELSE node
LinksIn(path) == Cardinality({i \in DOMAIN path : path[i] \in fs.links})

\* the kernel: stat of a path, and os.path.isdir
Resolves(path) == LinksIn(path) <= MaxLinks /\ \A i \in DOMAIN path : path[i] \in present
IsDir(path) == Resolves(path) /\ Target(Last(path)) \in DOMAIN fs.in
Contents(path) == fs.in[Target(Last(path))] \cap present

Init ==
    /\ settings \in AclSettings
    /\ fs \in FileSystems
    /\ present = Nodes
    /\ pc = "idle" /\ recursive = FALSE
    /\ stack = <<>> /\ out = <<>> /\ cut = FALSE
    /\ acl = NoAcl
    /\ reply = NoReply

\* another process removes a file, or a directory that is empty
FileRemoved ==
    \E node \in present \ {Top} :
        /\ node \in DOMAIN fs.in => fs.in[node] \cap present = {}
        /\ present' = present \ {node}
        /\ UNCHANGED <<settings, fs, pc, lsvars, acl, reply>>

Reply(cmd, outcome) ==
    /\ reply' = [cmd |-> cmd, outcome |-> outcome]
    /\ pc' = "idle"
    /\ stack' = <<>> /\ out' = <<>> /\ cut' = FALSE /\ recursive' = FALSE

-----------------------------------------------------------------------------
(* ls *)

\* fault: after the message about the mode, ls goes on
LsRefusedOn ==
    /\ pc = "idle"
    /\ Reply("TSI_LS", Outcome(<<"FAILED", "OK">>, FALSE))
    /\ acl' = NoAcl
    /\ UNCHANGED <<settings, fs, present>>

\* no path, or a mode that is none of R, A and N
LsRefused ==
    /\ pc = "idle"
    /\ \E outcome \in {Outcome(<<>>, TRUE), Outcome(<<"FAILED">>, FALSE)} :
        Reply("TSI_LS", outcome)
    /\ acl' = NoAcl
    /\ UNCHANGED <<settings, fs, present>>

\* START_LISTING is written; then a path that does not exist is listed as
\* nothing, a file (or mode A) as itself, a directory entry by entry
Ls ==
    /\ pc = "idle"
    /\ \E mode \in {"A", "N", "R"}, node \in Nodes :
        LET path == <<node>>
        IN  /\ pc' = IF ~Resolves(path) THEN "end"
                     ELSE IF IsDir(path) /\ mode # "A" THEN "listdir" ELSE "single"
            /\ recursive' = (mode = "R")
            /\ stack' = <<[path |-> path, left |-> {}, entry |-> node]>>
    /\ out' = <<>> /\ cut' = FALSE
    /\ acl' = NoAcl /\ reply' = NoReply
    /\ UNCHANGED <<settings, fs, present>>

Frame == stack[Len(stack)]
EntryPath == Append(Frame.path, Frame.entry)

\* fault: os.listdir is tried again until it succeeds
ListDirRetried ==
    /\ pc = "listdir"
    /\ IF IsDir(Frame.path) /\ Target(Last(Frame.path)) \in fs.readable
       THEN /\ stack' = [stack EXCEPT ![Len(stack)].left = Contents(Frame.path)]
            /\ pc' = "take"
       ELSE UNCHANGED <<stack, pc>>
    /\ UNCHANGED <<settings, fs, present, recursive, out, cut, acl, reply>>

\* os.listdir of the path on the stack: an OSError leaves all the calls of
\* list_directory, and the listing ends as if it were complete
ListDir ==
    /\ pc = "listdir"
    /\ IF IsDir(Frame.path) /\ Target(Last(Frame.path)) \in fs.readable
       THEN /\ stack' = [stack EXCEPT ![Len(stack)].left = Contents(Frame.path)]
            /\ pc' = "take" /\ cut' = cut
       ELSE /\ pc' = "end" /\ cut' = TRUE /\ stack' = stack
    /\ UNCHANGED <<settings, fs, present, recursive, out, acl, reply>>

\* the next entry, in the order of os.listdir, which is any
TakeEntry ==
    /\ pc = "take"
    /\ \E entry \in Frame.left :
        LET frame == [Frame EXCEPT !.left = @ \ {entry}, !.entry = entry]
            path == Append(Frame.path, entry)
            rest == [stack EXCEPT ![Len(stack)] = frame]
        IN  IF recursive /\ IsDir(path)
            THEN /\ stack' = Append(rest, [path |-> path, left |-> {}, entry |-> entry])
                 /\ pc' = "listdir"
            ELSE /\ stack' = rest
                 /\ pc' = "info"
    /\ UNCHANGED <<settings, fs, present, recursive, out, cut, acl, reply>>

\* list_directory returns; the caller writes "<" and goes on with the entry
\* of the directory itself
Return ==
    /\ pc = "take" /\ Frame.left = {}
    /\ IF Len(stack) = 1
       THEN pc' = "end" /\ UNCHANGED <<stack, out>>
       ELSE pc' = "info" /\ stack' = Front(stack) /\ out' = Append(out, Up)
    /\ UNCHANGED <<settings, fs, present, recursive, cut, acl, reply>>

\* fault: the exception is caught outside the loop over the entries
InfoOutside ==
    /\ pc = "info"
    /\ IF Resolves(EntryPath) /\ Target(Frame.entry) \in fs.named
       THEN out' = Append(out, EntryPath) /\ stack' = stack
       ELSE out' = out /\ stack' = [stack EXCEPT ![Len(stack)].left = {}]
    /\ pc' = "take"
    /\ UNCHANGED <<settings, fs, present, recursive, cut, acl, reply>>

\* get_info, any exception of which is dropped: the entry is left out when it
\* is gone, cannot be reached, or its owner or group has no name
Info ==
    /\ pc = "info"
    /\ out' = IF Resolves(EntryPath) /\ Target(Frame.entry) \in fs.named
              THEN Append(out, EntryPath) ELSE out
    /\ pc' = "take"
    /\ UNCHANGED <<settings, fs, present, recursive, stack, cut, acl, reply>>

\* get_info for a file or mode A: ls drops an OSError, but not the KeyError for
\* an owner without a name, which comes after TSI_OK
SingleInfo ==
    /\ pc = "single"
    /\ IF Resolves(Frame.path) /\ Target(Last(Frame.path)) \notin fs.named
       THEN Reply("TSI_LS", Outcome(<<"OK">>, TRUE))
       ELSE /\ pc' = "end"
            /\ cut' = ~Resolves(Frame.path)
            /\ out' = IF Resolves(Frame.path) THEN <<Frame.path>> ELSE <<>>
            /\ UNCHANGED <<recursive, stack, reply>>
    /\ UNCHANGED <<settings, fs, present, acl>>

\* END_LISTING
LsEnd ==
    /\ pc = "end"
    /\ Reply("TSI_LS", Outcome(<<"OK">>, FALSE))
    /\ UNCHANGED <<settings, fs, present, acl>>

-----------------------------------------------------------------------------
(* ACLs and df *)

FileAclRequest ==
    /\ pc = "idle"
    /\ \E rq \in AclRequests :
        LET support == CheckSupport(settings, rq.path)
        IN  /\ acl' = [path |-> rq.path, support |-> support]
            /\ \E outcome \in ProcessAcl(rq.operation, support, rq.command, rq.spec) :
                   Reply("TSI_FILE_ACL", outcome)
    /\ UNCHANGED <<settings, fs, present>>

\* a request without a path: abspath cannot be called
FileAclRaises ==
    /\ pc = "idle"
    /\ Reply("TSI_FILE_ACL", Outcome(<<>>, TRUE))
    /\ acl' = NoAcl
    /\ UNCHANGED <<settings, fs, present>>

Df ==
    /\ pc = "idle"
    /\ \E outcome \in {Outcome(<<>>, TRUE), Outcome(<<"OK">>, FALSE),
                       Outcome(<<"FAILED">>, FALSE)} : Reply("TSI_DF", outcome)
    /\ acl' = NoAcl
    /\ UNCHANGED <<settings, fs, present>>

LsStep == ListDir \/ TakeEntry \/ Return \/ Info \/ SingleInfo \/ LsEnd
Next == FileRemoved \/ LsRefused \/ Ls \/ LsStep \/ FileAclRequest \/ FileAclRaises \/ Df

\* a function that has started goes on: nothing in it waits
Fairness == WF_vars(LsStep)
Spec == Init /\ [][Next]_vars /\ Fairness

-----------------------------------------------------------------------------
(* Properties *)

\* The variables keep their types, and what ls, df and process_acl write is one
\* of the outcomes that the request loop is modelled with (Replies): never no
\* reply, or two, from any function but process_acl.
TypeOK ==
    /\ present \subseteq Nodes
    /\ pc \in {"idle", "take", "listdir", "info", "single", "end"}
    /\ recursive \in BOOLEAN /\ cut \in BOOLEAN
    /\ \A i \in DOMAIN stack :
        /\ stack[i].path \in Seq(Nodes)
        /\ stack[i].left \subseteq Nodes /\ stack[i].entry \in Nodes
    /\ out \in Seq(Seq(Nodes))
    /\ acl.support \in Supports
    /\ reply # NoReply => reply.outcome \in Outcomes(reply.cmd)

\* the directories that a listing is of; none if it is of a file, or mode A
Walked ==
    IF stack[1].path \in Range(out) THEN {}
    ELSE {stack[1].path} \cup IF recursive THEN Range(out) \ {Up} ELSE {}

\* ls: unless an OSError has cut the listing off, it has a line for everything
\* that is still there in the directory, and in mode R in every directory that
\* it has a line for (through links, as far as the kernel follows them), if its
\* owner has a name; no path has two lines.  Whatever is removed meanwhile.
ListingComplete ==
    pc = "end" /\ ~cut =>
        /\ \A dir \in Walked :
            IsDir(dir) =>
                \A node \in Contents(dir) :
                    Resolves(Append(dir, node)) /\ Target(node) \in fs.named =>
                        Append(dir, node) \in Range(out)
        /\ \A i, k \in DOMAIN out : out[i] = out[k] => i = k \/ out[i] = Up

\* list_directory comes to an end, in file systems with links back to the top as
\* well, and so does every ls, whatever is removed meanwhile.
ListingEnds == (pc # "idle") ~> (pc = "idle")

\* check_support finds the setting that the manual says is used: the most
\* specific of the directories that the path is in.  Left out: paths with ".."
\* (abs_path is computed and not used), and those that only begin with the name
\* of a configured directory, as /home2 does with /home.
AclAsConfigured ==
    PlainPath(settings, acl.path) => acl.support = MostSpecific(settings, acl.path)
=============================================================================

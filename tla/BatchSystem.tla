---------------------------- MODULE BatchSystem ----------------------------
(***************************************************************************)
(* The batch system functions of the TSI (BSSCommon.py and the variants    *)
(* NOBATCH, Slurm, Torque and LSF) beside the batch system itself, whose   *)
(* jobs go on while a listing is parsed.                                   *)
(*                                                                         *)
(* A job is the sequence of its tasks, each in one of the Phases; a job    *)
(* that the batch system has forgotten has no tasks.  A job is `known' if  *)
(* its id was told to UNICORE/X in the reply to the submission.  A line of *)
(* the status listing shows one task; in which order the lines come is the *)
(* batch system's choice, and so is the name for the task's phase, which   *)
(* is chosen when the line is parsed; `odd' tells in advance whether it is *)
(* a name that the tables of the TSI lack.                                 *)
(***************************************************************************)
EXTENDS BatchOptions, Replies, SequencesExt

CONSTANTS
    MaxJobs,    \* bound: jobs submitted in a behaviour
    MaxTasks,   \* bound: tasks of all of them
    Messages    \* the parameters of the submissions in mode "normal"

ASSUME BoundsAssumption == MaxJobs \in Nat /\ MaxTasks \in Nat
ASSUME MessagesAssumption ==
    Messages \subseteq Message /\ \A m \in Messages : IsFiniteSet(m.array)

VARIABLES
    variant,    \* get_variant() of the installed BSS.py
    jobs,       \* the jobs in the batch system, job id |-> tasks, array, known
    pc,         \* what the TSI is at: "idle", "submit", "parse"
    request,    \* the parameters of the submission in progress
    script,     \* the directives written for it
    lines,      \* the output of qstat_cmd, a set of lines
    left,       \* the lines that are not parsed yet
    states,     \* parse_status_listing: bssid |-> ustate
    asked,      \* jobs whose id UNICORE/X knew when qstat_cmd ran
    reply       \* the command replied to and what was written

vars == <<variant, jobs, pc, request, script, lines, left, states, asked, reply>>
submission == <<request, script>>
listing == <<lines, left, states, asked>>

Phases == {"waiting", "active", "held", "finished"}
NoRequest == [mode |-> "raw"]
NoReply == [cmd |-> "none", outcome |-> Outcome(<<>>, FALSE)]
NoId == -1
NoiseId == 0    \* a number that a login shell prints: it is no job of the user
JobIds == 1 .. MaxJobs

Line == [id : JobIds, task : Nat, array : BOOLEAN, phase : Phases, odd : BOOLEAN]
Job == [tasks : Seq(Phases), array : BOOLEAN, known : BOOLEAN]

Finished(j) == \A i \in DOMAIN jobs[j].tasks : jobs[j].tasks[i] = "finished"
TaskCount == FoldLeft(LAMBDA n, job : n + Len(job.tasks), 0, jobs)

Init ==
    /\ variant \in Variants
    /\ jobs = <<>>
    /\ pc = "idle"
    /\ request = NoRequest /\ script = NoOptions
    /\ lines = {} /\ left = {} /\ states = <<>> /\ asked = {}
    /\ reply = NoReply

\* a function has replied: the outcome, and its local variables are gone
Reply(cmd, outcome) ==
    /\ reply' = [cmd |-> cmd, outcome |-> outcome]
    /\ pc' = "idle"
    /\ request' = NoRequest /\ script' = NoOptions
    /\ lines' = {} /\ left' = {} /\ states' = <<>> /\ asked' = {}
    /\ UNCHANGED variant

OkReply == Outcome(<<"OK">>, FALSE)
FailedReply == Outcome(<<"FAILED">>, FALSE)
Raised == Outcome(<<>>, TRUE)

-----------------------------------------------------------------------------
(* The batch system *)

\* the ways a task goes on by itself or by an administrator's command
Moves(v) ==
    {<<"active", "finished">>, <<"active", "held">>, <<"held", "active">>,
     <<"held", "finished">>} \cup
    IF v = NoBatch THEN {}
    ELSE {<<"waiting", "active">>, <<"waiting", "held">>, <<"held", "waiting">>,
          <<"waiting", "finished">>}

TaskMoves ==
    \E j \in DOMAIN jobs : \E i \in DOMAIN jobs[j].tasks, phase \in Phases :
        /\ <<jobs[j].tasks[i], phase>> \in Moves(variant)
        /\ jobs' = [jobs EXCEPT ![j].tasks[i] = phase]
        /\ UNCHANGED <<variant, pc, submission, listing, reply>>

JobForgotten ==
    \E j \in DOMAIN jobs :
        /\ jobs[j].tasks # <<>> /\ Finished(j)
        /\ jobs' = [jobs EXCEPT ![j].tasks = <<>>]
        /\ UNCHANGED <<variant, pc, submission, listing, reply>>

\* the bounds leave room for the job of a submission
Room == Len(jobs) < MaxJobs /\ TaskCount + (IF variant = NoBatch THEN 2 ELSE 1) <= MaxTasks

\* a new job of n tasks
Enter(n, array, known) ==
    /\ TaskCount + n <= MaxTasks
    /\ jobs' = Append(jobs,
                  [tasks |-> [i \in 1 .. n |-> IF variant = NoBatch THEN "active"
                                               ELSE "waiting"],
                   array |-> array, known |-> known])

\* the names the batch systems have for the phases: the ones in the tables of
\* the TSI, and ones that are not
TableNames(v, phase) ==
    CASE v = Slurm /\ phase = "waiting" ->
            {"CONFIGURING", "PENDING", "RESV_DEL_HOLD", "REQUEUE_FED", "REQUEUE_HOLD"}
      [] v = Slurm /\ phase = "active" -> {"COMPLETING", "RUNNING", "SIGNALING", "STAGE_OUT"}
      [] v = Slurm /\ phase = "held" -> {"PREEMPTED", "STOPPED", "SUSPENDED"}
      [] v = Slurm /\ phase = "finished" ->
            {"BOOT_FAIL", "CANCELLED", "COMPLETED", "DEADLINE", "FAILED", "NODE_FAIL",
             "OUT_OF_MEMORY", "REVOKED", "TIMEOUT"}
      [] v = Torque /\ phase = "waiting" -> {"Q", "T", "W"}
      [] v = Torque /\ phase = "active" -> {"E", "R"}
      [] v = Torque /\ phase = "held" -> {"S", "H"}
      [] v = Torque /\ phase = "finished" -> {"C", "F"}
      [] v = LSF /\ phase = "waiting" -> {"PEND", "WAIT", "ZOMBI"}
      [] v = LSF /\ phase = "active" -> {"RUN", "POST_DONE", "POST_ERR"}
      [] v = LSF /\ phase = "held" -> {"PSUSP", "USUSP", "SSUSP"}
      [] v = LSF /\ phase = "finished" -> {"DONE", "EXIT"}
      [] v = NoBatch /\ phase = "held" -> {"T"}
      [] v = NoBatch /\ phase = "finished" -> {"Z"}
      [] OTHER -> {"S", "R", "D"}
OddNames(v, phase) ==
    CASE v = Slurm /\ phase = "active" -> {"RESIZING"}
      [] v = Slurm /\ phase = "held" -> {"SPECIAL_EXIT"}
      [] v = LSF /\ phase = "active" -> {"UNKWN"}
      [] OTHER -> {}

-----------------------------------------------------------------------------
(* Submission *)

\* mode "normal", and every mode of NOBATCH, which does not look at it
CreateScript ==
    /\ pc = "idle" /\ Room
    /\ \E m \in Messages :
        /\ ~ (variant = LSF /\ LsfRaises(m))
        /\ request' = m
        /\ script' = CreateSubmitScript(variant, m)
    /\ pc' = "submit"
    /\ reply' = NoReply
    /\ UNCHANGED <<variant, jobs, listing>>

\* mode "raw" with TSI_JOB_FILE: the user's own directives
RawScript ==
    /\ pc = "idle" /\ variant # NoBatch /\ Room
    /\ request' = NoRequest /\ script' = NoOptions
    /\ pc' = "submit"
    /\ reply' = NoReply
    /\ UNCHANGED <<variant, jobs, listing>>

\* mode "raw" without TSI_JOB_FILE, or a mode that is none of the three
SubmitRefused ==
    /\ pc = "idle" /\ variant # NoBatch
    /\ Reply("TSI_SUBMIT", FailedReply)
    /\ UNCHANGED jobs

\* no such directory, no such job file, a file that cannot be written, or the
\* parameters that LSF cannot divide by: there is no job then
SubmitRaises ==
    /\ pc = "idle"
    /\ Reply("TSI_SUBMIT", Raised)
    /\ UNCHANGED jobs

\* create_alloc_script: commands for salloc, which write the id of the allocation
\* to a file; the base class, and so Torque and LSF, has no commands
Allocates(v) == v = Slurm

\* mode "allocate": the commands are run in the background, where no commands
\* are a success as well
Allocate ==
    /\ pc = "idle" /\ variant # NoBatch /\ Room
    /\ Reply("TSI_SUBMIT", OkReply)
    /\ IF Allocates(variant) THEN Enter(1, FALSE, FALSE) ELSE UNCHANGED jobs

\* extract_job_id: the first number in the output; for Slurm the first one
\* after "Submitted"
ExtractJobId(output, id) ==
    CASE output = "silent" -> NoId
      [] output = "noisy" -> IF variant = Slurm THEN id ELSE NoiseId
      [] output = "plain" -> id

\* the number of tasks the batch system makes of the script
TaskChoices ==
    IF request = NoRequest THEN 1 .. MaxTasks ELSE {1}

\* NOBATCH starts the processes itself, a shell and the script, and makes the id
NoBatchStarted ==
    /\ pc = "submit" /\ variant = NoBatch
    /\ Enter(2, FALSE, TRUE)
    /\ Reply("TSI_SUBMIT", OkReply)

\* submit_cmd has made a job and the reply tells its id.  A login shell may
\* print a number first, another submit_cmd may print no id as expected.
SubmitDone ==
    /\ pc = "submit" /\ variant # NoBatch
    /\ \E n \in TaskChoices, output \in {"plain", "noisy", "silent"} :
        LET id == ExtractJobId(output, Len(jobs) + 1)
        IN  /\ Enter(n, script.array # {} \/ n > 1, id = Len(jobs) + 1)
            /\ Reply("TSI_SUBMIT", IF id = NoId THEN FailedReply ELSE OkReply)

SubmitFails ==
    /\ pc = "submit" /\ variant # NoBatch
    /\ Reply("TSI_SUBMIT", FailedReply)
    /\ UNCHANGED jobs

-----------------------------------------------------------------------------
(* The status listing *)

\* the lines of one job
Shown(j) ==
    {[id |-> j, task |-> i, array |-> jobs[j].array, phase |-> jobs[j].tasks[i],
      odd |-> FALSE] : i \in DOMAIN jobs[j].tasks}

\* qstat_cmd shows the jobs of one moment; bound: one odd name at most
GetStatusListing ==
    /\ pc = "idle"
    /\ LET shown == UNION {Shown(j) : j \in DOMAIN jobs}
           odds == {line \in shown : OddNames(variant, line.phase) # {}}
       IN  \E odd \in {{}} \cup {{line} : line \in odds} :
               lines' = {[line EXCEPT !.odd = line \in odd] : line \in shown}
    /\ asked' = {j \in DOMAIN jobs : jobs[j].known}
    /\ pc' = "parse"
    /\ left' = lines' /\ states' = <<>>
    /\ reply' = NoReply
    /\ UNCHANGED <<variant, jobs, submission>>

\* fault: the message is sent but the function goes on
ListingFailsOn ==
    /\ pc = "idle"
    /\ Reply("TSI_GETSTATUSLISTING", Outcome(<<"FAILED", "OK">>, FALSE))
    /\ UNCHANGED jobs

ListingFails ==
    /\ pc = "idle"
    /\ Reply("TSI_GETSTATUSLISTING", FailedReply)
    /\ UNCHANGED jobs

\* extract_info: the id in a line that shows a state by the given name, if the
\* line looks as expected

\* fault: the id must end at a blank, as it does for a job that is no array
SlurmInfoPlain(line) == IF line.array THEN NoId ELSE line.id

\* 177070_1 and 177071_[0-99] are lines of the jobs 177070 and 177071
SlurmInfo(line) == line.id

\* an array is shown as 123[].host, which is not matched, and F is none of the
\* letters looked for
TorqueInfo(line, name) == IF line.array \/ name = "F" THEN NoId ELSE line.id

LsfInfo(line) == line.id

\* a process that has ended has lost its arguments
NoBatchInfo(line, name) == IF name = "Z" THEN NoId ELSE line.id

ExtractInfo(v, line, name) ==
    CASE v = Slurm -> SlurmInfo(line)
      [] v = Torque -> TorqueInfo(line, name)
      [] v = LSF -> LsfInfo(line)
      [] v = NoBatch -> NoBatchInfo(line, name)

\* convert_status
SlurmDecoders ==
    [QUEUED |-> {"CONFIGURING", "PENDING", "RESV_DEL_HOLD", "REQUEUE_FED", "REQUEUE_HOLD"},
     RUNNING |-> {"COMPLETING", "RUNNING", "SIGNALING", "STAGE_OUT"},
     SUSPENDED |-> {"PREEMPTED", "STOPPED", "SUSPENDED"},
     COMPLETED |-> {"BOOT_FAIL", "CANCELLED", "COMPLETED", "DEADLINE", "FAILED",
                    "NODE_FAIL", "OUT_OF_MEMORY", "REVOKED", "TIMEOUT"}]
TorqueDecoders ==
    [QUEUED |-> {"Q", "T", "W"}, RUNNING |-> {"E", "R"}, SUSPENDED |-> {"S", "H"},
     COMPLETED |-> {"C", "F"}]
LsfDecoders ==
    [QUEUED |-> {"PEND", "WAIT", "ZOMBI"}, RUNNING |-> {"RUN", "POST_DONE", "POST_ERR"},
     SUSPENDED |-> {"PSUSP", "USUSP", "SSUSP"}, COMPLETED |-> {"DONE", "EXIT"}]
NoBatchStatus(name) == IF name = "T" THEN "SUSPENDED" ELSE "RUNNING"

Decode(decoders, name) ==
    LET found == {u \in DOMAIN decoders : name \in decoders[u]}
    IN  IF found = {} THEN "UNKNOWN" ELSE CHOOSE u \in found : TRUE

ConvertStatus(v, name) ==
    CASE v = Slurm -> Decode(SlurmDecoders, name)
      [] v = Torque -> Decode(TorqueDecoders, name)
      [] v = LSF -> Decode(LsfDecoders, name)
      [] v = NoBatch -> NoBatchStatus(name)

Ustates == <<"COMPLETED", "QUEUED", "SUSPENDED", "RUNNING", "UNKNOWN">>
Rank(ustate) == CHOOSE i \in DOMAIN Ustates : Ustates[i] = ustate

\* fault: the last line wins
MergeLast(have, id, ustate) ==
    [i \in DOMAIN have \cup {id} |-> IF i = id THEN ustate ELSE have[i]]

\* the dictionary after a line: the higher state is kept
Merge(have, id, ustate) ==
    IF id \in DOMAIN have /\ Rank(ustate) <= Rank(have[id]) THEN have
    ELSE [i \in DOMAIN have \cup {id} |-> IF i = id THEN ustate ELSE have[i]]

\* what may be read in a line, by the name that the batch system has for the
\* phase of the task
Reads(line) ==
    {[id |-> ExtractInfo(variant, line, name), ustate |-> ConvertStatus(variant, name)] :
        name \in IF line.odd THEN OddNames(variant, line.phase)
                 ELSE TableNames(variant, line.phase)}

\* the next line
ParseLine ==
    /\ pc = "parse"
    /\ \E line \in left :
        /\ \E read \in Reads(line) :
            states' = IF read.id = NoId THEN states ELSE Merge(states, read.id, read.ustate)
        /\ left' = left \ {line}
    /\ UNCHANGED <<variant, jobs, pc, submission, lines, asked, reply>>

ReplyListing ==
    /\ pc = "parse" /\ left = {}
    /\ Reply("TSI_GETSTATUSLISTING", OkReply)
    /\ UNCHANGED jobs

-----------------------------------------------------------------------------
(* Job control and the queries *)

\* the phases a command moves the tasks of a job to; hold and resume of NOBATCH
\* do nothing
Controlled(cmd, phase) ==
    CASE cmd = "TSI_ABORTJOB" -> "finished"
      [] cmd = "TSI_HOLDJOB" /\ variant # NoBatch /\ phase \in {"waiting", "active"} -> "held"
      [] cmd = "TSI_RESUMEJOB" /\ variant # NoBatch /\ phase = "held" -> "waiting"
      [] OTHER -> phase

ControlDone ==
    /\ pc = "idle"
    /\ \E cmd \in {"TSI_ABORTJOB", "TSI_HOLDJOB", "TSI_RESUMEJOB"}, j \in DOMAIN jobs :
        /\ jobs[j].known /\ jobs[j].tasks # <<>>
        /\ jobs' = [jobs EXCEPT ![j].tasks =
                        [i \in DOMAIN @ |-> Controlled(cmd, @[i])]]
        /\ Reply(cmd, OkReply)

\* the command fails, which hold and resume of NOBATCH cannot, or it does
\* nothing for an id that is no job's; without an id the commands cannot be made
ControlWithoutEffect ==
    /\ pc = "idle"
    /\ \E cmd \in {"TSI_ABORTJOB", "TSI_HOLDJOB", "TSI_RESUMEJOB"} :
        Reply(cmd, IF variant = NoBatch /\ cmd # "TSI_ABORTJOB" THEN OkReply ELSE FailedReply)
    /\ UNCHANGED jobs

ControlRaises ==
    /\ pc = "idle" /\ variant # NoBatch
    /\ \E cmd \in {"TSI_HOLDJOB", "TSI_RESUMEJOB"} : Reply(cmd, Raised)
    /\ UNCHANGED jobs

\* job details: without an id the command cannot be made; what is parsed is
\* whatever can be
DetailReplies(v) ==
    IF v = NoBatch THEN {OkReply} ELSE {OkReply, FailedReply, Raised}

\* partitions: for Slurm the nodes of a partition that is listed twice are added
\* to the dictionary kept for it, which raises
PartitionReplies(v) ==
    {OkReply, FailedReply} \cup IF v = Slurm THEN {Raised} ELSE {}

\* what the calls that only look may reply
QueryReplies(v) ==
    [TSI_GETPROCESSLISTING |-> {OkReply, FailedReply},
     TSI_GETJOBDETAILS |-> DetailReplies(v),
     TSI_GET_PARTITIONS |-> PartitionReplies(v),
     TSI_GET_COMPUTE_BUDGET |-> {OkReply},
     TSI_MAKE_RESERVATION |-> {FailedReply},
     TSI_QUERY_RESERVATION |-> {FailedReply},
     TSI_CANCEL_RESERVATION |-> {FailedReply}]

Query ==
    /\ pc = "idle"
    /\ \E cmd \in DOMAIN QueryReplies(variant) :
        \E outcome \in QueryReplies(variant)[cmd] : Reply(cmd, outcome)
    /\ UNCHANGED jobs

Next ==
    \/ TaskMoves \/ JobForgotten
    \/ CreateScript \/ RawScript \/ SubmitRefused \/ SubmitRaises \/ Allocate
    \/ NoBatchStarted \/ SubmitDone \/ SubmitFails
    \/ GetStatusListing \/ ListingFails \/ ParseLine \/ ReplyListing
    \/ ControlDone \/ ControlWithoutEffect \/ ControlRaises \/ Query

Spec == Init /\ [][Next]_vars

-----------------------------------------------------------------------------
(* Properties *)

\* The variables keep their types, and what a batch system function writes is
\* one of the outcomes that the request loop is modelled with (Replies), which
\* is what keeps its replies in step with the requests.
TypeOK ==
    /\ variant \in Variants
    /\ jobs \in Seq(Job) /\ Len(jobs) <= MaxJobs
    /\ pc \in {"idle", "submit", "parse"}
    /\ request \in Messages \cup {NoRequest}
    /\ script \in Script
    /\ lines \subseteq Line /\ left \subseteq lines
    /\ DOMAIN states \subseteq JobIds
    /\ \A id \in DOMAIN states : states[id] \in Range(Ustates)
    /\ asked \subseteq JobIds
    /\ reply # NoReply => reply.outcome \in Outcomes(reply.cmd)

\* the lines that parse_status_listing can see, of job j, in the listing
LinesOf(j) ==
    {line \in lines : line.id = j /\ ~ (variant = Torque /\ line.array)
                      /\ ~ (variant = NoBatch /\ line.phase = "finished")}
UstateOf(phase) ==
    CASE phase = "waiting" -> IF variant = NoBatch THEN "RUNNING" ELSE "QUEUED"
      [] phase = "active" -> "RUNNING"
      [] phase = "held" -> "SUSPENDED"
      [] phase = "finished" -> "COMPLETED"

\* parse_status_listing: when all lines are parsed, whatever the order of the
\* lines, a job is told in the state of its most advanced task (or as UNKNOWN if
\* the name of a task's state is); a job with a task that has not finished is
\* never told as completed.
ToldAsListed ==
    pc = "parse" /\ left = {} =>
        \A j \in JobIds :
            LET mine == LinesOf(j)
                ranks == {IF line.odd THEN Len(Ustates)
                          ELSE Rank(UstateOf(line.phase)) : line \in mine}
            IN  /\ j \in DOMAIN states => states[j] = Ustates[Max(ranks)]
                /\ j \notin DOMAIN states =>
                       mine = {} \/ (variant = Torque /\ ranks = {Rank("COMPLETED")})

\* get_status_listing against the jobs, which go on after qstat_cmd has run:
\* when the reply is sent, a job that UNICORE/X knew and that still has a task to
\* finish is in it, and not as completed, so that UNICORE/X goes on to ask.
\* (Arrays of Torque are the exception: extract_info does not find them.)
UnfinishedFollowed ==
    pc = "parse" /\ left = {} =>
        \A j \in asked :
            \/ Finished(j)
            \/ variant = Torque /\ jobs[j].array
            \/ j \in DOMAIN states /\ states[j] # "COMPLETED"

\* create_submit_script: the wall time and the number of processors that the
\* directives ask the batch system for are what the message asks for, whichever
\* way it does (nodes and processors per node, or a total).
ResourcesAsAsked ==
    pc = "submit" /\ request # NoRequest =>
        /\ TimeAsAsked(variant, request, script)
        /\ ProcessorsAsAsked(variant, request, script)

\* The documentation of #TSI_ARRAY: it "contains the list of array IDs", so a job
\* submitted with it has those array ids.  (The code takes it for a number.)
ArraysSubmitted ==
    pc = "submit" /\ request # NoRequest /\ variant # NoBatch =>
        script.array = request.array
=============================================================================

---------------------------- MODULE BatchOptions ----------------------------
(***************************************************************************)
(* What the batch system variants make of the #TSI_ parameters of a job:   *)
(* create_submit_script of Slurm, Torque and LSF, and the limits that the  *)
(* variant without a batch system puts on the command it starts.           *)
(*                                                                         *)
(* A message is a record: its numbers (Absent when not given or no         *)
(* number), the ids listed in #TSI_ARRAY, the names of the textual         *)
(* parameters that are given, and whether the site has a nodes filter.     *)
(* A script is a record of the directives in it.                           *)
(***************************************************************************)
EXTENDS Integers, FiniteSetsExt

NoBatch == "NOBATCH"
Slurm == "Slurm"
Torque == "Torque"
LSF == "LSF"
Variants == {NoBatch, Slurm, Torque, LSF}

Absent == -1
NodesFilter == "BSS_NODES_FILTER"
Umask == "UMASK"
TextParameters ==
    {"QUEUE", "PROJECT", "EMAIL", "RESERVATION_REFERENCE", NodesFilter, Umask,
     "QOS", "EXCLUSIVE", "SSR_COMMENT"}

Message ==
    [time : Int, nodes : Int, ppn : Int, total : Int, memory : Int, gpus : Int,
     array : SUBSET Nat, limit : Int, text : SUBSET TextParameters,
     filter : BOOLEAN]
Script ==
    [time : Int, nodes : Int, ppn : Int, tasks : Int, memory : Int, gpus : Int,
     array : SUBSET Nat, limit : Int, text : SUBSET TextParameters]

\* extract_number: a list of one id is a number, any other list is not
ExtractNumber(ids) == IF Cardinality(ids) = 1 THEN Min(ids) ELSE Absent

\* a directive that is written only for a number above 0
Positive(n) == IF n > 0 THEN n ELSE Absent

\* the directive for an array, and its limit, which only an array has
ArrayIds(m) == IF ExtractNumber(m.array) > 0 THEN {ExtractNumber(m.array)} ELSE {}
ArrayLimit(m) == IF ArrayIds(m) # {} THEN Positive(m.limit) ELSE Absent

\* no directive at all: the script of job mode "raw" has the user's own
NoOptions ==
    [time |-> Absent, nodes |-> Absent, ppn |-> Absent, tasks |-> Absent,
     memory |-> Absent, gpus |-> Absent, array |-> {}, limit |-> Absent, text |-> {}]

\* fault: the minimum of one minute is missing
SlurmCommonRounded(m) ==
    [NoOptions EXCEPT
        !.time = IF m.time > 0 THEN 60 * (m.time \div 60) ELSE Absent,
        !.nodes = Positive(m.nodes),
        !.ppn = IF m.nodes > 0 THEN Positive(m.ppn) ELSE Absent,
        !.tasks = IF m.nodes > 0 THEN Absent ELSE Positive(m.total),
        !.memory = m.memory, !.gpus = Positive(m.gpus), !.text = m.text \ {Umask}]

\* the options that sbatch and salloc have in common.  The time is written in
\* minutes, at least one; memory 0 asks for all the memory of a node.
SlurmCommon(m) ==
    [NoOptions EXCEPT
        !.time = IF m.time > 0 THEN 60 * Max({m.time \div 60, 1}) ELSE Absent,
        !.nodes = Positive(m.nodes),
        !.ppn = IF m.nodes > 0 THEN Positive(m.ppn) ELSE Absent,
        !.tasks = IF m.nodes > 0 THEN Absent ELSE Positive(m.total),
        !.memory = m.memory, !.gpus = Positive(m.gpus), !.text = m.text \ {Umask}]

SlurmScript(m) ==
    [SlurmCommon(m) EXCEPT !.array = ArrayIds(m), !.limit = ArrayLimit(m),
                           !.text = m.text]

\* Torque has no directive for memory, GPUs or the total of processors, and
\* heeds the user's nodes filter only beside one of the site
TorqueScript(m) ==
    [NoOptions EXCEPT
        !.time = Positive(m.time),
        !.nodes = Positive(m.nodes),
        !.ppn = IF m.nodes > 0 THEN Positive(m.ppn) ELSE Absent,
        !.array = ArrayIds(m), !.limit = ArrayLimit(m),
        !.text = m.text \cap ({"QUEUE", "PROJECT", "EMAIL", Umask, "RESERVATION_REFERENCE"}
                              \cup IF m.filter /\ m.nodes > 0 THEN {NodesFilter} ELSE {})]

\* LSF: minutes without a minimum, and 0 when no time is given; slots for the
\* processors; a umask directive whether or not a umask is given
LsfScript(m) ==
    [NoOptions EXCEPT
        !.time = IF m.time < 0 THEN 0 ELSE 60 * (m.time \div 60),
        !.tasks = IF m.total > 0 THEN m.total
                  ELSE IF m.nodes > 0 /\ m.ppn > 0 THEN m.nodes * m.ppn ELSE Absent,
        !.ppn = IF m.total <= 0 /\ m.nodes > 0 THEN Positive(m.ppn) ELSE Absent,
        !.gpus = Positive(m.gpus),
        !.array = ArrayIds(m), !.limit = ArrayLimit(m),
        !.text = {Umask} \cup
                 (m.text \cap {"QUEUE", "PROJECT", "EMAIL", "RESERVATION_REFERENCE"})]

\* the division of the memory by the processors per node
LsfRaises(m) == m.ppn = 0

\* the time limit of timeout and the memory limit of ulimit
NoBatchLimits(m) ==
    [NoOptions EXCEPT !.time = Positive(m.time), !.memory = Positive(m.memory)]

CreateSubmitScript(v, m) ==
    CASE v = Slurm -> SlurmScript(m)
      [] v = Torque -> TorqueScript(m)
      [] v = LSF -> LsfScript(m)
      [] v = NoBatch -> NoBatchLimits(m)

-----------------------------------------------------------------------------
(* What the directives get the user. *)

Processors(s) ==
    IF s.tasks # Absent THEN s.tasks
    ELSE IF s.nodes # Absent THEN s.nodes * Max({s.ppn, 1}) ELSE 1

\* Seconds granted for the seconds asked: none more, and less than a minute
\* fewer; a job shorter than a minute gets its time, or one minute.
TimeAsAsked(v, m, s) ==
    /\ m.time >= 60 => s.time \in m.time - 59 .. m.time
    /\ m.time \in 1 .. 59 /\ v # LSF => s.time \in {m.time, 60}

\* Processors granted for the ones asked for, in one of the two complete ways:
\* nodes and processors per node, or a total and nothing else.
ProcessorsAsAsked(v, m, s) ==
    v # NoBatch =>
        /\ m.nodes > 0 /\ m.ppn > 0 /\ m.total \in {Absent, m.nodes * m.ppn}
           => Processors(s) = m.nodes * m.ppn
        /\ m.total > 0 /\ m.nodes = Absent /\ m.ppn = Absent /\ v # Torque
           => Processors(s) = m.total
=============================================================================

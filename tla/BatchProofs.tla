---------------------------- MODULE BatchProofs ----------------------------
(***************************************************************************)
(* Theorems about the batch system functions, for any number of jobs and   *)
(* tasks and any parameters of the submissions: what is replied, what the  *)
(* directives ask for, and that a status listing tells the jobs as they    *)
(* are, while they go on.                                                  *)
(***************************************************************************)
EXTENDS BatchSystem, FiniteSetTheorems, TLAPS

-----------------------------------------------------------------------------
(* The directives *)

\* The larger of two numbers.
LEMMA MaxOfTwo ==
    ASSUME NEW a \in Int, NEW b \in Int
    PROVE  Max({a, b}) = IF a >= b THEN a ELSE b
<1>1. \E x \in {a, b} : \A y \in {a, b} : x >= y
  OBVIOUS
<1>2. Max({a, b}) \in {a, b} /\ \A y \in {a, b} : Max({a, b}) >= y
  BY <1>1 DEF Max
<1> QED
  BY <1>2

\* A list of one id is that id.
LEMMA NumberOfArray ==
    ASSUME NEW ids \in SUBSET Nat, IsFiniteSet(ids)
    PROVE  ExtractNumber(ids) \in Int
<1>1. CASE Cardinality(ids) = 1
  <2>1. PICK e : ids = {e}
    BY <1>1, FS_Singleton
  <2>2. e \in Nat
    BY <2>1
  <2>3. \E x \in ids : \A y \in ids : x <= y
    BY <2>1, <2>2
  <2>4. Min(ids) \in ids
    BY <2>3 DEF Min
  <2>5. Min(ids) \in Int
    BY <2>1, <2>2, <2>4
  <2> QED
    BY <1>1, <2>5 DEF ExtractNumber
<1>2. CASE Cardinality(ids) # 1
  BY <1>2 DEF ExtractNumber, Absent
<1> QED
  BY <1>1, <1>2

\* The directives of the array are an id and a number.
LEMMA ArrayTypes ==
    ASSUME NEW m \in Message, IsFiniteSet(m.array)
    PROVE  ArrayIds(m) \in SUBSET Nat /\ ArrayLimit(m) \in Int
<1>1. m.array \in SUBSET Nat /\ m.limit \in Int
  BY DEF Message
<1>2. ExtractNumber(m.array) \in Int
  BY <1>1, NumberOfArray
<1>3. ArrayIds(m) \in SUBSET Nat
  BY <1>2 DEF ArrayIds
<1> QED
  BY <1>1, <1>3 DEF ArrayLimit, Positive, Absent

\* create_submit_script of each variant.
LEMMA ScriptOf ==
    ASSUME NEW m
    PROVE  /\ CreateSubmitScript(Slurm, m) = SlurmScript(m)
           /\ CreateSubmitScript(Torque, m) = TorqueScript(m)
           /\ CreateSubmitScript(LSF, m) = LsfScript(m)
           /\ CreateSubmitScript(NoBatch, m) = NoBatchLimits(m)
  BY DEF CreateSubmitScript, Slurm, Torque, LSF, NoBatch

\* create_submit_script writes directives, whatever the parameters.
LEMMA ScriptTypes ==
    ASSUME NEW v \in Variants, NEW m \in Message, IsFiniteSet(m.array)
    PROVE  CreateSubmitScript(v, m) \in Script
<1>1. ArrayIds(m) \in SUBSET Nat /\ ArrayLimit(m) \in Int
  BY ArrayTypes
<1>2. /\ m.time \in Int /\ m.nodes \in Int /\ m.ppn \in Int /\ m.total \in Int
      /\ m.memory \in Int /\ m.gpus \in Int /\ m.text \in SUBSET TextParameters
  BY DEF Message
<1>3. /\ Positive(m.time) \in Int /\ Positive(m.nodes) \in Int /\ Positive(m.ppn) \in Int
      /\ Positive(m.total) \in Int /\ Positive(m.gpus) \in Int /\ Positive(m.memory) \in Int
  BY <1>2 DEF Positive, Absent
<1>4. NoOptions \in Script
  BY DEF NoOptions, Script, Absent
<1> DEFINE ppn == IF m.nodes > 0 THEN Positive(m.ppn) ELSE Absent
<1>5. ppn \in Int
  BY <1>2, <1>3 DEF Absent
<1>6. CASE v = Slurm
  <2> DEFINE time == IF m.time > 0 THEN 60 * Max({m.time \div 60, 1}) ELSE Absent
             tasks == IF m.nodes > 0 THEN Absent ELSE Positive(m.total)
             text == m.text \ {Umask}
  <2>1. Max({m.time \div 60, 1}) \in Int
    BY <1>2, MaxOfTwo
  <2>2. time \in Int /\ tasks \in Int /\ text \in SUBSET TextParameters
    BY <1>2, <1>3, <2>1 DEF Absent
  <2>3. SlurmCommon(m) \in Script
    <3> HIDE DEF time, tasks, text, ppn
    <3>1. [NoOptions EXCEPT !.time = time, !.nodes = Positive(m.nodes), !.ppn = ppn,
              !.tasks = tasks, !.memory = m.memory, !.gpus = Positive(m.gpus),
              !.text = text] \in Script
      BY <1>2, <1>3, <1>4, <1>5, <2>2 DEF Script
    <3> QED
      BY <3>1 DEF SlurmCommon, time, tasks, text, ppn
  <2>4. SlurmScript(m) \in Script
    BY <1>1, <1>2, <2>3 DEF Script, SlurmScript
  <2> QED
    BY <1>6, <2>4, ScriptOf
<1>7. CASE v = Torque
  <2> DEFINE text == m.text \cap
                 ({"QUEUE", "PROJECT", "EMAIL", Umask, "RESERVATION_REFERENCE"}
                  \cup IF m.filter /\ m.nodes > 0 THEN {NodesFilter} ELSE {})
  <2>1. text \in SUBSET TextParameters
    BY <1>2
  <2>2. TorqueScript(m) \in Script
    <3> HIDE DEF text, ppn
    <3>1. [NoOptions EXCEPT !.time = Positive(m.time), !.nodes = Positive(m.nodes),
              !.ppn = ppn, !.array = ArrayIds(m), !.limit = ArrayLimit(m),
              !.text = text] \in Script
      BY <1>1, <1>2, <1>3, <1>4, <1>5, <2>1 DEF Script
    <3> QED
      BY <3>1 DEF TorqueScript, text, ppn
  <2> QED
    BY <1>7, <2>2, ScriptOf
<1>8. CASE v = LSF
  <2> DEFINE time == IF m.time < 0 THEN 0 ELSE 60 * (m.time \div 60)
             tasks == IF m.total > 0 THEN m.total
                      ELSE IF m.nodes > 0 /\ m.ppn > 0 THEN m.nodes * m.ppn ELSE Absent
             each == IF m.total <= 0 /\ m.nodes > 0 THEN Positive(m.ppn) ELSE Absent
             text == {Umask} \cup
                     (m.text \cap {"QUEUE", "PROJECT", "EMAIL", "RESERVATION_REFERENCE"})
  <2>1. text \in SUBSET TextParameters
    BY <1>2 DEF TextParameters
  <2>2. time \in Int /\ tasks \in Int /\ each \in Int
    BY <1>2, <1>3 DEF Absent
  <2>3. LsfScript(m) \in Script
    <3> HIDE DEF time, tasks, each, text
    <3>1. [NoOptions EXCEPT !.time = time, !.tasks = tasks, !.ppn = each,
              !.gpus = Positive(m.gpus), !.array = ArrayIds(m), !.limit = ArrayLimit(m),
              !.text = text] \in Script
      BY <1>1, <1>2, <1>3, <1>4, <2>1, <2>2 DEF Script
    <3> QED
      BY <3>1 DEF LsfScript, time, tasks, each, text
  <2> QED
    BY <1>8, <2>3, ScriptOf
<1>9. CASE v = NoBatch
  <2>1. NoBatchLimits(m) \in Script
    BY <1>2, <1>3, <1>4 DEF Script, NoBatchLimits
  <2> QED
    BY <1>9, <2>1, ScriptOf
<1> QED
  BY <1>6, <1>7, <1>8, <1>9 DEF Variants

\* The directives of each variant for the time and the processors.
LEMMA Directives ==
    ASSUME NEW m
    PROVE  /\ SlurmScript(m).time =
                   IF m.time > 0 THEN 60 * Max({m.time \div 60, 1}) ELSE Absent
           /\ SlurmScript(m).nodes = Positive(m.nodes)
           /\ SlurmScript(m).ppn = IF m.nodes > 0 THEN Positive(m.ppn) ELSE Absent
           /\ SlurmScript(m).tasks = IF m.nodes > 0 THEN Absent ELSE Positive(m.total)
           /\ TorqueScript(m).time = Positive(m.time)
           /\ TorqueScript(m).nodes = Positive(m.nodes)
           /\ TorqueScript(m).ppn = IF m.nodes > 0 THEN Positive(m.ppn) ELSE Absent
           /\ TorqueScript(m).tasks = Absent
           /\ LsfScript(m).time = IF m.time < 0 THEN 0 ELSE 60 * (m.time \div 60)
           /\ LsfScript(m).tasks =
                   IF m.total > 0 THEN m.total
                   ELSE IF m.nodes > 0 /\ m.ppn > 0 THEN m.nodes * m.ppn ELSE Absent
           /\ NoBatchLimits(m).time = Positive(m.time)
<1>1. /\ SlurmScript(m).time =
              IF m.time > 0 THEN 60 * Max({m.time \div 60, 1}) ELSE Absent
      /\ SlurmScript(m).nodes = Positive(m.nodes)
      /\ SlurmScript(m).ppn = IF m.nodes > 0 THEN Positive(m.ppn) ELSE Absent
      /\ SlurmScript(m).tasks = IF m.nodes > 0 THEN Absent ELSE Positive(m.total)
  BY DEF SlurmScript, SlurmCommon, NoOptions
<1>2. /\ TorqueScript(m).time = Positive(m.time)
      /\ TorqueScript(m).nodes = Positive(m.nodes)
      /\ TorqueScript(m).ppn = IF m.nodes > 0 THEN Positive(m.ppn) ELSE Absent
      /\ TorqueScript(m).tasks = Absent
  BY DEF TorqueScript, NoOptions
<1>3. /\ LsfScript(m).time = IF m.time < 0 THEN 0 ELSE 60 * (m.time \div 60)
      /\ LsfScript(m).tasks =
              IF m.total > 0 THEN m.total
              ELSE IF m.nodes > 0 /\ m.ppn > 0 THEN m.nodes * m.ppn ELSE Absent
  BY DEF LsfScript, NoOptions
<1>4. NoBatchLimits(m).time = Positive(m.time)
  BY DEF NoBatchLimits, NoOptions
<1> QED
  BY <1>1, <1>2, <1>3, <1>4

\* The seconds that the directives ask for.
LEMMA TimeOfScript ==
    ASSUME NEW v \in Variants, NEW m \in Message
    PROVE  TimeAsAsked(v, m, CreateSubmitScript(v, m))
<1>1. m.time \in Int
  BY DEF Message
<1>2. CASE v = Slurm
  <2>1. CreateSubmitScript(v, m).time =
            IF m.time > 0 THEN 60 * Max({m.time \div 60, 1}) ELSE Absent
    BY <1>2, ScriptOf, Directives
  <2>2. Max({m.time \div 60, 1}) = IF m.time \div 60 >= 1 THEN m.time \div 60 ELSE 1
    BY <1>1, MaxOfTwo
  <2> QED
    BY <1>1, <2>1, <2>2 DEF TimeAsAsked
<1>3. CASE v = Torque
  <2>1. CreateSubmitScript(v, m).time = Positive(m.time)
    BY <1>3, ScriptOf, Directives
  <2> QED
    BY <1>1, <2>1 DEF TimeAsAsked, Positive
<1>4. CASE v = LSF
  <2>1. CreateSubmitScript(v, m).time = IF m.time < 0 THEN 0 ELSE 60 * (m.time \div 60)
    BY <1>4, ScriptOf, Directives
  <2> QED
    BY <1>1, <1>4, <2>1 DEF TimeAsAsked
<1>5. CASE v = NoBatch
  <2>1. CreateSubmitScript(v, m).time = Positive(m.time)
    BY <1>5, ScriptOf, Directives
  <2> QED
    BY <1>1, <2>1 DEF TimeAsAsked, Positive
<1> QED
  BY <1>2, <1>3, <1>4, <1>5 DEF Variants

\* The processors that the directives ask for.
LEMMA ProcessorsOfScript ==
    ASSUME NEW v \in Variants, NEW m \in Message
    PROVE  ProcessorsAsAsked(v, m, CreateSubmitScript(v, m))
<1> DEFINE s == CreateSubmitScript(v, m)
<1>1. m.nodes \in Int /\ m.ppn \in Int /\ m.total \in Int
  BY DEF Message
<1>2. \A a, b \in Int : a > 0 /\ b > 0 => a * b > 0
  OBVIOUS
<1>3. Max({m.ppn, 1}) = IF m.ppn >= 1 THEN m.ppn ELSE 1
  BY <1>1, MaxOfTwo
<1>4. CASE v = Slurm
  <2>0. s = SlurmScript(m)
    BY <1>4, ScriptOf
  <2>1. /\ s.nodes = Positive(m.nodes)
        /\ s.ppn = IF m.nodes > 0 THEN Positive(m.ppn) ELSE Absent
        /\ s.tasks = IF m.nodes > 0 THEN Absent ELSE Positive(m.total)
    BY <2>0, Directives
  <2> HIDE DEF s
  <2>2. ASSUME m.nodes > 0, m.ppn > 0
        PROVE  Processors(s) = m.nodes * m.ppn
    <3>1. s.tasks = Absent /\ s.nodes = m.nodes /\ s.ppn = m.ppn /\ s.nodes # Absent
      BY <1>1, <2>1, <2>2 DEF Positive, Absent
    <3> QED
      BY <1>1, <1>3, <2>2, <3>1 DEF Processors
  <2>3. ASSUME m.total > 0, m.nodes = Absent
        PROVE  Processors(s) = m.total
    BY <1>1, <2>1, <2>3 DEF Processors, Positive, Absent
  <2> QED
    BY <2>2, <2>3 DEF ProcessorsAsAsked, s
<1>5. CASE v = Torque
  <2>0. s = TorqueScript(m)
    BY <1>5, ScriptOf
  <2>1. /\ s.nodes = Positive(m.nodes)
        /\ s.ppn = IF m.nodes > 0 THEN Positive(m.ppn) ELSE Absent
        /\ s.tasks = Absent
    BY <2>0, Directives
  <2> HIDE DEF s
  <2>2. ASSUME m.nodes > 0, m.ppn > 0
        PROVE  Processors(s) = m.nodes * m.ppn
    <3>1. s.tasks = Absent /\ s.nodes = m.nodes /\ s.ppn = m.ppn /\ s.nodes # Absent
      BY <1>1, <2>1, <2>2 DEF Positive, Absent
    <3> QED
      BY <1>1, <1>3, <2>2, <3>1 DEF Processors
  <2> QED
    BY <1>5, <2>2 DEF ProcessorsAsAsked, s
<1>6. CASE v = LSF
  <2>0. s = LsfScript(m)
    BY <1>6, ScriptOf
  <2>1. s.tasks = IF m.total > 0 THEN m.total
                  ELSE IF m.nodes > 0 /\ m.ppn > 0 THEN m.nodes * m.ppn ELSE Absent
    BY <2>0, Directives
  <2> HIDE DEF s
  <2>2. ASSUME m.nodes > 0, m.ppn > 0, m.total \in {Absent, m.nodes * m.ppn}
        PROVE  Processors(s) = m.nodes * m.ppn
    <3>1. m.nodes * m.ppn > 0 /\ m.nodes * m.ppn \in Int
      BY <1>1, <1>2, <2>2
    <3>2. s.tasks = m.nodes * m.ppn
      BY <1>1, <2>1, <2>2, <3>1 DEF Absent
    <3> QED
      BY <3>1, <3>2 DEF Processors, Absent
  <2>3. ASSUME m.total > 0
        PROVE  Processors(s) = m.total
    BY <1>1, <2>1, <2>3 DEF Processors, Absent
  <2> QED
    BY <2>2, <2>3 DEF ProcessorsAsAsked, s
<1>7. CASE v = NoBatch
  BY <1>7 DEF ProcessorsAsAsked
<1> QED
  BY <1>4, <1>5, <1>6, <1>7 DEF Variants

-----------------------------------------------------------------------------
(* The names of the states *)

\* Decode finds the state whose names hold the name.
LEMMA DecodeFinds ==
    ASSUME NEW decoders, NEW name, NEW u \in DOMAIN decoders, name \in decoders[u],
           \A w \in DOMAIN decoders : name \in decoders[w] => w = u
    PROVE  Decode(decoders, name) = u
<1> DEFINE found == {w \in DOMAIN decoders : name \in decoders[w]}
<1>1. found = {u}
  OBVIOUS
<1>2. (CHOOSE w \in found : TRUE) = u
  <2> HIDE DEF found
  <2> QED
    BY <1>1
<1> QED
  BY <1>1, <1>2 DEF Decode

\* Decode knows no state of another name.
LEMMA DecodeMisses ==
    ASSUME NEW decoders, NEW name, \A w \in DOMAIN decoders : name \notin decoders[w]
    PROVE  Decode(decoders, name) = "UNKNOWN"
  BY DEF Decode

\* the state that is told for a line of a phase
PhaseUstate(v, phase) ==
    CASE phase = "waiting" -> IF v = NoBatch THEN "RUNNING" ELSE "QUEUED"
      [] phase = "active" -> "RUNNING"
      [] phase = "held" -> "SUSPENDED"
      [] phase = "finished" -> "COMPLETED"

LEMMA PhaseUstates ==
    ASSUME NEW v
    PROVE  /\ PhaseUstate(v, "waiting") = IF v = NoBatch THEN "RUNNING" ELSE "QUEUED"
           /\ PhaseUstate(v, "active") = "RUNNING"
           /\ PhaseUstate(v, "held") = "SUSPENDED"
           /\ PhaseUstate(v, "finished") = "COMPLETED"
  BY DEF PhaseUstate

\* The tables of Slurm have the names of Slurm in the right places.
LEMMA SlurmNames ==
    ASSUME NEW phase \in Phases, NEW name \in TableNames(Slurm, phase)
    PROVE  Decode(SlurmDecoders, name) = PhaseUstate(Slurm, phase)
<1> DEFINE D == SlurmDecoders
<1>1. DOMAIN D = {"QUEUED", "RUNNING", "SUSPENDED", "COMPLETED"}
  BY DEF SlurmDecoders
<1>2. CASE phase = "waiting"
  <2>1. name \in {"CONFIGURING", "PENDING", "RESV_DEL_HOLD", "REQUEUE_FED", "REQUEUE_HOLD"}
    BY <1>2 DEF TableNames, Slurm, Torque, LSF, NoBatch
  <2>2. name \in D["QUEUED"] /\ \A w \in DOMAIN D : name \in D[w] => w = "QUEUED"
    BY <2>1 DEF SlurmDecoders
  <2> QED
    BY <1>1, <1>2, <2>2, DecodeFinds, PhaseUstates DEF Slurm, NoBatch
<1>3. CASE phase = "active"
  <2>1. name \in {"COMPLETING", "RUNNING", "SIGNALING", "STAGE_OUT"}
    BY <1>3 DEF TableNames, Slurm, Torque, LSF, NoBatch
  <2>2. name \in D["RUNNING"] /\ \A w \in DOMAIN D : name \in D[w] => w = "RUNNING"
    BY <2>1 DEF SlurmDecoders
  <2> QED
    BY <1>1, <1>3, <2>2, DecodeFinds, PhaseUstates
<1>4. CASE phase = "held"
  <2>1. name \in {"PREEMPTED", "STOPPED", "SUSPENDED"}
    BY <1>4 DEF TableNames, Slurm, Torque, LSF, NoBatch
  <2>2. name \in D["SUSPENDED"] /\ \A w \in DOMAIN D : name \in D[w] => w = "SUSPENDED"
    BY <2>1 DEF SlurmDecoders
  <2> QED
    BY <1>1, <1>4, <2>2, DecodeFinds, PhaseUstates
<1>5. CASE phase = "finished"
  <2>1. name \in {"BOOT_FAIL", "CANCELLED", "COMPLETED", "DEADLINE", "FAILED", "NODE_FAIL",
                  "OUT_OF_MEMORY", "REVOKED", "TIMEOUT"}
    BY <1>5 DEF TableNames, Slurm, Torque, LSF, NoBatch
  <2>2. name \in D["COMPLETED"] /\ \A w \in DOMAIN D : name \in D[w] => w = "COMPLETED"
    BY <2>1 DEF SlurmDecoders
  <2> QED
    BY <1>1, <1>5, <2>2, DecodeFinds, PhaseUstates
<1> QED
  BY <1>2, <1>3, <1>4, <1>5 DEF Phases

\* The tables of Torque have the names of Torque in the right places.
LEMMA TorqueNames ==
    ASSUME NEW phase \in Phases, NEW name \in TableNames(Torque, phase)
    PROVE  /\ Decode(TorqueDecoders, name) = PhaseUstate(Torque, phase)
           /\ name = "F" => phase = "finished"
<1> DEFINE D == TorqueDecoders
<1>1. DOMAIN D = {"QUEUED", "RUNNING", "SUSPENDED", "COMPLETED"}
  BY DEF TorqueDecoders
<1>2. CASE phase = "waiting"
  <2>1. name \in {"Q", "T", "W"}
    BY <1>2 DEF TableNames, Slurm, Torque, LSF, NoBatch
  <2>2. name \in D["QUEUED"] /\ \A w \in DOMAIN D : name \in D[w] => w = "QUEUED"
    BY <2>1 DEF TorqueDecoders
  <2> QED
    BY <1>1, <1>2, <2>1, <2>2, DecodeFinds, PhaseUstates DEF Torque, NoBatch
<1>3. CASE phase = "active"
  <2>1. name \in {"E", "R"}
    BY <1>3 DEF TableNames, Slurm, Torque, LSF, NoBatch
  <2>2. name \in D["RUNNING"] /\ \A w \in DOMAIN D : name \in D[w] => w = "RUNNING"
    BY <2>1 DEF TorqueDecoders
  <2> QED
    BY <1>1, <1>3, <2>1, <2>2, DecodeFinds, PhaseUstates
<1>4. CASE phase = "held"
  <2>1. name \in {"S", "H"}
    BY <1>4 DEF TableNames, Slurm, Torque, LSF, NoBatch
  <2>2. name \in D["SUSPENDED"] /\ \A w \in DOMAIN D : name \in D[w] => w = "SUSPENDED"
    BY <2>1 DEF TorqueDecoders
  <2> QED
    BY <1>1, <1>4, <2>1, <2>2, DecodeFinds, PhaseUstates
<1>5. CASE phase = "finished"
  <2>1. name \in {"C", "F"}
    BY <1>5 DEF TableNames, Slurm, Torque, LSF, NoBatch
  <2>2. name \in D["COMPLETED"] /\ \A w \in DOMAIN D : name \in D[w] => w = "COMPLETED"
    BY <2>1 DEF TorqueDecoders
  <2> QED
    BY <1>1, <1>5, <2>2, DecodeFinds, PhaseUstates
<1> QED
  BY <1>2, <1>3, <1>4, <1>5 DEF Phases

\* The tables of LSF have the names of LSF in the right places.
LEMMA LsfNames ==
    ASSUME NEW phase \in Phases, NEW name \in TableNames(LSF, phase)
    PROVE  Decode(LsfDecoders, name) = PhaseUstate(LSF, phase)
<1> DEFINE D == LsfDecoders
<1>1. DOMAIN D = {"QUEUED", "RUNNING", "SUSPENDED", "COMPLETED"}
  BY DEF LsfDecoders
<1>2. CASE phase = "waiting"
  <2>1. name \in {"PEND", "WAIT", "ZOMBI"}
    BY <1>2 DEF TableNames, Slurm, Torque, LSF, NoBatch
  <2>2. name \in D["QUEUED"] /\ \A w \in DOMAIN D : name \in D[w] => w = "QUEUED"
    BY <2>1 DEF LsfDecoders
  <2> QED
    BY <1>1, <1>2, <2>2, DecodeFinds, PhaseUstates DEF LSF, NoBatch
<1>3. CASE phase = "active"
  <2>1. name \in {"RUN", "POST_DONE", "POST_ERR"}
    BY <1>3 DEF TableNames, Slurm, Torque, LSF, NoBatch
  <2>2. name \in D["RUNNING"] /\ \A w \in DOMAIN D : name \in D[w] => w = "RUNNING"
    BY <2>1 DEF LsfDecoders
  <2> QED
    BY <1>1, <1>3, <2>2, DecodeFinds, PhaseUstates
<1>4. CASE phase = "held"
  <2>1. name \in {"PSUSP", "USUSP", "SSUSP"}
    BY <1>4 DEF TableNames, Slurm, Torque, LSF, NoBatch
  <2>2. name \in D["SUSPENDED"] /\ \A w \in DOMAIN D : name \in D[w] => w = "SUSPENDED"
    BY <2>1 DEF LsfDecoders
  <2> QED
    BY <1>1, <1>4, <2>2, DecodeFinds, PhaseUstates
<1>5. CASE phase = "finished"
  <2>1. name \in {"DONE", "EXIT"}
    BY <1>5 DEF TableNames, Slurm, Torque, LSF, NoBatch
  <2>2. name \in D["COMPLETED"] /\ \A w \in DOMAIN D : name \in D[w] => w = "COMPLETED"
    BY <2>1 DEF LsfDecoders
  <2> QED
    BY <1>1, <1>5, <2>2, DecodeFinds, PhaseUstates
<1> QED
  BY <1>2, <1>3, <1>4, <1>5 DEF Phases

\* A process that is not stopped is running; one that has ended is shown as Z.
LEMMA NoBatchNames ==
    ASSUME NEW phase \in Phases, NEW name \in TableNames(NoBatch, phase)
    PROVE  /\ phase # "finished" => NoBatchStatus(name) = PhaseUstate(NoBatch, phase)
           /\ name = "Z" <=> phase = "finished"
<1>1. CASE phase = "waiting"
  BY <1>1, PhaseUstates DEF TableNames, NoBatchStatus, Slurm, Torque, LSF, NoBatch
<1>2. CASE phase = "active"
  BY <1>2, PhaseUstates DEF TableNames, NoBatchStatus, Slurm, Torque, LSF, NoBatch
<1>3. CASE phase = "held"
  BY <1>3, PhaseUstates DEF TableNames, NoBatchStatus, Slurm, Torque, LSF, NoBatch
<1>4. CASE phase = "finished"
  BY <1>4, PhaseUstates DEF TableNames, NoBatchStatus, Slurm, Torque, LSF, NoBatch
<1> QED
  BY <1>1, <1>2, <1>3, <1>4 DEF Phases

\* A name that the tables lack is told as UNKNOWN; only Slurm and LSF have one.
LEMMA OddIsUnknown ==
    ASSUME NEW v \in Variants, NEW phase \in Phases, NEW name \in OddNames(v, phase)
    PROVE  v \in {Slurm, LSF} /\ ConvertStatus(v, name) = "UNKNOWN"
<1>1. CASE v = Slurm
  <2>1. name \in {"RESIZING", "SPECIAL_EXIT"}
    BY <1>1 DEF OddNames, Slurm, LSF, Phases
  <2>2. \A w \in DOMAIN SlurmDecoders : name \notin SlurmDecoders[w]
    BY <2>1 DEF SlurmDecoders
  <2> QED
    BY <1>1, <2>2, DecodeMisses DEF ConvertStatus, Slurm, Torque, LSF, NoBatch
<1>2. CASE v = LSF
  <2>1. name \in {"UNKWN"}
    BY <1>2 DEF OddNames, Slurm, LSF, Phases
  <2>2. \A w \in DOMAIN LsfDecoders : name \notin LsfDecoders[w]
    BY <2>1 DEF LsfDecoders
  <2> QED
    BY <1>2, <2>2, DecodeMisses DEF ConvertStatus, Slurm, Torque, LSF, NoBatch
<1>3. CASE v \notin {Slurm, LSF}
  BY <1>3 DEF OddNames
<1> QED
  BY <1>1, <1>2, <1>3

\* The order of the states.
LEMMA Ranks ==
    /\ Len(Ustates) = 5
    /\ Range(Ustates) = {"COMPLETED", "QUEUED", "SUSPENDED", "RUNNING", "UNKNOWN"}
    /\ Rank("COMPLETED") = 1 /\ Rank("QUEUED") = 2 /\ Rank("SUSPENDED") = 3
    /\ Rank("RUNNING") = 4 /\ Rank("UNKNOWN") = 5
    /\ \A u \in Range(Ustates) : Rank(u) \in Int /\ Ustates[Rank(u)] = u
<1>1. /\ Len(Ustates) = 5 /\ DOMAIN Ustates = 1 .. 5
      /\ Ustates[1] = "COMPLETED" /\ Ustates[2] = "QUEUED" /\ Ustates[3] = "SUSPENDED"
      /\ Ustates[4] = "RUNNING" /\ Ustates[5] = "UNKNOWN"
  BY DEF Ustates
<1>2. \A i \in 1 .. 5 : i = 1 \/ i = 2 \/ i = 3 \/ i = 4 \/ i = 5
  OBVIOUS
<1> HIDE DEF Ustates
<1>3. Range(Ustates) = {"COMPLETED", "QUEUED", "SUSPENDED", "RUNNING", "UNKNOWN"}
  BY <1>1, <1>2 DEF Range
<1>4. ASSUME NEW u, NEW i \in 1 .. 5, Ustates[i] = u
      PROVE  Rank(u) = i
  <2>1. \A k \in 1 .. 5 : Ustates[k] = u => k = i
    BY <1>1, <1>2, <1>4
  <2> QED
    BY <1>1, <1>4, <2>1 DEF Rank
<1>5. /\ Rank("COMPLETED") = 1 /\ Rank("QUEUED") = 2 /\ Rank("SUSPENDED") = 3
      /\ Rank("RUNNING") = 4 /\ Rank("UNKNOWN") = 5
  BY <1>1, <1>4
<1> QED
  BY <1>1, <1>3, <1>5

\* the rank that a line gives its job
LineRank(line) ==
    IF line.odd THEN Len(Ustates) ELSE Rank(UstateOf(line.phase))

\* A line of a task that has not finished ranks above the completed ones.
LEMMA LineRanks ==
    ASSUME NEW line \in Line
    PROVE  /\ LineRank(line) \in 1 .. 5
           /\ line.phase # "finished" => LineRank(line) > 1
<1>1. line.phase \in Phases /\ line.odd \in BOOLEAN
  BY DEF Line
<1>2. CASE line.odd
  BY <1>2, Ranks DEF LineRank
<1>3. CASE ~ line.odd
  <2>1. LineRank(line) = Rank(UstateOf(line.phase))
    BY <1>3 DEF LineRank
  <2>2. UstateOf(line.phase) \in {"COMPLETED", "QUEUED", "SUSPENDED", "RUNNING"}
    BY <1>1 DEF UstateOf, Phases
  <2>3. line.phase # "finished" => UstateOf(line.phase) # "COMPLETED"
    BY <1>1 DEF UstateOf, Phases
  <2> QED
    BY <2>1, <2>2, <2>3, Ranks
<1> QED
  BY <1>2, <1>3

\* The state read in a line, and the id, if it is found.
LEMMA ReadLine ==
    ASSUME variant \in Variants, NEW line \in Line, line \in lines, NEW read \in Reads(line)
    PROVE  /\ read.ustate \in Range(Ustates)
           /\ read.id # NoId =>
                  /\ read.id = line.id /\ line \in LinesOf(line.id)
                  /\ Rank(read.ustate) = LineRank(line)
           /\ read.id = NoId =>
                  \/ line \notin LinesOf(line.id)
                  \/ variant = Torque /\ LineRank(line) = 1
<1>1. line.phase \in Phases /\ line.odd \in BOOLEAN /\ line.array \in BOOLEAN
  BY DEF Line
<1>2. line.id # NoId
  BY BoundsAssumption DEF Line, JobIds, NoId
<1>3. PICK name \in IF line.odd THEN OddNames(variant, line.phase)
                    ELSE TableNames(variant, line.phase) :
          /\ read.id = ExtractInfo(variant, line, name)
          /\ read.ustate = ConvertStatus(variant, name)
  BY DEF Reads
<1>4. UstateOf(line.phase) = PhaseUstate(variant, line.phase)
  BY DEF UstateOf, PhaseUstate
<1>5. PhaseUstate(variant, line.phase) \in Range(Ustates)
  BY <1>1, PhaseUstates, Ranks DEF Phases
<1>6. CASE line.odd
  <2>1. variant \in {Slurm, LSF} /\ read.ustate = "UNKNOWN"
    BY <1>1, <1>3, <1>6, OddIsUnknown
  <2>2. read.id = line.id
    BY <1>3, <2>1 DEF ExtractInfo, SlurmInfo, LsfInfo, Slurm, Torque, LSF, NoBatch
  <2>3. line \in LinesOf(line.id)
    BY <2>1 DEF LinesOf, Slurm, Torque, LSF, NoBatch
  <2> QED
    BY <1>2, <1>6, <2>1, <2>2, <2>3, Ranks DEF LineRank
<1>7. CASE ~ line.odd
  <2>1. name \in TableNames(variant, line.phase)
    BY <1>3, <1>7
  <2>2. LineRank(line) = Rank(PhaseUstate(variant, line.phase))
    BY <1>4, <1>7 DEF LineRank
  <2>3. CASE variant = Slurm
    <3>1. read.id = line.id
      BY <1>3, <2>3 DEF ExtractInfo, SlurmInfo, Slurm, Torque, LSF, NoBatch
    <3>2. read.ustate = PhaseUstate(variant, line.phase)
      <4>1. ConvertStatus(variant, name) = Decode(SlurmDecoders, name)
        BY <2>3 DEF ConvertStatus, Slurm, Torque, LSF, NoBatch
      <4> QED
        BY <1>1, <1>3, <2>1, <2>3, <4>1, SlurmNames
    <3>3. line \in LinesOf(line.id)
      BY <2>3 DEF LinesOf, Slurm, Torque, NoBatch
    <3> QED
      BY <1>2, <1>5, <2>2, <3>1, <3>2, <3>3
  <2>4. CASE variant = Torque
    <3>1. read.id = IF line.array \/ name = "F" THEN NoId ELSE line.id
      BY <1>3, <2>4 DEF ExtractInfo, TorqueInfo, Slurm, Torque, LSF, NoBatch
    <3>2. /\ read.ustate = PhaseUstate(variant, line.phase)
          /\ name = "F" => line.phase = "finished"
      <4>1. ConvertStatus(variant, name) = Decode(TorqueDecoders, name)
        BY <2>4 DEF ConvertStatus, Slurm, Torque, LSF, NoBatch
      <4> QED
        BY <1>1, <1>3, <2>1, <2>4, <4>1, TorqueNames
    <3>3. line \in LinesOf(line.id) <=> ~ line.array
      BY <2>4 DEF LinesOf, Torque, NoBatch
    <3>4. name = "F" => LineRank(line) = 1
      BY <2>2, <3>2, PhaseUstates, Ranks
    <3> QED
      BY <1>2, <1>5, <2>2, <2>4, <3>1, <3>2, <3>3, <3>4
  <2>5. CASE variant = LSF
    <3>1. read.id = line.id
      BY <1>3, <2>5 DEF ExtractInfo, LsfInfo, Slurm, Torque, LSF, NoBatch
    <3>2. read.ustate = PhaseUstate(variant, line.phase)
      <4>1. ConvertStatus(variant, name) = Decode(LsfDecoders, name)
        BY <2>5 DEF ConvertStatus, Slurm, Torque, LSF, NoBatch
      <4> QED
        BY <1>1, <1>3, <2>1, <2>5, <4>1, LsfNames
    <3>3. line \in LinesOf(line.id)
      BY <2>5 DEF LinesOf, LSF, Torque, NoBatch
    <3> QED
      BY <1>2, <1>5, <2>2, <3>1, <3>2, <3>3
  <2>6. CASE variant = NoBatch
    <3>1. read.id = IF name = "Z" THEN NoId ELSE line.id
      BY <1>3, <2>6 DEF ExtractInfo, NoBatchInfo, Slurm, Torque, LSF, NoBatch
    <3>2. /\ line.phase # "finished" => read.ustate = PhaseUstate(variant, line.phase)
          /\ name = "Z" <=> line.phase = "finished"
          /\ read.ustate \in Range(Ustates)
      <4>1. ConvertStatus(variant, name) = NoBatchStatus(name)
        BY <2>6 DEF ConvertStatus, Slurm, Torque, LSF, NoBatch
      <4>2. NoBatchStatus(name) \in Range(Ustates)
        BY Ranks DEF NoBatchStatus
      <4> QED
        BY <1>1, <1>3, <2>1, <2>6, <4>1, <4>2, NoBatchNames
    <3>3. line \in LinesOf(line.id) <=> line.phase # "finished"
      BY <2>6 DEF LinesOf, Torque, NoBatch
    <3> QED
      BY <1>2, <2>2, <3>1, <3>2, <3>3
  <2> QED
    BY <2>3, <2>4, <2>5, <2>6 DEF Variants
<1> QED
  BY <1>6, <1>7

-----------------------------------------------------------------------------
(* Types, and the outcomes of the functions *)

\* there is room for the job that is being submitted
Types ==
    /\ TypeOK
    /\ pc = "submit" => Len(jobs) < MaxJobs

\* The outcomes of the batch system functions are outcomes of the request loop.
LEMMA BatchOutcomes ==
    ASSUME NEW cmd \in {"TSI_SUBMIT", "TSI_GETSTATUSLISTING", "TSI_ABORTJOB", "TSI_HOLDJOB",
                        "TSI_RESUMEJOB", "TSI_GETPROCESSLISTING", "TSI_GETJOBDETAILS",
                        "TSI_GET_PARTITIONS", "TSI_GET_COMPUTE_BUDGET",
                        "TSI_MAKE_RESERVATION", "TSI_QUERY_RESERVATION",
                        "TSI_CANCEL_RESERVATION"},
           NEW outcome \in {OkReply, FailedReply, Raised}
    PROVE  outcome \in Outcomes(cmd)
<1>1. Outcomes(cmd) = OneReply
  BY DEF Outcomes, DataCommands
<1> QED
  BY <1>1 DEF OneReply, OkReply, FailedReply, Raised

\* A reply leaves the function's variables empty.
LEMMA ReplyTypes ==
    ASSUME Types, NEW cmd, NEW outcome, outcome \in Outcomes(cmd), Reply(cmd, outcome),
           jobs' \in Seq(Job), Len(jobs') <= MaxJobs
    PROVE  Types'
<1>1. /\ variant' = variant /\ pc' = "idle" /\ request' = NoRequest /\ script' = NoOptions
      /\ lines' = {} /\ left' = {} /\ states' = <<>> /\ asked' = {}
      /\ reply' = [cmd |-> cmd, outcome |-> outcome]
  BY DEF Reply
<1>2. variant \in Variants
  BY DEF Types, TypeOK
<1>3. NoOptions \in Script
  BY DEF NoOptions, Script, Absent
<1>4. reply'.outcome \in Outcomes(reply'.cmd)
  BY <1>1
<1>5. DOMAIN states' = {}
  BY <1>1
<1> QED
  BY <1>1, <1>2, <1>3, <1>4, <1>5 DEF Types, TypeOK

\* A new job is a job.
LEMMA EnterTypes ==
    ASSUME jobs \in Seq(Job), NEW n \in Nat, NEW array \in BOOLEAN, NEW known \in BOOLEAN,
           Enter(n, array, known)
    PROVE  jobs' \in Seq(Job) /\ Len(jobs') = Len(jobs) + 1
<1> DEFINE tasks == [i \in 1 .. n |-> IF variant = NoBatch THEN "active" ELSE "waiting"]
<1>1. tasks \in Seq(Phases)
  BY DEF Phases
<1> DEFINE job == [tasks |-> tasks, array |-> array, known |-> known]
<1>2. jobs' = Append(jobs, job)
  BY DEF Enter
<1> HIDE DEF tasks
<1>3. job \in Job
  BY <1>1 DEF Job
<1> HIDE DEF job
<1> QED
  BY <1>2, <1>3

\* The tasks of one job change.
LEMMA TasksTypes ==
    ASSUME jobs \in Seq(Job), NEW j \in DOMAIN jobs, NEW tasks \in Seq(Phases),
           jobs' = [jobs EXCEPT ![j].tasks = tasks]
    PROVE  jobs' \in Seq(Job) /\ Len(jobs') = Len(jobs)
<1>1. jobs[j] \in Job
  OBVIOUS
<1>2. [jobs[j] EXCEPT !.tasks = tasks] \in Job
  BY <1>1 DEF Job
<1> DEFINE job == [jobs[j] EXCEPT !.tasks = tasks]
<1>3. jobs' = [jobs EXCEPT ![j] = job]
  OBVIOUS
<1> HIDE DEF job
<1> QED
  BY <1>2, <1>3 DEF job

LEMMA InitTypes == Init => Types
<1> SUFFICES ASSUME Init PROVE Types
  OBVIOUS
<1>1. NoOptions \in Script
  BY DEF NoOptions, Script, Absent
<1>2. jobs \in Seq(Job) /\ Len(jobs) = 0 /\ DOMAIN states = {}
  BY DEF Init
<1> QED
  BY <1>1, <1>2, BoundsAssumption DEF Init, Types, TypeOK

\* Replying without any change of the jobs.
LEMMA PlainReplyTypes ==
    ASSUME Types, NEW cmd, NEW outcome, outcome \in Outcomes(cmd), Reply(cmd, outcome),
           UNCHANGED jobs
    PROVE  Types'
<1>1. jobs' \in Seq(Job) /\ Len(jobs') <= MaxJobs
  BY DEF Types, TypeOK
<1> QED
  BY <1>1, ReplyTypes

\* Every step keeps the types, and the outcomes are those of Replies.
LEMMA NextTypes ==
    ASSUME Types, [Next]_vars
    PROVE  Types'
<1>1. /\ variant \in Variants /\ jobs \in Seq(Job) /\ Len(jobs) <= MaxJobs
      /\ Len(jobs) \in Nat /\ DOMAIN jobs = 1 .. Len(jobs)
  BY DEF Types, TypeOK
<1>2. \A j \in DOMAIN jobs : jobs[j] \in Job
  BY <1>1
<1>3. CASE TaskMoves
  <2>1. PICK j \in DOMAIN jobs : \E i \in DOMAIN jobs[j].tasks, phase \in Phases :
                jobs' = [jobs EXCEPT ![j].tasks[i] = phase]
    BY <1>3 DEF TaskMoves
  <2>2. PICK i \in DOMAIN jobs[j].tasks, phase \in Phases :
            jobs' = [jobs EXCEPT ![j].tasks[i] = phase]
    BY <2>1
  <2> DEFINE tasks == [jobs[j].tasks EXCEPT ![i] = phase]
  <2>3. jobs[j].tasks \in Seq(Phases)
    BY <1>2 DEF Job
  <2>4. tasks \in Seq(Phases)
    BY <2>2, <2>3
  <2>5. jobs' = [jobs EXCEPT ![j].tasks = tasks]
    BY <2>2
  <2>6. jobs' \in Seq(Job) /\ Len(jobs') = Len(jobs)
    <3> HIDE DEF tasks
    <3> QED
      BY <1>1, <2>4, <2>5, TasksTypes
  <2> QED
    BY <1>3, <2>6 DEF Types, TypeOK, TaskMoves, submission, listing
<1>4. CASE JobForgotten
  <2>1. PICK j \in DOMAIN jobs : jobs' = [jobs EXCEPT ![j].tasks = <<>>]
    BY <1>4 DEF JobForgotten
  <2>2. jobs' \in Seq(Job) /\ Len(jobs') = Len(jobs)
    <3>1. <<>> \in Seq(Phases)
      OBVIOUS
    <3> QED
      BY <1>1, <2>1, <3>1, TasksTypes
  <2> QED
    BY <1>4, <2>2 DEF Types, TypeOK, JobForgotten, submission, listing
<1>5. CASE CreateScript
  <2>1. PICK m \in Messages : request' = m /\ script' = CreateSubmitScript(variant, m)
    BY <1>5 DEF CreateScript
  <2>2. m \in Message /\ IsFiniteSet(m.array)
    BY MessagesAssumption
  <2>3. script' \in Script
    BY <1>1, <2>1, <2>2, ScriptTypes
  <2>4. Len(jobs) < MaxJobs
    BY <1>5 DEF CreateScript, Room
  <2> QED
    BY <1>5, <2>1, <2>3, <2>4 DEF CreateScript, Types, TypeOK, listing
<1>6. CASE RawScript
  <2>1. NoOptions \in Script
    BY DEF NoOptions, Script, Absent
  <2> QED
    BY <1>6, <2>1 DEF RawScript, Room, Types, TypeOK, listing
<1>7. CASE SubmitRefused
  BY <1>7, BatchOutcomes, PlainReplyTypes DEF SubmitRefused
<1>8. CASE SubmitRaises
  BY <1>8, BatchOutcomes, PlainReplyTypes DEF SubmitRaises
<1>9. CASE Allocate
  <2>1. Reply("TSI_SUBMIT", OkReply) /\ Len(jobs) < MaxJobs
    BY <1>9 DEF Allocate, Room
  <2>2. CASE Allocates(variant)
    <3>1. Enter(1, FALSE, FALSE)
      BY <1>9, <2>2 DEF Allocate
    <3>2. jobs' \in Seq(Job) /\ Len(jobs') = Len(jobs) + 1
      BY <1>1, <3>1, EnterTypes
    <3> QED
      BY <1>1, <2>1, <3>2, BatchOutcomes, ReplyTypes, BoundsAssumption
  <2>3. CASE ~ Allocates(variant)
    <3>1. UNCHANGED jobs
      BY <1>9, <2>3 DEF Allocate
    <3> QED
      BY <2>1, <3>1, BatchOutcomes, PlainReplyTypes
  <2> QED
    BY <2>2, <2>3
<1>10. CASE NoBatchStarted
  <2>1. Reply("TSI_SUBMIT", OkReply) /\ Len(jobs) < MaxJobs /\ Enter(2, FALSE, TRUE)
    BY <1>10 DEF NoBatchStarted, Types
  <2>2. jobs' \in Seq(Job) /\ Len(jobs') = Len(jobs) + 1
    BY <1>1, <2>1, EnterTypes
  <2> QED
    BY <1>1, <2>1, <2>2, BatchOutcomes, ReplyTypes, BoundsAssumption
<1>11. CASE SubmitDone
  <2>1. Len(jobs) < MaxJobs
    BY <1>11 DEF SubmitDone, Types
  <2>2. PICK n \in TaskChoices, output \in {"plain", "noisy", "silent"} :
            LET id == ExtractJobId(output, Len(jobs) + 1)
            IN  /\ Enter(n, script.array # {} \/ n > 1, id = Len(jobs) + 1)
                /\ Reply("TSI_SUBMIT", IF id = NoId THEN FailedReply ELSE OkReply)
    BY <1>11 DEF SubmitDone
  <2>3. n \in Nat
    BY BoundsAssumption DEF TaskChoices
  <2> DEFINE id == ExtractJobId(output, Len(jobs) + 1)
             array == script.array # {} \/ n > 1
             known == id = Len(jobs) + 1
  <2>4. array \in BOOLEAN /\ known \in BOOLEAN
    OBVIOUS
  <2>5. Enter(n, array, known)
    BY <2>2
  <2>6. jobs' \in Seq(Job) /\ Len(jobs') = Len(jobs) + 1
    <3> HIDE DEF array, known
    <3> QED
      BY <1>1, <2>3, <2>4, <2>5, EnterTypes
  <2>7. PICK outcome \in {OkReply, FailedReply, Raised} : Reply("TSI_SUBMIT", outcome)
    BY <2>2
  <2> QED
    BY <1>1, <2>1, <2>6, <2>7, BatchOutcomes, ReplyTypes, BoundsAssumption
<1>12. CASE SubmitFails
  BY <1>12, BatchOutcomes, PlainReplyTypes DEF SubmitFails
<1>13. CASE GetStatusListing
  <2> DEFINE shown == UNION {Shown(j) : j \in DOMAIN jobs}
  <2>1. shown \subseteq Line
    <3> SUFFICES ASSUME NEW line \in shown PROVE line \in Line
      OBVIOUS
    <3>1. PICK j \in DOMAIN jobs : line \in Shown(j)
      OBVIOUS
    <3>2. jobs[j].tasks \in Seq(Phases) /\ jobs[j].array \in BOOLEAN
      BY <1>2 DEF Job
    <3>3. PICK i \in DOMAIN jobs[j].tasks :
              line = [id |-> j, task |-> i, array |-> jobs[j].array,
                      phase |-> jobs[j].tasks[i], odd |-> FALSE]
      BY <3>1 DEF Shown
    <3>4. i \in Nat /\ jobs[j].tasks[i] \in Phases
      BY <3>2
    <3>5. j \in JobIds
      BY <1>1, BoundsAssumption DEF JobIds
    <3> QED
      BY <3>2, <3>3, <3>4, <3>5 DEF Line
  <2>2. PICK odd : lines' = {[line EXCEPT !.odd = line \in odd] : line \in shown}
    BY <1>13 DEF GetStatusListing
  <2>3. lines' \subseteq Line
    <3> HIDE DEF shown
    <3> SUFFICES ASSUME NEW line \in shown
                 PROVE  [line EXCEPT !.odd = line \in odd] \in Line
      BY <2>2
    <3>1. line \in Line /\ (line \in odd) \in BOOLEAN
      BY <2>1
    <3> QED
      BY <3>1 DEF Line
  <2>4. /\ variant' = variant /\ jobs' = jobs /\ pc' = "parse" /\ request' = request
        /\ script' = script /\ left' = lines' /\ states' = <<>> /\ reply' = NoReply
        /\ asked' = {j \in DOMAIN jobs : jobs[j].known}
    BY <1>13 DEF GetStatusListing, submission
  <2>5. asked' \subseteq JobIds
    BY <1>1, <2>4, BoundsAssumption DEF JobIds
  <2>6. DOMAIN states' = {}
    BY <2>4
  <2> QED
    BY <2>3, <2>4, <2>5, <2>6 DEF Types, TypeOK
<1>14. CASE ListingFails
  BY <1>14, BatchOutcomes, PlainReplyTypes DEF ListingFails
<1>15. CASE ParseLine
  <2>1. PICK line \in left :
            /\ \E read \in Reads(line) :
                   states' = IF read.id = NoId THEN states
                             ELSE Merge(states, read.id, read.ustate)
            /\ left' = left \ {line}
    BY <1>15 DEF ParseLine
  <2>2. PICK read \in Reads(line) :
            states' = IF read.id = NoId THEN states
                      ELSE Merge(states, read.id, read.ustate)
    BY <2>1
  <2>3. line \in lines /\ line \in Line
    BY DEF Types, TypeOK
  <2>4. line.id \in JobIds
    BY <2>3 DEF Line
  <2>5. read.ustate \in Range(Ustates) /\ (read.id # NoId => read.id = line.id)
    BY <1>1, <2>3, ReadLine
  <2>6. DOMAIN states' \subseteq JobIds /\ \A id \in DOMAIN states' : states'[id] \in Range(Ustates)
    <3>1. CASE states' = states
      BY <3>1 DEF Types, TypeOK
    <3>2. CASE states' = [i \in DOMAIN states \cup {line.id} |->
                              IF i = line.id THEN read.ustate ELSE states[i]]
      BY <2>4, <2>5, <3>2 DEF Types, TypeOK
    <3> QED
      BY <2>2, <2>5, <3>1, <3>2 DEF Merge
  <2>7. /\ UNCHANGED <<variant, jobs, pc, request, script, lines, asked, reply>>
        /\ left' \subseteq lines
    BY <1>15, <2>1 DEF ParseLine, submission, Types, TypeOK
  <2> QED
    BY <2>6, <2>7 DEF Types, TypeOK
<1>16. CASE ReplyListing
  BY <1>16, BatchOutcomes, PlainReplyTypes DEF ReplyListing
<1>17. CASE ControlDone
  <2>1. PICK cmd \in {"TSI_ABORTJOB", "TSI_HOLDJOB", "TSI_RESUMEJOB"}, j \in DOMAIN jobs :
            /\ jobs' = [jobs EXCEPT ![j].tasks = [i \in DOMAIN @ |-> Controlled(cmd, @[i])]]
            /\ Reply(cmd, OkReply)
    BY <1>17 DEF ControlDone
  <2> DEFINE tasks == [i \in DOMAIN jobs[j].tasks |-> Controlled(cmd, jobs[j].tasks[i])]
  <2>2. jobs[j].tasks \in Seq(Phases)
    BY <1>2 DEF Job
  <2>3. \A phase \in Phases : Controlled(cmd, phase) \in Phases
    BY DEF Controlled, Phases
  <2>4. tasks \in Seq(Phases)
    BY <2>2, <2>3
  <2>5. jobs' = [jobs EXCEPT ![j].tasks = tasks]
    BY <2>1
  <2>6. jobs' \in Seq(Job) /\ Len(jobs') = Len(jobs)
    <3> HIDE DEF tasks
    <3> QED
      BY <1>1, <2>4, <2>5, TasksTypes
  <2> QED
    BY <1>1, <2>1, <2>6, BatchOutcomes, ReplyTypes
<1>18. CASE ControlWithoutEffect
  <2>1. PICK cmd \in {"TSI_ABORTJOB", "TSI_HOLDJOB", "TSI_RESUMEJOB"} :
            \E outcome \in {OkReply, FailedReply, Raised} : Reply(cmd, outcome)
    BY <1>18 DEF ControlWithoutEffect
  <2> QED
    BY <1>18, <2>1, BatchOutcomes, PlainReplyTypes DEF ControlWithoutEffect
<1>19. CASE ControlRaises
  BY <1>19, BatchOutcomes, PlainReplyTypes DEF ControlRaises
<1>20. CASE Query
  <2>1. PICK cmd \in DOMAIN QueryReplies(variant) :
            \E outcome \in QueryReplies(variant)[cmd] : Reply(cmd, outcome)
    BY <1>20 DEF Query
  <2>2. PICK outcome \in QueryReplies(variant)[cmd] : Reply(cmd, outcome)
    BY <2>1
  <2>3. cmd \in {"TSI_GETPROCESSLISTING", "TSI_GETJOBDETAILS",
                 "TSI_GET_PARTITIONS", "TSI_GET_COMPUTE_BUDGET",
                 "TSI_MAKE_RESERVATION", "TSI_QUERY_RESERVATION",
                 "TSI_CANCEL_RESERVATION"}
    BY DEF QueryReplies
  <2>4. outcome \in {OkReply, FailedReply, Raised}
    BY <2>3 DEF QueryReplies, DetailReplies, PartitionReplies
  <2>5. outcome \in Outcomes(cmd)
    BY <2>3, <2>4, BatchOutcomes
  <2> QED
    BY <1>20, <2>2, <2>5, PlainReplyTypes DEF Query
<1>21. CASE UNCHANGED vars
  BY <1>21 DEF vars, Types, TypeOK
<1> QED
  BY <1>3, <1>4, <1>5, <1>6, <1>7, <1>8, <1>9, <1>10, <1>11, <1>12, <1>13, <1>14, <1>15,
     <1>16, <1>17, <1>18, <1>19, <1>20, <1>21 DEF Next

LEMMA TypesAlways == Spec => []Types
<1>1. Init => Types
  BY InitTypes
<1>2. Types /\ [Next]_vars => Types'
  BY NextTypes
<1> QED
  BY <1>1, <1>2, PTL DEF Spec

\* The batch system functions keep the types of their variables, whatever the
\* batch system does, and none of them writes anything but the outcomes that the
\* request loop is modelled with: one reply, or an error it reports by raising.
THEOREM BatchTypes == Spec => []TypeOK
<1>1. Types => TypeOK
  BY DEF Types
<1> QED
  BY <1>1, TypesAlways, PTL

-----------------------------------------------------------------------------
(* Submissions *)

\* while the job is submitted, the script is the one made for the request
ScriptInv ==
    pc = "submit" =>
        \/ request = NoRequest
        \/ request \in Messages /\ script = CreateSubmitScript(variant, request)

LEMMA InitScript == Init => ScriptInv
  BY DEF Init, ScriptInv

\* After a reply no submission is in progress, and no listing.
LEMMA ReplyIdle ==
    ASSUME NEW cmd, NEW outcome, Reply(cmd, outcome)
    PROVE  pc' = "idle" /\ variant' = variant
  BY DEF Reply

\* The steps that end with a reply.
LEMMA RepliesIdle ==
    ASSUME \/ SubmitRefused \/ SubmitRaises \/ Allocate \/ NoBatchStarted \/ SubmitDone
           \/ SubmitFails \/ ListingFails \/ ReplyListing \/ ControlDone
           \/ ControlWithoutEffect \/ ControlRaises \/ Query
    PROVE  pc' = "idle"
<1>1. CASE SubmitRefused \/ SubmitRaises \/ Allocate \/ NoBatchStarted
  BY <1>1, ReplyIdle DEF SubmitRefused, SubmitRaises, Allocate, NoBatchStarted
<1>2. CASE SubmitDone
  BY <1>2, ReplyIdle DEF SubmitDone
<1>3. CASE SubmitFails \/ ListingFails \/ ReplyListing
  BY <1>3, ReplyIdle DEF SubmitFails, ListingFails, ReplyListing
<1>4. CASE ControlDone
  BY <1>4, ReplyIdle DEF ControlDone
<1>5. CASE ControlWithoutEffect \/ ControlRaises
  BY <1>5, ReplyIdle DEF ControlWithoutEffect, ControlRaises
<1>6. CASE Query
  BY <1>6, ReplyIdle DEF Query
<1> QED
  BY <1>1, <1>2, <1>3, <1>4, <1>5, <1>6

LEMMA NextScript ==
    ASSUME ScriptInv, [Next]_vars
    PROVE  ScriptInv'
<1>1. CASE CreateScript
  BY <1>1 DEF CreateScript, ScriptInv
<1>2. CASE RawScript
  BY <1>2 DEF RawScript, ScriptInv
<1>3. CASE GetStatusListing
  BY <1>3 DEF GetStatusListing, ScriptInv
<1>4. CASE ParseLine
  BY <1>4 DEF ParseLine, ScriptInv, submission
<1>5. CASE TaskMoves
  BY <1>5 DEF TaskMoves, ScriptInv, submission
<1>6. CASE JobForgotten
  BY <1>6 DEF JobForgotten, ScriptInv, submission
<1>7. CASE UNCHANGED vars
  BY <1>7 DEF vars, ScriptInv
<1> QED
  BY <1>1, <1>2, <1>3, <1>4, <1>5, <1>6, <1>7, RepliesIdle DEF Next, ScriptInv

\* create_submit_script, in every variant and for every message: the wall time in
\* the directives is the one asked for but for the rounding to minutes, and the
\* processors are the ones asked for, in either way to ask for them.
THEOREM ResourcesAsked == Spec => []ResourcesAsAsked
<1>1. Init => ScriptInv
  BY InitScript
<1>2. ScriptInv /\ [Next]_vars => ScriptInv'
  BY NextScript
<1>3. Types /\ ScriptInv => ResourcesAsAsked
  <2> SUFFICES ASSUME Types, ScriptInv, pc = "submit", request # NoRequest
               PROVE  /\ TimeAsAsked(variant, request, script)
                      /\ ProcessorsAsAsked(variant, request, script)
    BY DEF ResourcesAsAsked
  <2>1. request \in Message /\ script = CreateSubmitScript(variant, request)
    BY MessagesAssumption DEF ScriptInv
  <2>2. variant \in Variants
    BY DEF Types, TypeOK
  <2> QED
    BY <2>1, <2>2, TimeOfScript, ProcessorsOfScript
<1> QED
  BY <1>1, <1>2, <1>3, TypesAlways, PTL DEF Spec

-----------------------------------------------------------------------------
(* The status listing *)

\* the lines of a job that are parsed already
Parsed(j) == LinesOf(j) \ left

\* Half way through the listing, a job is told in the highest state of the lines
\* parsed so far; only for Torque may there be lines of a job that is not told,
\* the ones that show it as finished.
ToldInv ==
    pc = "parse" =>
        \A j \in JobIds :
            /\ j \in DOMAIN states =>
                   /\ \E line \in Parsed(j) : Rank(states[j]) = LineRank(line)
                   /\ \A line \in Parsed(j) : LineRank(line) <= Rank(states[j])
            /\ j \notin DOMAIN states =>
                   \A line \in Parsed(j) : variant = Torque /\ LineRank(line) = 1

LEMMA InitTold == Init => ToldInv
  BY DEF Init, ToldInv

LEMMA NextTold ==
    ASSUME Types, ToldInv, [Next]_vars
    PROVE  ToldInv'
<1>1. CASE GetStatusListing
  <2>1. left' = lines' /\ DOMAIN states' = {}
    BY <1>1 DEF GetStatusListing
  <2>2. \A j \in JobIds : Parsed(j)' = {}
    BY <2>1 DEF Parsed, LinesOf
  <2> QED
    BY <2>1, <2>2 DEF ToldInv
<1>2. CASE ParseLine
  <2>1. PICK line \in left :
            /\ \E read \in Reads(line) :
                   states' = IF read.id = NoId THEN states
                             ELSE Merge(states, read.id, read.ustate)
            /\ left' = left \ {line}
    BY <1>2 DEF ParseLine
  <2>2. PICK read \in Reads(line) :
            states' = IF read.id = NoId THEN states
                      ELSE Merge(states, read.id, read.ustate)
    BY <2>1
  <2>3. UNCHANGED <<variant, lines, pc>> /\ pc = "parse"
    BY <1>2 DEF ParseLine
  <2>4. /\ line \in lines /\ line \in Line /\ variant \in Variants /\ lines \subseteq Line
        /\ DOMAIN states \subseteq JobIds
        /\ \A id \in DOMAIN states : states[id] \in Range(Ustates)
    BY DEF Types, TypeOK
  <2>5. /\ read.ustate \in Range(Ustates)
        /\ read.id # NoId =>
               /\ read.id = line.id /\ line \in LinesOf(line.id)
               /\ Rank(read.ustate) = LineRank(line)
        /\ read.id = NoId =>
               \/ line \notin LinesOf(line.id)
               \/ variant = Torque /\ LineRank(line) = 1
    BY <2>4, ReadLine
  <2>6. \A l : LineRank(l)' = LineRank(l)
    BY <2>3 DEF LineRank, UstateOf
  <2>7. \A j : Parsed(j)' = Parsed(j) \cup (LinesOf(j) \cap {line})
    BY <2>1, <2>3 DEF Parsed, LinesOf
  <2>8. \A j, l : l \in LinesOf(j) => l.id = j /\ l \in lines
    BY DEF LinesOf
  <2>9. \A j \in JobIds : \A l \in LinesOf(j) : LineRank(l) \in Int
    BY <2>4, <2>8, LineRanks
  <2>10. \A u \in Range(Ustates) : Rank(u) \in Int
    BY Ranks
  <2> SUFFICES ASSUME NEW j \in JobIds
               PROVE  /\ j \in DOMAIN states' =>
                             /\ \E l \in Parsed(j)' : Rank(states'[j]) = LineRank(l)
                             /\ \A l \in Parsed(j)' : LineRank(l) <= Rank(states'[j])
                      /\ j \notin DOMAIN states' =>
                             \A l \in Parsed(j)' : variant = Torque /\ LineRank(l) = 1
    BY <2>3, <2>6 DEF ToldInv
  <2>11. /\ j \in DOMAIN states =>
                /\ \E l \in Parsed(j) : Rank(states[j]) = LineRank(l)
                /\ \A l \in Parsed(j) : LineRank(l) <= Rank(states[j])
         /\ j \notin DOMAIN states =>
                \A l \in Parsed(j) : variant = Torque /\ LineRank(l) = 1
    BY <2>3 DEF ToldInv
  <2>12. j \in DOMAIN states => Rank(states[j]) \in Int
    BY <2>4, <2>10
  <2>13. j \in DOMAIN states => Rank(states[j]) >= 1
    <3>1. \A l \in Parsed(j) : LineRank(l) \in 1 .. 5
      BY <2>4, LineRanks DEF Parsed, LinesOf
    <3> QED
      BY <2>11, <3>1
  <2>14. CASE j # line.id
    <3>1. Parsed(j)' = Parsed(j)
      BY <2>7, <2>8, <2>14
    <3>2. /\ j \in DOMAIN states' <=> j \in DOMAIN states
          /\ j \in DOMAIN states => states'[j] = states[j]
      BY <2>2, <2>5, <2>14 DEF Merge
    <3> QED
      BY <2>11, <3>1, <3>2
  <2>15. CASE j = line.id /\ read.id = NoId
    <3>1. states' = states
      BY <2>2, <2>15
    <3>2. CASE line \notin LinesOf(j)
      BY <2>7, <2>11, <3>1, <3>2
    <3>3. CASE variant = Torque /\ LineRank(line) = 1
      BY <2>7, <2>11, <2>12, <2>13, <3>1, <3>3
    <3> QED
      BY <2>5, <2>15, <3>2, <3>3
  <2>16. CASE j = line.id /\ read.id # NoId
    <3>1. Parsed(j)' = Parsed(j) \cup {line} /\ Rank(read.ustate) = LineRank(line)
      BY <2>5, <2>7, <2>16
    <3>2. states' = Merge(states, j, read.ustate)
      BY <2>2, <2>5, <2>16
    <3>3. Rank(read.ustate) \in Int
      BY <2>5, <2>10
    <3>4. CASE j \in DOMAIN states /\ Rank(read.ustate) <= Rank(states[j])
      <4>1. states' = states
        BY <3>2, <3>4 DEF Merge
      <4> QED
        BY <2>11, <3>1, <3>4, <4>1
    <3>5. CASE ~ (j \in DOMAIN states /\ Rank(read.ustate) <= Rank(states[j]))
      <4>1. j \in DOMAIN states' /\ states'[j] = read.ustate
        BY <3>2, <3>5 DEF Merge
      <4>2. \A l \in Parsed(j) : LineRank(l) \in Int
        BY <2>9 DEF Parsed
      <4>3. CASE j \in DOMAIN states
        <5>1. \A l \in Parsed(j) : LineRank(l) <= Rank(read.ustate)
          BY <2>11, <2>12, <3>3, <3>5, <4>2, <4>3
        <5> QED
          BY <3>1, <3>3, <4>1, <5>1
      <4>4. CASE j \notin DOMAIN states
        <5>1. LineRank(line) >= 1
          BY <2>4, LineRanks
        <5>2. \A l \in Parsed(j) : LineRank(l) <= Rank(read.ustate)
          BY <2>11, <3>1, <3>3, <4>4, <5>1
        <5> QED
          BY <3>1, <3>3, <4>1, <5>2
      <4> QED
        BY <4>3, <4>4
    <3> QED
      BY <3>4, <3>5
  <2> QED
    BY <2>14, <2>15, <2>16
<1>3. CASE UNCHANGED <<variant, pc, lines, left, states>>
  <2>1. /\ \A l : LineRank(l)' = LineRank(l)
        /\ \A j : Parsed(j)' = Parsed(j)
    BY <1>3 DEF LineRank, UstateOf, Parsed, LinesOf
  <2> QED
    BY <1>3, <2>1 DEF ToldInv
<1>4. CASE pc' # "parse"
  BY <1>4 DEF ToldInv
<1>5. CASE TaskMoves
  BY <1>3, <1>5 DEF TaskMoves, listing
<1>6. CASE JobForgotten
  BY <1>3, <1>6 DEF JobForgotten, listing
<1>7. CASE CreateScript \/ RawScript
  BY <1>4, <1>7 DEF CreateScript, RawScript
<1>8. CASE UNCHANGED vars
  BY <1>3, <1>8 DEF vars
<1> QED
  BY <1>1, <1>2, <1>4, <1>5, <1>6, <1>7, <1>8, RepliesIdle DEF Next

LEMMA ToldAlways == Spec => []ToldInv
<1>1. Init => ToldInv
  BY InitTold
<1>2. Types /\ ToldInv /\ [Next]_vars => ToldInv'
  BY NextTold
<1> QED
  BY <1>1, <1>2, TypesAlways, PTL DEF Spec

\* The greatest number of a set is its bound.
LEMMA MaxOfSet ==
    ASSUME NEW S \in SUBSET Int, NEW x \in S, \A y \in S : y <= x
    PROVE  Max(S) = x
<1>1. \E y \in S : \A z \in S : y >= z
  OBVIOUS
<1>2. Max(S) \in S /\ \A z \in S : Max(S) >= z
  BY <1>1 DEF Max
<1> DEFINE m == Max(S)
<1>3. m \in Int /\ x \in Int /\ m >= x /\ m <= x
  <2> HIDE DEF m
  <2> QED
    BY <1>2 DEF m
<1> HIDE DEF m
<1>4. m = x
  BY <1>3
<1> QED
  BY <1>4 DEF m

\* parse_status_listing, for any number of lines, in any order: a job is told in
\* the state of its most advanced task, and is left out only when there is no line
\* of it that the parser can see, or with Torque when all show it as finished.
THEOREM ToldIsListed == Spec => []ToldAsListed
<1>1. Types /\ ToldInv => ToldAsListed
  <2> SUFFICES ASSUME Types, ToldInv, pc = "parse", left = {}, NEW j \in JobIds
               PROVE  LET mine == LinesOf(j)
                          ranks == {IF line.odd THEN Len(Ustates)
                                    ELSE Rank(UstateOf(line.phase)) : line \in mine}
                      IN  /\ j \in DOMAIN states => states[j] = Ustates[Max(ranks)]
                          /\ j \notin DOMAIN states =>
                                 mine = {} \/ (variant = Torque /\ ranks = {Rank("COMPLETED")})
    BY DEF ToldAsListed
  <2> DEFINE mine == LinesOf(j)
             ranks == {LineRank(line) : line \in mine}
  <2>1. ranks = {IF line.odd THEN Len(Ustates)
                 ELSE Rank(UstateOf(line.phase)) : line \in mine}
    BY DEF LineRank
  <2>2. Parsed(j) = mine
    BY DEF Parsed
  <2>3. \A line \in mine : LineRank(line) \in Int
    BY LineRanks DEF LinesOf, Types, TypeOK
  <2>4. ranks \in SUBSET Int
    BY <2>3
  <2>5. /\ j \in DOMAIN states =>
               /\ \E line \in mine : Rank(states[j]) = LineRank(line)
               /\ \A line \in mine : LineRank(line) <= Rank(states[j])
        /\ j \notin DOMAIN states =>
               \A line \in mine : variant = Torque /\ LineRank(line) = 1
    BY <2>2 DEF ToldInv
  <2>6. ASSUME j \in DOMAIN states
        PROVE  states[j] = Ustates[Max(ranks)]
    <3>1. Rank(states[j]) \in ranks /\ \A y \in ranks : y <= Rank(states[j])
      BY <2>5, <2>6
    <3>2. Max(ranks) = Rank(states[j])
      <4> HIDE DEF ranks
      <4> QED
        BY <2>4, <3>1, MaxOfSet
    <3>3. states[j] \in Range(Ustates)
      BY <2>6 DEF Types, TypeOK
    <3> QED
      BY <3>2, <3>3, Ranks
  <2>7. ASSUME j \notin DOMAIN states
        PROVE  mine = {} \/ (variant = Torque /\ ranks = {Rank("COMPLETED")})
    BY <2>5, <2>7, Ranks
  <2> QED
    BY <2>1, <2>6, <2>7
<1> QED
  BY <1>1, TypesAlways, ToldAlways, PTL

-----------------------------------------------------------------------------
(* The jobs while a listing is parsed *)

\* While a listing is parsed, a task that has not finished yet, of a job that is
\* asked for, is one that had not finished when the listing was made: the
\* listing has a line that says so.
FollowInv ==
    pc = "parse" =>
        /\ asked \subseteq DOMAIN jobs
        /\ \A j \in asked : \A i \in DOMAIN jobs[j].tasks :
               jobs[j].tasks[i] # "finished" =>
                   \E line \in lines :
                       /\ line.id = j /\ line.phase # "finished"
                       /\ line.array = jobs[j].array

LEMMA InitFollow == Init => FollowInv
  BY DEF Init, FollowInv

LEMMA NextFollow ==
    ASSUME Types, FollowInv, [Next]_vars
    PROVE  FollowInv'
<1>1. jobs \in Seq(Job) /\ \A j \in DOMAIN jobs : jobs[j] \in Job
  BY DEF Types, TypeOK
<1>2. CASE GetStatusListing
  <2> DEFINE shown == UNION {Shown(j) : j \in DOMAIN jobs}
  <2>1. PICK odd : lines' = {[line EXCEPT !.odd = line \in odd] : line \in shown}
    BY <1>2 DEF GetStatusListing
  <2>2. asked' = {j \in DOMAIN jobs : jobs[j].known} /\ jobs' = jobs
    BY <1>2 DEF GetStatusListing
  <2>3. ASSUME NEW j \in DOMAIN jobs, NEW i \in DOMAIN jobs[j].tasks,
               jobs[j].tasks[i] # "finished"
        PROVE  \E line \in lines' :
                   line.id = j /\ line.phase # "finished" /\ line.array = jobs[j].array
    <3> DEFINE seen == [id |-> j, task |-> i, array |-> jobs[j].array,
                        phase |-> jobs[j].tasks[i], odd |-> FALSE]
               line == [seen EXCEPT !.odd = seen \in odd]
    <3>1. seen \in Shown(j)
      BY DEF Shown
    <3>2. seen \in shown
      <4> HIDE DEF seen
      <4> QED
        BY <3>1
    <3>3. line \in lines'
      <4> HIDE DEF seen, shown
      <4> QED
        BY <2>1, <3>2
    <3>4. line.id = j /\ line.phase = jobs[j].tasks[i] /\ line.array = jobs[j].array
      OBVIOUS
    <3> HIDE DEF line
    <3> QED
      BY <2>3, <3>3, <3>4
  <2> QED
    BY <2>2, <2>3 DEF FollowInv
<1>3. CASE ParseLine
  BY <1>3 DEF ParseLine, FollowInv
<1>4. CASE TaskMoves
  <2>1. PICK k \in DOMAIN jobs : \E n \in DOMAIN jobs[k].tasks, phase \in Phases :
            /\ <<jobs[k].tasks[n], phase>> \in Moves(variant)
            /\ jobs' = [jobs EXCEPT ![k].tasks[n] = phase]
    BY <1>4 DEF TaskMoves
  <2>2. PICK n \in DOMAIN jobs[k].tasks, phase \in Phases :
            /\ <<jobs[k].tasks[n], phase>> \in Moves(variant)
            /\ jobs' = [jobs EXCEPT ![k].tasks[n] = phase]
    BY <2>1
  <2>3. jobs[k].tasks[n] # "finished"
    BY <2>2 DEF Moves
  <2>4. UNCHANGED <<pc, lines, asked>>
    BY <1>4 DEF TaskMoves, listing
  <2>5. /\ DOMAIN jobs' = DOMAIN jobs
        /\ \A j \in DOMAIN jobs :
               /\ jobs'[j].array = jobs[j].array
               /\ DOMAIN jobs'[j].tasks = DOMAIN jobs[j].tasks
               /\ \A i \in DOMAIN jobs[j].tasks :
                      jobs'[j].tasks[i] # "finished" => jobs[j].tasks[i] # "finished"
    <3> DEFINE tasks == [jobs[k].tasks EXCEPT ![n] = phase]
               job == [jobs[k] EXCEPT !.tasks = tasks]
    <3>1. jobs' = [jobs EXCEPT ![k] = job]
      BY <2>2
    <3>2. /\ DOMAIN tasks = DOMAIN jobs[k].tasks
          /\ \A i \in DOMAIN jobs[k].tasks :
                 tasks[i] # "finished" => jobs[k].tasks[i] # "finished"
      BY <2>3
    <3>3. job.array = jobs[k].array /\ job.tasks = tasks
      BY <1>1 DEF Job
    <3> HIDE DEF tasks, job
    <3> QED
      BY <1>1, <3>1, <3>2, <3>3
  <2> QED
    BY <2>4, <2>5 DEF FollowInv
<1>5. CASE JobForgotten
  <2>1. PICK k \in DOMAIN jobs : jobs' = [jobs EXCEPT ![k].tasks = <<>>]
    BY <1>5 DEF JobForgotten
  <2>2. UNCHANGED <<pc, lines, asked>>
    BY <1>5 DEF JobForgotten, listing
  <2>3. /\ DOMAIN jobs' = DOMAIN jobs
        /\ \A j \in DOMAIN jobs :
               /\ jobs'[j].array = jobs[j].array
               /\ \A i \in DOMAIN jobs'[j].tasks :
                      i \in DOMAIN jobs[j].tasks /\ jobs'[j].tasks[i] = jobs[j].tasks[i]
    <3> DEFINE job == [jobs[k] EXCEPT !.tasks = <<>>]
    <3>1. jobs' = [jobs EXCEPT ![k] = job]
      BY <2>1
    <3>2. job.array = jobs[k].array /\ job.tasks = <<>> /\ DOMAIN job.tasks = {}
      BY <1>1 DEF Job
    <3> HIDE DEF job
    <3> QED
      BY <1>1, <3>1, <3>2
  <2> QED
    BY <2>2, <2>3 DEF FollowInv
<1>6. CASE pc' # "parse"
  BY <1>6 DEF FollowInv
<1>7. CASE CreateScript \/ RawScript
  BY <1>6, <1>7 DEF CreateScript, RawScript
<1>8. CASE UNCHANGED vars
  BY <1>8 DEF vars, FollowInv
<1> QED
  BY <1>2, <1>3, <1>4, <1>5, <1>6, <1>7, <1>8, RepliesIdle DEF Next

LEMMA FollowAlways == Spec => []FollowInv
<1>1. Init => FollowInv
  BY InitFollow
<1>2. Types /\ FollowInv /\ [Next]_vars => FollowInv'
  BY NextFollow
<1> QED
  BY <1>1, <1>2, TypesAlways, PTL DEF Spec

\* get_status_listing against the jobs, which go on after qstat_cmd has run: a job
\* whose id was told and that still has a task to finish is told, and not as
\* completed, whatever the other tasks do while the lines are parsed.
THEOREM UnfinishedIsFollowed == Spec => []UnfinishedFollowed
<1>1. Types /\ ToldInv /\ FollowInv => UnfinishedFollowed
  <2> SUFFICES ASSUME Types, ToldInv, FollowInv, pc = "parse", left = {}, NEW j \in asked,
                      ~ Finished(j), ~ (variant = Torque /\ jobs[j].array)
               PROVE  j \in DOMAIN states /\ states[j] # "COMPLETED"
    BY DEF UnfinishedFollowed
  <2>1. PICK i \in DOMAIN jobs[j].tasks : jobs[j].tasks[i] # "finished"
    BY DEF Finished
  <2>2. PICK line \in lines :
            line.id = j /\ line.phase # "finished" /\ line.array = jobs[j].array
    BY <2>1 DEF FollowInv
  <2>3. line \in Parsed(j)
    BY <2>2 DEF Parsed, LinesOf
  <2>4. LineRank(line) \in 1 .. 5 /\ LineRank(line) > 1
    BY <2>2, LineRanks DEF Types, TypeOK
  <2>5. j \in JobIds
    BY DEF Types, TypeOK
  <2>6. j \in DOMAIN states
    BY <2>3, <2>4, <2>5 DEF ToldInv
  <2>7. LineRank(line) <= Rank(states[j])
    BY <2>3, <2>5, <2>6 DEF ToldInv
  <2>8. Rank("COMPLETED") = 1
    BY Ranks
  <2> QED
    BY <2>4, <2>6, <2>7, <2>8
<1> QED
  BY <1>1, TypesAlways, ToldAlways, FollowAlways, PTL
=============================================================================

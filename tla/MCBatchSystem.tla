--------------------------- MODULE MCBatchSystem ---------------------------
(***************************************************************************)
(* A small instance of BatchSystem: every way to ask for processors with   *)
(* times below, at and above a minute, and a few messages with an array    *)
(* and all the other parameters.                                           *)
(***************************************************************************)
EXTENDS BatchSystem

Ask(time, nodes, ppn, total) ==
    [time |-> time, nodes |-> nodes, ppn |-> ppn, total |-> total, memory |-> -1,
     gpus |-> -1, array |-> {}, limit |-> -1, text |-> {}, filter |-> FALSE]

MCMessages ==
    {Ask(7199, nodes, ppn, total) :
        nodes \in {-1, 2}, ppn \in {-1, 0, 3}, total \in {-1, 4, 6}}
    \cup {Ask(time, -1, -1, -1) : time \in {-1, 30, 60}}
    \cup {[Ask(90, 2, 3, -1) EXCEPT !.array = ids, !.limit = 2, !.memory = 0, !.gpus = 1,
                                    !.text = TextParameters, !.filter = filter] :
             ids \in {{5}, {1, 2, 3}}, filter \in BOOLEAN}
=============================================================================

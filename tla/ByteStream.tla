----------------------------- MODULE ByteStream -----------------------------
(***************************************************************************)
(* What one direction of a connection promises: bytes come out in the      *)
(* order in which they were sent, each once, none that was not sent, and   *)
(* what has come out is never taken back.  The bytes of a direction are    *)
(* numbered from 1 by their sender.                                        *)
(***************************************************************************)
EXTENDS Naturals, Sequences

VARIABLES
    sent,  \* how many bytes were sent
    out    \* the bytes that have come out

Init == sent = 0 /\ out = <<>>

Send == sent' = sent + 1 /\ UNCHANGED out

Deliver ==
    /\ \E n \in Len(out) + 1 .. sent : out' = [i \in 1 .. n |-> i]
    /\ UNCHANGED sent

Spec == Init /\ [][Send \/ Deliver]_<<sent, out>>
=============================================================================

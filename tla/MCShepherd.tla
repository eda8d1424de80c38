----------------------------- MODULE MCShepherd -----------------------------
(***************************************************************************)
(* Small instances of Shepherd.  With three connections a callback can     *)
(* fail half-way before the next one, two workers can end together, and a  *)
(* range of two ports wraps and can be exhausted.                          *)
(***************************************************************************)
EXTENDS Shepherd

\* every message
MCCommands == Command

\* the messages that the documentation of connect describes
Documented ==
    {"newtsiprocess", "start-forwarding", "set key=value", "shutdown"}
=============================================================================

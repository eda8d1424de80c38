--------------------------- MODULE RequestService ---------------------------
(***************************************************************************)
(* What a TSI worker promises, without any of the ways it can fail: it     *)
(* serves one request at a time, acts as itself or as the one identity     *)
(* that this request entitles it to, never as root on behalf of a request, *)
(* and is itself again before it turns to the next one.                    *)
(***************************************************************************)
CONSTANT RootUid

VARIABLES
    phase,     \* "idle", "busy" or "over"
    entitled,  \* at most one identity: what the request in progress may assume
    acting     \* at most one identity: the one assumed now

vars == <<phase, entitled, acting>>

AtMostOne(S) == \A x, y \in S : x = y

\* a request names an identity that is not root, or none that can be assumed
Entitles(S) == AtMostOne(S) /\ \A id \in S : id.euid # RootUid

\* a worker for port forwarding starts with its one request
Init ==
    /\ phase \in {"idle", "busy"}
    /\ Entitles(entitled)
    /\ acting = {}

Take ==
    /\ phase = "idle" /\ phase' = "busy"
    /\ Entitles(entitled')
    /\ UNCHANGED acting

Assume ==
    /\ phase = "busy" /\ acting = {}
    /\ acting' = entitled
    /\ UNCHANGED <<phase, entitled>>

Resign ==
    /\ phase = "busy" /\ acting' = {}
    /\ UNCHANGED <<phase, entitled>>

Finish ==
    /\ phase = "busy" /\ acting = {}
    /\ phase' = "idle" /\ entitled' = {}
    /\ UNCHANGED acting

Stop == phase' = "over" /\ entitled' = {} /\ acting' = {}

Spec == Init /\ [][Take \/ Assume \/ Resign \/ Finish \/ Stop]_vars
=============================================================================

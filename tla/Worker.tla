------------------------------- MODULE Worker -------------------------------
(***************************************************************************)
(* One TSI worker process: the request loop of TSI.process, the dispatch   *)
(* to a command function through TSI.handle_function, the switch to the    *)
(* user's identity and back (BecomeUser), the optional child process that  *)
(* holds the user's PAM session, and the list of background processes      *)
(* (tsi.child_pids) that the loop reaps.                                   *)
(*                                                                         *)
(* A worker that forwards a port runs handle_function once, as the command *)
(* _START_FORWARDING, and never switches back.                             *)
(*                                                                         *)
(* UNICORE/X (the peer) may send the next request at any time, stop in the *)
(* middle of a request, and close the connection at any time.  The answers *)
(* of the user cache do not change during a behaviour of this module: what *)
(* a changing user database does is the subject of UserCache.              *)
(***************************************************************************)
EXTENDS GroupMapping, Replies, SequencesExt

CONSTANTS
    Users,        \* user names that may occur in a request
    GroupNames,   \* group names that may occur in a request
    UidOf,        \* get_uid_4user: user -> uid, NoId when unknown
    GidOf,        \* get_gid_4user: user -> primary gid, NoId when unknown
    GidsOf,       \* get_gids_4user: user -> set of gids
    GrpGid,       \* get_gid_4group: group -> gid, NoId when unknown
    BaseGid,      \* the effective gid the TSI was started with
    InitGroups,   \* the supplementary groups the TSI was started with
    Configs,      \* the configurations a worker is started with
    Requests,     \* the requests the peer may send
    MaxRequests,  \* bound: requests sent on the connection
    MaxKids       \* bound: background processes started by the worker

RootId == 0
NoIdentity == "no identity"
Main == "main"
Child == "child"
Procs == {Main, Child}
Kids == 1 .. MaxKids

Request == [cmd : Commands, user : Users \cup {NoIdentity},
            groups : Seq(GroupNames) \ {<<>>}]
Config == [base : Nat, switch : BOOLEAN, sessions : BOOLEAN, enforce : BOOLEAN,
           failInvalid : BOOLEAN, oneShot : BOOLEAN, forwarder : BOOLEAN]

ASSUME BoundsAssumption == MaxRequests \in Nat /\ MaxKids \in Nat
ASSUME DatabaseAssumption ==
    /\ NoIdentity \notin Users
    /\ UidOf \in [Users -> Nat \cup {NoId}]
    /\ GidOf \in [Users -> Nat \cup {NoId}]
    /\ \A u \in Users : UidOf[u] \in Nat => GidOf[u] \in Nat
    /\ GidsOf \in [Users -> SUBSET Nat]
    /\ GrpGid \in [GroupNames -> Nat \cup {NoId}]
    /\ BaseGid \in Nat
    /\ InitGroups \in SUBSET Nat
ASSUME InputAssumption == Requests \subseteq Request /\ Configs \subseteq Config

-----------------------------------------------------------------------------
VARIABLES
    conf,      \* the worker's configuration, fixed at its start
    pc,        \* where each process is; "none" when there is no such process
    cred,      \* the credentials of each process
    env,       \* USER, LOGNAME and HOME of each process, as a user name
    req,       \* the request each process works on
    pam,       \* pam_session in the child: "unbound", "bound" or "open"
    reply,     \* what was written on the control channel for this request
    peer,      \* UNICORE/X's end of the connection: "open" or "closed"
    wire,      \* what is on the way to the worker: "empty", "partial" or
               \* "complete", and the request it belongs to
    sent,      \* requests UNICORE/X has begun, and has completed
    nread,     \* requests the worker has read
    children,  \* tsi.child_pids
    at,        \* position of the loop of cleanup in tsi.child_pids
    kids,      \* the background processes
    hurt       \* ghost: the child serving this request ended abnormally

vars == <<conf, pc, cred, env, req, pam, reply, peer, wire, sent, nread,
          children, at, kids, hurt>>
chanVars == <<peer, wire, sent, nread>>
kidVars == <<children, at, kids>>

Labels ==
    {"none", "cleanup", "reading", "dispatch", "handle", "wait", "identify",
     "session", "resolve", "setgid", "setgroups", "setegid", "setresuid",
     "verify", "run", "forwarding", "except", "restore_uid", "restore_gid",
     "restore_groups", "restore_egid", "close_session", "end", "stopped",
     "dead"}
Tokens == {"OK", "FAILED", "END"}
Cred == [ruid : Nat, euid : Nat, suid : Nat, rgid : Nat, egid : Nat,
         groups : SUBSET Nat]
Nobody == "nobody"

\* initialize: a TSI that runs as root always switches
Initialize(c) == [c EXCEPT !.switch = @ \/ c.base = RootId]

BaseCred(c) == [ruid |-> c.base, euid |-> c.base, suid |-> c.base,
                rgid |-> BaseGid, egid |-> BaseGid, groups |-> InitGroups]

Goto(p, label) == pc' = [pc EXCEPT ![p] = label]

\* handle_function opens a session for commands that start processes
OpensSession(cmd) == conf.sessions /\ cmd \in SpawnCommands /\ conf.switch

\* the gids become_user computes for a request
Groups(r) ==
    MapGroups(r.groups, GidOf[r.user], GidsOf[r.user], GrpGid,
              conf.enforce, conf.failInvalid)

\* changing gids needs the privileges of the TSI's own uid
Privileged(p) == cred[p].euid = conf.base

-----------------------------------------------------------------------------
NoRequest == [cmd |-> Unknown, user |-> NoIdentity, groups |-> <<NoGroups>>]

\* what is left of a request when its end, or its identity line as well, is
\* missing
CutOff(r) == [r EXCEPT !.user = NoIdentity]
Messages == Requests \cup {NoRequest} \cup {CutOff(r) : r \in Requests}

\* a fresh worker: the process the TSI server forked, with its own configuration
Init ==
    /\ conf \in {Initialize(c) : c \in Configs}
    /\ cred = [p \in Procs |-> BaseCred(conf)]
    /\ env = [p \in Procs |-> Nobody]
    /\ pam = "unbound"
    /\ reply = <<>>
    /\ peer = "open"
    /\ wire = [state |-> "empty", req |-> NoRequest]
    /\ sent = [begun |-> 0, completed |-> 0]
    /\ nread = 0
    /\ children = <<>> /\ at = 1
    /\ kids = [k \in Kids |-> "none"]
    /\ hurt = FALSE
    /\ \/ /\ ~conf.forwarder
          /\ req = [p \in Procs |-> NoRequest]
          /\ pc = [p \in Procs |-> IF p = Main THEN "cleanup" ELSE "none"]
       \/ /\ conf.forwarder
          /\ \E r \in Requests :
                /\ r.cmd = Forwarding
                /\ req = [p \in Procs |-> IF p = Main THEN r ELSE NoRequest]
          /\ pc = [p \in Procs |-> IF p = Main THEN "handle" ELSE "none"]

-----------------------------------------------------------------------------
(* UNICORE/X, the users' background processes, and signals. *)

\* UNICORE/X writes the lines of a request
PeerBegins(r) ==
    /\ peer = "open" /\ ~conf.forwarder
    /\ wire.state = "empty" /\ sent.begun < MaxRequests
    /\ r.cmd # Forwarding
    /\ wire' = [state |-> "partial", req |-> r]
    /\ sent' = [sent EXCEPT !.begun = @ + 1]
    /\ UNCHANGED <<conf, pc, cred, env, req, pam, reply, peer, nread, hurt>>
    /\ UNCHANGED kidVars

\* UNICORE/X writes the line ENDOFMESSAGE
PeerCompletes ==
    /\ peer = "open" /\ wire.state = "partial"
    /\ wire' = [wire EXCEPT !.state = "complete"]
    /\ sent' = [sent EXCEPT !.completed = @ + 1]
    /\ UNCHANGED <<conf, pc, cred, env, req, pam, reply, peer, nread, hurt>>
    /\ UNCHANGED kidVars

\* UNICORE/X, or the network, closes the connection
PeerCloses ==
    /\ peer = "open"
    /\ peer' = "closed"
    /\ UNCHANGED <<conf, pc, cred, env, req, pam, reply, wire, sent, nread, hurt>>
    /\ UNCHANGED kidVars

\* a background process ends and stays a zombie until it is waited for
KidEnds(k) ==
    /\ kids[k] = "running"
    /\ kids' = [kids EXCEPT ![k] = "zombie"]
    /\ UNCHANGED <<conf, pc, cred, env, req, pam, reply, children, at, hurt>>
    /\ UNCHANGED chanVars

\* the session child is killed while it works for the user
ChildKilled ==
    /\ pc[Child] # "none"
    /\ Goto(Child, "none")
    /\ hurt' = TRUE
    /\ UNCHANGED <<conf, cred, env, req, pam, reply>>
    /\ UNCHANGED chanVars /\ UNCHANGED kidVars

-----------------------------------------------------------------------------
(* The request loop. *)

\* fault: entries are removed without a look at whether the process has ended
CleanupStepRemovesAll ==
    /\ pc[Main] = "cleanup"
    /\ at <= Len(children)
    /\ at' = at + 1
    /\ children' = RemoveAt(children, at)
    /\ UNCHANGED <<conf, pc, cred, env, req, pam, reply, hurt, kids>>
    /\ UNCHANGED chanVars

\* cleanup: the for loop over tsi.child_pids, which removes the entry it is
\* at and therefore steps over the entry after it
CleanupStep ==
    /\ pc[Main] = "cleanup"
    /\ at <= Len(children)
    /\ at' = at + 1
    /\ IF kids[children[at]] = "running"
       THEN UNCHANGED <<children, kids>>
       ELSE /\ children' = RemoveAt(children, at)
            /\ kids' = [kids EXCEPT ![children[at]] = "gone"]
    /\ UNCHANGED <<conf, pc, cred, env, req, pam, reply, hurt>>
    /\ UNCHANGED chanVars

CleanupDone ==
    /\ pc[Main] = "cleanup"
    /\ at > Len(children)
    /\ Goto(Main, "reading")
    /\ at' = 1
    /\ UNCHANGED <<conf, cred, env, req, pam, reply, children, kids, hurt>>
    /\ UNCHANGED chanVars

\* What read_message returns.  The socket connector has the whole request; the
\* stream connector of the one-shot runner takes the end of its input for the
\* end of the message, however much of it has arrived.
Received ==
    IF wire.state = "complete" THEN {wire.req}
    ELSE {wire.req, NoRequest} \cup
         IF wire.state = "partial" THEN {CutOff(wire.req)} ELSE {}

\* fault: the end of the stream ends a message as well
ReadMessagePartial ==
    /\ pc[Main] = "reading"
    /\ wire.state = "complete" \/ (wire.state = "partial" /\ peer = "closed")
    /\ req' = [req EXCEPT ![Main] = wire.req]
    /\ wire' = [state |-> "empty", req |-> NoRequest]
    /\ nread' = nread + 1
    /\ reply' = <<>>
    /\ hurt' = FALSE
    /\ Goto(Main, "dispatch")
    /\ UNCHANGED <<conf, cred, env, pam, peer, sent>>
    /\ UNCHANGED kidVars

\* read_message returns once it has the line ENDOFMESSAGE; for the one-shot
\* runner also at the end of the input
ReadMessage ==
    /\ pc[Main] = "reading"
    /\ wire.state = "complete" \/ (conf.oneShot /\ peer = "closed")
    /\ \E m \in Received : req' = [req EXCEPT ![Main] = m]
    /\ wire' = [state |-> "empty", req |-> NoRequest]
    /\ nread' = nread + 1
    /\ reply' = <<>>
    /\ hurt' = FALSE
    /\ Goto(Main, "dispatch")
    /\ UNCHANGED <<conf, cred, env, pam, peer, sent>>
    /\ UNCHANGED kidVars

\* fault: the loop goes on after the end of the stream
ReadFailsGoesOn ==
    /\ pc[Main] = "reading"
    /\ wire.state # "complete" /\ peer = "closed" /\ ~conf.oneShot
    /\ Goto(Main, "cleanup")
    /\ UNCHANGED <<conf, cred, env, req, pam, reply, hurt>>
    /\ UNCHANGED chanVars /\ UNCHANGED kidVars

\* read_message meets the end of the stream, also inside a message: the
\* worker closes its sockets and process returns
ReadFails ==
    /\ pc[Main] = "reading"
    /\ wire.state # "complete" /\ peer = "closed" /\ ~conf.oneShot
    /\ Goto(Main, "stopped")
    /\ UNCHANGED <<conf, cred, env, req, pam, reply, hurt>>
    /\ UNCHANGED chanVars /\ UNCHANGED kidVars

\* A write on the control channel.  Once the peer is gone it may fail, and
\* the exception then takes the process to another place.
Write(p, token, next, failed) ==
    \/ /\ reply' = Append(reply, token)
       /\ Goto(p, next)
    \/ /\ peer = "closed"
       /\ Goto(p, failed)
       /\ UNCHANGED reply

\* an exception nobody catches ends the process
Uncaught(p) == IF p = Main THEN "dead" ELSE "none"

\* the command lookup of process; a ping is answered on the spot
Dispatch ==
    /\ pc[Main] = "dispatch"
    /\ CASE req[Main].cmd = Unknown -> Write(Main, "FAILED", "end", "dead")
         [] req[Main].cmd = Ping -> Write(Main, "OK", "end", "dead")
         [] OTHER -> Goto(Main, "handle") /\ UNCHANGED reply
    /\ UNCHANGED <<conf, cred, env, req, pam, hurt>>
    /\ UNCHANGED chanVars /\ UNCHANGED kidVars

\* the line ENDOFMESSAGE that ends every reply
EndReply(p) ==
    /\ pc[p] = "end"
    /\ Write(p, "END", IF conf.oneShot THEN "stopped" ELSE "cleanup", Uncaught(p))
    /\ UNCHANGED <<conf, cred, env, req, pam, hurt>>
    /\ UNCHANGED chanVars /\ UNCHANGED kidVars

-----------------------------------------------------------------------------
(* handle_function, in the worker itself or in its session child. *)

\* with user sessions enabled the function runs in a forked child
HandleFunction ==
    /\ pc[Main] = "handle"
    /\ IF OpensSession(req[Main].cmd)
       THEN /\ pc' = [p \in Procs |-> IF p = Main THEN "wait" ELSE "identify"]
            /\ cred' = [cred EXCEPT ![Child] = cred[Main]]
            /\ env' = [env EXCEPT ![Child] = env[Main]]
            /\ req' = [req EXCEPT ![Child] = req[Main]]
            /\ pam' = "unbound"
       ELSE /\ Goto(Main, IF conf.switch THEN "identify" ELSE "run")
            /\ UNCHANGED <<cred, env, req, pam>>
    /\ UNCHANGED <<conf, reply, hurt>>
    /\ UNCHANGED chanVars /\ UNCHANGED kidVars

\* waitpid: the worker goes on when the child has ended, in whatever way
WaitForChild ==
    /\ pc[Main] = "wait" /\ pc[Child] = "none"
    /\ Goto(Main, "end")
    /\ pam' = "unbound"
    /\ UNCHANGED <<conf, cred, env, req, reply, hurt>>
    /\ UNCHANGED chanVars /\ UNCHANGED kidVars

\* the search for #TSI_IDENTITY
Identify(p) ==
    /\ pc[p] = "identify"
    /\ Goto(p, IF req[p].user = NoIdentity THEN "except"
               ELSE IF OpensSession(req[p].cmd) THEN "session" ELSE "resolve")
    /\ UNCHANGED <<conf, cred, env, req, pam, reply, hurt>>
    /\ UNCHANGED chanVars /\ UNCHANGED kidVars

\* PAM(...).open_session(user): the library may be missing, and the session
\* may be refused
OpenPamSession(p) ==
    /\ pc[p] = "session"
    /\ \/ pam' = "unbound" /\ Goto(p, "except")
       \/ pam' = "bound" /\ Goto(p, "except")
       \/ pam' = "open" /\ Goto(p, "resolve")
    /\ UNCHANGED <<conf, cred, env, req, reply, hurt>>
    /\ UNCHANGED chanVars /\ UNCHANGED kidVars

\* fault: the check for root, or for an unknown user, is missing
BecomeUserRoot(p) ==
    /\ pc[p] = "resolve"
    /\ Goto(p, IF UidOf[req[p].user] = NoId \/ Groups(req[p]).raised
               THEN "except" ELSE "setgid")
    /\ UNCHANGED <<conf, cred, env, req, pam, reply, hurt>>
    /\ UNCHANGED chanVars /\ UNCHANGED kidVars
BecomeUserUnknown(p) ==
    /\ pc[p] = "resolve"
    /\ Goto(p, IF UidOf[req[p].user] = RootId \/ Groups(req[p]).raised
               THEN "except" ELSE "setgid")
    /\ UNCHANGED <<conf, cred, env, req, pam, reply, hurt>>
    /\ UNCHANGED chanVars /\ UNCHANGED kidVars

\* become_user up to the first system call: unknown users, root and groups
\* that do not map are refused
BecomeUser(p) ==
    /\ pc[p] = "resolve"
    /\ Goto(p, IF \/ UidOf[req[p].user] \in {NoId, RootId}
                  \/ Groups(req[p]).raised
               THEN "except" ELSE "setgid")
    /\ UNCHANGED <<conf, cred, env, req, pam, reply, hurt>>
    /\ UNCHANGED chanVars /\ UNCHANGED kidVars

\* A system call that changes the credentials of p: it takes effect and the
\* process goes on at next, or it fails and the exception leads to failed.
SetCred(p, allowed, new, next, failed) ==
    /\ \/ allowed /\ cred' = [cred EXCEPT ![p] = new] /\ Goto(p, next)
       \/ UNCHANGED cred /\ Goto(p, failed)
    /\ hurt' = (hurt \/ (p = Child /\ pc'[p] = "none"))
    /\ UNCHANGED <<conf, req, pam, reply>>
    /\ UNCHANGED chanVars /\ UNCHANGED kidVars

\* fault: setgroups is not called
SetGidOnly(p) ==
    /\ pc[p] = "setgid"
    /\ LET gid == Groups(req[p]).gid
       IN  SetCred(p, Privileged(p), [cred[p] EXCEPT !.rgid = gid, !.egid = gid],
                   "setegid", "except")
    /\ UNCHANGED env

SetGid(p) ==
    /\ pc[p] = "setgid"
    /\ LET gid == Groups(req[p]).gid
       IN  SetCred(p, Privileged(p), [cred[p] EXCEPT !.rgid = gid, !.egid = gid],
                   "setgroups", "except")
    /\ UNCHANGED env

SetGroups(p) ==
    /\ pc[p] = "setgroups"
    /\ SetCred(p, Privileged(p), [cred[p] EXCEPT !.groups = Groups(req[p]).gids],
               "setegid", "except")
    /\ UNCHANGED env

SetEgid(p) ==
    /\ pc[p] = "setegid"
    /\ SetCred(p, Privileged(p), [cred[p] EXCEPT !.egid = Groups(req[p]).gid],
               "setresuid", "except")
    /\ UNCHANGED env

\* the saved uid stays the TSI's own: this is the way back
SetResuid(p) ==
    /\ pc[p] = "setresuid"
    /\ LET uid == UidOf[req[p].user]
       IN  SetCred(p, Privileged(p),
                   [cred[p] EXCEPT !.ruid = uid, !.euid = uid, !.suid = conf.base],
                   "verify", "except")
    /\ UNCHANGED env

\* the checks at the end of become_user, and the environment
VerifyIdentity(p) ==
    /\ pc[p] = "verify"
    /\ LET uid == UidOf[req[p].user]
           g == Groups(req[p])
       IN  IF /\ cred[p].ruid = uid /\ cred[p].euid = uid
              /\ cred[p].rgid = g.gid /\ cred[p].egid = g.gid
              /\ cred[p].groups = g.gids
           THEN env' = [env EXCEPT ![p] = req[p].user] /\ Goto(p, "run")
           ELSE UNCHANGED env /\ Goto(p, "except")
    /\ UNCHANGED <<conf, cred, req, pam, reply, hurt>>
    /\ UNCHANGED chanVars /\ UNCHANGED kidVars

\* where handle_function continues after the try block
AfterTry == IF conf.switch THEN "restore_uid" ELSE "end"

\* run_command with discard: the process started in the background is noted
\* in tsi.child_pids.  Starting any process makes Python's subprocess module
\* reap the ended ones it still knows.  What a session child notes is lost
\* with it.
Spawn(p, k) ==
    /\ kids[k] = "none"
    /\ kids' = [j \in Kids |-> IF j = k THEN "running"
                               ELSE IF kids[j] = "zombie" THEN "gone"
                               ELSE kids[j]]
    /\ children' = Append(children, k)
    /\ UNCHANGED at

\* the command function: its writes, then its return or its exception.  With
\* the peer gone any of the writes may fail.
RunFunction(p) ==
    /\ pc[p] = "run" /\ ~conf.forwarder
    /\ \E o \in Outcomes(req[p].cmd) :
          \/ /\ reply' = reply \o o.writes
             /\ Goto(p, IF o.raises THEN "except" ELSE AfterTry)
          \/ /\ peer = "closed"
             /\ \E n \in 0 .. Len(o.writes) : reply' = reply \o SubSeq(o.writes, 1, n)
             /\ Goto(p, "except")
    /\ \/ UNCHANGED kidVars
       \/ /\ p = Main /\ req[p].cmd \in SpawnCommands
          /\ \E k \in Kids : Spawn(p, k)
    /\ UNCHANGED <<conf, cred, env, req, pam, hurt>>
    /\ UNCHANGED chanVars

\* start_forwarding connects to the service and starts the two threads
StartForwarding ==
    /\ pc[Main] = "run" /\ conf.forwarder
    /\ \/ Goto(Main, "forwarding")
       \/ Goto(Main, "except")
    /\ UNCHANGED <<conf, cred, env, req, pam, reply, hurt>>
    /\ UNCHANGED chanVars /\ UNCHANGED kidVars

\* the first thread to finish ends the forwarding process with _exit
ForwardingEnds ==
    /\ pc[Main] = "forwarding"
    /\ Goto(Main, "stopped")
    /\ UNCHANGED <<conf, cred, env, req, pam, reply, hurt>>
    /\ UNCHANGED chanVars /\ UNCHANGED kidVars

\* fault: the exception is swallowed
ReportFailureSilent(p) ==
    /\ pc[p] = "except"
    /\ Goto(p, IF conf.forwarder THEN "dead" ELSE AfterTry)
    /\ UNCHANGED <<conf, cred, env, req, pam, reply, hurt>>
    /\ UNCHANGED chanVars /\ UNCHANGED kidVars

\* the bare except of handle_function: failed reports the exception, unless
\* it raises itself.  A forwarder's failed ends the process.
ReportFailure(p) ==
    /\ pc[p] = "except"
    /\ IF conf.forwarder
       THEN Goto(p, "dead") /\ UNCHANGED reply
       ELSE Write(p, "FAILED", AfterTry, Uncaught(p))
    /\ hurt' = (hurt \/ (p = Child /\ pc'[p] = "none"))
    /\ UNCHANGED <<conf, cred, env, req, pam>>
    /\ UNCHANGED chanVars /\ UNCHANGED kidVars

\* fault: a failure to get the uid back is ignored
RestoreUidIgnored(p) ==
    /\ pc[p] = "restore_uid"
    /\ SetCred(p, conf.base \in {cred[p].euid, cred[p].suid},
               [cred[p] EXCEPT !.ruid = conf.base, !.euid = conf.base,
                               !.suid = conf.base],
               "restore_gid", "end")
    /\ UNCHANGED env

\* restore_id: the uid first, as only the TSI's own uid may set the gids
RestoreUid(p) ==
    /\ pc[p] = "restore_uid"
    /\ SetCred(p, conf.base \in {cred[p].euid, cred[p].suid},
               [cred[p] EXCEPT !.ruid = conf.base, !.euid = conf.base,
                               !.suid = conf.base],
               "restore_gid", Uncaught(p))
    /\ UNCHANGED env

\* fault: restore_id does not reset the groups
RestoreGidOnly(p) ==
    /\ pc[p] = "restore_gid"
    /\ SetCred(p, Privileged(p), [cred[p] EXCEPT !.rgid = BaseGid, !.egid = BaseGid],
               "restore_egid", Uncaught(p))
    /\ UNCHANGED env

RestoreGid(p) ==
    /\ pc[p] = "restore_gid"
    /\ SetCred(p, Privileged(p), [cred[p] EXCEPT !.rgid = BaseGid, !.egid = BaseGid],
               "restore_groups", Uncaught(p))
    /\ UNCHANGED env

RestoreGroups(p) ==
    /\ pc[p] = "restore_groups"
    /\ SetCred(p, Privileged(p), [cred[p] EXCEPT !.groups = {BaseGid}],
               "restore_egid", Uncaught(p))
    /\ UNCHANGED env

RestoreEgid(p) ==
    /\ pc[p] = "restore_egid"
    /\ SetCred(p, Privileged(p), [cred[p] EXCEPT !.egid = BaseGid],
               IF OpensSession(req[p].cmd) THEN "close_session" ELSE "end",
               Uncaught(p))
    /\ env' = IF pc'[p] = Uncaught(p) THEN env ELSE [env EXCEPT ![p] = Nobody]

\* fault: the session is left open
ClosePamSessionNot(p) ==
    /\ pc[p] = "close_session"
    /\ Goto(p, "none")
    /\ UNCHANGED <<conf, cred, env, req, pam, reply, hurt>>
    /\ UNCHANGED chanVars /\ UNCHANGED kidVars

\* close_session, and the end of the session child with os._exit.  A session
\* object that was never made raises, which ends the child as well.
ClosePamSession(p) ==
    /\ pc[p] = "close_session"
    /\ pam' = IF pam = "open" THEN "bound" ELSE pam
    /\ Goto(p, "none")
    /\ UNCHANGED <<conf, cred, env, req, reply, hurt>>
    /\ UNCHANGED chanVars /\ UNCHANGED kidVars

-----------------------------------------------------------------------------
Handler(p) ==
    \/ Identify(p) \/ OpenPamSession(p) \/ BecomeUser(p)
    \/ SetGid(p) \/ SetGroups(p) \/ SetEgid(p) \/ SetResuid(p)
    \/ VerifyIdentity(p) \/ RunFunction(p) \/ ReportFailure(p)
    \/ RestoreUid(p) \/ RestoreGid(p) \/ RestoreGroups(p) \/ RestoreEgid(p)
    \/ ClosePamSession(p) \/ EndReply(p)

Loop ==
    \/ CleanupStep \/ CleanupDone \/ ReadMessage \/ ReadFails \/ Dispatch
    \/ HandleFunction \/ WaitForChild \/ StartForwarding

Environment ==
    \/ \E r \in Requests : PeerBegins(r)
    \/ PeerCompletes \/ PeerCloses \/ ChildKilled \/ ForwardingEnds
    \/ \E k \in Kids : KidEnds(k)

\* a worker that has ended stays so
Ended ==
    /\ pc[Main] \in {"stopped", "dead"}
    /\ UNCHANGED vars

Next == Loop \/ (\E p \in Procs : Handler(p)) \/ Environment \/ Ended

\* The processes of the worker take their steps: every system call returns
\* and every command function ends.  Nothing is assumed of UNICORE/X, of the
\* users' processes, of signals or of the end of a forwarding.
Fairness == WF_vars(Loop) /\ \A p \in Procs : WF_vars(Handler(p))

Spec == Init /\ [][Next]_vars /\ Fairness

-----------------------------------------------------------------------------
(* Properties. *)

\* The types of the variables.
TypeOK ==
    /\ conf \in Config
    /\ pc \in [Procs -> Labels]
    /\ cred \in [Procs -> Cred]
    /\ env \in [Procs -> Users \cup {Nobody}]
    /\ req \in [Procs -> Messages]
    /\ pam \in {"unbound", "bound", "open"}
    /\ reply \in Seq(Tokens)
    /\ peer \in {"open", "closed"}
    /\ wire \in [state : {"empty", "partial", "complete"},
                 req : Requests \cup {NoRequest}]
    /\ sent \in [begun : Nat, completed : Nat]
    /\ nread \in Nat
    /\ children \in Seq(Kids)
    /\ at \in Nat \ {0}
    /\ kids \in [Kids -> {"none", "running", "zombie", "gone"}]
    /\ hurt \in BOOLEAN

\* the credentials become_user is to establish for a request
UserCred(r) ==
    [ruid |-> UidOf[r.user], euid |-> UidOf[r.user], suid |-> conf.base,
     rgid |-> Groups(r).gid, egid |-> Groups(r).gid, groups |-> Groups(r).gids]

\* A command function, and a port forwarding, only ever run with exactly the
\* credentials that the request asks for, under an existing user that is not
\* root, with that user's environment.  A TSI that does not switch runs them
\* as itself, and is not root.
RunsAsRequested ==
    \A p \in Procs : pc[p] \in {"run", "forwarding"} =>
        IF conf.switch
        THEN /\ req[p].user \in Users
             /\ UidOf[req[p].user] \notin {NoId, RootId}
             /\ cred[p] = UserCred(req[p])
             /\ env[p] = req[p].user
        ELSE cred[p] = BaseCred(conf) /\ conf.base # RootId

\* Between any two system calls of become_user and restore_id, whichever of
\* them failed: a process whose effective uid is not the TSI's own has dropped
\* the TSI's groups and holds those of its request.
NoMixedIdentity ==
    \A p \in Procs : pc[p] \notin {"none", "dead"} /\ cred[p].euid # conf.base =>
        cred[p] = UserCred(req[p])

\* When the worker waits for the next request nothing is left of the users it
\* has worked for: neither ids nor groups nor environment.  In particular no
\* failure in become_user makes the worker carry on as the last user.
CleanBetweenRequests ==
    pc[Main] \in {"cleanup", "reading", "dispatch", "wait"} =>
        /\ [cred[Main] EXCEPT !.groups = {}] = [BaseCred(conf) EXCEPT !.groups = {}]
        /\ cred[Main].groups \in {InitGroups, {BaseGid}}
        /\ env[Main] = Nobody

\* the replies UNICORE/X can make sense of, by the kind of the command
Frames(cmd) ==
    LET one == {<<"OK", "END">>, <<"FAILED", "END">>}
    IN  CASE cmd \in DataCommands ->
                {<<"FAILED", "END">>, <<"OK", "END", "END">>,
                 <<"OK", "END", "FAILED", "END">>}
          [] cmd = "TSI_LS" -> one \cup {<<"OK", "FAILED", "END">>}
          [] OTHER -> one

\* While the connection is up every request gets exactly one reply of the form
\* its command has, wherever it failed: no identity, no session, no switch, an
\* exception in the function.  The function of a file ACL command is exempt,
\* and so is a session child that was killed.
ReplyFraming ==
    /\ pc[Main] \in {"cleanup", "stopped"}
    /\ nread > 0 /\ peer = "open" /\ ~hurt
    /\ req[Main].cmd # "TSI_FILE_ACL"
    => reply \in Frames(req[Main].cmd)

\* A request that was cut off is not carried out: a worker reads no more
\* requests than UNICORE/X has completed.  The one-shot runner does not keep
\* this: it takes the end of its input for the end of a message.
OnlyCompleteRequests == ~conf.oneShot => nread <= sent.completed

\* A process started in the background is not forgotten before it has been
\* waited for, although the cleanup steps over entries of its list.
KidsTracked ==
    pc[Main] \notin {"stopped", "dead"} =>
        \A k \in Kids : kids[k] \in {"running", "zombie"} =>
            \E i \in DOMAIN children : children[i] = k

\* A session child that ends by itself has closed the session it opened, also
\* when the switch to the user, the function or the report of it failed.
SessionsClosed ==
    pc[Main] = "wait" /\ pc[Child] = "none" /\ ~hurt => pam # "open"

\* If UNICORE/X shuts down, its worker shuts down.
StopsWithPeer ==
    (~conf.forwarder /\ peer = "closed") ~> (pc[Main] \in {"stopped", "dead"})

\* with enforced OS groups a command has only groups that the user has
GroupsLimited ==
    \A p \in Procs :
        pc[p] \in {"run", "forwarding"} /\ conf.switch /\ conf.enforce =>
            cred[p].groups \subseteq GidsOf[req[p].user] \cup {GidOf[req[p].user]}
=============================================================================

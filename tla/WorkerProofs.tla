---------------------------- MODULE WorkerProofs ----------------------------
(***************************************************************************)
(* Proofs about Worker, for every set of users, groups, requests and       *)
(* configurations and every bound.                                         *)
(*                                                                         *)
(* What a process may hold as its credentials depends on where it is in    *)
(* handle_function, become_user and restore_id.  IdentityAt says so for    *)
(* every place; with the types it is inductive, and it implies the three   *)
(* safety properties about identities.                                     *)
(***************************************************************************)
EXTENDS Worker, TLAPS

-----------------------------------------------------------------------------
(* The inductive invariant. *)

\* the uids, and the gids, are the TSI's own
OwnUids(p) ==
    cred[p].ruid = conf.base /\ cred[p].euid = conf.base /\ cred[p].suid = conf.base
OwnGids(p) == cred[p].rgid = BaseGid /\ cred[p].egid = BaseGid

\* nothing of a user is left
Clean(p) ==
    /\ OwnUids(p) /\ OwnGids(p)
    /\ cred[p].groups \in {InitGroups, {BaseGid}}
    /\ env[p] = Nobody

\* the request names a user that become_user accepts
Resolved(p) ==
    /\ req[p].user \in Users
    /\ UidOf[req[p].user] \notin {NoId, RootId}
    /\ ~Groups(req[p]).raised

\* the gids, the groups and the uids are those of the request
UserGids(p) == cred[p].rgid = Groups(req[p]).gid /\ cred[p].egid = Groups(req[p]).gid
UserGroups(p) == cred[p].groups = Groups(req[p]).gids
UserUids(p) ==
    /\ cred[p].ruid = UidOf[req[p].user] /\ cred[p].euid = UidOf[req[p].user]
    /\ cred[p].suid = conf.base

\* the whole identity is that of the request
Switched(p) == Resolved(p) /\ UserGids(p) /\ UserGroups(p) /\ UserUids(p)

\* a TSI that does not switch keeps the credentials it was started with
Unswitched(p) ==
    /\ OwnUids(p) /\ OwnGids(p) /\ cred[p].groups = InitGroups
    /\ env[p] = Nobody

Outside == {"cleanup", "reading", "dispatch", "handle", "wait", "end"}
Before == {"identify", "session", "resolve", "setgid"}
Switching == {"setgid", "setgroups", "setegid", "setresuid", "verify"}
Restoring == {"restore_uid", "restore_gid", "restore_groups", "restore_egid",
              "close_session"}

IdentityAt(p) ==
    /\ pc[p] \in Outside \cup Before \cup {"close_session"} => Clean(p)
    /\ pc[p] \in {"session", "resolve"} => req[p].user \in Users
    /\ pc[p] \in Switching => Resolved(p)
    /\ pc[p] \in {"setgroups", "setegid", "setresuid"} => OwnUids(p) /\ UserGids(p)
    /\ pc[p] \in {"setegid", "setresuid"} => UserGroups(p)
    /\ pc[p] = "verify" => Switched(p)
    /\ pc[p] \in {"run", "forwarding"} /\ conf.switch => Switched(p) /\ env[p] = req[p].user
    /\ pc[p] \in {"except", "restore_uid", "stopped"} => OwnUids(p) \/ Switched(p)
    /\ pc[p] \in {"restore_gid", "restore_groups", "restore_egid"} => OwnUids(p)
    /\ pc[p] \in {"restore_groups", "restore_egid"} => OwnGids(p)
    /\ pc[p] = "restore_egid" => cred[p].groups = {BaseGid}
    /\ pc[p] \in Before \cup Switching \cup Restoring => conf.switch
    /\ ~conf.switch /\ pc[p] # "none" => Unswitched(p)

IdentityInv ==
    /\ TypeOK
    /\ conf.base = RootId => conf.switch
    /\ \A p \in Procs : IdentityAt(p)

-----------------------------------------------------------------------------
(* Lemmas about the operators. *)

\* The primary group is a gid, or an exception is raised.
LEMMA PrimaryType ==
    ASSUME NEW primary \in GroupNames,
           NEW gid \in Nat, NEW gids \in SUBSET Nat,
           NEW enforce \in BOOLEAN, NEW failInvalid \in BOOLEAN
    PROVE  LET m == GetPrimaryGroup(primary, gid, gids, GrpGid, enforce, failInvalid)
           IN  m.raised \in BOOLEAN /\ (~m.raised => m.gid \in Nat)
BY DatabaseAssumption DEF GetPrimaryGroup, Raised, NoId

\* The supplementary groups are gids, or an exception is raised.
LEMMA SupplementaryType ==
    ASSUME NEW requested \in Seq(GroupNames), NEW newGid \in Nat,
           NEW gid \in Nat, NEW gids \in SUBSET Nat,
           NEW enforce \in BOOLEAN, NEW failInvalid \in BOOLEAN
    PROVE  LET m == GetSupplementaryGroups(requested, newGid, gid, gids, GrpGid,
                                           enforce, failInvalid)
           IN  m.raised \in BOOLEAN /\ (~m.raised => m.gids \in SUBSET Nat)
<1>1. Named(requested) \subseteq GroupNames
  BY DEF Named
<1>2. {GrpGid[g] : g \in Named(requested)} \ {NoId} \in SUBSET Nat
  BY <1>1, DatabaseAssumption
<1>3. \A S, T : S \in SUBSET Nat /\ T \in SUBSET Nat => {newGid} \cup S \cup T \in SUBSET Nat
  OBVIOUS
<1> DEFINE D == IF \E i \in DOMAIN requested : requested[i] = DefaultGid
                THEN gids ELSE {}
           N == {GrpGid[g] : g \in Named(requested)} \ {NoId}
<1>4. {newGid} \cup D \cup N \in SUBSET Nat
  <2>1. D \in SUBSET Nat
    OBVIOUS
  <2> QED
    BY <1>2, <1>3, <2>1
<1> QED
  BY <1>4 DEF GetSupplementaryGroups, Raised

\* What the mapping of groups yields is a primary gid and a set of gids, or
\* an exception.
LEMMA MapGroupsType ==
    ASSUME NEW requested \in Seq(GroupNames) \ {<<>>},
           NEW gid \in Nat, NEW gids \in SUBSET Nat,
           NEW enforce \in BOOLEAN, NEW failInvalid \in BOOLEAN
    PROVE  LET m == MapGroups(requested, gid, gids, GrpGid, enforce, failInvalid)
           IN  /\ m.raised \in BOOLEAN
               /\ ~m.raised => m.gid \in Nat /\ m.gids \in SUBSET Nat
<1> DEFINE p == GetPrimaryGroup(requested[1], gid, gids, GrpGid, enforce, failInvalid)
           s == GetSupplementaryGroups(requested, p.gid, gid, gids, GrpGid,
                                       enforce, failInvalid)
<1>1. requested[1] \in GroupNames /\ requested \in Seq(GroupNames)
  OBVIOUS
<1>2. p.raised \in BOOLEAN /\ (~p.raised => p.gid \in Nat)
  BY <1>1, PrimaryType
<1>3. ~p.raised => s.raised \in BOOLEAN /\ (~s.raised => s.gids \in SUBSET Nat)
  BY <1>1, <1>2, SupplementaryType
<1> HIDE DEF p, s
<1>4. MapGroups(requested, gid, gids, GrpGid, enforce, failInvalid) =
        IF requested[1] = NoGroups THEN [raised |-> FALSE, gid |-> gid, gids |-> gids]
        ELSE IF p.raised \/ s.raised THEN Raised
        ELSE [raised |-> FALSE, gid |-> p.gid, gids |-> s.gids]
  BY <1>2 DEF MapGroups, p, s
<1> QED
  BY <1>2, <1>3, <1>4 DEF Raised

\* The gids of a request that become_user accepts.
LEMMA GroupsType ==
    ASSUME TypeOK, NEW p \in Procs, Resolved(p)
    PROVE  /\ Groups(req[p]).gid \in Nat
           /\ Groups(req[p]).gids \in SUBSET Nat
           /\ UidOf[req[p].user] \in Nat
<1>1. \A r \in Requests : CutOff(r).user = NoIdentity
  BY InputAssumption DEF CutOff, Request
<1>11. req[p] \in Requests
  BY <1>1, DatabaseAssumption DEF TypeOK, Resolved, NoRequest, Messages
<1>2. req[p].groups \in Seq(GroupNames) \ {<<>>}
  BY <1>11, InputAssumption DEF Request
<1>3. UidOf[req[p].user] \in Nat /\ GidOf[req[p].user] \in Nat
      /\ GidsOf[req[p].user] \in SUBSET Nat
  BY DatabaseAssumption DEF Resolved
<1>4. conf.enforce \in BOOLEAN /\ conf.failInvalid \in BOOLEAN
  BY DEF TypeOK, Config
<1> QED
  BY <1>2, <1>3, <1>4, MapGroupsType DEF Groups, Resolved

\* IdentityAt looks at nothing but a process's own state.
LEMMA Frame ==
    ASSUME NEW q \in Procs, IdentityAt(q), conf' = conf,
           pc'[q] = pc[q], cred'[q] = cred[q], env'[q] = env[q], req'[q] = req[q]
    PROVE  IdentityAt(q)'
BY DEF IdentityAt, Clean, OwnUids, OwnGids, Resolved, UserGids, UserGroups,
       UserUids, Switched, Unswitched, Groups

\* A step that changes the state of one process only.
LEMMA OneProcess ==
    ASSUME IdentityInv, TypeOK', conf' = conf,
           NEW p \in Procs, IdentityAt(p)',
           \A q \in Procs \ {p} : /\ pc'[q] = pc[q] /\ cred'[q] = cred[q]
                                  /\ env'[q] = env[q] /\ req'[q] = req[q]
    PROVE  IdentityInv'
<1>1. \A q \in Procs \ {p} : IdentityAt(q)'
  BY Frame DEF IdentityInv
<1> QED
  BY <1>1 DEF IdentityInv

-----------------------------------------------------------------------------
(* The steps of become_user and restore_id. *)

\* a system call that changes credentials keeps the types
LEMMA SetCredType ==
    ASSUME TypeOK, NEW p \in Procs, NEW allowed, NEW new \in Cred,
           NEW next \in Labels, NEW failed \in Labels,
           SetCred(p, allowed, new, next, failed),
           env' \in [Procs -> Users \cup {Nobody}]
    PROVE  TypeOK'
<1>1. pc' \in [Procs -> Labels] /\ cred' \in [Procs -> Cred]
  BY DEF TypeOK, SetCred, Goto
<1>2. hurt' \in BOOLEAN
  BY DEF TypeOK, SetCred
<1> QED
  BY <1>1, <1>2 DEF TypeOK, SetCred, chanVars, kidVars

\* and it keeps the invariant if it leads to a place where the new, or the old,
\* credentials belong
LEMMA SetCredStep ==
    ASSUME IdentityInv, NEW p \in Procs, NEW allowed, NEW new \in Cred,
           NEW next \in Labels, NEW failed \in Labels,
           SetCred(p, allowed, new, next, failed),
           env' \in [Procs -> Users \cup {Nobody}],
           \A q \in Procs \ {p} : env'[q] = env[q],
           /\ conf' = conf /\ req' = req
           /\ pc'[p] = next /\ cred'[p] = new
           => IdentityAt(p)',
           /\ conf' = conf /\ req' = req
           /\ pc'[p] = failed /\ cred'[p] = cred[p]
           => IdentityAt(p)'
    PROVE  IdentityInv'
<1>1. TypeOK'
  BY SetCredType DEF IdentityInv
<1>2. \A q \in Procs \ {p} : pc'[q] = pc[q] /\ cred'[q] = cred[q] /\ req'[q] = req[q]
  BY DEF SetCred, Goto, IdentityInv, TypeOK
<1>3. \/ pc'[p] = next /\ cred'[p] = new
      \/ pc'[p] = failed /\ cred'[p] = cred[p]
  BY DEF SetCred, Goto, IdentityInv, TypeOK
<1>4. conf' = conf /\ req' = req
  BY DEF SetCred
<1>5. IdentityAt(p)'
  BY <1>3, <1>4
<1> QED
  BY <1>1, <1>2, <1>4, <1>5, OneProcess

\* os.setgid puts the gid of the request beside the uids of the TSI, or fails
\* and leaves a clean process.
LEMMA SetGidStep ==
    ASSUME IdentityInv, NEW p \in Procs, SetGid(p)
    PROVE  IdentityInv'
<1> DEFINE new == [cred[p] EXCEPT !.rgid = Groups(req[p]).gid, !.egid = Groups(req[p]).gid]
<1>1. Resolved(p) /\ Clean(p) /\ conf.switch
  BY DEF IdentityInv, IdentityAt, SetGid, Switching, Before
<1>2. new \in Cred
  <2>1. /\ Groups(req[p]).gid \in Nat /\ Groups(req[p]).gids \in SUBSET Nat
        /\ UidOf[req[p].user] \in Nat
    BY <1>1, GroupsType DEF IdentityInv
  <2>2. cred[p] \in Cred /\ conf.base \in Nat
    BY DEF IdentityInv, TypeOK, Config
  <2> QED
    BY <2>1, <2>2 DEF Cred
<1>3. cred[p] \in Cred
  BY DEF IdentityInv, TypeOK
<1>4. env' = env
  BY DEF SetGid
<1>5. SetCred(p, Privileged(p), new, "setgroups", "except")
  BY DEF SetGid
<1>6. ASSUME conf' = conf, req' = req, pc'[p] = "setgroups", cred'[p] = new
      PROVE  IdentityAt(p)'
  BY <1>1, <1>3, <1>4, <1>6 DEF IdentityAt, Clean, OwnUids, OwnGids, Resolved, UserGids,
     UserGroups, UserUids, Switched, Groups, Outside, Before, Switching, Restoring, Cred
<1>7. ASSUME conf' = conf, req' = req, pc'[p] = "except", cred'[p] = cred[p]
      PROVE  IdentityAt(p)'
  BY <1>1, <1>4, <1>7 DEF IdentityAt, Clean, OwnUids, Outside, Before, Switching, Restoring
<1> HIDE DEF new
<1> QED
  BY <1>2, <1>4, <1>5, <1>6, <1>7, SetCredStep DEF IdentityInv, TypeOK, Labels

\* os.setgroups replaces the groups of the TSI, or fails with the uids still
\* the TSI's own.
LEMMA SetGroupsStep ==
    ASSUME IdentityInv, NEW p \in Procs, SetGroups(p)
    PROVE  IdentityInv'
<1> DEFINE new == [cred[p] EXCEPT !.groups = Groups(req[p]).gids]
<1>1. Resolved(p) /\ OwnUids(p) /\ UserGids(p) /\ conf.switch
  BY DEF IdentityInv, IdentityAt, SetGroups, Switching, Before
<1>2. new \in Cred
  <2>1. /\ Groups(req[p]).gid \in Nat /\ Groups(req[p]).gids \in SUBSET Nat
        /\ UidOf[req[p].user] \in Nat
    BY <1>1, GroupsType DEF IdentityInv
  <2>2. cred[p] \in Cred /\ conf.base \in Nat
    BY DEF IdentityInv, TypeOK, Config
  <2> QED
    BY <2>1, <2>2 DEF Cred
<1>3. cred[p] \in Cred
  BY DEF IdentityInv, TypeOK
<1>4. env' = env
  BY DEF SetGroups
<1>5. SetCred(p, Privileged(p), new, "setegid", "except")
  BY DEF SetGroups
<1>6. ASSUME conf' = conf, req' = req, pc'[p] = "setegid", cred'[p] = new
      PROVE  IdentityAt(p)'
  BY <1>1, <1>3, <1>4, <1>6 DEF IdentityAt, Clean, OwnUids, OwnGids, Resolved, UserGids,
     UserGroups, UserUids, Switched, Groups, Outside, Before, Switching, Restoring, Cred
<1>7. ASSUME conf' = conf, req' = req, pc'[p] = "except", cred'[p] = cred[p]
      PROVE  IdentityAt(p)'
  BY <1>1, <1>4, <1>7 DEF IdentityAt, Clean, OwnUids, Outside, Before, Switching, Restoring
<1> HIDE DEF new
<1> QED
  BY <1>2, <1>4, <1>5, <1>6, <1>7, SetCredStep DEF IdentityInv, TypeOK, Labels

\* os.setegid keeps the gids of the request.
LEMMA SetEgidStep ==
    ASSUME IdentityInv, NEW p \in Procs, SetEgid(p)
    PROVE  IdentityInv'
<1> DEFINE new == [cred[p] EXCEPT !.egid = Groups(req[p]).gid]
<1>1. Resolved(p) /\ OwnUids(p) /\ UserGids(p) /\ UserGroups(p) /\ conf.switch
  BY DEF IdentityInv, IdentityAt, SetEgid, Switching, Before
<1>2. new \in Cred
  <2>1. /\ Groups(req[p]).gid \in Nat /\ Groups(req[p]).gids \in SUBSET Nat
        /\ UidOf[req[p].user] \in Nat
    BY <1>1, GroupsType DEF IdentityInv
  <2>2. cred[p] \in Cred /\ conf.base \in Nat
    BY DEF IdentityInv, TypeOK, Config
  <2> QED
    BY <2>1, <2>2 DEF Cred
<1>3. cred[p] \in Cred
  BY DEF IdentityInv, TypeOK
<1>4. env' = env
  BY DEF SetEgid
<1>5. SetCred(p, Privileged(p), new, "setresuid", "except")
  BY DEF SetEgid
<1>6. ASSUME conf' = conf, req' = req, pc'[p] = "setresuid", cred'[p] = new
      PROVE  IdentityAt(p)'
  BY <1>1, <1>3, <1>4, <1>6 DEF IdentityAt, Clean, OwnUids, OwnGids, Resolved, UserGids,
     UserGroups, UserUids, Switched, Groups, Outside, Before, Switching, Restoring, Cred
<1>7. ASSUME conf' = conf, req' = req, pc'[p] = "except", cred'[p] = cred[p]
      PROVE  IdentityAt(p)'
  BY <1>1, <1>4, <1>7 DEF IdentityAt, Clean, OwnUids, Outside, Before, Switching, Restoring
<1> HIDE DEF new
<1> QED
  BY <1>2, <1>4, <1>5, <1>6, <1>7, SetCredStep DEF IdentityInv, TypeOK, Labels

\* os.setresuid is the last call: after it the whole identity is that of the
\* request, and when it fails the uids are still the TSI's own.
LEMMA SetResuidStep ==
    ASSUME IdentityInv, NEW p \in Procs, SetResuid(p)
    PROVE  IdentityInv'
<1> DEFINE new == [cred[p] EXCEPT !.ruid = UidOf[req[p].user], !.euid = UidOf[req[p].user],
                                !.suid = conf.base]
<1>1. Resolved(p) /\ OwnUids(p) /\ UserGids(p) /\ UserGroups(p) /\ conf.switch
  BY DEF IdentityInv, IdentityAt, SetResuid, Switching, Before
<1>2. new \in Cred
  <2>1. /\ Groups(req[p]).gid \in Nat /\ Groups(req[p]).gids \in SUBSET Nat
        /\ UidOf[req[p].user] \in Nat
    BY <1>1, GroupsType DEF IdentityInv
  <2>2. cred[p] \in Cred /\ conf.base \in Nat
    BY DEF IdentityInv, TypeOK, Config
  <2> QED
    BY <2>1, <2>2 DEF Cred
<1>3. cred[p] \in Cred
  BY DEF IdentityInv, TypeOK
<1>4. env' = env
  BY DEF SetResuid
<1>5. SetCred(p, Privileged(p), new, "verify", "except")
  BY DEF SetResuid
<1>6. ASSUME conf' = conf, req' = req, pc'[p] = "verify", cred'[p] = new
      PROVE  IdentityAt(p)'
  BY <1>1, <1>3, <1>4, <1>6 DEF IdentityAt, Clean, OwnUids, OwnGids, Resolved, UserGids,
     UserGroups, UserUids, Switched, Groups, Outside, Before, Switching, Restoring, Cred
<1>7. ASSUME conf' = conf, req' = req, pc'[p] = "except", cred'[p] = cred[p]
      PROVE  IdentityAt(p)'
  BY <1>1, <1>4, <1>7 DEF IdentityAt, Clean, OwnUids, Outside, Before, Switching, Restoring
<1> HIDE DEF new
<1> QED
  BY <1>2, <1>4, <1>5, <1>6, <1>7, SetCredStep DEF IdentityInv, TypeOK, Labels

\* The first call of restore_id takes back the uids of the TSI.
LEMMA RestoreUidStep ==
    ASSUME IdentityInv, NEW p \in Procs, RestoreUid(p)
    PROVE  IdentityInv'
<1> DEFINE new == [cred[p] EXCEPT !.ruid = conf.base, !.euid = conf.base,
                                !.suid = conf.base]
<1>1. conf.switch
  BY DEF IdentityInv, IdentityAt, RestoreUid, Restoring
<1>2. cred[p] \in Cred /\ conf.base \in Nat
  BY DEF IdentityInv, TypeOK, Config
<1>3. new \in Cred
  BY <1>2, DatabaseAssumption DEF Cred
<1>4. env' = env
  BY DEF RestoreUid
<1>5. SetCred(p, conf.base \in {cred[p].euid, cred[p].suid}, new, "restore_gid", Uncaught(p))
  BY DEF RestoreUid
<1>6. ASSUME conf' = conf, req' = req, pc'[p] = "restore_gid", cred'[p] = new
      PROVE  IdentityAt(p)'
  BY <1>1, <1>2, <1>4, <1>6 DEF IdentityAt, OwnUids, OwnGids, Outside, Before,
     Switching, Restoring, Cred
<1>7. ASSUME conf' = conf, req' = req, pc'[p] = Uncaught(p), cred'[p] = cred[p]
      PROVE  IdentityAt(p)'
  BY <1>1, <1>7 DEF IdentityAt, Uncaught, Outside, Before, Switching, Restoring
<1>8. Uncaught(p) \in Labels /\ "restore_gid" \in Labels
  BY DEF Uncaught, Labels
<1> HIDE DEF new
<1> QED
  BY <1>3, <1>4, <1>5, <1>6, <1>7, <1>8, SetCredStep DEF IdentityInv, TypeOK

\* os.setgid of restore_id takes back the gids of the TSI.
LEMMA RestoreGidStep ==
    ASSUME IdentityInv, NEW p \in Procs, RestoreGid(p)
    PROVE  IdentityInv'
<1> DEFINE new == [cred[p] EXCEPT !.rgid = BaseGid, !.egid = BaseGid]
<1>1. conf.switch /\ OwnUids(p)
  BY DEF IdentityInv, IdentityAt, RestoreGid, Restoring
<1>2. cred[p] \in Cred /\ conf.base \in Nat
  BY DEF IdentityInv, TypeOK, Config
<1>3. new \in Cred
  BY <1>2, DatabaseAssumption DEF Cred
<1>4. env' = env
  BY DEF RestoreGid
<1>5. SetCred(p, Privileged(p), new, "restore_groups", Uncaught(p))
  BY DEF RestoreGid
<1>6. ASSUME conf' = conf, req' = req, pc'[p] = "restore_groups", cred'[p] = new
      PROVE  IdentityAt(p)'
  BY <1>1, <1>2, <1>4, <1>6 DEF IdentityAt, OwnUids, OwnGids, Outside, Before,
     Switching, Restoring, Cred
<1>7. ASSUME conf' = conf, req' = req, pc'[p] = Uncaught(p), cred'[p] = cred[p]
      PROVE  IdentityAt(p)'
  BY <1>1, <1>7 DEF IdentityAt, Uncaught, Outside, Before, Switching, Restoring
<1>8. Uncaught(p) \in Labels /\ "restore_groups" \in Labels
  BY DEF Uncaught, Labels
<1> HIDE DEF new
<1> QED
  BY <1>3, <1>4, <1>5, <1>6, <1>7, <1>8, SetCredStep DEF IdentityInv, TypeOK

\* os.setgroups of restore_id leaves the gid of the TSI as the only group.
LEMMA RestoreGroupsStep ==
    ASSUME IdentityInv, NEW p \in Procs, RestoreGroups(p)
    PROVE  IdentityInv'
<1> DEFINE new == [cred[p] EXCEPT !.groups = {BaseGid}]
<1>1. conf.switch /\ OwnUids(p) /\ OwnGids(p)
  BY DEF IdentityInv, IdentityAt, RestoreGroups, Restoring
<1>2. cred[p] \in Cred /\ conf.base \in Nat
  BY DEF IdentityInv, TypeOK, Config
<1>3. new \in Cred
  BY <1>2, DatabaseAssumption DEF Cred
<1>4. env' = env
  BY DEF RestoreGroups
<1>5. SetCred(p, Privileged(p), new, "restore_egid", Uncaught(p))
  BY DEF RestoreGroups
<1>6. ASSUME conf' = conf, req' = req, pc'[p] = "restore_egid", cred'[p] = new
      PROVE  IdentityAt(p)'
  BY <1>1, <1>2, <1>4, <1>6 DEF IdentityAt, OwnUids, OwnGids, Outside, Before,
     Switching, Restoring, Cred
<1>7. ASSUME conf' = conf, req' = req, pc'[p] = Uncaught(p), cred'[p] = cred[p]
      PROVE  IdentityAt(p)'
  BY <1>1, <1>7 DEF IdentityAt, Uncaught, Outside, Before, Switching, Restoring
<1>8. Uncaught(p) \in Labels /\ "restore_egid" \in Labels
  BY DEF Uncaught, Labels
<1> HIDE DEF new
<1> QED
  BY <1>3, <1>4, <1>5, <1>6, <1>7, <1>8, SetCredStep DEF IdentityInv, TypeOK

\* With the last call of restore_id and the reset of the environment nothing of
\* the user is left.
LEMMA RestoreEgidStep ==
    ASSUME IdentityInv, NEW p \in Procs, RestoreEgid(p)
    PROVE  IdentityInv'
<1> DEFINE new == [cred[p] EXCEPT !.egid = BaseGid]
           next == IF OpensSession(req[p].cmd) THEN "close_session" ELSE "end"
<1>1. conf.switch /\ OwnUids(p) /\ OwnGids(p) /\ cred[p].groups = {BaseGid}
  BY DEF IdentityInv, IdentityAt, RestoreEgid, Restoring
<1>2. cred[p] \in Cred
  BY DEF IdentityInv, TypeOK
<1>3. new \in Cred
  BY <1>2, DatabaseAssumption DEF Cred
<1>4. SetCred(p, Privileged(p), new, next, Uncaught(p))
  BY DEF RestoreEgid
<1>5. /\ env' \in [Procs -> Users \cup {Nobody}]
      /\ \A q \in Procs \ {p} : env'[q] = env[q]
      /\ pc'[p] # Uncaught(p) => env'[p] = Nobody
  BY DEF RestoreEgid, IdentityInv, TypeOK
<1>6. ASSUME conf' = conf, req' = req, pc'[p] = next, cred'[p] = new
      PROVE  IdentityAt(p)'
  <2>1. next \in {"close_session", "end"} /\ next # Uncaught(p)
    BY DEF Uncaught
  <2> HIDE DEF next
  <2> QED
    BY <1>1, <1>2, <1>5, <1>6, <2>1 DEF IdentityAt, Clean, OwnUids, OwnGids, Outside,
       Before, Switching, Restoring, Cred
<1>7. ASSUME conf' = conf, req' = req, pc'[p] = Uncaught(p), cred'[p] = cred[p]
      PROVE  IdentityAt(p)'
  BY <1>1, <1>7 DEF IdentityAt, Uncaught, Outside, Before, Switching, Restoring
<1>8. Uncaught(p) \in Labels /\ next \in Labels
  BY DEF Uncaught, Labels
<1> HIDE DEF new, next
<1> QED
  BY <1>3, <1>4, <1>5, <1>6, <1>7, <1>8, SetCredStep

-----------------------------------------------------------------------------
(* The other steps of handle_function and the request loop. *)

\* A step that moves one process, within the types, to a place where what it
\* holds belongs.
LEMMA MoveStep ==
    ASSUME IdentityInv, NEW p \in Procs, NEW label \in Labels, Goto(p, label),
           conf' = conf, cred' = cred, env' = env, req' = req, TypeOK',
           pc'[p] = label => IdentityAt(p)'
    PROVE  IdentityInv'
<1>1. pc'[p] = label /\ \A q \in Procs \ {p} : pc'[q] = pc[q]
  BY DEF Goto, IdentityInv, TypeOK
<1> QED
  BY <1>1, OneProcess

\* The types, when a step moves a process and writes no more than a reply.
LEMMA MoveType ==
    ASSUME TypeOK, NEW p \in Procs, NEW label \in Labels, Goto(p, label),
           UNCHANGED <<conf, cred, env, req>>, UNCHANGED chanVars, UNCHANGED kidVars,
           pam' \in {"unbound", "bound", "open"}, reply' \in Seq(Tokens),
           hurt' \in BOOLEAN
    PROVE  TypeOK'
BY DEF TypeOK, Goto, chanVars, kidVars

\* A write on the control channel adds to the reply, or not.
LEMMA WriteType ==
    ASSUME TypeOK, NEW p, NEW token \in Tokens, NEW next, NEW failed,
           Write(p, token, next, failed)
    PROVE  reply' \in Seq(Tokens)
<1>1. reply \in Seq(Tokens)
  BY DEF TypeOK
<1> QED
  BY <1>1 DEF Write

\* The search for the identity leaves a clean process, and goes on only with a
\* user name.
LEMMA IdentifyStep ==
    ASSUME IdentityInv, NEW p \in Procs, Identify(p)
    PROVE  IdentityInv'
<1>1. Clean(p) /\ conf.switch
  BY DEF IdentityInv, IdentityAt, Identify, Before
<1>2. PICK label \in {"except", "session", "resolve"} : Goto(p, label)
  BY DEF Identify
<1>3. TypeOK'
  BY <1>2, MoveType DEF Identify, Labels, IdentityInv, TypeOK
<1>4. conf' = conf /\ cred' = cred /\ env' = env /\ req' = req
  BY DEF Identify
<1>5. pc'[p] # "except" => req[p].user \in Users
  <2>1. req[p].user \in Users \cup {NoIdentity}
    BY InputAssumption DEF IdentityInv, TypeOK, Request, NoRequest, Messages, CutOff
  <2>2. pc'[p] # "except" => req[p].user # NoIdentity
    BY DEF Identify, Goto, IdentityInv, TypeOK
  <2> QED
    BY <2>1, <2>2
<1>6. ASSUME pc'[p] = label PROVE IdentityAt(p)'
  BY <1>1, <1>4, <1>5, <1>6 DEF IdentityAt, Clean, OwnUids, OwnGids, Outside, Before,
     Switching, Restoring
<1> QED
  BY <1>2, <1>3, <1>4, <1>6, MoveStep DEF Labels

\* Opening a session, or failing to, changes no credentials.
LEMMA OpenPamSessionStep ==
    ASSUME IdentityInv, NEW p \in Procs, OpenPamSession(p)
    PROVE  IdentityInv'
<1>1. Clean(p) /\ conf.switch /\ req[p].user \in Users
  BY DEF IdentityInv, IdentityAt, OpenPamSession, Outside, Before, Switching, Restoring
<1>2. PICK label \in {"except", "resolve"} : Goto(p, label)
  BY DEF OpenPamSession
<1>3. TypeOK'
  BY <1>2, MoveType DEF OpenPamSession, Labels, Procs, IdentityInv, TypeOK
<1>4. conf' = conf /\ cred' = cred /\ env' = env /\ req' = req
  BY DEF OpenPamSession
<1>5. ASSUME pc'[p] = label PROVE IdentityAt(p)'
  BY <1>1, <1>4, <1>5 DEF IdentityAt, Clean, OwnUids, OwnGids, Outside, Before, Switching, Restoring
<1> QED
  BY <1>2, <1>3, <1>4, <1>5, MoveStep DEF Labels, Procs

\* A session child that closes its session ends.
LEMMA ClosePamSessionStep ==
    ASSUME IdentityInv, NEW p \in Procs, ClosePamSession(p)
    PROVE  IdentityInv'
<1>1. conf.switch
  BY DEF IdentityInv, IdentityAt, ClosePamSession, Outside, Before, Switching, Restoring
<1>2. PICK label \in {"none"} : Goto(p, label)
  BY DEF ClosePamSession
<1>3. TypeOK'
  BY <1>2, MoveType DEF ClosePamSession, Labels, Procs, IdentityInv, TypeOK
<1>4. conf' = conf /\ cred' = cred /\ env' = env /\ req' = req
  BY DEF ClosePamSession
<1>5. ASSUME pc'[p] = label PROVE IdentityAt(p)'
  BY <1>1, <1>4, <1>5 DEF IdentityAt, Clean, OwnUids, OwnGids, Outside, Before, Switching, Restoring
<1> QED
  BY <1>2, <1>3, <1>4, <1>5, MoveStep DEF Labels, Procs

\* The end of cleanup leaves the worker clean.
LEMMA CleanupDoneStep ==
    ASSUME IdentityInv, CleanupDone
    PROVE  IdentityInv'
<1>1. Clean(Main) /\ (~conf.switch => Unswitched(Main))
  BY DEF IdentityInv, IdentityAt, CleanupDone, Procs, Outside, Before, Switching, Restoring
<1>2. PICK label \in {"reading"} : Goto(Main, label)
  BY DEF CleanupDone
<1>3. TypeOK'
  <2>1. pc' \in [Procs -> Labels]
    BY <1>2 DEF Goto, Labels, IdentityInv, TypeOK
  <2> QED
    BY <2>1 DEF CleanupDone, IdentityInv, TypeOK, chanVars
<1>4. conf' = conf /\ cred' = cred /\ env' = env /\ req' = req
  BY DEF CleanupDone
<1>5. ASSUME pc'[Main] = label PROVE IdentityAt(Main)'
  BY <1>1, <1>4, <1>5 DEF IdentityAt, Clean, OwnUids, OwnGids, Resolved, UserGids,
     UserGroups, UserUids, Switched, Unswitched, Groups, Outside, Before, Switching, Restoring
<1> QED
  BY <1>2, <1>3, <1>4, <1>5, MoveStep DEF Labels, Procs

\* The end of the stream stops a clean worker.
LEMMA ReadFailsStep ==
    ASSUME IdentityInv, ReadFails
    PROVE  IdentityInv'
<1>1. Clean(Main) /\ (~conf.switch => Unswitched(Main))
  BY DEF IdentityInv, IdentityAt, ReadFails, Procs, Outside, Before, Switching, Restoring
<1>2. PICK label \in {"stopped"} : Goto(Main, label)
  BY DEF ReadFails
<1>3. TypeOK'
  BY <1>2, MoveType DEF ReadFails, Labels, Procs, IdentityInv, TypeOK
<1>4. conf' = conf /\ cred' = cred /\ env' = env /\ req' = req
  BY DEF ReadFails
<1>5. ASSUME pc'[Main] = label PROVE IdentityAt(Main)'
  BY <1>1, <1>4, <1>5 DEF IdentityAt, Clean, OwnUids, OwnGids, Resolved, UserGids,
     UserGroups, UserUids, Switched, Unswitched, Groups, Outside, Before, Switching, Restoring
<1> QED
  BY <1>2, <1>3, <1>4, <1>5, MoveStep DEF Labels, Procs

\* The lookup of the command, and the answer to a ping, leave the worker clean.
LEMMA DispatchStep ==
    ASSUME IdentityInv, Dispatch
    PROVE  IdentityInv'
<1>1. Clean(Main) /\ (~conf.switch => Unswitched(Main))
  BY DEF IdentityInv, IdentityAt, Dispatch, Procs, Outside, Before, Switching, Restoring
<1>2. PICK label \in {"end", "dead", "handle"} : Goto(Main, label)
  BY DEF Dispatch, Write
<1>3. TypeOK'
  <2>1. reply' \in Seq(Tokens)
    <3>1. CASE Write(Main, "FAILED", "end", "dead")
      BY <3>1, WriteType DEF Tokens, IdentityInv
    <3>2. CASE Write(Main, "OK", "end", "dead")
      BY <3>2, WriteType DEF Tokens, IdentityInv
    <3>3. CASE UNCHANGED reply
      BY <3>3 DEF IdentityInv, TypeOK
    <3> QED
      BY <3>1, <3>2, <3>3 DEF Dispatch
  <2> QED
    BY <1>2, <2>1, MoveType DEF Dispatch, Labels, Procs, IdentityInv, TypeOK
<1>4. conf' = conf /\ cred' = cred /\ env' = env /\ req' = req
  BY DEF Dispatch, Write
<1>5. ASSUME pc'[Main] = label PROVE IdentityAt(Main)'
  BY <1>1, <1>4, <1>5 DEF IdentityAt, Clean, OwnUids, OwnGids, Resolved, UserGids,
     UserGroups, UserUids, Switched, Unswitched, Groups, Outside, Before, Switching, Restoring
<1> QED
  BY <1>2, <1>3, <1>4, <1>5, MoveStep DEF Labels, Procs

\* The worker has not switched while its session child worked.
LEMMA WaitForChildStep ==
    ASSUME IdentityInv, WaitForChild
    PROVE  IdentityInv'
<1>1. Clean(Main) /\ (~conf.switch => Unswitched(Main))
  BY DEF IdentityInv, IdentityAt, WaitForChild, Procs, Outside, Before, Switching, Restoring
<1>2. PICK label \in {"end"} : Goto(Main, label)
  BY DEF WaitForChild
<1>3. TypeOK'
  BY <1>2, MoveType DEF WaitForChild, Labels, Procs, IdentityInv, TypeOK
<1>4. conf' = conf /\ cred' = cred /\ env' = env /\ req' = req
  BY DEF WaitForChild
<1>5. ASSUME pc'[Main] = label PROVE IdentityAt(Main)'
  BY <1>1, <1>4, <1>5 DEF IdentityAt, Clean, OwnUids, OwnGids, Resolved, UserGids,
     UserGroups, UserUids, Switched, Unswitched, Groups, Outside, Before, Switching, Restoring
<1> QED
  BY <1>2, <1>3, <1>4, <1>5, MoveStep DEF Labels, Procs

\* The end of a reply leaves a clean worker to the next request.
LEMMA EndReplyStep ==
    ASSUME IdentityInv, NEW p \in Procs, EndReply(p)
    PROVE  IdentityInv'
<1>1. Clean(p) /\ (~conf.switch => Unswitched(p))
  BY DEF IdentityInv, IdentityAt, EndReply, Outside, Before, Switching, Restoring
<1>2. PICK label \in {"stopped", "cleanup", "dead", "none"} : Goto(p, label)
  BY DEF EndReply, Write, Uncaught
<1>3. TypeOK'
  <2>1. reply' \in Seq(Tokens)
    BY WriteType DEF EndReply, Tokens, IdentityInv
  <2> QED
    BY <1>2, <2>1, MoveType DEF EndReply, Labels, Procs, IdentityInv, TypeOK
<1>4. conf' = conf /\ cred' = cred /\ env' = env /\ req' = req
  BY DEF EndReply, Write, Uncaught
<1>5. ASSUME pc'[p] = label PROVE IdentityAt(p)'
  BY <1>1, <1>4, <1>5 DEF IdentityAt, Clean, OwnUids, OwnGids, Resolved, UserGids,
     UserGroups, UserUids, Switched, Unswitched, Groups, Outside, Before, Switching, Restoring
<1> QED
  BY <1>2, <1>3, <1>4, <1>5, MoveStep DEF Labels, Procs

\* A forwarder starts its threads with the identity of the request, or fails
\* with it.
LEMMA StartForwardingStep ==
    ASSUME IdentityInv, StartForwarding
    PROVE  IdentityInv'
<1>1. /\ conf.switch => Switched(Main) /\ env[Main] = req[Main].user
      /\ ~conf.switch => Unswitched(Main)
  BY DEF IdentityInv, IdentityAt, StartForwarding, Procs, Outside, Before, Switching, Restoring
<1>2. PICK label \in {"forwarding", "except"} : Goto(Main, label)
  BY DEF StartForwarding
<1>3. TypeOK'
  BY <1>2, MoveType DEF StartForwarding, Labels, Procs, IdentityInv, TypeOK
<1>4. conf' = conf /\ cred' = cred /\ env' = env /\ req' = req
  BY DEF StartForwarding
<1>5. ASSUME pc'[Main] = label PROVE IdentityAt(Main)'
  BY <1>1, <1>4, <1>5 DEF IdentityAt, Clean, OwnUids, OwnGids, Resolved, UserGids,
     UserGroups, UserUids, Switched, Unswitched, Groups, Outside, Before, Switching, Restoring
<1> QED
  BY <1>2, <1>3, <1>4, <1>5, MoveStep DEF Labels, Procs

\* A forwarder ends with the identity of the request.
LEMMA ForwardingEndsStep ==
    ASSUME IdentityInv, ForwardingEnds
    PROVE  IdentityInv'
<1>1. /\ conf.switch => Switched(Main)
      /\ ~conf.switch => Unswitched(Main)
  BY DEF IdentityInv, IdentityAt, ForwardingEnds, Procs, Outside, Before, Switching, Restoring
<1>2. PICK label \in {"stopped"} : Goto(Main, label)
  BY DEF ForwardingEnds
<1>3. TypeOK'
  BY <1>2, MoveType DEF ForwardingEnds, Labels, Procs, IdentityInv, TypeOK
<1>4. conf' = conf /\ cred' = cred /\ env' = env /\ req' = req
  BY DEF ForwardingEnds
<1>5. ASSUME pc'[Main] = label PROVE IdentityAt(Main)'
  BY <1>1, <1>4, <1>5 DEF IdentityAt, Clean, OwnUids, OwnGids, Resolved, UserGids,
     UserGroups, UserUids, Switched, Unswitched, Groups, Outside, Before, Switching, Restoring
<1> QED
  BY <1>2, <1>3, <1>4, <1>5, MoveStep DEF Labels, Procs

\* become_user reaches its first system call only for a known user that is not
\* root and for groups that map.
LEMMA BecomeUserStep ==
    ASSUME IdentityInv, NEW p \in Procs, BecomeUser(p)
    PROVE  IdentityInv'
<1>1. Clean(p) /\ conf.switch
  BY DEF IdentityInv, IdentityAt, BecomeUser, Before
<1>2. PICK label \in {"except", "setgid"} : Goto(p, label)
  BY DEF BecomeUser
<1>3. TypeOK'
  BY <1>2, MoveType DEF BecomeUser, Labels, IdentityInv, TypeOK
<1>4. conf' = conf /\ cred' = cred /\ env' = env /\ req' = req
  BY DEF BecomeUser
<1>5. pc'[p] = "setgid" => Resolved(p)
  <2>1. ASSUME UidOf[req[p].user] \notin {NoId, RootId}, ~Groups(req[p]).raised,
               req[p].user \in Users
        PROVE  Resolved(p)
    BY <2>1 DEF Resolved
  <2>2. pc'[p] = "setgid" => UidOf[req[p].user] \notin {NoId, RootId} /\ ~Groups(req[p]).raised
    BY DEF BecomeUser, Goto, IdentityInv, TypeOK
  <2>3. req[p].user \in Users
    BY DEF BecomeUser, IdentityInv, IdentityAt, Before
  <2> QED
    BY <2>1, <2>2, <2>3
<1>6. ASSUME pc'[p] = label PROVE IdentityAt(p)'
  BY <1>1, <1>4, <1>5, <1>6 DEF IdentityAt, Clean, OwnUids, OwnGids, Resolved, Groups,
     Outside, Before, Switching, Restoring
<1> QED
  BY <1>2, <1>3, <1>4, <1>6, MoveStep DEF Labels

\* The checks at the end of become_user let a switched identity pass.
LEMMA VerifyIdentityStep ==
    ASSUME IdentityInv, NEW p \in Procs, VerifyIdentity(p)
    PROVE  IdentityInv'
<1>1. Switched(p) /\ conf.switch
  BY DEF IdentityInv, IdentityAt, VerifyIdentity, Switching
<1>2. /\ \/ pc'[p] = "run" /\ env'[p] = req[p].user
         \/ pc'[p] = "except"
      /\ \A q \in Procs \ {p} : pc'[q] = pc[q] /\ env'[q] = env[q]
  BY DEF VerifyIdentity, Goto, IdentityInv, TypeOK
<1>3. TypeOK'
  <2>1. pc' \in [Procs -> Labels]
    BY DEF VerifyIdentity, Goto, Labels, IdentityInv, TypeOK
  <2>2. req[p].user \in Users
    BY <1>1 DEF Switched, Resolved
  <2>3. env' \in [Procs -> Users \cup {Nobody}]
    BY <2>2 DEF VerifyIdentity, IdentityInv, TypeOK
  <2> QED
    BY <2>1, <2>3 DEF VerifyIdentity, IdentityInv, TypeOK, chanVars, kidVars
<1>4. conf' = conf /\ cred' = cred /\ req' = req
  BY DEF VerifyIdentity
<1>5. IdentityAt(p)'
  BY <1>1, <1>2, <1>4 DEF IdentityAt, Resolved, UserGids, UserGroups, UserUids,
     Switched, Groups, Outside, Before, Switching, Restoring
<1> QED
  BY <1>2, <1>3, <1>4, <1>5, OneProcess

\* After an exception the identity is the TSI's own or the whole of the
\* user's, and restore_id is next when the TSI switches.
LEMMA ReportFailureStep ==
    ASSUME IdentityInv, NEW p \in Procs, ReportFailure(p)
    PROVE  IdentityInv'
<1>1. (OwnUids(p) \/ Switched(p)) /\ (~conf.switch => Unswitched(p))
  BY DEF IdentityInv, IdentityAt, ReportFailure
<1>2. PICK label \in {AfterTry, "dead", "none"} : Goto(p, label)
  BY DEF ReportFailure, Write, Uncaught
<1>3. TypeOK'
  <2>1. reply' \in Seq(Tokens)
    <3>1. CASE Write(p, "FAILED", AfterTry, Uncaught(p))
      BY <3>1, WriteType DEF Tokens, IdentityInv
    <3>2. CASE UNCHANGED reply
      BY <3>2 DEF IdentityInv, TypeOK
    <3> QED
      BY <3>1, <3>2 DEF ReportFailure
  <2>2. hurt' \in BOOLEAN
    BY DEF ReportFailure, IdentityInv, TypeOK
  <2> QED
    BY <1>2, <2>1, <2>2, MoveType DEF ReportFailure, AfterTry, Labels, IdentityInv, TypeOK
<1>4. conf' = conf /\ cred' = cred /\ env' = env /\ req' = req
  BY DEF ReportFailure
<1>5. ASSUME pc'[p] = label PROVE IdentityAt(p)'
  BY <1>1, <1>4, <1>5 DEF AfterTry, IdentityAt, Clean, OwnUids, OwnGids, Resolved,
     UserGids, UserGroups, UserUids, Switched, Unswitched, Groups,
     Outside, Before, Switching, Restoring
<1> QED
  BY <1>2, <1>3, <1>4, <1>5, MoveStep DEF Labels, AfterTry

\* What a function writes are tokens.
LEMMA OutcomesType ==
    ASSUME NEW cmd
    PROVE  \A o \in Outcomes(cmd) : o.writes \in Seq(Tokens)
<1>1. \A w, b : Outcome(w, b).writes = w
  BY DEF Outcome
<1>2. /\ <<>> \in Seq(Tokens) /\ <<"OK">> \in Seq(Tokens) /\ <<"FAILED">> \in Seq(Tokens)
      /\ <<"OK", "END">> \in Seq(Tokens) /\ <<"FAILED", "OK">> \in Seq(Tokens)
      /\ <<"FAILED", "FAILED">> \in Seq(Tokens)
      /\ <<"FAILED", "FAILED", "FAILED">> \in Seq(Tokens)
  BY DEF Tokens
<1>3. \A o \in OneReply : o.writes \in Seq(Tokens)
  BY <1>1, <1>2 DEF OneReply
<1>4. \A o \in DataReply : o.writes \in Seq(Tokens)
  BY <1>1, <1>2 DEF DataReply
<1>5. \A o \in ListReply : o.writes \in Seq(Tokens)
  BY <1>1, <1>2, <1>3 DEF ListReply
<1>6. \A o \in AclReply : o.writes \in Seq(Tokens)
  BY <1>1, <1>2, <1>3 DEF AclReply
<1> QED
  BY <1>3, <1>4, <1>5, <1>6 DEF Outcomes

\* A process started in the background is added to the list of children.
LEMMA SpawnType ==
    ASSUME TypeOK, NEW p, NEW k \in Kids, Spawn(p, k)
    PROVE  /\ kids' \in [Kids -> {"none", "running", "zombie", "gone"}]
           /\ children' \in Seq(Kids)
           /\ at' = at
<1>1. kids \in [Kids -> {"none", "running", "zombie", "gone"}] /\ children \in Seq(Kids)
  BY DEF TypeOK
<1>2. kids' \in [Kids -> {"none", "running", "zombie", "gone"}]
  BY <1>1 DEF Spawn
<1>3. children' \in Seq(Kids)
  BY <1>1 DEF Spawn
<1> QED
  BY <1>2, <1>3 DEF Spawn

\* The command function, whatever it replies and wherever it fails, keeps the
\* invariant.
LEMMA RunFunctionStep ==
    ASSUME IdentityInv, NEW p \in Procs, RunFunction(p)
    PROVE  IdentityInv'
<1>1. /\ conf.switch => Switched(p)
      /\ ~conf.switch => Unswitched(p)
  BY DEF IdentityInv, IdentityAt, RunFunction
<1>2. PICK label \in {AfterTry, "except"} : Goto(p, label)
  BY DEF RunFunction
<1>3. reply' \in Seq(Tokens)
  <2>1. reply \in Seq(Tokens)
    BY DEF IdentityInv, TypeOK
  <2>2. PICK o \in Outcomes(req[p].cmd) :
           \/ reply' = reply \o o.writes
           \/ \E n \in 0 .. Len(o.writes) : reply' = reply \o SubSeq(o.writes, 1, n)
    BY DEF RunFunction
  <2>3. o.writes \in Seq(Tokens)
    BY OutcomesType
  <2>4. \A n \in 0 .. Len(o.writes) : SubSeq(o.writes, 1, n) \in Seq(Tokens)
    BY <2>3
  <2>5. \A t \in Seq(Tokens) : reply \o t \in Seq(Tokens)
    BY <2>1
  <2>6. CASE reply' = reply \o o.writes
    BY <2>3, <2>5, <2>6
  <2>7. ASSUME NEW n \in 0 .. Len(o.writes), reply' = reply \o SubSeq(o.writes, 1, n)
        PROVE  reply' \in Seq(Tokens)
    BY <2>4, <2>5, <2>7
  <2> QED
    BY <2>2, <2>6, <2>7
<1>4. TypeOK'
  <2>1. pc' \in [Procs -> Labels]
    BY <1>2 DEF Goto, AfterTry, Labels, IdentityInv, TypeOK
  <2>2. /\ kids' \in [Kids -> {"none", "running", "zombie", "gone"}]
        /\ children' \in Seq(Kids)
        /\ at' = at
    <3>1. CASE UNCHANGED kidVars
      BY <3>1 DEF kidVars, IdentityInv, TypeOK
    <3>2. CASE \E k \in Kids : Spawn(p, k)
      BY <3>2, SpawnType DEF IdentityInv
    <3> QED
      BY <3>1, <3>2 DEF RunFunction
  <2> QED
    BY <1>3, <2>1, <2>2 DEF RunFunction, IdentityInv, TypeOK, chanVars
<1>5. conf' = conf /\ cred' = cred /\ env' = env /\ req' = req
  BY DEF RunFunction
<1>6. ASSUME pc'[p] = label PROVE IdentityAt(p)'
  BY <1>1, <1>5, <1>6 DEF AfterTry, IdentityAt, Clean, OwnUids, OwnGids, Resolved,
     UserGids, UserGroups, UserUids, Switched, Unswitched, Groups,
     Outside, Before, Switching, Restoring
<1> QED
  BY <1>2, <1>4, <1>5, <1>6, MoveStep DEF Labels, AfterTry

\* The fork of a session child copies credentials that are the TSI's own.
LEMMA HandleFunctionStep ==
    ASSUME IdentityInv, HandleFunction
    PROVE  IdentityInv'
<1>1. Clean(Main) /\ (~conf.switch => Unswitched(Main))
  BY DEF IdentityInv, IdentityAt, HandleFunction, Procs, Outside
<1>2. conf' = conf
  BY DEF HandleFunction
<1>3. CASE OpensSession(req[Main].cmd)
  <2>1. /\ pc' = [p \in Procs |-> IF p = Main THEN "wait" ELSE "identify"]
        /\ cred' = [cred EXCEPT ![Child] = cred[Main]]
        /\ env' = [env EXCEPT ![Child] = env[Main]]
        /\ req' = [req EXCEPT ![Child] = req[Main]]
        /\ pam' = "unbound"
    BY <1>3 DEF HandleFunction
  <2>2. conf.switch
    BY <1>3 DEF OpensSession
  <2>3. TypeOK'
    BY <2>1 DEF HandleFunction, IdentityInv, TypeOK, Labels, Procs, chanVars, kidVars
  <2>4. \A p \in Procs : /\ pc'[p] \in {"wait", "identify"}
                         /\ cred'[p] = cred[Main] \/ (cred'[p] = cred[p] /\ p = Main)
                         /\ env'[p] = env[Main] \/ (env'[p] = env[p] /\ p = Main)
    BY <2>1 DEF IdentityInv, TypeOK, Procs, Main, Child
  <2>5. \A p \in Procs : IdentityAt(p)'
    BY <1>1, <1>2, <2>2, <2>4 DEF IdentityAt, Clean, OwnUids, OwnGids, Outside, Before,
       Switching, Restoring
  <2> QED
    BY <1>2, <2>3, <2>5 DEF IdentityInv
<1>4. CASE ~OpensSession(req[Main].cmd)
  <2>1. PICK label \in {"identify", "run"} : /\ Goto(Main, label)
                                             /\ label = "identify" <=> conf.switch
    BY <1>4 DEF HandleFunction
  <2>2. UNCHANGED <<conf, cred, env, req>> /\ pam' = pam
    BY <1>4 DEF HandleFunction
  <2>3. TypeOK'
    BY <2>1, <2>2, MoveType DEF HandleFunction, Labels, Procs, IdentityInv, TypeOK
  <2>4. ASSUME pc'[Main] = label PROVE IdentityAt(Main)'
    BY <1>1, <2>1, <2>2, <2>4 DEF IdentityAt, Clean, OwnUids, OwnGids, Unswitched,
       Outside, Before, Switching, Restoring
  <2> QED
    BY <2>1, <2>2, <2>3, <2>4, MoveStep DEF Labels, Procs
<1> QED
  BY <1>3, <1>4

\* Reading a request changes the request of a worker that is clean.
LEMMA ReadMessageStep ==
    ASSUME IdentityInv, ReadMessage
    PROVE  IdentityInv'
<1>1. Clean(Main) /\ (~conf.switch => Unswitched(Main))
  BY DEF IdentityInv, IdentityAt, ReadMessage, Procs, Outside
<1>2. PICK m \in Received :
      /\ pc' = [pc EXCEPT ![Main] = "dispatch"]
      /\ req' = [req EXCEPT ![Main] = m]
      /\ wire' = [state |-> "empty", req |-> NoRequest]
      /\ conf' = conf /\ cred' = cred /\ env' = env
  BY DEF ReadMessage, Goto
<1>3. m \in Messages
  <2>1. wire.req \in Requests \cup {NoRequest}
    BY DEF IdentityInv, TypeOK
  <2>2. CutOff(NoRequest) = NoRequest
    BY DEF CutOff, NoRequest
  <2> QED
    BY <2>1, <2>2 DEF Received, Messages
<1>4. TypeOK'
  <2>1. req' \in [Procs -> Messages]
    BY <1>2, <1>3 DEF IdentityInv, TypeOK
  <2>2. pc' \in [Procs -> Labels]
    BY <1>2 DEF Labels, IdentityInv, TypeOK
  <2>3. wire' \in [state : {"empty", "partial", "complete"},
                   req : Requests \cup {NoRequest}]
    BY <1>2
  <2>4. reply' \in Seq(Tokens) /\ hurt' \in BOOLEAN
    <3>1. reply' = <<>> /\ hurt' = FALSE
      BY DEF ReadMessage
    <3>2. <<>> \in Seq(Tokens)
      OBVIOUS
    <3> QED
      BY <3>1, <3>2
  <2>5. nread' \in Nat
    BY DEF ReadMessage, IdentityInv, TypeOK
  <2>6. UNCHANGED <<conf, cred, env, pam, peer, sent, children, at, kids>>
    BY DEF ReadMessage, kidVars
  <2> QED
    BY <2>1, <2>2, <2>3, <2>4, <2>5, <2>6 DEF IdentityInv, TypeOK
<1>5. IdentityAt(Main)'
  <2>1. pc'[Main] = "dispatch"
    BY <1>2 DEF IdentityInv, TypeOK, Procs
  <2> QED
    BY <1>1, <1>2, <2>1 DEF IdentityAt, Clean, OwnUids, OwnGids, Unswitched, Outside,
       Before, Switching, Restoring
<1>6. \A q \in Procs \ {Main} : /\ pc'[q] = pc[q] /\ cred'[q] = cred[q]
                               /\ env'[q] = env[q] /\ req'[q] = req[q]
  BY <1>2 DEF IdentityInv, TypeOK
<1> QED
  BY <1>2, <1>4, <1>5, <1>6, OneProcess DEF Procs

-----------------------------------------------------------------------------
(* The steps that touch no process of the TSI. *)

\* A step that keeps the types and leaves the processes alone.
LEMMA ElsewhereStep ==
    ASSUME IdentityInv, TypeOK', UNCHANGED <<conf, pc, cred, env, req>>
    PROVE  IdentityInv'
<1>1. \A q \in Procs : IdentityAt(q)'
  BY Frame DEF IdentityInv
<1> QED
  BY <1>1 DEF IdentityInv

\* Taking an entry out of the list of children leaves a list of children.
LEMMA RemoveType ==
    ASSUME NEW s \in Seq(Kids), NEW i \in 1 .. Len(s)
    PROVE  RemoveAt(s, i) \in Seq(Kids)
<1>1. SubSeq(s, 1, i - 1) \in Seq(Kids) /\ SubSeq(s, i + 1, Len(s)) \in Seq(Kids)
  OBVIOUS
<1> QED
  BY <1>1 DEF RemoveAt

\* A round of the loop of cleanup.
LEMMA CleanupStepStep ==
    ASSUME IdentityInv, CleanupStep
    PROVE  IdentityInv'
<1>1. children \in Seq(Kids) /\ at \in 1 .. Len(children)
  BY DEF CleanupStep, IdentityInv, TypeOK
<1>2. children' \in Seq(Kids)
  BY <1>1, RemoveType DEF CleanupStep
<1>3. kids' \in [Kids -> {"none", "running", "zombie", "gone"}]
  BY <1>1 DEF CleanupStep, IdentityInv, TypeOK
<1>4. TypeOK'
  BY <1>1, <1>2, <1>3 DEF CleanupStep, IdentityInv, TypeOK, chanVars
<1> QED
  BY <1>4, ElsewhereStep DEF CleanupStep

\* UNICORE/X begins or completes a request or closes the connection, or a
\* background process ends.
LEMMA EnvironmentStep ==
    ASSUME IdentityInv,
           \/ \E r \in Requests : PeerBegins(r)
           \/ PeerCompletes
           \/ PeerCloses
           \/ \E k \in Kids : KidEnds(k)
    PROVE  IdentityInv'
<1> USE DEF IdentityInv, TypeOK, chanVars, kidVars
<1>1. ASSUME NEW r \in Requests, PeerBegins(r) PROVE IdentityInv'
  <2>1. TypeOK'
    <3>1. wire' \in [state : {"empty", "partial", "complete"},
                     req : Requests \cup {NoRequest}]
      BY <1>1 DEF PeerBegins
    <3>2. sent' \in [begun : Nat, completed : Nat]
      <4>1. sent' = [sent EXCEPT !.begun = @ + 1]
        BY <1>1 DEF PeerBegins
      <4>2. sent \in [begun : Nat, completed : Nat]
        OBVIOUS
      <4> HIDE DEF IdentityInv, TypeOK
      <4> QED
        BY <4>1, <4>2
    <3> QED
      BY <1>1, <3>1, <3>2 DEF PeerBegins
  <2> QED
    BY <1>1, <2>1, ElsewhereStep DEF PeerBegins
<1>2. CASE PeerCompletes
  <2>1. TypeOK'
    <3>1. wire' \in [state : {"empty", "partial", "complete"},
                     req : Requests \cup {NoRequest}]
      BY <1>2 DEF PeerCompletes
    <3>2. sent' \in [begun : Nat, completed : Nat]
      BY <1>2 DEF PeerCompletes
    <3> QED
      BY <1>2, <3>1, <3>2 DEF PeerCompletes
  <2> QED
    BY <1>2, <2>1, ElsewhereStep DEF PeerCompletes
<1>3. CASE PeerCloses
  <2>1. TypeOK'
    BY <1>3 DEF PeerCloses
  <2> QED
    BY <1>3, <2>1, ElsewhereStep DEF PeerCloses
<1>4. ASSUME NEW k \in Kids, KidEnds(k) PROVE IdentityInv'
  <2>1. TypeOK'
    BY <1>4 DEF KidEnds
  <2> QED
    BY <1>4, <2>1, ElsewhereStep DEF KidEnds
<1> QED
  BY <1>1, <1>2, <1>3, <1>4

\* A killed session child leaves the worker as it was.
LEMMA ChildKilledStep ==
    ASSUME IdentityInv, ChildKilled
    PROVE  IdentityInv'
<1>1. Child \in Procs /\ "none" \in Labels /\ Goto(Child, "none")
  BY DEF ChildKilled, Procs, Labels
<1>2. UNCHANGED <<conf, cred, env, req>> /\ hurt' = TRUE
  BY DEF ChildKilled
<1>3. TypeOK'
  BY <1>1, <1>2, MoveType DEF ChildKilled, IdentityInv, TypeOK
<1>4. ASSUME pc'[Child] = "none" PROVE IdentityAt(Child)'
  BY <1>4 DEF IdentityAt, Outside, Before, Switching, Restoring
<1> QED
  BY <1>1, <1>2, <1>3, <1>4, MoveStep

-----------------------------------------------------------------------------
(* The theorems. *)

\* A worker, or a forwarder, starts clean and holds the invariant.
LEMMA InitIdentity ==
    ASSUME Init
    PROVE  IdentityInv
<1>1. PICK c \in Configs : conf = Initialize(c)
  BY DEF Init
<1>2. conf \in Config /\ (conf.base = RootId => conf.switch)
  BY <1>1, InputAssumption DEF Initialize, Config
<1>3. BaseCred(conf) \in Cred
  BY <1>2, DatabaseAssumption DEF BaseCred, Cred, Config
<1>4. cred = [p \in Procs |-> BaseCred(conf)] /\ env = [p \in Procs |-> Nobody]
  BY DEF Init
<1>5. \A p \in Procs : /\ pc[p] \in {"none", "cleanup", "handle"}
                       /\ req[p] \in Messages
  BY DEF Init, Procs, Messages
<1>6. TypeOK
  <2>1. pc \in [Procs -> Labels] /\ req \in [Procs -> Messages]
    BY DEF Init, Labels, Messages
  <2>2. cred \in [Procs -> Cred] /\ env \in [Procs -> Users \cup {Nobody}]
    BY <1>3, <1>4
  <2>3. /\ pam \in {"unbound", "bound", "open"} /\ reply \in Seq(Tokens)
        /\ peer \in {"open", "closed"}
        /\ wire \in [state : {"empty", "partial", "complete"},
                     req : Requests \cup {NoRequest}]
        /\ sent \in [begun : Nat, completed : Nat]
    BY DEF Init
  <2>4. /\ nread \in Nat /\ at \in Nat \ {0} /\ hurt \in BOOLEAN
        /\ kids \in [Kids -> {"none", "running", "zombie", "gone"}]
    <3>1. nread = 0 /\ at = 1 /\ hurt = FALSE /\ kids = [k \in Kids |-> "none"]
      BY DEF Init
    <3>2. hurt \in BOOLEAN
      BY <3>1
    <3>3. kids \in [Kids -> {"none", "running", "zombie", "gone"}]
      BY <3>1
    <3>4. nread \in Nat /\ at \in Nat \ {0}
      BY <3>1
    <3> QED
      BY <3>2, <3>3, <3>4
  <2>5. children \in Seq(Kids)
    <3>1. children = <<>>
      BY DEF Init
    <3>2. <<>> \in Seq(Kids)
      OBVIOUS
    <3> QED
      BY <3>1, <3>2
  <2> QED
    BY <1>2, <2>1, <2>2, <2>3, <2>4, <2>5 DEF TypeOK
<1>7. \A p \in Procs : Clean(p) /\ Unswitched(p)
  BY <1>4 DEF Clean, Unswitched, OwnUids, OwnGids, BaseCred
<1>8. \A p \in Procs : IdentityAt(p)
  BY <1>5, <1>7 DEF IdentityAt, Before, Switching, Restoring, Outside
<1> QED
  BY <1>2, <1>6, <1>8 DEF IdentityInv

\* Every step of the worker, of its child and of its environment keeps the
\* invariant: it is inductive.
THEOREM IdentityInductive == IdentityInv /\ [Next]_vars => IdentityInv'
<1> SUFFICES ASSUME IdentityInv, [Next]_vars PROVE IdentityInv'
  OBVIOUS
<1>1. CASE Loop
  BY <1>1, CleanupStepStep, CleanupDoneStep, ReadMessageStep, ReadFailsStep,
     DispatchStep, HandleFunctionStep, WaitForChildStep, StartForwardingStep DEF Loop
<1>2. ASSUME NEW p \in Procs, Handler(p) PROVE IdentityInv'
  BY <1>2, IdentifyStep, OpenPamSessionStep, BecomeUserStep, SetGidStep, SetGroupsStep,
     SetEgidStep, SetResuidStep, VerifyIdentityStep, RunFunctionStep, ReportFailureStep,
     RestoreUidStep, RestoreGidStep, RestoreGroupsStep, RestoreEgidStep,
     ClosePamSessionStep, EndReplyStep DEF Handler
<1>3. CASE Environment
  BY <1>3, EnvironmentStep, ChildKilledStep, ForwardingEndsStep DEF Environment
<1>4. CASE UNCHANGED vars
  <2>1. TypeOK'
    BY <1>4 DEF vars, IdentityInv, TypeOK
  <2> QED
    BY <1>4, <2>1, ElsewhereStep DEF vars
<1> QED
  BY <1>1, <1>2, <1>3, <1>4 DEF Next, Ended

\* The invariant holds in every state of every behaviour.
THEOREM IdentityAlways == Spec => []IdentityInv
BY InitIdentity, IdentityInductive, PTL DEF Spec

\* The variables keep their types.
THEOREM WorkerTypes == Spec => []TypeOK
<1>1. IdentityInv => TypeOK
  BY DEF IdentityInv
<1> QED
  BY <1>1, IdentityAlways, PTL

\* Credentials are equal when their parts are.
LEMMA CredEqual ==
    ASSUME NEW c \in Cred, NEW d \in Cred,
           c.ruid = d.ruid, c.euid = d.euid, c.suid = d.suid,
           c.rgid = d.rgid, c.egid = d.egid, c.groups = d.groups
    PROVE  c = d
BY DEF Cred

\* The parts of a switched identity make up the credentials of the request.
LEMMA SwitchedCred ==
    ASSUME IdentityInv, NEW p \in Procs, Switched(p)
    PROVE  cred[p] = UserCred(req[p])
<1>1. cred[p] \in Cred /\ conf.base \in Nat
  BY DEF IdentityInv, TypeOK, Config
<1>2. UserCred(req[p]) \in Cred
  BY <1>1, GroupsType DEF Switched, IdentityInv, UserCred, Cred
<1> QED
  BY <1>1, <1>2, CredEqual DEF Switched, UserGids, UserGroups, UserUids, UserCred

\* A command function, and a port forwarding, runs with exactly the
\* credentials the request asks for (become_user, whatever of it fails), or
\* with those of a TSI that does not switch and is not root.
THEOREM CommandIdentity == Spec => []RunsAsRequested
<1>1. IdentityInv => RunsAsRequested
  <2> SUFFICES ASSUME IdentityInv, NEW p \in Procs, pc[p] \in {"run", "forwarding"}
               PROVE  IF conf.switch
                      THEN /\ req[p].user \in Users
                           /\ UidOf[req[p].user] \notin {NoId, RootId}
                           /\ cred[p] = UserCred(req[p])
                           /\ env[p] = req[p].user
                      ELSE cred[p] = BaseCred(conf) /\ conf.base # RootId
    BY DEF RunsAsRequested
  <2>1. CASE conf.switch
    <3>1. Switched(p) /\ env[p] = req[p].user
      BY <2>1 DEF IdentityInv, IdentityAt
    <3> QED
      BY <2>1, <3>1, SwitchedCred DEF Switched, Resolved
  <2>2. CASE ~conf.switch
    <3>1. Unswitched(p) /\ conf.base # RootId
      BY <2>2 DEF IdentityInv, IdentityAt
    <3>2. cred[p] \in Cred /\ BaseCred(conf) \in Cred
      BY DatabaseAssumption DEF IdentityInv, TypeOK, Config, BaseCred, Cred
    <3> QED
      BY <2>2, <3>1, <3>2, CredEqual DEF Unswitched, OwnUids, OwnGids, BaseCred
  <2> QED
    BY <2>1, <2>2
<1> QED
  BY <1>1, IdentityAlways, PTL

\* Between any two system calls of become_user and restore_id, a process that
\* has a user's effective uid has all of that user's credentials.
THEOREM IdentityUnmixed == Spec => []NoMixedIdentity
<1>1. IdentityInv => NoMixedIdentity
  <2> SUFFICES ASSUME IdentityInv, NEW p \in Procs, pc[p] \notin {"none", "dead"},
                      cred[p].euid # conf.base
               PROVE  cred[p] = UserCred(req[p])
    BY DEF NoMixedIdentity
  <2>1. IdentityAt(p) /\ pc[p] \in Labels
    BY DEF IdentityInv, TypeOK
  <2>2. Switched(p)
    BY <2>1 DEF IdentityAt, Clean, Unswitched, OwnUids, Labels, Outside, Before,
       Switching, Restoring
  <2> QED
    BY <2>2, SwitchedCred
<1> QED
  BY <1>1, IdentityAlways, PTL

\* A worker that waits for a request, or for its session child, has nothing of
\* a user left: restore_id undoes what become_user did, wherever that failed.
THEOREM CleanWorker == Spec => []CleanBetweenRequests
<1>1. IdentityInv => CleanBetweenRequests
  <2> SUFFICES ASSUME IdentityInv, pc[Main] \in {"cleanup", "reading", "dispatch", "wait"}
               PROVE  /\ [cred[Main] EXCEPT !.groups = {}] =
                            [BaseCred(conf) EXCEPT !.groups = {}]
                      /\ cred[Main].groups \in {InitGroups, {BaseGid}}
                      /\ env[Main] = Nobody
    BY DEF CleanBetweenRequests
  <2>1. Clean(Main)
    BY DEF IdentityInv, IdentityAt, Procs, Outside
  <2>2. cred[Main] \in Cred /\ BaseCred(conf) \in Cred
    BY DatabaseAssumption DEF IdentityInv, TypeOK, Procs, Config, BaseCred, Cred
  <2>3. [cred[Main] EXCEPT !.groups = {}] = [BaseCred(conf) EXCEPT !.groups = {}]
    <3> DEFINE c == [cred[Main] EXCEPT !.groups = {}]
               d == [BaseCred(conf) EXCEPT !.groups = {}]
    <3>1. c \in Cred /\ d \in Cred
      BY <2>2 DEF Cred
    <3>2. /\ c.ruid = cred[Main].ruid /\ c.euid = cred[Main].euid
          /\ c.suid = cred[Main].suid /\ c.rgid = cred[Main].rgid
          /\ c.egid = cred[Main].egid /\ c.groups = {}
      BY <2>2 DEF Cred
    <3>3. /\ d.ruid = conf.base /\ d.euid = conf.base /\ d.suid = conf.base
          /\ d.rgid = BaseGid /\ d.egid = BaseGid /\ d.groups = {}
      BY DEF BaseCred
    <3> HIDE DEF c, d
    <3>4. c = d
      BY <2>1, <3>1, <3>2, <3>3, CredEqual DEF Clean, OwnUids, OwnGids
    <3> QED
      BY <3>4 DEF c, d
  <2> QED
    BY <2>1, <2>3 DEF Clean
<1> QED
  BY <1>1, IdentityAlways, PTL

-----------------------------------------------------------------------------
(* The groups of a command. *)

\* get_primary_group: with enforced OS groups the primary group is one of the
\* user's, whether an invalid one is refused or not.
LEMMA PrimaryOwn ==
    ASSUME NEW primary \in GroupNames,
           NEW gid \in Nat, NEW gids \in SUBSET Nat,
           NEW enforce \in BOOLEAN, NEW failInvalid \in BOOLEAN
    PROVE  LET m == GetPrimaryGroup(primary, gid, gids, GrpGid, enforce, failInvalid)
           IN  enforce /\ ~m.raised => m.gid \in gids \cup {gid}
BY DEF GetPrimaryGroup, Raised, CheckMembership

\* get_supplementary_groups: with enforced OS groups, and when an invalid group is
\* refused, all groups are the user's.
LEMMA SupplementaryOwn ==
    ASSUME NEW requested \in Seq(GroupNames),
           NEW gid \in Nat, NEW gids \in SUBSET Nat, NEW newGid \in Nat,
           NEW enforce \in BOOLEAN, NEW failInvalid \in BOOLEAN
    PROVE  LET m == GetSupplementaryGroups(requested, newGid, gid, gids, GrpGid,
                                           enforce, failInvalid)
           IN  enforce /\ failInvalid /\ ~m.raised /\ newGid \in gids \cup {gid} =>
                   m.gids \in SUBSET (gids \cup {gid})
<1> DEFINE m == GetSupplementaryGroups(requested, newGid, gid, gids, GrpGid,
                                       enforce, failInvalid)
           D == IF \E i \in DOMAIN requested : requested[i] = DefaultGid THEN gids ELSE {}
           N == {GrpGid[g] : g \in Named(requested)} \ {NoId}
<1> SUFFICES ASSUME enforce, failInvalid, ~m.raised, newGid \in gids \cup {gid}
             PROVE  m.gids \in SUBSET (gids \cup {gid})
  OBVIOUS
<1>1. \A g \in Named(requested) : CheckMembership(GrpGid[g], gid, gids, enforce)
  BY DEF GetSupplementaryGroups, Raised
<1>2. m.gids = {newGid} \cup D \cup N
  BY DEF GetSupplementaryGroups, Raised
<1>3. N \subseteq gids \cup {gid}
  BY <1>1 DEF CheckMembership
<1>4. D \subseteq gids
  OBVIOUS
<1> HIDE DEF m, D, N
<1> QED
  BY <1>2, <1>3, <1>4

\* The group mapping of become_user, with enforced OS groups.
LEMMA MapGroupsOwn ==
    ASSUME NEW requested \in Seq(GroupNames) \ {<<>>},
           NEW gid \in Nat, NEW gids \in SUBSET Nat,
           NEW enforce \in BOOLEAN, NEW failInvalid \in BOOLEAN
    PROVE  LET m == MapGroups(requested, gid, gids, GrpGid, enforce, failInvalid)
           IN  enforce /\ ~m.raised =>
                   /\ m.gid \in gids \cup {gid}
                   /\ failInvalid => m.gids \subseteq gids \cup {gid}
<1> DEFINE p == GetPrimaryGroup(requested[1], gid, gids, GrpGid, enforce, failInvalid)
           s == GetSupplementaryGroups(requested, p.gid, gid, gids, GrpGid,
                                       enforce, failInvalid)
<1>1. requested[1] \in GroupNames /\ requested \in Seq(GroupNames)
  OBVIOUS
<1>2. p.raised \in BOOLEAN /\ (~p.raised => p.gid \in Nat)
  BY <1>1, PrimaryType
<1>3. enforce /\ ~p.raised => p.gid \in gids \cup {gid}
  BY <1>1, PrimaryOwn
<1>4. ~p.raised => s.raised \in BOOLEAN
  BY <1>1, <1>2, SupplementaryType
<1>5. enforce /\ ~p.raised /\ ~s.raised /\ failInvalid => s.gids \in SUBSET (gids \cup {gid})
  <2> DEFINE t(x) == GetSupplementaryGroups(requested, x, gid, gids, GrpGid,
                                            enforce, failInvalid)
  <2>1. ASSUME NEW x \in Nat, enforce, failInvalid, ~t(x).raised, x \in gids \cup {gid}
        PROVE  t(x).gids \in SUBSET (gids \cup {gid})
    BY <1>1, <2>1, SupplementaryOwn
  <2>2. s = t(p.gid)
    OBVIOUS
  <2> HIDE DEF t, p, s
  <2> QED
    BY <1>2, <1>3, <2>1, <2>2
<1> HIDE DEF p, s
<1>6. MapGroups(requested, gid, gids, GrpGid, enforce, failInvalid) =
        IF requested[1] = NoGroups THEN [raised |-> FALSE, gid |-> gid, gids |-> gids]
        ELSE IF p.raised \/ s.raised THEN Raised
        ELSE [raised |-> FALSE, gid |-> p.gid, gids |-> s.gids]
  BY <1>2 DEF MapGroups, p, s
<1> QED
  BY <1>2, <1>3, <1>4, <1>5, <1>6 DEF Raised

\* The groups of a command under enforced OS groups.
LEMMA OwnGroups ==
    ASSUME IdentityInv, NEW p \in Procs, pc[p] \in {"run", "forwarding"},
           conf.switch, conf.enforce
    PROVE  LET own == GidsOf[req[p].user] \cup {GidOf[req[p].user]}
           IN  /\ cred[p].rgid \in own /\ cred[p].egid \in own
               /\ conf.failInvalid => cred[p].groups \subseteq own
<1>1. Switched(p)
  BY DEF IdentityInv, IdentityAt
<1>2. Resolved(p) /\ TypeOK
  BY <1>1 DEF Switched, IdentityInv
<1>3. \A r \in Requests : CutOff(r).user = NoIdentity
  BY InputAssumption DEF CutOff, Request
<1>4. req[p] \in Requests
  BY <1>2, <1>3, DatabaseAssumption DEF TypeOK, Resolved, NoRequest, Messages
<1>5. req[p].groups \in Seq(GroupNames) \ {<<>>}
  BY <1>4, InputAssumption DEF Request
<1>6. GidOf[req[p].user] \in Nat /\ GidsOf[req[p].user] \in SUBSET Nat
  BY <1>2, DatabaseAssumption DEF Resolved
<1>7. conf.enforce \in BOOLEAN /\ conf.failInvalid \in BOOLEAN
  BY <1>2 DEF TypeOK, Config
<1>8. /\ Groups(req[p]).gid \in GidsOf[req[p].user] \cup {GidOf[req[p].user]}
      /\ conf.failInvalid =>
            Groups(req[p]).gids \subseteq GidsOf[req[p].user] \cup {GidOf[req[p].user]}
  BY <1>2, <1>5, <1>6, <1>7, MapGroupsOwn DEF Groups, Resolved
<1>9. cred[p] = UserCred(req[p])
  BY <1>1, SwitchedCred
<1> QED
  BY <1>8, <1>9 DEF UserCred

\* with enforced OS groups the primary group of a command is one of the user's
PrimaryLimited ==
    \A p \in Procs :
        pc[p] \in {"run", "forwarding"} /\ conf.switch /\ conf.enforce =>
            {cred[p].rgid, cred[p].egid} \subseteq
                GidsOf[req[p].user] \cup {GidOf[req[p].user]}

\* With tsi.enforce_os_gids a command never has a primary group that its user is
\* not in: get_primary_group falls back to the default or raises, and nothing
\* between the check and the command changes the gid.
THEOREM PrimaryIsLimited == Spec => []PrimaryLimited
<1>1. IdentityInv => PrimaryLimited
  BY OwnGroups DEF PrimaryLimited
<1> QED
  BY <1>1, IdentityAlways, PTL

\* With tsi.enforce_os_gids and tsi.fail_on_invalid_gids a command has only groups
\* that its user has.  (With the first alone it may have others: see the run
\* worker_groups.)
THEOREM StrictGroups == Spec => [](conf.failInvalid => GroupsLimited)
<1>1. IdentityInv => (conf.failInvalid => GroupsLimited)
  BY OwnGroups DEF GroupsLimited
<1> QED
  BY <1>1, IdentityAlways, PTL
=============================================================================

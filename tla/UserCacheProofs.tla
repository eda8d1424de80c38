--------------------------- MODULE UserCacheProofs --------------------------
(***************************************************************************)
(* Proofs about UserCache, for every set of users, groups and entries,     *)
(* every lifetime of entries, every delay of `id -G` and every number of   *)
(* changes of the database.                                                *)
(*                                                                         *)
(* Four inductive invariants, each on top of the ones before: the shape of *)
(* the call, what the cache holds, what the groups taken so far are under  *)
(* the strict settings, and what they are when the database does not       *)
(* change.                                                                 *)
(***************************************************************************)
EXTENDS UserCache, WellFoundedInduction, TLAPS

-----------------------------------------------------------------------------
(* The inductive invariants. *)

Id == Nat \cup {NoId}
Places == {"uid", "none_gid", "none_gids", "default_gid", "unknown_gid", "check_gid",
           "check_gids", "default_gids", "home", "idle", "group", "set", "done", "refused"}
Calls == [pc : Places, k : Nat, tmp : Id, gid : Id, gids : SUBSET Id]
CacheEntries == [uid : Id, gid : Id, home : Id, gids : SUBSET Id, ts : Nat \cup {NoTime}]
GroupEntries == [gid : Id, ts : Nat \cup {NoTime}]

\* the types, in two parts: the surroundings of the call, and the cache
TypesTime ==
    /\ now \in Nat /\ now <= MaxTime
    /\ began \in Nat /\ began <= now
    /\ hist \in [0 .. now -> Database]
    /\ conf \in Settings
    /\ user \in Users /\ asked \in Asked \cup {<<NoGroups>>}
TypesCache ==
    /\ cache \in [Users -> CacheEntries]
    /\ \A u \in Users : cache[u].ts <= now
    /\ gcache \in [GroupNames -> GroupEntries]
    /\ \A g \in GroupNames : gcache[g].ts <= now
    /\ filling \in BOOLEAN /\ lost \in BOOLEAN
    /\ waited \in Nat /\ waited <= MaxDelay

\* where the call c for the groups a is
Shape(c, a) ==
    /\ c \in Calls
    /\ c.k <= Len(a) + 1
    /\ c.pc \in {"none_gid", "none_gids"} => a[1] = NoGroups
    /\ c.pc \in {"default_gid", "unknown_gid", "group", "check_gid", "check_gids",
                 "default_gids"} => a[1] # NoGroups
    /\ c.pc \in {"uid", "default_gid", "unknown_gid"} => c.k = 0
    /\ c.pc \in {"group", "check_gid", "check_gids", "default_gids"} => c.k <= Len(a)
    /\ c.pc = "group" => a[IF c.k = 0 THEN 1 ELSE c.k] # DefaultGid
    /\ c.pc = "default_gids" => c.k # 0 /\ a[c.k] = DefaultGid
    /\ c.pc \in {"uid", "none_gid"} => c.gids = {}
    /\ c.pc = "unknown_gid" => ~conf.failInvalid
    /\ c.pc \in {"check_gid", "check_gids"} => conf.enforce

\* entries are filled for a lookup of the call
Filling == filling => call.pc \in DOMAIN Asks

ShapeInv == TypesTime /\ TypesCache /\ Shape(call, asked) /\ Filling

\* the fields of an entry that come from getpwnam
FromPasswd(entry, e) ==
    e # Absent /\ entry.uid = e.uid /\ entry.gid = e.gid /\ entry.home = e.home

\* an entry with a timestamp was filled within MaxDelay
UserEntry(u) ==
    cache[u].ts # NoTime =>
        /\ \E t \in 0 .. cache[u].ts :
              cache[u].ts - t <= MaxDelay /\ FromPasswd(cache[u], hist[t].users[u])
        /\ \A x \in cache[u].gids : \E t \in 0 .. cache[u].ts :
              /\ cache[u].ts - t <= MaxDelay
              /\ hist[t].users[u] # Absent /\ x \in hist[t].users[u].gids
        /\ lost \/ \E t \in 0 .. cache[u].ts :
              /\ hist[t].users[u] # Absent
              /\ cache[u].gids = hist[t].users[u].gids \cup {cache[u].gid}

\* an entry that is being filled has been read waited ticks ago
HalfEntry ==
    filling => /\ cache[user].ts = NoTime
               /\ waited <= now
               /\ FromPasswd(cache[user], hist[now - waited].users[user])

\* a group with a timestamp was in the database then
GroupEntry(g) ==
    gcache[g].ts # NoTime =>
        gcache[g].gid # NoId /\ gcache[g].gid = hist[gcache[g].ts].groups[g]

CacheInv ==
    /\ \A u \in Users : UserEntry(u)
    /\ HalfEntry
    /\ \A g \in GroupNames : GroupEntry(g)

\* the last answer
Fresh ==
    /\ last.of = "group" =>
          \E t \in Window(last.at) : last.value = hist[t].groups[last.item]
    /\ last.of = "user" /\ last.item = "gids" =>
          \A x \in last.value : \E t \in Window(last.at) : x \in hist[t].users[user].gids
    /\ last.of = "user" /\ last.item # "gids" =>
          \E t \in Window(last.at) : last.value = hist[t].users[user][last.item]
LastInv ==
    /\ last.of \in {"none", "user", "group"}
    /\ last.of # "none" => last.at \in 0 .. now
    /\ Fresh /\ UnknownIsCurrent

\* the user had the group x within the window
Had(x) ==
    \E t \in {s \in 0 .. now : began - s <= CacheTtl + MaxDelay} :
        x \in hist[t].users[user].gids

\* under the strict settings: the groups taken so far, and the ids that stand
\* for groups that do not exist
Held(c) ==
    /\ \A x \in c.gids \cup {c.gid} : x = NoId \/ Had(x)
    /\ NoId \in c.gids => c.gid = NoId
    /\ c.pc \in {"home", "done"} => c.gid # NoId
    /\ c.pc \in {"check_gid", "check_gids"} => c.tmp # NoId
HeldInv == conf.enforce /\ conf.failInvalid => Held(call)

\* nothing has changed, and `id -G` has not failed
Stable == ~lost /\ \A t \in 0 .. now : hist[t] = Db

\* the user and the groups of a database that does not change
TheUser == Db.users[user]
GroupOf(g) == IF g \in GroupNames THEN Db.groups[g] ELSE NoId
Allowed(g) == CheckMembership(GroupOf(g), TheUser.gid, TheUser.gids, conf.enforce)
Bad(g) == GroupOf(g) = NoId \/ ~Allowed(g)
PrimaryOf(g) ==
    IF g = DefaultGid \/ Bad(g) THEN TheUser.gid ELSE GroupOf(g)
\* a primary group that is refused
BadPrimary(g) == conf.failInvalid /\ g # DefaultGid /\ Bad(g)

\* what the first n groups come to, the user's own groups and the named ones
OwnGroups(n) == IF \E i \in 1 .. n : asked[i] = DefaultGid THEN TheUser.gids ELSE {}
NamedGroups(n) ==
    {GroupOf(asked[i]) : i \in {h \in 1 .. n : asked[h] # DefaultGid}} \ {NoId}

\* gid and gids are right when the first n groups have been worked through
Gathered(gid, gids, n) ==
    /\ ~BadPrimary(asked[1])
    /\ gid = PrimaryOf(asked[1])
    /\ \A i \in 1 .. n : conf.failInvalid /\ asked[i] # DefaultGid => ~Bad(asked[i])
    /\ gids = {gid} \cup OwnGroups(n) \cup NamedGroups(n)

\* what makes become_user fail
Fails ==
    \/ TheUser = Absent \/ TheUser.uid = 0
    \/ asked[1] # NoGroups /\ BadPrimary(asked[1])
    \/ asked[1] # NoGroups /\ conf.failInvalid
          /\ \E i \in 1 .. Len(asked) : asked[i] # DefaultGid /\ Bad(asked[i])

Mapped(c) ==
    /\ c.pc = "refused" => Fails
    /\ c.pc \notin {"idle", "uid", "refused"} => TheUser # Absent /\ TheUser.uid # 0
    /\ c.pc = "none_gids" => c.gid = TheUser.gid
    /\ c.pc = "default_gid" => /\ ~BadPrimary(asked[1])
                               /\ PrimaryOf(asked[1]) = TheUser.gid
    /\ c.pc = "unknown_gid" => /\ ~BadPrimary(asked[1])
                               /\ asked[1] # DefaultGid /\ GroupOf(asked[1]) = NoId
    /\ c.pc \in {"check_gid", "check_gids"} /\ c.k = 0 =>
            \/ asked[1] # DefaultGid /\ c.tmp = GroupOf(asked[1]) /\ c.tmp # NoId
            \/ /\ c.tmp = TheUser.gid /\ PrimaryOf(asked[1]) = TheUser.gid
               /\ ~BadPrimary(asked[1])
    /\ c.pc \in {"check_gid", "check_gids"} /\ c.k # 0 =>
            asked[c.k] # DefaultGid /\ c.tmp = GroupOf(asked[c.k]) /\ c.tmp # NoId
    /\ c.pc = "check_gids" => c.tmp # TheUser.gid
    /\ c.pc \in {"group", "check_gid", "check_gids", "default_gids"} /\ c.k # 0 =>
            Gathered(c.gid, c.gids, c.k - 1)
    /\ c.pc \in {"set", "home", "done"} =>
            IF asked[1] = NoGroups
            THEN c.gid = TheUser.gid /\ c.gids = TheUser.gids
            ELSE Gathered(c.gid, c.gids, Len(asked))
MappedInv == Stable => Mapped(call)

-----------------------------------------------------------------------------
(* The operators of become_user. *)

\* A non-empty set of natural numbers has a least element, which Min gives.
LEMMA LeastIsLeast ==
    ASSUME NEW S \in SUBSET Nat, S # {}
    PROVE  Min(S) \in S /\ \A y \in S : Min(S) <= y
<1> DEFINE R == {ss \in Nat \X Nat : ss[1] < ss[2]}
<1>1. IsWellFoundedOn(R, Nat)
  BY NatLessThanWellFounded, Zenon DEF OpToRel
<1> HIDE DEF R
<1>2. \E x \in S : \A y \in S : ~(<<y, x>> \in R)
  BY <1>1, WFMin
<1>3. PICK x \in S : \A y \in S : ~(<<y, x>> \in R)
  BY <1>2
<1>4. \A y \in S : x <= y
  <2> SUFFICES ASSUME NEW y \in S PROVE x <= y
    OBVIOUS
  <2>1. x \in Nat /\ y \in Nat
    OBVIOUS
  <2>2. ASSUME y < x PROVE <<y, x>> \in R
    BY <2>1, <2>2 DEF R
  <2> QED
    BY <1>3, <2>1, <2>2
<1> QED
  BY <1>4 DEF Min

\* What is known of the requested groups.
AskedGroups(a) ==
    /\ a \in Seq(GroupNames \cup {NoGroups, DefaultGid})
    /\ Len(a) \in Nat \ {0}
    /\ a[1] # NoGroups => \A i \in 1 .. Len(a) : a[i] \in GroupNames \cup {DefaultGid}

LEMMA AskedKnown ==
    ASSUME NEW a \in Asked \cup {<<NoGroups>>}
    PROVE  AskedGroups(a)
<1>1. CASE a = <<NoGroups>>
  BY <1>1 DEF AskedGroups
<1>2. CASE a \in Asked
  <2>1. a \in Seq(GroupNames \cup {NoGroups, DefaultGid}) /\ a # <<>>
    BY <1>2, OtherAssumption
  <2>2. \A k \in 2 .. Len(a) : a[k] \in GroupNames \cup {DefaultGid}
    BY <1>2, OtherAssumption
  <2>3. Len(a) \in Nat \ {0}
    BY <2>1
  <2>4. ASSUME a[1] # NoGroups, NEW i \in 1 .. Len(a)
        PROVE  a[i] \in GroupNames \cup {DefaultGid}
    <3>1. a[i] \in GroupNames \cup {NoGroups, DefaultGid}
      BY <2>1
    <3>2. i = 1 \/ i \in 2 .. Len(a)
      BY <2>3
    <3> QED
      BY <3>1, <3>2, <2>2, <2>4
  <2> QED
    BY <2>1, <2>3, <2>4 DEF AskedGroups
<1> QED
  BY <1>1, <1>2

\* d has the groups given, and goes on with the requested groups from number j
Advanced(d, gid, gids, j) ==
    /\ d \in Calls
    /\ d.gid = gid /\ d.gids = gids
    /\ j <= d.k /\ d.k <= Len(asked) + 1
    /\ \A h \in j .. d.k - 1 : Repeated(h)
    /\ \/ d.k = Len(asked) + 1 /\ d.pc = "set"
       \/ d.k <= Len(asked) /\ asked[d.k] = DefaultGid /\ d.pc = "default_gids"
       \/ d.k <= Len(asked) /\ asked[d.k] # DefaultGid /\ d.pc = "group"

\* d is c after the group with the gid v has been taken
Taken(c, v, d) ==
    Advanced(d, IF c.k = 0 THEN v ELSE c.gid,
                IF c.k = 0 THEN {v} ELSE c.gids \cup {v}, c.k + 1)

\* d is c with nothing but its place and the gid at hand changed
Moved(c, d, pc, tmp) ==
    /\ d \in Calls
    /\ d.pc = pc /\ d.tmp = tmp
    /\ d.k = c.k /\ d.gid = c.gid /\ d.gids = c.gids

\* d is c after the answer v of get_gid_4group
GroupOutcome(c, v, d) ==
    \/ v # NoId /\ conf.enforce /\ Moved(c, d, "check_gid", v)
    \/ v # NoId /\ ~conf.enforce /\ Taken(c, v, d)
    \/ v = NoId /\ conf.failInvalid /\ Moved(c, d, "refused", c.tmp)
    \/ v = NoId /\ ~conf.failInvalid /\ c.k = 0 /\ Moved(c, d, "unknown_gid", c.tmp)
    \/ v = NoId /\ ~conf.failInvalid /\ c.k # 0 /\ Advanced(d, c.gid, c.gids, c.k + 1)

\* d is c after an answer v about the user, at each place
UidOutcome(c, v, d) ==
    \/ v \in {NoId, 0} /\ Moved(c, d, "refused", c.tmp)
    \/ v \notin {NoId, 0} /\ asked[1] = NoGroups /\ Moved(c, d, "none_gid", c.tmp)
    \/ v \notin {NoId, 0} /\ asked[1] = DefaultGid /\ Moved(c, d, "default_gid", c.tmp)
    \/ v \notin {NoId, 0} /\ asked[1] \notin {NoGroups, DefaultGid} /\ Moved(c, d, "group", c.tmp)
NoneOutcome(c, v, d) ==
    /\ d \in Calls /\ d.k = c.k
    /\ \/ c.pc = "none_gid" /\ d.pc = "none_gids" /\ d.gid = v /\ d.gids = c.gids
       \/ c.pc = "none_gids" /\ d.pc = "set" /\ d.gid = c.gid /\ d.gids = v
UnknownOutcome(c, v, d) ==
    \/ conf.enforce /\ Moved(c, d, "check_gid", v)
    \/ ~conf.enforce /\ Taken(c, v, d)
CheckGidOutcome(c, v, d) ==
    \/ v = c.tmp /\ Taken(c, c.tmp, d)
    \/ v # c.tmp /\ Moved(c, d, "check_gids", c.tmp)
CheckGidsOutcome(c, v, d) ==
    \/ c.tmp \in v /\ Taken(c, c.tmp, d)
    \/ c.tmp \notin v /\ conf.failInvalid /\ Moved(c, d, "refused", c.tmp)
    \/ c.tmp \notin v /\ ~conf.failInvalid /\ c.k = 0 /\ Moved(c, d, "default_gid", c.tmp)
    \/ c.tmp \notin v /\ ~conf.failInvalid /\ c.k # 0 /\ Taken(c, c.tmp, d)
HomeOutcome(c, v, d) ==
    \/ v = NoId /\ Moved(c, d, "refused", c.tmp)
    \/ v # NoId /\ Moved(c, d, "done", c.tmp)

\* the outcome of an answer about the user
UserOutcome(c, v, d) ==
    /\ c.pc = "uid" => UidOutcome(c, v, d)
    /\ c.pc \in {"none_gid", "none_gids"} => NoneOutcome(c, v, d)
    /\ c.pc = "default_gid" => Taken(c, v, d)
    /\ c.pc = "unknown_gid" => UnknownOutcome(c, v, d)
    /\ c.pc = "check_gid" => CheckGidOutcome(c, v, d)
    /\ c.pc = "check_gids" => CheckGidsOutcome(c, v, d)
    /\ c.pc = "default_gids" => Advanced(d, c.gid, c.gids \cup v, c.k + 1)
    /\ c.pc = "home" => HomeOutcome(c, v, d)

LEMMA SupplementaryAdvances ==
    ASSUME AskedGroups(asked), NEW c \in Calls, NEW j \in Nat, 1 <= j, j <= Len(asked) + 1
    PROVE  Advanced(Supplementary(c, j), c.gid, c.gids, j)
<1> DEFINE S == {h \in j .. Len(asked) + 1 : h = Len(asked) + 1 \/ ~Repeated(h)}
<1> DEFINE k == Min(S)
<1> DEFINE p == IF k = Len(asked) + 1 THEN "set"
                ELSE IF asked[k] = DefaultGid THEN "default_gids" ELSE "group"
<1>1. Len(asked) \in Nat
  BY DEF AskedGroups
<1>2. S \in SUBSET Nat /\ S # {}
  BY <1>1
<1>3. k \in S /\ \A y \in S : k <= y
  BY <1>2, LeastIsLeast
<1>4. k \in Nat /\ j <= k /\ k <= Len(asked) + 1
  BY <1>3, <1>1
<1>5. \A h \in j .. k - 1 : Repeated(h)
  <2> SUFFICES ASSUME NEW h \in j .. k - 1 PROVE Repeated(h)
    OBVIOUS
  <2>1. h \in j .. Len(asked) + 1 /\ ~(k <= h)
    BY <1>4, <1>1
  <2>2. h \notin S
    BY <2>1, <1>3
  <2> QED
    BY <2>1, <2>2
<1>6. Supplementary(c, j) = [c EXCEPT !.k = k, !.pc = p]
  BY DEF Supplementary
<1> HIDE DEF k
<1>7. /\ \/ k = Len(asked) + 1 /\ p = "set"
         \/ k <= Len(asked) /\ asked[k] = DefaultGid /\ p = "default_gids"
         \/ k <= Len(asked) /\ asked[k] # DefaultGid /\ p = "group"
      /\ p \in Places
  BY <1>4, <1>1 DEF Places
<1> HIDE DEF p
<1> DEFINE d == Supplementary(c, j)
<1>8. d \in Calls /\ d.k = k /\ d.pc = p /\ d.gid = c.gid /\ d.gids = c.gids
  BY <1>6, <1>7, <1>4 DEF Calls
<1> HIDE DEF d
<1>9. Advanced(d, c.gid, c.gids, j)
  BY <1>8, <1>7, <1>4, <1>5 DEF Advanced
<1> QED
  BY <1>9 DEF d

LEMMA PrimaryAdvances ==
    ASSUME AskedGroups(asked), NEW c \in Calls, NEW v \in Id
    PROVE  Advanced(Primary(c, v), v, {v}, 1)
<1> DEFINE d == [c EXCEPT !.gid = v, !.gids = {v}]
<1>1. d \in Calls /\ d.gid = v /\ d.gids = {v}
  BY DEF Calls, Id
<1>2. Primary(c, v) = Supplementary(d, 1)
  BY DEF Primary
<1> HIDE DEF d
<1>3. \A j \in Nat : j = 1 => Advanced(Supplementary(d, j), d.gid, d.gids, j)
  <2> SUFFICES ASSUME NEW j \in Nat, j = 1
               PROVE  Advanced(Supplementary(d, j), d.gid, d.gids, j)
    OBVIOUS
  <2>1. 1 <= j /\ j <= Len(asked) + 1
    BY DEF AskedGroups
  <2> QED
    BY <1>1, <2>1, SupplementaryAdvances
<1>4. Advanced(Supplementary(d, 1), d.gid, d.gids, 1)
  BY <1>3
<1> QED
  BY <1>1, <1>2, <1>4

LEMMA TakeGroupTakes ==
    ASSUME AskedGroups(asked), NEW c \in Calls, c.k <= Len(asked)
    PROVE  Taken(c, c.tmp, TakeGroup(c))
<1>0. c.tmp \in Id /\ c.k \in Nat
  BY DEF Calls
<1>1. CASE c.k = 0
  <2>1. Advanced(Primary(c, c.tmp), c.tmp, {c.tmp}, 1)
    BY <1>0, PrimaryAdvances
  <2>2. c.k + 1 = 1
    BY <1>1
  <2> QED
    BY <1>1, <2>1, <2>2 DEF Taken, TakeGroup
<1>2. CASE c.k # 0
  <2> DEFINE d == [c EXCEPT !.gids = @ \cup {c.tmp}]
  <2>1. d \in Calls /\ d.gid = c.gid /\ d.gids = c.gids \cup {c.tmp}
    BY DEF Calls
  <2>2. TakeGroup(c) = Supplementary(d, c.k + 1)
    BY <1>2 DEF TakeGroup
  <2> HIDE DEF d
  <2>3. c.k + 1 \in Nat /\ 1 <= c.k + 1 /\ c.k + 1 <= Len(asked) + 1
    BY <1>0 DEF AskedGroups
  <2>4. Advanced(Supplementary(d, c.k + 1), d.gid, d.gids, c.k + 1)
    BY <2>1, <2>3, SupplementaryAdvances
  <2> QED
    BY <1>2, <2>1, <2>2, <2>4 DEF Taken
<1> QED
  BY <1>1, <1>2

LEMMA Movement ==
    ASSUME NEW c \in Calls, NEW p \in Places
    PROVE  Moved(c, [c EXCEPT !.pc = p], p, c.tmp)
  BY DEF Calls, Moved

LEMMA CheckChecks ==
    ASSUME AskedGroups(asked), NEW c \in Calls, c.k <= Len(asked), NEW v \in Id
    PROVE  UnknownOutcome(c, v, Check(c, v))
<1>1. CASE conf.enforce
  <2>1. "check_gid" \in Places
    BY DEF Places
  <2>2. Check(c, v) = [[c EXCEPT !.tmp = v] EXCEPT !.pc = "check_gid"]
    BY <1>1 DEF Check
  <2>3. Moved(c, Check(c, v), "check_gid", v)
    BY <2>1, <2>2 DEF Moved, Calls
  <2> QED
    BY <1>1, <2>3 DEF UnknownOutcome
<1>2. CASE ~conf.enforce
  <2> DEFINE d == [c EXCEPT !.tmp = v]
  <2>1. d \in Calls /\ d.tmp = v /\ d.k = c.k /\ d.gid = c.gid /\ d.gids = c.gids
    BY DEF Calls
  <2>2. Check(c, v) = TakeGroup(d)
    BY <1>2 DEF Check
  <2> HIDE DEF d
  <2>3. Taken(d, d.tmp, TakeGroup(d))
    BY <2>1, TakeGroupTakes
  <2>4. Taken(c, v, TakeGroup(d))
    BY <2>1, <2>3 DEF Taken
  <2> QED
    BY <1>2, <2>2, <2>4 DEF UnknownOutcome
<1> QED
  BY <1>1, <1>2

LEMMA GotGroupOutcome ==
    ASSUME AskedGroups(asked), NEW c \in Calls, c.k <= Len(asked), NEW v \in Id
    PROVE  GroupOutcome(c, v, GotGroup(c, v))
<1>1. CASE v # NoId
  <2>1. UnknownOutcome(c, v, Check(c, v))
    BY CheckChecks
  <2> QED
    BY <1>1, <2>1 DEF GotGroup, UnknownOutcome, GroupOutcome
<1>2. CASE v = NoId /\ conf.failInvalid
  <2>1. Moved(c, Refused(c), "refused", c.tmp)
    BY Movement DEF Refused, Places
  <2> QED
    BY <1>2, <2>1 DEF GotGroup, GroupOutcome
<1>3. CASE v = NoId /\ ~conf.failInvalid /\ c.k = 0
  <2>1. Moved(c, [c EXCEPT !.pc = "unknown_gid"], "unknown_gid", c.tmp)
    BY Movement DEF Places
  <2> QED
    BY <1>3, <2>1 DEF GotGroup, GroupOutcome
<1>4. CASE v = NoId /\ ~conf.failInvalid /\ c.k # 0
  <2>1. c.k + 1 \in Nat /\ 1 <= c.k + 1 /\ c.k + 1 <= Len(asked) + 1
    BY DEF Calls, AskedGroups
  <2>2. Advanced(Supplementary(c, c.k + 1), c.gid, c.gids, c.k + 1)
    BY <2>1, SupplementaryAdvances
  <2> QED
    BY <1>4, <2>2 DEF GotGroup, GroupOutcome
<1> QED
  BY <1>1, <1>2, <1>3, <1>4

\* An answer about the user is a set of gids where the groups are asked for.
AnswerType(c, v) ==
    /\ c.pc \in {"none_gids", "check_gids", "default_gids"} => v \in SUBSET Id
    /\ c.pc \in {"uid", "none_gid", "default_gid", "unknown_gid", "check_gid", "home"} =>
            v \in Id

LEMMA ContinueOutcome ==
    ASSUME AskedGroups(asked), NEW c, Shape(c, asked), NEW v, AnswerType(c, v),
           c.pc \in DOMAIN Asks
    PROVE  UserOutcome(c, v, Continue(c, v))
<1>0. c \in Calls /\ c.pc \in Places
  BY DEF Shape, Calls
<1>1. CASE c.pc = "uid"
  <2>1. /\ Moved(c, Refused(c), "refused", c.tmp)
        /\ Moved(c, [c EXCEPT !.pc = "none_gid"], "none_gid", c.tmp)
        /\ Moved(c, [c EXCEPT !.pc = "default_gid"], "default_gid", c.tmp)
        /\ Moved(c, [c EXCEPT !.pc = "group"], "group", c.tmp)
    BY <1>0, Movement DEF Refused, Places
  <2>2. Continue(c, v) = GotUid(c, v)
    BY <1>1 DEF Continue
  <2>3. UidOutcome(c, v, GotUid(c, v))
    BY <2>1 DEF GotUid, UidOutcome, NoGroups, DefaultGid
  <2> QED
    BY <1>1, <2>2, <2>3 DEF UserOutcome
<1>2. CASE c.pc = "none_gid"
  <2>1. Continue(c, v) = [c EXCEPT !.gid = v, !.pc = "none_gids"]
    BY <1>2 DEF Continue
  <2>2. v \in Id
    BY <1>2 DEF AnswerType
  <2>3. NoneOutcome(c, v, Continue(c, v))
    BY <1>0, <1>2, <2>1, <2>2 DEF NoneOutcome, Calls, Places
  <2> QED
    BY <1>2, <2>3 DEF UserOutcome
<1>3. CASE c.pc = "none_gids"
  <2>1. Continue(c, v) = [c EXCEPT !.gids = v, !.pc = "set"]
    BY <1>3 DEF Continue
  <2>2. v \in SUBSET Id
    BY <1>3 DEF AnswerType
  <2>3. NoneOutcome(c, v, Continue(c, v))
    BY <1>0, <1>3, <2>1, <2>2 DEF NoneOutcome, Calls, Places
  <2> QED
    BY <1>3, <2>3 DEF UserOutcome
<1>4. CASE c.pc = "default_gid"
  <2>1. Continue(c, v) = Primary(c, v)
    BY <1>4 DEF Continue
  <2>2. v \in Id /\ c.k = 0
    BY <1>4 DEF AnswerType, Shape
  <2>3. Advanced(Primary(c, v), v, {v}, 1)
    BY <1>0, <2>2, PrimaryAdvances
  <2>4. c.k + 1 = 1
    BY <2>2
  <2> QED
    BY <1>4, <2>1, <2>2, <2>3, <2>4 DEF UserOutcome, Taken
<1>5. CASE c.pc = "unknown_gid"
  <2>1. Continue(c, v) = Check(c, v)
    BY <1>5 DEF Continue
  <2>2. v \in Id /\ c.k = 0
    BY <1>5 DEF AnswerType, Shape
  <2>3. c.k <= Len(asked)
    BY <2>2 DEF AskedGroups
  <2>4. UnknownOutcome(c, v, Check(c, v))
    BY <1>0, <2>2, <2>3, CheckChecks
  <2> QED
    BY <1>5, <2>1, <2>4 DEF UserOutcome
<1>6. CASE c.pc = "check_gid"
  <2>1. Continue(c, v) = IF v = c.tmp THEN TakeGroup(c) ELSE [c EXCEPT !.pc = "check_gids"]
    BY <1>6 DEF Continue
  <2>2. c.k <= Len(asked)
    BY <1>6 DEF Shape
  <2>3. Taken(c, c.tmp, TakeGroup(c))
    BY <1>0, <2>2, TakeGroupTakes
  <2>4. Moved(c, [c EXCEPT !.pc = "check_gids"], "check_gids", c.tmp)
    BY <1>0, Movement DEF Places
  <2> QED
    BY <1>6, <2>1, <2>3, <2>4 DEF UserOutcome, CheckGidOutcome
<1>7. CASE c.pc = "check_gids"
  <2>1. Continue(c, v) = IF c.tmp \in v THEN TakeGroup(c) ELSE NotMember(c)
    BY <1>7 DEF Continue
  <2>2. c.k <= Len(asked)
    BY <1>7 DEF Shape
  <2>3. Taken(c, c.tmp, TakeGroup(c))
    BY <1>0, <2>2, TakeGroupTakes
  <2>4. /\ Moved(c, Refused(c), "refused", c.tmp)
        /\ Moved(c, [c EXCEPT !.pc = "default_gid"], "default_gid", c.tmp)
    BY <1>0, Movement DEF Refused, Places
  <2>5. CheckGidsOutcome(c, v, Continue(c, v))
    BY <2>1, <2>3, <2>4 DEF NotMember, CheckGidsOutcome
  <2> QED
    BY <1>7, <2>5 DEF UserOutcome
<1>8. CASE c.pc = "default_gids"
  <2> DEFINE d == [c EXCEPT !.gids = @ \cup v]
  <2>1. v \in SUBSET Id
    BY <1>8 DEF AnswerType
  <2>2. d \in Calls /\ d.gid = c.gid /\ d.gids = c.gids \cup v
    BY <1>0, <2>1 DEF Calls
  <2>3. Continue(c, v) = Supplementary(d, c.k + 1)
    BY <1>8 DEF Continue
  <2> HIDE DEF d
  <2>4. c.k + 1 \in Nat /\ 1 <= c.k + 1 /\ c.k + 1 <= Len(asked) + 1
    BY <1>8 DEF Shape, Calls, AskedGroups
  <2>5. Advanced(Supplementary(d, c.k + 1), d.gid, d.gids, c.k + 1)
    BY <2>2, <2>4, SupplementaryAdvances
  <2> QED
    BY <1>8, <2>2, <2>3, <2>5 DEF UserOutcome
<1>9. CASE c.pc = "home"
  <2>1. Continue(c, v) = IF v = NoId THEN Refused(c) ELSE [c EXCEPT !.pc = "done"]
    BY <1>9 DEF Continue
  <2>2. /\ Moved(c, Refused(c), "refused", c.tmp)
        /\ Moved(c, [c EXCEPT !.pc = "done"], "done", c.tmp)
    BY <1>0, Movement DEF Refused, Places
  <2> QED
    BY <1>9, <2>1, <2>2 DEF UserOutcome, HomeOutcome
<1> QED
  BY <1>1, <1>2, <1>3, <1>4, <1>5, <1>6, <1>7, <1>8, <1>9 DEF Asks

-----------------------------------------------------------------------------
(* The types, and the shape of the call. *)

LEMMA AdvancedShape ==
    ASSUME AskedGroups(asked), asked[1] # NoGroups, NEW d, NEW gid, NEW gids,
           NEW j \in Nat, 1 <= j, Advanced(d, gid, gids, j)
    PROVE  Shape(d, asked)
  BY DEF Advanced, Shape, Calls, AskedGroups

LEMMA TakenShape ==
    ASSUME AskedGroups(asked), asked[1] # NoGroups, NEW c \in Calls, NEW v, NEW d,
           Taken(c, v, d)
    PROVE  Shape(d, asked)
<1>1. c.k + 1 \in Nat /\ 1 <= c.k + 1
  BY DEF Calls
<1> QED
  BY <1>1, AdvancedShape DEF Taken

LEMMA UserShape ==
    ASSUME AskedGroups(asked), NEW c, Shape(c, asked), NEW v, NEW d,
           UserOutcome(c, v, d), c.pc \in DOMAIN Asks
    PROVE  Shape(d, asked)
<1>0. c \in Calls /\ c.k \in Nat /\ c.k <= Len(asked) + 1 /\ Len(asked) \in Nat \ {0}
  BY DEF Shape, Calls, AskedGroups
<1>1. CASE c.pc = "uid"
  <2>1. UidOutcome(c, v, d)
    BY <1>1 DEF UserOutcome
  <2>2. c.k = 0 /\ c.gids = {}
    BY <1>1 DEF Shape
  <2>3. CASE Moved(c, d, "refused", c.tmp)
    BY <1>0, <2>3 DEF Shape, Moved
  <2>4. CASE asked[1] = NoGroups /\ Moved(c, d, "none_gid", c.tmp)
    BY <1>0, <2>2, <2>4 DEF Shape, Moved
  <2>5. CASE asked[1] = DefaultGid /\ Moved(c, d, "default_gid", c.tmp)
    BY <1>0, <2>2, <2>5 DEF Shape, Moved, NoGroups, DefaultGid
  <2>6. CASE asked[1] \notin {NoGroups, DefaultGid} /\ Moved(c, d, "group", c.tmp)
    BY <1>0, <2>2, <2>6 DEF Shape, Moved
  <2> QED
    BY <2>1, <2>3, <2>4, <2>5, <2>6 DEF UidOutcome
<1>2. CASE c.pc \in {"none_gid", "none_gids"}
  <2>1. NoneOutcome(c, v, d)
    BY <1>2 DEF UserOutcome
  <2> QED
    BY <1>0, <1>2, <2>1 DEF Shape, NoneOutcome
<1>3. CASE c.pc = "default_gid"
  BY <1>0, <1>3, TakenShape DEF UserOutcome, Shape
<1>4. CASE c.pc = "unknown_gid"
  <2>1. UnknownOutcome(c, v, d)
    BY <1>4 DEF UserOutcome
  <2>2. CASE Taken(c, v, d)
    BY <1>0, <1>4, <2>2, TakenShape DEF Shape
  <2>3. CASE conf.enforce /\ Moved(c, d, "check_gid", v)
    BY <1>0, <1>4, <2>3 DEF Shape, Moved
  <2> QED
    BY <2>1, <2>2, <2>3 DEF UnknownOutcome
<1>5. CASE c.pc = "check_gid"
  <2>1. CheckGidOutcome(c, v, d)
    BY <1>5 DEF UserOutcome
  <2>2. CASE Taken(c, c.tmp, d)
    BY <1>0, <1>5, <2>2, TakenShape DEF Shape
  <2>3. CASE Moved(c, d, "check_gids", c.tmp)
    BY <1>0, <1>5, <2>3 DEF Shape, Moved
  <2> QED
    BY <2>1, <2>2, <2>3 DEF CheckGidOutcome
<1>6. CASE c.pc = "check_gids"
  <2>1. CheckGidsOutcome(c, v, d)
    BY <1>6 DEF UserOutcome
  <2>2. CASE Taken(c, c.tmp, d)
    BY <1>0, <1>6, <2>2, TakenShape DEF Shape
  <2>3. CASE Moved(c, d, "refused", c.tmp)
    BY <1>0, <1>6, <2>3 DEF Shape, Moved
  <2>4. CASE c.k = 0 /\ Moved(c, d, "default_gid", c.tmp)
    BY <1>0, <1>6, <2>4 DEF Shape, Moved
  <2> QED
    BY <2>1, <2>2, <2>3, <2>4 DEF CheckGidsOutcome
<1>7. CASE c.pc = "default_gids"
  <2>1. c.k + 1 \in Nat /\ 1 <= c.k + 1
    BY <1>0
  <2> QED
    BY <1>7, <2>1, AdvancedShape DEF UserOutcome, Shape
<1>8. CASE c.pc = "home"
  <2>1. HomeOutcome(c, v, d)
    BY <1>8 DEF UserOutcome
  <2> QED
    BY <1>0, <1>8, <2>1 DEF Shape, HomeOutcome, Moved
<1> QED
  BY <1>1, <1>2, <1>3, <1>4, <1>5, <1>6, <1>7, <1>8 DEF Asks

LEMMA GroupShape ==
    ASSUME AskedGroups(asked), NEW c, Shape(c, asked), NEW v, NEW d,
           GroupOutcome(c, v, d), c.pc = "group"
    PROVE  Shape(d, asked)
<1>0. c \in Calls /\ c.k \in Nat /\ c.k <= Len(asked) /\ asked[1] # NoGroups
  BY DEF Shape, Calls
<1>1. CASE conf.enforce /\ Moved(c, d, "check_gid", v)
  BY <1>0, <1>1 DEF Shape, Moved, AskedGroups
<1>2. CASE Taken(c, v, d)
  BY <1>0, <1>2, TakenShape
<1>3. CASE Moved(c, d, "refused", c.tmp)
  BY <1>0, <1>3 DEF Shape, Moved, AskedGroups
<1>4. CASE ~conf.failInvalid /\ c.k = 0 /\ Moved(c, d, "unknown_gid", c.tmp)
  BY <1>0, <1>4 DEF Shape, Moved, AskedGroups
<1>5. CASE Advanced(d, c.gid, c.gids, c.k + 1)
  <2>1. c.k + 1 \in Nat /\ 1 <= c.k + 1
    BY <1>0
  <2> QED
    BY <1>0, <1>5, <2>1, AdvancedShape
<1> QED
  BY <1>1, <1>2, <1>3, <1>4, <1>5 DEF GroupOutcome

\* What an entry of the database may be.
UserRecord(e) ==
    /\ e.uid \in Id /\ e.gid \in Id /\ e.home \in Id
    /\ e = Absent \/ /\ e.uid \in Nat /\ e.gid \in Nat /\ e.home \in Nat
                     /\ e.gids \in SUBSET Nat /\ e.gid \in e.gids

LEMMA DatabaseTypes ==
    ASSUME NEW db \in Database
    PROVE  /\ \A u \in Users : UserRecord(db.users[u])
           /\ \A g \in GroupNames : db.groups[g] \in Id
<1>1. db.users \in [Users -> Entries \cup {Absent}]
  BY DEF Database
<1>2. db.groups \in [GroupNames -> Gids \cup {NoId}]
  BY DEF Database
<1>3. UserRecord(Absent)
  BY DEF UserRecord, Absent, Id
<1>4. \A e \in Entries : UserRecord(e)
  BY EntryAssumption DEF UserRecord, Id
<1>5. Gids \cup {NoId} \subseteq Id
  BY OtherAssumption DEF Id
<1> QED
  BY <1>1, <1>2, <1>3, <1>4, <1>5

LEMMA HistoryTypes ==
    ASSUME TypesTime
    PROVE  /\ \A t \in 0 .. now : hist[t] \in Database
           /\ \A t \in 0 .. now : \A u \in Users : UserRecord(hist[t].users[u])
           /\ \A t \in 0 .. now : \A g \in GroupNames : hist[t].groups[g] \in Id
           /\ now \in 0 .. now
<1>1. now \in 0 .. now
  BY DEF TypesTime
<1>2. \A t \in 0 .. now : hist[t] \in Database
  BY DEF TypesTime
<1> QED
  BY <1>1, <1>2, DatabaseTypes

\* The entry that the cache answers with.
UserEntryUsed == IF Expired(cache[user].ts) THEN Empty ELSE cache[user]
GroupEntryUsed(g) ==
    IF ~Expired(gcache[g].ts) THEN gcache[g]
    ELSE [gid |-> Db.groups[g], ts |-> IF Db.groups[g] = NoId THEN NoTime ELSE now]
GroupAt(c) == asked[IF c.k = 0 THEN 1 ELSE c.k]

LEMMA AnswerTyped ==
    ASSUME NEW entry \in CacheEntries, NEW c, c.pc \in DOMAIN Asks
    PROVE  AnswerType(c, Item(entry, Asks[c.pc]))
<1>1. CASE c.pc \in {"none_gids", "check_gids", "default_gids"}
  <2>1. Asks[c.pc] = "gids"
    BY <1>1 DEF Asks
  <2>2. Item(entry, "gids") \in SUBSET Id
    BY DEF Item, CacheEntries
  <2> QED
    BY <1>1, <2>1, <2>2 DEF AnswerType
<1>2. CASE c.pc \in {"uid", "none_gid", "default_gid", "unknown_gid", "check_gid", "home"}
  <2>1. Asks[c.pc] \in {"uid", "gid", "home"}
    BY <1>2 DEF Asks
  <2>2. \A i \in {"uid", "gid", "home"} : Item(entry, i) \in Id
    BY DEF Item, CacheEntries
  <2> QED
    BY <1>2, <2>1, <2>2 DEF AnswerType
<1> QED
  BY <1>1, <1>2 DEF Asks

\* The steps, with what they are about named.
LEMMA UserAnswerStep ==
    ASSUME UserAnswer
    PROVE  \E value :
              /\ value = Item(UserEntryUsed, Asks[call.pc])
              /\ cache' = [cache EXCEPT ![user] = UserEntryUsed]
              /\ last' = [of |-> "user", item |-> Asks[call.pc], value |-> value, at |-> now]
              /\ call' = Continue(call, value)
  BY DEF UserAnswer, UserEntryUsed

LEMMA GroupAnswerStep ==
    ASSUME GroupAnswer
    PROVE  \E g :
              /\ g = GroupAt(call)
              /\ gcache' = [gcache EXCEPT ![g] = GroupEntryUsed(g)]
              /\ last' = [of |-> "group", item |-> g, value |-> GroupEntryUsed(g).gid, at |-> now]
              /\ call' = GotGroup(call, GroupEntryUsed(g).gid)
  BY DEF GroupAnswer, GroupEntryUsed, GroupAt

\* What a tick does to the history.
LEMMA TickStep ==
    ASSUME TypesTime, Tick
    PROVE  /\ now' = now + 1 /\ now' \in Nat /\ now' <= MaxTime
           /\ hist' \in [0 .. now' -> Database]
           /\ \A t \in 0 .. now : hist'[t] = hist[t]
<1>1. now \in Nat /\ MaxTime \in Nat /\ now < MaxTime /\ now' = now + 1
  BY OtherAssumption DEF TypesTime, Tick
<1>2. PICK d \in Database :
         hist' = [t \in 0 .. now + 1 |-> IF t <= now THEN hist[t] ELSE d]
  BY DEF Tick
<1>3. \A t \in 0 .. now + 1 : t <= now => t \in 0 .. now
  BY <1>1
<1>4. \A t \in 0 .. now : t \in 0 .. now + 1 /\ t <= now
  BY <1>1
<1>5. \A t \in 0 .. now : hist[t] \in Database
  BY DEF TypesTime
<1>6. \A t \in 0 .. now + 1 : (IF t <= now THEN hist[t] ELSE d) \in Database
  BY <1>3, <1>5
<1>7. hist' \in [0 .. now' -> Database]
  BY <1>1, <1>2, <1>6
<1>8. \A t \in 0 .. now : hist'[t] = hist[t]
  BY <1>2, <1>4
<1> QED
  BY <1>1, <1>7, <1>8

LEMMA UsedTypes ==
    ASSUME TypesTime, TypesCache
    PROVE  /\ UserEntryUsed \in CacheEntries /\ UserEntryUsed.ts <= now
           /\ \A g \in GroupNames : GroupEntryUsed(g) \in GroupEntries /\ GroupEntryUsed(g).ts <= now
<1>1. now \in Nat /\ NoTime <= now /\ user \in Users
  BY DEF TypesTime, NoTime
<1>2. Empty \in CacheEntries /\ Empty.ts <= now
  BY <1>1 DEF Empty, CacheEntries, Id, NoGids
<1>3. UserEntryUsed \in CacheEntries /\ UserEntryUsed.ts <= now
  BY <1>1, <1>2 DEF UserEntryUsed, TypesCache
<1>4. ASSUME NEW g \in GroupNames
      PROVE  GroupEntryUsed(g) \in GroupEntries /\ GroupEntryUsed(g).ts <= now
  <2>1. CASE ~Expired(gcache[g].ts)
    BY <2>1 DEF GroupEntryUsed, TypesCache
  <2>2. CASE Expired(gcache[g].ts)
    <3>1. Db.groups[g] \in Id
      BY HistoryTypes DEF Db
    <3> DEFINE v == Db.groups[g]
    <3> DEFINE ts == IF v = NoId THEN NoTime ELSE now
    <3>2. GroupEntryUsed(g) = [gid |-> v, ts |-> ts]
      BY <2>2 DEF GroupEntryUsed
    <3> HIDE DEF v
    <3>3. ts \in Nat \cup {NoTime} /\ ts <= now
      BY <1>1
    <3> HIDE DEF ts
    <3>4. v \in Id
      BY <3>1 DEF v
    <3> QED
      BY <3>2, <3>3, <3>4 DEF GroupEntries
  <2> QED
    BY <2>1, <2>2
<1> QED
  BY <1>3, <1>4

LEMMA ShapeInit == Init => ShapeInv
<1> SUFFICES ASSUME Init PROVE ShapeInv
  OBVIOUS
<1>1. TypesTime
  <2>1. now = 0 /\ began = 0 /\ 0 .. now = {0} /\ MaxTime \in Nat
    BY OtherAssumption DEF Init
  <2>2. hist \in [0 .. now -> Database]
    BY <2>1 DEF Init
  <2>3. conf \in Settings /\ user \in Users /\ asked \in Asked \cup {<<NoGroups>>}
    BY DEF Init
  <2> QED
    BY <2>1, <2>2, <2>3 DEF TypesTime
<1>2. TypesCache
  <2>1. Empty \in CacheEntries /\ Empty.ts = NoTime
    BY DEF Empty, CacheEntries, Id, NoGids
  <2>2. [gid |-> NoId, ts |-> NoTime] \in GroupEntries
    BY DEF GroupEntries, Id
  <2>3. cache \in [Users -> CacheEntries] /\ \A u \in Users : cache[u].ts = NoTime
    BY <2>1 DEF Init
  <2>4. gcache \in [GroupNames -> GroupEntries] /\ \A g \in GroupNames : gcache[g].ts = NoTime
    BY <2>2 DEF Init
  <2>5. now = 0 /\ NoTime <= now /\ waited = 0 /\ waited <= MaxDelay /\ MaxDelay \in Nat
    BY OtherAssumption DEF Init, NoTime
  <2>6. filling \in BOOLEAN /\ lost \in BOOLEAN
    BY Zenon DEF Init
  <2> QED
    BY <2>3, <2>4, <2>5, <2>6 DEF TypesCache
<1>3. Shape(call, asked)
  BY DEF Init, Idle, Shape, Calls, Places, Id
<1>4. Filling
  BY DEF Init, Filling
<1> QED
  BY <1>1, <1>2, <1>3, <1>4 DEF ShapeInv

LEMMA ShapeTick == ShapeInv /\ Tick => ShapeInv'
<1> SUFFICES ASSUME ShapeInv, Tick PROVE ShapeInv'
  OBVIOUS
<1>0. TypesTime /\ TypesCache /\ Shape(call, asked) /\ Filling
  BY DEF ShapeInv
<1>1. /\ now' = now + 1 /\ now' \in Nat /\ now' <= MaxTime
      /\ hist' \in [0 .. now' -> Database] /\ now \in Nat
  BY <1>0, TickStep DEF TypesTime
<1>2. UNCHANGED <<cache, gcache, filling, lost, conf, user, asked, call, last, began>>
  BY DEF Tick, callVars
<1>3. TypesTime'
  BY <1>0, <1>1, <1>2 DEF TypesTime
<1>4. waited' \in Nat /\ waited' <= MaxDelay
  BY <1>0, OtherAssumption DEF Tick, TypesCache
<1>5. /\ \A u \in Users : cache[u].ts <= now'
      /\ \A g \in GroupNames : gcache[g].ts <= now'
  <2>1. \A n \in Nat \cup {NoTime} : n <= now => n <= now'
    BY <1>1 DEF NoTime
  <2>2. /\ \A u \in Users : cache[u].ts \in Nat \cup {NoTime}
        /\ \A g \in GroupNames : gcache[g].ts \in Nat \cup {NoTime}
    BY <1>0 DEF TypesCache, CacheEntries, GroupEntries
  <2> QED
    BY <1>0, <2>1, <2>2 DEF TypesCache
<1>6. TypesCache'
  BY <1>0, <1>2, <1>4, <1>5 DEF TypesCache
<1>7. Shape(call, asked)' /\ Filling'
  BY <1>0, <1>2 DEF Shape, Filling
<1> QED
  BY <1>3, <1>6, <1>7 DEF ShapeInv

LEMMA ShapeBecomeUser ==
    ASSUME ShapeInv, NEW u \in Users, NEW a \in Asked, BecomeUser(u, a)
    PROVE  ShapeInv'
<1>0. TypesTime /\ TypesCache /\ Filling
  BY DEF ShapeInv
<1>1. TypesTime'
  BY <1>0 DEF TypesTime, BecomeUser
<1>2. TypesCache'
  BY <1>0 DEF TypesCache, BecomeUser, cacheVars
<1>3. call' = [pc |-> "uid", k |-> 0, tmp |-> NoId, gid |-> NoId, gids |-> {}] /\ asked' = a
  BY DEF BecomeUser, Idle
<1>4. Shape(call, asked)'
  <2>1. AskedGroups(a)
    BY AskedKnown
  <2> QED
    BY <1>3, <2>1 DEF Shape, Calls, Places, Id, AskedGroups
<1>5. Filling'
  BY <1>3 DEF Filling, Asks
<1> QED
  BY <1>1, <1>2, <1>4, <1>5 DEF ShapeInv

LEMMA ShapeUpdate == ShapeInv /\ UpdateUserInfo => ShapeInv'
<1> SUFFICES ASSUME ShapeInv, UpdateUserInfo PROVE ShapeInv'
  OBVIOUS
<1>0. TypesTime /\ TypesCache /\ Shape(call, asked)
  BY DEF ShapeInv
<1>1. UNCHANGED <<now, hist, gcache, lost, conf, user, asked, call, last, began>>
  BY DEF UpdateUserInfo, callVars
<1>2. TypesTime' /\ Shape(call, asked)'
  BY <1>0, <1>1 DEF TypesTime, Shape
<1> DEFINE e == Db.users[user]
<1> DEFINE entry == [Empty EXCEPT !.uid = e.uid, !.gid = e.gid, !.home = e.home]
<1>3. cache' = [cache EXCEPT ![user] = entry]
  BY DEF UpdateUserInfo
<1>4. UserRecord(e) /\ user \in Users /\ now \in Nat
  BY <1>0, HistoryTypes DEF Db, TypesTime
<1> HIDE DEF e
<1>5. entry \in CacheEntries /\ entry.ts = NoTime
  BY <1>4 DEF UserRecord, CacheEntries, Empty, Id, NoGids
<1> HIDE DEF entry
<1>6. cache' \in [Users -> CacheEntries] /\ \A u \in Users : cache'[u].ts <= now
  <2>1. NoTime <= now
    BY <1>4 DEF NoTime
  <2> QED
    BY <1>0, <1>3, <1>4, <1>5, <2>1 DEF TypesCache
<1>7. filling' \in BOOLEAN
  BY Zenon DEF UpdateUserInfo
<1>8. TypesCache'
  BY <1>0, <1>1, <1>6, <1>7, OtherAssumption DEF TypesCache, UpdateUserInfo
<1>9. Filling'
  BY <1>1 DEF Filling, UpdateUserInfo
<1> QED
  BY <1>2, <1>8, <1>9 DEF ShapeInv

\* What `id -G` adds to the entry.
LEMMA ResolvedStep ==
    ASSUME TypesTime, TypesCache, GroupsResolved
    PROVE  \E gids \in SUBSET Id :
              /\ cache' = [cache EXCEPT ![user] = [@ EXCEPT !.gids = gids, !.ts = now]]
              /\ \/ gids = {} /\ lost' = TRUE
                 \/ /\ Db.users[user] # Absent
                    /\ gids = Db.users[user].gids \cup {cache[user].gid}
                    /\ lost' = lost
<1>0. UserRecord(Db.users[user]) /\ user \in Users
  BY HistoryTypes DEF Db, TypesTime
<1>1. CASE cache' = [cache EXCEPT ![user].gids = {}, ![user].ts = now] /\ lost' = TRUE
  <2>1. cache' = [cache EXCEPT ![user] = [@ EXCEPT !.gids = {}, !.ts = now]]
    BY <1>0, <1>1 DEF TypesCache, CacheEntries
  <2> QED
    BY <1>1, <2>1
<1>2. CASE /\ Db.users[user] # Absent
           /\ cache' = [cache EXCEPT
                ![user].gids = Db.users[user].gids \cup {cache[user].gid}, ![user].ts = now]
           /\ UNCHANGED lost
  <2> DEFINE gids == Db.users[user].gids \cup {cache[user].gid}
  <2>1. gids \in SUBSET Id
    BY <1>0, <1>2 DEF UserRecord, Id, TypesCache, CacheEntries
  <2>2. cache' = [cache EXCEPT ![user] = [@ EXCEPT !.gids = gids, !.ts = now]]
    BY <1>0, <1>2 DEF TypesCache, CacheEntries
  <2> QED
    BY <1>2, <2>1, <2>2
<1> QED
  BY <1>1, <1>2 DEF GroupsResolved

LEMMA ShapeResolved == ShapeInv /\ GroupsResolved => ShapeInv'
<1> SUFFICES ASSUME ShapeInv, GroupsResolved PROVE ShapeInv'
  OBVIOUS
<1>0. TypesTime /\ TypesCache /\ Shape(call, asked)
  BY DEF ShapeInv
<1>1. UNCHANGED <<now, hist, gcache, conf, user, asked, call, last, began>>
  BY DEF GroupsResolved, callVars
<1>2. TypesTime' /\ Shape(call, asked)'
  BY <1>0, <1>1 DEF TypesTime, Shape
<1>3. PICK gids \in SUBSET Id :
        cache' = [cache EXCEPT ![user] = [@ EXCEPT !.gids = gids, !.ts = now]]
  BY <1>0, ResolvedStep
<1>4. user \in Users /\ now \in Nat
  BY <1>0 DEF TypesTime
<1> DEFINE entry == [cache[user] EXCEPT !.gids = gids, !.ts = now]
<1>5. entry \in CacheEntries /\ entry.ts = now
  BY <1>0, <1>4 DEF TypesCache, CacheEntries
<1>6. cache' = [cache EXCEPT ![user] = entry]
  BY <1>3
<1> HIDE DEF entry
<1>7. cache' \in [Users -> CacheEntries] /\ \A u \in Users : cache'[u].ts <= now
  BY <1>0, <1>4, <1>5, <1>6 DEF TypesCache
<1>8. filling' = FALSE /\ filling' \in BOOLEAN /\ lost' \in BOOLEAN
  BY <1>0, Zenon DEF GroupsResolved, TypesCache
<1>9. TypesCache'
  BY <1>0, <1>1, <1>7, <1>8, OtherAssumption DEF TypesCache, GroupsResolved
<1>10. Filling'
  BY <1>8 DEF Filling
<1> QED
  BY <1>2, <1>9, <1>10 DEF ShapeInv

LEMMA ShapeOver ==
    ASSUME ShapeInv, Over, UNCHANGED <<now, hist, cache, gcache, lost, conf, user>>,
           filling' \in BOOLEAN, waited' \in Nat, waited' <= MaxDelay, filling' = FALSE
    PROVE  ShapeInv'
<1>0. TypesTime /\ TypesCache
  BY DEF ShapeInv
<1>1. TypesTime'
  BY <1>0 DEF TypesTime, Over
<1>2. TypesCache'
  BY <1>0 DEF TypesCache
<1>3. Shape(call, asked)'
  BY DEF Over, Idle, Shape, Calls, Places, Id
<1>4. Filling'
  BY DEF Filling
<1> QED
  BY <1>1, <1>2, <1>3, <1>4 DEF ShapeInv

LEMMA ShapeRaise == ShapeInv /\ GroupsRaise => ShapeInv'
<1> SUFFICES ASSUME ShapeInv, GroupsRaise PROVE ShapeInv'
  OBVIOUS
<1>1. filling' \in BOOLEAN
  BY Zenon DEF GroupsRaise
<1>2. waited' \in Nat /\ waited' <= MaxDelay
  BY OtherAssumption DEF GroupsRaise
<1> QED
  BY <1>1, <1>2, ShapeOver DEF GroupsRaise

LEMMA ShapeFinish == ShapeInv /\ Finish => ShapeInv'
<1> SUFFICES ASSUME ShapeInv, Finish PROVE ShapeInv'
  OBVIOUS
<1>1. ~filling
  BY DEF ShapeInv, Filling, Finish, Asks
<1>2. UNCHANGED cacheVars
  BY DEF Finish
<1>3. filling' \in BOOLEAN /\ waited' \in Nat /\ waited' <= MaxDelay
  BY <1>2 DEF ShapeInv, TypesCache, cacheVars
<1>4. filling' = FALSE
  BY <1>1, <1>2 DEF ShapeInv, TypesCache, cacheVars
<1> QED
  BY <1>2, <1>3, <1>4, ShapeOver DEF Finish, cacheVars

LEMMA ShapeUserAnswer == ShapeInv /\ UserAnswer => ShapeInv'
<1> SUFFICES ASSUME ShapeInv, UserAnswer PROVE ShapeInv'
  OBVIOUS
<1>0. TypesTime /\ TypesCache /\ Shape(call, asked)
  BY DEF ShapeInv
<1>1. /\ call.pc \in DOMAIN Asks /\ ~filling
      /\ UNCHANGED <<now, hist, gcache, filling, waited, lost, conf, user, asked, began>>
  BY DEF UserAnswer
<1>2. PICK value :
        /\ value = Item(UserEntryUsed, Asks[call.pc])
        /\ cache' = [cache EXCEPT ![user] = UserEntryUsed]
        /\ call' = Continue(call, value)
  BY UserAnswerStep
<1>3. UserEntryUsed \in CacheEntries /\ UserEntryUsed.ts <= now
  BY <1>0, UsedTypes
<1>4. TypesTime'
  BY <1>0, <1>1 DEF TypesTime
<1>5. TypesCache'
  <2>1. cache' \in [Users -> CacheEntries] /\ \A u \in Users : cache'[u].ts <= now
    BY <1>0, <1>2, <1>3 DEF TypesCache
  <2> QED
    BY <1>0, <1>1, <2>1 DEF TypesCache
<1>6. AnswerType(call, value)
  BY <1>1, <1>2, <1>3, AnswerTyped
<1>7. AskedGroups(asked)
  BY <1>0, AskedKnown DEF TypesTime
<1>8. UserOutcome(call, value, call')
  BY <1>0, <1>1, <1>2, <1>6, <1>7, ContinueOutcome
<1>9. Shape(call', asked)
  BY <1>0, <1>1, <1>7, <1>8, UserShape
<1>10. Shape(call, asked)' /\ Filling'
  BY <1>1, <1>9 DEF Shape, Filling
<1> QED
  BY <1>4, <1>5, <1>10 DEF ShapeInv

LEMMA GroupAsked ==
    ASSUME ShapeInv, call.pc = "group"
    PROVE  GroupAt(call) \in GroupNames
<1>1. AskedGroups(asked) /\ Shape(call, asked)
  BY AskedKnown DEF ShapeInv, TypesTime
<1> DEFINE h == IF call.k = 0 THEN 1 ELSE call.k
<1>2. h \in 1 .. Len(asked)
  BY <1>1 DEF Shape, Calls, AskedGroups
<1>3. asked[h] # DefaultGid /\ asked[1] # NoGroups
  BY <1>1 DEF Shape
<1>4. GroupAt(call) = asked[h]
  BY DEF GroupAt
<1> HIDE DEF h
<1> QED
  BY <1>1, <1>2, <1>3, <1>4 DEF AskedGroups

LEMMA ShapeGroupAnswer == ShapeInv /\ GroupAnswer => ShapeInv'
<1> SUFFICES ASSUME ShapeInv, GroupAnswer PROVE ShapeInv'
  OBVIOUS
<1>0. TypesTime /\ TypesCache /\ Shape(call, asked) /\ Filling
  BY DEF ShapeInv
<1>1. /\ call.pc = "group"
      /\ UNCHANGED <<now, hist, cache, filling, waited, lost, conf, user, asked, began>>
  BY DEF GroupAnswer
<1>2. PICK g :
        /\ g = GroupAt(call)
        /\ gcache' = [gcache EXCEPT ![g] = GroupEntryUsed(g)]
        /\ call' = GotGroup(call, GroupEntryUsed(g).gid)
  BY GroupAnswerStep
<1>3. g \in GroupNames
  BY <1>1, <1>2, GroupAsked
<1>4. GroupEntryUsed(g) \in GroupEntries /\ GroupEntryUsed(g).ts <= now
  BY <1>0, <1>3, UsedTypes
<1>5. TypesTime'
  BY <1>0, <1>1 DEF TypesTime
<1>6. TypesCache'
  <2>1. gcache' \in [GroupNames -> GroupEntries] /\ \A h \in GroupNames : gcache'[h].ts <= now
    BY <1>0, <1>2, <1>3, <1>4 DEF TypesCache
  <2> QED
    BY <1>0, <1>1, <2>1 DEF TypesCache
<1>7. AskedGroups(asked)
  BY <1>0, AskedKnown DEF TypesTime
<1>8. call \in Calls /\ call.k <= Len(asked) /\ GroupEntryUsed(g).gid \in Id
  BY <1>0, <1>1, <1>4 DEF Shape, GroupEntries
<1>9. GroupOutcome(call, GroupEntryUsed(g).gid, call')
  BY <1>2, <1>7, <1>8, GotGroupOutcome
<1>10. Shape(call', asked)
  BY <1>0, <1>1, <1>7, <1>9, GroupShape
<1>11. ~filling
  BY <1>0, <1>1 DEF Filling, Asks
<1>12. Shape(call, asked)' /\ Filling'
  BY <1>1, <1>10, <1>11 DEF Shape, Filling
<1> QED
  BY <1>5, <1>6, <1>12 DEF ShapeInv

LEMMA ShapeSetIds == ShapeInv /\ SetIds => ShapeInv'
<1> SUFFICES ASSUME ShapeInv, SetIds PROVE ShapeInv'
  OBVIOUS
<1>0. TypesTime /\ TypesCache /\ Shape(call, asked) /\ Filling
  BY DEF ShapeInv
<1>1. UNCHANGED <<now, hist, conf, user, asked, last, began>> /\ UNCHANGED cacheVars
  BY DEF SetIds
<1>2. TypesTime' /\ TypesCache'
  BY <1>0, <1>1 DEF TypesTime, TypesCache, cacheVars
<1>3. Shape(call, asked)'
  BY <1>0, <1>1 DEF SetIds, Shape, Calls, Places
<1>4. Filling'
  BY <1>0, <1>1 DEF Filling, SetIds, Asks, cacheVars
<1> QED
  BY <1>2, <1>3, <1>4 DEF ShapeInv

LEMMA ShapeStep == ShapeInv /\ [Next]_vars => ShapeInv'
<1> SUFFICES ASSUME ShapeInv, [Next]_vars PROVE ShapeInv'
  OBVIOUS
<1>1. CASE UNCHANGED vars
  BY <1>1 DEF vars, ShapeInv, TypesTime, TypesCache, Shape, Filling
<1>2. CASE \E u \in Users, a \in Asked : BecomeUser(u, a)
  BY <1>2, ShapeBecomeUser
<1> QED
  BY <1>1, <1>2, ShapeTick, ShapeUpdate, ShapeResolved, ShapeRaise, ShapeUserAnswer,
     ShapeGroupAnswer, ShapeSetIds, ShapeFinish DEF Next

LEMMA ShapeAlways == Spec => []ShapeInv
  BY ShapeInit, ShapeStep, PTL DEF Spec

\* Theorem: the variables keep their types, among them the place of the call in
\* the list of requested groups and the timestamps, which are never in the future.
THEOREM UserCacheTypes == Spec => []TypeOK
<1>1. ShapeInv => TypeOK
  <2> SUFFICES ASSUME ShapeInv PROVE TypeOK
    OBVIOUS
  <2>1. TypesTime /\ TypesCache /\ Shape(call, asked)
    BY DEF ShapeInv
  <2>2. now \in 0 .. MaxTime /\ began \in 0 .. now /\ waited \in 0 .. MaxDelay
    BY <2>1, OtherAssumption DEF TypesTime, TypesCache
  <2>3. /\ \A u \in Users : cache[u].ts \in {NoTime} \cup 0 .. now
        /\ \A g \in GroupNames : gcache[g].ts \in {NoTime} \cup 0 .. now
    <3>1. \A n \in Nat \cup {NoTime} : n <= now => n \in {NoTime} \cup 0 .. now
      BY <2>1 DEF TypesTime
    <3>2. /\ \A u \in Users : cache[u].ts \in Nat \cup {NoTime} /\ cache[u].ts <= now
          /\ \A g \in GroupNames : gcache[g].ts \in Nat \cup {NoTime} /\ gcache[g].ts <= now
      BY <2>1 DEF TypesCache, CacheEntries, GroupEntries
    <3> QED
      BY <3>1, <3>2
  <2>4. call \in Calls
    BY <2>1 DEF Shape
  <2>5. call.pc \in DOMAIN Asks \cup {"idle", "group", "set", "done", "refused"}
    BY <2>4 DEF Calls, Places, Asks
  <2>6. {call.tmp, call.gid} \cup call.gids \subseteq Nat \cup {NoId}
    BY <2>4 DEF Calls, Id
  <2>7. call.k \in 0 .. Len(asked) + 1
    BY <2>1, <2>4, AskedKnown DEF Calls, Shape, AskedGroups, TypesTime
  <2> QED
    BY <2>1, <2>2, <2>3, <2>5, <2>6, <2>7 DEF TypeOK, TypesTime, TypesCache
<1> QED
  BY <1>1, ShapeAlways, PTL

-----------------------------------------------------------------------------
(* What the cache holds. *)

LEMMA UserEntryKept ==
    ASSUME ShapeInv, NEW u \in Users, UserEntry(u), cache'[u] = cache[u],
           lost => lost', \A t \in 0 .. now : hist'[t] = hist[t]
    PROVE  UserEntry(u)'
<1>1. CASE cache[u].ts = NoTime
  BY <1>1 DEF UserEntry
<1>2. CASE cache[u].ts # NoTime
  <2>1. cache[u].ts \in Nat /\ cache[u].ts <= now /\ now \in Nat
    BY <1>2 DEF ShapeInv, TypesTime, TypesCache, CacheEntries
  <2>2. \A t \in 0 .. cache[u].ts : hist'[t] = hist[t]
    BY <2>1
  <2>3. UserEntry(u)!2
    BY <1>2 DEF UserEntry
  <2> QED
    BY <1>2, <2>2, <2>3 DEF UserEntry
<1> QED
  BY <1>1, <1>2

LEMMA GroupEntryKept ==
    ASSUME ShapeInv, NEW g \in GroupNames, GroupEntry(g), gcache'[g] = gcache[g],
           \A t \in 0 .. now : hist'[t] = hist[t]
    PROVE  GroupEntry(g)'
<1>1. CASE gcache[g].ts = NoTime
  BY <1>1 DEF GroupEntry
<1>2. CASE gcache[g].ts # NoTime
  <2>1. gcache[g].ts \in Nat /\ gcache[g].ts <= now /\ now \in Nat
    BY <1>2 DEF ShapeInv, TypesTime, TypesCache, GroupEntries
  <2>2. hist'[gcache[g].ts] = hist[gcache[g].ts]
    BY <2>1
  <2> QED
    BY <1>2, <2>2 DEF GroupEntry
<1> QED
  BY <1>1, <1>2

LEMMA CacheInit == Init => CacheInv
<1> SUFFICES ASSUME Init PROVE CacheInv
  OBVIOUS
<1>1. \A u \in Users : cache[u].ts = NoTime
  BY DEF Init, Empty
<1>2. \A g \in GroupNames : gcache[g].ts = NoTime
  BY DEF Init
<1> QED
  BY <1>1, <1>2 DEF Init, CacheInv, UserEntry, GroupEntry, HalfEntry

\* a step that leaves the cache and the database alone
LEMMA CacheSame ==
    ASSUME ShapeInv, CacheInv, UNCHANGED <<now, hist, cache, gcache, lost>>,
           filling' = FALSE \/ (filling' = filling /\ waited' = waited /\ user' = user)
    PROVE  CacheInv'
<1>1. \A u \in Users : UserEntry(u)'
  BY UserEntryKept DEF CacheInv
<1>2. \A g \in GroupNames : GroupEntry(g)'
  BY GroupEntryKept DEF CacheInv
<1>3. HalfEntry'
  BY DEF CacheInv, HalfEntry, FromPasswd
<1> QED
  BY <1>1, <1>2, <1>3 DEF CacheInv

LEMMA CacheTick == ShapeInv /\ CacheInv /\ Tick => CacheInv'
<1> SUFFICES ASSUME ShapeInv, CacheInv, Tick PROVE CacheInv'
  OBVIOUS
<1>1. now' = now + 1 /\ now \in Nat /\ \A t \in 0 .. now : hist'[t] = hist[t]
  BY TickStep DEF ShapeInv, TypesTime
<1>2. UNCHANGED <<cache, gcache, filling, lost, user>>
  BY DEF Tick, callVars
<1>3. \A u \in Users : UserEntry(u)'
  BY <1>1, <1>2, UserEntryKept DEF CacheInv
<1>4. \A g \in GroupNames : GroupEntry(g)'
  BY <1>1, <1>2, GroupEntryKept DEF CacheInv
<1>5. HalfEntry'
  <2> SUFFICES ASSUME filling PROVE HalfEntry'
    BY <1>2 DEF HalfEntry
  <2>1. waited' = waited + 1 /\ waited \in Nat /\ waited <= now
    BY DEF Tick, ShapeInv, TypesCache, CacheInv, HalfEntry
  <2>2. now' - waited' = now - waited /\ waited' <= now' /\ now - waited \in 0 .. now
    BY <1>1, <2>1
  <2>3. hist'[now' - waited'] = hist[now - waited]
    BY <1>1, <2>2
  <2>4. HalfEntry!2
    BY DEF CacheInv, HalfEntry
  <2> QED
    BY <1>2, <2>2, <2>3, <2>4 DEF HalfEntry
<1> QED
  BY <1>3, <1>4, <1>5 DEF CacheInv

LEMMA CacheUpdate == ShapeInv /\ CacheInv /\ UpdateUserInfo => CacheInv'
<1> SUFFICES ASSUME ShapeInv, CacheInv, UpdateUserInfo PROVE CacheInv'
  OBVIOUS
<1>0. user \in Users /\ cache \in [Users -> CacheEntries] /\ now \in Nat
  BY DEF ShapeInv, TypesTime, TypesCache
<1>1. UNCHANGED <<now, hist, gcache, lost, user>>
  BY DEF UpdateUserInfo, callVars
<1> DEFINE e == Db.users[user]
<1> DEFINE entry == [Empty EXCEPT !.uid = e.uid, !.gid = e.gid, !.home = e.home]
<1>2. cache' = [cache EXCEPT ![user] = entry] /\ e # Absent /\ waited' = 0
  BY DEF UpdateUserInfo
<1>3. e = hist[now].users[user]
  BY DEF Db
<1> HIDE DEF e
<1>4. entry.uid = e.uid /\ entry.gid = e.gid /\ entry.home = e.home /\ entry.ts = NoTime
  BY DEF Empty
<1> HIDE DEF entry
<1>5. cache'[user] = entry /\ \A u \in Users \ {user} : cache'[u] = cache[u]
  BY <1>0, <1>2
<1>6. ASSUME NEW u \in Users PROVE UserEntry(u)'
  <2>1. CASE u = user
    BY <1>4, <1>5, <2>1 DEF UserEntry
  <2>2. CASE u # user
    BY <1>1, <1>5, <2>2, UserEntryKept DEF CacheInv
  <2> QED
    BY <2>1, <2>2
<1>7. \A g \in GroupNames : GroupEntry(g)'
  BY <1>1, GroupEntryKept DEF CacheInv
<1>8. HalfEntry'
  <2>1. now - 0 = now /\ 0 <= now
    BY <1>0
  <2> QED
    BY <1>1, <1>2, <1>3, <1>4, <1>5, <2>1 DEF HalfEntry, FromPasswd
<1> QED
  BY <1>6, <1>7, <1>8 DEF CacheInv

LEMMA CacheResolved == ShapeInv /\ CacheInv /\ GroupsResolved => CacheInv'
<1> SUFFICES ASSUME ShapeInv, CacheInv, GroupsResolved PROVE CacheInv'
  OBVIOUS
<1>0. /\ user \in Users /\ cache \in [Users -> CacheEntries] /\ now \in Nat
      /\ waited \in Nat /\ waited <= MaxDelay /\ MaxDelay \in Nat
  BY OtherAssumption DEF ShapeInv, TypesTime, TypesCache
<1>1. UNCHANGED <<now, hist, gcache, user>> /\ filling /\ filling' = FALSE
  BY DEF GroupsResolved, callVars
<1>2. PICK gids \in SUBSET Id :
         /\ cache' = [cache EXCEPT ![user] = [@ EXCEPT !.gids = gids, !.ts = now]]
         /\ \/ gids = {} /\ lost' = TRUE
            \/ /\ Db.users[user] # Absent
               /\ gids = Db.users[user].gids \cup {cache[user].gid}
               /\ lost' = lost
  BY ResolvedStep DEF ShapeInv
<1>3. /\ cache'[user].uid = cache[user].uid /\ cache'[user].gid = cache[user].gid
      /\ cache'[user].home = cache[user].home
      /\ cache'[user].gids = gids /\ cache'[user].ts = now
  BY <1>0, <1>2 DEF CacheEntries
<1>4. \A u \in Users \ {user} : cache'[u] = cache[u]
  BY <1>0, <1>2
<1> DEFINE r == now - waited
<1>5. r \in 0 .. now /\ now - r <= MaxDelay /\ FromPasswd(cache[user], hist[r].users[user])
  BY <1>0, <1>1 DEF CacheInv, HalfEntry
<1> HIDE DEF r
<1>6. now \in 0 .. now /\ now - now <= MaxDelay
  BY <1>0
<1>7. ASSUME NEW u \in Users, u = user PROVE UserEntry(u)'
  <2>1. \E t \in 0 .. now : now - t <= MaxDelay /\ FromPasswd(cache'[user], hist[t].users[user])
    BY <1>3, <1>5 DEF FromPasswd
  <2>2. ASSUME NEW x \in gids
        PROVE  \E t \in 0 .. now : /\ now - t <= MaxDelay
                                   /\ hist[t].users[user] # Absent
                                   /\ x \in hist[t].users[user].gids
    <3>1. CASE Db.users[user] # Absent /\ x \in Db.users[user].gids
      BY <1>6, <3>1 DEF Db
    <3>2. CASE x = cache[user].gid
      <4>1. UserRecord(hist[r].users[user])
        BY <1>5, <1>0, HistoryTypes DEF ShapeInv
      <4>2. x \in hist[r].users[user].gids /\ hist[r].users[user] # Absent
        BY <3>2, <4>1, <1>5 DEF UserRecord, FromPasswd
      <4> QED
        BY <1>5, <4>2
    <3> QED
      BY <1>2, <2>2, <3>1, <3>2
  <2>3. lost' \/ \E t \in 0 .. now :
           /\ hist[t].users[user] # Absent
           /\ gids = hist[t].users[user].gids \cup {cache'[user].gid}
    BY <1>2, <1>3, <1>6 DEF Db
  <2> QED
    BY <1>1, <1>3, <1>7, <2>1, <2>2, <2>3 DEF UserEntry
<1>8. ASSUME NEW u \in Users, u # user PROVE UserEntry(u)'
  BY <1>1, <1>2, <1>4, <1>8, UserEntryKept DEF CacheInv
<1>9. \A g \in GroupNames : GroupEntry(g)'
  BY <1>1, GroupEntryKept DEF CacheInv
<1>10. HalfEntry'
  BY <1>1 DEF HalfEntry
<1> QED
  BY <1>7, <1>8, <1>9, <1>10 DEF CacheInv

LEMMA CacheUserAnswer == ShapeInv /\ CacheInv /\ UserAnswer => CacheInv'
<1> SUFFICES ASSUME ShapeInv, CacheInv, UserAnswer PROVE CacheInv'
  OBVIOUS
<1>0. user \in Users /\ cache \in [Users -> CacheEntries]
  BY DEF ShapeInv, TypesTime, TypesCache
<1>1. UNCHANGED <<now, hist, gcache, filling, lost, user>> /\ ~filling
  BY DEF UserAnswer
<1>2. cache' = [cache EXCEPT ![user] = UserEntryUsed]
  BY UserAnswerStep
<1>3. ASSUME NEW u \in Users PROVE UserEntry(u)'
  <2>1. CASE cache'[u] = cache[u]
    BY <1>1, <2>1, UserEntryKept DEF CacheInv
  <2>2. CASE cache'[u] = Empty
    BY <2>2 DEF UserEntry, Empty
  <2> QED
    BY <1>0, <1>2, <2>1, <2>2 DEF UserEntryUsed
<1>4. \A g \in GroupNames : GroupEntry(g)'
  BY <1>1, GroupEntryKept DEF CacheInv
<1>5. HalfEntry'
  BY <1>1 DEF HalfEntry
<1> QED
  BY <1>3, <1>4, <1>5 DEF CacheInv

LEMMA CacheGroupAnswer == ShapeInv /\ CacheInv /\ GroupAnswer => CacheInv'
<1> SUFFICES ASSUME ShapeInv, CacheInv, GroupAnswer PROVE CacheInv'
  OBVIOUS
<1>0. gcache \in [GroupNames -> GroupEntries]
  BY DEF ShapeInv, TypesCache
<1>1. UNCHANGED <<now, hist, cache, filling, waited, lost, user>> /\ call.pc = "group"
  BY DEF GroupAnswer
<1>2. PICK g : g = GroupAt(call) /\ gcache' = [gcache EXCEPT ![g] = GroupEntryUsed(g)]
  BY GroupAnswerStep
<1>3. g \in GroupNames
  BY <1>1, <1>2, GroupAsked
<1>4. ASSUME NEW h \in GroupNames PROVE GroupEntry(h)'
  <2>1. CASE gcache'[h] = gcache[h]
    BY <1>1, <2>1, GroupEntryKept DEF CacheInv
  <2>2. CASE gcache'[h] = [gid |-> Db.groups[h], ts |-> IF Db.groups[h] = NoId THEN NoTime ELSE now]
    BY <1>1, <2>2 DEF GroupEntry, Db
  <2> QED
    BY <1>0, <1>2, <1>3, <2>1, <2>2 DEF GroupEntryUsed
<1>5. \A u \in Users : UserEntry(u)'
  BY <1>1, UserEntryKept DEF CacheInv
<1>6. HalfEntry'
  BY <1>1 DEF CacheInv, HalfEntry, FromPasswd
<1> QED
  BY <1>4, <1>5, <1>6 DEF CacheInv

LEMMA CacheStep == ShapeInv /\ CacheInv /\ [Next]_vars => CacheInv'
<1> SUFFICES ASSUME ShapeInv, CacheInv, [Next]_vars PROVE CacheInv'
  OBVIOUS
<1>1. CASE UNCHANGED vars
  BY <1>1, CacheSame DEF vars
<1>2. CASE \E u \in Users, a \in Asked : BecomeUser(u, a)
  <2>1. call.pc = "idle" /\ UNCHANGED <<now, hist>> /\ UNCHANGED cacheVars
    BY <1>2 DEF BecomeUser
  <2>2. filling = FALSE
    BY <2>1 DEF ShapeInv, Filling, Asks, TypesCache
  <2> QED
    BY <2>1, <2>2, CacheSame DEF cacheVars
<1>3. CASE GroupsRaise
  BY <1>3, CacheSame DEF GroupsRaise
<1>4. CASE SetIds
  BY <1>4, CacheSame DEF SetIds, cacheVars
<1>5. CASE Finish
  BY <1>5, CacheSame DEF Finish, cacheVars
<1> QED
  BY <1>1, <1>2, <1>3, <1>4, <1>5, CacheTick, CacheUpdate, CacheResolved, CacheUserAnswer,
     CacheGroupAnswer DEF Next

LEMMA CacheAlways == Spec => []CacheInv
  BY CacheInit, CacheStep, ShapeAlways, PTL DEF Spec

\* Theorem: an entry with a timestamp is whole, whatever fails or changes while
\* update_user_info fills it.
THEOREM EntriesAreWhole == Spec => []EntriesWhole
<1>1. ShapeInv /\ CacheInv => EntriesWhole
  <2> SUFFICES ASSUME ShapeInv, CacheInv, NEW u \in Users, cache[u].ts # NoTime
               PROVE  /\ cache[u].gids # NoGids
                      /\ \E t \in 0 .. now : \A f \in {"uid", "gid", "home"} :
                            cache[u][f] = hist[t].users[u][f] /\ cache[u][f] # NoId
    BY DEF EntriesWhole
  <2>1. TypesTime /\ cache[u].ts \in Nat /\ cache[u].ts <= now /\ now \in Nat
    BY DEF ShapeInv, TypesTime, TypesCache, CacheEntries
  <2>2. \A t \in 0 .. cache[u].ts : t \in 0 .. now
    BY <2>1
  <2>3. \A t \in 0 .. now : UserRecord(hist[t].users[u])
    BY <2>1, HistoryTypes
  <2>4. NoId \notin cache[u].gids
    <3> SUFFICES ASSUME NoId \in cache[u].gids PROVE FALSE
      OBVIOUS
    <3>1. PICK t \in 0 .. cache[u].ts : /\ hist[t].users[u] # Absent
                                        /\ NoId \in hist[t].users[u].gids
      BY DEF CacheInv, UserEntry
    <3> QED
      BY <2>2, <2>3, <3>1 DEF UserRecord, NoId
  <2>5. PICK t \in 0 .. cache[u].ts : FromPasswd(cache[u], hist[t].users[u])
    BY DEF CacheInv, UserEntry
  <2>6. \A f \in {"uid", "gid", "home"} :
           cache[u][f] = hist[t].users[u][f] /\ cache[u][f] # NoId
    BY <2>2, <2>3, <2>5 DEF UserRecord, FromPasswd, NoId
  <2> QED
    BY <2>2, <2>4, <2>6 DEF NoGids
<1> QED
  BY <1>1, ShapeAlways, CacheAlways, PTL

-----------------------------------------------------------------------------
(* The answers of the cache. *)

\* the answers about the user are as old as the entry and its filling, and that
\* the user does not exist is said only when it is so
FreshUser ==
    /\ \A f \in {"uid", "gid", "home"} : \E t \in Window(now) :
          UserEntryUsed[f] = hist[t].users[user][f]
    /\ \A f \in {"uid", "gid", "home"} :
          UserEntryUsed[f] = NoId => hist[now].users[user] = Absent
    /\ \A x \in Item(UserEntryUsed, "gids") : \E t \in Window(now) :
          hist[t].users[user] # Absent /\ x \in hist[t].users[user].gids
    /\ UserEntryUsed.gid # NoId =>
          \E t \in Window(now) : UserEntryUsed.gid \in hist[t].users[user].gids

\* the time of an unexpired entry, and MaxDelay before, is in the window
LEMMA InWindow ==
    ASSUME now \in Nat, NEW ts \in Nat, ts <= now, ~Expired(ts),
           NEW t \in 0 .. ts, ts - t <= MaxDelay
    PROVE  t \in Window(now) /\ t \in 0 .. now
<1>1. CacheTtl \in Nat /\ MaxDelay \in Nat
  BY OtherAssumption
<1>2. ~(ts + CacheTtl < now)
  BY DEF Expired
<1>3. t \in 0 .. now /\ now - t <= CacheTtl + MaxDelay
  BY <1>1, <1>2
<1> QED
  BY <1>3 DEF Window

LEMMA NowInWindow ==
    ASSUME now \in Nat
    PROVE  now \in Window(now)
  BY OtherAssumption DEF Window

LEMMA UserValueFresh ==
    ASSUME ShapeInv, CacheInv, Expired(cache[user].ts) => Db.users[user] = Absent
    PROVE  FreshUser
<1>0. /\ TypesTime /\ user \in Users /\ now \in Nat /\ now \in 0 .. now
      /\ cache[user] \in CacheEntries /\ cache[user].ts <= now
  BY HistoryTypes DEF ShapeInv, TypesTime, TypesCache
<1>1. CASE Expired(cache[user].ts)
  <2>1. UserEntryUsed = Empty /\ hist[now].users[user] = Absent
    BY <1>1 DEF UserEntryUsed, Db
  <2>2. now \in Window(now)
    BY <1>0, NowInWindow
  <2>3. \A f \in {"uid", "gid", "home"} : Empty[f] = Absent[f]
    BY DEF Empty, Absent
  <2>4. Item(Empty, "gids") = {} /\ Empty.gid = NoId
    BY DEF Empty, Item
  <2> QED
    BY <2>1, <2>2, <2>3, <2>4 DEF FreshUser
<1>2. CASE ~Expired(cache[user].ts)
  <2> DEFINE ts == cache[user].ts
  <2>1. UserEntryUsed = cache[user] /\ ts # NoTime /\ ts \in Nat /\ ts <= now
    BY <1>0, <1>2 DEF UserEntryUsed, Expired, CacheEntries
  <2>2. \A t \in 0 .. ts : ts - t <= MaxDelay => t \in Window(now) /\ t \in 0 .. now
    BY <1>0, <1>2, <2>1, InWindow
  <2>3. PICK r \in 0 .. ts : ts - r <= MaxDelay /\ FromPasswd(cache[user], hist[r].users[user])
    BY <1>0, <2>1 DEF CacheInv, UserEntry
  <2>4. r \in Window(now) /\ UserRecord(hist[r].users[user])
    BY <1>0, <2>2, <2>3, HistoryTypes
  <2>5. /\ \A f \in {"uid", "gid", "home"} :
              cache[user][f] = hist[r].users[user][f] /\ cache[user][f] # NoId
        /\ cache[user].gid \in hist[r].users[user].gids
    BY <2>3, <2>4 DEF FromPasswd, UserRecord, NoId
  <2>6. \A x \in cache[user].gids : \E t \in Window(now) :
           hist[t].users[user] # Absent /\ x \in hist[t].users[user].gids
    <3>1. \A x \in cache[user].gids : \E t \in 0 .. ts :
              /\ ts - t <= MaxDelay
              /\ hist[t].users[user] # Absent /\ x \in hist[t].users[user].gids
      BY <1>0, <2>1 DEF CacheInv, UserEntry
    <3> QED
      BY <2>2, <3>1
  <2>7. Item(cache[user], "gids") \subseteq cache[user].gids
    BY DEF Item
  <2> HIDE DEF ts
  <2> QED
    BY <2>1, <2>4, <2>5, <2>6, <2>7 DEF FreshUser
<1> QED
  BY <1>1, <1>2

\* the same for groups
LEMMA GroupValueFresh ==
    ASSUME ShapeInv, CacheInv, NEW g \in GroupNames
    PROVE  /\ \E t \in Window(now) : GroupEntryUsed(g).gid = hist[t].groups[g]
           /\ GroupEntryUsed(g).gid = NoId => hist[now].groups[g] = NoId
<1>0. now \in Nat /\ gcache[g] \in GroupEntries /\ gcache[g].ts <= now
  BY DEF ShapeInv, TypesTime, TypesCache
<1>1. CASE Expired(gcache[g].ts)
  BY <1>0, <1>1, NowInWindow DEF GroupEntryUsed, Db
<1>2. CASE ~Expired(gcache[g].ts)
  <2>1. gcache[g].ts # NoTime /\ gcache[g].ts \in Nat
    BY <1>0, <1>2 DEF Expired, GroupEntries
  <2>2. gcache[g].ts \in 0 .. gcache[g].ts /\ gcache[g].ts - gcache[g].ts <= MaxDelay
    BY <2>1, OtherAssumption
  <2>3. gcache[g].ts \in Window(now)
    BY <1>0, <1>2, <2>1, <2>2, InWindow
  <2>4. gcache[g].gid # NoId /\ gcache[g].gid = hist[gcache[g].ts].groups[g]
    BY <2>1 DEF CacheInv, GroupEntry
  <2> QED
    BY <1>2, <2>3, <2>4 DEF GroupEntryUsed
<1> QED
  BY <1>1, <1>2

LEMMA LastNone ==
    ASSUME last' = NoAnswer
    PROVE  LastInv'
  BY DEF NoAnswer, LastInv, Fresh, UnknownIsCurrent

\* a step that does not ask the cache
LEMMA LastKept ==
    ASSUME ShapeInv, LastInv, last' = last, user' = user, now' \in Nat, now <= now',
           \A t \in 0 .. now : hist'[t] = hist[t]
    PROVE  LastInv'
<1>1. CASE last.of = "none"
  BY <1>1 DEF LastInv, Fresh, UnknownIsCurrent
<1>2. CASE last.of # "none"
  <2>1. last.at \in 0 .. now /\ now \in Nat
    BY <1>2 DEF LastInv, ShapeInv, TypesTime
  <2>2. last.at \in 0 .. now' /\ hist'[last.at] = hist[last.at]
    BY <2>1
  <2>3. \A t \in Window(last.at) : hist'[t] = hist[t]
    BY <2>1 DEF Window
  <2>4. Fresh'
    <3>1. Window(last.at)' = Window(last.at)
      BY DEF Window
    <3> QED
      BY <2>3, <3>1 DEF LastInv, Fresh
  <2> QED
    BY <2>2, <2>4 DEF LastInv, UnknownIsCurrent
<1> QED
  BY <1>1, <1>2

LEMMA LastUserAnswer == ShapeInv /\ CacheInv /\ UserAnswer => LastInv'
<1> SUFFICES ASSUME ShapeInv, CacheInv, UserAnswer PROVE LastInv'
  OBVIOUS
<1>1. /\ call.pc \in DOMAIN Asks /\ UNCHANGED <<now, hist, user>> /\ now \in 0 .. now
      /\ Expired(cache[user].ts) => Db.users[user] = Absent
  BY HistoryTypes DEF UserAnswer, ShapeInv
<1>2. PICK value :
        /\ value = Item(UserEntryUsed, Asks[call.pc])
        /\ last' = [of |-> "user", item |-> Asks[call.pc], value |-> value, at |-> now]
  BY UserAnswerStep
<1>3. FreshUser
  BY <1>1, UserValueFresh
<1> DEFINE item == Asks[call.pc]
<1>4. item \in {"uid", "gid", "home", "gids"}
  BY <1>1 DEF Asks
<1>5. last'.of = "user" /\ last'.item = item /\ last'.value = value /\ last'.at = now
  BY <1>2
<1>6. value = Item(UserEntryUsed, item)
  BY <1>2
<1> HIDE DEF item
<1>7. Window(now)' = Window(now)
  BY <1>1 DEF Window
<1>8. CASE item = "gids"
  <2>1. Fresh'
    BY <1>1, <1>3, <1>5, <1>6, <1>8 DEF Fresh, FreshUser, Window
  <2> QED
    BY <1>1, <1>5, <1>8, <2>1 DEF LastInv, UnknownIsCurrent
<1>9. CASE item # "gids"
  <2>1. value = UserEntryUsed[item]
    BY <1>6, <1>9 DEF Item
  <2>2. Fresh'
    BY <1>1, <1>3, <1>4, <1>5, <1>9, <2>1 DEF Fresh, FreshUser, Window
  <2>3. value = NoId => hist[now].users[user] = Absent
    BY <1>3, <1>4, <1>9, <2>1 DEF FreshUser
  <2> QED
    BY <1>1, <1>5, <2>2, <2>3 DEF LastInv, UnknownIsCurrent
<1> QED
  BY <1>8, <1>9

LEMMA LastGroupAnswer == ShapeInv /\ CacheInv /\ GroupAnswer => LastInv'
<1> SUFFICES ASSUME ShapeInv, CacheInv, GroupAnswer PROVE LastInv'
  OBVIOUS
<1>1. call.pc = "group" /\ UNCHANGED <<now, hist, user>> /\ now \in 0 .. now
  BY HistoryTypes DEF GroupAnswer, ShapeInv
<1>2. PICK g :
        /\ g = GroupAt(call)
        /\ last' = [of |-> "group", item |-> g, value |-> GroupEntryUsed(g).gid, at |-> now]
  BY GroupAnswerStep
<1>3. g \in GroupNames
  BY <1>1, <1>2, GroupAsked
<1> DEFINE value == GroupEntryUsed(g).gid
<1>4. /\ \E t \in Window(now) : value = hist[t].groups[g]
      /\ value = NoId => hist[now].groups[g] = NoId
  BY <1>3, GroupValueFresh
<1>5. last'.of = "group" /\ last'.item = g /\ last'.value = value /\ last'.at = now
  BY <1>2
<1> HIDE DEF value
<1>6. Fresh'
  BY <1>1, <1>4, <1>5 DEF Fresh, Window
<1> QED
  BY <1>1, <1>4, <1>5, <1>6 DEF LastInv, UnknownIsCurrent

LEMMA LastStep == ShapeInv /\ CacheInv /\ LastInv /\ [Next]_vars => LastInv'
<1> SUFFICES ASSUME ShapeInv, CacheInv, LastInv, [Next]_vars PROVE LastInv'
  OBVIOUS
<1>0. now \in Nat
  BY DEF ShapeInv, TypesTime
<1>1. CASE UNCHANGED vars
  BY <1>0, <1>1, LastKept DEF vars
<1>2. CASE Tick
  <2>1. now' \in Nat /\ now <= now' /\ \A t \in 0 .. now : hist'[t] = hist[t]
    BY <1>0, <1>2, TickStep DEF ShapeInv
  <2>2. last' = last /\ user' = user
    BY <1>2 DEF Tick, callVars
  <2> QED
    BY <2>1, <2>2, LastKept
<1>3. CASE \E u \in Users, a \in Asked : BecomeUser(u, a)
  BY <1>3, LastNone DEF BecomeUser
<1>4. CASE UpdateUserInfo
  BY <1>0, <1>4, LastKept DEF UpdateUserInfo, callVars
<1>5. CASE GroupsResolved
  BY <1>0, <1>5, LastKept DEF GroupsResolved, callVars
<1>6. CASE GroupsRaise
  BY <1>6, LastNone DEF GroupsRaise, Over
<1>7. CASE SetIds
  BY <1>0, <1>7, LastKept DEF SetIds
<1>8. CASE Finish
  BY <1>8, LastNone DEF Finish, Over
<1> QED
  BY <1>1, <1>2, <1>3, <1>4, <1>5, <1>6, <1>7, <1>8, LastUserAnswer, LastGroupAnswer DEF Next

LEMMA LastAlways == Spec => []LastInv
<1>1. Init => LastInv
  BY DEF Init, NoAnswer, LastInv, Fresh, UnknownIsCurrent
<1> QED
  BY <1>1, LastStep, ShapeAlways, CacheAlways, PTL DEF Spec

\* Theorem: no answer of the cache is older than the time to live of an entry and
\* the time that `id -G` takes.
THEOREM AnswersFresh == Spec => []FreshAnswers
<1>1. LastInv => FreshAnswers
  BY DEF LastInv, Fresh, FreshAnswers
<1> QED
  BY <1>1, LastAlways, PTL

\* Theorem: that a user or a group does not exist is never said from the cache.
THEOREM UnknownCurrent == Spec => []UnknownIsCurrent
<1>1. LastInv => UnknownIsCurrent
  BY DEF LastInv
<1> QED
  BY <1>1, LastAlways, PTL

-----------------------------------------------------------------------------
(* The groups that become_user takes under the strict settings. *)

LEMMA HadInWindow ==
    ASSUME ShapeInv, NEW t \in Window(now), NEW x, x \in hist[t].users[user].gids
    PROVE  Had(x)
<1>1. now \in Nat /\ began \in Nat /\ began <= now /\ CacheTtl \in Nat /\ MaxDelay \in Nat
  BY OtherAssumption DEF ShapeInv, TypesTime
<1>2. t \in 0 .. now /\ now - t <= CacheTtl + MaxDelay
  BY DEF Window
<1>3. began - t <= CacheTtl + MaxDelay
  BY <1>1, <1>2
<1> QED
  BY <1>2, <1>3 DEF Had

LEMMA HeldAdvanced ==
    ASSUME NEW d, NEW gid, NEW gids, NEW j, Advanced(d, gid, gids, j),
           \A x \in gids \cup {gid} : x = NoId \/ Had(x), NoId \in gids => gid = NoId
    PROVE  Held(d)
  BY DEF Advanced, Held

LEMMA HeldTaken ==
    ASSUME NEW c, NEW v, NEW d, Held(c), Taken(c, v, d), v = NoId \/ Had(v),
           c.k = 0 \/ v # NoId
    PROVE  Held(d)
<1>1. CASE c.k = 0
  <2>1. Advanced(d, v, {v}, c.k + 1)
    BY <1>1 DEF Taken
  <2> QED
    BY <2>1, HeldAdvanced
<1>2. CASE c.k # 0
  <2>1. Advanced(d, c.gid, c.gids \cup {v}, c.k + 1)
    BY <1>2 DEF Taken
  <2>2. \A x \in (c.gids \cup {v}) \cup {c.gid} : x = NoId \/ Had(x)
    BY DEF Held
  <2>3. NoId \in c.gids \cup {v} => c.gid = NoId
    BY <1>2 DEF Held
  <2> QED
    BY <2>1, <2>2, <2>3, HeldAdvanced
<1> QED
  BY <1>1, <1>2

LEMMA HeldMoved ==
    ASSUME NEW c, NEW d, NEW p, NEW t, Held(c), Moved(c, d, p, t),
           p \in {"home", "done"} => c.gid # NoId,
           p \in {"check_gid", "check_gids"} => t # NoId
    PROVE  Held(d)
  BY DEF Held, Moved

\* an answer that the user had within the window
HadAnswer(c, v) ==
    /\ c.pc \in {"none_gids", "check_gids", "default_gids"} => \A x \in v : x # NoId /\ Had(x)
    /\ c.pc \in {"none_gid", "default_gid", "check_gid"} => v = NoId \/ Had(v)

LEMMA HeldUser ==
    ASSUME conf.enforce, conf.failInvalid, NEW c, Shape(c, asked), Held(c), NEW v, NEW d,
           UserOutcome(c, v, d), HadAnswer(c, v), c.pc \in DOMAIN Asks
    PROVE  Held(d)
<1>1. CASE c.pc = "uid"
  BY <1>1, HeldMoved DEF UserOutcome, UidOutcome
<1>2. CASE c.pc \in {"none_gid", "none_gids"}
  <2>1. NoneOutcome(c, v, d)
    BY <1>2 DEF UserOutcome
  <2>2. CASE c.pc = "none_gid"
    <3>1. d.pc = "none_gids" /\ d.gid = v /\ d.gids = c.gids /\ (v = NoId \/ Had(v))
      BY <2>1, <2>2 DEF NoneOutcome, HadAnswer
    <3>2. c.gids = {}
      BY <2>2 DEF Shape
    <3> QED
      BY <3>1, <3>2 DEF Held
  <2>3. CASE c.pc = "none_gids"
    <3>1. d.pc = "set" /\ d.gid = c.gid /\ d.gids = v /\ \A x \in v : x # NoId /\ Had(x)
      BY <2>1, <2>3 DEF NoneOutcome, HadAnswer
    <3> QED
      BY <3>1 DEF Held
  <2> QED
    BY <1>2, <2>2, <2>3
<1>3. CASE c.pc = "default_gid"
  <2>1. Taken(c, v, d) /\ c.k = 0 /\ (v = NoId \/ Had(v))
    BY <1>3 DEF UserOutcome, HadAnswer, Shape
  <2> QED
    BY <2>1, HeldTaken
<1>4. CASE c.pc = "unknown_gid"
  BY <1>4 DEF Shape
<1>5. CASE c.pc = "check_gid"
  <2>1. CheckGidOutcome(c, v, d) /\ c.tmp # NoId /\ (v = NoId \/ Had(v))
    BY <1>5 DEF UserOutcome, HadAnswer, Held
  <2> QED
    BY <2>1, HeldTaken, HeldMoved DEF CheckGidOutcome
<1>6. CASE c.pc = "check_gids"
  <2>1. CheckGidsOutcome(c, v, d) /\ \A x \in v : x # NoId /\ Had(x)
    BY <1>6 DEF UserOutcome, HadAnswer
  <2> QED
    BY <2>1, HeldTaken, HeldMoved DEF CheckGidsOutcome
<1>7. CASE c.pc = "default_gids"
  <2>1. Advanced(d, c.gid, c.gids \cup v, c.k + 1) /\ \A x \in v : x # NoId /\ Had(x)
    BY <1>7 DEF UserOutcome, HadAnswer
  <2>2. \A x \in (c.gids \cup v) \cup {c.gid} : x = NoId \/ Had(x)
    BY <2>1 DEF Held
  <2>3. NoId \in c.gids \cup v => c.gid = NoId
    BY <2>1 DEF Held
  <2> QED
    BY <2>1, <2>2, <2>3, HeldAdvanced
<1>8. CASE c.pc = "home"
  <2>1. HomeOutcome(c, v, d) /\ c.gid # NoId
    BY <1>8 DEF UserOutcome, Held
  <2> QED
    BY <2>1, HeldMoved DEF HomeOutcome
<1> QED
  BY <1>1, <1>2, <1>3, <1>4, <1>5, <1>6, <1>7, <1>8 DEF Asks

LEMMA HeldGroup ==
    ASSUME conf.enforce, conf.failInvalid, NEW c, Held(c), NEW v, NEW d, GroupOutcome(c, v, d)
    PROVE  Held(d)
  BY HeldMoved DEF GroupOutcome

\* what the cache answers is such an answer
LEMMA AnswerHad ==
    ASSUME ShapeInv, CacheInv, UserAnswer
    PROVE  HadAnswer(call, Item(UserEntryUsed, Asks[call.pc]))
<1>1. TypesTime /\ FreshUser
  BY UserValueFresh DEF UserAnswer, ShapeInv
<1>2. CASE call.pc \in {"none_gids", "check_gids", "default_gids"}
  <2>1. Asks[call.pc] = "gids"
    BY <1>2 DEF Asks
  <2>2. ASSUME NEW x \in Item(UserEntryUsed, "gids") PROVE x # NoId /\ Had(x)
    <3>1. PICK t \in Window(now) :
             hist[t].users[user] # Absent /\ x \in hist[t].users[user].gids
      BY <1>1 DEF FreshUser
    <3>2. UserRecord(hist[t].users[user])
      BY <1>1, HistoryTypes DEF Window, TypesTime
    <3>3. x # NoId
      BY <3>1, <3>2 DEF UserRecord, NoId
    <3> QED
      BY <3>1, <3>3, HadInWindow
  <2> QED
    BY <1>2, <2>1, <2>2 DEF HadAnswer
<1>3. CASE call.pc \in {"none_gid", "default_gid", "check_gid"}
  <2>1. Asks[call.pc] = "gid" /\ Item(UserEntryUsed, "gid") = UserEntryUsed.gid
    BY <1>3 DEF Asks, Item
  <2>2. UserEntryUsed.gid # NoId => Had(UserEntryUsed.gid)
    BY <1>1, HadInWindow DEF FreshUser
  <2> QED
    BY <1>3, <2>1, <2>2 DEF HadAnswer
<1> QED
  BY <1>2, <1>3 DEF HadAnswer

\* a step that leaves the call alone
LEMMA HeldKept ==
    ASSUME ShapeInv, HeldInv, UNCHANGED <<conf, call, user, began>>, now' \in Nat, now <= now',
           \A t \in 0 .. now : hist'[t] = hist[t]
    PROVE  HeldInv'
<1>1. now \in Nat
  BY DEF ShapeInv, TypesTime
<1>2. \A t \in 0 .. now : t \in 0 .. now'
  BY <1>1
<1>3. ASSUME NEW x, Had(x) PROVE Had(x)'
  BY <1>2, <1>3 DEF Had
<1> QED
  BY <1>3 DEF HeldInv, Held

LEMMA HeldIdle ==
    ASSUME call'.pc \in {"idle", "uid"}, call'.gids = {}, call'.gid = NoId
    PROVE  HeldInv'
  BY DEF HeldInv, Held

LEMMA HeldStep == ShapeInv /\ CacheInv /\ HeldInv /\ [Next]_vars => HeldInv'
<1> SUFFICES ASSUME ShapeInv, CacheInv, HeldInv, [Next]_vars PROVE HeldInv'
  OBVIOUS
<1>0. now \in Nat /\ AskedGroups(asked) /\ Shape(call, asked) /\ TypesTime /\ TypesCache
  BY AskedKnown DEF ShapeInv, TypesTime
<1>1. CASE UNCHANGED vars
  BY <1>0, <1>1, HeldKept DEF vars
<1>2. CASE Tick
  <2>1. now' \in Nat /\ now <= now' /\ \A t \in 0 .. now : hist'[t] = hist[t]
    BY <1>0, <1>2, TickStep
  <2>2. UNCHANGED <<conf, call, user, began>>
    BY <1>2 DEF Tick, callVars
  <2> QED
    BY <2>1, <2>2, HeldKept
<1>3. CASE \E u \in Users, a \in Asked : BecomeUser(u, a)
  BY <1>3, HeldIdle DEF BecomeUser, Idle
<1>4. CASE UpdateUserInfo
  BY <1>0, <1>4, HeldKept DEF UpdateUserInfo, callVars
<1>5. CASE GroupsResolved
  BY <1>0, <1>5, HeldKept DEF GroupsResolved, callVars
<1>6. CASE GroupsRaise
  BY <1>6, HeldIdle DEF GroupsRaise, Over, Idle
<1>7. CASE Finish
  BY <1>7, HeldIdle DEF Finish, Over, Idle
<1>8. CASE UserAnswer
  <2> SUFFICES ASSUME conf.enforce, conf.failInvalid PROVE HeldInv'
    BY <1>8 DEF HeldInv, UserAnswer
  <2>1. call.pc \in DOMAIN Asks /\ UNCHANGED <<now, hist, conf, user, began>>
    BY <1>8 DEF UserAnswer
  <2>2. PICK value : value = Item(UserEntryUsed, Asks[call.pc]) /\ call' = Continue(call, value)
    BY <1>8, UserAnswerStep
  <2>3. AnswerType(call, value)
    BY <1>0, <2>1, <2>2, UsedTypes, AnswerTyped
  <2>4. UserOutcome(call, value, call')
    BY <1>0, <2>1, <2>2, <2>3, ContinueOutcome
  <2>5. HadAnswer(call, value)
    BY <1>8, <2>2, AnswerHad
  <2>6. Held(call)
    BY DEF HeldInv
  <2>7. Held(call')
    BY <1>0, <2>1, <2>4, <2>5, <2>6, HeldUser
  <2> QED
    BY <2>1, <2>7 DEF HeldInv, Held, Had
<1>9. CASE GroupAnswer
  <2> SUFFICES ASSUME conf.enforce, conf.failInvalid PROVE HeldInv'
    BY <1>9 DEF HeldInv, GroupAnswer
  <2>1. call.pc = "group" /\ UNCHANGED <<now, hist, conf, user, began>>
    BY <1>9 DEF GroupAnswer
  <2>2. PICK g : g = GroupAt(call) /\ call' = GotGroup(call, GroupEntryUsed(g).gid)
    BY <1>9, GroupAnswerStep
  <2>3. GroupEntryUsed(g).gid \in Id
    BY <1>0, <2>1, <2>2, GroupAsked, UsedTypes DEF GroupEntries
  <2>4. call \in Calls /\ call.k <= Len(asked)
    BY <1>0, <2>1 DEF Shape
  <2>5. GroupOutcome(call, GroupEntryUsed(g).gid, call')
    BY <1>0, <2>2, <2>3, <2>4, GotGroupOutcome
  <2>6. Held(call)
    BY DEF HeldInv
  <2>7. Held(call')
    BY <2>5, <2>6, HeldGroup
  <2> QED
    BY <2>1, <2>7 DEF HeldInv, Held, Had
<1>10. CASE SetIds
  <2> SUFFICES ASSUME conf.enforce, conf.failInvalid PROVE HeldInv'
    BY <1>10 DEF HeldInv, SetIds
  <2>1. UNCHANGED <<now, hist, conf, user, began>>
    BY <1>10 DEF SetIds
  <2> DEFINE p == IF call.gid = NoId THEN "refused" ELSE "home"
  <2>2. call' = [call EXCEPT !.pc = p] /\ call \in Calls /\ p \in Places
    BY <1>0, <1>10 DEF SetIds, Shape, Places
  <2>3. p \in {"home", "done"} => call.gid # NoId
    OBVIOUS
  <2>4. p \notin {"check_gid", "check_gids"}
    OBVIOUS
  <2> HIDE DEF p
  <2>5. Moved(call, call', p, call.tmp)
    BY <2>2, Movement
  <2>6. Held(call')
    BY <2>3, <2>4, <2>5, HeldMoved DEF HeldInv
  <2> QED
    BY <2>1, <2>6 DEF HeldInv, Held, Had
<1> QED
  BY <1>1, <1>2, <1>3, <1>4, <1>5, <1>6, <1>7, <1>8, <1>9, <1>10 DEF Next

LEMMA HeldAlways == Spec => []HeldInv
<1>1. Init => HeldInv
  BY DEF Init, Idle, HeldInv, Held
<1> QED
  BY <1>1, HeldStep, ShapeAlways, CacheAlways, PTL DEF Spec

\* Theorem: under the strict settings the identity become_user ends with has only
\* groups that the user had within the lifetime of the cached data, although the
\* entry may be replaced between any two of its lookups.
THEOREM GroupsInWindow == Spec => []GroupsWithinWindow
<1>1. HeldInv => GroupsWithinWindow
  BY DEF HeldInv, Held, Had, GroupsWithinWindow
<1> QED
  BY <1>1, HeldAlways, PTL

-----------------------------------------------------------------------------
(* The mapping of groups, with a database that does not change. *)

LEMMA NoneGathered == OwnGroups(0) = {} /\ NamedGroups(0) = {}
<1>1. 1 .. 0 = {}
  OBVIOUS
<1> QED
  BY <1>1 DEF OwnGroups, NamedGroups

\* another DEFAULT_GID, or a named group, is added
LEMMA DefaultGathered ==
    ASSUME NEW n \in Nat, n # 0, asked[n] = DefaultGid
    PROVE  OwnGroups(n) = TheUser.gids /\ NamedGroups(n) = NamedGroups(n - 1)
<1>1. n \in 1 .. n /\ 1 .. n = (1 .. n - 1) \cup {n}
  OBVIOUS
<1>2. {h \in 1 .. n : asked[h] # DefaultGid} = {h \in 1 .. n - 1 : asked[h] # DefaultGid}
  BY <1>1
<1> QED
  BY <1>1, <1>2 DEF OwnGroups, NamedGroups

LEMMA NamedGathered ==
    ASSUME NEW n \in Nat, n # 0, asked[n] # DefaultGid
    PROVE  /\ OwnGroups(n) = OwnGroups(n - 1)
           /\ NamedGroups(n) = NamedGroups(n - 1) \cup ({GroupOf(asked[n])} \ {NoId})
<1>1. 1 .. n = (1 .. n - 1) \cup {n}
  OBVIOUS
<1>2. {h \in 1 .. n : asked[h] # DefaultGid}
         = {h \in 1 .. n - 1 : asked[h] # DefaultGid} \cup {n}
  BY <1>1
<1>3. OwnGroups(n) = OwnGroups(n - 1)
  BY <1>1 DEF OwnGroups
<1> DEFINE S == {h \in 1 .. n - 1 : asked[h] # DefaultGid}
<1>4. {GroupOf(asked[i]) : i \in S \cup {n}} = {GroupOf(asked[i]) : i \in S} \cup {GroupOf(asked[n])}
  OBVIOUS
<1> QED
  BY <1>2, <1>3, <1>4 DEF NamedGroups

\* what Supplementary passes over adds nothing: the first group that it passes
\* over repeats an earlier DEFAULT_GID
LEMMA RepeatedGathered ==
    ASSUME NEW j \in Nat, 1 <= j, NEW k \in Nat, j <= k, \A h \in j .. k - 1 : Repeated(h)
    PROVE  OwnGroups(k - 1) = OwnGroups(j - 1) /\ NamedGroups(k - 1) = NamedGroups(j - 1)
<1>1. \A h \in 1 .. k - 1 : h \in 1 .. j - 1 \/ h \in j .. k - 1
  OBVIOUS
<1>2. \A h \in 1 .. j - 1 : h \in 1 .. k - 1
  OBVIOUS
<1>3. \A h \in j .. k - 1 : asked[h] = DefaultGid
  BY DEF Repeated
<1>4. ASSUME NEW h \in j .. k - 1 PROVE \E i \in 1 .. j - 1 : asked[i] = DefaultGid
  <2>1. j \in j .. k - 1
    OBVIOUS
  <2> QED
    BY <2>1 DEF Repeated
<1>5. {h \in 1 .. k - 1 : asked[h] # DefaultGid} = {h \in 1 .. j - 1 : asked[h] # DefaultGid}
  BY <1>1, <1>2, <1>3
<1>6. (\E i \in 1 .. k - 1 : asked[i] = DefaultGid) <=> (\E i \in 1 .. j - 1 : asked[i] = DefaultGid)
  BY <1>1, <1>2, <1>4
<1> QED
  BY <1>5, <1>6 DEF OwnGroups, NamedGroups

LEMMA GatheredAdvanced ==
    ASSUME AskedGroups(asked), NEW j \in Nat, 1 <= j, NEW d, NEW gid, NEW gids,
           Advanced(d, gid, gids, j), Gathered(gid, gids, j - 1)
    PROVE  Gathered(d.gid, d.gids, d.k - 1)
<1>1. /\ d.k \in Nat /\ j <= d.k /\ d.gid = gid /\ d.gids = gids
      /\ \A h \in j .. d.k - 1 : Repeated(h)
  BY DEF Advanced, Calls
<1>2. OwnGroups(d.k - 1) = OwnGroups(j - 1) /\ NamedGroups(d.k - 1) = NamedGroups(j - 1)
  BY <1>1, RepeatedGathered
<1>3. \A h \in 1 .. d.k - 1 : h \in 1 .. j - 1 \/ h \in j .. d.k - 1
  BY <1>1
<1>4. \A h \in j .. d.k - 1 : asked[h] = DefaultGid
  BY <1>1 DEF Repeated
<1> QED
  BY <1>1, <1>2, <1>3, <1>4 DEF Gathered

\* the user is known and not root
Known == TheUser # Absent /\ TheUser.uid # 0

LEMMA MappedAdvanced ==
    ASSUME AskedGroups(asked), asked[1] # NoGroups, Known, NEW j \in Nat, 1 <= j,
           NEW d, NEW gid, NEW gids, Advanced(d, gid, gids, j), Gathered(gid, gids, j - 1)
    PROVE  Mapped(d)
<1>1. Gathered(d.gid, d.gids, d.k - 1)
  BY GatheredAdvanced
<1>2. d.k \in Nat /\ 1 <= d.k /\ Len(asked) \in Nat
  BY DEF Advanced, Calls, AskedGroups
<1>3. CASE d.k = Len(asked) + 1 /\ d.pc = "set"
  <2>1. d.k - 1 = Len(asked)
    BY <1>2, <1>3
  <2> QED
    BY <1>1, <1>3, <2>1 DEF Mapped, Known
<1>4. CASE d.pc \in {"default_gids", "group"}
  BY <1>1, <1>4 DEF Mapped, Known
<1> QED
  BY <1>3, <1>4 DEF Advanced

\* the first group is settled
LEMMA MappedPrimary ==
    ASSUME AskedGroups(asked), asked[1] # NoGroups, Known, NEW c, c.k = 0, NEW v, NEW d,
           Taken(c, v, d), v = PrimaryOf(asked[1]), ~BadPrimary(asked[1])
    PROVE  Mapped(d)
<1>1. c.k + 1 = 1 /\ 1 - 1 = 0 /\ 1 .. 0 = {}
  OBVIOUS
<1>2. Advanced(d, v, {v}, 1)
  BY <1>1 DEF Taken
<1>3. Gathered(v, {v}, 0)
  BY <1>1, NoneGathered DEF Gathered
<1> DEFINE j == 1
<1>4. j \in Nat /\ 1 <= j /\ Advanced(d, v, {v}, j) /\ Gathered(v, {v}, j - 1)
  BY <1>1, <1>2, <1>3
<1> HIDE DEF j
<1> QED
  BY <1>4, MappedAdvanced

\* a named group is settled
LEMMA MappedNamed ==
    ASSUME AskedGroups(asked), asked[1] # NoGroups, Known, NEW c \in Calls, c.k # 0,
           asked[c.k] # DefaultGid, Gathered(c.gid, c.gids, c.k - 1),
           conf.failInvalid => ~Bad(asked[c.k]), NEW d, NEW gids,
           Advanced(d, c.gid, gids, c.k + 1),
           gids = c.gids \cup ({GroupOf(asked[c.k])} \ {NoId})
    PROVE  Mapped(d)
<1>1. /\ c.k \in Nat /\ c.k + 1 \in Nat /\ 1 <= c.k + 1 /\ (c.k + 1) - 1 = c.k
      /\ 1 .. c.k = (1 .. c.k - 1) \cup {c.k}
  BY DEF Calls
<1>2. /\ OwnGroups(c.k) = OwnGroups(c.k - 1)
      /\ NamedGroups(c.k) = NamedGroups(c.k - 1) \cup ({GroupOf(asked[c.k])} \ {NoId})
  BY <1>1, NamedGathered
<1>3. Gathered(c.gid, gids, c.k)
  BY <1>1, <1>2 DEF Gathered
<1> QED
  BY <1>1, <1>3, MappedAdvanced

\* the groups asked for are allowed when they are not enforced, or the user has them
LEMMA AllowedGroups ==
    ASSUME NEW g
    PROVE  /\ ~conf.enforce => Allowed(g)
           /\ GroupOf(g) = TheUser.gid \/ GroupOf(g) \in TheUser.gids => Allowed(g)
           /\ conf.enforce /\ GroupOf(g) # TheUser.gid /\ GroupOf(g) \notin TheUser.gids =>
                 ~Allowed(g)
  BY DEF Allowed, CheckMembership

\* the group at which the call is
LEMMA GroupInPlace ==
    ASSUME AskedGroups(asked), NEW c, Shape(c, asked),
           c.pc \in {"group", "check_gid", "check_gids"}
    PROVE  /\ c \in Calls /\ c.k \in Nat /\ c.k <= Len(asked) /\ asked[1] # NoGroups
           /\ c.k # 0 => c.k \in 1 .. Len(asked)
           /\ 1 \in 1 .. Len(asked)
  BY DEF Shape, Calls, AskedGroups

LEMMA MappedRefused ==
    ASSUME NEW d, d.pc = "refused", Fails
    PROVE  Mapped(d)
  BY DEF Mapped

LEMMA MappedGroup ==
    ASSUME AskedGroups(asked), NEW c, Shape(c, asked), Mapped(c), c.pc = "group",
           NEW v, v = GroupOf(GroupAt(c)), NEW d, GroupOutcome(c, v, d)
    PROVE  Mapped(d)
<1>0. /\ c \in Calls /\ c.k \in Nat /\ c.k <= Len(asked) /\ asked[1] # NoGroups
      /\ (c.k # 0 => c.k \in 1 .. Len(asked)) /\ 1 \in 1 .. Len(asked)
  BY GroupInPlace
<1>1. Known
  BY DEF Mapped, Known
<1>2. CASE c.k = 0
  <2>1. v = GroupOf(asked[1]) /\ asked[1] # DefaultGid
    BY <1>2 DEF GroupAt, Shape
  <2>2. CASE v # NoId /\ conf.enforce /\ Moved(c, d, "check_gid", v)
    BY <1>1, <1>2, <2>1, <2>2 DEF Moved, Mapped, Known
  <2>3. CASE v # NoId /\ ~conf.enforce /\ Taken(c, v, d)
    <3>1. ~Bad(asked[1])
      BY <2>1, <2>3, AllowedGroups DEF Bad
    <3>2. v = PrimaryOf(asked[1]) /\ ~BadPrimary(asked[1])
      BY <2>1, <3>1 DEF PrimaryOf, BadPrimary
    <3> QED
      BY <1>0, <1>1, <1>2, <2>3, <3>2, MappedPrimary
  <2>4. CASE v = NoId /\ conf.failInvalid /\ Moved(c, d, "refused", c.tmp)
    <3>1. Fails
      BY <1>0, <2>1, <2>4 DEF Fails, BadPrimary, Bad
    <3> QED
      BY <2>4, <3>1, MappedRefused DEF Moved
  <2>5. CASE v = NoId /\ ~conf.failInvalid /\ Moved(c, d, "unknown_gid", c.tmp)
    BY <1>1, <2>1, <2>5 DEF Moved, Mapped, Known, BadPrimary
  <2> QED
    BY <1>2, <2>2, <2>3, <2>4, <2>5 DEF GroupOutcome
<1>3. CASE c.k # 0
  <2>1. v = GroupOf(asked[c.k]) /\ asked[c.k] # DefaultGid
    BY <1>3 DEF GroupAt, Shape
  <2>2. Gathered(c.gid, c.gids, c.k - 1)
    BY <1>3 DEF Mapped
  <2>3. CASE v # NoId /\ conf.enforce /\ Moved(c, d, "check_gid", v)
    BY <1>1, <1>3, <2>1, <2>2, <2>3 DEF Moved, Mapped, Known
  <2>4. CASE v # NoId /\ ~conf.enforce /\ Taken(c, v, d)
    <3>1. ~Bad(asked[c.k])
      BY <2>1, <2>4, AllowedGroups DEF Bad
    <3>2. Advanced(d, c.gid, c.gids \cup {v}, c.k + 1)
      BY <1>3, <2>4 DEF Taken
    <3>3. c.gids \cup {v} = c.gids \cup ({GroupOf(asked[c.k])} \ {NoId})
      BY <2>1, <2>4
    <3> QED
      BY <1>0, <1>1, <1>3, <2>1, <2>2, <3>1, <3>2, <3>3, MappedNamed
  <2>5. CASE v = NoId /\ conf.failInvalid /\ Moved(c, d, "refused", c.tmp)
    <3>1. Fails
      BY <1>0, <1>3, <2>1, <2>5 DEF Fails, Bad
    <3> QED
      BY <2>5, <3>1, MappedRefused DEF Moved
  <2>6. CASE v = NoId /\ ~conf.failInvalid /\ Advanced(d, c.gid, c.gids, c.k + 1)
    <3>1. c.gids = c.gids \cup ({GroupOf(asked[c.k])} \ {NoId})
      BY <2>1, <2>6
    <3> QED
      BY <1>0, <1>1, <1>3, <2>1, <2>2, <2>6, <3>1, MappedNamed
  <2> QED
    BY <1>3, <2>3, <2>4, <2>5, <2>6 DEF GroupOutcome
<1> QED
  BY <1>2, <1>3

\* a checked group is settled, as the primary one or another
LEMMA MappedTaken ==
    ASSUME AskedGroups(asked), NEW c, Shape(c, asked), Mapped(c),
           c.pc \in {"check_gid", "check_gids"}, NEW d, Taken(c, c.tmp, d),
           c.k = 0 => /\ ~BadPrimary(asked[1]) /\ c.tmp = PrimaryOf(asked[1]),
           c.k # 0 => (conf.failInvalid => ~Bad(asked[c.k]))
    PROVE  Mapped(d)
<1>0. c \in Calls /\ c.k \in Nat /\ asked[1] # NoGroups
  BY GroupInPlace
<1>1. Known
  BY DEF Mapped, Known
<1>2. CASE c.k = 0
  BY <1>0, <1>1, <1>2, MappedPrimary
<1>3. CASE c.k # 0
  <2>1. /\ c.tmp = GroupOf(asked[c.k]) /\ c.tmp # NoId /\ asked[c.k] # DefaultGid
        /\ Gathered(c.gid, c.gids, c.k - 1)
    BY <1>3 DEF Mapped
  <2>2. Advanced(d, c.gid, c.gids \cup {c.tmp}, c.k + 1)
    BY <1>3 DEF Taken
  <2>3. c.gids \cup {c.tmp} = c.gids \cup ({GroupOf(asked[c.k])} \ {NoId})
    BY <2>1
  <2> QED
    BY <1>0, <1>1, <1>3, <2>1, <2>2, <2>3, MappedNamed
<1> QED
  BY <1>2, <1>3

\* an answer that is true
TrueAnswer(c, v) ==
    /\ c.pc = "uid" => v = TheUser.uid
    /\ c.pc \in {"none_gid", "default_gid", "unknown_gid", "check_gid"} => v = TheUser.gid
    /\ c.pc = "home" => v = TheUser.home
    /\ c.pc \in {"none_gids", "check_gids", "default_gids"} /\ TheUser # Absent =>
            v = TheUser.gids

LEMMA MappedCheckGid ==
    ASSUME AskedGroups(asked), NEW c, Shape(c, asked), Mapped(c), c.pc = "check_gid",
           NEW d, CheckGidOutcome(c, TheUser.gid, d)
    PROVE  Mapped(d)
<1>0. c.k \in Nat /\ asked[1] # NoGroups /\ Known
  BY GroupInPlace DEF Mapped, Known
<1>1. CASE TheUser.gid = c.tmp /\ Taken(c, c.tmp, d)
  <2>1. ASSUME NEW g, c.tmp = GroupOf(g), c.tmp # NoId PROVE ~Bad(g)
    BY <1>1, <2>1, AllowedGroups DEF Bad
  <2>2. c.k = 0 => ~BadPrimary(asked[1]) /\ c.tmp = PrimaryOf(asked[1])
    BY <1>1, <2>1 DEF Mapped, BadPrimary, PrimaryOf
  <2>3. c.k # 0 => ~Bad(asked[c.k])
    BY <2>1 DEF Mapped
  <2> QED
    BY <1>1, <2>2, <2>3, MappedTaken
<1>2. CASE TheUser.gid # c.tmp /\ Moved(c, d, "check_gids", c.tmp)
  BY <1>0, <1>2 DEF Mapped, Moved, Known
<1> QED
  BY <1>1, <1>2 DEF CheckGidOutcome

LEMMA MappedCheckGids ==
    ASSUME AskedGroups(asked), NEW c, Shape(c, asked), Mapped(c), c.pc = "check_gids",
           NEW d, CheckGidsOutcome(c, TheUser.gids, d)
    PROVE  Mapped(d)
<1>0. /\ c.k \in Nat /\ asked[1] # NoGroups /\ Known /\ 1 \in 1 .. Len(asked)
      /\ (c.k # 0 => c.k \in 1 .. Len(asked))
  BY GroupInPlace DEF Mapped, Known
<1>1. /\ conf.enforce /\ c.tmp # TheUser.gid /\ c.tmp # NoId
      /\ c.k = 0 => c.tmp = GroupOf(asked[1]) /\ asked[1] # DefaultGid
      /\ c.k # 0 => c.tmp = GroupOf(asked[c.k]) /\ asked[c.k] # DefaultGid
  BY DEF Mapped, Shape
<1>2. CASE c.tmp \in TheUser.gids /\ Taken(c, c.tmp, d)
  <2>1. ASSUME NEW g, c.tmp = GroupOf(g) PROVE ~Bad(g)
    BY <1>1, <1>2, <2>1, AllowedGroups DEF Bad
  <2>2. c.k = 0 => ~BadPrimary(asked[1]) /\ c.tmp = PrimaryOf(asked[1])
    BY <1>1, <2>1 DEF BadPrimary, PrimaryOf
  <2>3. c.k # 0 => ~Bad(asked[c.k])
    BY <1>1, <2>1
  <2> QED
    BY <1>2, <2>2, <2>3, MappedTaken
<1>3. CASE c.tmp \notin TheUser.gids
  <2>1. ASSUME NEW g, c.tmp = GroupOf(g) PROVE Bad(g)
    BY <1>1, <1>3, <2>1, AllowedGroups DEF Bad
  <2>2. CASE conf.failInvalid /\ Moved(c, d, "refused", c.tmp)
    <3>1. Fails
      BY <1>0, <1>1, <2>1, <2>2 DEF Fails
    <3> QED
      BY <2>2, <3>1, MappedRefused DEF Moved
  <2>3. CASE ~conf.failInvalid /\ c.k = 0 /\ Moved(c, d, "default_gid", c.tmp)
    <3>1. ~BadPrimary(asked[1]) /\ PrimaryOf(asked[1]) = TheUser.gid
      BY <1>1, <2>1, <2>3 DEF BadPrimary, PrimaryOf
    <3> QED
      BY <1>0, <2>3, <3>1 DEF Mapped, Moved, Known
  <2>4. CASE ~conf.failInvalid /\ c.k # 0 /\ Taken(c, c.tmp, d)
    BY <2>4, MappedTaken
  <2> QED
    BY <1>3, <2>2, <2>3, <2>4 DEF CheckGidsOutcome
<1> QED
  BY <1>2, <1>3 DEF CheckGidsOutcome

LEMMA MappedUid ==
    ASSUME NEW c, Shape(c, asked), c.pc = "uid", UserRecord(TheUser), NEW d,
           UidOutcome(c, TheUser.uid, d)
    PROVE  Mapped(d)
<1>1. CASE TheUser.uid \in {NoId, 0} /\ Moved(c, d, "refused", c.tmp)
  <2>1. Fails
    BY <1>1 DEF Fails, UserRecord, NoId
  <2> QED
    BY <1>1, <2>1, MappedRefused DEF Moved
<1>2. CASE TheUser.uid \notin {NoId, 0}
  <2>1. Known
    BY <1>2 DEF Known, Absent
  <2>2. c.k = 0 /\ NoGroups # DefaultGid
    BY DEF Shape, NoGroups, DefaultGid
  <2>3. CASE Moved(c, d, "none_gid", c.tmp)
    BY <2>1, <2>3 DEF Mapped, Moved, Known
  <2>4. CASE asked[1] = DefaultGid /\ Moved(c, d, "default_gid", c.tmp)
    BY <2>1, <2>4 DEF Mapped, Moved, Known, BadPrimary, PrimaryOf
  <2>5. CASE Moved(c, d, "group", c.tmp)
    BY <2>1, <2>2, <2>5 DEF Mapped, Moved, Known
  <2> QED
    BY <1>2, <2>3, <2>4, <2>5 DEF UidOutcome
<1> QED
  BY <1>1, <1>2 DEF UidOutcome

LEMMA MappedUser ==
    ASSUME AskedGroups(asked), NEW c, Shape(c, asked), Mapped(c), c.pc \in DOMAIN Asks,
           UserRecord(TheUser), NEW v, TrueAnswer(c, v), NEW d, UserOutcome(c, v, d)
    PROVE  Mapped(d)
<1>1. CASE c.pc = "uid"
  BY <1>1, MappedUid DEF UserOutcome, TrueAnswer
<1>2. ASSUME c.pc # "uid" PROVE Known
  BY <1>2 DEF Mapped, Known, Asks
<1>3. CASE c.pc \in {"none_gid", "none_gids"}
  <2>1. NoneOutcome(c, v, d) /\ Known /\ asked[1] = NoGroups
    BY <1>2, <1>3 DEF UserOutcome, Shape
  <2>2. CASE c.pc = "none_gid"
    <3>1. d.pc = "none_gids" /\ d.gid = TheUser.gid
      BY <2>1, <2>2 DEF NoneOutcome, TrueAnswer
    <3> QED
      BY <2>1, <3>1 DEF Mapped, Known
  <2>3. CASE c.pc = "none_gids"
    <3>1. d.pc = "set" /\ d.gid = TheUser.gid /\ d.gids = TheUser.gids
      BY <2>1, <2>3 DEF NoneOutcome, TrueAnswer, Mapped, Known
    <3> QED
      BY <2>1, <3>1 DEF Mapped, Known
  <2> QED
    BY <1>3, <2>2, <2>3
<1>4. CASE c.pc = "default_gid"
  <2>1. /\ Taken(c, v, d) /\ c.k = 0 /\ Known /\ asked[1] # NoGroups
        /\ v = PrimaryOf(asked[1]) /\ ~BadPrimary(asked[1])
    BY <1>2, <1>4 DEF UserOutcome, Shape, TrueAnswer, Mapped
  <2> QED
    BY <2>1, MappedPrimary
<1>5. CASE c.pc = "unknown_gid"
  <2>1. /\ UnknownOutcome(c, v, d) /\ c.k = 0 /\ Known /\ asked[1] # NoGroups
        /\ v = TheUser.gid /\ v = PrimaryOf(asked[1]) /\ ~BadPrimary(asked[1])
    BY <1>2, <1>5 DEF UserOutcome, Shape, TrueAnswer, Mapped, PrimaryOf, Bad
  <2>2. CASE Taken(c, v, d)
    BY <2>1, <2>2, MappedPrimary
  <2>3. CASE Moved(c, d, "check_gid", v)
    BY <2>1, <2>3 DEF Mapped, Moved, Known
  <2> QED
    BY <2>1, <2>2, <2>3 DEF UnknownOutcome
<1>6. CASE c.pc = "check_gid"
  BY <1>6, MappedCheckGid DEF UserOutcome, TrueAnswer
<1>7. CASE c.pc = "check_gids"
  <2>1. v = TheUser.gids
    BY <1>2, <1>7 DEF TrueAnswer, Known
  <2> QED
    BY <1>7, <2>1, MappedCheckGids DEF UserOutcome
<1>8. CASE c.pc = "default_gids"
  <2>1. /\ Advanced(d, c.gid, c.gids \cup v, c.k + 1) /\ Known /\ v = TheUser.gids
        /\ c.k # 0 /\ asked[c.k] = DefaultGid /\ asked[1] # NoGroups
        /\ Gathered(c.gid, c.gids, c.k - 1)
    BY <1>2, <1>8 DEF UserOutcome, TrueAnswer, Known, Shape, Mapped
  <2>2. /\ c.k \in Nat /\ c.k + 1 \in Nat /\ 1 <= c.k + 1 /\ (c.k + 1) - 1 = c.k
        /\ 1 .. c.k = (1 .. c.k - 1) \cup {c.k}
    BY <2>1 DEF Shape, Calls
  <2>3. OwnGroups(c.k) = TheUser.gids /\ NamedGroups(c.k) = NamedGroups(c.k - 1)
    BY <2>1, <2>2, DefaultGathered
  <2>4. OwnGroups(c.k - 1) \subseteq TheUser.gids
    BY DEF OwnGroups
  <2>5. Gathered(c.gid, c.gids \cup v, c.k)
    BY <2>1, <2>2, <2>3, <2>4 DEF Gathered
  <2> QED
    BY <2>1, <2>2, <2>5, MappedAdvanced
<1>9. CASE c.pc = "home"
  <2>1. Known /\ v # NoId
    BY <1>2, <1>9 DEF TrueAnswer, UserRecord, Known, NoId
  <2>2. Moved(c, d, "done", c.tmp)
    BY <1>9, <2>1 DEF UserOutcome, HomeOutcome
  <2> QED
    BY <1>9, <2>1, <2>2 DEF Mapped, Moved, Known
<1> QED
  BY <1>1, <1>3, <1>4, <1>5, <1>6, <1>7, <1>8, <1>9 DEF Asks

\* with a database that does not change, the cache answers what is true
LEMMA AnswerTrue ==
    ASSUME ShapeInv, CacheInv, Stable, UserAnswer
    PROVE  TrueAnswer(call, Item(UserEntryUsed, Asks[call.pc]))
<1>0. /\ TypesTime /\ user \in Users /\ now \in Nat /\ now \in 0 .. now
      /\ cache[user] \in CacheEntries /\ cache[user].ts <= now
      /\ UserRecord(TheUser)
  BY HistoryTypes DEF ShapeInv, TypesTime, TypesCache, TheUser, Db
<1>1. FreshUser
  BY UserValueFresh DEF UserAnswer
<1>2. \A t \in 0 .. now : hist[t].users[user] = TheUser
  BY DEF Stable, TheUser
<1>3. \A f \in {"uid", "gid", "home"} : UserEntryUsed[f] = TheUser[f]
  BY <1>1, <1>2 DEF FreshUser, Window
<1>4. TheUser # Absent => Item(UserEntryUsed, "gids") = TheUser.gids
  <2> SUFFICES ASSUME TheUser # Absent PROVE Item(UserEntryUsed, "gids") = TheUser.gids
    OBVIOUS
  <2>1. ~Expired(cache[user].ts)
    BY DEF UserAnswer, TheUser
  <2>2. UserEntryUsed = cache[user] /\ cache[user].ts # NoTime /\ cache[user].ts \in Nat
    BY <1>0, <2>1 DEF UserEntryUsed, Expired, CacheEntries
  <2>3. PICK t \in 0 .. cache[user].ts :
           cache[user].gids = hist[t].users[user].gids \cup {cache[user].gid}
    BY <1>0, <2>2 DEF CacheInv, UserEntry, Stable
  <2>4. t \in 0 .. now
    BY <1>0, <2>2
  <2>5. cache[user].gids = TheUser.gids
    BY <1>0, <1>2, <1>3, <2>2, <2>3, <2>4 DEF UserRecord
  <2>6. cache[user].gids # NoGids
    BY <1>0, <2>5 DEF UserRecord, NoGids, NoId
  <2> QED
    BY <2>2, <2>5, <2>6 DEF Item
<1>5. \A f \in {"uid", "gid", "home"} : Item(UserEntryUsed, f) = TheUser[f]
  BY <1>3 DEF Item
<1>6. CASE call.pc = "uid"
  BY <1>5, <1>6 DEF TrueAnswer, Asks
<1>7. CASE call.pc \in {"none_gid", "default_gid", "unknown_gid", "check_gid"}
  <2>1. Asks[call.pc] = "gid"
    BY <1>7 DEF Asks
  <2> QED
    BY <1>5, <1>7, <2>1 DEF TrueAnswer
<1>8. CASE call.pc = "home"
  BY <1>5, <1>8 DEF TrueAnswer, Asks
<1>9. CASE call.pc \in {"none_gids", "check_gids", "default_gids"}
  <2>1. Asks[call.pc] = "gids"
    BY <1>9 DEF Asks
  <2> QED
    BY <1>4, <1>9, <2>1 DEF TrueAnswer
<1> QED
  BY <1>6, <1>7, <1>8, <1>9 DEF TrueAnswer

LEMMA GroupAnswerTrue ==
    ASSUME ShapeInv, CacheInv, Stable, NEW g \in GroupNames
    PROVE  GroupEntryUsed(g).gid = GroupOf(g)
<1>1. PICK t \in Window(now) : GroupEntryUsed(g).gid = hist[t].groups[g]
  BY GroupValueFresh
<1> QED
  BY <1>1 DEF Window, Stable, GroupOf

LEMMA MappedKept ==
    ASSUME Db' = Db, user' = user, asked' = asked, conf' = conf, Mapped(call')
    PROVE  Mapped(call)'
<1>1. TheUser' = TheUser
  BY DEF TheUser
<1>2. \A g : GroupOf(g)' = GroupOf(g)
  BY DEF GroupOf
<1>3. \A g : Bad(g)' <=> Bad(g)
  BY <1>1, <1>2 DEF Bad, Allowed
<1>4. \A g : BadPrimary(g)' <=> BadPrimary(g)
  BY <1>3 DEF BadPrimary
<1>5. \A g : PrimaryOf(g)' = PrimaryOf(g)
  BY <1>1, <1>2, <1>3 DEF PrimaryOf
<1>6. \A n : OwnGroups(n)' = OwnGroups(n) /\ NamedGroups(n)' = NamedGroups(n)
  BY <1>1, <1>2 DEF OwnGroups, NamedGroups
<1>7. \A gid, gids, n : Gathered(gid, gids, n)' <=> Gathered(gid, gids, n)
  BY <1>3, <1>4, <1>5, <1>6 DEF Gathered
<1>8. Fails' <=> Fails
  BY <1>1, <1>3, <1>4 DEF Fails
<1> QED
  BY <1>1, <1>2, <1>4, <1>5, <1>7, <1>8 DEF Mapped

LEMMA MappedStep == ShapeInv /\ CacheInv /\ MappedInv /\ [Next]_vars => MappedInv'
<1> SUFFICES ASSUME ShapeInv, CacheInv, MappedInv, [Next]_vars, Stable' PROVE Mapped(call)'
  BY DEF MappedInv
<1>0. /\ now \in Nat /\ AskedGroups(asked) /\ Shape(call, asked) /\ TypesTime /\ TypesCache
      /\ UserRecord(TheUser)
  BY AskedKnown, HistoryTypes DEF ShapeInv, TypesTime, TheUser, Db
<1>1. ASSUME UNCHANGED <<now, hist>>, lost' = lost \/ lost' = TRUE PROVE Stable /\ Db' = Db /\ Mapped(call)
  BY <1>1 DEF Stable, Db, MappedInv
<1>2. CASE UNCHANGED vars
  BY <1>1, <1>2, MappedKept DEF vars
<1>3. CASE Tick
  <2>1. /\ now' = now + 1 /\ \A t \in 0 .. now : hist'[t] = hist[t]
        /\ UNCHANGED <<lost, call, user, asked, conf>>
    BY <1>0, <1>3, TickStep DEF Tick, callVars
  <2>2. \A t \in 0 .. now : t \in 0 .. now'
    BY <1>0, <2>1
  <2>3. now \in 0 .. now
    BY <1>0
  <2>4. \A t \in 0 .. now : hist[t] = Db'
    BY <2>1, <2>2 DEF Stable
  <2>5. Db' = Db /\ Stable
    BY <2>1, <2>3, <2>4 DEF Stable, Db
  <2> QED
    BY <2>1, <2>5, MappedKept DEF MappedInv
<1>4. CASE \E u \in Users, a \in Asked : BecomeUser(u, a)
  BY <1>4 DEF BecomeUser, Idle, Mapped
<1>5. CASE UpdateUserInfo
  BY <1>1, <1>5, MappedKept DEF UpdateUserInfo, callVars
<1>6. CASE GroupsResolved
  BY <1>1, <1>6, MappedKept DEF GroupsResolved, callVars
<1>7. CASE GroupsRaise
  BY <1>7 DEF GroupsRaise, Over, Idle, Mapped
<1>8. CASE Finish
  BY <1>8 DEF Finish, Over, Idle, Mapped
<1>9. CASE UserAnswer
  <2>1. call.pc \in DOMAIN Asks /\ UNCHANGED <<now, hist, lost, conf, user, asked>>
    BY <1>9 DEF UserAnswer
  <2>2. PICK value : value = Item(UserEntryUsed, Asks[call.pc]) /\ call' = Continue(call, value)
    BY <1>9, UserAnswerStep
  <2>3. Stable /\ Db' = Db /\ Mapped(call)
    BY <1>1, <2>1
  <2>4. AnswerType(call, value)
    BY <1>0, <2>1, <2>2, UsedTypes, AnswerTyped
  <2>5. UserOutcome(call, value, call')
    BY <1>0, <2>1, <2>2, <2>4, ContinueOutcome
  <2>6. TrueAnswer(call, value)
    BY <1>9, <2>2, <2>3, AnswerTrue
  <2>7. Mapped(call')
    BY <1>0, <2>1, <2>3, <2>5, <2>6, MappedUser
  <2> QED
    BY <2>1, <2>3, <2>7, MappedKept
<1>10. CASE GroupAnswer
  <2>1. call.pc = "group" /\ UNCHANGED <<now, hist, lost, conf, user, asked>>
    BY <1>10 DEF GroupAnswer
  <2>2. PICK g : g = GroupAt(call) /\ call' = GotGroup(call, GroupEntryUsed(g).gid)
    BY <1>10, GroupAnswerStep
  <2>3. Stable /\ Db' = Db /\ Mapped(call) /\ g \in GroupNames
    BY <1>1, <2>1, <2>2, GroupAsked
  <2>4. GroupEntryUsed(g).gid \in Id /\ call \in Calls /\ call.k <= Len(asked)
    BY <1>0, <2>1, <2>3, UsedTypes DEF GroupEntries, Shape
  <2>5. GroupOutcome(call, GroupEntryUsed(g).gid, call')
    BY <1>0, <2>2, <2>4, GotGroupOutcome
  <2>6. GroupEntryUsed(g).gid = GroupOf(GroupAt(call))
    BY <2>2, <2>3, GroupAnswerTrue
  <2>7. Mapped(call')
    BY <1>0, <2>1, <2>3, <2>5, <2>6, MappedGroup
  <2> QED
    BY <2>1, <2>3, <2>7, MappedKept
<1>11. CASE SetIds
  <2>1. UNCHANGED <<now, hist, lost, conf, user, asked>> /\ call.pc = "set" /\ call \in Calls
    BY <1>0, <1>11 DEF SetIds, cacheVars, Shape
  <2>2. Stable /\ Db' = Db /\ Mapped(call)
    BY <1>1, <2>1
  <2>3. Known
    BY <2>1, <2>2 DEF Mapped, Known
  <2>4. call.gid # NoId
    <3>1. TheUser.gid # NoId
      BY <1>0, <2>3 DEF UserRecord, Known, NoId
    <3> QED
      BY <2>1, <2>2, <3>1 DEF Mapped, Gathered, PrimaryOf, Bad
  <2>5. call' = [call EXCEPT !.pc = "home"]
    BY <1>11, <2>4 DEF SetIds
  <2>6. Moved(call, call', "home", call.tmp)
    BY <2>1, <2>5, Movement DEF Places
  <2>7. Mapped(call')
    BY <2>1, <2>2, <2>3, <2>6 DEF Mapped, Moved, Known
  <2> QED
    BY <2>1, <2>2, <2>7, MappedKept
<1> QED
  BY <1>2, <1>3, <1>4, <1>5, <1>6, <1>7, <1>8, <1>9, <1>10, <1>11 DEF Next

LEMMA MappedAlways == Spec => []MappedInv
<1>1. Init => MappedInv
  BY DEF Init, Idle, MappedInv, Mapped
<1> QED
  BY <1>1, MappedStep, ShapeAlways, CacheAlways, PTL DEF Spec

\* the parameter of the mapping that stands for get_gid_4group
Grp == [g \in GroupNames \cup {NoGroups, DefaultGid} |->
          IF g \in GroupNames THEN Db.groups[g] ELSE NoId]
Mapping ==
    MapGroups(asked, TheUser.gid, TheUser.gids, Grp, conf.enforce, conf.failInvalid)

\* the mapping, in the terms of the invariant
LEMMA GrpIsGroupOf ==
    ASSUME AskedGroups(asked), NEW i \in 1 .. Len(asked)
    PROVE  Grp[asked[i]] = GroupOf(asked[i])
<1>1. asked[i] \in GroupNames \cup {NoGroups, DefaultGid}
  BY DEF AskedGroups
<1> QED
  BY <1>1 DEF Grp, GroupOf

LEMMA MappingPrimary ==
    ASSUME AskedGroups(asked)
    PROVE  GetPrimaryGroup(asked[1], TheUser.gid, TheUser.gids, Grp, conf.enforce, conf.failInvalid)
             = IF BadPrimary(asked[1]) THEN Raised
               ELSE [raised |-> FALSE, gid |-> PrimaryOf(asked[1])]
<1>1. Grp[asked[1]] = GroupOf(asked[1])
  <2>1. 1 \in 1 .. Len(asked)
    BY DEF AskedGroups
  <2> QED
    BY <2>1, GrpIsGroupOf
<1> QED
  BY <1>1 DEF GetPrimaryGroup, BadPrimary, PrimaryOf, Bad, Allowed

LEMMA MappingSupplementary ==
    ASSUME AskedGroups(asked), NEW gid
    PROVE  GetSupplementaryGroups(asked, gid, TheUser.gid, TheUser.gids, Grp,
                                  conf.enforce, conf.failInvalid)
             = IF /\ conf.failInvalid
                  /\ \E i \in 1 .. Len(asked) : asked[i] # DefaultGid /\ Bad(asked[i])
               THEN Raised
               ELSE [raised |-> FALSE,
                     gids |-> {gid} \cup OwnGroups(Len(asked)) \cup NamedGroups(Len(asked))]
<1>1. DOMAIN asked = 1 .. Len(asked)
  BY DEF AskedGroups
<1>2. \A i \in 1 .. Len(asked) : Grp[asked[i]] = GroupOf(asked[i])
  BY GrpIsGroupOf
<1>3. Named(asked) = {asked[i] : i \in {h \in 1 .. Len(asked) : asked[h] # DefaultGid}}
  BY <1>1 DEF Named
<1>4. (\E g \in Named(asked) : \/ Grp[g] = NoId
                               \/ ~CheckMembership(Grp[g], TheUser.gid, TheUser.gids, conf.enforce))
        <=> \E i \in 1 .. Len(asked) : asked[i] # DefaultGid /\ Bad(asked[i])
  BY <1>2, <1>3 DEF Bad, Allowed
<1>5. {Grp[g] : g \in Named(asked)} \ {NoId} = NamedGroups(Len(asked))
  BY <1>2, <1>3 DEF NamedGroups
<1>6. (IF \E i \in DOMAIN asked : asked[i] = DefaultGid THEN TheUser.gids ELSE {})
        = OwnGroups(Len(asked))
  BY <1>1 DEF OwnGroups
<1> QED
  BY <1>4, <1>5, <1>6 DEF GetSupplementaryGroups

LEMMA MappingRaised ==
    ASSUME AskedGroups(asked), Fails, TheUser # Absent, TheUser.uid # 0
    PROVE  Mapping.raised
<1>1. asked[1] # NoGroups
  BY DEF Fails
<1>2. CASE BadPrimary(asked[1])
  <2>1. Mapping = Raised
    BY <1>1, <1>2, MappingPrimary DEF Mapping, MapGroups, Raised
  <2> QED
    BY <2>1 DEF Raised
<1>3. CASE ~BadPrimary(asked[1])
  <2>1. GetSupplementaryGroups(asked, PrimaryOf(asked[1]), TheUser.gid, TheUser.gids, Grp,
                               conf.enforce, conf.failInvalid) = Raised
    BY <1>3, MappingSupplementary DEF Fails
  <2>2. Mapping = Raised
    BY <1>1, <1>3, <2>1, MappingPrimary DEF Mapping, MapGroups, Raised
  <2> QED
    BY <2>2 DEF Raised
<1> QED
  BY <1>2, <1>3

LEMMA MappingGathered ==
    ASSUME AskedGroups(asked), NEW gid, NEW gids,
           IF asked[1] = NoGroups THEN gid = TheUser.gid /\ gids = TheUser.gids
           ELSE Gathered(gid, gids, Len(asked))
    PROVE  ~Mapping.raised /\ Mapping.gid = gid /\ Mapping.gids = gids
<1>1. CASE asked[1] = NoGroups
  BY <1>1 DEF Mapping, MapGroups
<1>2. CASE asked[1] # NoGroups
  <2>1. /\ ~BadPrimary(asked[1]) /\ gid = PrimaryOf(asked[1])
        /\ ~(/\ conf.failInvalid
             /\ \E i \in 1 .. Len(asked) : asked[i] # DefaultGid /\ Bad(asked[i]))
        /\ gids = {gid} \cup OwnGroups(Len(asked)) \cup NamedGroups(Len(asked))
    BY <1>2 DEF Gathered
  <2>2. GetPrimaryGroup(asked[1], TheUser.gid, TheUser.gids, Grp, conf.enforce, conf.failInvalid)
          = [raised |-> FALSE, gid |-> gid]
    BY <2>1, MappingPrimary
  <2>3. GetSupplementaryGroups(asked, gid, TheUser.gid, TheUser.gids, Grp,
                               conf.enforce, conf.failInvalid)
          = [raised |-> FALSE, gids |-> gids]
    BY <2>1, MappingSupplementary
  <2> DEFINE p == GetPrimaryGroup(asked[1], TheUser.gid, TheUser.gids, Grp,
                                  conf.enforce, conf.failInvalid)
             q(g) == GetSupplementaryGroups(asked, g, TheUser.gid, TheUser.gids, Grp,
                                            conf.enforce, conf.failInvalid)
  <2>4. Mapping = IF p.raised THEN Raised
                  ELSE IF q(p.gid).raised THEN Raised
                  ELSE [raised |-> FALSE, gid |-> p.gid, gids |-> q(p.gid).gids]
    BY <1>2 DEF Mapping, MapGroups
  <2>5. ~p.raised /\ p.gid = gid
    BY <2>2
  <2>6. ~q(gid).raised /\ q(gid).gids = gids
    BY <2>3
  <2> HIDE DEF p, q
  <2>7. Mapping = [raised |-> FALSE, gid |-> gid, gids |-> gids]
    BY <2>4, <2>5, <2>6
  <2> QED
    BY <2>7
<1> QED
  BY <1>1, <1>2

\* Theorem: with a database that does not change, and as long as `id -G` works, the
\* lookups of become_user, one by one and in their order, come to the mapping of
\* the groups as it is defined, under all settings and for every list of groups.
THEOREM MappingIsDefined == Spec => []MappingAsDefined
<1>1. ShapeInv /\ MappedInv => MappingAsDefined
  <2> SUFFICES ASSUME ShapeInv, MappedInv, call.pc \in {"done", "refused"}, Stable
               PROVE  IF TheUser = Absent \/ TheUser.uid = 0 \/ Mapping.raised
                      THEN call.pc = "refused"
                      ELSE call.pc = "done" /\ call.gid = Mapping.gid /\ call.gids = Mapping.gids
    BY DEF MappingAsDefined, Mapping, Grp, TheUser, Stable
  <2>1. AskedGroups(asked) /\ Mapped(call)
    BY AskedKnown DEF ShapeInv, TypesTime, MappedInv
  <2>2. CASE call.pc = "refused"
    BY <2>1, <2>2, MappingRaised DEF Mapped
  <2>3. CASE call.pc = "done"
    <3>1. /\ TheUser # Absent /\ TheUser.uid # 0
          /\ IF asked[1] = NoGroups THEN call.gid = TheUser.gid /\ call.gids = TheUser.gids
             ELSE Gathered(call.gid, call.gids, Len(asked))
      BY <2>1, <2>3 DEF Mapped
    <3>2. ~Mapping.raised /\ Mapping.gid = call.gid /\ Mapping.gids = call.gids
      BY <2>1, <3>1, MappingGathered
    <3> QED
      BY <2>3, <3>1, <3>2
  <2> QED
    BY <2>2, <2>3
<1> QED
  BY <1>1, ShapeAlways, MappedAlways, PTL
=============================================================================

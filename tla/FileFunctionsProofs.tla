------------------------ MODULE FileFunctionsProofs ------------------------
(***************************************************************************)
(* Theorems about the file functions, for any file system, with links and  *)
(* however deep, any settings of tsi.acl and any requests: the replies,    *)
(* the completeness of a directory listing while files are removed, and    *)
(* the setting that is found for a path.                                   *)
(***************************************************************************)
EXTENDS FileFunctions, WellFoundedInduction, TLAPS

-----------------------------------------------------------------------------
(* The invariants *)

FrameType(nodes) == [path : Seq(nodes), left : SUBSET nodes, entry : nodes]

\* the calls of list_directory: the path of each is one entry longer than the
\* path of its caller, by the entry that the caller is at
Shape(st, nodes) ==
    /\ st \in Seq(FrameType(nodes))
    /\ \A k \in DOMAIN st : Len(st[k].path) = k
    /\ \A m \in DOMAIN st : \A k \in 1 .. m - 1 :
        /\ \A i \in 1 .. k : st[m].path[i] = st[k].path[i]
        /\ st[m].path[k + 1] = st[k].entry

Types ==
    /\ TypeOK
    /\ settings \in AclSettings
    /\ Shape(stack, Nodes)
    /\ pc # "idle" => stack # <<>>
    /\ pc = "single" => Len(stack) = 1 /\ out = <<>>

Walking == pc \in {"listdir", "take", "info"}

\* the call is in the middle of its entry
AtEntry(k) == k < Len(stack) \/ pc = "info"
PathOf(k, e) == Append(stack[k].path, e)

Extends(p, d) == Len(d) <= Len(p) /\ \A i \in 1 .. Len(d) : p[i] = d[i]

\* what is still to be listed has no line yet
FreshInv ==
    Walking =>
        /\ \A k \in DOMAIN stack :
            /\ \A e \in stack[k].left : \A p \in Range(out) : ~ Extends(p, PathOf(k, e))
            /\ AtEntry(k) => /\ stack[k].entry \notin stack[k].left
                             /\ PathOf(k, stack[k].entry) \notin Range(out)
        /\ pc = "listdir" => \A p \in Range(out) : ~ Extends(p, Frame.path)
        /\ \A i, k \in DOMAIN out : out[i] = out[k] => i = k \/ out[i] = Up

\* a path that can be reached, what a directory has in it, and an entry that has
\* its line, in a file system f of which pr is left, when the lines o are written
Goal(f, node) == IF node \in f.links THEN Top ELSE node
Reached(f, pr, p) ==
    /\ Cardinality({i \in DOMAIN p : p[i] \in f.links}) <= MaxLinks
    /\ \A i \in DOMAIN p : p[i] \in pr
Directory(f, pr, d) == Reached(f, pr, d) /\ Goal(f, Last(d)) \in DOMAIN f.in
Inside(f, pr, d) == f.in[Goal(f, Last(d))] \cap pr
Listed(f, pr, o, d, e) ==
    Reached(f, pr, Append(d, e)) /\ Goal(f, e) \in f.named => Append(d, e) \in Range(o)
Complete(f, pr, o, d) ==
    Directory(f, pr, d) => \A e \in Inside(f, pr, d) : Listed(f, pr, o, d, e)

\* what is not still to be listed has its line, if it can have one
CallsInv ==
    \A k \in DOMAIN stack :
        k < Len(stack) \/ pc # "listdir" =>
            \A e \in Inside(fs, present, stack[k].path) :
                \/ e \in stack[k].left
                \/ AtEntry(k) /\ e = stack[k].entry
                \/ Listed(fs, present, out, stack[k].path, e)
BelowInv ==
    recursive =>
        /\ \A d \in Range(out) \ {Up} : Complete(fs, present, out, d)
        /\ pc = "info" => Complete(fs, present, out, EntryPath)
CompleteInv == Walking => CallsInv /\ BelowInv

-----------------------------------------------------------------------------
(* The setting found for a path *)

\* A non-empty set of natural numbers has a least element.
LEMMA LeastExists ==
    ASSUME NEW S \in SUBSET Nat, S # {}
    PROVE  \E x \in S : \A y \in S : x <= y
<1> DEFINE R == {ss \in Nat \X Nat : ss[1] < ss[2]}
<1>1. IsWellFoundedOn(R, Nat)
  BY NatLessThanWellFounded, Zenon DEF OpToRel
<1> HIDE DEF R
<1>2. \E x \in S : \A y \in S : ~(<<y, x>> \in R)
  BY <1>1, WFMin
<1>3. PICK x \in S : \A y \in S : ~(<<y, x>> \in R)
  BY <1>2
<1>4. \A y \in S : x <= y
  <2> SUFFICES ASSUME NEW y \in S PROVE x <= y
    OBVIOUS
  <2>1. x \in Nat /\ y \in Nat
    OBVIOUS
  <2>2. ASSUME y < x PROVE <<y, x>> \in R
    BY <2>1, <2>2 DEF R
  <2> QED
    BY <1>3, <2>1, <2>2
<1> QED
  BY <1>4

\* Min is an element of a non-empty set.
LEMMA MinIsElement ==
    ASSUME NEW S \in SUBSET Nat, S # {}
    PROVE  Min(S) \in S
  BY LeastExists DEF Min

\* The prefix of a sequence, element by element.
LEMMA PrefixElements ==
    ASSUME NEW X, NEW s \in Seq(X), NEW t \in Seq(X)
    PROVE  IsPrefix(s, t) <=> Len(s) <= Len(t) /\ \A i \in 1 .. Len(s) : s[i] = t[i]
<1>1. CASE Len(s) <= Len(t)
  <2> DEFINE a == SubSeq(s, 1, Len(s))
             b == SubSeq(t, 1, Len(s))
  <2>1. /\ a \in Seq(X) /\ Len(a) = Len(s) /\ \A i \in 1 .. Len(s) : a[i] = s[i]
        /\ b \in Seq(X) /\ Len(b) = Len(s) /\ \A i \in 1 .. Len(s) : b[i] = t[i]
    BY <1>1
  <2>2. IsPrefix(s, t) <=> a = b
    BY <1>1 DEF IsPrefix
  <2> HIDE DEF a, b
  <2>3. a = b <=> \A i \in 1 .. Len(s) : a[i] = b[i]
    BY <2>1
  <2> QED
    BY <1>1, <2>1, <2>2, <2>3
<1>2. CASE ~ (Len(s) <= Len(t))
  BY <1>2 DEF IsPrefix
<1> QED
  BY <1>1, <1>2

Entries == [path : Seq(STRING) \ {<<>>}, support : Supports]

\* the entries that match a path, and the longest of them
Matches(setting, path) == {i \in DOMAIN setting : IsPrefix(setting[i].path, path)}
Longest(setting, path) ==
    {i \in Matches(setting, path) :
        \A k \in Matches(setting, path) : Len(setting[k].path) <= Len(setting[i].path)}

LEMMA CheckSupportIs ==
    ASSUME NEW setting, NEW path
    PROVE  CheckSupport(setting, path) =
               IF Matches(setting, path) = {} THEN "NONE"
               ELSE setting[Min(Longest(setting, path))].support
  BY DEF CheckSupport, Matches, Longest

\* Some matching entry is the longest.
LEMMA LongestExists ==
    ASSUME NEW setting \in Seq(Entries), NEW path \in Seq(STRING),
           Matches(setting, path) # {}
    PROVE  /\ Longest(setting, path) # {}
           /\ Min(Longest(setting, path)) \in Longest(setting, path)
<1> DEFINE M == Matches(setting, path)
           short(i) == Len(path) - Len(setting[i].path)
           S == {short(i) : i \in M}
<1>1. \A i \in M : /\ i \in DOMAIN setting /\ Len(setting[i].path) \in Nat
                   /\ Len(setting[i].path) <= Len(path)
  BY DEF Matches, IsPrefix, Entries
<1>2. Len(path) \in Nat
  OBVIOUS
<1>3. S \in SUBSET Nat /\ S # {}
  <2> HIDE DEF M
  <2>1. \A i \in M : short(i) \in Nat
    BY <1>1, <1>2
  <2> QED
    BY <2>1 DEF M
<1>4. PICK x \in S : \A y \in S : x <= y
  <2> HIDE DEF S
  <2> QED
    BY <1>3, LeastExists
<1>5. PICK i \in M : x = short(i)
  BY <1>4
<1>6. \A k \in M : short(i) <= short(k)
  BY <1>4, <1>5
<1>7. i \in Longest(setting, path)
  <2>1. \A k \in M : Len(setting[k].path) <= Len(setting[i].path)
    <3> HIDE DEF M
    <3> QED
      BY <1>1, <1>2, <1>6
  <2> QED
    BY <2>1 DEF Longest
<1>8. Longest(setting, path) \in SUBSET Nat
  BY DEF Longest, Matches
<1> QED
  BY <1>7, <1>8, MinIsElement

\* What check_support finds is a kind of support.
LEMMA SupportTypes ==
    ASSUME NEW setting \in AclSettings, NEW path \in Seq(STRING)
    PROVE  CheckSupport(setting, path) \in Supports
<1>1. setting \in Seq(Entries)
  BY SettingsAssumption DEF Entries
<1>2. CASE Matches(setting, path) = {}
  BY <1>2, CheckSupportIs DEF Supports
<1>3. CASE Matches(setting, path) # {}
  <2>1. Min(Longest(setting, path)) \in DOMAIN setting
    BY <1>1, <1>3, LongestExists DEF Longest, Matches
  <2>2. setting[Min(Longest(setting, path))].support \in Supports
    <3>1. \A i \in DOMAIN setting : setting[i] \in Entries
      BY <1>1
    <3>2. \A i \in DOMAIN setting : setting[i].support \in Supports
      BY <3>1 DEF Entries
    <3> QED
      BY <2>1, <3>2
  <2> QED
    BY <1>3, <2>2, CheckSupportIs
<1> QED
  BY <1>2, <1>3

\* check_support finds the most specific entry for a path that begins with no
\* configured directory that it is not in.
LEMMA MostSpecificFound ==
    ASSUME NEW setting \in AclSettings, NEW path \in Seq(STRING), PlainPath(setting, path)
    PROVE  CheckSupport(setting, path) = MostSpecific(setting, path)
<1> DEFINE over == {i \in DOMAIN setting : IsUnder(path, setting[i].path)}
           M == Matches(setting, path)
<1>1. /\ setting \in Seq(Entries)
      /\ \A i, k \in DOMAIN setting : setting[i].path = setting[k].path => i = k
  BY SettingsAssumption DEF Entries
<1>2. over = M
  BY DEF PlainPath, IsUnder, Matches
<1>3. MostSpecific(setting, path) =
          IF over = {} THEN "NONE"
          ELSE setting[CHOOSE i \in over : \A k \in over :
                           IsUnder(setting[i].path, setting[k].path)].support
  BY DEF MostSpecific
<1>4. CASE M = {}
  BY <1>2, <1>3, <1>4, CheckSupportIs
<1>5. CASE M # {}
  <2> DEFINE b == Min(Longest(setting, path))
             P(i) == \A k \in M : IsUnder(setting[i].path, setting[k].path)
  <2>1. b \in Longest(setting, path)
    BY <1>1, <1>5, LongestExists
  <2>2. b \in M /\ \A k \in M : Len(setting[k].path) <= Len(setting[b].path)
    BY <2>1 DEF Longest
  <2> HIDE DEF b
  <2>3. \A i \in M : /\ i \in DOMAIN setting /\ setting[i].path \in Seq(STRING)
                     /\ IsPrefix(setting[i].path, path)
    <3>1. \A i \in DOMAIN setting : setting[i] \in Entries
      BY <1>1
    <3>2. \A i \in DOMAIN setting : setting[i].path \in Seq(STRING)
      BY <3>1 DEF Entries
    <3> QED
      BY <3>2 DEF Matches
  <2>4. ASSUME NEW k \in M PROVE IsUnder(setting[b].path, setting[k].path)
    <3> DEFINE p == setting[b].path
               d == setting[k].path
    <3>1. /\ p \in Seq(STRING) /\ d \in Seq(STRING) /\ Len(d) <= Len(p)
          /\ IsPrefix(p, path) /\ IsPrefix(d, path) /\ IsUnder(path, d)
      BY <1>2, <2>2, <2>3
    <3> HIDE DEF p, d
    <3>2. /\ Len(p) <= Len(path) /\ \A i \in 1 .. Len(p) : p[i] = path[i]
          /\ Len(d) <= Len(path) /\ \A i \in 1 .. Len(d) : d[i] = path[i]
      BY <3>1, PrefixElements
    <3>3. IsPrefix(d, p)
      <4>1. \A i \in 1 .. Len(d) : d[i] = p[i]
        BY <3>1, <3>2
      <4> QED
        BY <3>1, <4>1, PrefixElements
    <3>4. CASE Len(d) = Len(p)
      <4>1. d = p
        BY <3>1, <3>2, <3>4
      <4> QED
        BY <3>3, <4>1 DEF IsUnder, p, d
    <3>5. CASE Len(d) < Len(p)
      <4>1. p[Len(d) + 1] = path[Len(d) + 1]
        BY <3>1, <3>2, <3>5
      <4>2. d # path
        BY <3>1, <3>2, <3>5
      <4>3. Last(d) = "/" \/ path[Len(d) + 1] = "/"
        BY <3>1, <4>2 DEF IsUnder
      <4> QED
        BY <3>3, <4>1, <4>3 DEF IsUnder, p, d
    <3> QED
      BY <3>1, <3>4, <3>5
  <2>5. ASSUME NEW i \in M, P(i) PROVE i = b
    <3>1. IsPrefix(setting[b].path, setting[i].path)
      BY <2>2, <2>5 DEF IsUnder
    <3>2. Len(setting[b].path) <= Len(setting[i].path)
      BY <3>1 DEF IsPrefix
    <3> DEFINE p == setting[b].path
               q == setting[i].path
    <3>3. /\ p \in Seq(STRING) /\ q \in Seq(STRING) /\ Len(p) <= Len(q) /\ Len(q) <= Len(p)
          /\ IsPrefix(p, q)
      BY <2>2, <2>3, <3>1, <3>2
    <3> HIDE DEF p, q
    <3>4. \A n \in 1 .. Len(p) : p[n] = q[n]
      BY <3>3, PrefixElements
    <3>5. p = q
      BY <3>3, <3>4
    <3> QED
      BY <1>1, <2>2, <2>3, <3>5 DEF p, q
  <2>6. (CHOOSE i \in over : \A k \in over : IsUnder(setting[i].path, setting[k].path)) = b
    <3> HIDE DEF over, M
    <3> QED
      BY <1>2, <2>2, <2>4, <2>5
  <2>7. CheckSupport(setting, path) = setting[b].support
    BY <1>5, CheckSupportIs DEF b
  <2> QED
    BY <1>2, <1>3, <1>5, <2>6, <2>7
<1> QED
  BY <1>4, <1>5

-----------------------------------------------------------------------------
(* What process_acl replies *)

Words == {"OK", "FAILED"}

LEMMA Joined ==
    /\ \A s \in Seq(Words) : <<>> \o s = s /\ s \o <<>> = s
    /\ <<>> \in Seq(Words) /\ <<"OK">> \in Seq(Words) /\ <<"FAILED">> \in Seq(Words)
    /\ <<"FAILED", "FAILED">> \in Seq(Words)
    /\ <<"FAILED">> \o <<"FAILED">> = <<"FAILED", "FAILED">>
    /\ <<"FAILED">> \o <<"OK">> = <<"FAILED", "OK">>
    /\ <<"FAILED", "FAILED">> \o <<"FAILED">> = <<"FAILED", "FAILED", "FAILED">>
<1>1. \A s \in Seq(Words) : <<>> \o s = s /\ s \o <<>> = s
  OBVIOUS
<1>2. /\ <<>> \in Seq(Words) /\ <<"OK">> \in Seq(Words) /\ <<"FAILED">> \in Seq(Words)
      /\ <<"FAILED", "FAILED">> \in Seq(Words)
  BY DEF Words
<1>3. <<"FAILED">> \o <<"FAILED">> = <<"FAILED", "FAILED">>
  <2>1. <<"FAILED">> \o <<"FAILED">> = [i \in 1 .. 2 |-> "FAILED"]
    OBVIOUS
  <2>2. <<"FAILED", "FAILED">> = [i \in 1 .. 2 |-> "FAILED"]
    OBVIOUS
  <2> QED
    BY <2>1, <2>2, Zenon
<1>4. <<"FAILED">> \o <<"OK">> = <<"FAILED", "OK">>
  <2>1. <<"FAILED">> \o <<"OK">> = [i \in 1 .. 2 |-> IF i = 1 THEN "FAILED" ELSE "OK"]
    OBVIOUS
  <2>2. <<"FAILED", "OK">> = [i \in 1 .. 2 |-> IF i = 1 THEN "FAILED" ELSE "OK"]
    OBVIOUS
  <2> QED
    BY <2>1, <2>2, Zenon
<1>5. <<"FAILED", "FAILED">> \o <<"FAILED">> = <<"FAILED", "FAILED", "FAILED">>
  <2>1. <<"FAILED", "FAILED">> \o <<"FAILED">> = [i \in 1 .. 3 |-> "FAILED"]
    OBVIOUS
  <2>2. <<"FAILED", "FAILED", "FAILED">> = [i \in 1 .. 3 |-> "FAILED"]
    OBVIOUS
  <2> QED
    BY <2>1, <2>2, Zenon
<1> QED
  BY <1>1, <1>2, <1>3, <1>4, <1>5

LEMMA SetfaclPosixReplies ==
    ASSUME NEW command \in AclCommands \cup {Missing}, NEW spec,
           NEW outcome \in SetfaclPosix(command, spec)
    PROVE  /\ outcome \in {Outcome(<<>>, TRUE), Outcome(<<"OK">>, FALSE),
                           Outcome(<<"FAILED">>, FALSE)}
           /\ command = Missing => outcome = Outcome(<<>>, TRUE)
           /\ spec = NoSpec /\ command # "RM_ALL" => outcome = Outcome(<<>>, TRUE)
<1>1. CASE command = Missing
  BY <1>1 DEF SetfaclPosix, Missing
<1>2. CASE command = "RM_ALL"
  BY <1>2 DEF SetfaclPosix, RunsCommand, Missing
<1>3. CASE command \notin {Missing, "RM_ALL"} /\ spec = NoSpec
  BY <1>3 DEF SetfaclPosix
<1>4. CASE command \notin {Missing, "RM_ALL"} /\ spec # NoSpec
  BY <1>4 DEF SetfaclPosix, RunsCommand, Missing
<1> QED
  BY <1>1, <1>2, <1>3, <1>4

\* The replies of process_acl are the ones that the request loop is modelled with.
LEMMA AclOutcomes ==
    ASSUME NEW operation \in {"CHECK_SUPPORT", "GETFACL", "SETFACL", "other"},
           NEW support \in Supports, NEW command \in AclCommands \cup {Missing},
           NEW spec, NEW outcome \in ProcessAcl(operation, support, command, spec)
    PROVE  outcome \in Outcomes("TSI_FILE_ACL")
<1>1. Outcomes("TSI_FILE_ACL") = AclReply
  BY DEF Outcomes, DataCommands
<1>2. CASE operation = "CHECK_SUPPORT" \/ operation = "other"
  BY <1>1, <1>2 DEF ProcessAcl, AclReply, OneReply
<1>3. CASE operation = "GETFACL"
  BY <1>1, <1>3 DEF ProcessAcl, Getfacl, RunsCommand, AclReply, OneReply, Supports
<1>4. CASE operation = "SETFACL"
  <2> DEFINE reported == (IF spec = NoSpec THEN <<"FAILED">> ELSE <<>>) \o
                         (IF command = Missing THEN <<"FAILED">> ELSE <<>>)
             done == CASE support = "POSIX" -> SetfaclPosix(command, spec)
                       [] support = "NFS" -> {Outcome(<<>>, FALSE)}
                       [] support = "NONE" -> {Outcome(<<"FAILED">>, FALSE)}
  <2>1. ProcessAcl(operation, support, command, spec) = {After(reported, o) : o \in done}
    BY <1>4 DEF ProcessAcl, Setfacl
  <2>2. PICK o \in done : outcome = After(reported, o)
    BY <2>1
  <2>3. reported = IF spec = NoSpec
                   THEN IF command = Missing THEN <<"FAILED", "FAILED">> ELSE <<"FAILED">>
                   ELSE IF command = Missing THEN <<"FAILED">> ELSE <<>>
    <3>1. /\ <<>> \o <<>> = <<>> /\ <<>> \o <<"FAILED">> = <<"FAILED">>
          /\ <<"FAILED">> \o <<>> = <<"FAILED">>
      BY Joined
    <3> QED
      BY <3>1, Joined, Zenon
  <2>4. /\ o \in {Outcome(<<>>, TRUE), Outcome(<<"OK">>, FALSE), Outcome(<<"FAILED">>, FALSE),
                  Outcome(<<>>, FALSE)}
        /\ command = Missing => o # Outcome(<<"OK">>, FALSE)
        /\ command = Missing /\ support = "POSIX" => o = Outcome(<<>>, TRUE)
    <3>1. CASE support = "POSIX"
      <4>1. o \in SetfaclPosix(command, spec)
        BY <3>1
      <4> QED
        BY <4>1, SetfaclPosixReplies DEF Outcome
    <3>2. CASE support # "POSIX"
      BY <3>2 DEF Supports, Outcome
    <3> QED
      BY <3>1, <3>2
  <2> HIDE DEF reported, done
  <2>5. outcome = Outcome(reported \o o.writes, o.raises)
    BY <2>2 DEF After
  <2>6. o = Outcome(o.writes, o.raises) /\ o.raises \in BOOLEAN
    <3>1. \A w, r : Outcome(w, r).writes = w /\ Outcome(w, r).raises = r
      BY DEF Outcome
    <3>2. PICK w, r : o = Outcome(w, r) /\ r \in BOOLEAN
      BY <2>4, Zenon
    <3>3. o.writes = w /\ o.raises = r
      BY <3>1, <3>2
    <3> QED
      BY <3>2, <3>3, Zenon
  <2>7. CASE o.writes = <<>>
    <3>1. reported \o <<>> = reported
      BY <2>3, Joined
    <3>2. outcome = Outcome(reported, o.raises)
      BY <2>5, <2>7, <3>1
    <3> QED
      BY <1>1, <2>3, <2>6, <3>2 DEF AclReply, OneReply
  <2>8. CASE o = Outcome(<<"OK">>, FALSE)
    <3>1. reported \in {<<>>, <<"FAILED">>}
      BY <2>3, <2>4, <2>8
    <3>2. reported \o <<"OK">> \in {<<"OK">>, <<"FAILED", "OK">>}
      <4>1. <<>> \o <<"OK">> = <<"OK">>
        BY Joined
      <4> QED
        BY <3>1, <4>1, Joined, Zenon
    <3>3. outcome \in {Outcome(<<"OK">>, FALSE), Outcome(<<"FAILED", "OK">>, FALSE)}
      BY <2>5, <2>8, <3>2 DEF Outcome
    <3> QED
      BY <1>1, <3>3 DEF AclReply, OneReply
  <2>9. CASE o = Outcome(<<"FAILED">>, FALSE)
    <3>1. reported \o <<"FAILED">> \in {<<"FAILED">>, <<"FAILED", "FAILED">>,
                                        <<"FAILED", "FAILED", "FAILED">>}
      <4>1. <<>> \o <<"FAILED">> = <<"FAILED">>
        BY Joined
      <4>2. reported \in {<<>>, <<"FAILED">>, <<"FAILED", "FAILED">>}
        BY <2>3
      <4> QED
        BY <4>1, <4>2, Joined, Zenon
    <3>2. outcome \in {Outcome(<<"FAILED">>, FALSE), Outcome(<<"FAILED", "FAILED">>, FALSE),
                       Outcome(<<"FAILED", "FAILED", "FAILED">>, FALSE)}
      BY <2>5, <2>9, <3>1 DEF Outcome
    <3> QED
      BY <1>1, <3>2 DEF AclReply, OneReply
  <2> QED
    BY <2>4, <2>7, <2>8, <2>9 DEF Outcome
<1> QED
  BY <1>2, <1>3, <1>4

-----------------------------------------------------------------------------
(* The calls of list_directory *)

\* A call goes on: the same path, other entries.
LEMMA CallGoesOn ==
    ASSUME NEW nodes, NEW st, Shape(st, nodes), st # <<>>, NEW frame \in FrameType(nodes),
           frame.path = st[Len(st)].path
    PROVE  LET next == [st EXCEPT ![Len(st)] = frame]
           IN  /\ Shape(next, nodes) /\ Len(next) = Len(st)
               /\ next[Len(st)] = frame /\ \A k \in 1 .. Len(st) - 1 : next[k] = st[k]
<1> DEFINE n == Len(st)
           next == [st EXCEPT ![n] = frame]
<1>1. /\ st \in Seq(FrameType(nodes)) /\ n \in Nat /\ n >= 1 /\ DOMAIN st = 1 .. n
      /\ \A k \in DOMAIN st : Len(st[k].path) = k
      /\ \A m \in DOMAIN st : \A k \in 1 .. m - 1 :
          /\ \A i \in 1 .. k : st[m].path[i] = st[k].path[i]
          /\ st[m].path[k + 1] = st[k].entry
  BY DEF Shape
<1>2. /\ next \in Seq(FrameType(nodes)) /\ Len(next) = n /\ DOMAIN next = 1 .. n
      /\ next[n] = frame /\ \A k \in 1 .. n - 1 : next[k] = st[k]
  BY <1>1
<1> HIDE DEF next, n
<1>3. \A k \in 1 .. n : next[k].path = st[k].path
  <2> SUFFICES ASSUME NEW k \in 1 .. n PROVE next[k].path = st[k].path
    OBVIOUS
  <2>1. CASE k = n
    BY <1>2, <2>1 DEF n
  <2>2. CASE k \in 1 .. n - 1
    BY <1>2, <2>2
  <2> QED
    BY <1>1, <2>1, <2>2
<1>4. \A k \in DOMAIN next : Len(next[k].path) = k
  BY <1>1, <1>2, <1>3
<1>5. ASSUME NEW m \in DOMAIN next, NEW k \in 1 .. m - 1
      PROVE  /\ \A i \in 1 .. k : next[m].path[i] = next[k].path[i]
             /\ next[m].path[k + 1] = next[k].entry
  <2>1. m \in DOMAIN st /\ k \in 1 .. n - 1 /\ k \in 1 .. n
    BY <1>1, <1>2
  <2>2. next[m].path = st[m].path /\ next[k] = st[k]
    BY <1>1, <1>2, <1>3, <2>1
  <2> QED
    BY <1>1, <2>1, <2>2
<1> QED
  BY <1>2, <1>4, <1>5 DEF Shape, next, n

\* A call is made for the entry that the caller is at.
LEMMA CallMade ==
    ASSUME NEW nodes, NEW st, Shape(st, nodes), st # <<>>, NEW call \in FrameType(nodes),
           Len(call.path) = Len(st) + 1,
           call.path[Len(st) + 1] = st[Len(st)].entry,
           \A i \in 1 .. Len(st) : call.path[i] = st[Len(st)].path[i]
    PROVE  /\ Shape(Append(st, call), nodes) /\ Len(Append(st, call)) = Len(st) + 1
           /\ Append(st, call)[Len(st) + 1] = call
           /\ \A k \in 1 .. Len(st) : Append(st, call)[k] = st[k]
<1> DEFINE n == Len(st)
           top == st[n].path
           path == call.path
           next == Append(st, call)
<1>1. /\ st \in Seq(FrameType(nodes)) /\ n \in Nat /\ n >= 1 /\ DOMAIN st = 1 .. n
      /\ \A k \in DOMAIN st : Len(st[k].path) = k
      /\ \A m \in DOMAIN st : \A k \in 1 .. m - 1 :
          /\ \A i \in 1 .. k : st[m].path[i] = st[k].path[i]
          /\ st[m].path[k + 1] = st[k].entry
  BY DEF Shape
<1>4. /\ Len(path) = n + 1 /\ path[n + 1] = st[n].entry
      /\ \A i \in 1 .. n : path[i] = top[i]
  OBVIOUS
<1>5. call.path = path
  OBVIOUS
<1>6. /\ next \in Seq(FrameType(nodes)) /\ Len(next) = n + 1 /\ DOMAIN next = 1 .. n + 1
      /\ next[n + 1] = call /\ \A k \in 1 .. n : next[k] = st[k]
  BY <1>1
<1> HIDE DEF path, next
<1>8. \A k \in DOMAIN next : Len(next[k].path) = k
  <2> SUFFICES ASSUME NEW k \in 1 .. n + 1 PROVE Len(next[k].path) = k
    BY <1>6
  <2>1. CASE k = n + 1
    BY <1>4, <1>5, <1>6, <2>1
  <2>2. CASE k \in 1 .. n
    BY <1>1, <1>6, <2>2
  <2> QED
    BY <1>1, <2>1, <2>2
<1>9. ASSUME NEW m \in DOMAIN next, NEW k \in 1 .. m - 1
      PROVE  /\ \A i \in 1 .. k : next[m].path[i] = next[k].path[i]
             /\ next[m].path[k + 1] = next[k].entry
  <2>1. CASE m \in 1 .. n
    <3>1. next[m] = st[m] /\ next[k] = st[k] /\ m \in DOMAIN st
      BY <1>1, <1>6, <2>1
    <3> QED
      BY <1>1, <3>1
  <2>2. CASE m = n + 1
    <3>1. next[m].path = path /\ k \in 1 .. n /\ next[k] = st[k] /\ n \in DOMAIN st
      BY <1>1, <1>5, <1>6, <2>2
    <3>2. CASE k = n
      BY <1>4, <3>1, <3>2
    <3>3. CASE k \in 1 .. n - 1
      <4>1. /\ \A i \in 1 .. k : top[i] = st[k].path[i]
            /\ top[k + 1] = st[k].entry
        BY <1>1, <3>1, <3>3
      <4>2. k + 1 \in 1 .. n /\ \A i \in 1 .. k : i \in 1 .. n
        BY <1>1, <3>3
      <4> QED
        BY <1>4, <3>1, <4>1, <4>2
    <3>4. k = n \/ k \in 1 .. n - 1
      <4>1. n \in Nat /\ k \in 1 .. n
        BY <1>1, <3>1
      <4> HIDE DEF n
      <4> QED
        BY <4>1
    <3> QED
      BY <3>2, <3>3, <3>4
  <2>3. m \in 1 .. n \/ m = n + 1
    <3>1. n \in Nat /\ m \in 1 .. n + 1
      BY <1>1, <1>6
    <3> HIDE DEF n
    <3> QED
      BY <3>1
  <2> QED
    BY <2>1, <2>2, <2>3
<1> QED
  BY <1>6, <1>8, <1>9 DEF Shape, next

\* A call returns.
LEMMA CallReturns ==
    ASSUME NEW nodes, NEW st, Shape(st, nodes), Len(st) > 1
    PROVE  /\ Shape(Front(st), nodes) /\ Len(Front(st)) = Len(st) - 1
           /\ \A k \in 1 .. Len(st) - 1 : Front(st)[k] = st[k]
<1> DEFINE n == Len(st)
           next == Front(st)
<1>1. /\ st \in Seq(FrameType(nodes)) /\ n \in Nat /\ n > 1 /\ DOMAIN st = 1 .. n
      /\ \A k \in DOMAIN st : Len(st[k].path) = k
      /\ \A m \in DOMAIN st : \A k \in 1 .. m - 1 :
          /\ \A i \in 1 .. k : st[m].path[i] = st[k].path[i]
          /\ st[m].path[k + 1] = st[k].entry
  BY DEF Shape
<1>2. /\ next \in Seq(FrameType(nodes)) /\ Len(next) = n - 1 /\ DOMAIN next = 1 .. n - 1
      /\ \A k \in 1 .. n - 1 : next[k] = st[k]
  BY <1>1 DEF Front
<1> HIDE DEF next
<1>3. \A k \in DOMAIN next : k \in DOMAIN st /\ next[k] = st[k]
  BY <1>1, <1>2
<1>4. \A m \in DOMAIN next : \A k \in 1 .. m - 1 : k \in DOMAIN next
  BY <1>1, <1>2
<1> QED
  BY <1>1, <1>2, <1>3, <1>4 DEF Shape, next

\* The call on top of the stack.
LEMMA TopCall ==
    ASSUME Types, pc # "idle"
    PROVE  /\ Len(stack) \in Nat /\ Len(stack) >= 1 /\ DOMAIN stack = 1 .. Len(stack)
           /\ Frame \in FrameType(Nodes) /\ Frame = stack[Len(stack)]
           /\ Frame.path \in Seq(Nodes) /\ Len(Frame.path) = Len(stack)
           /\ Frame.left \in SUBSET Nodes /\ Frame.entry \in Nodes
<1>1. stack \in Seq(FrameType(Nodes)) /\ stack # <<>>
  BY DEF Types, Shape
<1>2. Len(stack) \in Nat /\ Len(stack) >= 1 /\ DOMAIN stack = 1 .. Len(stack)
  BY <1>1
<1>3. Frame \in FrameType(Nodes)
  BY <1>1, <1>2 DEF Frame
<1>4. Len(Frame.path) = Len(stack)
  BY <1>2 DEF Types, Shape, Frame
<1> QED
  BY <1>2, <1>3, <1>4 DEF FrameType, Frame

\* The directory is read, or the listing is cut off.
LEMMA ListDirStep ==
    ASSUME Types, ListDir
    PROVE  /\ UNCHANGED <<settings, fs, present, recursive, out, acl, reply>>
           /\ \/ pc' = "end" /\ cut' = TRUE /\ stack' = stack
              \/ /\ pc' = "take" /\ cut' = cut
                 /\ Shape(stack', Nodes) /\ Len(stack') = Len(stack)
                 /\ stack'[Len(stack)].path = Frame.path
                 /\ stack'[Len(stack)].left = Contents(Frame.path)
                 /\ stack'[Len(stack)].entry = Frame.entry
                 /\ \A k \in 1 .. Len(stack) - 1 : stack'[k] = stack[k]
<1>1. UNCHANGED <<settings, fs, present, recursive, out, acl, reply>> /\ pc = "listdir"
  BY DEF ListDir
<1>2. CASE ~ (IsDir(Frame.path) /\ Target(Last(Frame.path)) \in fs.readable)
  BY <1>1, <1>2 DEF ListDir
<1>3. CASE IsDir(Frame.path) /\ Target(Last(Frame.path)) \in fs.readable
  <2> DEFINE frame == [Frame EXCEPT !.left = Contents(Frame.path)]
  <2>1. /\ pc' = "take" /\ cut' = cut
        /\ stack' = [stack EXCEPT ![Len(stack)].left = Contents(Frame.path)]
    BY <1>3 DEF ListDir
  <2>2. stack' = [stack EXCEPT ![Len(stack)] = frame]
    BY <2>1 DEF Frame
  <2>3. Frame \in FrameType(Nodes) /\ Frame = stack[Len(stack)]
    BY <1>1, TopCall
  <2>4. Contents(Frame.path) \in SUBSET Nodes
    BY <1>3 DEF IsDir, Contents, Nodes, Range
  <2>5. /\ frame \in FrameType(Nodes) /\ frame.path = Frame.path
        /\ frame.left = Contents(Frame.path) /\ frame.entry = Frame.entry
    BY <2>3, <2>4 DEF FrameType
  <2>6. Shape(stack, Nodes) /\ stack # <<>>
    BY <1>1 DEF Types
  <2> HIDE DEF frame
  <2> DEFINE rest == [stack EXCEPT ![Len(stack)] = frame]
  <2>7. /\ Shape(rest, Nodes) /\ Len(rest) = Len(stack) /\ rest[Len(stack)] = frame
        /\ \A k \in 1 .. Len(stack) - 1 : rest[k] = stack[k]
    BY <2>3, <2>5, <2>6, CallGoesOn
  <2> QED
    BY <1>1, <2>1, <2>2, <2>5, <2>7
<1> QED
  BY <1>2, <1>3

\* An entry is taken, and if need be a call is made for it.
LEMMA TakeEntryStep ==
    ASSUME Types, TakeEntry
    PROVE  /\ UNCHANGED <<settings, fs, present, recursive, out, cut, acl, reply>>
           /\ \E e \in Frame.left :
                /\ Shape(stack', Nodes)
                /\ stack'[Len(stack)].path = Frame.path
                /\ stack'[Len(stack)].left = Frame.left \ {e}
                /\ stack'[Len(stack)].entry = e
                /\ \A k \in 1 .. Len(stack) - 1 : stack'[k] = stack[k]
                /\ \/ /\ pc' = "info" /\ Len(stack') = Len(stack)
                      /\ ~ (recursive /\ IsDir(Append(Frame.path, e)))
                   \/ /\ pc' = "listdir" /\ Len(stack') = Len(stack) + 1
                      /\ stack'[Len(stack) + 1].path = Append(Frame.path, e)
                      /\ stack'[Len(stack) + 1].left = {}
<1>1. UNCHANGED <<settings, fs, present, recursive, out, cut, acl, reply>> /\ pc = "take"
  BY DEF TakeEntry
<1>2. PICK e \in Frame.left :
          LET frame == [Frame EXCEPT !.left = @ \ {e}, !.entry = e]
              path == Append(Frame.path, e)
              rest == [stack EXCEPT ![Len(stack)] = frame]
          IN  IF recursive /\ IsDir(path)
              THEN /\ stack' = Append(rest, [path |-> path, left |-> {}, entry |-> e])
                   /\ pc' = "listdir"
              ELSE /\ stack' = rest
                   /\ pc' = "info"
  BY DEF TakeEntry
<1> DEFINE n == Len(stack)
           frame == [Frame EXCEPT !.left = @ \ {e}, !.entry = e]
           rest == [stack EXCEPT ![n] = frame]
           path == Append(Frame.path, e)
<1>3. /\ Frame \in FrameType(Nodes) /\ Frame = stack[n] /\ Frame.left \in SUBSET Nodes
      /\ n \in Nat /\ n >= 1
  BY <1>1, TopCall
<1>4. /\ frame \in FrameType(Nodes) /\ frame.path = Frame.path
      /\ frame.left = Frame.left \ {e} /\ frame.entry = e
  BY <1>3 DEF FrameType
<1>5. Shape(stack, Nodes) /\ stack # <<>>
  BY <1>1 DEF Types
<1> HIDE DEF frame
<1>6. /\ Shape(rest, Nodes) /\ Len(rest) = n /\ rest[n] = frame
      /\ \A k \in 1 .. n - 1 : rest[k] = stack[k]
  BY <1>3, <1>4, <1>5, CallGoesOn
<1>7. CASE recursive /\ IsDir(path)
  <2>1. stack' = Append(rest, [path |-> path, left |-> {}, entry |-> e]) /\ pc' = "listdir"
    BY <1>2, <1>7 DEF frame
  <2> HIDE DEF rest
  <2>2. rest # <<>> /\ e = rest[Len(rest)].entry /\ Frame.path = rest[Len(rest)].path
    BY <1>3, <1>4, <1>6
  <2> DEFINE call == [path |-> path, left |-> {}, entry |-> e]
             next == Append(rest, call)
  <2>3. /\ path \in Seq(Nodes) /\ Len(path) = n + 1 /\ path[n + 1] = e
        /\ \A i \in 1 .. n : path[i] = Frame.path[i]
    <3>1. Frame.path \in Seq(Nodes) /\ Len(Frame.path) = n /\ e \in Nodes
      BY <1>1, TopCall
    <3> QED
      BY <3>1
  <2>4. stack' = next /\ call.path = path /\ call.left = {} /\ call \in FrameType(Nodes)
    <3>1. e \in Nodes
      BY <1>3
    <3> HIDE DEF path
    <3> QED
      BY <2>1, <2>3, <3>1 DEF FrameType
  <2> HIDE DEF call, path
  <2>7. /\ Shape(next, Nodes) /\ Len(next) = Len(rest) + 1 /\ next[Len(rest) + 1] = call
        /\ \A k \in 1 .. Len(rest) : next[k] = rest[k]
    BY <1>6, <2>2, <2>3, <2>4, CallMade
  <2> HIDE DEF next
  <2> USE DEF path
  <2>5. next[n] = frame /\ \A k \in 1 .. n - 1 : next[k] = stack[k]
    BY <1>3, <1>6, <2>7
  <2>6. Shape(next, Nodes) /\ Len(next) = n + 1 /\ next[n + 1] = call
    BY <1>6, <2>7
  <2> QED
    BY <1>1, <1>4, <2>1, <2>4, <2>5, <2>6
<1>8. CASE ~ (recursive /\ IsDir(path))
  <2>1. stack' = rest /\ pc' = "info"
    BY <1>2, <1>8 DEF frame
  <2> QED
    BY <1>1, <1>4, <1>6, <1>8, <2>1
<1> QED
  BY <1>7, <1>8

\* A call returns to its caller, or the listing ends.
LEMMA ReturnStep ==
    ASSUME Types, Return
    PROVE  /\ UNCHANGED <<settings, fs, present, recursive, cut, acl, reply>>
           /\ Frame.left = {} /\ pc = "take"
           /\ \/ pc' = "end" /\ Len(stack) = 1 /\ stack' = stack /\ out' = out
              \/ /\ pc' = "info" /\ Len(stack) > 1 /\ out' = Append(out, Up)
                 /\ Shape(stack', Nodes) /\ Len(stack') = Len(stack) - 1
                 /\ \A k \in 1 .. Len(stack) - 1 : stack'[k] = stack[k]
<1>1. /\ UNCHANGED <<settings, fs, present, recursive, cut, acl, reply>>
      /\ Frame.left = {} /\ pc = "take"
  BY DEF Return
<1>2. CASE Len(stack) = 1
  BY <1>1, <1>2 DEF Return
<1>3. CASE Len(stack) # 1
  <2>1. pc' = "info" /\ stack' = Front(stack) /\ out' = Append(out, Up)
    BY <1>3 DEF Return
  <2>2. Len(stack) > 1
    BY <1>1, <1>3, TopCall
  <2>3. Shape(stack, Nodes)
    BY DEF Types
  <2> QED
    BY <1>1, <2>1, <2>2, <2>3, CallReturns
<1> QED
  BY <1>2, <1>3

-----------------------------------------------------------------------------
(* Types, and the outcomes of the functions *)

LEMMA InitTypes == Init => Types
<1> SUFFICES ASSUME Init PROVE Types
  OBVIOUS
<1>1. /\ stack = <<>> /\ out = <<>> /\ pc = "idle" /\ recursive = FALSE /\ cut = FALSE
      /\ acl.support = "NONE" /\ reply = NoReply /\ present = Nodes
      /\ settings \in AclSettings
  BY DEF Init, NoAcl
<1>2. Shape(stack, Nodes) /\ DOMAIN stack = {}
  BY <1>1 DEF Shape
<1>3. out \in Seq(Seq(Nodes))
  BY <1>1
<1>4. recursive \in BOOLEAN /\ cut \in BOOLEAN
  BY <1>1, Zenon
<1> QED
  BY <1>1, <1>2, <1>3, <1>4 DEF Types, TypeOK, Supports

\* A reply leaves the variables of the listing empty.
LEMMA ReplyTypes ==
    ASSUME Types, NEW cmd, NEW outcome, Reply(cmd, outcome), outcome \in Outcomes(cmd),
           acl'.support \in Supports, UNCHANGED <<settings, fs, present>>
    PROVE  Types'
<1>1. /\ stack' = <<>> /\ out' = <<>> /\ pc' = "idle" /\ recursive' = FALSE
      /\ cut' = FALSE /\ reply' = [cmd |-> cmd, outcome |-> outcome]
  BY DEF Reply
<1>2. Nodes' = Nodes /\ settings' \in AclSettings /\ present' \subseteq Nodes
  BY DEF Nodes, Types, TypeOK
<1>3. Shape(stack', Nodes) /\ DOMAIN stack' = {}
  BY <1>1 DEF Shape
<1>4. out' \in Seq(Seq(Nodes))
  BY <1>1
<1>5. recursive' \in BOOLEAN /\ cut' \in BOOLEAN
  BY <1>1, Zenon
<1>6. reply'.outcome \in Outcomes(reply'.cmd)
  BY <1>1
<1> QED
  BY <1>1, <1>2, <1>3, <1>4, <1>5, <1>6 DEF Types, TypeOK

\* What the types are after a step of a listing.
LEMMA WalkTypes ==
    ASSUME Types, UNCHANGED <<settings, fs, recursive, acl>>,
           present' \subseteq present, reply' \in {reply, NoReply},
           pc' \in {"take", "listdir", "info", "end"}, cut' \in BOOLEAN,
           Shape(stack', Nodes), stack' # <<>>, out' \in Seq(Seq(Nodes))
    PROVE  Types'
<1>1. Nodes' = Nodes
  BY DEF Nodes
<1>2. \A i \in DOMAIN stack' : /\ stack'[i].path \in Seq(Nodes)
                               /\ stack'[i].left \subseteq Nodes /\ stack'[i].entry \in Nodes
  <2>1. \A i \in DOMAIN stack' : stack'[i] \in FrameType(Nodes)
    BY DEF Shape
  <2> QED
    BY <2>1 DEF FrameType
<1>3. reply' # NoReply => reply'.outcome \in Outcomes(reply'.cmd)
  BY DEF Types, TypeOK
<1> QED
  BY <1>1, <1>2, <1>3 DEF Types, TypeOK

LEMMA ListReplies ==
    /\ \A o \in {Outcome(<<>>, TRUE), Outcome(<<"FAILED">>, FALSE), Outcome(<<"OK">>, FALSE),
                 Outcome(<<"OK">>, TRUE)} : o \in Outcomes("TSI_LS")
    /\ \A o \in {Outcome(<<>>, TRUE), Outcome(<<"OK">>, FALSE), Outcome(<<"FAILED">>, FALSE)} :
           o \in Outcomes("TSI_DF")
    /\ Outcome(<<>>, TRUE) \in Outcomes("TSI_FILE_ACL")
<1>1. /\ Outcomes("TSI_LS") = ListReply /\ Outcomes("TSI_DF") = OneReply
      /\ Outcomes("TSI_FILE_ACL") = AclReply
  BY DEF Outcomes, DataCommands
<1> QED
  BY <1>1, Zenon DEF ListReply, OneReply, AclReply

\* Every step keeps the types and the shape of the calls, and the outcomes are
\* those of Replies.
LEMMA NextTypes ==
    ASSUME Types, [Next]_vars
    PROVE  Types'
<1>1. /\ out \in Seq(Seq(Nodes)) /\ cut \in BOOLEAN /\ Shape(stack, Nodes)
      /\ NoAcl.support \in Supports /\ acl.support \in Supports
  BY DEF Types, TypeOK, NoAcl, Supports
<1>2. CASE FileRemoved
  <2>1. /\ UNCHANGED <<settings, fs, pc, recursive, stack, out, cut, acl, reply>>
        /\ present' \subseteq present
    BY <1>2 DEF FileRemoved, lsvars
  <2>2. Nodes' = Nodes
    BY <2>1 DEF Nodes
  <2> QED
    BY <2>1, <2>2 DEF Types, TypeOK
<1>3. CASE LsRefused
  BY <1>1, <1>3, ListReplies, ReplyTypes DEF LsRefused
<1>4. CASE Ls
  <2>1. PICK mode \in {"A", "N", "R"}, node \in Nodes :
            /\ pc' = IF ~Resolves(<<node>>) THEN "end"
                     ELSE IF IsDir(<<node>>) /\ mode # "A" THEN "listdir" ELSE "single"
            /\ recursive' = (mode = "R")
            /\ stack' = <<[path |-> <<node>>, left |-> {}, entry |-> node]>>
    BY <1>4 DEF Ls
  <2>2. /\ out' = <<>> /\ cut' = FALSE /\ acl' = NoAcl /\ reply' = NoReply
        /\ UNCHANGED <<settings, fs, present>>
    BY <1>4 DEF Ls
  <2>3. Nodes' = Nodes
    BY <2>2 DEF Nodes
  <2> DEFINE frame == [path |-> <<node>>, left |-> {}, entry |-> node]
  <2>4. frame \in FrameType(Nodes) /\ Len(frame.path) = 1
    BY DEF FrameType
  <2>5. /\ stack' \in Seq(FrameType(Nodes)) /\ Len(stack') = 1 /\ stack'[1] = frame
        /\ DOMAIN stack' = 1 .. 1 /\ stack' # <<>>
    <3> HIDE DEF frame
    <3>1. stack' = <<frame>>
      BY <2>1 DEF frame
    <3> QED
      BY <2>4, <3>1
  <2>6. Shape(stack', Nodes)
    <3> HIDE DEF frame
    <3>1. \A k \in DOMAIN stack' : k = 1
      BY <2>5
    <3>2. \A m \in DOMAIN stack' : 1 .. m - 1 = {}
      BY <2>5
    <3> QED
      BY <2>4, <2>5, <3>1, <3>2 DEF Shape
  <2>7. \A i \in DOMAIN stack' : /\ stack'[i].path \in Seq(Nodes)
                                 /\ stack'[i].left \subseteq Nodes /\ stack'[i].entry \in Nodes
    <3>1. \A i \in DOMAIN stack' : stack'[i] \in FrameType(Nodes)
      BY <2>5
    <3> QED
      BY <3>1 DEF FrameType
  <2>8. recursive' \in BOOLEAN /\ cut' \in BOOLEAN
    BY <2>1, <2>2, Zenon
  <2>9. out' \in Seq(Seq(Nodes))
    BY <2>2
  <2>10. pc' \in {"end", "listdir", "single"}
    BY <2>1
  <2> QED
    BY <1>1, <2>2, <2>3, <2>5, <2>6, <2>7, <2>8, <2>9, <2>10 DEF Types, TypeOK
<1>5. CASE ListDir
  <2>1. pc # "idle" /\ stack # <<>>
    BY <1>5 DEF ListDir, Types
  <2>2. CASE pc' = "end" /\ cut' = TRUE /\ stack' = stack
    <3>1. cut' \in BOOLEAN
      BY <2>2, Zenon
    <3> QED
      BY <1>1, <1>5, <2>1, <2>2, <3>1, ListDirStep, WalkTypes
  <2>3. CASE ~ (pc' = "end" /\ cut' = TRUE /\ stack' = stack)
    <3>1. /\ UNCHANGED <<settings, fs, present, recursive, out, acl, reply>>
          /\ pc' = "take" /\ cut' = cut /\ Shape(stack', Nodes) /\ Len(stack') = Len(stack)
      BY <1>5, <2>3, ListDirStep
    <3>2. stack' # <<>>
      BY <2>1, <3>1, TopCall
    <3> QED
      BY <1>1, <3>1, <3>2, WalkTypes
  <2> QED
    BY <2>2, <2>3
<1>6. CASE TakeEntry
  <2>1. pc # "idle"
    BY <1>6 DEF TakeEntry
  <2>2. /\ UNCHANGED <<settings, fs, present, recursive, out, cut, acl, reply>>
        /\ pc' \in {"info", "listdir"} /\ Shape(stack', Nodes)
        /\ Len(stack') = Len(stack) \/ Len(stack') = Len(stack) + 1
    BY <1>6, TakeEntryStep
  <2>3. stack' # <<>>
    BY <2>1, <2>2, TopCall
  <2> QED
    BY <1>1, <2>2, <2>3, WalkTypes
<1>7. CASE Return
  <2>1. /\ UNCHANGED <<settings, fs, present, recursive, cut, acl, reply>> /\ pc = "take"
        /\ \/ pc' = "end" /\ Len(stack) = 1 /\ stack' = stack /\ out' = out
           \/ /\ pc' = "info" /\ Len(stack) > 1 /\ out' = Append(out, Up)
              /\ Shape(stack', Nodes) /\ Len(stack') = Len(stack) - 1
    BY <1>7, ReturnStep
  <2>2. Up \in Seq(Nodes)
    BY DEF Up
  <2>3. out' \in Seq(Seq(Nodes))
    <3>1. \A lines \in Seq(Seq(Nodes)), line \in Seq(Nodes) :
              Append(lines, line) \in Seq(Seq(Nodes))
      OBVIOUS
    <3> QED
      BY <1>1, <2>1, <2>2, <3>1
  <2>4. Shape(stack', Nodes) /\ stack' # <<>>
    <3>1. Len(stack) \in Nat
      BY <2>1, TopCall
    <3>2. CASE stack' = stack
      BY <1>1, <2>1, <3>2 DEF Types
    <3>3. CASE Shape(stack', Nodes) /\ Len(stack) > 1 /\ Len(stack') = Len(stack) - 1
      <4>1. Len(stack') # 0
        BY <3>1, <3>3
      <4> QED
        BY <3>3, <4>1
    <3> QED
      BY <2>1, <3>2, <3>3
  <2> QED
    BY <1>1, <2>1, <2>3, <2>4, WalkTypes
<1>8. CASE Info
  <2>1. /\ UNCHANGED <<settings, fs, present, recursive, stack, cut, acl, reply>>
        /\ pc = "info" /\ pc' = "take" /\ (out' = Append(out, EntryPath) \/ out' = out)
    BY <1>8 DEF Info
  <2>2. EntryPath \in Seq(Nodes)
    BY <2>1, TopCall DEF EntryPath
  <2>3. out' \in Seq(Seq(Nodes))
    BY <1>1, <2>1, <2>2
  <2>4. Shape(stack', Nodes) /\ stack' # <<>>
    BY <1>1, <2>1 DEF Types
  <2> QED
    BY <1>1, <2>1, <2>3, <2>4, WalkTypes
<1>9. CASE SingleInfo
  <2>1. UNCHANGED <<settings, fs, present, acl>> /\ pc = "single"
    BY <1>9 DEF SingleInfo
  <2>2. CASE Resolves(Frame.path) /\ Target(Last(Frame.path)) \notin fs.named
    <3>1. Reply("TSI_LS", Outcome(<<"OK">>, TRUE))
      BY <1>9, <2>2 DEF SingleInfo
    <3> QED
      BY <1>1, <2>1, <3>1, ListReplies, ReplyTypes
  <2>3. CASE ~ (Resolves(Frame.path) /\ Target(Last(Frame.path)) \notin fs.named)
    <3>1. /\ pc' = "end" /\ UNCHANGED <<recursive, stack, reply>>
          /\ cut' = ~Resolves(Frame.path)
          /\ out' = IF Resolves(Frame.path) THEN <<Frame.path>> ELSE <<>>
      BY <1>9, <2>3 DEF SingleInfo
    <3>2. Frame.path \in Seq(Nodes)
      BY <2>1, TopCall
    <3>3. out' \in Seq(Seq(Nodes))
      <4> DEFINE path == Frame.path
      <4>1. out' \in {<<path>>, <<>>} /\ path \in Seq(Nodes)
        BY <3>1, <3>2
      <4> HIDE DEF path
      <4>2. <<path>> \in Seq(Seq(Nodes))
        BY <4>1
      <4>3. <<>> \in Seq(Seq(Nodes))
        OBVIOUS
      <4> QED
        BY <4>1, <4>2, <4>3
    <3>4. cut' \in BOOLEAN
      BY <3>1
    <3>5. Shape(stack', Nodes) /\ stack' # <<>>
      BY <1>1, <2>1, <3>1 DEF Types
    <3> QED
      BY <2>1, <3>1, <3>3, <3>4, <3>5, WalkTypes
  <2> QED
    BY <2>2, <2>3
<1>10. CASE LsEnd
  BY <1>1, <1>10, ListReplies, ReplyTypes DEF LsEnd
<1>11. CASE FileAclRequest
  <2>1. PICK rq \in AclRequests :
            /\ acl' = [path |-> rq.path, support |-> CheckSupport(settings, rq.path)]
            /\ \E outcome \in ProcessAcl(rq.operation, CheckSupport(settings, rq.path),
                                         rq.command, rq.spec) :
                   Reply("TSI_FILE_ACL", outcome)
    BY <1>11 DEF FileAclRequest
  <2>2. /\ rq.operation \in {"CHECK_SUPPORT", "GETFACL", "SETFACL", "other"}
        /\ rq.path \in Seq(STRING) /\ rq.command \in AclCommands \cup {Missing}
    BY RequestsAssumption
  <2>3. settings \in AclSettings
    BY DEF Types
  <2>4. CheckSupport(settings, rq.path) \in Supports
    BY <2>2, <2>3, SupportTypes
  <2>5. PICK outcome \in ProcessAcl(rq.operation, CheckSupport(settings, rq.path),
                                    rq.command, rq.spec) :
            Reply("TSI_FILE_ACL", outcome)
    BY <2>1
  <2>6. outcome \in Outcomes("TSI_FILE_ACL")
    BY <2>2, <2>4, AclOutcomes
  <2>7. acl'.support \in Supports
    BY <2>1, <2>4
  <2> QED
    BY <1>11, <2>5, <2>6, <2>7, ReplyTypes DEF FileAclRequest
<1>12. CASE FileAclRaises
  BY <1>1, <1>12, ListReplies, ReplyTypes DEF FileAclRaises
<1>13. CASE Df
  BY <1>1, <1>13, ListReplies, ReplyTypes DEF Df
<1>14. CASE UNCHANGED vars
  <2>1. Nodes' = Nodes
    BY <1>14 DEF vars, Nodes
  <2> QED
    BY <1>14, <2>1 DEF vars, Types, TypeOK
<1> QED
  BY <1>2, <1>3, <1>4, <1>5, <1>6, <1>7, <1>8, <1>9, <1>10, <1>11, <1>12, <1>13, <1>14
     DEF Next, LsStep

LEMMA TypesAlways == Spec => []Types
<1>1. Init => Types
  BY InitTypes
<1>2. Types /\ [Next]_vars => Types'
  BY NextTypes
<1> QED
  BY <1>1, <1>2, PTL DEF Spec

\* The file functions keep the types of their variables, and what they write is
\* what the request loop is modelled with: ls and df reply once or raise, and
\* process_acl, whatever parameters are missing, writes one of its ten outcomes.
THEOREM FunctionTypes == Spec => []TypeOK
<1>1. Types => TypeOK
  BY DEF Types
<1> QED
  BY <1>1, TypesAlways, PTL

-----------------------------------------------------------------------------
(* The settings of ACLs *)

\* the support of the last request is what check_support found for its path
AclInv ==
    /\ acl.path \in Seq(STRING)
    /\ acl.support = CheckSupport(settings, acl.path)

\* For no path there is no support.
LEMMA NoSupport ==
    ASSUME NEW setting \in AclSettings
    PROVE  CheckSupport(setting, <<>>) = "NONE"
<1>0. setting \in Seq(Entries)
  BY SettingsAssumption DEF Entries
<1>1. \A i \in DOMAIN setting : setting[i] \in Entries
  BY <1>0
<1>2. \A i \in DOMAIN setting : setting[i].path \in Seq(STRING) /\ setting[i].path # <<>>
  BY <1>1 DEF Entries
<1>3. \A p \in Seq(STRING) : p # <<>> => Len(p) \in Nat /\ Len(p) > 0
  OBVIOUS
<1>4. \A i \in DOMAIN setting : Len(setting[i].path) \in Nat /\ Len(setting[i].path) > 0
  BY <1>2, <1>3
<1>5. \A i \in DOMAIN setting : ~ (Len(setting[i].path) <= 0)
  BY <1>4
<1>6. Len(<<>>) = 0
  OBVIOUS
<1>7. Matches(setting, <<>>) = {}
  BY <1>5, <1>6 DEF Matches, IsPrefix
<1> QED
  BY <1>7, CheckSupportIs

LEMMA NoAclInv ==
    ASSUME settings \in AclSettings
    PROVE  /\ NoAcl.path \in Seq(STRING)
           /\ NoAcl.support = CheckSupport(settings, NoAcl.path)
<1>1. NoAcl.path = <<>> /\ NoAcl.support = "NONE"
  BY DEF NoAcl
<1> QED
  BY <1>1, NoSupport

LEMMA NextAcl ==
    ASSUME Types, AclInv, [Next]_vars
    PROVE  AclInv'
<1>1. settings \in AclSettings
  BY DEF Types
<1>2. ASSUME acl' = acl \/ acl' = NoAcl, settings' = settings
      PROVE  AclInv'
  BY <1>1, <1>2, NoAclInv DEF AclInv
<1>3. CASE FileAclRequest
  <2>1. PICK rq \in AclRequests :
            acl' = [path |-> rq.path, support |-> CheckSupport(settings, rq.path)]
    BY <1>3 DEF FileAclRequest
  <2>2. rq.path \in Seq(STRING)
    BY RequestsAssumption
  <2>3. settings' = settings
    BY <1>3 DEF FileAclRequest
  <2> QED
    BY <2>1, <2>2, <2>3 DEF AclInv
<1>4. CASE LsRefused \/ Ls \/ FileAclRaises \/ Df
  BY <1>2, <1>4 DEF LsRefused, Ls, FileAclRaises, Df
<1>5. CASE FileRemoved \/ LsStep
  BY <1>2, <1>5 DEF FileRemoved, LsStep, ListDir, TakeEntry, Return, Info, SingleInfo, LsEnd
<1>6. CASE UNCHANGED vars
  BY <1>2, <1>6 DEF vars
<1> QED
  BY <1>3, <1>4, <1>5, <1>6 DEF Next

\* check_support, for any tsi.acl: the longest match is the setting of the most
\* specific directory that the path is in, wherever it stands in the file, for
\* paths without ".." that begin with no configured directory they are not in.
THEOREM AclConfigured == Spec => []AclAsConfigured
<1>1. Init => AclInv
  <2> SUFFICES ASSUME Init PROVE AclInv
    OBVIOUS
  <2>1. settings \in AclSettings /\ acl = NoAcl
    BY DEF Init
  <2> QED
    BY <2>1, NoAclInv DEF AclInv
<1>2. Types /\ AclInv /\ [Next]_vars => AclInv'
  BY NextAcl
<1>3. Types /\ AclInv => AclAsConfigured
  BY MostSpecificFound DEF Types, AclInv, AclAsConfigured
<1> QED
  BY <1>1, <1>2, <1>3, TypesAlways, PTL DEF Spec

-----------------------------------------------------------------------------
(* No path has two lines *)

LEMMA RangeAppended ==
    ASSUME NEW X, NEW s \in Seq(X), NEW x \in X
    PROVE  Range(Append(s, x)) = Range(s) \cup {x}
<1> DEFINE t == Append(s, x)
<1>1. /\ DOMAIN s = 1 .. Len(s) /\ DOMAIN t = 1 .. Len(s) + 1 /\ Len(s) \in Nat
      /\ t[Len(s) + 1] = x /\ \A i \in 1 .. Len(s) : t[i] = s[i]
  OBVIOUS
<1> HIDE DEF t
<1>2. \A i \in 1 .. Len(s) + 1 : i \in 1 .. Len(s) \/ i = Len(s) + 1
  BY <1>1
<1>3. Len(s) + 1 \in 1 .. Len(s) + 1 /\ \A i \in 1 .. Len(s) : i \in 1 .. Len(s) + 1
  BY <1>1
<1> QED
  BY <1>1, <1>2, <1>3 DEF Range, t

\* A line that is new, or only "<", is added.
LEMMA UniqueAppended ==
    ASSUME NEW X, NEW s \in Seq(X), NEW x \in X, x \notin Range(s) \/ x = Up,
           \A i, k \in DOMAIN s : s[i] = s[k] => i = k \/ s[i] = Up
    PROVE  \A i, k \in DOMAIN Append(s, x) :
               Append(s, x)[i] = Append(s, x)[k] => i = k \/ Append(s, x)[i] = Up
<1> DEFINE t == Append(s, x)
<1>1. /\ DOMAIN s = 1 .. Len(s) /\ DOMAIN t = 1 .. Len(s) + 1 /\ Len(s) \in Nat
      /\ t[Len(s) + 1] = x /\ \A i \in 1 .. Len(s) : t[i] = s[i]
  OBVIOUS
<1> HIDE DEF t
<1>2. \A i \in 1 .. Len(s) + 1 : i \in 1 .. Len(s) \/ i = Len(s) + 1
  BY <1>1
<1>3. \A i \in 1 .. Len(s) : s[i] \in Range(s)
  BY <1>1 DEF Range
<1> SUFFICES ASSUME NEW i \in DOMAIN t, NEW k \in DOMAIN t, t[i] = t[k], i # k
             PROVE  t[i] = Up
  BY DEF t
<1>4. CASE i \in 1 .. Len(s) /\ k \in 1 .. Len(s)
  BY <1>1, <1>4
<1>5. CASE i = Len(s) + 1 /\ k \in 1 .. Len(s)
  BY <1>1, <1>3, <1>5
<1>6. CASE i \in 1 .. Len(s) /\ k = Len(s) + 1
  BY <1>1, <1>3, <1>6
<1> QED
  BY <1>1, <1>2, <1>4, <1>5, <1>6

\* The path of an entry.
LEMMA PathFacts ==
    ASSUME Types, NEW k \in DOMAIN stack, NEW e \in Nodes
    PROVE  /\ k \in Nat /\ k >= 1 /\ PathOf(k, e) \in Seq(Nodes) /\ Len(PathOf(k, e)) = k + 1
           /\ PathOf(k, e)[k + 1] = e
           /\ \A i \in 1 .. k : PathOf(k, e)[i] = stack[k].path[i]
           /\ stack[k].path \in Seq(Nodes) /\ Len(stack[k].path) = k
           /\ stack[k].left \in SUBSET Nodes /\ stack[k].entry \in Nodes
<1>1. /\ stack \in Seq(FrameType(Nodes)) /\ Len(stack[k].path) = k
  BY DEF Types, Shape
<1>2. stack[k] \in FrameType(Nodes) /\ k \in Nat /\ k >= 1
  BY <1>1
<1> DEFINE path == stack[k].path
<1>3. path \in Seq(Nodes) /\ stack[k].left \in SUBSET Nodes /\ stack[k].entry \in Nodes
  BY <1>2 DEF FrameType
<1>4. Len(path) = k /\ PathOf(k, e) = Append(path, e)
  BY <1>1 DEF PathOf
<1> HIDE DEF path
<1>5. /\ PathOf(k, e) \in Seq(Nodes) /\ Len(PathOf(k, e)) = k + 1
      /\ PathOf(k, e)[k + 1] = e /\ \A i \in 1 .. k : PathOf(k, e)[i] = path[i]
  BY <1>2, <1>3, <1>4
<1> QED
  BY <1>1, <1>2, <1>3, <1>5 DEF path

\* What is below an entry of a directory is below the directory.
LEMMA BelowEntry ==
    ASSUME Types, NEW k \in DOMAIN stack, NEW e \in Nodes, NEW p \in Seq(Nodes),
           Extends(p, PathOf(k, e))
    PROVE  Extends(p, stack[k].path)
<1>1. /\ k \in Nat /\ Len(PathOf(k, e)) = k + 1 /\ Len(stack[k].path) = k
      /\ \A i \in 1 .. k : PathOf(k, e)[i] = stack[k].path[i]
  BY PathFacts
<1>2. k + 1 <= Len(p) /\ \A i \in 1 .. k + 1 : p[i] = PathOf(k, e)[i]
  BY <1>1 DEF Extends
<1>3. k <= Len(p) /\ \A i \in 1 .. k : i \in 1 .. k + 1
  BY <1>1, <1>2
<1> QED
  BY <1>1, <1>2, <1>3 DEF Extends

\* The path of the entry that a call is at is below no other entry that it, or
\* one of its callers, has still to list.
LEMMA EntriesApart ==
    ASSUME Types, pc # "idle", NEW k \in DOMAIN stack, NEW e \in Nodes,
           e # stack[k].entry
    PROVE  ~ Extends(EntryPath, PathOf(k, e))
<1> DEFINE n == Len(stack)
<1>1. /\ n \in Nat /\ n >= 1 /\ DOMAIN stack = 1 .. n /\ n \in DOMAIN stack
      /\ Frame = stack[n] /\ Frame.entry \in Nodes
  BY TopCall
<1>2. EntryPath = PathOf(n, stack[n].entry)
  BY <1>1 DEF EntryPath, PathOf
<1>3. /\ EntryPath[n + 1] = stack[n].entry
      /\ \A i \in 1 .. n : EntryPath[i] = stack[n].path[i]
  BY <1>1, <1>2, PathFacts
<1>4. Len(PathOf(k, e)) = k + 1 /\ PathOf(k, e)[k + 1] = e /\ k \in Nat /\ k >= 1
  BY PathFacts
<1>5. EntryPath[k + 1] = stack[k].entry
  <2>1. CASE k = n
    BY <1>3, <2>1
  <2>2. CASE k # n
    <3>1. k \in 1 .. n - 1 /\ k + 1 \in 1 .. n
      BY <1>1, <1>4, <2>2
    <3>2. stack[n].path[k + 1] = stack[k].entry
      BY <1>1, <3>1 DEF Types, Shape
    <3> QED
      BY <1>3, <3>1, <3>2
  <2> QED
    BY <2>1, <2>2
<1>6. k + 1 \in 1 .. k + 1
  BY <1>4
<1> QED
  BY <1>4, <1>5, <1>6 DEF Extends

LEMMA InitFresh == Init => FreshInv
  BY DEF Init, FreshInv, Walking

LEMMA NextFresh ==
    ASSUME Types, FreshInv, [Next]_vars
    PROVE  FreshInv'
<1> DEFINE n == Len(stack)
<1>1. out \in Seq(Seq(Nodes)) /\ \A p \in Range(out) : p \in Seq(Nodes)
  BY DEF Types, TypeOK, Range
<1>2. Up \in Seq(Nodes) /\ Len(Up) = 0
  BY DEF Up
<1>3. CASE Ls
  <2>1. PICK node \in Nodes :
            /\ pc' \in {"end", "listdir", "single"}
            /\ stack' = <<[path |-> <<node>>, left |-> {}, entry |-> node]>>
    BY <1>3 DEF Ls
  <2>2. out' = <<>>
    BY <1>3 DEF Ls
  <2>3. Range(out') = {} /\ DOMAIN out' = {}
    BY <2>2 DEF Range
  <2>4. /\ \A k \in DOMAIN stack' : k = 1 /\ stack'[k].left = {}
        /\ Len(stack') = 1
    BY <2>1
  <2>5. \A k \in DOMAIN stack' : ~ AtEntry(k)'
    BY <2>1, <2>4 DEF AtEntry
  <2> QED
    BY <2>3, <2>4, <2>5 DEF FreshInv
<1>4. CASE ListDir
  <2>1. pc = "listdir"
    BY <1>4 DEF ListDir
  <2>2. /\ n \in Nat /\ n >= 1 /\ DOMAIN stack = 1 .. n /\ n \in DOMAIN stack
        /\ Frame = stack[n]
    BY <2>1, TopCall
  <2>3. CASE pc' = "end"
    BY <2>3 DEF FreshInv, Walking
  <2>4. CASE pc' # "end"
    <3>1. /\ out' = out /\ pc' = "take" /\ Shape(stack', Nodes) /\ Len(stack') = n
          /\ stack'[n].path = Frame.path /\ stack'[n].left = Contents(Frame.path)
          /\ \A k \in 1 .. n - 1 : stack'[k] = stack[k]
      BY <1>4, <2>4, ListDirStep
    <3>2. DOMAIN stack' = 1 .. n /\ stack'[n] \in FrameType(Nodes)
      BY <2>2, <3>1 DEF Shape
    <3>3. stack'[n].left \in SUBSET Nodes
      BY <3>2 DEF FrameType
    <3>4. ASSUME NEW k \in DOMAIN stack'
          PROVE  /\ \A e \in stack'[k].left : \A p \in Range(out') : ~ Extends(p, PathOf(k, e)')
                 /\ AtEntry(k)' => /\ stack'[k].entry \notin stack'[k].left
                                   /\ Append(stack'[k].path, stack'[k].entry) \notin Range(out')
      <4>1. CASE k = n
        <5>1. ~ AtEntry(k)'
          BY <2>2, <3>1, <4>1 DEF AtEntry
        <5>2. ASSUME NEW e \in stack'[k].left, NEW p \in Range(out'), Extends(p, PathOf(k, e)')
              PROVE  FALSE
          <6>1. PathOf(k, e)' = PathOf(n, e) /\ p \in Range(out)
            BY <2>2, <3>1, <4>1 DEF PathOf
          <6>2. e \in Nodes /\ p \in Seq(Nodes)
            BY <1>1, <3>3, <4>1, <6>1
          <6>3. Extends(p, Frame.path)
            BY <2>2, <5>2, <6>1, <6>2, BelowEntry
          <6> QED
            BY <2>1, <6>1, <6>3 DEF FreshInv, Walking
        <5> QED
          BY <5>1, <5>2
      <4>2. CASE k \in 1 .. n - 1
        <5>1. stack'[k] = stack[k] /\ k \in DOMAIN stack /\ AtEntry(k)
          BY <2>2, <3>1, <4>2 DEF AtEntry
        <5> QED
          BY <2>1, <3>1, <5>1 DEF FreshInv, Walking, PathOf
      <4> QED
        BY <2>2, <3>2, <4>1, <4>2
    <3> QED
      BY <2>1, <3>1, <3>4 DEF FreshInv, Walking, PathOf
  <2> QED
    BY <2>3, <2>4
<1>5. CASE TakeEntry
  <2>1. pc = "take"
    BY <1>5 DEF TakeEntry
  <2>2. /\ n \in Nat /\ n >= 1 /\ DOMAIN stack = 1 .. n /\ n \in DOMAIN stack
        /\ Frame = stack[n] /\ Frame.left \in SUBSET Nodes
    BY <2>1, TopCall
  <2>3. PICK e \in Frame.left :
            /\ Shape(stack', Nodes)
            /\ stack'[n].path = Frame.path
            /\ stack'[n].left = Frame.left \ {e}
            /\ stack'[n].entry = e
            /\ \A k \in 1 .. n - 1 : stack'[k] = stack[k]
            /\ \/ pc' = "info" /\ Len(stack') = n
               \/ /\ pc' = "listdir" /\ Len(stack') = n + 1
                  /\ stack'[n + 1].path = Append(Frame.path, e)
                  /\ stack'[n + 1].left = {}
    BY <1>5, TakeEntryStep
  <2>4. out' = out
    BY <1>5, TakeEntryStep
  <2>5. PathOf(n, e) = Append(Frame.path, e) /\ e \in Nodes
    BY <2>2 DEF PathOf
  <2>6. \A p \in Range(out) : ~ Extends(p, PathOf(n, e))
    BY <2>1, <2>2 DEF FreshInv, Walking
  <2>7. PathOf(n, e) \notin Range(out)
    <3>1. Extends(PathOf(n, e), PathOf(n, e))
      <4>1. Len(PathOf(n, e)) \in Nat
        BY <2>2, <2>5, PathFacts
      <4> QED
        BY <4>1 DEF Extends
    <3> QED
      BY <2>6, <3>1
  <2>8. DOMAIN stack' = 1 .. Len(stack') /\ Len(stack') \in Nat
    BY <2>3 DEF Shape
  <2>9. ASSUME NEW k \in DOMAIN stack'
        PROVE  /\ \A f \in stack'[k].left : \A p \in Range(out') : ~ Extends(p, PathOf(k, f)')
               /\ AtEntry(k)' => /\ stack'[k].entry \notin stack'[k].left
                                 /\ Append(stack'[k].path, stack'[k].entry) \notin Range(out')
    <3>1. CASE k = n
      <4>1. \A f : PathOf(k, f)' = PathOf(n, f)
        BY <2>2, <2>3, <3>1 DEF PathOf
      <4>2. \A f \in Frame.left : \A p \in Range(out) : ~ Extends(p, PathOf(n, f))
        BY <2>1, <2>2 DEF FreshInv, Walking
      <4>3. Append(stack'[k].path, stack'[k].entry) = PathOf(n, e)
        BY <2>3, <2>5, <3>1
      <4>4. \A f \in stack'[k].left : f \in Frame.left
        BY <2>3, <3>1
      <4>5. stack'[k].entry = e /\ e \notin stack'[k].left
        BY <2>3, <3>1
      <4> QED
        BY <2>4, <2>7, <4>1, <4>2, <4>3, <4>4, <4>5
    <3>2. CASE k \in 1 .. n - 1
      <4>1. stack'[k] = stack[k] /\ k \in DOMAIN stack /\ AtEntry(k)
        BY <2>2, <2>3, <3>2 DEF AtEntry
      <4> QED
        BY <2>1, <2>4, <4>1 DEF FreshInv, Walking, PathOf
    <3>3. CASE k = n + 1 /\ pc' = "listdir"
      <4>1. Len(stack') = n + 1 /\ stack'[k].left = {}
        BY <2>3, <3>3
      <4>2. ~ AtEntry(k)'
        BY <2>2, <3>3, <4>1 DEF AtEntry
      <4> QED
        BY <4>1, <4>2
    <3>4. k = n \/ k \in 1 .. n - 1 \/ (k = n + 1 /\ pc' = "listdir")
      <4>1. CASE Len(stack') = n
        BY <2>2, <2>8, <4>1
      <4>2. CASE Len(stack') = n + 1 /\ pc' = "listdir"
        BY <2>2, <2>8, <4>2
      <4> QED
        BY <2>3, <4>1, <4>2
    <3> QED
      BY <3>1, <3>2, <3>3, <3>4
  <2>10. pc' = "listdir" => \A p \in Range(out') : ~ Extends(p, Frame.path')
    BY <2>3, <2>4, <2>5, <2>6 DEF Frame
  <2> QED
    BY <2>1, <2>4, <2>9, <2>10 DEF FreshInv, Walking, PathOf
<1>6. CASE Return
  <2>1. pc = "take"
    BY <1>6, ReturnStep
  <2>2. /\ n \in Nat /\ n >= 1 /\ DOMAIN stack = 1 .. n
    BY <2>1, TopCall
  <2>3. CASE pc' = "end"
    BY <2>3 DEF FreshInv, Walking
  <2>4. CASE pc' # "end"
    <3>1. /\ pc' = "info" /\ n > 1 /\ out' = Append(out, Up)
          /\ Shape(stack', Nodes) /\ Len(stack') = n - 1
          /\ \A k \in 1 .. n - 1 : stack'[k] = stack[k]
      BY <1>6, <2>4, ReturnStep
    <3>2. DOMAIN stack' = 1 .. n - 1
      BY <2>2, <3>1 DEF Shape
    <3>3. Range(out') \subseteq Range(out) \cup {Up}
      BY <1>1, <1>2, <3>1, RangeAppended
    <3>4. \A i, k \in DOMAIN out' : out'[i] = out'[k] => i = k \/ out'[i] = Up
      <4>1. \A i, k \in DOMAIN out : out[i] = out[k] => i = k \/ out[i] = Up
        BY <2>1 DEF FreshInv, Walking
      <4> QED
        BY <1>1, <1>2, <3>1, <4>1, UniqueAppended
    <3>5. ASSUME NEW k \in DOMAIN stack'
          PROVE  /\ \A e \in stack'[k].left : \A p \in Range(out') : ~ Extends(p, PathOf(k, e)')
                 /\ AtEntry(k)' => /\ stack'[k].entry \notin stack'[k].left
                                   /\ Append(stack'[k].path, stack'[k].entry) \notin Range(out')
      <4>1. stack'[k] = stack[k] /\ k \in DOMAIN stack /\ AtEntry(k)
        BY <2>2, <3>1, <3>2 DEF AtEntry
      <4>2. \A e : PathOf(k, e)' = PathOf(k, e)
        BY <4>1 DEF PathOf
      <4>3. \A e \in Nodes : Len(PathOf(k, e)) > 0
        BY <4>1, PathFacts
      <4>4. stack[k].left \in SUBSET Nodes /\ stack[k].entry \in Nodes
        <5>1. Top \in Nodes
          BY DEF Nodes
        <5> QED
          BY <4>1, <5>1, PathFacts
      <4>5. \A e \in Nodes : ~ Extends(Up, PathOf(k, e)) /\ PathOf(k, e) # Up
        <5>1. \A e \in Nodes : Len(PathOf(k, e)) \in Nat
          BY <4>1, PathFacts
        <5> QED
          BY <1>2, <4>3, <5>1 DEF Extends
      <4>6. /\ \A e \in stack[k].left : \A p \in Range(out) : ~ Extends(p, PathOf(k, e))
            /\ stack[k].entry \notin stack[k].left
            /\ PathOf(k, stack[k].entry) \notin Range(out)
        BY <2>1, <4>1 DEF FreshInv, Walking
      <4> QED
        BY <3>3, <4>1, <4>2, <4>4, <4>5, <4>6 DEF PathOf
    <3> QED
      BY <3>1, <3>4, <3>5 DEF FreshInv, PathOf
  <2> QED
    BY <2>3, <2>4
<1>7. CASE Info
  <2>1. /\ pc = "info" /\ pc' = "take" /\ stack' = stack
        /\ (out' = Append(out, EntryPath) \/ out' = out)
    BY <1>7 DEF Info
  <2>2. /\ n \in Nat /\ n >= 1 /\ DOMAIN stack = 1 .. n /\ n \in DOMAIN stack
        /\ Frame = stack[n] /\ Frame.entry \in Nodes
    BY <2>1, TopCall
  <2>3. EntryPath = PathOf(n, stack[n].entry)
    BY <2>2 DEF EntryPath, PathOf
  <2>4. EntryPath \in Seq(Nodes) /\ Len(EntryPath) = n + 1
    BY <2>2, <2>3, PathFacts
  <2>5. EntryPath \notin Range(out)
    BY <2>1, <2>2, <2>3 DEF FreshInv, Walking, AtEntry
  <2>6. \A i, k \in DOMAIN out' : out'[i] = out'[k] => i = k \/ out'[i] = Up
    <3>1. \A i, k \in DOMAIN out : out[i] = out[k] => i = k \/ out[i] = Up
      BY <2>1 DEF FreshInv, Walking
    <3>2. CASE out' = out
      BY <3>1, <3>2
    <3>3. CASE out' = Append(out, EntryPath)
      BY <1>1, <2>4, <2>5, <3>1, <3>3, UniqueAppended
    <3> QED
      BY <2>1, <3>2, <3>3
  <2>7. Range(out') \subseteq Range(out) \cup {EntryPath}
    <3>1. CASE out' = out
      BY <3>1
    <3>2. CASE out' = Append(out, EntryPath)
      BY <1>1, <2>4, <3>2, RangeAppended
    <3> QED
      BY <2>1, <3>1, <3>2
  <2>8. ASSUME NEW k \in DOMAIN stack
        PROVE  /\ \A e \in stack[k].left : \A p \in Range(out') : ~ Extends(p, PathOf(k, e))
               /\ k < n => /\ stack[k].entry \notin stack[k].left
                           /\ PathOf(k, stack[k].entry) \notin Range(out')
    <3>1. AtEntry(k)
      BY <2>1 DEF AtEntry
    <3>2. /\ \A e \in stack[k].left : \A p \in Range(out) : ~ Extends(p, PathOf(k, e))
          /\ stack[k].entry \notin stack[k].left
          /\ PathOf(k, stack[k].entry) \notin Range(out)
      BY <2>1, <3>1 DEF FreshInv, Walking
    <3>3. stack[k].left \in SUBSET Nodes /\ stack[k].entry \in Nodes /\ k \in Nat
      <4>1. Top \in Nodes
        BY DEF Nodes
      <4> QED
        BY <4>1, PathFacts
    <3>4. \A e \in stack[k].left : ~ Extends(EntryPath, PathOf(k, e))
      BY <2>1, <3>2, <3>3, EntriesApart
    <3>5. k < n => PathOf(k, stack[k].entry) # EntryPath
      <4>1. Len(PathOf(k, stack[k].entry)) = k + 1
        BY <3>3, PathFacts
      <4> QED
        BY <2>2, <2>4, <3>3, <4>1
    <3> QED
      BY <2>7, <3>2, <3>4, <3>5
  <2>9. \A k : AtEntry(k)' => k < n
    BY <2>1 DEF AtEntry
  <2> QED
    BY <2>1, <2>6, <2>8, <2>9 DEF FreshInv, PathOf
<1>8. CASE UNCHANGED <<pc, stack, out>>
  BY <1>8 DEF FreshInv, Walking, AtEntry, PathOf, Frame
<1>9. CASE pc' \in {"idle", "end"}
  BY <1>9 DEF FreshInv, Walking
<1>10. CASE FileRemoved \/ UNCHANGED vars
  BY <1>8, <1>10 DEF FileRemoved, vars, lsvars
<1>11. CASE LsRefused \/ SingleInfo \/ LsEnd \/ FileAclRequest \/ FileAclRaises \/ Df
  BY <1>9, <1>11 DEF LsRefused, SingleInfo, LsEnd, FileAclRequest, FileAclRaises, Df, Reply
<1> QED
  BY <1>3, <1>4, <1>5, <1>6, <1>7, <1>10, <1>11 DEF Next, LsStep

LEMMA FreshAlways == Spec => []FreshInv
<1>1. Init => FreshInv
  BY InitFresh
<1>2. Types /\ FreshInv /\ [Next]_vars => FreshInv'
  BY NextFresh
<1> QED
  BY <1>1, <1>2, TypesAlways, PTL DEF Spec

-----------------------------------------------------------------------------
(* The completeness of a listing *)

\* the definitions of the component, in terms of the ones above
LEMMA SameDefinitions ==
    /\ \A p : Resolves(p) <=> Reached(fs, present, p)
    /\ \A p : IsDir(p) <=> Directory(fs, present, p)
    /\ \A p : Contents(p) = Inside(fs, present, p)
    /\ \A e : Target(e) = Goal(fs, e)
  BY DEF Resolves, LinksIn, IsDir, Contents, Target, Reached, Directory, Inside, Goal

\* What is complete stays complete when files are removed and lines are added.
LEMMA LessToList ==
    ASSUME NEW f, NEW pr, NEW qr \in SUBSET pr, NEW o, NEW u, Range(o) \subseteq Range(u), NEW d
    PROVE  /\ Inside(f, qr, d) \subseteq Inside(f, pr, d)
           /\ \A e : Listed(f, pr, o, d, e) => Listed(f, qr, u, d, e)
           /\ Complete(f, pr, o, d) => Complete(f, qr, u, d)
<1>1. \A p : Reached(f, qr, p) => Reached(f, pr, p)
  BY DEF Reached
<1>2. Inside(f, qr, d) \subseteq Inside(f, pr, d)
  BY DEF Inside
<1>3. \A e : Listed(f, pr, o, d, e) => Listed(f, qr, u, d, e)
  BY <1>1 DEF Listed
<1> QED
  BY <1>1, <1>2, <1>3 DEF Complete, Directory

LEMMA InitComplete == Init => CompleteInv
  BY DEF Init, CompleteInv, Walking

LEMMA NextComplete ==
    ASSUME Types, CompleteInv, [Next]_vars
    PROVE  CompleteInv'
<1> DEFINE n == Len(stack)
<1>1. out \in Seq(Seq(Nodes)) /\ Up \in Seq(Nodes)
  BY DEF Types, TypeOK, Up
<1>3. CASE Ls
  <2>1. PICK node \in Nodes :
            /\ pc' \in {"end", "listdir", "single"}
            /\ stack' = <<[path |-> <<node>>, left |-> {}, entry |-> node]>>
    BY <1>3 DEF Ls
  <2>2. out' = <<>>
    BY <1>3 DEF Ls
  <2>3. Range(out') = {}
    BY <2>2 DEF Range
  <2>4. \A k \in DOMAIN stack' : k = 1 /\ Len(stack') = 1
    BY <2>1
  <2> QED
    BY <2>1, <2>3, <2>4 DEF CompleteInv, CallsInv, BelowInv, Walking
<1>4. CASE ListDir
  <2>1. pc = "listdir"
    BY <1>4 DEF ListDir
  <2>2. /\ n \in Nat /\ n >= 1 /\ DOMAIN stack = 1 .. n /\ n \in DOMAIN stack
        /\ Frame = stack[n]
    BY <2>1, TopCall
  <2>3. CASE pc' = "end"
    BY <2>3 DEF CompleteInv, Walking
  <2>4. CASE pc' # "end"
    <3>1. /\ fs' = fs /\ present' = present /\ recursive' = recursive
          /\ out' = out /\ pc' = "take" /\ Shape(stack', Nodes) /\ Len(stack') = n
          /\ stack'[n].path = Frame.path /\ stack'[n].left = Contents(Frame.path)
          /\ \A k \in 1 .. n - 1 : stack'[k] = stack[k]
      BY <1>4, <2>4, ListDirStep
    <3>2. DOMAIN stack' = 1 .. n
      BY <2>2, <3>1 DEF Shape
    <3>3. ASSUME NEW k \in DOMAIN stack', NEW e \in Inside(fs, present, stack'[k].path)
          PROVE  \/ e \in stack'[k].left
                 \/ AtEntry(k)' /\ e = stack'[k].entry
                 \/ Listed(fs, present, out, stack'[k].path, e)
      <4>1. CASE k = n
        BY <3>1, <3>3, <4>1, SameDefinitions
      <4>2. CASE k \in 1 .. n - 1
        <5>1. stack'[k] = stack[k] /\ k \in DOMAIN stack /\ k < n /\ AtEntry(k)'
          BY <2>2, <3>1, <4>2 DEF AtEntry
        <5> QED
          BY <2>1, <3>3, <5>1 DEF CompleteInv, CallsInv, Walking
      <4> QED
        BY <2>2, <3>2, <4>1, <4>2
    <3>4. CallsInv'
      BY <3>1, <3>3 DEF CallsInv
    <3>5. BelowInv'
      BY <2>1, <3>1 DEF CompleteInv, BelowInv, Walking
    <3> QED
      BY <3>4, <3>5 DEF CompleteInv
  <2> QED
    BY <2>3, <2>4
<1>5. CASE TakeEntry
  <2>1. pc = "take"
    BY <1>5 DEF TakeEntry
  <2>2. /\ n \in Nat /\ n >= 1 /\ DOMAIN stack = 1 .. n /\ n \in DOMAIN stack
        /\ Frame = stack[n] /\ Frame.left \in SUBSET Nodes
    BY <2>1, TopCall
  <2>3. PICK e \in Frame.left :
            /\ Shape(stack', Nodes)
            /\ stack'[n].path = Frame.path
            /\ stack'[n].left = Frame.left \ {e}
            /\ stack'[n].entry = e
            /\ \A k \in 1 .. n - 1 : stack'[k] = stack[k]
            /\ \/ /\ pc' = "info" /\ Len(stack') = n
                  /\ ~ (recursive /\ IsDir(Append(Frame.path, e)))
               \/ pc' = "listdir" /\ Len(stack') = n + 1
    BY <1>5, TakeEntryStep
  <2>4. out' = out /\ fs' = fs /\ present' = present /\ recursive' = recursive
    BY <1>5, TakeEntryStep
  <2>5. DOMAIN stack' = 1 .. Len(stack') /\ Len(stack') \in Nat
    BY <2>3 DEF Shape
  <2>6. ASSUME NEW k \in DOMAIN stack', k < Len(stack') \/ pc' # "listdir",
               NEW f \in Inside(fs, present, stack'[k].path)
        PROVE  \/ f \in stack'[k].left
               \/ AtEntry(k)' /\ f = stack'[k].entry
               \/ Listed(fs, present, out, stack'[k].path, f)
    <3>1. CASE k = n
      <4>1. AtEntry(k)'
        BY <2>2, <2>3, <3>1 DEF AtEntry
      <4>2. \/ f \in Frame.left
            \/ Listed(fs, present, out, stack[n].path, f)
        BY <2>1, <2>2, <2>3, <2>6, <3>1 DEF CompleteInv, CallsInv, Walking, AtEntry
      <4> QED
        BY <2>2, <2>3, <3>1, <4>1, <4>2
    <3>2. CASE k \in 1 .. n - 1
      <4>1. stack'[k] = stack[k] /\ k \in DOMAIN stack /\ k < n /\ AtEntry(k)'
        BY <2>2, <2>3, <3>2 DEF AtEntry
      <4> QED
        BY <2>1, <2>6, <4>1 DEF CompleteInv, CallsInv, Walking
    <3>3. k = n \/ k \in 1 .. n - 1
      <4>1. CASE Len(stack') = n
        BY <2>2, <2>5, <4>1
      <4>2. CASE Len(stack') = n + 1 /\ pc' = "listdir"
        BY <2>2, <2>5, <2>6, <4>2
      <4> QED
        BY <2>3, <4>1, <4>2
    <3> QED
      BY <3>1, <3>2, <3>3
  <2>7. CallsInv'
    BY <2>4, <2>6 DEF CallsInv
  <2>8. BelowInv'
    <3>1. pc' = "info" => EntryPath' = Append(Frame.path, e)
      BY <2>3 DEF EntryPath, Frame
    <3>2. pc' = "info" /\ recursive => Complete(fs, present, out, EntryPath')
      BY <2>3, <3>1, SameDefinitions DEF Complete
    <3> QED
      BY <2>1, <2>4, <3>2 DEF CompleteInv, BelowInv, Walking
  <2> QED
    BY <2>7, <2>8 DEF CompleteInv
<1>6. CASE Return
  <2>1. /\ pc = "take" /\ Frame.left = {}
        /\ fs' = fs /\ present' = present /\ recursive' = recursive
    BY <1>6, ReturnStep
  <2>2. /\ n \in Nat /\ n >= 1 /\ DOMAIN stack = 1 .. n /\ n \in DOMAIN stack
        /\ Frame = stack[n]
    BY <2>1, TopCall
  <2>3. CASE pc' = "end"
    BY <2>3 DEF CompleteInv, Walking
  <2>4. CASE pc' # "end"
    <3>1. /\ pc' = "info" /\ n > 1 /\ out' = Append(out, Up)
          /\ Shape(stack', Nodes) /\ Len(stack') = n - 1
          /\ \A k \in 1 .. n - 1 : stack'[k] = stack[k]
      BY <1>6, <2>4, ReturnStep
    <3>2. DOMAIN stack' = 1 .. n - 1
      BY <2>2, <3>1 DEF Shape
    <3>3. Range(out') \subseteq Range(out) \cup {Up} /\ Range(out) \subseteq Range(out')
      BY <1>1, <3>1, RangeAppended
    <3>4. \A d : Complete(fs, present, out, d) => Complete(fs, present, out', d)
      BY <3>3, LessToList
    <3>5. ASSUME NEW k \in DOMAIN stack', NEW e \in Inside(fs, present, stack'[k].path)
          PROVE  \/ e \in stack'[k].left
                 \/ AtEntry(k)' /\ e = stack'[k].entry
                 \/ Listed(fs, present, out', stack'[k].path, e)
      <4>1. stack'[k] = stack[k] /\ k \in DOMAIN stack /\ k < n /\ AtEntry(k)'
        BY <2>2, <3>1, <3>2 DEF AtEntry
      <4>2. \/ e \in stack[k].left
            \/ e = stack[k].entry
            \/ Listed(fs, present, out, stack[k].path, e)
        BY <2>1, <3>5, <4>1 DEF CompleteInv, CallsInv, Walking
      <4> QED
        BY <3>3, <4>1, <4>2, LessToList
    <3>6. CallsInv'
      BY <2>1, <3>5 DEF CallsInv
    <3>7. EntryPath' = Frame.path
      <4>1. EntryPath' = Append(stack[n - 1].path, stack[n - 1].entry)
        BY <2>2, <3>1 DEF EntryPath, Frame
      <4> DEFINE p == stack[n].path
                 q == stack[n - 1].path
                 m == n - 1
      <4>2. m \in DOMAIN stack /\ m \in Nat /\ m \in 1 .. n - 1 /\ m + 1 = n
        BY <2>2, <3>1
      <4>3. Len(p) = n /\ Len(q) = m
        BY <2>2, <4>2 DEF Types, Shape
      <4>4. /\ \A i \in 1 .. m : stack[n].path[i] = stack[m].path[i]
            /\ stack[n].path[m + 1] = stack[m].entry
        BY <2>2, <4>2 DEF Types, Shape
      <4>5. /\ p \in Seq(Nodes) /\ q \in Seq(Nodes) /\ m \in Nat /\ Len(p) = m + 1
            /\ Len(q) = m /\ \A i \in 1 .. m : p[i] = q[i]
        <5>1. Top \in Nodes
          BY DEF Nodes
        <5>2. p \in Seq(Nodes) /\ q \in Seq(Nodes)
          BY <2>2, <4>2, <5>1, PathFacts
        <5> QED
          BY <4>2, <4>3, <4>4, <5>2
      <4>6. p[m + 1] = stack[n - 1].entry
        BY <4>4
      <4> HIDE DEF p, q, m
      <4>7. p = Append(q, p[m + 1])
        BY <4>5
      <4> QED
        BY <2>2, <4>1, <4>6, <4>7 DEF p, q
    <3>8. Complete(fs, present, out, Frame.path)
      BY <2>1, <2>2 DEF CompleteInv, CallsInv, Walking, AtEntry, Complete
    <3>9. BelowInv'
      BY <2>1, <3>1, <3>3, <3>4, <3>7, <3>8 DEF CompleteInv, BelowInv, Walking
    <3> QED
      BY <3>6, <3>9 DEF CompleteInv
  <2> QED
    BY <2>3, <2>4
<1>7. CASE Info
  <2>1. /\ pc = "info" /\ pc' = "take" /\ stack' = stack
        /\ fs' = fs /\ present' = present /\ recursive' = recursive
        /\ out' = IF Resolves(EntryPath) /\ Target(Frame.entry) \in fs.named
                  THEN Append(out, EntryPath) ELSE out
    BY <1>7 DEF Info
  <2>2. /\ n \in Nat /\ n >= 1 /\ DOMAIN stack = 1 .. n /\ n \in DOMAIN stack
        /\ Frame = stack[n] /\ Frame.entry \in Nodes
    BY <2>1, TopCall
  <2>3. EntryPath = Append(stack[n].path, stack[n].entry) /\ EntryPath \in Seq(Nodes)
    BY <2>2, PathFacts DEF EntryPath, PathOf
  <2>4. /\ Range(out') \subseteq Range(out) \cup {EntryPath}
        /\ Range(out) \subseteq Range(out')
        /\ Resolves(EntryPath) /\ Target(Frame.entry) \in fs.named => EntryPath \in Range(out')
    <3>1. CASE Resolves(EntryPath) /\ Target(Frame.entry) \in fs.named
      <4>1. out' = Append(out, EntryPath)
        BY <2>1, <3>1
      <4>2. Range(Append(out, EntryPath)) = Range(out) \cup {EntryPath}
        <5>1. \A p \in Seq(Nodes) : Range(Append(out, p)) = Range(out) \cup {p}
          BY <1>1, RangeAppended
        <5>2. EntryPath \in Seq(Nodes)
          BY <2>3
        <5> QED
          BY <5>1, <5>2, Zenon
      <4> QED
        BY <4>1, <4>2
    <3>2. CASE ~ (Resolves(EntryPath) /\ Target(Frame.entry) \in fs.named)
      BY <2>1, <3>2
    <3> QED
      BY <3>1, <3>2
  <2>5. Listed(fs, present, out', stack[n].path, stack[n].entry)
    BY <2>2, <2>3, <2>4, SameDefinitions DEF Listed
  <2>6. \A d : Complete(fs, present, out, d) => Complete(fs, present, out', d)
    BY <2>4, LessToList
  <2>7. ASSUME NEW k \in DOMAIN stack, NEW e \in Inside(fs, present, stack[k].path)
        PROVE  \/ e \in stack[k].left
               \/ AtEntry(k)' /\ e = stack[k].entry
               \/ Listed(fs, present, out', stack[k].path, e)
    <3>1. \/ e \in stack[k].left
          \/ e = stack[k].entry
          \/ Listed(fs, present, out, stack[k].path, e)
      BY <2>1, <2>7 DEF CompleteInv, CallsInv, Walking
    <3>2. k < n \/ k = n
      BY <2>2
    <3>3. k < n => AtEntry(k)'
      BY <2>1 DEF AtEntry
    <3> QED
      BY <2>4, <2>5, <3>1, <3>2, <3>3, LessToList
  <2>8. CallsInv'
    BY <2>1, <2>7 DEF CallsInv
  <2>9. BelowInv'
    BY <2>1, <2>4, <2>6 DEF CompleteInv, BelowInv, Walking
  <2> QED
    BY <2>8, <2>9 DEF CompleteInv
<1>8. CASE FileRemoved
  <2>1. /\ present' \in SUBSET present /\ fs' = fs /\ pc' = pc
        /\ recursive' = recursive /\ stack' = stack /\ out' = out
    BY <1>8 DEF FileRemoved, lsvars
  <2>2. /\ \A d : Inside(fs, present', d) \subseteq Inside(fs, present, d)
        /\ \A d, e : Listed(fs, present, out, d, e) => Listed(fs, present', out, d, e)
        /\ \A d : Complete(fs, present, out, d) => Complete(fs, present', out, d)
    BY <2>1, LessToList
  <2>3. ASSUME Walking, CallsInv PROVE CallsInv'
    <3>1. \A k : AtEntry(k)' <=> AtEntry(k)
      BY <2>1 DEF AtEntry
    <3> QED
      BY <2>1, <2>2, <2>3, <3>1 DEF CallsInv
  <2>4. ASSUME Walking, BelowInv PROVE BelowInv'
    <3>1. EntryPath' = EntryPath
      BY <2>1 DEF EntryPath, Frame
    <3> QED
      BY <2>1, <2>2, <2>4, <3>1 DEF BelowInv
  <2>5. Walking' => Walking
    BY <2>1 DEF Walking
  <2> QED
    BY <2>3, <2>4, <2>5 DEF CompleteInv
<1>9. CASE UNCHANGED vars
  BY <1>9 DEF vars, CompleteInv, CallsInv, BelowInv, Walking, AtEntry, EntryPath, Frame
<1>10. CASE pc' \in {"idle", "end"}
  BY <1>10 DEF CompleteInv, Walking
<1>11. CASE LsRefused \/ SingleInfo \/ LsEnd \/ FileAclRequest \/ FileAclRaises \/ Df
  BY <1>10, <1>11 DEF LsRefused, SingleInfo, LsEnd, FileAclRequest, FileAclRaises, Df, Reply
<1> QED
  BY <1>3, <1>4, <1>5, <1>6, <1>7, <1>8, <1>9, <1>11 DEF Next, LsStep

LEMMA CompleteAlways == Spec => []CompleteInv
<1>1. Init => CompleteInv
  BY InitComplete
<1>2. Types /\ CompleteInv /\ [Next]_vars => CompleteInv'
  BY NextComplete
<1> QED
  BY <1>1, <1>2, TypesAlways, PTL DEF Spec

Unique(lines) == \A i, k \in DOMAIN lines : lines[i] = lines[k] => i = k \/ lines[i] = Up

\* a listing that has ended and was not cut off
EndInv ==
    pc = "end" /\ ~cut => /\ \A d \in Walked : Complete(fs, present, out, d)
                          /\ Unique(out)

LEMMA InitEnd == Init => EndInv
  BY DEF Init, EndInv

LEMMA NextEnd ==
    ASSUME Types, FreshInv, CompleteInv, EndInv, [Next]_vars
    PROVE  EndInv'
<1>1. CASE Ls
  <2>1. PICK node \in Nodes :
            /\ pc' = "end" => ~ Resolves(<<node>>)
            /\ stack' = <<[path |-> <<node>>, left |-> {}, entry |-> node]>>
    BY <1>1 DEF Ls
  <2>2. out' = <<>> /\ fs' = fs /\ present' = present
    BY <1>1 DEF Ls
  <2>3. Range(out') = {} /\ DOMAIN out' = {}
    BY <2>2 DEF Range
  <2>4. Walked' \subseteq {<<node>>}
    <3>1. stack'[1].path = <<node>>
      BY <2>1
    <3> QED
      BY <2>3, <3>1 DEF Walked
  <2>5. pc' = "end" => \A o : Complete(fs, present, o, <<node>>)
    BY <2>1, SameDefinitions DEF Complete, Directory
  <2> QED
    BY <2>2, <2>3, <2>4, <2>5 DEF EndInv, Unique
<1>2. CASE Return
  <2>1. /\ pc = "take" /\ Frame.left = {}
        /\ fs' = fs /\ present' = present /\ recursive' = recursive
        /\ pc' = "end" => Len(stack) = 1 /\ stack' = stack /\ out' = out
    BY <1>2, ReturnStep
  <2> SUFFICES ASSUME pc' = "end" PROVE EndInv'
    BY DEF EndInv
  <2>2. 1 \in DOMAIN stack /\ Frame = stack[1]
    BY <2>1, TopCall
  <2>3. Complete(fs, present, out, stack[1].path)
    <3>1. ~ AtEntry(1)
      BY <2>1 DEF AtEntry
    <3>2. CallsInv
      BY <2>1 DEF CompleteInv, Walking
    <3>3. \A e \in Inside(fs, present, stack[1].path) :
              Listed(fs, present, out, stack[1].path, e)
      BY <2>1, <2>2, <3>1, <3>2 DEF CallsInv
    <3> QED
      BY <3>3 DEF Complete
  <2>4. recursive => \A d \in Range(out) \ {Up} : Complete(fs, present, out, d)
    BY <2>1 DEF CompleteInv, BelowInv, Walking
  <2>5. Unique(out)
    BY <2>1 DEF FreshInv, Walking, Unique
  <2>6. Walked' = Walked
    BY <2>1 DEF Walked
  <2>7. \A d \in Walked : Complete(fs, present, out, d)
    BY <2>3, <2>4 DEF Walked
  <2> QED
    BY <2>1, <2>5, <2>6, <2>7 DEF EndInv
<1>3. CASE SingleInfo
  <2> SUFFICES ASSUME pc' = "end", ~ cut' PROVE EndInv'
    BY DEF EndInv
  <2>1. pc = "single" /\ stack' = stack /\ out' = <<Frame.path>>
    BY <1>3 DEF SingleInfo, Reply
  <2>2. Len(stack) = 1 /\ Frame = stack[1]
    BY <2>1 DEF Types, Frame
  <2>3. stack'[1].path \in Range(out')
    BY <2>1, <2>2 DEF Range
  <2>4. Walked' = {}
    BY <2>3 DEF Walked
  <2>5. Unique(out')
    BY <2>1 DEF Unique
  <2> QED
    BY <2>4, <2>5 DEF EndInv
<1>4. CASE ListDir
  <2>1. pc' = "end" => cut'
    BY <1>4, ListDirStep
  <2> QED
    BY <2>1 DEF EndInv
<1>5. CASE FileRemoved
  <2>1. /\ present' \in SUBSET present /\ fs' = fs /\ pc' = pc
        /\ recursive' = recursive /\ stack' = stack /\ out' = out /\ cut' = cut
    BY <1>5 DEF FileRemoved, lsvars
  <2>2. \A d : Complete(fs, present, out, d) => Complete(fs, present', out, d)
    BY <2>1, LessToList
  <2>3. Walked' = Walked
    BY <2>1 DEF Walked
  <2> QED
    BY <2>1, <2>2, <2>3 DEF EndInv
<1>6. CASE UNCHANGED vars
  BY <1>6 DEF vars, EndInv, Walked
<1>7. CASE pc' # "end"
  BY <1>7 DEF EndInv
<1>8. CASE TakeEntry \/ Info
  <2>1. CASE TakeEntry
    <3>1. pc' # "end"
      BY <2>1, TakeEntryStep
    <3> QED
      BY <1>7, <3>1
  <2>2. CASE Info
    BY <1>7, <2>2 DEF Info
  <2> QED
    BY <1>8, <2>1, <2>2
<1>9. CASE LsRefused \/ LsEnd \/ FileAclRequest \/ FileAclRaises \/ Df
  BY <1>7, <1>9 DEF LsRefused, LsEnd, FileAclRequest, FileAclRaises, Df, Reply
<1> QED
  BY <1>1, <1>2, <1>3, <1>4, <1>5, <1>6, <1>8, <1>9 DEF Next, LsStep

\* ls: a listing that no OSError has cut off has a line for everything that is
\* still in the directory, and in mode R below it, through links as far as the
\* kernel follows them, and no path has two lines: in every file system, whatever
\* other processes remove meanwhile and in whatever order os.listdir has the entries.
THEOREM ListingIsComplete == Spec => []ListingComplete
<1>1. Init => EndInv
  BY InitEnd
<1>2. Types /\ FreshInv /\ CompleteInv /\ EndInv /\ [Next]_vars => EndInv'
  BY NextEnd
<1>3. EndInv => ListingComplete
  <2>1. \A d : Complete(fs, present, out, d) =>
            (IsDir(d) => \A node \in Contents(d) :
                Resolves(Append(d, node)) /\ Target(node) \in fs.named =>
                    Append(d, node) \in Range(out))
    BY SameDefinitions DEF Complete, Listed
  <2> QED
    BY <2>1 DEF EndInv, ListingComplete, Unique
<1>4. Spec => []EndInv
  BY <1>1, <1>2, TypesAlways, FreshAlways, CompleteAlways, PTL DEF Spec
<1> QED
  BY <1>3, <1>4, PTL
=============================================================================

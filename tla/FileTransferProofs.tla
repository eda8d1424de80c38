------------------------- MODULE FileTransferProofs -------------------------
(***************************************************************************)
(* Proofs about FileTransfer, for every length of file, buffer and         *)
(* request, and every number of requests.                                  *)
(*                                                                         *)
(* During a put the file, the buffer, the data channel and what is still   *)
(* to be sent are, one behind the other, what the file has to become.      *)
(* During a get of a file that does not grow, the first bytes of the       *)
(* buffer are those of the file from the start position on.                *)
(***************************************************************************)
EXTENDS FileTransfer, SequenceTheorems, TLAPS

-----------------------------------------------------------------------------
(* The inductive invariants. *)

ByteSet == (0 .. MaxRequests) \X Nat
Requests ==
    [op : {"none", "get", "put"}, start : Nat, length : 0 .. MaxLength, append : BOOLEAN]

\* the types, with the whole request, the bytes as pairs and the other counters
Types ==
    /\ pc \in Getting \cup Putting \cup {"idle", "stopped"}
    /\ n \in 0 .. MaxRequests /\ request \in Requests
    /\ rest \in Int /\ total \in Nat /\ offset \in Nat
    /\ pc \in Putting => rest \in Nat
    /\ file \in Seq(ByteSet) /\ before \in Seq(ByteSet) /\ buf \in Seq(ByteSet)
    /\ data \in Seq(ByteSet) /\ unsent \in Seq(ByteSet) /\ received \in Seq(ByteSet)
    /\ grown \in Nat /\ grew \in BOOLEAN /\ dirty \in BOOLEAN

\* what was written, is in the buffer, on the channel and to be sent
Whole(f, b, d, u) == (f \o b) \o (d \o u)

\* the bytes of a put are where they belong, and rest counts those to come
InTransit ==
    /\ Whole(file, buf, data, unsent) = before \o Bytes(n, request.length)
    /\ rest = Len(data) + Len(unsent)
    /\ pc # "put_write" => buf = <<>>
    /\ pc = "put_done" => rest = 0

\* as long as no put has failed, the channel holds bytes of the current put only
PutInv ==
    ~dirty => IF pc \in Putting THEN InTransit ELSE data = <<>> /\ unsent = <<>>

\* what the file has from the start position on, and what a get is to return
Avail == IF request.start < Len(file) THEN Len(file) - request.start ELSE 0
Due == Least(request.length, Avail)

\* the buffer has the bytes read
Read ==
    /\ Len(buf) = request.length
    /\ total <= request.length /\ total <= Avail
    /\ \A i \in 1 .. total : buf[i] = file[request.start + i]

\* one read gives all, whatever the file has; the end of it is met by another
GetInv ==
    pc \in Getting /\ ~grew =>
        /\ Read
        /\ pc = "get_read" =>
              /\ offset = request.start + total /\ rest = request.length - total
              /\ total \in {0, Due}
              /\ received = <<>>
        /\ pc \in {"get_write", "get_done"} =>
              /\ total = Due /\ offset <= total
              /\ Len(received) = offset
              /\ \A i \in 1 .. offset : received[i] = buf[i]
        /\ pc = "get_done" => offset = total
-----------------------------------------------------------------------------
(* Lemmas. *)

\* The smaller of two numbers.
LEMMA LeastOf ==
    ASSUME NEW a \in Int, NEW b \in Int
    PROVE  /\ Least(a, b) \in {a, b} /\ Least(a, b) \in Int
           /\ Least(a, b) <= a /\ Least(a, b) <= b
BY DEF Least

\* A part of a sequence, from one place to another.
LEMMA PartOf ==
    ASSUME NEW S, NEW s \in Seq(S), NEW j \in Nat \ {0}, NEW k \in Nat, k <= Len(s)
    PROVE  /\ SubSeq(s, j, k) \in Seq(S)
           /\ Len(SubSeq(s, j, k)) = IF j <= k THEN k - j + 1 ELSE 0
           /\ \A i \in 1 .. k - j + 1 : SubSeq(s, j, k)[i] = s[j + i - 1]
<1>1. \A i \in j .. k : s[i] \in S
  OBVIOUS
<1>2. j \in Int /\ k \in Int
  OBVIOUS
<1> QED
  BY <1>1, <1>2, SubSeqProperties

\* Cut in two, a sequence is its parts one behind the other.
LEMMA CutInTwo ==
    ASSUME NEW S, NEW s \in Seq(S), NEW k \in Nat, k <= Len(s)
    PROVE  /\ SubSeq(s, 1, k) \in Seq(S) /\ SubSeq(s, k + 1, Len(s)) \in Seq(S)
           /\ Len(SubSeq(s, 1, k)) = k /\ Len(SubSeq(s, k + 1, Len(s))) = Len(s) - k
           /\ SubSeq(s, 1, k) \o SubSeq(s, k + 1, Len(s)) = s
<1> DEFINE a == SubSeq(s, 1, k)
           b == SubSeq(s, k + 1, Len(s))
<1>1. Len(s) \in Nat /\ k + 1 \in Nat \ {0}
  OBVIOUS
<1>2. a \in Seq(S) /\ Len(a) = k /\ b \in Seq(S)
  BY <1>1, PartOf
<1>3. Len(b) = Len(s) - k
  <2>1. Len(b) = IF k + 1 <= Len(s) THEN Len(s) - (k + 1) + 1 ELSE 0
    BY <1>1, PartOf
  <2> HIDE DEF b
  <2> QED
    BY <1>1, <2>1
<1>4. a \o b = s
  <2>1. 1 \in 1 .. Len(s) + 1 /\ k \in 1 - 1 .. Len(s) /\ Len(s) \in k .. Len(s)
    BY <1>1
  <2>2. a \o b = SubSeq(s, 1, Len(s))
    BY <2>1, ConcatAdjacentSubSeq
  <2> QED
    BY <2>2, SubSeqFull
<1> QED
  BY <1>2, <1>3, <1>4

\* The same bytes, grouped differently.
LEMMA Regroup ==
    ASSUME NEW S, NEW a \in Seq(S), NEW b \in Seq(S), NEW k \in Nat, k <= Len(b)
    PROVE  (a \o SubSeq(b, 1, k)) \o SubSeq(b, k + 1, Len(b)) = a \o b
<1> DEFINE x == SubSeq(b, 1, k)
           y == SubSeq(b, k + 1, Len(b))
<1>1. x \in Seq(S) /\ y \in Seq(S) /\ x \o y = b
  BY CutInTwo
<1> HIDE DEF x, y
<1>2. (a \o x) \o y = a \o (x \o y)
  <2>1. x \in Seq(S) /\ y \in Seq(S)
    BY <1>1
  <2> QED
    BY <2>1, ConcatAssociative
<1>3. (a \o x) \o y = a \o b
  BY <1>1, <1>2
<1> QED
  BY <1>3 DEF x, y

\* The bytes of a request, and the empty sequence.
LEMMA BytesOf ==
    ASSUME NEW r \in 0 .. MaxRequests, NEW k \in Nat
    PROVE  Bytes(r, k) \in Seq(ByteSet) /\ Len(Bytes(r, k)) = k
BY BoundAssumption DEF Bytes, Byte, ByteSet

-----------------------------------------------------------------------------
(* Types. *)

\* A step of a get keeps the types.
LEMMA GetTypes ==
    ASSUME Types, GetRead \/ GetReply \/ GetWrite \/ GetFails \/ GetEnd
    PROVE  Types'
<1>1. CASE GetRead
  <2> DEFINE left == IF offset < Len(file) THEN Len(file) - offset ELSE 0
             read == Least(Len(buf), left)
             new == [i \in DOMAIN buf |-> IF i <= read THEN file[offset + i] ELSE buf[i]]
  <2>1. left \in Nat /\ Len(buf) \in Nat /\ offset \in Nat /\ Len(file) \in Nat
    BY DEF Types
  <2>2. read \in Nat /\ read <= Len(buf) /\ read <= left
    BY <2>1 DEF Least
  <2>3. new \in Seq(ByteSet)
    <3>1. ASSUME NEW i \in 1 .. Len(buf), i <= read PROVE file[offset + i] \in ByteSet
      <4>1. offset + i \in 1 .. Len(file)
        BY <2>1, <2>2, <3>1
      <4> QED
        BY <4>1, ElementOfSeq DEF Types
    <3>2. \A i \in 1 .. Len(buf) : buf[i] \in ByteSet /\ DOMAIN buf = 1 .. Len(buf)
      BY DEF Types
    <3> HIDE DEF read
    <3>3. DOMAIN buf = 1 .. Len(buf)
      BY DEF Types
    <3>4. new \in [1 .. Len(buf) -> ByteSet]
      BY <3>1, <3>2, <3>3
    <3> HIDE DEF new
    <3> QED
      BY <2>1, <3>4
  <2> HIDE DEF new, read, left
  <2>4. /\ \/ pc' = "get_write" /\ offset' = 0 /\ UNCHANGED <<buf, total, rest>>
           \/ /\ buf' = new /\ total' = total + read /\ rest' = rest - read
              /\ offset' = offset + read /\ UNCHANGED pc
        /\ pc = "get_read"
        /\ UNCHANGED <<n, request, file, before, data, unsent, received, grown, grew, dirty>>
    BY <1>1 DEF GetRead, new, read, left
  <2>5. total' \in Nat /\ rest' \in Int /\ offset' \in Nat
    <3>1. total \in Nat /\ rest \in Int /\ offset \in Nat /\ read \in Nat
      BY <2>2 DEF Types
    <3> QED
      BY <2>4, <3>1
  <2> QED
    BY <2>3, <2>4, <2>5 DEF Types, Getting, Putting
<1>2. CASE GetWrite
  <2> DEFINE top == Least(total, Len(buf))
             slice == SubSeq(buf, offset + 1, top)
  <2>1. offset + 1 \in Nat \ {0} /\ top \in Nat /\ top <= Len(buf)
    BY DEF Types, Least
  <2>2. slice \in Seq(ByteSet)
    BY <2>1, PartOf DEF Types
  <2> HIDE DEF slice
  <2>3. received' = received \o slice /\ offset' = offset + Len(slice)
    BY <1>2 DEF GetWrite, slice
  <2>4. received' \in Seq(ByteSet) /\ offset' \in Nat
    BY <2>2, <2>3, ConcatProperties DEF Types
  <2> QED
    BY <1>2, <2>4 DEF GetWrite, Types
<1>3. CASE GetReply \/ GetFails \/ GetEnd
  <2>1. /\ pc' \in {"get_write", "idle", "get_done"} /\ offset' \in {0, offset}
        /\ UNCHANGED <<n, request, file, before, rest, buf, total, data, unsent, received,
                       grown, grew, dirty>>
    BY <1>3 DEF GetReply, GetFails, GetEnd
  <2> QED
    BY <2>1 DEF Types, Getting, Putting
<1> QED
  BY <1>1, <1>2, <1>3

\* A step of a put keeps the types.
LEMMA PutTypes ==
    ASSUME Types, PutRead \/ PutWrite \/ PutFails \/ PutEnd
    PROVE  Types'
<1>1. CASE PutRead
  <2> DEFINE got == Least(Least(rest, BufSize), Len(data))
  <2>1. pc = "put_read" /\ rest \in Nat /\ Len(data) \in Nat /\ BufSize \in Nat
    BY <1>1, BoundAssumption DEF PutRead, Types, Putting
  <2>2. got \in Nat /\ got <= rest /\ got <= Len(data)
    BY <2>1 DEF Least
  <2> HIDE DEF got
  <2>3. /\ buf' = SubSeq(data, 1, got) /\ data' = SubSeq(data, got + 1, Len(data))
        /\ rest' = rest - got /\ pc' \in {"put_read", "put_write"}
        /\ UNCHANGED <<n, request, file, before, total, offset, unsent, received, grown,
                       grew, dirty>>
    BY <1>1 DEF PutRead, got
  <2>4. buf' \in Seq(ByteSet) /\ data' \in Seq(ByteSet)
    BY <2>2, <2>3, CutInTwo DEF Types
  <2>5. rest' \in Nat
    BY <2>1, <2>2, <2>3
  <2> QED
    BY <2>3, <2>4, <2>5 DEF Types, Putting
<1>2. CASE PutWrite
  <2>1. PICK k \in 1 .. Len(buf) : /\ file' = file \o SubSeq(buf, 1, k)
                                  /\ buf' = SubSeq(buf, k + 1, Len(buf))
    BY <1>2 DEF PutWrite
  <2>2. k \in Nat /\ k <= Len(buf)
    BY DEF Types
  <2>3. SubSeq(buf, 1, k) \in Seq(ByteSet) /\ buf' \in Seq(ByteSet)
    BY <2>1, <2>2, CutInTwo DEF Types
  <2>4. file' \in Seq(ByteSet)
    BY <2>1, <2>3, ConcatProperties DEF Types
  <2>5. /\ pc = "put_write" /\ pc' \in {"put_read", "put_write"}
        /\ UNCHANGED <<n, request, before, rest, total, offset, data, unsent, received, grown,
                       grew, dirty>>
    BY <1>2 DEF PutWrite
  <2> QED
    BY <2>3, <2>4, <2>5 DEF Types, Putting
<1>3. CASE PutFails \/ PutEnd
  <2>1. /\ pc \in Putting /\ pc' \in {"idle", "put_done"} /\ dirty' \in {TRUE, dirty}
        /\ UNCHANGED <<n, request, file, before, rest, buf, total, offset, data, unsent,
                       received, grown, grew>>
    BY <1>3 DEF PutFails, PutEnd, Putting
  <2> QED
    BY <2>1 DEF Types, Getting, Putting
<1> QED
  BY <1>1, <1>2, <1>3

\* The start and the end of a request, UNICORE/X and other processes.
LEMMA OtherTypes ==
    ASSUME Types,
           \/ Done \/ Stop \/ PeerSends \/ PeerCloses \/ FileGrows
           \/ \E start \in 0 .. InitLength, length \in 0 .. MaxLength : StartGet(start, length)
           \/ \E length \in 0 .. MaxLength, append \in BOOLEAN : StartPut(length, append)
    PROVE  Types'
<1>0. Idle \in Requests /\ <<>> \in Seq(ByteSet) /\ MaxLength \in Nat /\ InitLength \in Nat
      /\ MaxRequests \in Nat
  BY BoundAssumption DEF Idle, Requests
<1>1. CASE Done
  BY <1>0, <1>1 DEF Done, Types, Getting, Putting
<1>2. CASE Stop \/ PeerCloses
  BY <1>2 DEF Stop, PeerCloses, Types, Getting, Putting
<1>3. CASE PeerSends
  <2>1. PICK k \in 1 .. Len(unsent) : /\ data' = data \o SubSeq(unsent, 1, k)
                                     /\ unsent' = SubSeq(unsent, k + 1, Len(unsent))
    BY <1>3 DEF PeerSends
  <2>2. k \in Nat /\ k <= Len(unsent)
    BY DEF Types
  <2>3. SubSeq(unsent, 1, k) \in Seq(ByteSet) /\ unsent' \in Seq(ByteSet)
    BY <2>1, <2>2, CutInTwo DEF Types
  <2>4. data' \in Seq(ByteSet)
    BY <2>1, <2>3, ConcatProperties DEF Types
  <2> QED
    BY <1>3, <2>3, <2>4 DEF PeerSends, Types
<1>4. CASE FileGrows
  <2>1. grown' \in Nat /\ InitLength + grown' \in Nat
    BY <1>0, <1>4 DEF FileGrows, Types
  <2>2. Byte(0, InitLength + grown') \in ByteSet
    BY <1>0, <2>1 DEF Byte, ByteSet
  <2>3. file' \in Seq(ByteSet)
    BY <1>4, <2>2, AppendProperties DEF FileGrows, Types
  <2> QED
    BY <1>4, <2>1, <2>3 DEF FileGrows, Types
<1>5. ASSUME NEW start \in 0 .. InitLength, NEW length \in 0 .. MaxLength, StartGet(start, length)
      PROVE  Types'
  <2>1. start \in Nat /\ length \in Nat
    BY <1>0
  <2>2. [i \in 1 .. length |-> Blank] \in Seq(ByteSet)
    <3>1. Blank \in ByteSet
      BY <1>0 DEF Blank, Byte, ByteSet
    <3> QED
      BY <2>1, <3>1
  <2>3. request' \in Requests
    BY <1>5, <2>1 DEF StartGet, Requests
  <2>4. n' \in 0 .. MaxRequests
    BY <1>0, <1>5 DEF StartGet, Types
  <2> QED
    <3>1. buf' \in Seq(ByteSet) /\ received' = <<>>
      BY <1>5, <2>2 DEF StartGet
    <3>2. /\ pc' = "get_read" /\ total' = 0 /\ rest' = length /\ offset' = start
          /\ UNCHANGED <<file, before, data, unsent, grown, dirty>>
      BY <1>5 DEF StartGet
    <3>3. grew' \in BOOLEAN
      BY <1>5, Zenon DEF StartGet
    <3> QED
      BY <1>0, <2>1, <2>3, <2>4, <3>1, <3>2, <3>3 DEF Types, Getting, Putting
<1>6. ASSUME NEW length \in 0 .. MaxLength, NEW append \in BOOLEAN, StartPut(length, append)
      PROVE  Types'
  <2>1. length \in Nat
    BY <1>0
  <2>2. n' \in 0 .. MaxRequests
    BY <1>0, <1>6 DEF StartPut, Types
  <2>3. unsent' \in Seq(ByteSet)
    BY <1>6, <2>1, <2>2, BytesOf DEF StartPut
  <2>4. request' \in Requests
    BY <1>6 DEF StartPut, Requests
  <2>5. file' \in Seq(ByteSet) /\ before' \in Seq(ByteSet) /\ buf' \in Seq(ByteSet)
    BY <1>0, <1>6 DEF StartPut, Types
  <2> QED
    BY <1>6, <2>1, <2>2, <2>3, <2>4, <2>5 DEF StartPut, Types, Getting, Putting
<1> QED
  BY <1>1, <1>2, <1>3, <1>4, <1>5, <1>6

\* The types hold always.
LEMMA TypesAlways == Spec => []Types
<1>1. Init => Types
  <2> SUFFICES ASSUME Init PROVE Types
    OBVIOUS
  <2>1. Idle \in Requests /\ 0 \in 0 .. MaxRequests /\ InitLength \in Nat
    BY BoundAssumption DEF Idle, Requests
  <2>2. Bytes(0, InitLength) \in Seq(ByteSet)
    BY <2>1, BytesOf
  <2> QED
    <3>1. /\ file \in Seq(ByteSet) /\ before = <<>> /\ buf = <<>>
          /\ data = <<>> /\ unsent = <<>> /\ received = <<>>
      BY <2>2 DEF Init
    <3>2. grew \in BOOLEAN /\ dirty \in BOOLEAN
      BY Zenon DEF Init
    <3>3. pc = "idle" /\ n = 0 /\ request = Idle /\ rest = 0 /\ total = 0 /\ offset = 0 /\ grown = 0
      BY DEF Init
    <3> QED
      BY <2>1, <3>1, <3>2, <3>3 DEF Types, Getting, Putting
<1>2. Types /\ [Next]_vars => Types'
  <2>1. Types /\ UNCHANGED vars => Types'
    BY DEF vars, Types
  <2> QED
    BY <2>1, GetTypes, PutTypes, OtherTypes DEF Next, Worker
<1> QED
  BY <1>1, <1>2, PTL DEF Spec

\* The types of the variables of a transfer: among others, what remains of a
\* put is never negative.
THEOREM TransferTypes == Spec => []TypeOK
<1>1. Types => TypeOK
  <2> SUFFICES ASSUME Types PROVE TypeOK
    OBVIOUS
  <2>1. ASSUME NEW s \in Seq(ByteSet), NEW i \in DOMAIN s
        PROVE  s[i][1] \in 0 .. MaxRequests /\ s[i][2] \in Nat
    <3>1. s[i] \in ByteSet
      OBVIOUS
    <3> QED
      BY <3>1 DEF ByteSet
  <2>2. \A s \in {file, before, buf, data, unsent, received} : s \in Seq(ByteSet)
    BY DEF Types
  <2>3. request.length \in 0 .. MaxLength
    BY DEF Types, Requests
  <2> QED
    BY <2>1, <2>2, <2>3 DEF Types, TypeOK
<1> QED
  BY <1>1, TypesAlways, PTL

-----------------------------------------------------------------------------
(* Puts. *)

\* A put begins with all its bytes to be sent, and none on the channel.
LEMMA StartPutStep ==
    ASSUME Types, Types', PutInv, NEW length \in 0 .. MaxLength, NEW append \in BOOLEAN,
           StartPut(length, append)
    PROVE  PutInv'
<1> SUFFICES ASSUME ~dirty' PROVE InTransit'
  BY DEF StartPut, PutInv, Putting
<1>1. /\ unsent' = Bytes(n', length) /\ request'.length = length /\ buf' = <<>>
      /\ data' = data /\ before' = file' /\ rest' = length /\ pc' = "put_read"
  BY DEF StartPut
<1>2. data = <<>>
  BY DEF StartPut, PutInv, Putting
<1>3. length \in Nat /\ n' \in 0 .. MaxRequests /\ file' \in Seq(ByteSet)
  BY BoundAssumption DEF Types
<1> DEFINE b == Bytes(n', length)
           f == file'
<1>4. b \in Seq(ByteSet) /\ Len(b) = length
  BY <1>3, BytesOf
<1>5. f \o <<>> = f /\ <<>> \o b = b
  BY <1>3, <1>4, ConcatEmptySeq
<1>6. (file \o buf)' = f /\ (data \o unsent)' = b
  BY <1>1, <1>2, <1>5
<1>7. rest' = Len(data') + Len(unsent')
  <2> HIDE DEF b
  <2>1. rest' = 0 + Len(b)
    BY <1>1, <1>3, <1>4
  <2> QED
    BY <1>1, <1>2, <2>1 DEF b
<1> HIDE DEF b, f
<1>8. Whole(file, buf, data, unsent)' = (before \o Bytes(n, request.length))'
  <2>1. before' = f /\ (Bytes(n, request.length))' = b
    BY <1>1 DEF b, f, Bytes, Byte
  <2> QED
    BY <1>6, <2>1 DEF Whole
<1> QED
  BY <1>1, <1>7, <1>8 DEF InTransit

\* four sequences are the same, grouped in two ways
Grouped(f, x, y, u) == (f \o x) \o (y \o u) = f \o ((x \o y) \o u)

\* They are, whatever the sequences.
LEMMA MiddleFirst ==
    ASSUME NEW S, NEW f \in Seq(S), NEW x \in Seq(S), NEW y \in Seq(S), NEW u \in Seq(S)
    PROVE  Grouped(f, x, y, u)
<1> DEFINE z == y \o u
<1>1. (x \o y) \o u = x \o z
  BY ConcatAssociative
<1>2. z \in Seq(S)
  BY ConcatProperties
<1> HIDE DEF z
<1>3. (f \o x) \o z = f \o (x \o z)
  BY <1>2, ConcatAssociative
<1> QED
  BY <1>1, <1>3 DEF z, Grouped

\* The bytes in transit are moved, none is lost and none is added.
LEMMA MoveBytes ==
    ASSUME NEW f \in Seq(ByteSet), NEW b \in Seq(ByteSet),
           NEW d \in Seq(ByteSet), NEW u \in Seq(ByteSet), NEW k \in Nat
    PROVE  /\ k <= Len(u) => Whole(f, b, d \o SubSeq(u, 1, k), SubSeq(u, k + 1, Len(u)))
                                = Whole(f, b, d, u)
           /\ k <= Len(d) => Whole(f, SubSeq(d, 1, k), SubSeq(d, k + 1, Len(d)), u)
                                = Whole(f, <<>>, d, u)
           /\ k <= Len(b) => Whole(f \o SubSeq(b, 1, k), SubSeq(b, k + 1, Len(b)), d, u)
                                = Whole(f, b, d, u)
<1>1. ASSUME k <= Len(u)
      PROVE  (d \o SubSeq(u, 1, k)) \o SubSeq(u, k + 1, Len(u)) = d \o u
  BY <1>1, Regroup
<1>2. ASSUME k <= Len(b)
      PROVE  (f \o SubSeq(b, 1, k)) \o SubSeq(b, k + 1, Len(b)) = f \o b
  BY <1>2, Regroup
<1>3. ASSUME k <= Len(d)
      PROVE  (f \o SubSeq(d, 1, k)) \o (SubSeq(d, k + 1, Len(d)) \o u)
                = (f \o <<>>) \o (d \o u)
  <2> DEFINE x == SubSeq(d, 1, k)
             y == SubSeq(d, k + 1, Len(d))
  <2>1. x \in Seq(ByteSet) /\ y \in Seq(ByteSet) /\ x \o y = d
    BY <1>3, CutInTwo
  <2>2. f \o <<>> = f
    BY ConcatEmptySeq
  <2> HIDE DEF x, y
  <2>3. x \in Seq(ByteSet) /\ y \in Seq(ByteSet)
    BY <2>1
  <2>4. Grouped(f, x, y, u)
    BY <2>3, MiddleFirst
  <2>5. (f \o x) \o (y \o u) = f \o (d \o u)
    BY <2>1, <2>4, Zenon DEF Grouped
  <2> QED
    BY <2>2, <2>5 DEF x, y
<1> QED
  BY <1>1, <1>2, <1>3 DEF Whole

\* UNICORE/X sends, the worker receives, the file takes bytes.
LEMMA MovingSteps ==
    ASSUME Types, Types', PutInv, PeerSends \/ PutRead \/ PutWrite
    PROVE  PutInv'
<1>0. CASE dirty \/ (PeerSends /\ pc \notin Putting)
  <2>1. dirty' = dirty /\ (PeerSends => pc' = pc)
    BY DEF PeerSends, PutRead, PutWrite
  <2>2. CASE dirty
    BY <2>1, <2>2 DEF PutInv
  <2>3. CASE PeerSends /\ pc \notin Putting /\ ~dirty
    <3>1. unsent = <<>>
      BY <2>3 DEF PutInv
    <3>2. Len(unsent) = 0 /\ \E k \in 1 .. Len(unsent) : TRUE
      BY <2>3, <3>1 DEF PeerSends
    <3> QED
      BY <3>2
  <2> QED
    BY <1>0, <2>2, <2>3
<1>1. CASE ~dirty /\ pc \in Putting
  <2> DEFINE whole == before \o Bytes(n, request.length)
  <2>1. /\ Whole(file, buf, data, unsent) = whole
        /\ rest = Len(data) + Len(unsent)
        /\ pc # "put_write" => buf = <<>>
        /\ pc = "put_done" => rest = 0
    BY <1>1 DEF PutInv, InTransit
  <2>2. UNCHANGED <<n, request, before, dirty>>
    BY DEF PeerSends, PutRead, PutWrite
  <2>3. (before \o Bytes(n, request.length))' = whole
    BY <2>2 DEF Bytes, Byte
  <2> HIDE DEF whole
  <2>4. /\ file \in Seq(ByteSet) /\ buf \in Seq(ByteSet) /\ data \in Seq(ByteSet)
        /\ unsent \in Seq(ByteSet) /\ rest \in Nat
        /\ Len(data) \in Nat /\ Len(unsent) \in Nat /\ Len(buf) \in Nat
    BY <1>1 DEF Types
  <2>5. CASE PeerSends
    <3>1. PICK k \in 1 .. Len(unsent) : /\ data' = data \o SubSeq(unsent, 1, k)
                                       /\ unsent' = SubSeq(unsent, k + 1, Len(unsent))
      BY <2>5 DEF PeerSends
    <3>2. k \in Nat /\ k <= Len(unsent)
      BY <2>4
    <3>3. /\ SubSeq(unsent, 1, k) \in Seq(ByteSet) /\ Len(SubSeq(unsent, 1, k)) = k
          /\ Len(unsent') = Len(unsent) - k
      BY <2>4, <3>1, <3>2, CutInTwo
    <3>4. Len(data') = Len(data) + k
      BY <2>4, <3>1, <3>3, ConcatProperties
    <3>5. UNCHANGED <<pc, file, buf, rest>>
      BY <2>5 DEF PeerSends
    <3>6. rest' = Len(data') + Len(unsent')
      BY <2>1, <2>4, <3>2, <3>3, <3>4, <3>5
    <3>7. Whole(file, buf, data, unsent)' = whole
      <4>1. Whole(file, buf, data \o SubSeq(unsent, 1, k), SubSeq(unsent, k + 1, Len(unsent)))
               = Whole(file, buf, data, unsent)
        BY <2>4, <3>2, MoveBytes
      <4> QED
        BY <2>1, <3>1, <3>5, <4>1 DEF Whole
    <3>8. InTransit'
      BY <2>1, <2>3, <3>5, <3>6, <3>7 DEF InTransit
    <3> QED
      BY <1>1, <3>5, <3>8 DEF PutInv
  <2>6. CASE PutRead
    <3> DEFINE k == Least(Least(rest, BufSize), Len(data))
    <3>1. /\ buf' = SubSeq(data, 1, k) /\ data' = SubSeq(data, k + 1, Len(data))
          /\ rest' = rest - k /\ pc = "put_read"
          /\ pc' = IF k = 0 THEN "put_read" ELSE "put_write"
          /\ UNCHANGED <<file, unsent>>
      BY <2>6 DEF PutRead
    <3>2. k \in Nat /\ k <= Len(data)
      BY <2>4, BoundAssumption DEF Least
    <3> HIDE DEF k
    <3>3. Len(data') = Len(data) - k /\ Len(buf') = k /\ buf' \in Seq(ByteSet)
      BY <2>4, <3>1, <3>2, CutInTwo
    <3>4. rest' = Len(data') + Len(unsent')
      <4>1. rest = Len(data) + Len(unsent) /\ rest' = rest - k /\ unsent' = unsent
        BY <2>1, <3>1
      <4> QED
        BY <2>4, <3>2, <3>3, <4>1
    <3>5. Whole(file, buf, data, unsent)' = whole
      <4>1. Whole(file, SubSeq(data, 1, k), SubSeq(data, k + 1, Len(data)), unsent)
               = Whole(file, <<>>, data, unsent)
        BY <2>4, <3>2, MoveBytes
      <4>2. buf = <<>>
        BY <2>1, <3>1
      <4> QED
        BY <2>1, <3>1, <4>1, <4>2 DEF Whole
    <3>6. pc' # "put_write" => buf' = <<>>
      BY <3>1, <3>3
    <3>7. InTransit'
      BY <2>3, <3>1, <3>4, <3>5, <3>6 DEF InTransit
    <3> QED
      BY <3>1, <3>7 DEF PutInv, Putting
  <2>7. CASE PutWrite
    <3>1. PICK k \in 1 .. Len(buf) : /\ file' = file \o SubSeq(buf, 1, k)
                                    /\ buf' = SubSeq(buf, k + 1, Len(buf))
      BY <2>7 DEF PutWrite
    <3>2. /\ pc' = (IF buf' = <<>> THEN "put_read" ELSE "put_write")
          /\ UNCHANGED <<data, unsent, rest>>
      BY <2>7 DEF PutWrite
    <3>3. k \in Nat /\ k <= Len(buf)
      BY <2>4
    <3>4. Whole(file, buf, data, unsent)' = whole
      <4>1. Whole(file \o SubSeq(buf, 1, k), SubSeq(buf, k + 1, Len(buf)), data, unsent)
               = Whole(file, buf, data, unsent)
        BY <2>4, <3>3, MoveBytes
      <4> QED
        BY <2>1, <3>1, <3>2, <4>1 DEF Whole
    <3>5. InTransit'
      BY <2>1, <2>3, <3>2, <3>4 DEF InTransit
    <3> QED
      BY <3>2, <3>5 DEF PutInv, Putting
  <2> QED
    BY <2>5, <2>6, <2>7
<1> QED
  BY <1>0, <1>1 DEF PutRead, PutWrite, Putting

\* Every step keeps the bytes of a put together.
LEMMA PutInductive == Types /\ Types' /\ PutInv /\ [Next]_vars => PutInv'
<1> SUFFICES ASSUME Types, Types', PutInv, [Next]_vars PROVE PutInv'
  OBVIOUS
<1>1. CASE PeerSends \/ PutRead \/ PutWrite
  BY <1>1, MovingSteps
<1>2. ASSUME NEW length \in 0 .. MaxLength, NEW append \in BOOLEAN, StartPut(length, append)
      PROVE  PutInv'
  BY <1>2, StartPutStep
<1>3. CASE PutFails
  BY <1>3 DEF PutFails, PutInv
<1>4. CASE PutEnd
  <2>1. /\ pc = "put_read" /\ pc' = "put_done" /\ rest = 0
        /\ UNCHANGED <<n, request, file, before, rest, buf, data, unsent, dirty>>
    BY <1>4 DEF PutEnd
  <2>2. InTransit => InTransit'
    BY <2>1 DEF InTransit, Whole, Bytes, Byte
  <2> QED
    BY <2>1, <2>2 DEF PutInv, Putting
<1>5. CASE Done
  <2>1. /\ pc \in {"get_done", "put_done"} /\ pc' = "idle" /\ UNCHANGED <<data, unsent, dirty>>
    BY <1>5 DEF Done
  <2>2. CASE pc = "put_done" /\ ~dirty
    <3>1. 0 = Len(data) + Len(unsent)
      BY <2>2 DEF PutInv, InTransit, Putting
    <3>2. data = <<>> /\ unsent = <<>>
      BY <3>1 DEF Types
    <3> QED
      BY <2>1, <3>2 DEF PutInv, Putting
  <2> QED
    BY <2>1, <2>2 DEF PutInv, Putting
<1>6. CASE \/ GetRead \/ GetReply \/ GetWrite \/ GetFails \/ GetEnd \/ Stop \/ FileGrows
           \/ \E start \in 0 .. InitLength, length \in 0 .. MaxLength : StartGet(start, length)
  <2>1. pc \notin Putting /\ pc' \notin Putting /\ UNCHANGED <<data, unsent, dirty>>
    BY <1>6 DEF GetRead, GetReply, GetWrite, GetFails, GetEnd, Stop, FileGrows, StartGet,
                Putting, Getting
  <2> QED
    BY <2>1 DEF PutInv
<1>7. CASE PeerCloses \/ UNCHANGED vars
  <2>1. UNCHANGED <<pc, n, request, file, before, rest, buf, data, unsent, dirty>>
    BY <1>7 DEF PeerCloses, vars
  <2>2. InTransit => InTransit'
    BY <2>1 DEF InTransit, Whole, Bytes, Byte
  <2> QED
    BY <2>1, <2>2 DEF PutInv
<1> QED
  BY <1>1, <1>2, <1>3, <1>4, <1>5, <1>6, <1>7 DEF Next, Worker

\* Until a put fails, the bytes of a put are always in transit or written.
LEMMA PutAlways == Spec => [](Types /\ PutInv)
<1>1. Init => PutInv
  BY DEF Init, PutInv, Putting
<1> QED
  BY <1>1, TypesAlways, PutInductive, PTL DEF Spec

\* A put that ends has written its own bytes, all, in order and once, behind
\* what the file had, whatever pieces the channel and the file have made of
\* them, as long as no earlier put failed after its TSI_OK.
THEOREM PutsExact == Spec => []PutExact
<1>1. Types /\ PutInv => PutExact
  <2> SUFFICES ASSUME Types, PutInv, pc = "put_done", ~dirty
               PROVE  file = before \o Bytes(n, request.length)
    BY DEF PutExact
  <2>1. /\ Whole(file, buf, data, unsent) = before \o Bytes(n, request.length)
        /\ 0 = Len(data) + Len(unsent) /\ buf = <<>>
    BY DEF PutInv, InTransit, Putting
  <2>2. data = <<>> /\ unsent = <<>>
    BY <2>1 DEF Types
  <2>3. file \in Seq(ByteSet) /\ file \o <<>> = file
    BY ConcatEmptySeq DEF Types
  <2>4. <<>> \o <<>> = <<>>
    OBVIOUS
  <2> QED
    BY <2>1, <2>2, <2>3, <2>4 DEF Whole
<1> QED
  BY <1>1, PutAlways, PTL

\* Between requests the data channel is empty, so that the next one meets its
\* own data, until a put has failed after its TSI_OK.
THEOREM ChannelsInStep == Spec => []ChannelInStep
<1>1. Types /\ PutInv => ChannelInStep
  <2> SUFFICES ASSUME Types, PutInv, pc \in {"idle", "get_done", "put_done"}, ~dirty
               PROVE  data = <<>> /\ unsent = <<>>
    BY DEF ChannelInStep
  <2>1. CASE pc = "put_done"
    <3>1. 0 = Len(data) + Len(unsent)
      BY <2>1 DEF PutInv, InTransit, Putting
    <3> QED
      BY <3>1 DEF Types
  <2>2. CASE pc # "put_done"
    BY <2>2 DEF PutInv, Putting
  <2> QED
    BY <2>1, <2>2
<1> QED
  BY <1>1, PutAlways, PTL

-----------------------------------------------------------------------------
(* Gets. *)

\* A get begins with nothing read.
LEMMA StartGetStep ==
    ASSUME Types, NEW start \in 0 .. InitLength, NEW length \in 0 .. MaxLength,
           StartGet(start, length)
    PROVE  GetInv'
<1>1. /\ pc' = "get_read" /\ total' = 0 /\ rest' = length /\ offset' = start
      /\ buf' = [i \in 1 .. length |-> Blank] /\ received' = <<>> /\ UNCHANGED file
      /\ request'.start = start /\ request'.length = length
  BY DEF StartGet
<1>2. start \in Nat /\ length \in Nat
  BY BoundAssumption
<1>3. Len(buf') = length
  BY <1>1, <1>2
<1>4. Avail' \in Nat
  <2>1. Len(file) \in Nat
    BY DEF Types
  <2>2. Avail' = IF start < Len(file) THEN Len(file) - start ELSE 0
    BY <1>1 DEF Avail
  <2> QED
    BY <1>2, <2>1, <2>2
<1>5. Read'
  BY <1>1, <1>2, <1>3, <1>4 DEF Read
<1>6. offset' = request'.start + total' /\ rest' = request'.length - total'
  BY <1>1, <1>2
<1> QED
  BY <1>1, <1>5, <1>6 DEF GetInv

\* A read gives all that is due, or meets the end of the file.
LEMMA GetReadStep ==
    ASSUME Types, GetInv, GetRead
    PROVE  GetInv'
<1> SUFFICES ASSUME ~grew PROVE GetInv'
  BY DEF GetRead, GetInv
<1> DEFINE start == request.start
           length == request.length
           flen == Len(file)
           left == IF offset < flen THEN flen - offset ELSE 0
           read == Least(Len(buf), left)
<1>1. /\ pc = "get_read" /\ rest > 0
      /\ UNCHANGED <<request, file, received, grew>>
      /\ \/ /\ read = 0 /\ pc' = "get_write" /\ offset' = 0 /\ UNCHANGED <<buf, total, rest>>
         \/ /\ read # 0 /\ pc' = pc /\ total' = total + read /\ rest' = rest - read
            /\ offset' = offset + read
            /\ buf' = [i \in DOMAIN buf |-> IF i <= read THEN file[offset + i] ELSE buf[i]]
  BY DEF GetRead
<1>2. /\ Len(buf) = length /\ total <= length /\ total <= Avail
      /\ \A i \in 1 .. total : buf[i] = file[start + i]
      /\ offset = start + total /\ rest = length - total
      /\ total \in {0, Due} /\ received = <<>>
  BY <1>1 DEF GetInv, Read, Getting
<1>3. /\ start \in Nat /\ length \in Nat /\ flen \in Nat /\ total \in Nat
      /\ buf \in Seq(ByteSet) /\ DOMAIN buf = 1 .. Len(buf)
  BY BoundAssumption DEF Types, Requests
<1>4. Avail = (IF start < flen THEN flen - start ELSE 0) /\ Due = Least(length, Avail)
  BY DEF Avail, Due
<1>5. Avail' = Avail /\ Due' = Due
  BY <1>1 DEF Avail, Due, Least
<1> HIDE DEF start, length, flen
<1>6. CASE total = 0
  <2>1. offset = start /\ left = Avail /\ read = Due
    BY <1>2, <1>3, <1>4, <1>6
  <2>2. Due \in Nat /\ Due <= length /\ Due <= Avail /\ Avail \in Nat
    BY <1>3, <1>4 DEF Least
  <2> HIDE DEF left, read
  <2>3. CASE read = 0
    <3>1. pc' = "get_write" /\ offset' = 0 /\ UNCHANGED <<buf, total, request, file, received>>
      BY <1>1, <2>3
    <3>2. total' = Due' /\ offset' <= total' /\ Len(received') = offset'
      BY <1>2, <1>5, <1>6, <2>1, <2>3, <3>1
    <3>3. Read'
      BY <1>2, <1>5, <3>1 DEF Read, length, start
    <3> QED
      BY <3>1, <3>2, <3>3 DEF GetInv
  <2>4. CASE read # 0
    <3>1. /\ pc' = "get_read" /\ total' = read /\ rest' = length - read
          /\ offset' = start + read /\ UNCHANGED <<request, file, received>>
          /\ buf' = [i \in DOMAIN buf |-> IF i <= read THEN file[offset + i] ELSE buf[i]]
      BY <1>1, <1>2, <1>3, <1>6, <2>1, <2>2, <2>4
    <3>2. Len(buf') = length /\ \A i \in 1 .. read : buf'[i] = file[start + i]
      <4>1. buf' = [i \in 1 .. length |-> IF i <= read THEN file[start + i] ELSE buf[i]]
        BY <1>2, <1>3, <2>1, <3>1
      <4>2. read \in Nat /\ read <= length
        BY <2>1, <2>2
      <4>3. Len(buf') = length
        BY <1>3, <4>1
      <4>4. \A i \in 1 .. read : buf'[i] = file[start + i]
        BY <1>3, <4>1, <4>2
      <4> QED
        BY <4>3, <4>4
    <3>3. Read'
      BY <1>5, <2>1, <2>2, <3>1, <3>2 DEF Read, length, start
    <3>4. total' = Due'
      BY <1>5, <2>1, <3>1
    <3> QED
      BY <1>2, <3>1, <3>3, <3>4 DEF GetInv, length, start
  <2> QED
    BY <2>3, <2>4
<1>7. CASE total # 0
  <2>1. total = Due /\ total < length
    BY <1>1, <1>2, <1>3, <1>7
  <2>2. total = Avail
    BY <1>3, <1>4, <2>1 DEF Least
  <2>3. offset = flen
    BY <1>2, <1>3, <1>4, <1>7, <2>2
  <2>4. left = 0 /\ read = 0
    BY <1>2, <1>3, <2>3 DEF Least
  <2> HIDE DEF left, read
  <2>5. pc' = "get_write" /\ offset' = 0 /\ UNCHANGED <<buf, total, request, file, received>>
    BY <1>1, <2>4
  <2>6. total' = Due' /\ offset' <= total' /\ Len(received') = offset'
    BY <1>2, <1>3, <1>5, <2>1, <2>5
  <2>7. Read'
    BY <1>2, <1>5, <2>5 DEF Read, length, start
  <2> QED
    BY <2>5, <2>6, <2>7 DEF GetInv
<1> QED
  BY <1>6, <1>7

\* Nothing remains to be read: what is due has been.
LEMMA GetReplyStep ==
    ASSUME Types, GetInv, GetReply
    PROVE  GetInv'
<1> SUFFICES ASSUME ~grew PROVE GetInv'
  BY DEF GetReply, GetInv
<1>1. /\ pc = "get_read" /\ rest <= 0 /\ pc' = "get_write" /\ offset' = 0
      /\ UNCHANGED <<request, file, buf, total, received, grew>>
  BY DEF GetReply
<1>2. /\ Read /\ total <= request.length /\ total <= Avail
      /\ rest = request.length - total /\ total \in {0, Due} /\ received = <<>>
  BY <1>1 DEF GetInv, Getting, Read
<1>3. request.length \in Nat /\ request.start \in Nat /\ Len(file) \in Nat /\ total \in Nat
  BY BoundAssumption DEF Types, Requests
<1>4. Avail \in Nat
  BY <1>3 DEF Avail
<1>5. total = Due
  <2>1. total = request.length
    BY <1>1, <1>2, <1>3
  <2> QED
    BY <1>2, <1>3, <1>4, <2>1 DEF Due, Least
<1>6. Avail' = Avail /\ Due' = Due
  BY <1>1 DEF Avail, Due, Least
<1>7. Read'
  BY <1>1, <1>2, <1>6 DEF Read
<1>8. total' = Due' /\ offset' <= total' /\ Len(received') = offset'
  BY <1>1, <1>2, <1>3, <1>5, <1>6
<1> QED
  BY <1>1, <1>7, <1>8 DEF GetInv

\* What was read is written, once.
LEMMA GetWriteStep ==
    ASSUME Types, GetInv, GetWrite
    PROVE  GetInv'
<1> SUFFICES ASSUME ~grew PROVE GetInv'
  BY DEF GetWrite, GetInv
<1> DEFINE blen == Len(buf)
           slice == SubSeq(buf, offset + 1, Least(total, blen))
<1>1. /\ pc = "get_write" /\ offset < total /\ pc' = pc
      /\ received' = received \o slice /\ offset' = offset + Len(slice)
      /\ UNCHANGED <<request, file, buf, total, grew>>
  BY DEF GetWrite
<1>2. /\ Read /\ blen = request.length /\ total <= request.length
      /\ total = Due /\ Len(received) = offset
      /\ \A i \in 1 .. offset : received[i] = buf[i]
  BY <1>1 DEF GetInv, Getting, Read
<1>3. /\ total \in Nat /\ offset \in Nat /\ buf \in Seq(ByteSet) /\ received \in Seq(ByteSet)
      /\ blen \in Nat
  BY DEF Types
<1>4. Least(total, blen) = total /\ total <= blen
  BY <1>2, <1>3 DEF Least
<1>5. /\ slice \in Seq(ByteSet)
      /\ Len(slice) = IF offset + 1 <= total THEN total - (offset + 1) + 1 ELSE 0
      /\ \A i \in 1 .. total - (offset + 1) + 1 : slice[i] = buf[offset + 1 + i - 1]
  BY <1>3, <1>4, PartOf
<1> HIDE DEF slice, blen
<1>6. Len(slice) = total - offset
  BY <1>1, <1>3, <1>5
<1>7. offset' = total /\ total' = total
  BY <1>1, <1>3, <1>6
<1>8. /\ Len(received \o slice) = Len(received) + Len(slice)
      /\ \A i \in 1 .. Len(received) + Len(slice) :
            (received \o slice)[i] = IF i <= Len(received) THEN received[i]
                                     ELSE slice[i - Len(received)]
  BY <1>3, <1>5, ConcatProperties
<1>9. Len(received') = total
  <2>1. Len(received') = offset + (total - offset)
    BY <1>1, <1>2, <1>6, <1>8
  <2> QED
    BY <1>3, <2>1
<1>10. ASSUME NEW i \in 1 .. total PROVE received'[i] = buf[i]
  <2>1. received'[i] = IF i <= offset THEN received[i] ELSE slice[i - offset]
    <3>1. i \in 1 .. offset + (total - offset)
      BY <1>3
    <3> QED
      BY <1>1, <1>2, <1>6, <1>8, <3>1
  <2>2. CASE i <= offset
    <3>1. i \in 1 .. offset
      BY <1>3, <2>2
    <3> QED
      BY <1>2, <2>1, <2>2, <3>1
  <2>3. CASE ~(i <= offset)
    <3>1. /\ i - offset \in 1 .. total - (offset + 1) + 1
          /\ offset + 1 + (i - offset) - 1 = i
      BY <1>3, <2>3
    <3>2. slice[i - offset] = buf[offset + 1 + (i - offset) - 1]
      BY <1>5, <3>1
    <3> QED
      BY <2>1, <2>3, <3>1, <3>2
  <2> QED
    BY <2>2, <2>3
<1>11. Avail' = Avail /\ Due' = Due
  BY <1>1 DEF Avail, Due, Least
<1>12. Read'
  BY <1>1, <1>2, <1>11 DEF Read
<1>13. /\ total' = Due' /\ offset' <= total' /\ Len(received') = offset'
       /\ \A i \in 1 .. offset' : received'[i] = buf'[i]
  BY <1>1, <1>2, <1>3, <1>7, <1>9, <1>10, <1>11
<1> QED
  BY <1>1, <1>12, <1>13 DEF GetInv

\* Every step of a get, and of others during it, keeps what was read.
LEMMA GetInductive == Types /\ GetInv /\ [Next]_vars => GetInv'
<1> SUFFICES ASSUME Types, GetInv, [Next]_vars PROVE GetInv'
  OBVIOUS
<1>1. CASE GetRead \/ GetReply \/ GetWrite
  BY <1>1, GetReadStep, GetReplyStep, GetWriteStep
<1>2. ASSUME NEW start \in 0 .. InitLength, NEW length \in 0 .. MaxLength, StartGet(start, length)
      PROVE  GetInv'
  BY <1>2, StartGetStep
<1>3. CASE GetEnd
  <2>1. /\ pc = "get_write" /\ offset >= total /\ pc' = "get_done"
        /\ UNCHANGED <<request, file, buf, total, offset, received, grew>>
    BY <1>3 DEF GetEnd
  <2>2. Avail' = Avail /\ Due' = Due /\ (Read => Read')
    BY <2>1 DEF Avail, Due, Least, Read
  <2>3. offset <= total => offset = total
    BY <2>1 DEF Types
  <2> QED
    BY <2>1, <2>2, <2>3 DEF GetInv, Getting
<1>4. CASE FileGrows
  BY <1>4 DEF FileGrows, GetInv
<1>5. CASE \/ GetFails \/ PutRead \/ PutWrite \/ PutFails \/ PutEnd \/ Done \/ Stop
           \/ \E length \in 0 .. MaxLength, append \in BOOLEAN : StartPut(length, append)
  <2>1. pc' \notin Getting
    BY <1>5 DEF GetFails, PutRead, PutWrite, PutFails, PutEnd, Done, Stop, StartPut, Getting
  <2> QED
    BY <2>1 DEF GetInv
<1>6. CASE PeerSends \/ PeerCloses \/ UNCHANGED vars
  <2>1. UNCHANGED <<pc, request, file, rest, buf, total, offset, received, grew>>
    BY <1>6 DEF PeerSends, PeerCloses, vars
  <2>2. Avail' = Avail /\ Due' = Due /\ (Read => Read')
    BY <2>1 DEF Avail, Due, Least, Read
  <2> QED
    BY <2>1, <2>2 DEF GetInv
<1> QED
  BY <1>1, <1>2, <1>3, <1>4, <1>5, <1>6 DEF Next, Worker

\* A get of a file that does not grow returns the bytes from the start
\* position on, as many as were asked for or as there are, for every length
\* of the file and of the request.
THEOREM GetsExact == Spec => []GetExact
<1>1. Init => GetInv
  BY DEF Init, GetInv, Getting
<1>2. Types /\ GetInv => GetExact
  <2> SUFFICES ASSUME Types, GetInv, pc = "get_done", ~grew
               PROVE  /\ received = SubSeq(file, request.start + 1, request.start + total)
                      /\ total = Least(request.length,
                            IF request.start < Len(file) THEN Len(file) - request.start ELSE 0)
    BY DEF GetExact
  <2> DEFINE start == request.start
             flen == Len(file)
             part == SubSeq(file, start + 1, start + total)
  <2>1. /\ total = Due /\ offset = total /\ Len(received) = offset
        /\ \A i \in 1 .. offset : received[i] = buf[i]
        /\ total <= Avail /\ \A i \in 1 .. total : buf[i] = file[start + i]
    BY DEF GetInv, Getting, Read
  <2>2. /\ start \in Nat /\ flen \in Nat /\ total \in Nat
        /\ file \in Seq(ByteSet) /\ received \in Seq(ByteSet)
    BY DEF Types, Requests
  <2>3. Avail = IF start < flen THEN flen - start ELSE 0
    BY DEF Avail
  <2>4. received = part
    <3>1. CASE total = 0
      <4>1. part = <<>>
        <5>1. start + 1 \in Int /\ start + total \in Int /\ start + total < start + 1
          BY <2>2, <3>1
        <5> QED
          BY <5>1, SubSeqEmpty
      <4>2. received = <<>>
        BY <2>1, <2>2, <3>1
      <4> QED
        BY <4>1, <4>2
    <3>2. CASE total # 0
      <4> HIDE DEF start, flen
      <4>1. start + 1 \in Nat \ {0} /\ start + total \in Nat /\ start + total <= flen
        BY <2>1, <2>2, <2>3, <3>2
      <4>2. /\ part \in Seq(ByteSet)
            /\ Len(part) = IF start + 1 <= start + total THEN start + total - (start + 1) + 1 ELSE 0
            /\ \A i \in 1 .. start + total - (start + 1) + 1 : part[i] = file[start + 1 + i - 1]
        BY <2>2, <4>1, PartOf DEF flen
      <4> HIDE DEF part
      <4>3. Len(part) = total
        BY <2>2, <3>2, <4>2
      <4>4. ASSUME NEW i \in 1 .. total PROVE received[i] = part[i]
        <5>1. /\ i \in 1 .. start + total - (start + 1) + 1
              /\ start + 1 + i - 1 = start + i
          BY <2>2
        <5>2. part[i] = file[start + i]
          BY <4>2, <5>1
        <5>3. received[i] = file[start + i]
          BY <2>1
        <5> QED
          BY <5>2, <5>3
      <4>5. Len(received) = Len(part) /\ \A i \in 1 .. Len(received) : received[i] = part[i]
        BY <2>1, <4>3, <4>4
      <4> QED
        BY <2>2, <4>2, <4>5, SeqEqual
    <3> QED
      BY <3>1, <3>2
  <2> QED
    BY <2>1, <2>4 DEF Due, Avail
<1> QED
  BY <1>1, <1>2, GetInductive, TypesAlways, PTL DEF Spec

=============================================================================

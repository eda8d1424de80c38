--------------------------- MODULE ForwarderProofs ---------------------------
(***************************************************************************)
(* Proofs about Forwarder, for every number of bytes, every buffer and     *)
(* every capacity of the kernel.                                           *)
(*                                                                         *)
(* What was handed on, what a thread holds in its buffer and what it has   *)
(* not received yet make up, in this order, what the source has sent: this *)
(* is inductive, and gives the byte streams and that the side which ends   *)
(* the connection is heard to its end.                                     *)
(***************************************************************************)
EXTENDS Forwarder, SequenceTheorems, TLAPS

-----------------------------------------------------------------------------
(* The inductive invariant. *)

\* the bytes of direction d are where they belong
InOrder(d) ==
    LET out == handed[Destination(d)]
    IN  /\ \A i \in 1 .. Len(out) : out[i] = i
        /\ \A i \in 1 .. Len(buffer[d]) : buffer[d][i] = Len(out) + i
        /\ taken[Source(d)] = Len(out) + Len(buffer[d])
        /\ taken[Source(d)] <= sent[Source(d)]

\* a thread that receives holds nothing; one that met the end of its source
\* holds nothing, has left its loop, and its source sends no more
Settled(d) ==
    /\ pc[d] \in {"none", "begin", "recv", "sleep"} => buffer[d] = <<>>
    /\ eof[d] => /\ pc[d] \in {"close", "close_service", "exit"}
                 /\ buffer[d] = <<>>
                 /\ end[Source(d)] # "open"
                 /\ taken[Source(d)] = sent[Source(d)]

\* a thread is there once the main thread has started it
Started ==
    /\ main = "connect" => pc[Up] = "none"
    /\ main # "done" => pc[Down] = "none"

StreamInv == TypeOK /\ Started /\ \A d \in Dirs : InOrder(d) /\ Settled(d)

-----------------------------------------------------------------------------
(* Lemmas. *)

\* The smaller of two numbers.
LEMMA MinPair ==
    ASSUME NEW a \in Int, NEW b \in Int
    PROVE  Min({a, b}) \in {a, b} /\ Min({a, b}) <= a /\ Min({a, b}) <= b
<1>1. \E x \in {a, b} : \A y \in {a, b} : x <= y
  OBVIOUS
<1> QED
  BY <1>1 DEF Min

\* What a choice up to the smaller of two numbers is bounded by.
LEMMA UpToMin ==
    ASSUME NEW a \in Int, NEW b \in Int, NEW n \in 1 .. Min({a, b})
    PROVE  n \in Nat \ {0} /\ n <= a /\ n <= b
<1>1. Min({a, b}) \in {a, b} /\ Min({a, b}) <= a /\ Min({a, b}) <= b
  BY MinPair
<1> QED
  BY <1>1

\* The two directions have different sources and different destinations.
LEMMA Opposite ==
    /\ \A d \in Dirs : Source(d) \in Ends /\ Destination(d) \in Ends
    /\ \A d, e \in Dirs : Source(d) = Source(e) => d = e
    /\ \A d, e \in Dirs : Destination(d) = Destination(e) => d = e
BY DEF Dirs, Ends, Source, Destination, Up, Down, Client, Service

\* the places of a thread that holds nothing
Empty == {"none", "begin", "recv", "sleep"}
\* the places after the loop
Left == {"close", "close_service", "exit"}

\* A step that moves no byte keeps the invariant, if a thread that holds bytes
\* stays out of the places where it must not, and one that has left its loop
\* does not come back.
LEMMA NoByteMoves ==
    ASSUME StreamInv, TypeOK', Started', UNCHANGED <<buffer, eof, sent, taken, handed>>,
           \A d \in Dirs : pc'[d] \in Empty => pc[d] \in Empty,
           \A d \in Dirs : pc[d] \in Left => pc'[d] \in Left,
           \A e \in Ends : end[e] # "open" => end'[e] # "open"
    PROVE  StreamInv'
<1>1. \A d \in Dirs : InOrder(d)'
  BY DEF StreamInv, InOrder, Source, Destination
<1>2. ASSUME NEW d \in Dirs PROVE Settled(d)'
  <2>1. Settled(d) /\ Source(d) \in Ends
    BY Opposite DEF StreamInv
  <2>2. Source(d)' = Source(d)
    BY DEF Source
  <2> QED
    BY <2>1, <2>2 DEF Settled, Empty, Left
<1> QED
  BY <1>1, <1>2 DEF StreamInv

\* The main thread starts the threads, or ends the process.
LEMMA MainThreadStep ==
    ASSUME StreamInv, MainThread
    PROVE  StreamInv'
<1> USE DEF MainThread, StartForwarding, StartSecond, StartFails, ThreadsOver, Goto,
        StreamInv, TypeOK, Started, endVars, Dirs, Up, Down
<1>1. TypeOK'
  BY DEF Ends
<1>2. Started'
  OBVIOUS
<1>3. /\ UNCHANGED <<buffer, eof, sent, taken, handed, end>>
      /\ \A d \in Dirs : pc'[d] = pc[d] \/ (pc'[d] = "begin" /\ pc[d] = "none")
  OBVIOUS
<1> HIDE DEF StreamInv, TypeOK, MainThread, Started
<1> QED
  BY <1>1, <1>2, <1>3, NoByteMoves DEF Empty, Left

\* A step of a thread that moves no byte: the peers' names, the end of a pause,
\* an exception, the closing of the sockets and the end of the process.
LEMMA IdleThreadStep ==
    ASSUME StreamInv, NEW d \in Dirs,
           Begin(d) \/ Sleep(d) \/ TransferFails(d) \/ Close(d) \/ Exit(d)
    PROVE  StreamInv'
<1> USE DEF Begin, Sleep, TransferFails, Close, Exit, Goto, endVars
<1>1. TypeOK'
  BY DEF StreamInv, TypeOK, Ends, Client, Service
<1>2. Started'
  BY DEF StreamInv, TypeOK, Started, Dirs, Up, Down
<1>3. UNCHANGED <<buffer, eof, sent, taken, handed, end>>
  OBVIOUS
<1>4. \A e \in Dirs : /\ pc'[e] \in Empty => pc[e] \in Empty
                      /\ pc[e] \in Left => pc'[e] \in Left
  BY DEF StreamInv, TypeOK, Empty, Left
<1> QED
  BY <1>1, <1>2, <1>3, <1>4, NoByteMoves

\* An end stops sending, is reset, or reads.
LEMMA QuietPeerStep ==
    ASSUME StreamInv, NEW e \in Ends, EndShuts(e) \/ EndResets(e) \/ EndReads(e)
    PROVE  StreamInv'
<1> USE DEF EndShuts, EndResets, EndReads
<1>1. TypeOK'
  <2>1. unread' \in [Ends -> 0 .. Capacity]
    <3>1. unread \in [Ends -> 0 .. Capacity] /\ Capacity \in Nat
      BY SizesAssumption DEF StreamInv, TypeOK
    <3>2. CASE EndReads(e)
      <4>1. PICK n \in 1 .. unread[e] : unread' = [unread EXCEPT ![e] = @ - n]
        BY <3>2
      <4>2. unread[e] - n \in 0 .. Capacity
        BY <3>1
      <4> QED
        BY <3>1, <4>1, <4>2
    <3> QED
      BY <3>1, <3>2
  <2>2. end' \in [Ends -> {"open", "shut", "reset"}]
    BY DEF StreamInv, TypeOK
  <2> QED
    BY <2>1, <2>2 DEF StreamInv, TypeOK
<1>2. UNCHANGED <<main, pc, buffer, eof, sent, taken, handed>>
  OBVIOUS
<1>3. \A f \in Ends : end[f] # "open" => end'[f] # "open"
  BY DEF StreamInv, TypeOK
<1>4. Started'
  BY <1>2 DEF StreamInv, Started
<1> QED
  BY <1>1, <1>2, <1>3, <1>4, NoByteMoves

\* An end sends a byte: its direction has one more to receive.
LEMMA EndSendsStep ==
    ASSUME StreamInv, NEW e \in Ends, EndSends(e)
    PROVE  StreamInv'
<1>1. TypeOK'
  BY SizesAssumption DEF EndSends, StreamInv, TypeOK
<1>2. UNCHANGED <<main, pc, buffer, eof, taken, handed, end>>
  BY DEF EndSends
<1>3. Started'
  BY <1>2 DEF StreamInv, Started
<1>4. ASSUME NEW d \in Dirs PROVE InOrder(d)' /\ Settled(d)'
  <2>1. InOrder(d) /\ Settled(d) /\ Source(d) \in Ends
    BY Opposite DEF StreamInv
  <2>2. sent[Source(d)] \in Nat /\ taken[Source(d)] \in Nat
    BY <2>1 DEF StreamInv, TypeOK
  <2>3. /\ sent'[Source(d)] \in {sent[Source(d)], sent[Source(d)] + 1}
        /\ end[Source(d)] # "open" => sent'[Source(d)] = sent[Source(d)]
    BY <2>1 DEF EndSends, StreamInv, TypeOK
  <2>4. InOrder(d)'
    <3>0. taken[Source(d)] <= sent[Source(d)]
      BY <2>1 DEF InOrder
    <3>1. taken[Source(d)] <= sent'[Source(d)]
      BY <2>2, <2>3, <3>0
    <3> QED
      BY <1>2, <2>1, <3>1 DEF InOrder, Source, Destination
  <2>5. Settled(d)'
    BY <1>2, <2>1, <2>3 DEF Settled, Source
  <2> QED
    BY <2>4, <2>5
<1> QED
  BY <1>1, <1>3, <1>4 DEF StreamInv

-----------------------------------------------------------------------------
(* The steps that move bytes. *)

\* recv: the bytes that follow those handed on go into the empty buffer.
LEMMA RecvStep ==
    ASSUME StreamInv, NEW d \in Dirs, Recv(d)
    PROVE  StreamInv'
<1> DEFINE s == Source(d)
<1>1. /\ InOrder(d) /\ Settled(d) /\ s \in Ends /\ Destination(d) \in Ends
      /\ pc[d] = "recv" /\ buffer[d] = <<>> /\ ~eof[d]
  BY Opposite DEF Recv, StreamInv, Settled, TypeOK
<1>2. /\ sent[s] \in 0 .. MaxBytes /\ taken[s] \in 0 .. MaxBytes
      /\ MaxBytes \in Nat /\ BufSize \in Nat
  BY <1>1, SizesAssumption DEF StreamInv, TypeOK
<1>3. PICK n \in 1 .. Min({BufSize, sent[s] - taken[s]}) :
         /\ buffer' = [buffer EXCEPT ![d] = [i \in 1 .. n |-> taken[s] + i]]
         /\ taken' = [taken EXCEPT ![s] = @ + n]
  BY DEF Recv
<1>4. n \in Nat \ {0} /\ n <= BufSize /\ taken[s] + n <= sent[s]
  <2>1. BufSize \in Int /\ sent[s] - taken[s] \in Int
    BY <1>2
  <2>2. n \in Nat \ {0} /\ n <= BufSize /\ n <= sent[s] - taken[s]
    BY <2>1, UpToMin
  <2> QED
    BY <1>2, <2>2
<1> DEFINE new == [i \in 1 .. n |-> taken[s] + i]
<1>5. new \in Seq(1 .. MaxBytes) /\ Len(new) = n /\ \A i \in 1 .. n : new[i] = taken[s] + i
  BY <1>2, <1>4
<1> HIDE DEF new
<1>6. /\ buffer' = [buffer EXCEPT ![d] = new] /\ pc' = [pc EXCEPT ![d] = "send"]
      /\ UNCHANGED <<proc, main, eof, closed, handed, end, sent, unread>>
  BY <1>3 DEF Recv, Goto, endVars, new
<1>7. taken'[s] = taken[s] + n /\ taken' \in [Ends -> 0 .. MaxBytes]
  BY <1>1, <1>2, <1>3, <1>4 DEF StreamInv, TypeOK
<1>8. \A e \in Dirs \ {d} : /\ buffer'[e] = buffer[e] /\ pc'[e] = pc[e]
                            /\ taken'[Source(e)] = taken[Source(e)]
  <2>1. \A e \in Dirs \ {d} : Source(e) \in Ends /\ Source(e) # s
    BY Opposite
  <2> QED
    BY <1>3, <1>6, <2>1 DEF StreamInv, TypeOK
<1>9. pc'[d] = "send" /\ buffer'[d] = new
  BY <1>6 DEF StreamInv, TypeOK
<1>10. TypeOK'
  <2>1. buffer' \in [Dirs -> Seq(1 .. MaxBytes)]
    BY <1>5, <1>6 DEF StreamInv, TypeOK
  <2>2. \A e \in Dirs : Len(buffer'[e]) <= BufSize
    BY <1>4, <1>5, <1>8, <1>9 DEF StreamInv, TypeOK
  <2> QED
    BY <1>6, <1>7, <2>1, <2>2 DEF StreamInv, TypeOK
<1>11. Started'
  BY <1>1, <1>6 DEF StreamInv, Started, Dirs, Up, Down, TypeOK
<1>12. ASSUME NEW e \in Dirs \ {d} PROVE InOrder(e)' /\ Settled(e)'
  <2>1. InOrder(e) /\ Settled(e)
    BY DEF StreamInv
  <2>2. InOrder(e)'
    BY <1>6, <1>8, <2>1 DEF InOrder, Source, Destination
  <2>3. Settled(e)'
    BY <1>6, <1>8, <2>1 DEF Settled, Source
  <2> QED
    BY <2>2, <2>3
<1>13. InOrder(d)'
  <2> DEFINE out == handed[Destination(d)]
  <2>1. /\ \A i \in 1 .. Len(out) : out[i] = i
        /\ taken[s] = Len(out) + Len(buffer[d])
    BY <1>1 DEF InOrder
  <2>2. Len(buffer[d]) = 0 /\ Len(out) \in Nat
    BY <1>1 DEF StreamInv, TypeOK
  <2>3. taken[s] = Len(out)
    BY <2>1, <2>2
  <2>4. \A i \in 1 .. Len(new) : new[i] = Len(out) + i
    BY <1>5, <2>3
  <2>5. taken'[s] = Len(out) + Len(new) /\ taken'[s] <= sent[s]
    BY <1>4, <1>5, <1>7, <2>3
  <2> QED
    BY <1>6, <1>9, <2>1, <2>4, <2>5 DEF InOrder, Source, Destination
<1>14. Settled(d)'
  BY <1>1, <1>6, <1>9 DEF Settled
<1> QED
  BY <1>10, <1>11, <1>12, <1>13, <1>14 DEF StreamInv

\* An empty recv: all that the source sent has been handed on.
LEMMA RecvEndStep ==
    ASSUME StreamInv, NEW d \in Dirs, RecvEnd(d)
    PROVE  StreamInv'
<1>1. /\ pc[d] = "recv" /\ buffer[d] = <<>>
      /\ end[Source(d)] = "shut" /\ taken[Source(d)] = sent[Source(d)]
  BY DEF RecvEnd, StreamInv, Settled
<1>2. /\ pc' = [pc EXCEPT ![d] = "close"] /\ eof' = [eof EXCEPT ![d] = TRUE]
      /\ UNCHANGED <<proc, main, buffer, closed, taken, handed, end, sent, unread>>
  BY DEF RecvEnd, Goto, endVars
<1>3. TypeOK'
  BY <1>2 DEF StreamInv, TypeOK
<1>4. Started'
  BY <1>1, <1>2 DEF StreamInv, Started, Dirs, Up, Down, TypeOK
<1>5. \A e \in Dirs : InOrder(e)'
  BY <1>2 DEF StreamInv, InOrder, Source, Destination
<1>6. \A e \in Dirs \ {d} : Settled(e)'
  BY <1>2 DEF StreamInv, Settled, Source, TypeOK
<1>7. Settled(d)'
  <2>1. pc'[d] = "close"
    BY <1>2 DEF StreamInv, TypeOK
  <2> QED
    BY <1>1, <1>2, <2>1 DEF Settled, Source
<1> QED
  BY <1>3, <1>4, <1>5, <1>6, <1>7 DEF StreamInv

\* left and new are what remains of b, and what a becomes, when the first n
\* elements of b are moved to the end of a
Moved(S, a, b, n, left, new) ==
    /\ left \in Seq(S) /\ Len(left) = Len(b) - n
    /\ \A i \in 1 .. Len(left) : left[i] = b[n + i]
    /\ new \in Seq(S) /\ Len(new) = Len(a) + n
    /\ \A i \in 1 .. Len(a) : new[i] = a[i]
    /\ \A i \in 1 .. Len(new) : ~(i <= Len(a)) => new[i] = b[i - Len(a)]

\* SubSeq and \o move the beginning of a sequence.
LEMMA MovePrefix ==
    ASSUME NEW S, NEW a \in Seq(S), NEW b \in Seq(S), NEW n \in 1 .. Len(b)
    PROVE  Moved(S, a, b, n, SubSeq(b, n + 1, Len(b)), a \o SubSeq(b, 1, n))
<1> DEFINE left == SubSeq(b, n + 1, Len(b))
           new == a \o SubSeq(b, 1, n)
<1> DEFINE first == SubSeq(b, 1, n)
<1>1. Len(a) \in Nat /\ Len(b) \in Nat /\ n \in Nat \ {0} /\ n <= Len(b)
  OBVIOUS
<1>2. left \in Seq(S) /\ Len(left) = Len(b) - n
  <2>1. n + 1 \in 1 .. Len(b) + 1 /\ Len(b) \in n + 1 - 1 .. Len(b)
    BY <1>1
  <2>2. /\ left \in Seq(S)
        /\ Len(left) = IF n + 1 <= Len(b) THEN Len(b) - (n + 1) + 1 ELSE 0
    BY <2>1, <1>1, SubSeqProperties
  <2> QED
    BY <1>1, <2>2
<1>3. \A i \in 1 .. Len(left) : left[i] = b[n + i]
  <2>1. ASSUME NEW i \in 1 .. Len(b) - n PROVE left[i] = b[n + i]
    <3>1. n + i = n + 1 + i - 1 /\ i \in 1 .. Len(b) - (n + 1) + 1
      BY <1>1
    <3> QED
      BY <1>1, <3>1
  <2> QED
    BY <1>2, <2>1
<1>4. first \in Seq(S) /\ Len(first) = n /\ \A i \in 1 .. n : first[i] = b[i]
  BY <1>1
<1>5. new \in Seq(S) /\ Len(new) = Len(a) + n
  BY <1>1, <1>4, ConcatProperties
<1>6. \A i \in 1 .. Len(a) : new[i] = a[i]
  BY <1>1, <1>4
<1>7. ASSUME NEW i \in 1 .. Len(new), ~(i <= Len(a)) PROVE new[i] = b[i - Len(a)]
  <2>1. i - Len(a) \in 1 .. n /\ i \in 1 .. Len(a) + Len(first)
    BY <1>1, <1>4, <1>5, <1>7
  <2>2. new[i] = first[i - Len(a)]
    BY <1>1, <1>4, <1>7, <2>1
  <2> QED
    BY <1>4, <2>1, <2>2
<1> QED
  BY <1>2, <1>3, <1>5, <1>6, <1>7 DEF Moved

\* send: the kernel takes the beginning of the buffer, which follows what it
\* has taken before.
LEMMA SendSomeStep ==
    ASSUME StreamInv, NEW d \in Dirs, SendSome(d)
    PROVE  StreamInv'
<1> DEFINE t == Destination(d)
           out == handed[t]
           buf == buffer[d]
<1>1. /\ InOrder(d) /\ Settled(d) /\ t \in Ends /\ Source(d) \in Ends
      /\ pc[d] = "send" /\ ~eof[d]
  BY Opposite DEF SendSome, StreamInv, Settled, TypeOK
<1>2. /\ out \in Seq(1 .. MaxBytes) /\ buf \in Seq(1 .. MaxBytes)
      /\ Len(buf) <= BufSize /\ unread[t] \in 0 .. Capacity /\ Capacity \in Nat
      /\ BufSize \in Nat /\ MaxBytes \in Nat
  BY <1>1, SizesAssumption DEF StreamInv, TypeOK
<1>3. PICK n \in Nat \ {0} :
         /\ n <= Len(buf) /\ n <= Capacity - unread[t]
         /\ handed' = [handed EXCEPT ![t] = @ \o SubSeq(buf, 1, n)]
         /\ unread' = [unread EXCEPT ![t] = @ + n]
         /\ buffer' = [buffer EXCEPT ![d] = SubSeq(@, n + 1, Len(@))]
         /\ IF n < Len(buf) THEN UNCHANGED pc ELSE Goto(d, "recv") \/ Goto(d, "sleep")
  <2>1. PICK n \in 1 .. Min({Len(buf), Capacity - unread[t]}) :
           /\ handed' = [handed EXCEPT ![t] = @ \o SubSeq(buf, 1, n)]
           /\ unread' = [unread EXCEPT ![t] = @ + n]
           /\ buffer' = [buffer EXCEPT ![d] = SubSeq(@, n + 1, Len(@))]
           /\ IF n < Len(buf) THEN UNCHANGED pc ELSE Goto(d, "recv") \/ Goto(d, "sleep")
    BY DEF SendSome
  <2>2. Len(buf) \in Int /\ Capacity - unread[t] \in Int
    BY <1>2
  <2>3. n \in Nat \ {0} /\ n <= Len(buf) /\ n <= Capacity - unread[t]
    BY <2>2, UpToMin
  <2> QED
    BY <2>1, <2>3
<1>4. n \in 1 .. Len(buf) /\ n <= Capacity - unread[t]
  BY <1>2, <1>3
<1> DEFINE left == SubSeq(buf, n + 1, Len(buf))
           new == out \o SubSeq(buf, 1, n)
<1>5. n \in 1 .. Len(buf) /\ Len(out) \in Nat /\ Len(buf) \in Nat
  BY <1>2, <1>4
<1> HIDE DEF out, buf
<1>6. /\ left \in Seq(1 .. MaxBytes) /\ Len(left) = Len(buf) - n
      /\ \A i \in 1 .. Len(left) : left[i] = buf[n + i]
      /\ new \in Seq(1 .. MaxBytes) /\ Len(new) = Len(out) + n
      /\ \A i \in 1 .. Len(out) : new[i] = out[i]
      /\ \A i \in 1 .. Len(new) : ~(i <= Len(out)) => new[i] = buf[i - Len(out)]
  <2>1. Moved(1 .. MaxBytes, out, buf, n, left, new)
    BY <1>2, <1>5, MovePrefix
  <2> HIDE DEF left, new
  <2> QED
    BY <2>1 DEF Moved
<1>7. Len(new) = Len(out) + n /\ Len(left) = Len(buf) - n
  BY <1>6
<1> HIDE DEF left, new
<1>8. /\ handed' = [handed EXCEPT ![t] = new] /\ buffer' = [buffer EXCEPT ![d] = left]
      /\ UNCHANGED <<proc, main, eof, closed, end, sent, taken>>
  BY <1>3 DEF SendSome, left, new, out, buf
<1>9. /\ handed'[t] = new /\ buffer'[d] = left
      /\ pc'[d] \in {"send", "recv", "sleep"}
      /\ pc'[d] # "send" => left = <<>>
  <2>1. handed'[t] = new /\ buffer'[d] = left
    BY <1>1, <1>8 DEF StreamInv, TypeOK
  <2>2. CASE n < Len(buf)
    BY <1>1, <1>3, <2>1, <2>2
  <2>3. CASE ~(n < Len(buf))
    <3>1. Len(left) = 0
      BY <1>2, <1>4, <1>6, <2>3
    <3>2. left = <<>>
      BY <1>6, <3>1
    <3>3. pc'[d] \in {"recv", "sleep"}
      BY <1>3, <2>3 DEF Goto, StreamInv, TypeOK
    <3> QED
      BY <2>1, <3>2, <3>3
  <2> QED
    BY <2>2, <2>3
<1>10. \A e \in Dirs \ {d} : /\ buffer'[e] = buffer[e] /\ pc'[e] = pc[e]
                             /\ handed'[Destination(e)] = handed[Destination(e)]
  <2>1. \A e \in Dirs \ {d} : Destination(e) \in Ends /\ Destination(e) # t
    BY Opposite
  <2>2. \A e \in Dirs \ {d} : pc'[e] = pc[e]
    BY <1>3 DEF Goto, StreamInv, TypeOK
  <2> QED
    BY <1>8, <2>1, <2>2 DEF StreamInv, TypeOK
<1>11. TypeOK'
  <2>1. /\ handed' \in [Ends -> Seq(1 .. MaxBytes)]
        /\ buffer' \in [Dirs -> Seq(1 .. MaxBytes)]
    BY <1>6, <1>8 DEF StreamInv, TypeOK
  <2>2. unread[t] + n \in 0 .. Capacity
    BY <1>2, <1>4
  <2>3. unread' \in [Ends -> 0 .. Capacity]
    BY <1>3, <2>2 DEF StreamInv, TypeOK
  <2>4. Len(left) <= BufSize
    BY <1>2, <1>4, <1>6
  <2>5. \A e \in Dirs : Len(buffer'[e]) <= BufSize
    BY <1>9, <1>10, <2>4 DEF StreamInv, TypeOK
  <2>6. pc' \in [Dirs -> {"none", "begin", "recv", "send", "sleep", "close",
                          "close_service", "exit", "died"}]
    BY <1>3 DEF Goto, StreamInv, TypeOK
  <2> QED
    BY <1>8, <2>1, <2>3, <2>5, <2>6 DEF StreamInv, TypeOK
<1>12. Started'
  BY <1>1, <1>8, <1>10 DEF StreamInv, Started, Dirs, Up, Down
<1>13. ASSUME NEW e \in Dirs \ {d} PROVE InOrder(e)' /\ Settled(e)'
  <2>1. InOrder(e) /\ Settled(e)
    BY DEF StreamInv
  <2>2. InOrder(e)'
    <3>1. /\ buffer'[e] = buffer[e] /\ taken' = taken /\ sent' = sent
          /\ handed'[Destination(e)] = handed[Destination(e)]
      BY <1>8, <1>10
    <3> QED
      BY <2>1, <3>1 DEF InOrder, Source, Destination
  <2>3. Settled(e)'
    BY <1>8, <1>10, <2>1 DEF Settled, Source
  <2> QED
    BY <2>2, <2>3
<1>14. InOrder(d)'
  <2>1. /\ \A i \in 1 .. Len(out) : out[i] = i
        /\ \A i \in 1 .. Len(buf) : buf[i] = Len(out) + i
        /\ taken[Source(d)] = Len(out) + Len(buf)
        /\ taken[Source(d)] <= sent[Source(d)]
    BY <1>1 DEF InOrder, out, buf
  <2>2. Len(out) \in Nat /\ Len(buf) \in Nat
    BY <1>5
  <2>3. \A i \in 1 .. Len(new) : new[i] = i
    <3>1. ASSUME NEW i \in 1 .. Len(new), ~(i <= Len(out)) PROVE new[i] = i
      <4>1. i - Len(out) \in 1 .. n /\ i - Len(out) \in 1 .. Len(buf)
        BY <1>4, <1>7, <2>2, <3>1
      <4>2. new[i] = buf[i - Len(out)]
        BY <1>6, <3>1
      <4> QED
        BY <2>1, <2>2, <4>1, <4>2
    <3>2. ASSUME NEW i \in 1 .. Len(new), i <= Len(out) PROVE new[i] = i
      BY <1>6, <2>1, <2>2, <3>2
    <3> QED
      BY <3>1, <3>2
  <2>4. \A i \in 1 .. Len(left) : left[i] = Len(new) + i
    <3>1. ASSUME NEW i \in 1 .. Len(left) PROVE left[i] = Len(new) + i
      <4>1. n + i \in 1 .. Len(buf)
        BY <1>4, <1>6, <2>2
      <4> QED
        <5>1. left[i] = buf[n + i]
          BY <1>6
        <5>2. buf[n + i] = Len(out) + (n + i)
          BY <2>1, <4>1
        <5>3. Len(new) + i = Len(out) + (n + i)
          BY <1>5, <1>7
        <5> QED
          BY <5>1, <5>2, <5>3
    <3> QED
      BY <3>1
  <2>5. taken[Source(d)] = Len(new) + Len(left)
    <3>1. /\ taken[Source(d)] = Len(out) + Len(buf)
          /\ Len(new) = Len(out) + n /\ Len(left) = Len(buf) - n
      BY <1>7, <2>1
    <3>2. \A x, y, k \in Int : x + y = (x + k) + (y - k)
      OBVIOUS
    <3>3. Len(out) + Len(buf) = (Len(out) + n) + (Len(buf) - n)
      BY <1>5, <3>2
    <3> QED
      BY <3>1, <3>3
  <2> QED
    BY <1>8, <1>9, <2>1, <2>3, <2>4, <2>5 DEF InOrder, Source, Destination
<1>15. Settled(d)'
  BY <1>1, <1>8, <1>9 DEF Settled
<1> QED
  BY <1>11, <1>12, <1>13, <1>14, <1>15 DEF StreamInv

-----------------------------------------------------------------------------
(* The invariant, and what follows from it. *)

\* The invariant holds at the start.
LEMMA InitStream == Init => StreamInv
<1> SUFFICES ASSUME Init PROVE StreamInv
  OBVIOUS
<1>1. TypeOK
  BY SizesAssumption DEF Init, TypeOK
<1>2. Started
  BY DEF Init, Started, Dirs
<1>3. ASSUME NEW d \in Dirs PROVE InOrder(d) /\ Settled(d)
  <2>1. /\ handed[Destination(d)] = <<>> /\ buffer[d] = <<>> /\ ~eof[d]
        /\ taken[Source(d)] = 0 /\ sent[Source(d)] = 0
    BY Opposite DEF Init
  <2> QED
    BY <2>1 DEF InOrder, Settled
<1> QED
  BY <1>1, <1>2, <1>3 DEF StreamInv

\* Every step of a thread, of the main thread and of the two ends keeps the
\* invariant.
LEMMA StreamInductive == StreamInv /\ [Next]_vars => StreamInv'
<1> SUFFICES ASSUME StreamInv, [Next]_vars PROVE StreamInv'
  OBVIOUS
<1>1. CASE MainThread
  BY <1>1, MainThreadStep
<1>2. ASSUME NEW d \in Dirs, Thread(d) PROVE StreamInv'
  BY <1>2, RecvStep, RecvEndStep, SendSomeStep, IdleThreadStep DEF Thread
<1>3. CASE Peers
  BY <1>3, EndSendsStep, QuietPeerStep DEF Peers
<1>4. CASE UNCHANGED vars
  <2>1. TypeOK' /\ Started'
    BY <1>4 DEF StreamInv, TypeOK, Started, vars
  <2>2. UNCHANGED <<buffer, eof, sent, taken, handed, pc, end>>
    BY <1>4 DEF vars
  <2> QED
    BY <2>1, <2>2, NoByteMoves
<1> QED
  BY <1>1, <1>2, <1>3, <1>4 DEF Next, Gone

\* The bytes are always in order.
LEMMA StreamAlways == Spec => []StreamInv
BY InitStream, StreamInductive, PTL DEF Spec

\* The types of the forwarder's variables: among others, a buffer never holds
\* more than recv was asked for, and the kernel never more than its capacity.
THEOREM ForwarderTypes == Spec => []TypeOK
<1>1. StreamInv => TypeOK
  BY DEF StreamInv
<1> QED
  BY <1>1, StreamAlways, PTL

\* A thread that leaves its loop at the end of its source has handed on every
\* byte of it, for every size of the buffer and every split of the data.
THEOREM FinisherIsHeard == Spec => []FinisherHeard
<1>1. StreamInv => FinisherHeard
  <2> SUFFICES ASSUME StreamInv, NEW d \in Dirs, eof[d]
               PROVE  Len(handed[Destination(d)]) = sent[Source(d)]
    BY DEF FinisherHeard
  <2> DEFINE out == handed[Destination(d)]
  <2>1. buffer[d] = <<>> /\ taken[Source(d)] = sent[Source(d)]
    BY DEF StreamInv, Settled
  <2>2. taken[Source(d)] = Len(out) + Len(buffer[d])
    BY DEF StreamInv, InOrder
  <2>3. out \in Seq(1 .. MaxBytes)
    BY Opposite DEF StreamInv, TypeOK
  <2> HIDE DEF out
  <2>4. taken[Source(d)] = Len(out) + 0
    BY <2>1, <2>2
  <2> QED
    BY <2>1, <2>3, <2>4 DEF out
<1> QED
  BY <1>1, StreamAlways, PTL

-----------------------------------------------------------------------------
(* Each direction is a byte stream. *)

\* what has been handed on are the first bytes of those sent
FirstBytes ==
    \A d \in Dirs :
        /\ handed[Destination(d)] = [i \in 1 .. Len(handed[Destination(d)]) |-> i]
        /\ Len(handed[Destination(d)]) <= sent[Source(d)]

\* The invariant says so.
LEMMA HandedOn == StreamInv => FirstBytes
<1> SUFFICES ASSUME StreamInv, NEW d \in Dirs
             PROVE  /\ handed[Destination(d)] = [i \in 1 .. Len(handed[Destination(d)]) |-> i]
                    /\ Len(handed[Destination(d)]) <= sent[Source(d)]
  BY DEF FirstBytes
<1> DEFINE out == handed[Destination(d)]
           buf == buffer[d]
           k == taken[Source(d)]
           m == sent[Source(d)]
<1>1. /\ out \in Seq(1 .. MaxBytes) /\ buf \in Seq(1 .. MaxBytes)
      /\ k \in Nat /\ m \in Nat
  BY Opposite DEF StreamInv, TypeOK
<1>2. /\ \A i \in 1 .. Len(out) : out[i] = i
      /\ k = Len(out) + Len(buf) /\ k <= m
  BY DEF StreamInv, InOrder
<1> HIDE DEF out, buf, k, m
<1>3. Len(out) \in Nat /\ Len(buf) \in Nat
  BY <1>1
<1>4. out = [i \in 1 .. Len(out) |-> i]
  BY <1>1, <1>2
<1>5. Len(out) <= m
  BY <1>1, <1>2, <1>3
<1> QED
  BY <1>4, <1>5 DEF out, m

\* A step of a direction as a byte stream: Send, Deliver or a stutter.
StreamStep(d) ==
    LET out == handed[Destination(d)]
        m == sent[Source(d)]
    IN  \/ m' = m + 1 /\ out' = out
        \/ (\E n \in Len(out) + 1 .. m : out' = [i \in 1 .. n |-> i]) /\ m' = m
        \/ m' = m /\ out' = out

\* Whatever is added to what has been handed on are the bytes that follow.
LEMMA DeliverStep ==
    ASSUME StreamInv, StreamInv', NEW d \in Dirs, SendSome(d)
    PROVE  StreamStep(d)
<1> DEFINE out == handed[Destination(d)]
           new == handed'[Destination(d)]
           m == sent[Source(d)]
<1>1. /\ Destination(d) \in Ends /\ Destination(d)' = Destination(d)
      /\ Source(d)' = Source(d) /\ sent' = sent
  BY Opposite DEF Destination, Source, SendSome
<1>2. /\ out \in Seq(1 .. MaxBytes) /\ buffer[d] \in Seq(1 .. MaxBytes)
      /\ new \in Seq(1 .. MaxBytes) /\ m \in Nat
      /\ unread[Destination(d)] \in Int /\ Capacity \in Int
  BY <1>1, Opposite, SizesAssumption DEF StreamInv, TypeOK
<1>3. PICK n \in 1 .. Min({Len(buffer[d]), Capacity - unread[Destination(d)]}) :
         handed' = [handed EXCEPT ![Destination(d)] = @ \o SubSeq(buffer[d], 1, n)]
  BY DEF SendSome
<1>4. new = out \o SubSeq(buffer[d], 1, n)
  BY <1>1, <1>3 DEF StreamInv, TypeOK
<1>5. n \in 1 .. Len(buffer[d])
  <2>1. Len(buffer[d]) \in Int /\ Capacity - unread[Destination(d)] \in Int
    BY <1>2
  <2>2. n \in Nat \ {0} /\ n <= Len(buffer[d])
    BY <2>1, UpToMin
  <2> QED
    BY <1>2, <2>2
<1>6. Len(new) = Len(out) + n
  <2>1. Moved(1 .. MaxBytes, out, buffer[d], n,
              SubSeq(buffer[d], n + 1, Len(buffer[d])), out \o SubSeq(buffer[d], 1, n))
    BY <1>2, <1>5, MovePrefix
  <2> QED
    BY <1>4, <2>1 DEF Moved
<1>7. new = [i \in 1 .. Len(new) |-> i] /\ Len(new) \in Nat /\ Len(new) <= m
  <2>1. FirstBytes'
    BY HandedOn, PTL
  <2>2. new = [i \in 1 .. Len(new) |-> i] /\ Len(new) <= m
    BY <1>1, <2>1 DEF FirstBytes, Destination, Source
  <2> QED
    BY <1>2, <2>2
<1> HIDE DEF out, new, m
<1>8. Len(new) \in Len(out) + 1 .. m
  <2>1. Len(out) \in Nat /\ n \in Nat \ {0}
    BY <1>2, <1>5
  <2> QED
    BY <1>2, <1>6, <1>7, <2>1
<1>9. \E j \in Len(out) + 1 .. m : new = [i \in 1 .. j |-> i]
  BY <1>7, <1>8
<1> QED
  BY <1>1, <1>9 DEF StreamStep, out, new, m

\* No other step hands anything on, and an end that sends sends one byte.
LEMMA EveryStreamStep ==
    ASSUME StreamInv, StreamInv', [Next]_vars, NEW d \in Dirs
    PROVE  StreamStep(d)
<1>1. /\ Destination(d) \in Ends /\ Destination(d)' = Destination(d)
      /\ Source(d) \in Ends /\ Source(d)' = Source(d)
  BY Opposite DEF Destination, Source
<1>2. CASE UNCHANGED <<sent, handed>>
  BY <1>1, <1>2 DEF StreamStep
<1>3. ASSUME NEW e \in Dirs, SendSome(e) PROVE StreamStep(d)
  <2>1. CASE e = d
    BY <1>3, <2>1, DeliverStep
  <2>2. CASE e # d
    <3>1. Destination(e) # Destination(d)
      BY <2>2, Opposite
    <3>2. \E x : handed' = [handed EXCEPT ![Destination(e)] = x]
      BY <1>3 DEF SendSome
    <3>3. handed'[Destination(d)] = handed[Destination(d)] /\ sent' = sent
      BY <1>1, <1>3, <3>1, <3>2 DEF StreamInv, TypeOK, SendSome
    <3> QED
      BY <1>1, <3>3 DEF StreamStep
  <2> QED
    BY <2>1, <2>2
<1>4. ASSUME NEW e \in Ends, EndSends(e) PROVE StreamStep(d)
  <2>1. /\ handed' = handed
        /\ sent'[Source(d)] = IF e = Source(d) THEN sent[Source(d)] + 1 ELSE sent[Source(d)]
    BY <1>1, <1>4 DEF EndSends, StreamInv, TypeOK
  <2> QED
    BY <1>1, <2>1 DEF StreamStep
<1>5. CASE MainThread
  BY <1>2, <1>5 DEF MainThread, StartForwarding, StartSecond, StartFails, ThreadsOver, endVars
<1>6. ASSUME NEW e \in Dirs, Thread(e) PROVE StreamStep(d)
  BY <1>2, <1>3, <1>6
     DEF Thread, Begin, Recv, RecvEnd, Sleep, TransferFails, Close, Exit, endVars
<1>7. CASE Peers
  BY <1>2, <1>4, <1>7 DEF Peers, EndShuts, EndResets, EndReads
<1>8. CASE UNCHANGED vars
  BY <1>2, <1>8 DEF vars
<1> QED
  BY <1>5, <1>6, <1>7, <1>8 DEF Next, Gone

\* Forwarder implements two byte streams, one in each direction: no split of
\* the data into pieces, no failure and no _exit makes a byte overtake
\* another, come twice or get lost between two that arrive.
THEOREM StreamsRefined == Spec => StreamsKept
<1>1. Init => UpStream!Init /\ DownStream!Init
  BY DEF Init, UpStream!Init, DownStream!Init, Ends
<1>2. StreamInv /\ StreamInv' /\ [Next]_vars
         => [UpStream!Send \/ UpStream!Deliver]_<<sent[Client], handed[Service]>>
  <2> SUFFICES ASSUME StreamInv, StreamInv', [Next]_vars
               PROVE  [UpStream!Send \/ UpStream!Deliver]_<<sent[Client], handed[Service]>>
    OBVIOUS
  <2>1. StreamStep(Up)
    BY EveryStreamStep DEF Dirs
  <2> QED
    BY <2>1 DEF StreamStep, Source, Destination, UpStream!Send, UpStream!Deliver
<1>3. StreamInv /\ StreamInv' /\ [Next]_vars
         => [DownStream!Send \/ DownStream!Deliver]_<<sent[Service], handed[Client]>>
  <2> SUFFICES ASSUME StreamInv, StreamInv', [Next]_vars
               PROVE  [DownStream!Send \/ DownStream!Deliver]_<<sent[Service], handed[Client]>>
    OBVIOUS
  <2>1. StreamStep(Down)
    BY EveryStreamStep DEF Dirs
  <2> QED
    BY <2>1 DEF StreamStep, Source, Destination, Up, Down, DownStream!Send, DownStream!Deliver
<1> QED
  BY <1>1, <1>2, <1>3, StreamAlways, PTL
     DEF Spec, StreamsKept, UpStream!Spec, DownStream!Spec

=============================================================================

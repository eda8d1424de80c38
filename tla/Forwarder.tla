----------------------------- MODULE Forwarder -----------------------------
(***************************************************************************)
(* The process that forwards a port: Forwarder.start_forwarding in the     *)
(* main thread, and a thread per direction that runs transfer, which       *)
(* receives from one socket and sends to the other.  The first thread to   *)
(* leave its loop closes both sockets and ends the process with _exit,     *)
(* wherever the other thread is at that time.                              *)
(*                                                                         *)
(* The sockets block (configure_socket sets no time limit): send returns   *)
(* when the kernel has taken the whole buffer, which it may do in pieces,  *)
(* and waits for ever if the receiver does not read.                       *)
(***************************************************************************)
EXTENDS Naturals, Sequences, FiniteSetsExt

CONSTANTS
    MaxBytes,  \* bound: bytes sent by each end
    BufSize,   \* the most that recv returns, 4096 in the code
    Capacity   \* what the kernel keeps for an end that does not read

ASSUME SizesAssumption ==
    MaxBytes \in Nat /\ BufSize \in Nat \ {0} /\ Capacity \in Nat \ {0}

Client == "client"
Service == "service"
Ends == {Client, Service}
Up == "up"
Down == "down"
Dirs == {Up, Down}

\* the arguments of the two threads
Source(d) == IF d = Up THEN Client ELSE Service
Destination(d) == IF d = Up THEN Service ELSE Client

VARIABLES
    proc,    \* "running" or "gone"
    main,    \* the main thread: "connect", "second", "done"
    pc,      \* where each thread is
    buffer,  \* what a thread has received and not handed on
    eof,     \* the thread left its loop because its source had ended
    closed,  \* the sockets this process has closed
    end,     \* each end: "open", "shut" (sends no more) or "reset"
    sent,    \* bytes each end has sent, numbered from 1
    taken,   \* how many of them recv has returned
    handed,  \* the bytes the kernel has taken for each end
    unread   \* how many of these the end has not read

vars == <<proc, main, pc, buffer, eof, closed, end, sent, taken, handed, unread>>
endVars == <<end, sent, unread>>

Init ==
    /\ proc = "running" /\ main = "connect"
    /\ pc = [d \in Dirs |-> "none"]
    /\ buffer = [d \in Dirs |-> <<>>]
    /\ eof = [d \in Dirs |-> FALSE]
    /\ closed = {}
    /\ end = [e \in Ends |-> "open"]
    /\ sent = [e \in Ends |-> 0]
    /\ taken = [e \in Ends |-> 0]
    /\ handed = [e \in Ends |-> <<>>]
    /\ unread = [e \in Ends |-> 0]

Goto(d, label) == pc' = [pc EXCEPT ![d] = label]

-----------------------------------------------------------------------------
(* The two ends: UNICORE/X's client and the service. *)

EndSends(e) ==
    /\ end[e] = "open" /\ sent[e] < MaxBytes
    /\ e = Service => main # "connect"
    /\ sent' = [sent EXCEPT ![e] = @ + 1]
    /\ UNCHANGED <<proc, main, pc, buffer, eof, closed, end, taken, handed, unread>>

\* an end sends no more; it may go on to read, or close its socket
EndShuts(e) ==
    /\ end[e] = "open"
    /\ e = Service => main # "connect"
    /\ end' = [end EXCEPT ![e] = "shut"]
    /\ UNCHANGED <<proc, main, pc, buffer, eof, closed, sent, taken, handed, unread>>

EndResets(e) ==
    /\ end[e] # "reset"
    /\ e = Service => main # "connect"
    /\ end' = [end EXCEPT ![e] = "reset"]
    /\ UNCHANGED <<proc, main, pc, buffer, eof, closed, sent, taken, handed, unread>>

EndReads(e) ==
    /\ end[e] # "reset"
    /\ \E n \in 1 .. unread[e] : unread' = [unread EXCEPT ![e] = @ - n]
    /\ UNCHANGED <<proc, main, pc, buffer, eof, closed, end, sent, taken, handed>>

-----------------------------------------------------------------------------
(* The main thread. *)

\* the connection to the service is made and the first thread started
StartForwarding ==
    /\ main = "connect" /\ main' = "second"
    /\ Goto(Up, "begin")
    /\ UNCHANGED <<proc, buffer, eof, closed, taken, handed>> /\ UNCHANGED endVars

StartSecond ==
    /\ main = "second" /\ main' = "done"
    /\ Goto(Down, "begin")
    /\ UNCHANGED <<proc, buffer, eof, closed, taken, handed>> /\ UNCHANGED endVars

\* no service is given, it cannot be reached, an end is gone already or a
\* thread cannot be started: failed closes the sockets and ends the process
StartFails ==
    /\ main # "done"
    /\ closed' = Ends /\ proc' = "gone"
    /\ UNCHANGED <<main, pc, buffer, eof, taken, handed>> /\ UNCHANGED endVars

\* the interpreter ends when the last thread has
ThreadsOver ==
    /\ main = "done" /\ \A d \in Dirs : pc[d] = "died"
    /\ proc' = "gone"
    /\ UNCHANGED <<main, pc, buffer, eof, closed, taken, handed>> /\ UNCHANGED endVars

-----------------------------------------------------------------------------
(* A thread. *)

\* The first line of transfer asks for the names of both peers, outside the
\* try block: an end that has been reset may raise, a socket that the other
\* thread has closed does, and the thread then ends without closing anything.
Begin(d) ==
    /\ pc[d] = "begin"
    /\ \/ closed = {} /\ Goto(d, "recv")
       \/ (closed # {} \/ \E e \in Ends : end[e] = "reset") /\ Goto(d, "died")
    /\ UNCHANGED <<proc, main, buffer, eof, closed, taken, handed>> /\ UNCHANGED endVars

\* fault: recv returns all that has arrived
RecvAll(d) ==
    LET e == Source(d)
    IN  /\ pc[d] = "recv" /\ e \notin closed
        /\ \E n \in 1 .. sent[e] - taken[e] :
              /\ buffer' = [buffer EXCEPT ![d] = [i \in 1 .. n |-> taken[e] + i]]
              /\ taken' = [taken EXCEPT ![e] = @ + n]
        /\ Goto(d, "send")
        /\ UNCHANGED <<proc, main, eof, closed, handed>> /\ UNCHANGED endVars

\* some of what has arrived, at most a buffer
Recv(d) ==
    LET e == Source(d)
    IN  /\ pc[d] = "recv" /\ e \notin closed
        /\ \E n \in 1 .. Min({BufSize, sent[e] - taken[e]}) :
              /\ buffer' = [buffer EXCEPT ![d] = [i \in 1 .. n |-> taken[e] + i]]
              /\ taken' = [taken EXCEPT ![e] = @ + n]
        /\ Goto(d, "send")
        /\ UNCHANGED <<proc, main, eof, closed, handed>> /\ UNCHANGED endVars

\* fault: the end of the stream is noticed before the data ahead of it
RecvEndEager(d) ==
    /\ pc[d] = "recv" /\ Source(d) \notin closed
    /\ end[Source(d)] = "shut"
    /\ eof' = [eof EXCEPT ![d] = TRUE]
    /\ Goto(d, "close")
    /\ UNCHANGED <<proc, main, buffer, closed, taken, handed>> /\ UNCHANGED endVars

\* an empty buffer: the source has ended
RecvEnd(d) ==
    /\ pc[d] = "recv" /\ Source(d) \notin closed
    /\ end[Source(d)] = "shut" /\ taken[Source(d)] = sent[Source(d)]
    /\ eof' = [eof EXCEPT ![d] = TRUE]
    /\ Goto(d, "close")
    /\ UNCHANGED <<proc, main, buffer, closed, taken, handed>> /\ UNCHANGED endVars

\* fault: the part of the buffer that send did not take is forgotten
SendSomeOnce(d) ==
    LET e == Destination(d)
    IN  /\ pc[d] = "send" /\ e \notin closed /\ end[e] # "reset"
        /\ \E n \in 1 .. Min({Len(buffer[d]), Capacity - unread[e]}) :
              /\ handed' = [handed EXCEPT ![e] = @ \o SubSeq(buffer[d], 1, n)]
              /\ unread' = [unread EXCEPT ![e] = @ + n]
              /\ buffer' = [buffer EXCEPT ![d] = <<>>]
              /\ Goto(d, "recv")
        /\ UNCHANGED <<proc, main, eof, closed, end, sent, taken>>

\* the kernel takes a piece of the buffer; after the last one send returns,
\* and the rate limit may make the thread sleep
SendSome(d) ==
    LET e == Destination(d)
    IN  /\ pc[d] = "send" /\ e \notin closed /\ end[e] # "reset"
        /\ \E n \in 1 .. Min({Len(buffer[d]), Capacity - unread[e]}) :
              /\ handed' = [handed EXCEPT ![e] = @ \o SubSeq(buffer[d], 1, n)]
              /\ unread' = [unread EXCEPT ![e] = @ + n]
              /\ buffer' = [buffer EXCEPT ![d] = SubSeq(@, n + 1, Len(@))]
              /\ IF n < Len(buffer[d]) THEN UNCHANGED pc
                 ELSE Goto(d, "recv") \/ Goto(d, "sleep")
        /\ UNCHANGED <<proc, main, eof, closed, end, sent, taken>>

Sleep(d) ==
    /\ pc[d] = "sleep"
    /\ Goto(d, "recv")
    /\ UNCHANGED <<proc, main, buffer, eof, closed, taken, handed>> /\ UNCHANGED endVars

\* recv or send raises: the end was reset, or the other thread closed the socket
TransferFails(d) ==
    /\ \E e \in Ends :
          /\ \/ pc[d] = "recv" /\ e = Source(d)
             \/ pc[d] = "send" /\ e = Destination(d)
          /\ end[e] = "reset" \/ e \in closed
    /\ Goto(d, "close")
    /\ UNCHANGED <<proc, main, buffer, eof, closed, taken, handed>> /\ UNCHANGED endVars

\* fault: a thread that is done just returns
CloseNot(d) ==
    /\ pc[d] = "close"
    /\ Goto(d, "died")
    /\ UNCHANGED <<proc, main, buffer, eof, closed, taken, handed>> /\ UNCHANGED endVars

\* close: the client's socket first, then the service's, then _exit
Close(d) ==
    /\ \/ pc[d] = "close" /\ closed' = closed \cup {Client} /\ Goto(d, "close_service")
       \/ pc[d] = "close_service" /\ closed' = closed \cup {Service} /\ Goto(d, "exit")
    /\ UNCHANGED <<proc, main, buffer, eof, taken, handed>> /\ UNCHANGED endVars

Exit(d) ==
    /\ pc[d] = "exit"
    /\ proc' = "gone"
    /\ UNCHANGED <<main, pc, buffer, eof, closed, taken, handed>> /\ UNCHANGED endVars

-----------------------------------------------------------------------------
Thread(d) ==
    /\ proc = "running"
    /\ \/ Begin(d) \/ Recv(d) \/ RecvEnd(d) \/ SendSome(d) \/ Sleep(d)
       \/ TransferFails(d) \/ Close(d) \/ Exit(d)

MainThread ==
    /\ proc = "running"
    /\ StartForwarding \/ StartSecond \/ StartFails \/ ThreadsOver

Peers ==
    /\ proc = "running"
    /\ \E e \in Ends : EndSends(e) \/ EndShuts(e) \/ EndResets(e) \/ EndReads(e)

Gone == proc = "gone" /\ UNCHANGED vars

Next == MainThread \/ (\E d \in Dirs : Thread(d)) \/ Peers \/ Gone

\* The threads run: calls that can return do, and sleeps end.  Nothing is
\* assumed of the two ends; one that does not read blocks the thread.
Fairness == WF_vars(MainThread) /\ \A d \in Dirs : WF_vars(Thread(d))

Spec == Init /\ [][Next]_vars /\ Fairness

-----------------------------------------------------------------------------
(* Properties. *)

\* The types of the variables.
TypeOK ==
    /\ proc \in {"running", "gone"}
    /\ main \in {"connect", "second", "done"}
    /\ pc \in [Dirs -> {"none", "begin", "recv", "send", "sleep", "close",
                        "close_service", "exit", "died"}]
    /\ buffer \in [Dirs -> Seq(1 .. MaxBytes)]
    /\ \A d \in Dirs : Len(buffer[d]) <= BufSize
    /\ eof \in [Dirs -> BOOLEAN]
    /\ closed \in SUBSET Ends
    /\ end \in [Ends -> {"open", "shut", "reset"}]
    /\ sent \in [Ends -> 0 .. MaxBytes]
    /\ taken \in [Ends -> 0 .. MaxBytes]
    /\ handed \in [Ends -> Seq(1 .. MaxBytes)]
    /\ unread \in [Ends -> 0 .. Capacity]

UpStream ==
    INSTANCE ByteStream WITH sent <- sent[Client], out <- handed[Service]
DownStream ==
    INSTANCE ByteStream WITH sent <- sent[Service], out <- handed[Client]

\* Each direction of the forwarding is a byte stream: whatever the sizes of
\* the pieces that recv and send move, and whichever thread or end fails, what
\* is handed on is what was sent, in order, without gaps and repetitions.
StreamsKept == UpStream!Spec /\ DownStream!Spec

\* A thread that leaves its loop at the end of its source has handed on all
\* that the source sent: _exit never cuts off the data of the side that ended
\* the connection, whatever it cuts off of the other side.
FinisherHeard ==
    \A d \in Dirs : eof[d] => Len(handed[Destination(d)]) = sent[Source(d)]

\* the thread can do nothing: its destination does not read
Blocked(d) == pc[d] = "send" /\ unread[Destination(d)] = Capacity

\* Once one end has ended its stream or is gone, the process that forwards it
\* ends, also if the other end stays silent, unless the other end has stopped
\* reading.  This is claimed of a thread that has entered its loop: one that
\* raised in its first line leaves the process waiting for the other end.
EndsWithStream ==
    \A d \in Dirs :
        []((end[Source(d)] # "open" /\ pc[d] \in {"recv", "send", "sleep"})
           => (<>(proc = "gone") \/ <>[]Blocked(d)))
=============================================================================

---------------------------- MODULE FileTransfer ----------------------------
(***************************************************************************)
(* The two file operations that use the data channel of a worker:          *)
(* IO.get_file_chunk and IO.put_file_chunk, on one file, one request after *)
(* the other.                                                              *)
(*                                                                         *)
(* A byte is a pair: the request that wrote it, and its place in that      *)
(* request's data.  Request 0 stands for the bytes of other processes: the *)
(* file as it was, and what is appended to it while it is read.            *)
(*                                                                         *)
(* UNICORE/X sends the bytes of a put after the reply TSI_OK, all of them  *)
(* even if the put fails meanwhile, and then its next request.             *)
(***************************************************************************)
EXTENDS Integers, Sequences

CONSTANTS
    MaxRequests,  \* bound: requests made
    MaxLength,    \* bound: the parameter TSI_LENGTH
    BufSize,      \* buf_size of the connector
    InitLength,   \* the length of the file at the start
    MaxGrowth     \* bound: bytes appended by other processes

ASSUME BoundAssumption ==
    /\ MaxRequests \in Nat /\ MaxLength \in Nat /\ BufSize \in Nat \ {0}
    /\ InitLength \in Nat /\ MaxGrowth \in Nat

VARIABLES
    pc,       \* where the worker is
    n,        \* number of the current request
    request,  \* the parameters of the current request
    file,     \* the contents of the file
    before,   \* ghost: the contents a put adds to
    rest,     \* remaining
    buf,      \* the buffer
    total,    \* total_bytes_read
    offset,   \* position in the file, then write_offset
    data,     \* bytes on the data channel, towards the worker
    unsent,   \* bytes UNICORE/X has yet to send
    received, \* bytes UNICORE/X got for the current request
    peer,     \* "open" or "closed"
    grown,    \* bytes other processes have appended
    grew,     \* ghost: the file grew during the current get
    dirty     \* ghost: a put has failed after its TSI_OK

vars == <<pc, n, request, file, before, rest, buf, total, offset, data, unsent,
          received, peer, grown, grew, dirty>>

Least(a, b) == IF a < b THEN a ELSE b
Byte(r, i) == <<r, i>>
Bytes(r, len) == [i \in 1 .. len |-> Byte(r, i)]
Blank == Byte(0, 0)          \* what a fresh bytearray contains

Idle == [op |-> "none", start |-> 0, length |-> 0, append |-> FALSE]
Getting == {"get_read", "get_write", "get_done"}
Putting == {"put_read", "put_write", "put_done"}

Init ==
    /\ pc = "idle" /\ n = 0 /\ request = Idle
    /\ file = Bytes(0, InitLength) /\ before = <<>>
    /\ rest = 0 /\ buf = <<>> /\ total = 0 /\ offset = 0
    /\ data = <<>> /\ unsent = <<>> /\ received = <<>>
    /\ peer = "open"
    /\ grown = 0 /\ grew = FALSE /\ dirty = FALSE

-----------------------------------------------------------------------------
(* UNICORE/X and other processes. *)

\* UNICORE/X writes some of the bytes of the put on the data channel
PeerSends ==
    /\ peer = "open"
    /\ \E k \in 1 .. Len(unsent) :
          /\ data' = data \o SubSeq(unsent, 1, k)
          /\ unsent' = SubSeq(unsent, k + 1, Len(unsent))
    /\ UNCHANGED <<pc, n, request, file, before, rest, buf, total, offset,
                   received, peer, grown, grew, dirty>>

PeerCloses ==
    /\ peer = "open"
    /\ peer' = "closed"
    /\ UNCHANGED <<pc, n, request, file, before, rest, buf, total, offset, data,
                   unsent, received, grown, grew, dirty>>

\* another process appends to the file that is being read
FileGrows ==
    /\ pc \in Getting \ {"get_done"} /\ grown < MaxGrowth
    /\ grown' = grown + 1
    /\ file' = Append(file, Byte(0, InitLength + grown'))
    /\ grew' = TRUE
    /\ UNCHANGED <<pc, n, request, before, rest, buf, total, offset, data, unsent,
                   received, peer, dirty>>

-----------------------------------------------------------------------------
(* get_file_chunk *)

\* fault: the start position is ignored
StartGetNoSeek(start, length) ==
    /\ pc = "idle" /\ unsent = <<>> /\ n < MaxRequests /\ peer = "open"
    /\ n' = n + 1
    /\ request' = [op |-> "get", start |-> start, length |-> length, append |-> FALSE]
    /\ buf' = [i \in 1 .. length |-> Blank]
    /\ total' = 0 /\ rest' = length /\ offset' = 0
    /\ received' = <<>> /\ grew' = FALSE
    /\ pc' = "get_read"
    /\ UNCHANGED <<file, before, data, unsent, peer, grown, dirty>>

\* open, seek, and a buffer of the requested length
StartGet(start, length) ==
    /\ pc = "idle" /\ unsent = <<>> /\ n < MaxRequests /\ peer = "open"
    /\ n' = n + 1
    /\ request' = [op |-> "get", start |-> start, length |-> length, append |-> FALSE]
    /\ buf' = [i \in 1 .. length |-> Blank]
    /\ total' = 0 /\ rest' = length /\ offset' = start
    /\ received' = <<>> /\ grew' = FALSE
    /\ pc' = "get_read"
    /\ UNCHANGED <<file, before, data, unsent, peer, grown, dirty>>

\* fault: the end of the file does not end the loop
GetReadOn ==
    /\ pc = "get_read" /\ rest > 0
    /\ LET left == IF offset < Len(file) THEN Len(file) - offset ELSE 0
           read == Least(Len(buf), left)
       IN  /\ buf' = [i \in DOMAIN buf |->
                         IF i <= read THEN file[offset + i] ELSE buf[i]]
           /\ total' = total + read
           /\ rest' = rest - read
           /\ offset' = offset + read
    /\ UNCHANGED <<pc, n, request, file, before, data, unsent, received, peer, grown,
                   grew, dirty>>

\* readinto: up to the length of the buffer, always to its beginning
GetRead ==
    /\ pc = "get_read" /\ rest > 0
    /\ LET left == IF offset < Len(file) THEN Len(file) - offset ELSE 0
           read == Least(Len(buf), left)
       IN  IF read = 0
           THEN /\ pc' = "get_write" /\ offset' = 0
                /\ UNCHANGED <<buf, total, rest>>
           ELSE /\ buf' = [i \in DOMAIN buf |->
                             IF i <= read THEN file[offset + i] ELSE buf[i]]
                /\ total' = total + read
                /\ rest' = rest - read
                /\ offset' = offset + read
                /\ UNCHANGED pc
    /\ UNCHANGED <<n, request, file, before, data, unsent, received, peer, grown,
                   grew, dirty>>

\* nothing remains: the reply with the number of bytes
GetReply ==
    /\ pc = "get_read" /\ rest <= 0
    /\ pc' = "get_write" /\ offset' = 0
    /\ UNCHANGED <<n, request, file, before, rest, buf, total, data, unsent,
                   received, peer, grown, grew, dirty>>

\* write_data of what is left of the buffer up to the number of bytes read;
\* past the end of the buffer this is nothing at all
GetWrite ==
    /\ pc = "get_write" /\ offset < total
    /\ LET slice == SubSeq(buf, offset + 1, Least(total, Len(buf)))
       IN  /\ received' = received \o slice
           /\ offset' = offset + Len(slice)
    /\ UNCHANGED <<pc, n, request, file, before, rest, buf, total, data, unsent,
                   peer, grown, grew, dirty>>

\* with UNICORE/X gone, writing something may raise, which ends the get
GetFails ==
    /\ pc = "get_write" /\ offset < Least(total, Len(buf)) /\ peer = "closed"
    /\ pc' = "idle"
    /\ UNCHANGED <<n, request, file, before, rest, buf, total, offset, data, unsent,
                   received, peer, grown, grew, dirty>>

GetEnd ==
    /\ pc = "get_write" /\ offset >= total
    /\ pc' = "get_done"
    /\ UNCHANGED <<n, request, file, before, rest, buf, total, offset, data, unsent,
                   received, peer, grown, grew, dirty>>

-----------------------------------------------------------------------------
(* put_file_chunk *)

\* open the file, to append or to overwrite it, and reply
StartPut(length, append) ==
    /\ pc = "idle" /\ unsent = <<>> /\ n < MaxRequests /\ peer = "open"
    /\ n' = n + 1
    /\ request' = [op |-> "put", start |-> 0, length |-> length, append |-> append]
    /\ file' = IF append THEN file ELSE <<>>
    /\ before' = file'
    /\ rest' = length /\ unsent' = Bytes(n', length) /\ buf' = <<>>
    /\ pc' = "put_read"
    /\ UNCHANGED <<total, offset, data, received, peer, grown, grew, dirty>>

\* fault: a full buffer is read even if less remains
PutReadFull ==
    /\ pc = "put_read" /\ rest > 0
    /\ LET got == Least(BufSize, Len(data))
       IN  /\ got = BufSize \/ peer = "closed"
           /\ buf' = SubSeq(data, 1, got)
           /\ data' = SubSeq(data, got + 1, Len(data))
           /\ rest' = rest - got
           /\ pc' = IF got = 0 THEN "put_read" ELSE "put_write"
    /\ UNCHANGED <<n, request, file, before, total, offset, unsent, received, peer,
                   grown, grew, dirty>>

\* read_data blocks for the bytes it was asked for, or the end of the stream
PutRead ==
    /\ pc = "put_read" /\ rest > 0
    /\ LET want == Least(rest, BufSize)
           got == Least(want, Len(data))
       IN  /\ got = want \/ peer = "closed"
           /\ buf' = SubSeq(data, 1, got)
           /\ data' = SubSeq(data, got + 1, Len(data))
           /\ rest' = rest - got
           /\ pc' = IF got = 0 THEN "put_read" ELSE "put_write"
    /\ UNCHANGED <<n, request, file, before, total, offset, unsent, received, peer,
                   grown, grew, dirty>>

\* fault: partial writes are not completed
PutWriteOnce ==
    /\ pc = "put_write"
    /\ \E k \in 1 .. Len(buf) : file' = file \o SubSeq(buf, 1, k)
    /\ buf' = <<>>
    /\ pc' = "put_read"
    /\ UNCHANGED <<n, request, before, rest, total, offset, data, unsent, received,
                   peer, grown, grew, dirty>>

\* the file may take a part of what it is given
PutWrite ==
    /\ pc = "put_write"
    /\ \E k \in 1 .. Len(buf) :
          /\ file' = file \o SubSeq(buf, 1, k)
          /\ buf' = SubSeq(buf, k + 1, Len(buf))
    /\ pc' = IF buf' = <<>> THEN "put_read" ELSE "put_write"
    /\ UNCHANGED <<n, request, before, rest, total, offset, data, unsent, received,
                   peer, grown, grew, dirty>>

\* no space: the exception ends the put, what it has not read stays where it is
PutFails ==
    /\ pc = "put_write"
    /\ pc' = "idle"
    /\ dirty' = TRUE
    /\ UNCHANGED <<n, request, file, before, rest, buf, total, offset, data, unsent,
                   received, peer, grown, grew>>

\* fault: the last byte is not read
PutEndEarly ==
    /\ pc = "put_read" /\ rest <= 1
    /\ pc' = "put_done"
    /\ UNCHANGED <<n, request, file, before, rest, buf, total, offset, data, unsent,
                   received, peer, grown, grew, dirty>>

PutEnd ==
    /\ pc = "put_read" /\ rest = 0
    /\ pc' = "put_done"
    /\ UNCHANGED <<n, request, file, before, rest, buf, total, offset, data, unsent,
                   received, peer, grown, grew, dirty>>

-----------------------------------------------------------------------------
\* the reply is complete: the worker turns to the next request
Done ==
    /\ pc \in {"get_done", "put_done"}
    /\ pc' = "idle"
    /\ request' = Idle /\ before' = <<>> /\ buf' = <<>> /\ received' = <<>>
    /\ rest' = 0 /\ total' = 0 /\ offset' = 0
    /\ UNCHANGED <<n, file, data, unsent, peer, grown, grew, dirty>>

\* a worker without a request notices that UNICORE/X is gone
Stop ==
    /\ pc = "idle" /\ peer = "closed"
    /\ pc' = "stopped"
    /\ UNCHANGED <<n, request, file, before, rest, buf, total, offset, data, unsent,
                   received, peer, grown, grew, dirty>>

Worker ==
    \/ GetRead \/ GetReply \/ GetWrite \/ GetFails \/ GetEnd
    \/ PutRead \/ PutWrite \/ PutFails \/ PutEnd
    \/ Done \/ Stop

Next ==
    \/ Worker
    \/ PeerSends \/ PeerCloses \/ FileGrows
    \/ \E start \in 0 .. InitLength, length \in 0 .. MaxLength : StartGet(start, length)
    \/ \E length \in 0 .. MaxLength, append \in BOOLEAN : StartPut(length, append)
    \/ pc = "stopped" /\ UNCHANGED vars

\* the worker takes its steps; UNICORE/X need not send what it has announced
Spec == Init /\ [][Next]_vars /\ WF_vars(Worker)

-----------------------------------------------------------------------------
(* Properties. *)

\* The types of the variables.
TypeOK ==
    /\ pc \in Getting \cup Putting \cup {"idle", "stopped"}
    /\ n \in 0 .. MaxRequests
    /\ request.length \in 0 .. MaxLength
    /\ rest \in Int /\ total \in Nat /\ offset \in Nat
    /\ pc \in Putting => rest \in Nat
    /\ \A s \in {file, before, buf, data, unsent, received} :
          \A i \in DOMAIN s : s[i][1] \in 0 .. MaxRequests /\ s[i][2] \in Nat

\* A put that ends without an error has written the bytes of its own request,
\* all of them, in order, once, behind what the file had or alone, unless an
\* earlier put on the connection has failed.
PutExact ==
    pc = "put_done" /\ ~dirty => file = before \o Bytes(n, request.length)

\* After a request the data channel is where the next request expects it.
ChannelInStep ==
    pc \in {"idle", "get_done", "put_done"} /\ ~dirty => data = <<>> /\ unsent = <<>>

\* A get returns the bytes of the file from the start position on, as many as
\* were asked for or as there are, if the file does not grow meanwhile.
GetExact ==
    pc = "get_done" /\ ~grew =>
        /\ received = SubSeq(file, request.start + 1, request.start + total)
        /\ total = Least(request.length,
                         IF request.start < Len(file) THEN Len(file) - request.start ELSE 0)

\* A get of a file that does not grow comes to its end.
GetEnds == (pc \in Getting) ~> (pc \in {"idle", "stopped"} \/ grew)

\* A put writes the file data it was sent, whatever happened before it.
PutAlwaysExact ==
    pc = "put_done" => file = before \o Bytes(n, request.length)

\* If UNICORE/X shuts down, the worker shuts down.
StopsWithPeer == (peer = "closed") ~> (pc = "stopped")
=============================================================================

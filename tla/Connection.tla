------------------------------ MODULE Connection ------------------------------
(***************************************************************************)
(* A Connection of one worker thread to the memcached server: the blocking *)
(* write and read loops of connection.cc, the socket they run over, and    *)
(* the server at its other end.                                            *)
(*                                                                         *)
(* Bytes are abstracted to units.  A request is size units long, a         *)
(* response HeaderSize + body units, and a system call moves one unit: a   *)
(* longer transfer is several of these in a row, so every partial write    *)
(* and every partial read of the loops is covered.  A unit says which      *)
(* request it belongs to and how many units of its packet follow it; the   *)
(* code sees the framing only (opaque is always 0), the id is what the     *)
(* properties compare.                                                     *)
(*                                                                         *)
(* The socket and the server are not part of the repository.  They are     *)
(* what the code assumes of them: TCP delivers in order through bounded    *)
(* buffers, memcached answers the requests of a connection one at a time   *)
(* and does not read the next request before its answer is written.        *)
(***************************************************************************)
EXTENDS Naturals, Sequences

CONSTANTS
  HeaderSize,  \* units of a ResponseHeader
  BodySizes,   \* the body sizes a response may have, in units
  SendCap,     \* units the buffers towards the server hold
  RecvCap,     \* units the buffers towards the client hold
  LowWater,    \* free units at which the kernel reports the socket writable
  CanClose     \* whether the server may close the connection

ASSUME ConnectionAssumption ==
  /\ HeaderSize \in Nat \ {0}
  /\ BodySizes \subseteq Nat /\ BodySizes # {}
  /\ SendCap \in Nat \ {0}
  /\ RecvCap \in Nat \ {0}
  /\ LowWater \in 1..SendCap
  /\ CanClose \in BOOLEAN

VARIABLES
  pc,        \* where the thread is: in the event loop or inside a call
  sending,   \* the request WriteBlock is writing
  written,   \* total_bytes_written
  rd,        \* ReadBlock: units left, and what of the response it has seen
  received,  \* history: responses read to the end
  toServer,  \* units in flight to the server
  toClient,  \* units in flight to the client
  peer,      \* the server's end: "open", "fin" (closed), "reset"
  reply,     \* the answer the server is writing
  served     \* the last request the server has read to the end

socketVars == <<toServer, toClient, peer, reply, served>>
connectionVars == <<pc, sending, written, rd, received>>

NoRequest == [id |-> 0, kind |-> "none", size |-> 0]
NoRead    == [left |-> 0, body |-> 0, id |-> 0, magic |-> TRUE]
NoReply   == [id |-> 0, body |-> 0, left |-> 0]

Requests  == [id : Nat, kind : {"get", "set", "none"}, size : Nat]
Units     == [id : Nat, body : Nat, left : Nat]

\* LOG_FATAL ends the process; the place names the check that failed.
Dead == {"dead_write", "dead_read", "dead_magic", "dead_pop", "dead_sample",
         "dead_poll", "dead_size"}
Places == {"loop", "write", "sent", "header", "body", "received"} \cup Dead

ConnectionInit ==
  /\ pc = "loop"
  /\ sending = NoRequest /\ written = 0
  /\ rd = NoRead /\ received = 0
  /\ toServer = <<>> /\ toClient = <<>>
  /\ peer = "open"
  /\ reply = NoReply /\ served = 0

------------------------------------------------------------------------------
(* SendRequest and its WriteBlock loop. *)

SendPacket(r) ==
  /\ pc' = "write"
  /\ sending' = r
  /\ written' = 0

\* Unit n + 1 of the packet built from request r.
RequestUnit(r, n) == [id |-> r.id, body |-> 0, left |-> r.size - n - 1]

\* Mutant of WriteDone: the loop tests for more than the packet's size.
WriteDoneLate(n) == n > sending.size

\* The loop ends when total_bytes_written reaches the packet's size.
WriteDone(n) == n = sending.size

\* write() takes a unit, blocking while the buffers are full.
WriteBlock ==
  /\ pc = "write" /\ peer = "open"
  /\ Len(toServer) < SendCap
  /\ toServer' = Append(toServer, RequestUnit(sending, written))
  /\ written' = written + 1
  /\ pc' = IF WriteDone(written') THEN "sent" ELSE "write"
  /\ UNCHANGED <<sending, rd, received, toClient, peer, reply, served>>

\* The server has closed: the kernel takes the unit and is told of a reset.
WriteToClosed ==
  /\ pc = "write" /\ peer = "fin"
  /\ peer' = "reset"
  /\ written' = written + 1
  /\ pc' = IF WriteDone(written') THEN "sent" ELSE "write"
  /\ UNCHANGED <<sending, rd, received, toServer, toClient, reply, served>>

\* write() < 0: "Write syscall failed".
WriteFails ==
  /\ pc = "write" /\ peer = "reset"
  /\ pc' = "dead_write"
  /\ UNCHANGED <<sending, written, rd, received>>
  /\ UNCHANGED socketVars

------------------------------------------------------------------------------
(* ReceiveResponse: ReadBlock of the header, then of what it announces.     *)

\* Mutant of ReadPacket: the header is read one unit short.
ReadPacketShort ==
  /\ pc' = "header"
  /\ rd' = [left |-> HeaderSize - 1, body |-> 0, id |-> 0, magic |-> TRUE]

ReadPacket ==
  /\ pc' = "header"
  /\ rd' = [left |-> HeaderSize, body |-> 0, id |-> 0, magic |-> TRUE]

\* kMagicResponse is the first byte of a response.  A unit inside one is taken
\* not to look like it.
HasMagic(u) == u.left + 1 = HeaderSize + u.body

\* response_header.magic, once u is read: the first of the bytes read decides.
Magic(u) == rd.magic /\ (rd.left = HeaderSize => HasMagic(u))

\* Mutant of BodySize: what follows the header is not read.
BodySizeIgnored(u) == 0

\* Mutant of BodySize: the extras are read on top of the body they are part of.
BodySizeExtrasTwice(u) == IF u.body = 0 THEN 0 ELSE u.body + 1

\* body_size as the header gives it; extras, key and value make it up, so the
\* three ReadBlocks that follow read body_size units in all.
BodySize(u) == u.body

\* Mutant of ReadDone: the loop stops one unit early.
ReadDoneEarly(n) == n <= 1

\* The last unit of a response has been read.
ReadDone(n) == n = 0

ReadHeader ==
  /\ pc = "header" /\ toClient # <<>>
  /\ LET u == Head(toClient) IN
       IF rd.left > 1
       THEN /\ rd' = [left |-> rd.left - 1, body |-> 0, id |-> 0, magic |-> Magic(u)]
            /\ UNCHANGED <<pc, received>>
       ELSE /\ rd' = [left |-> BodySize(u), body |-> BodySize(u), id |-> u.id,
                      magic |-> Magic(u)]
            /\ pc' = IF ~Magic(u) THEN "dead_magic"
                     ELSE IF ReadDone(BodySize(u)) THEN "received" ELSE "body"
            /\ received' = received + (IF pc' = "received" THEN 1 ELSE 0)
  /\ toClient' = Tail(toClient)
  /\ UNCHANGED <<sending, written, toServer, peer, reply, served>>

ReadBody ==
  /\ pc = "body" /\ toClient # <<>>
  /\ toClient' = Tail(toClient)
  /\ rd' = [rd EXCEPT !.left = @ - 1]
  /\ pc' = IF ReadDone(rd.left - 1) THEN "received" ELSE "body"
  /\ received' = received + (IF pc' = "received" THEN 1 ELSE 0)
  /\ UNCHANGED <<sending, written, toServer, peer, reply, served>>

\* read() = 0 at end of file: neither an error nor progress, the loop spins.
ReadEndOfFile ==
  /\ pc \in {"header", "body"} /\ toClient = <<>> /\ peer = "fin"
  /\ UNCHANGED connectionVars
  /\ UNCHANGED socketVars

\* Mutant of ReadFails: a failed read ends the loop as if all had been read.
ReadFailsUnnoticed ==
  /\ pc \in {"header", "body"} /\ toClient = <<>> /\ peer = "reset"
  /\ pc' = "received"
  /\ received' = received + 1
  /\ UNCHANGED <<sending, written, rd>>
  /\ UNCHANGED socketVars

\* read() < 0: "Read syscall failed".
ReadFails ==
  /\ pc \in {"header", "body"} /\ toClient = <<>> /\ peer = "reset"
  /\ pc' = "dead_read"
  /\ UNCHANGED <<sending, written, rd, received>>
  /\ UNCHANGED socketVars

------------------------------------------------------------------------------
(* What the kernel tells libevent of the socket. *)

Readable == toClient # <<>> \/ peer # "open"
Writable == SendCap - Len(toServer) >= LowWater \/ peer = "reset"

------------------------------------------------------------------------------
(* The server (external). *)

ServerRead ==
  /\ peer = "open" /\ reply = NoReply /\ toServer # <<>>
  /\ LET u == Head(toServer) IN
       IF u.left = 0
       THEN /\ served' = u.id
            /\ \E b \in BodySizes :
                 reply' = [id |-> u.id, body |-> b, left |-> HeaderSize + b]
       ELSE UNCHANGED <<served, reply>>
  /\ toServer' = Tail(toServer)
  /\ UNCHANGED <<toClient, peer>>
  /\ UNCHANGED connectionVars

\* The next unit of the answer being written.
ReplyUnit(r) == [id |-> r.id, body |-> r.body, left |-> r.left - 1]

ServerWrite ==
  /\ peer = "open" /\ reply # NoReply
  /\ Len(toClient) < RecvCap
  /\ toClient' = Append(toClient, ReplyUnit(reply))
  /\ reply' = IF reply.left = 1 THEN NoReply ELSE [reply EXCEPT !.left = @ - 1]
  /\ UNCHANGED <<toServer, peer, served>>
  /\ UNCHANGED connectionVars

\* Closing with unread requests resets the connection, and what had not
\* reached the client by then is lost.
ServerClose ==
  /\ CanClose /\ peer = "open"
  /\ IF toServer = <<>>
     THEN peer' = "fin" /\ UNCHANGED toClient
     ELSE /\ peer' = "reset"
          /\ \E n \in 0..Len(toClient) : toClient' = SubSeq(toClient, 1, n)
  /\ toServer' = <<>>
  /\ reply' = NoReply
  /\ UNCHANGED served
  /\ UNCHANGED connectionVars

------------------------------------------------------------------------------
(* Steps of the thread inside a Connection call, and of the server. *)

ConnectionStep ==
  \/ WriteBlock \/ WriteToClosed \/ WriteFails
  \/ ReadHeader \/ ReadBody \/ ReadEndOfFile \/ ReadFails

ServerStep == ServerRead \/ ServerWrite \/ ServerClose

\* Everything but pc: a thread may have places of its own.
ConnectionTypeOK ==
  /\ sending \in Requests /\ written \in Nat
  /\ rd \in [left : Nat, body : Nat, id : Nat, magic : BOOLEAN]
  /\ received \in Nat /\ served \in Nat
  /\ toServer \in Seq(Units) /\ Len(toServer) <= SendCap
  /\ toClient \in Seq(Units) /\ Len(toClient) <= RecvCap
  /\ peer \in {"open", "fin", "reset"}
  /\ reply \in Units
===============================================================================

-------------------------- MODULE EventLoopInvariant --------------------------
(***************************************************************************)
(* What holds of the event loop, its connection and the server, whichever  *)
(* thread runs it.  Request ids are issued in order, so the invariant says *)
(* of each stretch of the pipeline -- units on their way to the server,    *)
(* units on their way back, the queue -- which ids it holds, and that each *)
(* stretch starts where the next one ends.                                 *)
(***************************************************************************)
EXTENDS EventLoop

\* In the two streams unit v may come right after unit u.
FollowsRequest(u, v) == v.id = IF u.left = 0 THEN u.id + 1 ELSE u.id

FirstOfResponse(u) == u.left + 1 = HeaderSize + u.body

FollowsResponse(u, v) ==
  IF u.left = 0
  THEN v.id = u.id + 1 /\ FirstOfResponse(v)
  ELSE v.id = u.id /\ v.body = u.body /\ v.left = u.left - 1

\* The request the next unit written will belong to.
NextId == IF pc = "sent" THEN sent + 2 ELSE sent + 1

SendingInv ==
  /\ pc \in {"write", "sent"} => sending.id = sent + 1 /\ "send" \notin active
  /\ pc = "write" => written < sending.size
  /\ pc \in {"header", "body", "received"} => "receive" \notin active
  /\ "receive" \in active => Readable

\* Towards the server: consecutive requests, from the one the server is to read
\* to the one the client is to write.
RequestStreamInv ==
  /\ served < NextId
  /\ \A i \in DOMAIN toServer : toServer[i].left = 0 => toServer[i].id < NextId
  /\ \A i \in DOMAIN toServer :
       i + 1 \in DOMAIN toServer => FollowsRequest(toServer[i], toServer[i + 1])
  /\ peer = "open" =>
       IF toServer = <<>>
       THEN served + 1 = NextId
       ELSE /\ toServer[1].id = served + 1
            /\ FollowsRequest(toServer[Len(toServer)], [id |-> NextId])
  /\ peer # "open" => toServer = <<>> /\ reply = NoReply

\* The unit the reader is to find next.
Expected(u) ==
  /\ u.id = received + 1
  /\ CASE pc = "header" -> u.left + 1 = rd.left + u.body
       [] pc = "body"   -> u.left + 1 = rd.left /\ u.body = rd.body
       [] OTHER         -> FirstOfResponse(u)

BetweenResponses ==
  pc # "body" /\ (pc = "header" => rd.left = HeaderSize)

\* No unit on its way to the server belongs to a request that is not begun.
WrittenInv ==
  \A i \in DOMAIN toServer :
    toServer[i].id <= IF pc \in {"write", "sent"} THEN sent + 1 ELSE sent

\* Towards the client: consecutive responses, from the unit the reader expects
\* to the unit the server is to write.
ResponseStreamInv ==
  /\ received <= served
  /\ \A i \in DOMAIN toClient : toClient[i].id <= served
  /\ \A i \in DOMAIN toClient :
       i + 1 \in DOMAIN toClient => FollowsResponse(toClient[i], toClient[i + 1])
  /\ toClient # <<>> => Expected(toClient[1])
  /\ reply # NoReply =>
       /\ reply.id = served /\ reply.left > 0
       /\ IF toClient = <<>>
          THEN Expected(ReplyUnit(reply))
          ELSE FollowsResponse(toClient[Len(toClient)], ReplyUnit(reply))
  /\ (reply = NoReply /\ peer = "open") =>
       IF toClient = <<>>
       THEN received = served /\ BetweenResponses
       ELSE LET u == toClient[Len(toClient)] IN u.left = 0 /\ u.id = served

\* ReceiveResponse: how far the response being read has come, which began where
\* a response begins.
ReadingInv ==
  /\ rd.magic
  /\ pc = "header" => rd.left \in 1..HeaderSize
  /\ pc = "body" => rd.left \in 1..rd.body /\ rd.id = received + 1
  /\ pc = "received" =>
       received > 0 /\ rd.id = received /\ request.id = received
  /\ pc \in {"loop", "write", "sent"} => request = NoRequest
  /\ (pc \in {"header", "body"} /\ request # NoRequest)
       => request.id = received + 1
  /\ (pc \in {"header", "body"} /\ request = NoRequest)
       => peer # "open" /\ toClient = <<>> /\ queue = <<>>

\* Responses handled, and the requests before those still in the queue.
Answered == IF pc = "received" THEN received - 1 ELSE received
Popped   == IF request = NoRequest THEN Answered ELSE Answered + 1

\* The queue holds the requests after the popped ones, in the order sent.
QueueInv ==
  /\ sent = Popped + Len(queue)
  /\ \A i \in DOMAIN queue : queue[i].id = Popped + i
  /\ request # NoRequest => request.id = Popped

\* Types, the two streams, the response being read and the queue agree.
FlowInv ==
  /\ EventLoopTypeOK /\ SendingInv /\ RequestStreamInv /\ WrittenInv
  /\ ResponseStreamInv /\ ReadingInv /\ QueueInv
===============================================================================

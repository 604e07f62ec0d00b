--------------------------- MODULE WorkerThreadProofs --------------------------
(***************************************************************************)
(* Proofs about WorkerThread, for every value of its constants, and of     *)
(* the refinement of LoadPipeline.                                         *)
(***************************************************************************)
EXTENDS WorkerInvariant, EventLoopProofs

\* The next-state relation, one disjunct per action, each with what it leaves
\* alone: the cases of the proofs below.
LEMMA ActionCases ==
  ASSUME [Next]_allVars
  PROVE  \/ SendCallback
         \/ ReceiveCallback
         \/ RecordResponse
         \/ Poll /\ UNCHANGED <<samples, answered>>
         \/ PollFails /\ UNCHANGED <<samples, answered>>
         \/ PushRequest /\ UNCHANGED <<samples, answered>>
         \/ WriteBlock /\ UNCHANGED <<loopVars, samples, answered>>
         \/ WriteToClosed /\ UNCHANGED <<loopVars, samples, answered>>
         \/ WriteFails /\ UNCHANGED <<loopVars, samples, answered>>
         \/ ReadHeader /\ UNCHANGED <<loopVars, samples, answered>>
         \/ ReadBody /\ UNCHANGED <<loopVars, samples, answered>>
         \/ ReadFails /\ UNCHANGED <<loopVars, samples, answered>>
         \/ ServerRead /\ UNCHANGED <<loopVars, samples, answered>>
         \/ ServerWrite /\ UNCHANGED <<loopVars, samples, answered>>
         \/ ServerClose /\ UNCHANGED <<loopVars, samples, answered>>
         \/ UNCHANGED allVars
BY DEF Next, WorkerStep, LoopStep, ConnectionStep, ServerStep, Ended,
       ReadEndOfFile, allVars, vars, connectionVars, socketVars, loopVars

------------------------------------------------------------------------------
(* The worker's steps are steps of a thread that runs the loop. *)

\* What GenerateNextRequest returns is a request a send callback may make.
LEMMA Generated ==
  ASSUME sent \in Nat, NEW r \in GenerateNextRequest
  PROVE  r \in NextRequests
<1>1. \A n \in GetSizes \cup SetSizes : n \in Nat /\ n > 0
  BY WorkerAssumption
<1>2. /\ r.id = sent + 1 /\ r.size \in GetSizes \cup SetSizes
      /\ r \in Requests
  BY <1>1 DEF GenerateNextRequest, Requests
<1>3. QED
  BY <1>1, <1>2 DEF NextRequests

LEMMA WorkerIsThread ==
  ASSUME IInv, [Next]_allVars
  PROVE  ThreadStep
<1>1. CASE SendCallback
  <2>1. sent \in Nat
    BY DEF IInv, TypeOK, EventLoopTypeOK
  <2>2. QED
    BY <1>1, <2>1, Generated
       DEF SendCallback, Dispatchable, SizeTraps, ThreadStep, SendStep, DieStep, Dead
<1>2. CASE ReceiveCallback
  BY <1>2 DEF ReceiveCallback, ThreadStep, ReceiveStep
<1>3. CASE RecordResponse
  BY <1>3 DEF RecordResponse, ThreadStep, FinishStep
<1>4. CASE LoopStep
  BY <1>4 DEF ThreadStep
<1>5. CASE ServerStep /\ UNCHANGED loopVars
  BY <1>5 DEF ThreadStep
<1>6. CASE UNCHANGED allVars
  BY <1>6 DEF ThreadStep, allVars
<1>7. QED
  BY <1>1, <1>2, <1>3, <1>4, <1>5, <1>6 DEF Next, WorkerStep, Ended

\* The thread stays in its places, and statistics and history keep their types.
LEMMA TypeKept ==
  ASSUME IInv, [Next]_allVars
  PROVE  pc' \in Places /\ samples' \in [Statistics -> Nat]
                        /\ answered' \subseteq Nat \X Nat
<1>0. /\ pc \in Places /\ samples \in [Statistics -> Nat]
      /\ answered \subseteq Nat \X Nat
      /\ request \in Requests /\ rd \in Readings
  BY DEF IInv, TypeOK, EventLoopTypeOK, ConnectionTypeOK, Readings
<1>1. CASE RecordResponse
  <2>1. pc' \in Places
    BY <1>1 DEF RecordResponse, Places, Dead
  <2>2. samples' \in [Statistics -> Nat]
    BY <1>0, <1>1 DEF RecordResponse
  <2>3. answered' \subseteq Nat \X Nat
    BY <1>0, <1>1 DEF RecordResponse, Requests, Readings
  <2>4. QED
    BY <2>1, <2>2, <2>3
<1>2. CASE ~ RecordResponse
  <2>1. UNCHANGED <<samples, answered>>
    BY <1>2, ActionCases DEF SendCallback, ReceiveCallback, allVars
  <2>2. pc' \in Places
    BY <1>0, <1>2, ActionCases
       DEF Places, Dead, SendCallback, ReturnFrom, BeginSendRequest, SendPacket,
           SizeTraps, PollFails, DieAt,
           ReceiveCallback, BeginReceiveResponse, ReadPacket, Poll,
           PushRequest, WriteBlock, WriteToClosed, WriteFails, ReadHeader,
           ReadBody, ReadFails, ServerRead, ServerWrite, ServerClose,
           connectionVars, allVars, vars
  <2>3. QED
    BY <1>0, <2>1, <2>2
<1>3. QED
  BY <1>1, <1>2

\* How many responses were handled changes only when one is recorded.
LEMMA AnsweredKept ==
  ASSUME IInv, [Next]_allVars, ~ RecordResponse
  PROVE  Answered' = Answered
<1>0. received \in Nat
  BY DEF IInv, TypeOK, EventLoopTypeOK, ConnectionTypeOK
<1>1. QED
  BY <1>0, ActionCases
     DEF Answered, SendCallback, Dispatchable, ReturnFrom, BeginSendRequest,
         SendPacket, SizeTraps, PollFails, DieAt, ReceiveCallback, BeginReceiveResponse, ReadPacket, Poll,
         PushRequest, WriteBlock, WriteToClosed, WriteFails, ReadHeader, ReadBody,
         ReadFails, ServerRead, ServerWrite, ServerClose, connectionVars, allVars,
         vars

\* What RecordResponse puts on record is the response to the request in hand, and
\* the next one.
LEMMA Recorded ==
  ASSUME IInv, RecordResponse
  PROVE  /\ received \in Nat /\ received > 0
         /\ rd.id = received /\ request.id = received /\ request # NoRequest
         /\ received' = received /\ Answered + 1 = received /\ Answered' = received
         /\ answered' = answered \cup {<<received, received>>}
<1>1. /\ pc = "received" /\ pc' # "received" /\ received' = received
      /\ received \in Nat /\ received > 0
      /\ rd.id = received /\ request.id = received
  BY DEF RecordResponse, IInv, FlowInv, ReadingInv, TypeOK, EventLoopTypeOK,
         ConnectionTypeOK
<1>2. answered' = answered \cup {<<received, received>>}
  BY <1>1 DEF RecordResponse
<1>3. QED
  BY <1>1, <1>2 DEF Answered, NoRequest

LEMMA AnsweredStep ==
  ASSUME IInv, [Next]_allVars
  PROVE  AnsweredInv'
<1>0. AnsweredInv
  BY DEF IInv
<1>1. CASE RecordResponse
  <2>1. /\ received \in Nat /\ received > 0
        /\ Answered + 1 = received /\ Answered' = received
        /\ answered' = answered \cup {<<received, received>>}
    BY <1>1, Recorded
  <2>2. 1..received = 1..received - 1 \cup {received} /\ Answered = received - 1
    BY <2>1 DEF Answered
  <2>3. QED
    BY <1>0, <2>1, <2>2 DEF AnsweredInv
<1>2. CASE ~ RecordResponse
  <2>1. UNCHANGED answered
    BY <1>2, ActionCases DEF SendCallback, ReceiveCallback, allVars
  <2>2. QED
    BY <1>0, <1>2, <2>1, AnsweredKept DEF AnsweredInv
<1>3. QED
  BY <1>1, <1>2

------------------------------------------------------------------------------
(* The theorems. *)

LEMMA InvariantInit == Init => IInv
<1>1. SUFFICES ASSUME Init PROVE IInv
  OBVIOUS
<1>2. FlowInv
  BY <1>1, FlowInit DEF Init
<1>3. TypeOK
  BY <1>1, <1>2 DEF FlowInv, TypeOK, Init, EventLoopInit, ConnectionInit, Places,
                    Statistics
<1>4. AnsweredInv
  BY <1>1 DEF Init, EventLoopInit, ConnectionInit, AnsweredInv, Answered
<1>5. QED
  BY <1>2, <1>3, <1>4 DEF IInv

LEMMA InvariantStep == IInv /\ [Next]_allVars => IInv'
<1>1. SUFFICES ASSUME IInv, [Next]_allVars PROVE IInv'
  OBVIOUS
<1>2. FlowInv'
  BY <1>1, WorkerIsThread, FlowStep DEF IInv
<1>3. TypeOK'
  BY <1>1, <1>2, TypeKept DEF FlowInv, TypeOK
<1>4. QED
  BY <1>1, <1>2, <1>3, AnsweredStep DEF IInv

\* The inductive invariant holds of every behaviour of the worker thread, its
\* connection and the server, whenever and however the server closes.
THEOREM Invariance == Spec => []IInv
BY InvariantInit, InvariantStep, PTL DEF Spec

\* Every variable of the thread, the socket and the statistics keeps its type.
THEOREM TypeCorrect == Spec => []TypeOK
<1>1. IInv => TypeOK
  BY DEF IInv
<1>2. QED
  BY <1>1, Invariance, PTL

\* response->set_request in ReceiveResponse never pairs a response with a request
\* it does not answer.
THEOREM MatchedResponsesHolds == Spec => []MatchedResponses
<1>1. IInv => MatchedResponses
  BY DEF IInv, AnsweredInv, MatchedResponses
<1>2. QED
  BY <1>1, Invariance, PTL

\* What the invariant says of the counts.
LEMMA Counts ==
  ASSUME IInv
  PROVE  /\ Answered \in Nat /\ Popped \in Nat /\ sent \in Nat
         /\ Len(queue) \in Nat /\ DOMAIN queue = 1..Len(queue)
         /\ sent = Popped + Len(queue)
         /\ Popped = IF request = NoRequest THEN Answered ELSE Answered + 1
<1>1. /\ received \in Nat /\ sent \in Nat /\ queue \in Seq(Requests)
      /\ pc = "received" => received > 0
      /\ sent = Popped + Len(queue)
  BY DEF IInv, FlowInv, EventLoopTypeOK, ConnectionTypeOK, ReadingInv, QueueInv
<1>2. Answered \in Nat
  BY <1>1 DEF Answered
<1>3. QED
  BY <1>1, <1>2, LenProperties DEF Popped

\* No request is lost, queued twice or sampled twice, wherever a failure of the
\* connection leaves the thread.
THEOREM ExactlyOnceHolds == Spec => []ExactlyOnce
<1>1. ASSUME IInv PROVE ExactlyOnce
  <2>1. QueueInv /\ AnsweredInv
    BY <1>1 DEF IInv, FlowInv
  <2> DEFINE n == Len(queue)
  <2>2. /\ Answered \in Nat /\ Popped \in Nat /\ n \in Nat /\ sent = Popped + n
        /\ Popped = IF request = NoRequest THEN Answered ELSE Answered + 1
    BY <1>1, Counts
  <2>3. DOMAIN queue = 1..n
    BY <1>1, Counts
  <2>4. \A i \in 1..n : queue[i].id = Popped + i
    BY <2>1, <2>3 DEF QueueInv
  <2>5. Queued = Popped + 1 .. sent
    <3>1. Queued \subseteq Popped + 1 .. sent
      BY <2>2, <2>3, <2>4 DEF Queued
    <3>2. ASSUME NEW k \in Popped + 1 .. sent
          PROVE  k \in Queued
      <4>1. k - Popped \in 1..n
        BY <2>2
      <4>2. queue[k - Popped].id = k
        BY <2>2, <2>4, <4>1
      <4>3. k - Popped \in DOMAIN queue
        BY <2>3, <4>1
      <4>4. QED
        BY <4>2, <4>3, Zenon DEF Queued
    <3>3. QED
      BY <3>1, <3>2
  <2>6. InHand = IF request = NoRequest THEN {} ELSE {Popped}
    BY <2>1 DEF InHand, QueueInv
  <2>7. Done = 1..Answered
    <3>1. answered = {<<i, i>> : i \in 1..Answered}
      BY <2>1 DEF AnsweredInv
    <3>2. \A p \in answered : p[1] \in 1..Answered
      BY <3>1
    <3>3. ASSUME NEW k \in 1..Answered
          PROVE  \E p \in answered : p[1] = k
      <4>1. <<k, k>> \in answered
        BY <3>1
      <4>2. QED
        BY <4>1
    <3>4. QED
      BY <3>2, <3>3 DEF Done
  <2>8. Queued \cup InHand \cup Done = 1..sent
    BY <2>2, <2>5, <2>6, <2>7
  <2>9. /\ Queued \cap InHand = {} /\ Queued \cap Done = {}
        /\ InHand \cap Done = {}
    BY <2>2, <2>5, <2>6, <2>7
  <2>10. \A i, j \in 1..n : queue[i].id = queue[j].id => i = j
    BY <2>2, <2>4
  <2>11. QED
    BY <2>3, <2>8, <2>9, <2>10 DEF ExactlyOnce
<1>2. QED
  BY <1>1, Invariance, PTL

\* While the server keeps the connection open, front() and pop() of request_queue_
\* are only reached with a request in it.
THEOREM QueueHasRequestHolds == Spec => []QueueHasRequestWhileOpen
<1>1. ASSUME IInv PROVE QueueHasRequestWhileOpen
  <2>1. SUFFICES ASSUME peer = "open", pc = "loop", "receive" \in active
                 PROVE  queue # <<>>
    BY DEF QueueHasRequestWhileOpen, QueueHasRequest, Dispatchable
  <2>2. toClient # <<>>
    BY <1>1, <2>1 DEF IInv, FlowInv, SendingInv, Readable
  <2>3. QED
    BY <1>1, <2>1, <2>2, OldestRequest DEF IInv
<1>2. QED
  BY <1>1, Invariance, PTL

\* The magic byte checked by ReceiveResponse is always that of a header: reading
\* body_size units leaves the stream at the next response.
THEOREM FramingTheorem == Spec => []FramingHolds
<1>1. Init => FramingHolds
  BY DEF Init, EventLoopInit, ConnectionInit, FramingHolds
<1>2. ASSUME IInv, FramingHolds, [Next]_allVars
      PROVE  FramingHolds'
  <2>1. CASE ReadHeader
    <3>1. /\ pc = "header" /\ toClient # <<>> /\ rd.left \in 1..HeaderSize
          /\ rd.left \in Nat
      BY <1>2, <2>1 DEF ReadHeader, IInv, FlowInv, ReadingInv, EventLoopTypeOK,
                        ConnectionTypeOK
    <3>2. CASE rd.left > 1
      BY <2>1, <3>1, <3>2 DEF ReadHeader, FramingHolds
    <3>3. CASE ~ (rd.left > 1)
      <4>1. Head(toClient).left + 1 = rd.left + Head(toClient).body
        BY <1>2, <3>1, HeadIsExpected DEF Expected, IInv
      <4>2. Magic(Head(toClient))
        BY <1>2, <4>1 DEF Magic, HasMagic, IInv, FlowInv, ReadingInv
      <4>3. QED
        BY <2>1, <3>3, <4>2 DEF ReadHeader, FramingHolds
    <3>4. QED
      BY <3>2, <3>3
  <2>2. CASE ~ ReadHeader
    BY <1>2, <2>2, ActionCases
       DEF FramingHolds, SendCallback, ReturnFrom, BeginSendRequest, SendPacket,
           SizeTraps, PollFails, DieAt,
           ReceiveCallback, BeginReceiveResponse, ReadPacket, RecordResponse, Poll,
           PushRequest, WriteBlock, WriteToClosed, WriteFails, ReadBody, ReadFails,
           ServerRead, ServerWrite, ServerClose, connectionVars, allVars, vars
  <2>3. QED
    BY <2>1, <2>2
<1>3. QED
  BY <1>1, <1>2, Invariance, PTL DEF Spec

\* For a packet of at most LowWater units the loop in WriteBlock always has room:
\* it needs no step of the server, whatever was written before it.
THEOREM WriteNeverBlocksHolds == Spec => []WriteNeverBlocks
<1>1. Init => RoomInv
  BY DEF Init, EventLoopInit, ConnectionInit, RoomInv, WriteNeverBlocks
<1>2. ASSUME IInv, RoomInv, [Next]_allVars
      PROVE  RoomInv'
  <2> USE DEF RoomInv, WriteNeverBlocks, SendFits, connectionVars, socketVars, loopVars
  <2> DEFINE Kept == UNCHANGED <<loopVars, samples, answered>>
  <2>0. /\ RoomInv /\ SendingInv /\ toServer \in Seq(Units)
        /\ Len(toServer) \in Nat /\ SendCap \in Nat /\ LowWater \in Nat
        /\ sending.size \in Nat /\ written \in Nat
    BY <1>2, ConnectionAssumption, LenProperties
       DEF IInv, FlowInv, EventLoopTypeOK, ConnectionTypeOK, Requests
  <2>1. CASE SendCallback
    <3>1. CASE ReturnFrom("send")
      BY <2>0, <2>1, <3>1 DEF ReturnFrom, SendCallback, Dispatchable
    <3>2. ASSUME NEW r \in GenerateNextRequest, BeginSendRequest(r)
          PROVE  RoomInv'
      <4>1. r.size \in GetSizes \cup SetSizes
        BY DEF GenerateNextRequest
      <4>2. r.size \in Nat
        BY <4>1, WorkerAssumption
      <4>3. peer = "open" => SendCap - Len(toServer) >= LowWater
        BY <2>0, <2>1 DEF SendCallback, Dispatchable
      <4>4. /\ sending' = r /\ written' = 0 /\ active' = active \ {"send"}
            /\ toServer' = toServer /\ peer' = peer
        BY <3>2 DEF BeginSendRequest, SendPacket
      <4>5. QED
        BY <2>0, <4>2, <4>3, <4>4
    <3>3. CASE SizeTraps
      BY <2>0, <2>1, <3>3 DEF SizeTraps, DieAt, SendCallback, Dispatchable
    <3>4. QED
      BY <2>1, <3>1, <3>2, <3>3 DEF SendCallback
  <2>2. CASE ReceiveCallback
    BY <2>0, <2>2 DEF ReceiveCallback, Dispatchable, BeginReceiveResponse, ReadPacket
  <2>3. CASE RecordResponse
    BY <2>0, <2>3 DEF RecordResponse
  <2>4. CASE Poll /\ UNCHANGED <<samples, answered>>
    BY <2>0, <2>4 DEF Poll, Ready, Writable
  <2>5. CASE PushRequest /\ UNCHANGED <<samples, answered>>
    BY <2>0, <2>5 DEF PushRequest
  <2>6. CASE WriteBlock /\ Kept
    <3>1. RequestUnit(sending, written) \in Units
      BY <1>2, <2>6, UnitTypes
         DEF WriteBlock, IInv, FlowInv, SendingInv, EventLoopTypeOK, ConnectionTypeOK
    <3>2. Len(toServer') = Len(toServer) + 1
      BY <2>0, <2>6, <3>1, AppendToSeq DEF WriteBlock
    <3>3. "send" \notin active'
      BY <2>0, <2>6 DEF WriteBlock, SendingInv
    <3>4. QED
      BY <2>0, <2>6, <3>2, <3>3 DEF WriteBlock
  <2>7. CASE WriteToClosed /\ Kept
    BY <2>7 DEF WriteToClosed
  <2>8. CASE WriteFails /\ Kept
    BY <2>0, <2>8 DEF WriteFails
  <2>9. CASE ReadHeader /\ Kept
    BY <2>0, <2>9 DEF ReadHeader
  <2>10. CASE ReadBody /\ Kept
    BY <2>0, <2>10 DEF ReadBody
  <2>11. CASE ReadFails /\ Kept
    BY <2>0, <2>11 DEF ReadFails
  <2>12. CASE ServerRead /\ Kept
    <3>1. Len(toServer') = Len(toServer) - 1
      BY <2>0, <2>12, TailOfSeq DEF ServerRead
    <3>2. UNCHANGED <<pc, peer, active, sending, written>>
      BY <2>12 DEF ServerRead
    <3>3. QED
      BY <2>0, <3>1, <3>2
  <2>13. CASE ServerWrite /\ Kept
    BY <2>0, <2>13 DEF ServerWrite
  <2>14. CASE ServerClose /\ Kept
    BY <2>14 DEF ServerClose
  <2>15. CASE UNCHANGED allVars
    BY <2>0, <2>15 DEF allVars, vars
  <2>16. CASE PollFails /\ UNCHANGED <<samples, answered>>
    BY <2>0, <2>16 DEF PollFails, DieAt
  <2>17. QED
    BY <1>2, ActionCases, <2>1, <2>2, <2>3, <2>4, <2>5, <2>6, <2>7, <2>8, <2>9,
       <2>10, <2>11, <2>12, <2>13, <2>14, <2>15, <2>16
<1>3. RoomInv => WriteNeverBlocks
  BY DEF RoomInv
<1>4. QED
  BY <1>1, <1>2, <1>3, Invariance, PTL DEF Spec

\* An idle server has answered every request, and the reader is not in the middle
\* of a response it was sent.
LEMMA IdleServer ==
  ASSUME FlowInv, peer = "open", reply = NoReply,
         toServer = <<>>, toClient = <<>>, pc \notin {"write", "sent"}
  PROVE  pc \notin {"header", "body"}
<1>1. served = sent /\ received = served /\ BetweenResponses
      /\ received \in Nat /\ served \in Nat /\ sent \in Nat
  <2>1. /\ received \in Nat /\ served \in Nat /\ sent \in Nat
        /\ served + 1 = NextId /\ received = served /\ BetweenResponses
    BY DEF FlowInv, RequestStreamInv, ResponseStreamInv, EventLoopTypeOK,
           ConnectionTypeOK
  <2>2. NextId = sent + 1
    BY DEF NextId
  <2>3. QED
    BY <2>1, <2>2
<1>2. ASSUME pc = "header" PROVE FALSE
  <2>1. request # NoRequest
    BY <1>2 DEF FlowInv, ReadingInv
  <2>2. Popped = received + 1
    BY <1>2, <2>1 DEF Popped, Answered
  <2>3. sent = Popped + Len(queue) /\ Len(queue) \in Nat
    BY LenProperties DEF FlowInv, QueueInv, EventLoopTypeOK
  <2>4. QED
    BY <1>1, <2>2, <2>3
<1>3. QED
  BY <1>1, <1>2 DEF BetweenResponses

\* Thread and server never wait for each other but in the write of a packet above
\* the low-water mark: another write has room; a read and the wait for events
\* either have something under way, or a server that has it to write.
THEOREM NeverBothWaitHolds == Spec => []NeverBothWait
<1>1. ASSUME IInv, WriteNeverBlocks, peer = "open", SendFits, ThreadWaits, ServerWaits
      PROVE  FALSE
  <2>0. /\ FlowInv /\ toServer \in Seq(Units) /\ toClient \in Seq(Units)
        /\ Len(toServer) \in Nat /\ sending.size \in Nat /\ written \in Nat
        /\ SendCap \in Nat /\ RecvCap \in Nat \ {0}
        /\ LowWater \in Nat /\ LowWater <= SendCap
    BY <1>1, ConnectionAssumption, LenProperties
       DEF IInv, FlowInv, EventLoopTypeOK, ConnectionTypeOK, Requests
  <2>1. CASE pc = "write" /\ Len(toServer) = SendCap
    <3>1. written < sending.size
      BY <2>0, <2>1 DEF FlowInv, SendingInv
    <3>2. Len(toServer) + sending.size - written <= SendCap
      BY <1>1, <2>1 DEF WriteNeverBlocks
    <3>3. QED
      BY <2>0, <2>1, <3>1, <3>2
  <2>2. CASE pc \in {"header", "body"} /\ toClient = <<>>
    <3>1. Len(toClient) # RecvCap
      BY <2>0, <2>2
    <3>2. reply = NoReply /\ toServer = <<>>
      BY <1>1, <3>1 DEF ServerWaits
    <3>3. QED
      BY <1>1, <2>0, <2>2, <3>2, IdleServer
  <2>3. CASE pc = "loop" /\ active = {} /\ Ready = {}
    <3>1. toClient = <<>> /\ SendCap - Len(toServer) < LowWater
      <4>1. ~Readable /\ ~Writable
        BY <2>3 DEF Ready, Callbacks
      <4>2. QED
        BY <1>1, <2>0, <4>1 DEF Readable, Writable
    <3>2. Len(toClient) # RecvCap
      BY <2>0, <3>1
    <3>3. toServer # <<>>
      BY <2>0, <3>1, EmptySeq
    <3>4. QED
      BY <1>1, <3>2, <3>3 DEF ServerWaits
  <2>4. QED
    BY <1>1, <2>1, <2>2, <2>3 DEF ThreadWaits
<1>2. IInv /\ WriteNeverBlocks => NeverBothWait
  BY <1>1 DEF NeverBothWait, BothWait
<1>3. QED
  BY <1>2, Invariance, WriteNeverBlocksHolds, PTL

\* What AddSample has been called with: one latency per answer, and one request but
\* for the answer that ended the process.
SamplesInv ==
  /\ IsFiniteSet(answered)
  /\ samples["latency"] = Cardinality(answered)
  /\ \/ samples["latency"] = samples["get_requests"] + samples["set_requests"]
     \/ /\ pc = "dead_sample"
        /\ samples["latency"] = samples["get_requests"] + samples["set_requests"] + 1

LEMMA SamplesStep ==
  ASSUME IInv, SamplesInv, [Next]_allVars
  PROVE  SamplesInv'
<1>1. CASE RecordResponse
  <2>1. /\ received \in Nat /\ received > 0
        /\ answered = {<<j, j>> : j \in 1..(received - 1)}
        /\ answered' = answered \cup {<<received, received>>}
        /\ samples \in [Statistics -> Nat]
    <3>1. Answered = received - 1
      BY <1>1, Recorded DEF Answered
    <3>2. QED
      BY <1>1, <3>1, Recorded DEF IInv, AnsweredInv, TypeOK
  <2>2. <<received, received>> \notin answered
    BY <2>1
  <2>3. IsFiniteSet(answered') /\ Cardinality(answered') = Cardinality(answered) + 1
    BY <2>1, <2>2, FS_AddElement DEF SamplesInv
  <2>4. /\ samples["latency"] \in Nat /\ samples["get_requests"] \in Nat
        /\ samples["set_requests"] \in Nat
    BY <2>1 DEF Statistics
  <2>5. /\ samples'["latency"] = samples["latency"] + 1
        /\ \/ /\ samples'["get_requests"] = samples["get_requests"] + 1
              /\ samples'["set_requests"] = samples["set_requests"]
           \/ /\ samples'["get_requests"] = samples["get_requests"]
              /\ samples'["set_requests"] = samples["set_requests"] + 1
           \/ /\ pc' = "dead_sample"
              /\ samples'["get_requests"] = samples["get_requests"]
              /\ samples'["set_requests"] = samples["set_requests"]
    BY <1>1, <2>4
       DEF RecordResponse, Unhandled, Counted, UpdatedStatistics, Statistics
  <2>6. pc # "dead_sample"
    BY <1>1 DEF RecordResponse
  <2>7. QED
    BY <2>3, <2>4, <2>5, <2>6 DEF SamplesInv
<1>2. CASE ~ RecordResponse
  <2>1. UNCHANGED <<samples, answered>>
    BY <1>2, ActionCases DEF SendCallback, ReceiveCallback, allVars
  <2>2. pc = "dead_sample" => pc' = "dead_sample"
    BY <1>2, ActionCases
       DEF SendCallback, ReceiveCallback, Dispatchable, Poll, PollFails, PushRequest,
           WriteBlock, WriteToClosed, WriteFails, ReadHeader, ReadBody, ReadFails,
           ServerRead, ServerWrite, ServerClose, connectionVars, allVars, vars
  <2>3. QED
    BY <2>1, <2>2 DEF SamplesInv
<1>3. QED
  BY <1>1, <1>2

\* The samples of a worker are those of requests the server has taken, one latency
\* and one get or set for each, however the connection ends; only the latency that
\* ends the process has no get or set to it.
THEOREM SamplesWereServedHolds == Spec => []SamplesWereServed
<1>1. Init => SamplesInv
  BY FS_EmptySet DEF Init, SamplesInv, Statistics
<1>2. ASSUME IInv, SamplesInv PROVE SamplesWereServed
  <2>1. /\ answered = {<<j, j>> : j \in 1..Answered}
        /\ Answered <= received /\ received <= served
        /\ received \in Nat /\ served \in Nat /\ Answered \in Int
    BY <1>2 DEF IInv, FlowInv, AnsweredInv, Answered, ResponseStreamInv,
                EventLoopTypeOK, ConnectionTypeOK
  <2>2. \A p \in answered : p[1] \in 1..served
    BY <2>1
  <2>3. /\ samples["latency"] \in Nat /\ samples["get_requests"] \in Nat
        /\ samples["set_requests"] \in Nat
    BY <1>2 DEF IInv, TypeOK, Statistics
  <2>4. QED
    BY <1>2, <2>2, <2>3 DEF SamplesInv, SamplesWereServed
<1>3. QED
  BY <1>1, <1>2, SamplesStep, Invariance, PTL DEF Spec

\* With a server that never closes front() and pop() are defined at all times.
THEOREM QueueHasRequestUnclosed ==
  ASSUME ~CanClose
  PROVE  Spec => []QueueHasRequest
<1> DEFINE Open == peer = "open"
<1>1. Init => Open
  BY DEF Init, EventLoopInit, ConnectionInit
<1>2. Open /\ [Next]_allVars => Open'
  <2> SUFFICES ASSUME Open, [Next]_allVars PROVE Open'
    OBVIOUS
  <2>1. UNCHANGED peer
    BY ActionCases
       DEF SendCallback, ReturnFrom, BeginSendRequest, ReceiveCallback,
           BeginReceiveResponse, RecordResponse, Poll, PushRequest, WriteBlock,
           WriteToClosed, WriteFails, ReadHeader, ReadBody, ReadFails, ServerRead,
           ServerWrite, ServerClose, SizeTraps, PollFails, DieAt, socketVars,
           allVars, vars
  <2>2. QED
    BY <2>1
<1>3. Open /\ QueueHasRequestWhileOpen => QueueHasRequest
  BY DEF QueueHasRequestWhileOpen
<1>4. QED
  BY <1>1, <1>2, <1>3, QueueHasRequestHolds, PTL DEF Spec

------------------------------------------------------------------------------
(* WorkerThread implements LoadPipeline, for every value of its constants. *)

\* The refinement mapping in closed form.
LEMMA PipelineIsConsecutive ==
  IInv => InPipeline = Consecutive(Answered, sent - Answered)
<1>0. SUFFICES ASSUME IInv
               PROVE  InPipeline = Consecutive(Answered, sent - Answered)
  OBVIOUS
<1> DEFINE n == Len(queue)
<1>1. /\ Answered \in Nat /\ Popped \in Nat /\ n \in Nat /\ sent = Popped + n
      /\ DOMAIN queue = 1..n
      /\ Popped = IF request = NoRequest THEN Answered ELSE Answered + 1
  BY <1>0, Counts
<1>2. QueueInv
  BY <1>0 DEF IInv, FlowInv
<1>3. [i \in DOMAIN queue |-> queue[i].id] = Consecutive(Popped, n)
  BY <1>1, <1>2 DEF QueueInv, Consecutive
<1>4. Consecutive(Popped, n) \in Seq(Nat)
  BY <1>1, ConsecutiveIsSeq
<1>5. CASE request = NoRequest
  <2>1. InPipeline = <<>> \o Consecutive(Popped, n)
    BY <1>3, <1>5 DEF InPipeline
  <2>2. InPipeline = Consecutive(Popped, n)
    BY <1>4, <2>1, ConcatEmptySeq
  <2>3. Popped = Answered /\ n = sent - Answered
    BY <1>1, <1>5
  <2>4. QED
    BY <2>2, <2>3
<1>6. CASE request # NoRequest
  <2>1. request.id = Answered + 1 /\ Popped = Answered + 1
    BY <1>1, <1>2, <1>6 DEF QueueInv
  <2>2. InPipeline = <<Answered + 1>> \o Consecutive(Answered + 1, n)
    BY <1>3, <1>6, <2>1 DEF InPipeline
  <2>3. InPipeline = Consecutive(Answered, n + 1)
    BY <1>1, <2>2, ConsecutivePrepend
  <2>4. n + 1 = sent - Answered
    BY <1>1, <2>1
  <2>5. QED
    BY <2>3, <2>4
<1>7. QED
  BY <1>5, <1>6

\* A step changes the pipeline only where it pushes a request or records a
\* response.
LEMMA PipelineKept ==
  ASSUME IInv, IInv', sent' = sent, answered' = answered, Answered' = Answered
  PROVE  UNCHANGED <<InPipeline, sent, answered>>
<1>1. InPipeline = Consecutive(Answered, sent - Answered)
  BY PipelineIsConsecutive
<1>2. (IInv => InPipeline = Consecutive(Answered, sent - Answered))'
  BY PipelineIsConsecutive, PTL
<1>3. QED
  BY <1>1, <1>2

\* Where the pipeline does change, it does what LoadPipeline allows.
LEMMA PipelineStep ==
  ASSUME IInv, IInv', [Next]_allVars
  PROVE  Pipeline!PipelineNext \/ UNCHANGED <<InPipeline, sent, answered>>
<1> USE DEF connectionVars, socketVars, loopVars
<1>0. /\ InPipeline = Consecutive(Answered, sent - Answered)
      /\ InPipeline' = Consecutive(Answered', sent' - Answered')
  <2>1. InPipeline = Consecutive(Answered, sent - Answered)
    BY PipelineIsConsecutive
  <2>2. (IInv => InPipeline = Consecutive(Answered, sent - Answered))'
    BY PipelineIsConsecutive, PTL
  <2>3. QED
    BY <2>1, <2>2
<1>a. Answered \in Nat /\ sent \in Nat /\ Popped \in Nat /\ sent - Answered \in Nat
  BY Counts
<1>1. CASE RecordResponse
  <2>1. /\ sent' = sent /\ answered' = answered \cup {<<received, received>>}
        /\ Answered + 1 = received /\ Answered' = Answered + 1
        /\ request # NoRequest
    BY <1>1, Recorded DEF RecordResponse
  <2>2. sent - Answered > 0
    BY <1>a, <2>1, Counts
  <2>3. PICK a \in Nat, n \in Nat : a = Answered /\ n = sent - Answered
    BY <1>a
  <2>4. /\ InPipeline # <<>> /\ Head(InPipeline) = Answered + 1
        /\ Tail(InPipeline) = Consecutive(Answered + 1, sent - Answered - 1)
    BY <1>0, <2>2, <2>3, ConsecutiveTail
  <2>5. sent' - Answered' = sent - Answered - 1
    BY <1>a, <2>1
  <2>6. InPipeline' = Tail(InPipeline)
    BY <1>0, <2>1, <2>4, <2>5
  <2>7. answered' = answered \cup {<<Head(InPipeline), Head(InPipeline)>>}
    BY <2>1, <2>4
  <2>8. QED
    BY <2>1, <2>4, <2>6, <2>7 DEF Pipeline!PipelineNext, Pipeline!Answer
<1>2. CASE ~ RecordResponse /\ PushRequest
  <2>0. answered' = answered
    BY <1>2, ActionCases DEF SendCallback, ReceiveCallback, allVars
  <2>1. sent' = sent + 1 /\ Answered' = Answered /\ answered' = answered
    BY <1>2, <2>0 DEF PushRequest, Answered
  <2>2. PICK a \in Nat, n \in Nat : a = Answered /\ n = sent - Answered
    BY <1>a
  <2>3. /\ a + n + 1 = sent + 1
        /\ InPipeline = Consecutive(a, n) /\ InPipeline' = Consecutive(a, n + 1)
    <3>1. sent' - Answered' = n + 1
      BY <1>a, <2>1, <2>2
    <3>2. QED
      BY <1>0, <1>a, <2>1, <2>2, <3>1
  <2>4. InPipeline' = Append(InPipeline, sent + 1)
    BY <2>3, ConsecutiveAppend
  <2>5. QED
    BY <2>1, <2>4 DEF Pipeline!PipelineNext, Pipeline!Issue
<1>3. CASE ~ RecordResponse /\ ~ PushRequest
  <2>1. sent' = sent /\ answered' = answered
    BY <1>3, ActionCases
       DEF SendCallback, ReturnFrom, BeginSendRequest, ReceiveCallback,
           BeginReceiveResponse, Poll, SizeTraps, PollFails, DieAt, allVars, vars
  <2>2. QED
    BY <1>3, <2>1, AnsweredKept, PipelineKept
<1>4. QED
  BY <1>1, <1>2, <1>3

\* The thread, its blocking calls, its event loop and the socket implement the
\* first-in first-out pipeline of LoadPipeline.
THEOREM Refinement == Spec => ImplementsPipeline
<1>1. Init => Pipeline!PipelineInit
  <2>1. Init => InPipeline = <<>>
    BY DEF Init, EventLoopInit, InPipeline
  <2>2. QED
    BY <2>1 DEF Init, EventLoopInit, Pipeline!PipelineInit
<1>2. IInv /\ IInv' /\ [Next]_allVars =>
        [Pipeline!PipelineNext]_Pipeline!pipelineVars
  BY PipelineStep DEF Pipeline!pipelineVars
<1>3. QED
  BY <1>1, <1>2, Invariance, PTL
     DEF Spec, ImplementsPipeline, Pipeline!PipelineSpec
================================================================================

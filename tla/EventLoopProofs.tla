---------------------------- MODULE EventLoopProofs ---------------------------
(***************************************************************************)
(* The invariant of the event loop is kept by whatever thread runs it: the *)
(* steady worker and the warmup differ in what they send and in where they *)
(* go after a response, and the invariant asks neither.                    *)
(***************************************************************************)
EXTENDS EventLoopInvariant, CollectionLemmas, TLAPS

\* A request a send callback may make: the next one, and not empty.
NextRequests == {r \in Requests : r.id = sent + 1 /\ r.size > 0}

\* A send callback returns at once or begins to send.
SendStep ==
  /\ Dispatchable("send")
  /\ \/ ReturnFrom("send")
     \/ \E r \in NextRequests : BeginSendRequest(r)

ReceiveStep == Dispatchable("receive") /\ BeginReceiveResponse

\* A receive callback is through with a response and its request.
FinishStep ==
  /\ pc = "received" /\ pc' \in {"loop", "dead_sample", "ended"}
  /\ request' = NoRequest /\ rd' = NoRead
  /\ UNCHANGED <<sending, written, received, active, queue, sent>>
  /\ UNCHANGED socketVars

\* The process ends between two callbacks, or in a send callback that has written
\* nothing yet.
DieStep == pc = "loop" /\ \E place \in Dead : DieAt(place)

\* Whatever a thread that runs the loop does, and the server.
ThreadStep ==
  \/ SendStep \/ ReceiveStep \/ FinishStep \/ LoopStep \/ DieStep
  \/ ServerStep /\ UNCHANGED loopVars
  \/ UNCHANGED vars

\* Its steps, one disjunct per action, each with what it leaves alone: the cases
\* of the proofs below.
LEMMA StepCases ==
  ASSUME ThreadStep
  PROVE  \/ SendStep
         \/ ReceiveStep
         \/ FinishStep
         \/ Poll
         \/ PushRequest
         \/ WriteBlock /\ UNCHANGED loopVars
         \/ WriteToClosed /\ UNCHANGED loopVars
         \/ WriteFails /\ UNCHANGED loopVars
         \/ ReadHeader /\ UNCHANGED loopVars
         \/ ReadBody /\ UNCHANGED loopVars
         \/ ReadFails /\ UNCHANGED loopVars
         \/ ServerRead /\ UNCHANGED loopVars
         \/ ServerWrite /\ UNCHANGED loopVars
         \/ ServerClose /\ UNCHANGED loopVars
         \/ UNCHANGED vars
         \/ DieStep
BY DEF ThreadStep, LoopStep, PollFails, DieStep, Dead, ConnectionStep, ServerStep, ReadEndOfFile, vars,
       connectionVars, socketVars, loopVars

------------------------------------------------------------------------------
(* Types. *)

\* The records that a step makes.
LEMMA RecordTypes ==
  /\ NoRequest \in Requests /\ Dangling \in Requests
  /\ NoReply \in Units
  /\ NoRead \in [left : Nat, body : Nat, id : Nat, magic : BOOLEAN]
BY DEF NoRequest, Dangling, NoReply, NoRead, Requests, Units

\* The units that WriteBlock puts in a stream, and the answer the server begins.
LEMMA UnitTypes ==
  /\ \A r \in Requests, n \in Nat : n < r.size => RequestUnit(r, n) \in Units
  /\ \A u \in Units, b \in BodySizes :
       [id |-> u.id, body |-> b, left |-> HeaderSize + b] \in Units
BY ConnectionAssumption DEF RequestUnit, Requests, Units

\* The next unit of an answer, and what is left of it then.
LEMMA RestOfReply ==
  ASSUME NEW u \in Units, u.left > 0
  PROVE  ReplyUnit(u) \in Units /\ [u EXCEPT !.left = @ - 1] \in Units
BY DEF ReplyUnit, Units

Readings == [left : Nat, body : Nat, id : Nat, magic : BOOLEAN]

LEMMA ReadingTypes ==
  /\ NoRead \in Readings
  /\ \A r \in Readings : r.left > 0 => [r EXCEPT !.left = @ - 1] \in Readings
  /\ \A n, b, i \in Nat, m \in BOOLEAN :
       [left |-> n, body |-> b, id |-> i, magic |-> m] \in Readings
BY DEF Readings, NoRead

\* One step of the thread or the server keeps every variable in its type.  The
\* rest of the invariant is needed where a count goes down.
LEMMA TypeStep ==
  ASSUME FlowInv, ThreadStep
  PROVE  EventLoopTypeOK'
<1> USE DEF EventLoopTypeOK, ConnectionTypeOK,
            connectionVars, socketVars, loopVars
<1> DEFINE Kept == UNCHANGED loopVars
<1>0. EventLoopTypeOK
  BY DEF FlowInv
<1>1. CASE SendStep
  <2>1. CASE ReturnFrom("send")
    BY <1>0, <2>1 DEF ReturnFrom
  <2>2. ASSUME NEW r \in NextRequests, BeginSendRequest(r)
        PROVE  EventLoopTypeOK'
    BY <1>0, <2>2 DEF BeginSendRequest, SendPacket, NextRequests
  <2>3. QED
    BY <1>1, <2>1, <2>2 DEF SendStep
<1>2. CASE ReceiveStep
  <2>1. queue # <<>> => Head(queue) \in Requests /\ Tail(queue) \in Seq(Requests)
    BY <1>0, HeadTailProperties
  <2>2. ReadPacket => rd' \in Readings
    BY ConnectionAssumption DEF ReadPacket, Readings
  <2>3. queue' \in Seq(Requests) /\ request' \in Requests
    BY <1>0, <1>2, <2>1, RecordTypes DEF ReceiveStep, BeginReceiveResponse
  <2>4. rd' \in Readings
    BY <1>0, <1>2, <2>2 DEF ReceiveStep, BeginReceiveResponse, Readings
  <2>5. QED
    BY <1>0, <1>2, <2>3, <2>4 DEF ReceiveStep, BeginReceiveResponse, Readings
<1>3. CASE FinishStep
  BY <1>0, <1>3, RecordTypes DEF FinishStep
<1>4. CASE Poll
  BY <1>0, <1>4 DEF Poll, Ready
<1>5. CASE PushRequest
  BY <1>0, <1>5, RecordTypes, AppendProperties DEF PushRequest
<1>6. CASE WriteBlock /\ Kept
  <2>1. RequestUnit(sending, written) \in Units
    BY <1>0, <1>6, UnitTypes DEF WriteBlock, FlowInv, SendingInv
  <2>2. toServer' \in Seq(Units) /\ Len(toServer') <= SendCap
    BY <1>0, <1>6, <2>1, ConnectionAssumption, AppendToSeq DEF WriteBlock
  <2>3. QED
    BY <1>0, <1>6, <2>2 DEF WriteBlock
<1>7. CASE WriteToClosed /\ Kept
  BY <1>0, <1>7 DEF WriteToClosed
<1>8. CASE WriteFails /\ Kept
  BY <1>0, <1>8 DEF WriteFails
<1>9. CASE ReadHeader /\ Kept
  <2>1. Tail(toClient) \in Seq(Units) /\ Len(Tail(toClient)) <= RecvCap
    BY <1>0, <1>9, ConnectionAssumption, HeadTailProperties, LenProperties
       DEF ReadHeader
  <2>2. Head(toClient) \in Units
    BY <1>0, <1>9, HeadTailProperties DEF ReadHeader
  <2>3. rd \in Readings
    BY <1>0 DEF Readings
  <2>a. Magic(Head(toClient)) \in BOOLEAN
    BY <2>3 DEF Magic, Readings
  <2>4. rd' \in Readings
    <3>1. CASE rd.left > 1
      <4>1. rd.left > 0
        BY <2>3, <3>1 DEF Readings
      <4>2. rd' = [left |-> rd.left - 1, body |-> 0, id |-> 0,
                   magic |-> Magic(Head(toClient))]
        BY <1>9, <3>1 DEF ReadHeader
      <4>3. rd.left - 1 \in Nat
        BY <2>3, <4>1 DEF Readings
      <4>4. QED
        BY <2>a, <4>2, <4>3, ReadingTypes
    <3>2. CASE ~ (rd.left > 1)
      <4>1. rd' = [left |-> Head(toClient).body, body |-> Head(toClient).body,
                   id |-> Head(toClient).id, magic |-> Magic(Head(toClient))]
        BY <1>9, <3>2 DEF ReadHeader, BodySize
      <4>2. Head(toClient).body \in Nat /\ Head(toClient).id \in Nat
        BY <2>2 DEF Units
      <4>3. QED
        BY <2>a, <4>1, <4>2, ReadingTypes
    <3>3. QED
      BY <3>1, <3>2
  <2>5. received' \in Nat
    BY <1>0, <1>9 DEF ReadHeader
  <2>6. QED
    BY <1>0, <1>9, <2>1, <2>4, <2>5 DEF ReadHeader, Readings
<1>10. CASE ReadBody /\ Kept
  <2>1. Tail(toClient) \in Seq(Units) /\ Len(Tail(toClient)) <= RecvCap
    BY <1>0, <1>10, ConnectionAssumption, HeadTailProperties, LenProperties
       DEF ReadBody
  <2>2. rd \in Readings /\ rd.left > 0
    BY <1>0, <1>10 DEF ReadBody, FlowInv, ReadingInv, Readings
  <2>3. rd' \in Readings
    <3>1. rd' = [rd EXCEPT !.left = @ - 1]
      BY <1>10 DEF ReadBody
    <3>2. QED
      BY <2>2, <3>1, ReadingTypes
  <2>4. received' \in Nat
    BY <1>0, <1>10 DEF ReadBody
  <2>5. QED
    BY <1>0, <1>10, <2>1, <2>3, <2>4 DEF ReadBody, Readings
<1>11. CASE ReadFails /\ Kept
  BY <1>0, <1>11 DEF ReadFails
<1>12. CASE ServerRead /\ Kept
  <2>1. Tail(toServer) \in Seq(Units) /\ Len(Tail(toServer)) <= SendCap
    BY <1>0, <1>12, ConnectionAssumption, HeadTailProperties, LenProperties
       DEF ServerRead
  <2>2. Head(toServer) \in Units
    BY <1>0, <1>12, HeadTailProperties DEF ServerRead
  <2>3. reply' \in Units
    <3>1. CASE UNCHANGED reply
      BY <1>0, <3>1
    <3>2. CASE \E b \in BodySizes : reply' =
                 [id |-> Head(toServer).id, body |-> b, left |-> HeaderSize + b]
      BY <2>2, <3>2, UnitTypes
    <3>3. QED
      BY <1>12, <3>1, <3>2 DEF ServerRead
  <2>4. served' \in Nat
    BY <1>0, <1>12, <2>2 DEF ServerRead, Units
  <2>5. QED
    BY <1>0, <1>12, <2>1, <2>3, <2>4 DEF ServerRead
<1>13. CASE ServerWrite /\ Kept
  <2>1. reply \in Units /\ reply.left > 0
    BY <1>0, <1>13 DEF ServerWrite, FlowInv, ResponseStreamInv
  <2>2. ReplyUnit(reply) \in Units
    BY <2>1, RestOfReply
  <2>3. reply' \in Units
    BY <1>13, <2>1, RecordTypes, RestOfReply DEF ServerWrite
  <2>4. toClient' \in Seq(Units) /\ Len(toClient') <= RecvCap
    BY <1>0, <1>13, <2>2, ConnectionAssumption, AppendToSeq DEF ServerWrite
  <2>5. QED
    BY <1>0, <1>13, <2>3, <2>4 DEF ServerWrite
<1>14. CASE ServerClose /\ Kept
  <2>1. toClient' \in Seq(Units) /\ Len(toClient') <= RecvCap
    <3>1. toClient \in Seq(Units) /\ Len(toClient) \in Nat
      BY <1>0, LenProperties
    <3>2. toClient' = toClient
            \/ \E n \in 0..Len(toClient) : toClient' = SubSeq(toClient, 1, n)
      BY <1>14 DEF ServerClose
    <3>3. ASSUME NEW n \in 0..Len(toClient), toClient' = SubSeq(toClient, 1, n)
          PROVE  toClient' \in Seq(Units) /\ Len(toClient') <= Len(toClient)
      BY <3>1, <3>3, PrefixOfSeq
    <3>4. QED
      BY <1>0, <3>1, <3>2, <3>3, ConnectionAssumption
  <2>2. QED
    BY <1>0, <1>14, <2>1, RecordTypes, EmptySeq, ConnectionAssumption
       DEF ServerClose
<1>15. CASE UNCHANGED vars
  BY <1>0, <1>15 DEF vars
<1>16. CASE DieStep
  BY <1>0, <1>16 DEF DieStep, DieAt, Dead
<1>17. QED
  BY StepCases, <1>1, <1>2, <1>3, <1>4, <1>5, <1>6, <1>7, <1>8, <1>9, <1>10,
     <1>11, <1>12, <1>13, <1>14, <1>15, <1>16

------------------------------------------------------------------------------
(* What the thread is doing. *)

\* A request is in the making only inside a send callback, a response only inside
\* a receive callback, and that callback was called for a readable socket.
LEMMA SendingStep ==
  ASSUME FlowInv, ThreadStep
  PROVE  SendingInv'
<1> USE DEF SendingInv, connectionVars, socketVars, loopVars
<1> DEFINE Kept == UNCHANGED loopVars
<1>0. EventLoopTypeOK /\ SendingInv /\ ReadingInv
  BY DEF FlowInv
<1>1. CASE SendStep
  <2>1. CASE ReturnFrom("send")
    BY <1>0, <1>1, <2>1 DEF ReturnFrom, Readable, SendStep, Dispatchable
  <2>2. ASSUME NEW r \in NextRequests, BeginSendRequest(r)
        PROVE  SendingInv'
    BY <1>0, <2>2 DEF BeginSendRequest, SendPacket, Readable, NextRequests
  <2>3. QED
    BY <1>1, <2>1, <2>2 DEF SendStep
<1>2. CASE ReceiveStep
  BY <1>0, <1>2 DEF ReceiveStep, BeginReceiveResponse, ReadPacket,
                    Dispatchable, Readable
<1>3. CASE FinishStep
  BY <1>0, <1>3 DEF FinishStep, Readable
<1>4. CASE Poll
  BY <1>0, <1>4 DEF Poll, Ready, Readable
<1>5. CASE PushRequest
  BY <1>0, <1>5 DEF PushRequest, Readable
<1>6. CASE WriteBlock /\ Kept
  <2>1. sending.size \in Nat /\ written \in Nat
    BY <1>0 DEF EventLoopTypeOK, ConnectionTypeOK, Requests
  <2>2. QED
    BY <1>0, <1>6, <2>1 DEF WriteBlock, WriteDone, Readable
<1>7. CASE WriteToClosed /\ Kept
  <2>1. sending.size \in Nat /\ written \in Nat
    BY <1>0 DEF EventLoopTypeOK, ConnectionTypeOK, Requests
  <2>2. QED
    BY <1>0, <1>7, <2>1 DEF WriteToClosed, WriteDone, Readable
<1>8. CASE WriteFails /\ Kept
  BY <1>0, <1>8 DEF WriteFails, Readable
<1>9. CASE ReadHeader /\ Kept
  BY <1>0, <1>9 DEF ReadHeader
<1>10. CASE ReadBody /\ Kept
  BY <1>0, <1>10 DEF ReadBody
<1>11. CASE ReadFails /\ Kept
  BY <1>0, <1>11 DEF ReadFails
<1>12. CASE ServerRead /\ Kept
  BY <1>0, <1>12 DEF ServerRead, Readable
<1>13. CASE ServerWrite /\ Kept
  <2>1. toClient' # <<>>
    BY <1>13 DEF ServerWrite
  <2>2. QED
    BY <1>0, <1>13, <2>1 DEF ServerWrite, Readable
<1>14. CASE ServerClose /\ Kept
  <2>1. peer' # "open"
    BY <1>14 DEF ServerClose
  <2>2. QED
    BY <1>0, <1>14, <2>1 DEF ServerClose, Readable
<1>15. CASE UNCHANGED vars
  BY <1>0, <1>15 DEF vars, Readable
<1>16. CASE DieStep
  BY <1>0, <1>16 DEF DieStep, DieAt, Readable, Dead
<1>17. QED
  BY StepCases, <1>1, <1>2, <1>3, <1>4, <1>5, <1>6, <1>7, <1>8, <1>9, <1>10,
     <1>11, <1>12, <1>13, <1>14, <1>15, <1>16

------------------------------------------------------------------------------
(* The stream of requests. *)

\* The units on their way to the server keep the order in which they are written.
LEMMA RequestStreamStep ==
  ASSUME FlowInv, ThreadStep
  PROVE  RequestStreamInv'
<1> USE DEF RequestStreamInv, NextId, FollowsRequest,
            connectionVars, socketVars, loopVars
<1> DEFINE Kept == UNCHANGED loopVars
<1>0. RequestStreamInv /\ SendingInv /\ sent \in Nat /\ served \in Nat
  BY DEF FlowInv, EventLoopTypeOK, ConnectionTypeOK
<1>a. toServer \in Seq(Units)
  BY DEF FlowInv, EventLoopTypeOK, ConnectionTypeOK
<1>b. DOMAIN toServer = 1..Len(toServer)
  BY <1>a, LenProperties
<1>c. Len(toServer) \in Nat
  BY <1>a, LenProperties
<1>d. ASSUME NEW i \in DOMAIN toServer, i + 1 \in DOMAIN toServer
      PROVE  FollowsRequest(toServer[i], toServer[i + 1])
  BY <1>0, <1>d
<1>1. CASE SendStep
  BY <1>0, <1>1 DEF SendStep, Dispatchable, ReturnFrom, BeginSendRequest,
                    SendPacket
<1>2. CASE ReceiveStep
  BY <1>0, <1>2 DEF ReceiveStep, Dispatchable, BeginReceiveResponse,
                    ReadPacket
<1>3. CASE FinishStep
  BY <1>0, <1>3 DEF FinishStep
<1>4. CASE Poll
  BY <1>0, <1>4 DEF Poll
<1>5. CASE PushRequest
  BY <1>0, <1>5 DEF PushRequest
<1>6. CASE WriteBlock /\ Kept
  <2> DEFINE u == RequestUnit(sending, written)
  <2>1. u \in Units
    BY <1>6, UnitTypes
       DEF WriteBlock, FlowInv, SendingInv, EventLoopTypeOK, ConnectionTypeOK
  <2>2. u.id = sent + 1 /\ NextId = sent + 1 /\ u.left \in Nat
    BY <1>0, <1>6, <2>1 DEF WriteBlock, SendingInv, RequestUnit, Units
  <2>3. NextId' = IF u.left = 0 THEN u.id + 1 ELSE u.id
    <3>1. sending.size \in Nat /\ written \in Nat
      BY DEF FlowInv, EventLoopTypeOK, ConnectionTypeOK, Requests
    <3>2. pc' = IF u.left = 0 THEN "sent" ELSE "write"
      BY <1>6, <3>1 DEF WriteBlock, WriteDone, RequestUnit
    <3>3. QED
      BY <1>0, <1>6, <2>2, <3>2
  <2>4. /\ Len(toServer') = Len(toServer) + 1 /\ toServer' \in Seq(Units)
        /\ \A i \in 1..Len(toServer) : toServer'[i] = toServer[i]
        /\ toServer'[Len(toServer) + 1] = u /\ toServer' # <<>>
    BY <1>6, <1>a, <2>1, AppendToSeq DEF WriteBlock
  <2>5. DOMAIN toServer' = 1..Len(toServer) + 1
    BY <2>4, LenProperties
  <2>6. peer' = "open" /\ peer = "open" /\ served' = served
    BY <1>6 DEF WriteBlock
  <2>7. toServer # <<>> => Len(toServer) > 0
    BY <1>a, EmptySeq
  <2>8. \A i \in 1..Len(toServer) : i + 1 \in DOMAIN toServer' =>
          FollowsRequest(toServer'[i], toServer'[i + 1])
    <3>1. SUFFICES ASSUME NEW i \in 1..Len(toServer)
                   PROVE  FollowsRequest(toServer'[i], toServer'[i + 1])
      OBVIOUS
    <3>2. CASE i < Len(toServer)
      <4>1. i \in DOMAIN toServer /\ i + 1 \in DOMAIN toServer
        BY <1>b, <1>c, <3>2
      <4>2. toServer'[i] = toServer[i] /\ toServer'[i + 1] = toServer[i + 1]
        BY <1>b, <1>c, <2>4, <4>1
      <4>3. QED
        BY <1>0, <4>1, <4>2
    <3>3. CASE i = Len(toServer)
      <4>1. toServer # <<>> /\ toServer'[i] = toServer[i] /\ toServer'[i + 1] = u
        BY <1>b, <1>c, <2>4, <3>3, EmptySeq
      <4>2. FollowsRequest(toServer[i], [id |-> NextId])
        BY <1>0, <2>6, <3>3, <4>1
      <4>3. QED
        BY <2>2, <4>1, <4>2
    <3>4. i < Len(toServer) \/ i = Len(toServer)
      BY <1>c
    <3>5. QED
      BY <3>2, <3>3, <3>4
  <2>9. \A i \in DOMAIN toServer' : toServer'[i].left = 0 => toServer'[i].id < NextId'
    <3>1. SUFFICES ASSUME NEW i \in 1..Len(toServer) + 1, toServer'[i].left = 0
                   PROVE  toServer'[i].id < NextId'
      BY <2>5
    <3>2. CASE i \in 1..Len(toServer)
      <4>1. toServer'[i] = toServer[i] /\ toServer[i] \in Units
        BY <1>a, <2>4, <3>2, ElementOfSeq
      <4>2. toServer[i].id < NextId /\ toServer[i].id \in Nat
        BY <1>0, <1>b, <1>c, <3>1, <3>2, <4>1 DEF Units
      <4>3. QED
        BY <1>0, <2>2, <2>3, <4>1, <4>2
    <3>3. CASE i = Len(toServer) + 1
      BY <1>0, <2>2, <2>3, <2>4, <3>1, <3>3
    <3>4. i \in 1..Len(toServer) \/ i = Len(toServer) + 1
      BY <1>b
    <3>5. QED
      BY <3>2, <3>3, <3>4
  <2>10. toServer'[1].id = served' + 1
    BY <1>0, <1>b, <1>c, <2>2, <2>4, <2>6, <2>7
  <2>11. served' < NextId'
    BY <1>0, <2>2, <2>3, <2>6
  <2>12. \A i \in DOMAIN toServer' : i + 1 \in DOMAIN toServer' =>
           FollowsRequest(toServer'[i], toServer'[i + 1])
    <3>1. \A i \in DOMAIN toServer' : i + 1 \in DOMAIN toServer' => i \in 1..Len(toServer)
      BY <1>c, <2>5
    <3>2. QED
      BY <2>8, <3>1
  <2>13. FollowsRequest(toServer'[Len(toServer')], [id |-> NextId'])
    BY <1>c, <2>2, <2>3, <2>4
  <2>14. QED
    <3> HIDE DEF NextId, FollowsRequest
    <3>1. QED
      BY <2>4, <2>6, <2>9, <2>10, <2>11, <2>12, <2>13
<1>7. CASE WriteToClosed /\ Kept
  BY <1>0, <1>7 DEF WriteToClosed
<1>8. CASE WriteFails /\ Kept
  BY <1>0, <1>8 DEF WriteFails
<1>9. CASE ReadHeader /\ Kept
  BY <1>0, <1>9 DEF ReadHeader
<1>10. CASE ReadBody /\ Kept
  BY <1>0, <1>10 DEF ReadBody
<1>11. CASE ReadFails /\ Kept
  BY <1>0, <1>11 DEF ReadFails
<1>12. CASE ServerRead /\ Kept
  <2> DEFINE u == toServer[1]
  <2>1. /\ toServer' \in Seq(Units) /\ Len(toServer') = Len(toServer) - 1
        /\ \A i \in 1..Len(toServer) - 1 : toServer'[i] = toServer[i + 1]
        /\ Head(toServer) = u /\ u \in Units
        /\ Len(toServer) > 0
    BY <1>12, <1>a, TailOfSeq DEF ServerRead
  <2>2. DOMAIN toServer' = 1..Len(toServer) - 1
    BY <2>1, LenProperties
  <2>3. u.id = served + 1 /\ u.left \in Nat /\ peer = "open" /\ peer' = "open"
    BY <1>0, <1>12, <2>1 DEF ServerRead, Units
  <2>4. served' + 1 = IF u.left = 0 THEN u.id + 1 ELSE u.id
    BY <1>0, <1>12, <2>1, <2>3 DEF ServerRead
  <2>5. NextId' = NextId
    BY <1>12 DEF ServerRead
  <2>6. served' < NextId
    <3>1. served' = IF u.left = 0 THEN u.id ELSE served
      BY <1>12, <2>1, <2>3 DEF ServerRead
    <3>2. CASE u.left = 0
      BY <1>0, <1>b, <1>c, <2>1, <3>1, <3>2
    <3>3. CASE u.left # 0
      BY <1>0, <3>1, <3>3
    <3>4. QED
      BY <3>2, <3>3
  <2>7. toServer' = <<>> <=> Len(toServer) = 1
    BY <1>b, <1>c, <2>1, EmptySeq
  <2>c. FollowsRequest(toServer[Len(toServer)], [id |-> NextId])
    <3>1. toServer # <<>> /\ peer = "open"
      BY <1>12 DEF ServerRead
    <3> HIDE DEF NextId, FollowsRequest
    <3>2. QED
      BY <1>0, <3>1
  <2>8. IF toServer' = <<>> THEN served' + 1 = NextId
        ELSE /\ toServer'[1].id = served' + 1
             /\ FollowsRequest(toServer'[Len(toServer')], [id |-> NextId])
    <3>1. CASE Len(toServer) = 1
      <4>1. toServer[Len(toServer)] = u
        BY <3>1
      <4>2. FollowsRequest(u, [id |-> NextId])
        BY <2>c, <4>1
      <4>3. QED
        BY <2>4, <2>7, <3>1, <4>2
    <3>2. CASE Len(toServer) # 1
      <4>1. /\ toServer'[1] = toServer[2]
            /\ toServer'[Len(toServer')] = toServer[Len(toServer)]
        BY <1>c, <2>1, <3>2
      <4>2. FollowsRequest(toServer[1], toServer[2])
        <5> HIDE DEF NextId, FollowsRequest
        <5>1. 1 \in DOMAIN toServer /\ 1 + 1 \in DOMAIN toServer
          BY <1>b, <1>c, <2>1, <3>2
        <5>2. FollowsRequest(toServer[1], toServer[1 + 1])
          BY <1>d, <5>1
        <5>3. QED
          BY <5>2
      <4>3. QED
        BY <2>4, <2>7, <2>c, <3>2, <4>1, <4>2
    <3>3. QED
      BY <3>1, <3>2
  <2>9. QED
    BY <1>0, <1>12, <1>b, <1>c, <2>1, <2>2, <2>3, <2>5, <2>6, <2>8 DEF ServerRead
<1>13. CASE ServerWrite /\ Kept
  BY <1>0, <1>13 DEF ServerWrite
<1>14. CASE ServerClose /\ Kept
  BY <1>0, <1>14 DEF ServerClose
<1>15. CASE UNCHANGED vars
  BY <1>0, <1>15 DEF vars
<1>16. CASE DieStep
  BY <1>0, <1>16 DEF DieStep, DieAt, NextId, Dead
<1>17. QED
  BY StepCases, <1>1, <1>2, <1>3, <1>4, <1>5, <1>6, <1>7, <1>8, <1>9, <1>10,
     <1>11, <1>12, <1>13, <1>14, <1>15, <1>16

\* A unit in the stream is of a request sent, or of the one being written.
LEMMA WrittenStep ==
  ASSUME FlowInv, ThreadStep
  PROVE  WrittenInv'
<1> USE DEF WrittenInv, connectionVars, socketVars, loopVars
<1> DEFINE Kept == UNCHANGED loopVars
<1>0. /\ WrittenInv /\ SendingInv /\ sent \in Nat /\ toServer \in Seq(Units)
      /\ DOMAIN toServer = 1..Len(toServer) /\ Len(toServer) \in Nat
      /\ \A i \in DOMAIN toServer : toServer[i].id \in Nat
  <2>1. toServer \in Seq(Units)
    BY DEF FlowInv, EventLoopTypeOK, ConnectionTypeOK
  <2>2. \A i \in DOMAIN toServer : toServer[i] \in Units
    BY <2>1
  <2>3. QED
    BY <2>1, <2>2, LenProperties
       DEF FlowInv, EventLoopTypeOK, ConnectionTypeOK, Units
<1>1. CASE SendStep
  BY <1>0, <1>1 DEF SendStep, Dispatchable, ReturnFrom, BeginSendRequest, SendPacket
<1>2. CASE ReceiveStep
  BY <1>0, <1>2 DEF ReceiveStep, Dispatchable, BeginReceiveResponse, ReadPacket
<1>3. CASE FinishStep
  BY <1>0, <1>3 DEF FinishStep
<1>4. CASE Poll
  BY <1>0, <1>4 DEF Poll
<1>5. CASE PushRequest
  BY <1>0, <1>5 DEF PushRequest
<1>6. CASE WriteBlock /\ Kept
  <2> DEFINE u == RequestUnit(sending, written)
  <2>1. u \in Units /\ u.id = sent + 1
    BY <1>0, <1>6, UnitTypes
       DEF WriteBlock, FlowInv, SendingInv, EventLoopTypeOK, ConnectionTypeOK,
           RequestUnit
  <2>2. /\ Len(toServer') = Len(toServer) + 1 /\ toServer' \in Seq(Units)
        /\ \A i \in 1..Len(toServer) : toServer'[i] = toServer[i]
        /\ toServer'[Len(toServer) + 1] = u
    BY <1>0, <1>6, <2>1, AppendToSeq DEF WriteBlock
  <2>3. DOMAIN toServer' = 1..Len(toServer) + 1
    BY <2>2, LenProperties
  <2>4. pc = "write" /\ pc' \in {"write", "sent"} /\ sent' = sent
    BY <1>6 DEF WriteBlock
  <2>5. QED
    BY <1>0, <2>1, <2>2, <2>3, <2>4
<1>7. CASE WriteToClosed /\ Kept
  BY <1>0, <1>7 DEF WriteToClosed
<1>8. CASE WriteFails /\ Kept
  <2>1. toServer = <<>> /\ toServer' = toServer
    BY <1>8 DEF WriteFails, FlowInv, RequestStreamInv
  <2>2. QED
    BY <2>1
<1>9. CASE ReadHeader /\ Kept
  BY <1>0, <1>9 DEF ReadHeader
<1>10. CASE ReadBody /\ Kept
  BY <1>0, <1>10 DEF ReadBody
<1>11. CASE ReadFails /\ Kept
  BY <1>0, <1>11 DEF ReadFails
<1>12. CASE ServerRead /\ Kept
  <2>1. /\ toServer' \in Seq(Units) /\ Len(toServer') = Len(toServer) - 1
        /\ \A i \in 1..Len(toServer) - 1 : toServer'[i] = toServer[i + 1]
    BY <1>0, <1>12, TailOfSeq DEF ServerRead
  <2>2. DOMAIN toServer' = 1..Len(toServer) - 1
    BY <2>1, LenProperties
  <2>3. \A i \in 1..Len(toServer) - 1 : i + 1 \in DOMAIN toServer
    BY <1>0
  <2>4. pc' = pc /\ sent' = sent
    BY <1>12 DEF ServerRead
  <2>5. QED
    BY <1>0, <2>1, <2>2, <2>3, <2>4
<1>13. CASE ServerWrite /\ Kept
  BY <1>0, <1>13 DEF ServerWrite
<1>14. CASE ServerClose /\ Kept
  BY <1>14, EmptySeq DEF ServerClose
<1>15. CASE UNCHANGED vars
  BY <1>0, <1>15 DEF vars
<1>16. CASE DieStep
  BY <1>0, <1>16 DEF DieStep, DieAt, Dead
<1>17. QED
  BY StepCases, <1>1, <1>2, <1>3, <1>4, <1>5, <1>6, <1>7, <1>8, <1>9, <1>10,
     <1>11, <1>12, <1>13, <1>14, <1>15, <1>16

------------------------------------------------------------------------------
(* The response being read. *)

\* When the loop runs, the queue starts with the request after the last response
\* read; with an empty queue nothing is left to read, so a receive callback that
\* finds it empty was called for a closed connection.
LEMMA OldestRequest ==
  ASSUME FlowInv, pc = "loop"
  PROVE  /\ request = NoRequest
         /\ queue # <<>> => Head(queue).id = received + 1
         /\ queue = <<>> => toClient = <<>>
<1>0. /\ EventLoopTypeOK /\ RequestStreamInv /\ ResponseStreamInv /\ QueueInv
      /\ request = NoRequest
  BY DEF FlowInv, ReadingInv
<1>1. /\ received \in Nat /\ served \in Nat /\ sent \in Nat
      /\ queue \in Seq(Requests) /\ toClient \in Seq(Units)
  BY <1>0 DEF EventLoopTypeOK, ConnectionTypeOK
<1>2. Popped = received
  BY <1>0 DEF Popped, Answered
<1>3. ASSUME queue # <<>>
      PROVE  Head(queue).id = received + 1
  <2>1. Head(queue) = queue[1] /\ 1 \in DOMAIN queue
    BY <1>1, <1>3, TailOfSeq, LenProperties
  <2>2. QED
    BY <1>0, <1>2, <2>1 DEF QueueInv
<1>4. ASSUME queue = <<>>, toClient # <<>>
      PROVE  FALSE
  <2>1. Len(queue) = 0
    BY <1>4
  <2>2. sent = received
    BY <1>0, <1>1, <1>2, <2>1 DEF QueueInv
  <2>3. served <= sent
    BY <1>0, <1>1 DEF RequestStreamInv, NextId
  <2>4. 1 \in DOMAIN toClient
    BY <1>1, <1>4, TailOfSeq, LenProperties
  <2>5. toClient[1].id = received + 1 /\ toClient[1].id <= served
    BY <1>0, <1>4, <2>4 DEF ResponseStreamInv, Expected
  <2>6. QED
    BY <1>1, <2>2, <2>3, <2>5
<1>5. QED
  BY <1>0, <1>3, <1>4

\* The unit at the head of the stream is the one the reader expects.
LEMMA HeadIsExpected ==
  ASSUME FlowInv, toClient # <<>>
  PROVE  /\ Head(toClient) = toClient[1]
         /\ Expected(Head(toClient))
         /\ Head(toClient) \in Units
BY HeadTailProperties, TailOfSeq
   DEF FlowInv, EventLoopTypeOK, ConnectionTypeOK, ResponseStreamInv

\* A response is read to its last unit, and for the request that was popped.
LEMMA ReadingStep ==
  ASSUME FlowInv, ThreadStep
  PROVE  ReadingInv'
<1> USE DEF ReadingInv, connectionVars, socketVars, loopVars
<1> DEFINE Kept == UNCHANGED loopVars
<1>0. ReadingInv /\ received \in Nat
  BY DEF FlowInv, EventLoopTypeOK, ConnectionTypeOK
<1>a. rd.left \in Nat /\ rd.body \in Nat
  BY DEF FlowInv, EventLoopTypeOK, ConnectionTypeOK
<1>1. CASE SendStep
  BY <1>0, <1>1 DEF SendStep, Dispatchable, ReturnFrom, BeginSendRequest,
                    SendPacket
<1>2. CASE ReceiveStep
  <2>1. pc = "loop" /\ "receive" \in active
    BY <1>2 DEF ReceiveStep, Dispatchable
  <2>2. CASE queue # <<>> /\ request' = Head(queue) /\ ReadPacket
    <3>1. request'.id = received + 1
      BY <2>1, <2>2, OldestRequest
    <3>2. request' # NoRequest
      BY <1>0, <3>1 DEF NoRequest
    <3>3. /\ pc' = "header" /\ rd'.left = HeaderSize /\ rd'.magic
          /\ received' = received
      BY <1>2, <2>2 DEF ReceiveStep, BeginReceiveResponse, ReadPacket
    <3>4. QED
      BY <3>1, <3>2, <3>3, ConnectionAssumption
  <2>3. CASE queue = <<>> /\ queue' = queue /\ request' = Dangling /\ ReadPacket
    <3>1. toClient = <<>> /\ peer # "open"
      BY <2>1, <2>3, OldestRequest DEF FlowInv, SendingInv, Readable
    <3>2. /\ pc' = "header" /\ rd'.left = HeaderSize /\ rd'.magic
          /\ received' = received /\ toClient' = toClient /\ peer' = peer /\ request' = NoRequest
      BY <1>2, <2>3
         DEF ReceiveStep, BeginReceiveResponse, ReadPacket, Dangling, NoRequest
    <3>3. QED
      BY <2>3, <3>1, <3>2, ConnectionAssumption
  <2>4. CASE pc' = "dead_pop" /\ UNCHANGED rd
    BY <1>0, <2>4
  <2>5. QED
    BY <1>2, <2>2, <2>3, <2>4 DEF ReceiveStep, BeginReceiveResponse
<1>3. CASE FinishStep
  BY <1>3 DEF FinishStep, NoRead
<1>4. CASE Poll
  BY <1>0, <1>4 DEF Poll
<1>5. CASE PushRequest
  BY <1>0, <1>5 DEF PushRequest
<1>6. CASE WriteBlock /\ Kept
  BY <1>0, <1>6 DEF WriteBlock
<1>7. CASE WriteToClosed /\ Kept
  BY <1>0, <1>7 DEF WriteToClosed
<1>8. CASE WriteFails /\ Kept
  BY <1>0, <1>8 DEF WriteFails
<1>9. CASE ReadHeader /\ Kept
  <2> DEFINE u == Head(toClient)
  <2>1. /\ pc = "header" /\ toClient # <<>> /\ request' = request
        /\ request # NoRequest /\ request.id = received + 1
    BY <1>0, <1>9 DEF ReadHeader
  <2>2. u.id = received + 1 /\ u.body \in Nat
    BY <2>1, HeadIsExpected DEF Expected, Units
  <2>a. Magic(u)
    BY <1>0, <2>1, HeadIsExpected DEF Magic, HasMagic, Expected
  <2>3. CASE rd.left > 1
    <3>1. rd'.left = rd.left - 1 /\ rd'.magic
      BY <1>9, <2>3, <2>a DEF ReadHeader
    <3>2. pc' = "header" /\ received' = received
      BY <1>9, <2>1, <2>3 DEF ReadHeader
    <3>3. rd'.left \in 1..HeaderSize
      BY <1>0, <1>a, <2>1, <2>3, <3>1, ConnectionAssumption
    <3>4. QED
      BY <2>1, <3>1, <3>2, <3>3
  <2>4. CASE ~ (rd.left > 1)
    <3>1. /\ rd'.left = u.body /\ rd'.body = u.body /\ rd'.id = u.id
          /\ rd'.magic
      BY <1>9, <2>4, <2>a DEF ReadHeader, BodySize
    <3>2. \/ pc' = "received" /\ received' = received + 1
          \/ pc' = "body" /\ u.body # 0 /\ received' = received
      BY <1>0, <1>9, <2>4, <2>a DEF ReadHeader, BodySize, ReadDone
    <3>3. QED
      BY <1>0, <2>1, <2>2, <3>1, <3>2
  <2>5. QED
    BY <2>3, <2>4
<1>10. CASE ReadBody /\ Kept
  BY <1>0, <1>10, <1>a DEF ReadBody, ReadDone
<1>11. CASE ReadFails /\ Kept
  BY <1>0, <1>11 DEF ReadFails
<1>12. CASE ServerRead /\ Kept
  BY <1>0, <1>12 DEF ServerRead
<1>13. CASE ServerWrite /\ Kept
  BY <1>0, <1>13 DEF ServerWrite
<1>14. CASE ServerClose /\ Kept
  BY <1>0, <1>14 DEF ServerClose
<1>15. CASE UNCHANGED vars
  BY <1>0, <1>15 DEF vars
<1>16. CASE DieStep
  BY <1>0, <1>16 DEF DieStep, DieAt, Dead
<1>17. QED
  BY StepCases, <1>1, <1>2, <1>3, <1>4, <1>5, <1>6, <1>7, <1>8, <1>9, <1>10,
     <1>11, <1>12, <1>13, <1>14, <1>15, <1>16

------------------------------------------------------------------------------
(* The queue. *)

\* How many requests were popped and answered changes only when a response is
\* begun and when it is recorded.
LEMMA PoppedKept ==
  ASSUME FlowInv, request' = request, pc # "received",
         IF pc' = "received" THEN received' = received + 1
                             ELSE received' = received
  PROVE  Answered' = Answered /\ Popped' = Popped
<1>1. received \in Nat
  BY DEF FlowInv, EventLoopTypeOK, ConnectionTypeOK
<1>2. Answered' = Answered
  BY <1>1 DEF Answered
<1>3. QED
  BY <1>2 DEF Popped

\* The queue holds the requests that follow the popped ones, in the order sent.
LEMMA QueueStep ==
  ASSUME FlowInv, ThreadStep
  PROVE  QueueInv'
<1> USE DEF QueueInv, connectionVars, socketVars, loopVars
<1> DEFINE Kept == UNCHANGED loopVars
<1>0. QueueInv /\ ReadingInv
  BY DEF FlowInv
<1>a. received \in Nat /\ sent \in Nat /\ queue \in Seq(Requests)
  BY DEF FlowInv, EventLoopTypeOK, ConnectionTypeOK
<1>b. Len(queue) \in Nat
  BY <1>a, LenProperties
<1>c. DOMAIN queue = 1..Len(queue)
  BY <1>a, LenProperties
<1>1. CASE SendStep
  BY <1>0, <1>1, PoppedKept
     DEF SendStep, Dispatchable, ReturnFrom, BeginSendRequest, SendPacket
<1>2. CASE ReceiveStep
  <2>1. /\ pc = "loop" /\ received' = received /\ sent' = sent
        /\ pc' \in {"header", "dead_pop"}
    BY <1>2 DEF ReceiveStep, Dispatchable, BeginReceiveResponse, ReadPacket
  <2>2. request = NoRequest /\ (queue # <<>> => Head(queue).id = received + 1)
    BY <2>1, OldestRequest
  <2>3. Answered = received /\ Answered' = received /\ Popped = received
    BY <2>1, <2>2 DEF Answered, Popped
  <2>4. CASE queue # <<>> /\ request' = Head(queue) /\ queue' = Tail(queue)
    <3>1. /\ Len(queue') = Len(queue) - 1 /\ queue' \in Seq(Requests)
          /\ \A i \in 1..Len(queue) - 1 : queue'[i] = queue[i + 1]
      BY <1>a, <2>4, TailOfSeq
    <3>2. DOMAIN queue' = 1..Len(queue) - 1
      BY <3>1, LenProperties
    <3>3. request'.id = received + 1 /\ request' # NoRequest
      BY <1>a, <2>2, <2>4 DEF NoRequest
    <3>4. Popped' = received + 1
      BY <2>3, <3>3 DEF Popped
    <3>5. sent' = Popped' + Len(queue')
      BY <1>0, <1>a, <1>b, <2>1, <2>3, <3>1, <3>4
    <3>6. \A i \in DOMAIN queue' : queue'[i].id = Popped' + i
      <4>1. SUFFICES ASSUME NEW i \in 1..Len(queue) - 1
                     PROVE  queue'[i].id = Popped' + i
        BY <3>2
      <4>2. i + 1 \in DOMAIN queue
        BY <1>b, <1>c
      <4>3. queue[i + 1].id = received + (i + 1)
        BY <1>0, <2>3, <4>2
      <4>4. queue'[i] = queue[i + 1]
        BY <3>1
      <4>5. QED
        BY <1>a, <3>4, <4>3, <4>4
    <3>7. QED
      BY <1>0, <2>1, <2>3, <3>3, <3>4, <3>5, <3>6
  <2>5. CASE queue' = queue /\ request' = Dangling
    BY <1>0, <2>1, <2>2, <2>3, <2>5 DEF Popped, Dangling, NoRequest
  <2>6. QED
    BY <1>2, <2>4, <2>5 DEF ReceiveStep, BeginReceiveResponse
<1>3. CASE FinishStep
  <2>1. /\ pc = "received" /\ received > 0 /\ rd.id = received
        /\ request.id = received /\ request # NoRequest
    BY <1>0, <1>3, <1>a DEF FinishStep, ReadingInv, NoRequest
  <2>2. /\ pc' # "received" /\ received' = received /\ request' = NoRequest
        /\ queue' = queue /\ sent' = sent
    BY <1>3, <2>1 DEF FinishStep
  <2>3. Answered = received - 1 /\ Popped = received
    BY <1>a, <2>1 DEF Answered, Popped
  <2>4. Answered' = received /\ Popped' = received
    BY <2>2 DEF Answered, Popped
  <2>5. QED
    BY <1>0, <2>2, <2>3, <2>4
<1>4. CASE Poll
  BY <1>0, <1>4, PoppedKept DEF Poll
<1>5. CASE PushRequest
  <2>1. Answered' = Answered /\ Popped' = Popped
    BY <1>5, PoppedKept DEF PushRequest
  <2>2. sending \in Requests /\ sending.id = sent + 1
    BY <1>5 DEF PushRequest, FlowInv, SendingInv, EventLoopTypeOK,
                ConnectionTypeOK
  <2>3. /\ queue' \in Seq(Requests) /\ Len(queue') = Len(queue) + 1
        /\ \A i \in 1..Len(queue) : queue'[i] = queue[i]
        /\ queue'[Len(queue) + 1] = sending
    BY <1>5, <1>a, <2>2, AppendToSeq DEF PushRequest
  <2>4. DOMAIN queue' = 1..Len(queue) + 1
    BY <2>3, LenProperties
  <2>5. Popped \in Int
    BY <1>a DEF Popped, Answered
  <2>6. sent' = Popped' + Len(queue')
    BY <1>0, <1>5, <1>a, <1>b, <2>1, <2>3, <2>5 DEF PushRequest
  <2>7. \A i \in DOMAIN queue' : queue'[i].id = Popped' + i
    BY <1>0, <1>b, <1>c, <2>1, <2>2, <2>3, <2>4, <2>5
  <2>8. QED
    BY <1>0, <1>5, <2>1, <2>6, <2>7 DEF PushRequest
<1>6. CASE WriteBlock /\ Kept
  BY <1>0, <1>6, PoppedKept DEF WriteBlock
<1>7. CASE WriteToClosed /\ Kept
  BY <1>0, <1>7, PoppedKept DEF WriteToClosed
<1>8. CASE WriteFails /\ Kept
  BY <1>0, <1>8, PoppedKept DEF WriteFails
<1>9. CASE ReadHeader /\ Kept
  <2>1. Answered' = Answered /\ Popped' = Popped
    BY <1>9, <1>a, PoppedKept DEF ReadHeader
  <2>2. QED
    BY <1>0, <1>9, <2>1
<1>10. CASE ReadBody /\ Kept
  <2>1. Answered' = Answered /\ Popped' = Popped
    BY <1>10, <1>a, PoppedKept DEF ReadBody
  <2>2. QED
    BY <1>0, <1>10, <2>1
<1>11. CASE ReadFails /\ Kept
  BY <1>0, <1>11, PoppedKept DEF ReadFails
<1>12. CASE ServerRead /\ Kept
  BY <1>0, <1>12 DEF ServerRead, Popped, Answered
<1>13. CASE ServerWrite /\ Kept
  BY <1>0, <1>13 DEF ServerWrite, Popped, Answered
<1>14. CASE ServerClose /\ Kept
  BY <1>0, <1>14 DEF ServerClose, Popped, Answered
<1>15. CASE UNCHANGED vars
  BY <1>0, <1>15 DEF vars, Popped, Answered
<1>16. CASE DieStep
  BY <1>0, <1>16, PoppedKept DEF DieStep, DieAt, Dead
<1>17. QED
  BY StepCases, <1>1, <1>2, <1>3, <1>4, <1>5, <1>6, <1>7, <1>8, <1>9, <1>10,
     <1>11, <1>12, <1>13, <1>14, <1>15, <1>16

------------------------------------------------------------------------------
(* The stream of responses. *)

\* Outside ReadBlock the reader expects the first unit of a response.
LEMMA ExpectedKept ==
  ASSUME pc \notin {"header", "body"}, pc' \notin {"header", "body"},
         received' = received
  PROVE  /\ \A u \in Units : Expected(u)' <=> Expected(u)
         /\ BetweenResponses' <=> BetweenResponses
BY DEF Expected, FirstOfResponse, BetweenResponses

\* Steps outside ReadBlock that leave the socket alone leave the stream as it is.
LEMMA StreamKept ==
  ASSUME FlowInv, UNCHANGED socketVars, received' = received,
         \A u \in Units : Expected(u)' <=> Expected(u),
         BetweenResponses => BetweenResponses'
  PROVE  ResponseStreamInv'
<1>1. /\ toClient' = toClient /\ reply' = reply /\ peer' = peer
      /\ served' = served
  BY DEF socketVars
<1>2. ResponseStreamInv /\ reply \in Units /\ toClient \in Seq(Units)
  BY DEF FlowInv, EventLoopTypeOK, ConnectionTypeOK
<1>3. toClient # <<>> => toClient[1] \in Units
  BY <1>2, TailOfSeq
<1>4. (reply # NoReply) => ReplyUnit(reply) \in Units
  BY <1>2, RestOfReply DEF ResponseStreamInv
<1>5. (toClient' # <<>>) => Expected(toClient[1])'
  BY <1>1, <1>2, <1>3 DEF ResponseStreamInv
<1>6. (reply' # NoReply /\ toClient' = <<>>) => Expected(ReplyUnit(reply))'
  BY <1>1, <1>2, <1>4 DEF ResponseStreamInv
<1>7. QED
  BY <1>1, <1>2, <1>5, <1>6 DEF ResponseStreamInv, Expected

\* A unit read off the stream is the expected one; the next one is the unit that
\* follows it, and the last unit of a response completes its reading.
LEMMA Advance ==
  ASSUME FlowInv, ReadHeader \/ ReadBody, NEW u \in Units, u = Head(toClient)
  PROVE  /\ \A v \in Units : FollowsResponse(u, v) => Expected(v)'
         /\ u.left = 0 => pc' = "received" /\ received' = u.id
         /\ received' \in {received, u.id}
<1>0. ReadingInv /\ received \in Nat /\ rd \in Readings
  BY DEF FlowInv, EventLoopTypeOK, ConnectionTypeOK, Readings
<1>1. /\ u.left \in Nat /\ u.body \in Nat /\ u.id \in Nat
      /\ rd.left \in Nat /\ rd.body \in Nat
  BY <1>0 DEF Units, Readings
<1>2. Expected(u)
  BY HeadIsExpected DEF ReadHeader, ReadBody
<1>3. CASE ReadHeader
  <2>1. u.id = received + 1 /\ u.left + 1 = rd.left + u.body
    BY <1>2, <1>3 DEF Expected, ReadHeader
  <2>2. CASE rd.left > 1
    <3>1. pc' = "header" /\ received' = received
      BY <1>3, <2>2 DEF ReadHeader
    <3>2. rd'.left = rd.left - 1
      BY <1>3, <2>2 DEF ReadHeader
    <3>3. u.left # 0
      BY <1>1, <2>1, <2>2
    <3>4. \A v \in Units : FollowsResponse(u, v) => Expected(v)'
      BY <1>1, <2>1, <3>1, <3>2, <3>3 DEF FollowsResponse, Expected, Units
    <3>5. QED
      BY <3>1, <3>3, <3>4
  <2>3. CASE ~ (rd.left > 1)
    <3>0. rd.left \in 1..HeaderSize
      BY <1>0, <1>3 DEF ReadHeader, ReadingInv
    <3>1. rd.left = 1 /\ u.left = u.body
      BY <1>1, <2>1, <2>3, <3>0, ConnectionAssumption
    <3>2. rd'.left = u.body /\ rd'.body = u.body /\ rd'.id = u.id
      BY <1>3, <2>3 DEF ReadHeader, BodySize
    <3>3. \/ pc' = "received" /\ received' = received + 1 /\ u.body = 0
          \/ pc' = "body" /\ received' = received /\ u.body # 0
      BY <1>0, <1>1, <1>3, <2>3, <3>1
         DEF ReadHeader, ReadingInv, Magic, HasMagic, BodySize, ReadDone
    <3>4. \A v \in Units : FollowsResponse(u, v) => Expected(v)'
      BY <1>0, <1>1, <2>1, <3>1, <3>2, <3>3 DEF FollowsResponse, Expected, Units
    <3>5. QED
      BY <2>1, <3>1, <3>3, <3>4
  <2>4. QED
    BY <2>2, <2>3
<1>4. CASE ReadBody
  <2>1. u.id = received + 1 /\ u.left + 1 = rd.left /\ u.body = rd.body
    BY <1>2, <1>4 DEF Expected, ReadBody
  <2>2. rd'.left = rd.left - 1 /\ rd'.body = rd.body
    BY <1>0, <1>4 DEF ReadBody, Readings
  <2>3. \/ u.left = 0 /\ pc' = "received" /\ received' = received + 1
        \/ u.left # 0 /\ pc' = "body" /\ received' = received
    BY <1>0, <1>1, <1>4, <2>1 DEF ReadBody, ReadDone
  <2>4. \A v \in Units : FollowsResponse(u, v) => Expected(v)'
    BY <1>0, <1>1, <2>1, <2>2, <2>3 DEF FollowsResponse, Expected, Units
  <2>5. QED
    BY <2>1, <2>3, <2>4
<1>5. QED
  BY <1>3, <1>4

\* Reading a unit moves the reader along the stream, with nothing else changed.
LEMMA ReadKeepsStream ==
  ASSUME FlowInv, ReadHeader \/ ReadBody
  PROVE  ResponseStreamInv'
<1> DEFINE u == Head(toClient)
<1>0. /\ ResponseStreamInv /\ reply \in Units /\ toClient \in Seq(Units)
      /\ received \in Nat /\ served \in Nat
  BY DEF FlowInv, EventLoopTypeOK, ConnectionTypeOK
<1>1. /\ toClient # <<>> /\ toClient' = Tail(toClient)
      /\ reply' = reply /\ peer' = peer /\ served' = served
  BY DEF ReadHeader, ReadBody
<1>2. /\ toClient' \in Seq(Units) /\ Len(toClient') = Len(toClient) - 1
      /\ \A i \in 1..Len(toClient) - 1 : toClient'[i] = toClient[i + 1]
      /\ u = toClient[1] /\ u \in Units
      /\ Len(toClient) \in Nat /\ Len(toClient) > 0
  BY <1>0, <1>1, TailOfSeq
<1>3. DOMAIN toClient' = 1..Len(toClient) - 1
  BY <1>2, LenProperties
<1>4. DOMAIN toClient = 1..Len(toClient)
  BY <1>0, LenProperties
<1>5. toClient' = <<>> <=> Len(toClient) = 1
  BY <1>2, EmptySeq
<1>6. /\ \A v \in Units : FollowsResponse(u, v) => Expected(v)'
      /\ u.left = 0 => pc' = "received" /\ received' = u.id
      /\ received' \in {received, u.id}
  BY <1>2, Advance
<1>7. u.id <= served /\ \A i \in 1..Len(toClient) : toClient[i].id <= served
  BY <1>0, <1>2, <1>4 DEF ResponseStreamInv
<1>8. received' <= served' /\ \A i \in DOMAIN toClient' : toClient'[i].id <= served'
  BY <1>0, <1>1, <1>2, <1>3, <1>6, <1>7 DEF ResponseStreamInv
<1>9. ASSUME NEW i \in 1..Len(toClient) - 1, i + 1 \in 1..Len(toClient) - 1
      PROVE  FollowsResponse(toClient'[i], toClient'[i + 1])
  <2>1. i + 1 \in DOMAIN toClient /\ (i + 1) + 1 \in DOMAIN toClient
    BY <1>2, <1>4, <1>9
  <2>2. FollowsResponse(toClient[i + 1], toClient[(i + 1) + 1])
    BY <1>0, <2>1 DEF ResponseStreamInv
  <2>3. QED
    BY <1>2, <1>9, <2>2
<1>10. ASSUME toClient' # <<>>
       PROVE  \E v \in Units : v = toClient'[1] /\ Expected(v)'
  <2>1. Len(toClient) > 1
    BY <1>2, <1>5, <1>10
  <2>2. 1 \in DOMAIN toClient /\ 1 + 1 \in DOMAIN toClient
    BY <1>2, <1>4, <2>1
  <2>3. FollowsResponse(toClient[1], toClient[1 + 1])
    BY <1>0, <2>2 DEF ResponseStreamInv
  <2>4. toClient'[1] = toClient[1 + 1]
    BY <1>2, <2>1
  <2>5. toClient'[1] \in Units
    BY <1>2, <2>1, ElementOfSeq
  <2>6. QED
    BY <1>2, <1>6, <2>3, <2>4, <2>5
<1>11. ASSUME reply # NoReply
       PROVE  IF toClient' = <<>>
              THEN \E v \in Units : v = ReplyUnit(reply) /\ Expected(v)'
              ELSE FollowsResponse(toClient'[Len(toClient')], ReplyUnit(reply))
  <2>1. FollowsResponse(toClient[Len(toClient)], ReplyUnit(reply))
    BY <1>0, <1>1, <1>11 DEF ResponseStreamInv
  <2>2. CASE Len(toClient) = 1
    <3>1. ReplyUnit(reply) \in Units
      BY <1>0, <1>11, RestOfReply DEF ResponseStreamInv
    <3>2. FollowsResponse(u, ReplyUnit(reply))
      BY <1>2, <2>1, <2>2
    <3>3. QED
      BY <1>5, <1>6, <2>2, <3>1, <3>2
  <2>3. CASE Len(toClient) # 1
    <3>1. toClient'[Len(toClient')] = toClient[Len(toClient)]
      BY <1>2, <2>3
    <3>2. QED
      BY <1>5, <2>1, <2>3, <3>1
  <2>4. QED
    BY <2>2, <2>3
<1>12. ASSUME reply = NoReply, peer = "open"
       PROVE  IF toClient' = <<>>
              THEN received' = served /\ BetweenResponses'
              ELSE /\ toClient'[Len(toClient')].left = 0
                   /\ toClient'[Len(toClient')].id = served
  <2>1. /\ toClient[Len(toClient)].left = 0
        /\ toClient[Len(toClient)].id = served
    BY <1>0, <1>1, <1>12 DEF ResponseStreamInv
  <2>2. CASE Len(toClient) = 1
    BY <1>2, <1>5, <1>6, <2>1, <2>2 DEF BetweenResponses
  <2>3. CASE Len(toClient) # 1
    <3>1. toClient'[Len(toClient')] = toClient[Len(toClient)]
      BY <1>2, <2>3
    <3>2. QED
      BY <1>5, <2>1, <2>3, <3>1
  <2>4. QED
    BY <2>2, <2>3
<1>13. (reply # NoReply) => reply.id = served /\ reply.left > 0
  BY <1>0 DEF ResponseStreamInv
<1>14. toClient' # <<>> => Expected(toClient[1])'
  BY <1>10 DEF Expected
<1>15. reply' # NoReply =>
         /\ reply'.id = served' /\ reply'.left > 0
         /\ IF toClient' = <<>> THEN Expected(ReplyUnit(reply))'
            ELSE FollowsResponse(toClient'[Len(toClient')], ReplyUnit(reply'))
  <2>1. (\E v \in Units : v = ReplyUnit(reply) /\ Expected(v)')
          => Expected(ReplyUnit(reply))'
    BY <1>1 DEF Expected, ReplyUnit
  <2>2. QED
    BY <1>1, <1>11, <1>13, <2>1
<1>16. QED
  BY <1>1, <1>3, <1>8, <1>9, <1>12, <1>14, <1>15 DEF ResponseStreamInv

\* The server's next unit continues the stream.
LEMMA ServerWriteKeepsStream ==
  ASSUME FlowInv, ServerWrite
  PROVE  ResponseStreamInv'
<1> DEFINE v == ReplyUnit(reply)
<1>0. /\ ResponseStreamInv /\ reply \in Units /\ toClient \in Seq(Units)
      /\ received \in Nat /\ served \in Nat
  BY DEF FlowInv, EventLoopTypeOK, ConnectionTypeOK
<1>1. /\ reply # NoReply /\ peer = "open" /\ peer' = peer /\ served' = served
      /\ toClient' = Append(toClient, v)
      /\ pc' = pc /\ rd' = rd /\ received' = received
      /\ reply' = IF reply.left = 1 THEN NoReply ELSE [reply EXCEPT !.left = @ - 1]
  BY DEF ServerWrite, connectionVars
<1>2. /\ reply.id = served /\ reply.left > 0
      /\ IF toClient = <<>> THEN Expected(v)
         ELSE FollowsResponse(toClient[Len(toClient)], v)
  BY <1>0, <1>1 DEF ResponseStreamInv
<1>3. v \in Units /\ v.id = served /\ v.body = reply.body /\ v.left = reply.left - 1
  BY <1>0, <1>2, RestOfReply DEF ReplyUnit
<1>4. /\ toClient' \in Seq(Units) /\ Len(toClient') = Len(toClient) + 1
      /\ \A i \in 1..Len(toClient) : toClient'[i] = toClient[i]
      /\ toClient'[Len(toClient) + 1] = v /\ toClient' # <<>>
      /\ Len(toClient) \in Nat
  BY <1>0, <1>1, <1>3, AppendToSeq
<1>5. DOMAIN toClient' = 1..Len(toClient) + 1
  BY <1>4, LenProperties
<1>6. DOMAIN toClient = 1..Len(toClient)
  BY <1>0, LenProperties
<1>7. toClient # <<>> => Len(toClient) > 0
  BY <1>0, EmptySeq
<1>8. \A i \in 1..Len(toClient) : toClient[i].id <= served
  BY <1>0, <1>6 DEF ResponseStreamInv
<1>9. \A i \in 1..Len(toClient) + 1 : toClient'[i].id <= served
  BY <1>0, <1>3, <1>4, <1>8
<1>10. ASSUME NEW i \in 1..Len(toClient)
       PROVE  FollowsResponse(toClient'[i], toClient'[i + 1])
  <2>1. CASE i < Len(toClient)
    <3>1. i \in DOMAIN toClient /\ i + 1 \in DOMAIN toClient
      BY <1>4, <1>6, <2>1
    <3>2. FollowsResponse(toClient[i], toClient[i + 1])
      BY <1>0, <3>1 DEF ResponseStreamInv
    <3>3. QED
      BY <1>4, <2>1, <3>2
  <2>2. CASE i = Len(toClient)
    <3>1. toClient # <<>>
      BY <1>4, <2>2
    <3>2. QED
      BY <1>2, <1>4, <2>2, <3>1
  <2>3. QED
    BY <1>4, <2>1, <2>2
<1>11. Expected(toClient[1])'
  <2>1. CASE toClient = <<>>
    <3>1. toClient'[1] = v
      BY <1>4, <2>1
    <3>2. QED
      BY <1>1, <1>2, <2>1, <3>1 DEF Expected
  <2>2. CASE toClient # <<>>
    <3>1. toClient'[1] = toClient[1]
      BY <1>4, <1>7, <2>2
    <3>2. QED
      BY <1>0, <1>1, <2>2, <3>1 DEF Expected, ResponseStreamInv
  <2>3. QED
    BY <2>1, <2>2
<1>12. CASE reply.left = 1
  <2>1. reply' = NoReply /\ v.left = 0
    BY <1>1, <1>3, <1>12
  <2>2. QED
    BY <1>0, <1>1, <1>3, <1>4, <1>5, <1>9, <1>10, <1>11, <2>1 DEF ResponseStreamInv
<1>13. CASE reply.left # 1
  <2>1. /\ reply' = [reply EXCEPT !.left = @ - 1] /\ reply.left \in Nat
        /\ reply'.left = reply.left - 1 /\ reply'.id = served
        /\ reply'.body = reply.body
    BY <1>0, <1>1, <1>2, <1>13 DEF Units
  <2>2. reply'.left > 0 /\ v.left # 0
    BY <1>2, <1>3, <1>13, <2>1
  <2>3. reply' # NoReply
    BY <2>2 DEF NoReply
  <2>4. FollowsResponse(v, ReplyUnit(reply'))
    BY <1>3, <2>1, <2>2 DEF FollowsResponse, ReplyUnit
  <2>5. QED
    BY <1>0, <1>1, <1>4, <1>5, <1>9, <1>10, <1>11, <2>1, <2>2, <2>3, <2>4
       DEF ResponseStreamInv
<1>14. QED
  BY <1>12, <1>13

\* A request read to its end opens the response that the stream needs next.
LEMMA ServerReadKeepsStream ==
  ASSUME FlowInv, ServerRead
  PROVE  ResponseStreamInv'
<1> DEFINE u == Head(toServer)
<1>0. /\ ResponseStreamInv /\ toClient \in Seq(Units) /\ toServer \in Seq(Units)
      /\ received \in Nat /\ served \in Nat /\ ReadingInv
  BY DEF FlowInv, EventLoopTypeOK, ConnectionTypeOK
<1>1. /\ reply = NoReply /\ peer = "open" /\ peer' = peer /\ toServer # <<>>
      /\ toClient' = toClient
      /\ pc' = pc /\ rd' = rd /\ received' = received
  BY DEF ServerRead, connectionVars
<1>2. u.id = served + 1
  BY <1>0, <1>1, TailOfSeq DEF FlowInv, RequestStreamInv
<1>3. DOMAIN toClient = 1..Len(toClient)
  BY <1>0, LenProperties
<1>4. CASE u.left = 0
  <2>1. PICK b \in BodySizes :
          reply' = [id |-> u.id, body |-> b, left |-> HeaderSize + b]
    BY <1>4 DEF ServerRead
  <2>2. served' = served + 1
    BY <1>2, <1>4 DEF ServerRead
  <2>v. PICK v \in Units :
          v = [id |-> served + 1, body |-> b, left |-> HeaderSize + b - 1]
    <3>1. b \in Nat /\ HeaderSize \in Nat /\ HeaderSize > 0
      BY ConnectionAssumption
    <3>2. HeaderSize + b - 1 \in Nat /\ served + 1 \in Nat
      BY <1>0, <3>1
    <3>3. QED
      BY <3>1, <3>2 DEF Units
  <2>3. /\ reply'.id = served' /\ reply'.left > 0 /\ reply' # NoReply
        /\ ReplyUnit(reply') = v
    BY <1>0, <1>2, <2>1, <2>2, <2>v, ConnectionAssumption DEF NoReply, ReplyUnit
  <2>4. FirstOfResponse(v) /\ v.id = served + 1
    BY <2>v, ConnectionAssumption DEF FirstOfResponse
  <2>5. CASE toClient = <<>>
    <3>1. received = served /\ BetweenResponses
      BY <1>0, <1>1, <2>5 DEF ResponseStreamInv
    <3>2. Expected(v)'
      <4>1. v.id = received' + 1
        BY <1>1, <2>4, <3>1
      <4>2. pc' = "header" => v.left + 1 = rd'.left + v.body
        BY <1>1, <2>v, <3>1, ConnectionAssumption DEF BetweenResponses
      <4>3. pc' # "body"
        BY <1>1, <3>1 DEF BetweenResponses
      <4>4. QED
        BY <2>4, <4>1, <4>2, <4>3 DEF Expected, FirstOfResponse
    <3>3. Expected(ReplyUnit(reply))'
      BY <2>3, <3>2 DEF Expected, ReplyUnit, FirstOfResponse
    <3>4. QED
      BY <1>0, <1>1, <2>2, <2>3, <2>5, <3>1, <3>3 DEF ResponseStreamInv
  <2>6. CASE toClient # <<>>
    <3>1. /\ toClient[Len(toClient)].left = 0
          /\ toClient[Len(toClient)].id = served
      BY <1>0, <1>1, <2>6 DEF ResponseStreamInv
    <3>2. FollowsResponse(toClient[Len(toClient)], v)
      BY <2>4, <3>1 DEF FollowsResponse
    <3>3. Expected(toClient[1])'
      BY <1>0, <1>1, <2>6 DEF ResponseStreamInv, Expected
    <3>4. \A i \in DOMAIN toClient : toClient[i].id <= served'
      <4>1. \A i \in DOMAIN toClient : toClient[i] \in Units
        BY <1>0
      <4>2. \A i \in DOMAIN toClient : toClient[i].id \in Nat
        BY <4>1 DEF Units
      <4>3. QED
        BY <1>0, <2>2, <4>2 DEF ResponseStreamInv
    <3>5. QED
      BY <1>0, <1>1, <2>2, <2>3, <2>6, <3>2, <3>3, <3>4 DEF ResponseStreamInv
  <2>7. QED
    BY <2>5, <2>6
<1>5. CASE u.left # 0
  <2>1. served' = served /\ reply' = reply
    BY <1>5 DEF ServerRead
  <2>2. toClient' # <<>> => Expected(toClient[1])'
    BY <1>0, <1>1 DEF ResponseStreamInv, Expected
  <2>3. BetweenResponses' <=> BetweenResponses
    BY <1>1 DEF BetweenResponses
  <2>4. QED
    BY <1>0, <1>1, <2>1, <2>2, <2>3 DEF ResponseStreamInv
<1>6. QED
  BY <1>4, <1>5

\* Whatever part of the responses survives the closing is a prefix of the stream.
LEMMA ServerCloseKeepsStream ==
  ASSUME FlowInv, ServerClose
  PROVE  ResponseStreamInv'
<1>0. /\ ResponseStreamInv /\ toClient \in Seq(Units)
      /\ received \in Nat /\ served \in Nat
  BY DEF FlowInv, EventLoopTypeOK, ConnectionTypeOK
<1>1. /\ reply' = NoReply /\ peer' # "open" /\ served' = served
      /\ pc' = pc /\ rd' = rd /\ received' = received
  BY DEF ServerClose, connectionVars
<1>2. DOMAIN toClient = 1..Len(toClient) /\ Len(toClient) \in Nat
  BY <1>0, LenProperties
<1>3. \/ toClient' = toClient
      \/ \E n \in 0..Len(toClient) : toClient' = SubSeq(toClient, 1, n)
  BY DEF ServerClose
<1>4. PICK n \in 0..Len(toClient) :
        /\ toClient' \in Seq(Units) /\ Len(toClient') = n
        /\ \A i \in 1..n : toClient'[i] = toClient[i]
  BY <1>0, <1>2, <1>3, PrefixOfSeq
<1>5. DOMAIN toClient' = 1..n
  BY <1>4, LenProperties
<1>6. toClient' # <<>> => n > 0
  BY <1>4, EmptySeq
<1>7. \A i \in 1..n : i \in DOMAIN toClient
  BY <1>2
<1>8. \A i \in DOMAIN toClient' : toClient'[i].id <= served'
  BY <1>0, <1>1, <1>4, <1>5, <1>7 DEF ResponseStreamInv
<1>9. \A i \in DOMAIN toClient' : i + 1 \in DOMAIN toClient' =>
        FollowsResponse(toClient'[i], toClient'[i + 1])
  BY <1>0, <1>4, <1>5, <1>7 DEF ResponseStreamInv
<1>10. toClient' # <<>> => Expected(toClient[1])'
  <2>1. SUFFICES ASSUME toClient' # <<>>
                 PROVE  Expected(toClient[1])'
    OBVIOUS
  <2>2. toClient'[1] = toClient[1] /\ toClient # <<>>
    BY <1>2, <1>4, <1>6, <2>1
  <2>3. QED
    BY <1>0, <1>1, <2>2 DEF ResponseStreamInv, Expected
<1>11. QED
  BY <1>0, <1>1, <1>8, <1>9, <1>10 DEF ResponseStreamInv

\* The units on their way back keep the order and shape of the responses, and the
\* reader is where the stream begins.
LEMMA ResponseStreamStep ==
  ASSUME FlowInv, ThreadStep
  PROVE  ResponseStreamInv'
<1> USE DEF connectionVars, socketVars, loopVars
<1> DEFINE Kept == UNCHANGED loopVars
<1>1. CASE SendStep
  BY <1>1, StreamKept, ExpectedKept
     DEF SendStep, Dispatchable, ReturnFrom, BeginSendRequest, SendPacket
<1>2. CASE ReceiveStep
  <2>1. /\ pc = "loop" /\ received' = received /\ UNCHANGED socketVars
        /\ \/ pc' = "dead_pop"
           \/ pc' = "header" /\ rd'.left = HeaderSize
    BY <1>2 DEF ReceiveStep, Dispatchable, BeginReceiveResponse, ReadPacket
  <2>2. \A u \in Units : Expected(u)' <=> Expected(u)
    BY <2>1, ConnectionAssumption DEF Expected, FirstOfResponse, Units
  <2>3. BetweenResponses'
    BY <2>1 DEF BetweenResponses
  <2>4. QED
    BY <2>1, <2>2, <2>3, StreamKept
<1>3. CASE FinishStep
  BY <1>3, StreamKept, ExpectedKept DEF FinishStep
<1>4. CASE Poll
  BY <1>4, StreamKept, ExpectedKept DEF Poll
<1>5. CASE PushRequest
  BY <1>5, StreamKept, ExpectedKept DEF PushRequest
<1>6. CASE WriteBlock /\ Kept
  <2>1. /\ pc = "write" /\ pc' \in {"sent", "write"} /\ received' = received
        /\ UNCHANGED <<toClient, peer, reply, served>>
    BY <1>6 DEF WriteBlock
  <2>2. QED
    BY <2>1 DEF FlowInv, ResponseStreamInv, Expected, BetweenResponses
<1>7. CASE WriteToClosed /\ Kept
  <2>1. /\ pc = "write" /\ pc' \in {"sent", "write"} /\ received' = received
        /\ UNCHANGED <<toClient, reply, served>> /\ peer # "open" /\ peer' # "open"
    BY <1>7 DEF WriteToClosed
  <2>2. QED
    BY <2>1 DEF FlowInv, ResponseStreamInv, Expected, BetweenResponses
<1>8. CASE WriteFails /\ Kept
  BY <1>8, StreamKept, ExpectedKept DEF WriteFails
<1>9. CASE ReadHeader /\ Kept
  BY <1>9, ReadKeepsStream
<1>10. CASE ReadBody /\ Kept
  BY <1>10, ReadKeepsStream
<1>11. CASE ReadFails /\ Kept
  <2>1. /\ toClient = <<>> /\ peer = "reset" /\ pc' = "dead_read"
        /\ received' = received /\ UNCHANGED socketVars
    BY <1>11 DEF ReadFails
  <2>2. reply = NoReply
    BY <2>1 DEF FlowInv, RequestStreamInv
  <2>3. QED
    BY <2>1, <2>2 DEF FlowInv, ResponseStreamInv
<1>12. CASE ServerRead /\ Kept
  BY <1>12, ServerReadKeepsStream
<1>13. CASE ServerWrite /\ Kept
  BY <1>13, ServerWriteKeepsStream
<1>14. CASE ServerClose /\ Kept
  BY <1>14, ServerCloseKeepsStream
<1>15. CASE UNCHANGED vars
  BY <1>15 DEF FlowInv, ResponseStreamInv, Expected, BetweenResponses, vars
<1>16. CASE DieStep
  BY <1>16, StreamKept, ExpectedKept DEF DieStep, DieAt, Dead
<1>17. QED
  BY StepCases, <1>1, <1>2, <1>3, <1>4, <1>5, <1>6, <1>7, <1>8, <1>9, <1>10,
     <1>11, <1>12, <1>13, <1>14, <1>15, <1>16

------------------------------------------------------------------------------
(* The invariant. *)

LEMMA FlowInit == EventLoopInit => FlowInv
<1>1. SUFFICES ASSUME EventLoopInit PROVE FlowInv
  OBVIOUS
<1>2. EventLoopTypeOK
  BY <1>1, RecordTypes, EmptySeq, ConnectionAssumption
     DEF EventLoopInit, ConnectionInit, EventLoopTypeOK, ConnectionTypeOK, Callbacks
<1>3. /\ pc = "loop" /\ request = NoRequest /\ active = {} /\ queue = <<>>
      /\ sent = 0 /\ received = 0 /\ served = 0
      /\ toServer = <<>> /\ toClient = <<>> /\ reply = NoReply /\ peer = "open"
  BY <1>1 DEF EventLoopInit, ConnectionInit
<1>4. SendingInv
  BY <1>3 DEF SendingInv
<1>5. RequestStreamInv /\ WrittenInv
  BY <1>3 DEF RequestStreamInv, WrittenInv, NextId
<1>6. ResponseStreamInv
  BY <1>3 DEF ResponseStreamInv, BetweenResponses
<1>7. ReadingInv
  BY <1>1, <1>3 DEF EventLoopInit, ConnectionInit, NoRead, ReadingInv
<1>8. Answered = 0 /\ Popped = 0
  BY <1>3 DEF Answered, Popped
<1>9. QueueInv
  BY <1>3, <1>8 DEF QueueInv
<1>10. QED
  BY <1>2, <1>4, <1>5, <1>6, <1>7, <1>9 DEF FlowInv

LEMMA FlowStep == FlowInv /\ ThreadStep => FlowInv'
BY TypeStep, SendingStep, RequestStreamStep, WrittenStep, ResponseStreamStep,
   ReadingStep, QueueStep DEF FlowInv
================================================================================

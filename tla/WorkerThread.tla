----------------------------- MODULE WorkerThread -----------------------------
(***************************************************************************)
(* A WorkerThread in its steady state: the send callback generates and     *)
(* sends a request, the receive callback reads a response, pairs it with   *)
(* the oldest request of the queue and adds its samples to the thread's    *)
(* StatisticsCollection.                                                   *)
(*                                                                         *)
(* The time of day is abstracted.  With a rate limit a send callback may   *)
(* return early once last_send_time_ is valid.                             *)
(***************************************************************************)
EXTENDS EventLoop, Integers, FiniteSets

CONSTANTS
  GetSizes,     \* packet sizes of get requests, in units
  SetSizes,     \* packet sizes of set requests, in units
  SampleLimit,  \* a sample of this many units or more is out of range
  Paced,        \* whether rps_ > 0
  MaxRequests   \* bound: requests a run of the model sends

ASSUME WorkerAssumption ==
  /\ GetSizes \subseteq Nat \ {0} /\ SetSizes \subseteq Nat \ {0}
  /\ GetSizes \cup SetSizes # {}
  /\ SampleLimit \in Nat
  /\ Paced \in BOOLEAN
  /\ MaxRequests \in Nat

VARIABLES
  samples,   \* how many samples each statistic holds
  answered   \* history: pairs <<request, request its response answers>>

allVars == <<vars, samples, answered>>

Statistics == {"latency", "get_requests", "get_request_size",
               "set_requests", "set_request_size"}

Init ==
  /\ EventLoopInit
  /\ samples = [s \in Statistics |-> 0]
  /\ answered = {}

------------------------------------------------------------------------------
(* The send callback. *)

\* GenerateNextRequest: a get or a set of any of its sizes.
GenerateNextRequest ==
  [id : {sent + 1}, kind : {"get"}, size : GetSizes]
    \cup [id : {sent + 1}, kind : {"set"}, size : SetSizes]

\* last_send_time_valid_ is set by the first SendRequest that returns.
LastSendTimeValid == sent > 0

\* time_since_last_call < intersend_time; beyond the bound on requests the
\* model keeps only this branch.
MayReturnEarly == (Paced /\ LastSendTimeValid) \/ sent = MaxRequests

SendCallback ==
  /\ Dispatchable("send")
  /\ \/ MayReturnEarly /\ ReturnFrom("send")
     \/ /\ sent < MaxRequests
        /\ \/ \E r \in GenerateNextRequest : BeginSendRequest(r)
           \/ SizeTraps
  /\ UNCHANGED <<samples, answered>>

------------------------------------------------------------------------------
(* The receive callback. *)

ReceiveCallback ==
  /\ Dispatchable("receive")
  /\ BeginReceiveResponse
  /\ UNCHANGED <<samples, answered>>

\* Whether the latency may be one that AddSample has no histogram for.
LateAnswers == IF "latency" \in Faults THEN BOOLEAN ELSE {FALSE}

\* UpdateStatistics of a get or of a set.
UpdatedStatistics(r) ==
  IF r.kind = "get" THEN {"get_requests", "get_request_size"}
                    ELSE {"set_requests", "set_request_size"}

\* The statistics a response is counted in.  One whose latency has no histogram
\* is counted as a latency and gets no further.
Counted(r, late) == {"latency"} \cup (IF late THEN {} ELSE UpdatedStatistics(r))

\* Statistic::AddSample has no histogram for the latency or for the size:
\* "Unhandled Statistic value", after the sample is counted.
Unhandled(r, late) == late \/ r.size >= SampleLimit

\* The response is read: latency and request statistics, then the response
\* and its request are deleted.
RecordResponse ==
  /\ pc = "received"
  /\ \E late \in LateAnswers :
       /\ samples' = [s \in Statistics |->
                        samples[s] + IF s \in Counted(request, late) THEN 1 ELSE 0]
       /\ pc' = IF Unhandled(request, late) THEN "dead_sample" ELSE "loop"
  /\ answered' = answered \cup {<<request.id, rd.id>>}
  /\ request' = NoRequest
  /\ rd' = NoRead
  /\ UNCHANGED <<sending, written, received, active, queue, sent>>
  /\ UNCHANGED socketVars

------------------------------------------------------------------------------

WorkerStep ==
  \/ SendCallback \/ ReceiveCallback \/ RecordResponse
  \/ LoopStep /\ UNCHANGED <<samples, answered>>

\* LOG_FATAL has ended the process.
Ended == pc \in Dead /\ UNCHANGED allVars

Next ==
  \/ WorkerStep
  \/ ServerStep /\ UNCHANGED loopVars /\ UNCHANGED <<samples, answered>>
  \/ Ended

Spec == Init /\ [][Next]_allVars

\* The scheduler runs the thread, and the server reads and answers as long as
\* the buffers let it.  Nothing makes it close.
Fairness ==
  /\ WF_allVars(WorkerStep)
  /\ WF_allVars((ServerRead \/ ServerWrite)
                  /\ UNCHANGED <<loopVars, samples, answered>>)

FairSpec == Spec /\ Fairness
------------------------------------------------------------------------------
(* Properties. *)

\* The type of every variable of the thread, its connection and its history.
TypeOK ==
  /\ pc \in Places
  /\ EventLoopTypeOK
  /\ samples \in [Statistics -> Nat]
  /\ answered \subseteq Nat \X Nat

\* ReceiveResponse pairs a response with the request it answers
\* (response->set_request): a latency is never measured from the send time of
\* another request.
MatchedResponses == \A p \in answered : p[1] = p[2]

\* The requests sent that are in the queue, in the hands of ReceiveResponse, and
\* answered.
Queued == {queue[i].id : i \in DOMAIN queue}
InHand == IF request = NoRequest THEN {} ELSE {request.id}
Done   == {p[1] : p \in answered}

\* Every request sent is in exactly one place: in request_queue_, in the hands of
\* ReceiveResponse, or answered and sampled.  None is lost, none is queued or
\* sampled twice, whatever the server does.
ExactlyOnce ==
  /\ Queued \cup InHand \cup Done = 1..sent
  /\ Queued \cap InHand = {} /\ Queued \cap Done = {} /\ InHand \cap Done = {}
  /\ \A i, j \in DOMAIN queue : queue[i].id = queue[j].id => i = j

\* A receive callback about to run finds the request its response belongs to:
\* front() and pop() of request_queue_ are defined.
QueueHasRequest == Dispatchable("receive") => queue # <<>>

\* The same as long as the server does not close the connection.
QueueHasRequestWhileOpen == peer = "open" => QueueHasRequest

\* The reader stays aligned with the responses whatever the sizes and the
\* partial reads: "On read Incorrect magic number" is never reached.
FramingHolds == pc # "dead_magic"

\* The packet being written is no larger than the free space at which a socket is
\* reported writable.
SendFits == pc = "write" => sending.size <= LowWater

\* A packet of at most LowWater units fits what the socket had free when it
\* was reported writable, so WriteBlock finishes without the server's help.
WriteNeverBlocks ==
  (pc = "write" /\ SendFits /\ peer = "open") =>
    Len(toServer) + sending.size - written <= SendCap

\* A system call of the thread blocks: write, read, or the wait for events.
ThreadWaits ==
  \/ pc = "write" /\ Len(toServer) = SendCap
  \/ pc \in {"header", "body"} /\ toClient = <<>>
  \/ pc = "loop" /\ active = {} /\ Ready = {}

\* The server can neither read a request nor write what it answers.
ServerWaits == IF reply = NoReply THEN toServer = <<>> ELSE Len(toClient) = RecvCap

BothWait == ThreadWaits /\ ServerWaits

\* Thread and server never wait for each other, neither on two full buffers nor
\* on two empty ones: the blocking calls of the event loop are only reached when
\* the other side will end them.  Only in the write of a packet larger than
\* LowWater can they.
NeverBothWait == (peer = "open" /\ SendFits) => ~BothWait

\* Every sample stands for one request the server took: a worker that loses
\* its server records nothing for the requests that were under way.  Each is one
\* latency and one get or set, but for the one whose latency ended the process.
SamplesWereServed ==
  /\ samples["latency"] = Cardinality(answered)
  /\ samples["latency"] - (samples["get_requests"] + samples["set_requests"])
       \in IF pc = "dead_sample" THEN {0, 1} ELSE {0}
  /\ \A p \in answered : p[1] \in 1..served

\* Every request sent is answered in the end and sampled with its own response,
\* unless the server closes the connection, the process ends, or the write of a
\* packet larger than LowWater and the server's own write block each other first.
EveryRequestAnswered ==
  \A i \in 1..MaxRequests :
    sent >= i ~> \/ <<i, i>> \in answered
                 \/ peer # "open"
                 \/ pc \in Dead
                 \/ ~SendFits /\ BothWait

\* The thread does what LoadPipeline promises.  A request enters the pipeline
\* when it is pushed and leaves it when its response is sampled.
InPipeline == (IF request = NoRequest THEN <<>> ELSE <<request.id>>)
                \o [i \in DOMAIN queue |-> queue[i].id]

Pipeline == INSTANCE LoadPipeline WITH pipeline <- InPipeline, issued <- sent
ImplementsPipeline == Pipeline!PipelineSpec

===============================================================================

------------------------------ MODULE MainProofs ------------------------------
(***************************************************************************)
(* Proofs about CacheBash, for any number of options and of workers and    *)
(* any files: no worker runs before the main thread is done with its       *)
(* options, its workers and its warmup, and the warmup pairs its responses *)
(* and leaves nothing behind.                                              *)
(***************************************************************************)
EXTENDS CacheBash, EventLoopProofs

\* A request counts as sent once it is written: one more may be on its way.
SentInv == sent \in 0..MaxRequests /\ (pc \in {"write", "sent"} => sent < MaxRequests)

\* What the steps of the event loop keep, whoever runs it.
LoopInv == WarmupTypeOK /\ SentInv

\* Where the main thread is says which workers there are and which may run, and
\* that the loop is entered and left for good before the first of them does.
PhaseInv ==
  /\ phase = "parse" => workers = <<>>
  /\ phase \in {"parse", "create", "warmup"} =>
       \A i \in DOMAIN workers : ~workers[i]
  /\ phase \in {"warmup", "start", "sleep"} => Len(workers) >= n_worker_threads
  /\ phase \in {"start", "sleep"} => pc = "ended"
  /\ phase \in {"exit", "dead"} => \A i \in DOMAIN workers : ~workers[i]

MainInv == MainTypeOK /\ LoopInv /\ PhaseInv

------------------------------------------------------------------------------
(* The event loop. *)

LEMMA LoopInvInit ==
  ASSUME EventLoopInit, left \in Nat \cup {Undefined}
  PROVE  LoopInv
BY WarmupAssumption, EmptySeq
   DEF EventLoopInit, ConnectionInit, LoopInv, SentInv, WarmupTypeOK, Places,
       Requests, NoRequest

\* The packets of the warmup, and the request taken from the queue.
LEMMA WarmupRequests ==
  /\ NoRequest \in Requests /\ Dangling \in Requests
  /\ sent \in Nat =>
       \A s \in SetSizes : [id |-> sent + 1, kind |-> "set", size |-> s] \in Requests
BY WarmupAssumption DEF NoRequest, Dangling, Requests

LEMMA PopEntryType ==
  ASSUME left \in Nat \cup {Undefined}, PopEntry
  PROVE  left' \in Nat \cup {Undefined}
BY DEF PopEntry

LEMMA LoopInvStep ==
  ASSUME LoopInv, WarmupStep
  PROVE  LoopInv'
<1> USE DEF LoopInv, SentInv
<1>0. /\ pc \in Places \cup {"dead_next", "ended"} /\ active \subseteq Callbacks
      /\ queue \in Seq(Requests) /\ request \in Requests /\ sending \in Requests
      /\ sent \in 0..MaxRequests /\ MaxRequests \in Nat /\ sent \in Nat
      /\ left \in Nat \cup {Undefined}
  BY WarmupAssumption DEF WarmupTypeOK
<1>1. CASE SendCallback
  <2>1. CASE ReturnFrom("send") /\ UNCHANGED left
    BY <1>0, <2>1 DEF ReturnFrom, WarmupTypeOK, connectionVars
  <2>2. ASSUME sent < MaxRequests, PopEntry, NEW s \in SetSizes,
               BeginSendRequest([id |-> sent + 1, kind |-> "set", size |-> s])
        PROVE  LoopInv'
    <3>1. sending' \in Requests /\ left' \in Nat \cup {Undefined}
      BY <1>0, <2>2, WarmupRequests, PopEntryType DEF BeginSendRequest, SendPacket
    <3>2. /\ pc' = "write" /\ active' = active \ {"send"}
          /\ UNCHANGED <<queue, request, sent>>
      BY <2>2 DEF BeginSendRequest, SendPacket
    <3>3. QED
      BY <1>0, <2>2, <3>1, <3>2 DEF WarmupTypeOK, Places
  <2>3. ASSUME PopEntry, SizeTraps PROVE LoopInv'
    <3>1. left' \in Nat \cup {Undefined}
      BY <1>0, <2>3, PopEntryType
    <3>2. QED
      BY <1>0, <2>3, <3>1 DEF SizeTraps, DieAt, WarmupTypeOK, Places, Dead, loopVars
  <2>4. QED
    BY <1>0, <1>1, <2>1, <2>2, <2>3 DEF SendCallback
<1>2. CASE CrashInSequence
  BY <1>0, <1>2 DEF CrashInSequence, DieAt, WarmupTypeOK, loopVars
<1>3. CASE ReceiveCallback
  <2>1. queue # <<>> => Head(queue) \in Requests /\ Tail(queue) \in Seq(Requests)
    BY <1>0, TailOfSeq
  <2>2. queue' \in Seq(Requests) /\ request' \in Requests
    BY <1>0, <1>3, <2>1, WarmupRequests DEF ReceiveCallback, BeginReceiveResponse
  <2>3. pc' \in {"header", "dead_pop"}
    BY <1>3 DEF ReceiveCallback, BeginReceiveResponse, ReadPacket
  <2>4. active' \subseteq Callbacks /\ UNCHANGED <<sending, sent, left>>
    BY <1>0, <1>3 DEF ReceiveCallback, BeginReceiveResponse
  <2>5. QED
    BY <1>0, <2>2, <2>3, <2>4 DEF WarmupTypeOK, Places, Dead
<1>4. CASE FinishReceive
  <2>1. pc' \in {"loop", "ended"}
    BY <1>4 DEF FinishReceive
  <2>2. QED
    BY <1>0, <1>4, <2>1, WarmupRequests DEF FinishReceive, WarmupTypeOK, Places
<1>5. CASE LoopStep /\ UNCHANGED left
  <2>1. CASE Poll
    BY <1>0, <1>5, <2>1 DEF Poll, Ready, WarmupTypeOK, connectionVars
  <2>2. CASE PushRequest
    <3>1. queue' \in Seq(Requests)
      BY <1>0, <2>2, AppendToSeq DEF PushRequest
    <3>2. QED
      BY <1>0, <1>5, <2>2, <3>1, WarmupRequests DEF PushRequest, WarmupTypeOK, Places
  <2>3. CASE ConnectionStep /\ UNCHANGED loopVars
    <3>1. /\ pc' \in Places /\ sending' = sending
          /\ pc' \in {"write", "sent"} => pc \in {"write", "sent"}
      BY <2>3 DEF ConnectionStep, WriteBlock, WriteToClosed, WriteFails,
                  ReadHeader, ReadBody, ReadEndOfFile, ReadFails,
                  connectionVars, Places, Dead
    <3>2. QED
      BY <1>0, <1>5, <2>3, <3>1 DEF WarmupTypeOK, loopVars
  <2>4. CASE PollFails
    BY <1>0, <1>5, <2>4 DEF PollFails, DieAt, WarmupTypeOK, Places, Dead, loopVars
  <2>5. QED
    BY <1>5, <2>1, <2>2, <2>3, <2>4 DEF LoopStep
<1>6. QED
  BY <1>1, <1>2, <1>3, <1>4, <1>5 DEF WarmupStep

\* Steps that leave the loop alone; of -f's the sequence is another one.
LEMMA LoopInvKept ==
  ASSUME LoopInv, left' \in Nat \cup {Undefined},
         pc' = pc, sending' = sending, UNCHANGED loopVars
  PROVE  LoopInv'
BY DEF LoopInv, SentInv, WarmupTypeOK, loopVars

------------------------------------------------------------------------------
(* The main thread. *)

LEMMA MainInvInit == MainInit => MainInv
<1> SUFFICES ASSUME MainInit PROVE MainInv
  OBVIOUS
<1>1. LoopInv
  BY LoopInvInit DEF MainInit
<1>2. args \in Seq(Options)
  <2>1. PICK k \in 0..MaxArgs : args \in [1..k -> Options]
    BY DEF MainInit
  <2>2. k \in Nat
    BY CacheBashAssumption
  <2>3. QED
    BY <2>1, <2>2
<1>3. QED
  BY <1>1, <1>2, EmptySeq
     DEF MainInit, MainInv, MainTypeOK, LoopInv, PhaseInv

\* What getopt returns is an option with an argument of its kind.
LEMMA NextOptionType ==
  ASSUME MainTypeOK, NEW opt, NextOption(opt)
  PROVE  /\ Tail(args) \in Seq(Options) /\ Head(args) \in Options
         /\ opt = "f" => Head(args).n \in Nat /\ Head(args).n \in Entries
         /\ opt = "w" => Head(args).n \in WorkerCounts
         /\ opt = "t" => Head(args).n \in Runtimes
<1>1. args \in Seq(Options) /\ args # <<>> /\ Head(args).opt = opt
  BY DEF MainTypeOK, NextOption
<1>2. Tail(args) \in Seq(Options) /\ Head(args) \in Options
  BY <1>1, TailOfSeq
<1>3. ASSUME NEW o \in Options
      PROVE  /\ o.opt = "f" => o.n \in Entries \ {Undefined}
             /\ o.opt = "w" => o.n \in WorkerCounts
             /\ o.opt = "t" => o.n \in Runtimes
  BY DEF Options
<1>4. Entries \ {Undefined} \subseteq Nat \cap Entries
  BY WarmupAssumption
<1>5. /\ opt = "f" => Head(args).n \in Entries \ {Undefined}
      /\ opt = "w" => Head(args).n \in WorkerCounts
      /\ opt = "t" => Head(args).n \in Runtimes
  BY <1>1, <1>2, <1>3
<1>6. QED
  BY <1>2, <1>4, <1>5

\* The end of the process: no worker runs.
LEMMA ExitStep ==
  ASSUME MainInv, Exit
  PROVE  MainInv'
<1>1. workers' \in Seq(BOOLEAN) /\ \A i \in DOMAIN workers' : ~workers'[i]
  <2>1. Len(workers) \in Nat /\ DOMAIN workers = 1..Len(workers)
    BY LenProperties DEF MainInv, MainTypeOK
  <2>2. workers' = [i \in 1..Len(workers) |-> FALSE]
    BY <2>1 DEF Exit
  <2>3. QED
    BY <2>1, <2>2
<1>2. LoopInv'
  BY LoopInvKept DEF MainInv, LoopInv, WarmupTypeOK, Exit, warmupVars, vars,
                     connectionVars
<1>3. QED
  BY <1>1, <1>2 DEF MainInv, MainTypeOK, PhaseInv, Exit,
                    configVars, LoopInv

LEMMA MainInvStep == MainInv /\ [MainNext]_allVars => MainInv'
<1> SUFFICES ASSUME MainInv, [MainNext]_allVars PROVE MainInv'
  OBVIOUS
<1> USE DEF configVars
<1>0. MainTypeOK /\ LoopInv /\ PhaseInv
  BY DEF MainInv
<1>1. left \in Nat \cup {Undefined}
  BY <1>0 DEF LoopInv, WarmupTypeOK
<1>2. CASE LoadDistribution
  <2>1. /\ Tail(args) \in Seq(Options)
        /\ Head(args).n \in Nat /\ Head(args).n \in Entries
    BY <1>0, <1>2, NextOptionType DEF LoadDistribution
  <2>2. LoopInv'
    BY <1>0, <1>2, <2>1, LoopInvKept DEF LoadDistribution, vars, connectionVars
  <2>3. QED
    BY <1>0, <1>2, <2>1, <2>2
       DEF LoadDistribution, MainInv, MainTypeOK, LoopInv, PhaseInv,
           vars, connectionVars
<1>3. CASE SetWorkerCount
  <2>1. Tail(args) \in Seq(Options) /\ Head(args).n \in WorkerCounts
    BY <1>0, <1>3, NextOptionType DEF SetWorkerCount
  <2>2. LoopInv'
    BY <1>0, <1>1, <1>3, LoopInvKept DEF SetWorkerCount, warmupVars, vars,
                                         connectionVars
  <2>3. phase = "parse"
    BY <1>3 DEF SetWorkerCount, NextOption
  <2>4. QED
    BY <1>0, <1>3, <2>1, <2>2, <2>3
       DEF SetWorkerCount, MainInv, MainTypeOK, LoopInv, PhaseInv,
           warmupVars, vars, connectionVars
<1>4. CASE SetRuntime
  <2>1. Tail(args) \in Seq(Options) /\ Head(args).n \in Runtimes
    BY <1>0, <1>4, NextOptionType DEF SetRuntime
  <2>2. LoopInv'
    BY <1>0, <1>1, <1>4, LoopInvKept DEF SetRuntime, warmupVars, vars,
                                          connectionVars
  <2>3. QED
    BY <1>0, <1>4, <2>1, <2>2
       DEF SetRuntime, MainInv, MainTypeOK, LoopInv, PhaseInv, warmupVars, vars,
           connectionVars
<1>5. CASE LookUpServer
  <2>1. Tail(args) \in Seq(Options)
    BY <1>0, <1>5, NextOptionType DEF LookUpServer
  <2>2. LoopInv'
    BY <1>0, <1>1, <1>5, LoopInvKept DEF LookUpServer, warmupVars, vars,
                                         connectionVars
  <2>3. QED
    BY <1>0, <1>5, <2>1, <2>2
       DEF LookUpServer, MainInv, MainTypeOK, LoopInv, PhaseInv,
           warmupVars, vars, connectionVars
<1>6. CASE Usage \/ FinishArguments \/ BeginWarmup \/ FinishWarmup \/ SleepForever
  <2>1. LoopInv'
    BY <1>0, <1>1, <1>6, LoopInvKept
       DEF Usage, FinishArguments, BeginWarmup, FinishWarmup, SleepForever,
           warmupVars, vars, connectionVars
  <2>2. UNCHANGED <<configVars, workers, left, pc>>
    BY <1>6 DEF Usage, FinishArguments, BeginWarmup, FinishWarmup, SleepForever,
                warmupVars, vars, connectionVars
  <2>3. PhaseInv'
    BY <1>0, <1>6, <2>2
       DEF Usage, FinishArguments, BeginWarmup, FinishWarmup, SleepForever,
           PhaseInv, NextOption
  <2>4. MainTypeOK'
    BY <1>0, <1>6, <2>1, <2>2
       DEF Usage, FinishArguments, BeginWarmup, FinishWarmup, SleepForever,
           MainTypeOK, LoopInv
  <2>5. QED
    BY <2>1, <2>3, <2>4 DEF MainInv
<1>7. CASE CreateWorker
  <2>1. /\ workers \in Seq(BOOLEAN)
        /\ phase = "create" /\ \A i \in DOMAIN workers : ~workers[i]
    BY <1>0, <1>7 DEF CreateWorker, MainTypeOK, PhaseInv
  <2>2. workers' \in Seq(BOOLEAN) /\ \A i \in DOMAIN workers' : ~workers'[i]
    <3>1. workers' = Append(workers, FALSE)
      BY <1>7 DEF CreateWorker
    <3>2. /\ workers' \in Seq(BOOLEAN) /\ Len(workers') = Len(workers) + 1
          /\ \A i \in 1..Len(workers) : workers'[i] = workers[i]
          /\ workers'[Len(workers) + 1] = FALSE
      BY <2>1, <3>1, AppendToSeq
    <3>3. QED
      BY <2>1, <3>2, LenProperties
  <2>3. LoopInv'
    BY <1>0, <1>1, <1>7, LoopInvKept DEF CreateWorker, warmupVars, vars,
                                         connectionVars
  <2>4. QED
    BY <1>0, <1>7, <2>2, <2>3
       DEF CreateWorker, MainInv, MainTypeOK, LoopInv, PhaseInv,
           warmupVars, vars, connectionVars
<1>8. CASE RunWarmup
  <2>1. LoopInv'
    BY <1>0, <1>8, LoopInvStep DEF RunWarmup
  <2>2. QED
    BY <1>0, <1>8, <2>1
       DEF RunWarmup, mainVars, MainInv, MainTypeOK, LoopInv, PhaseInv
<1>9. CASE StartWorker
  <2>1. PICK i \in DOMAIN workers : workers' = [workers EXCEPT ![i] = TRUE]
    BY <1>9 DEF StartWorker, Waiting
  <2>2. workers \in Seq(BOOLEAN)
    BY <1>0 DEF MainTypeOK
  <2>3. workers' \in Seq(BOOLEAN) /\ Len(workers') = Len(workers)
    BY <2>1, <2>2, ExceptSeq
  <2>4. LoopInv'
    BY <1>0, <1>1, <1>9, LoopInvKept DEF StartWorker, warmupVars, vars,
                                         connectionVars
  <2>5. QED
    BY <1>0, <1>9, <2>3, <2>4
       DEF StartWorker, MainInv, MainTypeOK, LoopInv, PhaseInv,
           warmupVars, vars, connectionVars
<1>10. CASE MainFails \/ WorkerFails
  BY <1>10, ExitStep DEF MainFails, WorkerFails
<1>11. CASE Server
  <2>1. UNCHANGED <<pc, sending>>
    BY <1>11 DEF Server, ServerStep, ServerRead, ServerWrite, ServerClose,
                 connectionVars
  <2>2. LoopInv'
    BY <1>0, <1>1, <1>11, <2>1, LoopInvKept DEF Server
  <2>3. QED
    BY <1>0, <1>11, <2>1, <2>2
       DEF Server, mainVars, MainInv, MainTypeOK, LoopInv, PhaseInv
<1>12. CASE UNCHANGED allVars
  <2>1. UNCHANGED <<mainVars, left, pc, sending>> /\ UNCHANGED loopVars
    BY <1>12 DEF allVars, warmupVars, vars, connectionVars
  <2>2. LoopInv'
    BY <1>0, <1>1, <2>1, LoopInvKept
  <2>3. QED
    BY <1>0, <2>1, <2>2
       DEF mainVars, MainInv, MainTypeOK, LoopInv, PhaseInv
<1>13. QED
  BY <1>2, <1>3, <1>4, <1>5, <1>6, <1>7, <1>8, <1>9, <1>10, <1>11, <1>12
     DEF MainNext, MainStep, MainEnded

------------------------------------------------------------------------------
(* The warmup's connection. *)

\* The warmup ends only in a receive callback that leaves the queue empty.
EndedInv ==
  pc = "ended" => queue = <<>> /\ request = NoRequest /\ received > 0

\* The warmup keeps the event loop's invariant until an undefined read ends it in
\* the middle of a callback.
WarmupInv == (pc # "dead_next" => FlowInv) /\ EndedInv

LEMMA WarmupInvInit == MainInit => WarmupInv
BY FlowInit DEF MainInit, EventLoopInit, ConnectionInit, WarmupInv, EndedInv

\* But for undefined reads the warmup's steps are those of a thread that runs the
\* event loop.
LEMMA WarmupIsThread ==
  ASSUME LoopInv, WarmupStep, pc' # "dead_next"
  PROVE  pc # "dead_next" /\ ThreadStep
<1>1. CASE SendCallback
  <2>1. CASE Dispatchable("send") /\ ReturnFrom("send")
    BY <2>1 DEF Dispatchable, ThreadStep, SendStep
  <2>2. ASSUME Dispatchable("send"), NEW size \in SetSizes,
               BeginSendRequest([id |-> sent + 1, kind |-> "set", size |-> size])
        PROVE  pc # "dead_next" /\ ThreadStep
    <3>1. sent \in Nat /\ size > 0
      BY WarmupAssumption DEF LoopInv, SentInv
    <3>2. [id |-> sent + 1, kind |-> "set", size |-> size] \in NextRequests
      BY <3>1, WarmupRequests DEF NextRequests
    <3>3. QED
      BY <2>2, <3>2 DEF Dispatchable, ThreadStep, SendStep
  <2>3. CASE Dispatchable("send") /\ SizeTraps
    BY <2>3 DEF Dispatchable, SizeTraps, ThreadStep, DieStep, Dead
  <2>4. QED
    BY <1>1, <2>1, <2>2, <2>3 DEF SendCallback
<1>2. CASE CrashInSequence
  BY <1>2 DEF CrashInSequence, DieAt
<1>3. CASE ReceiveCallback
  BY <1>3 DEF ReceiveCallback, Dispatchable, ThreadStep, ReceiveStep
<1>4. CASE FinishReceive
  BY <1>4 DEF FinishReceive, ThreadStep, FinishStep
<1>5. CASE LoopStep
  BY <1>5 DEF ThreadStep, LoopStep, Poll, PollFails, DieAt, PushRequest, ConnectionStep,
              WriteBlock, WriteToClosed, WriteFails, ReadHeader, ReadBody,
              ReadEndOfFile, ReadFails
<1>6. QED
  BY <1>1, <1>2, <1>3, <1>4, <1>5 DEF WarmupStep

\* No other step than that of the receive callback ends the warmup.
LEMMA EndedStep ==
  ASSUME WarmupInv, WarmupStep
  PROVE  EndedInv'
<1>1. CASE FinishReceive
  <2>1. received > 0
    BY <1>1 DEF FinishReceive, WarmupInv, FlowInv, ReadingInv
  <2>2. pc' = "ended" => queue = <<>>
    BY <1>1 DEF FinishReceive, WarmupOver
  <2>3. QED
    BY <1>1, <2>1, <2>2 DEF FinishReceive, EndedInv
<1>2. CASE ~ FinishReceive
  <2>1. pc' # "ended"
    BY <1>2
       DEF WarmupStep, SendCallback, Dispatchable, ReturnFrom, BeginSendRequest,
           SendPacket, SizeTraps, PollFails, DieAt, CrashInSequence,
           ReceiveCallback, BeginReceiveResponse,
           ReadPacket, LoopStep, Poll, PushRequest, ConnectionStep, WriteBlock,
           WriteToClosed, WriteFails, ReadHeader, ReadBody, ReadEndOfFile,
           ReadFails, connectionVars
  <2>2. QED
    BY <2>1 DEF EndedInv
<1>3. QED
  BY <1>1, <1>2

LEMMA WarmupInvStep == MainInv /\ WarmupInv /\ [MainNext]_allVars => WarmupInv'
<1> SUFFICES ASSUME MainInv, WarmupInv, [MainNext]_allVars PROVE WarmupInv'
  OBVIOUS
<1>1. CASE RunWarmup
  <2>1. LoopInv /\ WarmupStep
    BY <1>1 DEF MainInv, RunWarmup
  <2>2. EndedInv'
    BY <2>1, EndedStep
  <2>3. pc' # "dead_next" => FlowInv'
    BY <2>1, WarmupIsThread, FlowStep DEF WarmupInv
  <2>4. QED
    BY <2>2, <2>3 DEF WarmupInv
<1>2. CASE Server
  <2>1. pc' = pc /\ pc # "ended" /\ ThreadStep
    BY <1>2 DEF Server, ThreadStep, ServerStep, ServerRead, ServerWrite,
                ServerClose, connectionVars
  <2>2. QED
    BY <2>1, FlowStep DEF WarmupInv, EndedInv
<1>3. CASE UNCHANGED vars
  <2>1. ThreadStep /\ UNCHANGED <<pc, queue, request, received>>
    BY <1>3 DEF ThreadStep, vars, connectionVars, loopVars
  <2>2. QED
    BY <2>1, FlowStep DEF WarmupInv, EndedInv
<1>4. RunWarmup \/ Server \/ UNCHANGED vars
  BY DEF MainNext, MainStep, LoadDistribution, SetWorkerCount, SetRuntime,
         LookUpServer, Usage, FinishArguments, CreateWorker, BeginWarmup, FinishWarmup, StartWorker,
         SleepForever, MainFails, WorkerFails, Exit, MainEnded, allVars, warmupVars
<1>5. QED
  BY <1>1, <1>2, <1>3, <1>4

\* With the queue empty and the last response read nothing is on its way: a unit
\* towards the server would be of a request that is not begun, one towards the
\* client of a response that was read.
LEMMA NothingLeft ==
  ASSUME WarmupInv, pc = "ended"
  PROVE  /\ queue = <<>> /\ toServer = <<>> /\ toClient = <<>> /\ reply = NoReply
         /\ sent > 0 /\ served = sent /\ received = sent
<1>1. /\ queue = <<>> /\ request = NoRequest /\ received > 0 /\ FlowInv
      /\ received \in Nat /\ served \in Nat /\ sent \in Nat
      /\ toServer \in Seq(Units) /\ toClient \in Seq(Units)
  BY DEF WarmupInv, EndedInv, FlowInv, EventLoopTypeOK, ConnectionTypeOK
<1>2. Len(queue) = 0 /\ Popped = received
  BY <1>1 DEF Popped, Answered
<1>3. received = sent
  BY <1>1, <1>2 DEF FlowInv, QueueInv
<1>4. received <= served /\ served < sent + 1
  BY <1>1 DEF FlowInv, ResponseStreamInv, RequestStreamInv, NextId
<1>5. served = sent
  BY <1>1, <1>3, <1>4
<1>6. toServer = <<>>
  <2> SUFFICES ASSUME toServer # <<>> PROVE FALSE
    OBVIOUS
  <2>1. toServer[1].id = served + 1
    BY <1>1 DEF FlowInv, RequestStreamInv
  <2>2. 1 \in DOMAIN toServer
    BY <1>1, TailOfSeq, LenProperties
  <2>3. toServer[1].id <= sent
    BY <1>1, <2>2 DEF FlowInv, WrittenInv
  <2>4. QED
    BY <1>1, <1>5, <2>1, <2>3
<1>7. toClient = <<>>
  <2> SUFFICES ASSUME toClient # <<>> PROVE FALSE
    OBVIOUS
  <2>1. toClient[1].id = received + 1
    BY <1>1 DEF FlowInv, ResponseStreamInv, Expected
  <2>2. 1 \in DOMAIN toClient
    BY <1>1, TailOfSeq, LenProperties
  <2>3. toClient[1].id <= served
    BY <1>1, <2>2 DEF FlowInv, ResponseStreamInv
  <2>4. QED
    BY <1>1, <1>3, <1>5, <2>1, <2>3
<1>8. reply = NoReply
  <2> SUFFICES ASSUME reply # NoReply PROVE FALSE
    OBVIOUS
  <2>1. reply.id = served /\ Expected(ReplyUnit(reply))
    BY <1>1, <1>7 DEF FlowInv, ResponseStreamInv
  <2>2. reply.id = received + 1
    BY <2>1 DEF Expected, ReplyUnit
  <2>3. QED
    BY <1>1, <1>3, <1>5, <2>1, <2>2
<1>9. QED
  BY <1>1, <1>3, <1>5, <1>6, <1>7, <1>8

------------------------------------------------------------------------------

\* The invariant holds in every reachable state.
THEOREM MainInvariance == MainSpec => []MainInv
BY MainInvInit, MainInvStep, PTL DEF MainSpec

\* The types of the main thread's and of the warmup's variables.
THEOREM MainTypeCorrect == MainSpec => []MainTypeOK
BY MainInvariance, PTL DEF MainInv

\* No worker runs while the options are read, before every worker is created, or
\* before the warmup is over.
THEOREM ThreadsStayApart == MainSpec => []ThreadsApart
<1>1. MainInv => ThreadsApart
  BY DEF MainInv, MainTypeOK, PhaseInv, ThreadsApart
<1>2. QED
  BY <1>1, MainInvariance, PTL

\* The event loop's invariant holds of the warmup until an undefined read ends it.
THEOREM WarmupInvariance == MainSpec => []WarmupInv
BY WarmupInvInit, WarmupInvStep, MainInvariance, PTL DEF MainSpec

\* The warmup pairs every response with the request it answers, whatever undefined
\* reads return.
THEOREM WarmupMatchedHolds == MainSpec => []WarmupMatched
<1>1. WarmupInv => WarmupMatched
  BY DEF WarmupInv, FlowInv, ReadingInv, WarmupMatched
<1>2. QED
  BY <1>1, WarmupInvariance, PTL

\* A warmup that is over has read every response, and its connection is empty in
\* both directions.
THEOREM WarmupLeavesNothingHolds == MainSpec => []WarmupLeavesNothing
<1>1. WarmupInv => WarmupLeavesNothing
  BY NothingLeft DEF WarmupLeavesNothing
<1>2. QED
  BY <1>1, WarmupInvariance, PTL
===============================================================================

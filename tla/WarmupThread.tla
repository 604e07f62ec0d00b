----------------------------- MODULE WarmupThread -----------------------------
(***************************************************************************)
(* The WarmupWorkerThread WorkerManager::Warmup runs before the worker     *)
(* threads start: the event loop of EventLoop with a send callback that    *)
(* takes its requests from the warmup sequence and a receive callback that *)
(* decides when the warmup is over.                                        *)
(*                                                                         *)
(* Both callbacks test HasNext the wrong way round, and without the -f     *)
(* option the sequence is a pointer nobody set.  The model has the code's  *)
(* tests, and every outcome a read of undefined memory may have.           *)
(***************************************************************************)
EXTENDS EventLoop, Integers

CONSTANTS
  Undefined,    \* a sequence nobody constructed, or popped when empty
  Entries,      \* entries a size/key file may have; Undefined without -f
  SetSizes,     \* packet sizes of the warmup's set requests, in units
  MaxRequests   \* bound: requests a run of the model sends

ASSUME WarmupAssumption ==
  /\ Undefined \notin Nat
  /\ Entries \subseteq Nat \cup {Undefined}
  /\ SetSizes \subseteq Nat \ {0} /\ SetSizes # {}
  /\ MaxRequests \in Nat

VARIABLE left  \* entries left in size_key_sequence_

warmupVars == <<vars, left>>

Init == EventLoopInit /\ left \in Entries

------------------------------------------------------------------------------

\* What WarmupSequence::HasNext may return.
HasNext == IF left = Undefined THEN BOOLEAN ELSE {left > 0}

\* Mutant of SendReturns: the test the right way round.
SendReturnsWhenDone(next) == ~next

\* "if (warmup_sequence_->HasNext()) return;"
SendReturns(next) == next

\* Mutant of PopEntry: the count of an empty sequence goes below zero.
PopEntryBelowZero ==
  left' = IF left = Undefined THEN Undefined ELSE left - 1

\* Next takes an entry; front() and pop() of an empty sequence are undefined
\* and leave a sequence in no defined state.
PopEntry == left' = IF left \in Nat \ {0} THEN left - 1 ELSE Undefined

\* Beyond the bound on requests the model keeps only the early return.
SendCallback ==
  /\ Dispatchable("send")
  /\ \E next \in HasNext :
       \/ /\ SendReturns(next) \/ sent = MaxRequests
          /\ ReturnFrom("send")
          /\ UNCHANGED left
       \/ /\ ~SendReturns(next) /\ sent < MaxRequests
          /\ PopEntry
          /\ \/ \E s \in SetSizes :
                 BeginSendRequest([id |-> sent + 1, kind |-> "set", size |-> s])
             \/ SizeTraps

\* Undefined reads that do not survive: HasNext or Next of no sequence.
CrashInSequence ==
  /\ \/ Dispatchable("send") /\ left \in {0, Undefined}
     \/ pc = "received" /\ left = Undefined
  /\ DieAt("dead_next")
  /\ UNCHANGED left

ReceiveCallback ==
  /\ Dispatchable("receive")
  /\ BeginReceiveResponse
  /\ UNCHANGED left

\* Mutant of WarmupOver: the requests still on their way are not waited for.
WarmupOverAtOnce(next) == next

\* "warmup_sequence_->HasNext() && request_queue_.empty()"
WarmupOver(next) == next /\ queue = <<>>

\* The response has been read: event_base_loopbreak, or back to the loop.  No
\* statistics are kept.
FinishReceive ==
  /\ pc = "received"
  /\ \E next \in HasNext : pc' = IF WarmupOver(next) THEN "ended" ELSE "loop"
  /\ request' = NoRequest
  /\ rd' = NoRead
  /\ UNCHANGED <<sending, written, received, active, queue, sent, left>>
  /\ UNCHANGED socketVars

------------------------------------------------------------------------------

WarmupStep ==
  \/ SendCallback \/ CrashInSequence
  \/ ReceiveCallback \/ FinishReceive
  \/ LoopStep /\ UNCHANGED left

Ended == pc \in Dead \cup {"dead_next", "ended"} /\ UNCHANGED warmupVars

Next ==
  \/ WarmupStep
  \/ ServerStep /\ UNCHANGED loopVars /\ UNCHANGED left
  \/ Ended

Spec == Init /\ [][Next]_warmupVars

\* The scheduler runs the thread; the server reads and answers.
FairSpec ==
  /\ Spec
  /\ WF_warmupVars(WarmupStep)
  /\ WF_warmupVars((ServerRead \/ ServerWrite) /\ UNCHANGED <<loopVars, left>>)
------------------------------------------------------------------------------
(* Properties. *)

\* The types of the thread's variables, the two ways it ends included.
WarmupTypeOK ==
  /\ pc \in Places \cup {"dead_next", "ended"}
  /\ active \subseteq Callbacks
  /\ queue \in Seq(Requests) /\ request \in Requests /\ sending \in Requests
  /\ sent \in 0..MaxRequests
  /\ left \in Nat \cup {Undefined}

\* When the warmup is over nothing of it is left behind: every request it sent
\* was served and its response read, so no late response stays in the socket,
\* which nobody reads or closes any more.
WarmupLeavesNothing ==
  pc = "ended" =>
    /\ queue = <<>> /\ toServer = <<>> /\ toClient = <<>> /\ reply = NoReply
    /\ sent > 0 /\ served = sent /\ received = sent

\* The warmup pairs every response with the request it answers.
WarmupMatched == pc = "received" => request.id = rd.id

------------------------------------------------------------------------------
(* What the comments of the code say and the code does not do. *)

\* cachebash.cc:170 "Perform a warmup with only one thread" and
\* worker_thread.cc:245 "Check if we are now down with warmup": the warmup ends.
WarmupEnds == <>(pc = "ended")
===============================================================================

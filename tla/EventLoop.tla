------------------------------ MODULE EventLoop -------------------------------
(***************************************************************************)
(* What every worker thread shares (worker_thread.cc): the libevent loop   *)
(* over one Connection, the queue of requests whose response is still to   *)
(* come, and the halves of SendRequest and ReceiveResponse around the      *)
(* blocking calls of Connection.                                           *)
(*                                                                         *)
(* libevent is external.  One poll marks every ready event active, and the *)
(* loop runs all active callbacks before it polls again.  The order within *)
(* a batch is the library's: event_priority_set is given 1 and 2 while no  *)
(* call of event_base_priority_init gave the base more than one priority,  *)
(* so both calls are refused and both events keep the same priority.       *)
(***************************************************************************)
EXTENDS Connection

\* What may go wrong outside the connection: "poll", the wait for events fails;
\* "size", an entry of the size/key file has size 1; "latency", an answer takes
\* 1000 seconds or more, or the clock is set forward.
CONSTANT Faults

ASSUME EventLoopAssumption == Faults \subseteq {"poll", "size", "latency"}

VARIABLES
  active,   \* callbacks of the last poll that have not run yet
  queue,    \* request_queue_
  request,  \* the request ReceiveResponse has popped
  sent      \* history: requests pushed so far; request ids count from 1

loopVars == <<active, queue, request, sent>>
vars == <<connectionVars, socketVars, loopVars>>

Callbacks == {"send", "receive"}

\* What front() reads when the queue is empty: no request at all.
Dangling == [id |-> 0, kind |-> "none", size |-> 0]

EventLoopInit ==
  /\ ConnectionInit
  /\ active = {}
  /\ queue = <<>>
  /\ request = NoRequest
  /\ sent = 0

------------------------------------------------------------------------------

\* Mutant of Ready: the send event does not wait for EV_WRITE.
ReadyUnasked == {c \in Callbacks : c = "receive" => Readable}

\* Mutant of Ready: send is served first and keeps receive waiting.
ReadySendFirst == IF Writable THEN {"send"}
                  ELSE {c \in {"receive"} : Readable}

\* event_base_loop waits until an event of the socket is ready.
Ready == {c \in Callbacks : \/ c = "receive" /\ Readable
                            \/ c = "send" /\ Writable}

Poll ==
  /\ pc = "loop" /\ active = {} /\ Ready # {}
  /\ active' = Ready
  /\ UNCHANGED <<queue, request, sent>>
  /\ UNCHANGED connectionVars /\ UNCHANGED socketVars

\* The process ends where the thread is.
DieAt(place) ==
  /\ pc' = place
  /\ UNCHANGED <<sending, written, rd, received, loopVars>>
  /\ UNCHANGED socketVars

\* event_base_loop returns -1: "Error starting libevent".
PollFails ==
  /\ "poll" \in Faults
  /\ pc = "loop" /\ active = {}
  /\ DieAt("dead_poll")

\* GenerateRandomString(1) in a send callback: rand() % 0.
SizeTraps == "size" \in Faults /\ DieAt("dead_size")

\* Whether the loop may run callback c now.
Dispatchable(c) == pc = "loop" /\ c \in active

\* A callback that returns at once.
ReturnFrom(c) ==
  /\ active' = active \ {c}
  /\ UNCHANGED <<queue, request, sent>>
  /\ UNCHANGED connectionVars /\ UNCHANGED socketVars

\* A send callback enters SendRequest(r): the packet is written first.
BeginSendRequest(r) ==
  /\ active' = active \ {"send"}
  /\ SendPacket(r)
  /\ UNCHANGED <<rd, received, queue, request, sent>>
  /\ UNCHANGED socketVars

\* Mutant of PushRequest: the newest request goes to the front.
PushRequestFront ==
  /\ pc = "sent"
  /\ queue' = <<sending>> \o queue
  /\ sent' = sent + 1
  /\ sending' = NoRequest
  /\ written' = 0
  /\ pc' = "loop"
  /\ UNCHANGED <<rd, received, active, request>>
  /\ UNCHANGED socketVars

\* Mutant of PushRequest: one pending request is remembered, not a queue of them.
PushRequestSingle ==
  /\ pc = "sent"
  /\ queue' = <<sending>>
  /\ sent' = sent + 1
  /\ sending' = NoRequest
  /\ written' = 0
  /\ pc' = "loop"
  /\ UNCHANGED <<rd, received, active, request>>
  /\ UNCHANGED socketVars

\* connection_->SendRequest has returned: the request joins the queue.
PushRequest ==
  /\ pc = "sent"
  /\ queue' = Append(queue, sending)
  /\ sent' = sent + 1
  /\ sending' = NoRequest
  /\ written' = 0
  /\ pc' = "loop"
  /\ UNCHANGED <<rd, received, active, request>>
  /\ UNCHANGED socketVars

\* Mutant of BeginReceiveResponse: the request is looked at but not popped.
BeginReceiveNoPop ==
  /\ active' = active \ {"receive"}
  /\ IF queue # <<>>
     THEN request' = Head(queue) /\ ReadPacket
     ELSE request' = Dangling /\ ReadPacket
  /\ UNCHANGED <<sending, written, received, queue, sent>>
  /\ UNCHANGED socketVars

\* A receive callback enters ReceiveResponse: the oldest request is taken off
\* the queue before its response is read.  On an empty queue front() and pop()
\* are undefined: they crash, or hand out what the memory holds.
BeginReceiveResponse ==
  /\ active' = active \ {"receive"}
  /\ \/ /\ queue # <<>>
        /\ request' = Head(queue)
        /\ queue' = Tail(queue)
        /\ ReadPacket
     \/ /\ queue = <<>>
        /\ request' = Dangling
        /\ UNCHANGED queue
        /\ \/ ReadPacket
           \/ pc' = "dead_pop" /\ UNCHANGED rd
  /\ UNCHANGED <<sending, written, received, sent>>
  /\ UNCHANGED socketVars

\* The thread's steps that no callback overrides.
LoopStep ==
  \/ Poll \/ PollFails
  \/ PushRequest
  \/ ConnectionStep /\ UNCHANGED loopVars

EventLoopTypeOK ==
  /\ ConnectionTypeOK
  /\ active \subseteq Callbacks
  /\ queue \in Seq(Requests)
  /\ request \in Requests
  /\ sent \in Nat
===============================================================================

-------------------------------- MODULE Pacing ---------------------------------
(***************************************************************************)
(* The time half of WorkerThread::SendCallback: how last_send_time_ spaces *)
(* the requests of the worker threads to meet the rate of the -r option.   *)
(*                                                                         *)
(* Time is counted in ticks.  The rate is given by its period, the ticks   *)
(* from one request to the next that the whole program should keep; 0      *)
(* stands for no rate limit.  The connection is the time SendRequest takes *)
(* before it returns.  gettimeofday reads the wall clock, which anyone may *)
(* set back; how much time really went by is kept beside it.               *)
(***************************************************************************)
EXTENDS Integers, FiniteSets, Functions

CONSTANTS
  Threads,   \* the worker threads; their number is n_worker_threads_
  Period,    \* 1 / rps_ in ticks
  MaxTime    \* bound: ticks a run of the model lasts

ASSUME PacingAssumption ==
  /\ IsFiniteSet(Threads)
  /\ Period \in Nat
  /\ MaxTime \in Nat

VARIABLES
  now,              \* what gettimeofday returns
  pc,               \* per thread: "idle", "generate" or "sending"
  timestamp,        \* per thread: the timestamp of SendRequest
  last_send_time,   \* per thread: last_send_time_ and last_send_time_valid_
  uptime,           \* history: ticks that have passed
  stamps,           \* history, per thread: requests given a send time
  stampedAt         \* history, per thread: when that was, in uptime

clockVars  == <<now, uptime>>
threadVars == <<pc, timestamp, last_send_time, stamps, stampedAt>>
pacingVars == <<clockVars, threadVars>>

\* last_send_time_valid_ is false.
NotValid == -1

Init ==
  /\ now = 0 /\ uptime = 0
  /\ pc = [w \in Threads |-> "idle"]
  /\ timestamp = [w \in Threads |-> 0]
  /\ last_send_time = [w \in Threads |-> NotValid]
  /\ stamps = [w \in Threads |-> 0]
  /\ stampedAt = [w \in Threads |-> 0]

------------------------------------------------------------------------------

\* Mutant of IntersendExceeded: the wait is split among the threads twice.
IntersendExceededTwice(elapsed) ==
  ~(elapsed * Cardinality(Threads) * 2 < Period)

\* ~(time_since_last_call < intersend_time), where intersend_time is
\* (1 / rps_) / n_worker_threads_; without a rate it is 0.
IntersendExceeded(elapsed) == ~(elapsed * Cardinality(Threads) < Period)

\* SendCallback up to its early return.
SendCallback(w) ==
  /\ pc[w] = "idle"
  /\ last_send_time[w] # NotValid => IntersendExceeded(now - last_send_time[w])
  /\ pc' = [pc EXCEPT ![w] = "generate"]
  /\ UNCHANGED <<clockVars, timestamp, last_send_time, stamps, stampedAt>>

\* Mutant of SetSendTime: the time the next request is due is kept instead.
SetSendTimeDue(w) ==
  /\ pc[w] = "generate"
  /\ timestamp' = [timestamp EXCEPT ![w] = now + Period]
  /\ stamps' = [stamps EXCEPT ![w] = @ + 1]
  /\ stampedAt' = [stampedAt EXCEPT ![w] = uptime]
  /\ pc' = [pc EXCEPT ![w] = "sending"]
  /\ UNCHANGED <<clockVars, last_send_time>>

\* The request is generated; SendRequest reads the clock again.
SetSendTime(w) ==
  /\ pc[w] = "generate"
  /\ timestamp' = [timestamp EXCEPT ![w] = now]
  /\ stamps' = [stamps EXCEPT ![w] = @ + 1]
  /\ stampedAt' = [stampedAt EXCEPT ![w] = uptime]
  /\ pc' = [pc EXCEPT ![w] = "sending"]
  /\ UNCHANGED <<clockVars, last_send_time>>

\* Mutant of FinishSend: last_send_time_ is set once and not moved again.
FinishSendOnce(w) ==
  /\ pc[w] = "sending"
  /\ last_send_time' = [last_send_time EXCEPT ![w] =
                          IF @ = NotValid THEN timestamp[w] ELSE @]
  /\ pc' = [pc EXCEPT ![w] = "idle"]
  /\ UNCHANGED <<clockVars, timestamp, stamps, stampedAt>>

\* connection_->SendRequest has returned.
FinishSend(w) ==
  /\ pc[w] = "sending"
  /\ last_send_time' = [last_send_time EXCEPT ![w] = timestamp[w]]
  /\ pc' = [pc EXCEPT ![w] = "idle"]
  /\ UNCHANGED <<clockVars, timestamp, stamps, stampedAt>>

\* Time passes, wherever the threads are.
Tick ==
  /\ uptime < MaxTime
  /\ now' = now + 1 /\ uptime' = uptime + 1
  /\ UNCHANGED threadVars

\* The wall clock is set to an earlier time.
ClockSetBack ==
  /\ now' \in 0..(now - 1)
  /\ UNCHANGED <<uptime, threadVars>>

\* The bound on time: without a rate a run would stamp requests for ever.
Next ==
  \/ Tick \/ ClockSetBack
  \/ \E w \in Threads : SendCallback(w) \/ SetSendTime(w) \/ FinishSend(w)

Spec == Init /\ [][Next]_pacingVars
------------------------------------------------------------------------------
(* Properties. *)

\* The types of the clocks and of every thread's variables.
PacingTypeOK ==
  /\ now \in 0..MaxTime /\ uptime \in 0..MaxTime
  /\ pc \in [Threads -> {"idle", "generate", "sending"}]
  /\ timestamp \in [Threads -> 0..MaxTime]
  /\ last_send_time \in [Threads -> (0..MaxTime) \cup {NotValid}]
  /\ stamps \in [Threads -> Nat]
  /\ stampedAt \in [Threads -> 0..MaxTime]

\* A thread never runs ahead of the rate it computes for itself: however long a
\* send blocks and however the clock is set back, k requests take at least k - 1
\* times intersend_time, and the time lost while blocked is not made up for.
ThreadKeepsRate ==
  \A w \in Threads : (stamps[w] - 1) * Period <= uptime * Cardinality(Threads)

\* Two requests of a thread are stamped at least intersend_time apart.
SendTimesApart ==
  [][\A w \in Threads : (stamps'[w] # stamps[w] /\ stamps[w] > 0)
       => (stampedAt'[w] - stampedAt[w]) * Cardinality(Threads) >= Period
    ]_pacingVars

\* A clock that is set back silences the threads until it has caught up, and no
\* longer: a thread that SendCallback still sends back has waited for less than
\* intersend_time and all that the clock was ever set back.
SilenceBounded ==
  \A w \in Threads :
    (/\ pc[w] = "idle" /\ last_send_time[w] # NotValid
     /\ ~IntersendExceeded(now - last_send_time[w]))
      => (uptime - stampedAt[w]) * Cardinality(Threads)
           < Period + (uptime - now) * Cardinality(Threads)

------------------------------------------------------------------------------
(* What the comments of the code say and the code does not do. *)

Total == SumFunction(stamps)

\* worker_thread.cc:124 "Send requests equally far apart to meet a rps target"
\* and cachebash.cc:63 "ATTEMPTED requests per second": after the first request
\* of every thread the program sends at most one request per period.
RateMeetsTarget ==
  (Total - Cardinality(Threads)) * Period <= uptime
===============================================================================

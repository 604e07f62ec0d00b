------------------------------ MODULE PacingProofs -----------------------------
(***************************************************************************)
(* Proofs about Pacing, for any number of threads, any period and any      *)
(* duration: the send times of a thread are intersend_time apart, so a     *)
(* thread never runs ahead of its rate.                                    *)
(***************************************************************************)
EXTENDS Pacing, FiniteSetTheorems, TLAPS

N == Cardinality(Threads)

\* k requests whose last one is stamped at uptime t kept the rate.
Kept(k, t) == (k - 1) * Period <= t * N

\* The last stamp of w reads t: the clock was ahead of its reading by no more
\* than it is behind now, since it is only ever set back.
Stamped(w, t) ==
  /\ t \in Nat /\ stampedAt[w] \in Nat
  /\ t <= stampedAt[w] /\ stampedAt[w] <= uptime
  /\ stampedAt[w] - t <= uptime - now
  /\ Kept(stamps[w], stampedAt[w])

\* What last_send_time_ says of the requests sent before.
LastInv(w) ==
  /\ last_send_time[w] \in Int
  /\ stamps[w] = 0 <=> last_send_time[w] = NotValid
  /\ stamps[w] > 0 => Stamped(w, last_send_time[w])

\* A thread inside SendRequest.
SendingInv(w) == stamps[w] > 0 /\ Stamped(w, timestamp[w])

ThreadInv(w) ==
  /\ stamps[w] \in Nat
  /\ pc[w] \in {"idle", "generate", "sending"}
  /\ pc[w] \in {"idle", "generate"} => LastInv(w)
  /\ (pc[w] = "generate" /\ stamps[w] > 0)
       => (uptime - stampedAt[w]) * N >= Period
  /\ pc[w] = "sending" => SendingInv(w)

\* The inductive invariant.
PInv ==
  /\ now \in Nat /\ uptime \in Nat /\ now <= uptime
  /\ DOMAIN pc = Threads /\ DOMAIN timestamp = Threads
  /\ DOMAIN last_send_time = Threads /\ DOMAIN stamps = Threads
  /\ DOMAIN stampedAt = Threads
  /\ \A w \in Threads : ThreadInv(w)

------------------------------------------------------------------------------

\* The constants are natural numbers.
LEMMA ConstantTypes == N \in Nat /\ Period \in Nat
  BY PacingAssumption, FS_CardinalityType DEF N

\* Waiting at least the intersend time keeps the rate for one request more.
LEMMA KeptNext ==
  ASSUME NEW k \in Nat, NEW s \in Nat, NEW t \in Nat,
         Kept(k, s), (t - s) * N >= Period
  PROVE  Kept(k + 1, t)
  <1> DEFINE kP == k * Period
             sN == s * N
             tN == t * N
  <1>1. kP \in Int /\ sN \in Int /\ tN \in Int /\ Period \in Int
    BY ConstantTypes
  <1>2. (k - 1) * Period = kP - Period
    BY ConstantTypes
  <1>3. (t - s) * N = tN - sN
    BY ConstantTypes
  <1>4. (k + 1 - 1) * Period = kP
    BY ConstantTypes
  <1> HIDE DEF kP, sN, tN
  <1>5. kP - Period <= sN /\ tN - sN >= Period
    BY <1>2, <1>3 DEF Kept, sN
  <1>6. kP <= tN
    BY <1>1, <1>5
  <1> QED
    BY <1>4, <1>6 DEF Kept, tN

\* Time that passes does not break the rate.
LEMMA KeptLater ==
  ASSUME NEW k \in Nat, NEW s \in Nat, NEW t \in Nat, s <= t, Kept(k, s)
  PROVE  Kept(k, t)
  <1>1. N \in Nat /\ Period \in Nat
    BY ConstantTypes
  <1> DEFINE d == t - s
  <1>2. d \in Nat /\ t = s + d
    OBVIOUS
  <1> HIDE DEF d
  <1>3. t * N = s * N + d * N
    BY <1>1, <1>2
  <1>4. d * N \in Nat
    BY <1>1, <1>2
  <1>5. s * N \in Int /\ (k - 1) * Period \in Int
    BY <1>1
  <1> QED
    BY <1>3, <1>4, <1>5 DEF Kept

\* The first request is always on time.
LEMMA KeptFirst == ASSUME NEW t \in Nat PROVE Kept(1, t)
  <1>1. t * N \in Nat /\ (1 - 1) * Period = 0
    BY ConstantTypes
  <1> QED
    BY <1>1 DEF Kept

\* More time is not fewer ticks, also when counted for all threads.
LEMMA MoreTime ==
  ASSUME NEW s \in Int, NEW t \in Int, s <= t PROVE s * N <= t * N
  <1>1. N \in Nat
    BY ConstantTypes
  <1> DEFINE d == t - s
  <1>2. d \in Nat /\ t = s + d
    OBVIOUS
  <1> HIDE DEF d
  <1>3. t * N = s * N + d * N
    BY <1>1, <1>2
  <1>4. d * N \in Nat /\ s * N \in Int
    BY <1>1, <1>2
  <1> QED
    BY <1>3, <1>4

LEMMA InitPInv == Init => PInv
  BY DEF Init, PInv, ThreadInv, LastInv, NotValid

\* A step of thread v leaves the invariant of another thread alone.
LEMMA OtherThread ==
  ASSUME PInv, NEW v \in Threads, NEW w \in Threads, w # v,
         SendCallback(v) \/ SetSendTime(v) \/ FinishSend(v)
  PROVE  ThreadInv(w)'
  <1>1. /\ ThreadInv(w) /\ now' = now /\ uptime' = uptime
        /\ pc'[w] = pc[w] /\ timestamp'[w] = timestamp[w]
        /\ last_send_time'[w] = last_send_time[w]
        /\ stamps'[w] = stamps[w] /\ stampedAt'[w] = stampedAt[w]
    BY DEF PInv, SendCallback, SetSendTime, FinishSend, clockVars
  <1> QED
    BY <1>1 DEF ThreadInv, LastInv, SendingInv, Stamped, Kept

LEMMA StepPInv == PInv /\ [Next]_pacingVars => PInv'
  <1> SUFFICES ASSUME PInv, [Next]_pacingVars PROVE PInv'
    OBVIOUS
  <1>0. /\ now \in Nat /\ uptime \in Nat /\ now <= uptime
        /\ Period \in Nat /\ N \in Nat
    BY ConstantTypes DEF PInv
  <1>1. CASE Tick
    <2>1. /\ now' = now + 1 /\ uptime' = uptime + 1
          /\ pc' = pc /\ timestamp' = timestamp
          /\ last_send_time' = last_send_time
          /\ stamps' = stamps /\ stampedAt' = stampedAt
      BY <1>1 DEF Tick, threadVars
    <2>2. ASSUME NEW w \in Threads PROVE ThreadInv(w)'
      <3>1. ThreadInv(w)
        BY DEF PInv
      <3>2. ASSUME NEW t, Stamped(w, t) PROVE Stamped(w, t)'
        BY <1>0, <2>1, <3>2 DEF Stamped, Kept
      <3>3. ASSUME pc[w] = "generate", stamps[w] > 0
            PROVE  (uptime' - stampedAt'[w]) * N >= Period
        <4>1. /\ (uptime - stampedAt[w]) * N >= Period
              /\ stampedAt[w] \in Int
          BY <3>1, <3>3 DEF ThreadInv, LastInv, Stamped
        <4> DEFINE e == uptime - stampedAt[w]
                   f == uptime' - stampedAt'[w]
        <4>2. e \in Int /\ f \in Int /\ e <= f
          BY <1>0, <2>1, <4>1
        <4> HIDE DEF e, f
        <4>3. e * N <= f * N /\ e * N \in Int /\ f * N \in Int
          BY <1>0, <4>2, MoreTime
        <4>4. e * N >= Period
          BY <4>1 DEF e
        <4>5. f * N >= Period
          BY <1>0, <4>3, <4>4
        <4> QED
          BY <4>5 DEF f
      <3> QED
        BY <2>1, <3>1, <3>2, <3>3 DEF ThreadInv, LastInv, SendingInv
    <2> QED
      BY <1>0, <2>1, <2>2 DEF PInv
  <1>2. CASE ClockSetBack
    <2>1. /\ now' \in Nat /\ now' <= now /\ uptime' = uptime
          /\ pc' = pc /\ timestamp' = timestamp
          /\ last_send_time' = last_send_time
          /\ stamps' = stamps /\ stampedAt' = stampedAt
      BY <1>0, <1>2 DEF ClockSetBack, threadVars
    <2>2. ASSUME NEW w \in Threads PROVE ThreadInv(w)'
      <3>1. ThreadInv(w)
        BY DEF PInv
      <3>2. ASSUME NEW t, Stamped(w, t) PROVE Stamped(w, t)'
        BY <1>0, <2>1, <3>2 DEF Stamped, Kept
      <3> QED
        BY <2>1, <3>1, <3>2 DEF ThreadInv, LastInv, SendingInv
    <2> QED
      BY <1>0, <2>1, <2>2 DEF PInv
  <1>3. ASSUME NEW v \in Threads, SendCallback(v) PROVE PInv'
    <2>1. /\ now' = now /\ uptime' = uptime /\ timestamp' = timestamp
          /\ last_send_time' = last_send_time
          /\ stamps' = stamps /\ stampedAt' = stampedAt
          /\ pc[v] = "idle" /\ pc' = [pc EXCEPT ![v] = "generate"]
          /\ last_send_time[v] # NotValid
               => IntersendExceeded(now - last_send_time[v])
      BY <1>3 DEF SendCallback, clockVars
    <2>2. ThreadInv(v)'
      <3>1. ThreadInv(v) /\ pc'[v] = "generate" /\ LastInv(v)
        BY <2>1 DEF PInv, ThreadInv
      <3>2. ASSUME stamps[v] > 0
            PROVE  (uptime - stampedAt[v]) * N >= Period
        <4> DEFINE e == now - last_send_time[v]
                   f == uptime - stampedAt[v]
        <4>1. Stamped(v, last_send_time[v]) /\ last_send_time[v] # NotValid
          BY <3>1, <3>2 DEF LastInv, Stamped, NotValid
        <4>2. e \in Int /\ f \in Int /\ e <= f
          BY <1>0, <4>1 DEF Stamped
        <4>3. ~(e * N < Period)
          BY <2>1, <4>1 DEF IntersendExceeded, N
        <4> HIDE DEF e, f
        <4>4. e * N <= f * N /\ e * N \in Int /\ f * N \in Int
          BY <1>0, <4>2, MoreTime
        <4>5. f * N >= Period
          BY <1>0, <4>3, <4>4
        <4> QED
          BY <4>5 DEF f
      <3> QED
        BY <2>1, <3>1, <3>2 DEF ThreadInv, LastInv, Stamped, Kept
    <2> QED
      BY <1>0, <1>3, <2>1, <2>2, OtherThread DEF PInv
  <1>4. ASSUME NEW v \in Threads, SetSendTime(v) PROVE PInv'
    <2>1. /\ now' = now /\ uptime' = uptime
          /\ last_send_time' = last_send_time
          /\ timestamp' = [timestamp EXCEPT ![v] = now]
          /\ stamps' = [stamps EXCEPT ![v] = @ + 1]
          /\ stampedAt' = [stampedAt EXCEPT ![v] = uptime]
          /\ pc[v] = "generate" /\ pc' = [pc EXCEPT ![v] = "sending"]
      BY <1>4 DEF SetSendTime, clockVars
    <2>2. ThreadInv(v)'
      <3>1. /\ pc'[v] = "sending" /\ timestamp'[v] = now
            /\ stamps'[v] = stamps[v] + 1 /\ stampedAt'[v] = uptime
        BY <2>1 DEF PInv
      <3>2. stamps[v] \in Nat /\ LastInv(v) /\ ThreadInv(v)
        BY <2>1 DEF PInv, ThreadInv
      <3>3. Kept(stamps[v] + 1, uptime)
        <4>1. CASE stamps[v] = 0
          BY <1>0, <4>1, KeptFirst
        <4>2. CASE stamps[v] > 0
          <5>1. /\ stampedAt[v] \in Nat
                /\ Kept(stamps[v], stampedAt[v])
                /\ (uptime - stampedAt[v]) * N >= Period
            BY <2>1, <3>2, <4>2 DEF ThreadInv, LastInv, Stamped
          <5> QED
            BY <1>0, <3>2, <5>1, KeptNext
        <4> QED
          BY <3>2, <4>1, <4>2
      <3>4. SendingInv(v)'
        BY <1>0, <2>1, <3>1, <3>2, <3>3 DEF SendingInv, Stamped, Kept
      <3> QED
        BY <3>1, <3>2, <3>4 DEF ThreadInv
    <2> QED
      BY <1>0, <1>4, <2>1, <2>2, OtherThread DEF PInv
  <1>5. ASSUME NEW v \in Threads, FinishSend(v) PROVE PInv'
    <2>1. /\ now' = now /\ uptime' = uptime /\ timestamp' = timestamp
          /\ stamps' = stamps /\ stampedAt' = stampedAt
          /\ last_send_time' = [last_send_time EXCEPT ![v] = timestamp[v]]
          /\ pc[v] = "sending" /\ pc' = [pc EXCEPT ![v] = "idle"]
      BY <1>5 DEF FinishSend, clockVars
    <2>2. ThreadInv(v)'
      <3>1. pc'[v] = "idle" /\ last_send_time'[v] = timestamp[v]
        BY <2>1 DEF PInv
      <3>2. stamps[v] \in Nat /\ SendingInv(v)
        BY <2>1 DEF PInv, ThreadInv
      <3>3. LastInv(v)'
        BY <1>0, <2>1, <3>1, <3>2
           DEF LastInv, SendingInv, Stamped, Kept, NotValid
      <3> QED
        BY <2>1, <3>1, <3>2, <3>3 DEF ThreadInv
    <2> QED
      BY <1>0, <1>5, <2>1, <2>2, OtherThread DEF PInv
  <1>6. CASE UNCHANGED pacingVars
    BY <1>6 DEF pacingVars, clockVars, threadVars, PInv, ThreadInv, LastInv,
                SendingInv, Stamped, Kept
  <1> QED
    BY <1>1, <1>2, <1>3, <1>4, <1>5, <1>6 DEF Next

\* The invariant holds in every reachable state.
THEOREM PacingInvariance == Spec => []PInv
  BY InitPInv, StepPInv, PTL DEF Spec

\* Whatever the number of threads, the rate, the delays inside SendRequest and
\* the times the clock is set back to, k requests of one thread take at least
\* k - 1 intersend times.
THEOREM ThreadKeepsRateHolds == Spec => []ThreadKeepsRate
  <1>1. PInv => ThreadKeepsRate
    <2> SUFFICES ASSUME PInv, NEW w \in Threads PROVE Kept(stamps[w], uptime)
      BY DEF ThreadKeepsRate, Kept, N
    <2>1. uptime \in Nat /\ stamps[w] \in Nat /\ ThreadInv(w)
      BY DEF PInv, ThreadInv
    <2>2. CASE stamps[w] = 0
      <3>1. (0 - 1) * Period <= 0 /\ 0 <= uptime * N
            /\ uptime * N \in Int /\ (0 - 1) * Period \in Int
        BY <2>1, ConstantTypes
      <3> QED
        BY <2>2, <3>1 DEF Kept
    <2>3. CASE stamps[w] > 0
      BY <2>1, <2>3, KeptLater DEF ThreadInv, LastInv, SendingInv, Stamped
    <2> QED
      BY <2>1, <2>2, <2>3
  <1> QED
    BY <1>1, PacingInvariance, PTL

\* Two requests of one thread are stamped at least one intersend time apart, in
\* time that really passed.
THEOREM SendTimesApartHolds == Spec => SendTimesApart
  <1>1. PInv /\ [Next]_pacingVars
          => [\A w \in Threads : (stamps'[w] # stamps[w] /\ stamps[w] > 0)
                => (stampedAt'[w] - stampedAt[w]) * Cardinality(Threads) >= Period
             ]_pacingVars
    <2> SUFFICES ASSUME PInv, Next, NEW w \in Threads,
                        stamps'[w] # stamps[w], stamps[w] > 0
                 PROVE  (stampedAt'[w] - stampedAt[w]) * N >= Period
      BY DEF N
    <2>1. SetSendTime(w)
      BY DEF Next, Tick, ClockSetBack, SendCallback, SetSendTime, FinishSend,
             PInv, threadVars
    <2>2. stampedAt'[w] = uptime /\ pc[w] = "generate" /\ ThreadInv(w)
      BY <2>1 DEF SetSendTime, PInv
    <2> QED
      BY <2>2 DEF ThreadInv
  <1> QED
    BY <1>1, PacingInvariance, PTL DEF Spec, SendTimesApart

\* A clock set back silences a thread for no longer than it takes to catch up.
THEOREM SilenceBoundedHolds == Spec => []SilenceBounded
  <1>1. PInv => SilenceBounded
    <2> SUFFICES ASSUME PInv, NEW w \in Threads, pc[w] = "idle",
                        last_send_time[w] # NotValid,
                        ~IntersendExceeded(now - last_send_time[w])
                 PROVE  (uptime - stampedAt[w]) * N < Period + (uptime - now) * N
      BY DEF SilenceBounded, N
    <2> DEFINE waited == uptime - stampedAt[w]
               back   == uptime - now
               seen   == now - last_send_time[w]
    <2>1. /\ now \in Nat /\ uptime \in Nat /\ N \in Nat /\ Period \in Nat
          /\ ThreadInv(w)
      BY ConstantTypes DEF PInv
    <2>2. Stamped(w, last_send_time[w])
      BY <2>1 DEF ThreadInv, LastInv
    <2>3. seen * N < Period
      BY DEF IntersendExceeded, N
    <2>4. /\ waited \in Int /\ back \in Int /\ seen \in Int
          /\ waited - back <= seen
      BY <2>1, <2>2 DEF Stamped
    <2> HIDE DEF waited, back, seen
    <2>5. (waited - back) * N <= seen * N /\ waited - back \in Int
      BY <2>4, MoreTime
    <2>6. /\ (waited - back) * N = waited * N - back * N
          /\ waited * N \in Int /\ back * N \in Int /\ seen * N \in Int
      BY <2>1, <2>4
    <2>7. waited * N < Period + back * N
      BY <2>1, <2>3, <2>5, <2>6
    <2> QED
      BY <2>7 DEF waited, back
  <1> QED
    BY <1>1, PacingInvariance, PTL

\* The clocks stay within the bound on time, and with them every time that is read.
TypeInv == PacingTypeOK /\ now <= uptime

LEMMA StepTypeInv == TypeInv /\ [Next]_pacingVars => TypeInv'
  <1> SUFFICES ASSUME TypeInv, [Next]_pacingVars PROVE TypeInv'
    OBVIOUS
  <1> USE DEF TypeInv, PacingTypeOK, threadVars, clockVars
  <1>0. MaxTime \in Nat
    BY PacingAssumption
  <1>1. CASE Tick
    BY <1>0, <1>1 DEF Tick
  <1>2. CASE ClockSetBack
    BY <1>0, <1>2 DEF ClockSetBack
  <1>3. ASSUME NEW w \in Threads, SendCallback(w)
        PROVE  TypeInv'
    BY <1>3 DEF SendCallback
  <1>4. ASSUME NEW w \in Threads, SetSendTime(w)
        PROVE  TypeInv'
    BY <1>0, <1>4 DEF SetSendTime
  <1>5. ASSUME NEW w \in Threads, FinishSend(w)
        PROVE  TypeInv'
    BY <1>5 DEF FinishSend
  <1>6. CASE UNCHANGED pacingVars
    BY <1>6 DEF pacingVars
  <1> QED
    BY <1>1, <1>2, <1>3, <1>4, <1>5, <1>6 DEF Next

\* Every variable of the threads and both clocks keep their types.
THEOREM PacingTypeCorrect == Spec => []PacingTypeOK
  <1>1. Init => TypeInv
    BY PacingAssumption DEF Init, TypeInv, PacingTypeOK, NotValid
  <1>2. TypeInv => PacingTypeOK
    BY DEF TypeInv
  <1> QED
    BY <1>1, <1>2, StepTypeInv, PTL DEF Spec
===============================================================================

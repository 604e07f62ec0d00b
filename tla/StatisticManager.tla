---------------------------- MODULE StatisticManager ---------------------------
(***************************************************************************)
(* StatisticManager::StatisticsLoop on one thread against the worker       *)
(* threads' AddSample on theirs: the loop merges every worker's            *)
(* StatisticsCollection into a copy of the base collection and resets it,  *)
(* with no lock between them and the workers.                              *)
(*                                                                         *)
(* The statistics of a collection do not touch each other, so one stands   *)
(* for all: work on another is a pause in the work on this one.  Of it     *)
(* four words are kept, the count s0_ and n_samples_ of each histogram; a  *)
(* worker adds 1 to a word by a load and a store.  The sums and the bins,  *)
(* merged and reset in the same way, are more words of the same kind.      *)
(*                                                                         *)
(* The model is of this class and its contract: it starts where            *)
(* StatisticsLoop is called, with the workers created and running.         *)
(***************************************************************************)
EXTENDS Integers, Sequences, FiniteSets, Functions

CONSTANTS
  NWorkers,    \* n_worker_threads_
  Interval,    \* stat_print_interval_ in seconds, as sleep() takes it
  Runtime,     \* runtime_ in seconds; no limit unless it is above 0
  MaxSamples   \* bound: samples the workers add

ASSUME ManagerAssumption ==
  /\ NWorkers \in Nat \ {0}
  /\ Interval \in Nat
  /\ Runtime \in Int /\ Runtime >= -1
  /\ MaxSamples \in Nat

VARIABLES
  pc,        \* where StatisticsLoop is
  worker,    \* the worker thread the iterator is at
  word,      \* position of the word to be merged or reset next
  copy,      \* base_collection_copy
  elapsed,   \* seconds since start_time, up to one more than Runtime
  memory,    \* per worker: its StatisticsCollection
  at,        \* per worker: position of the word it adds to next
  register,  \* per worker: the value loaded from that word
  started,   \* history: samples the workers have begun to add
  owed,      \* history, per word: additions less what was printed
  raced,     \* history: words a worker's addition and a reset overlapped at
  subsecond  \* history: no sample had a value below 0 or of a second or more

managerVars == <<pc, worker, word, copy, elapsed>>
workerVars  == <<at, register, started>>
history == <<owed, raced, subsecond>>
allVars == <<managerVars, workerVars, memory, history>>

Workers == 1..NWorkers
NotLoaded == -1

\* The words of a statistic, in the order the merge and the reset both go through
\* them.
WordOrder == <<"s0", "microsecond", "millisecond", "second">>
Words     == Range(WordOrder)

Empty == [x \in Words |-> 0]

Init ==
  /\ pc = "sleep" /\ worker = 1 /\ word = 1
  /\ copy = Empty /\ elapsed = 0
  /\ memory = [w \in Workers |-> Empty]
  /\ at = [w \in Workers |-> 1]
  /\ register = [w \in Workers |-> NotLoaded]
  /\ started = 0
  /\ owed = Empty /\ raced = {} /\ subsecond = TRUE

------------------------------------------------------------------------------
(* A worker thread: StatisticsCollection::AddSample, one word at a time.    *)

Position(x) == CHOOSE k \in DOMAIN WordOrder : WordOrder[k] = x

\* Word x of worker w has been merged and is still to be reset.
InWindow(w, x) ==
  /\ w = worker
  /\ \/ pc = "merge" /\ Position(x) < word
     \/ pc = "reset" /\ Position(x) >= word

Load(w) ==
  /\ pc # "ended" /\ register[w] = NotLoaded
  /\ at[w] = 1 => started < MaxSamples
  /\ started' = IF at[w] = 1 THEN started + 1 ELSE started
  /\ register' = [register EXCEPT ![w] = memory[w][WordOrder[at[w]]]]
  /\ UNCHANGED <<managerVars, memory, at, history>>

\* Where AddSample goes from s0_: to the histogram of the value, or back for the
\* next sample if the value is negative and has none.
After(k) == IF k = 1 THEN DOMAIN WordOrder ELSE {1}

Store(w) ==
  /\ pc # "ended" /\ register[w] # NotLoaded
  /\ LET x == WordOrder[at[w]] IN
       /\ memory' = [memory EXCEPT ![w][x] = register[w] + 1]
       /\ owed' = [owed EXCEPT ![x] = @ + 1]
       /\ raced' = IF InWindow(w, x) THEN raced \cup {x} ELSE raced
  /\ register' = [register EXCEPT ![w] = NotLoaded]
  /\ \E k \in After(at[w]) :
       /\ at' = [at EXCEPT ![w] = k]
       /\ subsecond' = (subsecond /\ (at[w] = 1 =>
                          WordOrder[k] \in {"microsecond", "millisecond"}))
  /\ UNCHANGED <<managerVars, started>>

------------------------------------------------------------------------------
(* StatisticsLoop. *)

\* Mutant of NewCopy: the copy of the last interval is used again.
NewCopyReused(last) == last

\* base_collection_->Copy(): nothing is ever added to the base collection.
NewCopy(last) == Empty

\* sleep() takes at least the interval; how much longer the round takes is the
\* scheduler's.
StartInterval ==
  /\ pc = "sleep"
  /\ \E late \in {0, 1} :
       elapsed' = IF elapsed + Interval + late > Runtime
                  THEN Runtime + 1 ELSE elapsed + Interval + late
  /\ copy' = NewCopy(copy)
  /\ pc' = "merge" /\ worker' = 1 /\ word' = 1
  /\ UNCHANGED <<memory, workerVars, history>>

\* What MergeWithStatistic adds to a word: the samples of a second and more are
\* not read, those of a microsecond are added a second time.
MergedFrom(x) == IF x = "second" THEN "microsecond" ELSE x

\* MergeWithStatisticsCollection, word by word.
MergeWord ==
  /\ pc = "merge"
  /\ LET x == WordOrder[word] IN
       copy' = [copy EXCEPT ![x] = @ + memory[worker][MergedFrom(x)]]
  /\ IF word < Len(WordOrder)
     THEN word' = word + 1 /\ UNCHANGED pc
     ELSE word' = 1 /\ pc' = "reset"
  /\ UNCHANGED <<worker, elapsed, memory, workerVars, history>>

\* Mutant of Cleared: the histograms keep their samples.
ClearedCount(x, n) == IF x = "s0" THEN 0 ELSE n

\* What Statistic::Reset and Histogram::Reset leave in a word.
Cleared(x, n) == 0

\* Mutant of IsLast: one iteration past the end of worker_threads.
IsLastLate(w) == w > NWorkers

IsLast(w) == w = NWorkers

\* ResetNonCummulativeStatistics, word by word; no statistic the program
\* registers is cummulative.
ResetWord ==
  /\ pc = "reset"
  /\ LET x == WordOrder[word] IN
       /\ memory' = [memory EXCEPT ![worker][x] = Cleared(x, @)]
       /\ raced' = IF register[worker] # NotLoaded /\ WordOrder[at[worker]] = x
                   THEN raced \cup {x} ELSE raced
  /\ IF word < Len(WordOrder)
     THEN word' = word + 1 /\ UNCHANGED <<pc, worker>>
     ELSE /\ word' = 1
          /\ IF IsLast(worker) THEN pc' = "print" /\ UNCHANGED worker
                               ELSE pc' = "merge" /\ worker' = worker + 1
  /\ UNCHANGED <<copy, elapsed, workerVars, owed, subsecond>>

RuntimeOver(seconds) == Runtime > 0 /\ seconds > Runtime

\* PrintStatInterval, and the break when the load test has run long enough.
PrintStatInterval ==
  /\ pc = "print"
  /\ owed' = [x \in Words |-> owed[x] - copy[x]]
  /\ pc' = IF RuntimeOver(elapsed) THEN "ended" ELSE "sleep"
  /\ UNCHANGED <<worker, word, copy, elapsed, memory, workerVars, raced, subsecond>>

------------------------------------------------------------------------------

StatisticsLoop == StartInterval \/ MergeWord \/ ResetWord \/ PrintStatInterval

\* main returns, which ends the process and its workers.
Ended == pc = "ended" /\ UNCHANGED allVars

Next ==
  \/ StatisticsLoop
  \/ \E w \in Workers : Load(w) \/ Store(w)
  \/ Ended

Spec == Init /\ [][Next]_allVars
------------------------------------------------------------------------------
(* Properties. *)

\* The types of the loop's, the workers' and the history variables.
ManagerTypeOK ==
  /\ pc \in {"sleep", "merge", "reset", "print", "ended"}
  /\ worker \in Workers /\ word \in DOMAIN WordOrder
  /\ copy \in [Words -> Nat] /\ owed \in [Words -> Int]
  /\ elapsed \in 0..(Runtime + 1)
  /\ memory \in [Workers -> [Words -> Nat]]
  /\ at \in [Workers -> DOMAIN WordOrder]
  /\ register \in [Workers -> Nat \cup {NotLoaded}]
  /\ started \in 0..MaxSamples
  /\ raced \subseteq Words
  /\ subsecond \in BOOLEAN

\* The words that are merged with their own kind.
MergedWords == {x \in Words : MergedFrom(x) = x}

\* In a copy that is not printed yet.
Pending(x) == IF pc \in {"merge", "reset", "print"} THEN copy[x] ELSE 0

\* Held by the workers and in no copy yet.
Unmerged(x) ==
  SumFunction([w \in Workers |-> IF InWindow(w, x) THEN 0 ELSE memory[w][x]])

\* In the count and in each histogram below a second a sample is printed in exactly
\* one interval or still to be printed: one is lost or printed twice only if a
\* worker stored to the word between its merge and its reset, or had it loaded when
\* it was reset.  Of the samples of a second and more this is not so.
CountsKept ==
  \A x \in MergedWords \ raced : Pending(x) + Unmerged(x) = owed[x]

\* As long as all samples are below a second, the count from which GetQuantile
\* derives a rank and the samples it looks for that rank in are torn by at most one
\* sample of each worker, the one it was in the middle of adding, unless an addition
\* and a reset overlapped.
CountMatchesHistogram ==
  (pc = "print" /\ subsecond /\ raced \cap MergedWords = {}) =>
    copy["s0"] - (copy["microsecond"] + copy["millisecond"])
      \in (-NWorkers)..NWorkers
===============================================================================

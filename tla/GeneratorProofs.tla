---------------------------- MODULE GeneratorProofs ----------------------------
(***************************************************************************)
(* Proofs about what the Generator works with: the size/key distribution   *)
(* it draws entries from (SizeKeyDistribution), and the requests it builds *)
(* from them with the responses they get (Exchange).                       *)
(*                                                                         *)
(* For every set of files: with an entry on every line the binary search   *)
(* of GetRandomEntry stays in the array unless the last cdf is below the   *)
(* target, on a proper file it returns an entry that covers the target,    *)
(* and every turn less than halves what is left to search.                 *)
(*                                                                         *)
(* For keys, values and responses of any size an int can hold: what goes   *)
(* through the header's bytes comes out unchanged, or the process ends     *)
(* before it acts on it.                                                   *)
(***************************************************************************)
EXTENDS SizeKeyDistribution, Exchange, CollectionLemmas, TLAPS

------------------------------------------------------------------------------
(* The size/key distribution. *)

\* While a file of entries is loaded the passes advance line by line.
LoadInv ==
  /\ line \in Nat /\ line <= Len(file)
  /\ pc = "count" => n_entries = line /\ i = 0
  /\ pc = "read" => n_entries = Len(file) /\ i = line
  /\ pc \notin {"count", "read"} => n_entries = Len(file)

\* The slots filled so far.
Filled == IF pc = "count" THEN 0 ELSE IF pc = "read" THEN i ELSE n_entries

EntriesInv ==
  /\ pc # "count" => DOMAIN entries = 0..(n_entries - 1)
  /\ \A k \in 0..(Filled - 1) :
       entries[k] = [line |-> k + 1, cdf |-> file[k + 1]]

\* Where a search in a file of entries is: once it is past the last entry it ends.
SearchInv ==
  pc = "search" =>
    /\ target \in 0..(Scale - 1)
    /\ top = n_entries - 1
    /\ bottom \in 0..top
    /\ \/ current \in bottom..top
       \/ bottom = top /\ current = top + 1 /\ file[Len(file)] < target
    /\ bottom = 0 \/ entries[bottom].cdf < target

ResultInv ==
  /\ (Proper /\ pc = "ready" /\ result # Garbage) => result.cdf >= target
  /\ pc \in {"count", "read", "sequence"} => result = Garbage

WellFormedInv ==
  /\ LoadInv /\ EntriesInv /\ SearchInv /\ ResultInv
  /\ pc = "crashed" => file[Len(file)] < target
  /\ pc = "sequence" => i \in Nat

\* The inductive invariant.
DInv ==
  /\ file \in Files
  /\ bottom \in Int /\ top \in Int /\ current \in Int /\ n_entries \in Nat
  /\ WellFormed => WellFormedInv

------------------------------------------------------------------------------

\* In a file of entries every slot of the array points to an entry.
LEMMA WellFormedValid ==
  ASSUME DInv, WellFormed, pc \notin {"count", "read"}, NEW k \in 0..(n_entries - 1)
  PROVE  Valid(k) /\ entries[k] = [line |-> k + 1, cdf |-> file[k + 1]]
  BY DEF DInv, WellFormedInv, LoadInv, EntriesInv, Filled, Valid, Garbage

\* What is known of a file and its lines.
LEMMA FileTypes ==
  ASSUME file \in Files
  PROVE  /\ Len(file) \in Nat
         /\ WellFormed => /\ Len(file) > 0
                          /\ \A m \in 1..Len(file) : file[m] \in 0..Scale
  BY DistributionAssumption DEF WellFormed

\* The middle is an integer, and for indices from 0 it lies between them.
LEMMA MiddleBounds ==
  ASSUME NEW b \in Int, NEW t \in Int
  PROVE  /\ FirstMiddle(b, t) \in Int
         /\ NextMiddle(b, t) \in Int
         /\ (b \in Nat /\ t \in Nat /\ b <= t) => FirstMiddle(b, t) \in b..t
         /\ (b \in Nat /\ t \in Nat /\ b < t) => NextMiddle(b, t) \in (b + 1)..t
         /\ 2 * (t - NextMiddle(b, t)) < t - b
  BY DEF FirstMiddle, NextMiddle

\* Init establishes the invariant.
LEMMA InitDInv == Init => DInv
  <1> SUFFICES ASSUME Init PROVE DInv
    OBVIOUS
  <1>1. Len(file) \in Nat
    BY FileTypes DEF Init
  <1> QED
    BY <1>1 DEF Init, DInv, WellFormedInv, LoadInv, EntriesInv, Filled, SearchInv,
                ResultInv

\* Every step of the loader, the warmup and the search preserves it.
LEMMA StepDInv == DInv /\ [Next]_dvars => DInv'
  <1> SUFFICES ASSUME DInv, [Next]_dvars PROVE DInv'
    OBVIOUS
  <1> USE DEF DInv, WellFormedInv
  <1>0. /\ Len(file) \in Nat
        /\ WellFormed => /\ Len(file) > 0
                         /\ \A m \in 1..Len(file) : file[m] \in 0..Scale
        /\ Proper => WellFormed /\ file[Len(file)] = Scale
    BY FileTypes DEF Proper
  <1>s. Scale \in Nat \ {0}
    BY DistributionAssumption
  <1>1. CASE CountLine
    BY <1>1, <1>0 DEF CountLine, LoadInv, EntriesInv, Filled, SearchInv,
      ResultInv, Proper, WellFormed, searchVars, warmupVars
  <1>2. CASE Allocate
    BY <1>2, <1>0 DEF Allocate, LoadInv, EntriesInv, Filled, SearchInv,
      ResultInv, Proper, WellFormed, searchVars, warmupVars
  <1>3. CASE ReadLine
    <2>1. SUFFICES ASSUME WellFormed PROVE WellFormedInv'
      BY <1>3 DEF ReadLine, WellFormed, searchVars
    <2>2. /\ file[line + 1] # Blank
          /\ entries' = [entries EXCEPT ![i] = [line |-> line + 1,
                                                cdf |-> file[line + 1]]]
          /\ i' = i + 1 /\ line' = line + 1
      BY <1>0, <1>3, <2>1 DEF ReadLine, WellFormed, LoadInv
    <2>3. LoadInv'
      BY <1>0, <1>3, <2>1, <2>2 DEF ReadLine, LoadInv
    <2>4. EntriesInv'
      BY <1>0, <1>3, <2>1, <2>2 DEF ReadLine, LoadInv, EntriesInv, Filled
    <2> QED
      BY <1>3, <2>1, <2>3, <2>4 DEF ReadLine, SearchInv, ResultInv, searchVars, Proper,
                                           WellFormed
  <1>4. CASE LoadDone
    BY <1>4, <1>0 DEF LoadDone, LoadInv, EntriesInv, Filled, SearchInv,
      ResultInv, Proper, WellFormed, searchVars, warmupVars
  <1>5. CASE PushEntry
    BY <1>5, <1>0 DEF PushEntry, LoadInv, EntriesInv, Filled, SearchInv,
      ResultInv, Proper, WellFormed, searchVars, warmupVars
  <1>6. CASE SequenceDone
    BY <1>6, <1>0 DEF SequenceDone, LoadInv, EntriesInv, Filled, SearchInv,
      ResultInv, Proper, WellFormed, searchVars, warmupVars, loadVars
  <1>7. CASE WarmupNext
    BY <1>7, <1>0 DEF WarmupNext, LoadInv, EntriesInv, Filled, SearchInv,
      ResultInv, Proper, WellFormed, searchVars, warmupVars, loadVars
  <1>8. CASE GetRandomEntry
    <2>1. /\ file' = file /\ entries' = entries /\ n_entries' = n_entries
          /\ line' = line /\ pc = "ready" /\ pc' = "search"
          /\ bottom' = 0 /\ top' = n_entries - 1
          /\ current' = FirstMiddle(0, n_entries - 1)
          /\ target' \in 0..(Scale - 1)
      BY <1>8 DEF GetRandomEntry, loadVars
    <2>2. bottom' \in Int /\ top' \in Int /\ current' \in Int
      BY <2>1, MiddleBounds
    <2>3. ASSUME WellFormed PROVE SearchInv'
      <3>1. n_entries - 1 \in Nat
        BY <1>0, <2>1, <2>3 DEF LoadInv
      <3>2. FirstMiddle(0, n_entries - 1) \in 0..(n_entries - 1)
        BY <3>1, MiddleBounds
      <3> QED
        BY <2>1, <3>1, <3>2 DEF SearchInv
    <2> QED
      BY <2>1, <2>2, <2>3 DEF LoadInv, EntriesInv, Filled, ResultInv, Proper,
        WellFormed
  <1>9. CASE SearchStep
    <2>1. /\ file' = file /\ entries' = entries /\ n_entries' = n_entries
          /\ line' = line /\ pc = "search" /\ pc' = "search"
          /\ target' = target /\ top' = top /\ top # bottom
          /\ bottom' = current /\ current' = NextMiddle(current, top)
          /\ TRUE \in BelowTarget
      BY <1>9 DEF SearchStep, loadVars
    <2>2. bottom' \in Int /\ top' \in Int /\ current' \in Int
      BY <2>1, MiddleBounds
    <2>3. ASSUME WellFormed PROVE SearchInv'
      <3>1. /\ top = n_entries - 1 /\ n_entries = Len(file)
            /\ bottom \in 0..top /\ current \in bottom..top
            /\ target \in 0..(Scale - 1)
        BY <1>0, <2>1, <2>3 DEF SearchInv, LoadInv
      <3>2. current \in 0..(n_entries - 1)
        BY <3>1
      <3>3. /\ Valid(current)
            /\ entries[current] = [line |-> current + 1, cdf |-> file[current + 1]]
        BY <2>1, <2>3, <3>2, WellFormedValid
      <3>4. entries[current].cdf < target
        BY <2>1, <3>3 DEF BelowTarget
      <3>5. CASE current = top
        <4>1. current + 1 = Len(file)
          BY <1>0, <3>1, <3>5
        <4>2. file[Len(file)] < target
          BY <3>3, <3>4, <4>1
        <4>3. NextMiddle(current, top) = top + 1
          BY <3>1, <3>5 DEF NextMiddle, FirstMiddle
        <4> QED
          BY <2>1, <3>1, <3>4, <3>5, <4>2, <4>3 DEF SearchInv
      <3>6. CASE current # top
        <4>1. NextMiddle(current, top) \in (current + 1)..top
          <5>1. /\ current \in Int /\ top \in Int
                /\ current \in Nat /\ top \in Nat /\ current < top
            <6> HIDE DEF DInv, WellFormedInv
            <6> QED
              BY <1>0, <3>1, <3>6
          <5> QED
            BY <5>1, MiddleBounds
        <4>2. /\ bottom' \in 0..top' /\ current' \in bottom'..top'
              /\ target' \in 0..(Scale - 1) /\ top' = n_entries' - 1
          BY <2>1, <3>1, <3>2, <3>6, <4>1
        <4> QED
          BY <2>1, <3>4, <4>2 DEF SearchInv
      <3> QED
        BY <3>5, <3>6
    <2> QED
      BY <2>1, <2>2, <2>3 DEF LoadInv, EntriesInv, Filled, ResultInv, Proper,
        WellFormed
  <1>10. CASE SearchEnd
    <2>1. /\ file' = file /\ entries' = entries /\ n_entries' = n_entries
          /\ line' = line /\ pc = "search" /\ pc' = "ready"
          /\ target' = target /\ top' = top /\ bottom' = bottom
          /\ current' = current /\ result' = EntryAt(current)
          /\ top = bottom \/ FALSE \in BelowTarget
      BY <1>10 DEF SearchEnd, loadVars
    <2>2. ASSUME Proper PROVE result'.cdf >= target'
      <3>1. /\ top = n_entries - 1 /\ n_entries = Len(file)
            /\ bottom \in 0..top /\ current \in bottom..top
            /\ target \in 0..(Scale - 1)
        BY <1>0, <1>s, <2>1, <2>2 DEF SearchInv, LoadInv
      <3>2. current \in 0..(n_entries - 1)
        BY <3>1
      <3>3. /\ Valid(current)
            /\ entries[current] = [line |-> current + 1, cdf |-> file[current + 1]]
        BY <1>0, <2>1, <2>2, <3>2, WellFormedValid
      <3>4. result' = entries[current]
        BY <2>1, <3>3 DEF EntryAt
      <3> HIDE DEF DInv, WellFormedInv
      <3>5. CASE top = bottom
        <4>1. current + 1 = Len(file)
          BY <1>0, <3>1, <3>5
        <4>2. entries[current].cdf = Scale
          BY <1>0, <2>2, <3>3, <4>1
        <4> QED
          BY <1>s, <2>1, <3>1, <3>4, <4>2
      <3>6. CASE FALSE \in BelowTarget
        <4>1. ~(entries[current].cdf < target)
          BY <3>3, <3>6 DEF BelowTarget
        <4>2. entries[current].cdf \in Int
          <5>1. current + 1 \in 1..Len(file)
            BY <1>0, <3>1, <3>2
          <5>2. file[current + 1] \in 0..Scale
            BY <1>0, <2>2, <5>1
          <5> QED
            BY <1>s, <3>3, <5>2
        <4>3. entries[current].cdf >= target
          BY <1>s, <3>1, <4>1, <4>2
        <4> QED
          BY <2>1, <3>4, <4>3
      <3> QED
        BY <2>1, <3>5, <3>6
    <2> QED
      BY <2>1, <2>2
         DEF LoadInv, EntriesInv, Filled, SearchInv, ResultInv, Proper, WellFormed
  <1>11. CASE Crash
    <2>1. ASSUME WellFormed PROVE file[Len(file)] < target
      <3>1. CASE pc = "search" /\ ~Valid(current)
        <4>1. current \notin 0..(n_entries - 1)
          BY <2>1, <3>1, WellFormedValid
        <4> QED
          BY <1>0, <2>1, <3>1, <4>1 DEF SearchInv, LoadInv
      <3>2. CASE pc = "sequence" /\ i < n_entries /\ ~Valid(i)
        <4>1. i \in 0..(n_entries - 1)
          BY <1>0, <2>1, <3>2 DEF LoadInv
        <4> QED
          BY <2>1, <3>2, <4>1, WellFormedValid
      <3> QED
        BY <1>11, <3>1, <3>2 DEF Crash
    <2>2. /\ pc' = "crashed" /\ pc \notin {"count", "read"}
          /\ UNCHANGED <<file, line, entries, n_entries, i>> /\ UNCHANGED searchVars
      BY <1>11 DEF Crash, loadVars, searchVars
    <2> QED
      BY <2>1, <2>2 DEF searchVars, WellFormed, Proper, LoadInv, EntriesInv,
                        Filled, SearchInv, ResultInv
  <1>13. CASE CrashInLine
    <2>1. ~WellFormed
      BY <1>0, <1>13 DEF CrashInLine, WellFormed, LoadInv
    <2> QED
      BY <1>13, <2>1 DEF CrashInLine, loadVars, searchVars, WellFormed
  <1>12. CASE UNCHANGED dvars
    BY <1>12 DEF dvars, loadVars, searchVars, LoadInv, EntriesInv, Filled,
      SearchInv, ResultInv, Proper, WellFormed
  <1> QED
    BY <1>1, <1>2, <1>3, <1>4, <1>5, <1>6, <1>7, <1>8, <1>9, <1>10, <1>11,
       <1>12, <1>13
      DEF Next, Step, Ended

\* The invariant holds in every reachable state.
THEOREM DistributionInvariance == Spec => []DInv
  BY InitDInv, StepDInv, PTL DEF Spec

\* GetRandomEntry never reads outside the array of a file with an entry on every
\* line, of any length and with its cdf values in any order, unless its last cdf
\* is below the target.
THEOREM SearchStaysInArrayHolds == Spec => []SearchStaysInArray
  <1>1. DInv => SearchStaysInArray
    <2> SUFFICES ASSUME DInv, WellFormed,
                        (pc = "search" /\ ~Valid(current)) \/ pc = "crashed"
                 PROVE  file[Len(file)] < target
      BY DEF SearchStaysInArray
    <2>1. CASE pc = "search" /\ ~Valid(current)
      <3>1. current \notin 0..(n_entries - 1)
        BY <2>1, WellFormedValid
      <3>2. Len(file) \in Nat
        BY FileTypes DEF DInv
      <3> QED
        BY <2>1, <3>1, <3>2 DEF DInv, WellFormedInv, SearchInv, LoadInv
    <2> QED
      BY <2>1 DEF DInv, WellFormedInv
  <1> QED
    BY <1>1, DistributionInvariance, PTL

\* The entry returned for a proper file covers the target.
THEOREM ReturnsCoveringEntryHolds == Spec => []ReturnsCoveringEntry
  <1>1. DInv => ReturnsCoveringEntry
    BY DEF DInv, WellFormedInv, SearchInv, ResultInv, ReturnsCoveringEntry,
           Proper
  <1> QED
    BY <1>1, DistributionInvariance, PTL

\* Every turn of the search less than halves the range above current, on any
\* file.
THEOREM RangeHalvesHolds == Spec => RangeHalves
  <1>1. DInv /\ [Next]_dvars
          => [(pc = "search" /\ pc' = "search" /\ top' # bottom')
                => 2 * (top' - current') < top - current]_dvars
    <2> SUFFICES ASSUME DInv, Next, pc = "search", pc' = "search"
                 PROVE  2 * (top' - current') < top - current \/ UNCHANGED dvars
      OBVIOUS
    <2>1. CASE SearchStep
      <3>1. top' = top /\ current' = NextMiddle(current, top)
        BY <2>1 DEF SearchStep
      <3> QED
        BY <3>1, MiddleBounds DEF DInv
    <2> QED
      BY <2>1 DEF Next, Step, Ended, CountLine, Allocate, ReadLine, CrashInLine,
        LoadDone, PushEntry, SequenceDone, WarmupNext, GetRandomEntry, SearchEnd, Crash
  <1> QED
    BY <1>1, DistributionInvariance, PTL DEF Spec, RangeHalves

------------------------------------------------------------------------------
(* The array and the warmup sequence, for every file, with whatever lines. *)

Entry == [line : Nat, cdf : 0..Scale]

\* Lines whose entries are in the array.
LinesRead == IF pc = "count" THEN 0 ELSE line

\* Slot k points to the entry of a line read, and the slots below it to those of
\* earlier lines.
SlotInv(k) ==
  Valid(k) =>
    /\ entries[k].line \in 1..LinesRead
    /\ entries[k].cdf = file[entries[k].line]
    /\ \A h \in 0..(k - 1) : Valid(h) /\ entries[h].line < entries[k].line

ArrayInv ==
  /\ pc = "count" => n_entries = line /\ i = 0
  /\ pc # "count" => n_entries = Len(file)
  /\ pc \in {"sequence", "ready", "search"} => line = Len(file)
  /\ pc = "read" => i <= line /\ \A k \in DOMAIN entries : Valid(k) <=> k < i
  /\ \A k \in DOMAIN entries : SlotInv(k)
  /\ \A m \in 1..LinesRead : file[m] # Blank =>
       \E k \in DOMAIN entries : entries[k].line = m

SequenceInv ==
  /\ pc \in {"count", "read"} => sequence = <<>> /\ warmed = <<>>
  /\ pc = "sequence" => /\ warmed = <<>> /\ Len(sequence) = i
                        /\ \A k \in 1..i : sequence[k] = EntryAt(k - 1)
  /\ pc \in {"ready", "search"} =>
       /\ Len(warmed) + Len(sequence) = n_entries
       /\ \A k \in 1..n_entries : (warmed \o sequence)[k] = EntryAt(k - 1)

\* The inductive invariant.
AInv == DistributionTypeOK /\ ArrayInv /\ SequenceInv

\* A line that is neither blank nor malformed is the cdf of an entry.
LEMMA LineTypes ==
  ASSUME file \in Files
  PROVE  /\ file \in Seq(0..Scale \cup {Blank, Malformed}) /\ Len(file) \in Nat
         /\ \A m \in 1..Len(file) :
              file[m] \notin {Blank, Malformed} => file[m] \in 0..Scale
  BY DistributionAssumption

LEMMA EntryTypes ==
  /\ Garbage \in Entry
  /\ DistributionTypeOK => \A k : EntryAt(k) \in Entry
  BY DistributionAssumption DEF Garbage, Entry, EntryAt, Valid, DistributionTypeOK

LEMMA InitAInv == Init => AInv
  <1> SUFFICES ASSUME Init PROVE AInv
    OBVIOUS
  <1>1. Len(file) \in Nat /\ Scale \in Nat
    BY LineTypes, DistributionAssumption DEF Init
  <1>2. DistributionTypeOK
    BY <1>1, EntryTypes, EmptySeq DEF Init, DistributionTypeOK, Entry
  <1>3. ArrayInv
    BY DEF Init, ArrayInv, LinesRead
  <1> QED
    BY <1>2, <1>3 DEF Init, AInv, SequenceInv

\* What ReadLine stores, and where.
LEMMA ReadLineEffect ==
  ASSUME AInv, ReadLine, file[line + 1] # Blank
  PROVE  /\ i \in DOMAIN entries /\ i' = i + 1 /\ DOMAIN entries' = DOMAIN entries
         /\ entries'[i] = [line |-> line + 1, cdf |-> file[line + 1]]
         /\ entries'[i] \in Entry /\ entries'[i] # Garbage
         /\ \A k \in DOMAIN entries : k # i => entries'[k] = entries[k]
  <1>1. /\ i \in Nat /\ line \in Nat /\ i <= line /\ line < Len(file)
        /\ n_entries = Len(file) /\ DOMAIN entries = 0..(n_entries - 1)
        /\ Len(file) \in Nat /\ line + 1 \in 1..Len(file)
    BY LineTypes DEF AInv, ArrayInv, DistributionTypeOK, ReadLine
  <1>2. i \in DOMAIN entries
    BY <1>1
  <1>3. entries' = [entries EXCEPT ![i] = [line |-> line + 1,
                                           cdf |-> file[line + 1]]] /\ i' = i + 1
    BY DEF ReadLine
  <1>4. file[line + 1] \in 0..Scale
    BY <1>1, LineTypes DEF AInv, DistributionTypeOK, ReadLine
  <1> QED
    BY <1>1, <1>2, <1>3, <1>4 DEF Entry, Garbage

\* The slots after a line with an entry has been read.
LEMMA ReadEntryStep ==
  ASSUME AInv, ReadLine, file[line + 1] # Blank
  PROVE  ArrayInv'
  <1> DEFINE L == line + 1
  <1>1. /\ pc = "read" /\ pc' = "read" /\ file' = file /\ n_entries' = n_entries
        /\ line' = L /\ line \in Nat /\ i \in Nat /\ i <= line
        /\ DOMAIN entries = 0..(n_entries - 1) /\ n_entries = Len(file)
        /\ n_entries \in Nat
    BY LineTypes DEF ReadLine, AInv, ArrayInv, DistributionTypeOK
  <1>2. /\ i \in DOMAIN entries /\ i' = i + 1 /\ DOMAIN entries' = DOMAIN entries
        /\ entries'[i] = [line |-> L, cdf |-> file[L]] /\ entries'[i] # Garbage
        /\ \A k \in DOMAIN entries : k # i => entries'[k] = entries[k]
    BY ReadLineEffect
  <1>3. \A k \in DOMAIN entries : Valid(k) <=> k < i
    BY <1>1 DEF AInv, ArrayInv
  <1>4. \A k \in DOMAIN entries : Valid(k)' <=> k < i + 1
    <2> SUFFICES ASSUME NEW k \in DOMAIN entries
                 PROVE  Valid(k)' <=> k < i + 1
      OBVIOUS
    <2>1. k \in Nat /\ (k < i + 1 <=> k = i \/ k < i)
      BY <1>1
    <2>2. CASE k = i
      BY <1>2, <2>1, <2>2 DEF Valid
    <2>3. CASE k # i
      BY <1>2, <1>3, <2>1, <2>3 DEF Valid
    <2> QED
      BY <2>2, <2>3
  <1>5. ASSUME NEW k \in DOMAIN entries PROVE SlotInv(k)'
    <2> SUFFICES ASSUME Valid(k)'
                 PROVE  /\ entries'[k].line \in 1..L
                        /\ entries'[k].cdf = file[entries'[k].line]
                        /\ \A h \in 0..(k - 1) :
                             Valid(h)' /\ entries'[h].line < entries'[k].line
      BY <1>1 DEF SlotInv, LinesRead
    <2>0. /\ k \in Nat /\ k < i + 1
          /\ \A h \in 0..(k - 1) : h \in DOMAIN entries /\ h # i /\ Valid(h) /\ Valid(h)'
      <3>1. k \in 0..(n_entries - 1) /\ k < i + 1
        BY <1>1, <1>4
      <3>2. ASSUME NEW h \in 0..(k - 1)
            PROVE  h \in DOMAIN entries /\ h # i /\ Valid(h) /\ Valid(h)'
        <4>1. h \in DOMAIN entries /\ h < i /\ h # i /\ h < i + 1
          BY <1>1, <3>1
        <4> QED
          BY <1>3, <1>4, <4>1
      <3> QED
        BY <3>1, <3>2
    <2>1. ASSUME NEW h \in DOMAIN entries, h < i
          PROVE  /\ entries[h].line \in 1..line
                 /\ entries[h].cdf = file[entries[h].line]
                 /\ \A g \in 0..(h - 1) : entries[g].line < entries[h].line
      <3>1. SlotInv(h) /\ Valid(h)
        BY <1>3, <2>1 DEF AInv, ArrayInv
      <3> QED
        BY <1>1, <3>1 DEF SlotInv, LinesRead
    <2>2. CASE k = i
      <3>1. ASSUME NEW h \in 0..(k - 1)
            PROVE  entries'[h] = entries[h] /\ entries[h].line \in 1..line
        BY <1>1, <1>2, <2>0, <2>1, <2>2
      <3> QED
        BY <1>1, <1>2, <2>0, <2>2, <3>1
    <2>3. CASE k # i
      <3>1. k < i
        BY <1>1, <2>0, <2>3
      <3>2. entries'[k] = entries[k] /\ \A h \in 0..(k - 1) : entries'[h] = entries[h]
        BY <1>2, <2>0, <2>3
      <3>3. /\ entries[k].line \in 1..line /\ entries[k].cdf = file[entries[k].line]
            /\ \A h \in 0..(k - 1) : entries[h].line < entries[k].line
        BY <2>1, <3>1
      <3>4. entries[k].line \in 1..L
        BY <1>1, <3>3
      <3> QED
        BY <2>0, <3>2, <3>3, <3>4
    <2> QED
      BY <2>2, <2>3
  <1>6. ASSUME NEW m \in 1..L, file[m] # Blank
        PROVE  \E k \in DOMAIN entries : entries'[k].line = m
    <2>1. CASE m = L
      BY <1>2, <2>1
    <2>2. CASE m # L
      <3>1. PICK k \in DOMAIN entries : entries[k].line = m
        BY <1>1, <1>6, <2>2 DEF AInv, ArrayInv, LinesRead
      <3>2. m # 0 /\ m \in Nat
        BY <1>1
      <3>3. entries[k] # Garbage
        BY <3>1, <3>2 DEF Garbage
      <3>4. k < i
        BY <1>3, <3>3 DEF Valid
      <3> QED
        BY <1>1, <1>2, <3>1, <3>4
    <2> QED
      BY <2>1, <2>2
  <1>7. i' <= line' /\ LinesRead' = L
    BY <1>1, <1>2 DEF LinesRead
  <1> HIDE DEF L
  <1> QED
    BY <1>1, <1>2, <1>4, <1>5, <1>6, <1>7 DEF ArrayInv

\* The slots keep what they have when file, array and progress stay as they are.
LEMMA ArrayKept ==
  ASSUME ArrayInv, pc # "count", pc' \notin {"count", "read"},
         pc' = "crashed" \/ pc \in {"sequence", "ready", "search"},
         UNCHANGED <<file, line, n_entries, entries>>
  PROVE  ArrayInv'
  <1>1. LinesRead = line /\ LinesRead' = line
    BY DEF LinesRead
  <1>2. \A k \in DOMAIN entries : SlotInv(k)'
    BY <1>1 DEF ArrayInv, SlotInv, Valid
  <1> QED
    BY <1>1, <1>2 DEF ArrayInv

LEMMA StepArrayInv == AInv /\ [Next]_dvars => ArrayInv'
  <1> SUFFICES ASSUME AInv, [Next]_dvars PROVE ArrayInv'
    OBVIOUS
  <1>0. /\ DistributionTypeOK /\ ArrayInv /\ Len(file) \in Nat
        /\ line \in Nat /\ i \in Nat /\ n_entries \in Nat
    BY LineTypes DEF AInv, DistributionTypeOK
  <1>1. CASE CountLine
    BY <1>0, <1>1 DEF CountLine, ArrayInv, SlotInv, LinesRead, Valid,
                      DistributionTypeOK
  <1>2. CASE Allocate
    <2>0. /\ pc = "count" /\ line = Len(file) /\ n_entries = line /\ i = 0
      BY <1>0, <1>2 DEF Allocate, ArrayInv
    <2>1. /\ pc' = "read" /\ line' = 0 /\ i' = 0 /\ n_entries' = Len(file)
          /\ DOMAIN entries' = 0..(n_entries - 1) /\ file' = file
          /\ \A k \in DOMAIN entries' : entries'[k] = Garbage
      BY <1>2, <2>0 DEF Allocate
    <2>2. \A k \in DOMAIN entries' : ~Valid(k)' /\ ~(k < i')
      BY <1>0, <2>1 DEF Valid
    <2>3. \A k \in DOMAIN entries' : SlotInv(k)'
      BY <2>2 DEF SlotInv
    <2> QED
      BY <1>0, <2>1, <2>2, <2>3 DEF ArrayInv, LinesRead
  <1>3. CASE ReadLine
    <2>1. CASE file[line + 1] # Blank
      BY <1>3, <2>1, ReadEntryStep
    <2>2. CASE ~(file[line + 1] # Blank)
      <3>1. /\ pc = "read" /\ pc' = "read" /\ line' = line + 1
            /\ UNCHANGED <<file, n_entries, entries, i>>
        BY <1>3, <2>2 DEF ReadLine
      <3>2. \A k \in DOMAIN entries : SlotInv(k)'
        BY <1>0, <3>1 DEF ArrayInv, SlotInv, LinesRead, Valid
      <3> QED
        BY <1>0, <2>2, <3>1, <3>2 DEF ArrayInv, LinesRead, Valid
    <2> QED
      BY <2>1, <2>2
  <1>4. CASE LoadDone
    <2>1. /\ pc = "read" /\ pc' = "sequence" /\ line = Len(file)
          /\ UNCHANGED <<file, line, n_entries, entries>>
      BY <1>4 DEF LoadDone
    <2> QED
      BY <1>0, <2>1 DEF ArrayInv, SlotInv, LinesRead, Valid
  <1>5. CASE PushEntry
    BY <1>0, <1>5, ArrayKept DEF PushEntry
  <1>6. CASE SequenceDone \/ WarmupNext \/ GetRandomEntry
    BY <1>0, <1>6, ArrayKept
       DEF SequenceDone, WarmupNext, GetRandomEntry, loadVars
  <1>7. CASE SearchStep \/ SearchEnd \/ Crash \/ CrashInLine
    BY <1>0, <1>7, ArrayKept
       DEF SearchStep, SearchEnd, Crash, CrashInLine, loadVars
  <1>8. CASE UNCHANGED dvars
    BY <1>0, <1>8 DEF dvars, loadVars, ArrayInv, SlotInv, LinesRead, Valid
  <1> QED
    BY <1>1, <1>2, <1>3, <1>4, <1>5, <1>6, <1>7, <1>8 DEF Next, Step, Ended

LEMMA StepDistributionType == AInv /\ [Next]_dvars => DistributionTypeOK'
  <1> SUFFICES ASSUME AInv, [Next]_dvars PROVE DistributionTypeOK'
    OBVIOUS
  <1> USE DEF loadVars, warmupVars, searchVars
  <1>0. /\ DistributionTypeOK /\ ArrayInv /\ Len(file) \in Nat
        /\ Scale \in Nat \ {0} /\ Garbage \in Entry
        /\ \A k : EntryAt(k) \in Entry
    BY LineTypes, EntryTypes, DistributionAssumption DEF AInv, DistributionTypeOK
  <1>1. CASE CountLine
    BY <1>0, <1>1 DEF CountLine, ArrayInv, DistributionTypeOK
  <1>2. CASE Allocate
    BY <1>0, <1>2 DEF Allocate, ArrayInv, DistributionTypeOK, Entry
  <1>3. CASE ReadLine
    <2>1. /\ pc = "read" /\ pc' = "read" /\ file' = file /\ n_entries' = n_entries
          /\ line' = line + 1 /\ line < Len(file) /\ i <= line
          /\ UNCHANGED <<sequence, warmed, target, bottom, top, current, result>>
      BY <1>0, <1>3 DEF ReadLine, ArrayInv
    <2>2. /\ line \in Nat /\ i \in Nat /\ DOMAIN entries = 0..(n_entries - 1)
          /\ \A k \in DOMAIN entries : entries[k] \in Entry
      BY <1>0, <2>1 DEF DistributionTypeOK, Entry
    <2>3. /\ i' \in {i, i + 1} /\ DOMAIN entries' = DOMAIN entries
          /\ \A k \in DOMAIN entries : entries'[k] \in Entry
      <3>1. CASE file[line + 1] # Blank
        BY <1>3, <2>2, <3>1, ReadLineEffect
      <3>2. CASE ~(file[line + 1] # Blank)
        BY <1>3, <2>2, <3>2 DEF ReadLine
      <3> QED
        BY <3>1, <3>2
    <2>4. line' \in 0..Len(file') /\ i' \in 0..Len(file')
      BY <1>0, <2>1, <2>2, <2>3
    <2>5. /\ file' \in Files /\ n_entries' \in 0..Len(file')
          /\ sequence' \in Seq(Entry) /\ warmed' \in Seq(Entry)
          /\ target' \in 0..Scale
          /\ bottom' \in Int /\ top' \in Int /\ current' \in Int
          /\ result' \in Entry
      BY <1>0, <2>1 DEF DistributionTypeOK, Entry
    <2> QED
      BY <2>1, <2>2, <2>3, <2>4, <2>5 DEF DistributionTypeOK, Entry
  <1>4. CASE LoadDone
    BY <1>0, <1>4 DEF LoadDone, DistributionTypeOK
  <1>5. CASE PushEntry
    <2>1. sequence' \in Seq(Entry)
      BY <1>0, <1>5, AppendToSeq DEF PushEntry, DistributionTypeOK, Entry
    <2>2. i' \in 0..Len(file)
      BY <1>0, <1>5 DEF PushEntry, ArrayInv, DistributionTypeOK
    <2> QED
      BY <1>0, <1>5, <2>1, <2>2 DEF PushEntry, DistributionTypeOK, Entry
  <1>6. CASE SequenceDone
    BY <1>0, <1>6 DEF SequenceDone, DistributionTypeOK
  <1>7. CASE WarmupNext
    <2>1. /\ sequence \in Seq(Entry) /\ sequence # <<>> /\ warmed \in Seq(Entry)
          /\ sequence' = Tail(sequence) /\ warmed' = Append(warmed, Head(sequence))
      BY <1>0, <1>7 DEF WarmupNext, WarmupHasNext, DistributionTypeOK, Entry
    <2>2. sequence' \in Seq(Entry) /\ Head(sequence) \in Entry
      BY <2>1, HeadTailProperties
    <2>3. warmed' \in Seq(Entry)
      BY <2>1, <2>2, AppendToSeq
    <2> QED
      BY <1>0, <1>7, <2>2, <2>3 DEF WarmupNext, DistributionTypeOK, Entry
  <1>8. CASE GetRandomEntry
    <2>1. /\ bottom' \in Int /\ top' \in Int /\ current' \in Int
          /\ target' \in 0..Scale
      BY <1>0, <1>8, MiddleBounds DEF GetRandomEntry, DistributionTypeOK
    <2> QED
      BY <1>0, <1>8, <2>1 DEF GetRandomEntry, DistributionTypeOK
  <1>9. CASE SearchStep
    <2>1. bottom' \in Int /\ current' \in Int
      BY <1>0, <1>9, MiddleBounds DEF SearchStep, DistributionTypeOK
    <2> QED
      BY <1>0, <1>9, <2>1 DEF SearchStep, DistributionTypeOK
  <1>10. CASE SearchEnd
    BY <1>0, <1>10 DEF SearchEnd, DistributionTypeOK, Entry
  <1>11. CASE Crash \/ CrashInLine
    BY <1>0, <1>11 DEF Crash, CrashInLine, DistributionTypeOK
  <1>12. CASE UNCHANGED dvars
    BY <1>0, <1>12 DEF dvars, DistributionTypeOK
  <1> QED
    BY <1>1, <1>2, <1>3, <1>4, <1>5, <1>6, <1>7, <1>8, <1>9, <1>10, <1>11, <1>12
      DEF Next, Step, Ended

\* What Next takes off the sequence it adds to what it has returned.
LEMMA MoveHead ==
  ASSUME NEW S, NEW w \in Seq(S), NEW s \in Seq(S), s # <<>>
  PROVE  /\ Append(w, Head(s)) \o Tail(s) = w \o s
         /\ Len(Append(w, Head(s))) + Len(Tail(s)) = Len(w) + Len(s)
  <1> DEFINE a == Append(w, Head(s))
             t == Tail(s)
  <1>1. /\ t \in Seq(S) /\ Len(t) = Len(s) - 1 /\ Head(s) = s[1] /\ s[1] \in S
        /\ \A j \in 1..(Len(s) - 1) : t[j] = s[j + 1]
        /\ Len(s) \in Nat /\ Len(s) > 0
    BY TailOfSeq
  <1>2. /\ a \in Seq(S) /\ Len(a) = Len(w) + 1 /\ Len(w) \in Nat
        /\ \A j \in 1..Len(w) : a[j] = w[j]
        /\ a[Len(w) + 1] = s[1]
    BY <1>1, AppendToSeq, LenProperties
  <1> HIDE DEF a, t
  <1>3. /\ a \o t \in Seq(S) /\ w \o s \in Seq(S)
        /\ Len(a \o t) = Len(w) + Len(s) /\ Len(w \o s) = Len(w) + Len(s)
    <2>1. a \o t \in Seq(S) /\ Len(a \o t) = Len(a) + Len(t)
      BY <1>1, <1>2, ConcatProperties
    <2>2. w \o s \in Seq(S) /\ Len(w \o s) = Len(w) + Len(s)
      BY ConcatProperties
    <2> QED
      BY <1>1, <1>2, <2>1, <2>2
  <1>4. ASSUME NEW j \in 1..(Len(w) + Len(s)) PROVE (a \o t)[j] = (w \o s)[j]
    <2>1. /\ (w \o s)[j] = IF j <= Len(w) THEN w[j] ELSE s[j - Len(w)]
          /\ (a \o t)[j] = IF j <= Len(w) + 1 THEN a[j] ELSE t[j - (Len(w) + 1)]
      BY <1>1, <1>2, ConcatProperties
    <2>2. CASE j <= Len(w)
      BY <1>2, <2>1, <2>2
    <2>3. CASE j = Len(w) + 1
      BY <1>2, <2>1, <2>3
    <2>4. CASE j > Len(w) + 1
      <3>1. j - (Len(w) + 1) \in 1..(Len(s) - 1)
        BY <1>1, <1>2, <2>4
      <3>2. t[j - (Len(w) + 1)] = s[j - (Len(w) + 1) + 1]
        BY <1>1, <3>1
      <3>3. j - (Len(w) + 1) + 1 = j - Len(w)
        BY <1>2
      <3> QED
        BY <1>2, <2>1, <2>4, <3>2, <3>3
    <2> QED
      BY <1>1, <1>2, <2>2, <2>3, <2>4
  <1>5. a \o t = w \o s
    BY <1>3, <1>4, SeqEqual
  <1> QED
    BY <1>1, <1>2, <1>5 DEF a, t

LEMMA StepSequenceInv == AInv /\ [Next]_dvars => SequenceInv'
  <1> SUFFICES ASSUME AInv, [Next]_dvars PROVE SequenceInv'
    OBVIOUS
  <1> USE DEF loadVars, warmupVars, searchVars
  <1>0. /\ DistributionTypeOK /\ ArrayInv /\ SequenceInv
        /\ \A k : EntryAt(k) \in Entry
        /\ sequence \in Seq(Entry) /\ warmed \in Seq(Entry)
        /\ i \in Nat /\ n_entries \in Nat
    BY LineTypes, EntryTypes DEF AInv, DistributionTypeOK, Entry
  <1>1. CASE CountLine \/ Allocate \/ ReadLine
    BY <1>0, <1>1 DEF CountLine, Allocate, ReadLine, SequenceInv
  <1>2. CASE LoadDone
    <2>1. /\ sequence' = <<>> /\ warmed' = <<>> /\ i' = 0 /\ pc' = "sequence"
      BY <1>0, <1>2 DEF LoadDone, SequenceInv
    <2> QED
      BY <2>1 DEF SequenceInv
  <1>3. CASE PushEntry
    <2>1. /\ pc = "sequence" /\ pc' = "sequence" /\ i' = i + 1
          /\ sequence' = Append(sequence, EntryAt(i)) /\ warmed' = <<>>
          /\ Len(sequence) = i /\ \A k \in 1..i : sequence[k] = EntryAt(k - 1)
          /\ entries' = entries
      BY <1>0, <1>3 DEF PushEntry, SequenceInv
    <2>2. /\ Len(sequence') = i + 1 /\ sequence'[i + 1] = EntryAt(i)
          /\ \A k \in 1..i : sequence'[k] = EntryAt(k - 1)
      BY <1>0, <2>1, AppendToSeq
    <2>3. \A k \in 1..(i + 1) : sequence'[k] = EntryAt(k - 1)
      BY <1>0, <2>2
    <2>4. \A k : EntryAt(k)' = EntryAt(k)
      BY <2>1 DEF EntryAt, Valid
    <2> QED
      BY <2>1, <2>2, <2>3, <2>4 DEF SequenceInv
  <1>4. CASE SequenceDone
    <2>1. /\ pc' = "ready" /\ warmed' = <<>> /\ sequence' = sequence
          /\ Len(sequence) = n_entries /\ n_entries' = n_entries
          /\ \A k \in 1..n_entries : sequence[k] = EntryAt(k - 1)
          /\ \A k : EntryAt(k)' = EntryAt(k)
      BY <1>0, <1>4 DEF SequenceDone, SequenceInv, EntryAt, Valid
    <2>2. warmed' \o sequence' = sequence /\ Len(warmed') = 0
      BY <1>0, <2>1, ConcatEmptySeq, EmptySeq
    <2> QED
      BY <1>0, <2>1, <2>2 DEF SequenceInv
  <1>5. CASE WarmupNext
    <2>1. /\ pc = "ready" /\ pc' = "ready" /\ n_entries' = n_entries
          /\ sequence # <<>> /\ sequence' = Tail(sequence)
          /\ warmed' = Append(warmed, Head(sequence))
          /\ \A k : EntryAt(k)' = EntryAt(k)
      BY <1>5 DEF WarmupNext, WarmupHasNext, EntryAt, Valid
    <2>2. /\ warmed' \o sequence' = warmed \o sequence
          /\ Len(warmed') + Len(sequence') = Len(warmed) + Len(sequence)
      BY <1>0, <2>1, MoveHead
    <2> QED
      BY <1>0, <2>1, <2>2 DEF SequenceInv
  <1>6. CASE GetRandomEntry \/ SearchStep \/ SearchEnd
    <2>1. /\ pc \in {"ready", "search"} /\ pc' \in {"ready", "search"}
          /\ UNCHANGED <<sequence, warmed, n_entries>>
          /\ \A k : EntryAt(k)' = EntryAt(k)
      BY <1>6 DEF GetRandomEntry, SearchStep, SearchEnd, EntryAt, Valid
    <2> QED
      BY <1>0, <2>1 DEF SequenceInv
  <1>7. CASE Crash \/ CrashInLine
    BY <1>7 DEF Crash, CrashInLine, SequenceInv
  <1>8. CASE UNCHANGED dvars
    <2>1. /\ UNCHANGED <<pc, i, sequence, warmed, n_entries>>
          /\ \A k : EntryAt(k)' = EntryAt(k)
      BY <1>8 DEF dvars, EntryAt, Valid
    <2> QED
      BY <1>0, <2>1 DEF SequenceInv
  <1> QED
    BY <1>1, <1>2, <1>3, <1>4, <1>5, <1>6, <1>7, <1>8 DEF Next, Step, Ended

\* The array and the sequence are as the invariant says in every reachable state.
THEOREM ArrayInvariance == Spec => []AInv
  <1>1. AInv /\ [Next]_dvars => AInv'
    BY StepDistributionType, StepArrayInv, StepSequenceInv DEF AInv
  <1> QED
    BY <1>1, InitAInv, PTL DEF Spec

\* The types of the loader, the warmup and the search, for every file.
THEOREM DistributionTypeCorrect == Spec => []DistributionTypeOK
  BY ArrayInvariance, PTL DEF AInv

\* Whatever lines are blank or malformed, the entries stand in the array in the file's order,
\* each once and none left out.
THEOREM EntriesInFileOrderHolds == Spec => []EntriesInFileOrder
  <1>1. AInv => EntriesInFileOrder
    BY DEF AInv, ArrayInv, SlotInv, LinesRead, EntriesInFileOrder
  <1> QED
    BY <1>1, ArrayInvariance, PTL

\* What the warmup has taken and has left is as long as the array and has each of
\* its entries in one place.
THEOREM WarmupCoversEntriesHolds == Spec => []WarmupCoversEntries
  <1> DEFINE all == warmed \o sequence
  <1>1. ASSUME AInv, pc \in {"ready", "search"}
        PROVE  /\ Len(all) = n_entries /\ DOMAIN all = 1..n_entries
               /\ \A k \in 1..n_entries : all[k] = EntryAt(k - 1)
               /\ DOMAIN entries = 0..(n_entries - 1) /\ n_entries \in Nat
    <2>1. DistributionTypeOK /\ SequenceInv
      BY <1>1 DEF AInv
    <2>2. /\ warmed \in Seq(Entry) /\ sequence \in Seq(Entry) /\ n_entries \in Nat
          /\ DOMAIN entries = 0..(n_entries - 1)
      BY <1>1, <2>1, LineTypes DEF DistributionTypeOK, Entry
    <2>3. /\ Len(warmed) + Len(sequence) = n_entries
          /\ \A k \in 1..n_entries : all[k] = EntryAt(k - 1)
      BY <1>1, <2>1 DEF SequenceInv
    <2>4. all \in Seq(Entry) /\ Len(all) = n_entries
      BY <2>2, <2>3, ConcatProperties
    <2> QED
      BY <2>2, <2>3, <2>4, LenProperties
  <1>2. ASSUME AInv, pc \in {"ready", "search"}, NEW k \in DOMAIN entries, Valid(k)
        PROVE  \E m \in DOMAIN all : \A h \in DOMAIN all :
                 all[h] = entries[k] <=> h = m
    <2> HIDE DEF all
    <2>1. k + 1 \in DOMAIN all /\ k \in Nat /\ DOMAIN all = 1..n_entries
          /\ all[k + 1] = entries[k] /\ entries[k] # Garbage
      <3>1. /\ k \in 0..(n_entries - 1) /\ n_entries \in Nat
            /\ DOMAIN all = 1..n_entries
        BY <1>1, <1>2
      <3>2. k + 1 \in 1..n_entries /\ (k + 1) - 1 = k
        BY <3>1
      <3>3. all[k + 1] = EntryAt(k)
        BY <1>1, <1>2, <3>2
      <3> QED
        BY <1>2, <3>1, <3>2, <3>3 DEF EntryAt, Valid
    <2>2. ASSUME NEW h \in DOMAIN all, all[h] = entries[k]
          PROVE  h = k + 1
      <3>1. h - 1 \in DOMAIN entries /\ h \in Nat
        BY <1>1, <1>2
      <3>2. Valid(h - 1) /\ entries[h - 1] = entries[k]
        BY <1>1, <1>2, <2>1, <2>2 DEF EntryAt
      <3>3. SlotInv(h - 1) /\ SlotInv(k)
        BY <1>2, <3>1 DEF AInv, ArrayInv
      <3>4. ~(entries[k].line < entries[k].line)
        <4>1. entries[k].line \in Nat
          BY <1>2 DEF AInv, DistributionTypeOK
        <4> QED
          BY <4>1
      <3>5. ~(h - 1 < k)
        BY <1>2, <2>1, <3>1, <3>2, <3>3, <3>4 DEF SlotInv
      <3>6. ~(k < h - 1)
        BY <1>2, <2>1, <3>1, <3>2, <3>3, <3>4 DEF SlotInv
      <3> QED
        BY <2>1, <3>1, <3>5, <3>6
    <2> QED
      BY <2>1, <2>2
  <1>3. AInv => WarmupCoversEntries
    BY <1>1, <1>2 DEF WarmupCoversEntries
  <1> QED
    BY <1>3, ArrayInvariance, PTL

------------------------------------------------------------------------------
(* The exchange of a request and its response. *)

MaxSize == 1000000000
MaxInt  == 2147483647

\* A request the Generator may have built.
Generated(r) == r.key <= MaxSize /\ r.value <= MaxSize + 1

\* The response is one of those the server may send.
Sent(r) == /\ r.extras <= 255 /\ r.key <= 65535
           /\ r.extras + r.key + r.value <= MaxInt

\* The inductive invariant.
XInv ==
  /\ ExchangeTypeOK
  /\ Generated(request)
  /\ RequestInStep
  /\ Sent(reply)
  /\ ResponseInStep

------------------------------------------------------------------------------

\* Two bytes carry every size below 65536.
LEMMA TwoBytes ==
  ASSUME NEW n \in Nat
  PROVE  /\ Bytes2(n) \in [1..2 -> 0..255]
         /\ n < 65536 => BigEndian2(Bytes2(n)) = n
  <1>1. (n \div 256) % 256 \in 0..255 /\ n % 256 \in 0..255
    OBVIOUS
  <1>2. Bytes2(n) \in [1..2 -> 0..255]
    BY <1>1 DEF Bytes2
  <1>3. ASSUME n < 65536 PROVE ((n \div 256) % 256) * 256 + (n % 256) = n
    BY <1>3
  <1> QED
    BY <1>2, <1>3 DEF Bytes2, BigEndian2

\* A number is its quotient and remainder.
LEMMA Digits ==
  ASSUME NEW n \in Nat
  PROVE  /\ n \div 256 \in Nat /\ n % 256 \in 0..255
         /\ n = (n \div 256) * 256 + (n % 256)
  OBVIOUS

\* What the shifts of ConstructRequestPacket divide by.
LEMMA Shifts ==
  ASSUME NEW n \in Nat
  PROVE  /\ n \div 65536 = (n \div 256) \div 256
         /\ n \div 16777216 = ((n \div 256) \div 256) \div 256
  BY SMT

\* The higher byte of a short.
LEMMA HighByteOfShort ==
  ASSUME NEW n \in Nat, n <= 65535
  PROVE  n \div 256 \in 0..255
  BY SMT

\* The highest byte of an int is less than 128.
LEMMA HighByte ==
  ASSUME NEW n \in Nat, n <= MaxInt
  PROVE  n \div 16777216 \in 0..127
  BY SMT DEF MaxInt

\* Four bytes carry every size an int can hold, and the highest is not negative.
LEMMA FourBytes ==
  ASSUME NEW n \in Nat, n <= MaxInt
  PROVE  /\ Bytes4(n) \in [1..4 -> 0..255]
         /\ BigEndian4(Bytes4(n)) = n
         /\ BodySize(Bytes4(n)) = n
  <1> DEFINE a == n \div 256
             b == a \div 256
             c == b \div 256
  <1>1. /\ a \in Nat /\ b \in Nat /\ c \in Nat
        /\ n % 256 \in 0..255 /\ a % 256 \in 0..255 /\ b % 256 \in 0..255
        /\ n = a * 256 + (n % 256) /\ a = b * 256 + (a % 256)
        /\ b = c * 256 + (b % 256)
    BY Digits, SMT
  <1>2. /\ n \div 65536 = b /\ n \div 16777216 = c
    BY Shifts
  <1>3. c \in 0..127
    BY <1>2, HighByte
  <1>4. (n \div 256) % 256 = a % 256
    OBVIOUS
  <1> HIDE DEF a, b, c
  <1>5. c % 256 = c /\ c \in 0..255 /\ Signed(c) = c
    BY <1>3, SMT DEF Signed
  <1>6. Bytes4(n) = <<c, b % 256, a % 256, n % 256>>
    BY <1>2, <1>4, <1>5 DEF Bytes4
  <1>7. n = c * 16777216 + (b % 256) * 65536 + (a % 256) * 256 + (n % 256)
    BY <1>1, SMT
  <1>8. Bytes4(n) \in [1..4 -> 0..255]
    BY <1>1, <1>5, <1>6, SMT
  <1>9. /\ Bytes4(n)[1] = c /\ Bytes4(n)[2] = b % 256
        /\ Bytes4(n)[3] = a % 256 /\ Bytes4(n)[4] = n % 256
    BY <1>6
  <1>10. BigEndian4(Bytes4(n)) = n
    BY <1>7, <1>9 DEF BigEndian4
  <1>11. BodySize(Bytes4(n)) = n
    BY <1>5, <1>7, <1>9 DEF BodySize
  <1> QED
    BY <1>8, <1>10, <1>11

\* What ReceiveResponse makes of a response's header: its sizes, or a negative
\* one; and for small extras and keys never a negative one.
LEMMA DecodedSizes ==
  ASSUME NEW r \in [extras : Nat, key : Nat, value : Nat], Sent(r)
  PROVE  /\ ~Negative(Decoded(r)) => Decoded(r) = r
         /\ r.extras < 128 /\ r.key < 128 => ~Negative(Decoded(r))
  <1> DEFINE h  == (r.key \div 256) % 256
             lo == r.key % 256
             n  == r.extras + r.key + r.value
  <1>1. /\ r.extras \in 0..255 /\ r.key \in Nat /\ r.key <= 65535
        /\ r.value \in Nat /\ n \in Nat /\ n <= MaxInt
    BY DEF Sent
  <1>2. h \in 0..255 /\ lo \in 0..255 /\ r.key = h * 256 + lo
    <2>1. /\ r.key \div 256 \in Nat /\ lo \in 0..255
          /\ r.key = (r.key \div 256) * 256 + lo
      BY <1>1, Digits
    <2>2. r.key \div 256 \in 0..255
      BY <1>1, HighByteOfShort
    <2> QED
      BY <2>1, <2>2, SMT
  <1>3. KeySize(Bytes2(r.key))
          = IF lo < 128 THEN Signed(h) * 256 + lo ELSE Signed(lo)
    BY DEF KeySize, Bytes2
  <1>4. BodySize(Bytes4(n)) = n
    BY <1>1, FourBytes
  <1> HIDE DEF h, lo
  <1>5. Decoded(r) = [extras |-> Signed(r.extras),
                      key |-> KeySize(Bytes2(r.key)),
                      value |-> n - KeySize(Bytes2(r.key)) - Signed(r.extras)]
    BY <1>4 DEF Decoded, ValueSize
  <1>6. KeySize(Bytes2(r.key)) >= 0 => KeySize(Bytes2(r.key)) = r.key
    BY <1>2, <1>3 DEF Signed
  <1>7. Signed(r.extras) >= 0 => Signed(r.extras) = r.extras
    BY <1>1 DEF Signed
  <1>8. r.key < 128 => h = 0 /\ lo = r.key
    BY <1>1, <1>2
  <1>9. r.key < 128 => KeySize(Bytes2(r.key)) = r.key
    BY <1>1, <1>3, <1>8 DEF Signed
  <1>10. r.extras < 128 => Signed(r.extras) = r.extras
    BY DEF Signed
  <1>11. KeySize(Bytes2(r.key)) \in Int /\ Signed(r.extras) \in Int
    BY <1>1, <1>2, <1>3 DEF Signed
  <1>12. ASSUME ~Negative(Decoded(r)) PROVE Decoded(r) = r
    <2>1. KeySize(Bytes2(r.key)) = r.key /\ Signed(r.extras) = r.extras
      BY <1>5, <1>6, <1>7, <1>11, <1>12 DEF Negative
    <2>2. n - r.key - r.extras = r.value
      BY <1>1
    <2> HIDE DEF n
    <2> QED
      BY <1>5, <2>1, <2>2
  <1>13. ASSUME r.extras < 128, r.key < 128 PROVE ~Negative(Decoded(r))
    <2>1. n - r.key - r.extras = r.value
      BY <1>1
    <2> HIDE DEF n
    <2> QED
      BY <1>1, <1>5, <1>9, <1>10, <1>13, <2>1 DEF Negative
  <1> QED
    BY <1>12, <1>13

\* What Generate builds.
LEMMA GeneratedRequest ==
  ASSUME NEW k \in Nat, k <= MaxSize,
         NEW n \in Int, -MaxSize <= n, n <= MaxSize, Generate(k, n)
  PROVE  /\ request' \in [kind : {"get", "set"}, key : Nat, value : Nat]
         /\ request'.key <= MaxSize /\ request'.value <= MaxSize + 1
  <1>1. PICK kind \in {"get", "set"}, v \in Lengths(n) :
          request' = [kind |-> kind, key |-> k,
                      value |-> IF kind = "set" THEN v ELSE 0]
    BY DEF Generate
  <1>2. v \in Nat /\ v <= MaxSize + 1
    BY SMT DEF Lengths, MaxSize
  <1> QED
    BY <1>1, <1>2 DEF MaxSize

\* The body of a request is no longer than four bytes can say.
LEMMA BodyFits ==
  ASSUME NEW r \in [kind : {"get", "set"}, key : Nat, value : Nat],
         r.key <= MaxSize, r.value <= MaxSize + 1
  PROVE  /\ RequestBody(r) \in Nat /\ RequestBody(r) <= MaxInt
         /\ RequestBody(r) = Extras(r) + r.key + r.value
  <1>1. Extras(r) \in {0, 8}
    BY DEF Extras
  <1> QED
    BY <1>1 DEF RequestBody, MaxSize, MaxInt

LEMMA InitXInv == ExchangeInit => XInv
  BY DEF ExchangeInit, XInv, ExchangeTypeOK, Generated, RequestInStep, Sent,
         ResponseInStep, NoRequest, NoPacket, NoParts, MaxSize, MaxInt

LEMMA StepXInv == XInv /\ [ExchangeNext]_exchangeVars => XInv'
  <1> SUFFICES ASSUME XInv, [ExchangeNext]_exchangeVars PROVE XInv'
    OBVIOUS
  <1> USE DEF XInv
  <1>1. CASE GenerateNextRequest
    <2>1. PICK k \in Nat, n \in Int :
            /\ k <= MaxSize /\ -MaxSize <= n /\ n <= MaxSize
            /\ size' = n /\ Generate(k, n)
      <3>1. CASE \E k \in KeySizes, n \in EntrySizes : size' = n /\ Generate(k, n)
        BY <3>1, ExchangeAssumption DEF MaxSize
      <3>2. CASE /\ size' = MaxString
                 /\ \E k \in Lengths(MaxString) : Generate(k, MaxString)
        BY <3>2, ExchangeAssumption DEF MaxSize, Lengths
      <3> QED
        BY <1>1, <3>1, <3>2 DEF GenerateNextRequest
    <2>2. /\ request' \in [kind : {"get", "set"}, key : Nat, value : Nat]
          /\ Generated(request)' /\ size' \in Int
      BY <2>1, GeneratedRequest DEF Generated
    <2>3. /\ phase' = "generated" /\ packet' = packet
          /\ reply' = reply /\ blocks' = blocks
      BY <1>1 DEF GenerateNextRequest
    <2> QED
      BY <2>2, <2>3 DEF ExchangeTypeOK, RequestInStep, Sent, ResponseInStep
  <1>2. CASE DivideByZero
    BY <1>2, SMTT(20) DEF DivideByZero, ExchangeTypeOK, Generated, RequestInStep, Sent,
                ResponseInStep, Dead
  <1>3. CASE ConstructRequestPacket
    <2> DEFINE n == RequestBody(request)
    <2>1. /\ phase' = "sent" /\ size' = size /\ request' = request
          /\ reply' = reply /\ blocks' = blocks
          /\ packet'.key_size = Bytes2(request.key)
          /\ packet'.total_body_size = Bytes4(n)
          /\ packet'.length = HeaderBytes + Extras(request)
                                + request.key + request.value
      BY <1>3 DEF ConstructRequestPacket
    <2>2. request.key \in Nat /\ request.value \in Nat /\ Extras(request) \in {0, 8}
      BY DEF ExchangeTypeOK, Extras
    <2>3. n \in Nat /\ n <= MaxInt /\ n = Extras(request) + request.key + request.value
      BY BodyFits DEF ExchangeTypeOK, Generated
    <2> HIDE DEF n, XInv
    <2>4. packet'.key_size \in [1..2 -> 0..255]
          /\ packet'.total_body_size \in [1..4 -> 0..255]
      <3>1. Bytes2(request.key) \in [1..2 -> 0..255]
        BY <2>2, TwoBytes, SMTT(30)
      <3>2. Bytes4(n) \in [1..4 -> 0..255]
        BY <2>3, FourBytes, SMTT(30)
      <3> QED
        BY <2>1, <3>1, <3>2
    <2>5. /\ BigEndian4(packet'.total_body_size) = n
          /\ request.key < 65536 => BigEndian2(packet'.key_size) = request.key
      BY <2>1, <2>2, <2>3, TwoBytes, FourBytes, SMTT(30)
    <2>6. RequestInStep'
      BY <2>1, <2>2, <2>3, <2>5
         DEF RequestInStep, ServerKey, ServerValue, CalculateRequestSize,
             HeaderBytes, Extras
    <2> QED
      BY <2>1, <2>4, <2>6 DEF XInv, ExchangeTypeOK, Generated, Sent, ResponseInStep
  <1>4. CASE ServerReplies
    <2>1. /\ phase' = "answered" /\ phase = "sent" /\ size' = size
          /\ request' = request /\ packet' = packet /\ blocks' = blocks
          /\ reply' \in [extras : ExtrasSizes, key : ReplyKeySizes,
                         value : ValueSizes]
      BY <1>4 DEF ServerReplies
    <2>2. reply' \in [extras : Nat, key : Nat, value : Nat] /\ Sent(reply)'
      <3>1. PICK e \in ExtrasSizes, k \in ReplyKeySizes, v \in ValueSizes :
              reply' = [extras |-> e, key |-> k, value |-> v]
        BY <2>1
      <3>2. /\ e \in Nat /\ e <= 255 /\ k \in Nat /\ k <= 65535
            /\ v \in Nat /\ e + k + v <= MaxInt
        BY ExchangeAssumption, SMT DEF MaxInt
      <3> QED
        BY <3>1, <3>2 DEF Sent
    <2> QED
      BY <2>1, <2>2 DEF ExchangeTypeOK, Generated, RequestInStep, ServerKey,
                        ServerValue, ResponseInStep
  <1>5. CASE ReceiveResponse
    <2>1. /\ phase = "answered" /\ size' = size /\ request' = request
          /\ packet' = packet /\ reply' = reply
      BY <1>5 DEF ReceiveResponse
    <2>2. reply \in [extras : Nat, key : Nat, value : Nat]
      BY DEF ExchangeTypeOK
    <2>3. CASE Negative(Decoded(reply))
      <3>1. phase' = "dead_new" /\ blocks' = blocks
        BY <1>5, <2>3 DEF ReceiveResponse
      <3>2. reply.extras >= 128 \/ reply.key >= 128
        BY <2>2, <2>3, DecodedSizes DEF Sent
      <3> QED
        BY <2>1, <3>1, <3>2 DEF ExchangeTypeOK, Generated, RequestInStep, Sent,
                                ResponseInStep, Dead
    <2>4. CASE ~Negative(Decoded(reply))
      <3>1. phase' = "received" /\ blocks' = reply
        BY <1>5, <2>2, <2>4, DecodedSizes DEF ReceiveResponse
      <3> QED
        BY <2>1, <2>2, <3>1 DEF ExchangeTypeOK, Generated, RequestInStep,
                           ServerKey, ServerValue, Sent, ResponseInStep
    <2> QED
      BY <2>3, <2>4
  <1>6. CASE UpdateStatistics
    <2>1. CASE CalculateRequestSize(request) >= MaxSample
      BY <1>6, <2>1 DEF UpdateStatistics, ExchangeTypeOK, Generated,
                        RequestInStep, Sent, ResponseInStep, Dead
    <2>2. CASE ~(CalculateRequestSize(request) >= MaxSample)
      BY <1>6, <2>2 DEF UpdateStatistics, ExchangeTypeOK, Generated,
                        RequestInStep, Sent, ResponseInStep,
                        NoRequest, NoPacket, NoParts, MaxSize, MaxInt
    <2> QED
      BY <2>1, <2>2
  <1>7. CASE ExchangeEnded \/ UNCHANGED exchangeVars
    BY <1>7 DEF ExchangeEnded, exchangeVars, ExchangeTypeOK, Generated, RequestInStep,
                ServerKey, ServerValue, Sent, ResponseInStep
  <1> QED
    BY <1>1, <1>2, <1>3, <1>4, <1>5, <1>6, <1>7 DEF ExchangeNext

\* The invariant holds in every reachable state.
THEOREM ExchangeInvariance == ExchangeSpec => []XInv
  BY InitXInv, StepXInv, PTL DEF ExchangeSpec

\* No size that is read or written is a negative number.
THEOREM ExchangeTypeCorrect == ExchangeSpec => []ExchangeTypeOK
  BY ExchangeInvariance, PTL DEF XInv

\* Whatever the sizes of key and value, header, packet and statistics agree.
THEOREM RequestInStepHolds == ExchangeSpec => []RequestInStep
  BY ExchangeInvariance, PTL DEF XInv

\* Whatever sizes a response has, it is read as it is or not at all.
THEOREM ResponseInStepHolds == ExchangeSpec => []ResponseInStep
  BY ExchangeInvariance, PTL DEF XInv
===============================================================================

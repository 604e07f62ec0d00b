-------------------------- MODULE SizeKeyDistribution -------------------------
(***************************************************************************)
(* The popularity distribution a size/key file describes: LoadFile builds  *)
(* the array of entries, WarmupSequence queues them for the warmup, and    *)
(* GetRandomEntry searches the array for a random point of the cdf.        *)
(*                                                                         *)
(* A line of the file is blank, an entry, or malformed: one that lacks a   *)
(* field.  Of an entry the model keeps the cdf; the line it is on stands   *)
(* for its size and key.  A cdf is its integer part in units of 1 / Scale: *)
(* the targets it is compared with are multiples of that unit, so no       *)
(* comparison changes.                                                     *)
(***************************************************************************)
EXTENDS Integers, Sequences

CONSTANTS
  Scale,      \* 1000000 in the code: the target is a multiple of 1 / Scale
  Blank,      \* a line of length 0
  Malformed,  \* another line without all three fields
  Files       \* the size/key files there may be

ASSUME DistributionAssumption ==
  /\ Scale \in Nat \ {0}
  /\ Blank \notin 0..Scale /\ Malformed \notin 0..Scale /\ Blank # Malformed
  /\ Files \subseteq Seq(0..Scale \cup {Blank, Malformed})

VARIABLES
  file,       \* the file's lines
  pc,         \* the call that is under way
  line,       \* lines read so far by the pass under way
  i,          \* next slot LoadFile fills, or the constructor copies
  n_entries,  \* n_entries_
  entries,    \* size_key_entries_, indexed from 0
  sequence,   \* size_key_sequence_
  warmed,     \* history: what WarmupSequence::Next has returned
  target,     \* target_cdf
  bottom, top, current,  \* the search
  result      \* what the last GetRandomEntry returned

searchVars == <<target, bottom, top, current, result>>
loadVars   == <<file, line, i, n_entries, entries>>
warmupVars == <<sequence, warmed>>
dvars == <<pc, loadVars, warmupVars, searchVars>>

\* A slot nothing was stored in, or memory outside the array.
Garbage == [line |-> 0, cdf |-> 0]

Init ==
  /\ file \in Files
  /\ pc = "count" /\ line = 0 /\ i = 0
  /\ n_entries = 0 /\ entries = <<>>
  /\ sequence = <<>> /\ warmed = <<>>
  /\ target = 0 /\ bottom = 0 /\ top = 0 /\ current = 0
  /\ result = Garbage

------------------------------------------------------------------------------
(* LoadFile: one pass counts the lines, a second one reads the entries. *)

CountLine ==
  /\ pc = "count" /\ line < Len(file)
  /\ line' = line + 1
  /\ n_entries' = n_entries + 1
  /\ UNCHANGED <<pc, file, i, entries, warmupVars, searchVars>>

Allocate ==
  /\ pc = "count" /\ line = Len(file)
  /\ entries' = [k \in 0..(n_entries - 1) |-> Garbage]
  /\ pc' = "read" /\ line' = 0
  /\ UNCHANGED <<file, i, n_entries, warmupVars, searchVars>>

\* Mutant of ReadLine: the slot is the line's number, blank lines leave holes.
ReadLineHoles ==
  /\ pc = "read" /\ line < Len(file) /\ file[line + 1] # Malformed
  /\ line' = line + 1
  /\ IF file[line'] = Blank
     THEN UNCHANGED <<i, entries>>
     ELSE /\ entries' = [entries EXCEPT ![line] =
                            [line |-> line', cdf |-> file[line']]]
          /\ i' = i + 1
  /\ UNCHANGED <<pc, file, n_entries, warmupVars, searchVars>>

ReadLine ==
  /\ pc = "read" /\ line < Len(file) /\ file[line + 1] # Malformed
  /\ line' = line + 1
  /\ IF file[line'] = Blank
     THEN UNCHANGED <<i, entries>>
     ELSE /\ entries' = [entries EXCEPT ![i] =
                            [line |-> line', cdf |-> file[line']]]
          /\ i' = i + 1
  /\ UNCHANGED <<pc, file, n_entries, warmupVars, searchVars>>

\* strtok_r finds no further field: atof, atoi or string gets a NULL.
CrashInLine ==
  /\ pc = "read" /\ line < Len(file) /\ file[line + 1] = Malformed
  /\ pc' = "crashed"
  /\ UNCHANGED <<loadVars, warmupVars, searchVars>>

LoadDone ==
  /\ pc = "read" /\ line = Len(file)
  /\ pc' = "sequence" /\ i' = 0
  /\ UNCHANGED <<file, line, n_entries, entries, warmupVars, searchVars>>

------------------------------------------------------------------------------
(* WarmupSequence. *)

\* Whether size_key_entries_[k] points to an entry.
Valid(k) == k \in DOMAIN entries /\ entries[k] # Garbage

\* What reading through size_key_entries_[k] gives, if the read survives.
EntryAt(k) == IF Valid(k) THEN entries[k] ELSE Garbage

\* Mutant of PushEntry: one entry too many is copied.
PushEntryTooMany ==
  /\ pc = "sequence" /\ i <= n_entries
  /\ sequence' = Append(sequence, EntryAt(i))
  /\ i' = i + 1
  /\ UNCHANGED <<pc, file, line, n_entries, entries, warmed, searchVars>>

\* The constructor pushes a copy of every entry.
PushEntry ==
  /\ pc = "sequence" /\ i < n_entries
  /\ sequence' = Append(sequence, EntryAt(i))
  /\ i' = i + 1
  /\ UNCHANGED <<pc, file, line, n_entries, entries, warmed, searchVars>>

SequenceDone ==
  /\ pc = "sequence" /\ i = n_entries
  /\ pc' = "ready"
  /\ UNCHANGED <<loadVars, warmupVars, searchVars>>

WarmupHasNext == sequence # <<>>

\* Mutant of WarmupNext: front without pop.
WarmupNextStays ==
  /\ pc = "ready" /\ WarmupHasNext
  /\ warmed' = Append(warmed, Head(sequence))
  /\ UNCHANGED <<pc, loadVars, sequence, searchVars>>

WarmupNext ==
  /\ pc = "ready" /\ WarmupHasNext
  /\ warmed' = Append(warmed, Head(sequence))
  /\ sequence' = Tail(sequence)
  /\ UNCHANGED <<pc, loadVars, searchVars>>

------------------------------------------------------------------------------
(* GetRandomEntry: a binary search for the target. *)

\* (bottom + top) / 2: C truncates -1 / 2, the sum of an empty array, to 0.
FirstMiddle(b, t) == IF b + t < 0 THEN 0 ELSE (b + t) \div 2

\* Mutant of NextMiddle: without the + 1 the search stays where it is.
NextMiddleStays(b, t) == FirstMiddle(b, t)

\* Mutant of NextMiddle: two above the middle.
NextMiddleTooFar(b, t) == FirstMiddle(b, t) + 2

NextMiddle(b, t) == FirstMiddle(b, t) + 1

GetRandomEntry ==
  /\ pc = "ready"
  /\ target' \in 0..(Scale - 1)
  /\ bottom' = 0
  /\ top' = n_entries - 1
  /\ current' = FirstMiddle(bottom', top')
  /\ pc' = "search"
  /\ UNCHANGED <<loadVars, warmupVars, result>>

\* size_key_entries_[current]->cdf < target_cdf: anything if there is no entry.
BelowTarget ==
  IF Valid(current) THEN {entries[current].cdf < target} ELSE BOOLEAN

\* The second test repeats the first, so top is never lowered: an entry at or
\* above the target ends the search.
SearchStep ==
  /\ pc = "search" /\ top # bottom /\ TRUE \in BelowTarget
  /\ bottom' = current
  /\ current' = NextMiddle(bottom', top)
  /\ UNCHANGED <<pc, loadVars, warmupVars, target, top, result>>

\* Mutant of SearchEnd: the loop also ends with one entry left above bottom.
SearchEndEarly ==
  /\ pc = "search"
  /\ top <= bottom + 1 \/ FALSE \in BelowTarget
  /\ result' = EntryAt(current)
  /\ pc' = "ready"
  /\ UNCHANGED <<loadVars, warmupVars, target, bottom, top, current>>

SearchEnd ==
  /\ pc = "search"
  /\ top = bottom \/ FALSE \in BelowTarget
  /\ result' = EntryAt(current)
  /\ pc' = "ready"
  /\ UNCHANGED <<loadVars, warmupVars, target, bottom, top, current>>

\* Reading through a pointer that is none may end the process.
Crash ==
  /\ \/ pc = "search" /\ ~Valid(current)
     \/ pc = "sequence" /\ i < n_entries /\ ~Valid(i)
  /\ pc' = "crashed"
  /\ UNCHANGED <<loadVars, warmupVars, searchVars>>

------------------------------------------------------------------------------

Step ==
  \/ CountLine \/ Allocate \/ ReadLine \/ CrashInLine \/ LoadDone
  \/ PushEntry \/ SequenceDone \/ WarmupNext
  \/ GetRandomEntry \/ SearchStep \/ SearchEnd \/ Crash

Ended == pc = "crashed" /\ UNCHANGED dvars

Next == Step \/ Ended

Spec == Init /\ [][Next]_dvars

\* A search that is under way goes on; nothing makes the client call again.
FairSpec == Spec /\ WF_dvars(SearchStep \/ SearchEnd \/ Crash)
------------------------------------------------------------------------------
(* Properties. *)

\* The types of the loader, the warmup and the search.
DistributionTypeOK ==
  /\ file \in Files
  /\ pc \in {"count", "read", "sequence", "ready", "search", "crashed"}
  /\ line \in 0..Len(file) /\ i \in 0..Len(file) /\ n_entries \in 0..Len(file)
  /\ DOMAIN entries = IF pc = "count" THEN {} ELSE 0..(n_entries - 1)
  /\ \A k \in DOMAIN entries : entries[k] \in [line : Nat, cdf : 0..Scale]
  /\ sequence \in Seq([line : Nat, cdf : 0..Scale])
  /\ warmed \in Seq([line : Nat, cdf : 0..Scale])
  /\ target \in 0..Scale
  /\ bottom \in Int /\ top \in Int /\ current \in Int
  /\ result \in [line : Nat, cdf : 0..Scale]

\* The second pass puts the entries of the lines it has read in the first slots,
\* in the file's order and each once, although blank lines were counted too; a
\* slot it does not reach stays uninitialised.
EntriesInFileOrder ==
  /\ \A k \in DOMAIN entries : Valid(k) =>
       /\ entries[k].cdf = file[entries[k].line]
       /\ \A h \in 0..(k - 1) : Valid(h) /\ entries[h].line < entries[k].line
  /\ pc \in {"sequence", "ready", "search"} =>
       \A m \in 1..Len(file) : file[m] # Blank =>
         \E k \in DOMAIN entries : entries[k].line = m

\* The warmup goes over every entry once, in whatever order: what Next has returned
\* and what is still queued are as many as there are slots, with each entry of
\* the array in exactly one place.
WarmupCoversEntries ==
  pc \in {"ready", "search"} =>
    LET all == warmed \o sequence IN
      /\ Len(all) = n_entries
      /\ \A k \in DOMAIN entries : Valid(k) =>
           \E m \in DOMAIN all : \A h \in DOMAIN all :
             all[h] = entries[k] <=> h = m

\* A file with an entry on every line, and on one at least.
WellFormed == /\ file # <<>>
              /\ \A m \in 1..Len(file) : file[m] \notin {Blank, Malformed}

\* A file as it should be: the last cdf is 1.
Proper == WellFormed /\ file[Len(file)] = Scale

\* With an entry on every line neither the search nor its result leaves the array,
\* whatever the order of the cdf values, unless the last cdf is below the target.
SearchStaysInArray ==
  WellFormed /\ ((pc = "search" /\ ~Valid(current)) \/ pc = "crashed")
    => file[Len(file)] < target

\* On a proper file the entry returned has a cdf of at least the target, and the
\* search keeps an entry below the target, or the first one, at bottom.
ReturnsCoveringEntry ==
  Proper =>
    /\ (pc = "ready" /\ result # Garbage) => result.cdf >= target
    /\ pc = "search" => bottom = 0 \/ entries[bottom].cdf < target

\* Every turn of the loop less than halves what lies above current, so a search
\* takes a logarithmic number of turns.
RangeHalves ==
  [][(pc = "search" /\ pc' = "search" /\ top' # bottom')
       => 2 * (top' - current') < top - current]_dvars

\* A search on a proper file returns.
SearchTerminates == (pc = "search" /\ Proper) ~> pc = "ready"

------------------------------------------------------------------------------
(* What the comments of the code say and the code does not do. *)

\* Every entry has a share of its own of the cdf.
Increasing == /\ file[1] > 0
              /\ \A k \in 1..(Len(file) - 1) : file[k] < file[k + 1]

\* size_key_distribution.cc:46 "Selects a point in a uniform random space
\* determines the CDF value that corresponds to the empirical CDF distribution":
\* the entry returned is the first one whose cdf reaches the target.
ReturnsFirstCoveringEntry ==
  (Proper /\ Increasing /\ pc = "ready" /\ result # Garbage) =>
    \A m \in 1..(result.line - 1) : file[m] < target
===============================================================================

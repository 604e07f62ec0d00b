------------------------ MODULE StatisticManagerProofs -------------------------
(***************************************************************************)
(* Proofs about StatisticManager, for every value of its constants.        *)
(*                                                                         *)
(* CountsKept is kept by every step once it is known what a worker holds   *)
(* in its register (RegisterInv).  CountMatchesHistogram is about one      *)
(* interval and needs to know how far the count and the histograms are     *)
(* apart over all of them: each worker's are at most one sample apart, and *)
(* so is what was printed so far, times the workers (WorkerAheadInv,       *)
(* PrintedAheadInv).                                                       *)
(***************************************************************************)
EXTENDS StatisticManager, CollectionLemmas, TLAPS

\* The words of a statistic, their positions and what is merged into each.
LEMMA WordFacts ==
  /\ Words = {"s0", "microsecond", "millisecond", "second"}
  /\ WordOrder \in Seq(Words) /\ Len(WordOrder) = 4 /\ DOMAIN WordOrder = 1..4
  /\ WordOrder[1] = "s0" /\ WordOrder[2] = "microsecond"
  /\ WordOrder[3] = "millisecond" /\ WordOrder[4] = "second"
  /\ MergedWords = {"s0", "microsecond", "millisecond"}
  /\ \A x \in Words : MergedFrom(x) \in Words
  /\ \A x \in MergedWords : x \in Words /\ MergedFrom(x) = x
<1>1. /\ Len(WordOrder) = 4 /\ DOMAIN WordOrder = 1..4
      /\ WordOrder[1] = "s0" /\ WordOrder[2] = "microsecond"
      /\ WordOrder[3] = "millisecond" /\ WordOrder[4] = "second"
  BY DEF WordOrder
<1>2. Words = {"s0", "microsecond", "millisecond", "second"}
  <2>1. \A k \in 1..4 : k = 1 \/ k = 2 \/ k = 3 \/ k = 4
    OBVIOUS
  <2>2. QED
    BY <1>1, <2>1 DEF Words, Range
<1>3. WordOrder \in Seq(Words)
  BY <1>2 DEF WordOrder
<1>4. /\ MergedWords = {"s0", "microsecond", "millisecond"}
      /\ \A x \in Words : MergedFrom(x) \in Words
      /\ \A x \in MergedWords : x \in Words /\ MergedFrom(x) = x
  BY <1>2 DEF MergedWords, MergedFrom
<1>5. QED
  BY <1>1, <1>2, <1>3, <1>4

\* A word is found at its position.
LEMMA PositionFacts ==
  /\ \A x \in Words : Position(x) \in 1..4 /\ WordOrder[Position(x)] = x
  /\ \A k \in 1..4 : WordOrder[k] \in Words /\ Position(WordOrder[k]) = k
<1>1. \A k \in 1..4 : k = 1 \/ k = 2 \/ k = 3 \/ k = 4
  OBVIOUS
<1>2. \A k \in 1..4, l \in 1..4 : WordOrder[k] = WordOrder[l] => k = l
  BY <1>1, WordFacts
<1>3. \A k \in 1..4 : WordOrder[k] \in Words /\ Position(WordOrder[k]) = k
  BY <1>1, <1>2, WordFacts DEF Position
<1>4. \A x \in Words : \E k \in 1..4 : x = WordOrder[k]
  BY WordFacts
<1>5. QED
  BY <1>3, <1>4

------------------------------------------------------------------------------
(* Type correctness. *)

LEMMA InitType == Init => ManagerTypeOK
BY WordFacts, ManagerAssumption
   DEF Init, ManagerTypeOK, Empty, Workers, NotLoaded

LEMMA LoadType ==
  ASSUME ManagerTypeOK, NEW w \in Workers, Load(w)
  PROVE  ManagerTypeOK'
<1>1. WordOrder[at[w]] \in Words
  BY PositionFacts, WordFacts DEF ManagerTypeOK
<1>2. register' \in [Workers -> Nat \cup {NotLoaded}]
  BY <1>1 DEF ManagerTypeOK, Load
<1>3. started' \in 0..MaxSamples
  BY ManagerAssumption DEF ManagerTypeOK, Load
<1>4. QED
  BY <1>2, <1>3 DEF ManagerTypeOK, Load, managerVars, history

LEMMA StoreType ==
  ASSUME ManagerTypeOK, NEW w \in Workers, Store(w)
  PROVE  ManagerTypeOK'
<1> DEFINE x == WordOrder[at[w]]
<1>1. x \in Words
  BY PositionFacts, WordFacts DEF ManagerTypeOK
<1>2. register[w] + 1 \in Nat
  BY DEF ManagerTypeOK, Store
<1>3. memory' = [memory EXCEPT ![w][x] = register[w] + 1]
      /\ owed' = [owed EXCEPT ![x] = owed[x] + 1]
      /\ (raced' = raced \cup {x} \/ raced' = raced)
      /\ register' = [register EXCEPT ![w] = NotLoaded]
  BY DEF Store
<1>4. memory' \in [Workers -> [Words -> Nat]]
      /\ owed' \in [Words -> Int]
      /\ raced' \subseteq Words
      /\ register' \in [Workers -> Nat \cup {NotLoaded}]
  <2> HIDE DEF x
  <2>1. memory' \in [Workers -> [Words -> Nat]]
    BY <1>1, <1>2, <1>3 DEF ManagerTypeOK
  <2>2. QED
    BY <1>1, <1>3, <2>1 DEF ManagerTypeOK
<1>5. at' \in [Workers -> DOMAIN WordOrder] /\ subsecond' \in BOOLEAN
  <2>1. PICK k \in After(at[w]) :
          /\ at' = [at EXCEPT ![w] = k]
          /\ subsecond' = (subsecond /\ (at[w] = 1 =>
                             WordOrder[k] \in {"microsecond", "millisecond"}))
    BY DEF Store
  <2>2. k \in DOMAIN WordOrder
    BY WordFacts DEF After
  <2>3. at' \in [Workers -> DOMAIN WordOrder]
    BY <2>1, <2>2 DEF ManagerTypeOK
  <2>4. subsecond' \in BOOLEAN
    BY <2>1
  <2>5. QED
    BY <2>3, <2>4
<1>6. QED
  BY <1>4, <1>5 DEF ManagerTypeOK, Store, managerVars

LEMMA StartIntervalType ==
  ASSUME ManagerTypeOK, StartInterval
  PROVE  ManagerTypeOK'
<1>1. copy' \in [Words -> Nat]
  BY DEF StartInterval, NewCopy, Empty
<1>2. elapsed' \in 0..(Runtime + 1)
  <2>1. PICK late \in {0, 1} :
           elapsed' = IF elapsed + Interval + late > Runtime
                      THEN Runtime + 1 ELSE elapsed + Interval + late
    BY DEF StartInterval
  <2>2. elapsed \in Nat
    BY DEF ManagerTypeOK
  <2>3. QED
    BY <2>1, <2>2, ManagerAssumption
<1>3. worker' \in Workers /\ word' \in DOMAIN WordOrder
  BY WordFacts, ManagerAssumption DEF StartInterval, Workers
<1>4. QED
  BY <1>1, <1>2, <1>3 DEF ManagerTypeOK, StartInterval, workerVars, history

LEMMA MergeWordType ==
  ASSUME ManagerTypeOK, MergeWord
  PROVE  ManagerTypeOK'
<1> DEFINE x == WordOrder[word]
<1>1. x \in Words /\ MergedFrom(x) \in Words
  BY PositionFacts, WordFacts DEF ManagerTypeOK
<1>2. copy' \in [Words -> Nat]
  <2>1. copy' = [copy EXCEPT ![x] = copy[x] + memory[worker][MergedFrom(x)]]
    BY DEF MergeWord
  <2>2. memory[worker][MergedFrom(x)] \in Nat
    BY <1>1 DEF ManagerTypeOK
  <2> HIDE DEF x
  <2>3. QED
    BY <1>1, <2>1, <2>2 DEF ManagerTypeOK
<1>3. word' \in DOMAIN WordOrder /\ pc' \in {"merge", "reset"}
  BY WordFacts DEF ManagerTypeOK, MergeWord
<1>4. QED
  BY <1>2, <1>3 DEF ManagerTypeOK, MergeWord, workerVars, history

LEMMA ResetWordType ==
  ASSUME ManagerTypeOK, ResetWord
  PROVE  ManagerTypeOK'
<1> DEFINE x == WordOrder[word]
<1>1. x \in Words
  BY PositionFacts, WordFacts DEF ManagerTypeOK
<1>2. memory' = [memory EXCEPT ![worker][x] = 0]
      /\ (raced' = raced \cup {x} \/ raced' = raced)
  BY DEF ResetWord, Cleared
<1>3. memory' \in [Workers -> [Words -> Nat]] /\ raced' \subseteq Words
  <2> HIDE DEF x
  <2>1. QED
    BY <1>1, <1>2 DEF ManagerTypeOK
<1>4. word' \in DOMAIN WordOrder
  <2>1. word \in 1..4 /\ ((word' = word + 1 /\ word < 4) \/ word' = 1)
    BY WordFacts DEF ManagerTypeOK, ResetWord
  <2>2. QED
    BY <2>1, WordFacts
<1>5. worker' \in Workers /\ pc' \in {"merge", "reset", "print"}
  BY ManagerAssumption, SMTT(20) DEF ManagerTypeOK, ResetWord, IsLast, Workers
<1>6. QED
  BY <1>3, <1>4, <1>5 DEF ManagerTypeOK, ResetWord, workerVars

LEMMA PrintType ==
  ASSUME ManagerTypeOK, PrintStatInterval
  PROVE  ManagerTypeOK'
BY DEF ManagerTypeOK, PrintStatInterval, workerVars

LEMMA TypeStep == ManagerTypeOK /\ [Next]_allVars => ManagerTypeOK'
<1> SUFFICES ASSUME ManagerTypeOK, [Next]_allVars
             PROVE  ManagerTypeOK'
  OBVIOUS
<1>1. CASE UNCHANGED allVars
  BY <1>1 DEF ManagerTypeOK, allVars, managerVars, workerVars, history
<1>2. CASE Ended
  BY <1>2 DEF Ended, ManagerTypeOK, allVars, managerVars, workerVars, history
<1>3. CASE StatisticsLoop
  BY <1>3, StartIntervalType, MergeWordType, ResetWordType, PrintType
     DEF StatisticsLoop
<1>4. ASSUME NEW w \in Workers, Load(w) \/ Store(w)
      PROVE  ManagerTypeOK'
  BY <1>4, LoadType, StoreType
<1>5. QED
  BY <1>1, <1>2, <1>3, <1>4 DEF Next

\* The variables of the loop, of the workers and of the history keep their types.
THEOREM ManagerType == Spec => []ManagerTypeOK
<1>1. QED
  BY InitType, TypeStep, PTL DEF Spec

------------------------------------------------------------------------------
(* Every sample is printed once. *)

\* What worker w holds in word x and no copy has.
UnmergedOf(x) == [w \in Workers |-> IF InWindow(w, x) THEN 0 ELSE memory[w][x]]

\* A worker's register holds what is in the word it is adding to.
RegisterInv ==
  \A w \in Workers : register[w] # NotLoaded =>
    \/ WordOrder[at[w]] \in raced
    \/ register[w] = memory[w][WordOrder[at[w]]]

LEMMA WorkersFinite == IsFiniteSet(Workers)
BY FS_Interval, ManagerAssumption DEF Workers

\* When the portions of all workers but one stay, the sum changes by that one.
LEMMA UnmergedChange ==
  ASSUME ManagerTypeOK, ManagerTypeOK', NEW x \in Words, NEW w \in Workers,
         \A v \in Workers \ {w} : UnmergedOf(x)'[v] = UnmergedOf(x)[v]
  PROVE  /\ Unmerged(x) \in Int /\ Unmerged(x)' \in Int
         /\ Unmerged(x)' = Unmerged(x) + UnmergedOf(x)'[w] - UnmergedOf(x)[w]
<1> DEFINE f == UnmergedOf(x)
           g == UnmergedOf(x)'
<1>1. Unmerged(x) = SumFunctionOnSet(f, Workers)
  BY DEF Unmerged, UnmergedOf, SumFunction
<1>2. Unmerged(x)' = SumFunctionOnSet(g, Workers)
  BY DEF Unmerged, UnmergedOf, SumFunction
<1>3. \A v \in Workers : f[v] \in Int /\ g[v] \in Int
  BY DEF UnmergedOf, ManagerTypeOK
<1>4. \A v \in Workers : v # w => f[v] = g[v]
  OBVIOUS
<1> HIDE DEF f, g
<1>5. SumFunctionOnSet(g, Workers) = SumFunctionOnSet(f, Workers) + g[w] - f[w]
  BY <1>3, <1>4, WorkersFinite, SumUpdate
<1>6. SumFunctionOnSet(f, Workers) \in Int /\ SumFunctionOnSet(g, Workers) \in Int
  BY <1>3, WorkersFinite, SumType
<1>7. QED
  BY <1>1, <1>2, <1>5, <1>6 DEF f, g

\* When every portion stays, so does the sum.
LEMMA UnmergedStays ==
  ASSUME ManagerTypeOK, ManagerTypeOK', NEW x \in Words,
         \A v \in Workers : UnmergedOf(x)'[v] = UnmergedOf(x)[v]
  PROVE  Unmerged(x) \in Int /\ Unmerged(x)' = Unmerged(x)
<1>1. 1 \in Workers
  BY ManagerAssumption DEF Workers
<1>2. UnmergedOf(x)[1] \in Int
  BY <1>1 DEF UnmergedOf, ManagerTypeOK
<1>3. QED
  BY <1>1, <1>2, UnmergedChange

(* How each step changes the portions, and the registers. *)

\* A step that leaves the words, the loop's place and the registers alone.
LEMMA QuietPortions ==
  ASSUME RegisterInv, UNCHANGED <<memory, at, register, raced>>,
         \A v \in Workers, x \in Words : InWindow(v, x)' <=> InWindow(v, x)
  PROVE  /\ RegisterInv'
         /\ \A v \in Workers, x \in Words :
              UnmergedOf(x)'[v] = UnmergedOf(x)[v]
BY DEF RegisterInv, UnmergedOf

LEMMA LoadPortions ==
  ASSUME ManagerTypeOK, RegisterInv, NEW w \in Workers, Load(w)
  PROVE  /\ RegisterInv'
         /\ \A v \in Workers, x \in Words :
              UnmergedOf(x)'[v] = UnmergedOf(x)[v]
<1>1. RegisterInv'
  BY DEF RegisterInv, Load, ManagerTypeOK, history
<1>2. QED
  BY <1>1 DEF UnmergedOf, InWindow, Load, managerVars

LEMMA StorePortions ==
  ASSUME ManagerTypeOK, RegisterInv, NEW w \in Workers, Store(w)
  PROVE  LET y == WordOrder[at[w]] IN
         /\ RegisterInv'
         /\ y \in Words
         /\ owed' = [owed EXCEPT ![y] = owed[y] + 1]
         /\ raced \subseteq raced'
         /\ y \notin raced' => ~InWindow(w, y)
         /\ \A v \in Workers, x \in Words : x \notin raced' =>
              UnmergedOf(x)'[v] = IF v = w /\ x = y THEN UnmergedOf(x)[v] + 1
                                                    ELSE UnmergedOf(x)[v]
<1> DEFINE y == WordOrder[at[w]]
<1>1. y \in Words
  BY PositionFacts, WordFacts DEF ManagerTypeOK
<1>2. /\ memory' = [memory EXCEPT ![w][y] = register[w] + 1]
      /\ owed' = [owed EXCEPT ![y] = owed[y] + 1]
      /\ raced' = IF InWindow(w, y) THEN raced \cup {y} ELSE raced
      /\ register' = [register EXCEPT ![w] = NotLoaded]
      /\ register[w] # NotLoaded
      /\ UNCHANGED managerVars
  BY DEF Store
<1>3. RegisterInv'
  <2> SUFFICES ASSUME NEW v \in Workers, register'[v] # NotLoaded
               PROVE  \/ WordOrder[at'[v]] \in raced'
                      \/ register'[v] = memory'[v][WordOrder[at'[v]]]
    BY DEF RegisterInv
  <2>1. v # w /\ register'[v] = register[v]
    BY <1>2 DEF ManagerTypeOK
  <2>2. at'[v] = at[v]
    <3>1. PICK k \in After(at[w]) : at' = [at EXCEPT ![w] = k]
      BY DEF Store
    <3>2. QED
      BY <2>1, <3>1 DEF ManagerTypeOK
  <2>3. memory'[v] = memory[v] /\ raced \subseteq raced'
    BY <1>2, <2>1 DEF ManagerTypeOK
  <2>4. QED
    BY <2>1, <2>2, <2>3 DEF RegisterInv
<1>4. y \in raced \/ register[w] = memory[w][y]
  BY <1>2 DEF RegisterInv
<1>5. \A v \in Workers, x \in Words : InWindow(v, x)' <=> InWindow(v, x)
  BY <1>2 DEF InWindow, managerVars
<1>6. \A v \in Workers, x \in Words :
         memory'[v][x] = IF v = w /\ x = y THEN register[w] + 1 ELSE memory[v][x]
  <2> HIDE DEF y
  <2>1. QED
    BY <1>1, <1>2 DEF ManagerTypeOK
<1> HIDE DEF y
<1>7. ASSUME NEW v \in Workers, NEW x \in Words, x \notin raced'
      PROVE  UnmergedOf(x)'[v] = IF v = w /\ x = y THEN UnmergedOf(x)[v] + 1
                                                   ELSE UnmergedOf(x)[v]
  <2>1. UnmergedOf(x)'[v] = IF InWindow(v, x) THEN 0 ELSE memory'[v][x]
    BY <1>5 DEF UnmergedOf
  <2>2. v = w /\ x = y => ~InWindow(v, x) /\ register[w] = memory[w][x]
    BY <1>2, <1>4, <1>7
  <2>3. QED
    BY <1>6, <2>1, <2>2 DEF UnmergedOf
<1>8. QED
  BY <1>1, <1>2, <1>3, <1>7 DEF y

LEMMA StartIntervalPortions ==
  ASSUME ManagerTypeOK, RegisterInv, StartInterval
  PROVE  /\ RegisterInv'
         /\ \A v \in Workers, x \in Words :
              UnmergedOf(x)'[v] = UnmergedOf(x)[v]
<1>1. \A x \in Words : Position(x) \in 1..4
  BY PositionFacts
<1>2. \A v \in Workers, x \in Words : InWindow(v, x)' <=> InWindow(v, x)
  BY <1>1 DEF InWindow, StartInterval
<1>3. QED
  BY <1>2, QuietPortions DEF StartInterval, workerVars, history

LEMMA MergeWordPortions ==
  ASSUME ManagerTypeOK, RegisterInv, MergeWord
  PROVE  LET y == WordOrder[word] IN
         /\ RegisterInv'
         /\ y \in Words /\ worker \in Workers
         /\ \/ word \in 1..3 /\ word' = word + 1 /\ pc' = "merge"
            \/ word = 4 /\ word' = 1 /\ pc' = "reset"
         /\ UnmergedOf(y)[worker] = memory[worker][y]
         /\ \A v \in Workers, x \in Words :
              UnmergedOf(x)'[v] = IF v = worker /\ x = y THEN 0
                                                         ELSE UnmergedOf(x)[v]
         /\ word \in 3..4 => \A x \in MergedWords : UnmergedOf(x)'[worker] = 0
<1> DEFINE y == WordOrder[word]
<1>1. y \in Words /\ Position(y) = word /\ word \in 1..4 /\ worker \in Workers
  BY PositionFacts, WordFacts DEF ManagerTypeOK
<1>2. RegisterInv'
  BY DEF RegisterInv, MergeWord, workerVars, history
<1>3. /\ pc = "merge" /\ worker' = worker /\ memory' = memory
      /\ \/ word \in 1..3 /\ word' = word + 1 /\ pc' = "merge"
         \/ word = 4 /\ word' = 1 /\ pc' = "reset"
  BY <1>1, WordFacts DEF MergeWord
<1>4. ASSUME NEW v \in Workers, NEW x \in Words
      PROVE  /\ InWindow(v, x) <=> v = worker /\ Position(x) < word
             /\ InWindow(v, x)' <=> v = worker /\ Position(x) <= word
  <2>1. Position(x) \in 1..4
    BY PositionFacts
  <2>2. QED
    BY <1>1, <1>3, <2>1 DEF InWindow
<1>5. \A x \in Words : Position(x) \in 1..4 /\ (Position(x) = word <=> x = y)
  BY <1>1, PositionFacts
<1> HIDE DEF y
<1>6. ASSUME NEW v \in Workers, NEW x \in Words
      PROVE  UnmergedOf(x)'[v] = IF v = worker /\ x = y THEN 0
                                                        ELSE UnmergedOf(x)[v]
  <2>1. Position(x) \in 1..4 /\ (Position(x) = word <=> x = y)
    BY <1>5
  <2>2. QED
    BY <1>1, <1>3, <1>4, <2>1 DEF UnmergedOf
<1>7. UnmergedOf(y)[worker] = memory[worker][y]
  BY <1>1, <1>4, <1>5 DEF UnmergedOf
<1>8. ASSUME word \in 3..4, NEW x \in MergedWords
      PROVE  UnmergedOf(x)'[worker] = 0
  <2>1. x \in Words /\ Position(x) \in 1..3
    <3>1. x \in Words /\ x # WordOrder[4] /\ WordOrder[Position(x)] = x
      BY PositionFacts, WordFacts
    <3>2. Position(x) # 4
      BY <3>1
    <3>3. QED
      BY <1>5, <3>1, <3>2
  <2>2. \A v \in Workers : v = worker => InWindow(v, x)'
    BY <1>1, <1>4, <1>8, <2>1
  <2>3. \A v \in Workers : UnmergedOf(x)'[v] = IF InWindow(v, x)' THEN 0 ELSE memory'[v][x]
    BY DEF UnmergedOf
  <2>4. QED
    BY <1>1, <2>2, <2>3
<1>9. QED
  BY <1>1, <1>2, <1>3, <1>6, <1>7, <1>8 DEF y

LEMMA ResetWordPortions ==
  ASSUME ManagerTypeOK, RegisterInv, ResetWord
  PROVE  /\ RegisterInv'
         /\ raced \subseteq raced'
         /\ pc' \in {"reset", "merge", "print"}
         /\ pc' = "merge" => word' = 1
         /\ \A v \in Workers, x \in Words :
              UnmergedOf(x)'[v] = UnmergedOf(x)[v]
<1> DEFINE y == WordOrder[word]
<1>1. y \in Words /\ Position(y) = word /\ word \in 1..4 /\ worker \in Workers
  BY PositionFacts, WordFacts DEF ManagerTypeOK
<1>2. /\ pc = "reset" /\ UNCHANGED <<at, register>>
      /\ memory' = [memory EXCEPT ![worker][y] = 0]
      /\ raced' = IF register[worker] # NotLoaded /\ WordOrder[at[worker]] = y
                  THEN raced \cup {y} ELSE raced
  BY DEF ResetWord, Cleared, workerVars
<1>3. \/ word \in 1..3 /\ word' = word + 1 /\ pc' = "reset" /\ worker' = worker
      \/ word = 4 /\ word' = 1 /\ pc' \in {"merge", "print"}
  BY <1>1, WordFacts DEF ResetWord
<1>4. \A v \in Workers, x \in Words :
         memory'[v][x] = IF v = worker /\ x = y THEN 0 ELSE memory[v][x]
  <2> HIDE DEF y
  <2>1. QED
    BY <1>1, <1>2 DEF ManagerTypeOK
<1>5. RegisterInv'
  <2> SUFFICES ASSUME NEW v \in Workers, register[v] # NotLoaded
               PROVE  \/ WordOrder[at[v]] \in raced'
                      \/ register[v] = memory'[v][WordOrder[at[v]]]
    BY <1>2 DEF RegisterInv
  <2>1. WordOrder[at[v]] \in Words
    BY PositionFacts, WordFacts DEF ManagerTypeOK
  <2>2. QED
    BY <1>2, <1>4, <2>1 DEF RegisterInv
<1>6. ASSUME NEW v \in Workers, NEW x \in Words
      PROVE  /\ InWindow(v, x) <=> v = worker /\ Position(x) >= word
             /\ InWindow(v, x)' <=> v = worker /\ Position(x) > word
  <2>1. Position(x) \in 1..4
    BY PositionFacts
  <2>2. QED
    BY <1>1, <1>2, <1>3, <2>1 DEF InWindow
<1>7. \A x \in Words : Position(x) \in 1..4 /\ (Position(x) = word <=> x = y)
  BY <1>1, PositionFacts
<1> HIDE DEF y
<1>8. ASSUME NEW v \in Workers, NEW x \in Words
      PROVE  UnmergedOf(x)'[v] = UnmergedOf(x)[v]
  <2>1. Position(x) \in 1..4 /\ (Position(x) = word <=> x = y)
    BY <1>7
  <2>2. QED
    BY <1>1, <1>4, <1>6, <2>1 DEF UnmergedOf
<1>9. QED
  BY <1>2, <1>3, <1>5, <1>8

LEMMA PrintPortions ==
  ASSUME RegisterInv, PrintStatInterval
  PROVE  /\ RegisterInv'
         /\ \A v \in Workers, x \in Words :
              UnmergedOf(x)'[v] = UnmergedOf(x)[v]
<1>1. \A v \in Workers, x \in Words : InWindow(v, x)' <=> InWindow(v, x)
  BY DEF InWindow, PrintStatInterval
<1>2. QED
  BY <1>1, QuietPortions DEF PrintStatInterval, workerVars

------------------------------------------------------------------------------
(* Each step keeps CountsKept. *)

LEMMA LoadCounts ==
  ASSUME ManagerTypeOK, ManagerTypeOK', RegisterInv, CountsKept,
         NEW w \in Workers, Load(w)
  PROVE  RegisterInv' /\ CountsKept'
<1>1. \A x \in Words : Unmerged(x)' = Unmerged(x) /\ Pending(x)' = Pending(x)
  BY LoadPortions, UnmergedStays DEF Pending, Load, managerVars
<1>2. owed' = owed /\ raced' = raced /\ RegisterInv'
  BY LoadPortions DEF Load, history
<1>3. QED
  BY <1>1, <1>2, WordFacts DEF CountsKept

LEMMA StoreCounts ==
  ASSUME ManagerTypeOK, ManagerTypeOK', RegisterInv, CountsKept,
         NEW w \in Workers, Store(w)
  PROVE  RegisterInv' /\ CountsKept'
<1>1. ASSUME NEW x \in Words, x \in MergedWords, x \notin raced'
      PROVE  Pending(x)' + Unmerged(x)' = owed'[x]
  <2> DEFINE y == WordOrder[at[w]]
  <2>1. /\ y \in Words
        /\ owed' = [owed EXCEPT ![y] = owed[y] + 1]
        /\ x \notin raced
        /\ \A v \in Workers :
              UnmergedOf(x)'[v] = IF v = w /\ x = y THEN UnmergedOf(x)[v] + 1
                                                    ELSE UnmergedOf(x)[v]
    BY <1>1, StorePortions
  <2> HIDE DEF y
  <2>2. /\ Unmerged(x) \in Int
        /\ Unmerged(x)' = Unmerged(x) + UnmergedOf(x)'[w] - UnmergedOf(x)[w]
    BY <2>1, UnmergedChange
  <2>3. UnmergedOf(x)[w] \in Int /\ Pending(x) \in Int /\ owed[x] \in Int
    BY DEF UnmergedOf, Pending, ManagerTypeOK
  <2>4. Pending(x)' = Pending(x)
    BY DEF Pending, Store, managerVars
  <2>5. Pending(x) + Unmerged(x) = owed[x]
    BY <1>1, <2>1 DEF CountsKept
  <2>6. owed'[x] = IF x = y THEN owed[x] + 1 ELSE owed[x]
    BY <2>1 DEF ManagerTypeOK
  <2>7. QED
    BY <2>1, <2>2, <2>3, <2>4, <2>5, <2>6
<1>2. QED
  BY <1>1, StorePortions, WordFacts DEF CountsKept

LEMMA StartIntervalCounts ==
  ASSUME ManagerTypeOK, ManagerTypeOK', RegisterInv, CountsKept, StartInterval
  PROVE  RegisterInv' /\ CountsKept'
<1>1. ASSUME NEW x \in Words
      PROVE  Unmerged(x)' = Unmerged(x) /\ Pending(x)' = Pending(x)
  <2>1. Pending(x)' = 0 /\ Pending(x) = 0
    BY DEF Pending, StartInterval, NewCopy, Empty
  <2>2. QED
    BY <2>1, StartIntervalPortions, UnmergedStays
<1>2. QED
  BY <1>1, StartIntervalPortions, WordFacts DEF CountsKept, StartInterval, history

LEMMA MergeWordCounts ==
  ASSUME ManagerTypeOK, ManagerTypeOK', RegisterInv, CountsKept, MergeWord
  PROVE  RegisterInv' /\ CountsKept'
<1>1. ASSUME NEW x \in Words, x \in MergedWords, x \notin raced
      PROVE  Pending(x)' + Unmerged(x)' = owed[x]
  <2> DEFINE y == WordOrder[word]
  <2>1. /\ y \in Words /\ worker \in Workers /\ pc' \in {"merge", "reset"}
        /\ UnmergedOf(y)[worker] = memory[worker][y]
        /\ \A v \in Workers :
              UnmergedOf(x)'[v] = IF v = worker /\ x = y THEN 0
                                                         ELSE UnmergedOf(x)[v]
    BY MergeWordPortions
  <2>2. /\ pc = "merge" /\ MergedFrom(x) = x
        /\ copy' = [copy EXCEPT ![y] = copy[y] + memory[worker][MergedFrom(y)]]
    BY <1>1, WordFacts DEF MergeWord
  <2> HIDE DEF y
  <2>3. /\ Unmerged(x) \in Int
        /\ Unmerged(x)' = Unmerged(x) + UnmergedOf(x)'[worker] - UnmergedOf(x)[worker]
    BY <2>1, UnmergedChange
  <2>4. /\ UnmergedOf(x)[worker] \in Int /\ memory[worker][x] \in Int
        /\ copy[x] \in Int /\ owed[x] \in Int
    BY <2>1 DEF UnmergedOf, ManagerTypeOK
  <2>5. Pending(x) = copy[x] /\ Pending(x)' = copy'[x]
    BY <2>1, <2>2 DEF Pending
  <2>6. copy[x] + Unmerged(x) = owed[x]
    BY <1>1, <2>5 DEF CountsKept
  <2>7. copy'[x] = IF x = y THEN copy[x] + memory[worker][x] ELSE copy[x]
    BY <2>1, <2>2 DEF ManagerTypeOK
  <2>8. QED
    BY <2>1, <2>3, <2>4, <2>5, <2>6, <2>7
<1>2. QED
  BY <1>1, MergeWordPortions, WordFacts DEF CountsKept, MergeWord, history

LEMMA ResetWordCounts ==
  ASSUME ManagerTypeOK, ManagerTypeOK', RegisterInv, CountsKept, ResetWord
  PROVE  RegisterInv' /\ CountsKept'
<1>1. ASSUME NEW x \in Words
      PROVE  Unmerged(x)' = Unmerged(x) /\ Pending(x)' = Pending(x)
  <2>1. pc = "reset" /\ pc' \in {"reset", "merge", "print"} /\ copy' = copy
    BY ResetWordPortions DEF ResetWord
  <2>2. Pending(x)' = Pending(x)
    BY <2>1 DEF Pending
  <2>3. QED
    BY <2>2, ResetWordPortions, UnmergedStays
<1>2. QED
  BY <1>1, ResetWordPortions, WordFacts DEF CountsKept, ResetWord

LEMMA PrintCounts ==
  ASSUME ManagerTypeOK, ManagerTypeOK', RegisterInv, CountsKept, PrintStatInterval
  PROVE  RegisterInv' /\ CountsKept'
<1>1. /\ pc = "print" /\ pc' \in {"sleep", "ended"} /\ raced' = raced
      /\ owed' = [x \in Words |-> owed[x] - copy[x]]
  BY DEF PrintStatInterval
<1>2. ASSUME NEW x \in Words, x \in MergedWords, x \notin raced
      PROVE  Pending(x)' + Unmerged(x)' = owed'[x]
  <2>1. Unmerged(x) \in Int /\ Unmerged(x)' = Unmerged(x)
    BY PrintPortions, UnmergedStays
  <2>2. Pending(x) = copy[x] /\ Pending(x)' = 0 /\ copy[x] \in Int /\ owed[x] \in Int
    BY <1>1 DEF Pending, ManagerTypeOK
  <2>3. copy[x] + Unmerged(x) = owed[x]
    BY <1>2, <2>2 DEF CountsKept
  <2>4. QED
    BY <1>1, <2>1, <2>2, <2>3
<1>3. QED
  BY <1>1, <1>2, PrintPortions, WordFacts DEF CountsKept

LEMMA CountsStep ==
  ManagerTypeOK /\ RegisterInv /\ CountsKept /\ [Next]_allVars
    => RegisterInv' /\ CountsKept'
<1> SUFFICES ASSUME ManagerTypeOK, RegisterInv, CountsKept, [Next]_allVars
             PROVE  RegisterInv' /\ CountsKept'
  OBVIOUS
<1>0. ManagerTypeOK'
  BY TypeStep
<1>1. CASE UNCHANGED allVars
  <2>1. \A v \in Workers, x \in Words : InWindow(v, x)' <=> InWindow(v, x)
    BY <1>1 DEF InWindow, allVars, managerVars
  <2>2. /\ RegisterInv'
        /\ \A v \in Workers, x \in Words : UnmergedOf(x)'[v] = UnmergedOf(x)[v]
    BY <1>1, <2>1, QuietPortions DEF allVars, workerVars, history
  <2>3. \A x \in Words : Unmerged(x)' = Unmerged(x) /\ Pending(x)' = Pending(x)
    BY <1>0, <1>1, <2>2, UnmergedStays DEF Pending, allVars, managerVars
  <2>4. QED
    BY <1>1, <2>2, <2>3, WordFacts DEF CountsKept, allVars, history
<1>2. CASE Ended
  BY <1>1, <1>2 DEF Ended
<1>3. CASE StatisticsLoop
  BY <1>0, <1>3, StartIntervalCounts, MergeWordCounts, ResetWordCounts, PrintCounts
     DEF StatisticsLoop
<1>4. ASSUME NEW w \in Workers, Load(w) \/ Store(w)
      PROVE  RegisterInv' /\ CountsKept'
  BY <1>0, <1>4, LoadCounts, StoreCounts
<1>5. QED
  BY <1>1, <1>2, <1>3, <1>4 DEF Next

LEMMA InitCounts == Init => RegisterInv /\ CountsKept
<1> SUFFICES ASSUME Init
             PROVE  RegisterInv /\ CountsKept
  OBVIOUS
<1>1. RegisterInv
  BY DEF Init, RegisterInv
<1>2. ASSUME NEW x \in Words
      PROVE  Unmerged(x) = 0
  <2>1. \A v \in Workers : UnmergedOf(x)[v] = 0
    BY DEF Init, UnmergedOf, InWindow, Empty
  <2>2. SumFunctionOnSet(UnmergedOf(x), Workers) = 0
    BY <2>1, WorkersFinite, SumOfZeros
  <2>3. QED
    BY <2>2 DEF Unmerged, UnmergedOf, SumFunction
<1>3. QED
  BY <1>1, <1>2, WordFacts DEF Init, CountsKept, Pending, Empty

\* In the count and in each histogram below a second a sample is printed in exactly
\* one interval or still to be printed, unless an addition and a reset overlapped.
THEOREM SamplesCountedOnce == Spec => []CountsKept
<1>1. Init => ManagerTypeOK /\ RegisterInv /\ CountsKept
  BY InitType, InitCounts
<1>2. ManagerTypeOK /\ RegisterInv /\ CountsKept /\ [Next]_allVars
        => (ManagerTypeOK /\ RegisterInv /\ CountsKept)'
  BY TypeStep, CountsStep
<1>3. QED
  BY <1>1, <1>2, PTL DEF Spec

------------------------------------------------------------------------------
(* The count and the histograms of one interval. *)

\* Nothing is known of a word an addition and a reset overlapped at, nor of the
\* count once a sample is in no merged histogram.
Comparable == subsecond /\ raced \cap MergedWords = {}

\* As long as it is TRUE, no worker is at the seconds.
SubsecondInv == subsecond => \A w \in Workers : at[w] \in 1..3

\* 1 for a worker that has counted a sample and not put it in a histogram.
LeadOf == [w \in Workers |-> IF at[w] = 1 THEN 0 ELSE 1]

\* What worker w holds in the histograms below a second and no copy has.
BinnedOf ==
  [w \in Workers |-> UnmergedOf("microsecond")[w] + UnmergedOf("millisecond")[w]]

\* By how much the counts of worker w that are in copies, this interval's and
\* the earlier ones', exceed the histogram samples that are.
AheadOf == [w \in Workers |-> LeadOf[w] - UnmergedOf("s0")[w] + BinnedOf[w]]

\* Between the merges of its words there is no telling; at any other time it is
\* one sample at most.
Merging(w) == pc = "merge" /\ w = worker /\ word \in 2..3

WorkerAheadInv ==
  Comparable => \A w \in Workers : Merging(w) \/ AheadOf[w] \in 0..1

\* The same of what was printed, over all workers: nothing but a print changes
\* the difference.
PrintedAhead ==
  owed["s0"] - (owed["microsecond"] + owed["millisecond"])
    - SumFunctionOnSet(LeadOf, Workers)

PrintedAheadInv == Comparable => PrintedAhead \in (-NWorkers)..0

LEMMA SubsecondStep ==
  ManagerTypeOK /\ SubsecondInv /\ [Next]_allVars
    => SubsecondInv' /\ (subsecond' => subsecond)
<1> SUFFICES ASSUME ManagerTypeOK, SubsecondInv, [Next]_allVars
             PROVE  SubsecondInv' /\ (subsecond' => subsecond)
  OBVIOUS
<1>1. CASE UNCHANGED <<at, subsecond>>
  BY <1>1 DEF SubsecondInv
<1>2. ASSUME NEW w \in Workers, Store(w)
      PROVE  SubsecondInv' /\ (subsecond' => subsecond)
  <2>1. PICK k \in After(at[w]) :
          /\ at' = [at EXCEPT ![w] = k]
          /\ subsecond' = (subsecond /\ (at[w] = 1 =>
                             WordOrder[k] \in {"microsecond", "millisecond"}))
    BY <1>2 DEF Store
  <2>2. ASSUME subsecond'
        PROVE  k \in 1..3
    <3>1. at[w] # 1 => k = 1
      BY DEF After
    <3>2. at[w] = 1 => k \in 1..4 /\ WordOrder[k] # "second"
      BY <2>1, <2>2, WordFacts DEF After
    <3>3. QED
      BY <3>1, <3>2, WordFacts
  <2>3. ASSUME subsecond', NEW v \in Workers
        PROVE  at'[v] \in 1..3
    <3>1. at[v] \in 1..3
      BY <2>1, <2>3 DEF SubsecondInv
    <3>2. QED
      BY <2>1, <2>2, <2>3, <3>1 DEF ManagerTypeOK
  <2>4. QED
    BY <2>1, <2>3 DEF SubsecondInv
<1>3. QED
  BY <1>1, <1>2
     DEF Next, StatisticsLoop, Ended, Load, StartInterval, MergeWord, ResetWord,
         PrintStatInterval, allVars, workerVars, history

\* The samples a worker's words are apart are those of its portions and its lead.
LEMMA AheadSum ==
  ASSUME ManagerTypeOK
  PROVE  /\ \A w \in Workers : /\ LeadOf[w] \in 0..1 /\ AheadOf[w] \in Int
                               /\ \A x \in MergedWords : UnmergedOf(x)[w] \in Nat
         /\ \A x \in MergedWords : Unmerged(x) \in Int
         /\ SumFunctionOnSet(LeadOf, Workers) \in Int
         /\ SumFunctionOnSet(AheadOf, Workers)
              = SumFunctionOnSet(LeadOf, Workers) - Unmerged("s0")
                  + (Unmerged("microsecond") + Unmerged("millisecond"))
<1> DEFINE u == UnmergedOf("s0")
           m == UnmergedOf("microsecond")
           n == UnmergedOf("millisecond")
           both == [w \in Workers |-> LeadOf[w] + BinnedOf[w]]
           Total(f) == SumFunctionOnSet(f, Workers)
<1>1. /\ Unmerged("s0") = Total(u)
      /\ Unmerged("microsecond") = Total(m)
      /\ Unmerged("millisecond") = Total(n)
  BY DEF Unmerged, UnmergedOf, SumFunction
<1>2. \A w \in Workers : LeadOf[w] \in 0..1
  BY DEF LeadOf
<1>3. ASSUME NEW x \in MergedWords, NEW w \in Workers
      PROVE  UnmergedOf(x)[w] \in Nat
  <2>1. x \in Words
    BY WordFacts
  <2>2. QED
    BY <2>1 DEF UnmergedOf, ManagerTypeOK
<1>4. \A w \in Workers : u[w] \in Nat /\ m[w] \in Nat /\ n[w] \in Nat
  BY <1>3, WordFacts
<1>5. \A w \in Workers : /\ BinnedOf[w] = m[w] + n[w]
                         /\ AheadOf[w] = LeadOf[w] - u[w] + BinnedOf[w]
  BY DEF AheadOf, BinnedOf
<1> HIDE DEF u, m, n
<1>6. \A w \in Workers : BinnedOf[w] \in Int /\ AheadOf[w] \in Int
  BY <1>2, <1>4, <1>5
<1>7. Total(BinnedOf) = Total(m) + Total(n)
  <2>1. \A w \in Workers : m[w] \in Int /\ n[w] \in Int /\ BinnedOf[w] = m[w] + n[w]
    BY <1>4, <1>5
  <2>2. QED
    BY <2>1, WorkersFinite, SumOfSums
<1>8. Total(both) = Total(LeadOf) + Total(BinnedOf)
  <2>1. \A w \in Workers : /\ LeadOf[w] \in Int /\ BinnedOf[w] \in Int
                           /\ both[w] = LeadOf[w] + BinnedOf[w]
    BY <1>2, <1>6
  <2>2. QED
    BY <2>1, WorkersFinite, SumOfSums
<1>9. Total(both) = Total(AheadOf) + Total(u)
  <2>1. \A w \in Workers : /\ AheadOf[w] \in Int /\ u[w] \in Int
                           /\ both[w] = AheadOf[w] + u[w]
    BY <1>2, <1>4, <1>5, <1>6
  <2>2. QED
    BY <2>1, WorkersFinite, SumOfSums
<1>10. /\ Total(LeadOf) \in Int /\ Total(u) \in Int /\ Total(m) \in Int
       /\ Total(n) \in Int /\ Total(AheadOf) \in Int
  BY <1>2, <1>4, <1>6, WorkersFinite, SumType
<1>11. \A x \in MergedWords : Unmerged(x) \in Int
  BY <1>1, <1>10, WordFacts
<1>12. Total(AheadOf) = Total(LeadOf) - Unmerged("s0")
                          + (Unmerged("microsecond") + Unmerged("millisecond"))
  BY <1>1, <1>7, <1>8, <1>9, <1>10
<1>13. QED
  BY <1>2, <1>3, <1>6, <1>10, <1>11, <1>12

\* When the merged portions of every worker are one sample apart at most, a print
\* or an interval is off by the number of workers at most.
LEMMA AheadBound ==
  ASSUME ManagerTypeOK, \A w \in Workers : AheadOf[w] \in 0..1
  PROVE  SumFunctionOnSet(AheadOf, Workers) \in 0..NWorkers
<1>1. Cardinality(Workers) = NWorkers
  BY FS_Interval, ManagerAssumption DEF Workers
<1>2. QED
  BY <1>1, WorkersFinite, SumOfBits

\* The types of the count and the histograms, and what CountsKept says of each.
LEMMA PrintCountsKept ==
  ASSUME ManagerTypeOK, CountsKept, Comparable, pc = "print"
  PROVE  \A x \in MergedWords : /\ copy[x] \in Int /\ owed[x] \in Int
                                /\ Unmerged(x) \in Int
                                /\ copy[x] + Unmerged(x) = owed[x]
<1>1. \A x \in MergedWords : copy[x] \in Int /\ owed[x] \in Int
  BY WordFacts DEF ManagerTypeOK
<1>2. \A x \in MergedWords : copy[x] + Unmerged(x) = owed[x]
  BY DEF CountsKept, Comparable, Pending
<1>3. QED
  BY <1>1, <1>2, AheadSum

\* CountMatchesHistogram follows.
LEMMA IntervalBound ==
  ASSUME ManagerTypeOK, CountsKept, WorkerAheadInv, PrintedAheadInv
  PROVE  CountMatchesHistogram
<1> SUFFICES ASSUME pc = "print", Comparable
             PROVE  copy["s0"] - (copy["microsecond"] + copy["millisecond"])
                      \in (-NWorkers)..NWorkers
  BY DEF CountMatchesHistogram, Comparable
<1>1. SumFunctionOnSet(AheadOf, Workers) \in 0..NWorkers
  BY AheadBound DEF WorkerAheadInv, Merging
<1>2. owed["s0"] - (owed["microsecond"] + owed["millisecond"])
        - SumFunctionOnSet(LeadOf, Workers) \in (-NWorkers)..0
  BY DEF PrintedAheadInv, PrintedAhead
<1>3. /\ copy["s0"] + Unmerged("s0") = owed["s0"]
      /\ copy["microsecond"] + Unmerged("microsecond") = owed["microsecond"]
      /\ copy["millisecond"] + Unmerged("millisecond") = owed["millisecond"]
  BY PrintCountsKept, WordFacts
<1>4. \A x \in {"s0", "microsecond", "millisecond"} :
        copy[x] \in Int /\ owed[x] \in Int /\ Unmerged(x) \in Int
  BY PrintCountsKept, WordFacts
<1>5. SumFunctionOnSet(AheadOf, Workers)
        = SumFunctionOnSet(LeadOf, Workers) - Unmerged("s0")
            + (Unmerged("microsecond") + Unmerged("millisecond"))
      /\ SumFunctionOnSet(LeadOf, Workers) \in Int
  BY AheadSum
<1>6. QED
  BY <1>1, <1>2, <1>3, <1>4, <1>5, ManagerAssumption

\* A step that changes neither the portions nor the leads.
LEMMA AheadStays ==
  ASSUME ManagerTypeOK, raced \subseteq raced', subsecond' => subsecond,
         UNCHANGED at,
         \A v \in Workers, x \in Words : UnmergedOf(x)'[v] = UnmergedOf(x)[v],
         \A v \in Workers : Merging(v)' <=> Merging(v),
         WorkerAheadInv
  PROVE  WorkerAheadInv'
<1> SUFFICES ASSUME Comparable', NEW w \in Workers
             PROVE  Merging(w)' \/ AheadOf'[w] \in 0..1
  BY DEF WorkerAheadInv
<1>1. Comparable
  BY DEF Comparable, MergedWords
<1>2. AheadOf'[w] = AheadOf[w]
  BY WordFacts DEF AheadOf, BinnedOf, LeadOf
<1>3. QED
  BY <1>1, <1>2 DEF WorkerAheadInv

LEMMA PrintedStays ==
  ASSUME raced \subseteq raced', subsecond' => subsecond, UNCHANGED <<at, owed>>,
         PrintedAheadInv
  PROVE  PrintedAheadInv'
BY DEF PrintedAheadInv, PrintedAhead, Comparable, MergedWords, LeadOf

\* A store moves a word and the lead by one: in the count, the lead goes up, in a
\* histogram it goes down.
LEMMA StoreAhead ==
  ASSUME ManagerTypeOK, ManagerTypeOK', RegisterInv, SubsecondInv, WorkerAheadInv,
         PrintedAheadInv, NEW w \in Workers, Store(w)
  PROVE  WorkerAheadInv' /\ PrintedAheadInv'
<1> SUFFICES ASSUME Comparable'
             PROVE  /\ \A v \in Workers : Merging(v)' \/ AheadOf'[v] \in 0..1
                    /\ PrintedAhead' \in (-NWorkers)..0
  BY DEF WorkerAheadInv, PrintedAheadInv
<1> DEFINE y == WordOrder[at[w]]
           step(z) == IF y = z THEN 1 ELSE 0
<1>1. /\ raced \subseteq raced' /\ y \in Words
      /\ owed' = [owed EXCEPT ![y] = owed[y] + 1]
  BY StorePortions
<1>2. \A v \in Workers, x \in Words : x \notin raced' =>
        UnmergedOf(x)'[v] = IF v = w /\ x = y THEN UnmergedOf(x)[v] + 1
                                              ELSE UnmergedOf(x)[v]
  BY StorePortions
<1>3. PICK k \in After(at[w]) :
        /\ at' = [at EXCEPT ![w] = k]
        /\ subsecond' = (subsecond /\ (at[w] = 1 =>
                           WordOrder[k] \in {"microsecond", "millisecond"}))
  BY DEF Store
<1>4. subsecond /\ Comparable
  BY <1>1, <1>3 DEF Comparable, MergedWords
<1>5. /\ at[w] \in 1..3
      /\ at[w] = 1 => k # 1
      /\ at[w] # 1 => k = 1
  BY <1>3, <1>4, WordFacts DEF SubsecondInv, After, Comparable
<1>6. /\ at[w] = 1 => y = "s0"
      /\ at[w] # 1 => y = "microsecond" \/ y = "millisecond"
  BY <1>5, WordFacts
<1>7. \A v \in Workers : /\ LeadOf[v] = IF at[v] = 1 THEN 0 ELSE 1
                         /\ LeadOf'[v] = IF at'[v] = 1 THEN 0 ELSE 1
  BY DEF LeadOf
<1> HIDE DEF y
<1>8. /\ step("s0") \in Int /\ step("microsecond") \in Int /\ step("millisecond") \in Int
      /\ LeadOf'[w] = LeadOf[w] + step("s0")
                        - (step("microsecond") + step("millisecond"))
  <2>1. at'[w] = k
    BY <1>3 DEF ManagerTypeOK
  <2>2. CASE at[w] = 1
    BY <1>5, <1>6, <1>7, <2>1, <2>2
  <2>3. CASE at[w] # 1
    BY <1>5, <1>6, <1>7, <2>1, <2>3
  <2>4. QED
    BY <2>2, <2>3
<1>9. \A v \in Workers : v # w => LeadOf'[v] = LeadOf[v]
  BY <1>3, <1>7 DEF ManagerTypeOK
<1>10. \A v \in Workers, x \in MergedWords :
         UnmergedOf(x)'[v] = UnmergedOf(x)[v] + (IF v = w THEN step(x) ELSE 0)
  <2>1. \A x \in MergedWords : x \in Words /\ x \notin raced'
    BY WordFacts DEF Comparable, MergedWords
  <2>2. \A v \in Workers, x \in MergedWords : UnmergedOf(x)[v] \in Nat
    BY AheadSum
  <2>3. QED
    BY <1>2, <2>1, <2>2
<1>11. ASSUME NEW v \in Workers
       PROVE  AheadOf'[v] = AheadOf[v]
  <2> DEFINE d(x) == IF v = w THEN step(x) ELSE 0
  <2>1. /\ AheadOf'[v] = LeadOf'[v] - UnmergedOf("s0")'[v]
             + (UnmergedOf("microsecond")'[v] + UnmergedOf("millisecond")'[v])
        /\ AheadOf[v] = LeadOf[v] - UnmergedOf("s0")[v]
             + (UnmergedOf("microsecond")[v] + UnmergedOf("millisecond")[v])
    BY DEF AheadOf, BinnedOf
  <2>2. /\ UnmergedOf("s0")[v] \in Int /\ UnmergedOf("microsecond")[v] \in Int
        /\ UnmergedOf("millisecond")[v] \in Int /\ LeadOf[v] \in Int
    BY AheadSum, WordFacts
  <2>3. /\ UnmergedOf("s0")'[v] = UnmergedOf("s0")[v] + d("s0")
        /\ UnmergedOf("microsecond")'[v] = UnmergedOf("microsecond")[v] + d("microsecond")
        /\ UnmergedOf("millisecond")'[v] = UnmergedOf("millisecond")[v] + d("millisecond")
    BY <1>10, WordFacts
  <2>4. /\ LeadOf'[v] = LeadOf[v] + d("s0") - (d("microsecond") + d("millisecond"))
        /\ d("s0") \in Int /\ d("microsecond") \in Int /\ d("millisecond") \in Int
    <3> HIDE DEF step
    <3>1. CASE v = w
      BY <1>8, <3>1
    <3>2. CASE v # w
      BY <1>9, <2>2, <3>2
    <3>3. QED
      BY <3>1, <3>2
  <2> HIDE DEF d
  <2>5. QED
    BY <2>1, <2>2, <2>3, <2>4
<1>12. \A v \in Workers : Merging(v)' \/ AheadOf'[v] \in 0..1
  <2>1. \A v \in Workers : Merging(v)' <=> Merging(v)
    BY DEF Store, managerVars, Merging
  <2>2. QED
    BY <1>4, <1>11, <2>1 DEF WorkerAheadInv
<1>13. PrintedAhead' \in (-NWorkers)..0
  <2>1. PrintedAhead \in (-NWorkers)..0
    BY <1>4 DEF PrintedAheadInv
  <2>2. SumFunctionOnSet(LeadOf', Workers)
          = SumFunctionOnSet(LeadOf, Workers) + LeadOf'[w] - LeadOf[w]
    <3>1. \A v \in Workers : LeadOf[v] \in Int /\ LeadOf'[v] \in Int
      BY <1>7
    <3>2. QED
      BY <1>9, <3>1, WorkersFinite, SumUpdate
  <2>3. SumFunctionOnSet(LeadOf, Workers) \in Int /\ LeadOf[w] \in Int
    BY AheadSum
  <2>4. \A x \in {"s0", "microsecond", "millisecond"} :
          owed[x] \in Int /\ owed'[x] = owed[x] + step(x)
    <3>1. \A x \in Words : owed[x] \in Int
      BY DEF ManagerTypeOK
    <3>2. \A x \in Words : owed'[x] = IF x = y THEN owed[x] + 1 ELSE owed[x]
      BY <1>1 DEF ManagerTypeOK
    <3>3. \A x \in Words : owed'[x] = owed[x] + step(x)
      BY <3>1, <3>2
    <3>4. QED
      BY <3>1, <3>3, WordFacts
  <2>5. PrintedAhead' = PrintedAhead
    <3> HIDE DEF step
    <3>1. /\ owed'["s0"] = owed["s0"] + step("s0")
          /\ owed'["microsecond"] = owed["microsecond"] + step("microsecond")
          /\ owed'["millisecond"] = owed["millisecond"] + step("millisecond")
          /\ owed["s0"] \in Int /\ owed["microsecond"] \in Int
          /\ owed["millisecond"] \in Int
      BY <2>4
    <3>2. QED
      BY <1>8, <2>2, <2>3, <3>1 DEF PrintedAhead
  <2>6. QED
    BY <2>1, <2>5
<1>14. QED
  BY <1>12, <1>13

\* Once all three are merged a worker is ahead by its lead.
LEMMA MergeWordAhead ==
  ASSUME ManagerTypeOK, RegisterInv, WorkerAheadInv, PrintedAheadInv, MergeWord
  PROVE  WorkerAheadInv' /\ PrintedAheadInv'
<1>1. UNCHANGED <<worker, at, owed, raced, subsecond>> /\ pc = "merge"
  BY DEF MergeWord, workerVars, history
<1>2. PrintedAheadInv'
  BY <1>1, PrintedStays
<1>3. ASSUME Comparable, NEW w \in Workers
      PROVE  Merging(w)' \/ AheadOf'[w] \in 0..1
  <2>1. /\ AheadOf'[w] = LeadOf[w] - UnmergedOf("s0")'[w]
             + (UnmergedOf("microsecond")'[w] + UnmergedOf("millisecond")'[w])
        /\ AheadOf[w] = LeadOf[w] - UnmergedOf("s0")[w]
             + (UnmergedOf("microsecond")[w] + UnmergedOf("millisecond")[w])
    BY <1>1 DEF AheadOf, BinnedOf, LeadOf
  <2>2. CASE w # worker
    <3>1. \A x \in MergedWords : UnmergedOf(x)'[w] = UnmergedOf(x)[w]
      BY <2>2, MergeWordPortions, WordFacts
    <3>2. AheadOf[w] \in 0..1
      BY <1>3, <2>2 DEF WorkerAheadInv, Merging
    <3>3. QED
      BY <2>1, <3>1, <3>2, WordFacts
  <2>3. CASE w = worker /\ word \in 1..2
    <3>1. word' \in 2..3 /\ pc' = "merge"
      BY <2>3, MergeWordPortions
    <3>2. QED
      BY <1>1, <2>3, <3>1 DEF Merging
  <2>4. CASE w = worker /\ word \in 3..4
    <3>1. /\ UnmergedOf("s0")'[w] = 0 /\ UnmergedOf("microsecond")'[w] = 0
          /\ UnmergedOf("millisecond")'[w] = 0
      BY <2>4, MergeWordPortions, WordFacts
    <3>2. LeadOf[w] \in 0..1
      BY AheadSum
    <3>3. QED
      BY <2>1, <3>1, <3>2
  <2>5. word \in 1..2 \/ word \in 3..4
    BY MergeWordPortions
  <2>6. QED
    BY <2>2, <2>3, <2>4, <2>5
<1>4. Comparable' <=> Comparable
  BY <1>1 DEF Comparable, MergedWords
<1>5. QED
  BY <1>2, <1>3, <1>4 DEF WorkerAheadInv

\* The print takes what is in the copies off what is owed.
LEMMA PrintAhead ==
  ASSUME ManagerTypeOK, RegisterInv, CountsKept, WorkerAheadInv,
         PrintedAheadInv, PrintStatInterval
  PROVE  WorkerAheadInv' /\ PrintedAheadInv'
<1>1. /\ pc = "print" /\ pc' \in {"sleep", "ended"}
      /\ UNCHANGED <<at, raced, subsecond, worker, word>>
      /\ owed' = [x \in Words |-> owed[x] - copy[x]]
  BY DEF PrintStatInterval, workerVars
<1>2. WorkerAheadInv'
  <2>1. \A v \in Workers : ~Merging(v) /\ ~Merging(v)'
    BY <1>1 DEF Merging
  <2>2. QED
    BY <1>1, <2>1, PrintPortions, AheadStays
<1>3. PrintedAheadInv'
  <2> SUFFICES ASSUME Comparable
               PROVE  PrintedAhead' \in (-NWorkers)..0
    BY <1>1 DEF PrintedAheadInv, Comparable, MergedWords
  <2>1. SumFunctionOnSet(AheadOf, Workers) \in 0..NWorkers
    BY <1>1, AheadBound DEF WorkerAheadInv, Merging
  <2>2. \A x \in {"s0", "microsecond", "millisecond"} :
          /\ copy[x] \in Int /\ owed[x] \in Int /\ Unmerged(x) \in Int
          /\ copy[x] + Unmerged(x) = owed[x]
          /\ owed'[x] = owed[x] - copy[x]
    BY <1>1, PrintCountsKept, WordFacts
  <2>3. /\ owed'["s0"] = Unmerged("s0") /\ Unmerged("s0") \in Int
        /\ owed'["microsecond"] = Unmerged("microsecond") /\ Unmerged("microsecond") \in Int
        /\ owed'["millisecond"] = Unmerged("millisecond") /\ Unmerged("millisecond") \in Int
    BY <2>2
  <2>4. PrintedAhead' = owed'["s0"] - (owed'["microsecond"] + owed'["millisecond"])
                          - SumFunctionOnSet(LeadOf, Workers)
    BY <1>1 DEF PrintedAhead, LeadOf
  <2>5. QED
    BY <2>1, <2>3, <2>4, AheadSum, ManagerAssumption
<1>4. QED
  BY <1>2, <1>3

LEMMA InitAhead == Init => SubsecondInv /\ WorkerAheadInv /\ PrintedAheadInv
<1> SUFFICES ASSUME Init
             PROVE  SubsecondInv /\ WorkerAheadInv /\ PrintedAheadInv
  OBVIOUS
<1>1. \A w \in Workers : LeadOf[w] = 0 /\ UnmergedOf("s0")[w] = 0
                         /\ UnmergedOf("microsecond")[w] = 0
                         /\ UnmergedOf("millisecond")[w] = 0
  BY WordFacts DEF Init, LeadOf, UnmergedOf, InWindow, Empty
<1>2. \A w \in Workers : AheadOf[w] \in 0..1
  BY <1>1 DEF AheadOf, BinnedOf
<1>3. SumFunctionOnSet(LeadOf, Workers) = 0
  BY <1>1, WorkersFinite, SumOfZeros
<1>4. owed["s0"] = 0 /\ owed["microsecond"] = 0 /\ owed["millisecond"] = 0
  BY WordFacts DEF Init, Empty
<1>5. PrintedAheadInv
  <2>1. 0 - (0 + 0) - 0 \in (-NWorkers)..0
    BY ManagerAssumption
  <2>2. QED
    BY <1>3, <1>4, <2>1 DEF PrintedAheadInv, PrintedAhead
<1>6. SubsecondInv
  BY DEF Init, SubsecondInv
<1>7. QED
  BY <1>2, <1>5, <1>6 DEF WorkerAheadInv

LEMMA AheadStep ==
  ManagerTypeOK /\ RegisterInv /\ CountsKept /\ SubsecondInv /\ WorkerAheadInv
    /\ PrintedAheadInv /\ [Next]_allVars
    => WorkerAheadInv' /\ PrintedAheadInv'
<1> SUFFICES ASSUME ManagerTypeOK, RegisterInv, CountsKept, SubsecondInv,
                    WorkerAheadInv, PrintedAheadInv, [Next]_allVars
             PROVE  WorkerAheadInv' /\ PrintedAheadInv'
  OBVIOUS
<1>0. ManagerTypeOK' /\ (subsecond' => subsecond)
  BY TypeStep, SubsecondStep
<1>1. CASE UNCHANGED allVars
  <2>1. \A v \in Workers, x \in Words : InWindow(v, x)' <=> InWindow(v, x)
    BY <1>1 DEF InWindow, allVars, managerVars
  <2>2. \A v \in Workers, x \in Words : UnmergedOf(x)'[v] = UnmergedOf(x)[v]
    BY <1>1, <2>1, QuietPortions DEF allVars, workerVars, history
  <2>3. \A v \in Workers : Merging(v)' <=> Merging(v)
    BY <1>1 DEF Merging, allVars, managerVars
  <2>4. QED
    BY <1>0, <1>1, <2>2, <2>3, AheadStays, PrintedStays
       DEF allVars, managerVars, workerVars, history
<1>2. CASE Ended
  BY <1>1, <1>2 DEF Ended
<1>3. CASE StartInterval
  <2>1. \A v \in Workers : Merging(v)' <=> Merging(v)
    BY <1>3 DEF Merging, StartInterval
  <2>2. QED
    BY <1>0, <1>3, <2>1, StartIntervalPortions, AheadStays, PrintedStays
       DEF StartInterval, workerVars, history
<1>4. CASE MergeWord
  BY <1>4, MergeWordAhead
<1>5. CASE ResetWord
  <2>1. UNCHANGED <<at, owed>>
    BY <1>5 DEF ResetWord, workerVars
  <2>2. \A v \in Workers : Merging(v)' <=> Merging(v)
    BY <1>5, ResetWordPortions DEF Merging, ResetWord
  <2>3. QED
    BY <1>0, <1>5, <2>1, <2>2, ResetWordPortions, AheadStays, PrintedStays
<1>6. CASE PrintStatInterval
  BY <1>6, PrintAhead
<1>7. ASSUME NEW w \in Workers, Load(w)
      PROVE  WorkerAheadInv' /\ PrintedAheadInv'
  <2>1. UNCHANGED <<at, owed, raced>>
    BY <1>7 DEF Load, history
  <2>2. \A v \in Workers : Merging(v)' <=> Merging(v)
    BY <1>7 DEF Merging, Load, managerVars
  <2>3. QED
    BY <1>0, <1>7, <2>1, <2>2, LoadPortions, AheadStays, PrintedStays
<1>8. ASSUME NEW w \in Workers, Store(w)
      PROVE  WorkerAheadInv' /\ PrintedAheadInv'
  BY <1>0, <1>8, StoreAhead
<1>9. QED
  BY <1>1, <1>2, <1>3, <1>4, <1>5, <1>6, <1>7, <1>8 DEF Next, StatisticsLoop

\* As long as all samples are below a second, the printed count and the samples of
\* the printed histograms are one sample per worker apart at most, unless an
\* addition and a reset overlapped.
THEOREM IntervalNotTorn == Spec => []CountMatchesHistogram
<1> DEFINE IInv == /\ ManagerTypeOK /\ RegisterInv /\ CountsKept
                   /\ SubsecondInv /\ WorkerAheadInv /\ PrintedAheadInv
<1>1. Init => IInv
  BY InitType, InitCounts, InitAhead
<1>2. IInv /\ [Next]_allVars => IInv'
  BY TypeStep, CountsStep, SubsecondStep, AheadStep
<1>3. IInv => CountMatchesHistogram
  BY IntervalBound
<1> HIDE DEF IInv
<1>4. QED
  BY <1>1, <1>2, <1>3, PTL DEF Spec
================================================================================

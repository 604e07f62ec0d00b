--------------------------- MODULE CollectionLemmas ----------------------------
(***************************************************************************)
(* Facts that the proofs share, about sequences: what is left of a stream  *)
(* when a unit is added at its end or taken off its front, and sequences   *)
(* of consecutive numbers; and about the sums over finite sets that        *)
(* SumFunctionOnSet stands for.  A fact about every finite set is shown by *)
(* its smallest counterexample: the fact holds for what is left of that    *)
(* set without one element.                                                *)
(***************************************************************************)
EXTENDS Integers, Sequences, FiniteSets, Functions, SequenceTheorems,
        FiniteSetTheorems, WellFoundedInduction, TLAPS

\* A prefix of a sequence is a sequence, no longer and with the same elements.
LEMMA PrefixOfSeq ==
  ASSUME NEW S, NEW s \in Seq(S), NEW n \in 0..Len(s)
  PROVE  /\ SubSeq(s, 1, n) \in Seq(S)
         /\ Len(SubSeq(s, 1, n)) = n
         /\ \A i \in 1..n : SubSeq(s, 1, n)[i] = s[i]
<1>1. n \in Nat /\ n <= Len(s) /\ Len(s) \in Nat
  OBVIOUS
<1>2. \A i \in 1..n : s[i] \in S
  BY <1>1, ElementOfSeq
<1>3. CASE n = 0
  BY <1>1, <1>3, SubSeqProperties
<1>4. CASE n > 0
  BY <1>1, <1>2, <1>4, SubSeqProperties
<1>5. QED
  BY <1>1, <1>3, <1>4

\* Removing the oldest unit of a stream moves every other one forward.
LEMMA TailOfSeq ==
  ASSUME NEW S, NEW s \in Seq(S), s # <<>>
  PROVE  /\ Tail(s) \in Seq(S)
         /\ Len(Tail(s)) = Len(s) - 1
         /\ \A i \in 1..Len(s) - 1 : Tail(s)[i] = s[i + 1]
         /\ Head(s) = s[1] /\ s[1] \in S
         /\ Len(s) \in Nat /\ Len(s) > 0
  BY HeadTailProperties, ElementOfSeq, EmptySeq

\* Appending a unit leaves the others where they are.
LEMMA AppendToSeq ==
  ASSUME NEW S, NEW s \in Seq(S), NEW e \in S
  PROVE  /\ Append(s, e) \in Seq(S)
         /\ Len(Append(s, e)) = Len(s) + 1
         /\ \A i \in 1..Len(s) : Append(s, e)[i] = s[i]
         /\ Append(s, e)[Len(s) + 1] = e
         /\ Append(s, e) # <<>>
         /\ Len(s) \in Nat
  BY AppendProperties

\* The n numbers from a + 1 on.
Consecutive(a, n) == [i \in 1..n |-> a + i]

LEMMA ConsecutiveIsSeq ==
  ASSUME NEW a \in Nat, NEW n \in Nat
  PROVE  /\ Consecutive(a, n) \in Seq(Nat) /\ Len(Consecutive(a, n)) = n
         /\ \A i \in 1..n : Consecutive(a, n)[i] = a + i
BY DEF Consecutive

LEMMA ConsecutiveAppend ==
  ASSUME NEW a \in Nat, NEW n \in Nat
  PROVE  Append(Consecutive(a, n), a + n + 1) = Consecutive(a, n + 1)
<1>0. PICK m \in Nat, e \in Nat : m = n + 1 /\ e = a + n + 1
  OBVIOUS
<1>a. PICK r \in Seq(Nat) : r = Consecutive(a, n)
  BY ConsecutiveIsSeq
<1>b. Len(r) = n /\ \A i \in 1..n : r[i] = a + i
  BY <1>a, ConsecutiveIsSeq
<1>1. PICK s \in Seq(Nat) : s = Append(r, e)
  BY AppendToSeq
<1>2. PICK t \in Seq(Nat) : t = Consecutive(a, m)
  BY ConsecutiveIsSeq
<1>3. Len(s) = m /\ s[m] = e /\ \A i \in 1..n : s[i] = r[i]
  BY <1>0, <1>b, <1>1, AppendToSeq
<1>4. Len(t) = m /\ \A i \in 1..m : t[i] = a + i
  BY <1>2, ConsecutiveIsSeq
<1>5. ASSUME NEW i \in 1..m
      PROVE  s[i] = t[i]
  <2>1. CASE i = m
    BY <1>0, <1>3, <1>4, <2>1
  <2>2. CASE i # m
    BY <1>0, <1>b, <1>3, <1>4, <2>2
  <2>3. QED
    BY <2>1, <2>2
<1>6. s = t
  BY <1>3, <1>4, <1>5, SeqEqual
<1>7. QED
  BY <1>0, <1>a, <1>1, <1>2, <1>6

LEMMA ConsecutiveTail ==
  ASSUME NEW a \in Nat, NEW n \in Nat, n > 0
  PROVE  /\ Consecutive(a, n) # <<>>
         /\ Head(Consecutive(a, n)) = a + 1
         /\ Tail(Consecutive(a, n)) = Consecutive(a + 1, n - 1)
<1>1. PICK s \in Seq(Nat) : s = Consecutive(a, n)
  BY ConsecutiveIsSeq
<1>2. Len(s) = n /\ \A i \in 1..n : s[i] = a + i
  BY <1>1, ConsecutiveIsSeq
<1>3. s # <<>>
  BY <1>2, EmptySeq
<1>4. /\ Head(s) = s[1] /\ Tail(s) \in Seq(Nat) /\ Len(Tail(s)) = n - 1
      /\ \A i \in 1..n - 1 : Tail(s)[i] = s[i + 1]
  BY <1>2, <1>3, TailOfSeq
<1>5. n - 1 \in Nat /\ a + 1 \in Nat
  OBVIOUS
<1>6. PICK t \in Seq(Nat) : t = Consecutive(a + 1, n - 1)
  BY <1>5, ConsecutiveIsSeq
<1>7. Len(t) = n - 1 /\ \A i \in 1..n - 1 : t[i] = (a + 1) + i
  BY <1>5, <1>6, ConsecutiveIsSeq
<1>8. \A i \in 1..n - 1 : Tail(s)[i] = t[i]
  <2>1. SUFFICES ASSUME NEW i \in 1..n - 1
                 PROVE  Tail(s)[i] = t[i]
    OBVIOUS
  <2>2. s[i + 1] = a + (i + 1)
    BY <1>2
  <2>3. QED
    BY <1>4, <1>7, <2>2
<1>9. Tail(s) = t
  BY <1>4, <1>6, <1>7, <1>8, SeqEqual
<1>10. QED
  BY <1>1, <1>2, <1>3, <1>4, <1>6, <1>9

LEMMA ConsecutivePrepend ==
  ASSUME NEW a \in Nat, NEW n \in Nat
  PROVE  <<a + 1>> \o Consecutive(a + 1, n) = Consecutive(a, n + 1)
<1>0. PICK m \in Nat, b \in Nat : m = n + 1 /\ b = a + 1
  OBVIOUS
<1>1. PICK r \in Seq(Nat) : r = Consecutive(b, n)
  BY ConsecutiveIsSeq
<1>2. Len(r) = n /\ \A i \in 1..n : r[i] = b + i
  BY <1>1, ConsecutiveIsSeq
<1>a. <<b>> \in Seq(Nat)
  OBVIOUS
<1>3. PICK h \in Seq(Nat) : h = <<b>>
  BY <1>a
<1>4. Len(h) = 1 /\ h[1] = b
  BY <1>3
<1>5. PICK s \in Seq(Nat) : s = h \o r
  BY ConcatProperties
<1>6. /\ Len(s) = Len(h) + Len(r)
      /\ \A i \in 1..Len(h) + Len(r) : s[i] =
                   IF i <= Len(h) THEN h[i] ELSE r[i - Len(h)]
  BY <1>5, ConcatProperties
<1>7. Len(s) = m /\ \A i \in 1..m : s[i] = IF i <= 1 THEN h[i] ELSE r[i - 1]
  BY <1>0, <1>2, <1>4, <1>6
<1>8. PICK t \in Seq(Nat) : t = Consecutive(a, m)
  BY ConsecutiveIsSeq
<1>9. Len(t) = m /\ \A i \in 1..m : t[i] = a + i
  BY <1>8, ConsecutiveIsSeq
<1>10. ASSUME NEW i \in 1..m
       PROVE  s[i] = t[i]
  <2>1. CASE i = 1
    BY <1>0, <1>4, <1>7, <1>9, <2>1
  <2>2. CASE i # 1
    <3>1. i - 1 \in 1..n /\ ~ (i <= 1)
      BY <1>0, <2>2
    <3>2. s[i] = r[i - 1] /\ t[i] = a + i
      BY <1>7, <1>9, <3>1
    <3>3. r[i - 1] = b + (i - 1)
      BY <1>2, <3>1
    <3>4. QED
      BY <1>0, <3>2, <3>3
  <2>3. QED
    BY <2>1, <2>2
<1>11. s = t
  BY <1>7, <1>9, <1>10, SeqEqual
<1>12. QED
  BY <1>0, <1>1, <1>3, <1>5, <1>8, <1>11

------------------------------------------------------------------------------
(* Sums. *)

\* Every nonempty collection of subsets of a finite set has one that contains no
\* other of them.
LEMMA MinimalSubset ==
  ASSUME NEW S, IsFiniteSet(S), NEW C, C \subseteq SUBSET S, C # {}
  PROVE  \E U \in C : \A V \in SUBSET U : V # U => V \notin C
<1>1. IsWellFoundedOn(StrictSubsetOrdering(S), SUBSET S)
  BY FS_StrictSubsetOrderingWellFounded, FS_FiniteSubsetsOfFinite
<1>2. PICK U \in C : \A V \in C : ~ (<<V, U>> \in StrictSubsetOrdering(S))
  BY <1>1, WFMin
<1>3. QED
  BY <1>2 DEF StrictSubsetOrdering

\* What SumFunctionOnSet stands for: the function of the subsets of T in which
\* each sum is that of the set without one element, plus the value there.
Chosen(s) == CHOOSE x \in s : TRUE
IsSum(f, T, g) ==
  g = [s \in SUBSET T |-> IF s = {} THEN 0
                          ELSE f[Chosen(s)] + g[s \ {Chosen(s)}]]
TheSum(f, T) == CHOOSE g : IsSum(f, T, g)

LEMMA SumIsChosen ==
  ASSUME NEW f, NEW T
  PROVE  SumFunctionOnSet(f, T) = TheSum(f, T)[T]
BY DEF SumFunctionOnSet, FoldFunctionOnSet, MapThenFoldSet, TheSum, IsSum, Chosen

\* Two such functions agree where both are defined.
LEMMA IsSumUnique ==
  ASSUME NEW f, NEW T, NEW U, NEW g, NEW h, IsFiniteSet(T),
         IsSum(f, T, g), IsSum(f, U, h), NEW s \in SUBSET T, s \in SUBSET U
  PROVE  g[s] = h[s]
<1> DEFINE C == {u \in SUBSET T : u \subseteq U /\ g[u] # h[u]}
<1>1. SUFFICES ASSUME C # {} PROVE FALSE
  OBVIOUS
<1>2. PICK u \in C : \A V \in SUBSET u : V # u => V \notin C
  <2> HIDE DEF C
  <2>1. C \subseteq SUBSET T
    BY DEF C
  <2>2. QED
    BY <1>1, <2>1, MinimalSubset
<1>3. u # {}
  BY <1>2 DEF IsSum
<1>4. Chosen(u) \in u
  BY <1>3 DEF Chosen
<1>5. g[u \ {Chosen(u)}] = h[u \ {Chosen(u)}]
  BY <1>2, <1>4
<1>6. /\ g[u] = f[Chosen(u)] + g[u \ {Chosen(u)}]
      /\ h[u] = f[Chosen(u)] + h[u \ {Chosen(u)}]
  BY <1>2, <1>3 DEF IsSum
<1>7. QED
  BY <1>2, <1>5, <1>6

\* There is one for every finite set.
LEMMA IsSumExists ==
  ASSUME NEW f, NEW T, IsFiniteSet(T)
  PROVE  IsSum(f, T, TheSum(f, T))
<1> DEFINE C == {u \in SUBSET T : ~ \E g : IsSum(f, u, g)}
<1>1. SUFFICES ASSUME C # {} PROVE FALSE
  BY DEF TheSum
<1>2. PICK U \in C : \A V \in SUBSET U : V # U => V \notin C
  <2> HIDE DEF C
  <2>1. C \subseteq SUBSET T
    BY DEF C
  <2>2. QED
    BY <1>1, <2>1, MinimalSubset
<1>3. \A V \in SUBSET U : V # U => IsSum(f, V, TheSum(f, V))
  BY <1>2 DEF TheSum
<1>4. \A V \in SUBSET U : IsFiniteSet(V)
  BY <1>2, FS_Subset
<1> DEFINE G(v) == TheSum(f, v)[v]
           g == [s \in SUBSET U |-> IF s = {} THEN 0
                                    ELSE f[Chosen(s)] + G(s \ {Chosen(s)})]
<1>5. ASSUME NEW v \in SUBSET U, v # U
      PROVE  g[v] = G(v)
  <2>1. IsSum(f, v, TheSum(f, v))
    BY <1>3, <1>5
  <2>2. CASE v = {}
    BY <2>1, <2>2 DEF IsSum
  <2>3. CASE v # {}
    <3> DEFINE w == v \ {Chosen(v)}
    <3>1. w \in SUBSET v /\ w \in SUBSET U /\ w # U /\ w \in SUBSET w
      BY <2>3 DEF Chosen
    <3>2. IsSum(f, w, TheSum(f, w)) /\ IsFiniteSet(w)
      BY <3>1, <1>3, <1>4
    <3>3. TheSum(f, v)[w] = TheSum(f, w)[w]
      <4> HIDE DEF w
      <4>1. QED
        BY <2>1, <3>1, <3>2, IsSumUnique
    <3>4. TheSum(f, v)[v] = f[Chosen(v)] + TheSum(f, v)[w]
      BY <2>1, <2>3 DEF IsSum
    <3>5. QED
      BY <2>3, <3>3, <3>4
  <2>4. QED
    BY <2>2, <2>3
<1>6. \A s \in SUBSET U : s # {} => g[s \ {Chosen(s)}] = G(s \ {Chosen(s)})
  <2> HIDE DEF g, G
  <2>1. ASSUME NEW s \in SUBSET U, s # {}
        PROVE  s \ {Chosen(s)} \in SUBSET U /\ s \ {Chosen(s)} # U
    BY <2>1 DEF Chosen
  <2>2. QED
    BY <2>1, <1>5
<1>7. IsSum(f, U, g)
  <2>1. g = [s \in SUBSET U |-> IF s = {} THEN 0
                                ELSE f[Chosen(s)] + g[s \ {Chosen(s)}]]
    <3>1. \A s \in SUBSET U : g[s] = IF s = {} THEN 0
                                     ELSE f[Chosen(s)] + g[s \ {Chosen(s)}]
      <4> DEFINE A(s) == G(s \ {Chosen(s)})
      <4>1. \A s \in SUBSET U : g[s] = IF s = {} THEN 0 ELSE f[Chosen(s)] + A(s)
        OBVIOUS
      <4>2. \A s \in SUBSET U : s # {} => g[s \ {Chosen(s)}] = A(s)
        BY <1>6
      <4> HIDE DEF g, A
      <4>3. QED
        BY <4>1, <4>2
    <3>2. g = [s \in SUBSET U |-> g[s]]
      OBVIOUS
    <3> HIDE DEF g
    <3>3. QED
      BY <3>1, <3>2
  <2>2. QED
    BY <2>1 DEF IsSum
<1>8. QED
  BY <1>2, <1>7

LEMMA SumEmpty ==
  ASSUME NEW f
  PROVE  SumFunctionOnSet(f, {}) = 0
<1>1. IsSum(f, {}, TheSum(f, {}))
  BY IsSumExists, FS_EmptySet
<1>2. QED
  BY <1>1, SumIsChosen DEF IsSum

LEMMA SumEquation ==
  ASSUME NEW f, NEW T, IsFiniteSet(T), T # {}
  PROVE  /\ Chosen(T) \in T
         /\ SumFunctionOnSet(f, T)
              = f[Chosen(T)] + SumFunctionOnSet(f, T \ {Chosen(T)})
<1> DEFINE w == T \ {Chosen(T)}
<1>1. Chosen(T) \in T
  BY DEF Chosen
<1>2. IsSum(f, T, TheSum(f, T)) /\ IsSum(f, w, TheSum(f, w))
  BY IsSumExists, FS_Subset
<1>3. TheSum(f, T)[w] = TheSum(f, w)[w]
  <2>1. w \in SUBSET T /\ w \in SUBSET w
    OBVIOUS
  <2> HIDE DEF w
  <2>2. QED
    BY <1>2, <2>1, IsSumUnique
<1>4. TheSum(f, T)[T] = f[Chosen(T)] + TheSum(f, T)[w]
  BY <1>2 DEF IsSum
<1>5. SumFunctionOnSet(f, T) = TheSum(f, T)[T] /\ SumFunctionOnSet(f, w) = TheSum(f, w)[w]
  BY SumIsChosen
<1>6. QED
  BY <1>1, <1>3, <1>4, <1>5

\* A sum of integers is an integer, and one of naturals a natural.
LEMMA SumType ==
  ASSUME NEW T, IsFiniteSet(T), NEW f, \A x \in T : f[x] \in Int
  PROVE  /\ SumFunctionOnSet(f, T) \in Int
         /\ (\A x \in T : f[x] \in Nat) => SumFunctionOnSet(f, T) \in Nat
<1> DEFINE Wrong(u) == \/ SumFunctionOnSet(f, u) \notin Int
                       \/ (\A x \in T : f[x] \in Nat) /\ SumFunctionOnSet(f, u) \notin Nat
           C == {u \in SUBSET T : Wrong(u)}
<1>1. SUFFICES ASSUME C # {} PROVE FALSE
  OBVIOUS
<1>2. PICK U \in C : \A V \in SUBSET U : V # U => V \notin C
  <2> HIDE DEF C
  <2>1. C \subseteq SUBSET T
    BY DEF C
  <2>2. QED
    BY <1>1, <2>1, MinimalSubset
<1>3. CASE U = {}
  BY <1>2, <1>3, SumEmpty
<1>4. CASE U # {}
  <2>1. IsFiniteSet(U)
    BY <1>2, FS_Subset
  <2>2. /\ Chosen(U) \in U
        /\ SumFunctionOnSet(f, U)
             = f[Chosen(U)] + SumFunctionOnSet(f, U \ {Chosen(U)})
    BY <1>4, <2>1, SumEquation
  <2>3. ~Wrong(U \ {Chosen(U)})
    BY <1>2, <2>2
  <2>4. QED
    BY <1>2, <2>2, <2>3
<1>5. QED
  BY <1>3, <1>4

\* Any element may be taken out of a sum first.
LEMMA SumSplit ==
  ASSUME NEW T, IsFiniteSet(T), NEW f, \A x \in T : f[x] \in Int, NEW a \in T
  PROVE  SumFunctionOnSet(f, T) = f[a] + SumFunctionOnSet(f, T \ {a})
<1> DEFINE Wrong(u) == \E x \in u : SumFunctionOnSet(f, u)
                                      # f[x] + SumFunctionOnSet(f, u \ {x})
           C == {u \in SUBSET T : Wrong(u)}
<1>1. SUFFICES ASSUME C # {} PROVE FALSE
  OBVIOUS
<1>2. PICK U \in C : \A V \in SUBSET U : V # U => V \notin C
  <2> HIDE DEF C
  <2>1. C \subseteq SUBSET T
    BY DEF C
  <2>2. QED
    BY <1>1, <2>1, MinimalSubset
<1>3. PICK x \in U : SumFunctionOnSet(f, U) # f[x] + SumFunctionOnSet(f, U \ {x})
  BY <1>2
<1> DEFINE p == Chosen(U)
           rest == U \ {p, x}
<1>4. IsFiniteSet(U) /\ IsFiniteSet(rest)
  BY <1>2, FS_Subset
<1>5. p \in U /\ SumFunctionOnSet(f, U) = f[p] + SumFunctionOnSet(f, U \ {p})
  BY <1>3, <1>4, SumEquation
<1>6. p # x
  BY <1>3, <1>5
<1>7. SumFunctionOnSet(f, U \ {p}) = f[x] + SumFunctionOnSet(f, rest)
  <2>1. ~Wrong(U \ {p}) /\ x \in U \ {p}
    BY <1>2, <1>5, <1>6
  <2>2. (U \ {p}) \ {x} = rest
    OBVIOUS
  <2>3. QED
    BY <2>1, <2>2
<1>8. SumFunctionOnSet(f, U \ {x}) = f[p] + SumFunctionOnSet(f, rest)
  <2>1. ~Wrong(U \ {x}) /\ p \in U \ {x}
    BY <1>2, <1>3, <1>5, <1>6
  <2>2. (U \ {x}) \ {p} = rest
    OBVIOUS
  <2>3. QED
    BY <2>1, <2>2
<1>9. f[p] \in Int /\ f[x] \in Int /\ SumFunctionOnSet(f, rest) \in Int
  <2>1. \A y \in rest : f[y] \in Int
    BY <1>2
  <2>2. SumFunctionOnSet(f, rest) \in Int
    <3> HIDE DEF rest
    <3>1. QED
      BY <1>4, <2>1, SumType
  <2>3. QED
    BY <1>2, <1>3, <1>5, <2>2
<1>10. QED
  BY <1>3, <1>5, <1>7, <1>8, <1>9

\* The sum of two functions is the sum of their sums.
LEMMA SumOfSums ==
  ASSUME NEW T, IsFiniteSet(T), NEW f, NEW g, NEW h,
         \A x \in T : f[x] \in Int /\ g[x] \in Int /\ h[x] = f[x] + g[x]
  PROVE  SumFunctionOnSet(h, T) = SumFunctionOnSet(f, T) + SumFunctionOnSet(g, T)
<1> DEFINE Wrong(u) == SumFunctionOnSet(h, u)
                         # SumFunctionOnSet(f, u) + SumFunctionOnSet(g, u)
           C == {u \in SUBSET T : Wrong(u)}
<1>1. SUFFICES ASSUME C # {} PROVE FALSE
  OBVIOUS
<1>2. PICK U \in C : \A V \in SUBSET U : V # U => V \notin C
  <2> HIDE DEF C
  <2>1. C \subseteq SUBSET T
    BY DEF C
  <2>2. QED
    BY <1>1, <2>1, MinimalSubset
<1>3. CASE U = {}
  BY <1>2, <1>3, SumEmpty
<1>4. CASE U # {}
  <2> DEFINE x == Chosen(U)
             v == U \ {x}
  <2>1. IsFiniteSet(U) /\ IsFiniteSet(v)
    BY <1>2, FS_Subset
  <2>2. /\ x \in U
        /\ SumFunctionOnSet(f, U) = f[x] + SumFunctionOnSet(f, v)
        /\ SumFunctionOnSet(g, U) = g[x] + SumFunctionOnSet(g, v)
        /\ SumFunctionOnSet(h, U) = h[x] + SumFunctionOnSet(h, v)
    BY <1>4, <2>1, SumEquation
  <2>3. ~Wrong(v)
    BY <1>2, <2>2
  <2>4. \A y \in v : f[y] \in Int /\ g[y] \in Int
    BY <1>2
  <2>5. SumFunctionOnSet(f, v) \in Int /\ SumFunctionOnSet(g, v) \in Int
    <3> HIDE DEF v
    <3>1. QED
      BY <2>1, <2>4, SumType
  <2>6. f[x] \in Int /\ g[x] \in Int /\ h[x] = f[x] + g[x]
    BY <1>2, <2>2
  <2>7. QED
    BY <1>2, <2>2, <2>3, <2>5, <2>6
<1>5. QED
  BY <1>3, <1>4

\* A sum depends on the values on its set alone.
LEMMA SumSame ==
  ASSUME NEW T, IsFiniteSet(T), NEW f, NEW g, \A x \in T : f[x] = g[x]
  PROVE  SumFunctionOnSet(f, T) = SumFunctionOnSet(g, T)
<1> DEFINE Wrong(u) == SumFunctionOnSet(f, u) # SumFunctionOnSet(g, u)
           C == {u \in SUBSET T : Wrong(u)}
<1>1. SUFFICES ASSUME C # {} PROVE FALSE
  OBVIOUS
<1>2. PICK U \in C : \A V \in SUBSET U : V # U => V \notin C
  <2> HIDE DEF C
  <2>1. C \subseteq SUBSET T
    BY DEF C
  <2>2. QED
    BY <1>1, <2>1, MinimalSubset
<1>3. CASE U = {}
  BY <1>2, <1>3, SumEmpty
<1>4. CASE U # {}
  <2> DEFINE x == Chosen(U)
             v == U \ {x}
  <2>1. IsFiniteSet(U)
    BY <1>2, FS_Subset
  <2>2. /\ x \in U
        /\ SumFunctionOnSet(f, U) = f[x] + SumFunctionOnSet(f, v)
        /\ SumFunctionOnSet(g, U) = g[x] + SumFunctionOnSet(g, v)
    BY <1>4, <2>1, SumEquation
  <2>3. ~Wrong(v) /\ f[x] = g[x]
    BY <1>2, <2>2
  <2>4. QED
    BY <1>2, <2>2, <2>3
<1>5. QED
  BY <1>3, <1>4

\* A sum of zeros.
LEMMA SumOfZeros ==
  ASSUME NEW T, IsFiniteSet(T), NEW f, \A x \in T : f[x] = 0
  PROVE  SumFunctionOnSet(f, T) = 0
<1>1. \A x \in T : f[x] \in Int /\ f[x] = f[x] + f[x]
  OBVIOUS
<1>2. SumFunctionOnSet(f, T) = SumFunctionOnSet(f, T) + SumFunctionOnSet(f, T)
  BY <1>1, SumOfSums
<1>3. QED
  BY <1>1, <1>2, SumType

\* Changing the value at one place changes the sum by as much.
LEMMA SumUpdate ==
  ASSUME NEW T, IsFiniteSet(T), NEW f, NEW g, NEW a \in T,
         \A x \in T : f[x] \in Int /\ g[x] \in Int,
         \A x \in T : x # a => f[x] = g[x]
  PROVE  SumFunctionOnSet(g, T) = SumFunctionOnSet(f, T) + g[a] - f[a]
<1>1. /\ SumFunctionOnSet(f, T) = f[a] + SumFunctionOnSet(f, T \ {a})
      /\ SumFunctionOnSet(g, T) = g[a] + SumFunctionOnSet(g, T \ {a})
  BY SumSplit
<1>2. IsFiniteSet(T \ {a})
  BY FS_Subset
<1>3. SumFunctionOnSet(f, T \ {a}) = SumFunctionOnSet(g, T \ {a})
  BY <1>2, SumSame
<1>4. SumFunctionOnSet(f, T \ {a}) \in Int
  BY <1>2, SumType
<1>5. QED
  BY <1>1, <1>3, <1>4

\* No value is above the sum of natural numbers.
LEMMA SumAboveEach ==
  ASSUME NEW T, IsFiniteSet(T), NEW f, \A x \in T : f[x] \in Nat, NEW a \in T
  PROVE  f[a] <= SumFunctionOnSet(f, T)
<1>1. SumFunctionOnSet(f, T) = f[a] + SumFunctionOnSet(f, T \ {a})
  BY SumSplit
<1>2. IsFiniteSet(T \ {a})
  BY FS_Subset
<1>3. SumFunctionOnSet(f, T \ {a}) \in Nat
  BY <1>2, SumType
<1>4. QED
  BY <1>1, <1>3

\* A sum of zeros and ones is at most the number of them.
LEMMA SumOfBits ==
  ASSUME NEW T, IsFiniteSet(T), NEW f, \A x \in T : f[x] \in 0..1
  PROVE  SumFunctionOnSet(f, T) \in 0..Cardinality(T)
<1> DEFINE Wrong(u) == SumFunctionOnSet(f, u) \notin 0..Cardinality(u)
           C == {u \in SUBSET T : Wrong(u)}
<1>1. SUFFICES ASSUME C # {} PROVE FALSE
  OBVIOUS
<1>2. PICK U \in C : \A V \in SUBSET U : V # U => V \notin C
  <2> HIDE DEF C
  <2>1. C \subseteq SUBSET T
    BY DEF C
  <2>2. QED
    BY <1>1, <2>1, MinimalSubset
<1>3. CASE U = {}
  BY <1>2, <1>3, SumEmpty, FS_EmptySet
<1>4. CASE U # {}
  <2> DEFINE x == Chosen(U)
             v == U \ {x}
  <2>1. IsFiniteSet(U)
    BY <1>2, FS_Subset
  <2>2. x \in U /\ SumFunctionOnSet(f, U) = f[x] + SumFunctionOnSet(f, v)
    BY <1>4, <2>1, SumEquation
  <2>3. Cardinality(v) = Cardinality(U) - 1 /\ Cardinality(U) \in Nat
    BY <2>1, <2>2, FS_RemoveElement, FS_CardinalityType
  <2>4. ~Wrong(v) /\ f[x] \in 0..1
    BY <1>2, <2>2
  <2>5. ~Wrong(U)
    BY <2>2, <2>3, <2>4
  <2>6. QED
    BY <1>2, <2>5
<1>5. QED
  BY <1>3, <1>4

\* The sum over two sets that share no element.
LEMMA SumUnion ==
  ASSUME NEW S, IsFiniteSet(S), NEW T, IsFiniteSet(T), S \cap T = {},
         NEW f, \A x \in S \cup T : f[x] \in Int
  PROVE  SumFunctionOnSet(f, S \cup T) = SumFunctionOnSet(f, S) + SumFunctionOnSet(f, T)
<1> DEFINE Wrong(u) == SumFunctionOnSet(f, u \cup T)
                         # SumFunctionOnSet(f, u) + SumFunctionOnSet(f, T)
           C == {u \in SUBSET S : Wrong(u)}
<1>1. SUFFICES ASSUME C # {} PROVE FALSE
  OBVIOUS
<1>2. PICK U \in C : \A V \in SUBSET U : V # U => V \notin C
  <2> HIDE DEF C
  <2>1. C \subseteq SUBSET S
    BY DEF C
  <2>2. QED
    BY <1>1, <2>1, MinimalSubset
<1>3. \A u \in SUBSET S : /\ IsFiniteSet(u) /\ IsFiniteSet(u \cup T)
                          /\ \A x \in u \cup T : f[x] \in Int
  BY FS_Subset, FS_Union
<1>4. \A u \in SUBSET S : SumFunctionOnSet(f, u) \in Int
  BY <1>3, SumType
<1>5. SumFunctionOnSet(f, T) \in Int
  BY SumType
<1>6. CASE U = {}
  BY <1>2, <1>5, <1>6, SumEmpty
<1>7. CASE U # {}
  <2>1. PICK x \in U : TRUE
    BY <1>7
  <2> DEFINE v == U \ {x}
  <2>2. ~Wrong(v) /\ v \in SUBSET S /\ f[x] \in Int
    BY <1>2, <1>3, <2>1
  <2>3. (U \cup T) \ {x} = v \cup T
    BY <1>2
  <2>4. SumFunctionOnSet(f, U) = f[x] + SumFunctionOnSet(f, v)
    BY <1>2, <1>3, SumSplit
  <2>5. SumFunctionOnSet(f, U \cup T) = f[x] + SumFunctionOnSet(f, v \cup T)
    <3>1. SumFunctionOnSet(f, U \cup T)
            = f[x] + SumFunctionOnSet(f, (U \cup T) \ {x})
      <4> DEFINE W == U \cup T
      <4>1. IsFiniteSet(W) /\ x \in W /\ \A y \in W : f[y] \in Int
        BY <1>2, <1>3
      <4> HIDE DEF W
      <4>2. SumFunctionOnSet(f, W) = f[x] + SumFunctionOnSet(f, W \ {x})
        BY <4>1, SumSplit
      <4>3. QED
        BY <4>2 DEF W
    <3>2. QED
      BY <2>3, <3>1
  <2>6. SumFunctionOnSet(f, v) \in Int
    BY <1>4, <2>2
  <2>7. ~Wrong(U)
    BY <1>5, <2>2, <2>4, <2>5, <2>6
  <2>8. QED
    BY <1>2, <2>7
<1>8. QED
  BY <1>6, <1>7

\* A part of a set sums to no more than the whole.
LEMMA SumSubset ==
  ASSUME NEW T, IsFiniteSet(T), NEW S \in SUBSET T, NEW f, \A x \in T : f[x] \in Nat
  PROVE  SumFunctionOnSet(f, S) <= SumFunctionOnSet(f, T)
<1> DEFINE R == T \ S
<1>1. IsFiniteSet(S) /\ IsFiniteSet(R) /\ S \cap R = {} /\ S \cup R = T
  BY FS_Subset
<1> HIDE DEF R
<1>2. /\ \A x \in S \cup R : f[x] \in Int
      /\ \A x \in S : f[x] \in Nat
      /\ \A x \in R : f[x] \in Nat
  BY <1>1
<1>3. SumFunctionOnSet(f, T) = SumFunctionOnSet(f, S) + SumFunctionOnSet(f, R)
  BY <1>1, <1>2, SumUnion
<1>4. SumFunctionOnSet(f, S) \in Nat
  BY <1>1, <1>2, SumType
<1>5. SumFunctionOnSet(f, R) \in Nat
  BY <1>1, <1>2, SumType
<1>6. QED
  BY <1>3, <1>4, <1>5

------------------------------------------------------------------------------
(* Least and greatest elements. *)

LEMMA LeastNatural ==
  ASSUME NEW S, S \subseteq Nat, S # {}
  PROVE  \E m \in S : \A x \in S : m <= x
<1> DEFINE R == {ss \in Nat \X Nat : ss[1] < ss[2]}
<1>1. IsWellFoundedOn(R, Nat)
  BY NatLessThanWellFounded DEF OpToRel
<1>2. PICK m \in S : \A x \in S : ~ (<<x, m>> \in R)
  <2> HIDE DEF R
  <2>1. QED
    BY <1>1, WFMin
<1>3. \A x \in S : ~ (x < m)
  BY <1>2
<1>4. QED
  BY <1>3

LEMMA LeastInteger ==
  ASSUME NEW S, S \subseteq Int, S # {}, NEW b \in Int, \A x \in S : b <= x
  PROVE  \E m \in S : \A x \in S : m <= x
<1> DEFINE T == {x - b : x \in S}
<1>1. T \subseteq Nat /\ T # {}
  <2>1. \A x \in S : x - b \in Nat
    OBVIOUS
  <2>2. QED
    BY <2>1
<1>2. PICK d \in T : \A y \in T : d <= y
  <2> HIDE DEF T
  <2>1. QED
    BY <1>1, LeastNatural
<1>3. PICK m \in S : d = m - b
  BY <1>2
<1>4. \A x \in S : m - b <= x - b
  BY <1>2, <1>3
<1>5. QED
  BY <1>4

LEMMA GreatestInteger ==
  ASSUME NEW S, S \subseteq Int, S # {}, NEW b \in Int, \A x \in S : x <= b
  PROVE  \E m \in S : \A x \in S : x <= m
<1> DEFINE T == {b - x : x \in S}
<1>1. T \subseteq Nat /\ T # {}
  <2>1. \A x \in S : b - x \in Nat
    OBVIOUS
  <2>2. QED
    BY <2>1
<1>2. PICK d \in T : \A y \in T : d <= y
  <2> HIDE DEF T
  <2>1. QED
    BY <1>1, LeastNatural
<1>3. PICK m \in S : d = b - m
  BY <1>2
<1>4. \A x \in S : b - m <= b - x
  BY <1>2, <1>3
<1>5. QED
  BY <1>4
================================================================================

---------------------------- MODULE StatisticProofs ----------------------------
(***************************************************************************)
(* Proofs about Statistic, for every value of its constants.               *)
(***************************************************************************)
EXTENDS Statistic, CollectionLemmas, TLAPS

Fields == {"s0", "s1", "s2", "min", "max", "microsecond", "millisecond", "second"}

\* What every statistic is: a record of moments and histograms.
IsHistogram(hist) ==
  /\ hist.bin \in [Bins -> Nat]
  /\ hist.n_samples \in Nat

IsStatistic(s) ==
  /\ s = [f \in Fields |-> s[f]]
  /\ s.s0 \in Nat /\ s.s1 \in Int /\ s.s2 \in Int /\ s.min \in Int /\ s.max \in Int
  /\ \A h \in Histograms : IsHistogram(s[h])

\* The statistic n after AddSample(n, v).
Added(s, v) ==
  [f \in DOMAIN s |-> IF f \in HistogramsFor(v) THEN AddToHistogram(s[f], f, v)
                                                ELSE WithMoments(s, v)[f]]

LEMMA NewIsStatistic == IsStatistic(NewStatistic)
BY StatisticAssumption
   DEF NewStatistic, IsStatistic, IsHistogram, EmptyHistogram, Histograms, Fields

LEMMA AddedFields ==
  ASSUME NEW s, IsStatistic(s), NEW v \in Int
  PROVE  LET t == Added(s, v) IN
         /\ t = [f \in Fields |-> t[f]]
         /\ t.s0 = s.s0 + 1 /\ t.s1 = s.s1 + v /\ t.s2 = s.s2 + v * v
         /\ t.min = (IF v < s.min THEN v ELSE s.min)
         /\ t.max = (IF v > s.max THEN v ELSE s.max)
         /\ \A h \in Histograms :
              t[h] = IF h \in HistogramsFor(v) THEN AddToHistogram(s[h], h, v)
                                               ELSE s[h]
<1>1. DOMAIN s = Fields
  BY DEF IsStatistic
<1>2. HistogramsFor(v) \subseteq Histograms
  BY DEF HistogramsFor
<1>3. \A f \in Fields \ {"s0", "s1", "s2", "min", "max"} : WithMoments(s, v)[f] = s[f]
  BY <1>1 DEF WithMoments, Fields
<1>4. /\ WithMoments(s, v)["s0"] = s["s0"] + 1
      /\ WithMoments(s, v)["s1"] = s["s1"] + v
      /\ WithMoments(s, v)["s2"] = s["s2"] + v * v
      /\ WithMoments(s, v)["min"] = (IF v < s["min"] THEN v ELSE s["min"])
      /\ WithMoments(s, v)["max"] = (IF v > s["max"] THEN v ELSE s["max"])
  BY <1>1 DEF WithMoments, Fields
<1>5. /\ \A h \in Histograms : h \in Fields \ {"s0", "s1", "s2", "min", "max"}
      /\ \A f \in {"s0", "s1", "s2", "min", "max"} : f \in Fields /\ f \notin Histograms
  BY DEF Histograms, Fields
<1>6. QED
  BY <1>1, <1>2, <1>3, <1>4, <1>5 DEF Added

LEMMA MergedFields ==
  ASSUME NEW s, NEW u, IsStatistic(s), IsStatistic(u)
  PROVE  LET t == Merge(s, u) IN
         /\ t = [f \in Fields |-> t[f]]
         /\ t.s0 = s.s0 + u.s0 /\ t.s1 = s.s1 + u.s1 /\ t.s2 = s.s2 + u.s2
         /\ t.min = Min({s.min, u.min}) /\ t.max = Max({s.max, u.max})
         /\ t.microsecond = MergeWithHistogram(s.microsecond, u.microsecond)
         /\ t.millisecond = MergeWithHistogram(s.millisecond, u.millisecond)
         /\ t.second = MergeWithHistogram(s.second, u.microsecond)
BY DEF Merge, Fields

\* Multiplying by a natural number keeps an order.
LEMMA TimesMonotonic ==
  ASSUME NEW a \in Int, NEW b \in Int, NEW c \in Nat, a <= b
  PROVE  a * c <= b * c
<1>1. (b - a) * c >= 0
  <2>1. \A x, y \in Nat : x * y >= 0
    OBVIOUS
  <2>2. b - a \in Nat
    OBVIOUS
  <2>3. QED
    BY <2>1, <2>2
<1>2. (b - a) * c = b * c - a * c
  OBVIOUS
<1>3. a * c \in Int /\ b * c \in Int
  OBVIOUS
<1>4. QED
  BY <1>1, <1>2, <1>3

\* Below n times w there are n multiples of w.
LEMMA QuotientBound ==
  ASSUME NEW w \in Nat \ {0}, NEW n \in Nat, NEW v \in 0..(n * w - 1)
  PROVE  v \div w \in 0..(n - 1)
<1> DEFINE q == v \div w
<1>1. q \in Nat /\ v = w * q + (v % w) /\ v % w \in 0..(w - 1)
  OBVIOUS
<1> HIDE DEF q
<1>2. SUFFICES ASSUME n <= q PROVE FALSE
  BY <1>1 DEF q
<1>3. n * w <= q * w
  BY <1>1, <1>2, TimesMonotonic
<1>4. w * q = q * w /\ n * w \in Int /\ q * w \in Int
  BY <1>1
<1>5. QED
  BY <1>1, <1>3, <1>4

\* A value is in the bin of its histogram.
LEMMA BinOfRange ==
  ASSUME NEW v \in Int, NEW h \in HistogramsFor(v)
  PROVE  h \in Histograms /\ BinOf(h, v) \in Bins
<1> DEFINE m == Maximum[h]
           w == m \div NBins
<1>1. h \in Histograms /\ m \in Nat \ {0} /\ m % NBins = 0 /\ v \in 0..(m - 1)
  BY StatisticAssumption DEF HistogramsFor, Histograms, Maximum
<1>2. w \in Nat /\ m = NBins * w /\ NBins \in Nat \ {0}
  BY <1>1, StatisticAssumption
<1> HIDE DEF m, w
<1>3. w > 0
  <2>1. NBins * 0 = 0
    BY <1>2
  <2>2. QED
    BY <1>1, <1>2, <2>1
<1>4. v \div w \in 0..(NBins - 1)
  <2>1. w \in Nat \ {0} /\ NBins \in Nat /\ v \in 0..(NBins * w - 1)
    BY <1>1, <1>2, <1>3
  <2>2. QED
    BY <2>1, QuotientBound
<1>5. QED
  BY <1>1, <1>4 DEF BinOf, Bins, m, w

------------------------------------------------------------------------------
(* What a statistic s says of samples c, given as how often each value occurs. *)

HeldIn(c) == {v \in Values : c[v] > 0}
Times(c)  == [v \in Values |-> v * c[v]]
Squares(c) == [v \in Values |-> v * v * c[v]]
InBinOf(h, i) == {v \in Values : h \in HistogramsFor(v) /\ BinOf(h, v) = i}

IsLeast(m, S) == m \in S /\ \A x \in S : m <= x
IsGreatest(m, S) == m \in S /\ \A x \in S : m >= x

MomentsOf(s, c) ==
  /\ s.s0 = SumFunctionOnSet(c, Values)
  /\ s.s1 = SumFunctionOnSet(Times(c), Values)
  /\ s.s2 = SumFunctionOnSet(Squares(c), Values)
  /\ IsLeast(s.min, HeldIn(c) \cup {Infinite})
  /\ IsGreatest(s.max, HeldIn(c) \cup {-Infinite})

HistogramOf(s, c, h) ==
  /\ \A i \in Bins : s[h].bin[i] = SumFunctionOnSet(c, InBinOf(h, i))
  /\ s[h].n_samples = SumFunctionOnSet(s[h].bin, Bins)

Describes(s, c) ==
  /\ IsStatistic(s) /\ c \in [Values -> Nat]
  /\ MomentsOf(s, c)
  /\ HistogramOf(s, c, "microsecond") /\ HistogramOf(s, c, "millisecond")

With(c, v) == [c EXCEPT ![v] = @ + 1]
Plus(c, d) == [v \in Values |-> c[v] + d[v]]

LEMMA ValuesFinite == IsFiniteSet(Values)
BY StatisticAssumption

LEMMA ValueRange ==
  /\ Infinite \in Nat /\ Values \subseteq Int
  /\ \A v \in Values : -Infinite <= v /\ v <= Infinite
BY StatisticAssumption

LEMMA BinsFinite == IsFiniteSet(Bins)
BY FS_Interval, StatisticAssumption DEF Bins

\* The smallest and the largest element are what Min and Max choose.
LEMMA LeastIsMin ==
  ASSUME NEW S, S \subseteq Int, NEW m, IsLeast(m, S)
  PROVE  Min(S) = m
<1>1. \A x \in S : (\A y \in S : x <= y) => x = m
  BY DEF IsLeast
<1>2. QED
  BY <1>1 DEF Min, IsLeast

LEMMA GreatestIsMax ==
  ASSUME NEW S, S \subseteq Int, NEW m, IsGreatest(m, S)
  PROVE  Max(S) = m
<1>1. \A x \in S : (\A y \in S : x >= y) => x = m
  BY DEF IsGreatest
<1>2. QED
  BY <1>1 DEF Max, IsGreatest

LEMMA MinMaxOfTwo ==
  ASSUME NEW a \in Int, NEW b \in Int
  PROVE  /\ Min({a, b}) = IF a <= b THEN a ELSE b
         /\ Max({a, b}) = IF a >= b THEN a ELSE b
<1>1. IsLeast(IF a <= b THEN a ELSE b, {a, b})
  BY DEF IsLeast
<1>2. IsGreatest(IF a >= b THEN a ELSE b, {a, b})
  BY DEF IsGreatest
<1>3. QED
  BY <1>1, <1>2, LeastIsMin, GreatestIsMax

\* A new statistic describes no samples.
LEMMA NewDescribes ==
  /\ Describes(NewStatistic, NoContents)
  /\ HistogramOf(NewStatistic, NoContents, "second")
<1> DEFINE c == NoContents
           s == NewStatistic
<1>1. c \in [Values -> Nat] /\ \A v \in Values : c[v] = 0
  BY DEF NoContents
<1>2. \A S \in SUBSET Values : IsFiniteSet(S) /\ SumFunctionOnSet(c, S) = 0
  <2>1. ASSUME NEW S \in SUBSET Values
        PROVE  IsFiniteSet(S) /\ \A v \in S : c[v] = 0
    BY <1>1, ValuesFinite, FS_Subset
  <2> HIDE DEF c
  <2>2. QED
    BY <2>1, SumOfZeros
<1>3. SumFunctionOnSet(Times(c), Values) = 0 /\ SumFunctionOnSet(Squares(c), Values) = 0
  <2>1. \A v \in Values : v * 0 = 0 /\ v * v * 0 = 0
    BY ValueRange
  <2>2. \A v \in Values : Times(c)[v] = 0 /\ Squares(c)[v] = 0
    BY <1>1, <2>1 DEF Times, Squares
  <2> HIDE DEF c
  <2>3. QED
    BY <2>2, ValuesFinite, SumOfZeros
<1>4. /\ s.s0 = 0 /\ s.s1 = 0 /\ s.s2 = 0 /\ s.min = Infinite /\ s.max = -Infinite
      /\ \A h \in Histograms : s[h] = EmptyHistogram
  BY DEF NewStatistic, Histograms
<1>5. MomentsOf(s, c)
  <2>1. HeldIn(c) = {}
    BY <1>1 DEF HeldIn
  <2>2. IsLeast(Infinite, {Infinite}) /\ IsGreatest(-Infinite, {-Infinite})
    BY ValueRange DEF IsLeast, IsGreatest
  <2> HIDE DEF s, c
  <2>3. QED
    BY <1>2, <1>3, <1>4, <2>1, <2>2 DEF MomentsOf
<1>6. ASSUME NEW h \in Histograms
      PROVE  HistogramOf(s, c, h)
  <2>1. \A i \in Bins : EmptyHistogram.bin[i] = 0
    BY DEF EmptyHistogram
  <2>2. SumFunctionOnSet(EmptyHistogram.bin, Bins) = 0 /\ EmptyHistogram.n_samples = 0
    <3>1. SumFunctionOnSet(EmptyHistogram.bin, Bins) = 0
      BY <2>1, BinsFinite, SumOfZeros
    <3>2. QED
      BY <3>1 DEF EmptyHistogram
  <2>3. \A i \in Bins : InBinOf(h, i) \in SUBSET Values
    BY DEF InBinOf
  <2> HIDE DEF s, c
  <2>4. QED
    BY <1>2, <1>4, <2>1, <2>2, <2>3 DEF HistogramOf
<1>7. QED
  BY <1>1, <1>5, <1>6, NewIsStatistic DEF Describes, Histograms

\* AddSample: one more of the value, in the moments and in its bin.
LEMMA AddedIsStatistic ==
  ASSUME NEW s, IsStatistic(s), NEW v \in Int
  PROVE  IsStatistic(Added(s, v))
<1> DEFINE t == Added(s, v)
<1>1. /\ t = [f \in Fields |-> t[f]]
      /\ t.s0 = s.s0 + 1 /\ t.s1 = s.s1 + v /\ t.s2 = s.s2 + v * v
      /\ t.min = (IF v < s.min THEN v ELSE s.min)
      /\ t.max = (IF v > s.max THEN v ELSE s.max)
      /\ \A h \in Histograms :
           t[h] = IF h \in HistogramsFor(v) THEN AddToHistogram(s[h], h, v)
                                            ELSE s[h]
  BY AddedFields
<1> HIDE DEF t
<1>2. ASSUME NEW h \in Histograms
      PROVE  IsHistogram(t[h])
  <2>1. IsHistogram(s[h])
    BY DEF IsStatistic
  <2>2. CASE h \in HistogramsFor(v)
    <3>1. BinOf(h, v) \in Bins
      BY <2>2, BinOfRange
    <3>2. t[h].bin = [s[h].bin EXCEPT ![BinOf(h, v)] = s[h].bin[BinOf(h, v)] + 1]
          /\ t[h].n_samples = s[h].n_samples + 1
      <4>1. t[h] = AddToHistogram(s[h], h, v)
        BY <1>1, <2>2
      <4>2. QED
        BY <4>1 DEF AddToHistogram
    <3>3. QED
      BY <2>1, <3>1, <3>2 DEF IsHistogram
  <2>3. QED
    BY <1>1, <2>1, <2>2
<1>3. t.s0 \in Nat /\ t.s1 \in Int /\ t.s2 \in Int /\ t.min \in Int /\ t.max \in Int
  <2>1. v * v \in Int
    OBVIOUS
  <2>2. QED
    BY <1>1, <2>1 DEF IsStatistic
<1>4. QED
  BY <1>1, <1>2, <1>3 DEF IsStatistic, t

LEMMA WithSum ==
  ASSUME NEW c \in [Values -> Nat], NEW v \in Values, NEW S \in SUBSET Values
  PROVE  /\ With(c, v) \in [Values -> Nat]
         /\ SumFunctionOnSet(c, S) \in Nat
         /\ SumFunctionOnSet(With(c, v), S)
              = SumFunctionOnSet(c, S) + (IF v \in S THEN 1 ELSE 0)
<1> DEFINE d == With(c, v)
<1>1. d \in [Values -> Nat] /\ d[v] = c[v] + 1 /\ \A x \in Values : x # v => d[x] = c[x]
  BY DEF With
<1> HIDE DEF d
<1>2. IsFiniteSet(S) /\ SumFunctionOnSet(c, S) \in Nat
  <2>1. IsFiniteSet(S) /\ \A x \in S : c[x] \in Nat
    BY ValuesFinite, FS_Subset
  <2>2. QED
    BY <2>1, SumType
<1>3. CASE v \in S
  <2>1. \A x \in S : c[x] \in Int /\ d[x] \in Int
    BY <1>1
  <2>2. SumFunctionOnSet(d, S) = SumFunctionOnSet(c, S) + d[v] - c[v]
    BY <1>1, <1>2, <1>3, <2>1, SumUpdate
  <2>3. QED
    BY <1>1, <1>2, <1>3, <2>2 DEF d
<1>4. CASE v \notin S
  <2>1. \A x \in S : c[x] = d[x]
    BY <1>1, <1>4
  <2>2. SumFunctionOnSet(c, S) = SumFunctionOnSet(d, S)
    BY <1>2, <2>1, SumSame
  <2>3. QED
    BY <1>1, <1>2, <1>4, <2>2 DEF d
<1>5. QED
  BY <1>3, <1>4

LEMMA WithWeightedSums ==
  ASSUME NEW c \in [Values -> Nat], NEW v \in Values
  PROVE  /\ SumFunctionOnSet(Times(With(c, v)), Values)
              = SumFunctionOnSet(Times(c), Values) + v
         /\ SumFunctionOnSet(Squares(With(c, v)), Values)
              = SumFunctionOnSet(Squares(c), Values) + v * v
<1> DEFINE d == With(c, v)
<1>1. d \in [Values -> Nat] /\ d[v] = c[v] + 1 /\ \A x \in Values : x # v => d[x] = c[x]
  BY DEF With
<1> HIDE DEF d
<1>2. \A x \in Values : /\ Times(c)[x] \in Int /\ Times(d)[x] \in Int
                        /\ Squares(c)[x] \in Int /\ Squares(d)[x] \in Int
  BY <1>1, ValueRange DEF Times, Squares
<1>3. \A x \in Values : x # v => Times(c)[x] = Times(d)[x] /\ Squares(c)[x] = Squares(d)[x]
  BY <1>1 DEF Times, Squares
<1>4. Times(d)[v] - Times(c)[v] = v /\ Squares(d)[v] - Squares(c)[v] = v * v
  <2>1. v \in Int /\ c[v] \in Int
    BY ValueRange
  <2>2. v * (c[v] + 1) - v * c[v] = v /\ v * v * (c[v] + 1) - v * v * c[v] = v * v
    BY <2>1
  <2>3. QED
    BY <1>1, <2>2 DEF Times, Squares
<1>5. /\ SumFunctionOnSet(Times(d), Values)
           = SumFunctionOnSet(Times(c), Values) + Times(d)[v] - Times(c)[v]
      /\ SumFunctionOnSet(Squares(d), Values)
           = SumFunctionOnSet(Squares(c), Values) + Squares(d)[v] - Squares(c)[v]
  <2>1. SumFunctionOnSet(Times(d), Values)
           = SumFunctionOnSet(Times(c), Values) + Times(d)[v] - Times(c)[v]
    <3> DEFINE f == Times(c)
               g == Times(d)
    <3>1. /\ \A x \in Values : f[x] \in Int /\ g[x] \in Int
          /\ \A x \in Values : x # v => f[x] = g[x]
      BY <1>2, <1>3
    <3> HIDE DEF f, g
    <3>2. SumFunctionOnSet(g, Values) = SumFunctionOnSet(f, Values) + g[v] - f[v]
      BY <3>1, ValuesFinite, SumUpdate
    <3>3. QED
      BY <3>2 DEF f, g
  <2>2. SumFunctionOnSet(Squares(d), Values)
           = SumFunctionOnSet(Squares(c), Values) + Squares(d)[v] - Squares(c)[v]
    <3> DEFINE f == Squares(c)
               g == Squares(d)
    <3>1. /\ \A x \in Values : f[x] \in Int /\ g[x] \in Int
          /\ \A x \in Values : x # v => f[x] = g[x]
      BY <1>2, <1>3
    <3> HIDE DEF f, g
    <3>2. SumFunctionOnSet(g, Values) = SumFunctionOnSet(f, Values) + g[v] - f[v]
      BY <3>1, ValuesFinite, SumUpdate
    <3>3. QED
      BY <3>2 DEF f, g
  <2>3. QED
    BY <2>1, <2>2
<1>6. SumFunctionOnSet(Times(c), Values) \in Int /\ SumFunctionOnSet(Squares(c), Values) \in Int
  BY <1>2, ValuesFinite, SumType
<1>7. QED
  BY <1>2, <1>4, <1>5, <1>6 DEF d

LEMMA AddedMoments ==
  ASSUME NEW s, IsStatistic(s), NEW c \in [Values -> Nat], MomentsOf(s, c),
         NEW v \in Values
  PROVE  MomentsOf(Added(s, v), With(c, v))
<1> DEFINE t == Added(s, v)
           d == With(c, v)
<1>1. /\ t.s0 = s.s0 + 1 /\ t.s1 = s.s1 + v /\ t.s2 = s.s2 + v * v
      /\ t.min = (IF v < s.min THEN v ELSE s.min)
      /\ t.max = (IF v > s.max THEN v ELSE s.max)
  BY AddedFields, ValueRange
<1>2. HeldIn(d) = HeldIn(c) \cup {v}
  BY DEF HeldIn, With
<1>3. v \in Int /\ s.min \in Int /\ s.max \in Int /\ HeldIn(c) \subseteq Int /\ Infinite \in Int
  BY ValueRange DEF IsStatistic, HeldIn
<1>4. SumFunctionOnSet(d, Values) = SumFunctionOnSet(c, Values) + 1
  BY WithSum
<1> HIDE DEF t, d
<1>5. IsLeast(t.min, HeldIn(d) \cup {Infinite})
  <2>1. IsLeast(s.min, HeldIn(c) \cup {Infinite})
    BY DEF MomentsOf
  <2>2. QED
    BY <1>1, <1>2, <1>3, <2>1 DEF IsLeast
<1>6. IsGreatest(t.max, HeldIn(d) \cup {-Infinite})
  <2>1. IsGreatest(s.max, HeldIn(c) \cup {-Infinite})
    BY DEF MomentsOf
  <2>2. -Infinite \in Int
    BY <1>3
  <2>3. QED
    BY <1>1, <1>2, <1>3, <2>1, <2>2 DEF IsGreatest
<1>7. /\ t.s0 = SumFunctionOnSet(d, Values)
      /\ t.s1 = SumFunctionOnSet(Times(d), Values)
      /\ t.s2 = SumFunctionOnSet(Squares(d), Values)
  BY <1>1, <1>4, WithWeightedSums DEF MomentsOf, d
<1>8. QED
  BY <1>5, <1>6, <1>7 DEF MomentsOf, t, d

LEMMA AddedHistogram ==
  ASSUME NEW s, IsStatistic(s), NEW c \in [Values -> Nat], NEW h \in Histograms,
         HistogramOf(s, c, h), NEW v \in Values
  PROVE  HistogramOf(Added(s, v), With(c, v), h)
<1> DEFINE t == Added(s, v)
           d == With(c, v)
           b == BinOf(h, v)
<1>1. t[h] = IF h \in HistogramsFor(v) THEN AddToHistogram(s[h], h, v) ELSE s[h]
  BY AddedFields, ValueRange
<1>2. s[h].bin \in [Bins -> Nat] /\ s[h].n_samples \in Nat
  BY DEF IsStatistic, IsHistogram
<1>3. \A i \in Bins : SumFunctionOnSet(d, InBinOf(h, i))
        = SumFunctionOnSet(c, InBinOf(h, i)) + (IF v \in InBinOf(h, i) THEN 1 ELSE 0)
  BY WithSum DEF InBinOf
<1>4. CASE h \in HistogramsFor(v)
  <2>1. b \in Bins
    BY <1>4, BinOfRange, ValueRange
  <2>2. \A i \in Bins : v \in InBinOf(h, i) <=> i = b
    BY <1>4 DEF InBinOf
  <2>3. t[h].bin = [s[h].bin EXCEPT ![b] = s[h].bin[b] + 1]
        /\ t[h].n_samples = s[h].n_samples + 1
    BY <1>1, <1>4 DEF AddToHistogram
  <2> HIDE DEF t, d, b
  <2>4. /\ t[h].bin \in [Bins -> Nat] /\ t[h].bin[b] = s[h].bin[b] + 1
        /\ \A i \in Bins : i # b => t[h].bin[i] = s[h].bin[i]
    BY <1>2, <2>1, <2>3
  <2>5. \A i \in Bins : t[h].bin[i] = SumFunctionOnSet(d, InBinOf(h, i))
    BY <1>2, <1>3, <2>2, <2>4 DEF HistogramOf
  <2>6. t[h].n_samples = SumFunctionOnSet(t[h].bin, Bins)
    <3> DEFINE f == s[h].bin
               g == t[h].bin
    <3>1. (\A i \in Bins : f[i] \in Int /\ g[i] \in Int)
          /\ (\A i \in Bins : i # b => f[i] = g[i]) /\ g[b] = f[b] + 1
      BY <1>2, <2>4
    <3>2. s[h].n_samples = SumFunctionOnSet(f, Bins)
      BY DEF HistogramOf
    <3> HIDE DEF f, g
    <3>3. SumFunctionOnSet(g, Bins) = SumFunctionOnSet(f, Bins) + g[b] - f[b]
      <4>1. /\ \A i \in Bins : f[i] \in Int /\ g[i] \in Int
            /\ \A i \in Bins : i # b => f[i] = g[i]
        BY <3>1
      <4>2. QED
        BY <2>1, <4>1, BinsFinite, SumUpdate
    <3>4. SumFunctionOnSet(f, Bins) \in Int
      BY <3>1, BinsFinite, SumType
    <3>5. f[b] \in Int /\ g[b] - f[b] = 1
      BY <2>1, <3>1
    <3>6. QED
      BY <2>3, <3>1, <3>2, <3>3, <3>4, <3>5 DEF g
  <2>7. QED
    BY <2>5, <2>6 DEF HistogramOf, t, d
<1>5. CASE h \notin HistogramsFor(v)
  <2>1. t[h] = s[h] /\ \A i \in Bins : v \notin InBinOf(h, i)
    BY <1>1, <1>5 DEF InBinOf
  <2> HIDE DEF t, d
  <2>2. \A i \in Bins : SumFunctionOnSet(d, InBinOf(h, i)) = SumFunctionOnSet(c, InBinOf(h, i))
    BY <1>2, <1>3, <2>1 DEF HistogramOf
  <2>3. QED
    BY <2>1, <2>2 DEF HistogramOf, t, d
<1>6. QED
  BY <1>4, <1>5

LEMMA AddedDescribes ==
  ASSUME NEW s, NEW c, Describes(s, c), NEW v \in Values
  PROVE  /\ Describes(Added(s, v), With(c, v))
         /\ HistogramOf(s, c, "second") => HistogramOf(Added(s, v), With(c, v), "second")
<1>1. IsStatistic(s) /\ c \in [Values -> Nat] /\ v \in Int
  BY ValueRange DEF Describes
<1>2. IsStatistic(Added(s, v)) /\ With(c, v) \in [Values -> Nat]
  BY <1>1, AddedIsStatistic DEF With
<1>3. MomentsOf(Added(s, v), With(c, v))
  BY <1>1, AddedMoments DEF Describes
<1>4. \A h \in Histograms :
        HistogramOf(s, c, h) => HistogramOf(Added(s, v), With(c, v), h)
  BY <1>1, AddedHistogram
<1>5. QED
  BY <1>2, <1>3, <1>4 DEF Describes, Histograms

\* MergeWithStatistic: the samples of both, below a second.
LEMMA MergedIsStatistic ==
  ASSUME NEW s, IsStatistic(s), NEW u, IsStatistic(u)
  PROVE  IsStatistic(Merge(s, u))
<1> DEFINE t == Merge(s, u)
<1>1. /\ t = [f \in Fields |-> t[f]]
      /\ t.s0 = s.s0 + u.s0 /\ t.s1 = s.s1 + u.s1 /\ t.s2 = s.s2 + u.s2
      /\ t.min = Min({s.min, u.min}) /\ t.max = Max({s.max, u.max})
      /\ t["microsecond"] = MergeWithHistogram(s["microsecond"], u["microsecond"])
      /\ t["millisecond"] = MergeWithHistogram(s["millisecond"], u["millisecond"])
      /\ t["second"] = MergeWithHistogram(s["second"], u["microsecond"])
  BY MergedFields
<1> HIDE DEF t
<1>2. ASSUME NEW x, NEW y, IsHistogram(x), IsHistogram(y)
      PROVE  IsHistogram(MergeWithHistogram(x, y))
  BY <1>2 DEF IsHistogram, MergeWithHistogram
<1>3. \A h \in Histograms : IsHistogram(t[h])
  BY <1>1, <1>2 DEF IsStatistic, Histograms
<1>4. t.min \in Int /\ t.max \in Int
  BY <1>1, MinMaxOfTwo DEF IsStatistic
<1>5. QED
  BY <1>1, <1>3, <1>4 DEF IsStatistic, t

LEMMA PlusSum ==
  ASSUME NEW c \in [Values -> Nat], NEW d \in [Values -> Nat], NEW S \in SUBSET Values
  PROVE  SumFunctionOnSet(Plus(c, d), S) = SumFunctionOnSet(c, S) + SumFunctionOnSet(d, S)
<1>1. IsFiniteSet(S)
  BY ValuesFinite, FS_Subset
<1>2. \A x \in S : c[x] \in Int /\ d[x] \in Int /\ Plus(c, d)[x] = c[x] + d[x]
  BY DEF Plus
<1>3. QED
  BY <1>1, <1>2, SumOfSums

LEMMA PlusWeightedSums ==
  ASSUME NEW c \in [Values -> Nat], NEW d \in [Values -> Nat]
  PROVE  /\ SumFunctionOnSet(Times(Plus(c, d)), Values)
              = SumFunctionOnSet(Times(c), Values) + SumFunctionOnSet(Times(d), Values)
         /\ SumFunctionOnSet(Squares(Plus(c, d)), Values)
              = SumFunctionOnSet(Squares(c), Values) + SumFunctionOnSet(Squares(d), Values)
<1>1. \A x \in Values : Times(c)[x] \in Int /\ Times(d)[x] \in Int
                        /\ Squares(c)[x] \in Int /\ Squares(d)[x] \in Int
  BY ValueRange DEF Times, Squares
<1>2. \A x \in Values : Times(Plus(c, d))[x] = Times(c)[x] + Times(d)[x]
  <2>1. \A x \in Values : x * (c[x] + d[x]) = x * c[x] + x * d[x]
    BY ValueRange
  <2>2. QED
    BY <2>1 DEF Times, Plus
<1>3. \A x \in Values : Squares(Plus(c, d))[x] = Squares(c)[x] + Squares(d)[x]
  <2>1. \A x \in Values : x * x * (c[x] + d[x]) = x * x * c[x] + x * x * d[x]
    BY ValueRange
  <2>2. QED
    BY <2>1 DEF Squares, Plus
<1>4. SumFunctionOnSet(Times(Plus(c, d)), Values)
        = SumFunctionOnSet(Times(c), Values) + SumFunctionOnSet(Times(d), Values)
  <2> DEFINE f == Times(c)
             g == Times(d)
             k == Times(Plus(c, d))
  <2>1. \A x \in Values : f[x] \in Int /\ g[x] \in Int /\ k[x] = f[x] + g[x]
    BY <1>1, <1>2
  <2> HIDE DEF f, g, k
  <2>2. SumFunctionOnSet(k, Values) = SumFunctionOnSet(f, Values) + SumFunctionOnSet(g, Values)
    BY <2>1, ValuesFinite, SumOfSums
  <2>3. QED
    BY <2>2 DEF f, g, k
<1>5. SumFunctionOnSet(Squares(Plus(c, d)), Values)
        = SumFunctionOnSet(Squares(c), Values) + SumFunctionOnSet(Squares(d), Values)
  <2> DEFINE f == Squares(c)
             g == Squares(d)
             k == Squares(Plus(c, d))
  <2>1. \A x \in Values : f[x] \in Int /\ g[x] \in Int /\ k[x] = f[x] + g[x]
    BY <1>1, <1>3
  <2> HIDE DEF f, g, k
  <2>2. SumFunctionOnSet(k, Values) = SumFunctionOnSet(f, Values) + SumFunctionOnSet(g, Values)
    BY <2>1, ValuesFinite, SumOfSums
  <2>3. QED
    BY <2>2 DEF f, g, k
<1>6. QED
  BY <1>4, <1>5

LEMMA MergedMoments ==
  ASSUME NEW s, IsStatistic(s), NEW c \in [Values -> Nat], MomentsOf(s, c),
         NEW u, IsStatistic(u), NEW d \in [Values -> Nat], MomentsOf(u, d)
  PROVE  MomentsOf(Merge(s, u), Plus(c, d))
<1> DEFINE t == Merge(s, u)
           e == Plus(c, d)
<1>1. /\ t.s0 = s.s0 + u.s0 /\ t.s1 = s.s1 + u.s1 /\ t.s2 = s.s2 + u.s2
      /\ t.min = Min({s.min, u.min}) /\ t.max = Max({s.max, u.max})
  BY MergedFields, SMTT(20)
<1>2. HeldIn(e) = HeldIn(c) \cup HeldIn(d)
  BY DEF HeldIn, Plus
<1>3. /\ s.min \in Int /\ s.max \in Int /\ u.min \in Int /\ u.max \in Int
      /\ HeldIn(c) \cup {Infinite} \subseteq Int /\ HeldIn(d) \cup {Infinite} \subseteq Int
      /\ HeldIn(c) \cup {-Infinite} \subseteq Int /\ HeldIn(d) \cup {-Infinite} \subseteq Int
  BY ValueRange DEF IsStatistic, HeldIn
<1>4. /\ t.min = (IF s.min <= u.min THEN s.min ELSE u.min)
      /\ t.max = (IF s.max >= u.max THEN s.max ELSE u.max)
  BY <1>1, <1>3, MinMaxOfTwo
<1> HIDE DEF t, e
<1>5. IsLeast(t.min, HeldIn(e) \cup {Infinite})
  <2>1. IsLeast(s.min, HeldIn(c) \cup {Infinite}) /\ IsLeast(u.min, HeldIn(d) \cup {Infinite})
    BY DEF MomentsOf
  <2>2. QED
    BY <1>2, <1>3, <1>4, <2>1 DEF IsLeast
<1>6. IsGreatest(t.max, HeldIn(e) \cup {-Infinite})
  <2>1. /\ IsGreatest(s.max, HeldIn(c) \cup {-Infinite})
        /\ IsGreatest(u.max, HeldIn(d) \cup {-Infinite})
    BY DEF MomentsOf
  <2>2. QED
    BY <1>2, <1>3, <1>4, <2>1 DEF IsGreatest
<1>7. /\ t.s0 = SumFunctionOnSet(e, Values)
      /\ t.s1 = SumFunctionOnSet(Times(e), Values)
      /\ t.s2 = SumFunctionOnSet(Squares(e), Values)
  BY <1>1, PlusSum, PlusWeightedSums DEF MomentsOf, e
<1>8. QED
  BY <1>5, <1>6, <1>7 DEF MomentsOf, t, e

LEMMA MergedHistogram ==
  ASSUME NEW s, IsStatistic(s), NEW c \in [Values -> Nat],
         NEW u, IsStatistic(u), NEW d \in [Values -> Nat],
         NEW h \in {"microsecond", "millisecond"},
         HistogramOf(s, c, h), HistogramOf(u, d, h)
  PROVE  HistogramOf(Merge(s, u), Plus(c, d), h)
<1> DEFINE t == Merge(s, u)
           e == Plus(c, d)
           f == s[h].bin
           g == u[h].bin
<1>1. /\ t["microsecond"] = MergeWithHistogram(s["microsecond"], u["microsecond"])
      /\ t["millisecond"] = MergeWithHistogram(s["millisecond"], u["millisecond"])
  BY MergedFields
<1>2. /\ t[h].bin = [i \in Bins |-> f[i] + g[i]]
      /\ t[h].n_samples = s[h].n_samples + u[h].n_samples
  BY <1>1 DEF MergeWithHistogram
<1>3. f \in [Bins -> Nat] /\ g \in [Bins -> Nat]
  BY DEF IsStatistic, IsHistogram, Histograms
<1>4. \A i \in Bins : SumFunctionOnSet(e, InBinOf(h, i))
         = SumFunctionOnSet(c, InBinOf(h, i)) + SumFunctionOnSet(d, InBinOf(h, i))
  BY PlusSum DEF InBinOf
<1>5. /\ \A i \in Bins : f[i] = SumFunctionOnSet(c, InBinOf(h, i))
      /\ \A i \in Bins : g[i] = SumFunctionOnSet(d, InBinOf(h, i))
      /\ s[h].n_samples = SumFunctionOnSet(f, Bins)
      /\ u[h].n_samples = SumFunctionOnSet(g, Bins)
  BY DEF HistogramOf
<1> HIDE DEF t, e, f, g
<1>6. \A i \in Bins : t[h].bin[i] = SumFunctionOnSet(e, InBinOf(h, i))
  BY <1>2, <1>4, <1>5
<1>7. SumFunctionOnSet(t[h].bin, Bins) = SumFunctionOnSet(f, Bins) + SumFunctionOnSet(g, Bins)
  <2> DEFINE k == t[h].bin
  <2>1. \A i \in Bins : f[i] \in Int /\ g[i] \in Int /\ k[i] = f[i] + g[i]
    BY <1>2, <1>3
  <2> HIDE DEF k
  <2>2. SumFunctionOnSet(k, Bins) = SumFunctionOnSet(f, Bins) + SumFunctionOnSet(g, Bins)
    BY <2>1, BinsFinite, SumOfSums
  <2>3. QED
    BY <2>2 DEF k
<1>8. QED
  BY <1>2, <1>5, <1>6, <1>7 DEF HistogramOf, t, e

LEMMA MergedDescribes ==
  ASSUME NEW s, NEW c, Describes(s, c), NEW u, NEW d, Describes(u, d)
  PROVE  Describes(Merge(s, u), Plus(c, d))
<1>1. /\ IsStatistic(s) /\ c \in [Values -> Nat] /\ MomentsOf(s, c)
      /\ IsStatistic(u) /\ d \in [Values -> Nat] /\ MomentsOf(u, d)
      /\ \A h \in {"microsecond", "millisecond"} : HistogramOf(s, c, h) /\ HistogramOf(u, d, h)
  BY DEF Describes
<1>2. IsStatistic(Merge(s, u)) /\ MomentsOf(Merge(s, u), Plus(c, d))
  BY <1>1, MergedIsStatistic, MergedMoments
<1>3. \A h \in {"microsecond", "millisecond"} : HistogramOf(Merge(s, u), Plus(c, d), h)
  BY <1>1, MergedHistogram
<1>4. Plus(c, d) \in [Values -> Nat]
  BY <1>1 DEF Plus
<1>5. QED
  BY <1>2, <1>3, <1>4 DEF Describes

------------------------------------------------------------------------------
(* The inductive invariant: every statistic describes its contents. *)

StatisticInv ==
  /\ stat = [n \in Names |-> stat[n]] /\ contents = [n \in Names |-> contents[n]]
  /\ dead \in BOOLEAN /\ merged \subseteq Names
  /\ \A n \in Names :
       /\ Describes(stat[n], contents[n])
       /\ SumFunctionOnSet(contents[n], Values) <= MaxSamples
       /\ n \notin merged => HistogramOf(stat[n], contents[n], "second")

LEMMA SizeIsSum ==
  ASSUME StatisticInv, NEW n \in Names
  PROVE  /\ contents[n] \in [Values -> Nat]
         /\ Size(n) = SumFunctionOnSet(contents[n], Values)
         /\ Size(n) \in Nat
<1>1. contents[n] \in [Values -> Nat]
  BY DEF StatisticInv, Describes
<1>2. Size(n) = SumFunctionOnSet(contents[n], Values)
  BY <1>1 DEF Size, SumFunction
<1>3. SumFunctionOnSet(contents[n], Values) \in Nat
  <2>1. \A v \in Values : contents[n][v] \in Nat
    BY <1>1
  <2>2. QED
    BY <2>1, ValuesFinite, SumType
<1>4. QED
  BY <1>1, <1>2, <1>3

LEMMA InitInv == Init => StatisticInv
<1> SUFFICES ASSUME Init
             PROVE  StatisticInv
  OBVIOUS
<1>1. SumFunctionOnSet(NoContents, Values) <= MaxSamples
  <2>1. \A v \in Values : NoContents[v] = 0
    BY DEF NoContents
  <2>2. SumFunctionOnSet(NoContents, Values) = 0
    BY <2>1, ValuesFinite, SumOfZeros
  <2>3. QED
    BY <2>2, StatisticAssumption
<1>2. QED
  BY <1>1, NewDescribes DEF Init, StatisticInv

\* One statistic and its contents change: what is to be shown of them.
LEMMA OneChanges ==
  ASSUME StatisticInv, NEW n \in Names, NEW s, NEW c,
         stat' = [stat EXCEPT ![n] = s], contents' = [contents EXCEPT ![n] = c],
         dead' \in BOOLEAN, merged' \subseteq Names,
         merged' \ {n} = merged \ {n},
         Describes(s, c), SumFunctionOnSet(c, Values) <= MaxSamples,
         n \notin merged' => HistogramOf(s, c, "second")
  PROVE  StatisticInv'
<1>1. /\ stat' = [m \in Names |-> IF m = n THEN s ELSE stat[m]]
      /\ contents' = [m \in Names |-> IF m = n THEN c ELSE contents[m]]
  BY DEF StatisticInv
<1>2. ASSUME NEW m \in Names
      PROVE  /\ Describes(stat'[m], contents'[m])
             /\ SumFunctionOnSet(contents'[m], Values) <= MaxSamples
             /\ m \notin merged' => HistogramOf(stat'[m], contents'[m], "second")
  <2>1. CASE m = n
    BY <1>1, <2>1
  <2>2. CASE m # n
    <3>1. stat'[m] = stat[m] /\ contents'[m] = contents[m]
      BY <1>1, <2>2
    <3>2. m \in merged' <=> m \in merged
      BY <2>2
    <3>3. QED
      BY <3>1, <3>2 DEF StatisticInv
  <2>3. QED
    BY <2>1, <2>2
<1>3. /\ stat' = [m \in Names |-> stat'[m]]
      /\ contents' = [m \in Names |-> contents'[m]]
  BY <1>1
<1>4. QED
  BY <1>2, <1>3 DEF StatisticInv

LEMMA AddSampleInv ==
  ASSUME StatisticInv, NEW n \in Names, NEW v \in Values, Size(n) < MaxSamples,
         AddSample(n, v)
  PROVE  StatisticInv'
<1> DEFINE s == stat[n]
           c == contents[n]
<1>1. stat' = [stat EXCEPT ![n] = Added(s, v)]
  BY DEF AddSample, Added
<1>2. contents' = [contents EXCEPT ![n] = With(c, v)]
  BY DEF AddSample, With
<1>3. dead' \in BOOLEAN /\ merged' = merged /\ merged \subseteq Names
  BY DEF AddSample, StatisticInv
<1>4. /\ Describes(Added(s, v), With(c, v))
      /\ n \notin merged => HistogramOf(Added(s, v), With(c, v), "second")
  BY AddedDescribes DEF StatisticInv
<1>5. SumFunctionOnSet(With(c, v), Values) <= MaxSamples
  <2>1. SumFunctionOnSet(With(c, v), Values) = SumFunctionOnSet(c, Values) + 1
    BY SizeIsSum, WithSum
  <2>2. QED
    BY <2>1, SizeIsSum, StatisticAssumption
<1> HIDE DEF s, c
<1>6. QED
  BY <1>1, <1>2, <1>3, <1>4, <1>5, OneChanges

LEMMA MergeInv ==
  ASSUME StatisticInv, NEW n \in Names, NEW m \in Names,
         Size(n) + Size(m) <= MaxSamples, MergeWithStatistic(n, m)
  PROVE  StatisticInv'
<1> DEFINE s == Merge(stat[n], stat[m])
           c == Plus(contents[n], contents[m])
<1>1. stat' = [stat EXCEPT ![n] = s]
  BY DEF MergeWithStatistic
<1>2. contents' = [contents EXCEPT ![n] = c]
  BY DEF MergeWithStatistic, Plus
<1>3. dead' \in BOOLEAN /\ merged' = merged \cup {n} /\ merged' \subseteq Names
  BY DEF MergeWithStatistic, StatisticInv
<1>4. Describes(s, c)
  BY MergedDescribes DEF StatisticInv
<1>5. SumFunctionOnSet(c, Values) <= MaxSamples
  <2>1. SumFunctionOnSet(c, Values) = Size(n) + Size(m)
    BY SizeIsSum, PlusSum
  <2>2. QED
    BY <2>1
<1> HIDE DEF s, c
<1>6. QED
  BY <1>1, <1>2, <1>3, <1>4, <1>5, OneChanges

LEMMA CopyInv ==
  ASSUME StatisticInv, NEW n \in Names, NEW m \in Names, Copy(n, m)
  PROVE  StatisticInv'
<1>1. /\ stat' = [stat EXCEPT ![m] = stat[n]]
      /\ contents' = [contents EXCEPT ![m] = contents[n]]
      /\ merged' = IF n \in merged THEN merged \cup {m} ELSE merged \ {m}
      /\ dead' = dead
  BY DEF Copy
<1>2. /\ dead' \in BOOLEAN /\ merged' \subseteq Names
      /\ merged' \ {m} = merged \ {m}
      /\ m \notin merged' => n \notin merged
  BY <1>1 DEF StatisticInv
<1>3. /\ Describes(stat[n], contents[n])
      /\ SumFunctionOnSet(contents[n], Values) <= MaxSamples
      /\ n \notin merged => HistogramOf(stat[n], contents[n], "second")
  BY DEF StatisticInv
<1>4. QED
  BY <1>1, <1>2, <1>3, OneChanges

LEMMA ResetInv ==
  ASSUME StatisticInv, NEW n \in Names, Reset(n)
  PROVE  StatisticInv'
<1>1. /\ stat' = [stat EXCEPT ![n] = NewStatistic]
      /\ contents' = [contents EXCEPT ![n] = NoContents]
      /\ merged' = merged \ {n} /\ dead' = dead
  BY DEF Reset
<1>2. /\ dead' \in BOOLEAN /\ merged' \subseteq Names
      /\ merged' \ {n} = merged \ {n}
  BY <1>1 DEF StatisticInv
<1>3. SumFunctionOnSet(NoContents, Values) <= MaxSamples
  <2>1. \A v \in Values : NoContents[v] = 0
    BY DEF NoContents
  <2>2. SumFunctionOnSet(NoContents, Values) = 0
    BY <2>1, ValuesFinite, SumOfZeros
  <2>3. QED
    BY <2>2, StatisticAssumption
<1>4. QED
  BY <1>1, <1>2, <1>3, NewDescribes, OneChanges

LEMMA StepInv == StatisticInv /\ [Next]_statVars => StatisticInv'
<1> SUFFICES ASSUME StatisticInv, [Next]_statVars
             PROVE  StatisticInv'
  OBVIOUS
<1>1. CASE UNCHANGED statVars
  BY <1>1 DEF StatisticInv, statVars
<1>2. CASE Ended
  BY <1>1, <1>2 DEF Ended
<1>3. ASSUME NEW n \in Names, Operation(n)
      PROVE  StatisticInv'
  BY <1>3, AddSampleInv, MergeInv, CopyInv, ResetInv DEF Operation
<1>4. QED
  BY <1>1, <1>2, <1>3 DEF Next

LEMMA SpecInv == Spec => []StatisticInv
BY InitInv, StepInv, PTL DEF Spec

\* The statistics and their history keep their types.
THEOREM StatisticType == Spec => []StatisticTypeOK
<1>1. ASSUME StatisticInv PROVE StatisticTypeOK
  <2>1. ASSUME NEW n \in Names
        PROVE  /\ stat[n].s0 \in 0..MaxSamples
               /\ \A h \in Histograms : stat[n][h].bin \in [Bins -> Nat]
               /\ contents[n] \in [Values -> 0..MaxSamples]
    <3>1. /\ IsStatistic(stat[n]) /\ contents[n] \in [Values -> Nat]
          /\ stat[n].s0 = SumFunctionOnSet(contents[n], Values)
          /\ SumFunctionOnSet(contents[n], Values) <= MaxSamples
      BY <1>1 DEF StatisticInv, Describes, MomentsOf
    <3>2. \A v \in Values : contents[n][v] <= SumFunctionOnSet(contents[n], Values)
      <4>1. \A v \in Values : contents[n][v] \in Nat
        BY <3>1
      <4>2. QED
        BY <4>1, ValuesFinite, SumAboveEach
    <3>3. SumFunctionOnSet(contents[n], Values) \in Nat /\ MaxSamples \in Nat
      BY <1>1, SizeIsSum, StatisticAssumption
    <3>4. \A v \in Values : contents[n][v] \in 0..MaxSamples
      BY <3>1, <3>2, <3>3
    <3>5. QED
      BY <3>1, <3>3, <3>4, SMTT(20) DEF IsStatistic, IsHistogram
  <2>2. QED
    BY <1>1, <2>1 DEF StatisticTypeOK, StatisticInv
<1>2. QED
  BY <1>1, SpecInv, PTL

\* After any sequence of samples, copies, resets and merges the moments are those
\* of the samples a statistic stands for.
THEOREM MomentsAreOfContents == Spec => []MomentsMatch
<1>1. ASSUME StatisticInv PROVE MomentsMatch
  <2> SUFFICES ASSUME NEW n \in Names
               PROVE  /\ stat[n].s0 = Size(n)
                      /\ stat[n].s1 = SumFunction([v \in Values |-> v * contents[n][v]])
                      /\ stat[n].s2 = SumFunction([v \in Values |-> v * v * contents[n][v]])
                      /\ stat[n].min = Min(Held(n) \cup {Infinite})
                      /\ stat[n].max = Max(Held(n) \cup {-Infinite})
    BY DEF MomentsMatch
  <2>1. MomentsOf(stat[n], contents[n])
    BY <1>1 DEF StatisticInv, Describes
  <2>2. stat[n].s0 = Size(n)
    BY <1>1, <2>1, SizeIsSum DEF MomentsOf
  <2>3. /\ stat[n].s1 = SumFunction([v \in Values |-> v * contents[n][v]])
        /\ stat[n].s2 = SumFunction([v \in Values |-> v * v * contents[n][v]])
    <3>1. /\ DOMAIN Times(contents[n]) = Values
          /\ DOMAIN Squares(contents[n]) = Values
      BY DEF Times, Squares
    <3>2. /\ stat[n].s1 = SumFunction(Times(contents[n]))
          /\ stat[n].s2 = SumFunction(Squares(contents[n]))
      BY <2>1, <3>1 DEF MomentsOf, SumFunction
    <3>3. QED
      BY <3>2 DEF Times, Squares
  <2>4. Held(n) = HeldIn(contents[n])
    BY DEF Held, HeldIn
  <2>5. Held(n) \cup {Infinite} \subseteq Int /\ Held(n) \cup {-Infinite} \subseteq Int
    <3>1. Infinite \in Int /\ -Infinite \in Int
      BY ValueRange
    <3>2. Held(n) \subseteq Int
      BY ValueRange DEF Held
    <3>3. QED
      BY <3>1, <3>2
  <2>6. /\ IsLeast(stat[n].min, Held(n) \cup {Infinite})
        /\ IsGreatest(stat[n].max, Held(n) \cup {-Infinite})
    BY <2>1, <2>4 DEF MomentsOf
  <2>7. QED
    BY <2>2, <2>3, <2>5, <2>6, LeastIsMin, GreatestIsMax
<1>2. QED
  BY <1>1, SpecInv, PTL

\* Below a second every sample is in the bin of its value, and n_samples_ counts
\* the bins.
THEOREM SamplesInTheirBins == Spec => []SubSecondHistogramsMatch
<1>1. ASSUME StatisticInv PROVE SubSecondHistogramsMatch
  <2> SUFFICES ASSUME NEW n \in Names, NEW h \in {"microsecond", "millisecond"}
               PROVE  /\ \A i \in Bins : stat[n][h].bin[i] = InBin(n, h, i)
                      /\ stat[n][h].n_samples = SumFunction(stat[n][h].bin)
    BY DEF SubSecondHistogramsMatch
  <2>1. HistogramOf(stat[n], contents[n], h) /\ IsStatistic(stat[n])
    BY <1>1 DEF StatisticInv, Describes
  <2>2. stat[n][h].bin \in [Bins -> Nat]
    BY <2>1 DEF IsStatistic, IsHistogram, Histograms
  <2>3. QED
    BY <2>1, <2>2 DEF HistogramOf, InBin, InBinOf, SumFunction
<1>2. QED
  BY <1>1, SpecInv, PTL

------------------------------------------------------------------------------
(* Quantiles.  The samples of a histogram come after those below its range, and *)
(* within it the bins are in the order of the values: the bin that GetQuantile  *)
(* stops at is that of the smallest value whose rank reaches the samples needed. *)

LowOf == [microsecond |-> 0, millisecond |-> MicroMax, second |-> MilliMax]

Below(x) == {v \in Values : v < x}
UpTo(v)  == {u \in Values : u <= v}
InHistogram(h) == {v \in Values : h \in HistogramsFor(v)}
InBinsUpTo(h, i) == {v \in Values : h \in HistogramsFor(v) /\ BinOf(h, v) <= i}

LEMMA HistogramRange ==
  ASSUME NEW v \in Int, NEW h \in Histograms
  PROVE  /\ h \in HistogramsFor(v) <=> LowOf[h] <= v /\ v < Maximum[h]
         /\ LowOf[h] \in Nat /\ Maximum[h] \in Nat /\ LowOf[h] < Maximum[h]
BY StatisticAssumption DEF HistogramsFor, Histograms, LowOf, Maximum

\* The ranges do not overlap.
LEMMA OneHistogram ==
  ASSUME NEW v \in Int, NEW h \in HistogramsFor(v)
  PROVE  (CHOOSE x \in HistogramsFor(v) : TRUE) = h
<1>1. \A x \in HistogramsFor(v) : x = h
  BY StatisticAssumption DEF HistogramsFor
<1>2. QED
  BY <1>1

LEMMA QuotientMonotonic ==
  ASSUME NEW u \in Nat, NEW v \in Nat, NEW w \in Nat \ {0}, u <= v
  PROVE  u \div w <= v \div w
<1> DEFINE p == u \div w
           q == v \div w
<1>1. p \in Nat /\ w * p <= u /\ q \in Nat /\ v < w * q + w
  <2>1. p \in Nat /\ u = w * p + (u % w) /\ u % w \in 0..(w - 1)
    OBVIOUS
  <2>2. q \in Nat /\ v = w * q + (v % w) /\ v % w \in 0..(w - 1)
    OBVIOUS
  <2> HIDE DEF p, q
  <2>3. w * p \in Int /\ w * q \in Int
    BY <2>1, <2>2
  <2>4. QED
    BY <2>1, <2>2, <2>3
<1> HIDE DEF p, q
<1>2. SUFFICES ASSUME q + 1 <= p PROVE FALSE
  BY <1>1 DEF p, q
<1>3. (q + 1) * w <= p * w
  BY <1>1, <1>2, TimesMonotonic
<1>4. (q + 1) * w = w * q + w /\ p * w = w * p /\ w * q \in Int /\ w * p \in Int
  BY <1>1
<1>5. QED
  BY <1>1, <1>3, <1>4

LEMMA BinOfMonotonic ==
  ASSUME NEW u \in Int, NEW v \in Int, u <= v, NEW h \in Histograms,
         h \in HistogramsFor(u), h \in HistogramsFor(v)
  PROVE  /\ BinOf(h, u) <= BinOf(h, v)
         /\ BinOf(h, u) \in Bins /\ BinOf(h, v) \in Bins
<1> DEFINE w == Maximum[h] \div NBins
<1>1. Maximum[h] \in Nat \ {0} /\ Maximum[h] % NBins = 0 /\ u \in Nat /\ v \in Nat
  BY StatisticAssumption DEF HistogramsFor, Histograms, Maximum
<1>2. w \in Nat \ {0}
  BY <1>1, StatisticAssumption
<1> HIDE DEF w
<1>3. u \div w <= v \div w
  BY <1>1, <1>2, QuotientMonotonic
<1>4. QED
  BY <1>3, BinOfRange DEF BinOf, w

\* What the loop over the bins has counted up to bin i.
LEMMA CumulatedIsSum ==
  ASSUME NEW s, IsStatistic(s), NEW c \in [Values -> Nat], NEW h \in Histograms,
         HistogramOf(s, c, h), NEW i \in Bins
  PROVE  Cumulated(s[h], i) = SumFunctionOnSet(c, InBinsUpTo(h, i))
<1> DEFINE bin == s[h].bin
           Wrong == {k \in Bins : SumFunctionOnSet(bin, 0..k)
                                    # SumFunctionOnSet(c, InBinsUpTo(h, k))}
<1>1. SUFFICES ASSUME Wrong # {} PROVE FALSE
  BY DEF Cumulated
<1>2. PICK k \in Wrong : \A j \in Wrong : k <= j
  <2>1. Wrong \subseteq Nat
    BY DEF Bins
  <2> HIDE DEF Wrong
  <2>2. QED
    BY <1>1, <2>1, LeastNatural
<1>3. k \in Bins /\ k \in Nat /\ 0..k \subseteq Bins
  BY <1>2, StatisticAssumption DEF Bins
<1>4. \A j \in Bins : bin[j] \in Nat /\ bin[j] = SumFunctionOnSet(c, InBinOf(h, j))
  BY DEF IsStatistic, IsHistogram, HistogramOf
<1>5. \A v \in Values : h \in HistogramsFor(v) => BinOf(h, v) \in Nat
  BY ValueRange, BinOfRange DEF Bins
<1> HIDE DEF Wrong
<1>6. SumFunctionOnSet(bin, 0..k) = bin[k] + SumFunctionOnSet(bin, 0..(k - 1))
  <2> DEFINE T == 0..k
  <2>1. k \in Nat
    BY <1>3
  <2>2. IsFiniteSet(T)
    BY <2>1, FS_Interval
  <2>3. k \in T /\ T \ {k} = 0..(k - 1)
    BY <2>1
  <2>4. \A j \in T : bin[j] \in Int
    BY <1>3, <1>4
  <2> HIDE DEF T, bin
  <2>5. SumFunctionOnSet(bin, T) = bin[k] + SumFunctionOnSet(bin, T \ {k})
    BY <2>2, <2>3, <2>4, SumSplit
  <2>6. QED
    BY <2>3, <2>5 DEF T
<1>7. SumFunctionOnSet(bin, 0..(k - 1))
        = SumFunctionOnSet(c, InBinsUpTo(h, k) \ InBinOf(h, k))
  <2>1. CASE k = 0
    <3>1. 0..(k - 1) = {}
      BY <2>1
    <3>2. InBinsUpTo(h, k) \ InBinOf(h, k) = {}
      BY <1>5, <2>1 DEF InBinsUpTo, InBinOf
    <3>3. QED
      BY <3>1, <3>2, SumEmpty
  <2>2. CASE k # 0
    <3>1. k - 1 \in Bins /\ k - 1 \notin Wrong
      BY <1>2, <1>3, <2>2, StatisticAssumption DEF Bins
    <3>2. InBinsUpTo(h, k - 1) = InBinsUpTo(h, k) \ InBinOf(h, k)
      BY <1>3, <1>5 DEF InBinsUpTo, InBinOf
    <3>3. QED
      BY <3>1, <3>2 DEF Wrong
  <2>3. QED
    BY <2>1, <2>2
<1>8. SumFunctionOnSet(c, InBinsUpTo(h, k))
        = SumFunctionOnSet(c, InBinOf(h, k))
            + SumFunctionOnSet(c, InBinsUpTo(h, k) \ InBinOf(h, k))
  <2> DEFINE S == InBinOf(h, k)
             T == InBinsUpTo(h, k) \ InBinOf(h, k)
  <2>1. S \cup T = InBinsUpTo(h, k) /\ S \cap T = {} /\ S \subseteq Values /\ T \subseteq Values
    BY <1>3 DEF InBinOf, InBinsUpTo
  <2> HIDE DEF S, T
  <2>2. IsFiniteSet(S) /\ IsFiniteSet(T) /\ \A x \in S \cup T : c[x] \in Int
    BY <2>1, ValuesFinite, FS_Subset
  <2>3. SumFunctionOnSet(c, S \cup T) = SumFunctionOnSet(c, S) + SumFunctionOnSet(c, T)
    BY <2>1, <2>2, SumUnion
  <2>4. QED
    BY <2>1, <2>3 DEF S, T
<1>9. SumFunctionOnSet(bin, 0..k) = SumFunctionOnSet(c, InBinsUpTo(h, k))
  BY <1>3, <1>4, <1>6, <1>7, <1>8
<1>10. QED
  BY <1>2, <1>9 DEF Wrong

LEMMA SamplesInHistogram ==
  ASSUME NEW s, IsStatistic(s), NEW c \in [Values -> Nat], NEW h \in Histograms,
         HistogramOf(s, c, h)
  PROVE  s[h].n_samples = SumFunctionOnSet(c, InHistogram(h))
<1>1. NBins - 1 \in Bins /\ Bins = 0..(NBins - 1)
  BY StatisticAssumption DEF Bins
<1>2. Cumulated(s[h], NBins - 1) = SumFunctionOnSet(c, InBinsUpTo(h, NBins - 1))
  BY <1>1, CumulatedIsSum
<1>3. Cumulated(s[h], NBins - 1) = s[h].n_samples
  BY <1>1 DEF Cumulated, HistogramOf
<1>4. InBinsUpTo(h, NBins - 1) = InHistogram(h)
  <2>1. \A v \in Values : h \in HistogramsFor(v) => BinOf(h, v) <= NBins - 1
    BY ValueRange, BinOfRange, StatisticAssumption DEF Bins
  <2>2. QED
    BY <2>1 DEF InBinsUpTo, InHistogram
<1>5. QED
  BY <1>2, <1>3, <1>4

\* Sums over sets of values: their type, and over two that share none.
LEMMA ValueSums ==
  ASSUME NEW c \in [Values -> Nat]
  PROVE  /\ \A S \in SUBSET Values : SumFunctionOnSet(c, S) \in Nat
         /\ \A T \in SUBSET Values : \A S \in SUBSET T :
              SumFunctionOnSet(c, S) <= SumFunctionOnSet(c, T)
         /\ \A S, T \in SUBSET Values : S \cap T = {} =>
              SumFunctionOnSet(c, S \cup T)
                = SumFunctionOnSet(c, S) + SumFunctionOnSet(c, T)
<1>1. \A S \in SUBSET Values : IsFiniteSet(S) /\ \A x \in S : c[x] \in Nat
  BY ValuesFinite, FS_Subset
<1>2. ASSUME NEW S \in SUBSET Values
      PROVE  SumFunctionOnSet(c, S) \in Nat
  BY <1>1, SumType
<1>3. ASSUME NEW T \in SUBSET Values, NEW S \in SUBSET T
      PROVE  SumFunctionOnSet(c, S) <= SumFunctionOnSet(c, T)
  BY <1>1, SumSubset
<1>4. ASSUME NEW S \in SUBSET Values, NEW T \in SUBSET Values, S \cap T = {}
      PROVE  SumFunctionOnSet(c, S \cup T)
               = SumFunctionOnSet(c, S) + SumFunctionOnSet(c, T)
  <2>1. \A x \in S \cup T : c[x] \in Int
    BY <1>1
  <2>2. QED
    BY <1>1, <1>4, <2>1, SumUnion
<1>5. QED
  BY <1>2, <1>3, <1>4

\* The samples below the range of a histogram, those of its bins up to i, and all
\* below the end of its range.
LEMMA HistogramSums ==
  ASSUME NEW c \in [Values -> Nat], NEW h \in Histograms
  PROVE  /\ SumFunctionOnSet(c, Below(Maximum[h]))
              = SumFunctionOnSet(c, Below(LowOf[h])) + SumFunctionOnSet(c, InHistogram(h))
         /\ \A i \in Bins :
              SumFunctionOnSet(c, Below(LowOf[h]) \cup InBinsUpTo(h, i))
                = SumFunctionOnSet(c, Below(LowOf[h])) + SumFunctionOnSet(c, InBinsUpTo(h, i))
<1> DEFINE B == Below(LowOf[h])
<1>1. \A v \in Values : /\ h \in HistogramsFor(v) <=> LowOf[h] <= v /\ v < Maximum[h]
                        /\ LowOf[h] \in Nat /\ Maximum[h] \in Nat /\ LowOf[h] < Maximum[h]
                        /\ v \in Int
  BY ValueRange, HistogramRange
<1>2. Below(Maximum[h]) = B \cup InHistogram(h) /\ B \cap InHistogram(h) = {}
      /\ B \in SUBSET Values /\ InHistogram(h) \in SUBSET Values
  BY <1>1 DEF Below, InHistogram
<1>3. \A i \in Bins : B \cap InBinsUpTo(h, i) = {} /\ InBinsUpTo(h, i) \in SUBSET Values
  BY <1>1 DEF Below, InBinsUpTo
<1> HIDE DEF B
<1>4. QED
  BY <1>2, <1>3, ValueSums DEF B


\* The value at which the count of a histogram reaches the samples needed, when
\* there are fewer below its range: the least value with enough samples up to it
\* is in the range, and the count of the bins reaches the number at its bin.
LEMMA CountReachedAtBin ==
  ASSUME NEW c \in [Values -> Nat], NEW h \in Histograms, NEW needed \in Nat,
         SumFunctionOnSet(c, Below(LowOf[h])) < needed,
         needed <= SumFunctionOnSet(c, Below(Maximum[h]))
  PROVE  \E v \in Values :
           /\ IsLeast(v, {u \in Values : SumFunctionOnSet(c, UpTo(u)) >= needed})
           /\ h \in HistogramsFor(v)
           /\ \A i \in Bins :
                SumFunctionOnSet(c, Below(LowOf[h])) + SumFunctionOnSet(c, InBinsUpTo(h, i))
                    >= needed
                  <=> i >= BinOf(h, v)
<1> DEFINE V == {u \in Values : SumFunctionOnSet(c, UpTo(u)) >= needed}
           Sum(S) == SumFunctionOnSet(c, S)
<1>1. /\ \A S \in SUBSET Values : Sum(S) \in Nat
      /\ \A T \in SUBSET Values : \A S \in SUBSET T : Sum(S) <= Sum(T)
  BY ValueSums
<1>2. /\ Values \subseteq Int
      /\ LowOf[h] \in Nat /\ Maximum[h] \in Nat /\ LowOf[h] < Maximum[h]
      /\ \A v \in Values : h \in HistogramsFor(v) <=> LowOf[h] <= v /\ v < Maximum[h]
  BY ValueRange, HistogramRange
<1>3. /\ Sum(Below(LowOf[h])) < needed /\ needed <= Sum(Below(Maximum[h]))
      /\ Sum({}) = 0
  BY SumEmpty
<1>4. \A u \in Values : u \in V <=> Sum(UpTo(u)) >= needed
  OBVIOUS
<1>5. \A x : Below(x) \in SUBSET Values /\ UpTo(x) \in SUBSET Values
  BY DEF Below, UpTo
<1>6. \A i \in Bins :
        Sum(Below(LowOf[h]) \cup InBinsUpTo(h, i))
          = Sum(Below(LowOf[h])) + Sum(InBinsUpTo(h, i))
  BY HistogramSums
<1> HIDE DEF Sum, V
\* The greatest of a set that has enough samples has enough up to it.
<1>7. ASSUME NEW S \in SUBSET Values, Sum(S) >= needed,
             NEW b \in Int, \A x \in S : x <= b
      PROVE  \E u \in S : u \in V
  <2>1. S # {}
    BY <1>1, <1>3, <1>7, <1>5
  <2>2. PICK u \in S : \A x \in S : x <= u
    BY <1>2, <1>7, <2>1, GreatestInteger
  <2>3. S \subseteq UpTo(u)
    BY <2>2 DEF UpTo
  <2>4. Sum(S) <= Sum(UpTo(u))
    BY <1>1, <1>5, <2>3
  <2>5. Sum(UpTo(u)) \in Nat /\ Sum(S) \in Nat
    BY <1>1, <1>5
  <2>6. Sum(UpTo(u)) >= needed
    BY <1>7, <2>4, <2>5
  <2>7. QED
    BY <1>4, <2>6
<1>8. \A u \in V : u \in Values /\ LowOf[h] <= u
  <2> SUFFICES ASSUME NEW u \in V, u < LowOf[h] PROVE FALSE
    BY <1>2 DEF V
  <2>1. u \in Values /\ Sum(UpTo(u)) >= needed
    BY DEF V, Sum
  <2>2. UpTo(u) \subseteq Below(LowOf[h])
    <3>1. LowOf[h] \in Int /\ u \in Int
      BY <1>2, <2>1
    <3>2. \A w \in Int : w <= u => w < LowOf[h]
      BY <3>1
    <3>3. \A w \in Values : w \in Int
      BY <1>2
    <3>4. QED
      BY <3>2, <3>3 DEF UpTo, Below
  <2>3. Sum(UpTo(u)) <= Sum(Below(LowOf[h]))
    BY <1>1, <1>5, <2>2
  <2>4. Sum(UpTo(u)) \in Nat /\ Sum(Below(LowOf[h])) \in Nat
    BY <1>1, <1>5
  <2>5. QED
    BY <1>3, <2>1, <2>3, <2>4
<1>9. \E u \in Below(Maximum[h]) : u \in V
  <2>1. Below(Maximum[h]) \in SUBSET Values /\ \A x \in Below(Maximum[h]) : x <= Maximum[h]
    BY <1>2 DEF Below
  <2>2. Sum(Below(Maximum[h])) >= needed /\ Maximum[h] \in Int
    BY <1>1, <1>2, <1>3, <2>1
  <2>3. QED
    BY <1>7, <2>1, <2>2
<1>10. PICK v \in V : \A x \in V : v <= x
  <2>1. V \subseteq Int
    BY <1>2, <1>8
  <2>2. V # {}
    BY <1>9
  <2>3. LowOf[h] \in Int
    BY <1>2
  <2>4. QED
    BY <1>8, <2>1, <2>2, <2>3, LeastInteger
<1>11. v \in Values /\ v \in Int /\ LowOf[h] <= v /\ v < Maximum[h] /\ h \in HistogramsFor(v)
  <2>1. v \in Values /\ v \in Int /\ LowOf[h] <= v
    BY <1>2, <1>8
  <2>2. v < Maximum[h]
    BY <1>2, <1>9, <1>10, <2>1 DEF Below
  <2>3. QED
    BY <1>2, <2>1, <2>2
<1>12. BinOf(h, v) \in Bins /\ Bins \subseteq Int
  BY <1>11, BinOfRange DEF Bins
<1>13. ASSUME NEW i \in Bins
       PROVE  Sum(Below(LowOf[h])) + Sum(InBinsUpTo(h, i)) >= needed <=> i >= BinOf(h, v)
  <2> DEFINE S == Below(LowOf[h]) \cup InBinsUpTo(h, i)
  <2>1. S \in SUBSET Values /\ Sum(S) = Sum(Below(LowOf[h])) + Sum(InBinsUpTo(h, i))
    BY <1>6 DEF Below, InBinsUpTo
  <2>2. \A u \in Values : u \in S <=> \/ u < LowOf[h]
                                      \/ h \in HistogramsFor(u) /\ BinOf(h, u) <= i
    BY DEF Below, InBinsUpTo
  <2>3. Sum(S) \in Nat /\ i \in Int /\ BinOf(h, v) \in Int
    BY <1>1, <1>12, <2>1
  <2> HIDE DEF S
  <2>4. ASSUME i >= BinOf(h, v) PROVE Sum(S) >= needed
    <3>1. ASSUME NEW u \in UpTo(v) PROVE u \in S
      <4>1. u \in Values /\ u \in Int /\ u <= v
        BY <1>2 DEF UpTo
      <4>2. CASE u < LowOf[h]
        BY <2>2, <4>1, <4>2
      <4>3. CASE LowOf[h] <= u
        <5>1. h \in HistogramsFor(u)
          BY <1>2, <1>11, <4>1, <4>3
        <5>2. BinOf(h, u) <= BinOf(h, v) /\ BinOf(h, u) \in Bins
          BY <1>11, <4>1, <5>1, BinOfMonotonic
        <5>3. BinOf(h, u) <= i
          BY <1>12, <2>3, <2>4, <5>2
        <5>4. QED
          BY <2>2, <4>1, <5>1, <5>3
      <4>4. QED
        BY <1>2, <4>1, <4>2, <4>3
    <3>2. UpTo(v) \in SUBSET S
      BY <3>1
    <3>3. Sum(UpTo(v)) <= Sum(S) /\ Sum(UpTo(v)) \in Nat
      BY <1>1, <1>5, <2>1, <3>2
    <3>4. Sum(UpTo(v)) >= needed
      BY <1>4, <1>11
    <3>5. QED
      BY <2>3, <3>3, <3>4
  <2>5. ASSUME Sum(S) >= needed PROVE i >= BinOf(h, v)
    <3>1. \A x \in S : x <= Maximum[h]
      BY <1>2, <2>1, <2>2
    <3>2. Maximum[h] \in Int /\ S \in SUBSET Values
      BY <1>2, <2>1
    <3>3. PICK u \in S : u \in V
      BY <1>7, <2>5, <3>1, <3>2
    <3>4. u \in Values /\ u \in Int /\ v <= u /\ LowOf[h] <= u
      BY <1>2, <1>8, <1>10, <3>3
    <3>5. h \in HistogramsFor(u) /\ BinOf(h, u) <= i
      BY <1>2, <2>2, <3>3, <3>4
    <3>6. BinOf(h, v) <= BinOf(h, u) /\ BinOf(h, u) \in Bins
      BY <1>11, <3>4, <3>5, BinOfMonotonic
    <3>7. BinOf(h, u) \in Int
      BY <1>12, <3>6
    <3>8. QED
      BY <2>3, <3>5, <3>6, <3>7
  <2>6. QED
    BY <2>1, <2>4, <2>5
<1>14. IsLeast(v, {u \in Values : SumFunctionOnSet(c, UpTo(u)) >= needed})
  BY <1>10 DEF IsLeast, V
<1>15. QED
  BY <1>11, <1>13, <1>14 DEF Sum


\* FindBin of that histogram is then the low end of the bin of that value.
LEMMA FindBinAtRank ==
  ASSUME NEW s, IsStatistic(s), NEW c \in [Values -> Nat], NEW h \in Histograms,
         HistogramOf(s, c, h), NEW needed \in Nat, NEW below,
         below = SumFunctionOnSet(c, Below(LowOf[h])),
         below < needed, needed <= SumFunctionOnSet(c, Below(Maximum[h]))
  PROVE  LET v == Min({u \in Values : SumFunctionOnSet(c, UpTo(u)) >= needed})
             x == CHOOSE x \in HistogramsFor(v) : TRUE
         IN  FindBin(s[h], h, below, needed) = LowEnd(x, BinOf(x, v))
<1> DEFINE V == {u \in Values : SumFunctionOnSet(c, UpTo(u)) >= needed}
           B == {i \in Bins : Reached(below + Cumulated(s[h], i), needed)}
<1>1. PICK v \in Values :
        /\ IsLeast(v, V)
        /\ h \in HistogramsFor(v)
        /\ \A i \in Bins : below + SumFunctionOnSet(c, InBinsUpTo(h, i)) >= needed
                             <=> i >= BinOf(h, v)
  BY CountReachedAtBin
<1>2. Min(V) = v
  <2>1. V \subseteq Int
    BY ValueRange
  <2> HIDE DEF V
  <2>2. QED
    BY <1>1, <2>1, LeastIsMin
<1>3. v \in Int /\ (CHOOSE x \in HistogramsFor(v) : TRUE) = h
  BY <1>1, ValueRange, OneHistogram
<1>4. BinOf(h, v) \in Bins
  BY <1>1, <1>3, BinOfRange
<1>5. \A i \in Bins : i \in B <=> i >= BinOf(h, v)
  <2>1. \A i \in Bins : Cumulated(s[h], i) = SumFunctionOnSet(c, InBinsUpTo(h, i))
    BY CumulatedIsSum
  <2>2. QED
    BY <1>1, <2>1 DEF Reached
<1>6. NBins - 1 \in Bins /\ Bins \subseteq Int /\ \A i \in Bins : i <= NBins - 1
  BY StatisticAssumption DEF Bins
<1>7. B \subseteq Bins
  OBVIOUS
<1> HIDE DEF V, B
<1>8. IsLeast(BinOf(h, v), B \cup {NBins - 1})
  <2>1. PICK b \in Int : b = BinOf(h, v)
    BY <1>4, <1>6
  <2>2. b \in B
    <3>1. b >= b
      BY <2>1
    <3>2. QED
      BY <1>4, <1>5, <2>1, <3>1
  <2>3. \A i \in B \cup {NBins - 1} : b <= i
    BY <1>4, <1>5, <1>6, <1>7, <2>1
  <2>4. QED
    BY <2>1, <2>2, <2>3 DEF IsLeast
<1>9. Min(B \cup {NBins - 1}) = BinOf(h, v)
  <2>1. B \cup {NBins - 1} \subseteq Int
    BY <1>6, <1>7
  <2>2. QED
    BY <1>8, <2>1, LeastIsMin
<1>10. FindBin(s[h], h, below, needed) = LowEnd(h, BinOf(h, v))
  BY <1>9 DEF FindBin, B
<1>11. QED
  BY <1>2, <1>3, <1>10 DEF V

\* No sample needed is found in the first bin.
LEMMA FindBinOfNone ==
  ASSUME NEW s, IsStatistic(s)
  PROVE  FindBin(s["microsecond"], "microsecond", 0, 0) = 0
<1> DEFINE bin == s["microsecond"].bin
           w == Maximum["microsecond"] \div NBins
<1>1. \A i \in Bins : bin[i] \in Nat
  BY DEF IsStatistic, IsHistogram, Histograms
<1>2. Bins = 0..(NBins - 1) /\ 0 \in Bins /\ NBins - 1 \in Bins
  BY StatisticAssumption DEF Bins
<1>3. w \in Nat
  BY StatisticAssumption DEF Maximum
<1> HIDE DEF bin, w
<1>4. \A i \in Bins : SumFunctionOnSet(bin, 0..i) \in Nat
  <2> SUFFICES ASSUME NEW i \in Bins PROVE SumFunctionOnSet(bin, 0..i) \in Nat
    OBVIOUS
  <2> DEFINE T == 0..i
  <2>1. i \in Nat /\ T \subseteq Bins
    BY <1>2, StatisticAssumption
  <2>2. IsFiniteSet(T)
    BY <2>1, FS_Interval
  <2> HIDE DEF T
  <2>3. \A j \in T : bin[j] \in Nat
    BY <1>1, <2>1
  <2>4. SumFunctionOnSet(bin, T) \in Nat
    BY <2>2, <2>3, SumType
  <2>5. QED
    BY <2>4 DEF T
<1>5. {i \in Bins : Reached(0 + Cumulated(s["microsecond"], i), 0)} = Bins
  BY <1>4 DEF Reached, Cumulated, bin
<1>6. Min(Bins \cup {NBins - 1}) = 0
  <2>1. IsLeast(0, Bins \cup {NBins - 1}) /\ Bins \cup {NBins - 1} \subseteq Int
    BY <1>2 DEF IsLeast
  <2>2. QED
    BY <2>1, LeastIsMin
<1>7. FindBin(s["microsecond"], "microsecond", 0, 0) = 0 * w
  BY <1>5, <1>6 DEF FindBin, LowEnd, w
<1>8. QED
  BY <1>3, <1>7

\* The samples needed for a quantile are at most all samples.
LEMMA NeededRange ==
  ASSUME NEW q \in 0..QuantileOne, NEW n \in Nat
  PROVE  (q * n) \div QuantileOne \in 0..n
<1>1. QuantileOne \in Nat \ {0} /\ q \in Nat /\ q <= QuantileOne
  BY StatisticAssumption
<1>2. q * n <= QuantileOne * n
  BY <1>1, TimesMonotonic
<1>3. q * n \in Nat /\ QuantileOne * n \in Nat
  BY <1>1
<1>4. (n + 1) * QuantileOne = QuantileOne * n + QuantileOne
  BY <1>1
<1>5. q * n \in 0..((n + 1) * QuantileOne - 1)
  BY <1>1, <1>2, <1>3, <1>4
<1>6. n + 1 \in Nat
  OBVIOUS
<1>7. (q * n) \div QuantileOne \in 0..((n + 1) - 1)
  BY <1>1, <1>5, <1>6, QuotientBound
<1>8. QED
  BY <1>7

\* Where no sample is held the sums are zero, and all samples are below x if each
\* is.
LEMMA NoneHeld ==
  ASSUME NEW c \in [Values -> Nat], NEW S \in SUBSET Values, \A v \in S : ~ (c[v] > 0)
  PROVE  SumFunctionOnSet(c, S) = 0
<1>1. IsFiniteSet(S)
  BY ValuesFinite, FS_Subset
<1>2. \A v \in S : c[v] = 0
  OBVIOUS
<1>3. QED
  BY <1>1, <1>2, SumOfZeros

LEMMA AllBelow ==
  ASSUME NEW c \in [Values -> Nat], NEW x, \A v \in HeldIn(c) : v < x
  PROVE  SumFunctionOnSet(c, Below(x)) = SumFunctionOnSet(c, Values)
<1> DEFINE A == Below(x)
           R == Values \ Below(x)
<1>1. A \in SUBSET Values /\ R \in SUBSET Values /\ A \cap R = {} /\ A \cup R = Values
  BY DEF Below
<1>2. \A v \in R : ~ (c[v] > 0)
  BY DEF Below, HeldIn
<1> HIDE DEF A, R
<1>3. SumFunctionOnSet(c, R) = 0
  BY <1>1, <1>2, NoneHeld
<1>4. SumFunctionOnSet(c, Values) = SumFunctionOnSet(c, A) + SumFunctionOnSet(c, R)
  BY <1>1, ValueSums
<1>5. SumFunctionOnSet(c, A) \in Nat
  BY <1>1, ValueSums
<1>6. QED
  BY <1>3, <1>4, <1>5 DEF A


\* The samples of the histograms up to each, when no sample is negative and each
\* histogram describes its samples.
LEMMA SamplesBelow ==
  ASSUME NEW s, NEW c, Describes(s, c), \A v \in HeldIn(c) : 0 <= v
  PROVE  /\ SumFunctionOnSet(c, Below(0)) = 0
         /\ s["microsecond"].n_samples = SumFunctionOnSet(c, Below(MicroMax))
         /\ s["microsecond"].n_samples + s["millisecond"].n_samples
              = SumFunctionOnSet(c, Below(MilliMax))
         /\ HistogramOf(s, c, "second") =>
              s["microsecond"].n_samples + s["millisecond"].n_samples
                  + s["second"].n_samples
                = SumFunctionOnSet(c, Below(SecondMax))
<1> DEFINE Sum(S) == SumFunctionOnSet(c, S)
<1>1. IsStatistic(s) /\ c \in [Values -> Nat]
  BY DEF Describes
<1>2. Sum(Below(0)) = 0
  <2>1. \A v \in Below(0) : v \in Values /\ v \in Int /\ v < 0
    BY ValueRange DEF Below
  <2>2. \A v \in Below(0) : ~ (c[v] > 0)
    BY <2>1 DEF HeldIn
  <2>3. Below(0) \in SUBSET Values
    BY DEF Below
  <2>4. QED
    BY <1>1, <2>2, <2>3, NoneHeld
<1>3. /\ LowOf["microsecond"] = 0 /\ Maximum["microsecond"] = MicroMax
      /\ LowOf["millisecond"] = MicroMax /\ Maximum["millisecond"] = MilliMax
      /\ LowOf["second"] = MilliMax /\ Maximum["second"] = SecondMax
  BY DEF LowOf, Maximum
<1>4. \A h \in Histograms : HistogramOf(s, c, h) =>
        Sum(Below(Maximum[h])) = Sum(Below(LowOf[h])) + s[h].n_samples
  BY <1>1, SamplesInHistogram, HistogramSums
<1>5. /\ "microsecond" \in Histograms /\ "millisecond" \in Histograms
      /\ "second" \in Histograms
      /\ HistogramOf(s, c, "microsecond") /\ HistogramOf(s, c, "millisecond")
  BY DEF Histograms, Describes
<1>6. \A h \in Histograms : s[h].n_samples \in Nat
  BY <1>1 DEF IsStatistic, IsHistogram
<1> HIDE DEF Sum
<1>7. s["microsecond"].n_samples = Sum(Below(MicroMax))
  BY <1>2, <1>3, <1>4, <1>5, <1>6
<1>8. s["microsecond"].n_samples + s["millisecond"].n_samples = Sum(Below(MilliMax))
  BY <1>3, <1>4, <1>5, <1>7
<1>9. HistogramOf(s, c, "second") =>
        s["microsecond"].n_samples + s["millisecond"].n_samples + s["second"].n_samples
          = Sum(Below(SecondMax))
  BY <1>3, <1>4, <1>5, <1>8
<1>10. QED
  BY <1>2, <1>7, <1>8, <1>9 DEF Sum

\* GetQuantile finds the quantile across the three histograms, for every statistic
\* nothing was merged into, and after merges as long as no sample takes a second
\* or more.
THEOREM QuantilesOfContents == Spec => []QuantilesMatch
<1>1. ASSUME StatisticInv PROVE QuantilesMatch
  <2> SUFFICES ASSUME NEW n \in Names, Measurable(n),
                      n \in merged => \A v \in Held(n) : v < MilliMax,
                      NEW q \in 0..QuantileOne
               PROVE  GetQuantile(stat[n], q) = TrueQuantile(n, q)
    BY DEF QuantilesMatch
  <2> DEFINE s == stat[n]
             c == contents[n]
             needed == (q * s.s0) \div QuantileOne
             n1 == s.microsecond.n_samples
             n2 == n1 + s.millisecond.n_samples
             n3 == n2 + s.second.n_samples
             v == Min({u \in Values : SumFunctionOnSet(c, UpTo(u)) >= needed})
             h == CHOOSE x \in HistogramsFor(v) : TRUE
  <2>1. /\ Describes(s, c) /\ IsStatistic(s) /\ c \in [Values -> Nat]
        /\ HistogramOf(s, c, "microsecond") /\ HistogramOf(s, c, "millisecond")
        /\ n \notin merged => HistogramOf(s, c, "second")
    BY <1>1 DEF StatisticInv, Describes
  <2>2. /\ s.s0 = Size(n) /\ Size(n) = SumFunctionOnSet(c, Values) /\ Size(n) \in Nat
    BY <1>1, <2>1, SizeIsSum DEF Describes, MomentsOf
  <2>3. needed \in 0..SumFunctionOnSet(c, Values)
    BY <2>2, NeededRange
  <2>4. Held(n) = HeldIn(c) /\ \A x \in HeldIn(c) : 0 <= x /\ x < SecondMax
    BY DEF Measurable, Held, HeldIn
  <2>5. /\ SumFunctionOnSet(c, Below(0)) = 0
        /\ n1 = SumFunctionOnSet(c, Below(MicroMax))
        /\ n2 = SumFunctionOnSet(c, Below(MilliMax))
        /\ HistogramOf(s, c, "second") => n3 = SumFunctionOnSet(c, Below(SecondMax))
    BY <2>1, <2>4, SamplesBelow
  <2>6. n \in merged => n2 = SumFunctionOnSet(c, Values)
    BY <2>1, <2>4, <2>5, AllBelow
  <2>7. n \notin merged => n3 = SumFunctionOnSet(c, Values)
    BY <2>1, <2>4, <2>5, AllBelow
  <2>8. n1 \in Nat /\ n2 \in Nat /\ n3 \in Nat /\ needed \in Nat
    BY <2>1, <2>2, <2>3 DEF IsStatistic, IsHistogram, Histograms
  <2>9. TrueQuantile(n, q) = IF needed = 0 THEN 0 ELSE LowEnd(h, BinOf(h, v))
    BY <2>2 DEF TrueQuantile, Rank, UpTo
  <2>10. GetQuantile(s, q)
           = IF needed <= n1 THEN FindBin(s["microsecond"], "microsecond", 0, needed)
             ELSE IF needed <= n2 THEN FindBin(s["millisecond"], "millisecond", n1, needed)
             ELSE IF needed <= n3 THEN FindBin(s["second"], "second", n2, needed)
             ELSE LowEnd("second", NBins - 1)
    BY DEF GetQuantile
  <2>11. /\ LowOf["microsecond"] = 0 /\ Maximum["microsecond"] = MicroMax
         /\ LowOf["millisecond"] = MicroMax /\ Maximum["millisecond"] = MilliMax
         /\ LowOf["second"] = MilliMax /\ Maximum["second"] = SecondMax
         /\ "microsecond" \in Histograms /\ "millisecond" \in Histograms
         /\ "second" \in Histograms
    BY DEF LowOf, Maximum, Histograms
  <2> HIDE DEF s, c, needed, n1, n2, n3
  <2>12. CASE needed = 0
    <3>1. FindBin(s["microsecond"], "microsecond", 0, needed) = 0
      BY <2>1, <2>12, FindBinOfNone
    <3>2. needed <= n1
      BY <2>8, <2>12
    <3>3. QED
      BY <2>9, <2>10, <2>12, <3>1, <3>2 DEF s
  <2>13. CASE 0 < needed /\ needed <= n1
    <3>1. FindBin(s["microsecond"], "microsecond", 0, needed) = LowEnd(h, BinOf(h, v))
      BY <2>1, <2>5, <2>8, <2>11, <2>13, FindBinAtRank
    <3>2. needed # 0
      BY <2>13
    <3>3. QED
      BY <2>9, <2>10, <2>13, <3>1, <3>2 DEF s
  <2>14. CASE n1 < needed /\ needed <= n2
    <3>1. FindBin(s["millisecond"], "millisecond", n1, needed) = LowEnd(h, BinOf(h, v))
      BY <2>1, <2>5, <2>8, <2>11, <2>14, FindBinAtRank
    <3>2. needed # 0 /\ ~ (needed <= n1)
      BY <2>8, <2>14
    <3>3. QED
      BY <2>9, <2>10, <2>14, <3>1, <3>2 DEF s
  <2>15. CASE n2 < needed
    <3>1. n \notin merged
      BY <2>3, <2>6, <2>8, <2>15
    <3>2. HistogramOf(s, c, "second") /\ n3 = SumFunctionOnSet(c, Below(SecondMax))
      BY <2>1, <2>5, <3>1
    <3>3. needed <= n3
      BY <2>3, <2>7, <2>8, <3>1
    <3>4. FindBin(s["second"], "second", n2, needed) = LowEnd(h, BinOf(h, v))
      BY <2>1, <2>5, <2>8, <2>11, <2>15, <3>2, <3>3, FindBinAtRank, SMTT(20)
    <3>5. n1 <= n2
      BY <2>1, <2>8 DEF n2, IsStatistic, IsHistogram, Histograms
    <3>6. needed # 0 /\ ~ (needed <= n1) /\ ~ (needed <= n2)
      BY <2>8, <2>15, <3>5
    <3>7. QED
      BY <2>9, <2>10, <3>3, <3>4, <3>6 DEF s
  <2>16. QED
    BY <2>8, <2>12, <2>13, <2>14, <2>15
<1>2. QED
  BY <1>1, SpecInv, PTL
================================================================================

------------------------------- MODULE Statistic -------------------------------
(***************************************************************************)
(* The Statistic objects of statistic.cc: what AddSample, Copy, Reset and  *)
(* MergeWithStatistic do to the moments and to the three histograms of a   *)
(* statistic, and the quantile GetQuantile reads off them.                 *)
(*                                                                         *)
(* Sample values are whole ticks.  A histogram has NBins bins of equal     *)
(* width from 0 to its maximum; bins below its minimum stay empty.         *)
(***************************************************************************)
EXTENDS Integers, FiniteSets, FiniteSetsExt, Functions

CONSTANTS
  Names,       \* the statistics, one per worker thread and the printed copy
  Values,      \* the sample values that occur
  NBins,       \* kBinsPerHistogram
  MicroMax, MilliMax, SecondMax,  \* 1e-3, 1.0 and 1000 in ticks
  Infinite,    \* numeric_limits<float>::max()
  QuantileOne, \* quantiles are k / QuantileOne
  MaxSamples   \* bound: samples a run adds or merges into one statistic

ASSUME StatisticAssumption ==
  /\ NBins \in Nat \ {0}
  /\ MicroMax \in Nat /\ MilliMax \in Nat /\ SecondMax \in Nat
  /\ 0 < MicroMax /\ MicroMax < MilliMax /\ MilliMax < SecondMax
  /\ \A m \in {MicroMax, MilliMax, SecondMax} : m % NBins = 0
  /\ Infinite \in Nat
  /\ Values \subseteq (-Infinite)..Infinite /\ IsFiniteSet(Values)
  /\ QuantileOne \in Nat \ {0} /\ MaxSamples \in Nat

VARIABLES
  stat,      \* the Statistic of each name
  dead,      \* LOG_FATAL has ended the process
  contents,  \* history: how often each value was added to or merged into it
  merged     \* history: names something was merged into

statVars == <<stat, dead, contents, merged>>

Bins == 0..(NBins - 1)
EmptyHistogram == [bin |-> [i \in Bins |-> 0], n_samples |-> 0]

NewStatistic ==
  [s0 |-> 0, s1 |-> 0, s2 |-> 0, min |-> Infinite, max |-> -Infinite,
   microsecond |-> EmptyHistogram, millisecond |-> EmptyHistogram,
   second |-> EmptyHistogram]

Histograms == {"microsecond", "millisecond", "second"}
Maximum == [microsecond |-> MicroMax, millisecond |-> MilliMax,
            second |-> SecondMax]

NoContents == [v \in Values |-> 0]

Init ==
  /\ stat = [n \in Names |-> NewStatistic]
  /\ dead = FALSE
  /\ contents = [n \in Names |-> NoContents]
  /\ merged = {}

------------------------------------------------------------------------------
(* Histogram. *)

\* The low end of bin i, and the bin a value belongs to.
LowEnd(h, i) == i * (Maximum[h] \div NBins)
BinOf(h, v)  == v \div (Maximum[h] \div NBins)

AddToHistogram(hist, h, v) ==
  [bin |-> [hist.bin EXCEPT ![BinOf(h, v)] = @ + 1],
   n_samples |-> hist.n_samples + 1]

MergeWithHistogram(to, from) ==
  [bin |-> [i \in Bins |-> to.bin[i] + from.bin[i]],
   n_samples |-> to.n_samples + from.n_samples]

------------------------------------------------------------------------------
(* Statistic. *)

\* The histogram AddSample puts a value in; there is none for a negative value,
\* which is dropped, nor for one out of range.
HistogramsFor(v) ==
  {h \in Histograms :
     \/ h = "microsecond" /\ 0 <= v /\ v < MicroMax
     \/ h = "millisecond" /\ MicroMax <= v /\ v < MilliMax
     \/ h = "second" /\ MilliMax <= v /\ v < SecondMax}

\* Mutant of WithMoments: s0_ grows by the value.
WithMomentsWeighted(s, v) ==
  [s EXCEPT !.s0 = @ + v, !.s1 = @ + v, !.s2 = @ + v * v,
            !.min = IF v < @ THEN v ELSE @, !.max = IF v > @ THEN v ELSE @]

\* Mutant of WithMoments: min_ follows every sample.
WithMomentsLast(s, v) ==
  [s EXCEPT !.s0 = @ + 1, !.s1 = @ + v, !.s2 = @ + v * v,
            !.min = v, !.max = IF v > @ THEN v ELSE @]

WithMoments(s, v) ==
  [s EXCEPT !.s0 = @ + 1, !.s1 = @ + v, !.s2 = @ + v * v,
            !.min = IF v < @ THEN v ELSE @, !.max = IF v > @ THEN v ELSE @]

AddSample(n, v) ==
  /\ stat' = [stat EXCEPT ![n] =
       [f \in DOMAIN @ |->
          IF f \in HistogramsFor(v) THEN AddToHistogram(@[f], f, v)
                                    ELSE WithMoments(@, v)[f]]]
  /\ dead' = (v >= SecondMax)
  /\ contents' = [contents EXCEPT ![n][v] = @ + 1]
  /\ UNCHANGED merged

\* MergeWithStatistic of two records.  The second histogram is given the
\* microsecond histogram of the other statistic.
Merge(to, from) ==
  [s0  |-> to.s0 + from.s0,
   s1  |-> to.s1 + from.s1,
   s2  |-> to.s2 + from.s2,
   min |-> Min({to.min, from.min}),
   max |-> Max({to.max, from.max}),
   microsecond |-> MergeWithHistogram(to.microsecond, from.microsecond),
   millisecond |-> MergeWithHistogram(to.millisecond, from.millisecond),
   second      |-> MergeWithHistogram(to.second, from.microsecond)]

MergeWithStatistic(n, m) ==
  /\ n # m
  /\ stat' = [stat EXCEPT ![n] = Merge(stat[n], stat[m])]
  /\ contents' = [contents EXCEPT ![n] =
                    [v \in Values |-> @[v] + contents[m][v]]]
  /\ merged' = merged \cup {n}
  /\ UNCHANGED dead

\* Name m becomes a deep copy of n.
Copy(n, m) ==
  /\ n # m
  /\ stat' = [stat EXCEPT ![m] = stat[n]]
  /\ contents' = [contents EXCEPT ![m] = contents[n]]
  /\ merged' = IF n \in merged THEN merged \cup {m} ELSE merged \ {m}
  /\ UNCHANGED dead

\* Mutant of Reset: the histograms keep their samples.
ResetMoments(n) ==
  /\ stat' = [stat EXCEPT ![n] =
                [@ EXCEPT !.s0 = 0, !.s1 = 0, !.s2 = 0,
                          !.min = Infinite, !.max = -Infinite]]
  /\ contents' = [contents EXCEPT ![n] = NoContents]
  /\ merged' = merged \ {n}
  /\ UNCHANGED dead

Reset(n) ==
  /\ stat' = [stat EXCEPT ![n] = NewStatistic]
  /\ contents' = [contents EXCEPT ![n] = NoContents]
  /\ merged' = merged \ {n}
  /\ UNCHANGED dead

\* GetQuantile.  Cumulated(hist, i) is what the loop over the bins has counted
\* up to bin i.
Cumulated(hist, i) == SumFunctionOnSet(hist.bin, 0..i)

\* Mutant of Reached: the loop stops one sample late.
ReachedLate(count, needed) == count > needed

\* "n_samples >= n_samples_needed"
Reached(count, needed) == count >= needed

\* The low end of the bin where the count, n before the histogram, reaches the
\* samples needed.
FindBin(hist, h, n, needed) ==
  LowEnd(h, Min({i \in Bins : Reached(n + Cumulated(hist, i), needed)}
                  \cup {NBins - 1}))

\* The quantile q / QuantileOne: a histogram that cannot reach the count is
\* passed over as a whole.
GetQuantile(s, q) ==
  LET needed == (q * s.s0) \div QuantileOne
      n1 == s.microsecond.n_samples
      n2 == n1 + s.millisecond.n_samples
      n3 == n2 + s.second.n_samples
  IN  IF needed <= n1 THEN FindBin(s.microsecond, "microsecond", 0, needed)
      ELSE IF needed <= n2 THEN FindBin(s.millisecond, "millisecond", n1, needed)
      ELSE IF needed <= n3 THEN FindBin(s.second, "second", n2, needed)
      ELSE LowEnd("second", NBins - 1)

------------------------------------------------------------------------------

Size(n) == SumFunction(contents[n])

Operation(n) ==
  \/ \E v \in Values : Size(n) < MaxSamples /\ AddSample(n, v)
  \/ \E m \in Names : Size(n) + Size(m) <= MaxSamples /\ MergeWithStatistic(n, m)
  \/ \E m \in Names : Copy(n, m)
  \/ Reset(n)

Ended == dead /\ UNCHANGED statVars

Next == (~dead /\ \E n \in Names : Operation(n)) \/ Ended

Spec == Init /\ [][Next]_statVars
------------------------------------------------------------------------------
(* Properties. *)

\* The types of the statistics and of their history.
StatisticTypeOK ==
  /\ \A n \in Names :
       /\ stat[n].s0 \in 0..MaxSamples
       /\ \A h \in Histograms : stat[n][h].bin \in [Bins -> Nat]
  /\ dead \in BOOLEAN
  /\ contents \in [Names -> [Values -> 0..MaxSamples]]
  /\ merged \subseteq Names

Held(n) == {v \in Values : contents[n][v] > 0}

\* After any sequence of samples, copies, resets and merges the moments are
\* those of the samples a statistic stands for.
MomentsMatch ==
  \A n \in Names :
    /\ stat[n].s0 = Size(n)
    /\ stat[n].s1 = SumFunction([v \in Values |-> v * contents[n][v]])
    /\ stat[n].s2 = SumFunction([v \in Values |-> v * v * contents[n][v]])
    /\ stat[n].min = Min(Held(n) \cup {Infinite})
    /\ stat[n].max = Max(Held(n) \cup {-Infinite})

\* The samples of n the histogram h is to hold in bin i.
InBin(n, h, i) ==
  SumFunctionOnSet(contents[n],
    {v \in Values : h \in HistogramsFor(v) /\ BinOf(h, v) = i})

\* Below a second every sample is in the bin of its value, and n_samples_ counts
\* the bins.
SubSecondHistogramsMatch ==
  \A n \in Names : \A h \in {"microsecond", "millisecond"} :
    /\ \A i \in Bins : stat[n][h].bin[i] = InBin(n, h, i)
    /\ stat[n][h].n_samples = SumFunction(stat[n][h].bin)

\* What the quantile of n should be: the low end of the bin of the sample whose
\* rank is the number of samples needed.
Rank(n, v) == SumFunctionOnSet(contents[n], {u \in Values : u <= v})
TrueQuantile(n, q) ==
  LET needed == (q * Size(n)) \div QuantileOne
      v == Min({u \in Values : Rank(n, u) >= needed})
      h == CHOOSE x \in HistogramsFor(v) : TRUE
  IN  IF needed = 0 THEN 0 ELSE LowEnd(h, BinOf(h, v))

Measurable(n) == \A v \in Held(n) : 0 <= v /\ v < SecondMax

\* GetQuantile finds the quantile across the three histograms, for every
\* statistic nothing was merged into, and after merges as long as no sample takes
\* a second or more.
QuantilesMatch ==
  \A n \in Names :
    (Measurable(n) /\ (n \in merged => \A v \in Held(n) : v < MilliMax)) =>
      \A q \in 0..QuantileOne : GetQuantile(stat[n], q) = TrueQuantile(n, q)

------------------------------------------------------------------------------
(* What the comments of the code say and the code does not do. *)

\* statistic_manager.cc:57 "Combine all the worker threads' statistics
\* collections": the quantiles of a merged statistic are those of all its samples.
MergedQuantilesMatch ==
  \A n \in Names : Measurable(n) =>
    \A q \in 0..QuantileOne : GetQuantile(stat[n], q) = TrueQuantile(n, q)
===============================================================================

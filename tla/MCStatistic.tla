------------------------------ MODULE MCStatistic ------------------------------
(***************************************************************************)
(* Sample values for TLC: one negative, one and two in different bins of   *)
(* the first two histograms, one in the third, and one beyond it.          *)
(***************************************************************************)
EXTENDS Statistic

SampleValues == {-1, 1, 3, 5, 8, 16, 64}
===============================================================================

------------------------- MODULE MCSizeKeyDistribution -------------------------
(***************************************************************************)
(* Files for TLC: every file of at most ShortFile lines, blank, malformed  *)
(* or entries with any cdf, and every sorted proper file of at most        *)
(* LongFile lines.                                                         *)
(***************************************************************************)
EXTENDS SizeKeyDistribution

CONSTANTS
  ShortFile,  \* bound: lines of an arbitrary file
  LongFile    \* bound: lines of a sorted file

ShortFiles == UNION {[1..n -> 0..Scale \cup {Blank, Malformed}] : n \in 0..ShortFile}

LongFiles ==
  {f \in UNION {[1..n -> 0..Scale] : n \in 1..LongFile} :
     /\ f[Len(f)] = Scale
     /\ \A k \in 1..(Len(f) - 1) : f[k] <= f[k + 1]}

AllFiles == ShortFiles \cup LongFiles
===============================================================================

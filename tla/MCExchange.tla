------------------------------ MODULE MCExchange -------------------------------
(***************************************************************************)
(* Sizes for TLC on either side of every byte's boundary.                  *)
(***************************************************************************)
EXTENDS Exchange

FileSizes == {-2, 0, 1, 2, 8, 260}
===============================================================================

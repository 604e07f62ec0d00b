---------------------------- MODULE WorkerInvariant ---------------------------
(***************************************************************************)
(* The inductive invariant of WorkerThread: what EventLoopInvariant says   *)
(* of the event loop, and the answers on record.                           *)
(***************************************************************************)
EXTENDS WorkerThread, EventLoopInvariant

\* The answers on record are those of the responses handled, in order.
AnsweredInv == answered = {<<i, i>> : i \in 1..Answered}

\* The inductive invariant.
IInv == TypeOK /\ FlowInv /\ AnsweredInv

\* Free space promised to an active send callback and kept while it writes.
RoomInv ==
  /\ ("send" \in active /\ peer = "open") => SendCap - Len(toServer) >= LowWater
  /\ WriteNeverBlocks
===============================================================================

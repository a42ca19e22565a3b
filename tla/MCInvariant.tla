----------------------------- MODULE MCInvariant -----------------------------
(* The inductive invariant of the proofs on an instance for TLC. *)
EXTENDS MCOrderbook, OrderbookPriority
=============================================================================

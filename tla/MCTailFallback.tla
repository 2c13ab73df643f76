--------------------------- MODULE MCTailFallback ---------------------------
(* Small instances of TailFallback: two failures of the same message event *)
(* (one ledger row) and one or two importers.                              *)
EXTENDS TailFallback

CONSTANTS o1, o2, k1, i1, i2

MCRefOf == [o \in {o1, o2} |-> k1]
=============================================================================

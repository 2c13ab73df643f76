-------------------------- MODULE MCEmbeddingQueue --------------------------
(* Small instances of EmbeddingQueue: t3 is t1 with more text than the     *)
(* provider is sent.                                                       *)
EXTENDS EmbeddingQueue

CONSTANTS m1, m2, t1, t2, t3, s1, s2

MCCapped == [t \in Texts |-> IF t = t3 THEN t1 ELSE t]
=============================================================================

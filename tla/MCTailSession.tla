---------------------------- MODULE MCTailSession ----------------------------
(* A tail, a command that updates its share, one that looks at the lock. *)
EXTENDS TailSession, TLC

CONSTANTS t1, u1, m1

MCProcs == {t1, u1, m1}
MCRole == (t1 :> "tail") @@ (u1 :> "update") @@ (m1 :> "messages")
==============================================================================

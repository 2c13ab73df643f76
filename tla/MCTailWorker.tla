---------------------------- MODULE MCTailWorker ----------------------------
(* Up to three ordered events and two member events; queues of one.        *)
EXTENDS TailWorker

CONSTANTS m1, m2, m3, u1, u2, w1, w2
=============================================================================

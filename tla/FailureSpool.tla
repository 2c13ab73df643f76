---------------------------- MODULE FailureSpool ----------------------------
(***************************************************************************)
(* What the tail-failure fallback promises its two clients, with no files  *)
(* in it.  The tail worker hands in one occurrence of a failed message     *)
(* event at a time; a later import counts it into the failure ledger.      *)
(*   - an occurrence whose hand-in was acknowledged ("owed") is never lost *)
(*     again, by a crash or a power failure;                               *)
(*   - an occurrence is counted into its ledger row once, never twice;     *)
(*   - one whose hand-in was not acknowledged may still be counted, but    *)
(*     only before it is lost.                                             *)
(* TailFallback.tla (store/tail_failure_fallback.go) implements it.        *)
(***************************************************************************)
EXTENDS Integers

CONSTANTS Occurrences, \* one element per call that hands in a failure
          Refs,        \* identities of failure_ledger rows
          Opened(_, _) \* Opened(S, k): how many occurrences in S are about row k

VARIABLES state,       \* [Occurrences -> States]
          count        \* [Refs -> Nat], how often a row was (re)opened

States == {"absent", "unacknowledged", "owed", "applied"}

spoolVars == <<state, count>>

SpoolInit ==
  /\ state = [o \in Occurrences |-> "absent"]
  /\ count = [k \in Refs |-> 0]

Move(S, to) == state' = [o \in Occurrences |-> IF o \in S THEN to ELSE state[o]]

(* The occurrence has become visible to an import, the caller not told yet. *)
Arrive(o) ==
  /\ state[o] = "absent"
  /\ Move({o}, "unacknowledged")
  /\ UNCHANGED count

(* The caller is told that the failure is durable.                          *)
Acknowledge(o) ==
  /\ state[o] = "unacknowledged"
  /\ Move({o}, "owed")
  /\ UNCHANGED count

(* A power failure takes unacknowledged occurrences away.                   *)
Lose(S) ==
  /\ \A o \in S : state[o] = "unacknowledged"
  /\ Move(S, "absent")
  /\ UNCHANGED count

(* One import transaction counts a set of occurrences.                      *)
Apply(S) ==
  /\ \A o \in S : state[o] \in {"unacknowledged", "owed"}
  /\ Move(S, "applied")
  /\ count' = [k \in Refs |-> count[k] + Opened(S, k)]

SpoolNext ==
  \/ \E o \in Occurrences : Arrive(o) \/ Acknowledge(o)
  \/ \E S \in SUBSET Occurrences : Lose(S) \/ Apply(S)

SpoolSpec == SpoolInit /\ [][SpoolNext]_spoolVars
=============================================================================

--------------------------- MODULE MCCollectionScope ---------------------------
(* A category k, a channel c that moves in and out of it, and a thread t of c. *)
EXTENDS CollectionScope

CONSTANTS k, c, t

MCKind == [x \in Channels |-> CASE x = k -> "category" [] x = c -> "text" [] x = t -> "thread_public"]
MCHome == [x \in Channels |-> CASE x = k -> None [] x = c -> k [] x = t -> c]
MCMovesTo == [x \in Channels |-> IF x = c THEN {k, None} ELSE {}]
Only == [ids |-> {}, kinds |-> {}, categories |-> {k}]
Open == [ids |-> {}, kinds |-> {}, categories |-> {}]
MCPolicies == {Only, Open}
================================================================================

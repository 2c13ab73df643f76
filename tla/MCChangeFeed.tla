---------------------------- MODULE MCChangeFeed ----------------------------
(* One tracked table, two keys, and a snapshot that brings a row of its own. *)
EXTENDS ChangeFeed, TLC

CONSTANTS a, k, l, x, y

MCSnapshots == {(k :> y) @@ (l :> None)}

==============================================================================

------------------------ MODULE CollectionScopeProofs ------------------------
(***************************************************************************)
(* Proofs about CollectionScope, for any channels, policies and moves: the *)
(* stored decisions are current, content is collected only in scope, and a *)
(* recorded deletion stays.                                                *)
(***************************************************************************)
EXTENDS CollectionScope, FiniteSetTheorems, WellFoundedInduction, TLAPS

Parents == Channels \cup {None}
Scopes == {"allowed", "excluded", "unknown"}
Rows == [known : BOOLEAN, parent : Parents, kind : {"unknown"} \cup {Kind[c] : c \in Channels},
         dead : BOOLEAN, scope : Scopes, policy : Policies \cup {None}]
Places == [Channels -> [live : BOOLEAN, parent : Parents]]
Events == [kind : {"upsert", "delete"}, channel : Channels, parent : Parents]
Stages == {"seed", "idle", "read", "set", "open", "check", "ask", "keep", "granted", "fetched",
           "list", "store", "select", "crawl"}
Returns == {"idle", "select", "check", "settle", "final"}

(* The types of everything.                                                *)
Types ==
  /\ disc \in Places /\ queue \in Seq(Events) /\ payload \in Places /\ policy \in Policies
  /\ rows \in [Channels -> Rows] /\ todo \subseteq Channels
  /\ pc \in [Actors -> Stages] /\ cont \in [Actors -> Returns]
  /\ target \in [Actors -> Parents] /\ step \in [Actors -> Parents]
  /\ obs \in [Actors -> Places] /\ catalog \in [Actors -> [Channels -> Scopes]]
  /\ dirty \in [Actors -> SUBSET Channels] /\ newer \in [Actors -> SUBSET Channels]

(* An actor that admits has a channel to admit.                            *)
PlaceInv == \A a \in Actors :
  /\ pc[a] \in {"open", "check", "ask", "keep", "granted", "fetched"} => target[a] \in Channels
  /\ pc[a] \in {"read", "set"} /\ cont[a] \in {"check", "settle", "final"} => target[a] \in Channels
  /\ pc[a] \in {"ask", "keep"} => step[a] \in Channels

(* What is not known is blank, so what is deleted is known.                *)
RowInv == \A c \in Channels : ~rows[c].known => rows[c] = NoRow

(* A decision an actor read is current, or the row's revision has changed. *)
CatalogInv == \A a \in Actors : \A c \in Channels :
  catalog[a][c] = "allowed" /\ c \notin dirty[a] => Scope(policy, c, rows) = "allowed"

(* What an actor was granted was in scope, and so was what it is about to  *)
(* be granted at the moment it read the catalogue.                         *)
SinceInv == \A a \in Actors :
  /\ pc[a] = "granted" => since[a]
  /\ pc[a] = "set" /\ target[a] \in Channels /\ catalog[a][target[a]] = "allowed" => since[a]

(* Nothing is on its way that says a deleted channel is there, unless the  *)
(* actor that has it knows the row was written since.                      *)
DeadInv == \A c \in Channels : rows[c].dead =>
  /\ ~disc[c].live
  /\ \A i \in 1 .. Len(queue) : queue[i].channel = c => queue[i].kind # "upsert"
  /\ \A a \in Actors : pc[a] = "keep" /\ step[a] = c => c \in newer[a]
  /\ pc["repair"] = "store" /\ c \in todo => c \in newer["repair"]

(* A deletion is the last event of a channel.                              *)
QueueInv == \A i \in 1 .. Len(queue) : queue[i].kind = "delete" =>
  /\ ~disc[queue[i].channel].live
  /\ \A j \in 1 .. Len(queue) : queue[j].channel = queue[i].channel => j <= i

(* The inductive invariant.                                                *)
IInv ==
  /\ Types /\ PlaceInv /\ RowInv /\ AllowedIsCurrent /\ CatalogInv /\ SinceInv
  /\ DeadInv /\ QueueInv

-----------------------------------------------------------------------------
(* The ancestry walk.                                                      *)

(* Every set of naturals has a least element.                              *)
LEMMA Least == \A S \in SUBSET Nat : S # {} => \E x \in S : \A y \in S : x <= y
<1> SUFFICES ASSUME NEW S \in SUBSET Nat, S # {} PROVE \E x \in S : \A y \in S : x <= y
  OBVIOUS
<1>1. PICK x \in S : \A y \in S : ~(<<y, x>> \in OpToRel(<, Nat))
  BY NatLessThanWellFounded, WFMin
<1>2. \A y \in S : ~(y < x)
  BY <1>1 DEF OpToRel
<1> QED BY <1>2

IsClimb(up, n, c, cat) ==
  up = [i \in 0 .. n |-> IF i = 0 THEN {c} ELSE Above(up[i - 1], cat)]

(* The recursive function of a climb exists, up to any rung.               *)
LEMMA ClimbExists ==
  ASSUME NEW n \in Nat, NEW c, NEW cat
  PROVE  \E up : IsClimb(up, n, c, cat)
<1> DEFINE Bad == {k \in Nat : ~\E up : IsClimb(up, k, c, cat)}
<1> SUFFICES ASSUME Bad # {} PROVE FALSE
  OBVIOUS
<1>1. PICK k \in Bad : \A j \in Bad : k <= j
  BY Least
<1>2. CASE k = 0
  <2> DEFINE up == [i \in 0 .. 0 |-> {c}]
  <2>1. IsClimb(up, 0, c, cat)
    BY DEF IsClimb
  <2> QED BY <1>2, <2>1
<1>3. CASE k # 0
  <2>1. k - 1 \in Nat /\ k - 1 \notin Bad
    BY <1>1, <1>3
  <2>2. PICK g : IsClimb(g, k - 1, c, cat)
    BY <2>1
  <2> DEFINE h == [i \in 0 .. k |-> IF i = 0 THEN {c} ELSE Above(g[i - 1], cat)]
  <2>3. ASSUME NEW i \in 0 .. k, i # 0 PROVE h[i - 1] = g[i - 1]
    <3>1. i - 1 \in 0 .. k - 1 /\ i - 1 \in 0 .. k
      BY <2>3
    <3>2. g[i - 1] = IF i - 1 = 0 THEN {c} ELSE Above(g[(i - 1) - 1], cat)
      BY <2>2, <3>1 DEF IsClimb
    <3> QED BY <3>1, <3>2
  <2> HIDE DEF h
  <2>4. h = [i \in 0 .. k |-> IF i = 0 THEN {c} ELSE Above(g[i - 1], cat)]
    BY DEF h
  <2>5. h = [i \in 0 .. k |-> IF i = 0 THEN {c} ELSE Above(h[i - 1], cat)]
    BY <2>3, <2>4
  <2> QED BY <2>5 DEF IsClimb
<1> QED BY <1>2, <1>3

(* Climb is the last rung of such a function, without None.                *)
LEMMA ClimbIs ==
  ASSUME NEW c, NEW cat
  PROVE  \E up : /\ IsClimb(up, Cardinality(Channels), c, cat)
                 /\ Climb(c, cat) = up[Cardinality(Channels)] \ {None}
<1>1. Cardinality(Channels) \in Nat
  BY ScopeAssumption, FS_CardinalityType
<1> DEFINE N == Cardinality(Channels)
           up == CHOOSE up : up = [n \in 0 .. N |-> IF n = 0 THEN {c} ELSE Above(up[n - 1], cat)]
<1>0. PICK g : IsClimb(g, N, c, cat)
  BY <1>1, ClimbExists
<1>2. \E f : f = [n \in 0 .. N |-> IF n = 0 THEN {c} ELSE Above(f[n - 1], cat)]
  BY <1>0, Zenon DEF IsClimb
<1>3. IsClimb(up, N, c, cat)
  BY <1>2, Zenon DEF IsClimb
<1>4. Climb(c, cat) = up[N] \ {None}
  BY DEF Climb
<1> QED BY <1>3, <1>4

(* What each rung is, and that no rung loses a channel.                    *)
LEMMA ClimbRungs ==
  ASSUME NEW n \in Nat, NEW c, NEW cat, NEW up, IsClimb(up, n, c, cat)
  PROVE  /\ up[0] = {c}
         /\ \A i \in 1 .. n : i - 1 \in 0 .. n /\ up[i] = Above(up[i - 1], cat) /\ up[i - 1] \subseteq up[i]
<1>1. up[0] = {c}
  BY DEF IsClimb
<1>2. ASSUME NEW i \in 1 .. n PROVE i - 1 \in 0 .. n /\ up[i] = Above(up[i - 1], cat)
  <2>1. i \in 0 .. n /\ i # 0 /\ i - 1 \in 0 .. n
    BY <1>2
  <2>2. up[i] = IF i = 0 THEN {c} ELSE Above(up[i - 1], cat)
    BY <2>1, Zenon DEF IsClimb
  <2> QED BY <2>1, <2>2
<1> QED BY <1>1, <1>2 DEF Above

(* Every rung is within the last.                                          *)
LEMMA ClimbGrows ==
  ASSUME NEW n \in Nat, NEW c, NEW cat, NEW up, IsClimb(up, n, c, cat), NEW i \in 0 .. n
  PROVE  up[i] \subseteq up[n]
<1> DEFINE Bad == {k \in 0 .. n : ~(up[n - k] \subseteq up[n])}
<1> SUFFICES ASSUME Bad # {} PROVE FALSE
  <2>1. n - i \in 0 .. n /\ n - (n - i) = i
    OBVIOUS
  <2> QED BY <2>1
<1>1. PICK k \in Bad : \A j \in Bad : k <= j
  <2>1. Bad \in SUBSET Nat
    OBVIOUS
  <2> QED BY <2>1, Least
<1>2. k # 0
  BY <1>1
<1>3. k - 1 \in 0 .. n /\ k - 1 \notin Bad
  BY <1>1, <1>2
<1>4. up[n - (k - 1)] \subseteq up[n]
  BY <1>3
<1>5. n - (k - 1) \in 1 .. n /\ (n - (k - 1)) - 1 = n - k
  BY <1>1, <1>2
<1>6. up[n - k] \subseteq up[n - (k - 1)]
  BY <1>5, ClimbRungs
<1> QED BY <1>1, <1>4, <1>6

(* A climb depends only on the rows it passes.                             *)
LEMMA ClimbLocal ==
  ASSUME NEW c, NEW cat, NEW cat2,
         \A d \in Climb(c, cat) : cat2[d].known = cat[d].known /\ cat2[d].parent = cat[d].parent
  PROVE  Climb(c, cat2) = Climb(c, cat)
<1> DEFINE N == Cardinality(Channels)
<1>0. N \in Nat
  BY ScopeAssumption, FS_CardinalityType
<1>1. PICK u : IsClimb(u, N, c, cat) /\ Climb(c, cat) = u[N] \ {None}
  BY ClimbIs
<1>2. PICK v : IsClimb(v, N, c, cat2) /\ Climb(c, cat2) = v[N] \ {None}
  BY ClimbIs
<1> DEFINE Bad == {k \in 0 .. N : u[k] # v[k]}
<1> HIDE DEF N
<1>3. ASSUME Bad # {} PROVE FALSE
  <2>0. Bad \in SUBSET Nat
    BY <1>0
  <2>1. PICK k \in Bad : \A j \in Bad : k <= j
    BY <1>3, <2>0, Least
  <2>2. k # 0
    <3>1. u[0] = {c} /\ v[0] = {c}
      BY <1>0, <1>1, <1>2, ClimbRungs
    <3> QED BY <2>1, <3>1
  <2>3. k \in 1 .. N /\ k - 1 \in 0 .. N /\ u[k - 1] = v[k - 1]
    BY <1>0, <2>1, <2>2
  <2>4. u[k] = Above(u[k - 1], cat) /\ v[k] = Above(v[k - 1], cat2)
    BY <1>0, <1>1, <1>2, <2>3, ClimbRungs
  <2>5. \A d \in u[k - 1] : d # None => cat2[d].known = cat[d].known /\ cat2[d].parent = cat[d].parent
    BY <1>0, <1>1, <2>3, ClimbGrows
  <2>6. Above(u[k - 1], cat) = Above(u[k - 1], cat2)
    BY <2>5 DEF Above
  <2> QED BY <2>1, <2>3, <2>4, <2>6
<1> QED BY <1>0, <1>1, <1>2, <1>3

(* A climb begins with the channel and stays among the channels.           *)
LEMMA ClimbIn ==
  ASSUME NEW c \in Channels, NEW cat, \A d \in Channels : cat[d].parent \in Channels \cup {None}
  PROVE  c \in Climb(c, cat) /\ Climb(c, cat) \subseteq Channels
<1> DEFINE N == Cardinality(Channels)
<1>0. N \in Nat
  BY ScopeAssumption, FS_CardinalityType
<1>1. PICK u : IsClimb(u, N, c, cat) /\ Climb(c, cat) = u[N] \ {None}
  BY ClimbIs
<1> DEFINE Bad == {k \in 0 .. N : ~(u[k] \subseteq Channels \cup {None})}
<1> HIDE DEF N
<1>2. ASSUME Bad # {} PROVE FALSE
  <2>0. Bad \in SUBSET Nat
    BY <1>0
  <2>1. PICK k \in Bad : \A j \in Bad : k <= j
    BY <1>2, <2>0, Least
  <2>2. k # 0
    BY <1>0, <1>1, <2>1, ClimbRungs
  <2>3. k \in 1 .. N /\ k - 1 \in 0 .. N /\ u[k - 1] \subseteq Channels \cup {None}
    BY <1>0, <2>1, <2>2
  <2>4. u[k] = Above(u[k - 1], cat)
    BY <1>0, <1>1, <2>3, ClimbRungs
  <2>5. Above(u[k - 1], cat) \subseteq Channels \cup {None}
    BY <2>3 DEF Above
  <2> QED BY <2>1, <2>4, <2>5
<1>3. c \in u[N] /\ c # None
  BY <1>0, <1>1, ClimbRungs, ClimbGrows, ScopeAssumption
<1> QED BY <1>0, <1>1, <1>2, <1>3

(* So does the decision.                                                   *)
LEMMA ScopeLocal ==
  ASSUME NEW c \in Channels, NEW p, NEW cat, NEW cat2,
         \A d \in Channels : cat[d].parent \in Channels \cup {None},
         \A d \in Climb(c, cat) :
            /\ cat2[d].known = cat[d].known /\ cat2[d].parent = cat[d].parent
            /\ cat2[d].kind = cat[d].kind /\ cat2[d].dead = cat[d].dead
  PROVE  Scope(p, c, cat2) = Scope(p, c, cat)
<1>1. Climb(c, cat2) = Climb(c, cat)
  BY ClimbLocal
<1>2. c \in Climb(c, cat)
  BY ClimbIn
<1>3. Ancestry(c, cat2) = Ancestry(c, cat) /\ (Rooted(c, cat2) <=> Rooted(c, cat))
  BY <1>1 DEF Ancestry, Rooted
<1>4. \A d \in Ancestry(c, cat) : /\ cat2[d].known = cat[d].known /\ cat2[d].parent = cat[d].parent
                                  /\ cat2[d].kind = cat[d].kind /\ cat2[d].dead = cat[d].dead
  BY DEF Ancestry
<1>5. Acyclic(c, cat2) <=> Acyclic(c, cat)
  BY <1>3, <1>4 DEF Acyclic
<1>6. \A d \in Ancestry(c, cat) : ExcludesKind(p, cat2[d]) <=> ExcludesKind(p, cat[d])
  BY <1>4 DEF ExcludesKind
<1>7. ExcludesStored(p, c, cat2) <=> ExcludesStored(p, c, cat)
  BY <1>2, <1>3, <1>4, <1>6 DEF ExcludesStored
<1>8. cat2[c].known = cat[c].known
  BY <1>2
<1>9. (\E d \in Ancestry(c, cat2) :
         cat2[d].dead \/ d \in p.ids \/ cat2[d].parent \in p.ids \/ ExcludesKind(p, cat2[d]))
      <=> (\E d \in Ancestry(c, cat) :
             cat[d].dead \/ d \in p.ids \/ cat[d].parent \in p.ids \/ ExcludesKind(p, cat[d]))
  BY <1>3, <1>4, <1>6
<1> QED BY <1>3, <1>5, <1>7, <1>8, <1>9 DEF Scope

(* What an allowed channel has: its whole ancestry stored, none of it      *)
(* deleted.                                                                *)
LEMMA AllowedHas ==
  ASSUME NEW c \in Channels, NEW p, NEW cat, Scope(p, c, cat) = "allowed"
  PROVE  /\ \A d \in Climb(c, cat) : cat[d].known /\ ~cat[d].dead
         /\ cat[c].known
         /\ ~Tombstoned(c, cat)
<1>1. cat[c].known /\ Rooted(c, cat) /\ \A d \in Ancestry(c, cat) : ~cat[d].dead
  BY DEF Scope
<1> QED BY <1>1 DEF Rooted, Ancestry, Tombstoned

-----------------------------------------------------------------------------
(* Writes of rows.                                                         *)

(* Whoever is in scope and not in S stays in scope.                        *)
Keeps(S) == \A c \in Channels \ S : \A p \in Policies :
  Scope(p, c, rows) = "allowed" => Scope(p, c, rows') = "allowed"

(* The decision has three values.                                          *)
LEMMA ScopeType == \A p, c, cat : Scope(p, c, cat) \in Scopes
  BY DEF Scope, Scopes

(* The fields of a row.                                                    *)
LEMMA RowFields ==
  ASSUME Types, NEW c \in Channels
  PROVE  /\ rows[c] \in Rows
         /\ rows[c].known \in BOOLEAN /\ rows[c].parent \in Parents /\ rows[c].dead \in BOOLEAN
         /\ rows[c].kind \in {"unknown"} \cup {Kind[d] : d \in Channels}
         /\ rows[c].scope \in Scopes /\ rows[c].policy \in Policies \cup {None}
         /\ rows[c] = [known |-> rows[c].known, parent |-> rows[c].parent, kind |-> rows[c].kind,
                       dead |-> rows[c].dead, scope |-> rows[c].scope, policy |-> rows[c].policy]
<1>1. rows[c] \in Rows
  BY DEF Types
<1> QED BY <1>1 DEF Rows

(* A channel in scope stays in scope if the rows above it stay.            *)
LEMMA KeepsIf ==
  ASSUME Types, NEW S,
         ASSUME NEW c \in Channels \ S, NEW d \in Climb(c, rows), d \in Channels,
                rows[c].known, rows[d].known, ~rows[d].dead
         PROVE  /\ rows'[d].known = rows[d].known /\ rows'[d].parent = rows[d].parent
                /\ rows'[d].kind = rows[d].kind /\ rows'[d].dead = rows[d].dead
  PROVE  Keeps(S)
<1> SUFFICES ASSUME NEW c \in Channels \ S, NEW p \in Policies, Scope(p, c, rows) = "allowed"
             PROVE  Scope(p, c, rows') = "allowed"
  BY DEF Keeps
<1>1. \A d \in Channels : rows[d].parent \in Channels \cup {None}
  BY RowFields DEF Parents
<1>2. rows[c].known /\ \A d \in Climb(c, rows) : d \in Channels /\ rows[d].known /\ ~rows[d].dead
  BY <1>1, ClimbIn, AllowedHas
<1> QED BY <1>1, <1>2, ScopeLocal

(* A stored decision that was there before is still right; so the rows of  *)
(* S must not be left with one.                                            *)
LEMMA CurrentIf ==
  ASSUME AllowedIsCurrent, NEW S, Keeps(S),
         ASSUME NEW c \in Channels, rows'[c].known, rows'[c].scope = "allowed", rows'[c].policy \in Policies
         PROVE  c \notin S /\ rows[c].known /\ rows[c].scope = "allowed" /\ rows[c].policy = rows'[c].policy
  PROVE  AllowedIsCurrent'
  BY DEF AllowedIsCurrent, Keeps

(* What forgetting decisions does to a row.                                *)
LEMMA InvalidatedIs ==
  ASSUME Types, NEW S, NEW c \in Channels
  PROVE  LET r == Invalidated(S, rows)[c] IN
         /\ r \in Rows
         /\ r.known = rows[c].known /\ r.parent = rows[c].parent /\ r.kind = rows[c].kind /\ r.dead = rows[c].dead
         /\ c \in S => r.scope = "unknown"
         /\ c \notin S => r = rows[c]
<1>1. rows[c] \in Rows
  BY DEF Types
<1>2. CASE c \in S
  <2>1. Invalidated(S, rows)[c] = [rows[c] EXCEPT !.scope = "unknown", !.policy = None]
    BY <1>2 DEF Invalidated
  <2> QED BY <1>1, <1>2, <2>1 DEF Rows, Scopes
<1>3. CASE c \notin S
  <2>1. Invalidated(S, rows)[c] = rows[c]
    BY <1>3 DEF Invalidated
  <2> QED BY <1>1, <1>3, <2>1
<1> QED BY <1>2, <1>3

(* A deleted row has no decision in its favour.                            *)
LEMMA DeadIsOut ==
  ASSUME Types, AllowedIsCurrent, NEW c \in Channels, rows[c].dead, rows[c].known, rows[c].policy \in Policies
  PROVE  rows[c].scope # "allowed"
<1>1. \A d \in Channels : rows[d].parent \in Channels \cup {None}
  BY RowFields DEF Parents
<1> QED BY <1>1, ClimbIn, AllowedHas DEF AllowedIsCurrent

(* A known channel is its own descendant.                                  *)
LEMMA BelowItself ==
  ASSUME Types, NEW c \in Channels, rows[c].known
  PROVE  c \in Descendants(c)
<1>1. \A d \in Channels : rows[d].parent \in Channels \cup {None}
  BY RowFields DEF Parents
<1> QED BY <1>1, ClimbIn DEF Descendants

(* What an observation makes of a row.                                     *)
LEMMA FreshIs ==
  ASSUME NEW row \in Rows, NEW c \in Channels, NEW parent \in Parents
  PROVE  LET r == Fresh(row, c, parent) IN
         /\ r \in Rows
         /\ r.known /\ r.parent = parent /\ r.kind = Kind[c] /\ ~r.dead
         /\ r.scope = row.scope /\ r.policy = row.policy
<1>1. Kind[c] \in {"unknown"} \cup {Kind[d] : d \in Channels}
  OBVIOUS
<1> QED BY <1>1 DEF Fresh, Rows

(* What a write leaves behind: rows of their type, blank if not known,     *)
(* with current decisions, and in scope what was, but for S.               *)
Written(S) ==
  /\ rows' \in [Channels -> Rows] /\ RowInv' /\ AllowedIsCurrent' /\ Keeps(S)

(* No write.                                                               *)
LEMMA NotWritten ==
  ASSUME IInv, UNCHANGED rows, NEW S
  PROVE  Written(S)
  BY DEF Written, IInv, Types, RowInv, AllowedIsCurrent, Keeps

(* upsertChannelTx: the row, and the descendants of a row that moved.      *)
LEMMA UpsertWrites ==
  ASSUME IInv, NEW c \in Channels, NEW parent \in Parents, UpsertChannelTx(c, parent)
  PROVE  /\ Written(Lost(c, parent) \cup {c})
         /\ \A d \in Channels : rows'[d].dead = (rows[d].dead /\ d # c)
<1> DEFINE lost == Lost(c, parent)
<1>0. Types /\ RowInv /\ AllowedIsCurrent
  BY DEF IInv
<1>1. CASE ~Differs(c, parent)
  <2>1. UNCHANGED rows
    BY <1>1 DEF UpsertChannelTx
  <2>2. ~rows[c].dead
    BY <1>1 DEF Differs
  <2> QED BY <2>1, <2>2, <1>0, RowFields, NotWritten
<1>2. CASE Differs(c, parent)
  <2>1. rows' = [Invalidated(lost, rows) EXCEPT ![c] = Fresh(@, c, parent)]
    BY <1>2 DEF UpsertChannelTx
  <2>11. ASSUME NEW d \in Channels
        PROVE  /\ Invalidated(lost, rows)[d] \in Rows
               /\ Invalidated(lost, rows)[d].known = rows[d].known
               /\ Invalidated(lost, rows)[d].parent = rows[d].parent
               /\ Invalidated(lost, rows)[d].kind = rows[d].kind
               /\ Invalidated(lost, rows)[d].dead = rows[d].dead
               /\ d \in lost => Invalidated(lost, rows)[d].scope = "unknown"
               /\ d \notin lost => Invalidated(lost, rows)[d] = rows[d]
    BY <1>0, InvalidatedIs
  <2>2. ASSUME NEW d \in Channels, d # c PROVE rows'[d] = Invalidated(lost, rows)[d]
    BY <2>1, <2>2 DEF Invalidated
  <2>3. rows'[c] = Fresh(Invalidated(lost, rows)[c], c, parent) /\ DOMAIN rows' = Channels
    BY <2>1 DEF Invalidated
  <2>4. /\ rows'[c] \in Rows /\ rows'[c].known /\ rows'[c].parent = parent /\ rows'[c].kind = Kind[c]
        /\ ~rows'[c].dead /\ rows'[c].scope = Invalidated(lost, rows)[c].scope
    BY <2>11, <2>3, FreshIs
  <2>5. \A d \in Channels : rows'[d] \in Rows
    BY <1>0, <2>2, <2>4, InvalidatedIs
  <2>6. rows' \in [Channels -> Rows]
    BY <2>1, <2>5 DEF Invalidated
  <2>7. RowInv'
    <3> SUFFICES ASSUME NEW d \in Channels, ~rows'[d].known PROVE rows'[d] = NoRow
      BY DEF RowInv
    <3>1. d # c /\ ~rows[d].known
      BY <1>0, <2>2, <2>4, InvalidatedIs
    <3>2. d \notin lost
      BY <3>1 DEF Lost, Descendants
    <3> QED BY <1>0, <2>2, <3>1, <3>2, InvalidatedIs DEF RowInv
  <2>8. Keeps(lost \cup {c})
    <3> SUFFICES ASSUME NEW x \in Channels \ (lost \cup {c}), NEW d \in Climb(x, rows), d \in Channels,
                        rows[x].known, rows[d].known, ~rows[d].dead
                 PROVE  /\ rows'[d].known = rows[d].known /\ rows'[d].parent = rows[d].parent
                        /\ rows'[d].kind = rows[d].kind /\ rows'[d].dead = rows[d].dead
      BY <1>0, KeepsIf
    <3>1. CASE d # c
      BY <2>11, <2>2, <3>1
    <3>2. CASE d = c
      <4>1. MovesRow(c, parent)
        BY <1>2, <3>2 DEF Differs, MovesRow
      <4>2. lost = Descendants(c)
        BY <4>1 DEF Lost
      <4> QED BY <3>2, <4>2 DEF Descendants
    <3> QED BY <3>1, <3>2
  <2>9. AllowedIsCurrent'
    <3>1. ASSUME NEW d \in Channels, rows'[d].known, rows'[d].scope = "allowed", rows'[d].policy \in Policies
          PROVE  d \notin lost \cup {c} /\ rows[d].known /\ rows[d].scope = "allowed" /\ rows[d].policy = rows'[d].policy
      <4>1. d \notin lost /\ Invalidated(lost, rows)[d] = rows[d]
        BY <1>0, <2>2, <2>4, <3>1, InvalidatedIs
      <4>2. CASE d = c
        <5>1. rows[c].scope = "allowed" /\ rows'[c].policy = rows[c].policy
          BY <2>11, <2>3, <3>1, <4>1, <4>2, FreshIs
        <5>2. rows[c].known
          BY <1>0, <5>1 DEF RowInv, NoRow
        <5>3. ~rows[c].dead
          BY <1>0, <3>1, <4>2, <5>1, <5>2, DeadIsOut
        <5>4. c \in lost
          BY <1>0, <1>2, <5>2, <5>3, BelowItself DEF Differs, Lost, MovesRow
        <5> QED BY <4>1, <4>2, <5>4
      <4>3. CASE d # c
        BY <1>0, <2>2, <3>1, <4>1, <4>3, InvalidatedIs
      <4> QED BY <4>2, <4>3
    <3> HIDE DEF lost
    <3> QED BY <1>0, <2>8, <3>1, CurrentIf
  <2>10. ASSUME NEW d \in Channels PROVE rows'[d].dead = (rows[d].dead /\ d # c)
    <3>1. rows[d].dead \in BOOLEAN /\ rows'[d].dead \in BOOLEAN
      BY <1>0, <2>5, RowFields DEF Rows
    <3>2. CASE d = c
      BY <2>4, <3>1, <3>2
    <3>3. CASE d # c
      BY <2>2, <2>11, <3>1, <3>3
    <3> QED BY <3>2, <3>3
  <2> QED BY <2>6, <2>7, <2>8, <2>9, <2>10 DEF Written
<1> QED BY <1>1, <1>2

(* MarkChannelDeleted: the row and its descendants.                        *)
LEMMA DeleteWrites ==
  ASSUME IInv, NEW c \in Channels, MarkChannelDeleted(c)
  PROVE  /\ Written(Descendants(c) \cup {c})
         /\ \A d \in Channels : rows'[d].dead = (rows[d].dead \/ d = c)
<1> DEFINE below == Descendants(c) \cup {c}
<1>0. Types /\ RowInv /\ AllowedIsCurrent
  BY DEF IInv
<1>1. ASSUME NEW d \in Channels
      PROVE  /\ Invalidated(below, rows)[d] \in Rows
             /\ Invalidated(below, rows)[d].known = rows[d].known
             /\ Invalidated(below, rows)[d].parent = rows[d].parent
             /\ Invalidated(below, rows)[d].kind = rows[d].kind
             /\ Invalidated(below, rows)[d].dead = rows[d].dead
             /\ d \in below => Invalidated(below, rows)[d].scope = "unknown"
             /\ d \notin below => Invalidated(below, rows)[d] = rows[d]
  BY <1>0, InvalidatedIs
<1>2. ASSUME NEW d \in Channels, d # c PROVE rows'[d] = Invalidated(below, rows)[d]
  BY <1>2 DEF MarkChannelDeleted, Invalidated
<1>3. rows'[c] = [Invalidated(below, rows)[c] EXCEPT !.known = TRUE, !.dead = TRUE, !.scope = "excluded"]
  BY DEF MarkChannelDeleted, Invalidated
<1>4. rows'[c] \in Rows /\ rows'[c].known /\ rows'[c].dead /\ rows'[c].scope = "excluded"
  BY <1>1, <1>3 DEF Rows, Scopes
<1>5. \A d \in Channels : rows'[d] \in Rows
  BY <1>1, <1>2, <1>4
<1>6. rows' \in [Channels -> Rows]
  BY <1>5 DEF MarkChannelDeleted, Invalidated
<1>7. RowInv'
  <2> SUFFICES ASSUME NEW d \in Channels, ~rows'[d].known PROVE rows'[d] = NoRow
    BY DEF RowInv
  <2>1. d # c /\ ~rows[d].known
    BY <1>1, <1>2, <1>4
  <2>2. d \notin below
    BY <2>1 DEF Descendants
  <2> QED BY <1>0, <1>1, <1>2, <2>1, <2>2 DEF RowInv
<1>8. Keeps(below)
  <2> SUFFICES ASSUME NEW x \in Channels \ below, NEW d \in Climb(x, rows), d \in Channels,
                      rows[x].known, rows[d].known, ~rows[d].dead
               PROVE  /\ rows'[d].known = rows[d].known /\ rows'[d].parent = rows[d].parent
                      /\ rows'[d].kind = rows[d].kind /\ rows'[d].dead = rows[d].dead
    BY <1>0, KeepsIf
  <2>1. d # c
    BY DEF Descendants
  <2> QED BY <1>1, <1>2, <2>1
<1>9. AllowedIsCurrent'
  <2>1. ASSUME NEW d \in Channels, rows'[d].known, rows'[d].scope = "allowed", rows'[d].policy \in Policies
        PROVE  d \notin below /\ rows[d].known /\ rows[d].scope = "allowed" /\ rows[d].policy = rows'[d].policy
    BY <1>1, <1>2, <1>4, <2>1
  <2> HIDE DEF below
  <2> QED BY <1>0, <1>8, <2>1, CurrentIf
<1>10. ASSUME NEW d \in Channels PROVE rows'[d].dead = (rows[d].dead \/ d = c)
  BY ZenonT(60), <1>0, <1>1, <1>2, <1>4, RowFields
<1> QED BY <1>6, <1>7, <1>8, <1>9, <1>10 DEF Written

(* SeedScopeMetadata: only rows that were not known.                       *)
LEMMA SeedWrites ==
  ASSUME IInv, SeedScopeMetadata
  PROVE  LET new == {c \in Channels : ~rows[c].known /\ payload[c].live} IN
         /\ Written(new) /\ Revised(new)
         /\ \A d \in Channels : rows'[d].dead = rows[d].dead
<1> DEFINE new == {c \in Channels : ~rows[c].known /\ payload[c].live}
<1>0. Types /\ RowInv /\ AllowedIsCurrent
  BY DEF IInv
<1>1. /\ rows' = [c \in Channels |-> IF c \in new THEN Fresh(NoRow, c, payload[c].parent) ELSE rows[c]]
      /\ Revised(new)
  BY DEF SeedScopeMetadata
<1>2. NoRow \in Rows
  BY DEF NoRow, Rows, Parents, Scopes
<1>3. ASSUME NEW d \in new
      PROVE  /\ rows'[d] \in Rows /\ rows'[d].known /\ ~rows'[d].dead /\ rows'[d].scope = "unknown"
             /\ ~rows[d].known /\ ~rows[d].dead
  <2>1. payload[d].parent \in Parents
    BY <1>0 DEF Types, Places
  <2>2. rows'[d] = Fresh(NoRow, d, payload[d].parent)
    BY <1>1
  <2>3. NoRow.scope = "unknown" /\ ~NoRow.dead /\ rows[d] = NoRow
    BY <1>0, <1>3 DEF NoRow, RowInv
  <2> QED BY <1>2, <2>1, <2>2, <2>3, FreshIs
<1>4. ASSUME NEW d \in Channels, d \notin new PROVE rows'[d] = rows[d] /\ rows[d] \in Rows
  BY <1>0, <1>1, <1>4 DEF Types
<1>5. rows' \in [Channels -> Rows]
  <2>1. \A d \in Channels : rows'[d] \in Rows
    BY <1>3, <1>4
  <2> QED BY <1>1, <2>1
<1>6. RowInv'
  BY <1>0, <1>3, <1>4 DEF RowInv
<1>7. Keeps(new)
  <2> SUFFICES ASSUME NEW x \in Channels \ new, NEW d \in Climb(x, rows), d \in Channels,
                      rows[x].known, rows[d].known, ~rows[d].dead
               PROVE  /\ rows'[d].known = rows[d].known /\ rows'[d].parent = rows[d].parent
                      /\ rows'[d].kind = rows[d].kind /\ rows'[d].dead = rows[d].dead
    BY <1>0, KeepsIf
  <2> QED BY <1>4
<1>8. AllowedIsCurrent'
  <2>1. ASSUME NEW d \in Channels, rows'[d].known, rows'[d].scope = "allowed", rows'[d].policy \in Policies
        PROVE  d \notin new /\ rows[d].known /\ rows[d].scope = "allowed" /\ rows[d].policy = rows'[d].policy
    BY <1>3, <1>4, <2>1
  <2> HIDE DEF new
  <2> QED BY <1>0, <1>7, <2>1, CurrentIf
<1>9. ASSUME NEW d \in Channels PROVE rows'[d].dead = rows[d].dead
  BY <1>0, <1>3, <1>4, <1>5, RowFields DEF Rows
<1> QED BY <1>1, <1>5, <1>6, <1>7, <1>8, <1>9 DEF Written

(* OnGuildUpsert: the channels that are there, and the descendants of the  *)
(* ones that moved.                                                        *)
LEMMA GuildWrites ==
  ASSUME IInv, OnGuildUpsert
  PROVE  \E S \in SUBSET Channels :
           /\ Written(S) /\ Bump(S)
           /\ \A d \in Channels : rows'[d].dead = (rows[d].dead /\ ~disc[d].live)
<1> DEFINE live == {c \in Channels : disc[c].live}
           lost == UNION {Lost(c, disc[c].parent) : c \in live}
           changed == {c \in live : Differs(c, disc[c].parent)} \cup lost
<1>0. Types /\ RowInv /\ AllowedIsCurrent
  BY DEF IInv
<1>1. /\ rows' = [c \in Channels |-> IF c \in live
                    THEN Fresh(Invalidated(lost, rows)[c], c, disc[c].parent) ELSE Invalidated(lost, rows)[c]]
      /\ Bump(changed)
  BY DEF OnGuildUpsert
<1>2. ASSUME NEW d \in Channels
      PROVE  /\ Invalidated(lost, rows)[d] \in Rows
             /\ Invalidated(lost, rows)[d].known = rows[d].known
             /\ Invalidated(lost, rows)[d].parent = rows[d].parent
             /\ Invalidated(lost, rows)[d].kind = rows[d].kind
             /\ Invalidated(lost, rows)[d].dead = rows[d].dead
             /\ d \in lost => Invalidated(lost, rows)[d].scope = "unknown"
             /\ d \notin lost => Invalidated(lost, rows)[d] = rows[d]
  BY <1>0, InvalidatedIs
<1>3. changed \in SUBSET Channels
  BY DEF Lost, Descendants
<1>4. \A d \in lost : rows[d].known
  BY DEF Lost, Descendants
<1>5. ASSUME NEW c \in live, NEW d \in Lost(c, disc[c].parent) PROVE d \in lost
  OBVIOUS
<1>6. ASSUME NEW c \in live
      PROVE  /\ rows'[c] \in Rows /\ rows'[c].known /\ rows'[c].parent = disc[c].parent
             /\ rows'[c].kind = Kind[c] /\ ~rows'[c].dead
             /\ rows'[c].scope = Invalidated(lost, rows)[c].scope
             /\ rows'[c].policy = Invalidated(lost, rows)[c].policy
  <2>1. c \in Channels /\ disc[c].parent \in Parents
    BY <1>0 DEF Types, Places
  <2>2. rows'[c] = Fresh(Invalidated(lost, rows)[c], c, disc[c].parent)
    BY <1>1
  <2>3. Invalidated(lost, rows)[c] \in Rows
    BY <1>2
  <2> HIDE DEF lost
  <2> QED BY <2>1, <2>2, <2>3, FreshIs
<1>7. ASSUME NEW d \in Channels, d \notin live PROVE rows'[d] = Invalidated(lost, rows)[d]
  BY <1>1, <1>7
<1>8. DOMAIN rows' = Channels /\ live \subseteq Channels /\ lost \subseteq changed
  BY <1>1
<1>8a. ASSUME NEW c \in live, c \notin changed PROVE ~Differs(c, disc[c].parent)
  BY <1>8a
<1>8b. ASSUME NEW c \in live, MovesRow(c, disc[c].parent) PROVE Descendants(c) \subseteq lost
  BY <1>5, <1>8b DEF Lost
<1>9. \A d \in Channels : d \in live <=> disc[d].live
  OBVIOUS
<1> HIDE DEF live, lost, changed
<1>10. \A d \in Channels : rows'[d] \in Rows
  BY <1>2, <1>6, <1>7
<1>11. rows' \in [Channels -> Rows]
  BY <1>1, <1>10
<1>12. RowInv'
  <2> SUFFICES ASSUME NEW d \in Channels, ~rows'[d].known PROVE rows'[d] = NoRow
    BY DEF RowInv
  <2>1. d \notin live /\ ~rows[d].known
    BY <1>2, <1>6, <1>7
  <2> QED BY <1>0, <1>2, <1>4, <1>7, <2>1 DEF RowInv
<1>13. Keeps(changed)
  <2> SUFFICES ASSUME NEW x \in Channels \ changed, NEW d \in Climb(x, rows), d \in Channels,
                      rows[x].known, rows[d].known, ~rows[d].dead
               PROVE  /\ rows'[d].known = rows[d].known /\ rows'[d].parent = rows[d].parent
                      /\ rows'[d].kind = rows[d].kind /\ rows'[d].dead = rows[d].dead
    BY <1>0, KeepsIf
  <2>1. CASE d \notin live
    BY <1>2, <1>7, <2>1
  <2>2. CASE d \in live
    <3>1. ~MovesRow(d, disc[d].parent)
      BY <1>8, <1>8b, <2>2 DEF Descendants
    <3>2. rows[d].parent = disc[d].parent /\ rows[d].kind = Kind[d]
      BY <3>1 DEF MovesRow
    <3>3. rows[d].known = TRUE /\ rows[d].dead = FALSE /\ rows'[d].known = TRUE /\ rows'[d].dead = FALSE
      BY <1>0, <1>6, <1>10, <2>2, RowFields DEF Rows
    <3> QED BY <1>6, <2>2, <3>2, <3>3
  <2> QED BY <2>1, <2>2
<1>14. AllowedIsCurrent'
  <2>1. ASSUME NEW d \in Channels, rows'[d].known, rows'[d].scope = "allowed", rows'[d].policy \in Policies
        PROVE  d \notin changed /\ rows[d].known /\ rows[d].scope = "allowed" /\ rows[d].policy = rows'[d].policy
    <3>1. d \notin lost
      BY <1>2, <1>6, <1>7, <2>1
    <3>2. rows[d].scope = "allowed" /\ rows[d].policy = rows'[d].policy
      BY <1>2, <1>6, <1>7, <2>1, <3>1
    <3>3. rows[d].known
      BY <1>0, <3>2 DEF RowInv, NoRow
    <3>4. ~rows[d].dead
      BY <1>0, <2>1, <3>2, <3>3, DeadIsOut
    <3>5. ASSUME d \in live, Differs(d, disc[d].parent) PROVE FALSE
      <4>1. MovesRow(d, disc[d].parent)
        BY <3>3, <3>4, <3>5 DEF Differs, MovesRow
      <4> QED BY <1>0, <1>8b, <3>1, <3>3, <3>5, <4>1, BelowItself
    <3> QED BY <3>1, <3>2, <3>3, <3>5 DEF changed
  <2> QED BY <1>0, <1>13, <2>1, CurrentIf
<1>15. ASSUME NEW d \in Channels PROVE rows'[d].dead = (rows[d].dead /\ ~disc[d].live)
  <2>1. rows[d].dead \in BOOLEAN /\ rows'[d].dead \in BOOLEAN
    BY <1>0, <1>10, RowFields DEF Rows
  <2>2. CASE d \in live
    BY <1>6, <1>9, <2>1, <2>2
  <2>3. CASE d \notin live
    BY <1>2, <1>7, <1>9, <2>1, <2>3
  <2> QED BY <2>2, <2>3
<1>16. Written(changed)
  BY <1>11, <1>12, <1>13, <1>14 DEF Written
<1> QED BY <1>1, <1>3, <1>15, <1>16

(* SetChannelScopes: decisions whose rows have not changed since.          *)
LEMMA SetWrites ==
  ASSUME IInv, NEW a \in Actors, SetChannelScopes(a)
  PROVE  /\ Written({})
         /\ \A d \in Channels : rows'[d].dead = rows[d].dead
<1> DEFINE S == Redecided(a) \ dirty[a]
<1>0. Types /\ RowInv /\ AllowedIsCurrent /\ CatalogInv
  BY DEF IInv
<1>1. rows' = [c \in Channels |-> IF c \in S
                 THEN [rows[c] EXCEPT !.scope = catalog[a][c], !.policy = policy] ELSE rows[c]]
  BY DEF SetChannelScopes, SetChannelScopesIn
<1>2. \A c \in S : c \in Channels /\ rows[c].known /\ c \notin dirty[a]
  BY DEF Redecided, Undecided
<1> HIDE DEF S
<1>3. ASSUME NEW c \in Channels
      PROVE  /\ rows'[c] \in Rows
             /\ rows'[c].known = rows[c].known /\ rows'[c].parent = rows[c].parent
             /\ rows'[c].kind = rows[c].kind /\ rows'[c].dead = rows[c].dead
             /\ c \in S => rows'[c].scope = catalog[a][c] /\ rows'[c].policy = policy
             /\ c \notin S => rows'[c] = rows[c]
  <2>1. CASE c \in S
    <3>1. rows'[c] = [rows[c] EXCEPT !.scope = catalog[a][c], !.policy = policy]
      BY <1>1, <2>1
    <3>2. catalog[a][c] \in Scopes /\ policy \in Policies /\ rows[c] \in Rows
      BY <1>0 DEF Types
    <3> QED BY <2>1, <3>1, <3>2 DEF Rows
  <2>2. CASE c \notin S
    BY <1>0, <1>1, <2>2 DEF Types
  <2> QED BY <2>1, <2>2
<1>4. rows' \in [Channels -> Rows]
  BY <1>1, <1>3
<1>5. RowInv'
  BY <1>0, <1>2, <1>3 DEF RowInv
<1>6. Keeps({})
  BY <1>0, <1>3, KeepsIf
<1>7. AllowedIsCurrent'
  <2> SUFFICES ASSUME NEW c \in Channels, NEW p \in Policies,
                      rows'[c].known, rows'[c].scope = "allowed", rows'[c].policy = p
               PROVE  Scope(p, c, rows') = "allowed"
    BY DEF AllowedIsCurrent
  <2>1. Scope(p, c, rows) = "allowed"
    <3>1. CASE c \in S
      BY <1>0, <1>2, <1>3, <3>1 DEF CatalogInv
    <3>2. CASE c \notin S
      BY <1>0, <1>3, <3>2 DEF AllowedIsCurrent
    <3> QED BY <3>1, <3>2
  <2> QED BY <1>6, <2>1 DEF Keeps
<1> QED BY <1>3, <1>4, <1>5, <1>6, <1>7 DEF Written

-----------------------------------------------------------------------------
(* What a step does to the rows and to what the actors know of them.       *)

(* A write revises the rows of S for everyone who has read them.           *)
LEMMA BumpIs ==
  ASSUME Types, NEW S \in SUBSET Channels, Bump(S)
  PROVE  /\ dirty' \in [Actors -> SUBSET Channels]
         /\ \A a \in Actors : Reads(a) => dirty[a] \cup S \subseteq dirty'[a]
  BY DEF Types, Bump

(* A write is an observation for everyone with a request under way.        *)
LEMMA ObserveIs ==
  ASSUME Types, NEW S \in SUBSET Channels, Observe(S)
  PROVE  /\ newer' \in [Actors -> SUBSET Channels]
         /\ \A a \in Actors : UnderWay(a) => newer[a] \cup S \subseteq newer'[a]
  BY DEF Types, Observe

(* The catalogues of a step that reads none.                               *)
LEMMA CatalogKept ==
  ASSUME IInv, NEW S, Keeps(S), UNCHANGED <<catalog, policy>>,
         \A a \in Actors : Reads(a) => dirty[a] \cup S \subseteq dirty'[a]
  PROVE  CatalogInv'
<1> SUFFICES ASSUME NEW a \in Actors, NEW c \in Channels, catalog[a][c] = "allowed", c \notin dirty'[a]
             PROVE  Scope(policy, c, rows') = "allowed"
  BY DEF CatalogInv
<1>1. Reads(a)
  <2>1. Unread[c] # "allowed"
    BY DEF Unread
  <2> QED BY <2>1 DEF Reads
<1>2. c \notin dirty[a] /\ c \notin S
  BY <1>1
<1>3. policy \in Policies
  BY DEF IInv, Types
<1> QED BY <1>2, <1>3 DEF IInv, CatalogInv, Keeps

(* The next event, and the events after it.                                *)
LEMMA NextEvent ==
  ASSUME queue \in Seq(Events), queue # <<>>
  PROVE  /\ Len(queue) \in Nat /\ 1 \in 1 .. Len(queue) /\ Head(queue) = queue[1]
         /\ Head(queue).channel \in Channels /\ Head(queue).parent \in Parents
         /\ Tail(queue) \in Seq(Events) /\ Len(Tail(queue)) = Len(queue) - 1
         /\ \A i \in 1 .. Len(Tail(queue)) : i + 1 \in 1 .. Len(queue) /\ Tail(queue)[i] = queue[i + 1]
<1>1. Len(queue) \in Nat /\ 1 \in 1 .. Len(queue) /\ Head(queue) = queue[1] /\ queue[1] \in Events
  OBVIOUS
<1>2. Tail(queue) \in Seq(Events) /\ Len(Tail(queue)) = Len(queue) - 1
  OBVIOUS
<1>3. \A i \in 1 .. Len(Tail(queue)) : i + 1 \in 1 .. Len(queue) /\ Tail(queue)[i] = queue[i + 1]
  BY <1>1, <1>2
<1>4. Head(queue).channel \in Channels /\ Head(queue).parent \in Parents
  BY <1>1 DEF Events
<1> QED BY <1>1, <1>2, <1>3, <1>4

(* Rows, revisions and observations, in one.                               *)
Effect ==
  /\ rows' \in [Channels -> Rows] /\ RowInv' /\ AllowedIsCurrent' /\ CatalogInv'
  /\ dirty' \in [Actors -> SUBSET Channels] /\ newer' \in [Actors -> SUBSET Channels]

(* A step that writes no row.                                              *)
LEMMA QuietEffect ==
  ASSUME IInv, Quiet, UNCHANGED <<catalog, policy>>
  PROVE  Effect
<1>1. rows' = rows /\ dirty' = dirty /\ Observe({})
  BY DEF Quiet
<1>2. newer' \in [Actors -> SUBSET Channels]
  BY <1>1, ObserveIs DEF IInv
<1> QED BY <1>1, <1>2 DEF Effect, IInv, Types, RowInv, AllowedIsCurrent, CatalogInv

(* A write that gives the rows it puts out of scope a new revision.        *)
LEMMA WriteEffect ==
  ASSUME IInv, NEW S \in SUBSET Channels, NEW T \in SUBSET Channels,
         Written(S), Bump(S), Observe(T), UNCHANGED <<catalog, policy>>
  PROVE  Effect
<1>1. Types
  BY DEF IInv
<1>2. Keeps(S)
  BY DEF Written
<1> QED BY <1>1, <1>2, BumpIs, ObserveIs, CatalogKept DEF Effect, Written

(* upsertChannelTx, whether or not the row differs.                        *)
LEMMA UpsertEffect ==
  ASSUME IInv, NEW c \in Channels, NEW parent \in Parents, UpsertChannelTx(c, parent),
         UNCHANGED <<catalog, policy>>
  PROVE  Effect
<1>1. CASE Differs(c, parent)
  <2>1. Bump(Lost(c, parent) \cup {c}) /\ Observe(Lost(c, parent) \cup {c})
    BY <1>1 DEF UpsertChannelTx, Revised
  <2>2. Lost(c, parent) \cup {c} \in SUBSET Channels
    BY DEF Lost, Descendants
  <2> QED BY <2>1, <2>2, UpsertWrites, WriteEffect
<1>2. CASE ~Differs(c, parent)
  <2>1. rows' = rows /\ dirty' = dirty /\ Observe({c})
    BY <1>2 DEF UpsertChannelTx
  <2>2. newer' \in [Actors -> SUBSET Channels]
    BY <2>1, ObserveIs DEF IInv
  <2> QED BY <2>1, <2>2 DEF Effect, IInv, Types, RowInv, AllowedIsCurrent, CatalogInv
<1> QED BY <1>1, <1>2

(* UpsertObservedChannel, whether or not the answer is dropped.            *)
LEMMA ObservedEffect ==
  ASSUME IInv, NEW a \in Actors, NEW c \in Channels, UpsertObservedChannel(a, c), UNCHANGED <<catalog, policy>>
  PROVE  Effect
<1>1. obs[a][c].parent \in Parents
  BY DEF IInv, Types, Places
<1> QED BY <1>1, QuietEffect, UpsertEffect DEF UpsertObservedChannel

(* Every step keeps the rows and the catalogues read from them.            *)
LEMMA StepEffect ==
  ASSUME IInv, Next PROVE Effect
<1>0. Types
  BY DEF IInv
<1>1. ASSUME NEW a \in Actors, ReadScopes(a) PROVE Effect
  <2>1. /\ rows' = rows /\ policy' = policy /\ Observe({})
        /\ catalog' = [catalog EXCEPT ![a] = [c \in Channels |-> Scope(policy, c, rows)]]
        /\ dirty' = [dirty EXCEPT ![a] = {}]
    BY <1>1 DEF ReadScopes, process
  <2>2. CatalogInv'
    <3> SUFFICES ASSUME NEW b \in Actors, NEW c \in Channels, catalog'[b][c] = "allowed", c \notin dirty'[b]
                 PROVE  Scope(policy, c, rows) = "allowed"
      BY <2>1 DEF CatalogInv
    <3>1. CASE b = a
      BY <1>0, <2>1, <3>1 DEF Types
    <3>2. CASE b # a
      BY <1>0, <2>1, <3>2 DEF IInv, CatalogInv, Types
    <3> QED BY <3>1, <3>2
  <2>3. newer' \in [Actors -> SUBSET Channels]
    BY <1>0, <2>1, ObserveIs
  <2> QED BY <2>1, <2>2, <2>3 DEF Effect, IInv, Types, RowInv, AllowedIsCurrent
<1>2. ASSUME NEW a \in Actors, SetChannelScopes(a) PROVE Effect
  <2> DEFINE S == Redecided(a) \ dirty[a]
  <2>1. Bump(S) /\ Observe(S) /\ UNCHANGED <<catalog, policy>>
    BY <1>2 DEF SetChannelScopes, SetChannelScopesIn, Revised, process
  <2>2. S \in SUBSET Channels
    BY DEF Redecided, Undecided
  <2>3. Written({})
    BY <1>2, SetWrites
  <2>4. Keeps(S)
    BY <2>3 DEF Written, Keeps
  <2>5. Written(S)
    BY <2>3, <2>4 DEF Written
  <2> HIDE DEF S
  <2> QED BY <2>1, <2>2, <2>5, WriteEffect
<1>3. ASSUME NEW a \in Actors,
             CheckTombstone(a) \/ Check(a) \/ Ask(a) \/ Fetch(a) \/ Reject(a) \/ UpsertMessages(a)
      PROVE  Effect
  <2>1. Quiet /\ UNCHANGED <<catalog, policy>>
    BY <1>3 DEF CheckTombstone, Check, CheckWith, Ask, Fetch, Reject, UpsertMessages, CommitIf, process
  <2> QED BY <2>1, QuietEffect
<1>4. ASSUME NEW a \in Actors, KeepAncestor(a) PROVE Effect
  <2>1. UpsertObservedChannel(a, step[a]) /\ UNCHANGED <<catalog, policy>> /\ step[a] \in Channels
    BY <1>4 DEF KeepAncestor, process, IInv, PlaceInv
  <2> QED BY <2>1, ObservedEffect
<1>5. CASE SeedScopeMetadata
  <2>1. UNCHANGED <<catalog, policy>>
    BY <1>5 DEF SeedScopeMetadata, process
  <2> QED BY <1>5, <2>1, SeedWrites, WriteEffect DEF Revised
<1>6. CASE OnChannelUpsert
  <2>1. /\ UpsertChannelTx(Head(queue).channel, Head(queue).parent) /\ UNCHANGED <<catalog, policy>>
        /\ queue # <<>>
    BY <1>6 DEF OnChannelUpsert, process
  <2>2. Head(queue).channel \in Channels /\ Head(queue).parent \in Parents
    BY <1>0, <2>1, NextEvent DEF Types
  <2> QED BY <2>1, <2>2, UpsertEffect
<1>7. CASE OnChannelDelete
  <2> DEFINE c == Head(queue).channel
  <2>1. MarkChannelDeleted(c) /\ UNCHANGED <<catalog, policy>> /\ queue # <<>>
    BY <1>7 DEF OnChannelDelete, process
  <2>2. c \in Channels
    BY <1>0, <2>1, NextEvent DEF Types
  <2> HIDE DEF c
  <2>3. Bump(Descendants(c) \cup {c}) /\ Observe(Descendants(c) \cup {c})
    BY <2>1 DEF MarkChannelDeleted, Revised
  <2>4. Descendants(c) \cup {c} \in SUBSET Channels
    BY <2>2 DEF Descendants
  <2> QED BY <2>1, <2>2, <2>3, <2>4, DeleteWrites, WriteEffect
<1>8. CASE OnGuildUpsert
  <2>1. PICK S \in SUBSET Channels : Written(S) /\ Bump(S)
    BY <1>8, GuildWrites
  <2>2. UNCHANGED <<catalog, policy>> /\ \E T \in SUBSET Channels : Observe(T)
    BY <1>8 DEF OnGuildUpsert, process, Lost, Descendants
  <2> QED BY <2>1, <2>2, WriteEffect
<1>9. CASE StartSync \/ ListChannels \/ (\E c \in Channels : CrawlPage(c)) \/ Discord
           \/ (\E a \in Actors, c \in Channels : Message(a, c))
  <2>1. Quiet /\ UNCHANGED <<catalog, policy>>
    BY <1>9 DEF StartSync, ListChannels, CrawlPage, Discord, DeleteAtDiscord, MoveAtDiscord, ChangeAtDiscord,
                Message, process
  <2> QED BY <2>1, QuietEffect
<1>10. CASE StoreScopeMetadata
  <2> DEFINE next == CHOOSE d \in todo : TRUE
  <2>1. UNCHANGED <<catalog, policy>>
    BY <1>10 DEF StoreScopeMetadata, process
  <2>2. CASE todo # {}
    <3>1. next \in todo /\ UpsertObservedChannel("repair", next)
      BY <1>10, <2>2 DEF StoreScopeMetadata
    <3>2. next \in Channels /\ "repair" \in Actors
      BY <1>0, <3>1 DEF Types, Actors
    <3> HIDE DEF next
    <3> QED BY <2>1, <3>1, <3>2, ObservedEffect
  <2>3. CASE todo = {}
    <3>1. Quiet
      BY <1>10, <2>3 DEF StoreScopeMetadata
    <3> QED BY <2>1, <3>1, QuietEffect
  <2> QED BY <2>2, <2>3
<1>11. CASE SelectChannels \/ NewResolver
  <2>1. /\ rows' = rows /\ policy' = policy /\ Observe({})
        /\ catalog' = [catalog EXCEPT !["repair"] = Unread]
        /\ dirty' = [dirty EXCEPT !["repair"] = {}]
    BY <1>11 DEF SelectChannels, NewResolver, process
  <2>2. CatalogInv'
    <3> SUFFICES ASSUME NEW b \in Actors, NEW c \in Channels, catalog'[b][c] = "allowed", c \notin dirty'[b]
                 PROVE  Scope(policy, c, rows) = "allowed"
      BY <2>1 DEF CatalogInv
    <3>1. b # "repair"
      BY <1>0, <2>1 DEF Types, Unread
    <3> QED BY <1>0, <2>1, <3>1 DEF IInv, CatalogInv, Types
  <2>3. newer' \in [Actors -> SUBSET Channels]
    BY <1>0, <2>1, ObserveIs
  <2> QED BY <2>1, <2>2, <2>3 DEF Effect, IInv, Types, RowInv, AllowedIsCurrent
<1>12. ASSUME NEW p \in Policies, Restart(p) PROVE Effect
  <2>1. /\ rows' = rows /\ catalog' = [a \in Actors |-> Unread]
        /\ dirty' = [a \in Actors |-> {}] /\ newer' = [a \in Actors |-> {}]
    BY <1>12 DEF Restart
  <2>2. CatalogInv'
    BY <2>1 DEF CatalogInv, Unread
  <2> QED BY <2>1, <2>2 DEF Effect, IInv, Types, RowInv, AllowedIsCurrent
<1> QED BY <1>1, <1>2, <1>3, <1>4, <1>5, <1>6, <1>7, <1>8, <1>9, <1>10, <1>11, <1>12
        DEF Next, Step, Live, Repair, Act, Actors

-----------------------------------------------------------------------------
(* Types and places.                                                       *)

(* Where a walk goes.                                                      *)
LEMMA WalkIs ==
  ASSUME Types, NEW a \in Actors, NEW c \in Parents, Walk(a, c), target[a] \in Channels
  PROVE  /\ pc' \in [Actors -> Stages] /\ cont' \in [Actors -> Returns] /\ step' \in [Actors -> Parents]
         /\ target' = target
         /\ (pc'[a] = "read" \/ (pc'[a] = "ask" /\ step'[a] \in Channels))
         /\ \A b \in Actors \ {a} : pc'[b] = pc[b] /\ cont'[b] = cont[b] /\ step'[b] = step[b]
<1>1. CASE c = None \/ c \in policy.ids
  BY <1>1 DEF Walk, Refresh, Types, Stages, Returns
<1>2. CASE ~(c = None \/ c \in policy.ids)
  BY <1>2 DEF Walk, Types, Stages, Returns, Parents
<1> QED BY <1>1, <1>2

(* Where a refresh goes.                                                   *)
LEMMA RefreshIs ==
  ASSUME Types, NEW a \in Actors, NEW then \in Returns, Refresh(a, then)
  PROVE  /\ pc' \in [Actors -> Stages] /\ cont' \in [Actors -> Returns]
         /\ target' = target /\ step' = step
         /\ pc'[a] = "read" /\ cont'[a] = then
         /\ \A b \in Actors \ {a} : pc'[b] = pc[b] /\ cont'[b] = cont[b]
  BY DEF Refresh, Types, Stages, Returns

(* Where a plain step goes.                                                *)
LEMMA GoIs ==
  ASSUME Types, NEW a \in Actors, NEW where \in Stages, Go(a, where)
  PROVE  /\ pc' \in [Actors -> Stages] /\ cont' = cont /\ target' = target /\ step' = step
         /\ pc'[a] = where
         /\ \A b \in Actors \ {a} : pc'[b] = pc[b]
  BY DEF Go, Types

(* Where an actor goes that is done with a channel.                        *)
LEMMA RestIs ==
  ASSUME Types, NEW a \in Actors, Rest(a)
  PROVE  /\ pc' \in [Actors -> Stages] /\ cont' = cont
         /\ target' \in [Actors -> Parents] /\ step' \in [Actors -> Parents]
         /\ pc'[a] \in {"idle", "crawl"}
         /\ \A b \in Actors \ {a} : pc'[b] = pc[b] /\ target'[b] = target[b] /\ step'[b] = step[b]
<1>1. Resting(a) \in {"idle", "crawl"}
  BY DEF Resting
<1>2. pc' \in [Actors -> Stages] /\ pc'[a] \in {"idle", "crawl"} /\ \A b \in Actors \ {a} : pc'[b] = pc[b]
  BY <1>1 DEF Rest, Types, Stages
<1> QED BY <1>2 DEF Rest, Types, Parents

(* The places of the actors, with their types.                             *)
Placed ==
  /\ pc' \in [Actors -> Stages] /\ cont' \in [Actors -> Returns]
  /\ target' \in [Actors -> Parents] /\ step' \in [Actors -> Parents]
  /\ PlaceInv'

(* A step of one actor leaves the other where it is.                       *)
LEMMA PlacedBy ==
  ASSUME IInv, NEW a \in Actors,
         pc' \in [Actors -> Stages], cont' \in [Actors -> Returns],
         target' \in [Actors -> Parents], step' \in [Actors -> Parents],
         \A b \in Actors \ {a} : /\ pc'[b] = pc[b] /\ cont'[b] = cont[b]
                                 /\ target'[b] = target[b] /\ step'[b] = step[b],
         pc'[a] \in {"open", "check", "ask", "keep", "granted", "fetched"} => target'[a] \in Channels,
         pc'[a] \in {"read", "set"} /\ cont'[a] \in {"check", "settle", "final"} => target'[a] \in Channels,
         pc'[a] \in {"ask", "keep"} => step'[a] \in Channels
  PROVE  Placed
  BY DEF IInv, PlaceInv, Placed

(* An actor at rest needs no channel.                                      *)
LEMMA RestPlaced ==
  ASSUME IInv, NEW a \in Actors, Rest(a)
  PROVE  Placed
<1>1. Types
  BY DEF IInv
<1>2. cont' \in [Actors -> Returns]
  BY <1>1, RestIs DEF Types
<1> QED BY <1>1, <1>2, RestIs, PlacedBy

(* A refresh within an admission keeps its channel.                        *)
LEMMA RefreshPlaced ==
  ASSUME IInv, NEW a \in Actors, NEW then \in Returns, Refresh(a, then),
         then \in {"check", "settle", "final"} => target[a] \in Channels
  PROVE  Placed
<1>1. Types
  BY DEF IInv
<1>2. target' \in [Actors -> Parents] /\ step' \in [Actors -> Parents]
  BY <1>1, RefreshIs DEF Types
<1> QED BY <1>1, <1>2, RefreshIs, PlacedBy

(* A plain step has the channel its stage needs.                           *)
LEMMA GoPlaced ==
  ASSUME IInv, NEW a \in Actors, NEW where \in Stages, Go(a, where),
         where \in {"open", "check", "ask", "keep", "granted", "fetched"} => target[a] \in Channels,
         where \in {"read", "set"} /\ cont[a] \in {"check", "settle", "final"} => target[a] \in Channels,
         where \in {"ask", "keep"} => step[a] \in Channels
  PROVE  Placed
<1>1. Types
  BY DEF IInv
<1>2. target' \in [Actors -> Parents] /\ step' \in [Actors -> Parents] /\ cont' \in [Actors -> Returns]
  BY <1>1, GoIs DEF Types
<1> QED BY <1>1, <1>2, GoIs, PlacedBy

(* A walk has a channel to ask for.                                        *)
LEMMA WalkPlaced ==
  ASSUME IInv, NEW a \in Actors, NEW c \in Parents, Walk(a, c), target[a] \in Channels
  PROVE  Placed
<1>1. Types
  BY DEF IInv
<1>2. target' \in [Actors -> Parents]
  BY <1>1, WalkIs DEF Types
<1> QED BY <1>1, <1>2, WalkIs, PlacedBy

(* A decision keeps the channel it grants.                                 *)
LEMMA ReturnPlaced ==
  ASSUME IInv, NEW a \in Actors, NEW ok, Return(a, ok), target[a] \in Channels
  PROVE  Placed
<1>1. CASE ok
  <2>1. Go(a, "granted") /\ "granted" \in Stages
    BY <1>1 DEF Return, Stages
  <2> QED BY <2>1, GoPlaced
<1>2. CASE ~ok
  <2>1. Rest(a)
    BY <1>2 DEF Return
  <2> QED BY <2>1, RestPlaced
<1> QED BY <1>1, <1>2

(* Where SetChannelScopes goes on.                                         *)
LEMMA ContinuePlaced ==
  ASSUME IInv, NEW a \in Actors, pc[a] = "set", Continue(a)
  PROVE  Placed
<1>0. Types /\ cont[a] \in Returns
  BY DEF IInv, Types
<1>1. CASE cont[a] \in {"idle", "select"}
  <2>1. Go(a, cont[a]) /\ cont[a] \in Stages
    BY <1>1 DEF Continue, Stages
  <2> QED BY <1>1, <2>1, GoPlaced
<1>2. CASE cont[a] \in {"check", "settle", "final"}
  <2>0. target[a] \in Channels /\ target[a] \in Parents
    BY <1>2 DEF IInv, PlaceInv, Parents
  <2>1. \/ Go(a, "check")
        \/ Walk(a, target[a])
        \/ Return(a, catalog[a][target[a]] = "allowed")
    BY <1>2 DEF Continue
  <2>2. "check" \in Stages
    BY DEF Stages
  <2>3. CASE Go(a, "check")
    BY <2>0, <2>2, <2>3, GoPlaced
  <2>4. CASE Walk(a, target[a])
    BY <2>0, <2>4, WalkPlaced
  <2>5. CASE Return(a, catalog[a][target[a]] = "allowed")
    BY <2>0, <2>5, ReturnPlaced
  <2> QED BY <2>1, <2>3, <2>4, <2>5
<1> QED BY <1>0, <1>1, <1>2 DEF Returns

(* Nobody moves.                                                           *)
LEMMA SamePlace ==
  ASSUME IInv, UNCHANGED place
  PROVE  Placed
  BY DEF IInv, Types, PlaceInv, Placed, place

(* Every step leaves the actors in their places.                           *)
LEMMA StepPlaced ==
  ASSUME IInv, Next PROVE Placed
<1>0. Types /\ PlaceInv
  BY DEF IInv
<1>14. /\ {"set", "check", "keep", "fetched", "list", "store", "idle", "crawl"} \subseteq Stages
      /\ {"idle", "select", "settle"} \subseteq Returns
      /\ "live" \in Actors /\ "repair" \in Actors
  BY DEF Stages, Returns, Actors
<1>1. ASSUME NEW a \in Actors, ReadScopes(a) PROVE Placed
  <2>1. Go(a, "set") /\ pc[a] = "read"
    BY <1>1 DEF ReadScopes
  <2> QED BY <1>0, <1>14, <2>1, GoPlaced DEF PlaceInv
<1>2. ASSUME NEW a \in Actors, SetChannelScopes(a) PROVE Placed
  BY <1>2, ContinuePlaced DEF SetChannelScopes, SetChannelScopesIn
<1>3. ASSUME NEW a \in Actors, CheckTombstone(a) \/ Check(a) PROVE Placed
  <2>1. target[a] \in Channels
    BY <1>0, <1>3 DEF PlaceInv, CheckTombstone, Check, CheckWith
  <2>2. CASE Refresh(a, "settle")
    BY <1>14, <2>1, <2>2, RefreshPlaced
  <2>3. CASE \E ok : Return(a, ok)
    BY <2>1, <2>3, ReturnPlaced
  <2> QED BY <1>3, <2>2, <2>3 DEF CheckTombstone, Check, CheckWith
<1>4. ASSUME NEW a \in Actors, Ask(a) PROVE Placed
  <2>1. target[a] \in Channels /\ step[a] \in Channels /\ (Go(a, "keep") \/ Rest(a))
    BY <1>0, <1>4 DEF PlaceInv, Ask
  <2> QED BY <1>14, <2>1, GoPlaced, RestPlaced
<1>5. ASSUME NEW a \in Actors, KeepAncestor(a) PROVE Placed
  <2>1. target[a] \in Channels /\ step[a] \in Channels /\ Walk(a, obs[a][step[a]].parent)
    BY <1>0, <1>5 DEF PlaceInv, KeepAncestor
  <2>2. obs[a][step[a]].parent \in Parents
    BY <1>0, <2>1 DEF Types, Places
  <2> QED BY <2>1, <2>2, WalkPlaced
<1>6. ASSUME NEW a \in Actors, Fetch(a) \/ Reject(a) \/ UpsertMessages(a) PROVE Placed
  <2>1. target[a] \in Channels /\ (Go(a, "fetched") \/ Rest(a))
    BY <1>0, <1>6 DEF PlaceInv, Fetch, Reject, UpsertMessages, CommitIf
  <2> QED BY <1>14, <2>1, GoPlaced, RestPlaced
<1>7. ASSUME NEW a \in Actors, NEW c \in Channels, Message(a, c) PROVE Placed
  <2>1. PICK next \in {"open", "read", "check"} : pc' = [pc EXCEPT ![a] = next]
    BY <1>7 DEF Message
  <2>2. /\ target' = [target EXCEPT ![a] = c] /\ cont' = [cont EXCEPT ![a] = "check"] /\ step' = step
    BY <1>7 DEF Message
  <2>3. next \in Stages /\ "check" \in Returns /\ c \in Parents
    BY DEF Stages, Returns, Parents
  <2>4. /\ pc' \in [Actors -> Stages] /\ cont' \in [Actors -> Returns]
        /\ target' \in [Actors -> Parents] /\ step' \in [Actors -> Parents]
        /\ pc'[a] = next /\ target'[a] = c
        /\ \A b \in Actors \ {a} : /\ pc'[b] = pc[b] /\ cont'[b] = cont[b]
                                   /\ target'[b] = target[b] /\ step'[b] = step[b]
    BY <1>0, <2>1, <2>2, <2>3 DEF Types
  <2> QED BY <2>4, PlacedBy
<1>8. CASE SeedScopeMetadata \/ OnChannelUpsert \/ OnChannelDelete \/ OnGuildUpsert
  <2>1. Refresh("live", "idle")
    BY <1>8 DEF SeedScopeMetadata, OnChannelUpsert, OnChannelDelete, OnGuildUpsert
  <2> QED BY <1>14, <2>1, RefreshPlaced
<1>9. CASE StartSync \/ ListChannels \/ SelectChannels
  <2>1. \E where \in {"list", "store", "idle", "crawl"} : Go("repair", where)
    BY <1>9 DEF StartSync, ListChannels, SelectChannels
  <2> QED BY <1>14, <2>1, GoPlaced
<1>10. CASE StoreScopeMetadata
  <2>1. UNCHANGED place \/ Refresh("repair", "select")
    BY <1>10 DEF StoreScopeMetadata
  <2> QED BY <1>14, <2>1, SamePlace, RefreshPlaced
<1>11. ASSUME NEW c \in Channels, CrawlPage(c) PROVE Placed
  <2>1. cont' = cont /\ step' = step
    BY <1>11 DEF CrawlPage
  <2>2. /\ pc' \in [Actors -> Stages] /\ target' \in [Actors -> Parents]
        /\ \A b \in Actors \ {"repair"} : pc'[b] = pc[b] /\ target'[b] = target[b]
        /\ pc'["repair"] \in {"idle", "crawl"} \/ (pc'["repair"] = "granted" /\ target'["repair"] \in Channels)
    <3>1. CASE Admitted(c)
      <4>1. target' = [target EXCEPT !["repair"] = c] /\ pc' = [pc EXCEPT !["repair"] = "granted"]
        BY <1>11, <3>1 DEF CrawlPage
      <4>2. "granted" \in Stages /\ c \in Parents
        BY DEF Stages, Parents
      <4> QED BY <1>0, <1>14, <4>1, <4>2 DEF Types
    <3>2. CASE ~Admitted(c)
      <4>1. target' = target /\ \E where \in {"idle", "crawl"} : pc' = [pc EXCEPT !["repair"] = where]
        BY <1>11, <3>2 DEF CrawlPage
      <4> QED BY <1>0, <1>14, <4>1 DEF Types
    <3> QED BY <3>1, <3>2
  <2>3. cont' \in [Actors -> Returns] /\ step' \in [Actors -> Parents]
    BY <1>0, <2>1 DEF Types
  <2> QED BY <1>14, <2>1, <2>2, <2>3, PlacedBy
<1>12. CASE NewResolver \/ Discord
  <2>1. UNCHANGED place
    BY <1>12 DEF NewResolver, Discord, MoveAtDiscord, DeleteAtDiscord, ChangeAtDiscord
  <2> QED BY <2>1, SamePlace
<1>13. ASSUME NEW p \in Policies, Restart(p) PROVE Placed
  <2>1. /\ pc' = [a \in Actors |-> Idle(a)] /\ cont' = [a \in Actors |-> "idle"]
        /\ target' = [a \in Actors |-> None] /\ step' = [a \in Actors |-> None]
    BY <1>13 DEF Restart
  <2>2. \A a \in Actors : Idle(a) \in {"seed", "idle"}
    BY DEF Idle
  <2> QED BY <2>1, <2>2 DEF Placed, PlaceInv, Stages, Returns, Parents
<1> QED BY <1>1, <1>2, <1>3, <1>4, <1>5, <1>6, <1>7, <1>8, <1>9, <1>10, <1>11, <1>12, <1>13
        DEF Next, Step, Live, Repair, Act, Actors

(* Every step keeps the types.                                             *)
LEMMA StepTypes ==
  ASSUME IInv, Next PROVE Types'
<1>0. Types
  BY DEF IInv
<1>1. /\ pc' \in [Actors -> Stages] /\ cont' \in [Actors -> Returns]
      /\ target' \in [Actors -> Parents] /\ step' \in [Actors -> Parents]
      /\ rows' \in [Channels -> Rows]
      /\ dirty' \in [Actors -> SUBSET Channels] /\ newer' \in [Actors -> SUBSET Channels]
  BY StepPlaced, StepEffect DEF Placed, Effect
<1>2. Gone \in [live : BOOLEAN, parent : Parents] /\ Unasked \in Places /\ Unread \in [Channels -> Scopes]
  BY DEF Gone, Unasked, Places, Unread, Scopes, Parents
<1>3. CASE UNCHANGED <<disc, queue, payload, policy, todo, obs, catalog>>
  BY <1>0, <1>1, <1>3 DEF Types
<1>4. ASSUME NEW a \in Actors, ReadScopes(a) PROVE Types'
  <2>1. /\ UNCHANGED <<disc, queue, payload, policy, todo, obs>>
        /\ catalog' = [catalog EXCEPT ![a] = [c \in Channels |-> Scope(policy, c, rows)]]
    BY <1>4 DEF ReadScopes, provider, process
  <2>2. [c \in Channels |-> Scope(policy, c, rows)] \in [Channels -> Scopes]
    BY ScopeType
  <2>3. catalog' \in [Actors -> [Channels -> Scopes]]
    BY <1>0, <2>1, <2>2 DEF Types
  <2> QED BY <1>0, <1>1, <2>1, <2>3 DEF Types
<1>5. ASSUME NEW a \in Actors,
             SetChannelScopes(a) \/ CheckTombstone(a) \/ Check(a) \/ Fetch(a) \/ Reject(a) \/ UpsertMessages(a)
      PROVE  Types'
  BY <1>3, <1>5 DEF SetChannelScopes, SetChannelScopesIn, CheckTombstone, Check, CheckWith, Fetch, Reject,
                    UpsertMessages, CommitIf, provider, process
<1>6. ASSUME NEW a \in Actors, Ask(a) \/ KeepAncestor(a) PROVE Types'
  <2>1. UNCHANGED <<disc, queue, payload, policy, todo, catalog>>
    BY <1>6 DEF Ask, KeepAncestor, provider, process
  <2>2. obs' \in [Actors -> Places]
    <3>1. CASE KeepAncestor(a)
      BY <1>0, <1>2, <3>1 DEF KeepAncestor, Types
    <3>2. CASE Ask(a)
      <4>1. obs' = obs \/ obs' = [obs EXCEPT ![a][step[a]] = disc[step[a]]]
        BY <3>2 DEF Ask
      <4>2. step[a] \in Channels
        BY <3>2 DEF Ask, IInv, PlaceInv
      <4>3. disc[step[a]] \in [live : BOOLEAN, parent : Parents] /\ obs[a] \in Places
        BY <1>0, <4>2 DEF Types, Places
      <4>4. [obs[a] EXCEPT ![step[a]] = disc[step[a]]] \in Places
        BY <4>2, <4>3 DEF Places
      <4>5. obs' = obs \/ obs' = [obs EXCEPT ![a] = [obs[a] EXCEPT ![step[a]] = disc[step[a]]]]
        BY <1>0, <4>1 DEF Types
      <4> QED BY <1>0, <4>4, <4>5 DEF Types
    <3> QED BY <1>6, <3>1, <3>2
  <2> QED BY <1>0, <1>1, <2>1, <2>2 DEF Types
<1>7. CASE SeedScopeMetadata \/ StartSync \/ \E a \in Actors, c \in Channels : Message(a, c)
  BY <1>3, <1>7 DEF SeedScopeMetadata, StartSync, Message, provider, process
<1>8. CASE OnChannelUpsert \/ OnChannelDelete
  <2>1. UNCHANGED <<disc, payload, policy, todo, obs, catalog>> /\ queue' = Tail(queue) /\ queue # <<>>
    BY <1>8 DEF OnChannelUpsert, OnChannelDelete, process
  <2>2. queue' \in Seq(Events)
    BY <1>0, <2>1, NextEvent DEF Types
  <2> QED BY <1>0, <1>1, <2>1, <2>2 DEF Types
<1>9. CASE OnGuildUpsert
  <2>1. UNCHANGED <<disc, queue, policy, todo, obs, catalog>> /\ payload' = disc
    BY <1>9 DEF OnGuildUpsert, provider, process
  <2> QED BY <1>0, <1>1, <2>1 DEF Types
<1>10. CASE ListChannels \/ StoreScopeMetadata
  <2>1. UNCHANGED <<disc, queue, payload, policy, catalog>>
    BY <1>10 DEF ListChannels, StoreScopeMetadata, provider, process
  <2>2. todo' \subseteq Channels
    BY <1>0, <1>10 DEF ListChannels, StoreScopeMetadata, Types
  <2>3. obs' = obs \/ obs' = [obs EXCEPT !["repair"] = disc]
    BY <1>10 DEF ListChannels, StoreScopeMetadata
  <2>4. obs' \in [Actors -> Places]
    BY <1>0, <2>3 DEF Types
  <2> QED BY <1>0, <1>1, <2>1, <2>2, <2>4 DEF Types
<1>11. CASE SelectChannels
  <2>1. /\ UNCHANGED <<disc, queue, payload, policy>> /\ todo' \subseteq Channels
        /\ obs' = [obs EXCEPT !["repair"] = Unasked] /\ catalog' = [catalog EXCEPT !["repair"] = Unread]
    BY <1>11 DEF SelectChannels, provider, process
  <2>2. obs' \in [Actors -> Places] /\ catalog' \in [Actors -> [Channels -> Scopes]]
    BY <1>0, <1>2, <2>1 DEF Types
  <2> QED BY <1>0, <1>1, <2>1, <2>2 DEF Types
<1>12. CASE NewResolver \/ \E c \in Channels : CrawlPage(c)
  <2>1. /\ UNCHANGED <<disc, queue, payload, policy, obs>> /\ (todo' = todo \/ \E c \in Channels : todo' = todo \ {c})
        /\ (catalog' = catalog \/ catalog' = [catalog EXCEPT !["repair"] = Unread])
    BY <1>12 DEF NewResolver, CrawlPage, provider, process
  <2>2. todo' \subseteq Channels
    BY <1>0, <2>1 DEF Types
  <2>3. catalog' \in [Actors -> [Channels -> Scopes]]
    BY <1>0, <1>2, <2>1 DEF Types
  <2> QED BY <1>0, <1>1, <2>1, <2>2, <2>3 DEF Types
<1>13. CASE Discord
  <2>1. PICK c \in Channels, now \in [live : BOOLEAN, parent : Parents], event \in {"upsert", "delete"} :
          ChangeAtDiscord(c, now, event)
    <3>1. ASSUME NEW c \in Channels, NEW p \in Channels \cup {None}, MoveAtDiscord(c, p)
          PROVE  /\ [live |-> TRUE, parent |-> p] \in [live : BOOLEAN, parent : Parents]
                 /\ ChangeAtDiscord(c, [live |-> TRUE, parent |-> p], "upsert")
      BY <3>1 DEF MoveAtDiscord, Parents
    <3>2. ASSUME NEW c \in Channels, DeleteAtDiscord(c) PROVE ChangeAtDiscord(c, Gone, "delete")
      BY <3>2 DEF DeleteAtDiscord
    <3> QED BY <1>2, <1>13, <3>1, <3>2 DEF Discord
  <2>2. /\ UNCHANGED <<payload, policy, todo, obs, catalog>>
        /\ disc' = [disc EXCEPT ![c] = now]
        /\ queue' = Append(queue, [kind |-> event, channel |-> c, parent |-> now.parent])
    BY <2>1 DEF ChangeAtDiscord, process
  <2>3. [kind |-> event, channel |-> c, parent |-> now.parent] \in Events
    BY DEF Events
  <2>4. queue' \in Seq(Events) /\ disc' \in Places
    BY <1>0, <2>2, <2>3 DEF Types, Places
  <2> QED BY <1>0, <1>1, <2>2, <2>4 DEF Types
<1>14. ASSUME NEW p \in Policies, Restart(p) PROVE Types'
  <2>1. /\ UNCHANGED <<disc, payload>> /\ policy' = p /\ queue' = <<>> /\ todo' = {}
        /\ obs' = [a \in Actors |-> Unasked] /\ catalog' = [a \in Actors |-> Unread]
    BY <1>14 DEF Restart
  <2>2. queue' \in Seq(Events) /\ obs' \in [Actors -> Places] /\ catalog' \in [Actors -> [Channels -> Scopes]]
    BY <1>2, <2>1
  <2> QED BY <1>0, <1>1, <2>1, <2>2 DEF Types
<1> QED BY <1>4, <1>5, <1>6, <1>7, <1>8, <1>9, <1>10, <1>11, <1>12, <1>13, <1>14
        DEF Next, Step, Live, Repair, Act, Actors

-----------------------------------------------------------------------------
(* Admissions.                                                             *)

(* What the store admits is in scope.                                      *)
LEMMA AdmittedInScope ==
  ASSUME IInv, NEW c \in Channels, Admitted(c)
  PROVE  InScope(policy, c, rows)
<1>1. policy \in Policies
  BY DEF IInv, Types
<1> QED BY <1>1 DEF IInv, AllowedIsCurrent, Admitted, InScope

(* What the catalogue allows is in scope, with a policy and without.       *)
LEMMA AllowedInScope ==
  ASSUME NEW c \in Channels, NEW p, NEW cat, Scope(p, c, cat) = "allowed"
  PROVE  InScope(p, c, cat)
  BY AllowedHas DEF InScope

(* An admission that goes on keeps what it knows.                          *)
LEMMA SinceGoesOn ==
  ASSUME Next, NEW a \in Actors, pc'[a] \in Admitting, target'[a] \in Channels, policy' = policy,
         since[a] \/ InScope(policy', target'[a], rows')
  PROVE  since'[a]
<1>1. target'[a] # None
  BY ScopeAssumption
<1> QED BY <1>1 DEF Next, Watch

(* An actor that did not move.                                             *)
LEMMA SinceStays ==
  ASSUME IInv, Next, NEW a \in Actors, pc'[a] = pc[a], target'[a] = target[a], policy' = policy,
         pc[a] = "set" => catalog'[a] = catalog[a]
  PROVE  /\ pc'[a] = "granted" => since'[a]
         /\ pc'[a] = "set" /\ target'[a] \in Channels /\ catalog'[a][target'[a]] = "allowed" => since'[a]
<1>1. ASSUME pc[a] = "granted" PROVE target[a] \in Channels
  BY <1>1 DEF IInv, PlaceInv
<1>2. "set" \in Admitting /\ "granted" \in Admitting
  BY DEF Admitting
<1> QED BY <1>1, <1>2, SinceGoesOn DEF IInv, SinceInv

(* Every step keeps SinceInv.                                              *)
LEMMA StepSince ==
  ASSUME IInv, Next PROVE SinceInv'
<1>0. Types /\ PlaceInv /\ CatalogInv /\ SinceInv /\ policy \in Policies
  BY DEF IInv, Types
<1>1. "set" \in Admitting /\ "granted" \in Admitting
  BY DEF Admitting
<1>19. ASSUME NEW a \in Actors, policy' = policy,
             \A b \in Actors \ {a} : pc'[b] = pc[b] /\ target'[b] = target[b] /\ catalog'[b] = catalog[b],
             pc'[a] = "granted" => since'[a],
             pc'[a] = "set" /\ target'[a] \in Channels /\ catalog'[a][target'[a]] = "allowed" => since'[a]
      PROVE  SinceInv'
  <2> SUFFICES ASSUME NEW b \in Actors
               PROVE  /\ pc'[b] = "granted" => since'[b]
                      /\ pc'[b] = "set" /\ target'[b] \in Channels /\ catalog'[b][target'[b]] = "allowed" => since'[b]
    BY DEF SinceInv
  <2>1. CASE b = a
    BY <1>19, <2>1
  <2>2. CASE b # a
    BY <1>19, <2>2, SinceStays
  <2> QED BY <2>1, <2>2
<1>2. ASSUME NEW a \in Actors, ReadScopes(a) PROVE SinceInv'
  <2>1. /\ Go(a, "set") /\ UNCHANGED <<policy, rows>>
        /\ catalog' = [catalog EXCEPT ![a] = [c \in Channels |-> Scope(policy, c, rows)]]
    BY <1>2 DEF ReadScopes, process
  <2>2. /\ pc'[a] = "set" /\ target' = target
        /\ \A b \in Actors \ {a} : pc'[b] = pc[b] /\ catalog'[b] = catalog[b]
        /\ \A c \in Channels : catalog'[a][c] = Scope(policy, c, rows)
    BY <1>0, <2>1 DEF Go, Types
  <2>3. ASSUME target'[a] \in Channels, catalog'[a][target'[a]] = "allowed" PROVE since'[a]
    <3>1. InScope(policy, target'[a], rows)
      BY <2>2, <2>3, AllowedInScope
    <3> QED BY <1>1, <2>1, <2>2, <2>3, <3>1, SinceGoesOn
  <2> QED BY <1>19, <2>1, <2>2, <2>3
<1>3. ASSUME NEW a \in Actors, UNCHANGED <<policy, catalog>>,
             \A b \in Actors \ {a} : pc'[b] = pc[b] /\ target'[b] = target[b],
             pc'[a] # "set", pc'[a] # "granted"
      PROVE  SinceInv'
  BY <1>19, <1>3
<1>4. ASSUME NEW a \in Actors, NEW ok, Return(a, ok), UNCHANGED <<policy, catalog>>, target[a] \in Channels,
             ok => since[a] \/ InScope(policy, target[a], rows')
      PROVE  SinceInv'
  <2>1. CASE ok
    <3>1. /\ pc'[a] = "granted" /\ target' = target
          /\ \A b \in Actors \ {a} : pc'[b] = pc[b]
      BY <1>0, <1>4, <2>1 DEF Return, Go, Types
    <3>2. since'[a]
      BY <1>1, <1>4, <2>1, <3>1, SinceGoesOn
    <3> QED BY <1>19, <1>4, <3>1, <3>2
  <2>2. CASE ~ok
    <3>1. Rest(a)
      BY <1>4, <2>2 DEF Return
    <3>2. /\ pc'[a] # "set" /\ pc'[a] # "granted"
          /\ \A b \in Actors \ {a} : pc'[b] = pc[b] /\ target'[b] = target[b]
      BY <1>0, <3>1, RestIs
    <3> QED BY <1>3, <1>4, <3>2
  <2> QED BY <2>1, <2>2
<1>5. ASSUME NEW a \in Actors, SetChannelScopes(a) PROVE SinceInv'
  <2>1. pc[a] = "set" /\ Continue(a) /\ UNCHANGED <<policy, catalog>> /\ cont[a] \in Returns
    BY <1>0, <1>5 DEF SetChannelScopes, SetChannelScopesIn, process, Types
  <2>2. CASE cont[a] \in {"idle", "select"}
    <3>1. Go(a, cont[a])
      BY <2>1, <2>2 DEF Continue
    <3>2. /\ pc'[a] = cont[a] /\ target' = target /\ \A b \in Actors \ {a} : pc'[b] = pc[b]
      BY <1>0, <3>1 DEF Go, Types
    <3> QED BY <1>3, <2>1, <2>2, <3>2
  <2>3. CASE cont[a] \in {"check", "settle", "final"}
    <3>0. target[a] \in Channels /\ target[a] \in Parents
      BY <1>0, <2>1, <2>3 DEF PlaceInv, Parents
    <3>1. \/ Go(a, "check")
          \/ Walk(a, target[a])
          \/ Return(a, catalog[a][target[a]] = "allowed")
      BY <2>1, <2>3 DEF Continue
    <3>2. CASE Go(a, "check")
      <4>1. /\ pc'[a] = "check" /\ target' = target /\ \A b \in Actors \ {a} : pc'[b] = pc[b]
        BY <1>0, <3>2 DEF Go, Types
      <4> QED BY <1>3, <2>1, <4>1
    <3>3. CASE Walk(a, target[a])
      <4>1. /\ pc'[a] \in {"read", "ask"} /\ target' = target /\ \A b \in Actors \ {a} : pc'[b] = pc[b]
        BY <1>0, <3>0, <3>3, WalkIs
      <4> QED BY <1>3, <2>1, <4>1
    <3>4. CASE Return(a, catalog[a][target[a]] = "allowed")
      <4>1. catalog[a][target[a]] = "allowed" => since[a]
        BY <1>0, <2>1, <3>0 DEF SinceInv
      <4> QED BY <1>4, <2>1, <3>0, <3>4, <4>1
    <3> QED BY <3>1, <3>2, <3>3, <3>4
  <2> QED BY <2>1, <2>2, <2>3 DEF Returns
<1>6. ASSUME NEW a \in Actors, CheckTombstone(a) PROVE SinceInv'
  <2>1. Return(a, Admitted(target[a])) /\ UNCHANGED <<policy, catalog, rows>> /\ target[a] \in Channels
    BY <1>0, <1>6 DEF CheckTombstone, Quiet, process, PlaceInv
  <2> QED BY <1>4, <2>1, AdmittedInScope
<1>7. ASSUME NEW a \in Actors, Check(a) PROVE SinceInv'
  <2>1. UNCHANGED <<policy, catalog, rows>> /\ target[a] \in Channels
    BY <1>0, <1>7 DEF Check, CheckWith, Quiet, process, PlaceInv
  <2>2. CASE target[a] \in dirty[a]
    <3>1. Refresh(a, "settle")
      BY <1>7, <2>2 DEF Check, CheckWith
    <3>2. /\ pc'[a] = "read" /\ target' = target /\ \A b \in Actors \ {a} : pc'[b] = pc[b]
      BY <1>0, <3>1 DEF Refresh, Types
    <3> QED BY <1>3, <2>1, <3>2
  <2>3. CASE target[a] \notin dirty[a]
    <3>1. Return(a, catalog[a][target[a]] = "allowed")
      BY <1>7, <2>3 DEF Check, CheckWith
    <3>2. catalog[a][target[a]] = "allowed" => InScope(policy, target[a], rows)
      BY <1>0, <2>1, <2>3, AllowedInScope DEF CatalogInv
    <3> QED BY <1>4, <2>1, <3>1, <3>2
  <2> QED BY <2>2, <2>3
<1>8. ASSUME NEW a \in Actors, Ask(a) \/ Fetch(a) \/ Reject(a) \/ UpsertMessages(a) PROVE SinceInv'
  <2>1. UNCHANGED <<policy, catalog>> /\ (Go(a, "keep") \/ Go(a, "fetched") \/ Rest(a))
    BY <1>8 DEF Ask, Fetch, Reject, UpsertMessages, CommitIf, process
  <2>2. /\ pc'[a] # "set" /\ pc'[a] # "granted"
        /\ \A b \in Actors \ {a} : pc'[b] = pc[b] /\ target'[b] = target[b]
    <3>1. CASE Rest(a)
      BY <1>0, <3>1, RestIs
    <3>2. CASE Go(a, "keep") \/ Go(a, "fetched")
      BY <1>0, <3>2 DEF Go, Types
    <3> QED BY <2>1, <3>1, <3>2
  <2> QED BY <1>3, <2>1, <2>2
<1>9. ASSUME NEW a \in Actors, KeepAncestor(a) PROVE SinceInv'
  <2>1. /\ UNCHANGED <<policy, catalog>> /\ target[a] \in Channels /\ step[a] \in Channels
        /\ Walk(a, obs[a][step[a]].parent)
    BY <1>0, <1>9 DEF KeepAncestor, process, PlaceInv
  <2>2. obs[a][step[a]].parent \in Parents
    BY <1>0, <2>1 DEF Types, Places
  <2>3. /\ pc'[a] \in {"read", "ask"} /\ target' = target /\ \A b \in Actors \ {a} : pc'[b] = pc[b]
    BY <1>0, <2>1, <2>2, WalkIs
  <2> QED BY <1>3, <2>1, <2>3
<1>10. ASSUME NEW a \in Actors, NEW c \in Channels, Message(a, c) PROVE SinceInv'
  <2>1. PICK next \in {"open", "read", "check"} : pc' = [pc EXCEPT ![a] = next]
    BY <1>10 DEF Message
  <2>2. target' = [target EXCEPT ![a] = c] /\ UNCHANGED <<policy, catalog>>
    BY <1>10 DEF Message, process
  <2>3. /\ pc'[a] # "set" /\ pc'[a] # "granted"
        /\ \A b \in Actors \ {a} : pc'[b] = pc[b] /\ target'[b] = target[b]
    BY <1>0, <2>1, <2>2 DEF Types
  <2> QED BY <1>3, <2>2, <2>3
<1>11. CASE SeedScopeMetadata \/ OnChannelUpsert \/ OnChannelDelete \/ OnGuildUpsert
  <2>1. Refresh("live", "idle") /\ UNCHANGED <<policy, catalog>> /\ "live" \in Actors
    BY <1>11 DEF SeedScopeMetadata, OnChannelUpsert, OnChannelDelete, OnGuildUpsert, process, Actors
  <2>2. /\ pc'["live"] = "read" /\ target' = target /\ \A b \in Actors \ {"live"} : pc'[b] = pc[b]
    BY <1>0, <2>1 DEF Refresh, Types
  <2> QED BY <1>3, <2>1, <2>2
<1>12. CASE StartSync \/ ListChannels
  <2>1. /\ UNCHANGED <<policy, catalog>> /\ (Go("repair", "list") \/ Go("repair", "store"))
        /\ "repair" \in Actors
    BY <1>12 DEF StartSync, ListChannels, process, Actors
  <2>2. /\ pc'["repair"] \in {"list", "store"} /\ target' = target
        /\ \A b \in Actors \ {"repair"} : pc'[b] = pc[b]
    BY <1>0, <2>1 DEF Go, Types
  <2> QED BY <1>3, <2>1, <2>2
<1>13. CASE StoreScopeMetadata
  <2>1. /\ UNCHANGED <<policy, catalog>> /\ (UNCHANGED place \/ Refresh("repair", "select"))
        /\ "repair" \in Actors /\ pc["repair"] = "store"
    BY <1>13 DEF StoreScopeMetadata, process, Actors
  <2>2. /\ pc'["repair"] \in {"store", "read"} /\ target' = target
        /\ \A b \in Actors \ {"repair"} : pc'[b] = pc[b]
    BY <1>0, <2>1 DEF Refresh, Types, place
  <2> QED BY <1>3, <2>1, <2>2
<1>14. CASE SelectChannels
  <2>1. /\ policy' = policy /\ (Go("repair", "idle") \/ Go("repair", "crawl")) /\ "repair" \in Actors
        /\ catalog' = [catalog EXCEPT !["repair"] = Unread]
    BY <1>14 DEF SelectChannels, process, Actors
  <2>2. /\ pc'["repair"] \in {"idle", "crawl"} /\ target' = target
        /\ \A b \in Actors \ {"repair"} : pc'[b] = pc[b] /\ catalog'[b] = catalog[b]
    BY <1>0, <2>1 DEF Go, Types
  <2> QED BY <1>19, <2>1, <2>2
<1>15. ASSUME NEW c \in Channels, CrawlPage(c) PROVE SinceInv'
  <2>1. UNCHANGED <<policy, catalog, rows>> /\ "repair" \in Actors
    BY <1>15 DEF CrawlPage, Quiet, process, Actors
  <2>2. CASE Admitted(c)
    <3>1. target' = [target EXCEPT !["repair"] = c] /\ pc' = [pc EXCEPT !["repair"] = "granted"]
      BY <1>15, <2>2 DEF CrawlPage
    <3>2. /\ pc'["repair"] = "granted" /\ target'["repair"] = c
          /\ \A b \in Actors \ {"repair"} : pc'[b] = pc[b] /\ target'[b] = target[b]
      BY <1>0, <2>1, <3>1 DEF Types
    <3>3. InScope(policy, c, rows)
      BY <2>2, AdmittedInScope
    <3>4. since'["repair"]
      BY <1>1, <2>1, <3>2, <3>3, SinceGoesOn
    <3> QED BY <1>19, <2>1, <3>2, <3>4
  <2>3. CASE ~Admitted(c)
    <3>1. target' = target /\ \E where \in {"idle", "crawl"} : pc' = [pc EXCEPT !["repair"] = where]
      BY <1>15, <2>3 DEF CrawlPage
    <3>2. /\ pc'["repair"] \in {"idle", "crawl"} /\ \A b \in Actors \ {"repair"} : pc'[b] = pc[b]
      BY <1>0, <2>1, <3>1 DEF Types
    <3> QED BY <1>3, <2>1, <3>1, <3>2
  <2> QED BY <2>2, <2>3
<1>16. CASE NewResolver
  <2>1. /\ pc["repair"] = "idle" /\ UNCHANGED <<policy, place>> /\ "repair" \in Actors
        /\ catalog' = [catalog EXCEPT !["repair"] = Unread]
    BY <1>16 DEF NewResolver, process, Actors
  <2>2. /\ pc'["repair"] = "idle"
        /\ \A b \in Actors \ {"repair"} : pc'[b] = pc[b] /\ target'[b] = target[b] /\ catalog'[b] = catalog[b]
    BY <1>0, <2>1 DEF Types, place
  <2> QED BY <1>19, <2>1, <2>2
<1>17. CASE Discord
  <2>1. UNCHANGED <<policy, place, catalog>>
    BY <1>17 DEF Discord, MoveAtDiscord, DeleteAtDiscord, ChangeAtDiscord, process
  <2>2. \A a \in Actors : pc'[a] = pc[a] /\ target'[a] = target[a] /\ catalog'[a] = catalog[a] /\ policy' = policy
    BY <2>1 DEF place
  <2> QED BY <2>2, SinceStays DEF SinceInv
<1>18. ASSUME NEW p \in Policies, Restart(p) PROVE SinceInv'
  <2>1. pc' = [a \in Actors |-> Idle(a)]
    BY <1>18 DEF Restart
  <2>2. \A a \in Actors : pc'[a] \in {"seed", "idle"}
    BY <2>1 DEF Idle
  <2> QED BY <2>2 DEF SinceInv
<1> QED BY <1>2, <1>5, <1>6, <1>7, <1>8, <1>9, <1>10, <1>11, <1>12, <1>13, <1>14, <1>15, <1>16, <1>17, <1>18
        DEF Next, Step, Live, Repair, Act, Actors

-----------------------------------------------------------------------------
(* Deletions.                                                              *)

(* A channel that is there changed at Discord, with the event it sends.    *)
Changed(c, now, event) ==
  /\ disc[c].live /\ (event = "delete" => ~now.live)
  /\ disc' = [disc EXCEPT ![c] = now]
  /\ queue' = Append(queue, [kind |-> event, channel |-> c, parent |-> now.parent])

(* What a step does to Discord and to the events on their way.             *)
LEMMA StepEvents ==
  ASSUME IInv, Next
  PROVE  \/ disc' = disc /\ (queue' = queue \/ queue' = <<>> \/ (queue # <<>> /\ queue' = Tail(queue)))
         \/ \E c \in Channels, now \in [live : BOOLEAN, parent : Parents], event \in {"upsert", "delete"} :
              Changed(c, now, event)
<1>1. ASSUME NEW a \in Actors, Act(a) PROVE disc' = disc /\ queue' = queue
  BY <1>1 DEF Act, ReadScopes, SetChannelScopes, SetChannelScopesIn, CheckTombstone, Check, CheckWith, Ask,
              KeepAncestor, Fetch, Reject, UpsertMessages, CommitIf, provider
<1>2. CASE OnChannelUpsert \/ OnChannelDelete
  BY <1>2 DEF OnChannelUpsert, OnChannelDelete
<1>3. CASE SeedScopeMetadata \/ OnGuildUpsert \/ StartSync \/ ListChannels \/ StoreScopeMetadata \/ SelectChannels
           \/ NewResolver \/ (\E c \in Channels : CrawlPage(c)) \/ \E a \in Actors, c \in Channels : Message(a, c)
  BY <1>3 DEF SeedScopeMetadata, OnGuildUpsert, StartSync, ListChannels, StoreScopeMetadata, SelectChannels,
              NewResolver, CrawlPage, Message, provider
<1>4. CASE Discord
  <2>1. ASSUME NEW c \in Channels, NEW p \in Channels \cup {None}, MoveAtDiscord(c, p)
        PROVE  /\ [live |-> TRUE, parent |-> p] \in [live : BOOLEAN, parent : Parents]
               /\ Changed(c, [live |-> TRUE, parent |-> p], "upsert")
    BY <2>1 DEF MoveAtDiscord, ChangeAtDiscord, Changed, Parents
  <2>2. ASSUME NEW c \in Channels, DeleteAtDiscord(c)
        PROVE  Gone \in [live : BOOLEAN, parent : Parents] /\ Changed(c, Gone, "delete")
    BY <2>2 DEF DeleteAtDiscord, ChangeAtDiscord, Changed, Gone, Parents
  <2> QED BY <1>4, <2>1, <2>2 DEF Discord
<1>5. ASSUME NEW p \in Policies, Restart(p) PROVE disc' = disc /\ queue' = <<>>
  BY <1>5 DEF Restart
<1> QED BY <1>1, <1>2, <1>3, <1>4, <1>5 DEF Next, Step, Live, Repair, Actors

(* A deleted channel does not come back at Discord, and an event on its    *)
(* way was on its way before or is of a channel that was there.            *)
LEMMA EventsCome ==
  ASSUME IInv, Next
  PROVE  /\ \A c \in Channels : disc'[c].live => disc[c].live
         /\ \A i \in 1 .. Len(queue') :
              \/ disc[queue'[i].channel].live
              \/ \E j \in 1 .. Len(queue) : queue[j] = queue'[i]
<1>0. disc \in Places /\ queue \in Seq(Events)
  BY DEF IInv, Types
<1>1. CASE disc' = disc /\ queue' = queue
  BY <1>1
<1>2. CASE disc' = disc /\ queue' = <<>>
  <2>1. 1 .. Len(queue') = {}
    BY <1>2
  <2> QED BY <1>2, <2>1
<1>3. CASE disc' = disc /\ queue # <<>> /\ queue' = Tail(queue)
  <2>1. \A i \in 1 .. Len(queue') : i + 1 \in 1 .. Len(queue) /\ queue'[i] = queue[i + 1]
    BY <1>0, <1>3, NextEvent
  <2> QED BY <1>3, <2>1
<1>4. ASSUME NEW c \in Channels, NEW now \in [live : BOOLEAN, parent : Parents],
             NEW event \in {"upsert", "delete"}, Changed(c, now, event)
      PROVE  /\ \A d \in Channels : disc'[d].live => disc[d].live
             /\ \A i \in 1 .. Len(queue') :
                  \/ disc[queue'[i].channel].live
                  \/ \E j \in 1 .. Len(queue) : queue[j] = queue'[i]
  <2> DEFINE e == [kind |-> event, channel |-> c, parent |-> now.parent]
  <2>1. e \in Events /\ e.channel = c
    BY DEF Events
  <2>2. queue' = Append(queue, e) /\ disc' = [disc EXCEPT ![c] = now] /\ disc[c].live
    BY <1>4 DEF Changed
  <2> HIDE DEF e
  <2>3. \A i \in 1 .. Len(queue') : queue'[i] = e \/ (i \in 1 .. Len(queue) /\ queue'[i] = queue[i])
    BY <1>0, <2>1, <2>2
  <2>4. \A d \in Channels : disc'[d].live => disc[d].live
    BY <1>0, <2>2 DEF Places
  <2> QED BY <2>1, <2>2, <2>3, <2>4
<1> QED BY <1>1, <1>2, <1>3, <1>4, StepEvents

(* Every step keeps QueueInv.                                              *)
LEMMA StepQueue ==
  ASSUME IInv, Next PROVE QueueInv'
<1>0. disc \in Places /\ queue \in Seq(Events) /\ QueueInv
  BY DEF IInv, Types
<1>1. CASE disc' = disc /\ queue' = queue
  BY <1>0, <1>1 DEF QueueInv
<1>2. CASE disc' = disc /\ queue' = <<>>
  <2>1. 1 .. Len(queue') = {}
    BY <1>2
  <2> QED BY <2>1 DEF QueueInv
<1>3. CASE disc' = disc /\ queue # <<>> /\ queue' = Tail(queue)
  <2>1. \A i \in 1 .. Len(queue') : i + 1 \in 1 .. Len(queue) /\ queue'[i] = queue[i + 1]
    BY <1>0, <1>3, NextEvent
  <2> SUFFICES ASSUME NEW i \in 1 .. Len(queue'), queue'[i].kind = "delete"
               PROVE  /\ ~disc[queue'[i].channel].live
                      /\ \A j \in 1 .. Len(queue') : queue'[j].channel = queue'[i].channel => j <= i
    BY <1>3 DEF QueueInv
  <2>2. /\ i + 1 \in 1 .. Len(queue) /\ queue'[i] = queue[i + 1]
        /\ ~disc[queue[i + 1].channel].live
        /\ \A j \in 1 .. Len(queue) : queue[j].channel = queue[i + 1].channel => j <= i + 1
    BY <1>0, <2>1 DEF QueueInv
  <2>3. ASSUME NEW j \in 1 .. Len(queue'), queue'[j].channel = queue'[i].channel PROVE j <= i
    <3>1. j + 1 \in 1 .. Len(queue) /\ queue[j + 1].channel = queue[i + 1].channel
      BY <2>1, <2>2, <2>3
    <3>2. j + 1 <= i + 1
      BY <2>2, <3>1
    <3> QED BY <3>2
  <2> QED BY <2>2, <2>3
<1>4. ASSUME NEW c \in Channels, NEW now \in [live : BOOLEAN, parent : Parents],
             NEW event \in {"upsert", "delete"}, Changed(c, now, event)
      PROVE  QueueInv'
  <2> DEFINE e == [kind |-> event, channel |-> c, parent |-> now.parent]
  <2>1. e \in Events /\ e.channel = c /\ e.kind = event
    BY DEF Events
  <2>2. /\ queue' = Append(queue, e) /\ disc' = [disc EXCEPT ![c] = now] /\ disc[c].live
        /\ (event = "delete" => ~now.live)
    BY <1>4 DEF Changed
  <2> HIDE DEF e
  <2>3. /\ Len(queue) \in Nat /\ Len(queue') = Len(queue) + 1
        /\ \A i \in 1 .. Len(queue) : queue'[i] = queue[i] /\ queue[i] \in Events
        /\ queue'[Len(queue) + 1] = e
    BY <1>0, <2>1, <2>2
  <2>4. disc'[c] = now /\ \A d \in Channels \ {c} : disc'[d] = disc[d]
    BY <1>0, <2>2 DEF Places
  <2> SUFFICES ASSUME NEW i \in 1 .. Len(queue'), queue'[i].kind = "delete"
               PROVE  /\ ~disc'[queue'[i].channel].live
                      /\ \A j \in 1 .. Len(queue') : queue'[j].channel = queue'[i].channel => j <= i
    BY DEF QueueInv
  <2>5. CASE i = Len(queue) + 1
    <3>1. queue'[i] = e
      BY <2>3, <2>5
    <3>2. ~disc'[queue'[i].channel].live
      BY <2>1, <2>2, <2>4, <3>1
    <3>3. \A j \in 1 .. Len(queue') : j <= i
      BY <2>3, <2>5
    <3> QED BY <3>2, <3>3
  <2>6. CASE i \in 1 .. Len(queue)
    <3>1. /\ queue'[i] = queue[i] /\ queue[i].channel \in Channels /\ ~disc[queue[i].channel].live
          /\ \A j \in 1 .. Len(queue) : queue[j].channel = queue[i].channel => j <= i
      BY <1>0, <2>3, <2>6 DEF QueueInv, Events
    <3>2. queue[i].channel # c
      BY <2>2, <3>1
    <3>3. ASSUME NEW j \in 1 .. Len(queue'), queue'[j].channel = queue'[i].channel PROVE j <= i
      <4>1. CASE j = Len(queue) + 1
        BY <2>1, <2>3, <3>1, <3>2, <3>3, <4>1
      <4>2. CASE j \in 1 .. Len(queue)
        BY <2>3, <3>1, <3>3, <4>2
      <4> QED BY <2>3, <4>1, <4>2
    <3> QED BY <2>4, <3>1, <3>2, <3>3
  <2> QED BY <2>3, <2>5, <2>6
<1> QED BY <1>1, <1>2, <1>3, <1>4, StepEvents


(* A REST answer never revives: its request is older than the deletion.    *)
LEMMA ObservedKeepsDead ==
  ASSUME IInv, NEW a \in Actors, NEW c \in Channels, UpsertObservedChannel(a, c),
         rows[c].dead => c \in newer[a]
  PROVE  \A d \in Channels : rows'[d].dead = rows[d].dead
<1>0. Types /\ RowInv
  BY DEF IInv
<1>1. CASE rows[c].dead
  <2>1. rows[c].known
    BY <1>0, <1>1 DEF RowInv, NoRow
  <2>2. Quiet
    BY <1>1, <2>1 DEF UpsertObservedChannel
  <2> QED BY <2>2 DEF Quiet
<1>2. CASE ~rows[c].dead
  <2>1. CASE rows[c].known /\ c \in newer[a]
    BY <2>1 DEF UpsertObservedChannel, Quiet
  <2>2. CASE ~(rows[c].known /\ c \in newer[a])
    <3>1. UpsertChannelTx(c, obs[a][c].parent) /\ obs[a][c].parent \in Parents
      BY <1>0, <2>2 DEF UpsertObservedChannel, Types, Places
    <3>2. \A d \in Channels : rows'[d].dead = (rows[d].dead /\ d # c)
      BY <3>1, UpsertWrites
    <3>3. \A d \in Channels : rows[d].dead \in BOOLEAN
      BY <1>0, RowFields
    <3> QED BY <1>2, <3>2, <3>3
  <2> QED BY <2>1, <2>2
<1> QED BY <1>1, <1>2

(* Only a deletion event marks a row deleted, and nothing unmarks one.     *)
LEMMA StepTombs ==
  ASSUME IInv, Next, NEW c \in Channels
  PROVE  /\ rows[c].dead => rows'[c].dead
         /\ rows'[c].dead /\ ~rows[c].dead => OnChannelDelete /\ c = Head(queue).channel
<1>0. Types /\ PlaceInv /\ DeadInv /\ \A d \in Channels : rows[d].dead \in BOOLEAN
  BY RowFields DEF IInv
<1>1. CASE \A d \in Channels : rows'[d].dead = rows[d].dead
  BY <1>1
<1>2. CASE rows' = rows
  BY <1>2
<1>3. ASSUME NEW a \in Actors, SetChannelScopes(a) PROVE \A d \in Channels : rows'[d].dead = rows[d].dead
  BY <1>3, SetWrites
<1>4. ASSUME NEW a \in Actors,
             ReadScopes(a) \/ CheckTombstone(a) \/ Check(a) \/ Ask(a) \/ Fetch(a) \/ Reject(a) \/ UpsertMessages(a)
      PROVE  rows' = rows
  BY <1>4 DEF ReadScopes, CheckTombstone, Check, CheckWith, Ask, Fetch, Reject, UpsertMessages, CommitIf, Quiet
<1>5. ASSUME NEW a \in Actors, KeepAncestor(a) PROVE \A d \in Channels : rows'[d].dead = rows[d].dead
  <2>1. UpsertObservedChannel(a, step[a]) /\ step[a] \in Channels /\ pc[a] = "keep"
    BY <1>0, <1>5 DEF KeepAncestor, PlaceInv
  <2>2. rows[step[a]].dead => step[a] \in newer[a]
    BY <1>0, <2>1 DEF DeadInv
  <2> QED BY <2>1, <2>2, ObservedKeepsDead
<1>6. CASE SeedScopeMetadata
  BY <1>1, <1>6, SeedWrites
<1>7. CASE OnChannelUpsert
  <2> DEFINE d == Head(queue).channel
  <2>1. UpsertChannelTx(d, Head(queue).parent) /\ queue # <<>> /\ Head(queue).kind = "upsert"
    BY <1>7 DEF OnChannelUpsert
  <2>2. d \in Channels /\ Head(queue).parent \in Parents /\ 1 \in 1 .. Len(queue) /\ Head(queue) = queue[1]
    BY <1>0, <2>1, NextEvent DEF Types
  <2>3. ~rows[d].dead
    BY <1>0, <2>1, <2>2 DEF DeadInv
  <2> HIDE DEF d
  <2>4. rows'[c].dead = (rows[c].dead /\ c # d)
    BY <2>1, <2>2, UpsertWrites
  <2> QED BY <1>0, <2>3, <2>4
<1>8. CASE OnChannelDelete
  <2>1. MarkChannelDeleted(Head(queue).channel) /\ queue # <<>>
    BY <1>8 DEF OnChannelDelete
  <2>2. Head(queue).channel \in Channels
    BY <1>0, <2>1, NextEvent DEF Types
  <2>3. rows'[c].dead = (rows[c].dead \/ c = Head(queue).channel)
    BY <2>1, <2>2, DeleteWrites
  <2> QED BY <1>8, <2>3
<1>9. CASE OnGuildUpsert
  <2>1. rows'[c].dead = (rows[c].dead /\ ~disc[c].live)
    BY <1>9, GuildWrites
  <2>2. rows[c].dead => ~disc[c].live
    BY <1>0 DEF DeadInv
  <2> QED BY <1>0, <2>1, <2>2
<1>10. CASE StartSync \/ ListChannels \/ SelectChannels \/ NewResolver \/ (\E d \in Channels : CrawlPage(d)) \/ Discord
            \/ (\E a \in Actors, d \in Channels : Message(a, d)) \/ (\E p \in Policies : Restart(p))
  <2>1. rows' = rows
    BY <1>10 DEF StartSync, ListChannels, SelectChannels, NewResolver, CrawlPage, Discord, DeleteAtDiscord,
                 MoveAtDiscord, ChangeAtDiscord, Message, Restart, Quiet
  <2> QED BY <1>2, <2>1
<1>11. CASE StoreScopeMetadata
  <2> DEFINE next == CHOOSE d \in todo : TRUE
  <2>1. CASE todo # {}
    <3>1. next \in todo /\ UpsertObservedChannel("repair", next) /\ pc["repair"] = "store"
      BY <1>11, <2>1 DEF StoreScopeMetadata
    <3>2. next \in Channels /\ "repair" \in Actors
      BY <1>0, <3>1 DEF Types, Actors
    <3> HIDE DEF next
    <3>3. rows[next].dead => next \in newer["repair"]
      BY <1>0, <3>1, <3>2 DEF DeadInv
    <3> QED BY <1>1, <3>1, <3>2, <3>3, ObservedKeepsDead
  <2>2. CASE todo = {}
    <3>1. rows' = rows
      BY <1>11, <2>2 DEF StoreScopeMetadata, Quiet
    <3> QED BY <1>2, <3>1
  <2> QED BY <2>1, <2>2
<1> QED BY <1>1, <1>2, <1>3, <1>4, <1>5, <1>6, <1>7, <1>8, <1>9, <1>10, <1>11
        DEF Next, Step, Live, Repair, Act, Actors

(* A request under way misses no observation, a deletion least of all.     *)
LEMMA StepObserves ==
  ASSUME IInv, Next, NEW a \in Actors, UnderWay(a)
  PROVE  /\ newer[a] \subseteq newer'[a]
         /\ OnChannelDelete => Head(queue).channel \in newer'[a]
<1>0. Types
  BY DEF IInv
<1>1. CASE OnChannelDelete
  <2> DEFINE c == Head(queue).channel
  <2>1. MarkChannelDeleted(c) /\ queue # <<>>
    BY <1>1 DEF OnChannelDelete
  <2>2. c \in Channels
    BY <1>0, <2>1, NextEvent DEF Types
  <2>3. Observe(Descendants(c) \cup {c}) /\ Descendants(c) \cup {c} \in SUBSET Channels
    BY <2>1, <2>2 DEF MarkChannelDeleted, Revised, Descendants
  <2> QED BY <1>0, <2>3, ObserveIs
<1>2. CASE ~OnChannelDelete
  <2> SUFFICES newer[a] \subseteq newer'[a]
    BY <1>2
  <2>1. ASSUME NEW S \in SUBSET Channels, Observe(S) PROVE newer[a] \subseteq newer'[a]
    BY <1>0, <2>1, ObserveIs
  <2>2. ASSUME Quiet PROVE newer[a] \subseteq newer'[a]
    BY <2>1, <2>2 DEF Quiet
  <2>3. ASSUME NEW c \in Channels, NEW p, UpsertChannelTx(c, p) PROVE newer[a] \subseteq newer'[a]
    <3>1. Lost(c, p) \cup {c} \in SUBSET Channels /\ {c} \in SUBSET Channels
      BY DEF Lost, Descendants
    <3>2. Observe(Lost(c, p) \cup {c}) \/ Observe({c})
      BY <2>3 DEF UpsertChannelTx, Revised
    <3> QED BY <2>1, <3>1, <3>2
  <2>4. ASSUME NEW b \in Actors, NEW c \in Channels, UpsertObservedChannel(b, c)
        PROVE  newer[a] \subseteq newer'[a]
    BY <2>2, <2>3, <2>4 DEF UpsertObservedChannel
  <2>5. ASSUME NEW b \in Actors, Act(b) PROVE newer[a] \subseteq newer'[a]
    <3>1. CASE KeepAncestor(b)
      BY <2>4, <3>1 DEF KeepAncestor, IInv, PlaceInv
    <3>2. CASE SetChannelScopes(b)
      <4>1. Redecided(b) \ dirty[b] \in SUBSET Channels /\ Observe(Redecided(b) \ dirty[b])
        BY <3>2 DEF SetChannelScopes, SetChannelScopesIn, Revised, Redecided, Undecided
      <4> QED BY <2>1, <4>1
    <3>3. CASE ReadScopes(b)
      BY <2>1, <3>3 DEF ReadScopes
    <3>4. CASE CheckTombstone(b) \/ Check(b) \/ Ask(b) \/ Fetch(b) \/ Reject(b) \/ UpsertMessages(b)
      BY <2>2, <3>4 DEF CheckTombstone, Check, CheckWith, Ask, Fetch, Reject, UpsertMessages, CommitIf
    <3> QED BY <2>5, <3>1, <3>2, <3>3, <3>4 DEF Act
  <2>6. CASE SeedScopeMetadata
    <3>1. {c \in Channels : ~rows[c].known /\ payload[c].live} \in SUBSET Channels
      OBVIOUS
    <3> QED BY <2>1, <2>6, <3>1, SeedWrites DEF Revised
  <2>7. CASE OnChannelUpsert
    <3>1. queue # <<>> /\ UpsertChannelTx(Head(queue).channel, Head(queue).parent)
      BY <2>7 DEF OnChannelUpsert
    <3>2. Head(queue).channel \in Channels
      BY <1>0, <3>1, NextEvent DEF Types
    <3> QED BY <2>3, <3>1, <3>2
  <2>8. CASE OnGuildUpsert
    <3>1. \E T \in SUBSET Channels : Observe(T)
      BY <2>8 DEF OnGuildUpsert, Lost, Descendants
    <3> QED BY <2>1, <3>1
  <2>9. CASE StartSync \/ ListChannels \/ (\E c \in Channels : CrawlPage(c)) \/ Discord
             \/ (\E b \in Actors, c \in Channels : Message(b, c))
    <3>1. Quiet
      BY <2>9 DEF StartSync, ListChannels, CrawlPage, Discord, DeleteAtDiscord, MoveAtDiscord, ChangeAtDiscord,
                  Message
    <3> QED BY <2>2, <3>1
  <2>10. CASE StoreScopeMetadata
    <3> DEFINE next == CHOOSE d \in todo : TRUE
    <3>1. CASE todo # {}
      <4>1. next \in todo /\ UpsertObservedChannel("repair", next)
        BY <2>10, <3>1 DEF StoreScopeMetadata
      <4>2. next \in Channels /\ "repair" \in Actors
        BY <1>0, <4>1 DEF Types, Actors
      <4> HIDE DEF next
      <4> QED BY <2>4, <4>1, <4>2
    <3>2. CASE todo = {}
      BY <2>2, <2>10, <3>2 DEF StoreScopeMetadata
    <3> QED BY <3>1, <3>2
  <2>11. CASE SelectChannels \/ NewResolver
    BY <2>1, <2>11 DEF SelectChannels, NewResolver
  <2>12. ASSUME NEW p \in Policies, Restart(p) PROVE newer[a] \subseteq newer'[a]
    BY <2>12 DEF Restart, UnderWay, Asking, Idle
  <2> QED BY <1>2, <2>5, <2>6, <2>7, <2>8, <2>9, <2>10, <2>11, <2>12 DEF Next, Step, Live, Repair, Actors
<1> QED BY <1>1, <1>2


(* An answer on its way to the store was on its way before, or is of a     *)
(* channel that is there.                                                  *)
Answers ==
  /\ \A a \in Actors : pc'[a] = "keep" => (pc[a] = "keep" /\ step'[a] = step[a]) \/ disc[step'[a]].live
  /\ pc'["repair"] = "store" =>
       (pc["repair"] = "store" /\ todo' \subseteq todo) \/ \A c \in todo' : disc[c].live

(* Every answer comes from Discord as it is at the step.                   *)
LEMMA StepAnswers ==
  ASSUME IInv, Next PROVE Answers
<1>0. Types /\ PlaceInv /\ "live" \in Actors /\ "repair" \in Actors
  BY DEF IInv, Actors
<1>1. ASSUME NEW b \in Actors, pc'[b] # "keep", pc'[b] # "store", todo' \subseteq todo \/ b = "repair",
             \A a \in Actors \ {b} : pc'[a] = pc[a] /\ step'[a] = step[a]
      PROVE  Answers
  BY <1>0, <1>1 DEF Answers
<1>2. ASSUME NEW b \in Actors, NEW where \in Stages, Go(b, where), where # "keep", where # "store",
             todo' \subseteq todo \/ b = "repair"
      PROVE  Answers
  BY <1>0, <1>1, <1>2, GoIs
<1>3. ASSUME NEW b \in Actors, Rest(b), todo' \subseteq todo PROVE Answers
  BY <1>0, <1>1, <1>3, RestIs
<1>4. ASSUME NEW b \in Actors, NEW ok, Return(b, ok), todo' \subseteq todo PROVE Answers
  <2>1. "granted" \in Stages
    BY DEF Stages
  <2> QED BY <1>2, <1>3, <1>4, <2>1 DEF Return
<1>5. ASSUME NEW b \in Actors, NEW then \in Returns, Refresh(b, then), todo' \subseteq todo PROVE Answers
  BY <1>0, <1>1, <1>5, RefreshIs
<1>6. ASSUME NEW b \in Actors, NEW c \in Parents, Walk(b, c), target[b] \in Channels, todo' \subseteq todo
      PROVE  Answers
  BY <1>0, <1>1, <1>6, WalkIs
<1>7. ASSUME UNCHANGED place, todo' \subseteq todo PROVE Answers
  BY <1>7 DEF Answers, place
<1>8. {"set", "check", "idle", "select", "fetched", "list", "crawl", "keep", "store"} \subseteq Stages
      /\ {"idle", "select", "settle"} \subseteq Returns
  BY DEF Stages, Returns
<1>9. ASSUME NEW b \in Actors, SetChannelScopes(b) PROVE Answers
  <2>1. pc[b] = "set" /\ Continue(b) /\ todo' \subseteq todo /\ cont[b] \in Returns
    BY <1>0, <1>9 DEF SetChannelScopes, SetChannelScopesIn, Types
  <2>2. CASE cont[b] \in {"idle", "select"}
    <3>1. Go(b, cont[b])
      BY <2>1, <2>2 DEF Continue
    <3> QED BY <1>2, <1>8, <2>1, <2>2, <3>1
  <2>3. CASE cont[b] \in {"check", "settle", "final"}
    <3>0. target[b] \in Channels /\ target[b] \in Parents
      BY <1>0, <2>1, <2>3 DEF PlaceInv, Parents
    <3>1. \/ Go(b, "check")
          \/ Walk(b, target[b])
          \/ Return(b, catalog[b][target[b]] = "allowed")
      BY <2>1, <2>3 DEF Continue
    <3> QED BY <1>2, <1>4, <1>6, <1>8, <2>1, <3>0, <3>1
  <2> QED BY <2>1, <2>2, <2>3 DEF Returns
<1>10. ASSUME NEW b \in Actors, ReadScopes(b) PROVE Answers
  BY <1>2, <1>8, <1>10 DEF ReadScopes
<1>11. ASSUME NEW b \in Actors, CheckTombstone(b) \/ Check(b) PROVE Answers
  <2>1. /\ todo' \subseteq todo
        /\ Refresh(b, "settle") \/ \E ok : Return(b, ok)
    BY <1>11 DEF CheckTombstone, Check, CheckWith
  <2> QED BY <1>4, <1>5, <1>8, <2>1
<1>12. ASSUME NEW b \in Actors, Ask(b) PROVE Answers
  <2>1. todo' = todo /\ (Rest(b) \/ (disc[step[b]].live /\ Go(b, "keep")))
    BY <1>12 DEF Ask
  <2>2. CASE Rest(b)
    BY <1>3, <2>1, <2>2
  <2>3. CASE disc[step[b]].live /\ Go(b, "keep")
    <3>1. pc'[b] = "keep" /\ step' = step /\ \A a \in Actors \ {b} : pc'[a] = pc[a]
      BY <1>0, <1>8, <2>3, GoIs
    <3>2. pc'["repair"] = "store" => pc["repair"] = "store"
      BY <1>0, <3>1
    <3> QED BY <2>1, <2>3, <3>1, <3>2 DEF Answers
  <2> QED BY <2>1, <2>2, <2>3
<1>13. ASSUME NEW b \in Actors, KeepAncestor(b) PROVE Answers
  <2>1. /\ target[b] \in Channels /\ step[b] \in Channels /\ todo' = todo
        /\ Walk(b, obs[b][step[b]].parent)
    BY <1>0, <1>13 DEF KeepAncestor, PlaceInv
  <2>2. obs[b][step[b]].parent \in Parents
    BY <1>0, <2>1 DEF Types, Places
  <2> QED BY <1>6, <2>1, <2>2
<1>14. ASSUME NEW b \in Actors, Fetch(b) \/ Reject(b) \/ UpsertMessages(b) PROVE Answers
  <2>1. todo' = todo /\ (Go(b, "fetched") \/ Rest(b))
    BY <1>14 DEF Fetch, Reject, UpsertMessages, CommitIf
  <2> QED BY <1>2, <1>3, <1>8, <2>1
<1>15. CASE SeedScopeMetadata \/ OnChannelUpsert \/ OnChannelDelete \/ OnGuildUpsert
  <2>1. todo' = todo /\ Refresh("live", "idle")
    BY <1>15 DEF SeedScopeMetadata, OnChannelUpsert, OnChannelDelete, OnGuildUpsert
  <2> QED BY <1>0, <1>5, <1>8, <2>1
<1>16. CASE StartSync
  <2>1. todo' = todo /\ Go("repair", "list")
    BY <1>16 DEF StartSync
  <2> QED BY <1>0, <1>2, <1>8, <2>1
<1>17. CASE ListChannels
  <2>1. Go("repair", "store") /\ \A c \in todo' : disc[c].live
    BY <1>17 DEF ListChannels
  <2>2. pc'["repair"] = "store" /\ step' = step /\ \A a \in Actors \ {"repair"} : pc'[a] = pc[a]
    BY <1>0, <1>8, <2>1, GoIs
  <2> QED BY <2>1, <2>2 DEF Answers
<1>18. CASE StoreScopeMetadata
  <2>1. todo' \subseteq todo /\ (UNCHANGED place \/ Refresh("repair", "select"))
    BY <1>18 DEF StoreScopeMetadata
  <2> QED BY <1>0, <1>5, <1>7, <1>8, <2>1
<1>19. CASE SelectChannels
  <2>1. Go("repair", "idle") \/ Go("repair", "crawl")
    BY <1>19 DEF SelectChannels
  <2> QED BY <1>0, <1>2, <1>8, <2>1
<1>20. ASSUME NEW c \in Channels, CrawlPage(c) PROVE Answers
  <2>1. /\ step' = step
        /\ \E where \in {"granted", "idle", "crawl"} : pc' = [pc EXCEPT !["repair"] = where]
    BY <1>20 DEF CrawlPage
  <2>2. pc'["repair"] \in {"granted", "idle", "crawl"} /\ \A a \in Actors \ {"repair"} : pc'[a] = pc[a]
    BY <1>0, <2>1 DEF Types
  <2> QED BY <1>0, <1>1, <2>1, <2>2
<1>21. CASE NewResolver \/ Discord
  <2>1. UNCHANGED <<place, todo>>
    BY <1>21 DEF NewResolver, Discord, MoveAtDiscord, DeleteAtDiscord, ChangeAtDiscord
  <2> QED BY <1>7, <2>1
<1>22. ASSUME NEW b \in Actors, NEW c \in Channels, Message(b, c) PROVE Answers
  <2>1. PICK next \in {"open", "read", "check"} : pc' = [pc EXCEPT ![b] = next]
    BY <1>22 DEF Message
  <2>2. step' = step /\ todo' = todo
    BY <1>22 DEF Message
  <2>3. pc'[b] = next /\ \A a \in Actors \ {b} : pc'[a] = pc[a]
    BY <1>0, <2>1 DEF Types
  <2> QED BY <1>1, <2>2, <2>3
<1>23. ASSUME NEW p \in Policies, Restart(p) PROVE Answers
  <2>1. \A a \in Actors : pc'[a] \in {"seed", "idle"}
    BY <1>23 DEF Restart, Idle
  <2> QED BY <1>0, <2>1 DEF Answers
<1> QED BY <1>9, <1>10, <1>11, <1>12, <1>13, <1>14, <1>15, <1>16, <1>17, <1>18, <1>19, <1>20, <1>21, <1>22, <1>23
        DEF Next, Step, Live, Repair, Act, Actors

(* Every step keeps DeadInv.                                               *)
LEMMA StepDead ==
  ASSUME IInv, Next PROVE DeadInv'
<1> SUFFICES ASSUME NEW c \in Channels, rows'[c].dead
             PROVE  /\ ~disc'[c].live
                    /\ \A i \in 1 .. Len(queue') : queue'[i].channel = c => queue'[i].kind # "upsert"
                    /\ \A a \in Actors : pc'[a] = "keep" /\ step'[a] = c => c \in newer'[a]
                    /\ pc'["repair"] = "store" /\ c \in todo' => c \in newer'["repair"]
  BY DEF DeadInv
<1>0. Types /\ DeadInv /\ QueueInv /\ "repair" \in Actors /\ {"keep", "store"} \subseteq Asking
  BY DEF IInv, Actors, Asking
<1>1. rows[c].dead \/ (OnChannelDelete /\ c = Head(queue).channel)
  BY StepTombs
<1>2. ASSUME OnChannelDelete, c = Head(queue).channel
      PROVE  /\ queue # <<>> /\ queue' = Tail(queue)
             /\ 1 \in 1 .. Len(queue) /\ queue[1].kind = "delete" /\ queue[1].channel = c
  <2>1. queue # <<>> /\ queue' = Tail(queue) /\ Head(queue).kind = "delete"
    BY <1>2 DEF OnChannelDelete
  <2> QED BY <1>0, <1>2, <2>1, NextEvent DEF Types
<1>3. ~disc[c].live
  BY <1>0, <1>1, <1>2 DEF DeadInv, QueueInv
<1>4. ~disc'[c].live
  BY <1>3, EventsCome
<1>5. ASSUME NEW i \in 1 .. Len(queue'), queue'[i].channel = c PROVE queue'[i].kind # "upsert"
  <2>1. CASE rows[c].dead
    BY <1>0, <1>3, <1>5, <2>1, EventsCome DEF DeadInv
  <2>2. CASE OnChannelDelete /\ c = Head(queue).channel
    <3>1. i + 1 \in 1 .. Len(queue) /\ queue'[i] = queue[i + 1]
      BY <1>0, <1>2, <2>2, NextEvent DEF Types
    <3>2. i + 1 <= 1
      BY <1>0, <1>2, <1>5, <2>2, <3>1 DEF QueueInv
    <3> QED BY <3>2
  <2> QED BY <1>1, <2>1, <2>2
<1>6. ASSUME NEW a \in Actors, pc'[a] = "keep", step'[a] = c PROVE c \in newer'[a]
  <2>1. pc[a] = "keep" /\ step[a] = c
    BY <1>3, <1>6, StepAnswers DEF Answers
  <2>2. UnderWay(a)
    BY <1>0, <1>6, <2>1 DEF UnderWay
  <2> QED BY <1>0, <1>1, <2>1, <2>2, StepObserves DEF DeadInv
<1>7. ASSUME pc'["repair"] = "store", c \in todo' PROVE c \in newer'["repair"]
  <2>1. pc["repair"] = "store" /\ c \in todo
    BY <1>3, <1>7, StepAnswers DEF Answers
  <2>2. UnderWay("repair")
    BY <1>0, <1>7, <2>1 DEF UnderWay
  <2> QED BY <1>0, <1>1, <2>1, <2>2, StepObserves DEF DeadInv
<1> QED BY <1>4, <1>5, <1>6, <1>7

-----------------------------------------------------------------------------
(* The theorems.                                                           *)

(* The initial state.                                                      *)
LEMMA InitInv == Init => IInv
<1> SUFFICES ASSUME Init PROVE IInv
  OBVIOUS
<1>1. NoRow \in Rows /\ Gone \in [live : BOOLEAN, parent : Parents] /\ None \in Parents
  BY DEF NoRow, Rows, Parents, Scopes, Gone
<1>2. Types
  <2>1. disc \in Places
    BY ScopeAssumption DEF Init, Places, Parents
  <2>2. queue \in Seq(Events) /\ policy \in Policies /\ todo \subseteq Channels
    BY DEF Init
  <2>3. Unasked \in Places /\ Unread \in [Channels -> Scopes] /\ NoRows \in [Channels -> Rows]
    BY <1>1 DEF Unasked, Places, Unread, Scopes, NoRows
  <2>4. pc \in [Actors -> Stages] /\ cont \in [Actors -> Returns]
    BY DEF Init, Idle, Stages, Returns
  <2>5. target \in [Actors -> Parents] /\ step \in [Actors -> Parents]
    BY <1>1 DEF Init
  <2>6. dirty \in [Actors -> SUBSET Channels] /\ newer \in [Actors -> SUBSET Channels]
    BY DEF Init
  <2> QED BY <2>1, <2>2, <2>3, <2>4, <2>5, <2>6 DEF Types, Init
<1>3. \A a \in Actors : pc[a] \in {"seed", "idle"} /\ catalog[a] = Unread
  BY DEF Init, Idle
<1>4. \A c \in Channels : rows[c] = NoRow
  BY DEF Init, NoRows
<1>5. \A c \in Channels : ~rows[c].known /\ ~rows[c].dead /\ Unread[c] # "allowed"
  BY <1>4 DEF NoRow, Unread
<1>6. PlaceInv /\ SinceInv
  BY <1>3 DEF PlaceInv, SinceInv
<1>7. RowInv /\ AllowedIsCurrent /\ CatalogInv /\ DeadInv
  BY <1>3, <1>4, <1>5 DEF RowInv, AllowedIsCurrent, CatalogInv, DeadInv
<1>8. QueueInv
  <2>1. 1 .. Len(queue) = {}
    BY DEF Init
  <2> QED BY <2>1 DEF QueueInv
<1> QED BY <1>2, <1>6, <1>7, <1>8 DEF IInv

(* Every step keeps the invariant.                                         *)
LEMMA StepInv == IInv /\ [Next]_vars => IInv'
<1> SUFFICES ASSUME IInv, [Next]_vars PROVE IInv'
  OBVIOUS
<1>1. CASE Next
  <2>1. Types' /\ PlaceInv' /\ RowInv' /\ AllowedIsCurrent' /\ CatalogInv'
    BY <1>1, StepTypes, StepPlaced, StepEffect DEF Placed, Effect
  <2>2. SinceInv' /\ DeadInv' /\ QueueInv'
    BY <1>1, StepSince, StepDead, StepQueue
  <2> QED BY <2>1, <2>2 DEF IInv
<1>2. CASE UNCHANGED vars
  <2>1. /\ UNCHANGED <<disc, queue, rows, payload, policy, todo, obs, catalog, dirty, newer, since>>
        /\ UNCHANGED <<pc, cont, target, step>>
    BY <1>2 DEF vars, provider, process, place
  <2>2. Types' /\ PlaceInv'
    BY <2>1 DEF IInv, Types, PlaceInv
  <2>3. RowInv' /\ AllowedIsCurrent' /\ CatalogInv' /\ SinceInv'
    BY <2>1 DEF IInv, RowInv, AllowedIsCurrent, CatalogInv, SinceInv
  <2>4. DeadInv' /\ QueueInv'
    BY <2>1 DEF IInv, DeadInv, QueueInv
  <2> QED BY <2>2, <2>3, <2>4 DEF IInv
<1> QED BY <1>1, <1>2

(* The invariant holds throughout.                                         *)
LEMMA Invariance == Spec => []IInv
  BY InitInv, StepInv, PTL DEF Spec


(* Every variable the specification types keeps its type.                  *)
THEOREM TypeCorrect == Spec => []TypeOK
<1>1. IInv => TypeOK
  <2>1. ASSUME Types PROVE TypeOK
    BY <2>1 DEF Types, TypeOK, Rows, Parents, Scopes
  <2> QED BY <2>1 DEF IInv
<1> QED BY <1>1, Invariance, PTL

(* A stored "allowed" still follows from the stored rows: every write of a *)
(* row that could end it (upsertChannelTx, MarkChannelDeleted) invalidates *)
(* the rows below it in the same transaction, and SetChannelScopes writes  *)
(* a decision only over the revision it was made from.                     *)
THEOREM StoredDecisionsCurrent == Spec => []AllowedIsCurrent
<1>1. IInv => AllowedIsCurrent
  BY DEF IInv
<1> QED BY <1>1, Invariance, PTL

(* Content is requested only for a channel that was in scope since its     *)
(* admission began, and committed only for one that is in scope: a cached  *)
(* decision counts only if the row's revision is still the cached one, and *)
(* requireMessageScope asks the store again inside the transaction.        *)
THEOREM ContentOnlyInScope == Spec => ContentInScope
<1> DEFINE Guarded == \A a \in Actors : /\ pc'[a] = "granted" => since'[a]
                                        /\ UpsertMessages(a) => InScope(policy, target[a], rows)
<1>1. IInv /\ IInv' => Guarded
  <2> SUFFICES ASSUME IInv, IInv', NEW a \in Actors
               PROVE  /\ pc'[a] = "granted" => since'[a]
                      /\ UpsertMessages(a) => InScope(policy, target[a], rows)
    OBVIOUS
  <2>1. pc'[a] = "granted" => since'[a]
    BY DEF IInv, SinceInv
  <2>2. ASSUME UpsertMessages(a) PROVE InScope(policy, target[a], rows)
    <3>1. Admitted(target[a]) /\ target[a] \in Channels
      BY <2>2 DEF UpsertMessages, CommitIf, IInv, PlaceInv
    <3> QED BY <3>1, AdmittedInScope
  <2> QED BY <2>1, <2>2
<1>2. IInv /\ IInv' => [Guarded]_vars
  BY <1>1
<1> QED BY <1>2, Invariance, PTL DEF ContentInScope

(* A recorded deletion stays: the events of a channel end with its         *)
(* deletion, a listing has only channels that are there, and a REST answer *)
(* that was under way is dropped because the row was written since its     *)
(* request started (UpsertObservedChannel).                                *)
THEOREM DeletedStaysDeleted == Spec => TombstoneStays
<1> DEFINE Stays == \A c \in Channels : rows[c].dead => rows'[c].dead
<1>1. IInv /\ [Next]_vars => [Stays]_vars
  BY StepTombs
<1> QED BY <1>1, Invariance, PTL DEF Spec, TombstoneStays


=============================================================================

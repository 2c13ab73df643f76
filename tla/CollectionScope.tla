--------------------------- MODULE CollectionScope ---------------------------
(***************************************************************************)
(* Which channels discrawl may collect.  A policy (excluded ids and kinds, *)
(* allowed categories) decides over a channel's ancestry; the decision is  *)
(* stored with the channel row under the policy's identity, and a message  *)
(* transaction commits only under a stored "allowed" of its own policy.    *)
(* The Gateway handler and the repair pass read, decide and write these    *)
(* rows concurrently while Discord moves and deletes channels.             *)
(*                                                                         *)
(* A row's revision (updated_at) is only ever compared for equality with   *)
(* the one an actor read, and its last observation only with the start of  *)
(* an actor's request, so both are kept as what they decide: dirty[a] are  *)
(* the rows whose revision changed since a read them, newer[a] the rows    *)
(* written or checked since a's request started.                           *)
(***************************************************************************)
EXTENDS Naturals, FiniteSets, Sequences

CONSTANTS
    Channels,   \* channel, category and thread identities
    Kind,       \* the kind of every channel
    Home,       \* where Discord has every channel at first
    MovesTo,    \* the parents Discord may move a channel to
    Mortal,     \* the channels that may be deleted at Discord
    Policies,   \* the configurations the process may be started with
    None,       \* no parent, no channel
    MaxMoves,   \* bound on the changes made at Discord
    MaxRestarts \* bound on the restarts

ASSUME ScopeAssumption ==
    /\ IsFiniteSet(Channels) /\ None \notin Channels
    /\ Home \in [Channels -> Channels \cup {None}]
    /\ MaxMoves \in Nat /\ MaxRestarts \in Nat

VARIABLES
    disc,     \* Discord: is the channel there, and under which parent
    queue,    \* Gateway channel events not handled yet
    rows,     \* the stored channel rows
    payload,  \* the channels of the stored GUILD_CREATE payload
    policy,   \* the configuration of the running process
    pc, cont, \* where each actor is, and where its scope refresh returns to
    target,   \* the channel each actor is working on
    todo,     \* the channels the repair pass has still to store, then to crawl
    step,     \* the channel of the ancestry walk
    obs,      \* what the actor's last REST answer said
    catalog,  \* the decisions of the scope catalogue each actor read last
    dirty,    \* rows whose revision changed since that catalogue was read
    newer,    \* rows written or checked since the actor's request started
    since,    \* was the target in scope at some moment of the admission
    moves, restarts

Actors == {"live", "repair"}
provider == <<disc, queue, moves>>
process == <<policy, restarts>>
place == <<pc, cont, target, step>>
vars == <<provider, process, place, rows, payload, todo, obs, catalog, dirty, newer, since>>

Gone == [live |-> FALSE, parent |-> None]
NoRow == [known |-> FALSE, parent |-> None, kind |-> "unknown", dead |-> FALSE, scope |-> "unknown", policy |-> None]
NoRows == [c \in Channels |-> NoRow]
Unread == [c \in Channels |-> "unknown"]
Unasked == [c \in Channels |-> Gone]

(***************************************************************************)
(* The decision.  A catalogue is a function from channels to rows.         *)
(***************************************************************************)
\* Categories and forums hold no messages of their own.
IsMessageChannel(c) == Kind[c] \in {"text", "announcement", "voice", "type_13",
                                    "thread_public", "thread_private", "thread_announcement"}
Configured(p) == p.ids # {} \/ p.kinds # {} \/ p.categories # {}
ExcludesKind(p, row) == \/ row.kind \in p.kinds
                        \/ row.kind = "thread_announcement" /\ "announcement" \in p.kinds
                        \/ row.kind = "type_13" /\ "stage" \in p.kinds

\* The channels of B and the parents their stored rows name.
Above(B, cat) == B \cup {cat[d].parent : d \in {d \in B : d # None /\ cat[d].known}}
\* The stored ancestors of c, itself included, and the parents they name.
Climb(c, cat) ==
    LET up[n \in 0 .. Cardinality(Channels)] == IF n = 0 THEN {c} ELSE Above(up[n - 1], cat)
    IN  up[Cardinality(Channels)] \ {None}
Ancestry(c, cat) == {d \in Climb(c, cat) : cat[d].known}
Rooted(c, cat) == \A d \in Climb(c, cat) : cat[d].known
Acyclic(c, cat) == \E d \in Ancestry(c, cat) : cat[d].parent = None

ExcludesStored(p, c, cat) ==
    \/ \E d \in Ancestry(c, cat) : d \in p.ids \/ cat[d].parent \in p.ids \/ ExcludesKind(p, cat[d])
    \/ /\ p.categories # {}
       /\ IF cat[c].parent = None
          THEN c \notin p.categories
          ELSE \A d \in Ancestry(c, cat) : cat[d].parent \notin p.categories

Scope(p, c, cat) ==
    CASE c \in p.ids -> "excluded"
      [] c \notin p.ids /\ ~cat[c].known -> "unknown"
      [] OTHER ->
           IF \E d \in Ancestry(c, cat) :
                \/ cat[d].dead \/ d \in p.ids \/ cat[d].parent \in p.ids \/ ExcludesKind(p, cat[d])
           THEN "excluded"
           ELSE IF ~Rooted(c, cat) \/ ~Acyclic(c, cat) THEN "unknown"
           ELSE IF ExcludesStored(p, c, cat) THEN "excluded" ELSE "allowed"

Tombstoned(c, cat) == \E d \in Ancestry(c, cat) : cat[d].dead
\* What the catalogue says of collecting c now.
InScope(p, c, cat) ==
    IF Configured(p) THEN Scope(p, c, cat) = "allowed" ELSE ~Tombstoned(c, cat)

\* requireMessageScope and ChannelCollectionAdmitted: the persisted decision.
Admitted(c) ==
    IF Configured(policy)
    THEN /\ rows[c].known /\ ~rows[c].dead
         /\ rows[c].scope = "allowed" /\ rows[c].policy = policy
    ELSE ~Tombstoned(c, rows)

Idle(a) == IF a = "live" THEN "seed" ELSE "idle"
Init ==
    /\ disc = [c \in Channels |-> [live |-> TRUE, parent |-> Home[c]]]
    /\ queue = <<>>
    /\ rows = NoRows
    /\ payload = Unasked
    /\ policy \in Policies
    /\ pc = [a \in Actors |-> Idle(a)]
    /\ cont = [a \in Actors |-> "idle"]
    /\ target = [a \in Actors |-> None]
    /\ todo = {}
    /\ step = [a \in Actors |-> None]
    /\ obs = [a \in Actors |-> Unasked]
    /\ catalog = [a \in Actors |-> Unread]
    /\ dirty = [a \in Actors |-> {}]
    /\ newer = [a \in Actors |-> {}]
    /\ since = [a \in Actors |-> FALSE]
    /\ moves = 0 /\ restarts = 0

(***************************************************************************)
(* Writes of channel rows.                                                 *)
(***************************************************************************)
Descendants(c) == {d \in Channels : rows[d].known /\ c \in Climb(d, rows)}

\* A written row has a new revision; a checked one only a newer observation.
Reads(a) == pc[a] = "set" \/ catalog[a] # Unread
Bump(S) == dirty' = [a \in Actors |-> IF Reads(a) THEN dirty[a] \cup S ELSE {}]

\* A REST request is under way from its start until its answer is stored.
Asking == {"ask", "keep", "list", "store"}
UnderWay(a) == pc[a] \in Asking /\ pc'[a] \in Asking /\ ~(pc[a] = "keep" /\ pc'[a] = "ask")
Observe(S) == newer' = [a \in Actors |-> IF UnderWay(a) THEN newer[a] \cup S ELSE {}]
Revised(S) == Bump(S) /\ Observe(S)
Quiet == Observe({}) /\ UNCHANGED <<rows, dirty>>

Invalidated(S, r) == [c \in Channels |-> IF c \in S
                        THEN [r[c] EXCEPT !.scope = "unknown", !.policy = None] ELSE r[c]]

\* upsertChannelTx for an observation that is not older than the row.
Differs(c, parent) ==
    ~rows[c].known \/ rows[c].dead \/ rows[c].parent # parent \/ rows[c].kind # Kind[c]
MovesRow(c, parent) == rows[c].known /\ (rows[c].parent # parent \/ rows[c].kind # Kind[c])
Fresh(row, c, parent) ==
    [row EXCEPT !.known = TRUE, !.parent = parent, !.kind = Kind[c], !.dead = FALSE]
Lost(c, parent) == IF MovesRow(c, parent) THEN Descendants(c) ELSE {}
UpsertChannelTx(c, parent) ==
    IF Differs(c, parent)
    THEN /\ rows' = [Invalidated(Lost(c, parent), rows) EXCEPT ![c] = Fresh(@, c, parent)]
         /\ Revised(Lost(c, parent) \cup {c})
    ELSE Observe({c}) /\ UNCHANGED <<rows, dirty>>

\* Bug variant: whenever the answer was read.
UpsertAnyAnswer(a, c) == UpsertChannelTx(c, obs[a][c].parent)
\* UpsertObservedChannel: an answer older than the row's last observation is dropped.
UpsertObservedChannel(a, c) ==
    IF rows[c].known /\ c \in newer[a] THEN Quiet ELSE UpsertChannelTx(c, obs[a][c].parent)

\* MarkChannelDeleted: an identity row if there was none, descendants invalidated.
MarkChannelDeleted(c) ==
    LET below == Descendants(c) \cup {c} IN
    /\ rows' = [Invalidated(below, rows) EXCEPT
                  ![c].known = TRUE, ![c].dead = TRUE, ![c].scope = "excluded"]
    /\ Revised(below)

(***************************************************************************)
(* Control.  A pass that still has channels to crawl goes on with the      *)
(* next one when it is done with one.                                      *)
(***************************************************************************)
Resting(a) == IF a = "repair" /\ todo # {} THEN "crawl" ELSE "idle"
Rest(a) ==
    /\ pc' = [pc EXCEPT ![a] = Resting(a)]
    /\ target' = [target EXCEPT ![a] = None]
    /\ step' = [step EXCEPT ![a] = None]
    /\ UNCHANGED cont
Go(a, where) == pc' = [pc EXCEPT ![a] = where] /\ UNCHANGED <<cont, target, step>>
Return(a, ok) == IF ok THEN Go(a, "granted") ELSE Rest(a)
Refresh(a, then) ==
    /\ pc' = [pc EXCEPT ![a] = "read"] /\ cont' = [cont EXCEPT ![a] = then]
    /\ UNCHANGED <<target, step>>

\* The next request of the ancestry walk, or its end at the root or at an
\* excluded identity.
Walk(a, c) ==
    IF c = None \/ c \in policy.ids
    THEN Refresh(a, "final")
    ELSE /\ pc' = [pc EXCEPT ![a] = "ask"]
         /\ step' = [step EXCEPT ![a] = c]
         /\ UNCHANGED <<cont, target>>

(***************************************************************************)
(* refreshCollectionScopes: read all rows and decide, then write what      *)
(* changed, each decision only over the revision it was made from.         *)
(***************************************************************************)
ReadScopes(a) ==
    /\ pc[a] = "read"
    /\ catalog' = [catalog EXCEPT ![a] = [c \in Channels |-> Scope(policy, c, rows)]]
    /\ dirty' = [dirty EXCEPT ![a] = {}]
    /\ Go(a, "set")
    /\ Observe({})
    /\ UNCHANGED <<provider, process, rows, payload, todo, obs>>

\* What follows a refresh: the event is done, the pass selects its channels, or
\* the admission goes on with the new catalogue.
Continue(a) ==
    LET state == catalog[a][target[a]] IN
    CASE cont[a] \in {"idle", "select"} -> Go(a, cont[a])
      [] cont[a] = "check" /\ state # "unknown" -> Go(a, "check")
      [] cont[a] \in {"check", "settle"} /\ state = "unknown" -> Walk(a, target[a])
      [] cont[a] = "final" \/ (cont[a] = "settle" /\ state # "unknown") -> Return(a, state = "allowed")

\* Changed decisions; alone, a bug variant of Redecided: a new policy does not count.
Undecided(a) == {c \in Channels : rows[c].known /\ rows[c].scope # catalog[a][c]}
Redecided(a) == Undecided(a) \cup {c \in Channels : rows[c].known /\ rows[c].policy # policy}
SetChannelScopesIn(a, S) ==
    /\ pc[a] = "set"
    /\ rows' = [c \in Channels |-> IF c \in S
                  THEN [rows[c] EXCEPT !.scope = catalog[a][c], !.policy = policy] ELSE rows[c]]
    /\ Continue(a)
    /\ Revised(S)
    /\ UNCHANGED <<provider, process, payload, todo, obs, catalog>>
\* Bug variant: what changed since the decision is not looked at.
SetChannelScopesUnchecked(a) == SetChannelScopesIn(a, Redecided(a))
SetChannelScopes(a) == SetChannelScopesIn(a, Redecided(a) \ dirty[a])

(***************************************************************************)
(* allowMessageChannel: may content of c be requested?                     *)
(***************************************************************************)
Message(a, c) ==
    /\ pc[a] = "idle" /\ IsMessageChannel(c)
    /\ Configured(policy) => c \notin policy.ids
    /\ target' = [target EXCEPT ![a] = c]
    /\ LET next == CASE ~Configured(policy) -> "open"
                     [] Configured(policy) /\ catalog[a][c] = "unknown" -> "read"
                     [] OTHER -> "check"
       IN  pc' = [pc EXCEPT ![a] = next] /\ cont' = [cont EXCEPT ![a] = "check"]
    /\ Quiet
    /\ UNCHANGED <<provider, process, payload, todo, obs, catalog, step>>

\* Without a policy only a stored tombstone refuses.
CheckTombstone(a) ==
    /\ pc[a] = "open"
    /\ Return(a, Admitted(target[a]))
    /\ Quiet
    /\ UNCHANGED <<provider, process, payload, todo, obs, catalog>>

\* A cached decision counts only if the row's revision is still the cached one.
CheckWith(a, stale) ==
    /\ pc[a] = "check"
    /\ IF target[a] \in stale THEN Refresh(a, "settle")
       ELSE Return(a, catalog[a][target[a]] = "allowed")
    /\ Quiet
    /\ UNCHANGED <<provider, process, payload, todo, obs, catalog>>
Check(a) == CheckWith(a, dirty[a])

\* The ancestry is asked for over REST, one channel at a time; an error ends
\* the admission.
Ask(a) ==
    /\ pc[a] = "ask"
    /\ IF disc[step[a]].live
       THEN /\ obs' = [obs EXCEPT ![a][step[a]] = disc[step[a]]]
            /\ Go(a, "keep")
       ELSE Rest(a) /\ UNCHANGED obs
    /\ Quiet
    /\ UNCHANGED <<provider, process, payload, todo, catalog>>

KeepAncestor(a) ==
    /\ pc[a] = "keep"
    /\ Walk(a, obs[a][step[a]].parent)
    /\ UpsertObservedChannel(a, step[a])
    /\ obs' = [obs EXCEPT ![a] = Unasked]
    /\ UNCHANGED <<provider, process, payload, todo, catalog>>

(***************************************************************************)
(* Content: the request, the attachment guard and the message transaction. *)
(***************************************************************************)
Fetch(a) ==
    /\ pc[a] = "granted"
    /\ IF disc[target[a]].live THEN Go(a, "fetched") ELSE Rest(a)
    /\ Quiet
    /\ UNCHANGED <<provider, process, payload, todo, obs, catalog>>

\* checkAttachmentScope, or the transaction itself, refuses.
Reject(a) ==
    /\ pc[a] = "fetched" /\ ~Admitted(target[a])
    /\ Rest(a)
    /\ Quiet
    /\ UNCHANGED <<provider, process, payload, todo, obs, catalog>>

\* requireMessageScope is evaluated inside the message transaction.
CommitIf(a, ok) ==
    /\ pc[a] = "fetched" /\ ok
    /\ Rest(a)
    /\ Quiet
    /\ UNCHANGED <<provider, process, payload, todo, obs, catalog>>
\* Bug variant: the transaction does not check the scope again.
UpsertMessagesUnguarded(a) == CommitIf(a, TRUE)
UpsertMessages(a) == CommitIf(a, Admitted(target[a]))

(***************************************************************************)
(* The Gateway handler's channel events.                                   *)
(***************************************************************************)
SeedScopeMetadata ==
    /\ pc["live"] = "seed"
    /\ Refresh("live", "idle")
    /\ LET new == {c \in Channels : ~rows[c].known /\ payload[c].live} IN
       /\ rows' = [c \in Channels |-> IF c \in new
                     THEN Fresh(NoRow, c, payload[c].parent) ELSE rows[c]]
       /\ Revised(new)
    /\ UNCHANGED <<provider, process, payload, todo, obs, catalog>>

OnChannelUpsert ==
    /\ pc["live"] = "idle" /\ queue # <<>> /\ Head(queue).kind = "upsert"
    /\ Refresh("live", "idle")
    /\ UpsertChannelTx(Head(queue).channel, Head(queue).parent)
    /\ queue' = Tail(queue)
    /\ UNCHANGED <<disc, moves, process, payload, todo, obs, catalog>>

OnChannelDelete ==
    /\ pc["live"] = "idle" /\ queue # <<>> /\ Head(queue).kind = "delete"
    /\ Refresh("live", "idle")
    /\ MarkChannelDeleted(Head(queue).channel)
    /\ queue' = Tail(queue)
    /\ UNCHANGED <<disc, moves, process, payload, todo, obs, catalog>>

\* GUILD_CREATE: the payload is kept and its channels and threads are applied in
\* one transaction.
OnGuildUpsert ==
    /\ pc["live"] = "idle" /\ queue = <<>>
    /\ payload' = disc
    /\ Refresh("live", "idle")
    /\ LET live == {c \in Channels : disc[c].live}
           lost == UNION {Lost(c, disc[c].parent) : c \in live}
           changed == {c \in live : Differs(c, disc[c].parent)} \cup lost
       IN  /\ rows' = [c \in Channels |-> IF c \in live
                         THEN Fresh(Invalidated(lost, rows)[c], c, disc[c].parent)
                         ELSE Invalidated(lost, rows)[c]]
           /\ Bump(changed) /\ Observe(live \cup changed)
    /\ UNCHANGED <<provider, process, todo, obs, catalog>>

(***************************************************************************)
(* The repair pass: the live catalogue, its scopes, then every channel.    *)
(***************************************************************************)
StartSync ==
    /\ pc["repair"] = "idle"
    /\ Go("repair", "list")
    /\ Quiet
    /\ UNCHANGED <<provider, process, payload, todo, obs, catalog>>

ListChannels ==
    /\ pc["repair"] = "list"
    /\ obs' = [obs EXCEPT !["repair"] = disc]
    /\ todo' = {c \in Channels : disc[c].live}
    /\ Go("repair", "store")
    /\ Quiet
    /\ UNCHANGED <<provider, process, payload, catalog>>

StoreScopeMetadata ==
    /\ pc["repair"] = "store"
    /\ \/ /\ todo # {}
          /\ UNCHANGED place
          /\ LET next == CHOOSE d \in todo : TRUE IN
             UpsertObservedChannel("repair", next) /\ todo' = todo \ {next}
       \/ /\ todo = {}
          /\ Refresh("repair", "select")
          /\ Quiet /\ UNCHANGED todo
    /\ UNCHANGED <<provider, process, payload, obs, catalog>>

\* filterExcludedDiscordChannels decides over the listed catalogue, not the rows;
\* the scope catalogue of the refresh is dropped.
Listed == [c \in Channels |-> IF obs["repair"][c].live
             THEN Fresh(NoRow, c, obs["repair"][c].parent) ELSE NoRow]
SelectChannels ==
    /\ pc["repair"] = "select"
    /\ LET chosen == {c \in Channels : /\ Listed[c].known /\ IsMessageChannel(c)
                                       /\ ~ExcludesStored(policy, c, Listed)} IN
       /\ todo' = chosen
       /\ Go("repair", IF chosen = {} THEN "idle" ELSE "crawl")
    /\ obs' = [obs EXCEPT !["repair"] = Unasked]
    /\ catalog' = [catalog EXCEPT !["repair"] = Unread]
    /\ dirty' = [dirty EXCEPT !["repair"] = {}]
    /\ Observe({})
    /\ UNCHANGED <<provider, process, rows, payload>>

\* A page is requested only under the persisted scope (requirePersistedScope).
CrawlPage(c) ==
    /\ pc["repair"] = "crawl" /\ c \in todo
    /\ todo' = todo \ {c}
    /\ IF Admitted(c)
       THEN target' = [target EXCEPT !["repair"] = c] /\ pc' = [pc EXCEPT !["repair"] = "granted"]
       ELSE pc' = [pc EXCEPT !["repair"] = IF todo = {c} THEN "idle" ELSE "crawl"] /\ UNCHANGED target
    /\ Quiet
    /\ UNCHANGED <<provider, process, payload, cont, step, obs, catalog>>

\* The exact-fetch lanes decide with a resolver of their own: an empty catalogue.
NewResolver ==
    /\ pc["repair"] = "idle"
    /\ catalog["repair"] # Unread
    /\ catalog' = [catalog EXCEPT !["repair"] = Unread]
    /\ dirty' = [dirty EXCEPT !["repair"] = {}]
    /\ UNCHANGED <<provider, process, place, rows, payload, todo, obs>>
    /\ Observe({})

(***************************************************************************)
(* Discord, and the operator who restarts with another configuration.      *)
(***************************************************************************)
ChangeAtDiscord(c, now, event) ==
    /\ moves < MaxMoves /\ disc[c].live
    /\ disc' = [disc EXCEPT ![c] = now]
    /\ queue' = Append(queue, [kind |-> event, channel |-> c, parent |-> now.parent])
    /\ moves' = moves + 1
    /\ UNCHANGED <<process, place, payload, todo, obs, catalog>>
    /\ Quiet
MoveAtDiscord(c, p) ==
    /\ p \in MovesTo[c] /\ p # disc[c].parent
    /\ ChangeAtDiscord(c, [live |-> TRUE, parent |-> p], "upsert")
DeleteAtDiscord(c) == c \in Mortal /\ ChangeAtDiscord(c, Gone, "delete")

\* Events of the Gateway session are lost with the process.
Restart(p) ==
    /\ restarts < MaxRestarts
    /\ restarts' = restarts + 1
    /\ policy' = p
    /\ queue' = <<>>
    /\ pc' = [a \in Actors |-> Idle(a)]
    /\ cont' = [a \in Actors |-> "idle"]
    /\ target' = [a \in Actors |-> None]
    /\ todo' = {}
    /\ step' = [a \in Actors |-> None]
    /\ obs' = [a \in Actors |-> Unasked]
    /\ catalog' = [a \in Actors |-> Unread]
    /\ dirty' = [a \in Actors |-> {}]
    /\ newer' = [a \in Actors |-> {}]
    /\ UNCHANGED <<disc, moves, rows, payload>>

Act(a) == \/ ReadScopes(a) \/ SetChannelScopes(a)
          \/ CheckTombstone(a) \/ Check(a) \/ Ask(a) \/ KeepAncestor(a)
          \/ Fetch(a) \/ Reject(a) \/ UpsertMessages(a)
Live == Act("live") \/ SeedScopeMetadata \/ OnChannelUpsert \/ OnChannelDelete
Repair == Act("repair") \/ ListChannels \/ StoreScopeMetadata \/ SelectChannels
          \/ \E c \in Channels : CrawlPage(c)
Discord == \E c \in Channels : DeleteAtDiscord(c) \/ \E p \in Channels \cup {None} : MoveAtDiscord(c, p)

\* Was the target in scope at some moment since its admission began?
Admitting == {"open", "read", "set", "check", "ask", "keep", "granted", "fetched"}
Watch == since' = [a \in Actors |->
            /\ pc'[a] \in Admitting /\ target'[a] # None /\ policy' = policy
            /\ since[a] \/ InScope(policy', target'[a], rows')]

Step == \/ Live \/ Repair \/ StartSync \/ NewResolver \/ OnGuildUpsert \/ Discord
        \/ \E a \in Actors, c \in Channels : Message(a, c)
        \/ \E p \in Policies : Restart(p)
Next == Step /\ Watch

Spec == /\ Init /\ [][Next]_vars
        /\ WF_vars(Live /\ Watch) /\ WF_vars(Repair /\ Watch) /\ SF_vars(StartSync /\ Watch)

(***************************************************************************)
(* Properties.                                                             *)
(***************************************************************************)
TypeOK ==
    /\ rows \in [Channels -> [known : BOOLEAN, parent : Channels \cup {None},
                             kind : {"unknown"} \cup {Kind[c] : c \in Channels}, dead : BOOLEAN,
                             scope : {"allowed", "excluded", "unknown"}, policy : Policies \cup {None}]]
    /\ \A a \in Actors : dirty[a] \subseteq Channels /\ newer[a] \subseteq Channels

\* A stored "allowed" still follows from the stored rows: no move, deletion or
\* late decision of another actor leaves it behind (invalidateChannelScope and
\* the revision check of SetChannelScopes).
AllowedIsCurrent ==
    \A c \in Channels : \A p \in Policies :
        rows[c].known /\ rows[c].scope = "allowed" /\ rows[c].policy = p => Scope(p, c, rows) = "allowed"

\* Content is requested only if the channel was in scope at some moment since
\* the admission began: a cached decision of an earlier time is never enough
\* (scopeCacheStale).  And it is committed only while the channel is in the scope
\* of the running configuration, whatever was decided before the fetch
\* (requireMessageScope).
ContentInScope ==
    [][\A a \in Actors : /\ pc'[a] = "granted" => since'[a]
                         /\ UpsertMessages(a) => InScope(policy, target[a], rows)]_vars

\* A REST answer or a catalogue that was under way when a deletion was recorded
\* never brings the channel back.
TombstoneStays == [][\A c \in Channels : rows[c].dead => rows'[c].dead]_vars

\* When Discord and the operator stop changing things, the stored decisions
\* become the ones the running configuration makes over the stored rows.
ScopesSettle ==
    <>[](\A c \in Channels : rows[c].known =>
            rows[c].policy = policy /\ rows[c].scope = Scope(policy, c, rows))
=============================================================================

----------------------------- MODULE MemberSync -----------------------------
(***************************************************************************)
(* The members of one guild: the Gateway's add, update and remove events,  *)
(* the full enumeration of a sync or of the tail's repair with its batched *)
(* merge and its receipt, the replay of failed member events by exact      *)
(* lookups, and the offline reconciliation of rows the archive lacks.      *)
(*                                                                         *)
(* One owner runs at a time: a tail (its Gateway handlers next to one      *)
(* repair), a sync or a reconciliation.  A point in time is only compared  *)
(* with the start of the observation under way, so all that is kept of a   *)
(* row's updated_at and observed check is whether they are later: the set  *)
(* "since".                                                                *)
(***************************************************************************)
EXTENDS Naturals, FiniteSets, FiniteSetsExt, Sequences, SequencesExt

CONSTANTS
    Users,       \* user ids, in the order of the listing
    Posts,       \* messages named by a reconciliation plan
    Values,      \* the contents of a member or of a message
    PageSize,    \* members of a full page of the listing (1000)
    BatchSize,   \* memberRefreshBatchSize
    Workers,     \* tailWorkerCount: the workers of the queue of member events
    None, Gone,  \* no row or no answer; a tombstone or an absent member
    MaxChanges,  \* bound on the changes at Discord
    MaxCommands, \* bound on sync and reconciliation commands
    MaxFaults    \* bound on failures, stops and events lost by the Gateway

Keys == Users \cup Posts

ASSUME MemberSyncAssumption ==
    /\ Users \subseteq Nat \ {0} /\ IsFiniteSet(Users) /\ Users \cap Posts = {}
    /\ {None, Gone} \cap Values = {} /\ None # Gone
    /\ PageSize \in Nat \ {0} /\ BatchSize \in Nat \ {0} /\ Workers \in Nat \ {0}
    /\ MaxChanges \in Nat /\ MaxCommands \in Nat /\ MaxFaults \in Nat

VARIABLES
    truth,      \* Discord's state of every key, and the revision it is at
    rows,       \* the archived state, and the revision it was taken from
    since,      \* rows observed after the observation under way began
    events,     \* Gateway events of the tail, oldest first, queued or in a worker's hands
    ledger,     \* pending tail_metadata failures: a user and an event kind
    incomplete, \* a pending guild_members failure
    receipt,    \* members:last_success: "none", "fresh" or "old"
    owner,      \* "none", "tail", "sync" or "reconcile"
    force,      \* RequireMembers
    pc,         \* where the observer of the owner is
    after,      \* the cursor of the listing
    listed,     \* observations taken and not yet stored
    page,       \* the failures listed by the replay
    current,    \* the one being replayed
    renewed,    \* those of them recorded again since
    first,      \* the revisions at the start of the enumeration
    handled,    \* users whose Gateway events were handled since then
    missed,     \* users whose last removal reached no handler, or was overtaken
    changes, commands, faults

archive == <<rows, ledger, incomplete, receipt>>
observer == <<pc, force, since, after, listed, page, current, renewed, first>>
provider == <<truth, events, missed, changes>>
vars == <<archive, observer, provider, owner, handled, commands, faults>>

Kinds == {"upsert", "remove"}
Failures == Users \X Kinds
Event(u) == [user |-> u, kind |-> IF truth[u].val = Gone THEN "remove" ELSE "upsert",
             val |-> truth[u].val, rev |-> truth[u].rev]
Read(k) == [key |-> k, val |-> truth[k].val, rev |-> truth[k].rev]

Init ==
    /\ truth = [k \in Keys |-> [val |-> IF k \in Users THEN Gone ELSE CHOOSE v \in Values : TRUE, rev |-> 0]]
    /\ rows = [k \in Keys |-> [val |-> None, rev |-> 0]]
    /\ since = {} /\ events = <<>> /\ ledger = {} /\ incomplete = FALSE /\ receipt = "none"
    /\ owner = "none" /\ force = FALSE /\ pc = "idle"
    /\ after = 0 /\ listed = <<>> /\ page = {} /\ current = None /\ renewed = {}
    /\ first = [u \in Users |-> 0] /\ handled = {} /\ missed = {}
    /\ changes = 0 /\ commands = 0 /\ faults = 0

Fault == faults < MaxFaults /\ faults' = faults + 1

(***************************************************************************)
(* Discord: a user joins, changes or leaves, a message is deleted.  Only a *)
(* connected tail is told, and the Gateway may lose the event.             *)
(***************************************************************************)
Change(k, v) ==
    /\ changes < MaxChanges /\ changes' = changes + 1
    /\ v # truth[k].val /\ (k \in Posts => v = Gone)
    /\ truth' = [truth EXCEPT ![k] = [val |-> v, rev |-> @.rev + 1]]

Deliver(k, v) ==
    /\ owner = "tail" /\ k \in Users
    /\ Change(k, v)
    /\ events' = Append(events, Event(k)')
    /\ missed' = missed \ {k}
    /\ UNCHANGED <<archive, observer, owner, handled, commands, faults>>

Lose(k, v) ==
    /\ IF owner = "tail" /\ k \in Users THEN Fault ELSE UNCHANGED faults
    /\ Change(k, v)
    /\ missed' = IF k \in Users /\ v = Gone THEN missed \cup {k} ELSE missed \ {k}
    /\ UNCHANGED <<archive, observer, events, owner, handled, commands>>

(***************************************************************************)
(* The writes.  An unchanged member writes no row, yet its check moves.    *)
(***************************************************************************)
Enumerating == pc \in {"page", "merge", "receipt"}
Observing == Enumerating \/ pc \in {"fetch", "apply"}
Touched(k) == IF Observing THEN since \cup {k} ELSE {}
Stored(S, o) == [S EXCEPT ![o.key] = [val |-> o.val, rev |-> o.rev]]
\* Bug variant: the check of an unchanged row does not advance.
ObserveChanges(o) ==
    /\ rows' = Stored(rows, o)
    /\ since' = IF rows[o.key].val = o.val THEN since ELSE Touched(o.key)
upsertMemberTx(o) ==
    /\ rows' = Stored(rows, o)
    /\ since' = Touched(o.key)
MarkMemberDeleted(o) ==
    /\ rows' = Stored(rows, o)
    /\ since' = Touched(o.key)
Write(o) == IF o.val = Gone THEN MarkMemberDeleted(o) ELSE upsertMemberTx(o)

\* UpsertObservedMember and MarkObservedMemberDeleted: a row observed after the
\* request began is left alone.
WriteObserved(o) == IF o.key \in since THEN UNCHANGED <<rows, since>> ELSE Write(o)

(***************************************************************************)
(* The Gateway handlers of the tail.  Its workers take the events from one *)
(* queue and run at the same time, so of the oldest events, one for every  *)
(* worker, any may be the next to commit, two of the same user included.   *)
(* A failed handler may have committed its write before its deadline; its  *)
(* event goes to the ledger.                                               *)
(***************************************************************************)
InHand == 1 .. Min({Workers, Len(events)})
Told(e) == [key |-> e.user, val |-> e.val, rev |-> e.rev]
Handled(u) == IF Enumerating THEN handled \cup {u} ELSE {}

\* The history of removals: a handler stores an event from before the removal
\* once no handler and no replay will store the removal any more.
TakesEffect(e) == e.kind = "remove" /\ e.rev = truth[e.user].rev
ToBeStored(u) ==
    \/ \E i \in DOMAIN events : events[i].user = u /\ TakesEffect(events[i])
    \/ <<u, "remove">> \in ledger \ ({current} \ renewed)
Overtaken(e) == {u \in {e.user} : e.kind = "upsert" /\ truth[u].val = Gone /\ ~ToBeStored(u)}
StillMissed(S) == {u \in S : rows'[u].rev # truth[u].rev}

Handle(i) ==
    /\ Write(Told(events[i]))
    /\ handled' = Handled(events[i].user) /\ missed' = StillMissed(missed \cup Overtaken(events[i]))
    /\ events' = RemoveAt(events, i)
    /\ UNCHANGED <<truth, changes, ledger, incomplete, receipt, pc, force, after, listed, page, current,
                   renewed, first, owner, commands, faults>>

HandleFails(i) ==
    /\ Fault
    /\ \/ /\ Write(Told(events[i]))
          /\ handled' = Handled(events[i].user) /\ missed' = StillMissed(missed \cup Overtaken(events[i]))
       \/ UNCHANGED <<rows, since, handled, missed>>
    /\ LET f == <<events[i].user, events[i].kind>> IN
         /\ ledger' = ledger \cup {f}
         /\ renewed' = renewed \cup ({f} \cap page)
    /\ events' = RemoveAt(events, i)
    /\ UNCHANGED <<truth, changes, incomplete, receipt, pc, force, after, listed, page, current, first,
                   owner, commands>>

(***************************************************************************)
(* Owners start and end.                                                   *)
(***************************************************************************)
StartTail ==
    /\ owner = "none" /\ owner' = "tail"
    /\ UNCHANGED <<archive, observer, provider, handled, commands, faults>>

Command == owner = "none" /\ commands < MaxCommands /\ commands' = commands + 1

StartSync(required) ==
    /\ Command
    /\ owner' = "sync" /\ force' = required /\ pc' = "gate"
    /\ UNCHANGED <<archive, since, after, listed, page, current, renewed, first, provider, handled, faults>>

StartRepair ==
    /\ owner = "tail" /\ pc = "idle"
    /\ pc' = "gate"
    /\ UNCHANGED <<archive, since, force, after, listed, page, current, renewed, first, provider, owner, handled,
                   commands, faults>>

Clear ==
    /\ force' = FALSE /\ after' = 0 /\ listed' = <<>> /\ page' = {} /\ current' = None /\ renewed' = {}
    /\ since' = {} /\ first' = [u \in Users |-> 0] /\ handled' = {}

\* The owner is cancelled or killed: what is queued or under way is gone.
Stop ==
    /\ owner # "none" /\ Fault
    /\ owner' = "none" /\ pc' = "idle" /\ Clear
    /\ events' = <<>>
    /\ missed' = missed \cup {u \in Users : \E i \in DOMAIN events : events[i].user = u /\ TakesEffect(events[i])}
    /\ UNCHANGED <<archive, truth, changes, commands>>

\* The refresh is over: a repair goes on to its replay, a sync ends.
EndRefresh ==
    /\ pc' = IF owner = "tail" THEN "list" ELSE "idle"
    /\ owner' = IF owner = "tail" THEN owner ELSE "none"
    /\ Clear

(***************************************************************************)
(* refreshGuildMembers.                                                    *)
(***************************************************************************)
Expire ==
    /\ receipt = "fresh" /\ receipt' = "old"
    /\ UNCHANGED <<rows, ledger, incomplete, observer, provider, owner, handled, commands, faults>>

\* Bug variant: one completed enumeration is enough for ever.
RefreshOnce == force \/ receipt = "none"
shouldRefreshMembers == force \/ receipt # "fresh"

Begin ==
    /\ pc = "gate" /\ shouldRefreshMembers
    /\ pc' = "page" /\ since' = {} /\ handled' = {}
    /\ first' = [u \in Users |-> truth[u].rev]
    /\ UNCHANGED <<rows, ledger, incomplete, receipt, force, after, listed, page, current, renewed, provider,
                   owner, commands, faults>>

\* The receipt is recent, or the sync failed before it came to the members.
Skip ==
    /\ pc = "gate"
    /\ \/ ~shouldRefreshMembers /\ UNCHANGED faults
       \/ Fault
    /\ EndRefresh
    /\ UNCHANGED <<archive, provider, commands>>

\* GuildMemberEnumeration: a page that is not full ends the listing.
Present == {u \in Users : truth[u].val # Gone}
PageAfter(n) == LET rest == SetToSortSeq({u \in Present : u > n}, <) IN
    SubSeq(rest, 1, Min({PageSize, Len(rest)}))
\* Bug variant: one page is taken for the whole listing.
TerminalFull(p) == Len(p) <= PageSize
Terminal(p) == Len(p) < PageSize

Page ==
    /\ pc = "page"
    /\ LET p == PageAfter(after) IN
         /\ listed' = listed \o [i \in DOMAIN p |-> Read(p[i])]
         /\ after' = IF p = <<>> THEN after ELSE Last(p)
         /\ pc' = IF Terminal(p) THEN "merge" ELSE "page"
    /\ UNCHANGED <<archive, since, force, page, current, renewed, first, provider, owner, handled, commands, faults>>

\* mergeObservedMemberBatch: one transaction, no absent member is touched.
Batch == SubSeq(listed, 1, Min({BatchSize, Len(listed)}))
MergeBatch ==
    /\ pc = "merge" /\ listed # <<>>
    /\ LET taken == {o \in ToSet(Batch) : o.key \notin since}
           at(k) == CHOOSE o \in taken : o.key = k
           keys == {o.key : o \in taken} IN
         /\ rows' = [k \in Keys |-> IF k \in keys THEN [val |-> at(k).val, rev |-> at(k).rev] ELSE rows[k]]
         /\ since' = since \cup keys
    /\ listed' = SubSeq(listed, Len(Batch) + 1, Len(listed))
    /\ UNCHANGED <<ledger, incomplete, receipt, pc, force, after, page, current, renewed, first, provider, owner,
                   handled, commands, faults>>

Merged ==
    /\ pc = "merge" /\ listed = <<>>
    /\ incomplete' = FALSE /\ pc' = "receipt"
    /\ UNCHANGED <<rows, since, ledger, receipt, force, after, listed, page, current, renewed, first, provider,
                   owner, handled, commands, faults>>

Receipt ==
    /\ pc = "receipt"
    /\ receipt' = "fresh"
    /\ EndRefresh
    /\ UNCHANGED <<rows, ledger, incomplete, provider, commands, faults>>

\* A request, a transaction or the deadline fails: the batches that were
\* committed stay, the receipt does not move.
RecordRefreshFailure == incomplete' = TRUE /\ UNCHANGED receipt
RefreshFails ==
    /\ pc \in {"page", "merge", "receipt"} /\ Fault
    /\ RecordRefreshFailure
    /\ EndRefresh
    /\ UNCHANGED <<rows, ledger, provider, commands>>

(***************************************************************************)
(* replayMetadataFailures: every failed event is judged by an exact lookup *)
(* of its own.  The code takes five at a time, more than the bound on      *)
(* faults lets fail.                                                       *)
(***************************************************************************)
ListFailures ==
    /\ pc = "list"
    /\ \/ page' = ledger /\ UNCHANGED faults
       \/ page' = {} /\ Fault
    /\ renewed' = {}
    /\ pc' = IF page' = {} THEN "idle" ELSE "ask"
    /\ UNCHANGED <<archive, since, force, after, listed, current, first, provider, owner, handled, commands>>

Leave ==
    /\ page' = page \ {current} /\ renewed' = renewed \ {current}
    /\ listed' = <<>> /\ current' = None /\ since' = {}
    /\ pc' = IF page = {current} THEN "idle" ELSE "ask"

Abandon ==
    /\ page' = {} /\ renewed' = {}
    /\ listed' = <<>> /\ current' = None /\ since' = {}
    /\ pc' = "idle"

Ask(f) ==
    /\ pc = "ask" /\ f \in page
    /\ pc' = "fetch" /\ current' = f /\ since' = {}
    /\ UNCHANGED <<rows, ledger, incomplete, receipt, force, after, listed, page, renewed, first,
                   provider, owner, handled, commands, faults>>

GuildMember ==
    /\ pc = "fetch"
    /\ listed' = <<Read(current[1])>>
    /\ pc' = "apply"
    /\ UNCHANGED <<archive, since, force, after, page, current, renewed, first, provider, owner, handled, commands, faults>>

\* An Unknown Member proves a removal, a current member is the newer answer; a
\* failed update of a member who left has nothing to apply.
replayMemberRemove(o) == WriteObserved(o)
replayMemberUpdate(o) == IF o.val = Gone THEN UNCHANGED <<rows, since>> ELSE WriteObserved(o)

Apply ==
    /\ pc = "apply"
    /\ IF current[2] = "remove" THEN replayMemberRemove(listed[1]) ELSE replayMemberUpdate(listed[1])
    /\ missed' = StillMissed(missed)
    /\ pc' = "settle"
    /\ UNCHANGED <<ledger, incomplete, receipt, force, after, listed, page, current, renewed, first, truth, events,
                   changes, owner, handled, commands, faults>>

ResolveFailureGeneration(f) == ledger' = IF f \in renewed THEN ledger ELSE ledger \ {f}

Settle ==
    /\ pc = "settle"
    /\ ResolveFailureGeneration(current)
    /\ Leave
    /\ UNCHANGED <<rows, incomplete, receipt, force, after, first, provider, owner,
                   handled, commands, faults>>

\* The lookup or the write fails: the failure stays, and its retry is counted.
\* When that, or the resolution, fails too, the rest of the page waits as well.
ReplayFails ==
    /\ pc \in {"fetch", "apply", "settle"} /\ Fault
    /\ (pc # "settle" /\ Leave) \/ Abandon
    /\ UNCHANGED <<archive, force, after, first, provider, owner, handled, commands>>

(***************************************************************************)
(* ReconcileMissing: every lookup first, then the writes, one by one.      *)
(***************************************************************************)
StartReconcile ==
    /\ Command
    /\ owner' = "reconcile" /\ pc' = "lookup"
    /\ UNCHANGED <<archive, since, force, after, listed, page, current, renewed, first, provider, handled, faults>>

Looked == {o.key : o \in ToSet(listed)}
Absent == {k \in Keys : rows[k].val = None}

Lookup(k) ==
    /\ pc = "lookup" /\ k \in Absent \ Looked
    /\ k \in Posts => Absent \cap Users \subseteq Looked
    /\ listed' = Append(listed, Read(k))
    /\ UNCHANGED <<archive, since, pc, force, after, page, current, renewed, first, provider, owner, handled, commands, faults>>

AllLooked ==
    /\ pc = "lookup" /\ Absent \subseteq Looked
    /\ pc' = "restore"
    /\ UNCHANGED <<archive, since, force, after, listed, page, current, renewed, first, provider, owner, handled, commands, faults>>

\* A message is stored in the same two ways: live, or as a tombstone.
Restore ==
    /\ pc = "restore" /\ listed # <<>>
    /\ Write(Head(listed))
    /\ listed' = Tail(listed)
    /\ UNCHANGED <<ledger, incomplete, receipt, pc, force, after, page, current, renewed, first, provider, owner,
                   handled, commands, faults>>

\* The plan is done, or an access check, a lookup or a write failed.
EndReconcile ==
    /\ \/ pc = "restore" /\ listed = <<>> /\ UNCHANGED faults
       \/ pc \in {"lookup", "restore"} /\ Fault
    /\ owner' = "none" /\ pc' = "idle" /\ Clear
    /\ UNCHANGED <<archive, provider, commands>>

Observer ==
    \/ StartRepair \/ Begin \/ Skip \/ Page \/ MergeBatch \/ Merged \/ Receipt \/ RefreshFails
    \/ ListFailures \/ (\E f \in page : Ask(f)) \/ GuildMember \/ Apply \/ Settle \/ ReplayFails
    \/ (\E k \in Keys : Lookup(k)) \/ AllLooked \/ Restore \/ EndReconcile

Next ==
    \/ \E k \in Keys, v \in Values \cup {Gone} : Deliver(k, v) \/ Lose(k, v)
    \/ \E i \in InHand : Handle(i) \/ HandleFails(i)
    \/ StartTail \/ (\E required \in BOOLEAN : StartSync(required)) \/ StartReconcile \/ Stop
    \/ Expire
    \/ Observer

(***************************************************************************)
(* A running tail handles what is queued and repairs again and again; a    *)
(* stopped one is started again by its service; a day passes.              *)
(***************************************************************************)
Fairness == WF_vars(\E i \in InHand : Handle(i)) /\ WF_vars(Observer) /\ WF_vars(StartTail) /\ WF_vars(Expire)

Spec == Init /\ [][Next]_vars /\ Fairness

TypeOK ==
    /\ since \subseteq Keys /\ handled \subseteq Users /\ missed \subseteq Users
    /\ ledger \subseteq Failures /\ page \subseteq Failures /\ current \in Failures \cup {None} /\ renewed \subseteq page
    /\ receipt \in {"none", "fresh", "old"} /\ incomplete \in BOOLEAN /\ force \in BOOLEAN
    /\ owner \in {"none", "tail", "sync", "reconcile"}
    /\ pc \in {"idle", "gate", "page", "merge", "receipt", "list", "ask", "fetch", "apply", "settle",
               "lookup", "restore"}
    /\ \A k \in Keys : rows[k].rev <= truth[k].rev

(***************************************************************************)
(* MergeObservedMembers, replayMetadataFailures and ReconcileMissing never *)
(* replace what the archive holds of a member by an older state, a removal *)
(* or a rejoin included: whatever the Gateway stored after the observation *)
(* began wins, and so does an event that changed nothing.                  *)
(***************************************************************************)
ObserverNeverOlder ==
    [][(MergeBatch \/ Apply \/ Restore) => \A k \in Keys : rows'[k].rev >= rows[k].rev]_vars

(***************************************************************************)
(* members:last_success advances only when the archive has every member    *)
(* who was in the guild when the enumeration began and still is, as new as *)
(* that moment, save those a Gateway event was stored for meanwhile.       *)
(***************************************************************************)
ReceiptIsComplete ==
    [][receipt' = "fresh" /\ receipt # "fresh" =>
        \A u \in Present : truth[u].rev = first[u] =>
            u \in handled \/ rows'[u].rev = first[u]]_vars

(***************************************************************************)
(* Once Discord is quiet and nothing fails, every member is archived as    *)
(* Discord has it, whatever the Gateway lost and in whatever order its     *)
(* events were stored.  A user who left has no live row, with two          *)
(* exceptions that no later repair finds: no handler was ever told of the  *)
(* removal, or a worker stored an earlier event of the user after it.      *)
(***************************************************************************)
MembersSettle ==
    <>[](\A u \in Users :
            IF truth[u].val = Gone THEN rows[u].val \notin Values \/ u \in missed
            ELSE rows[u].val = truth[u].val)

(***************************************************************************)
(* Not so in the code: a handler that succeeds never stores an event from  *)
(* before a removal over it.  Two workers may store a join and the leave   *)
(* that follows it in reverse order, and the live row stays for good.      *)
(***************************************************************************)
HandlersKeepRemovals ==
    [][(\E i \in InHand : Handle(i)) => missed' \subseteq missed]_vars

=============================================================================

----------------------------- MODULE ShareImport -----------------------------
(***************************************************************************)
(* The subscriber's side of a shared archive.  A publisher pushes          *)
(* snapshots; discrawl subscribe, update and the automatic update of the   *)
(* read commands pull them and either merge the changed shards into the    *)
(* local archive or replace its public tables.  The archive may also be    *)
(* fed by a local sync or tail.  Writers of the archive exclude each other *)
(* (module TailSession), so at most one command is under way; it may be    *)
(* cancelled or killed between any two commits.                            *)
(*                                                                         *)
(* Each shard of a snapshot holds one row.  A row is known by the times    *)
(* its archive stamps on it: rev is its updated_at, and seen, which is not *)
(* stored, the last moment at which its content is known to be right.  A   *)
(* tombstone is a change like any other, and its index entry is none.      *)
(***************************************************************************)
EXTENDS Naturals, Sequences, SequencesExt, FiniteSets, FiniteSetsExt

CONSTANTS
    Messages,        \* message and channel rows
    Entities,        \* guild and member rows
    MaxTime,         \* bound on the clock
    MaxPublications,
    MaxExact,        \* bound on exact imports
    MaxFaults        \* bound on cancelled and killed commands

ASSUME ShareImportAssumption ==
    /\ Messages \cap Entities = {}
    /\ {MaxTime, MaxPublications, MaxExact, MaxFaults} \subseteq Nat

Rows == Messages \cup Entities
Indexes == {"message_fts", "member_fts"}
IndexOf(r) == IF r \in Messages THEN "message_fts" ELSE "member_fts"

VARIABLES
    clock,
    source,     \* the publisher's rows
    sourceLog,  \* the publisher's events
    published,  \* the snapshots pushed so far, oldest first
    rows,       \* the local rows
    checked,    \* entity_checks: when a row was last observed unchanged
    log,        \* how often each published event is in the local event tables
    ownEvents,  \* are there events of the local tail
    imported, merged, \* the manifests in sync_state, 0 when there is none
    pending,    \* share:pending_replacement
    stamped,    \* the indexes whose version is in sync_state
    present,    \* the index tables that exist
    indexed,    \* the revision under which a row is indexed, 0 when it is not
    worktree,   \* the snapshot checked out in the share repository
    pc, target, plan, \* the command under way and its snapshot and shards
    exacts, faults

publisher == <<source, sourceLog, published>>
archive == <<rows, checked, log, ownEvents>>
state == <<imported, merged, pending>>
search == <<stamped, present, indexed>>
vars == <<clock, publisher, archive, state, search, worktree, pc, target, plan, exacts, faults>>

Absent == [rev |-> 0, seen |-> 0]
Stored(r) == rows[r].rev > 0
NoPlan == [rows |-> {}, events |-> FALSE]

Init ==
    /\ clock = 0
    /\ source = [r \in Rows |-> Absent] /\ sourceLog = {} /\ published = <<>>
    /\ rows = [r \in Rows |-> Absent] /\ checked = [r \in Rows |-> 0]
    /\ log = [t \in 1 .. MaxTime |-> 0] /\ ownEvents = FALSE
    /\ imported = 0 /\ merged = 0 /\ pending = FALSE
    /\ stamped = Indexes /\ present = Indexes /\ indexed = [r \in Rows |-> 0]
    /\ worktree = 0
    /\ pc = "closed" /\ target = 0 /\ plan = NoPlan
    /\ exacts = 0 /\ faults = 0

-----------------------------------------------------------------------------
(* The publisher.  The subscriber sees its steps only when it pulls, so they *)
(* are taken while no command is under way: any other order of them leads to *)
(* the same states.                                                          *)

Row(t) == [rev |-> t, seen |-> t]
Tick == clock < MaxTime /\ clock' = clock + 1

SourceChanges(r) ==
    /\ pc = "closed" /\ Tick
    /\ source' = [source EXCEPT ![r] = Row(clock')]
    /\ sourceLog' = IF r \in Messages THEN sourceLog \cup {clock'} ELSE sourceLog
    /\ UNCHANGED <<published, archive, state, search, worktree, pc, target, plan, exacts, faults>>

\* A filtered publication carries neither the publisher's share state nor its
\* index versions; any other carries both, the share state of some earlier push.
allowSyncState(filtered) ==
    IF filtered THEN [manifests |-> {0}, stamps |-> {}]
                ELSE [manifests |-> 0 .. Len(published), stamps |-> Indexes]

\* A publication breaks when a shard of the preceding one is gone or a table
\* has incompatible columns.  Publications of the same rows are one.
Publish(kind) ==
    /\ pc = "closed" /\ Len(published) < MaxPublications
    /\ \A n \in DOMAIN published : published[n].rows # source
    /\ LET carried == allowSyncState(kind = "filtered") IN
       \E m \in carried.manifests :
            published' = Append(published,
                [rows |-> source, events |-> sourceLog, breaks |-> kind = "breaks",
                 manifest |-> m, stamps |-> carried.stamps])
    /\ UNCHANGED <<clock, source, sourceLog, archive, state, search, worktree, pc, target, plan, exacts, faults>>

-----------------------------------------------------------------------------
(* Opening the archive, and its local writers *)

\* The indexes whose recorded version is not the expected one are rebuilt.
ensureFTSVersion == Indexes \ stamped

Open ==
    /\ pc = "closed"
    /\ pc' = "open"
    /\ indexed' = [r \in Rows |-> IF IndexOf(r) \in ensureFTSVersion THEN rows[r].rev ELSE indexed[r]]
    /\ present' = present \cup ensureFTSVersion
    /\ stamped' = Indexes
    /\ UNCHANGED <<clock, publisher, archive, state, worktree, target, plan, exacts, faults>>

Close ==
    /\ pc = "open"
    /\ pc' = "closed"
    /\ UNCHANGED <<clock, publisher, archive, state, search, worktree, target, plan, exacts, faults>>

\* A row the local sync or tail found changed: it is written with its index
\* entry and its check.  A removal writes a tombstone and no check.
Upsert(r, checks) ==
    /\ pc = "open" /\ IndexOf(r) \in present /\ Tick
    /\ rows' = [rows EXCEPT ![r] = Row(clock')]
    /\ checked' = [checked EXCEPT ![r] = IF checks THEN clock' ELSE @]
    /\ indexed' = [indexed EXCEPT ![r] = clock']
    /\ ownEvents' = (ownEvents \/ r \in Messages)
    /\ UNCHANGED <<publisher, log, state, stamped, present, worktree, pc, target, plan, exacts, faults>>

UpsertChanged(r) == Upsert(r, TRUE)
MarkMemberDeleted(r) == r \in Entities /\ Upsert(r, FALSE)

\* A row found as it is stored: only the check is recorded.
UpsertUnchanged(r) ==
    /\ pc = "open" /\ Stored(r) /\ Tick
    /\ checked' = [checked EXCEPT ![r] = clock']
    /\ rows' = [rows EXCEPT ![r].seen = clock']
    /\ UNCHANGED <<publisher, log, ownEvents, state, search, worktree, pc, target, plan, exacts, faults>>

-----------------------------------------------------------------------------
(* subscribe, update and the automatic update *)

\* Pull moves the checkout to the remote's head; update --no-fetch does not.
Update(next) ==
    /\ pc = "open"
    /\ pc' = next
    /\ worktree' \in {worktree, Len(published)}
    /\ worktree' > 0
    /\ target' = worktree'
    /\ UNCHANGED <<clock, publisher, archive, state, search, plan, faults>>

UpdateMerge == Update("plan") /\ UNCHANGED exacts

UpdateExact == exacts < MaxExact /\ Update("replace") /\ exacts' = exacts + 1

\* update --ref --force imports any earlier snapshot and leaves the checkout.
ImportAt ==
    /\ pc = "open" /\ exacts < MaxExact
    /\ \E n \in 1 .. Len(published) : target' = n
    /\ pc' = "replace" /\ exacts' = exacts + 1
    /\ UNCHANGED <<clock, publisher, archive, state, search, worktree, plan, faults>>

-----------------------------------------------------------------------------
(* MergeIfChanged *)

PreviousImportedManifest == imported
PreviousMergedManifest == IF merged > 0 THEN merged ELSE PreviousImportedManifest

eventTablesEmpty == ~ownEvents /\ \A t \in DOMAIN log : log[t] = 0
\* Bug variant: whatever events the archive has.
EventsWhenNew == PreviousMergedManifest = 0
EventsAllowed == PreviousMergedManifest = 0 /\ eventTablesEmpty

\* The shards of the target that the previous manifest, an earlier or a later
\* one, does not list.
PlanMergeImport ==
    LET p == PreviousMergedManifest IN
    [full |-> p > 0 /\ \E n \in (p + 1 .. target) \cup (target + 1 .. p) : published[n].breaks,
     rows |-> {r \in Rows : published[target].rows[r].rev > 0
                 /\ (p > 0 => published[p].rows[r].rev # published[target].rows[r].rev)},
     events |-> published[target].events # {}
                 /\ (p > 0 => published[p].events # published[target].events)]

MarkReplacementPending ==
    /\ pc = "plan" /\ PlanMergeImport.full
    /\ pending' = TRUE /\ pc' = "closed" /\ target' = 0
    /\ UNCHANGED <<clock, publisher, archive, imported, merged, search, worktree, plan, exacts, faults>>

shareMergePlan ==
    [rows |-> PlanMergeImport.rows, events |-> PlanMergeImport.events /\ EventsAllowed]

PlanMerge ==
    /\ pc = "plan" /\ ~PlanMergeImport.full
    /\ plan' = shareMergePlan
    /\ pc' = IF shareMergePlan = NoPlan THEN "mark" ELSE "merge"
    /\ UNCHANGED <<clock, publisher, archive, state, search, worktree, target, exacts, faults>>

\* Bug variant: the checks of an unchanged row do not count.
FenceOfRow(r) == rows[r].rev
Fence(r) == Max({rows[r].rev, checked[r]})

\* Rows of one revision are one row.
shouldMergeObservedEntityRow(r) ==
    ~Stored(r) \/ published[target].rows[r].rev >= Fence(r)

Applied == {r \in plan.rows : shouldMergeObservedEntityRow(r)}
upsertSnapshotRow(r) == IF r \in Applied THEN published[target].rows[r] ELSE rows[r]

\* Bug variant: members that are updated do not count.
RebuildForNewMembers == \E r \in plan.rows \cap Entities : ~Stored(r)
mergePlanSearchRebuilds == plan.rows \cap Entities # {}

\* One transaction.  A message row is indexed with it; without the index table
\* the import fails.
importMergeSnapshotRows ==
    /\ pc = "merge" /\ (Applied \cap Messages # {} => "message_fts" \in present)
    /\ rows' = [r \in Rows |-> upsertSnapshotRow(r)]
    /\ indexed' = [r \in Rows |-> IF r \in Applied \cap Messages
                                   THEN published[target].rows[r].rev ELSE indexed[r]]
    /\ log' = IF plan.events
                THEN [t \in DOMAIN log |-> log[t] + (IF t \in published[target].events THEN 1 ELSE 0)]
                ELSE log
    /\ pc' = IF mergePlanSearchRebuilds THEN "members" ELSE "mark"
    /\ UNCHANGED <<clock, publisher, checked, ownEvents, state, stamped, present, worktree, target, plan, exacts, faults>>

MergeFails ==
    /\ pc = "merge" /\ Applied \cap Messages # {} /\ "message_fts" \notin present
    /\ pc' = "closed" /\ target' = 0 /\ plan' = NoPlan
    /\ UNCHANGED <<clock, publisher, archive, state, search, worktree, exacts, faults>>

Rebuild(i) ==
    /\ indexed' = [r \in Rows |-> IF IndexOf(r) = i THEN rows[r].rev ELSE indexed[r]]
    /\ present' = present \cup {i}

RebuildMemberSearchIndex ==
    /\ pc = "members"
    /\ Rebuild("member_fts") /\ stamped' = stamped \cup {"member_fts"}
    /\ pc' = "mark"
    /\ UNCHANGED <<clock, publisher, archive, state, worktree, target, plan, exacts, faults>>

\* Each scope of the share state is a write of its own.
MarkMerged ==
    \/ /\ pc = "mark"
       /\ merged' = target /\ pc' = "clear"
       /\ UNCHANGED <<imported, pending>>
    \/ /\ pc = "clear"
       /\ pending' = FALSE /\ pc' = "open"
       /\ UNCHANGED <<imported, merged>>

MarkMergedStep ==
    /\ MarkMerged
    /\ plan' = NoPlan /\ target' = IF pc' = "open" THEN 0 ELSE target
    /\ UNCHANGED <<clock, publisher, archive, search, worktree, exacts, faults>>

-----------------------------------------------------------------------------
(* Replace *)

clearReplacedEntityChecks == [r \in Rows |-> 0]

\* Bug variant: the merge record outlives an exact replacement.
KeptState == merged
ReplacedState == published[target].manifest

\* One transaction: the tables are cleared, sync_state among them, and filled
\* from the snapshot; both search indexes are dropped.
importSnapshot ==
    /\ pc = "replace"
    /\ rows' = published[target].rows
    /\ checked' = clearReplacedEntityChecks
    /\ log' = [t \in DOMAIN log |-> IF t \in published[target].events THEN 1 ELSE 0]
    /\ ownEvents' = FALSE
    /\ imported' = published[target].manifest /\ merged' = ReplacedState /\ pending' = FALSE
    /\ stamped' = published[target].stamps
    /\ present' = {} /\ indexed' = [r \in Rows |-> 0]
    /\ pc' = "rebuild_fts"
    /\ UNCHANGED <<clock, publisher, worktree, target, plan, exacts, faults>>

RebuildSearchIndexes ==
    \/ /\ pc = "rebuild_fts"
       /\ Rebuild("message_fts") /\ pc' = "rebuild_member_fts" /\ UNCHANGED stamped
    \/ /\ pc = "rebuild_member_fts"
       /\ Rebuild("member_fts") /\ pc' = "stamp" /\ UNCHANGED stamped
    \/ /\ pc = "stamp"
       /\ stamped' = Indexes /\ pc' = "imported" /\ UNCHANGED <<present, indexed>>

RebuildStep ==
    /\ RebuildSearchIndexes
    /\ UNCHANGED <<clock, publisher, archive, state, worktree, target, plan, exacts, faults>>

MarkImported ==
    /\ pc = "imported"
    /\ imported' = target /\ pc' = "mark"
    /\ UNCHANGED <<clock, publisher, archive, merged, pending, search, worktree, target, plan, exacts, faults>>

-----------------------------------------------------------------------------

\* A signal cancels the command's context, or the process is killed: what is
\* committed stays, an open transaction rolls back.
Interrupt ==
    /\ pc \notin {"closed", "open"} /\ faults < MaxFaults
    /\ pc' = "closed" /\ target' = 0 /\ plan' = NoPlan /\ faults' = faults + 1
    /\ UNCHANGED <<clock, publisher, archive, state, search, worktree, exacts>>

Import ==
    \/ MarkReplacementPending \/ PlanMerge \/ importMergeSnapshotRows \/ MergeFails
    \/ RebuildMemberSearchIndex \/ MarkMergedStep
    \/ importSnapshot \/ RebuildStep \/ MarkImported

Next ==
    \/ \E r \in Rows : \/ SourceChanges(r)
                       \/ UpsertChanged(r) \/ UpsertUnchanged(r) \/ MarkMemberDeleted(r)
    \/ \E kind \in {"plain", "filtered", "breaks"} : Publish(kind)
    \/ Open \/ Close
    \/ UpdateMerge \/ UpdateExact \/ ImportAt
    \/ Import \/ Interrupt

\* A command that runs goes on; commands are started again and again, and the
\* ones that update the archive pull.
PullAndMerge == UpdateMerge /\ worktree' = Len(published)

Spec ==
    /\ Init /\ [][Next]_vars
    /\ WF_vars(Open) /\ WF_vars(Import) /\ SF_vars(PullAndMerge)

TypeOK ==
    /\ clock \in 0 .. MaxTime
    /\ rows \in [Rows -> [rev : 0 .. MaxTime, seen : 0 .. MaxTime]]
    /\ source \in [Rows -> [rev : 0 .. MaxTime, seen : 0 .. MaxTime]]
    /\ checked \in [Rows -> 0 .. MaxTime] /\ indexed \in [Rows -> 0 .. MaxTime]
    /\ log \in [1 .. MaxTime -> Nat] /\ ownEvents \in BOOLEAN /\ sourceLog \subseteq 1 .. MaxTime
    /\ Len(published) <= MaxPublications
    /\ {imported, merged, worktree, target} \subseteq 0 .. Len(published)
    /\ pending \in BOOLEAN
    /\ stamped \subseteq Indexes /\ present \subseteq Indexes
    /\ exacts \in 0 .. MaxExact /\ faults \in 0 .. MaxFaults

-----------------------------------------------------------------------------

\* The manifest that decides which shards the next merge skips is never ahead
\* of the archive: every row of it is stored, or was observed, at least as late,
\* whatever was interrupted, refused or imported from history in between.
RecordedIsApplied ==
    PreviousMergedManifest > 0 =>
        \A r \in Rows : published[PreviousMergedManifest].rows[r].rev <= Fence(r)

\* No published event is counted twice in the local archive: event rows have
\* generated identities, so nothing but the plan keeps a merge that is repeated
\* after an interruption from adding them again.
EventsOnce == \A t \in DOMAIN log : log[t] <= 1

\* Short of an exact import, no update puts content in the place of content that
\* is known to be right at a later time.
ContentNeverOlder ==
    [][pc = "replace" \/ \A r \in Rows : rows'[r].seen >= rows[r].seen]_vars

Searchable(r) == indexed[r] = rows[r].rev

\* Once nothing more is published, written or interrupted, the updates bring
\* the archive to the last snapshot with every row indexed, unless the snapshot
\* needs an exact import, which is then recorded as pending, or an interrupted
\* exact import has left the archive without an index.
UpdatesSettle ==
    <>[](\/ merged = Len(published) /\ \A r \in Rows : Searchable(r)
         \/ pending
         \/ present # Indexes)

\* An open archive has its search indexes: what an import that was cancelled or
\* killed has not rebuilt is rebuilt when the archive is opened.
OpenIsSearchable == pc = "open" => present = Indexes

=============================================================================

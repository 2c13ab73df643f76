-------------------------- MODULE ShareImportProofs --------------------------
(***************************************************************************)
(* Proofs about ShareImport, for any rows and bounds.                      *)
(***************************************************************************)
EXTENDS ShareImport, TLAPS

Times == 0 .. MaxTime
Contents == [Rows -> [rev : Times, seen : Times]]
Snapshots == [rows : Contents, events : SUBSET (1 .. MaxTime), breaks : BOOLEAN,
              manifest : Nat, stamps : SUBSET Indexes]

(* The stages of an exact import once its rows are committed, and of any   *)
(* import once they are.                                                   *)
Replaced == {"rebuild_fts", "rebuild_member_fts", "stamp", "imported"}
Committed == {"members", "mark"} \cup Replaced
Stages == {"closed", "open", "plan", "merge", "replace", "clear"} \cup Committed

(* What TypeOK does not say: what is published, and the command.           *)
CommandTypes ==
  /\ published \in Seq(Snapshots)
  /\ pc \in Stages /\ plan \in [rows : SUBSET Rows, events : BOOLEAN]
  /\ pc \notin {"closed", "open"} => target \in 1 .. Len(published)

(* The publisher's rows only become younger, so a later snapshot is as     *)
(* young as an earlier one; the share state it carries is older than it.   *)
PublisherInv ==
  /\ \A r \in Rows : source[r].rev <= clock /\ source[r].seen = source[r].rev
  /\ \A n \in 1 .. Len(published) :
       /\ published[n].manifest < n
       /\ \A r \in Rows : /\ published[n].rows[r].seen = published[n].rows[r].rev
                          /\ published[n].rows[r].rev <= source[r].rev
  /\ \A m, n \in 1 .. Len(published) :
       m <= n => \A r \in Rows : published[m].rows[r].rev <= published[n].rows[r].rev

(* Nothing local is stamped with a time to come, and content is known to   *)
(* be right no later than its fence says.                                  *)
ArchiveInv ==
  \A r \in Rows : /\ rows[r].rev <= clock /\ checked[r] <= clock
                  /\ rows[r].seen <= Fence(r)
                  /\ rows[r].rev = 0 => rows[r].seen = 0

(* The archive has row r of snapshot n, or knows better.                   *)
Has(n, r) == published[n].rows[r].rev <= Fence(r)

(* A merge under way skips only rows the archive has, and adds events only *)
(* to tables without any; once an import is committed the archive has the  *)
(* whole snapshot.                                                         *)
ImportInv ==
  /\ pc = "merge" => /\ \A r \in Rows \ plan.rows : Has(target, r)
                     /\ plan.events => \A t \in 1 .. MaxTime : log[t] = 0
  /\ pc \in Committed => \A r \in Rows : Has(target, r)

(* The inductive invariant.                                                *)
IInv ==
  /\ TypeOK /\ CommandTypes /\ PublisherInv /\ ArchiveInv /\ ImportInv
  /\ RecordedIsApplied /\ EventsOnce

USE ShareImportAssumption

(* The larger of two times.                                                *)
LEMMA MaxOfTwo ==
  ASSUME NEW a \in Nat, NEW b \in Nat
  PROVE  /\ Max({a, b}) \in Nat /\ a <= Max({a, b}) /\ b <= Max({a, b})
         /\ Max({a, b}) = a \/ Max({a, b}) = b
<1>1. \E x \in {a, b} : \A y \in {a, b} : x >= y
  <2>1. CASE a <= b
    BY <2>1
  <2>2. CASE b <= a
    BY <2>2
  <2> QED BY <2>1, <2>2
<1>2. Max({a, b}) \in {a, b} /\ \A y \in {a, b} : Max({a, b}) >= y
  BY <1>1 DEF Max
<1> QED BY <1>2

(* The parts of a local and of a source row.                               *)
LEMMA RowTypes ==
  ASSUME TypeOK, NEW r \in Rows
  PROVE  /\ rows[r] \in [rev : Times, seen : Times] /\ source[r] \in [rev : Times, seen : Times]
         /\ rows[r].rev \in Nat /\ rows[r].seen \in Nat /\ source[r].rev \in Nat
         /\ checked[r] \in Nat /\ clock \in Nat
<1>1. rows[r] \in [rev : Times, seen : Times] /\ source[r] \in [rev : Times, seen : Times]
  BY DEF TypeOK, Times
<1>2. checked[r] \in Nat /\ clock \in Nat
  BY DEF TypeOK
<1> QED BY <1>1, <1>2 DEF Times

(* The same after a step.                                                  *)
LEMMA RowTypesNext ==
  ASSUME TypeOK', NEW r \in Rows
  PROVE  /\ rows'[r] \in [rev : Times, seen : Times]
         /\ rows'[r].rev \in Nat /\ rows'[r].seen \in Nat
         /\ checked'[r] \in Nat /\ clock' \in Nat
<1>1. rows'[r] \in [rev : Times, seen : Times]
  BY DEF TypeOK, Times
<1>2. checked'[r] \in Nat /\ clock' \in Nat
  BY DEF TypeOK
<1> QED BY <1>1, <1>2 DEF Times

(* What the fence of a row is.                                             *)
LEMMA FenceIs ==
  ASSUME TypeOK, NEW r \in Rows
  PROVE  /\ Fence(r) \in Nat /\ rows[r].rev <= Fence(r) /\ checked[r] <= Fence(r)
         /\ Fence(r) = rows[r].rev \/ Fence(r) = checked[r]
<1>1. rows[r].rev \in Nat /\ checked[r] \in Nat
  BY DEF TypeOK
<1> QED BY <1>1, MaxOfTwo DEF Fence

(* The same after a step.                                                  *)
LEMMA FenceIsNext ==
  ASSUME TypeOK', NEW r \in Rows
  PROVE  /\ (Fence(r))' \in Nat /\ rows'[r].rev <= (Fence(r))' /\ checked'[r] <= (Fence(r))'
         /\ (Fence(r))' = rows'[r].rev \/ (Fence(r))' = checked'[r]
<1>1. rows'[r].rev \in Nat /\ checked'[r] \in Nat
  BY DEF TypeOK
<1> QED BY <1>1, MaxOfTwo DEF Fence

(* A snapshot of the sequence and the parts of it.                         *)
LEMMA SnapshotTypes ==
  ASSUME CommandTypes, NEW n \in 1 .. Len(published)
  PROVE  /\ published[n] \in Snapshots
         /\ published[n].rows \in Contents /\ published[n].events \subseteq 1 .. MaxTime
         /\ published[n].manifest \in Nat /\ published[n].stamps \subseteq Indexes
         /\ \A r \in Rows : published[n].rows[r].rev \in Times /\ published[n].rows[r].seen \in Times
<1>1. published[n] \in Snapshots
  BY DEF CommandTypes
<1>2. published[n].rows \in Contents
  BY <1>1 DEF Snapshots
<1> QED BY <1>1, <1>2 DEF Snapshots, Contents

(* Only a publication changes what is published, at the end.               *)
LEMMA PublishedGrows ==
  ASSUME IInv, Next
  PROVE  \/ UNCHANGED published
         \/ /\ pc = "closed" /\ pc' = "closed"
            /\ \E s \in Snapshots :
                 /\ published' = Append(published, s)
                 /\ s.rows = source /\ s.manifest \in 0 .. Len(published)
<1>1. ASSUME NEW kind \in {"plain", "filtered", "breaks"}, Publish(kind)
      PROVE  /\ pc = "closed" /\ pc' = "closed"
             /\ \E s \in Snapshots :
                 /\ published' = Append(published, s)
                 /\ s.rows = source /\ s.manifest \in 0 .. Len(published)
  <2>1. PICK m \in allowSyncState(kind = "filtered").manifests :
          published' = Append(published,
                [rows |-> source, events |-> sourceLog, breaks |-> kind = "breaks",
                 manifest |-> m, stamps |-> allowSyncState(kind = "filtered").stamps])
    BY <1>1 DEF Publish
  <2> DEFINE s == [rows |-> source, events |-> sourceLog, breaks |-> kind = "breaks",
                   manifest |-> m, stamps |-> allowSyncState(kind = "filtered").stamps]
  <2>2. m \in 0 .. Len(published) /\ allowSyncState(kind = "filtered").stamps \subseteq Indexes
    BY DEF allowSyncState, IInv, CommandTypes
  <2>3. s \in Snapshots
    BY <2>2 DEF Snapshots, Contents, Times, IInv, TypeOK
  <2>4. published' = Append(published, s) /\ s.rows = source /\ s.manifest \in 0 .. Len(published)
    BY <2>1, <2>2
  <2> QED BY <1>1, <2>3, <2>4 DEF Publish
<1>2. CASE ~\E kind \in {"plain", "filtered", "breaks"} : Publish(kind)
  BY <1>2 DEF Next, SourceChanges, UpsertChanged, UpsertUnchanged, MarkMemberDeleted, Upsert, Open, Close, UpdateMerge,
              UpdateExact, Update, ImportAt, Import, Interrupt, MarkReplacementPending, PlanMerge,
              importMergeSnapshotRows, MergeFails, RebuildMemberSearchIndex, MarkMergedStep, importSnapshot, RebuildStep,
              MarkImported, publisher
<1> QED BY <1>1, <1>2

(* What is published stays as it was pushed.                               *)
LEMMA PublishedStays ==
  ASSUME IInv, Next
  PROVE  /\ Len(published) <= Len(published')
         /\ \A n \in 1 .. Len(published) : published'[n] = published[n]
  BY PublishedGrows, SMTT(60) DEF IInv, CommandTypes

(* The command keeps its types.                                            *)
LEMMA CommandTypesKept ==
  ASSUME IInv, Next PROVE CommandTypes'
<1>1. published' \in Seq(Snapshots)
  BY PublishedGrows, SMTT(60) DEF IInv, CommandTypes
<1>2. CASE \E r \in Rows : SourceChanges(r) \/ UpsertChanged(r) \/ UpsertUnchanged(r) \/ MarkMemberDeleted(r)
  BY <1>1, <1>2 DEF IInv, CommandTypes, SourceChanges, UpsertChanged, UpsertUnchanged, MarkMemberDeleted, Upsert, publisher
<1>3. CASE \E kind \in {"plain", "filtered", "breaks"} : Publish(kind)
  BY <1>1, <1>3 DEF IInv, CommandTypes, Publish
<1>4. CASE Open \/ Close
  BY <1>1, <1>4 DEF IInv, CommandTypes, Open, Close, Stages
<1>5. CASE UpdateMerge \/ UpdateExact
  BY <1>1, <1>5 DEF IInv, TypeOK, CommandTypes, UpdateMerge, UpdateExact, Update, Stages, publisher
<1>6. CASE ImportAt
  BY <1>1, <1>6 DEF IInv, CommandTypes, ImportAt, Stages, publisher
<1>7. CASE PlanMerge
  <2>1. plan' \in [rows : SUBSET Rows, events : BOOLEAN]
    BY <1>7 DEF PlanMerge, shareMergePlan, PlanMergeImport
  <2> QED BY <1>1, <1>7, <2>1 DEF IInv, CommandTypes, PlanMerge, Stages, Committed, publisher
<1>8. CASE MarkReplacementPending \/ MergeFails \/ Interrupt
  <2>1. pc' = "closed" /\ (plan' = plan \/ plan' = NoPlan)
    BY <1>8 DEF MarkReplacementPending, MergeFails, Interrupt
  <2>2. NoPlan \in [rows : SUBSET Rows, events : BOOLEAN]
    BY DEF NoPlan
  <2>3. pc' \in Stages
    BY <2>1 DEF Stages
  <2> QED BY <1>1, <2>1, <2>2, <2>3 DEF IInv, CommandTypes
<1>9. CASE importMergeSnapshotRows \/ RebuildMemberSearchIndex \/ importSnapshot \/ MarkImported
  BY <1>1, <1>9 DEF IInv, CommandTypes, importMergeSnapshotRows, RebuildMemberSearchIndex, importSnapshot, MarkImported,
     Stages, Committed, Replaced, publisher
<1>10. CASE MarkMergedStep
  BY <1>1, <1>10 DEF IInv, CommandTypes, MarkMergedStep, MarkMerged, NoPlan, Stages, publisher
<1>11. CASE RebuildStep
  BY <1>1, <1>11 DEF IInv, CommandTypes, RebuildStep, RebuildSearchIndexes, Stages, Committed, Replaced, publisher
<1> QED BY <1>2, <1>3, <1>4, <1>5, <1>6, <1>7, <1>8, <1>9, <1>10, <1>11 DEF Next, Import

(* Every step keeps the types.                                             *)
LEMMA TypeOKKept ==
  ASSUME IInv, Next PROVE TypeOK'
<1>0. Len(published) \in Nat /\ (pc \notin {"closed", "open"} => target \in 1 .. Len(published))
  BY DEF IInv, CommandTypes
<1>1. ASSUME NEW r \in Rows, SourceChanges(r) PROVE TypeOK'
  <2>1. clock' \in 1 .. MaxTime
    BY <1>1 DEF IInv, TypeOK, SourceChanges, Tick
  <2>2. source' \in Contents
    BY <1>1, <2>1 DEF IInv, TypeOK, Contents, Times, SourceChanges, Row
  <2>3. sourceLog' \subseteq 1 .. MaxTime
    BY <1>1, <2>1 DEF IInv, TypeOK, SourceChanges
  <2>4. UNCHANGED <<published, archive, state, search, worktree, target, exacts, faults>>
    BY <1>1 DEF SourceChanges
  <2>5. clock' \in 0 .. MaxTime
    BY <2>1
  <2>6. source' \in [Rows -> [rev : 0 .. MaxTime, seen : 0 .. MaxTime]]
    BY <2>2 DEF Contents, Times
  <2> QED BY <2>3, <2>4, <2>5, <2>6, Zenon DEF IInv, TypeOK, archive, state, search
<1>2. ASSUME NEW r \in Rows, NEW c \in BOOLEAN, Upsert(r, c) PROVE TypeOK'
  <2>1. clock' \in 1 .. MaxTime
    BY <1>2 DEF IInv, TypeOK, Upsert, Tick
  <2>2. rows' \in Contents
    BY <1>2, <2>1 DEF IInv, TypeOK, Contents, Times, Upsert, Row
  <2>3. ownEvents' \in BOOLEAN
    BY <1>2 DEF Upsert
  <2>4. checked' \in [Rows -> 0 .. MaxTime] /\ indexed' \in [Rows -> 0 .. MaxTime]
    BY <1>2, <2>1, SMTT(60) DEF IInv, TypeOK, Upsert
  <2> QED BY <1>2, <2>1, <2>2, <2>3, <2>4 DEF IInv, TypeOK, Contents, Times, Upsert, state, publisher
<1>3. ASSUME NEW r \in Rows, UpsertUnchanged(r) PROVE TypeOK'
  <2>1. clock' \in 1 .. MaxTime
    BY <1>3, SMTT(60) DEF IInv, TypeOK, UpsertUnchanged, Tick
  <2>2. rows' \in Contents
    <3>1. [rows[r] EXCEPT !.seen = clock'] \in [rev : Times, seen : Times]
      BY <2>1, RowTypes DEF IInv, Times
    <3>2. rows' = [rows EXCEPT ![r] = [rows[r] EXCEPT !.seen = clock']]
      BY <1>3 DEF UpsertUnchanged
    <3> QED BY <3>1, <3>2 DEF IInv, TypeOK, Contents, Times
  <2> QED BY <1>3, <2>1, <2>2 DEF IInv, TypeOK, Contents, Times, UpsertUnchanged, state, search, publisher
<1>4. ASSUME NEW kind \in {"plain", "filtered", "breaks"}, Publish(kind) PROVE TypeOK'
  <2>1. Len(published') = Len(published) + 1 /\ Len(published') <= MaxPublications /\ Len(published) \in Nat
    BY <1>4, SMTT(60) DEF IInv, CommandTypes, TypeOK, Publish
  <2> QED BY <1>4, <2>1, SMTT(60) DEF IInv, TypeOK, Publish, archive, state, search
<1>5. CASE Open
  <2>1. indexed' \in [Rows -> 0 .. MaxTime]
    BY <1>5 DEF IInv, TypeOK, Open
  <2> QED BY <1>5, <2>1 DEF IInv, TypeOK, Open, ensureFTSVersion, Indexes, archive, state, publisher
<1>6. CASE UpdateMerge \/ UpdateExact
  <2>1. worktree' \in 0 .. Len(published) /\ target' = worktree'
    BY <1>0, <1>6, SMTT(60) DEF IInv, TypeOK, UpdateMerge, UpdateExact, Update
  <2>2. exacts' \in 0 .. MaxExact
    BY <1>6 DEF IInv, TypeOK, UpdateMerge, UpdateExact
  <2>3. UNCHANGED <<clock, publisher, archive, state, search, faults>>
    BY <1>6 DEF UpdateMerge, UpdateExact, Update
  <2> QED BY <2>1, <2>2, <2>3 DEF IInv, TypeOK, archive, state, search, publisher
<1>7. CASE ImportAt
  BY <1>7, SMTT(60) DEF IInv, TypeOK, CommandTypes, ImportAt, archive, state, search, publisher
<1>8. CASE Close \/ PlanMerge \/ MergeFails \/ Interrupt
  <2>1. (target' = target \/ target' = 0) /\ faults' \in 0 .. MaxFaults
    BY <1>8 DEF IInv, TypeOK, Close, PlanMerge, MergeFails, Interrupt
  <2>2. UNCHANGED <<clock, publisher, archive, state, search, worktree, exacts>>
    BY <1>8 DEF Close, PlanMerge, MergeFails, Interrupt
  <2>3. target' \in 0 .. Len(published)
    BY <1>0, <2>1 DEF IInv, TypeOK
  <2> QED BY <2>1, <2>2, <2>3 DEF IInv, TypeOK, archive, state, search, publisher
<1>9. CASE MarkReplacementPending \/ MarkImported
  <2>1. (target' = target \/ target' = 0) /\ imported' \in {imported, target} /\ pending' \in BOOLEAN
    BY <1>9 DEF IInv, TypeOK, MarkReplacementPending, MarkImported
  <2>2. UNCHANGED <<clock, publisher, archive, merged, search, worktree, exacts, faults>>
    BY <1>9 DEF MarkReplacementPending, MarkImported
  <2> QED BY <1>0, <2>1, <2>2, SMTT(60) DEF IInv, TypeOK, archive, search, publisher
<1>10. CASE importMergeSnapshotRows
  <2>1. target \in 1 .. Len(published)
    BY <1>10 DEF IInv, CommandTypes, importMergeSnapshotRows
  <2>2. rows' \in Contents
    BY <1>10, <2>1, SnapshotTypes DEF IInv, TypeOK, Contents, Times, importMergeSnapshotRows, upsertSnapshotRow
  <2>3. indexed' \in [Rows -> 0 .. MaxTime]
    BY <1>10, <2>1, SnapshotTypes DEF IInv, TypeOK, Times, importMergeSnapshotRows
  <2>4. log' \in [1 .. MaxTime -> Nat]
    BY <1>10, SMTT(60) DEF IInv, TypeOK, importMergeSnapshotRows
  <2> QED BY <1>10, <2>2, <2>3, <2>4 DEF IInv, TypeOK, Contents, Times, importMergeSnapshotRows, state, publisher
<1>11. CASE RebuildMemberSearchIndex \/ RebuildStep
  <2>1. indexed' \in [Rows -> 0 .. MaxTime]
    BY <1>11 DEF IInv, TypeOK, RebuildMemberSearchIndex, RebuildStep, RebuildSearchIndexes, Rebuild
  <2>2. stamped' \subseteq Indexes /\ present' \subseteq Indexes
    BY <1>11 DEF IInv, TypeOK, Indexes, RebuildMemberSearchIndex, RebuildStep, RebuildSearchIndexes, Rebuild
  <2>3. UNCHANGED <<clock, publisher, archive, state, worktree, target, exacts, faults>>
    BY <1>11 DEF RebuildMemberSearchIndex, RebuildStep
  <2> QED BY <2>1, <2>2, <2>3 DEF IInv, TypeOK, archive, state, publisher
<1>12. CASE MarkMergedStep
  <2>1. /\ target' = target \/ target' = 0
        /\ imported' = imported /\ merged' \in {merged, target} /\ pending' \in BOOLEAN
    BY <1>12 DEF IInv, TypeOK, MarkMergedStep, MarkMerged
  <2>2. UNCHANGED <<clock, publisher, archive, search, worktree, exacts, faults>>
    BY <1>12 DEF MarkMergedStep
  <2> QED BY <1>0, <2>1, <2>2, SMTT(60) DEF IInv, TypeOK, archive, search, publisher
<1>13. CASE importSnapshot
  <2>1. target \in 1 .. Len(published)
    BY <1>13 DEF IInv, CommandTypes, importSnapshot
  <2>2. rows' \in Contents
    BY <1>13, <2>1, SnapshotTypes DEF IInv, importSnapshot
  <2>3. log' \in [1 .. MaxTime -> Nat]
    BY <1>13 DEF IInv, TypeOK, importSnapshot
  <2>4. published[target].manifest \in 0 .. Len(published)
    BY <2>1, SnapshotTypes DEF IInv, PublisherInv, CommandTypes
  <2>5. stamped' \subseteq Indexes
    BY <1>13, <2>1, SnapshotTypes DEF IInv, importSnapshot
  <2>6. checked' \in [Rows -> 0 .. MaxTime] /\ indexed' \in [Rows -> 0 .. MaxTime]
    BY <1>13 DEF importSnapshot, clearReplacedEntityChecks
  <2> QED BY <1>13, <2>2, <2>3, <2>4, <2>5, <2>6
          DEF IInv, TypeOK, Contents, Times, importSnapshot, ReplacedState, publisher
<1> QED BY <1>1, <1>2, <1>3, <1>4, <1>5, <1>6, <1>7, <1>8, <1>9, <1>10, <1>11, <1>12, <1>13
        DEF Next, Import, UpsertChanged, MarkMemberDeleted

(* The publisher's rows are stamped with the clock when they change, and a *)
(* snapshot is a copy of them.                                             *)
LEMMA PublisherInvKept ==
  ASSUME IInv, Next PROVE PublisherInv'
<1>1. ASSUME NEW r \in Rows, SourceChanges(r) PROVE PublisherInv'
  <2>1. clock \in Nat /\ clock' = clock + 1
    BY <1>1 DEF IInv, TypeOK, SourceChanges, Tick
  <2>2. \A x \in Rows : source'[x] = IF x = r THEN Row(clock') ELSE source[x]
    BY <1>1 DEF IInv, TypeOK, SourceChanges
  <2>3. \A x \in Rows : source[x].rev \in Nat /\ source[x].rev <= clock /\ source[x].seen = source[x].rev
    BY DEF IInv, TypeOK, PublisherInv
  <2>4. \A x \in Rows : /\ source'[x].rev <= clock' /\ source'[x].seen = source'[x].rev
                        /\ source[x].rev <= source'[x].rev /\ source'[x].rev \in Nat
    BY <2>1, <2>2, <2>3 DEF Row
  <2>5. UNCHANGED published
    BY <1>1 DEF SourceChanges
  <2>6. \A n \in 1 .. Len(published), x \in Rows : published[n].rows[x].rev <= source'[x].rev
    BY <2>3, <2>4, SnapshotTypes, SMTT(60) DEF IInv, PublisherInv, Times
  <2> QED BY <2>4, <2>5, <2>6 DEF IInv, PublisherInv
<1>2. ASSUME NEW s \in Snapshots, published' = Append(published, s), s.rows = source,
             s.manifest \in 0 .. Len(published), UNCHANGED <<clock, source>>
      PROVE  PublisherInv'
  <2>1. Len(published) \in Nat /\ Len(published') = Len(published) + 1
    BY <1>2 DEF IInv, CommandTypes
  <2>2. \A n \in 1 .. Len(published') : \/ n \in 1 .. Len(published) /\ published'[n] = published[n]
                                        \/ n = Len(published) + 1 /\ published'[n] = s
    BY <1>2, <2>1 DEF IInv, CommandTypes
  <2>3. \A r \in Rows : source[r].rev \in Nat /\ source[r].rev <= source[r].rev
    BY SMTT(60) DEF IInv, TypeOK
  <2>4. \A n \in 1 .. Len(published') :
          /\ published'[n].manifest < n
          /\ \A r \in Rows : /\ published'[n].rows[r].seen = published'[n].rows[r].rev
                             /\ published'[n].rows[r].rev <= source[r].rev
    BY <1>2, <2>1, <2>2, <2>3 DEF IInv, PublisherInv
  <2>5. ASSUME NEW m \in 1 .. Len(published'), NEW n \in 1 .. Len(published'), m <= n, NEW r \in Rows
        PROVE  published'[m].rows[r].rev <= published'[n].rows[r].rev
    <3>1. CASE n \in 1 .. Len(published)
      <4>1. m \in 1 .. Len(published)
        BY <2>1, <2>5, <3>1
      <4> QED BY <2>1, <2>2, <2>5, <3>1, <4>1, SMTT(60) DEF IInv, PublisherInv
    <3>2. CASE published'[n] = s
      BY <1>2, <2>4, <2>5, <3>2
    <3> QED BY <2>2, <3>1, <3>2
  <2> QED BY <1>2, <2>4, <2>5, SMTT(60) DEF IInv, PublisherInv
<1>3. CASE UNCHANGED <<source, published>> /\ (clock' = clock \/ clock' = clock + 1)
  BY <1>3, SMTT(60) DEF IInv, TypeOK, PublisherInv
<1>4. ASSUME NEW kind \in {"plain", "filtered", "breaks"}, Publish(kind) PROVE PublisherInv'
  <2>1. UNCHANGED <<clock, source>>
    BY <1>4 DEF Publish
  <2>2. CASE UNCHANGED published
    BY <2>1, <2>2, <1>3
  <2> QED BY <1>2, <2>1, <2>2, PublishedGrows
<1>5. ASSUME NEW r \in Rows, UpsertChanged(r) \/ UpsertUnchanged(r) \/ MarkMemberDeleted(r) PROVE PublisherInv'
  BY <1>3, <1>5 DEF UpsertChanged, UpsertUnchanged, MarkMemberDeleted, Upsert, Tick, publisher
<1>6. CASE Open \/ Close \/ UpdateMerge \/ UpdateExact \/ ImportAt \/ Import \/ Interrupt
  BY <1>3, <1>6 DEF Open, Close, UpdateMerge, UpdateExact, Update, ImportAt, Import, Interrupt,
              MarkReplacementPending, PlanMerge,
              importMergeSnapshotRows, MergeFails, RebuildMemberSearchIndex, MarkMergedStep, importSnapshot, RebuildStep,
              MarkImported, publisher
<1> QED BY <1>1, <1>4, <1>5, <1>6 DEF Next

(* Short of an exact import no fence goes back.                            *)
LEMMA FencesGrow ==
  ASSUME IInv, Next, TypeOK', pc # "replace", NEW r \in Rows
  PROVE  Fence(r) <= (Fence(r))'
<1>0. /\ rows[r].rev \in Nat /\ checked[r] \in Nat /\ clock \in Nat
      /\ rows[r].rev <= clock /\ checked[r] <= clock
  BY RowTypes DEF IInv, ArchiveInv
<1>1. SUFFICES \/ rows[r].rev <= rows'[r].rev /\ checked[r] <= checked'[r]
               \/ Fence(r) <= rows'[r].rev
  <2>1. Fence(r) \in Nat /\ (Fence(r) = rows[r].rev \/ Fence(r) = checked[r])
    BY FenceIs DEF IInv
  <2>2. rows'[r].rev \in Nat /\ checked'[r] \in Nat
    BY DEF TypeOK
  <2> QED BY <1>0, <1>1, <2>1, <2>2, FenceIsNext
<1>2. ASSUME NEW x \in Rows, NEW c \in BOOLEAN, Upsert(x, c)
      PROVE  rows[r].rev <= rows'[r].rev /\ checked[r] <= checked'[r]
  <2>1. clock' = clock + 1
    BY <1>2 DEF Upsert, Tick
  <2>2. rows'[r] = IF r = x THEN Row(clock') ELSE rows[r]
    BY <1>2 DEF IInv, TypeOK, Upsert
  <2>3. checked'[r] = checked[r] \/ checked'[r] = clock'
    BY <1>2 DEF IInv, TypeOK, Upsert
  <2> QED BY <1>0, <2>1, <2>2, <2>3 DEF Row
<1>3. ASSUME NEW x \in Rows, UpsertUnchanged(x)
      PROVE  rows[r].rev <= rows'[r].rev /\ checked[r] <= checked'[r]
  <2>1. clock' = clock + 1
    BY <1>3 DEF UpsertUnchanged, Tick
  <2>2. rows'[r].rev = rows[r].rev
    BY <1>3 DEF IInv, TypeOK, UpsertUnchanged
  <2>3. checked'[r] = checked[r] \/ checked'[r] = clock'
    BY <1>3 DEF IInv, TypeOK, UpsertUnchanged
  <2> QED BY <1>0, <2>1, <2>2, <2>3
<1>4. CASE importMergeSnapshotRows
  <2>1. rows'[r] = rows[r] \/ (r \in Applied /\ rows'[r] = published[target].rows[r])
    BY <1>4 DEF importMergeSnapshotRows, upsertSnapshotRow
  <2>2. checked' = checked
    BY <1>4 DEF importMergeSnapshotRows
  <2>3. CASE r \in Applied /\ rows'[r] = published[target].rows[r]
    <3>1. rows'[r].rev \in Nat
      BY DEF TypeOK
    <3>2. rows[r].rev = 0 \/ rows'[r].rev >= Fence(r)
      BY <1>0, <2>3 DEF Applied, shouldMergeObservedEntityRow, Stored
    <3>3. Fence(r) \in Nat
      BY FenceIs DEF IInv
    <3> QED BY <1>0, <2>2, <3>1, <3>2, <3>3
  <2> QED BY <1>0, <2>1, <2>2, <2>3
<1>5. CASE rows' = rows /\ checked' = checked
  BY <1>0, <1>5
<1>6. CASE ~\E x \in Rows : UpsertChanged(x) \/ UpsertUnchanged(x) \/ MarkMemberDeleted(x)
  <2>1. importMergeSnapshotRows \/ (rows' = rows /\ checked' = checked)
    BY <1>6 DEF Next, SourceChanges, Publish, Open, Close, UpdateMerge, UpdateExact, Update, ImportAt, Import, Interrupt,
                MarkReplacementPending, PlanMerge, MergeFails, RebuildMemberSearchIndex,
                MarkMergedStep, importSnapshot, RebuildStep, MarkImported, archive
  <2> QED BY <1>4, <1>5, <2>1
<1> QED BY <1>2, <1>3, <1>6 DEF UpsertChanged, MarkMemberDeleted

(* What the archive has it keeps, short of an exact import.                *)
LEMMA HasStays ==
  ASSUME IInv, Next, TypeOK', pc # "replace", NEW n \in 1 .. Len(published), NEW r \in Rows, Has(n, r)
  PROVE  published'[n].rows[r].rev <= (Fence(r))'
<1>1. published'[n] = published[n]
  BY PublishedStays
<1>2. published[n].rows[r].rev \in Nat
  BY SnapshotTypes DEF IInv, Times
<1>3. Fence(r) \in Nat /\ (Fence(r))' \in Nat
  BY FenceIs, FenceIsNext DEF IInv
<1> QED BY <1>1, <1>2, <1>3, FencesGrow DEF Has

(* Local content is stamped with the clock or with the publisher's times.  *)
LEMMA ArchiveInvKept ==
  ASSUME IInv, Next, TypeOK' PROVE ArchiveInv'
<1> SUFFICES ASSUME NEW r \in Rows
             PROVE  /\ rows'[r].rev <= clock' /\ checked'[r] <= clock'
                    /\ rows'[r].seen <= (Fence(r))'
                    /\ rows'[r].rev = 0 => rows'[r].seen = 0
  BY DEF ArchiveInv
<1>0. /\ rows[r].rev \in Nat /\ rows[r].seen \in Nat /\ checked[r] \in Nat /\ clock \in Nat
      /\ rows[r].rev <= clock /\ checked[r] <= clock
      /\ rows[r].seen <= Fence(r) /\ Fence(r) \in Nat
      /\ rows[r].rev = 0 => rows[r].seen = 0
  BY FenceIs, RowTypes DEF IInv, ArchiveInv
<1>1. /\ rows'[r].rev \in Nat /\ rows'[r].seen \in Nat /\ checked'[r] \in Nat /\ clock' \in Nat
      /\ (Fence(r))' \in Nat /\ rows'[r].rev <= (Fence(r))' /\ checked'[r] <= (Fence(r))'
  BY FenceIsNext, RowTypesNext
<1>2. ASSUME NEW x \in Rows, NEW c \in BOOLEAN, Upsert(x, c)
      PROVE  /\ rows'[r].rev <= clock' /\ checked'[r] <= clock'
             /\ rows'[r].seen <= (Fence(r))'
             /\ rows'[r].rev = 0 => rows'[r].seen = 0
  <2>1. clock' = clock + 1
    BY <1>2 DEF Upsert, Tick
  <2>2. checked'[r] = checked[r] \/ checked'[r] = clock'
    BY <1>2 DEF IInv, TypeOK, Upsert
  <2>3. CASE r = x
    <3>1. rows'[r] = Row(clock')
      BY <1>2, <2>3 DEF IInv, TypeOK, Upsert
    <3> QED BY <1>0, <1>1, <2>1, <2>2, <3>1 DEF Row
  <2>4. CASE r # x
    <3>1. rows'[r] = rows[r]
      BY <1>2, <2>4 DEF IInv, TypeOK, Upsert
    <3>2. Fence(r) <= (Fence(r))'
      BY <1>2, FencesGrow DEF Upsert
    <3> QED BY <1>0, <1>1, <2>1, <2>2, <3>1, <3>2
  <2> QED BY <2>3, <2>4
<1>3. ASSUME NEW x \in Rows, UpsertUnchanged(x)
      PROVE  /\ rows'[r].rev <= clock' /\ checked'[r] <= clock'
             /\ rows'[r].seen <= (Fence(r))'
             /\ rows'[r].rev = 0 => rows'[r].seen = 0
  <2>1. clock' = clock + 1
    BY <1>3 DEF UpsertUnchanged, Tick
  <2>2. rows'[r].rev = rows[r].rev
    BY <1>3 DEF IInv, TypeOK, UpsertUnchanged
  <2>3. CASE r = x
    <3>1. rows'[r].seen = clock' /\ checked'[r] = clock' /\ rows[r].rev > 0
      BY <1>3, <2>3 DEF IInv, TypeOK, UpsertUnchanged, Stored
    <3> QED BY <1>0, <1>1, <2>1, <2>2, <3>1
  <2>4. CASE r # x
    <3>1. rows'[r] = rows[r] /\ checked'[r] = checked[r]
      BY <1>3, <2>4 DEF IInv, TypeOK, UpsertUnchanged
    <3>2. Fence(r) <= (Fence(r))'
      BY <1>3, FencesGrow DEF UpsertUnchanged
    <3> QED BY <1>0, <1>1, <2>1, <3>1, <3>2
  <2> QED BY <2>3, <2>4
<1>4. CASE importMergeSnapshotRows \/ importSnapshot
  <2>1. target \in 1 .. Len(published)
    BY <1>4 DEF IInv, CommandTypes, importMergeSnapshotRows, importSnapshot
  <2>2. /\ published[target].rows[r].seen = published[target].rows[r].rev
        /\ published[target].rows[r].rev <= clock
    <3>1. published[target].rows[r].rev \in Nat /\ source[r].rev \in Nat
      BY <2>1, SnapshotTypes, RowTypes DEF IInv, Times
    <3> QED BY <1>0, <2>1, <3>1, SMTT(60) DEF IInv, PublisherInv
  <2>3. clock' = clock /\ checked'[r] <= clock
    BY <1>0, <1>4 DEF importMergeSnapshotRows, importSnapshot, clearReplacedEntityChecks
  <2>4. CASE rows'[r] = published[target].rows[r]
    BY <1>1, <2>2, <2>3, <2>4
  <2>5. CASE importMergeSnapshotRows /\ rows'[r] = rows[r]
    <3>1. Fence(r) <= (Fence(r))'
      BY <2>5, FencesGrow DEF importMergeSnapshotRows
    <3> QED BY <1>0, <1>1, <2>3, <2>5, <3>1
  <2> QED BY <1>4, <2>4, <2>5 DEF importMergeSnapshotRows, upsertSnapshotRow, importSnapshot
<1>5. CASE rows' = rows /\ checked' = checked /\ clock' \in {clock, clock + 1}
  BY <1>0, <1>5 DEF Fence
<1>6. CASE ~\E x \in Rows : UpsertChanged(x) \/ UpsertUnchanged(x) \/ MarkMemberDeleted(x)
  <2>1. \/ importMergeSnapshotRows \/ importSnapshot
        \/ rows' = rows /\ checked' = checked /\ clock' \in {clock, clock + 1}
    BY <1>6 DEF Next, SourceChanges, Tick, Publish, Open, Close, UpdateMerge, UpdateExact, Update, ImportAt, Import,
                Interrupt, MarkReplacementPending, PlanMerge, MergeFails, RebuildMemberSearchIndex,
                MarkMergedStep, RebuildStep, MarkImported, archive
  <2> QED BY <1>4, <1>5, <2>1
<1> QED BY <1>2, <1>3, <1>6 DEF UpsertChanged, MarkMemberDeleted

(* Planning skips only what the recorded manifest has; committing leaves   *)
(* nothing of the snapshot out.                                            *)
LEMMA ImportInvKept ==
  ASSUME IInv, Next, TypeOK' PROVE ImportInv'
<1>1. CASE PlanMerge
  <2> DEFINE p == PreviousMergedManifest
  <2>0. target \in 1 .. Len(published) /\ target' = target /\ UNCHANGED <<published, rows, checked, log>>
    BY <1>1 DEF IInv, CommandTypes, PlanMerge, publisher, archive
  <2>1. p \in 0 .. Len(published)
    BY DEF IInv, TypeOK, PreviousMergedManifest, PreviousImportedManifest
  <2>2. ASSUME NEW r \in Rows, r \notin plan'.rows PROVE Has(target, r)
    <3>1. ~(published[target].rows[r].rev > 0 /\ (p > 0 => published[p].rows[r].rev # published[target].rows[r].rev))
      BY <1>1, <2>2 DEF PlanMerge, shareMergePlan, PlanMergeImport
    <3>2. published[target].rows[r].rev \in Nat /\ Fence(r) \in Nat
      BY <2>0, SnapshotTypes, FenceIs DEF IInv, Times
    <3>3. CASE published[target].rows[r].rev = 0
      BY <3>2, <3>3 DEF Has
    <3>4. CASE p > 0 /\ published[p].rows[r].rev = published[target].rows[r].rev
      BY <3>4 DEF IInv, RecordedIsApplied, Has
    <3> QED BY <2>1, <3>1, <3>2, <3>3, <3>4
  <2>3. plan'.events => \A t \in 1 .. MaxTime : log[t] = 0
    BY <1>1 DEF PlanMerge, shareMergePlan, EventsAllowed, eventTablesEmpty, IInv, TypeOK
  <2>4. pc' = "merge" \/ (pc' = "mark" /\ plan'.rows = {})
    BY <1>1 DEF PlanMerge, NoPlan
  <2>5. \A r \in Rows : Has(target, r) => Has(target, r)'
    BY <2>0 DEF Has, Fence
  <2>6. pc' = "merge" => ImportInv'
    BY <2>0, <2>2, <2>3, <2>5 DEF ImportInv, Committed, Replaced
  <2>7. pc' = "mark" => ImportInv'
    BY <2>0, <2>2, <2>4, <2>5 DEF ImportInv, Has
  <2> QED BY <2>4, <2>6, <2>7
<1>2. CASE importMergeSnapshotRows
  <2>0. target \in 1 .. Len(published) /\ pc = "merge" /\ pc' \in {"members", "mark"} /\ UNCHANGED <<published, target>>
    BY <1>2 DEF IInv, CommandTypes, importMergeSnapshotRows, publisher
  <2>1. ASSUME NEW r \in Rows PROVE Has(target, r)'
    <3>0. /\ published[target].rows[r].rev \in Nat /\ Fence(r) \in Nat /\ (Fence(r))' \in Nat
          /\ Fence(r) <= (Fence(r))' /\ rows'[r].rev <= (Fence(r))' /\ rows'[r].rev \in Nat
      BY <2>0, SnapshotTypes, FenceIs, FenceIsNext, FencesGrow, RowTypesNext, SMTT(60) DEF IInv, Times
    <3>1. CASE r \in Applied
      <4>1. rows'[r] = published[target].rows[r]
        BY <1>2, <3>1 DEF importMergeSnapshotRows, upsertSnapshotRow
      <4> QED BY <2>0, <3>0, <4>1 DEF Has
    <3>2. CASE r \in plan.rows /\ r \notin Applied
      BY <2>0, <3>0, <3>2, SMTT(60) DEF Applied, shouldMergeObservedEntityRow, Has
    <3>3. CASE r \notin plan.rows
      <4>1. Has(target, r)
        BY <2>0, <3>3 DEF IInv, ImportInv
      <4> QED BY <2>0, <4>1, HasStays DEF Has
    <3> QED BY <3>1, <3>2, <3>3
  <2> QED BY <2>0, <2>1 DEF ImportInv, Has
<1>3. CASE importSnapshot
  <2>0. target \in 1 .. Len(published) /\ pc' = "rebuild_fts" /\ UNCHANGED <<published, target>>
    BY <1>3 DEF IInv, CommandTypes, importSnapshot, publisher
  <2>1. ASSUME NEW r \in Rows PROVE Has(target, r)'
    <3>1. rows'[r] = published[target].rows[r]
      BY <1>3 DEF importSnapshot
    <3> QED BY <2>0, <3>1, FenceIsNext DEF Has
  <2> QED BY <2>0, <2>1 DEF ImportInv, Has
<1>4. CASE pc' \in Committed /\ pc \in Committed /\ target' = target
  <2>1. target \in 1 .. Len(published) /\ pc # "replace"
    BY <1>4 DEF IInv, CommandTypes, Committed, Replaced
  <2>2. \A r \in Rows : Has(target, r)'
    BY <1>4, <2>1, HasStays DEF IInv, ImportInv, Has
  <2> QED BY <1>4, <2>2 DEF ImportInv, Has, Committed, Replaced
<1>5. CASE pc' \notin Committed /\ pc' # "merge"
  BY <1>5 DEF ImportInv
<1>6. CASE RebuildMemberSearchIndex \/ RebuildStep \/ MarkImported
  BY <1>4, <1>6 DEF RebuildMemberSearchIndex, RebuildStep, RebuildSearchIndexes, MarkImported, Committed, Replaced
<1>7. CASE Open \/ Close \/ UpdateMerge \/ UpdateExact \/ ImportAt \/ MarkReplacementPending \/ MergeFails \/ Interrupt
           \/ MarkMergedStep \/ (\E kind \in {"plain", "filtered", "breaks"} : Publish(kind))
  BY <1>5, <1>7 DEF Open, Close, UpdateMerge, UpdateExact, Update, ImportAt, MarkReplacementPending, MergeFails,
                    Interrupt, MarkMergedStep, MarkMerged, Publish, Committed, Replaced
<1>8. ASSUME NEW r \in Rows, SourceChanges(r) \/ UpsertChanged(r) \/ UpsertUnchanged(r) \/ MarkMemberDeleted(r)
      PROVE  ImportInv'
  BY <1>5, <1>8 DEF SourceChanges, UpsertChanged, UpsertUnchanged, MarkMemberDeleted, Upsert, Committed, Replaced
<1> QED BY <1>1, <1>2, <1>3, <1>6, <1>7, <1>8 DEF Next, Import

(* A manifest is recorded when the archive has its snapshot; an exact      *)
(* import brings the record of an older snapshot with it.                  *)
LEMMA RecordedKept ==
  ASSUME IInv, Next, TypeOK' PROVE RecordedIsApplied'
<1> DEFINE p == PreviousMergedManifest
           q == (PreviousMergedManifest)'
<1>0. p \in 0 .. Len(published)
  BY DEF IInv, TypeOK, PreviousMergedManifest, PreviousImportedManifest
<1>1. CASE pc # "replace" /\ (q = p \/ (pc \in Committed /\ q = target))
  <2> SUFFICES ASSUME q > 0, NEW r \in Rows PROVE (published[PreviousMergedManifest].rows[r].rev <= Fence(r))'
    BY DEF RecordedIsApplied
  <2>1. CASE q = p
    <3>1. p \in 1 .. Len(published) /\ Has(p, r)
      BY <1>0, <2>1 DEF IInv, RecordedIsApplied, Has
    <3>2. published'[p].rows[r].rev <= (Fence(r))'
      BY <1>1, <3>1, HasStays
    <3> QED BY <2>1, <3>2
  <2>2. CASE pc \in Committed /\ q = target
    <3>1. target \in 1 .. Len(published) /\ Has(target, r)
      BY <2>2 DEF IInv, CommandTypes, ImportInv, Committed, Replaced
    <3>2. published'[target].rows[r].rev <= (Fence(r))'
      BY <1>1, <3>1, HasStays
    <3> QED BY <2>2, <3>2
  <2> QED BY <1>1, <2>1, <2>2
<1>2. CASE importSnapshot
  <2>0. target \in 1 .. Len(published) /\ UNCHANGED published
    BY <1>2 DEF IInv, CommandTypes, importSnapshot, publisher
  <2>1. q = published[target].manifest
    BY <1>2 DEF importSnapshot, ReplacedState, PreviousMergedManifest, PreviousImportedManifest
  <2>2. q \in Nat /\ q < target
    BY <2>0, <2>1, SnapshotTypes DEF IInv, PublisherInv
  <2> SUFFICES ASSUME q > 0, NEW r \in Rows PROVE (published[PreviousMergedManifest].rows[r].rev <= Fence(r))'
    BY DEF RecordedIsApplied
  <2>3. q \in 1 .. Len(published)
    BY <2>0, <2>2
  <2>4. published[q].rows[r].rev <= published[target].rows[r].rev
    BY <2>0, <2>2, <2>3 DEF IInv, PublisherInv
  <2>5. rows'[r] = published[target].rows[r]
    BY <1>2 DEF importSnapshot
  <2>6. published[q].rows[r].rev \in Nat /\ published[target].rows[r].rev \in Nat
    BY <2>0, <2>3, SnapshotTypes DEF IInv, Times
  <2>7. (Fence(r))' \in Nat /\ rows'[r].rev <= (Fence(r))'
    BY FenceIsNext
  <2>8. published'[q].rows[r].rev <= (Fence(r))'
    BY <2>0, <2>4, <2>5, <2>6, <2>7, SMTT(60)
  <2> QED BY <2>8
<1>3. CASE MarkImported \/ MarkMergedStep
  <2>1. pc # "replace" /\ (q = p \/ (pc \in Committed /\ q = target))
    <3>1. pc \notin {"closed", "open", "replace"} /\ target > 0
      BY <1>3 DEF MarkImported, MarkMergedStep, MarkMerged, IInv, CommandTypes
    <3>2. CASE MarkImported
      BY <3>1, <3>2 DEF MarkImported, PreviousMergedManifest, PreviousImportedManifest, Committed, Replaced
    <3>3. CASE MarkMergedStep
      BY <3>1, <3>3 DEF MarkMergedStep, MarkMerged, PreviousMergedManifest, PreviousImportedManifest, Committed
    <3> QED BY <1>3, <3>1, <3>2, <3>3
  <2> QED BY <1>1, <2>1
<1>4. CASE ~(importSnapshot \/ MarkImported \/ MarkMergedStep)
  <2>1. (UNCHANGED <<imported, merged>> /\ pc # "replace") \/ Interrupt
    BY <1>4 DEF Next, SourceChanges, UpsertChanged, UpsertUnchanged, MarkMemberDeleted, Upsert, Publish, Open, Close,
                UpdateMerge, UpdateExact, Update, ImportAt, Import, MarkReplacementPending, PlanMerge,
                importMergeSnapshotRows, MergeFails, RebuildMemberSearchIndex, RebuildStep, RebuildSearchIndexes, state
  <2>2. CASE Interrupt
    <3>1. UNCHANGED <<published, rows, checked, imported, merged>>
      BY <2>2 DEF Interrupt, publisher, archive, state
    <3> QED BY <3>1 DEF IInv, RecordedIsApplied, PreviousMergedManifest, PreviousImportedManifest, Fence
  <2>3. CASE UNCHANGED <<imported, merged>> /\ pc # "replace"
    BY <1>1, <2>3 DEF PreviousMergedManifest, PreviousImportedManifest
  <2> QED BY <2>1, <2>2, <2>3
<1> QED BY <1>2, <1>3, <1>4

(* Events are added only to tables that have none, or replace what is      *)
(* there.                                                                  *)
LEMMA EventsOnceKept ==
  ASSUME IInv, Next PROVE EventsOnce'
<1>1. CASE importMergeSnapshotRows
  <2>1. CASE plan.events
    <3>1. \A t \in 1 .. MaxTime : log[t] = 0
      BY <1>1, <2>1 DEF IInv, ImportInv, importMergeSnapshotRows
    <3>2. DOMAIN log = 1 .. MaxTime
      BY DEF IInv, TypeOK
    <3> QED BY <1>1, <2>1, <3>1, <3>2 DEF importMergeSnapshotRows, EventsOnce
  <2>2. CASE ~plan.events
    BY <1>1, <2>2 DEF IInv, EventsOnce, importMergeSnapshotRows
  <2> QED BY <2>1, <2>2
<1>2. CASE importSnapshot
  BY <1>2 DEF importSnapshot, EventsOnce
<1>3. CASE UNCHANGED log
  BY <1>3 DEF IInv, EventsOnce
<1> QED BY <1>1, <1>2, <1>3
        DEF Next, SourceChanges, UpsertChanged, UpsertUnchanged, MarkMemberDeleted, Upsert, Publish, Open, Close,
            UpdateMerge, UpdateExact, Update, ImportAt, Import, Interrupt, MarkReplacementPending, PlanMerge,
            MergeFails, RebuildMemberSearchIndex, MarkMergedStep, RebuildStep, MarkImported, archive

(* Every reachable state satisfies the inductive invariant.                *)
LEMMA Invariance == Spec => []IInv
<1>1. Init => IInv
  <2> SUFFICES ASSUME Init PROVE IInv
    OBVIOUS
  <2>1. Absent \in [rev : Times, seen : Times] /\ Absent.rev = 0 /\ Absent.seen = 0
    BY DEF Absent, Times
  <2>2. TypeOK
    <3>1. /\ rows \in [Rows -> [rev : 0 .. MaxTime, seen : 0 .. MaxTime]]
          /\ source \in [Rows -> [rev : 0 .. MaxTime, seen : 0 .. MaxTime]]
      BY <2>1 DEF Init, Times
    <3>2. Len(published) = 0
      BY DEF Init
    <3>3. /\ checked \in [Rows -> 0 .. MaxTime] /\ indexed \in [Rows -> 0 .. MaxTime]
          /\ log \in [1 .. MaxTime -> Nat]
      BY DEF Init
    <3>4. /\ clock \in 0 .. MaxTime /\ exacts \in 0 .. MaxExact /\ faults \in 0 .. MaxFaults
          /\ Len(published) <= MaxPublications
          /\ {imported, merged, worktree, target} \subseteq 0 .. Len(published)
      BY <3>2 DEF Init
    <3> QED BY <3>1, <3>3, <3>4 DEF Init, TypeOK
  <2>3. CommandTypes
    BY DEF Init, CommandTypes, Stages, NoPlan
  <2>4. PublisherInv
    BY <2>1 DEF Init, PublisherInv
  <2>5. ArchiveInv
    <3>1. \A r \in Rows : Fence(r) \in Nat
      BY <2>2, FenceIs
    <3> QED BY <2>1, <3>1 DEF Init, ArchiveInv
  <2>6. ImportInv
    BY DEF Init, ImportInv, Committed, Replaced
  <2>7. RecordedIsApplied /\ EventsOnce
    BY DEF Init, RecordedIsApplied, PreviousMergedManifest, PreviousImportedManifest, EventsOnce
  <2> QED BY <2>2, <2>3, <2>4, <2>5, <2>6, <2>7 DEF IInv
<1>2. IInv /\ [Next]_vars => IInv'
  <2> SUFFICES ASSUME IInv, [Next]_vars PROVE IInv'
    OBVIOUS
  <2>1. CASE Next
    <3>1. TypeOK'
      BY <2>1, TypeOKKept
    <3> QED BY <2>1, <3>1, CommandTypesKept, PublisherInvKept, ArchiveInvKept, ImportInvKept, RecordedKept,
               EventsOnceKept DEF IInv
  <2>2. CASE UNCHANGED vars
    BY <2>2 DEF IInv, TypeOK, CommandTypes, PublisherInv, ArchiveInv, ImportInv, Has, Fence, RecordedIsApplied,
                PreviousMergedManifest, PreviousImportedManifest, EventsOnce, vars, publisher, archive, state, search
  <2> QED BY <2>1, <2>2
<1> QED BY <1>1, <1>2, PTL DEF Spec

(* The manifest from which the next merge decides what to skip is never    *)
(* ahead of the archive, whatever was interrupted or imported from history *)
(* in between.                                                             *)
THEOREM RecordNeverAhead == Spec => []RecordedIsApplied
<1>1. IInv => RecordedIsApplied
  BY DEF IInv
<1> QED BY <1>1, Invariance, PTL

(* No repeated, interrupted or exact import makes an event count twice.    *)
THEOREM EventsNeverTwice == Spec => []EventsOnce
<1>1. IInv => EventsOnce
  BY DEF IInv
<1> QED BY <1>1, Invariance, PTL

(* Short of an exact import, content known to be right at some time is not *)
(* replaced by content known to be right only before.                      *)
THEOREM MergesNeverGoBack == Spec => ContentNeverOlder
<1>1. IInv /\ [Next]_vars => [pc = "replace" \/ \A r \in Rows : rows'[r].seen >= rows[r].seen]_vars
  <2> SUFFICES ASSUME IInv, Next, pc # "replace", NEW r \in Rows PROVE rows'[r].seen >= rows[r].seen
    OBVIOUS
  <2>0. rows[r].seen \in Nat /\ clock \in Nat /\ rows[r].rev \in Nat /\ checked[r] \in Nat
    BY RowTypes DEF IInv
  <2>1. CASE rows'[r] = rows[r]
    BY <2>0, <2>1
  <2>2. CASE rows'[r].seen = clock + 1
    <3>1. rows[r].seen <= Fence(r) /\ Fence(r) <= clock
      BY FenceIs DEF IInv, ArchiveInv
    <3>2. Fence(r) \in Nat
      BY FenceIs DEF IInv
    <3> QED BY <2>0, <2>2, <3>1, <3>2
  <2>3. CASE importMergeSnapshotRows /\ r \in Applied
    <3>0. target \in 1 .. Len(published) /\ rows'[r] = published[target].rows[r]
      BY <2>3 DEF IInv, CommandTypes, importMergeSnapshotRows, upsertSnapshotRow
    <3>1. rows'[r].seen = rows'[r].rev /\ rows'[r].rev \in Nat
      BY <3>0, SnapshotTypes DEF IInv, PublisherInv, Times
    <3>2. rows[r].rev = 0 \/ rows'[r].rev >= Fence(r)
      BY <2>0, <2>3, <3>0 DEF Applied, shouldMergeObservedEntityRow, Stored
    <3>3. /\ rows[r].seen <= Fence(r) /\ Fence(r) \in Nat
          /\ rows[r].rev = 0 => rows[r].seen = 0
      BY FenceIs DEF IInv, ArchiveInv
    <3> QED BY <2>0, <3>1, <3>2, <3>3
  <2>4. ASSUME NEW x \in Rows, UpsertChanged(x) \/ UpsertUnchanged(x) \/ MarkMemberDeleted(x)
        PROVE  rows'[r] = rows[r] \/ rows'[r].seen = clock + 1
    <3>1. rows \in [Rows -> [rev : 0 .. MaxTime, seen : 0 .. MaxTime]]
      BY DEF IInv, TypeOK
    <3>2. CASE UpsertUnchanged(x)
      BY <3>1, <3>2 DEF UpsertUnchanged, Tick
    <3>3. CASE UpsertChanged(x) \/ MarkMemberDeleted(x)
      BY <3>1, <3>3 DEF UpsertChanged, MarkMemberDeleted, Upsert, Row, Tick
    <3> QED BY <2>4, <3>2, <3>3
  <2>5. importMergeSnapshotRows => r \in Applied \/ rows'[r] = rows[r]
    BY DEF importMergeSnapshotRows, upsertSnapshotRow
  <2>6. CASE ~(importMergeSnapshotRows \/ \E x \in Rows : UpsertChanged(x) \/ UpsertUnchanged(x) \/ MarkMemberDeleted(x))
    BY <2>1, <2>6 DEF Next, SourceChanges, Publish, Open, Close, UpdateMerge, UpdateExact, Update, ImportAt, Import,
                Interrupt, MarkReplacementPending, PlanMerge, MergeFails, RebuildMemberSearchIndex, importSnapshot,
                MarkMergedStep, RebuildStep, MarkImported, archive
  <2> QED BY <2>1, <2>2, <2>3, <2>4, <2>5, <2>6
<1> QED BY <1>1, Invariance, PTL DEF Spec, ContentNeverOlder
==============================================================================

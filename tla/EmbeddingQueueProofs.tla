---------------------- MODULE EmbeddingQueueProofs ----------------------
(***************************************************************************)
(* Proofs about EmbeddingQueue, for any messages, texts, slots and bounds. *)
(***************************************************************************)
EXTENDS EmbeddingQueue, TLAPS

(* The writer lock has at most one owner.                                  *)
LockInv == \A o, p \in owners : o = p

(* A busy slot belongs to a running tail; while its claim matches the job, *)
(* its message is live and the text it read is the text there is.          *)
SlotInv ==
  \A s \in Slots : slot[s].stage # "idle" =>
    /\ "tail" \in owners /\ slot[s].msg \in Msgs
    /\ Matches(s) => /\ Live(slot[s].msg)
                     /\ slot[s].stage # "claimed" =>
                          slot[s].valid /\ slot[s].input = Capped[text[slot[s].msg]]

(* The drain works only under the lock, and what it listed is unchanged.   *)
DrainInv ==
  /\ "embed" \notin owners => drain.todo = {} /\ drain.cur = None
  /\ \A m \in Msgs : m \in drain.todo \/ m = drain.cur =>
       Live(m) /\ drain.seen[m] = text[m]

(* The inductive invariant.                                                *)
IInv == TypeOK /\ LockInv /\ SlotInv /\ DrainInv

USE TextAssumption, SlotAssumption, OwnerAssumption, EnqueueAssumption, BoundAssumption

(* Every update of a job yields a job.                                     *)
LEMMA JobUpdates ==
  ASSUME NEW j \in Jobs
  PROVE  /\ Unleased(j) \in Jobs
         /\ j.rev < MaxRevision => Bumped(j) \in Jobs /\ Queued(j) \in Jobs
         /\ j.rev < MaxRevision => [Bumped(j) EXCEPT !.ready = TRUE] \in Jobs
         /\ \A b \in BOOLEAN : /\ [j EXCEPT !.live = b] \in Jobs
                               /\ [j EXCEPT !.ready = b] \in Jobs
                               /\ [j EXCEPT !.locked = b] \in Jobs
         /\ \A st \in States, b \in BOOLEAN :
              /\ [j EXCEPT !.state = st, !.locked = b] \in Jobs
              /\ [Unleased(j) EXCEPT !.state = st, !.ready = b] \in Jobs
         /\ NoJob \in Jobs
<1>1. Unleased(j) \in Jobs
  BY DEF Unleased, Jobs
<1>2. j.rev < MaxRevision => Bumped(j) \in Jobs
  <2>1. Unleased(j).rev = j.rev
    BY DEF Unleased, Jobs
  <2>2. j.rev < MaxRevision => j.rev + 1 \in 1..MaxRevision
    BY DEF Jobs
  <2> QED BY <1>1, <2>1, <2>2 DEF Bumped, Jobs
<1>3. j.rev < MaxRevision => Queued(j) \in Jobs
  BY <1>2 DEF Queued, Jobs, States
<1>4. j.rev < MaxRevision => [Bumped(j) EXCEPT !.ready = TRUE] \in Jobs
  BY <1>2 DEF Jobs
<1>5. \A b \in BOOLEAN : /\ [j EXCEPT !.live = b] \in Jobs
                         /\ [j EXCEPT !.ready = b] \in Jobs
                         /\ [j EXCEPT !.locked = b] \in Jobs
  BY DEF Jobs
<1>6. \A st \in States, b \in BOOLEAN :
         /\ [j EXCEPT !.state = st, !.locked = b] \in Jobs
         /\ [Unleased(j) EXCEPT !.state = st, !.ready = b] \in Jobs
  BY <1>1 DEF Jobs
<1>7. NoJob \in Jobs
  BY DEF NoJob, Jobs, States
<1> QED BY <1>1, <1>2, <1>3, <1>4, <1>5, <1>6, <1>7

(* Every update of a slot yields a slot.                                   *)
LEMMA SlotUpdates ==
  ASSUME NEW r \in SlotStates
  PROVE  /\ IdleSlot \in SlotStates
         /\ [r EXCEPT !.stage = "embedded"] \in SlotStates
         /\ [r EXCEPT !.stage = "failed"] \in SlotStates
         /\ \A b \in BOOLEAN, i \in Inputs :
              [r EXCEPT !.stage = "read", !.valid = b, !.input = i] \in SlotStates
<1>1. IdleSlot \in SlotStates
  BY DEF IdleSlot, SlotStates, Inputs
<1>2. /\ [r EXCEPT !.stage = "embedded"] \in SlotStates
      /\ [r EXCEPT !.stage = "failed"] \in SlotStates
  BY DEF SlotStates
<1>3. \A b \in BOOLEAN, i \in Inputs :
        [r EXCEPT !.stage = "read", !.valid = b, !.input = i] \in SlotStates
  BY DEF SlotStates
<1> QED BY <1>1, <1>2, <1>3

(* Taking the claims of a dead tail back invalidates no slot: there is     *)
(* none at work.                                                           *)
LEMMA StartTailKeeps ==
  ASSUME IInv, StartTail PROVE IInv'
<1>1. TypeOK'
  <2>1. \A m \in Msgs : job[m] \in Jobs /\ Unleased(job[m]) \in Jobs
    BY JobUpdates DEF IInv, TypeOK
  <2>2. job' \in [Msgs -> Jobs]
    BY <2>1, Zenon DEF StartTail
  <2> QED BY <2>2 DEF IInv, TypeOK, StartTail, Acquire, messageVars, lockVars
<1>2. LockInv'
  BY DEF IInv, LockInv, StartTail, Acquire, Unleased, lockVars
<1>3. SlotInv'
  BY DEF IInv, TypeOK, SlotInv, LockInv, Matches, Live, StartTail, Acquire, Unleased, messageVars, lockVars, Jobs, SlotStates
<1>4. DrainInv'
  BY DEF IInv, TypeOK, DrainInv, LockInv, Live, StartTail, Acquire, Unleased, messageVars, lockVars, Jobs
<1> QED BY <1>1, <1>2, <1>3, <1>4 DEF IInv

(* Asking the tail to stop changes neither jobs nor claims.                *)
LEMMA StopTailKeeps ==
  ASSUME IInv, StopTail PROVE IInv'
<1>1. TypeOK'
  BY DEF IInv, TypeOK, StopTail, Fault, messageVars, lockVars, Jobs, SlotStates, Inputs, States
<1>2. LockInv'
  BY DEF IInv, LockInv, StopTail, Fault, lockVars
<1>3. SlotInv'
  BY DEF IInv, TypeOK, SlotInv, LockInv, Matches, Live, StopTail, Fault, messageVars, lockVars, Jobs, SlotStates
<1>4. DrainInv'
  BY DEF IInv, TypeOK, DrainInv, LockInv, Live, StopTail, Fault, messageVars, lockVars, Jobs
<1> QED BY <1>1, <1>2, <1>3, <1>4 DEF IInv

(* The lock is let go after the last slot is idle.                         *)
LEMMA EndTailKeeps ==
  ASSUME IInv, EndTail PROVE IInv'
<1>1. TypeOK'
  BY DEF IInv, TypeOK, EndTail, messageVars, lockVars, Jobs, SlotStates, Inputs, States
<1>2. LockInv'
  BY DEF IInv, LockInv, EndTail, lockVars
<1>3. SlotInv'
  BY DEF IInv, TypeOK, SlotInv, LockInv, Matches, Live, EndTail, messageVars, lockVars, Jobs, SlotStates
<1>4. DrainInv'
  BY DEF IInv, TypeOK, DrainInv, LockInv, Live, EndTail, messageVars, lockVars, Jobs
<1> QED BY <1>1, <1>2, <1>3, <1>4 DEF IInv

(* The lock is taken only when nobody has it.                              *)
LEMMA StartSyncKeeps ==
  ASSUME IInv, StartSync PROVE IInv'
<1>1. TypeOK'
  BY DEF IInv, TypeOK, StartSync, Acquire, messageVars, lockVars, Jobs, SlotStates, Inputs, States
<1>2. LockInv'
  BY DEF IInv, LockInv, StartSync, Acquire, lockVars
<1>3. SlotInv'
  BY DEF IInv, TypeOK, SlotInv, LockInv, Matches, Live, StartSync, Acquire, messageVars, lockVars, Jobs, SlotStates
<1>4. DrainInv'
  BY DEF IInv, TypeOK, DrainInv, LockInv, Live, StartSync, Acquire, messageVars, lockVars, Jobs
<1> QED BY <1>1, <1>2, <1>3, <1>4 DEF IInv

(* A sync leaves no claim and no listing behind.                           *)
LEMMA EndSyncKeeps ==
  ASSUME IInv, EndSync PROVE IInv'
<1>1. TypeOK'
  BY DEF IInv, TypeOK, EndSync, messageVars, lockVars, Jobs, SlotStates, Inputs, States
<1>2. LockInv'
  BY DEF IInv, LockInv, EndSync, lockVars
<1>3. SlotInv'
  BY DEF IInv, TypeOK, SlotInv, LockInv, Matches, Live, EndSync, messageVars, lockVars, Jobs, SlotStates
<1>4. DrainInv'
  BY DEF IInv, TypeOK, DrainInv, LockInv, Live, EndSync, messageVars, lockVars, Jobs
<1> QED BY <1>1, <1>2, <1>3, <1>4 DEF IInv

(* A crash forgets the slots and the drain with the lock.                  *)
LEMMA CrashKeeps ==
  ASSUME IInv, Crash PROVE IInv'
<1>1. TypeOK'
  <2>1. slot' \in [Slots -> SlotStates]
    BY DEF Crash, IdleSlot, SlotStates, Inputs
  <2>2. owners' \subseteq Owners /\ faults' \in 0..MaxFaults
    BY DEF IInv, TypeOK, Crash, Fault
  <2>4. stopping' \in BOOLEAN
    BY Zenon DEF Crash
  <2>3. drain' \in [stage : {"start", "list", "work"}, todo : SUBSET Msgs,
                    seen : [Msgs -> Texts \cup {None}], cur : Msgs \cup {None}]
    BY DEF Crash, NoDrain
  <2> QED BY <2>1, <2>2, <2>3, <2>4 DEF IInv, TypeOK, Crash, messageVars, lockVars
<1>2. LockInv'
  BY DEF IInv, LockInv, Crash, Fault, IdleSlot, NoDrain, lockVars
<1>3. SlotInv'
  BY DEF IInv, TypeOK, SlotInv, LockInv, Matches, Live, Crash, Fault, IdleSlot, NoDrain, messageVars, lockVars, Jobs, SlotStates
<1>4. DrainInv'
  BY DEF IInv, TypeOK, DrainInv, LockInv, Live, Crash, Fault, IdleSlot, NoDrain, messageVars, lockVars, Jobs
<1> QED BY <1>1, <1>2, <1>3, <1>4 DEF IInv

(* An expired lease only makes a claim weaker.                             *)
LEMMA LeaseExpiresKeeps ==
  ASSUME NEW m \in Msgs, IInv, LeaseExpires(m) PROVE IInv'
<1>1. TypeOK'
  <2>1. job' \in [Msgs -> Jobs]
    BY JobUpdates DEF IInv, TypeOK, LeaseExpires
  <2> QED BY <2>1 DEF IInv, TypeOK, LeaseExpires, Fault, messageVars, lockVars
<1>2. LockInv'
  BY DEF IInv, LockInv, LeaseExpires, Fault, lockVars
<1>3. SlotInv'
  BY DEF IInv, TypeOK, SlotInv, LockInv, Matches, Live, LeaseExpires, Fault, messageVars, lockVars, Jobs, SlotStates
<1>4. DrainInv'
  BY DEF IInv, TypeOK, DrainInv, LockInv, Live, LeaseExpires, Fault, messageVars, lockVars, Jobs
<1> QED BY <1>1, <1>2, <1>3, <1>4 DEF IInv

(* The end of a backoff touches no claim.                                  *)
LEMMA BackoffEndsKeeps ==
  ASSUME NEW m \in Msgs, IInv, BackoffEnds(m) PROVE IInv'
<1>1. TypeOK'
  <2>1. job' \in [Msgs -> Jobs]
    BY JobUpdates DEF IInv, TypeOK, BackoffEnds
  <2> QED BY <2>1 DEF IInv, TypeOK, BackoffEnds, messageVars, lockVars
<1>2. LockInv'
  BY DEF IInv, LockInv, BackoffEnds, lockVars
<1>3. SlotInv'
  BY DEF IInv, TypeOK, SlotInv, LockInv, Matches, Live, BackoffEnds, messageVars, lockVars, Jobs, SlotStates
<1>4. DrainInv'
  BY DEF IInv, TypeOK, DrainInv, LockInv, Live, BackoffEnds, messageVars, lockVars, Jobs
<1> QED BY <1>1, <1>2, <1>3, <1>4 DEF IInv

(* The age of locked_at is no part of a claim.                             *)
LEMMA LockExpiresKeeps ==
  ASSUME NEW m \in Msgs, IInv, LockExpires(m) PROVE IInv'
<1>1. TypeOK'
  <2>1. job' \in [Msgs -> Jobs]
    BY JobUpdates DEF IInv, TypeOK, LockExpires
  <2> QED BY <2>1 DEF IInv, TypeOK, LockExpires, messageVars, lockVars
<1>2. LockInv'
  BY DEF IInv, LockInv, LockExpires, lockVars
<1>3. SlotInv'
  BY DEF IInv, TypeOK, SlotInv, LockInv, Matches, Live, LockExpires, messageVars, lockVars, Jobs, SlotStates
<1>4. DrainInv'
  BY DEF IInv, TypeOK, DrainInv, LockInv, Live, LockExpires, messageVars, lockVars, Jobs
<1> QED BY <1>1, <1>2, <1>3, <1>4 DEF IInv

(* A new text moves the revision, so no claim on the old one matches.      *)
LEMMA WriteTextKeeps ==
  ASSUME NEW m \in Msgs, NEW t \in Texts, NEW e \in BOOLEAN, IInv, WriteText(m, t, e) PROVE IInv'
<1>1. TypeOK'
  <2>1. job' \in [Msgs -> Jobs]
    BY JobUpdates DEF IInv, TypeOK, WriteText
  <2> QED BY <2>1 DEF IInv, TypeOK, WriteText, Came, Origins, Inputs, messageVars, lockVars
<1>2. LockInv'
  BY DEF IInv, LockInv, WriteText, Writable, Queued, Bumped, Unleased, lockVars
<1>3. SlotInv'
  BY DEF IInv, TypeOK, SlotInv, LockInv, Matches, Live, WriteText, Writable, Queued, Bumped, Unleased, messageVars, lockVars, Jobs, SlotStates
<1>4. DrainInv'
  BY DEF IInv, TypeOK, DrainInv, LockInv, Live, WriteText, Writable, Queued, Bumped, Unleased, messageVars, lockVars, Jobs
<1> QED BY <1>1, <1>2, <1>3, <1>4 DEF IInv

(* A repaired text moves the revision as a written one does.               *)
LEMMA RepairTextKeeps ==
  ASSUME NEW m \in Msgs, NEW t \in Texts, NEW e \in BOOLEAN, IInv, RepairText(m, t, e) PROVE IInv'
<1>1. TypeOK'
  <2>1. job' \in [Msgs -> Jobs]
    BY JobUpdates DEF IInv, TypeOK, RepairText
  <2> QED BY <2>1 DEF IInv, TypeOK, RepairText, Came, Origins, Inputs, messageVars, lockVars
<1>2. LockInv'
  BY DEF IInv, LockInv, RepairText, Live, Queued, Bumped, Unleased, lockVars
<1>3. SlotInv'
  BY DEF IInv, TypeOK, SlotInv, LockInv, Matches, Live, RepairText, Queued, Bumped, Unleased, messageVars, lockVars, Jobs, SlotStates
<1>4. DrainInv'
  BY DEF IInv, TypeOK, DrainInv, LockInv, Live, RepairText, Queued, Bumped, Unleased, messageVars, lockVars, Jobs
<1> QED BY <1>1, <1>2, <1>3, <1>4 DEF IInv

(* Queueing a job again for the same text leaves no claim that matches.    *)
LEMMA RewriteTextKeeps ==
  ASSUME NEW m \in Msgs, IInv, RewriteText(m) PROVE IInv'
<1>1. TypeOK'
  <2>1. job' \in [Msgs -> Jobs]
    BY JobUpdates DEF IInv, TypeOK, RewriteText
  <2> QED BY <2>1 DEF IInv, TypeOK, RewriteText, Came, Origins, Inputs, messageVars, lockVars
<1>2. LockInv'
  BY DEF IInv, LockInv, RewriteText, Writable, Live, Queued, Bumped, Unleased, lockVars
<1>3. SlotInv'
  BY DEF IInv, TypeOK, SlotInv, LockInv, Matches, Live, RewriteText, Writable, Queued, Bumped, Unleased, messageVars, lockVars, Jobs, SlotStates
<1>4. DrainInv'
  BY DEF IInv, TypeOK, DrainInv, LockInv, Live, RewriteText, Writable, Queued, Bumped, Unleased, messageVars, lockVars, Jobs
<1> QED BY <1>1, <1>2, <1>3, <1>4 DEF IInv

(* Deleting a message takes its job, and with it every claim.              *)
LEMMA DeleteKeeps ==
  ASSUME NEW m \in Msgs, IInv, Delete(m) PROVE IInv'
<1>1. TypeOK'
  BY DEF IInv, TypeOK, Delete, Writable, Live, NoJob, messageVars, lockVars, Jobs, SlotStates, Inputs, States
<1>2. LockInv'
  BY DEF IInv, LockInv, Delete, Writable, Live, NoJob, lockVars
<1>3. SlotInv'
  BY DEF IInv, TypeOK, SlotInv, LockInv, Matches, Live, Delete, Writable, NoJob, messageVars, lockVars, Jobs, SlotStates
<1>4. DrainInv'
  BY DEF IInv, TypeOK, DrainInv, LockInv, Live, Delete, Writable, NoJob, messageVars, lockVars, Jobs
<1> QED BY <1>1, <1>2, <1>3, <1>4 DEF IInv

(* A snapshot is merged by a sync: there is no slot and no drain to        *)
(* disturb.                                                                *)
LEMMA MergeSnapshotKeeps ==
  ASSUME NEW m \in Msgs, NEW t \in Texts, NEW a \in BOOLEAN, NEW b \in BOOLEAN, NEW v \in BOOLEAN, IInv, MergeSnapshot(m, t, a, b, v) PROVE IInv'
<1>1. TypeOK'
  BY DEF IInv, TypeOK, MergeSnapshot, Came, Origins, messageVars, lockVars, Jobs, SlotStates, Inputs, States
<1>2. LockInv'
  BY DEF IInv, LockInv, MergeSnapshot, lockVars
<1>3. SlotInv'
  BY DEF IInv, TypeOK, SlotInv, LockInv, Matches, Live, MergeSnapshot, messageVars, lockVars, Jobs, SlotStates
<1>4. DrainInv'
  BY DEF IInv, TypeOK, DrainInv, LockInv, Live, MergeSnapshot, messageVars, lockVars, Jobs
<1> QED BY <1>1, <1>2, <1>3, <1>4 DEF IInv

(* The drain starts with an empty list.                                    *)
LEMMA StartEmbedKeeps ==
  ASSUME IInv, StartEmbed PROVE IInv'
<1>1. TypeOK'
  BY DEF IInv, TypeOK, StartEmbed, Acquire, NoDrain, messageVars, lockVars, Jobs, SlotStates, Inputs, States
<1>2. LockInv'
  BY DEF IInv, LockInv, StartEmbed, Acquire, NoDrain, lockVars
<1>3. SlotInv'
  BY DEF IInv, TypeOK, SlotInv, LockInv, Matches, Live, StartEmbed, Acquire, NoDrain, messageVars, lockVars, Jobs, SlotStates
<1>4. DrainInv'
  BY DEF IInv, TypeOK, DrainInv, LockInv, Live, StartEmbed, Acquire, NoDrain, messageVars, lockVars, Jobs
<1> QED BY <1>1, <1>2, <1>3, <1>4 DEF IInv

(* A rebuild happens under the lock of embed, with no slot at work.        *)
LEMMA RebuildKeeps ==
  ASSUME IInv, Rebuild PROVE IInv'
<1>1. TypeOK'
  <2>1. \A m \in Msgs : job[m] \in Jobs /\ [job[m] EXCEPT !.state = "pending", !.locked = FALSE] \in Jobs
    BY JobUpdates DEF IInv, TypeOK, States
  <2>2. job' \in [Msgs -> Jobs]
    BY <2>1, Zenon DEF Rebuild
  <2> QED BY <2>2 DEF IInv, TypeOK, Rebuild, messageVars, lockVars
<1>2. LockInv'
  BY DEF IInv, LockInv, Rebuild, Live, lockVars
<1>3. SlotInv'
  BY DEF IInv, TypeOK, SlotInv, LockInv, Matches, Live, Rebuild, messageVars, lockVars, Jobs, SlotStates
<1>4. DrainInv'
  BY DEF IInv, TypeOK, DrainInv, LockInv, Live, Rebuild, messageVars, lockVars, Jobs
<1> QED BY <1>1, <1>2, <1>3, <1>4 DEF IInv

(* The drain lists live messages with the texts they have.                 *)
LEMMA ListJobsKeeps ==
  ASSUME IInv, ListJobs PROVE IInv'
<1>1. TypeOK'
  BY DEF IInv, TypeOK, ListJobs, Live, messageVars, lockVars, Jobs, SlotStates, Inputs, States
<1>2. LockInv'
  BY DEF IInv, LockInv, ListJobs, Live, lockVars
<1>3. SlotInv'
  BY DEF IInv, TypeOK, SlotInv, LockInv, Matches, Live, ListJobs, messageVars, lockVars, Jobs, SlotStates
<1>4. DrainInv'
  BY DEF IInv, TypeOK, DrainInv, LockInv, Live, ListJobs, messageVars, lockVars, Jobs
<1> QED BY <1>1, <1>2, <1>3, <1>4 DEF IInv

(* Storing a vector finishes the current job of the drain.                 *)
LEMMA StoreVectorKeeps ==
  ASSUME IInv, StoreVector PROVE IInv'
<1>1. TypeOK'
  <2>1. drain.cur \in Msgs /\ Capped[drain.seen[drain.cur]] \in Inputs
    BY DEF IInv, TypeOK, DrainInv, Live, StoreVector, Inputs
  <2>2. job' \in [Msgs -> Jobs]
    BY <2>1, JobUpdates DEF IInv, TypeOK, StoreVector, Marked, States
  <2> QED BY <2>1, <2>2 DEF IInv, TypeOK, StoreVector, messageVars, lockVars
<1>2. LockInv'
  BY DEF IInv, LockInv, StoreVector, Marked, lockVars
<1>3. SlotInv'
  BY DEF IInv, TypeOK, SlotInv, LockInv, Matches, Live, StoreVector, Marked, messageVars, lockVars, Jobs, SlotStates
<1>4. DrainInv'
  BY DEF IInv, TypeOK, DrainInv, LockInv, Live, StoreVector, Marked, messageVars, lockVars, Jobs
<1> QED BY <1>1, <1>2, <1>3, <1>4 DEF IInv

(* The drain ends with nothing left to do.                                 *)
LEMMA EndEmbedKeeps ==
  ASSUME IInv, EndEmbed PROVE IInv'
<1>1. TypeOK'
  BY DEF IInv, TypeOK, EndEmbed, NoDrain, messageVars, lockVars, Jobs, SlotStates, Inputs, States
<1>2. LockInv'
  BY DEF IInv, LockInv, EndEmbed, NoDrain, lockVars
<1>3. SlotInv'
  BY DEF IInv, TypeOK, SlotInv, LockInv, Matches, Live, EndEmbed, NoDrain, messageVars, lockVars, Jobs, SlotStates
<1>4. DrainInv'
  BY DEF IInv, TypeOK, DrainInv, LockInv, Live, EndEmbed, NoDrain, messageVars, lockVars, Jobs
<1> QED BY <1>1, <1>2, <1>3, <1>4 DEF IInv

(* The next job of the drain is one it listed.                             *)
LEMMA TakeJobKeeps ==
  ASSUME NEW m \in Msgs, IInv, TakeJob(m) PROVE IInv'
<1>1. TypeOK'
  <2>1. job[m] \in Jobs
    BY DEF IInv, TypeOK
  <2>2. [job[m] EXCEPT !.locked = TRUE] \in Jobs
    BY <2>1, JobUpdates
  <2>3. [job[m] EXCEPT !.state = "done", !.locked = FALSE] \in Jobs
    BY <2>1, JobUpdates DEF States
  <2>4. \/ job' = job
        \/ job' = [job EXCEPT ![m] = [job[m] EXCEPT !.locked = TRUE]]
        \/ job' = [job EXCEPT ![m] = [job[m] EXCEPT !.state = "done", !.locked = FALSE]]
    <3>1. CASE drain.seen[m] = Blank
      BY <3>1 DEF TakeJob, Marked
    <3>2. CASE drain.seen[m] # Blank
      BY <3>2 DEF TakeJob
    <3> QED BY <3>1, <3>2
  <2>5. job' \in [Msgs -> Jobs]
    <3> DEFINE taken == [job[m] EXCEPT !.locked = TRUE]
               done  == [job[m] EXCEPT !.state = "done", !.locked = FALSE]
    <3>1. taken \in Jobs /\ done \in Jobs /\ job \in [Msgs -> Jobs]
      BY <2>2, <2>3 DEF IInv, TypeOK
    <3>2. job' = job \/ job' = [job EXCEPT ![m] = taken] \/ job' = [job EXCEPT ![m] = done]
      BY <2>4
    <3> HIDE DEF taken, done
    <3> QED BY <3>1, <3>2
  <2>6. vector' \in [Msgs -> Inputs]
    BY DEF IInv, TypeOK, TakeJob, Inputs
  <2> QED BY <2>5, <2>6 DEF IInv, TypeOK, TakeJob, messageVars, lockVars
<1>2. LockInv'
  BY DEF IInv, LockInv, TakeJob, Marked, lockVars
<1>3. SlotInv'
  BY DEF IInv, TypeOK, SlotInv, LockInv, Matches, Live, TakeJob, Marked, messageVars, lockVars, Jobs, SlotStates
<1>4. DrainInv'
  BY DEF IInv, TypeOK, DrainInv, LockInv, Live, TakeJob, Marked, messageVars, lockVars, Jobs
<1> QED BY <1>1, <1>2, <1>3, <1>4 DEF IInv

(* A failed batch leaves the rest of the list as it was, or drops it.      *)
LEMMA DrainFailsKeeps ==
  ASSUME NEW st \in {"pending", "failed"}, IInv, DrainFails(st) PROVE IInv'
<1>1. TypeOK'
  <2>1. drain.cur \in Msgs /\ Capped[drain.seen[drain.cur]] \in Inputs
    BY DEF IInv, TypeOK, DrainInv, Live, DrainFails, Inputs
  <2>2. job' \in [Msgs -> Jobs]
    BY <2>1, JobUpdates DEF IInv, TypeOK, DrainFails, Marked, States
  <2>3. verdict' \in [Msgs -> Inputs]
    BY <2>1 DEF IInv, TypeOK, DrainFails
  <2>4. drain' \in {[drain EXCEPT !.cur = None], [drain EXCEPT !.cur = None, !.todo = {}]}
    BY DEF DrainFails
  <2>5. drain' \in [stage : {"start", "list", "work"}, todo : SUBSET Msgs,
                    seen : [Msgs -> Texts \cup {None}], cur : Msgs \cup {None}]
    BY <2>4 DEF IInv, TypeOK
  <2>6. UNCHANGED <<lockVars, messageVars, vector, slot>> /\ faults' \in 0..MaxFaults
    BY DEF IInv, TypeOK, DrainFails, Fault
  <2> QED BY <2>2, <2>3, <2>5, <2>6 DEF IInv, TypeOK, messageVars, lockVars
<1>2. LockInv'
  BY DEF IInv, LockInv, DrainFails, Marked, Fault, lockVars
<1>3. SlotInv'
  BY DEF IInv, TypeOK, SlotInv, LockInv, Matches, Live, DrainFails, Marked, Fault, messageVars, lockVars, Jobs, SlotStates
<1>4. DrainInv'
  <2>1. drain' \in {[drain EXCEPT !.cur = None], [drain EXCEPT !.cur = None, !.todo = {}]}
    BY DEF DrainFails
  <2>2. /\ drain'.cur = None /\ drain'.todo \subseteq drain.todo
        /\ drain'.seen = drain.seen
    BY <2>1 DEF IInv, TypeOK
  <2>3. UNCHANGED <<lockVars, messageVars>> /\ "embed" \in owners
    BY DEF DrainFails
  <2> QED BY <2>2, <2>3 DEF IInv, TypeOK, DrainInv, Live, messageVars, lockVars
<1> QED BY <1>1, <1>2, <1>3, <1>4 DEF IInv

(* A claim is drawn on a live message at its current revision.             *)
LEMMA ClaimKeeps ==
  ASSUME NEW s \in Slots, NEW m \in Msgs, IInv, Claim(s, m) PROVE IInv'
<1>1. TypeOK'
  BY DEF IInv, TypeOK, Claim, Live, IdleSlot, messageVars, lockVars, Jobs, SlotStates, Inputs, States
<1>2. LockInv'
  BY DEF IInv, LockInv, Claim, Live, IdleSlot, lockVars
<1>3. SlotInv'
  BY DEF IInv, TypeOK, SlotInv, LockInv, Matches, Live, Claim, IdleSlot, messageVars, lockVars, Jobs, SlotStates
<1>4. DrainInv'
  BY DEF IInv, TypeOK, DrainInv, LockInv, Live, Claim, IdleSlot, messageVars, lockVars, Jobs
<1> QED BY <1>1, <1>2, <1>3, <1>4 DEF IInv

(* The text read for a claim that matches is the current text, cut to      *)
(* size.                                                                   *)
LEMMA ReadKeeps ==
  ASSUME NEW s \in Slots, IInv, Read(s) PROVE IInv'
<1>1. TypeOK'
  <2>1. slot[s].msg \in Msgs
    BY DEF IInv, SlotInv, Read
  <2>2. PICK b \in BOOLEAN, i \in Inputs :
          slot' = [slot EXCEPT ![s] = [slot[s] EXCEPT !.stage = "read", !.valid = b, !.input = i]]
    <3> DEFINE found == Matches(s) /\ Live(slot[s].msg)
               i == IF found THEN Capped[text[slot[s].msg]] ELSE None
    <3>1. found \in BOOLEAN
      BY DEF Matches, Live
    <3>2. i \in Inputs
      BY <2>1 DEF Live, IInv, TypeOK, Inputs
    <3>3. slot' = [slot EXCEPT ![s] = [slot[s] EXCEPT !.stage = "read", !.valid = found, !.input = i]]
      BY DEF Read, IInv, TypeOK, SlotStates
    <3> HIDE DEF found, i
    <3> QED BY <3>1, <3>2, <3>3
  <2>3. slot' \in [Slots -> SlotStates]
    BY <2>2, SlotUpdates DEF IInv, TypeOK
  <2> QED BY <2>3 DEF IInv, TypeOK, Read, messageVars, lockVars
<1>2. LockInv'
  BY DEF IInv, LockInv, Read, Live, lockVars
<1>3. SlotInv'
  <2>1. slot[s].msg \in Msgs /\ "tail" \in owners /\ s \in DOMAIN slot
    BY DEF IInv, TypeOK, SlotInv, Read
  <2>2. /\ slot'[s].stage = "read" /\ slot'[s].msg = slot[s].msg /\ slot'[s].rev = slot[s].rev
        /\ Matches(s) /\ Live(slot[s].msg) =>
             slot'[s].valid /\ slot'[s].input = Capped[text[slot[s].msg]]
    <3> DEFINE found == Matches(s) /\ Live(slot[s].msg)
               i == IF found THEN Capped[text[slot[s].msg]] ELSE None
    <3>1. slot' = [slot EXCEPT ![s] = [slot[s] EXCEPT !.stage = "read", !.valid = found, !.input = i]]
      BY DEF Read, IInv, TypeOK, SlotStates
    <3>2. found => i = Capped[text[slot[s].msg]]
      OBVIOUS
    <3> HIDE DEF found, i
    <3>3. /\ slot'[s].stage = "read" /\ slot'[s].msg = slot[s].msg /\ slot'[s].rev = slot[s].rev
          /\ slot'[s].valid = found /\ slot'[s].input = i
      <4> DEFINE r == [slot[s] EXCEPT !.stage = "read", !.valid = found, !.input = i]
      <4>1. r.stage = "read" /\ r.msg = slot[s].msg /\ r.rev = slot[s].rev /\ r.input = i
        BY <2>1 DEF IInv, TypeOK, SlotStates
      <4>2. r.valid = found
        BY <2>1 DEF IInv, TypeOK, SlotStates
      <4>3. slot' = [slot EXCEPT ![s] = r]
        BY <3>1
      <4> HIDE DEF r
      <4>4. slot'[s] = r
        BY <2>1, <4>3
      <4> QED BY <4>1, <4>2, <4>4
    <3> QED BY <3>2, <3>3 DEF found
  <2>3. \A k \in Slots \ {s} : slot'[k] = slot[k]
    BY DEF Read, IInv, TypeOK
  <2>4. UNCHANGED <<owners, text, deleted, job>>
    BY DEF Read, messageVars, lockVars
  <2>5. Matches(s) => Live(slot[s].msg)
    BY DEF IInv, SlotInv, Read
  <2>6. (Matches(s) <=> Matches(s)') /\ (Live(slot[s].msg) <=> Live(slot[s].msg)')
    BY <2>2, <2>4 DEF Matches, Live
  <2>7. ASSUME NEW k \in Slots \ {s}
        PROVE  (Matches(k) <=> Matches(k)') /\ (Live(slot[k].msg) <=> Live(slot[k].msg)')
    BY <2>3, <2>4 DEF Matches, Live
  <2> SUFFICES ASSUME NEW k \in Slots, slot'[k].stage # "idle"
               PROVE  /\ "tail" \in owners' /\ slot'[k].msg \in Msgs
                      /\ Matches(k)' => /\ Live(slot[k].msg)'
                                        /\ slot'[k].stage # "claimed" =>
                                             slot'[k].valid /\ slot'[k].input = Capped[text'[slot'[k].msg]]
    BY DEF SlotInv
  <2>8. CASE k = s
    BY <2>1, <2>2, <2>4, <2>5, <2>6, <2>8
  <2>9. CASE k # s
    BY <2>3, <2>4, <2>7, <2>9 DEF IInv, SlotInv
  <2> QED BY <2>8, <2>9
<1>4. DrainInv'
  BY DEF IInv, TypeOK, DrainInv, LockInv, Live, Read, messageVars, lockVars, Jobs
<1> QED BY <1>1, <1>2, <1>3, <1>4 DEF IInv

(* The answer of the provider changes nothing of the claim.                *)
LEMMA EmbedKeeps ==
  ASSUME NEW s \in Slots, IInv, Embed(s) PROVE IInv'
<1>1. TypeOK'
  <2>1. \/ slot' = [slot EXCEPT ![s] = [slot[s] EXCEPT !.stage = "embedded"]]
        \/ slot' = [slot EXCEPT ![s] = [slot[s] EXCEPT !.stage = "failed"]]
    BY DEF Embed
  <2>2. slot' \in [Slots -> SlotStates]
    <3> DEFINE good == [slot[s] EXCEPT !.stage = "embedded"]
               bad  == [slot[s] EXCEPT !.stage = "failed"]
    <3>1. slot \in [Slots -> SlotStates]
      BY DEF IInv, TypeOK
    <3>2. good \in SlotStates /\ bad \in SlotStates
      BY <3>1, SlotUpdates
    <3>3. slot' = [slot EXCEPT ![s] = good] \/ slot' = [slot EXCEPT ![s] = bad]
      BY <2>1
    <3> HIDE DEF good, bad
    <3> QED BY <3>1, <3>2, <3>3
  <2>3. faults' \in 0..MaxFaults
    BY DEF IInv, TypeOK, Embed, Fault
  <2> QED BY <2>2, <2>3 DEF IInv, TypeOK, Embed, messageVars, lockVars
<1>2. LockInv'
  BY DEF IInv, LockInv, Embed, Fault, lockVars
<1>3. SlotInv'
  <2>1. \/ slot' = [slot EXCEPT ![s] = [slot[s] EXCEPT !.stage = "embedded"]]
        \/ slot' = [slot EXCEPT ![s] = [slot[s] EXCEPT !.stage = "failed"]]
    BY DEF Embed
  <2>2. /\ slot'[s].msg = slot[s].msg /\ slot'[s].rev = slot[s].rev
        /\ slot'[s].valid = slot[s].valid /\ slot'[s].input = slot[s].input
        /\ slot[s].stage = "read" /\ slot'[s].stage # "idle"
    BY <2>1 DEF Embed, IInv, TypeOK, SlotStates
  <2>3. \A k \in Slots \ {s} : slot'[k] = slot[k]
    BY <2>1 DEF IInv, TypeOK
  <2>4. UNCHANGED <<owners, text, deleted, job>>
    BY DEF Embed, messageVars, lockVars
  <2> QED BY <2>2, <2>3, <2>4 DEF IInv, SlotInv, Matches, Live
<1>4. DrainInv'
  BY DEF IInv, TypeOK, DrainInv, LockInv, Live, Embed, Fault, messageVars, lockVars, Jobs
<1> QED BY <1>1, <1>2, <1>3, <1>4 DEF IInv

(* Publishing ends the claim of the slot, and only that one.               *)
LEMMA CompleteKeeps ==
  ASSUME NEW s \in Slots, IInv, Complete(s) PROVE IInv'
<1>1. TypeOK'
  <2>1. slot[s].msg \in Msgs /\ slot[s].input \in Inputs
    BY DEF IInv, TypeOK, SlotInv, Complete, SlotStates
  <2>2. Holds(s) => Live(slot[s].msg) /\ slot[s].valid
                    /\ slot[s].input = Capped[text[slot[s].msg]]
    BY DEF IInv, SlotInv, Complete, Holds
  <2>3. [Unleased(job[slot[s].msg]) EXCEPT !.state = "done", !.ready = TRUE] \in Jobs
    BY <2>1, JobUpdates DEF IInv, TypeOK, States
  <2>4. \/ job' = job
        \/ job' = [job EXCEPT ![slot[s].msg] =
                     [Unleased(job[slot[s].msg]) EXCEPT !.state = "done", !.ready = TRUE]]
    BY <2>2 DEF Complete
  <2>5. job' \in [Msgs -> Jobs]
    BY <2>1, <2>3, <2>4 DEF IInv, TypeOK
  <2>6. vector' \in [Msgs -> Inputs]
    BY <2>1 DEF IInv, TypeOK, Complete, Inputs
  <2>7. slot' \in [Slots -> SlotStates]
    BY SlotUpdates DEF IInv, TypeOK, Complete, Rest
  <2> QED BY <2>5, <2>6, <2>7 DEF IInv, TypeOK, Complete, messageVars, lockVars
<1>2. LockInv'
  BY DEF IInv, LockInv, Complete, Rest, IdleSlot, lockVars
<1>3. SlotInv'
  <2>1. slot[s].msg \in Msgs
    BY DEF IInv, SlotInv, Complete
  <2>2. slot'[s].stage = "idle" /\ \A k \in Slots \ {s} : slot'[k] = slot[k]
    BY DEF Complete, Rest, IdleSlot, IInv, TypeOK
  <2>3. Holds(s) => Live(slot[s].msg) /\ slot[s].valid
                    /\ slot[s].input = Capped[text[slot[s].msg]]
    BY DEF IInv, SlotInv, Complete, Holds
  <2>4. \/ job' = job
        \/ job' = [job EXCEPT ![slot[s].msg] =
                     [Unleased(job[slot[s].msg]) EXCEPT !.state = "done", !.ready = TRUE]]
    BY <2>3 DEF Complete
  <2>5. \A k \in Slots, m \in Msgs : job'[m].lease = k => job'[m] = job[m]
    <3> DEFINE j == [Unleased(job[slot[s].msg]) EXCEPT !.state = "done", !.ready = TRUE]
    <3>1. j.lease = None
      BY <2>1 DEF IInv, TypeOK, Jobs, Unleased
    <3> HIDE DEF j
    <3>2. job' = job \/ job' = [job EXCEPT ![slot[s].msg] = j]
      BY <2>4 DEF j
    <3> QED BY <2>1, <3>1, <3>2, SlotAssumption DEF IInv, TypeOK
  <2>6. UNCHANGED <<owners, text, deleted>>
    BY DEF Complete, messageVars, lockVars
  <2> QED BY <2>2, <2>5, <2>6 DEF IInv, SlotInv, Matches, Live
<1>4. DrainInv'
  BY DEF IInv, TypeOK, DrainInv, LockInv, Live, Complete, Rest, IdleSlot, messageVars, lockVars, Jobs
<1> QED BY <1>1, <1>2, <1>3, <1>4 DEF IInv

(* A failure ends the claim of the slot, and only that one.                *)
LEMMA RetryKeeps ==
  ASSUME NEW s \in Slots, NEW st \in {"pending", "failed"}, IInv, Retry(s, st) PROVE IInv'
<1>1. TypeOK'
  <2>1. slot[s].msg \in Msgs /\ slot[s].input \in Inputs
    BY DEF IInv, TypeOK, SlotInv, Retry, SlotStates
  <2>2. [Unleased(job[slot[s].msg]) EXCEPT !.state = st, !.ready = FALSE] \in Jobs
    BY <2>1, JobUpdates DEF IInv, TypeOK, States
  <2>3. job' \in [Msgs -> Jobs]
    BY <2>1, <2>2 DEF IInv, TypeOK, Retry
  <2>4. slot' \in [Slots -> SlotStates]
    BY SlotUpdates DEF IInv, TypeOK, Retry, Rest
  <2>5. verdict' \in [Msgs -> Inputs]
    BY <2>1 DEF IInv, TypeOK, Retry
  <2> QED BY <2>3, <2>4, <2>5 DEF IInv, TypeOK, Retry, messageVars, lockVars
<1>2. LockInv'
  BY DEF IInv, LockInv, Retry, Rest, IdleSlot, Unleased, lockVars
<1>3. SlotInv'
  <2>1. slot[s].msg \in Msgs /\ "tail" \in owners
    BY DEF IInv, TypeOK, SlotInv, Retry
  <2>2. slot'[s].stage = "idle" /\ \A k \in Slots \ {s} : slot'[k] = slot[k]
    BY DEF Retry, Rest, IdleSlot, IInv, TypeOK
  <2>3. \A k \in Slots, m \in Msgs : job'[m].lease = k => job'[m] = job[m]
    <3> DEFINE j == [Unleased(job[slot[s].msg]) EXCEPT !.state = st, !.ready = FALSE]
    <3>1. j.lease = None
      BY <2>1 DEF IInv, TypeOK, Jobs, Unleased
    <3>2. job' = job \/ job' = [job EXCEPT ![slot[s].msg] = j]
      BY DEF Retry
    <3> HIDE DEF j
    <3> QED BY <2>1, <3>1, <3>2, SlotAssumption DEF IInv, TypeOK
  <2>4. UNCHANGED <<owners, text, deleted>>
    BY DEF Retry, messageVars, lockVars
  <2> QED BY <2>2, <2>3, <2>4 DEF IInv, SlotInv, Matches, Live
<1>4. DrainInv'
  BY DEF IInv, TypeOK, DrainInv, LockInv, Live, Retry, Rest, IdleSlot, Unleased, messageVars, lockVars, Jobs
<1> QED BY <1>1, <1>2, <1>3, <1>4 DEF IInv

(* Giving a claim back ends it.                                            *)
LEMMA ReleaseKeeps ==
  ASSUME NEW s \in Slots, IInv, Release(s) PROVE IInv'
<1>1. TypeOK'
  <2>1. slot[s].msg \in Msgs
    BY DEF IInv, TypeOK, SlotInv, Release, SlotStates
  <2>2. job' \in [Msgs -> Jobs]
    BY <2>1, JobUpdates DEF IInv, TypeOK, Release
  <2>3. slot' \in [Slots -> SlotStates]
    BY SlotUpdates DEF IInv, TypeOK, Release, Rest
  <2> QED BY <2>2, <2>3 DEF IInv, TypeOK, Release, messageVars, lockVars
<1>2. LockInv'
  BY DEF IInv, LockInv, Release, Rest, IdleSlot, Unleased, lockVars
<1>3. SlotInv'
  BY DEF IInv, TypeOK, SlotInv, LockInv, Matches, Live, Release, Rest, IdleSlot, Unleased, messageVars, lockVars, Jobs, SlotStates
<1>4. DrainInv'
  BY DEF IInv, TypeOK, DrainInv, LockInv, Live, Release, Rest, IdleSlot, Unleased, messageVars, lockVars, Jobs
<1> QED BY <1>1, <1>2, <1>3, <1>4 DEF IInv

(* A slot whose result was refused forgets its claim.                      *)
LEMMA AbandonKeeps ==
  ASSUME NEW s \in Slots, IInv, Abandon(s) PROVE IInv'
<1>1. TypeOK'
  BY DEF IInv, TypeOK, Abandon, Rest, IdleSlot, Fault, messageVars, lockVars, Jobs, SlotStates, Inputs, States
<1>2. LockInv'
  BY DEF IInv, LockInv, Abandon, Rest, IdleSlot, Fault, lockVars
<1>3. SlotInv'
  BY DEF IInv, TypeOK, SlotInv, LockInv, Matches, Live, Abandon, Rest, IdleSlot, Fault, messageVars, lockVars, Jobs, SlotStates
<1>4. DrainInv'
  BY DEF IInv, TypeOK, DrainInv, LockInv, Live, Abandon, Rest, IdleSlot, Fault, messageVars, lockVars, Jobs
<1> QED BY <1>1, <1>2, <1>3, <1>4 DEF IInv

-----------------------------------------------------------------------------
(* The inductive invariant holds from the start and every step keeps it.   *)
LEMMA InvInit == Init => IInv
<1> SUFFICES ASSUME Init PROVE IInv
  OBVIOUS
<1>1. TypeOK
  <2>1. job \in [Msgs -> Jobs]
    BY DEF Init, NoJob, Jobs, States
  <2>2. slot \in [Slots -> SlotStates]
    BY DEF Init, IdleSlot, SlotStates, Inputs
  <2>3. drain \in [stage : {"start", "list", "work"}, todo : SUBSET Msgs,
                   seen : [Msgs -> Texts \cup {None}], cur : Msgs \cup {None}]
    BY DEF Init, NoDrain
  <2>4. /\ owners \subseteq Owners /\ text \in [Msgs -> Texts \cup {None}]
        /\ vector \in [Msgs -> Inputs] /\ verdict \in [Msgs -> Inputs] /\ faults \in 0..MaxFaults
    BY DEF Init, Inputs
  <2>5. /\ stopping \in BOOLEAN /\ deleted \in [Msgs -> BOOLEAN]
        /\ origin \in [Msgs -> Origins]
    BY DEF Init, Origins
  <2> QED BY <2>1, <2>2, <2>3, <2>4, <2>5 DEF TypeOK
<1>2. LockInv /\ SlotInv /\ DrainInv
  BY DEF Init, LockInv, SlotInv, DrainInv, IdleSlot, NoDrain
<1> QED BY <1>1, <1>2 DEF IInv

(* Every step of the specification keeps the invariant.                    *)
LEMMA InvNext == IInv /\ [Next]_vars => IInv'
<1> SUFFICES ASSUME IInv, [Next]_vars PROVE IInv'
  OBVIOUS
<1>1. CASE LockStep
  BY <1>1, StartTailKeeps, StopTailKeeps, EndTailKeeps, StartSyncKeeps, EndSyncKeeps, CrashKeeps, LeaseExpiresKeeps, BackoffEndsKeeps, LockExpiresKeeps DEF LockStep
<1>2. CASE Write
  <2>1. PICK m \in Msgs :
          \/ \E t \in Texts, e \in Enqueues : WriteText(m, t, e) \/ RepairText(m, t, e)
          \/ RewriteText(m) \/ Delete(m)
          \/ \E t \in Snapshots, applied, tombstone, withVector \in BOOLEAN :
               MergeSnapshot(m, t, applied, tombstone, withVector)
    BY <1>2 DEF Write
  <2>2. CASE \E t \in Texts, e \in Enqueues : WriteText(m, t, e) \/ RepairText(m, t, e)
    BY <2>2, WriteTextKeeps, RepairTextKeeps
  <2>3. CASE RewriteText(m) \/ Delete(m)
    BY <2>3, RewriteTextKeeps, DeleteKeeps
  <2>4. CASE \E t \in Snapshots, applied, tombstone, withVector \in BOOLEAN :
               MergeSnapshot(m, t, applied, tombstone, withVector)
    BY <2>4, MergeSnapshotKeeps
  <2> QED BY <2>1, <2>2, <2>3, <2>4
<1>3. CASE EmbedStep
  BY <1>3, StartEmbedKeeps, RebuildKeeps, ListJobsKeeps, StoreVectorKeeps, EndEmbedKeeps, TakeJobKeeps,
     DrainFailsKeeps DEF EmbedStep
<1>4. CASE \E s \in Slots : SlotStep(s)
  <2>1. PICK s \in Slots : SlotStep(s)
    BY <1>4
  <2>2. CASE \E m \in Msgs : Claim(s, m)
    BY <2>2, ClaimKeeps
  <2>3. CASE Read(s) \/ Embed(s) \/ Abandon(s)
    BY <2>3, ReadKeeps, EmbedKeeps, AbandonKeeps
  <2>4. CASE Finish(s)
    BY <2>4, CompleteKeeps, ReleaseKeeps, RetryKeeps DEF Finish
  <2> QED BY <2>1, <2>2, <2>3, <2>4 DEF SlotStep
<1>5. CASE UNCHANGED vars
  BY <1>5 DEF vars, lockVars, messageVars, IInv, TypeOK, LockInv, SlotInv, DrainInv, Matches, Live
<1> QED BY <1>1, <1>2, <1>3, <1>4, <1>5 DEF Next

(* The invariant holds in every reachable state.                           *)
LEMMA Invariance == Spec => []IInv
  BY InvInit, InvNext, PTL DEF Spec

-----------------------------------------------------------------------------
(* A write that is no merge leaves a message alone, or without a vector.   *)
LEMMA WriteSteps ==
  ASSUME IInv, Write, NEW m \in Msgs, vector'[m] # None
  PROVE  \/ "sync" \in owners /\ origin'[m] = "merged"
         \/ /\ vector'[m] = vector[m] /\ text'[m] = text[m]
            /\ deleted'[m] = deleted[m] /\ origin'[m] = origin[m]
<1>1. PICK w \in Msgs :
        \/ \E t \in Texts, e \in Enqueues : WriteText(w, t, e) \/ RepairText(w, t, e)
        \/ RewriteText(w) \/ Delete(w)
        \/ \E t \in Snapshots, applied, tombstone, withVector \in BOOLEAN :
             MergeSnapshot(w, t, applied, tombstone, withVector)
  BY DEF Write
<1>2. CASE \E t \in Texts, e \in Enqueues : WriteText(w, t, e) \/ RepairText(w, t, e)
  BY <1>2 DEF WriteText, RepairText, Came, IInv, TypeOK
<1>3. CASE RewriteText(w) \/ Delete(w)
  BY <1>3 DEF RewriteText, Delete, Came, IInv, TypeOK
<1>4. CASE \E t \in Snapshots, applied, tombstone, withVector \in BOOLEAN :
             MergeSnapshot(w, t, applied, tombstone, withVector)
  <2>1. PICK t \in Snapshots, applied \in BOOLEAN, tombstone \in BOOLEAN,
             withVector \in BOOLEAN : MergeSnapshot(w, t, applied, tombstone, withVector)
    BY <1>4
  <2>2. CASE m = w /\ (applied \/ withVector)
    BY <2>1, <2>2 DEF MergeSnapshot, Came, IInv, TypeOK
  <2>3. CASE m # w
    BY <2>1, <2>3 DEF MergeSnapshot, Came, IInv, TypeOK
  <2>4. CASE ~applied /\ ~withVector
    BY <2>1, <2>4 DEF MergeSnapshot
  <2> QED BY <2>2, <2>3, <2>4
<1> QED BY <1>1, <1>2, <1>3, <1>4

(* Which steps touch a vector, and what they leave there.                  *)
LEMMA VectorSteps ==
  ASSUME IInv, Next, NEW m \in Msgs, vector'[m] # vector[m], vector'[m] # None
  PROVE  \/ "sync" \in owners /\ origin'[m] = "merged"
         \/ ~deleted'[m] /\ vector'[m] = Capped[text'[m]]
<1>1. CASE LockStep
  BY <1>1 DEF LockStep, StartTail, StopTail, EndTail, StartSync, EndSync, Crash, LeaseExpires,
              BackoffEnds, LockExpires
<1>2. CASE Write
  BY <1>2, WriteSteps
<1>3. CASE EmbedStep
  <2>1. CASE StoreVector
    <3>1. drain.cur \in Msgs /\ Live(drain.cur) /\ drain.seen[drain.cur] = text[drain.cur]
      BY <2>1 DEF StoreVector, IInv, TypeOK, DrainInv
    <3>2. m = drain.cur /\ vector'[m] = Capped[drain.seen[m]]
      BY <2>1, <3>1 DEF StoreVector, IInv, TypeOK
    <3> QED BY <2>1, <3>1, <3>2 DEF StoreVector, Live, messageVars
  <2>2. CASE ~StoreVector
    BY <1>3, <2>2 DEF EmbedStep, StartEmbed, Rebuild, ListJobs, EndEmbed, TakeJob, DrainFails,
                      IInv, TypeOK
  <2> QED BY <2>1, <2>2
<1>4. CASE \E s \in Slots : SlotStep(s)
  <2>1. PICK s \in Slots : SlotStep(s)
    BY <1>4
  <2>2. CASE Complete(s)
    <3>1. slot[s].msg \in Msgs
      BY <2>2 DEF Complete, IInv, SlotInv
    <3>2. m = slot[s].msg
      BY <2>2, <3>1 DEF Complete, IInv, TypeOK
    <3>3. /\ Live(m) /\ vector'[m] = slot[s].input /\ Capped[text[m]] = slot[s].input
      BY <2>2, <3>1, <3>2 DEF Complete, IInv, TypeOK
    <3> QED BY <2>2, <3>3 DEF Complete, Live, messageVars
  <2>3. CASE ~Complete(s)
    BY <2>1, <2>3 DEF SlotStep, Finish, Claim, Read, Embed, Release, Retry, Abandon
  <2> QED BY <2>2, <2>3
<1> QED BY <1>1, <1>2, <1>3, <1>4 DEF Next

(* Whatever snapshots brought before, the worker and the drain publish     *)
(* only vectors of the text the message has at that moment, for any number *)
(* of slots, edits, crashes and expired leases.                            *)
THEOREM OnlyCurrentIsPublished == Spec => PublishedIsCurrent
<1> DEFINE A == \A m \in Msgs :
       "sync" \notin owners /\ vector'[m] \notin {vector[m], None} =>
         ~deleted'[m] /\ vector'[m] = Capped[text'[m]]
<1>1. IInv /\ [Next]_vars => [A]_vars
  BY VectorSteps
<1>2. [][A]_vars => PublishedIsCurrent
  BY PTL DEF PublishedIsCurrent
<1> HIDE DEF A
<1> QED BY <1>1, <1>2, Invariance, PTL DEF Spec

(* Which steps touch a message, merges aside: they leave no vector.        *)
LEMMA TextsStay ==
  ASSUME IInv, Next, NEW m \in Msgs, vector'[m] # None, origin'[m] # "merged"
  PROVE  /\ text'[m] = text[m] /\ deleted'[m] = deleted[m] /\ origin'[m] = origin[m]
         /\ vector'[m] # vector[m] => text'[m] # None
<1>1. CASE LockStep
  BY <1>1 DEF LockStep, StartTail, StopTail, EndTail, StartSync, EndSync, Crash, LeaseExpires,
              BackoffEnds, LockExpires, messageVars
<1>2. CASE Write
  BY <1>2, WriteSteps
<1>3. CASE EmbedStep
  <2>1. text' = text /\ deleted' = deleted /\ origin' = origin
    BY <1>3 DEF EmbedStep, StartEmbed, Rebuild, ListJobs, EndEmbed, TakeJob, DrainFails,
                StoreVector, messageVars
  <2>2. CASE StoreVector
    <3>1. drain.cur \in Msgs /\ Live(drain.cur)
      BY <2>2 DEF StoreVector, IInv, TypeOK, DrainInv
    <3>2. vector'[m] # vector[m] => m = drain.cur
      BY <2>2, <3>1 DEF StoreVector, IInv, TypeOK
    <3> QED BY <2>1, <3>1, <3>2 DEF Live
  <2>3. CASE ~StoreVector
    BY <1>3, <2>1, <2>3 DEF EmbedStep, StartEmbed, Rebuild, ListJobs, EndEmbed, TakeJob, DrainFails,
                      IInv, TypeOK
  <2> QED BY <2>2, <2>3
<1>4. CASE \E s \in Slots : SlotStep(s)
  <2>1. PICK s \in Slots : SlotStep(s)
    BY <1>4
  <2>2. text' = text /\ deleted' = deleted /\ origin' = origin
    BY <2>1 DEF SlotStep, Finish, Claim, Read, Embed, Release, Retry, Abandon, Complete, messageVars
  <2>3. CASE Complete(s)
    <3>1. slot[s].msg \in Msgs
      BY <2>3 DEF Complete, IInv, SlotInv
    <3>2. vector'[m] # vector[m] => Live(m)
      BY <2>3, <3>1 DEF Complete, IInv, TypeOK
    <3> QED BY <2>2, <3>2 DEF Live
  <2>4. CASE ~Complete(s)
    BY <2>1, <2>2, <2>4 DEF SlotStep, Finish, Claim, Read, Embed, Release, Retry, Abandon
  <2> QED BY <2>3, <2>4
<1> QED BY <1>1, <1>2, <1>3, <1>4 DEF Next

(* No vector is ever stale, but for a message that a snapshot was merged   *)
(* into and that was not written since: text and tombstone changes take    *)
(* the vector away in their own transaction, and what is published is      *)
(* current.                                                                *)
THEOREM VectorsStayCurrent == Spec => []VectorIsCurrent
<1>1. Init => VectorIsCurrent
  BY DEF Init, VectorIsCurrent
<1>2. IInv /\ VectorIsCurrent /\ [Next]_vars => VectorIsCurrent'
  <2> SUFFICES ASSUME IInv, VectorIsCurrent, [Next]_vars, NEW m \in Msgs,
                      origin'[m] # "merged", vector'[m] # None
               PROVE  Live(m)' /\ vector'[m] = Capped[text'[m]]
    BY DEF VectorIsCurrent
  <2>1. CASE UNCHANGED vars
    BY <2>1 DEF vars, messageVars, VectorIsCurrent, Live
  <2>2. CASE Next /\ vector'[m] # vector[m]
    <3>1. ~deleted'[m] /\ vector'[m] = Capped[text'[m]]
      BY <2>2, VectorSteps
    <3>2. text'[m] # None
      BY <2>2, TextsStay
    <3> QED BY <3>1, <3>2 DEF Live
  <2>3. CASE Next /\ vector'[m] = vector[m]
    <3>1. text'[m] = text[m] /\ deleted'[m] = deleted[m] /\ origin'[m] = origin[m]
      BY <2>3, TextsStay
    <3>2. Live(m) /\ vector[m] = Capped[text[m]]
      BY <2>3, <3>1 DEF VectorIsCurrent
    <3> QED BY <2>3, <3>1, <3>2 DEF Live
  <2> QED BY <2>1, <2>2, <2>3
<1> QED BY <1>1, <1>2, Invariance, PTL DEF Spec

-----------------------------------------------------------------------------
(* What the updates of a job do to its state.                              *)
LEMMA JobStates ==
  ASSUME NEW j \in Jobs
  PROVE  /\ Unleased(j).state = j.state /\ Queued(j).state = "pending" /\ NoJob.state = "none"
         /\ \A b \in BOOLEAN : /\ [j EXCEPT !.live = b].state = j.state
                               /\ [j EXCEPT !.ready = b].state = j.state
                               /\ [j EXCEPT !.locked = b].state = j.state
         /\ \A s \in Slots : [j EXCEPT !.lease = s, !.live = TRUE, !.locked = TRUE].state = j.state
         /\ \A st \in States, b \in BOOLEAN :
              /\ [j EXCEPT !.state = st, !.locked = b].state = st
              /\ [Unleased(j) EXCEPT !.state = st, !.ready = b].state = st
<1>1. Unleased(j) \in Jobs
  BY JobUpdates
<1>2. Unleased(j).state = j.state
  BY DEF Unleased, Jobs
<1>3. Queued(j).state = "pending"
  BY <1>1 DEF Queued, Bumped, Jobs
<1>4. /\ \A b \in BOOLEAN : /\ [j EXCEPT !.live = b].state = j.state
                            /\ [j EXCEPT !.ready = b].state = j.state
                            /\ [j EXCEPT !.locked = b].state = j.state
      /\ \A s \in Slots : [j EXCEPT !.lease = s, !.live = TRUE, !.locked = TRUE].state = j.state
  BY DEF Jobs
<1>5. \A st \in States, b \in BOOLEAN :
        /\ [j EXCEPT !.state = st, !.locked = b].state = st
        /\ [Unleased(j) EXCEPT !.state = st, !.ready = b].state = st
  BY <1>1 DEF Jobs
<1> QED BY <1>2, <1>3, <1>4, <1>5 DEF NoJob

(* Marked gives a job its state or finds none.                             *)
LEMMA MarkedJob ==
  ASSUME IInv, NEW w \in Msgs, NEW st \in States, Marked(w, st), NEW m \in Msgs
  PROVE  job'[m].state = IF m = w /\ job[w].state # "none" THEN st ELSE job[m].state
<1>1. job[w] \in Jobs
  BY DEF IInv, TypeOK
<1>2. CASE job[w].state = "none"
  BY <1>2 DEF Marked
<1>3. CASE job[w].state # "none"
  <2> DEFINE r == [job[w] EXCEPT !.state = st, !.locked = FALSE]
  <2>1. job' = [job EXCEPT ![w] = r]
    BY <1>3 DEF Marked, IInv, TypeOK
  <2>2. r.state = st
    BY <1>1, JobStates
  <2> HIDE DEF r
  <2>3. job'[m] = IF m = w THEN r ELSE job[m]
    BY <2>1 DEF IInv, TypeOK
  <2> QED BY <1>3, <2>2, <2>3
<1> QED BY <1>2, <1>3

(* The lock, its owners and the clock fail no job.                         *)
LEMMA LockStepFails ==
  ASSUME IInv, LockStep, NEW m \in Msgs PROVE job'[m].state = job[m].state
<1>0. \A w \in Msgs : job[w] \in Jobs
  BY DEF IInv, TypeOK
<1>1. CASE StartTail
  <2>1. job'[m] = IF job[m].state = "pending" THEN Unleased(job[m]) ELSE job[m]
    BY <1>1 DEF StartTail
  <2> QED BY <1>0, <2>1, JobStates
<1>2. CASE StopTail \/ EndTail \/ StartSync \/ EndSync \/ Crash
  BY <1>2 DEF StopTail, EndTail, StartSync, EndSync, Crash
<1>3. CASE \E w \in Msgs : LeaseExpires(w) \/ BackoffEnds(w) \/ LockExpires(w)
  <2>1. PICK w \in Msgs : LeaseExpires(w) \/ BackoffEnds(w) \/ LockExpires(w)
    BY <1>3
  <2>2. PICK r : /\ job' = [job EXCEPT ![w] = r]
                 /\ \/ r = [job[w] EXCEPT !.live = FALSE]
                    \/ r = [job[w] EXCEPT !.ready = TRUE]
                    \/ r = [job[w] EXCEPT !.locked = FALSE]
    BY <2>1 DEF LeaseExpires, BackoffEnds, LockExpires
  <2>3. r.state = job[w].state
    <3>1. /\ [job[w] EXCEPT !.live = FALSE].state = job[w].state
          /\ [job[w] EXCEPT !.ready = TRUE].state = job[w].state
          /\ [job[w] EXCEPT !.locked = FALSE].state = job[w].state
      BY <1>0, JobStates
    <3> QED BY <2>2, <3>1, Zenon
  <2>4. job'[m] = IF m = w THEN r ELSE job[m]
    BY <2>2 DEF IInv, TypeOK
  <2> QED BY <2>3, <2>4
<1> QED BY <1>1, <1>2, <1>3 DEF LockStep

(* A write that queues leaves the job of the message it writes pending or  *)
(* absent.                                                                 *)
LEMMA WriteFails ==
  ASSUME IInv, Write, NEW m \in Msgs, origin'[m] = "queued", job'[m].state = "failed"
  PROVE  /\ job'[m] = job[m] /\ text'[m] = text[m] /\ origin'[m] = origin[m]
         /\ verdict' = verdict
<1>1. PICK w \in Msgs :
        \/ \E t \in Texts, e \in Enqueues : WriteText(w, t, e) \/ RepairText(w, t, e)
        \/ RewriteText(w) \/ Delete(w)
        \/ \E t \in Snapshots, applied, tombstone, withVector \in BOOLEAN :
             MergeSnapshot(w, t, applied, tombstone, withVector)
  BY DEF Write
<1>2. /\ verdict' = verdict
      /\ m # w => job'[m] = job[m] /\ text'[m] = text[m] /\ origin'[m] = origin[m]
  BY <1>1, ZenonT(60) DEF WriteText, RepairText, RewriteText, Delete, MergeSnapshot, Came, IInv, TypeOK,
              messageVars
<1>3. CASE m = w
  <2>0. job[w] \in Jobs /\ Queued(job[w]).state = "pending" /\ NoJob.state = "none"
    BY JobStates DEF IInv, TypeOK
  <2>1. CASE \E t \in Texts, e \in Enqueues : WriteText(w, t, e) \/ RepairText(w, t, e)
    <3>1. PICK e \in Enqueues : \E t \in Texts : WriteText(w, t, e) \/ RepairText(w, t, e)
      BY <2>1
    <3>2. e = TRUE
      BY <1>3, <3>1 DEF WriteText, RepairText, Came, IInv, TypeOK
    <3>3. job'[w] = Queued(job[w])
      BY <3>1, <3>2 DEF WriteText, RepairText, IInv, TypeOK
    <3> QED BY <1>3, <2>0, <3>3
  <2>2. CASE RewriteText(w) \/ Delete(w)
    <3>1. job'[w] \in {Queued(job[w]), NoJob}
      BY <2>2 DEF RewriteText, Delete, IInv, TypeOK
    <3> QED BY <1>3, <2>0, <3>1
  <2>3. CASE \E t \in Snapshots, applied, tombstone, withVector \in BOOLEAN :
               MergeSnapshot(w, t, applied, tombstone, withVector)
    BY <1>2, <1>3, <2>3 DEF MergeSnapshot, Came, IInv, TypeOK
  <2> QED BY <1>1, <2>1, <2>2, <2>3
<1> QED BY <1>2, <1>3

(* The drain fails a job about the text it listed, which is the current    *)
(* one as long as it holds the lock.                                       *)
LEMMA EmbedStepFails ==
  ASSUME IInv, EmbedStep, NEW m \in Msgs, job'[m].state = "failed"
  PROVE  \/ job[m].state = "failed" /\ verdict'[m] = verdict[m]
         \/ verdict'[m] = Capped[text[m]]
<1>0. \A w \in Msgs : job[w] \in Jobs
  BY DEF IInv, TypeOK
<1>1. CASE StartEmbed \/ ListJobs \/ EndEmbed
  BY <1>1 DEF StartEmbed, ListJobs, EndEmbed
<1>2. CASE Rebuild
  <2> DEFINE r == [job[m] EXCEPT !.state = "pending", !.locked = FALSE]
  <2>1. r.state = "pending"
    BY <1>0, JobStates DEF States
  <2>2. job'[m] = IF Live(m) THEN r ELSE job[m]
    BY <1>2 DEF Rebuild
  <2>3. verdict' = verdict
    BY <1>2 DEF Rebuild
  <2> HIDE DEF r
  <2> QED BY <2>1, <2>2, <2>3
<1>3. CASE StoreVector
  <2>1. drain.cur \in Msgs /\ Marked(drain.cur, "done") /\ verdict' = verdict
    BY <1>3 DEF StoreVector, IInv, TypeOK
  <2> QED BY <2>1, MarkedJob DEF States
<1>4. CASE \E w \in Msgs : TakeJob(w)
  <2>1. PICK w \in Msgs : TakeJob(w)
    BY <1>4
  <2>2. verdict' = verdict
    BY <2>1 DEF TakeJob
  <2>3. \/ Marked(w, "done") \/ job' = job
        \/ job' = [job EXCEPT ![w] = [job[w] EXCEPT !.locked = TRUE]]
    BY <2>1 DEF TakeJob
  <2>4. CASE Marked(w, "done")
    BY <2>2, <2>4, MarkedJob DEF States
  <2>5. CASE job' = job
    BY <2>2, <2>5
  <2>6. CASE job' = [job EXCEPT ![w] = [job[w] EXCEPT !.locked = TRUE]]
    <3> DEFINE r == [job[w] EXCEPT !.locked = TRUE]
    <3>1. r.state = job[w].state
      BY <1>0, JobStates
    <3>2. job' = [job EXCEPT ![w] = r]
      BY <2>6
    <3> HIDE DEF r
    <3>3. job'[m] = IF m = w THEN r ELSE job[m]
      BY <3>2 DEF IInv, TypeOK
    <3> QED BY <2>2, <3>1, <3>3
  <2> QED BY <2>3, <2>4, <2>5, <2>6
<1>5. CASE \E st \in {"pending", "failed"} : DrainFails(st)
  <2>1. PICK st \in {"pending", "failed"} : DrainFails(st)
    BY <1>5
  <2>2. drain.cur \in Msgs /\ drain.seen[drain.cur] = text[drain.cur] /\ Marked(drain.cur, st)
    BY <2>1 DEF DrainFails, IInv, TypeOK, DrainInv
  <2>3. job'[m].state = IF m = drain.cur /\ job[drain.cur].state # "none" THEN st
                        ELSE job[m].state
    BY <2>2, MarkedJob DEF States
  <2>4. verdict' = IF st = "failed" THEN [verdict EXCEPT ![drain.cur] = Capped[text[drain.cur]]]
                   ELSE verdict
    BY <2>1, <2>2 DEF DrainFails
  <2>5. CASE st = "failed"
    <3>1. verdict'[m] = IF m = drain.cur THEN Capped[text[drain.cur]] ELSE verdict[m]
      BY <2>2, <2>4, <2>5 DEF IInv, TypeOK
    <3> QED BY <2>3, <3>1
  <2>6. CASE st = "pending"
    BY <2>3, <2>4, <2>6
  <2> QED BY <2>5, <2>6
<1> QED BY <1>1, <1>2, <1>3, <1>4, <1>5 DEF EmbedStep

(* A slot fails a job only while it holds the claim it read the text of.   *)
LEMMA SlotStepFails ==
  ASSUME IInv, NEW s \in Slots, SlotStep(s), NEW m \in Msgs, job'[m].state = "failed"
  PROVE  \/ job[m].state = "failed" /\ verdict'[m] = verdict[m]
         \/ verdict'[m] = Capped[text[m]]
<1>0. \A v \in Msgs : job[v] \in Jobs
  BY DEF IInv, TypeOK
<1> DEFINE w == slot[s].msg
<1>1. CASE \E v \in Msgs : Claim(s, v)
  <2>1. PICK v \in Msgs : Claim(s, v)
    BY <1>1
  <2> DEFINE r == [job[v] EXCEPT !.lease = s, !.live = TRUE, !.locked = TRUE]
  <2>2. job' = [job EXCEPT ![v] = r] /\ verdict' = verdict
    BY <2>1 DEF Claim, IInv, TypeOK
  <2>3. r.state = job[v].state
    BY <1>0, JobStates
  <2> HIDE DEF r
  <2>4. job'[m] = IF m = v THEN r ELSE job[m]
    BY <2>2 DEF IInv, TypeOK
  <2> QED BY <2>2, <2>3, <2>4
<1>2. CASE Read(s) \/ Embed(s) \/ Abandon(s)
  BY <1>2 DEF Read, Embed, Abandon
<1>3. CASE Release(s)
  <2>1. w \in Msgs
    BY <1>3 DEF Release, IInv, SlotInv
  <2>2. job' = job \/ job' = [job EXCEPT ![w] = Unleased(job[w])]
    BY <1>3 DEF Release
  <2>3. verdict' = verdict
    BY <1>3 DEF Release
  <2>4. Unleased(job[w]).state = job[w].state
    BY <1>0, <2>1, JobStates
  <2>5. CASE job' = [job EXCEPT ![w] = Unleased(job[w])]
    <3>1. job'[m] = IF m = w THEN Unleased(job[w]) ELSE job[m]
      BY <2>1, <2>5 DEF IInv, TypeOK
    <3> QED BY <2>3, <2>4, <3>1
  <2> QED BY <2>2, <2>3, <2>5
<1>4. CASE \E st \in {"pending", "failed"} : Retry(s, st)
  <2>1. PICK st \in {"pending", "failed"} : Retry(s, st)
    BY <1>4
  <2>2. w \in Msgs
    BY <2>1 DEF Retry, IInv, SlotInv
  <2>3. CASE ~Holds(s)
    BY <2>1, <2>3 DEF Retry
  <2>4. CASE Holds(s)
    <3> DEFINE r == [Unleased(job[w]) EXCEPT !.state = st, !.ready = FALSE]
    <3>1. r.state = st
      BY <1>0, <2>2, JobStates DEF States
    <3>2. job' = [job EXCEPT ![w] = r]
      BY <2>1, <2>4 DEF Retry
    <3> HIDE DEF r
    <3>3. job'[m] = IF m = w THEN r ELSE job[m]
      BY <2>2, <3>2 DEF IInv, TypeOK
    <3>4. slot[s].input = Capped[text[w]]
      BY <2>1, <2>4 DEF Retry, Holds, IInv, SlotInv
    <3>5. verdict' = IF st = "failed" THEN [verdict EXCEPT ![w] = slot[s].input] ELSE verdict
      BY <2>1, <2>4 DEF Retry
    <3>6. CASE st = "failed"
      <4>1. verdict'[m] = IF m = w THEN slot[s].input ELSE verdict[m]
        BY <2>2, <3>5, <3>6 DEF IInv, TypeOK
      <4> QED BY <3>3, <3>4, <4>1
    <3>7. CASE st = "pending"
      BY <3>1, <3>3, <3>5, <3>7
    <3> QED BY <3>6, <3>7
  <2> QED BY <2>3, <2>4
<1>5. CASE Complete(s)
  <2>1. w \in Msgs /\ verdict' = verdict
    BY <1>5 DEF Complete, IInv, SlotInv
  <2>2. Holds(s) => Live(w) /\ slot[s].valid /\ slot[s].input = Capped[text[w]]
    BY <1>5 DEF IInv, SlotInv, Complete, Holds
  <2> DEFINE r == [Unleased(job[w]) EXCEPT !.state = "done", !.ready = TRUE]
  <2>3. job' = job \/ job' = [job EXCEPT ![w] = r]
    BY <1>5, <2>2 DEF Complete
  <2>4. r.state = "done"
    BY <1>0, <2>1, JobStates DEF States
  <2> HIDE DEF r
  <2>5. CASE job' = [job EXCEPT ![w] = r]
    <3>1. job'[m] = IF m = w THEN r ELSE job[m]
      BY <2>1, <2>5 DEF IInv, TypeOK
    <3> QED BY <2>1, <2>4, <3>1
  <2> QED BY <2>1, <2>3, <2>5
<1> QED BY <1>1, <1>2, <1>3, <1>4, <1>5 DEF SlotStep, Finish

(* A step that leaves a job failed found it failed about the same text, or *)
(* failed it about the text it has.                                        *)
LEMMA FailedSteps ==
  ASSUME IInv, FailedIsCurrent, Next, NEW m \in Msgs, origin'[m] = "queued",
         job'[m].state = "failed"
  PROVE  verdict'[m] = Capped[text'[m]]
<1>0. origin[m] = "queued" /\ job[m].state = "failed" => verdict[m] = Capped[text[m]]
  BY DEF FailedIsCurrent
<1>1. CASE LockStep
  <2>1. text' = text /\ origin' = origin /\ verdict' = verdict
    BY <1>1 DEF LockStep, StartTail, StopTail, EndTail, StartSync, EndSync, Crash, LeaseExpires,
                BackoffEnds, LockExpires, messageVars
  <2> QED BY <1>0, <1>1, <2>1, LockStepFails
<1>2. CASE Write
  BY <1>0, <1>2, WriteFails
<1>3. CASE EmbedStep
  <2>1. text' = text /\ origin' = origin
    BY <1>3 DEF EmbedStep, StartEmbed, Rebuild, ListJobs, EndEmbed, TakeJob, DrainFails,
                StoreVector, messageVars
  <2> QED BY <1>0, <1>3, <2>1, EmbedStepFails
<1>4. CASE \E s \in Slots : SlotStep(s)
  <2>1. PICK s \in Slots : SlotStep(s)
    BY <1>4
  <2>2. text' = text /\ origin' = origin
    BY <2>1 DEF SlotStep, Finish, Claim, Read, Embed, Release, Retry, Abandon, Complete, messageVars
  <2> QED BY <1>0, <2>1, <2>2, SlotStepFails
<1> QED BY <1>1, <1>2, <1>3, <1>4 DEF Next

(* A permanent failure of a text that came with its job is about that      *)
(* text: the revision and the claim token keep the verdict of a superseded *)
(* claim off the job.                                                      *)
THEOREM FailuresStayCurrent == Spec => []FailedIsCurrent
<1>1. Init => FailedIsCurrent
  BY DEF Init, FailedIsCurrent, NoJob
<1>2. IInv /\ FailedIsCurrent /\ [Next]_vars => FailedIsCurrent'
  <2> SUFFICES ASSUME IInv, FailedIsCurrent, [Next]_vars PROVE FailedIsCurrent'
    OBVIOUS
  <2>1. CASE Next
    BY <2>1, FailedSteps DEF FailedIsCurrent
  <2>2. CASE UNCHANGED vars
    BY <2>2 DEF vars, messageVars, FailedIsCurrent
  <2> QED BY <2>1, <2>2
<1> QED BY <1>1, <1>2, Invariance, PTL DEF Spec
=============================================================================

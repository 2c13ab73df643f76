--------------------------- MODULE EmbeddingQueue ---------------------------
(***************************************************************************)
(* The embedding queue: message writes retire vectors and queue jobs in    *)
(* the transaction that changes the text (store/write.go), two background  *)
(* slots of `tail --embed-live` claim jobs under a lease, read the text on *)
(* another connection, call the provider outside any transaction and       *)
(* publish under a fence (store/embedding_worker.go), and `discrawl embed` *)
(* drains the queue with no fence at all (store/embeddings.go).  The       *)
(* writer lock (cli/sync_lock.go) keeps tail, sync and embed apart.        *)
(*                                                                         *)
(* One provider identity and guild messages only (DMs are never queued).   *)
(* A batch is its jobs one by one.  A claim token is the slot that drew    *)
(* it: a slot has one claim, so an old token of it is in nobody's hands.   *)
(***************************************************************************)
EXTENDS Integers, FiniteSets

CONSTANTS Msgs, Texts, Blank,
          Capped,       \* capRunes: the part of a text the provider is sent
          Slots,        \* the worker's concurrent tasks
          Owners,       \* who may take the writer lock
          Enqueues,     \* values of WriteOptions.EnqueueEmbedding
          Snapshots,    \* texts a shared snapshot may bring
          MaxRevision,  \* bound: queue revisions of a message
          MaxFaults     \* bound: crashes, stops, failed calls, leases lost

None == "none"
ASSUME TextAssumption ==
  /\ Blank \in Texts /\ Snapshots \subseteq Texts /\ None \notin Texts
  /\ Capped \in [Texts -> Texts]
ASSUME SlotAssumption == None \notin Slots /\ None \notin Msgs
ASSUME OwnerAssumption == Owners \subseteq {"tail", "sync", "embed"}
ASSUME EnqueueAssumption == Enqueues \subseteq BOOLEAN
ASSUME BoundAssumption == MaxRevision \in Nat \ {0} /\ MaxFaults \in Nat

Inputs == {Capped[t] : t \in Texts} \cup {None}
States == {"none", "pending", "done", "failed"}
Origins == {"queued", "unqueued", "merged"}

(* embedding_jobs: live is lease_until > now, ready is available_at <= now,*)
(* locked is a locked_at that is not stale.                                *)
Jobs == [state : States, rev : 1..MaxRevision, lease : Slots \cup {None},
         live : BOOLEAN, ready : BOOLEAN, locked : BOOLEAN]
NoJob == [state |-> "none", rev |-> 1, lease |-> None, live |-> FALSE, ready |-> TRUE,
          locked |-> FALSE]

(* A worker.Job in a slot and its embeddingWorkResult.                     *)
SlotStates == [stage : {"idle", "claimed", "read", "embedded", "failed"},
               msg : Msgs \cup {None}, rev : 1..MaxRevision, input : Inputs,
               valid : BOOLEAN]
IdleSlot == [stage |-> "idle", msg |-> None, rev |-> 1, input |-> None, valid |-> FALSE]

NoDrain == [stage |-> "start", todo |-> {}, seen |-> [m \in Msgs |-> Blank], cur |-> None]

VARIABLES
  owners, stopping,   \* holders of the writer lock; is the tail shutting down?
  text, deleted,      \* messages: normalized_content (or None), deleted_at
  origin,             \* history: how the text came: with a job, without, merged
  vector,             \* message_embeddings: the input it was computed from
  job, slot, drain,
  verdict,            \* history: the input a permanent failure was about
  faults

messageVars == <<text, deleted, origin>>
lockVars == <<owners, stopping>>
vars == <<lockVars, messageVars, vector, job, slot, drain, verdict, faults>>

TypeOK ==
  /\ owners \subseteq Owners /\ stopping \in BOOLEAN
  /\ text \in [Msgs -> Texts \cup {None}] /\ deleted \in [Msgs -> BOOLEAN]
  /\ origin \in [Msgs -> Origins]
  /\ vector \in [Msgs -> Inputs] /\ verdict \in [Msgs -> Inputs]
  /\ job \in [Msgs -> Jobs] /\ slot \in [Slots -> SlotStates]
  /\ drain \in [stage : {"start", "list", "work"}, todo : SUBSET Msgs,
                seen : [Msgs -> Texts \cup {None}], cur : Msgs \cup {None}]
  /\ faults \in 0..MaxFaults

Init ==
  /\ owners = {} /\ stopping = FALSE
  /\ text = [m \in Msgs |-> None] /\ deleted = [m \in Msgs |-> FALSE]
  /\ origin = [m \in Msgs |-> "queued"]
  /\ vector = [m \in Msgs |-> None] /\ verdict = [m \in Msgs |-> None]
  /\ job = [m \in Msgs |-> NoJob] /\ slot = [s \in Slots |-> IdleSlot]
  /\ drain = NoDrain /\ faults = 0

Live(m) == text[m] # None /\ ~deleted[m]
Fault == faults < MaxFaults /\ faults' = faults + 1

-----------------------------------------------------------------------------
(* The writer lock and its owners.                                         *)

(* Bug variant: the lock lets a second owner in.                           *)
AcquireShared(o) == o \in Owners \ owners /\ owners' = owners \cup {o}

(* acquireSyncLock: one owner; the kernel frees the lock of a dead one.    *)
Acquire(o) == o \in Owners /\ owners = {} /\ owners' = {o}

Unleased(j) == [j EXCEPT !.lease = None, !.live = FALSE, !.locked = FALSE]

(* NewEmbeddingWorker: the claims of a dead owner are taken back.          *)
StartTail ==
  /\ Acquire("tail")
  /\ job' = [m \in Msgs |-> IF job[m].state = "pending" THEN Unleased(job[m]) ELSE job[m]]
  /\ UNCHANGED <<stopping, messageVars, vector, slot, drain, verdict, faults>>

StopTail ==
  /\ "tail" \in owners /\ ~stopping /\ stopping' = TRUE /\ Fault
  /\ UNCHANGED <<owners, messageVars, vector, job, slot, drain, verdict>>

(* The worker's Run joins its tasks before the lock is let go.             *)
EndTail ==
  /\ stopping /\ \A s \in Slots : slot[s].stage = "idle"
  /\ owners' = owners \ {"tail"} /\ stopping' = FALSE
  /\ UNCHANGED <<messageVars, vector, job, slot, drain, verdict, faults>>

StartSync ==
  /\ Acquire("sync")
  /\ UNCHANGED <<stopping, messageVars, vector, job, slot, drain, verdict, faults>>

EndSync ==
  /\ "sync" \in owners /\ owners' = owners \ {"sync"}
  /\ UNCHANGED <<stopping, messageVars, vector, job, slot, drain, verdict, faults>>

(* A crash, or a command that ends with an error of the database.          *)
Crash ==
  /\ owners # {} /\ Fault
  /\ owners' = {} /\ stopping' = FALSE
  /\ slot' = [s \in Slots |-> IdleSlot] /\ drain' = NoDrain
  /\ UNCHANGED <<messageVars, vector, job, verdict>>

(* Time passes.  The lease outlives its task, except for a slow machine:   *)
(* losing one that is still worked on counts as a fault.                   *)
LeaseExpires(m) ==
  /\ job[m].live /\ job' = [job EXCEPT ![m].live = FALSE]
  /\ IF \E s \in Slots : slot[s].msg = m THEN Fault ELSE UNCHANGED faults
  /\ UNCHANGED <<lockVars, messageVars, vector, slot, drain, verdict>>

BackoffEnds(m) ==
  /\ ~job[m].ready /\ job' = [job EXCEPT ![m].ready = TRUE]
  /\ UNCHANGED <<lockVars, messageVars, vector, slot, drain, verdict, faults>>

LockExpires(m) ==
  /\ job[m].locked /\ job' = [job EXCEPT ![m].locked = FALSE]
  /\ UNCHANGED <<lockVars, messageVars, vector, slot, drain, verdict, faults>>

-----------------------------------------------------------------------------
(* Message writes.                                                         *)

Writable == owners \cap {"tail", "sync"} # {}

Came(m, o) == origin' = [origin EXCEPT ![m] = o]

Bumped(j) == [Unleased(j) EXCEPT !.rev = @ + 1]

(* UpsertEmbeddingJobPending and the update after it.                      *)
Queued(j) == [Bumped(j) EXCEPT !.state = "pending", !.ready = TRUE]

(* upsertMessageTx: a new text retires the vector; it queues a job, or     *)
(* only invalidates the one there is.                                      *)
WriteText(m, t, enqueue) ==
  /\ Writable /\ ~deleted[m] /\ t # text[m] /\ job[m].rev < MaxRevision
  /\ text' = [text EXCEPT ![m] = t] /\ vector' = [vector EXCEPT ![m] = None]
  /\ job' = [job EXCEPT ![m] = IF enqueue THEN Queued(@)
                               ELSE IF @.state = "none" THEN @ ELSE Bumped(@)]
  /\ Came(m, IF enqueue THEN "queued" ELSE "unqueued")
  /\ UNCHANGED <<lockVars, deleted, slot, drain, verdict, faults>>

(* The same text again (refreshUnchangedMessageTx, or other fields         *)
(* changed): only a missing job is queued.                                 *)
RewriteText(m) ==
  /\ Writable /\ Live(m) /\ TRUE \in Enqueues /\ job[m].state = "none"
  /\ job[m].rev < MaxRevision
  /\ vector' = [vector EXCEPT ![m] = None] /\ job' = [job EXCEPT ![m] = Queued(@)]
  /\ Came(m, "queued")
  /\ UNCHANGED <<lockVars, text, deleted, slot, drain, verdict, faults>>

(* RepairMessageTextBatch: the projection is derived again, in the tail.   *)
RepairText(m, t, enqueue) ==
  /\ "tail" \in owners /\ Live(m) /\ t # text[m] /\ job[m].rev < MaxRevision
  /\ text' = [text EXCEPT ![m] = t] /\ vector' = [vector EXCEPT ![m] = None]
  /\ job' = [job EXCEPT ![m] =
       IF enqueue THEN Queued(@)
       ELSE IF @.state = "none" THEN @ ELSE [Bumped(@) EXCEPT !.ready = TRUE]]
  /\ Came(m, IF enqueue THEN "queued" ELSE "unqueued")
  /\ UNCHANGED <<lockVars, deleted, slot, drain, verdict, faults>>

(* markMessageDeleted takes the vector and the job away.                   *)
Delete(m) ==
  /\ Writable /\ Live(m)
  /\ deleted' = [deleted EXCEPT ![m] = TRUE]
  /\ vector' = [vector EXCEPT ![m] = None] /\ job' = [job EXCEPT ![m] = NoJob]
  /\ UNCHANGED <<lockVars, text, origin, slot, drain, verdict, faults>>

(* share.MergeIfChanged: a newer row replaces the local one and touches    *)
(* neither jobs nor vectors; with embeddings the publisher's vector is     *)
(* stored for a live message, whether or not its row was.                  *)
MergeSnapshot(m, t, applied, tombstone, withVector) ==
  /\ "sync" \in owners
  /\ text[m] = None => applied
  /\ text' = IF applied THEN [text EXCEPT ![m] = t] ELSE text
  /\ deleted' = IF applied THEN [deleted EXCEPT ![m] = tombstone] ELSE deleted
  /\ vector' = IF withVector /\ ~deleted'[m] /\ t # Blank
                 THEN [vector EXCEPT ![m] = Capped[t]] ELSE vector
  /\ IF applied \/ withVector THEN Came(m, "merged") ELSE UNCHANGED origin
  /\ UNCHANGED <<lockVars, job, slot, drain, verdict, faults>>

-----------------------------------------------------------------------------
(* The background worker.                                                  *)

Rest(s) == slot' = [slot EXCEPT ![s] = IdleSlot]

Claim(s, m) ==
  /\ "tail" \in owners /\ ~stopping /\ slot[s].stage = "idle"
  /\ job[m].state = "pending" /\ job[m].ready /\ ~job[m].live /\ Live(m)
  /\ job' = [job EXCEPT ![m].lease = s, ![m].live = TRUE, ![m].locked = TRUE]
  /\ slot' = [slot EXCEPT ![s] = [IdleSlot EXCEPT !.stage = "claimed", !.msg = m,
                                                  !.rev = job[m].rev]]
  /\ UNCHANGED <<lockVars, messageVars, vector, drain, verdict, faults>>

(* Is the job still the claimed one?                                       *)
Matches(s) ==
  LET j == job[slot[s].msg] IN j.rev = slot[s].rev /\ j.lease = s /\ j.state # "none"

(* process, on the reader's connection: the text of this very claim.       *)
Read(s) ==
  /\ slot[s].stage = "claimed"
  /\ LET m == slot[s].msg
         found == Matches(s) /\ Live(m)
     IN slot' = [slot EXCEPT ![s].stage = "read", ![s].valid = found,
                             ![s].input = IF found THEN Capped[text[m]] ELSE None]
  /\ UNCHANGED <<lockVars, messageVars, vector, job, drain, verdict, faults>>

(* process, outside any transaction: the provider's answer.                *)
Embed(s) ==
  /\ slot[s].stage = "read"
  /\ \/ slot' = [slot EXCEPT ![s].stage = "embedded"] /\ UNCHANGED faults
     \/ slot' = [slot EXCEPT ![s].stage = "failed"] /\ Fault
  /\ UNCHANGED <<lockVars, messageVars, vector, job, drain, verdict>>

(* Bug variant: any claim will do.                                         *)
HoldsAny(s) == LET j == job[slot[s].msg] IN j.live /\ j.state = "pending"

(* The fence of Complete, Retry and Release.                               *)
Holds(s) == LET j == job[slot[s].msg] IN Matches(s) /\ j.live /\ j.state = "pending"

(* Bug variant: the answer is stored as it came.                           *)
CompleteUnchecked(s) ==
  /\ slot[s].stage = "embedded" /\ Rest(s)
  /\ job' = [job EXCEPT ![slot[s].msg] = [Unleased(@) EXCEPT !.state = "done"]]
  /\ vector' = [vector EXCEPT ![slot[s].msg] = slot[s].input]
  /\ UNCHANGED <<lockVars, messageVars, drain, verdict, faults>>

(* Complete: done under the fence, then the current text is looked at.     *)
Complete(s) ==
  /\ slot[s].stage = "embedded" /\ Rest(s)
  /\ LET m == slot[s].msg
         same == slot[s].valid /\ Capped[text[m]] = slot[s].input
         done == [Unleased(job[m]) EXCEPT !.state = "done", !.ready = TRUE]
     IN IF ~Holds(s) THEN UNCHANGED <<job, vector>>
        ELSE /\ job' = [job EXCEPT ![m] = IF ~Live(m) THEN NoJob
                                          ELSE IF same THEN done ELSE Queued(done)]
             /\ vector' = [vector EXCEPT ![m] =
                  IF Live(m) /\ same /\ text[m] # Blank THEN slot[s].input ELSE None]
  /\ UNCHANGED <<lockVars, messageVars, drain, verdict, faults>>

(* Bug variant: a failed call counts as done.                              *)
RetryDone(s, state) ==
  /\ slot[s].stage = "failed" /\ Rest(s)
  /\ LET m == slot[s].msg
     IN IF ~Holds(s) THEN UNCHANGED <<job, verdict>>
        ELSE /\ job' = [job EXCEPT ![m] = [Unleased(@) EXCEPT !.state = "done"]]
             /\ UNCHANGED verdict
  /\ UNCHANGED <<lockVars, messageVars, vector, drain, faults>>

(* Retry: later, or failed for good.                                       *)
Retry(s, state) ==
  /\ slot[s].stage = "failed" /\ Rest(s)
  /\ LET m == slot[s].msg
     IN IF ~Holds(s) THEN UNCHANGED <<job, verdict>>
        ELSE /\ job' = [job EXCEPT ![m] = [Unleased(@) EXCEPT !.state = state,
                                                              !.ready = FALSE]]
             /\ verdict' = IF state = "failed" THEN [verdict EXCEPT ![m] = slot[s].input]
                           ELSE verdict
  /\ UNCHANGED <<lockVars, messageVars, vector, drain, faults>>

(* Release: a worker that shuts down gives its claims back.                *)
Release(s) ==
  /\ stopping /\ slot[s].stage # "idle" /\ Rest(s)
  /\ job' = IF Holds(s) THEN [job EXCEPT ![slot[s].msg] = Unleased(@)] ELSE job
  /\ UNCHANGED <<lockVars, messageVars, vector, drain, verdict, faults>>

(* The database refused the result: the claim is left to expire.           *)
Abandon(s) ==
  /\ slot[s].stage \in {"embedded", "failed"} /\ Rest(s) /\ Fault
  /\ UNCHANGED <<lockVars, messageVars, vector, job, drain, verdict>>

-----------------------------------------------------------------------------
(* discrawl embed.                                                         *)

StartEmbed ==
  /\ Acquire("embed") /\ drain' = NoDrain
  /\ UNCHANGED <<stopping, messageVars, vector, job, slot, verdict, faults>>

(* RequeueAllEmbeddingJobs (--rebuild): missing jobs too; leases stay.     *)
Rebuild ==
  /\ "embed" \in owners /\ drain.stage = "start"
  /\ drain' = [drain EXCEPT !.stage = "list"]
  /\ job' = [m \in Msgs |-> IF Live(m) THEN [job[m] EXCEPT !.state = "pending", !.locked = FALSE]
                            ELSE job[m]]
  /\ UNCHANGED <<lockVars, messageVars, vector, slot, verdict, faults>>

(* pendingEmbeddingJobs: the texts are read here and embedded later.       *)
ListJobs ==
  /\ "embed" \in owners /\ drain.stage \in {"start", "list"}
  /\ drain' = [stage |-> "work", seen |-> text, cur |-> None,
               todo |-> {m \in Msgs : job[m].state = "pending" /\ Live(m) /\ ~job[m].locked}]
  /\ UNCHANGED <<lockVars, messageVars, vector, job, slot, verdict, faults>>

Marked(m, state) ==
  job' = IF job[m].state = "none" THEN job
         ELSE [job EXCEPT ![m].state = state, ![m].locked = FALSE]

(* A blank text is done without a vector, any other job is locked first.   *)
TakeJob(m) ==
  /\ "embed" \in owners /\ drain.cur = None /\ m \in drain.todo
  /\ LET free == job[m].state = "pending" /\ ~job[m].locked
         blank == drain.seen[m] = Blank
     IN /\ drain' = [drain EXCEPT !.todo = @ \ {m}, !.cur = IF ~blank /\ free THEN m ELSE None]
        /\ vector' = IF blank THEN [vector EXCEPT ![m] = None] ELSE vector
        /\ IF blank THEN Marked(m, "done")
           ELSE job' = IF free THEN [job EXCEPT ![m].locked = TRUE] ELSE job
  /\ UNCHANGED <<lockVars, messageVars, slot, verdict, faults>>

(* storeEmbeddingBatch asks nothing of the job or of the message.          *)
StoreVector ==
  /\ "embed" \in owners /\ drain.cur # None
  /\ vector' = [vector EXCEPT ![drain.cur] = Capped[drain.seen[drain.cur]]]
  /\ Marked(drain.cur, "done") /\ drain' = [drain EXCEPT !.cur = None]
  /\ UNCHANGED <<lockVars, messageVars, slot, verdict, faults>>

(* markEmbeddingJobsFailed, or a rate limit that ends the drain.           *)
DrainFails(state) ==
  /\ "embed" \in owners /\ drain.cur # None /\ Fault
  /\ Marked(drain.cur, state)
  /\ verdict' = IF state = "failed"
                  THEN [verdict EXCEPT ![drain.cur] = Capped[drain.seen[drain.cur]]] ELSE verdict
  /\ \/ drain' = [drain EXCEPT !.cur = None]
     \/ state = "pending" /\ drain' = [drain EXCEPT !.cur = None, !.todo = {}]
  /\ UNCHANGED <<lockVars, messageVars, vector, slot>>

EndEmbed ==
  /\ "embed" \in owners /\ drain.stage = "work" /\ drain.todo = {} /\ drain.cur = None
  /\ owners' = owners \ {"embed"} /\ drain' = NoDrain
  /\ UNCHANGED <<stopping, messageVars, vector, job, slot, verdict, faults>>

-----------------------------------------------------------------------------
LockStep ==
  \/ StartTail \/ StopTail \/ EndTail \/ StartSync \/ EndSync \/ Crash
  \/ \E m \in Msgs : LeaseExpires(m) \/ BackoffEnds(m) \/ LockExpires(m)

Write ==
  \E m \in Msgs :
    \/ \E t \in Texts, e \in Enqueues : WriteText(m, t, e) \/ RepairText(m, t, e)
    \/ RewriteText(m) \/ Delete(m)
    \/ \E t \in Snapshots, applied, tombstone, withVector \in BOOLEAN :
         MergeSnapshot(m, t, applied, tombstone, withVector)

Finish(s) ==
  Complete(s) \/ Release(s) \/ \E state \in {"pending", "failed"} : Retry(s, state)

SlotStep(s) ==
  \/ \E m \in Msgs : Claim(s, m)
  \/ Read(s) \/ Embed(s) \/ Finish(s) \/ Abandon(s)

EmbedStep ==
  \/ StartEmbed \/ Rebuild \/ ListJobs \/ StoreVector \/ EndEmbed
  \/ \E m \in Msgs : TakeJob(m)
  \/ \E state \in {"pending", "failed"} : DrainFails(state)

Next == LockStep \/ Write \/ EmbedStep \/ \E s \in Slots : SlotStep(s)

Spec == Init /\ [][Next]_vars

(* The service manager tries to start the tail until it gets the lock, a   *)
(* sync and a drain come to their end, the slots run, leases and backoffs  *)
(* end.                                                                    *)
FairSpec ==
  /\ Spec
  /\ SF_vars(StartTail) /\ WF_vars(EndTail) /\ WF_vars(EndSync)
  /\ WF_vars("embed" \in owners /\ EmbedStep)
  /\ \A m \in Msgs : WF_vars(LeaseExpires(m)) /\ WF_vars(BackoffEnds(m))
  /\ \A s \in Slots :
       /\ \A m \in Msgs : SF_vars(Claim(s, m))
       /\ WF_vars(Read(s)) /\ WF_vars(Embed(s)) /\ WF_vars(Finish(s))

-----------------------------------------------------------------------------
(* A stored vector is the vector of the message's current text, and a      *)
(* deleted message has none: neither a late answer of the provider nor the *)
(* unfenced drain ever leaves a stale one.  A merged snapshot may, until   *)
(* the text is written again.                                              *)
VectorIsCurrent ==
  \A m \in Msgs : origin[m] # "merged" /\ vector[m] # None =>
    Live(m) /\ vector[m] = Capped[text[m]]

(* The same of the step that publishes: whatever a snapshot left behind,   *)
(* the worker and the drain store only what fits the text they store it    *)
(* for.                                                                    *)
PublishedIsCurrent ==
  [][\A m \in Msgs :
       "sync" \notin owners /\ vector'[m] \notin {vector[m], None} =>
         ~deleted'[m] /\ vector'[m] = Capped[text'[m]]]_vars

(* Where the text came with its job, the job is failed for good only by an *)
(* answer about that text: the fence of Retry keeps the verdict on an old  *)
(* text off the new one.                                                   *)
FailedIsCurrent ==
  \A m \in Msgs : origin[m] = "queued" /\ job[m].state = "failed" =>
    verdict[m] = Capped[text[m]]

(* A text that came with its job is never forgotten: it has its vector, or *)
(* a job that is pending or visibly failed.                                *)
NeverForgotten ==
  \A m \in Msgs : origin[m] = "queued" /\ Live(m) /\ text[m] # Blank /\ vector[m] = None =>
    job[m].state \in {"pending", "failed"}

(* And `tail --embed-live` settles it, whatever crashes, edits, syncs,     *)
(* drains and provider failures come in between.                           *)
Settled(m) == ~Live(m) \/ text[m] = Blank \/ vector[m] # None \/ job[m].state = "failed"
EverySettles ==
  \A m \in Msgs : Live(m) /\ origin[m] = "queued" ~> Settled(m) \/ origin[m] # "queued"
=============================================================================

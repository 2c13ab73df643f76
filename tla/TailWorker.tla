----------------------------- MODULE TailWorker -----------------------------
(***************************************************************************)
(* Client.Tail (discord/tail.go): the Gateway callbacks put events in two  *)
(* bounded queues, one worker takes the ordered ones and a pool takes the  *)
(* member ones.  A worker runs each handler in a goroutine of its own and  *)
(* waits for it up to a deadline, then for a grace period                  *)
(* (discord/tail_execution.go); a handler that stays away is left running. *)
(* A failure is recorded, the circuit of its class counts it, and whatever *)
(* cannot go on safely is fatal: Tail cancels, joins its workers, returns. *)
(*                                                                         *)
(* Time is what the code compares: whether a task's deadline and its grace *)
(* period have passed.  The context given to Tail has no deadline of its   *)
(* own, the handler timeout is positive (discord.New: 30 s) and the        *)
(* handler implements the failure recorder (syncer.tailHandler does).      *)
(***************************************************************************)
EXTENDS Integers, Sequences, FiniteSets

CONSTANTS Tasks,          \* Gateway events
          MessageTasks,   \* the MESSAGE_* ones
          MemberTasks,    \* the GUILD_MEMBER_* ones; all others are ordered
          MemberWorkers,  \* the pool
          QueueSize, FailureLimit,
          MaxFaults       \* bound: records that cannot be persisted

ASSUME TaskAssumption ==
  /\ MessageTasks \subseteq Tasks /\ MemberTasks \subseteq Tasks
  /\ MessageTasks \cap MemberTasks = {}
ASSUME WorkerAssumption == "ordered" \notin MemberWorkers
ASSUME LimitsAssumption ==
  QueueSize \in Nat \ {0} /\ FailureLimit \in Nat \ {0} /\ MaxFaults \in Nat

Classes == {"ordered", "member"}
Class(t) == IF t \in MemberTasks THEN "member" ELSE "ordered"
Workers == MemberWorkers \cup {"ordered"}
QueueOf(w) == IF w = "ordered" THEN "ordered" ELSE "member"

Results == {"nil", "error", "panic"}
Phases  == {"early", "late", "over"}  \* before the deadline, in grace, after it
Stages  == {"idle", "dequeued", "waiting", "joining", "grace", "judge",
            "record", "report", "done"}
Reasons == {"queue", "persist", "join", "detached", "circuit"}
None == "none"

(* tailTaskExecution.                                                      *)
Execution == [err : Results \cup {"deadline", "detached", "join", "cancelled"},
              forceFallback : BOOLEAN, parentCancellation : BOOLEAN,
              handlerReturnedErr : BOOLEAN]
NoExecution == [err |-> "nil", forceFallback |-> FALSE, parentCancellation |-> FALSE,
                handlerReturnedErr |-> FALSE]

VARIABLES
  tpc,          \* Tail: opening, ready, serving, closing, returned
  startFailed,  \* did Open or OnTailReady fail?
  asked,        \* is the caller's context done?
  cancelled,    \* is tailCtx done?
  fatal,        \* reasons signalled to the fatal state
  arrived,      \* events received so far
  queue,        \* the two channels
  wpc, wtask,   \* each worker: stage and task
  exec,         \* each worker: how its task ended
  handler,      \* each task's goroutine: none, running or its result
  clock,        \* phase of each started task now
  doneAt,       \* phase in which its handler returned
  taken,        \* tasks whose error the worker took before any cancellation
  recorded,     \* no, ledger, or forced to a fallback file
  consecutive, opened,   \* the circuit of each class
  faults

tailVars    == <<tpc, startFailed, asked>>
queueVars   == <<arrived, queue>>
workerVars  == <<wpc, wtask, exec>>
handlerVars == <<handler, clock, doneAt, taken>>
circuitVars == <<consecutive, opened>>
vars == <<tailVars, cancelled, fatal, queueVars, workerVars, handlerVars, recorded,
          circuitVars, faults>>

TypeOK ==
  /\ tpc \in {"opening", "ready", "serving", "closing", "returned"}
  /\ startFailed \in BOOLEAN /\ asked \in BOOLEAN /\ cancelled \in BOOLEAN
  /\ fatal \subseteq Reasons /\ arrived \subseteq Tasks /\ taken \subseteq Tasks
  /\ queue \in [Classes -> Seq(Tasks)]
  /\ wpc \in [Workers -> Stages] /\ wtask \in [Workers -> Tasks \cup {None}]
  /\ exec \in [Workers -> Execution]
  /\ handler \in [Tasks -> Results \cup {"none", "running"}]
  /\ clock \in [Tasks -> Phases] /\ doneAt \in [Tasks -> Phases]
  /\ recorded \in [Tasks -> {"no", "ledger", "forced"}]
  /\ consecutive \in [Classes -> 0..FailureLimit] /\ opened \in [Classes -> BOOLEAN]
  /\ faults \in 0..MaxFaults

Init ==
  /\ tpc = "opening" /\ startFailed = FALSE /\ asked = FALSE /\ cancelled = FALSE
  /\ fatal = {} /\ arrived = {} /\ queue = [c \in Classes |-> <<>>]
  /\ wpc = [w \in Workers |-> "idle"] /\ wtask = [w \in Workers |-> None]
  /\ exec = [w \in Workers |-> NoExecution]
  /\ handler = [t \in Tasks |-> "none"]
  /\ clock = [t \in Tasks |-> "early"] /\ doneAt = [t \in Tasks |-> "early"]
  /\ taken = {} /\ recorded = [t \in Tasks |-> "no"]
  /\ consecutive = [c \in Classes |-> 0] /\ opened = [c \in Classes |-> FALSE]
  /\ faults = 0

-----------------------------------------------------------------------------
(* Tail itself.                                                            *)

Fail == tpc' = "closing" /\ startFailed' = TRUE /\ cancelled' = TRUE /\ UNCHANGED asked

Open ==
  /\ tpc = "opening"
  /\ \/ tpc' = "ready" /\ UNCHANGED <<startFailed, asked, cancelled>>
     \/ Fail
  /\ UNCHANGED <<fatal, queueVars, workerVars, handlerVars, recorded, circuitVars, faults>>

Ready ==
  /\ tpc = "ready"
  /\ \/ tpc' = "serving" /\ UNCHANGED <<startFailed, asked, cancelled>>
     \/ Fail
  /\ UNCHANGED <<fatal, queueVars, workerVars, handlerVars, recorded, circuitVars, faults>>

(* The caller cancels: tailCtx is derived from its context.                *)
Ask ==
  /\ ~asked /\ tpc # "returned"
  /\ asked' = TRUE /\ cancelled' = TRUE
  /\ UNCHANGED <<tpc, startFailed, fatal, queueVars, workerVars, handlerVars, recorded,
                 circuitVars, faults>>

(* cleanup: cancel, detach the callbacks, wait for the workers, close.     *)
Cleanup ==
  /\ tpc = "serving" /\ (asked \/ fatal # {})
  /\ tpc' = "closing" /\ cancelled' = TRUE
  /\ UNCHANGED <<startFailed, asked, fatal, queueVars, workerVars, handlerVars, recorded,
                 circuitVars, faults>>

Return ==
  /\ tpc = "closing" /\ \A w \in Workers : wpc[w] = "done"
  /\ tpc' = "returned"
  /\ UNCHANGED <<startFailed, asked, cancelled, fatal, queueVars, workerVars, handlerVars,
                 recorded, circuitVars, faults>>

(* A Gateway callback: enqueueTailTask never blocks; a full queue is fatal.*)
Receive(t) ==
  /\ tpc \in {"ready", "serving"} /\ t \notin arrived
  /\ arrived' = arrived \cup {t}
  /\ LET c == Class(t)
         room == Len(queue[c]) < QueueSize
     IN \/ room /\ queue' = [queue EXCEPT ![c] = Append(@, t)] /\ UNCHANGED fatal
        \/ cancelled /\ UNCHANGED <<queue, fatal>>
        \/ ~room /\ ~cancelled /\ fatal' = fatal \cup {"queue"} /\ UNCHANGED queue
  /\ UNCHANGED <<tailVars, cancelled, workerVars, handlerVars, recorded, circuitVars, faults>>

-----------------------------------------------------------------------------
(* A worker.                                                               *)

Goto(w, stage) == wpc' = [wpc EXCEPT ![w] = stage]
LetGo(w) == wtask' = [wtask EXCEPT ![w] = None] /\ exec' = [exec EXCEPT ![w] = NoExecution]
Stop(w) == Goto(w, "done") /\ LetGo(w)
Loop(w) == Goto(w, "idle") /\ LetGo(w)

StopIdle(w) ==
  /\ wpc[w] = "idle" /\ cancelled
  /\ Stop(w)
  /\ UNCHANGED <<tailVars, cancelled, fatal, queueVars, handlerVars, recorded,
                 circuitVars, faults>>

(* The select may still take a task after the cancellation.                *)
Dequeue(w) ==
  /\ wpc[w] = "idle" /\ queue[QueueOf(w)] # <<>>
  /\ wtask' = [wtask EXCEPT ![w] = Head(queue[QueueOf(w)])]
  /\ queue' = [queue EXCEPT ![QueueOf(w)] = Tail(@)]
  /\ Goto(w, "dequeued")
  /\ UNCHANGED <<tailVars, cancelled, fatal, arrived, exec, handlerVars, recorded,
                 circuitVars, faults>>

(* The second look at tailCtx, then runTailTaskExecution starts the        *)
(* handler.                                                                *)
Start(w) ==
  /\ wpc[w] = "dequeued"
  /\ IF cancelled
       THEN Stop(w) /\ UNCHANGED handler
       ELSE /\ handler' = [handler EXCEPT ![wtask[w]] = "running"]
            /\ Goto(w, "waiting") /\ UNCHANGED <<wtask, exec>>
  /\ UNCHANGED <<tailVars, cancelled, fatal, queueVars, clock, doneAt, taken, recorded,
                 circuitVars, faults>>

(* The handler's goroutine ends when it likes, or never.                   *)
HandlerReturns(t) ==
  /\ handler[t] = "running"
  /\ \E r \in Results : handler' = [handler EXCEPT ![t] = r]
  /\ doneAt' = [doneAt EXCEPT ![t] = clock[t]]
  /\ UNCHANGED <<tailVars, cancelled, fatal, queueVars, workerVars, clock, taken, recorded,
                 circuitVars, faults>>

(* The deadline of a started task, then its grace period, pass.            *)
Tick(w) ==
  /\ wpc[w] \in {"waiting", "grace"} /\ clock[wtask[w]] # "over"
  /\ clock' = [clock EXCEPT ![wtask[w]] = IF @ = "early" THEN "late" ELSE "over"]
  /\ UNCHANGED <<tailVars, cancelled, fatal, queueVars, workerVars, handler, doneAt, taken,
                 recorded, circuitVars, faults>>

Returned(w) == handler[wtask[w]] \in Results

Ended(w, err, forced, parent, returned) ==
  /\ exec' = [exec EXCEPT ![w] =
       [err |-> err, forceFallback |-> forced, parentCancellation |-> parent,
        handlerReturnedErr |-> returned]]
  /\ taken' = IF returned /\ ~cancelled THEN taken \cup {wtask[w]} ELSE taken
  /\ Goto(w, "judge")
  /\ UNCHANGED <<tailVars, cancelled, fatal, queueVars, wtask, handler, clock, doneAt,
                 recorded, circuitVars, faults>>

(* tailTaskExecutionAfterParentCancellation.                               *)
ParentCancelled(w) ==
  LET r == handler[wtask[w]]
  IN Ended(w, IF r = "nil" THEN "cancelled" ELSE r, FALSE, TRUE, r # "nil")

(* classifyTailTaskExecution: when the handler returned decides.           *)
Classify(w) ==
  LET r == handler[wtask[w]]
      at == doneAt[wtask[w]]
  IN \/ at = "early" /\ Ended(w, r, FALSE, FALSE, r # "nil")
     \/ at = "late" /\ Ended(w, "deadline", FALSE, FALSE, FALSE)
     \/ at = "over" /\ Ended(w, "detached", FALSE, FALSE, FALSE)

(* tailTaskParentError: a cancellation counts before the local deadline.   *)
ParentFirst(w) == cancelled /\ clock[wtask[w]] = "early"

ResultArrives(w) ==
  /\ wpc[w] = "waiting" /\ Returned(w)
  /\ IF ParentFirst(w) THEN ParentCancelled(w) ELSE Classify(w)

ContextDone(w) ==
  /\ wpc[w] = "waiting" /\ (cancelled \/ clock[wtask[w]] # "early")
  /\ Goto(w, IF ParentFirst(w) THEN "joining" ELSE "grace")
  /\ UNCHANGED <<tailVars, cancelled, fatal, queueVars, wtask, exec, handlerVars, recorded,
                 circuitVars, faults>>

(* Bug variant: the worker waits for the handler however long it takes.    *)
JoinWaits(w) == wpc[w] = "joining" /\ Returned(w) /\ Ended(w, "join", TRUE, TRUE, FALSE)

(* awaitTailTaskParentCancellationExecution: a result, or the timer.       *)
Joined(w) == wpc[w] = "joining" /\ Returned(w) /\ ParentCancelled(w)
JoinTimesOut(w) == wpc[w] = "joining" /\ Ended(w, "join", TRUE, TRUE, FALSE)

(* Bug variant: a handler that stays away is taken for one that was late.  *)
GraceExpiresLate(w) ==
  /\ wpc[w] = "grace" /\ clock[wtask[w]] = "over" /\ ~Returned(w)
  /\ Ended(w, "deadline", TRUE, FALSE, FALSE)

(* awaitTailTaskDeadlineExecution, finalTailTaskDeadlineExecution.         *)
GraceResult(w) == wpc[w] = "grace" /\ Returned(w) /\ Classify(w)
GraceExpires(w) ==
  /\ wpc[w] = "grace" /\ clock[wtask[w]] = "over" /\ ~Returned(w)
  /\ Ended(w, "detached", TRUE, FALSE, FALSE)

-----------------------------------------------------------------------------
(* What the worker makes of an execution.                                  *)

Detached(w) == exec[w].err = "detached"
ParentJoinTimedOut(w) == exec[w].parentCancellation /\ exec[w].forceFallback
(* Bug variant: what a handler returns after the cancellation is taken for *)
(* the cancellation, unless it panicked.                                   *)
ParentPanic(w) ==
  exec[w].parentCancellation /\ exec[w].err = "panic" /\ wtask[w] \in MessageTasks
ParentMessageFailure(w) ==
  exec[w].parentCancellation /\ exec[w].handlerReturnedErr /\ wtask[w] \in MessageTasks

(* After a cancellation only these failures are still worth a record.      *)
StillCounts(w) ==
  \/ exec[w].err \in {"deadline", "detached", "panic"}
  \/ ParentJoinTimedOut(w) \/ ParentMessageFailure(w)

Success(w) ==
  /\ wpc[w] = "judge" /\ exec[w].err = "nil"
  /\ LET c == Class(wtask[w])
     IN consecutive' = IF opened[c] THEN consecutive ELSE [consecutive EXCEPT ![c] = 0]
  /\ Loop(w)
  /\ UNCHANGED <<tailVars, cancelled, fatal, queueVars, handlerVars, recorded, opened,
                 faults>>

GiveUp(w) ==
  /\ wpc[w] = "judge" /\ exec[w].err # "nil"
  /\ cancelled /\ ~StillCounts(w)
  /\ Stop(w)
  /\ UNCHANGED <<tailVars, cancelled, fatal, queueVars, handlerVars, recorded,
                 circuitVars, faults>>

Failure(w) ==
  /\ wpc[w] = "judge" /\ exec[w].err # "nil"
  /\ ~cancelled \/ StillCounts(w)
  /\ cancelled' = (cancelled \/ Detached(w) \/ ParentJoinTimedOut(w))
  /\ Goto(w, "record")
  /\ UNCHANGED <<tailVars, fatal, queueVars, wtask, exec, handlerVars, recorded, circuitVars,
                 faults>>

(* RecordTailFailure: the ledger, or a file when that is forced and the    *)
(* event is a message; metadata failures only have the ledger.             *)
Record(w) ==
  /\ wpc[w] = "record"
  /\ recorded' = [recorded EXCEPT ![wtask[w]] =
                    IF exec[w].forceFallback /\ wtask[w] \in MessageTasks THEN "forced"
                    ELSE "ledger"]
  /\ Goto(w, "report")
  /\ UNCHANGED <<tailVars, cancelled, fatal, queueVars, wtask, exec, handlerVars, circuitVars,
                 faults>>

RecordFails(w) ==
  /\ wpc[w] = "record" /\ faults < MaxFaults /\ faults' = faults + 1
  /\ cancelled' = TRUE /\ fatal' = fatal \cup {"persist"}
  /\ Stop(w)
  /\ UNCHANGED <<tailVars, queueVars, handlerVars, recorded, circuitVars>>

(* tailFailureCircuit.recordFailure opens the circuit at its limit.        *)
Trips(c) == ~opened[c] /\ consecutive[c] + 1 >= FailureLimit

(* A handler that is still running, or a circuit that opens, ends Tail.    *)
Fatal(w, reason) == fatal' = fatal \cup {reason} /\ cancelled' = TRUE /\ Stop(w)

Report(w) ==
  /\ wpc[w] = "report"
  /\ LET c == Class(wtask[w])
         unsafe == ParentJoinTimedOut(w) \/ Detached(w)
     IN \/ ParentJoinTimedOut(w) /\ Fatal(w, "join") /\ UNCHANGED circuitVars
        \/ ~ParentJoinTimedOut(w) /\ Detached(w)
             /\ Fatal(w, "detached") /\ UNCHANGED circuitVars
        \/ /\ ~unsafe /\ ~opened[c]
           /\ consecutive' = [consecutive EXCEPT ![c] = @ + 1]
           /\ opened' = [opened EXCEPT ![c] = Trips(c)]
           /\ IF Trips(c) THEN Fatal(w, "circuit") ELSE Loop(w) /\ UNCHANGED <<fatal, cancelled>>
        \/ ~unsafe /\ opened[c] /\ Loop(w) /\ UNCHANGED <<fatal, cancelled, circuitVars>>
  /\ UNCHANGED <<tailVars, queueVars, handlerVars, recorded, faults>>

WorkerStep(w) ==
  \/ StopIdle(w) \/ Dequeue(w) \/ Start(w)
  \/ ResultArrives(w) \/ ContextDone(w) \/ Joined(w) \/ JoinTimesOut(w)
  \/ GraceResult(w) \/ GraceExpires(w)
  \/ Success(w) \/ GiveUp(w) \/ Failure(w) \/ Record(w) \/ RecordFails(w) \/ Report(w)

Next ==
  \/ Open \/ Ready \/ Ask \/ Cleanup \/ Return
  \/ \E t \in Tasks : Receive(t) \/ HandlerReturns(t)
  \/ \E w \in Workers : WorkerStep(w) \/ Tick(w)

Spec == Init /\ [][Next]_vars

(* Goroutines run, timers fire and the session opens or fails.  Nothing is *)
(* asked of the handlers: they may hang for good.                          *)
FairSpec ==
  /\ Spec
  /\ WF_vars(Open) /\ WF_vars(Ready) /\ WF_vars(Cleanup) /\ WF_vars(Return)
  /\ \A w \in Workers : WF_vars(WorkerStep(w)) /\ WF_vars(Tick(w))

-----------------------------------------------------------------------------
Running == {t \in Tasks : handler[t] = "running"}
InHand(t) == \E w \in Workers : wtask[w] = t

(* Ordered events (messages, channels, guilds) are handled one at a time:  *)
(* not even a handler abandoned after its grace period overlaps the next,  *)
(* and while one runs the failures of those before it are recorded, so     *)
(* that replay never meets a later event of the same message first.        *)
OneOrderedHandler ==
  \A t \in Running : \A s \in Tasks \ {t} :
    Class(s) = "ordered" /\ Class(t) = "ordered" =>
      handler[s] # "running" /\ (handler[s] \in {"error", "panic"} => recorded[s] # "no")

(* A message failure goes to the ledger only when its handler is back:     *)
(* while it may still write and resolve, the failure is forced to a file.  *)
LedgerAfterJoin == \A t \in MessageTasks : recorded[t] = "ledger" => handler[t] # "running"

Failed(t) == handler[t] \in {"running", "error", "panic"}

(* The handler returned before its deadline, and the worker took this for  *)
(* an ordinary completion: no cancellation was there to be seen yet, or it *)
(* looked only after the deadline, when a cancellation no longer counts.   *)
OrdinaryCompletion(t) ==
  doneAt[t] = "early" /\ (t \in taken \/ clock[t] # "early")

(* A message event a worker started and left is archived, recorded, or the *)
(* tail says that it could not be.  What a handler returns, or fails to    *)
(* return, after a cancellation is recorded too.  The one gap: an ordinary *)
(* completion with an error, and then, at the worker's second look, a      *)
(* cancellation.                                                           *)
FailureAccounted ==
  \A t \in MessageTasks :
    handler[t] # "none" /\ ~InHand(t) /\ Failed(t) /\ recorded[t] = "no" =>
      \/ "persist" \in fatal
      \/ handler[t] = "error" /\ OrdinaryCompletion(t) /\ cancelled

(* The same without the gap: a returned message failure is preserved       *)
(* across a cancellation.                                                  *)
ReturnedFailureKept ==
  \A t \in MessageTasks :
    handler[t] = "error" /\ ~InHand(t) /\ recorded[t] = "no" => "persist" \in fatal

(* Asked to stop, or after a fatal error, Tail returns even if a handler   *)
(* never does.                                                             *)
TailReturns == (asked \/ fatal # {}) ~> tpc = "returned"
=============================================================================

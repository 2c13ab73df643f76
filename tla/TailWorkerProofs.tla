-------------------------- MODULE TailWorkerProofs --------------------------
(***************************************************************************)
(* Proofs about TailWorker, for any events, workers and limits.            *)
(***************************************************************************)
EXTENDS TailWorker, TLAPS

(* The stages of a worker that has a task, that has started it, and that   *)
(* knows how it ended.                                                     *)
Judging == {"judge", "record", "report"}
Engaged == {"waiting", "joining", "grace"} \cup Judging
Busy == {"dequeued"} \cup Engaged
Holds(w, t) == wpc[w] \in Busy /\ wtask[w] = t

(* A task is in the hand of one worker, of its class.  Its handler starts  *)
(* there, once.                                                            *)
HandInv ==
  /\ \A w \in Workers : wpc[w] \in Busy =>
       /\ wtask[w] \in arrived /\ Class(wtask[w]) = QueueOf(w)
       /\ wpc[w] = "dequeued" <=> handler[wtask[w]] = "none"
       /\ \A v \in Workers \ {w} : ~Holds(v, wtask[w])
  /\ \A t \in Tasks : handler[t] # "none" => t \in arrived

(* A queued event is there once, in nobody's hand, and not started.        *)
QueueInv ==
  \A c \in Classes : \A i \in 1 .. Len(queue[c]) :
    LET t == queue[c][i] IN
    /\ t \in arrived /\ Class(t) = c /\ handler[t] = "none"
    /\ \A w \in Workers : ~Holds(w, t)
    /\ \A j \in 1 .. Len(queue[c]) : queue[c][j] = t => j = i

(* What an execution says about the handler: only one that is reported as  *)
(* not joined, or as detached, may still run, and an error comes from an   *)
(* ordinary completion or says that a cancellation was seen first.         *)
ExecInv ==
  \A w \in Workers : wpc[w] \in Judging =>
    LET e == exec[w]
        r == handler[wtask[w]]
    IN /\ e.err \in {"nil", "cancelled"} => r = "nil"
       /\ e.err = "join" => e.forceFallback /\ e.parentCancellation
       /\ e.err = "error" => /\ r = "error"
                             /\ \/ OrdinaryCompletion(wtask[w])
                                \/ e.parentCancellation /\ e.handlerReturnedErr
       /\ r = "running" => e.forceFallback /\ e.err \in {"join", "detached"}
       /\ wpc[w] = "report" => recorded[wtask[w]] # "no"

(* A worker grants the grace period only after the deadline.               *)
GraceInv == \A w \in Workers : wpc[w] = "grace" => clock[wtask[w]] # "early"

(* The ordered worker comes to its next task only when the last one is     *)
(* back and its failure recorded; otherwise it has stopped.                *)
Pending(t) ==
  /\ Class(t) = "ordered"
  /\ handler[t] = "running" \/ (handler[t] \in {"error", "panic"} /\ recorded[t] = "no")
PendingInv ==
  /\ \A t \in Tasks : Pending(t) =>
       wpc["ordered"] = "done" \/ (wpc["ordered"] \in Engaged /\ wtask["ordered"] = t)
  /\ \A s, t \in Tasks : Pending(s) /\ Pending(t) => s = t

(* FailureAccounted, with the hand that counts.                            *)
Accounted ==
  \A t \in MessageTasks :
    Failed(t) /\ recorded[t] = "no" =>
      \/ \E w \in Workers : Holds(w, t)
      \/ "persist" \in fatal
      \/ handler[t] = "error" /\ OrdinaryCompletion(t) /\ cancelled

(* A closed circuit is below its limit.                                    *)
CircuitInv == \A c \in Classes : ~opened[c] => consecutive[c] < FailureLimit

(* Only a task that was started is recorded.                               *)
RecordInv == \A t \in Tasks : handler[t] = "none" => recorded[t] = "no"

(* The inductive invariant.                                                *)
IInv ==
  /\ TypeOK /\ CircuitInv /\ RecordInv /\ HandInv /\ QueueInv /\ ExecInv /\ GraceInv
  /\ PendingInv /\ Accounted /\ LedgerAfterJoin

USE TaskAssumption, WorkerAssumption, LimitsAssumption

(* The stages in which a worker waits for its handler.                     *)
Waiting == {"waiting", "joining", "grace"}
(* What the end of a wait leaves alone; it may note an error as taken.     *)
Quiet ==
  /\ taken' \in SUBSET Tasks /\ taken \subseteq taken'
  /\ UNCHANGED <<tailVars, cancelled, fatal, queueVars, wtask, handler, clock, doneAt,
                 recorded, circuitVars, faults>>

(* The end of a wait: the worker knows how its task ended, nothing else    *)
(* changes.                                                                *)
LEMMA EndsAs ==
  ASSUME TypeOK, HandInv, NEW w \in Workers,
         ResultArrives(w) \/ Joined(w) \/ JoinTimesOut(w) \/ GraceResult(w) \/ GraceExpires(w)
  PROVE  /\ wpc[w] \in Waiting /\ wpc' = [wpc EXCEPT ![w] = "judge"] /\ Quiet
         /\ \E e \in Execution : exec' = [exec EXCEPT ![w] = e]
<1>0. ASSUME wpc[w] \in Waiting PROVE taken \cup {wtask[w]} \in SUBSET Tasks /\ taken \in SUBSET Tasks
  BY <1>0 DEF TypeOK, HandInv, Waiting, Busy, Engaged
<1>1. CASE wpc[w] \in Waiting /\ Returned(w) /\ ParentCancelled(w)
  <2> DEFINE r == handler[wtask[w]]
             e == [err |-> IF r = "nil" THEN "cancelled" ELSE r, forceFallback |-> FALSE,
                   parentCancellation |-> TRUE, handlerReturnedErr |-> r # "nil"]
  <2>1. e \in Execution
    BY <1>1 DEF Returned, Execution
  <2>2. exec' = [exec EXCEPT ![w] = e] /\ wpc' = [wpc EXCEPT ![w] = "judge"] /\ Quiet
    BY <1>0, <1>1 DEF ParentCancelled, Ended, Goto, Quiet
  <2> HIDE DEF e
  <2> QED BY <1>1, <2>1, <2>2
<1>2. CASE wpc[w] \in Waiting /\ Returned(w) /\ Classify(w)
  <2> DEFINE r == handler[wtask[w]]
             e1 == [err |-> r, forceFallback |-> FALSE, parentCancellation |-> FALSE,
                    handlerReturnedErr |-> r # "nil"]
             e2 == [err |-> "deadline", forceFallback |-> FALSE, parentCancellation |-> FALSE,
                    handlerReturnedErr |-> FALSE]
             e3 == [err |-> "detached", forceFallback |-> FALSE, parentCancellation |-> FALSE,
                    handlerReturnedErr |-> FALSE]
  <2>1. e1 \in Execution /\ e2 \in Execution /\ e3 \in Execution
    BY <1>2 DEF Returned, Execution
  <2>2. /\ wpc' = [wpc EXCEPT ![w] = "judge"] /\ Quiet
        /\ \/ exec' = [exec EXCEPT ![w] = e1] \/ exec' = [exec EXCEPT ![w] = e2]
           \/ exec' = [exec EXCEPT ![w] = e3]
    BY <1>0, <1>2 DEF Classify, Ended, Goto, Quiet
  <2> HIDE DEF e1, e2, e3
  <2> QED BY <1>2, <2>1, <2>2
<1>3. CASE JoinTimesOut(w) \/ GraceExpires(w)
  BY <1>0, <1>3 DEF JoinTimesOut, GraceExpires, Waiting, Ended, Goto, Quiet, Execution
<1>4. CASE ResultArrives(w) \/ Joined(w) \/ GraceResult(w)
  BY <1>1, <1>2, <1>4 DEF ResultArrives, Joined, GraceResult, Waiting
<1> QED BY <1>3, <1>4

(* The end of a report: the worker stops if the handler may still run, and *)
(* otherwise goes on or stops with its circuit.                            *)
LEMMA ReportEnds ==
  ASSUME TypeOK, NEW w \in Workers, Report(w)
  PROVE  /\ wpc[w] = "report" /\ wtask' = [wtask EXCEPT ![w] = None] /\ exec' = [exec EXCEPT ![w] = NoExecution]
         /\ \/ wpc' = [wpc EXCEPT ![w] = "done"]
            \/ wpc' = [wpc EXCEPT ![w] = "idle"] /\ ~ParentJoinTimedOut(w) /\ ~Detached(w)
         /\ UNCHANGED <<tailVars, queueVars, handlerVars, recorded, faults>>
         /\ \E S \in SUBSET Reasons : fatal' = fatal \cup S
         /\ cancelled => cancelled'
         /\ cancelled' \in BOOLEAN
<1>1. cancelled' \in BOOLEAN /\ (cancelled => cancelled')
  BY DEF Report, Fatal, TypeOK
<1>2. fatal' = fatal \/ \E reason \in {"join", "detached", "circuit"} : fatal' = fatal \cup {reason}
  BY DEF Report, Fatal
<1>3. \E S \in SUBSET Reasons : fatal' = fatal \cup S
  <2>1. {} \in SUBSET Reasons /\ \A reason \in {"join", "detached", "circuit"} : {reason} \in SUBSET Reasons
    BY DEF Reasons
  <2>2. fatal = fatal \cup {}
    OBVIOUS
  <2> QED BY <1>2, <2>1, <2>2
<1>4. /\ wpc[w] = "report" /\ wtask' = [wtask EXCEPT ![w] = None] /\ exec' = [exec EXCEPT ![w] = NoExecution]
      /\ UNCHANGED <<tailVars, queueVars, handlerVars, recorded, faults>>
  BY DEF Report, Fatal, Loop, Stop, LetGo
<1>5. \/ wpc' = [wpc EXCEPT ![w] = "done"]
      \/ wpc' = [wpc EXCEPT ![w] = "idle"] /\ ~ParentJoinTimedOut(w) /\ ~Detached(w)
  BY DEF Report, Fatal, Loop, Stop, Goto
<1> QED BY <1>1, <1>3, <1>4, <1>5

(* What a report leaves: the worker's hand is empty, nothing else that the *)
(* invariants read goes back.                                              *)
LEMMA ReportLeaves ==
  ASSUME TypeOK, NEW w \in Workers, Report(w)
  PROVE  /\ wpc[w] = "report" /\ wpc'[w] \notin Busy
         /\ \A v \in Workers \ {w} : wpc'[v] = wpc[v] /\ wtask'[v] = wtask[v]
         /\ UNCHANGED <<handler, clock, doneAt, taken, recorded, arrived, queue>>
         /\ fatal \subseteq fatal' /\ (cancelled => cancelled')
<1>1. /\ wpc[w] = "report" /\ wtask' = [wtask EXCEPT ![w] = None]
      /\ \E stage \in {"idle", "done"} : wpc' = [wpc EXCEPT ![w] = stage]
      /\ UNCHANGED <<queueVars, handlerVars, recorded>>
      /\ fatal \subseteq fatal' /\ (cancelled => cancelled')
  BY ReportEnds
<1>2. wpc'[w] \notin Busy /\ \A v \in Workers \ {w} : wpc'[v] = wpc[v] /\ wtask'[v] = wtask[v]
  BY <1>1 DEF TypeOK, Busy, Engaged, Judging
<1> QED BY <1>1, <1>2 DEF queueVars, handlerVars

(* Every step keeps the types.                                             *)
LEMMA TypeOKKept ==
  ASSUME IInv, Next PROVE TypeOK'
<1>1. CASE Open
  BY <1>1 DEF IInv, TypeOK, CircuitInv, Stages, Reasons, Phases, Results, Execution,
      NoExecution, Open, Fail,
    tailVars, queueVars, workerVars, handlerVars, circuitVars
<1>2. CASE Ready
  BY <1>2 DEF IInv, TypeOK, CircuitInv, Stages, Reasons, Phases, Results, Execution,
      NoExecution, Ready, Fail,
    tailVars, queueVars, workerVars, handlerVars, circuitVars
<1>3. CASE Ask
  BY <1>3 DEF IInv, TypeOK, CircuitInv, Stages, Reasons, Phases, Results, Execution,
      NoExecution, Ask,
    tailVars, queueVars, workerVars, handlerVars, circuitVars
<1>4. CASE Cleanup
  BY <1>4 DEF IInv, TypeOK, CircuitInv, Stages, Reasons, Phases, Results, Execution,
      NoExecution, Cleanup,
    tailVars, queueVars, workerVars, handlerVars, circuitVars
<1>5. CASE Return
  BY <1>5 DEF IInv, TypeOK, CircuitInv, Stages, Reasons, Phases, Results, Execution,
      NoExecution, Return,
    tailVars, queueVars, workerVars, handlerVars, circuitVars
<1>6. ASSUME NEW t \in Tasks, Receive(t) PROVE TypeOK'
  <2>1. queue' \in [Classes -> Seq(Tasks)]
    <3>1. Class(t) \in Classes /\ queue[Class(t)] \in Seq(Tasks)
      BY DEF IInv, TypeOK, Class, Classes
    <3>2. Append(queue[Class(t)], t) \in Seq(Tasks)
      BY <3>1
    <3> QED BY <1>6, <3>2 DEF IInv, TypeOK, Receive
  <2>2. fatal' \subseteq Reasons /\ arrived' \subseteq Tasks
    BY <1>6 DEF IInv, TypeOK, Receive, Reasons
  <2> QED BY <1>6, <2>1, <2>2 DEF IInv, TypeOK, Receive, tailVars, workerVars, handlerVars,
      circuitVars
<1>7. ASSUME NEW t \in Tasks, HandlerReturns(t) PROVE TypeOK'
  BY <1>7 DEF IInv, TypeOK, CircuitInv, Stages, Reasons, Phases, Results, Execution,
      NoExecution, HandlerReturns,
    tailVars, queueVars, workerVars, handlerVars, circuitVars
<1>8. ASSUME NEW w \in Workers, Tick(w) PROVE TypeOK'
  BY <1>8 DEF IInv, TypeOK, CircuitInv, Stages, Reasons, Phases, Results, Execution,
      NoExecution, Tick,
    tailVars, queueVars, workerVars, handlerVars, circuitVars
<1>9. ASSUME NEW w \in Workers, StopIdle(w) PROVE TypeOK'
  BY <1>9 DEF IInv, TypeOK, CircuitInv, Stages, Reasons, Phases, Results, Execution,
      NoExecution, StopIdle, Stop, LetGo, Goto,
    tailVars, queueVars, workerVars, handlerVars, circuitVars
<1>10. ASSUME NEW w \in Workers, Dequeue(w) PROVE TypeOK'
  <2>1. QueueOf(w) \in Classes /\ queue[QueueOf(w)] \in Seq(Tasks) /\ queue[QueueOf(w)] # <<>>
    BY <1>10 DEF IInv, TypeOK, QueueOf, Classes, Dequeue
  <2>2. Head(queue[QueueOf(w)]) \in Tasks /\ Tail(queue[QueueOf(w)]) \in Seq(Tasks)
    BY <2>1
  <2>3. queue' \in [Classes -> Seq(Tasks)] /\ wtask' \in [Workers -> Tasks \cup {None}]
    BY <1>10, <2>1, <2>2 DEF IInv, TypeOK, Dequeue
  <2> QED BY <1>10, <2>3 DEF IInv, TypeOK, Stages, Dequeue, Goto, tailVars, handlerVars,
      circuitVars
<1>11. ASSUME NEW w \in Workers, Start(w) PROVE TypeOK'
  <2>1. NoExecution \in Execution
    BY DEF NoExecution, Execution, Results
  <2>2. CASE cancelled
    BY <1>11, <2>1, <2>2, ZenonT(60) DEF IInv, TypeOK, Stages, Start, Stop, LetGo, Goto,
        tailVars,
        queueVars, circuitVars
  <2>3. CASE ~cancelled
    BY <1>11, <2>3 DEF IInv, TypeOK, Stages, Start, Goto, tailVars, queueVars, circuitVars
  <2> QED BY <2>2, <2>3
<1>12. ASSUME NEW w \in Workers, ResultArrives(w) PROVE TypeOK'
  BY <1>12, EndsAs, ZenonT(60) DEF IInv, TypeOK, Stages, Quiet, tailVars, queueVars,
      handlerVars,
      circuitVars
<1>13. ASSUME NEW w \in Workers, ContextDone(w) PROVE TypeOK'
  BY <1>13 DEF IInv, TypeOK, CircuitInv, Stages, Reasons, Phases, Results, Execution,
      NoExecution, ContextDone, Goto, ParentFirst,
    tailVars, queueVars, workerVars, handlerVars, circuitVars
<1>14. ASSUME NEW w \in Workers, Joined(w) PROVE TypeOK'
  BY <1>14, EndsAs, ZenonT(60) DEF IInv, TypeOK, Stages, Quiet, tailVars, queueVars,
      circuitVars
<1>15. ASSUME NEW w \in Workers, JoinTimesOut(w) PROVE TypeOK'
  BY <1>15 DEF IInv, TypeOK, CircuitInv, Stages, Reasons, Phases, Results, Execution,
      NoExecution, JoinTimesOut, Ended, Goto,
    tailVars, queueVars, workerVars, handlerVars, circuitVars
<1>16. ASSUME NEW w \in Workers, GraceResult(w) PROVE TypeOK'
  BY <1>16, EndsAs, ZenonT(60) DEF IInv, TypeOK, Stages, Quiet, tailVars, queueVars,
      handlerVars,
      circuitVars
<1>17. ASSUME NEW w \in Workers, GraceExpires(w) PROVE TypeOK'
  BY <1>17 DEF IInv, TypeOK, CircuitInv, Stages, Reasons, Phases, Results, Execution,
      NoExecution, GraceExpires, Returned, Ended, Goto,
    tailVars, queueVars, workerVars, handlerVars, circuitVars
<1>18. ASSUME NEW w \in Workers, Success(w) PROVE TypeOK'
  <2>1. NoExecution \in Execution
    BY DEF NoExecution, Execution, Results
  <2>2. consecutive' \in [Classes -> 0 .. FailureLimit]
    <3>1. Class(wtask[w]) \in Classes
      BY DEF Class, Classes
    <3>2. [consecutive EXCEPT ![Class(wtask[w])] = 0] \in [Classes -> 0 .. FailureLimit]
      BY <3>1 DEF IInv, TypeOK
    <3> QED BY <1>18, <3>2 DEF IInv, TypeOK, Success
  <2> QED BY <1>18, <2>1, <2>2 DEF IInv, TypeOK, Stages, Success, Loop, LetGo, Goto,
      tailVars, queueVars, handlerVars
<1>19. ASSUME NEW w \in Workers, GiveUp(w) PROVE TypeOK'
  BY <1>19 DEF IInv, TypeOK, CircuitInv, Stages, Reasons, Phases, Results, Execution,
      NoExecution, GiveUp, StillCounts, Stop, LetGo, Goto,
    tailVars, queueVars, workerVars, handlerVars, circuitVars
<1>20. ASSUME NEW w \in Workers, Failure(w) PROVE TypeOK'
  BY <1>20 DEF IInv, TypeOK, CircuitInv, Stages, Reasons, Phases, Results, Execution,
      NoExecution, Failure, StillCounts, Goto,
    tailVars, queueVars, workerVars, handlerVars, circuitVars
<1>21. ASSUME NEW w \in Workers, Record(w) PROVE TypeOK'
  BY <1>21 DEF IInv, TypeOK, CircuitInv, Stages, Reasons, Phases, Results, Execution,
      NoExecution, Record, Goto,
    tailVars, queueVars, workerVars, handlerVars, circuitVars
<1>22. ASSUME NEW w \in Workers, RecordFails(w) PROVE TypeOK'
  BY <1>22 DEF IInv, TypeOK, CircuitInv, Stages, Reasons, Phases, Results, Execution,
      NoExecution, RecordFails, Stop, LetGo, Goto,
    tailVars, queueVars, workerVars, handlerVars, circuitVars
<1>23. ASSUME NEW w \in Workers, Report(w) PROVE TypeOK'
  <2>1. NoExecution \in Execution
    BY DEF NoExecution, Execution, Results
  <2>2. consecutive' \in [Classes -> 0 .. FailureLimit] /\ opened' \in [Classes -> BOOLEAN]
    <3>1. Class(wtask[w]) \in Classes
      BY DEF Class, Classes
    <3>2. CASE UNCHANGED circuitVars
      BY <3>2 DEF IInv, TypeOK, circuitVars
    <3>3. CASE /\ ~opened[Class(wtask[w])]
               /\ consecutive' = [consecutive EXCEPT ![Class(wtask[w])] = @ + 1]
               /\ opened' = [opened EXCEPT ![Class(wtask[w])] = Trips(Class(wtask[w]))]
      <4>1. consecutive[Class(wtask[w])] + 1 \in 0 .. FailureLimit
        BY <3>1, <3>3 DEF IInv, TypeOK, CircuitInv
      <4>2. Trips(Class(wtask[w])) \in BOOLEAN
        BY DEF Trips
      <4> QED BY <3>3, <4>1, <4>2 DEF IInv, TypeOK
    <3> QED BY <1>23, <3>2, <3>3 DEF Report
  <2>3. TypeOK
    BY DEF IInv
  <2>4. /\ wtask' = [wtask EXCEPT ![w] = None] /\ exec' = [exec EXCEPT ![w] = NoExecution]
        /\ \E st \in {"done", "idle"} : wpc' = [wpc EXCEPT ![w] = st]
        /\ \E S \in SUBSET Reasons : fatal' = fatal \cup S
        /\ cancelled' \in BOOLEAN
        /\ UNCHANGED <<tailVars, queueVars, handlerVars, recorded, faults>>
    BY <1>23, <2>3, ReportEnds
  <2>5. wpc' \in [Workers -> Stages]
    BY <2>3, <2>4 DEF TypeOK, Stages
  <2>6. fatal' \subseteq Reasons
    BY <2>3, <2>4 DEF TypeOK
  <2>7. wtask' \in [Workers -> Tasks \cup {None}] /\ exec' \in [Workers -> Execution]
    BY <2>1, <2>3, <2>4 DEF TypeOK
  <2> QED BY <2>2, <2>3, <2>4, <2>5, <2>6, <2>7 DEF TypeOK, tailVars, queueVars, handlerVars
<1> QED BY <1>1, <1>2, <1>3, <1>4, <1>5, <1>6, <1>7, <1>8, <1>9, <1>10, <1>11, <1>12,
           <1>13, <1>14, <1>15, <1>16, <1>17, <1>18, <1>19, <1>20, <1>21, <1>22, <1>23
        DEF Next, WorkerStep

(* A circuit that reaches its limit opens.                                 *)
LEMMA CircuitInvKept ==
  ASSUME IInv, Next PROVE CircuitInv'
<1>1. CASE Open
  BY <1>1 DEF IInv, TypeOK, CircuitInv, Trips, Open, Fail,
    tailVars, queueVars, workerVars, handlerVars, circuitVars
<1>2. CASE Ready
  BY <1>2 DEF IInv, TypeOK, CircuitInv, Trips, Ready, Fail,
    tailVars, queueVars, workerVars, handlerVars, circuitVars
<1>3. CASE Ask
  BY <1>3 DEF IInv, TypeOK, CircuitInv, Trips, Ask,
    tailVars, queueVars, workerVars, handlerVars, circuitVars
<1>4. CASE Cleanup
  BY <1>4 DEF IInv, TypeOK, CircuitInv, Trips, Cleanup,
    tailVars, queueVars, workerVars, handlerVars, circuitVars
<1>5. CASE Return
  BY <1>5 DEF IInv, TypeOK, CircuitInv, Trips, Return,
    tailVars, queueVars, workerVars, handlerVars, circuitVars
<1>6. ASSUME NEW t \in Tasks, Receive(t) PROVE CircuitInv'
  BY <1>6 DEF IInv, TypeOK, CircuitInv, Trips, Receive,
    tailVars, queueVars, workerVars, handlerVars, circuitVars
<1>7. ASSUME NEW t \in Tasks, HandlerReturns(t) PROVE CircuitInv'
  BY <1>7 DEF IInv, TypeOK, CircuitInv, Trips, HandlerReturns,
    tailVars, queueVars, workerVars, handlerVars, circuitVars
<1>8. ASSUME NEW w \in Workers, Tick(w) PROVE CircuitInv'
  BY <1>8 DEF IInv, TypeOK, CircuitInv, Trips, Tick,
    tailVars, queueVars, workerVars, handlerVars, circuitVars
<1>9. ASSUME NEW w \in Workers, StopIdle(w) PROVE CircuitInv'
  BY <1>9 DEF IInv, TypeOK, CircuitInv, Trips, StopIdle, Stop, LetGo, Goto,
    tailVars, queueVars, workerVars, handlerVars, circuitVars
<1>10. ASSUME NEW w \in Workers, Dequeue(w) PROVE CircuitInv'
  BY <1>10 DEF IInv, TypeOK, CircuitInv, Trips, Dequeue, Goto,
    tailVars, queueVars, workerVars, handlerVars, circuitVars
<1>11. ASSUME NEW w \in Workers, Start(w) PROVE CircuitInv'
  BY <1>11 DEF IInv, TypeOK, CircuitInv, Trips, Start, Stop, LetGo, Goto,
    tailVars, queueVars, workerVars, handlerVars, circuitVars
<1>12. ASSUME NEW w \in Workers, ResultArrives(w) PROVE CircuitInv'
  BY <1>12 DEF IInv, TypeOK, CircuitInv, Trips, ResultArrives, Returned, ParentFirst,
      ParentCancelled, Classify, Ended, Goto,
    tailVars, queueVars, workerVars, handlerVars, circuitVars
<1>13. ASSUME NEW w \in Workers, ContextDone(w) PROVE CircuitInv'
  BY <1>13 DEF IInv, TypeOK, CircuitInv, Trips, ContextDone, Goto, ParentFirst,
    tailVars, queueVars, workerVars, handlerVars, circuitVars
<1>14. ASSUME NEW w \in Workers, Joined(w) PROVE CircuitInv'
  BY <1>14 DEF IInv, TypeOK, CircuitInv, Trips, Joined, Returned, ParentCancelled, Ended,
      Goto,
    tailVars, queueVars, workerVars, handlerVars, circuitVars
<1>15. ASSUME NEW w \in Workers, JoinTimesOut(w) PROVE CircuitInv'
  BY <1>15 DEF IInv, TypeOK, CircuitInv, Trips, JoinTimesOut, Ended, Goto,
    tailVars, queueVars, workerVars, handlerVars, circuitVars
<1>16. ASSUME NEW w \in Workers, GraceResult(w) PROVE CircuitInv'
  BY <1>16 DEF IInv, TypeOK, CircuitInv, Trips, GraceResult, Returned, Classify, Ended,
      Goto,
    tailVars, queueVars, workerVars, handlerVars, circuitVars
<1>17. ASSUME NEW w \in Workers, GraceExpires(w) PROVE CircuitInv'
  BY <1>17 DEF IInv, TypeOK, CircuitInv, Trips, GraceExpires, Returned, Ended, Goto,
    tailVars, queueVars, workerVars, handlerVars, circuitVars
<1>18. ASSUME NEW w \in Workers, Success(w) PROVE CircuitInv'
  BY <1>18 DEF IInv, TypeOK, CircuitInv, Trips, Success, Loop, LetGo, Goto,
    tailVars, queueVars, workerVars, handlerVars, circuitVars
<1>19. ASSUME NEW w \in Workers, GiveUp(w) PROVE CircuitInv'
  BY <1>19 DEF IInv, TypeOK, CircuitInv, Trips, GiveUp, StillCounts, Stop, LetGo, Goto,
    tailVars, queueVars, workerVars, handlerVars, circuitVars
<1>20. ASSUME NEW w \in Workers, Failure(w) PROVE CircuitInv'
  BY <1>20 DEF IInv, TypeOK, CircuitInv, Trips, Failure, StillCounts, Goto,
    tailVars, queueVars, workerVars, handlerVars, circuitVars
<1>21. ASSUME NEW w \in Workers, Record(w) PROVE CircuitInv'
  BY <1>21 DEF IInv, TypeOK, CircuitInv, Trips, Record, Goto,
    tailVars, queueVars, workerVars, handlerVars, circuitVars
<1>22. ASSUME NEW w \in Workers, RecordFails(w) PROVE CircuitInv'
  BY <1>22 DEF IInv, TypeOK, CircuitInv, Trips, RecordFails, Stop, LetGo, Goto,
    tailVars, queueVars, workerVars, handlerVars, circuitVars
<1>23. ASSUME NEW w \in Workers, Report(w) PROVE CircuitInv'
  <2>1. Class(wtask[w]) \in Classes
    BY DEF Class, Classes
  <2>2. CASE UNCHANGED circuitVars
    BY <2>2 DEF IInv, CircuitInv, circuitVars
  <2>3. CASE /\ ~opened[Class(wtask[w])]
             /\ consecutive' = [consecutive EXCEPT ![Class(wtask[w])] = @ + 1]
             /\ opened' = [opened EXCEPT ![Class(wtask[w])] = Trips(Class(wtask[w]))]
    <3> DEFINE k == Class(wtask[w])
    <3>1. opened'[k] <=> consecutive[k] + 1 >= FailureLimit
      BY <2>1, <2>3 DEF IInv, TypeOK, Trips
    <3>2. consecutive'[k] = consecutive[k] + 1 /\ consecutive[k] \in Nat
      BY <2>1, <2>3 DEF IInv, TypeOK
    <3>3. \A c \in Classes \ {k} : opened'[c] = opened[c] /\ consecutive'[c] = consecutive[c]
      BY <2>1, <2>3 DEF IInv, TypeOK
    <3> QED BY <3>1, <3>2, <3>3 DEF IInv, CircuitInv
  <2> QED BY <1>23, <2>2, <2>3 DEF Report
<1> QED BY <1>1, <1>2, <1>3, <1>4, <1>5, <1>6, <1>7, <1>8, <1>9, <1>10, <1>11, <1>12,
           <1>13, <1>14, <1>15, <1>16, <1>17, <1>18, <1>19, <1>20, <1>21, <1>22, <1>23
        DEF Next, WorkerStep

(* Only started tasks are recorded.                                        *)
LEMMA RecordInvKept ==
  ASSUME IInv, Next PROVE RecordInv'
<1>1. CASE Open
  BY <1>1 DEF IInv, TypeOK, HandInv, ExecInv, RecordInv, Busy, Engaged, Judging, Results,
      Open, Fail,
    tailVars, queueVars, workerVars, handlerVars, circuitVars
<1>2. CASE Ready
  BY <1>2 DEF IInv, TypeOK, HandInv, ExecInv, RecordInv, Busy, Engaged, Judging, Results,
      Ready, Fail,
    tailVars, queueVars, workerVars, handlerVars, circuitVars
<1>3. CASE Ask
  BY <1>3 DEF IInv, TypeOK, HandInv, ExecInv, RecordInv, Busy, Engaged, Judging, Results,
      Ask,
    tailVars, queueVars, workerVars, handlerVars, circuitVars
<1>4. CASE Cleanup
  BY <1>4 DEF IInv, TypeOK, HandInv, ExecInv, RecordInv, Busy, Engaged, Judging, Results,
      Cleanup,
    tailVars, queueVars, workerVars, handlerVars, circuitVars
<1>5. CASE Return
  BY <1>5 DEF IInv, TypeOK, HandInv, ExecInv, RecordInv, Busy, Engaged, Judging, Results,
      Return,
    tailVars, queueVars, workerVars, handlerVars, circuitVars
<1>6. ASSUME NEW t \in Tasks, Receive(t) PROVE RecordInv'
  BY <1>6 DEF IInv, TypeOK, HandInv, ExecInv, RecordInv, Busy, Engaged, Judging, Results,
      Receive,
    tailVars, queueVars, workerVars, handlerVars, circuitVars
<1>7. ASSUME NEW t \in Tasks, HandlerReturns(t) PROVE RecordInv'
  BY <1>7 DEF IInv, TypeOK, HandInv, ExecInv, RecordInv, Busy, Engaged, Judging, Results,
      HandlerReturns,
    tailVars, queueVars, workerVars, handlerVars, circuitVars
<1>8. ASSUME NEW w \in Workers, Tick(w) PROVE RecordInv'
  BY <1>8 DEF IInv, TypeOK, HandInv, ExecInv, RecordInv, Busy, Engaged, Judging, Results,
      Tick,
    tailVars, queueVars, workerVars, handlerVars, circuitVars
<1>9. ASSUME NEW w \in Workers, StopIdle(w) PROVE RecordInv'
  BY <1>9 DEF IInv, TypeOK, HandInv, ExecInv, RecordInv, Busy, Engaged, Judging, Results,
      StopIdle, Stop, LetGo, Goto,
    tailVars, queueVars, workerVars, handlerVars, circuitVars
<1>10. ASSUME NEW w \in Workers, Dequeue(w) PROVE RecordInv'
  BY <1>10 DEF IInv, TypeOK, HandInv, ExecInv, RecordInv, Busy, Engaged, Judging, Results,
      Dequeue, Goto,
    tailVars, queueVars, workerVars, handlerVars, circuitVars
<1>11. ASSUME NEW w \in Workers, Start(w) PROVE RecordInv'
  BY <1>11 DEF IInv, TypeOK, HandInv, ExecInv, RecordInv, Busy, Engaged, Judging, Results,
      Start, Stop, LetGo, Goto,
    tailVars, queueVars, workerVars, handlerVars, circuitVars
<1>12. ASSUME NEW w \in Workers, ResultArrives(w) PROVE RecordInv'
  BY <1>12 DEF IInv, TypeOK, HandInv, ExecInv, RecordInv, Busy, Engaged, Judging, Results,
      ResultArrives, Returned, ParentFirst, ParentCancelled, Classify, Ended, Goto,
    tailVars, queueVars, workerVars, handlerVars, circuitVars
<1>13. ASSUME NEW w \in Workers, ContextDone(w) PROVE RecordInv'
  BY <1>13 DEF IInv, TypeOK, HandInv, ExecInv, RecordInv, Busy, Engaged, Judging, Results,
      ContextDone, Goto, ParentFirst,
    tailVars, queueVars, workerVars, handlerVars, circuitVars
<1>14. ASSUME NEW w \in Workers, Joined(w) PROVE RecordInv'
  BY <1>14 DEF IInv, TypeOK, HandInv, ExecInv, RecordInv, Busy, Engaged, Judging, Results,
      Joined, Returned, ParentCancelled, Ended, Goto,
    tailVars, queueVars, workerVars, handlerVars, circuitVars
<1>15. ASSUME NEW w \in Workers, JoinTimesOut(w) PROVE RecordInv'
  BY <1>15 DEF IInv, TypeOK, HandInv, ExecInv, RecordInv, Busy, Engaged, Judging, Results,
      JoinTimesOut, Ended, Goto,
    tailVars, queueVars, workerVars, handlerVars, circuitVars
<1>16. ASSUME NEW w \in Workers, GraceResult(w) PROVE RecordInv'
  BY <1>16 DEF IInv, TypeOK, HandInv, ExecInv, RecordInv, Busy, Engaged, Judging, Results,
      GraceResult, Returned, Classify, Ended, Goto,
    tailVars, queueVars, workerVars, handlerVars, circuitVars
<1>17. ASSUME NEW w \in Workers, GraceExpires(w) PROVE RecordInv'
  BY <1>17 DEF IInv, TypeOK, HandInv, ExecInv, RecordInv, Busy, Engaged, Judging, Results,
      GraceExpires, Returned, Ended, Goto,
    tailVars, queueVars, workerVars, handlerVars, circuitVars
<1>18. ASSUME NEW w \in Workers, Success(w) PROVE RecordInv'
  BY <1>18 DEF IInv, TypeOK, HandInv, ExecInv, RecordInv, Busy, Engaged, Judging, Results,
      Success, Loop, LetGo, Goto,
    tailVars, queueVars, workerVars, handlerVars, circuitVars
<1>19. ASSUME NEW w \in Workers, GiveUp(w) PROVE RecordInv'
  BY <1>19 DEF IInv, TypeOK, HandInv, ExecInv, RecordInv, Busy, Engaged, Judging, Results,
      GiveUp, StillCounts, Stop, LetGo, Goto,
    tailVars, queueVars, workerVars, handlerVars, circuitVars
<1>20. ASSUME NEW w \in Workers, Failure(w) PROVE RecordInv'
  BY <1>20 DEF IInv, TypeOK, HandInv, ExecInv, RecordInv, Busy, Engaged, Judging, Results,
      Failure, StillCounts, Goto,
    tailVars, queueVars, workerVars, handlerVars, circuitVars
<1>21. ASSUME NEW w \in Workers, Record(w) PROVE RecordInv'
  BY <1>21 DEF IInv, TypeOK, HandInv, ExecInv, RecordInv, Busy, Engaged, Judging, Results,
      Record, Goto,
    tailVars, queueVars, workerVars, handlerVars, circuitVars
<1>22. ASSUME NEW w \in Workers, RecordFails(w) PROVE RecordInv'
  BY <1>22 DEF IInv, TypeOK, HandInv, ExecInv, RecordInv, Busy, Engaged, Judging, Results,
      RecordFails, Stop, LetGo, Goto,
    tailVars, queueVars, workerVars, handlerVars, circuitVars
<1>23. ASSUME NEW w \in Workers, Report(w) PROVE RecordInv'
  BY <1>23 DEF IInv, TypeOK, HandInv, ExecInv, RecordInv, Busy, Engaged, Judging, Results,
      Report, ParentJoinTimedOut, Detached, Fatal, Loop, Stop, LetGo, Goto,
    tailVars, queueVars, workerVars, handlerVars, circuitVars
<1> QED BY <1>1, <1>2, <1>3, <1>4, <1>5, <1>6, <1>7, <1>8, <1>9, <1>10, <1>11, <1>12,
           <1>13, <1>14, <1>15, <1>16, <1>17, <1>18, <1>19, <1>20, <1>21, <1>22, <1>23
        DEF Next, WorkerStep

(* A worker takes a task from the head of its queue, where it was once, and*)
(* starts it once.                                                         *)
LEMMA HandInvKept ==
  ASSUME IInv, Next PROVE HandInv'
<1>1. CASE Open
  BY <1>1 DEF IInv, TypeOK, HandInv, QueueInv, Holds, Busy, Engaged, Judging, Results,
      Open, Fail,
    tailVars, queueVars, workerVars, handlerVars, circuitVars
<1>2. CASE Ready
  BY <1>2 DEF IInv, TypeOK, HandInv, QueueInv, Holds, Busy, Engaged, Judging, Results,
      Ready, Fail,
    tailVars, queueVars, workerVars, handlerVars, circuitVars
<1>3. CASE Ask
  BY <1>3 DEF IInv, TypeOK, HandInv, QueueInv, Holds, Busy, Engaged, Judging, Results, Ask,
    tailVars, queueVars, workerVars, handlerVars, circuitVars
<1>4. CASE Cleanup
  BY <1>4 DEF IInv, TypeOK, HandInv, QueueInv, Holds, Busy, Engaged, Judging, Results,
      Cleanup,
    tailVars, queueVars, workerVars, handlerVars, circuitVars
<1>5. CASE Return
  BY <1>5 DEF IInv, TypeOK, HandInv, QueueInv, Holds, Busy, Engaged, Judging, Results,
      Return,
    tailVars, queueVars, workerVars, handlerVars, circuitVars
<1>6. ASSUME NEW t \in Tasks, Receive(t) PROVE HandInv'
  BY <1>6 DEF IInv, TypeOK, HandInv, QueueInv, Holds, Busy, Engaged, Judging, Results,
      Receive,
    tailVars, queueVars, workerVars, handlerVars, circuitVars
<1>7. ASSUME NEW t \in Tasks, HandlerReturns(t) PROVE HandInv'
  BY <1>7 DEF IInv, TypeOK, HandInv, QueueInv, Holds, Busy, Engaged, Judging, Results,
      HandlerReturns,
    tailVars, queueVars, workerVars, handlerVars, circuitVars
<1>8. ASSUME NEW w \in Workers, Tick(w) PROVE HandInv'
  BY <1>8 DEF IInv, TypeOK, HandInv, QueueInv, Holds, Busy, Engaged, Judging, Results, Tick,
    tailVars, queueVars, workerVars, handlerVars, circuitVars
<1>9. ASSUME NEW w \in Workers, StopIdle(w) PROVE HandInv'
  BY <1>9 DEF IInv, TypeOK, HandInv, QueueInv, Holds, Busy, Engaged, Judging, Results,
      StopIdle, Stop, LetGo, Goto,
    tailVars, queueVars, workerVars, handlerVars, circuitVars
<1>10. ASSUME NEW w \in Workers, Dequeue(w) PROVE HandInv'
  <2> DEFINE t == Head(queue[QueueOf(w)])
  <2>1. QueueOf(w) \in Classes /\ queue[QueueOf(w)] \in Seq(Tasks) /\ queue[QueueOf(w)] # <<>>
    BY <1>10 DEF IInv, TypeOK, QueueOf, Classes, Dequeue
  <2>2. t = queue[QueueOf(w)][1] /\ 1 \in 1 .. Len(queue[QueueOf(w)])
    BY <2>1
  <2>3. t \in arrived /\ Class(t) = QueueOf(w) /\ handler[t] = "none" /\ \A v \in Workers : ~Holds(v, t)
    BY <2>1, <2>2 DEF IInv, QueueInv
  <2>4. wpc'[w] = "dequeued" /\ wtask'[w] = t /\ \A v \in Workers \ {w} : wpc'[v] = wpc[v] /\ wtask'[v] = wtask[v]
    BY <1>10 DEF IInv, TypeOK, Dequeue, Goto
  <2>5. wpc[w] \notin Busy
    BY <1>10 DEF Dequeue, Busy, Engaged, Judging
  <2>6. UNCHANGED <<handler, arrived>>
    BY <1>10 DEF Dequeue, handlerVars
  <2> HIDE DEF t
  <2> QED BY <2>3, <2>4, <2>5, <2>6 DEF IInv, HandInv, Holds
<1>11. ASSUME NEW w \in Workers, Start(w) PROVE HandInv'
  <2>1. CASE cancelled
    <3>1. wpc'[w] \notin Busy /\ \A v \in Workers \ {w} : wpc'[v] = wpc[v] /\ wtask'[v] = wtask[v]
      BY <1>11, <2>1 DEF IInv, TypeOK, Busy, Engaged, Judging, Start, Stop, LetGo, Goto
    <3> QED BY <1>11, <2>1, <3>1 DEF IInv, HandInv, Holds, Start, queueVars
  <2>2. CASE ~cancelled
    <3> DEFINE t == wtask[w]
    <3>1. t \in arrived /\ t \in Tasks /\ handler[t] = "none" /\ \A v \in Workers \ {w} : ~Holds(v, t)
      BY <1>11 DEF IInv, TypeOK, HandInv, Busy, Start
    <3>2. handler'[t] = "running" /\ \A s \in Tasks \ {t} : handler'[s] = handler[s]
      BY <1>11, <2>2, <3>1 DEF IInv, TypeOK, Start
    <3>3. wpc'[w] = "waiting" /\ \A v \in Workers \ {w} : wpc'[v] = wpc[v]
      BY <1>11, <2>2 DEF IInv, TypeOK, Start, Goto
    <3>4. UNCHANGED <<wtask, arrived>> /\ wpc[w] \in Busy
      BY <1>11, <2>2 DEF Start, queueVars, Busy
    <3>5. \A v \in Workers \ {w} : wpc[v] \in Busy => wtask[v] \in Tasks \ {t}
      BY <3>1 DEF IInv, TypeOK, HandInv, Holds
    <3>6. \A v \in Workers \ {w} : wpc'[v] \in Busy =>
            /\ wtask'[v] \in arrived' /\ Class(wtask'[v]) = QueueOf(v)
            /\ wpc'[v] = "dequeued" <=> handler'[wtask'[v]] = "none"
      BY <3>2, <3>3, <3>4, <3>5 DEF IInv, HandInv
    <3>7. Class(t) = QueueOf(w)
      BY <3>4 DEF IInv, HandInv
    <3>8. \A v, u \in Workers : u # v /\ wpc'[v] \in Busy => ~Holds(u, wtask[v])'
      BY <3>3, <3>4 DEF IInv, HandInv, Holds, Busy, Engaged
    <3>9. \A s \in Tasks : handler'[s] # "none" => s \in arrived'
      BY <3>1, <3>2, <3>4 DEF IInv, HandInv
    <3> QED BY <3>1, <3>2, <3>3, <3>4, <3>6, <3>7, <3>8, <3>9 DEF HandInv
  <2> QED BY <2>1, <2>2
<1>12. ASSUME NEW w \in Workers, ResultArrives(w) PROVE HandInv'
  BY <1>12, EndsAs DEF IInv, TypeOK, HandInv, Holds, Busy, Engaged, Judging, Waiting,
      Quiet, queueVars, handlerVars
<1>13. ASSUME NEW w \in Workers, ContextDone(w) PROVE HandInv'
  BY <1>13 DEF IInv, TypeOK, HandInv, QueueInv, Holds, Busy, Engaged, Judging, Results,
      ContextDone, Goto, ParentFirst,
    tailVars, queueVars, workerVars, handlerVars, circuitVars
<1>14. ASSUME NEW w \in Workers, Joined(w) PROVE HandInv'
  BY <1>14 DEF IInv, TypeOK, HandInv, QueueInv, Holds, Busy, Engaged, Judging, Results,
      Joined, Returned, ParentCancelled, Ended, Goto,
    tailVars, queueVars, workerVars, handlerVars, circuitVars
<1>15. ASSUME NEW w \in Workers, JoinTimesOut(w) PROVE HandInv'
  BY <1>15 DEF IInv, TypeOK, HandInv, QueueInv, Holds, Busy, Engaged, Judging, Results,
      JoinTimesOut, Ended, Goto,
    tailVars, queueVars, workerVars, handlerVars, circuitVars
<1>16. ASSUME NEW w \in Workers, GraceResult(w) PROVE HandInv'
  BY <1>16, EndsAs DEF IInv, TypeOK, HandInv, Holds, Busy, Engaged, Judging, Waiting,
      Quiet, queueVars, handlerVars
<1>17. ASSUME NEW w \in Workers, GraceExpires(w) PROVE HandInv'
  BY <1>17 DEF IInv, TypeOK, HandInv, QueueInv, Holds, Busy, Engaged, Judging, Results,
      GraceExpires, Returned, Ended, Goto,
    tailVars, queueVars, workerVars, handlerVars, circuitVars
<1>18. ASSUME NEW w \in Workers, Success(w) PROVE HandInv'
  BY <1>18 DEF IInv, TypeOK, HandInv, QueueInv, Holds, Busy, Engaged, Judging, Results,
      Success, Loop, LetGo, Goto,
    tailVars, queueVars, workerVars, handlerVars, circuitVars
<1>19. ASSUME NEW w \in Workers, GiveUp(w) PROVE HandInv'
  BY <1>19 DEF IInv, TypeOK, HandInv, QueueInv, Holds, Busy, Engaged, Judging, Results,
      GiveUp, StillCounts, Stop, LetGo, Goto,
    tailVars, queueVars, workerVars, handlerVars, circuitVars
<1>20. ASSUME NEW w \in Workers, Failure(w) PROVE HandInv'
  BY <1>20 DEF IInv, TypeOK, HandInv, QueueInv, Holds, Busy, Engaged, Judging, Results,
      Failure, StillCounts, Goto,
    tailVars, queueVars, workerVars, handlerVars, circuitVars
<1>21. ASSUME NEW w \in Workers, Record(w) PROVE HandInv'
  BY <1>21 DEF IInv, TypeOK, HandInv, QueueInv, Holds, Busy, Engaged, Judging, Results,
      Record, Goto,
    tailVars, queueVars, workerVars, handlerVars, circuitVars
<1>22. ASSUME NEW w \in Workers, RecordFails(w) PROVE HandInv'
  BY <1>22 DEF IInv, TypeOK, HandInv, QueueInv, Holds, Busy, Engaged, Judging, Results,
      RecordFails, Stop, LetGo, Goto,
    tailVars, queueVars, workerVars, handlerVars, circuitVars
<1>23. ASSUME NEW w \in Workers, Report(w) PROVE HandInv'
  <2>1. TypeOK
    BY DEF IInv
  <2> QED BY <1>23, <2>1, ReportLeaves DEF IInv, HandInv, Holds
<1> QED BY <1>1, <1>2, <1>3, <1>4, <1>5, <1>6, <1>7, <1>8, <1>9, <1>10, <1>11, <1>12,
           <1>13, <1>14, <1>15, <1>16, <1>17, <1>18, <1>19, <1>20, <1>21, <1>22, <1>23
        DEF Next, WorkerStep

(* An event comes once; what is taken from the queue is not in it any more.*)
LEMMA QueueInvKept ==
  ASSUME IInv, Next PROVE QueueInv'
<1>1. CASE Open
  BY <1>1 DEF IInv, TypeOK, HandInv, QueueInv, Holds, Busy, Engaged, Judging, Results,
      Open, Fail,
    tailVars, queueVars, workerVars, handlerVars, circuitVars
<1>2. CASE Ready
  BY <1>2 DEF IInv, TypeOK, HandInv, QueueInv, Holds, Busy, Engaged, Judging, Results,
      Ready, Fail,
    tailVars, queueVars, workerVars, handlerVars, circuitVars
<1>3. CASE Ask
  BY <1>3 DEF IInv, TypeOK, HandInv, QueueInv, Holds, Busy, Engaged, Judging, Results, Ask,
    tailVars, queueVars, workerVars, handlerVars, circuitVars
<1>4. CASE Cleanup
  BY <1>4 DEF IInv, TypeOK, HandInv, QueueInv, Holds, Busy, Engaged, Judging, Results,
      Cleanup,
    tailVars, queueVars, workerVars, handlerVars, circuitVars
<1>5. CASE Return
  BY <1>5 DEF IInv, TypeOK, HandInv, QueueInv, Holds, Busy, Engaged, Judging, Results,
      Return,
    tailVars, queueVars, workerVars, handlerVars, circuitVars
<1>6. ASSUME NEW t \in Tasks, Receive(t) PROVE QueueInv'
  <2> DEFINE k == Class(t)
  <2>1. k \in Classes /\ queue[k] \in Seq(Tasks)
    BY DEF IInv, TypeOK, Class, Classes
  <2>2. UNCHANGED <<wpc, wtask, handler>> /\ arrived' = arrived \cup {t} /\ t \notin arrived
    BY <1>6 DEF Receive, workerVars, handlerVars
  <2>3. CASE UNCHANGED queue
    BY <2>2, <2>3 DEF IInv, QueueInv, Holds
  <2>4. CASE queue' = [queue EXCEPT ![k] = Append(@, t)]
    <3>1. handler[t] = "none" /\ \A w \in Workers : ~Holds(w, t)
      BY <2>2 DEF IInv, HandInv, Holds
    <3>2. \A i \in 1 .. Len(queue[k]) : queue[k][i] # t
      BY <2>1, <2>2 DEF IInv, QueueInv
    <3>3. /\ Len(queue'[k]) = Len(queue[k]) + 1 /\ Len(queue[k]) \in Nat
          /\ \A i \in 1 .. Len(queue[k]) : queue'[k][i] = queue[k][i]
          /\ queue'[k][Len(queue[k]) + 1] = t
      BY <2>1, <2>4 DEF IInv, TypeOK
    <3>4. \A c \in Classes \ {k} : queue'[c] = queue[c]
      BY <2>4 DEF IInv, TypeOK
    <3>5. ASSUME NEW c \in Classes \ {k}, NEW i \in 1 .. Len(queue'[c])
          PROVE  /\ queue'[c][i] \in arrived' /\ Class(queue'[c][i]) = c /\ handler'[queue'[c][i]] = "none"
                 /\ \A w \in Workers : ~Holds(w, queue[c][i])'
                 /\ \A j \in 1 .. Len(queue'[c]) : queue'[c][j] = queue'[c][i] => j = i
      BY <2>2, <3>4 DEF IInv, QueueInv, Holds
    <3>6. ASSUME NEW i \in 1 .. Len(queue'[k])
          PROVE  /\ queue'[k][i] \in arrived' /\ Class(queue'[k][i]) = k /\ handler'[queue'[k][i]] = "none"
                 /\ \A w \in Workers : ~(Holds(w, queue[k][i])')
                 /\ \A j \in 1 .. Len(queue'[k]) : queue'[k][j] = queue'[k][i] => j = i
      <4>1. CASE i \in 1 .. Len(queue[k])
        <5>1. queue'[k][i] = queue[k][i] /\ queue'[k][i] # t
          BY <3>2, <3>3, <4>1
        <5>2. /\ queue[k][i] \in arrived /\ Class(queue[k][i]) = k /\ handler[queue[k][i]] = "none"
              /\ \A w \in Workers : ~Holds(w, queue[k][i])
              /\ \A j \in 1 .. Len(queue[k]) : queue[k][j] = queue[k][i] => j = i
          BY <2>1, <4>1 DEF IInv, QueueInv
        <5> QED BY <2>2, <3>3, <5>1, <5>2 DEF Holds
      <4>2. CASE i = Len(queue[k]) + 1
        BY <2>2, <3>1, <3>2, <3>3, <4>2 DEF Holds
      <4> QED BY <3>3, <3>6, <4>1, <4>2
    <3> QED BY <3>5, <3>6 DEF QueueInv
  <2> QED BY <1>6, <2>3, <2>4 DEF Receive
<1>7. ASSUME NEW t \in Tasks, HandlerReturns(t) PROVE QueueInv'
  BY <1>7 DEF IInv, TypeOK, HandInv, QueueInv, Holds, Busy, Engaged, Judging, Results,
      HandlerReturns,
    tailVars, queueVars, workerVars, handlerVars, circuitVars
<1>8. ASSUME NEW w \in Workers, Tick(w) PROVE QueueInv'
  BY <1>8 DEF IInv, TypeOK, HandInv, QueueInv, Holds, Busy, Engaged, Judging, Results, Tick,
    tailVars, queueVars, workerVars, handlerVars, circuitVars
<1>9. ASSUME NEW w \in Workers, StopIdle(w) PROVE QueueInv'
  BY <1>9 DEF IInv, TypeOK, HandInv, QueueInv, Holds, Busy, Engaged, Judging, Results,
      StopIdle, Stop, LetGo, Goto,
    tailVars, queueVars, workerVars, handlerVars, circuitVars
<1>10. ASSUME NEW w \in Workers, Dequeue(w) PROVE QueueInv'
  <2> DEFINE k == QueueOf(w)
  <2>1. k \in Classes /\ queue[k] \in Seq(Tasks) /\ queue[k] # <<>>
    BY <1>10 DEF IInv, TypeOK, QueueOf, Classes, Dequeue
  <2>2. UNCHANGED <<handler, arrived>> /\ wpc[w] \notin Busy
    BY <1>10 DEF Dequeue, handlerVars, Busy, Engaged, Judging
  <2>3. wtask'[w] = queue[k][1] /\ \A v \in Workers \ {w} : wpc'[v] = wpc[v] /\ wtask'[v] = wtask[v]
    BY <1>10, <2>1 DEF IInv, TypeOK, Dequeue, Goto
  <2>4. /\ Len(queue[k]) \in Nat \ {0} /\ Len(queue'[k]) = Len(queue[k]) - 1
        /\ \A i \in 1 .. Len(queue'[k]) : queue'[k][i] = queue[k][i + 1] /\ i + 1 \in 1 .. Len(queue[k])
    BY <1>10, <2>1 DEF IInv, TypeOK, Dequeue
  <2>5. \A c \in Classes \ {k} : queue'[c] = queue[c]
    BY <1>10 DEF IInv, TypeOK, Dequeue
  <2>6. ASSUME NEW c \in Classes, NEW i \in 1 .. Len(queue[c]), c # k \/ i # 1
        PROVE  /\ queue[c][i] \in arrived' /\ Class(queue[c][i]) = c /\ handler'[queue[c][i]] = "none"
               /\ \A v \in Workers : ~(wpc'[v] \in Busy /\ wtask'[v] = queue[c][i])
               /\ \A j \in 1 .. Len(queue[c]) : queue[c][j] = queue[c][i] => j = i
    <3>1. 1 \in 1 .. Len(queue[k]) /\ Class(queue[k][1]) = k
      BY <2>1, <2>4 DEF IInv, QueueInv
    <3>2. queue[c][i] # queue[k][1]
      BY <2>1, <2>6, <3>1 DEF IInv, QueueInv
    <3> QED BY <2>2, <2>3, <3>2 DEF IInv, QueueInv, Holds
  <2>7. ASSUME NEW i \in 1 .. Len(queue'[k])
        PROVE  /\ queue'[k][i] \in arrived' /\ Class(queue'[k][i]) = k /\ handler'[queue'[k][i]] = "none"
               /\ \A v \in Workers : ~(wpc'[v] \in Busy /\ wtask'[v] = queue'[k][i])
               /\ \A j \in 1 .. Len(queue'[k]) : queue'[k][j] = queue'[k][i] => j = i
    BY <2>1, <2>4, <2>6
  <2>8. ASSUME NEW c \in Classes, c # k, NEW i \in 1 .. Len(queue'[c])
        PROVE  /\ queue'[c][i] \in arrived' /\ Class(queue'[c][i]) = c /\ handler'[queue'[c][i]] = "none"
               /\ \A v \in Workers : ~(wpc'[v] \in Busy /\ wtask'[v] = queue'[c][i])
               /\ \A j \in 1 .. Len(queue'[c]) : queue'[c][j] = queue'[c][i] => j = i
    BY <2>5, <2>6, <2>8
  <2> QED BY <2>7, <2>8 DEF QueueInv, Holds
<1>11. ASSUME NEW w \in Workers, Start(w) PROVE QueueInv'
  <2>1. /\ UNCHANGED <<arrived, queue>> /\ wpc[w] = "dequeued"
        /\ \A v \in Workers \ {w} : wpc'[v] = wpc[v] /\ wtask'[v] = wtask[v]
    BY <1>11 DEF IInv, TypeOK, Start, Stop, LetGo, Goto, queueVars
  <2>2. CASE cancelled
    <3>1. handler' = handler /\ wpc'[w] = "done"
      BY <1>11, <2>2 DEF IInv, TypeOK, Start, Stop, Goto
    <3> QED BY <2>1, <3>1 DEF IInv, QueueInv, Holds, Busy, Engaged, Judging
  <2>3. CASE ~cancelled
    <3>1. /\ \A t \in Tasks \ {wtask[w]} : handler'[t] = handler[t]
          /\ wtask' = wtask
      BY <1>11, <2>3 DEF IInv, TypeOK, Start
    <3>2. \A c \in Classes : \A i \in 1 .. Len(queue[c]) :
            queue[c][i] \in Tasks /\ queue[c][i] # wtask[w]
      BY <2>1 DEF IInv, TypeOK, QueueInv, Holds, Busy
    <3> QED BY <2>1, <3>1, <3>2 DEF IInv, QueueInv, Holds
  <2> QED BY <2>2, <2>3
<1>12. ASSUME NEW w \in Workers, ResultArrives(w) PROVE QueueInv'
  <2>1. /\ wpc[w] \in Waiting /\ wpc' = [wpc EXCEPT ![w] = "judge"]
        /\ UNCHANGED <<wtask, handler, arrived, queue>>
    BY <1>12, EndsAs DEF IInv, Quiet, queueVars
  <2> QED BY <2>1 DEF IInv, TypeOK, QueueInv, Holds, Busy, Engaged, Waiting
<1>13. ASSUME NEW w \in Workers, ContextDone(w) PROVE QueueInv'
  BY <1>13 DEF IInv, TypeOK, HandInv, QueueInv, Holds, Busy, Engaged, Judging, Results,
      ContextDone, Goto, ParentFirst,
    tailVars, queueVars, workerVars, handlerVars, circuitVars
<1>14. ASSUME NEW w \in Workers, Joined(w) PROVE QueueInv'
  BY <1>14 DEF IInv, TypeOK, HandInv, QueueInv, Holds, Busy, Engaged, Judging, Results,
      Joined, Returned, ParentCancelled, Ended, Goto,
    tailVars, queueVars, workerVars, handlerVars, circuitVars
<1>15. ASSUME NEW w \in Workers, JoinTimesOut(w) PROVE QueueInv'
  BY <1>15 DEF IInv, TypeOK, HandInv, QueueInv, Holds, Busy, Engaged, Judging, Results,
      JoinTimesOut, Ended, Goto,
    tailVars, queueVars, workerVars, handlerVars, circuitVars
<1>16. ASSUME NEW w \in Workers, GraceResult(w) PROVE QueueInv'
  BY <1>16 DEF IInv, TypeOK, HandInv, QueueInv, Holds, Busy, Engaged, Judging, Results,
      GraceResult, Returned, Classify, Ended, Goto,
    tailVars, queueVars, workerVars, handlerVars, circuitVars
<1>17. ASSUME NEW w \in Workers, GraceExpires(w) PROVE QueueInv'
  BY <1>17 DEF IInv, TypeOK, HandInv, QueueInv, Holds, Busy, Engaged, Judging, Results,
      GraceExpires, Returned, Ended, Goto,
    tailVars, queueVars, workerVars, handlerVars, circuitVars
<1>18. ASSUME NEW w \in Workers, Success(w) PROVE QueueInv'
  BY <1>18 DEF IInv, TypeOK, HandInv, QueueInv, Holds, Busy, Engaged, Judging, Results,
      Success, Loop, LetGo, Goto,
    tailVars, queueVars, workerVars, handlerVars, circuitVars
<1>19. ASSUME NEW w \in Workers, GiveUp(w) PROVE QueueInv'
  BY <1>19 DEF IInv, TypeOK, HandInv, QueueInv, Holds, Busy, Engaged, Judging, Results,
      GiveUp, StillCounts, Stop, LetGo, Goto,
    tailVars, queueVars, workerVars, handlerVars, circuitVars
<1>20. ASSUME NEW w \in Workers, Failure(w) PROVE QueueInv'
  BY <1>20 DEF IInv, TypeOK, HandInv, QueueInv, Holds, Busy, Engaged, Judging, Results,
      Failure, StillCounts, Goto,
    tailVars, queueVars, workerVars, handlerVars, circuitVars
<1>21. ASSUME NEW w \in Workers, Record(w) PROVE QueueInv'
  BY <1>21 DEF IInv, TypeOK, HandInv, QueueInv, Holds, Busy, Engaged, Judging, Results,
      Record, Goto,
    tailVars, queueVars, workerVars, handlerVars, circuitVars
<1>22. ASSUME NEW w \in Workers, RecordFails(w) PROVE QueueInv'
  BY <1>22 DEF IInv, TypeOK, HandInv, QueueInv, Holds, Busy, Engaged, Judging, Results,
      RecordFails, Stop, LetGo, Goto,
    tailVars, queueVars, workerVars, handlerVars, circuitVars
<1>23. ASSUME NEW w \in Workers, Report(w) PROVE QueueInv'
  <2>1. TypeOK
    BY DEF IInv
  <2> QED BY <1>23, <2>1, ReportLeaves DEF IInv, QueueInv, Holds
<1> QED BY <1>1, <1>2, <1>3, <1>4, <1>5, <1>6, <1>7, <1>8, <1>9, <1>10, <1>11, <1>12,
           <1>13, <1>14, <1>15, <1>16, <1>17, <1>18, <1>19, <1>20, <1>21, <1>22, <1>23
        DEF Next, WorkerStep

(* A worker that saw a cancellation before the deadline passes on what the *)
(* handler returned.                                                       *)
LEMMA CancelledExec ==
  ASSUME IInv, NEW w \in Workers, ResultArrives(w) \/ Joined(w), ParentCancelled(w)
  PROVE  ExecInv'
<1>1. handler[wtask[w]] \in Results
  BY DEF ResultArrives, Joined, Returned
<1>2. /\ exec'[w].err = IF handler[wtask[w]] = "nil" THEN "cancelled" ELSE handler[wtask[w]]
      /\ exec'[w].parentCancellation /\ (handler[wtask[w]] # "nil" => exec'[w].handlerReturnedErr)
  BY DEF IInv, TypeOK, ParentCancelled, Ended
<1>3. /\ wpc'[w] = "judge" /\ \A v \in Workers \ {w} : wpc'[v] = wpc[v] /\ exec'[v] = exec[v]
      /\ UNCHANGED <<wtask, handler, clock, doneAt, recorded>> /\ taken \subseteq taken'
  BY EndsAs DEF IInv, TypeOK, Quiet
<1> QED BY <1>1, <1>2, <1>3 DEF IInv, ExecInv, OrdinaryCompletion, Results

(* Any other worker goes by the time of the return: an error in time is an *)
(* ordinary completion.                                                    *)
LEMMA ClassifiedExec ==
  ASSUME IInv, NEW w \in Workers, ResultArrives(w) \/ GraceResult(w), Classify(w), ~ParentFirst(w)
  PROVE  ExecInv'
<1>1. handler[wtask[w]] \in Results
  BY DEF ResultArrives, GraceResult, Returned
<1>2. \/ /\ exec'[w].err = handler[wtask[w]] /\ doneAt[wtask[w]] = "early"
         /\ handler[wtask[w]] # "nil" /\ ~cancelled => wtask[w] \in taken'
      \/ exec'[w].err = "deadline" \/ exec'[w].err = "detached"
  BY DEF IInv, TypeOK, Classify, Ended
<1>3. /\ wpc'[w] = "judge" /\ \A v \in Workers \ {w} : wpc'[v] = wpc[v] /\ exec'[v] = exec[v]
      /\ UNCHANGED <<wtask, handler, clock, doneAt, recorded>> /\ taken \subseteq taken'
  BY EndsAs DEF IInv, TypeOK, Quiet
<1>4. exec'[w].err = "error" => OrdinaryCompletion(wtask[w])'
  BY <1>2, <1>3 DEF OrdinaryCompletion, ParentFirst
<1> QED BY <1>1, <1>2, <1>3, <1>4 DEF IInv, ExecInv, OrdinaryCompletion, Results

(* How an execution ended is decided by when its handler returned, and a   *)
(* handler that has not returned may do so later.                          *)
LEMMA ExecInvKept ==
  ASSUME IInv, Next PROVE ExecInv'
<1>1. CASE Open
  BY <1>1 DEF IInv, TypeOK, HandInv, ExecInv, OrdinaryCompletion, Holds, Busy, Engaged,
      Judging, Results, Open,
      Fail,
    tailVars, queueVars, workerVars, handlerVars, circuitVars
<1>2. CASE Ready
  BY <1>2 DEF IInv, TypeOK, HandInv, ExecInv, OrdinaryCompletion, Holds, Busy, Engaged,
      Judging, Results,
      Ready, Fail,
    tailVars, queueVars, workerVars, handlerVars, circuitVars
<1>3. CASE Ask
  BY <1>3 DEF IInv, TypeOK, HandInv, ExecInv, OrdinaryCompletion, Holds, Busy, Engaged,
      Judging, Results, Ask,
    tailVars, queueVars, workerVars, handlerVars, circuitVars
<1>4. CASE Cleanup
  BY <1>4 DEF IInv, TypeOK, HandInv, ExecInv, OrdinaryCompletion, Holds, Busy, Engaged,
      Judging, Results,
      Cleanup,
    tailVars, queueVars, workerVars, handlerVars, circuitVars
<1>5. CASE Return
  BY <1>5 DEF IInv, TypeOK, HandInv, ExecInv, OrdinaryCompletion, Holds, Busy, Engaged,
      Judging, Results,
      Return,
    tailVars, queueVars, workerVars, handlerVars, circuitVars
<1>6. ASSUME NEW t \in Tasks, Receive(t) PROVE ExecInv'
  BY <1>6 DEF IInv, TypeOK, HandInv, ExecInv, OrdinaryCompletion, Holds, Busy, Engaged,
      Judging, Results,
      Receive,
    tailVars, queueVars, workerVars, handlerVars, circuitVars
<1>7. ASSUME NEW t \in Tasks, HandlerReturns(t) PROVE ExecInv'
  BY <1>7 DEF IInv, TypeOK, HandInv, ExecInv, OrdinaryCompletion, Holds, Busy, Engaged,
      Judging, Results,
      HandlerReturns,
    tailVars, queueVars, workerVars, handlerVars, circuitVars
<1>8. ASSUME NEW w \in Workers, Tick(w) PROVE ExecInv'
  BY <1>8 DEF IInv, TypeOK, HandInv, ExecInv, OrdinaryCompletion, Holds, Busy, Engaged,
      Judging, Results, Tick,
    tailVars, queueVars, workerVars, handlerVars, circuitVars
<1>9. ASSUME NEW w \in Workers, StopIdle(w) PROVE ExecInv'
  BY <1>9 DEF IInv, TypeOK, HandInv, ExecInv, OrdinaryCompletion, Holds, Busy, Engaged,
      Judging, Results,
      StopIdle, Stop, LetGo, Goto,
    tailVars, queueVars, workerVars, handlerVars, circuitVars
<1>10. ASSUME NEW w \in Workers, Dequeue(w) PROVE ExecInv'
  BY <1>10 DEF IInv, TypeOK, HandInv, ExecInv, OrdinaryCompletion, Holds, Busy, Engaged,
      Judging, Results,
      Dequeue, Goto,
    tailVars, queueVars, workerVars, handlerVars, circuitVars
<1>11. ASSUME NEW w \in Workers, Start(w) PROVE ExecInv'
  BY <1>11 DEF IInv, TypeOK, HandInv, ExecInv, OrdinaryCompletion, Holds, Busy, Engaged,
      Judging, Results,
      Start, Stop, LetGo, Goto,
    tailVars, queueVars, workerVars, handlerVars, circuitVars
<1>12. ASSUME NEW w \in Workers, ResultArrives(w) PROVE ExecInv'
  BY <1>12, CancelledExec, ClassifiedExec DEF ResultArrives
<1>13. ASSUME NEW w \in Workers, ContextDone(w) PROVE ExecInv'
  BY <1>13 DEF IInv, TypeOK, HandInv, ExecInv, OrdinaryCompletion, Holds, Busy, Engaged,
      Judging, Results,
      ContextDone, Goto, ParentFirst,
    tailVars, queueVars, workerVars, handlerVars, circuitVars
<1>14. ASSUME NEW w \in Workers, Joined(w) PROVE ExecInv'
  BY <1>14, CancelledExec DEF Joined
<1>15. ASSUME NEW w \in Workers, JoinTimesOut(w) PROVE ExecInv'
  BY <1>15 DEF IInv, TypeOK, HandInv, ExecInv, OrdinaryCompletion, Holds, Busy, Engaged,
      Judging, Results,
      JoinTimesOut, Ended, Goto,
    tailVars, queueVars, workerVars, handlerVars, circuitVars
<1>16. ASSUME NEW w \in Workers, GraceResult(w) PROVE ExecInv'
  <2>1. Classify(w) /\ ~ParentFirst(w)
    BY <1>16 DEF IInv, GraceInv, GraceResult, ParentFirst
  <2> QED BY <1>16, <2>1, ClassifiedExec
<1>17. ASSUME NEW w \in Workers, GraceExpires(w) PROVE ExecInv'
  BY <1>17 DEF IInv, TypeOK, HandInv, ExecInv, OrdinaryCompletion, Holds, Busy, Engaged,
      Judging, Results,
      GraceExpires, Returned, Ended, Goto,
    tailVars, queueVars, workerVars, handlerVars, circuitVars
<1>18. ASSUME NEW w \in Workers, Success(w) PROVE ExecInv'
  BY <1>18 DEF IInv, TypeOK, HandInv, ExecInv, OrdinaryCompletion, Holds, Busy, Engaged,
      Judging, Results,
      Success, Loop, LetGo, Goto,
    tailVars, queueVars, workerVars, handlerVars, circuitVars
<1>19. ASSUME NEW w \in Workers, GiveUp(w) PROVE ExecInv'
  BY <1>19 DEF IInv, TypeOK, HandInv, ExecInv, OrdinaryCompletion, Holds, Busy, Engaged,
      Judging, Results,
      GiveUp, StillCounts, Stop, LetGo, Goto,
    tailVars, queueVars, workerVars, handlerVars, circuitVars
<1>20. ASSUME NEW w \in Workers, Failure(w) PROVE ExecInv'
  BY <1>20 DEF IInv, TypeOK, HandInv, ExecInv, OrdinaryCompletion, Holds, Busy, Engaged,
      Judging, Results,
      Failure, StillCounts, Goto,
    tailVars, queueVars, workerVars, handlerVars, circuitVars
<1>21. ASSUME NEW w \in Workers, Record(w) PROVE ExecInv'
  BY <1>21 DEF IInv, TypeOK, HandInv, ExecInv, OrdinaryCompletion, Holds, Busy, Engaged,
      Judging, Results,
      Record, Goto,
    tailVars, queueVars, workerVars, handlerVars, circuitVars
<1>22. ASSUME NEW w \in Workers, RecordFails(w) PROVE ExecInv'
  BY <1>22 DEF IInv, TypeOK, HandInv, ExecInv, OrdinaryCompletion, Holds, Busy, Engaged,
      Judging, Results,
      RecordFails, Stop, LetGo, Goto,
    tailVars, queueVars, workerVars, handlerVars, circuitVars
<1>23. ASSUME NEW w \in Workers, Report(w) PROVE ExecInv'
  BY <1>23 DEF IInv, TypeOK, HandInv, ExecInv, OrdinaryCompletion, Holds, Busy, Engaged,
      Judging, Results,
      Report, ParentJoinTimedOut, Detached, Fatal, Loop, Stop, LetGo, Goto,
    tailVars, queueVars, workerVars, handlerVars, circuitVars
<1> QED BY <1>1, <1>2, <1>3, <1>4, <1>5, <1>6, <1>7, <1>8, <1>9, <1>10, <1>11, <1>12,
           <1>13, <1>14, <1>15, <1>16, <1>17, <1>18, <1>19, <1>20, <1>21, <1>22, <1>23
        DEF Next, WorkerStep

(* Only a worker that finds the deadline passed enters the grace period.   *)
LEMMA GraceInvKept ==
  ASSUME IInv, Next PROVE GraceInv'
<1>1. CASE Open \/ Ready \/ Ask \/ Cleanup \/ Return
  BY <1>1 DEF IInv, GraceInv, Open, Ready, Fail, Ask, Cleanup, Return, workerVars, handlerVars
<1>2. ASSUME NEW t \in Tasks, Receive(t) \/ HandlerReturns(t) PROVE GraceInv'
  BY <1>2 DEF IInv, GraceInv, Receive, HandlerReturns, workerVars, handlerVars
<1>3. ASSUME NEW w \in Workers, Tick(w) PROVE GraceInv'
  BY <1>3 DEF IInv, TypeOK, HandInv, GraceInv, Busy, Engaged, Phases, Tick, workerVars
<1>4. ASSUME NEW w \in Workers, ContextDone(w) PROVE GraceInv'
  BY <1>4 DEF IInv, TypeOK, GraceInv, ContextDone, Goto, ParentFirst, handlerVars
<1>5. ASSUME NEW w \in Workers, WorkerStep(w), ~ContextDone(w) PROVE GraceInv'
  <2>1. /\ clock' = clock /\ \E stage \in Stages \ {"grace"} : wpc' = [wpc EXCEPT ![w] = stage]
        /\ \A v \in Workers \ {w} : wtask'[v] = wtask[v]
    <3>1. CASE StopIdle(w) \/ Dequeue(w) \/ Start(w)
      BY <3>1 DEF IInv, TypeOK, Stages, StopIdle, Dequeue, Start, Stop, LetGo, Goto, handlerVars
    <3>2. CASE ResultArrives(w) \/ Joined(w) \/ JoinTimesOut(w) \/ GraceResult(w) \/ GraceExpires(w)
      BY <3>2, EndsAs DEF IInv, Stages, Quiet
    <3>3. CASE Success(w) \/ GiveUp(w) \/ Failure(w) \/ Record(w) \/ RecordFails(w)
      BY <3>3 DEF IInv, TypeOK, Stages, Success, GiveUp, Failure, Record, RecordFails, Loop,
          Stop, LetGo,
          Goto, handlerVars
    <3>4. CASE Report(w)
      BY <3>4, ReportEnds DEF IInv, TypeOK, Stages, handlerVars
    <3> QED BY <1>5, <3>1, <3>2, <3>3, <3>4 DEF WorkerStep
  <2> QED BY <2>1 DEF IInv, TypeOK, GraceInv
<1> QED BY <1>1, <1>2, <1>3, <1>4, <1>5 DEF Next

(* The ordered worker leaves a task only when it is back and recorded, or  *)
(* stops.                                                                  *)
LEMMA PendingInvKept ==
  ASSUME IInv, Next PROVE PendingInv'
<1>1. CASE Open
  BY <1>1 DEF IInv, TypeOK, HandInv, ExecInv, PendingInv, Pending, Holds, Busy, Engaged,
      Judging, Results, QueueOf, Open, Fail,
    tailVars, queueVars, workerVars, handlerVars, circuitVars
<1>2. CASE Ready
  BY <1>2 DEF IInv, TypeOK, HandInv, ExecInv, PendingInv, Pending, Holds, Busy, Engaged,
      Judging, Results, QueueOf, Ready, Fail,
    tailVars, queueVars, workerVars, handlerVars, circuitVars
<1>3. CASE Ask
  BY <1>3 DEF IInv, TypeOK, HandInv, ExecInv, PendingInv, Pending, Holds, Busy, Engaged,
      Judging, Results, QueueOf, Ask,
    tailVars, queueVars, workerVars, handlerVars, circuitVars
<1>4. CASE Cleanup
  BY <1>4 DEF IInv, TypeOK, HandInv, ExecInv, PendingInv, Pending, Holds, Busy, Engaged,
      Judging, Results, QueueOf, Cleanup,
    tailVars, queueVars, workerVars, handlerVars, circuitVars
<1>5. CASE Return
  BY <1>5 DEF IInv, TypeOK, HandInv, ExecInv, PendingInv, Pending, Holds, Busy, Engaged,
      Judging, Results, QueueOf, Return,
    tailVars, queueVars, workerVars, handlerVars, circuitVars
<1>6. ASSUME NEW t \in Tasks, Receive(t) PROVE PendingInv'
  BY <1>6 DEF IInv, TypeOK, HandInv, ExecInv, PendingInv, Pending, Holds, Busy, Engaged,
      Judging, Results, QueueOf, Receive,
    tailVars, queueVars, workerVars, handlerVars, circuitVars
<1>7. ASSUME NEW t \in Tasks, HandlerReturns(t) PROVE PendingInv'
  BY <1>7 DEF IInv, TypeOK, HandInv, ExecInv, PendingInv, Pending, Holds, Busy, Engaged,
      Judging, Results, QueueOf, HandlerReturns,
    tailVars, queueVars, workerVars, handlerVars, circuitVars
<1>8. ASSUME NEW w \in Workers, Tick(w) PROVE PendingInv'
  BY <1>8 DEF IInv, TypeOK, HandInv, ExecInv, PendingInv, Pending, Holds, Busy, Engaged,
      Judging, Results, QueueOf, Tick,
    tailVars, queueVars, workerVars, handlerVars, circuitVars
<1>9. ASSUME NEW w \in Workers, StopIdle(w) PROVE PendingInv'
  BY <1>9 DEF IInv, TypeOK, HandInv, ExecInv, PendingInv, Pending, Holds, Busy, Engaged,
      Judging, Results, QueueOf, StopIdle, Stop, LetGo, Goto,
    tailVars, queueVars, workerVars, handlerVars, circuitVars
<1>10. ASSUME NEW w \in Workers, Dequeue(w) PROVE PendingInv'
  BY <1>10 DEF IInv, TypeOK, HandInv, ExecInv, PendingInv, Pending, Holds, Busy, Engaged,
      Judging, Results, QueueOf, Dequeue, Goto,
    tailVars, queueVars, workerVars, handlerVars, circuitVars
<1>11. ASSUME NEW w \in Workers, Start(w) PROVE PendingInv'
  <2>1. CASE cancelled
    <3>1. /\ wpc[w] \notin Engaged /\ wpc'[w] = "done"
          /\ \A v \in Workers \ {w} : wpc'[v] = wpc[v] /\ wtask'[v] = wtask[v]
      BY <1>11, <2>1 DEF IInv, TypeOK, Engaged, Judging, Start, Stop, LetGo, Goto
    <3>2. \A t \in Tasks : Pending(t)' <=> Pending(t)
      BY <1>11, <2>1 DEF Start, Pending
    <3> QED BY <3>1, <3>2 DEF IInv, PendingInv, Workers
  <2>2. CASE ~cancelled
    <3> DEFINE t == wtask[w]
    <3>1. t \in Tasks /\ Class(t) = QueueOf(w)
      BY <1>11 DEF IInv, TypeOK, HandInv, Busy, Start
    <3>2. handler'[t] = "running" /\ \A s \in Tasks \ {t} : handler'[s] = handler[s]
      BY <1>11, <2>2, <3>1 DEF IInv, TypeOK, Start
    <3>3. wpc[w] = "dequeued" /\ wpc'[w] = "waiting" /\ \A v \in Workers \ {w} : wpc'[v] = wpc[v]
      BY <1>11, <2>2 DEF IInv, TypeOK, Start, Goto
    <3>4. UNCHANGED <<wtask, recorded>>
      BY <1>11, <2>2 DEF Start
    <3>5. \A s \in Tasks \ {t} : Pending(s)' <=> Pending(s)
      BY <3>2, <3>4 DEF Pending
    <3>6. CASE w = "ordered"
      <4>1. \A s \in Tasks : ~Pending(s)
        BY <3>3, <3>6 DEF IInv, PendingInv, Engaged, Judging
      <4>2. \A s \in Tasks : Pending(s)' => s = t
        BY <3>5, <4>1
      <4> QED BY <3>3, <3>4, <3>6, <4>2 DEF PendingInv, Engaged
    <3>7. CASE w # "ordered"
      <4>1. Class(t) = "member"
        BY <3>1, <3>7 DEF QueueOf
      <4>2. \A s \in Tasks : Pending(s)' <=> Pending(s)
        BY <3>5, <4>1 DEF Pending
      <4> QED BY <3>3, <3>4, <3>7, <4>2 DEF IInv, PendingInv, Workers
    <3> QED BY <3>6, <3>7
  <2> QED BY <2>1, <2>2
<1>12. ASSUME NEW w \in Workers, ResultArrives(w) PROVE PendingInv'
  <2>1. /\ wpc[w] \in Waiting /\ wpc' = [wpc EXCEPT ![w] = "judge"]
        /\ UNCHANGED <<wtask, handler, clock, doneAt, recorded, fatal, cancelled>> /\ taken \subseteq taken'
    BY <1>12, EndsAs DEF IInv, Quiet, handlerVars
  <2> QED BY <2>1 DEF IInv, TypeOK, PendingInv, Pending, Engaged, Judging, Waiting
<1>13. ASSUME NEW w \in Workers, ContextDone(w) PROVE PendingInv'
  BY <1>13 DEF IInv, TypeOK, HandInv, ExecInv, PendingInv, Pending, Holds, Busy, Engaged,
      Judging, Results, QueueOf, ContextDone, Goto, ParentFirst,
    tailVars, queueVars, workerVars, handlerVars, circuitVars
<1>14. ASSUME NEW w \in Workers, Joined(w) PROVE PendingInv'
  BY <1>14 DEF IInv, TypeOK, HandInv, ExecInv, PendingInv, Pending, Holds, Busy, Engaged,
      Judging, Results, QueueOf, Joined, Returned, ParentCancelled, Ended, Goto,
    tailVars, queueVars, workerVars, handlerVars, circuitVars
<1>15. ASSUME NEW w \in Workers, JoinTimesOut(w) PROVE PendingInv'
  BY <1>15 DEF IInv, TypeOK, HandInv, ExecInv, PendingInv, Pending, Holds, Busy, Engaged,
      Judging, Results, QueueOf, JoinTimesOut, Ended, Goto,
    tailVars, queueVars, workerVars, handlerVars, circuitVars
<1>16. ASSUME NEW w \in Workers, GraceResult(w) PROVE PendingInv'
  <2>1. /\ wpc[w] \in Waiting /\ wpc' = [wpc EXCEPT ![w] = "judge"]
        /\ UNCHANGED <<wtask, handler, clock, doneAt, recorded, fatal, cancelled>> /\ taken \subseteq taken'
    BY <1>16, EndsAs DEF IInv, Quiet, handlerVars
  <2> QED BY <2>1 DEF IInv, TypeOK, PendingInv, Pending, Engaged, Judging, Waiting
<1>17. ASSUME NEW w \in Workers, GraceExpires(w) PROVE PendingInv'
  BY <1>17 DEF IInv, TypeOK, HandInv, ExecInv, PendingInv, Pending, Holds, Busy, Engaged,
      Judging, Results, QueueOf, GraceExpires, Returned, Ended, Goto,
    tailVars, queueVars, workerVars, handlerVars, circuitVars
<1>18. ASSUME NEW w \in Workers, Success(w) PROVE PendingInv'
  BY <1>18 DEF IInv, TypeOK, HandInv, ExecInv, PendingInv, Pending, Holds, Busy, Engaged,
      Judging, Results, QueueOf, Success, Loop, LetGo, Goto,
    tailVars, queueVars, workerVars, handlerVars, circuitVars
<1>19. ASSUME NEW w \in Workers, GiveUp(w) PROVE PendingInv'
  BY <1>19 DEF IInv, TypeOK, HandInv, ExecInv, PendingInv, Pending, Holds, Busy, Engaged,
      Judging, Results, QueueOf, GiveUp, StillCounts, Stop, LetGo, Goto,
    tailVars, queueVars, workerVars, handlerVars, circuitVars
<1>20. ASSUME NEW w \in Workers, Failure(w) PROVE PendingInv'
  BY <1>20 DEF IInv, TypeOK, HandInv, ExecInv, PendingInv, Pending, Holds, Busy, Engaged,
      Judging, Results, QueueOf, Failure, StillCounts, Goto,
    tailVars, queueVars, workerVars, handlerVars, circuitVars
<1>21. ASSUME NEW w \in Workers, Record(w) PROVE PendingInv'
  BY <1>21 DEF IInv, TypeOK, HandInv, ExecInv, PendingInv, Pending, Holds, Busy, Engaged,
      Judging, Results, QueueOf, Record, Goto,
    tailVars, queueVars, workerVars, handlerVars, circuitVars
<1>22. ASSUME NEW w \in Workers, RecordFails(w) PROVE PendingInv'
  BY <1>22 DEF IInv, TypeOK, HandInv, ExecInv, PendingInv, Pending, Holds, Busy, Engaged,
      Judging, Results, QueueOf, RecordFails, Stop, LetGo, Goto,
    tailVars, queueVars, workerVars, handlerVars, circuitVars
<1>23. ASSUME NEW w \in Workers, Report(w) PROVE PendingInv'
  <2>1. w = "ordered" /\ wpc'[w] # "done" => \A t \in Tasks : ~Pending(t)
    <3> SUFFICES ASSUME w = "ordered", wpc'[w] # "done", NEW t \in Tasks, Pending(t) PROVE FALSE
      OBVIOUS
    <3>1. wpc[w] = "report" /\ ~ParentJoinTimedOut(w) /\ ~Detached(w)
      BY <1>23, ReportEnds DEF IInv, TypeOK
    <3>2. wtask[w] = t /\ recorded[t] # "no" /\ handler[t] # "running"
      BY <3>1 DEF IInv, PendingInv, ExecInv, Judging, Detached, ParentJoinTimedOut
    <3> QED BY <3>2 DEF Pending
  <2>2. \A v \in Workers \ {w} : wpc'[v] = wpc[v] /\ wtask'[v] = wtask[v]
    BY <1>23, ReportEnds DEF IInv, TypeOK
  <2>3. \A t \in Tasks : Pending(t)' <=> Pending(t)
    BY <1>23, ReportEnds DEF IInv, Pending, handlerVars
  <2> QED BY <2>1, <2>2, <2>3 DEF IInv, PendingInv, Workers
<1> QED BY <1>1, <1>2, <1>3, <1>4, <1>5, <1>6, <1>7, <1>8, <1>9, <1>10, <1>11, <1>12,
           <1>13, <1>14, <1>15, <1>16, <1>17, <1>18, <1>19, <1>20, <1>21, <1>22, <1>23
        DEF Next, WorkerStep

(* A worker lets a failed message go when it is recorded, or says why it is*)
(* not.                                                                    *)
LEMMA AccountedKept ==
  ASSUME IInv, Next PROVE Accounted'
<1>1. CASE Open
  BY <1>1 DEF IInv, TypeOK, HandInv, ExecInv, Accounted, OrdinaryCompletion, Failed, Holds,
      Busy, Engaged,
      Judging, Results, Open, Fail,
    tailVars, queueVars, workerVars, handlerVars, circuitVars
<1>2. CASE Ready
  BY <1>2 DEF IInv, TypeOK, HandInv, ExecInv, Accounted, OrdinaryCompletion, Failed, Holds,
      Busy, Engaged,
      Judging, Results, Ready, Fail,
    tailVars, queueVars, workerVars, handlerVars, circuitVars
<1>3. CASE Ask
  BY <1>3 DEF IInv, TypeOK, HandInv, ExecInv, Accounted, OrdinaryCompletion, Failed, Holds,
      Busy, Engaged,
      Judging, Results, Ask,
    tailVars, queueVars, workerVars, handlerVars, circuitVars
<1>4. CASE Cleanup
  BY <1>4 DEF IInv, TypeOK, HandInv, ExecInv, Accounted, OrdinaryCompletion, Failed, Holds,
      Busy, Engaged,
      Judging, Results, Cleanup,
    tailVars, queueVars, workerVars, handlerVars, circuitVars
<1>5. CASE Return
  BY <1>5 DEF IInv, TypeOK, HandInv, ExecInv, Accounted, OrdinaryCompletion, Failed, Holds,
      Busy, Engaged,
      Judging, Results, Return,
    tailVars, queueVars, workerVars, handlerVars, circuitVars
<1>6. ASSUME NEW t \in Tasks, Receive(t) PROVE Accounted'
  BY <1>6 DEF IInv, TypeOK, HandInv, ExecInv, Accounted, OrdinaryCompletion, Failed, Holds,
      Busy, Engaged,
      Judging, Results, Receive,
    tailVars, queueVars, workerVars, handlerVars, circuitVars
<1>7. ASSUME NEW t \in Tasks, HandlerReturns(t) PROVE Accounted'
  BY <1>7 DEF IInv, TypeOK, HandInv, ExecInv, Accounted, OrdinaryCompletion, Failed, Holds,
      Busy, Engaged,
      Judging, Results, HandlerReturns,
    tailVars, queueVars, workerVars, handlerVars, circuitVars
<1>8. ASSUME NEW w \in Workers, Tick(w) PROVE Accounted'
  BY <1>8 DEF IInv, TypeOK, HandInv, ExecInv, Accounted, OrdinaryCompletion, Failed, Holds,
      Busy, Engaged,
      Judging, Results, Tick,
    tailVars, queueVars, workerVars, handlerVars, circuitVars
<1>9. ASSUME NEW w \in Workers, StopIdle(w) PROVE Accounted'
  BY <1>9 DEF IInv, TypeOK, HandInv, ExecInv, Accounted, OrdinaryCompletion, Failed, Holds,
      Busy, Engaged,
      Judging, Results, StopIdle, Stop, LetGo, Goto,
    tailVars, queueVars, workerVars, handlerVars, circuitVars
<1>10. ASSUME NEW w \in Workers, Dequeue(w) PROVE Accounted'
  BY <1>10 DEF IInv, TypeOK, HandInv, ExecInv, Accounted, OrdinaryCompletion, Failed, Holds,
      Busy, Engaged,
      Judging, Results, Dequeue, Goto,
    tailVars, queueVars, workerVars, handlerVars, circuitVars
<1>11. ASSUME NEW w \in Workers, Start(w) PROVE Accounted'
  <2>1. /\ UNCHANGED <<clock, doneAt, taken, recorded, fatal, cancelled>> /\ wpc[w] = "dequeued"
        /\ \A v \in Workers \ {w} : wpc'[v] = wpc[v] /\ wtask'[v] = wtask[v]
    BY <1>11 DEF IInv, TypeOK, Start, Stop, LetGo, Goto
  <2>2. handler[wtask[w]] = "none" /\ wtask[w] \in Tasks
    BY <2>1 DEF IInv, TypeOK, HandInv, Busy
  <2>3. CASE cancelled
    <3>1. handler' = handler
      BY <1>11, <2>3 DEF Start
    <3> QED BY <2>1, <2>2, <3>1 DEF IInv, Accounted, OrdinaryCompletion, Failed, Holds
  <2>4. CASE ~cancelled
    <3>1. /\ \A t \in Tasks \ {wtask[w]} : handler'[t] = handler[t]
          /\ wpc'[w] = "waiting" /\ wtask' = wtask
      BY <1>11, <2>4 DEF IInv, TypeOK, Start, Goto
    <3> QED BY <2>1, <3>1 DEF IInv, Accounted, OrdinaryCompletion, Failed, Holds, Busy, Engaged
  <2> QED BY <2>3, <2>4
<1>12. ASSUME NEW w \in Workers, ResultArrives(w) PROVE Accounted'
  <2>1. /\ wpc[w] \in Waiting /\ wpc' = [wpc EXCEPT ![w] = "judge"]
        /\ UNCHANGED <<wtask, handler, clock, doneAt, recorded, fatal, cancelled>> /\ taken \subseteq taken'
    BY <1>12, EndsAs DEF IInv, Quiet, handlerVars
  <2> QED BY <2>1 DEF IInv, TypeOK, Accounted, OrdinaryCompletion, Failed, Holds, Busy,
      Engaged, Judging,
      Waiting
<1>13. ASSUME NEW w \in Workers, ContextDone(w) PROVE Accounted'
  BY <1>13 DEF IInv, TypeOK, HandInv, ExecInv, Accounted, OrdinaryCompletion, Failed, Holds,
      Busy, Engaged,
      Judging, Results, ContextDone, Goto, ParentFirst,
    tailVars, queueVars, workerVars, handlerVars, circuitVars
<1>14. ASSUME NEW w \in Workers, Joined(w) PROVE Accounted'
  BY <1>14 DEF IInv, TypeOK, HandInv, ExecInv, Accounted, OrdinaryCompletion, Failed, Holds,
      Busy, Engaged,
      Judging, Results, Joined, Returned, ParentCancelled, Ended, Goto,
    tailVars, queueVars, workerVars, handlerVars, circuitVars
<1>15. ASSUME NEW w \in Workers, JoinTimesOut(w) PROVE Accounted'
  BY <1>15 DEF IInv, TypeOK, HandInv, ExecInv, Accounted, OrdinaryCompletion, Failed, Holds,
      Busy, Engaged,
      Judging, Results, JoinTimesOut, Ended, Goto,
    tailVars, queueVars, workerVars, handlerVars, circuitVars
<1>16. ASSUME NEW w \in Workers, GraceResult(w) PROVE Accounted'
  <2>1. /\ wpc[w] \in Waiting /\ wpc' = [wpc EXCEPT ![w] = "judge"]
        /\ UNCHANGED <<wtask, handler, clock, doneAt, recorded, fatal, cancelled>> /\ taken \subseteq taken'
    BY <1>16, EndsAs DEF IInv, Quiet, handlerVars
  <2> QED BY <2>1 DEF IInv, TypeOK, Accounted, OrdinaryCompletion, Failed, Holds, Busy,
      Engaged, Judging,
      Waiting
<1>17. ASSUME NEW w \in Workers, GraceExpires(w) PROVE Accounted'
  BY <1>17 DEF IInv, TypeOK, HandInv, ExecInv, Accounted, OrdinaryCompletion, Failed, Holds,
      Busy, Engaged,
      Judging, Results, GraceExpires, Returned, Ended, Goto,
    tailVars, queueVars, workerVars, handlerVars, circuitVars
<1>18. ASSUME NEW w \in Workers, Success(w) PROVE Accounted'
  BY <1>18 DEF IInv, TypeOK, HandInv, ExecInv, Accounted, OrdinaryCompletion, Failed, Holds,
      Busy, Engaged,
      Judging, Results, Success, Loop, LetGo, Goto,
    tailVars, queueVars, workerVars, handlerVars, circuitVars
<1>19. ASSUME NEW w \in Workers, GiveUp(w) PROVE Accounted'
  <2> SUFFICES ASSUME NEW t \in MessageTasks, Failed(t)', recorded'[t] = "no"
               PROVE  \/ \E v \in Workers : Holds(v, t)'
                      \/ "persist" \in fatal'
                      \/ handler'[t] = "error" /\ OrdinaryCompletion(t)' /\ cancelled'
    BY DEF Accounted
  <2>1. UNCHANGED <<handler, clock, doneAt, taken, recorded, fatal, cancelled>> /\ wpc[w] = "judge" /\ cancelled
    BY <1>19 DEF GiveUp, handlerVars
  <2>2. \A v \in Workers \ {w} : wpc'[v] = wpc[v] /\ wtask'[v] = wtask[v]
    BY <1>19 DEF IInv, TypeOK, GiveUp, Stop, LetGo, Goto
  <2>3. CASE t # wtask[w]
    BY <2>1, <2>2, <2>3 DEF IInv, Accounted, OrdinaryCompletion, Failed, Holds
  <2>4. CASE t = wtask[w]
    <3>1. exec[w].err \in {"error", "join", "cancelled"}
      BY <1>19 DEF IInv, TypeOK, Execution, Results, GiveUp, StillCounts
    <3>2. exec[w].err # "join"
      BY <1>19, <2>1 DEF IInv, ExecInv, Judging, GiveUp, StillCounts, ParentJoinTimedOut
    <3>3. exec[w].err # "cancelled"
      BY <2>1, <2>4 DEF IInv, ExecInv, Judging, Failed
    <3>4. handler[t] = "error" /\ OrdinaryCompletion(t)
      BY <1>19, <2>1, <2>4, <3>1, <3>2, <3>3 DEF IInv, ExecInv, Judging, GiveUp,
          StillCounts, ParentMessageFailure
    <3> QED BY <2>1, <3>4 DEF OrdinaryCompletion
  <2> QED BY <2>3, <2>4
<1>20. ASSUME NEW w \in Workers, Failure(w) PROVE Accounted'
  BY <1>20 DEF IInv, TypeOK, HandInv, ExecInv, Accounted, OrdinaryCompletion, Failed, Holds,
      Busy, Engaged,
      Judging, Results, Failure, StillCounts, Goto,
    tailVars, queueVars, workerVars, handlerVars, circuitVars
<1>21. ASSUME NEW w \in Workers, Record(w) PROVE Accounted'
  BY <1>21 DEF IInv, TypeOK, HandInv, ExecInv, Accounted, OrdinaryCompletion, Failed, Holds,
      Busy, Engaged,
      Judging, Results, Record, Goto,
    tailVars, queueVars, workerVars, handlerVars, circuitVars
<1>22. ASSUME NEW w \in Workers, RecordFails(w) PROVE Accounted'
  BY <1>22 DEF IInv, TypeOK, HandInv, ExecInv, Accounted, OrdinaryCompletion, Failed, Holds,
      Busy, Engaged,
      Judging, Results, RecordFails, Stop, LetGo, Goto,
    tailVars, queueVars, workerVars, handlerVars, circuitVars
<1>23. ASSUME NEW w \in Workers, Report(w) PROVE Accounted'
  <2>1. TypeOK
    BY DEF IInv
  <2>2. recorded[wtask[w]] # "no"
    BY <1>23, <2>1, ReportLeaves DEF IInv, ExecInv, Judging
  <2> QED BY <1>23, <2>1, <2>2, ReportLeaves DEF IInv, Accounted, OrdinaryCompletion,
      Failed, Holds
<1> QED BY <1>1, <1>2, <1>3, <1>4, <1>5, <1>6, <1>7, <1>8, <1>9, <1>10, <1>11, <1>12,
           <1>13, <1>14, <1>15, <1>16, <1>17, <1>18, <1>19, <1>20, <1>21, <1>22, <1>23
        DEF Next, WorkerStep

(* A record goes to the ledger only for a handler that has returned.       *)
LEMMA LedgerAfterJoinKept ==
  ASSUME IInv, Next PROVE LedgerAfterJoin'
<1>1. CASE Open
  BY <1>1 DEF IInv, TypeOK, HandInv, ExecInv, LedgerAfterJoin, Busy, Engaged, Judging,
      Results, Open, Fail,
    tailVars, queueVars, workerVars, handlerVars, circuitVars
<1>2. CASE Ready
  BY <1>2 DEF IInv, TypeOK, HandInv, ExecInv, LedgerAfterJoin, Busy, Engaged, Judging,
      Results, Ready, Fail,
    tailVars, queueVars, workerVars, handlerVars, circuitVars
<1>3. CASE Ask
  BY <1>3 DEF IInv, TypeOK, HandInv, ExecInv, LedgerAfterJoin, Busy, Engaged, Judging,
      Results, Ask,
    tailVars, queueVars, workerVars, handlerVars, circuitVars
<1>4. CASE Cleanup
  BY <1>4 DEF IInv, TypeOK, HandInv, ExecInv, LedgerAfterJoin, Busy, Engaged, Judging,
      Results, Cleanup,
    tailVars, queueVars, workerVars, handlerVars, circuitVars
<1>5. CASE Return
  BY <1>5 DEF IInv, TypeOK, HandInv, ExecInv, LedgerAfterJoin, Busy, Engaged, Judging,
      Results, Return,
    tailVars, queueVars, workerVars, handlerVars, circuitVars
<1>6. ASSUME NEW t \in Tasks, Receive(t) PROVE LedgerAfterJoin'
  BY <1>6 DEF IInv, TypeOK, HandInv, ExecInv, LedgerAfterJoin, Busy, Engaged, Judging,
      Results, Receive,
    tailVars, queueVars, workerVars, handlerVars, circuitVars
<1>7. ASSUME NEW t \in Tasks, HandlerReturns(t) PROVE LedgerAfterJoin'
  BY <1>7 DEF IInv, TypeOK, HandInv, ExecInv, LedgerAfterJoin, Busy, Engaged, Judging,
      Results, HandlerReturns,
    tailVars, queueVars, workerVars, handlerVars, circuitVars
<1>8. ASSUME NEW w \in Workers, Tick(w) PROVE LedgerAfterJoin'
  BY <1>8 DEF IInv, TypeOK, HandInv, ExecInv, LedgerAfterJoin, Busy, Engaged, Judging,
      Results, Tick,
    tailVars, queueVars, workerVars, handlerVars, circuitVars
<1>9. ASSUME NEW w \in Workers, StopIdle(w) PROVE LedgerAfterJoin'
  BY <1>9 DEF IInv, TypeOK, HandInv, ExecInv, LedgerAfterJoin, Busy, Engaged, Judging,
      Results, StopIdle, Stop, LetGo, Goto,
    tailVars, queueVars, workerVars, handlerVars, circuitVars
<1>10. ASSUME NEW w \in Workers, Dequeue(w) PROVE LedgerAfterJoin'
  BY <1>10 DEF IInv, TypeOK, HandInv, ExecInv, LedgerAfterJoin, Busy, Engaged, Judging,
      Results, Dequeue, Goto,
    tailVars, queueVars, workerVars, handlerVars, circuitVars
<1>11. ASSUME NEW w \in Workers, Start(w) PROVE LedgerAfterJoin'
  <2>1. CASE cancelled
    BY <1>11, <2>1 DEF IInv, LedgerAfterJoin, Start
  <2>2. CASE ~cancelled
    <3>1. handler[wtask[w]] = "none" /\ wtask[w] \in Tasks
      BY <1>11 DEF IInv, TypeOK, HandInv, Busy, Start
    <3>2. recorded[wtask[w]] = "no"
      BY <3>1 DEF IInv, RecordInv
    <3> QED BY <1>11, <2>2, <3>1, <3>2 DEF IInv, TypeOK, LedgerAfterJoin, Start
  <2> QED BY <2>1, <2>2
<1>12. ASSUME NEW w \in Workers, ResultArrives(w) PROVE LedgerAfterJoin'
  BY <1>12 DEF IInv, TypeOK, HandInv, ExecInv, LedgerAfterJoin, Busy, Engaged, Judging,
      Results, ResultArrives, Returned, ParentFirst, ParentCancelled, Classify, Ended, Goto,
    tailVars, queueVars, workerVars, handlerVars, circuitVars
<1>13. ASSUME NEW w \in Workers, ContextDone(w) PROVE LedgerAfterJoin'
  BY <1>13 DEF IInv, TypeOK, HandInv, ExecInv, LedgerAfterJoin, Busy, Engaged, Judging,
      Results, ContextDone, Goto, ParentFirst,
    tailVars, queueVars, workerVars, handlerVars, circuitVars
<1>14. ASSUME NEW w \in Workers, Joined(w) PROVE LedgerAfterJoin'
  BY <1>14 DEF IInv, TypeOK, HandInv, ExecInv, LedgerAfterJoin, Busy, Engaged, Judging,
      Results, Joined, Returned, ParentCancelled, Ended, Goto,
    tailVars, queueVars, workerVars, handlerVars, circuitVars
<1>15. ASSUME NEW w \in Workers, JoinTimesOut(w) PROVE LedgerAfterJoin'
  BY <1>15 DEF IInv, TypeOK, HandInv, ExecInv, LedgerAfterJoin, Busy, Engaged, Judging,
      Results, JoinTimesOut, Ended, Goto,
    tailVars, queueVars, workerVars, handlerVars, circuitVars
<1>16. ASSUME NEW w \in Workers, GraceResult(w) PROVE LedgerAfterJoin'
  BY <1>16 DEF IInv, TypeOK, HandInv, ExecInv, LedgerAfterJoin, Busy, Engaged, Judging,
      Results, GraceResult, Returned, Classify, Ended, Goto,
    tailVars, queueVars, workerVars, handlerVars, circuitVars
<1>17. ASSUME NEW w \in Workers, GraceExpires(w) PROVE LedgerAfterJoin'
  BY <1>17 DEF IInv, TypeOK, HandInv, ExecInv, LedgerAfterJoin, Busy, Engaged, Judging,
      Results, GraceExpires, Returned, Ended, Goto,
    tailVars, queueVars, workerVars, handlerVars, circuitVars
<1>18. ASSUME NEW w \in Workers, Success(w) PROVE LedgerAfterJoin'
  BY <1>18 DEF IInv, TypeOK, HandInv, ExecInv, LedgerAfterJoin, Busy, Engaged, Judging,
      Results, Success, Loop, LetGo, Goto,
    tailVars, queueVars, workerVars, handlerVars, circuitVars
<1>19. ASSUME NEW w \in Workers, GiveUp(w) PROVE LedgerAfterJoin'
  BY <1>19 DEF IInv, TypeOK, HandInv, ExecInv, LedgerAfterJoin, Busy, Engaged, Judging,
      Results, GiveUp, StillCounts, Stop, LetGo, Goto,
    tailVars, queueVars, workerVars, handlerVars, circuitVars
<1>20. ASSUME NEW w \in Workers, Failure(w) PROVE LedgerAfterJoin'
  BY <1>20 DEF IInv, TypeOK, HandInv, ExecInv, LedgerAfterJoin, Busy, Engaged, Judging,
      Results, Failure, StillCounts, Goto,
    tailVars, queueVars, workerVars, handlerVars, circuitVars
<1>21. ASSUME NEW w \in Workers, Record(w) PROVE LedgerAfterJoin'
  BY <1>21 DEF IInv, TypeOK, HandInv, ExecInv, LedgerAfterJoin, Busy, Engaged, Judging,
      Results, Record, Goto,
    tailVars, queueVars, workerVars, handlerVars, circuitVars
<1>22. ASSUME NEW w \in Workers, RecordFails(w) PROVE LedgerAfterJoin'
  BY <1>22 DEF IInv, TypeOK, HandInv, ExecInv, LedgerAfterJoin, Busy, Engaged, Judging,
      Results, RecordFails, Stop, LetGo, Goto,
    tailVars, queueVars, workerVars, handlerVars, circuitVars
<1>23. ASSUME NEW w \in Workers, Report(w) PROVE LedgerAfterJoin'
  BY <1>23 DEF IInv, TypeOK, HandInv, ExecInv, LedgerAfterJoin, Busy, Engaged, Judging,
      Results, Report, ParentJoinTimedOut, Detached, Fatal, Loop, Stop, LetGo, Goto,
    tailVars, queueVars, workerVars, handlerVars, circuitVars
<1> QED BY <1>1, <1>2, <1>3, <1>4, <1>5, <1>6, <1>7, <1>8, <1>9, <1>10, <1>11, <1>12,
           <1>13, <1>14, <1>15, <1>16, <1>17, <1>18, <1>19, <1>20, <1>21, <1>22, <1>23
        DEF Next, WorkerStep

(* Every reachable state satisfies the inductive invariant.                *)
LEMMA Invariance == Spec => []IInv
<1>1. Init => IInv
  <2> SUFFICES ASSUME Init PROVE IInv
    OBVIOUS
  <2>1. TypeOK
    <3>1. NoExecution \in Execution /\ <<>> \in Seq(Tasks)
      BY DEF NoExecution, Execution, Results
    <3>2. wpc \in [Workers -> Stages] /\ wtask \in [Workers -> Tasks \cup {None}]
      BY DEF Init, Stages
    <3>3. exec \in [Workers -> Execution] /\ queue \in [Classes -> Seq(Tasks)]
      BY <3>1 DEF Init
    <3>4. /\ handler \in [Tasks -> Results \cup {"none", "running"}]
          /\ recorded \in [Tasks -> {"no", "ledger", "forced"}]
      BY DEF Init
    <3>5. clock \in [Tasks -> Phases] /\ doneAt \in [Tasks -> Phases]
      BY DEF Init, Phases
    <3>6. consecutive \in [Classes -> 0..FailureLimit] /\ opened \in [Classes -> BOOLEAN]
      BY DEF Init
    <3>7. faults \in 0..MaxFaults
      BY DEF Init
    <3> QED BY <3>2, <3>3, <3>4, <3>5, <3>6, <3>7 DEF Init, TypeOK
  <2>2. \A w \in Workers : wpc[w] \notin Busy
    BY DEF Init, Busy, Engaged, Judging
  <2>3. CircuitInv /\ RecordInv /\ HandInv /\ ExecInv /\ GraceInv
    BY <2>2 DEF Init, CircuitInv, RecordInv, HandInv, ExecInv, GraceInv, Busy, Engaged
  <2>4. QueueInv
    BY DEF Init, QueueInv
  <2>5. PendingInv /\ Accounted /\ LedgerAfterJoin
    BY DEF Init, PendingInv, Pending, Accounted, Failed, LedgerAfterJoin
  <2> QED BY <2>1, <2>3, <2>4, <2>5 DEF IInv
<1>2. IInv /\ [Next]_vars => IInv'
  <2> SUFFICES ASSUME IInv, [Next]_vars PROVE IInv'
    OBVIOUS
  <2>1. CASE Next
    BY <2>1, TypeOKKept, CircuitInvKept, RecordInvKept, HandInvKept, QueueInvKept,
        ExecInvKept, GraceInvKept, PendingInvKept,
       AccountedKept, LedgerAfterJoinKept DEF IInv
  <2>2. CASE UNCHANGED vars
    BY <2>2 DEF IInv, TypeOK, CircuitInv, RecordInv, HandInv, QueueInv, ExecInv, GraceInv,
        PendingInv, Pending, Accounted, OrdinaryCompletion,
                Failed, Holds, LedgerAfterJoin, vars, tailVars, queueVars, workerVars,
                handlerVars, circuitVars
  <2> QED BY <2>1, <2>2
<1> QED BY <1>1, <1>2, PTL DEF Spec

(* Two ordered handlers never overlap, not even when one is abandoned, and *)
(* a later one runs only when the failures before it are recorded.         *)
THEOREM OrderedOneAtATime == FairSpec => []OneOrderedHandler
<1>1. IInv => OneOrderedHandler
  BY DEF IInv, TypeOK, PendingInv, Pending, OneOrderedHandler, Running
<1> QED BY <1>1, Invariance, PTL DEF FairSpec

(* No failed message event falls between worker, ledger and fatal error,   *)
(* and what is returned after a cancellation is recorded; except an error  *)
(* taken as an ordinary completion just before the cancellation is seen.   *)
THEOREM MessageFailuresAccounted == FairSpec => []FailureAccounted
<1>1. IInv => FailureAccounted
  BY DEF IInv, Accounted, FailureAccounted, InHand, Holds
<1> QED BY <1>1, Invariance, PTL DEF FairSpec

(* A message failure is put in the ledger, from where replay takes it,     *)
(* only when its handler can no longer write.                              *)
THEOREM LedgerOnlyAfterJoin == FairSpec => []LedgerAfterJoin
<1>1. IInv => LedgerAfterJoin
  BY DEF IInv
<1> QED BY <1>1, Invariance, PTL DEF FairSpec
==============================================================================

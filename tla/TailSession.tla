----------------------------- MODULE TailSession -----------------------------
(***************************************************************************)
(* One archive, several discrawl processes: the writer lock with its       *)
(* metadata and the token by which a live tail is recognised, and inside a *)
(* tail process the session loop with its repair runs, their mutex and the *)
(* bounded join at the end.  A process identity is one start of the        *)
(* program: it is never reused.                                            *)
(***************************************************************************)
EXTENDS Naturals, FiniteSets

CONSTANTS
    Procs,         \* starts of the program
    Role,          \* "tail", "messages" (--sync), "writer" or "update" (of a share)
    RepairOnStart, \* --repair-on-start
    None

ASSUME SessionAssumption ==
    /\ Role \in [Procs -> {"tail", "messages", "writer", "update"}]
    /\ RepairOnStart \in BOOLEAN /\ None \notin Procs

Tails == {p \in Procs : Role[p] = "tail"}

VARIABLES
    pc,        \* where every process is
    flock,     \* the process that holds the writer lock
    meta,      \* the metadata sidecar: by whom, and is it a live tail's
    tokenFile, \* tails whose token file exists
    tokenLock, \* who holds the lock of each token file
    open,      \* processes with an open store
    seen,      \* the owner a waiting messages command has read
    round,     \* its first or its second look
    since,     \* did a tail hold the lock since the command began
    gateway,   \* the Gateway goroutine of every tail
    cancelled, \* the tail's own context
    startup,   \* the startup repair: "waiting", "ready" or "done"
    active,    \* activeRepair of the session loop
    repair,    \* the repair goroutine
    result,    \* an undelivered repair result
    mutex,     \* tailRepairMu
    ledgerTx,  \* a ledger transaction of the repair, under a context of its own
    helpers,   \* text repair and change feed compaction still running
    fatal      \* the session ended with ErrFatalTail

lockVars == <<flock, meta, tokenFile, tokenLock, open>>
lookVars == <<seen, round>>
repairVars == <<startup, active, repair, result, mutex, ledgerTx>>
sessionVars == <<gateway, cancelled, repairVars, helpers, fatal>>
vars == <<pc, lockVars, lookVars, since, sessionVars>>

Init ==
    /\ pc = [p \in Procs |-> "new"]
    /\ flock = None
    /\ meta = [by |-> None, tail |-> FALSE]
    /\ tokenFile = {} /\ tokenLock = [t \in Tails |-> None]
    /\ open = {}
    /\ seen = [p \in Procs |-> None] /\ round = [p \in Procs |-> 1]
    /\ since = [p \in Procs |-> FALSE]
    /\ gateway = [t \in Tails |-> "off"]
    /\ cancelled = [t \in Tails |-> FALSE]
    /\ startup = [t \in Tails |-> IF RepairOnStart THEN "waiting" ELSE "done"]
    /\ active = [t \in Tails |-> FALSE] /\ repair = [t \in Tails |-> "none"]
    /\ result = [t \in Tails |-> FALSE] /\ mutex = [t \in Tails |-> FALSE]
    /\ ledgerTx = {}
    /\ helpers = {} /\ fatal = {}

Over == {"off", "refused", "skipped", "killed"}
Alive(p) == pc[p] \notin {"new"} \cup Over
Go(p, where) == pc' = [pc EXCEPT ![p] = where]

(***************************************************************************)
(* Taking the lock: flock first, then the metadata, then the store.        *)
(***************************************************************************)
Start(p) ==
    /\ pc[p] = "new"
    /\ Go(p, "try")
    /\ UNCHANGED <<lockVars, lookVars, sessionVars>>

Take(p) == flock = None /\ flock' = p /\ Go(p, "stamp")

\* acquireSyncLockWithMetadata polls until it has the lock, tryWithSyncLock skips
\* its update, a messages command looks who holds it.
TryLock(p) ==
    /\ pc[p] = "try"
    /\ \/ Take(p)
       \/ flock # None /\ UNCHANGED flock
          /\ \/ Role[p] = "messages" /\ Go(p, "look")
             \/ Role[p] = "update" /\ Go(p, "skipped")
    /\ round' = [round EXCEPT ![p] = 1]
    /\ UNCHANGED <<meta, tokenFile, tokenLock, open, seen, sessionVars>>

WriteMetadata(p) ==
    /\ pc[p] = "stamp"
    /\ meta' = [by |-> p, tail |-> FALSE]
    /\ Go(p, "open")
    /\ UNCHANGED <<flock, tokenFile, tokenLock, open, lookVars, sessionVars>>

\* A waiting command is interrupted.
GiveUp(p) ==
    /\ pc[p] = "try" /\ flock # None
    /\ Go(p, "off")
    /\ UNCHANGED <<lockVars, lookVars, sessionVars>>

OpenServices(p) ==
    /\ pc[p] = "open"
    /\ open' = open \cup {p}
    /\ IF p \in Tails
       THEN /\ Go(p, "loop")
            /\ gateway' = [gateway EXCEPT ![p] = "connecting"]
            /\ helpers' = helpers \cup {p}
       ELSE Go(p, "work") /\ UNCHANGED <<gateway, helpers>>
    /\ UNCHANGED <<flock, meta, tokenFile, tokenLock, lookVars, cancelled, repairVars, fatal>>

Work(p) ==
    /\ pc[p] = "work"
    /\ Go(p, "close")
    /\ UNCHANGED <<lockVars, lookVars, sessionVars>>

\* Bug variant: the lock is released while the store is still open.
CloseLate(p) ==
    /\ pc[p] = "close"
    /\ flock' = None
    /\ Go(p, "unlock")
    /\ UNCHANGED <<meta, tokenFile, tokenLock, open, lookVars, sessionVars>>

\* The deferred calls, innermost first: the store, the token, the lock.
Close(p) ==
    /\ pc[p] = "close"
    /\ open' = open \ {p}
    /\ Go(p, IF p \in tokenFile THEN "untoken" ELSE "unlock")
    /\ UNCHANGED <<flock, meta, tokenFile, tokenLock, lookVars, sessionVars>>

FreeToken(p) ==
    /\ pc[p] = "untoken"
    /\ tokenLock' = [tokenLock EXCEPT ![p] = None]
    /\ Go(p, "unlink")
    /\ UNCHANGED <<flock, meta, tokenFile, open, lookVars, sessionVars>>

RemoveToken(p) ==
    /\ pc[p] = "unlink"
    /\ tokenFile' = tokenFile \ {p}
    /\ tokenLock' = [tokenLock EXCEPT ![p] = None]
    /\ Go(p, "unlock")
    /\ UNCHANGED <<flock, meta, open, lookVars, sessionVars>>

Release(p) ==
    /\ pc[p] = "unlock"
    /\ flock' = IF flock = p THEN None ELSE flock
    /\ open' = open \ {p}
    /\ Go(p, "exit")
    /\ UNCHANGED <<meta, tokenFile, tokenLock, lookVars, sessionVars>>

\* Goroutines that still run die with their process.
Gone(p) ==
    IF p \in Tails
    THEN /\ repair' = [repair EXCEPT ![p] = "none"]
         /\ gateway' = [gateway EXCEPT ![p] = "off"]
         /\ ledgerTx' = ledgerTx \ {p} /\ helpers' = helpers \ {p}
         /\ active' = [active EXCEPT ![p] = FALSE] /\ result' = [result EXCEPT ![p] = FALSE]
         /\ mutex' = [mutex EXCEPT ![p] = FALSE] /\ startup' = [startup EXCEPT ![p] = "done"]
    ELSE UNCHANGED <<repair, gateway, ledgerTx, helpers, active, result, mutex, startup>>
Exit(p) ==
    /\ pc[p] = "exit"
    /\ Go(p, "off")
    /\ Gone(p)
    /\ UNCHANGED <<lockVars, lookVars, cancelled, fatal>>

\* The kernel releases the locks of a killed process; its token file stays.
Kill(p) ==
    /\ Alive(p)
    /\ Go(p, "killed")
    /\ flock' = IF flock = p THEN None ELSE flock
    /\ tokenLock' = [t \in Tails |-> IF tokenLock[t] = p THEN None ELSE tokenLock[t]]
    /\ open' = open \ {p}
    /\ Gone(p)
    /\ UNCHANGED <<meta, tokenFile, lookVars, cancelled, fatal>>

(***************************************************************************)
(* withMessagesSyncLock: after a failed attempt, is the owner a live tail? *)
(* The metadata is read twice, the token is probed by locking it, and the  *)
(* whole look is repeated after a second failed attempt.                   *)
(***************************************************************************)
NamesTail == meta.tail /\ meta.by # None /\ Alive(meta.by)
Found(p) == IF round[p] = 1 THEN "again" ELSE "refused"

Look(p) ==
    /\ pc[p] = "look"
    /\ IF NamesTail
       THEN seen' = [seen EXCEPT ![p] = meta.by] /\ Go(p, "compare")
       ELSE Go(p, "try") /\ UNCHANGED seen
    /\ UNCHANGED <<lockVars, round, sessionVars>>

\* Bug variant: the metadata alone is trusted.
CompareOnly(p) ==
    /\ pc[p] = "compare"
    /\ Go(p, IF NamesTail /\ meta.by = seen[p] THEN Found(p) ELSE "try")
    /\ UNCHANGED <<lockVars, lookVars, sessionVars>>
Compare(p) ==
    /\ pc[p] = "compare"
    /\ Go(p, IF NamesTail /\ meta.by = seen[p] /\ meta.by \in tokenFile THEN "probe" ELSE "try")
    /\ UNCHANGED <<lockVars, lookVars, sessionVars>>

\* A file removed since it was found is created again: its lock is free.
Probe(p) ==
    LET t == seen[p] IN
    /\ pc[p] = "probe"
    /\ IF t \in tokenFile /\ tokenLock[t] # None
       THEN Go(p, Found(p)) /\ UNCHANGED <<tokenFile, tokenLock>>
       ELSE /\ tokenFile' = tokenFile \cup {t}
            /\ tokenLock' = [tokenLock EXCEPT ![t] = p]
            /\ Go(p, "unprobe")
    /\ UNCHANGED <<flock, meta, open, lookVars, sessionVars>>

Unprobe(p) ==
    /\ pc[p] = "unprobe"
    /\ tokenLock' = [t \in Tails |-> IF tokenLock[t] = p THEN None ELSE tokenLock[t]]
    /\ Go(p, "try")
    /\ UNCHANGED <<flock, meta, tokenFile, open, lookVars, sessionVars>>

TryAgain(p) ==
    /\ pc[p] = "again"
    /\ \/ Take(p)
       \/ flock # None /\ Go(p, "look") /\ UNCHANGED flock
    /\ round' = [round EXCEPT ![p] = 2]
    /\ UNCHANGED <<meta, tokenFile, tokenLock, open, seen, sessionVars>>

(***************************************************************************)
(* The Gateway goroutine of a tail and its ready callback.                 *)
(***************************************************************************)
ActivateToken(t) ==
    /\ gateway[t] = "connecting"
    /\ tokenFile' = tokenFile \cup {t} /\ tokenLock' = [tokenLock EXCEPT ![t] = t]
    /\ gateway' = [gateway EXCEPT ![t] = "ready"]
    /\ UNCHANGED <<pc, flock, meta, open, lookVars, cancelled, repairVars, helpers, fatal>>

ActivateTail(t) ==
    /\ gateway[t] = "ready"
    /\ meta' = [by |-> t, tail |-> TRUE]
    /\ gateway' = [gateway EXCEPT ![t] = "live"]
    /\ startup' = [startup EXCEPT ![t] = IF @ = "waiting" THEN "ready" ELSE @]
    /\ UNCHANGED <<pc, flock, tokenFile, tokenLock, open, lookVars, cancelled, active, repair, result,
                   mutex, ledgerTx, helpers, fatal>>

\* client.Tail returns: with an error, or because the session has cancelled it.
TailReturns(t) ==
    /\ gateway[t] \in {"connecting", "live"}
    /\ gateway' = [gateway EXCEPT ![t] = "returned"]
    /\ UNCHANGED <<pc, lockVars, lookVars, cancelled, repairVars, helpers, fatal>>

Interrupt(t) ==
    /\ pc[t] = "loop" /\ ~cancelled[t]
    /\ cancelled' = [cancelled EXCEPT ![t] = TRUE]
    /\ UNCHANGED <<pc, lockVars, lookVars, gateway, repairVars, helpers, fatal>>

(***************************************************************************)
(* The session loop and its repair runs.                                   *)
(***************************************************************************)
\* startTailRepair: skipped when the mutex is taken.
StartTailRepair(t) ==
    /\ active' = [active EXCEPT ![t] = ~mutex[t]]
    /\ mutex' = [mutex EXCEPT ![t] = TRUE]
    /\ repair' = [repair EXCEPT ![t] = IF mutex[t] THEN @ ELSE "run"]

StartupRepair(t) ==
    /\ pc[t] = "loop" /\ startup[t] = "ready"
    /\ startup' = [startup EXCEPT ![t] = "done"]
    /\ IF cancelled[t] THEN UNCHANGED <<active, mutex, repair>> ELSE StartTailRepair(t)
    /\ UNCHANGED <<pc, lockVars, lookVars, gateway, cancelled, result, ledgerTx, helpers, fatal>>

\* The timer is armed again whatever the tick does.
RepairTick(t) ==
    /\ pc[t] = "loop" /\ ~active[t] /\ startup[t] = "done"
    /\ StartTailRepair(t)
    /\ UNCHANGED <<pc, lockVars, lookVars, gateway, cancelled, startup, result, ledgerTx, helpers, fatal>>

\* Bug variant: the result is read, the loop still holds on to the run.
RepairDoneKept(t) ==
    /\ pc[t] = "loop" /\ result[t]
    /\ result' = [result EXCEPT ![t] = FALSE]
    /\ UNCHANGED <<pc, lockVars, lookVars, gateway, cancelled, startup, active, repair, mutex, ledgerTx, helpers, fatal>>
RepairDone(t) ==
    /\ pc[t] = "loop" /\ result[t]
    /\ result' = [result EXCEPT ![t] = FALSE]
    /\ active' = [active EXCEPT ![t] = FALSE]
    /\ UNCHANGED <<pc, lockVars, lookVars, gateway, cancelled, startup, repair, mutex, ledgerTx, helpers, fatal>>

\* The goroutine delivers its result before it unlocks the mutex.
DeliverResult(t) ==
    /\ repair[t] = "run" /\ t \notin ledgerTx
    /\ result' = [result EXCEPT ![t] = TRUE]
    /\ repair' = [repair EXCEPT ![t] = "unlock"]
    /\ UNCHANGED <<pc, lockVars, lookVars, gateway, cancelled, startup, active, mutex, ledgerTx, helpers, fatal>>
UnlockRepair(t) ==
    /\ repair[t] = "unlock"
    /\ repair' = [repair EXCEPT ![t] = "none"]
    /\ mutex' = [mutex EXCEPT ![t] = FALSE]
    /\ UNCHANGED <<pc, lockVars, lookVars, gateway, cancelled, startup, active, result, ledgerTx, helpers, fatal>>

\* Failures are recorded under a context that outlives the repair's.
BeginLedger(t) ==
    /\ repair[t] = "run" /\ t \in open /\ t \notin ledgerTx
    /\ ledgerTx' = ledgerTx \cup {t}
    /\ UNCHANGED <<pc, lockVars, lookVars, gateway, cancelled, startup, active, repair, result, mutex, helpers, fatal>>
CommitLedger(t) ==
    /\ t \in ledgerTx
    /\ ledgerTx' = ledgerTx \ {t}
    /\ UNCHANGED <<pc, lockVars, lookVars, gateway, cancelled, startup, active, repair, result, mutex, helpers, fatal>>

\* ctx.Done or tailDone: an active repair is cancelled and joined.
LeaveLoop(t) ==
    /\ pc[t] = "loop" /\ (cancelled[t] \/ gateway[t] = "returned")
    /\ Go(t, IF active[t] THEN "join" ELSE "drain")
    /\ UNCHANGED <<lockVars, lookVars, sessionVars>>

Join(t) ==
    /\ pc[t] = "join" /\ result[t]
    /\ result' = [result EXCEPT ![t] = FALSE]
    /\ active' = [active EXCEPT ![t] = FALSE]
    /\ Go(t, "drain")
    /\ UNCHANGED <<lockVars, lookVars, gateway, cancelled, startup, repair, mutex, ledgerTx, helpers, fatal>>

\* Bug variant: no timeout at all.
JoinForever(t) == FALSE /\ UNCHANGED vars
JoinTimeout(t) ==
    /\ pc[t] = "join"
    /\ fatal' = fatal \cup {t}
    /\ Go(t, "drain")
    /\ UNCHANGED <<lockVars, lookVars, gateway, cancelled, repairVars, helpers>>

\* The client is closed, client.Tail awaited, then the helpers.
Drain(t) ==
    /\ pc[t] = "drain" /\ gateway[t] = "returned" /\ t \notin helpers
    /\ Go(t, "close")
    /\ UNCHANGED <<lockVars, lookVars, sessionVars>>
HelperReturns(t) ==
    /\ t \in helpers /\ pc[t] = "drain"
    /\ helpers' = helpers \ {t}
    /\ UNCHANGED <<pc, lockVars, lookVars, gateway, cancelled, repairVars, fatal>>

(***************************************************************************)
(* The specification.                                                      *)
(***************************************************************************)
Advance(p) ==
    \/ TryLock(p) \/ WriteMetadata(p) \/ OpenServices(p) \/ Work(p) \/ Close(p) \/ Release(p) \/ Exit(p)
    \/ Look(p) \/ Compare(p) \/ Probe(p) \/ Unprobe(p) \/ TryAgain(p)
    \/ p \in Tails /\ (FreeToken(p) \/ RemoveToken(p))
Session(t) == LeaveLoop(t) \/ Join(t) \/ JoinTimeout(t) \/ Drain(t) \/ HelperReturns(t)
Gateway(t) == ActivateToken(t) \/ ActivateTail(t)
Loop(t) == StartupRepair(t) \/ RepairDone(t)
Repair(t) == BeginLedger(t) \/ CommitLedger(t) \/ DeliverResult(t) \/ UnlockRepair(t)

TailHolds == flock \in Tails
Watch == since' = [p \in Procs |-> IF pc'[p] = "try" THEN TailHolds ELSE since[p] \/ TailHolds]
Step == \/ \E p \in Procs : Start(p) \/ Advance(p) \/ GiveUp(p) \/ Kill(p)
        \/ \E t \in Tails : \/ Session(t) \/ Gateway(t) \/ Loop(t) \/ Repair(t)
                            \/ TailReturns(t) \/ Interrupt(t) \/ RepairTick(t)
Next == Step /\ Watch

\* Every process runs; a cancelled Tail returns; the timer fires.  A repair need
\* not end: a request or a transaction may hang.
Fairness ==
    /\ \A p \in Procs : WF_vars(Advance(p) /\ Watch)
    /\ \A t \in Tails : /\ WF_vars((Session(t) \/ (pc[t] # "loop" /\ TailReturns(t))) /\ Watch)
                        /\ WF_vars(Gateway(t) /\ Watch) /\ WF_vars(RepairTick(t) /\ Watch)
                        /\ WF_vars((RepairDone(t) \/ UnlockRepair(t)) /\ Watch)
                        /\ WF_vars(StartupRepair(t) /\ Watch)
Spec == Init /\ [][Next]_vars /\ Fairness

(***************************************************************************)
(* Properties.                                                             *)
(***************************************************************************)
\* A store is open only in the process that holds the writer lock, whatever is
\* killed and in whichever order a session winds down; and a session never ends
\* quietly over a repair that is still running: it ends with ErrFatalTail, so that
\* the process goes down and the goroutine with it.
OwnerWrites ==
    /\ \A p \in open : flock = p
    /\ \A t \in Tails : pc[t] \in {"drain", "close", "untoken", "unlink", "unlock", "exit"}
                           /\ repair[t] = "run" => t \in fatal

\* "tail already owns live sync" is answered only if a tail did hold the lock
\* since the refused attempt began: stale metadata or a token left behind is never
\* taken for a tail.  The one exception the probing allows is another command
\* caught in the middle of its own probe of that token.
RefusalMeansTail ==
    [][\A p \in Procs : pc[p] # "refused" /\ pc'[p] = "refused" =>
         since[p] \/ \E q \in Procs \ Tails : tokenLock[seen[p]] = q]_vars

\* A session that stays up repairs again and again, although a result may be read
\* before the mutex of its run is free.
RepairRunsAgain ==
    \A t \in Tails : []<>(pc[t] = "loop" => repair[t] = "run")

\* A session that is interrupted, or whose Gateway connection ends, gives the lock
\* back, also when its repair hangs.
SessionReturns ==
    \A t \in Tails : (pc[t] = "loop" /\ (cancelled[t] \/ gateway[t] = "returned")) ~> pc[t] \in Over
=============================================================================

-------------------------- MODULE TailSessionProofs --------------------------
(***************************************************************************)
(* Proofs about TailSession, for any processes and roles, with and without *)
(* a repair at the start.                                                  *)
(***************************************************************************)
EXTENDS TailSession, TLAPS

(* The stages in which a process has the writer lock, those in which its   *)
(* store may be open, and those of a command that looks at the lock.       *)
Opened == {"work", "loop", "join", "drain", "close"}
Holding == {"stamp", "open", "untoken", "unlink", "unlock"} \cup Opened
Looking == {"look", "compare", "probe", "unprobe", "again"}
Ending == {"drain", "close", "untoken", "unlink", "unlock", "exit"}
Stages == {"new", "try", "exit"} \cup Over \cup Holding \cup Looking

TypeInv ==
  /\ pc \in [Procs -> Stages]
  /\ flock \in Procs \cup {None} /\ open \subseteq Procs
  /\ meta \in [by : Procs \cup {None}, tail : BOOLEAN]
  /\ tokenFile \subseteq Tails /\ tokenLock \in [Tails -> Procs \cup {None}]
  /\ seen \in [Procs -> Procs \cup {None}]
  /\ gateway \in [Tails -> {"off", "connecting", "ready", "live", "returned"}]
  /\ startup \in [Tails -> {"waiting", "ready", "done"}]
  /\ active \in [Tails -> BOOLEAN] /\ result \in [Tails -> BOOLEAN] /\ mutex \in [Tails -> BOOLEAN]
  /\ repair \in [Tails -> {"none", "run", "unlock"}]

(* A process past the attempt holds the lock, until it gives it back; its  *)
(* store is open only in between.                                          *)
LockInv ==
  /\ \A p \in Procs : pc[p] \in Holding => flock = p
  /\ \A p \in open : pc[p] \in Opened

(* Only commands that are no tails look, and at a tail.                    *)
LookInv ==
  /\ meta.tail => meta.by \in Tails
  /\ \A p \in Procs : /\ pc[p] \in Looking => p \notin Tails
                      /\ pc[p] \in {"compare", "probe"} => seen[p] \in Tails

(* A token is locked by a command that probes it or by its own tail; that  *)
(* tail then has the writer lock.  The Gateway goroutine that locks it     *)
(* runs in the session only.                                               *)
TokenInv ==
  \A t \in Tails :
    /\ gateway[t] \notin {"off", "returned"} => pc[t] \in {"loop", "join", "drain"}
    /\ tokenLock[t] \in Tails => tokenLock[t] = t
    /\ tokenLock[t] = t => t \in tokenFile /\ pc[t] \in {"loop", "join", "drain", "close", "untoken"}

(* Whoever waits has waited while the tail that locks its token had the    *)
(* writer lock: it takes the token in a later step.                        *)
SinceInv == \A t \in Tails : tokenLock[t] = t => \A p \in Procs : since[p]

(* The mutex is held exactly while there is a run.  In the session loop    *)
(* and its join a run, or its result, is the active one; outside them only *)
(* a session that gave up on a run leaves it running.                      *)
RepairInv ==
  \A t \in Tails :
    /\ mutex[t] <=> repair[t] # "none"
    /\ repair[t] = "run" => ~result[t]
    /\ startup[t] # "done" => ~mutex[t] /\ ~result[t]
    /\ pc[t] \in {"loop", "join"} => (repair[t] = "run" \/ result[t] => active[t])
    /\ pc[t] \in Ending => (repair[t] = "run" => t \in fatal)
    /\ pc[t] \notin {"loop", "join"} \cup Ending => repair[t] = "none" /\ ~result[t]

(* The inductive invariant.                                                *)
IInv == TypeInv /\ LockInv /\ LookInv /\ TokenInv /\ SinceInv /\ RepairInv

USE SessionAssumption

(* The stages of a session from its loop on.                               *)
Busy == {"loop", "join"} \cup Ending

(* A command on its way to the lock does not touch the stage of a session. *)
LEMMA Waits ==
  ASSUME IInv, NEW p \in Procs,
         TryLock(p) \/ Look(p) \/ TryAgain(p) \/ Probe(p) \/ Unprobe(p)
  PROVE  \A t \in Tails : pc[t] \in Busy \/ pc'[t] \in Busy => pc'[t] = pc[t]
  BY DEF IInv, TypeInv, Tails, Busy, Ending, TryLock, Look, TryAgain, Take, Found, Probe, Unprobe, Go

(* Every step keeps the types.                                             *)
LEMMA TypeInvKept ==
  ASSUME IInv, Step PROVE TypeInv'
<1>1. ASSUME NEW p \in Procs, Start(p) PROVE TypeInv'
  BY <1>1 DEF IInv, TypeInv, Stages, Holding, Opened, Looking, Over, Start, Go,
    lockVars, lookVars, sessionVars, repairVars
<1>2. ASSUME NEW p \in Procs, TryLock(p) PROVE TypeInv'
  BY <1>2 DEF IInv, TypeInv, Stages, Holding, Opened, Looking, Over, TryLock, Take, Go,
    lockVars, lookVars, sessionVars, repairVars
<1>3. ASSUME NEW p \in Procs, WriteMetadata(p) PROVE TypeInv'
  BY <1>3 DEF IInv, TypeInv, Stages, Holding, Opened, Looking, Over, WriteMetadata, Go,
    lockVars, lookVars, sessionVars, repairVars
<1>4. ASSUME NEW p \in Procs, GiveUp(p) PROVE TypeInv'
  BY <1>4 DEF IInv, TypeInv, Stages, Holding, Opened, Looking, Over, GiveUp, Go,
    lockVars, lookVars, sessionVars, repairVars
<1>5. ASSUME NEW p \in Procs, OpenServices(p) PROVE TypeInv'
  BY <1>5 DEF IInv, TypeInv, Stages, Holding, Opened, Looking, Over, OpenServices, Go,
    lockVars, lookVars, sessionVars, repairVars
<1>6. ASSUME NEW p \in Procs, Work(p) PROVE TypeInv'
  BY <1>6 DEF IInv, TypeInv, Stages, Holding, Opened, Looking, Over, Work, Go,
    lockVars, lookVars, sessionVars, repairVars
<1>7. ASSUME NEW p \in Procs, Close(p) PROVE TypeInv'
  BY <1>7 DEF IInv, TypeInv, Stages, Holding, Opened, Looking, Over, Close, Go,
    lockVars, lookVars, sessionVars, repairVars
<1>8. ASSUME NEW p \in Procs, Release(p) PROVE TypeInv'
  BY <1>8 DEF IInv, TypeInv, Stages, Holding, Opened, Looking, Over, Release, Go,
    lockVars, lookVars, sessionVars, repairVars
<1>9. ASSUME NEW p \in Procs, Exit(p) PROVE TypeInv'
  <2>1. CASE p \in Tails
    <3>1. pc' \in [Procs -> Stages]
      BY <1>9 DEF IInv, TypeInv, Exit, Go, Stages, Over
    <3>2. /\ active' \in [Tails -> BOOLEAN] /\ result' \in [Tails -> BOOLEAN]
          /\ mutex' \in [Tails -> BOOLEAN]
      BY <1>9, <2>1, ZenonT(60) DEF IInv, TypeInv, Exit, Gone
    <3>3. /\ gateway' \in [Tails -> {"off", "connecting", "ready", "live", "returned"}]
          /\ startup' \in [Tails -> {"waiting", "ready", "done"}]
          /\ repair' \in [Tails -> {"none", "run", "unlock"}]
      BY <1>9, <2>1 DEF IInv, TypeInv, Exit, Gone
    <3> QED BY <1>9, <3>1, <3>2, <3>3 DEF IInv, TypeInv, Exit, lockVars, lookVars
  <2>2. CASE p \notin Tails
    BY <1>9, <2>2 DEF IInv, TypeInv, Exit, Gone, Go, Stages, Over, lockVars, lookVars
  <2> QED BY <2>1, <2>2
<1>10. ASSUME NEW p \in Procs, Kill(p) PROVE TypeInv'
  BY <1>10, ZenonT(60) DEF IInv, TypeInv, Stages, Holding, Opened, Looking, Over, Kill, Gone, Alive, Go,
    lockVars, lookVars, sessionVars, repairVars
<1>11. ASSUME NEW p \in Procs, Look(p) PROVE TypeInv'
  BY <1>11 DEF IInv, TypeInv, Stages, Holding, Opened, Looking, Over, Look, NamesTail, Alive, Go,
    lockVars, lookVars, sessionVars, repairVars
<1>12. ASSUME NEW p \in Procs, Compare(p) PROVE TypeInv'
  BY <1>12 DEF IInv, TypeInv, Stages, Holding, Opened, Looking, Over, Compare, Found, Go,
    lockVars, lookVars, sessionVars, repairVars
<1>13. ASSUME NEW p \in Procs, Probe(p) PROVE TypeInv'
  <2>1. seen[p] \in Tails
    BY <1>13 DEF IInv, LookInv, Probe
  <2>2. pc' \in [Procs -> Stages]
    BY <1>13 DEF IInv, TypeInv, Probe, Found, Go, Stages, Over, Looking
  <2>3. tokenFile' \subseteq Tails
    BY <1>13, <2>1 DEF IInv, TypeInv, Probe
  <2>4. tokenLock' \in [Tails -> Procs \cup {None}]
    BY <1>13, <2>1 DEF IInv, TypeInv, Probe
  <2> QED BY <1>13, <2>2, <2>3, <2>4 DEF IInv, TypeInv, Probe, lookVars, sessionVars, repairVars
<1>14. ASSUME NEW p \in Procs, Unprobe(p) PROVE TypeInv'
  BY <1>14 DEF IInv, TypeInv, Stages, Holding, Opened, Looking, Over, Unprobe, Go,
    lockVars, lookVars, sessionVars, repairVars
<1>15. ASSUME NEW p \in Procs, TryAgain(p) PROVE TypeInv'
  BY <1>15 DEF IInv, TypeInv, Stages, Holding, Opened, Looking, Over, TryAgain, Take, Found, Go,
    lockVars, lookVars, sessionVars, repairVars
<1>16. ASSUME NEW t \in Tails, FreeToken(t) PROVE TypeInv'
  BY <1>16 DEF IInv, TypeInv, Stages, Holding, Opened, Looking, Over, FreeToken, Go,
    lockVars, lookVars, sessionVars, repairVars
<1>17. ASSUME NEW t \in Tails, RemoveToken(t) PROVE TypeInv'
  BY <1>17 DEF IInv, TypeInv, Stages, Holding, Opened, Looking, Over, RemoveToken, Go,
    lockVars, lookVars, sessionVars, repairVars
<1>18. ASSUME NEW t \in Tails, LeaveLoop(t) PROVE TypeInv'
  BY <1>18 DEF IInv, TypeInv, Stages, Holding, Opened, Looking, Over, LeaveLoop, Go,
    lockVars, lookVars, sessionVars, repairVars
<1>19. ASSUME NEW t \in Tails, Join(t) PROVE TypeInv'
  BY <1>19 DEF IInv, TypeInv, Stages, Holding, Opened, Looking, Over, Join, Go,
    lockVars, lookVars, sessionVars, repairVars
<1>20. ASSUME NEW t \in Tails, JoinTimeout(t) PROVE TypeInv'
  BY <1>20 DEF IInv, TypeInv, Stages, Holding, Opened, Looking, Over, JoinTimeout, Go,
    lockVars, lookVars, sessionVars, repairVars
<1>21. ASSUME NEW t \in Tails, Drain(t) PROVE TypeInv'
  BY <1>21 DEF IInv, TypeInv, Stages, Holding, Opened, Looking, Over, Drain, Go,
    lockVars, lookVars, sessionVars, repairVars
<1>22. ASSUME NEW t \in Tails, HelperReturns(t) PROVE TypeInv'
  BY <1>22 DEF IInv, TypeInv, Stages, Holding, Opened, Looking, Over, HelperReturns, Go,
    lockVars, lookVars, sessionVars, repairVars
<1>23. ASSUME NEW t \in Tails, ActivateToken(t) PROVE TypeInv'
  <2>1. t \in Procs
    BY DEF Tails
  <2>2. tokenLock' \in [Tails -> Procs \cup {None}] /\ tokenFile' \subseteq Tails
    BY <1>23, <2>1 DEF IInv, TypeInv, ActivateToken
  <2> QED BY <1>23, <2>2 DEF IInv, TypeInv, ActivateToken, lookVars, repairVars
<1>24. ASSUME NEW t \in Tails, ActivateTail(t) PROVE TypeInv'
  <2>1. t \in Procs
    BY DEF Tails
  <2>2. meta' \in [by : Procs \cup {None}, tail : BOOLEAN]
    BY <1>24, <2>1 DEF ActivateTail
  <2> QED BY <1>24, <2>2 DEF IInv, TypeInv, ActivateTail, lookVars
<1>25. ASSUME NEW t \in Tails, TailReturns(t) PROVE TypeInv'
  BY <1>25 DEF IInv, TypeInv, Stages, Holding, Opened, Looking, Over, TailReturns, Go,
    lockVars, lookVars, sessionVars, repairVars
<1>26. ASSUME NEW t \in Tails, Interrupt(t) PROVE TypeInv'
  BY <1>26 DEF IInv, TypeInv, Stages, Holding, Opened, Looking, Over, Interrupt, Go,
    lockVars, lookVars, sessionVars, repairVars
<1>27. ASSUME NEW t \in Tails, StartupRepair(t) PROVE TypeInv'
  BY <1>27, ZenonT(60) DEF IInv, TypeInv, Stages, Holding, Opened, Looking, Over, StartupRepair, StartTailRepair, Go,
    lockVars, lookVars, sessionVars, repairVars
<1>28. ASSUME NEW t \in Tails, RepairTick(t) PROVE TypeInv'
  BY <1>28 DEF IInv, TypeInv, Stages, Holding, Opened, Looking, Over, RepairTick, StartTailRepair, Go,
    lockVars, lookVars, sessionVars, repairVars
<1>29. ASSUME NEW t \in Tails, RepairDone(t) PROVE TypeInv'
  BY <1>29 DEF IInv, TypeInv, Stages, Holding, Opened, Looking, Over, RepairDone, Go,
    lockVars, lookVars, sessionVars, repairVars
<1>30. ASSUME NEW t \in Tails, DeliverResult(t) PROVE TypeInv'
  BY <1>30 DEF IInv, TypeInv, Stages, Holding, Opened, Looking, Over, DeliverResult, Go,
    lockVars, lookVars, sessionVars, repairVars
<1>31. ASSUME NEW t \in Tails, UnlockRepair(t) PROVE TypeInv'
  BY <1>31 DEF IInv, TypeInv, Stages, Holding, Opened, Looking, Over, UnlockRepair, Go,
    lockVars, lookVars, sessionVars, repairVars
<1>32. ASSUME NEW t \in Tails, BeginLedger(t) PROVE TypeInv'
  BY <1>32 DEF IInv, TypeInv, Stages, Holding, Opened, Looking, Over, BeginLedger, Go,
    lockVars, lookVars, sessionVars, repairVars
<1>33. ASSUME NEW t \in Tails, CommitLedger(t) PROVE TypeInv'
  BY <1>33 DEF IInv, TypeInv, Stages, Holding, Opened, Looking, Over, CommitLedger, Go,
    lockVars, lookVars, sessionVars, repairVars
<1> QED BY <1>1, <1>2, <1>3, <1>4, <1>5, <1>6, <1>7, <1>8, <1>9, <1>10, <1>11, <1>12, <1>13, <1>14, <1>15, <1>16, 
           <1>17, <1>18, <1>19, <1>20, <1>21, <1>22, <1>23, <1>24, <1>25, <1>26, <1>27, <1>28, <1>29, <1>30, <1>31, <1>32, <1>33
        DEF Step, Advance, Session, Gateway, Loop, Repair, Tails

(* The lock is taken only from nobody and given back only by its holder,   *)
(* whose store is closed by then.                                          *)
LEMMA LockInvKept ==
  ASSUME IInv, Step PROVE LockInv'
<1>1. ASSUME NEW p \in Procs, Start(p) PROVE LockInv'
  BY <1>1 DEF IInv, TypeInv, LockInv, Stages, Holding, Opened, Looking, Over, Start, Go,
    lockVars, lookVars, sessionVars, repairVars
<1>2. ASSUME NEW p \in Procs, TryLock(p) PROVE LockInv'
  BY <1>2 DEF IInv, TypeInv, LockInv, Stages, Holding, Opened, Looking, Over, TryLock, Take, Go,
    lockVars, lookVars, sessionVars, repairVars
<1>3. ASSUME NEW p \in Procs, WriteMetadata(p) PROVE LockInv'
  BY <1>3 DEF IInv, TypeInv, LockInv, Stages, Holding, Opened, Looking, Over, WriteMetadata, Go,
    lockVars, lookVars, sessionVars, repairVars
<1>4. ASSUME NEW p \in Procs, GiveUp(p) PROVE LockInv'
  BY <1>4 DEF IInv, TypeInv, LockInv, Stages, Holding, Opened, Looking, Over, GiveUp, Go,
    lockVars, lookVars, sessionVars, repairVars
<1>5. ASSUME NEW p \in Procs, OpenServices(p) PROVE LockInv'
  BY <1>5 DEF IInv, TypeInv, LockInv, Stages, Holding, Opened, Looking, Over, OpenServices, Go,
    lockVars, lookVars, sessionVars, repairVars
<1>6. ASSUME NEW p \in Procs, Work(p) PROVE LockInv'
  BY <1>6 DEF IInv, TypeInv, LockInv, Stages, Holding, Opened, Looking, Over, Work, Go,
    lockVars, lookVars, sessionVars, repairVars
<1>7. ASSUME NEW p \in Procs, Close(p) PROVE LockInv'
  BY <1>7 DEF IInv, TypeInv, LockInv, Stages, Holding, Opened, Looking, Over, Close, Go,
    lockVars, lookVars, sessionVars, repairVars
<1>8. ASSUME NEW p \in Procs, Release(p) PROVE LockInv'
  BY <1>8 DEF IInv, TypeInv, LockInv, Stages, Holding, Opened, Looking, Over, Release, Go,
    lockVars, lookVars, sessionVars, repairVars
<1>9. ASSUME NEW p \in Procs, Exit(p) PROVE LockInv'
  BY <1>9 DEF IInv, TypeInv, LockInv, Stages, Holding, Opened, Looking, Over, Exit, Gone, Go,
    lockVars, lookVars, sessionVars, repairVars
<1>10. ASSUME NEW p \in Procs, Kill(p) PROVE LockInv'
  BY <1>10 DEF IInv, TypeInv, LockInv, Stages, Holding, Opened, Looking, Over, Kill, Gone, Alive, Go,
    lockVars, lookVars, sessionVars, repairVars
<1>11. ASSUME NEW p \in Procs, Look(p) PROVE LockInv'
  BY <1>11 DEF IInv, TypeInv, LockInv, Stages, Holding, Opened, Looking, Over, Look, NamesTail, Alive, Go,
    lockVars, lookVars, sessionVars, repairVars
<1>12. ASSUME NEW p \in Procs, Compare(p) PROVE LockInv'
  BY <1>12 DEF IInv, TypeInv, LockInv, Stages, Holding, Opened, Looking, Over, Compare, Found, Go,
    lockVars, lookVars, sessionVars, repairVars
<1>13. ASSUME NEW p \in Procs, Probe(p) PROVE LockInv'
  BY <1>13 DEF IInv, TypeInv, LockInv, Stages, Holding, Opened, Looking, Over, Probe, Found, Go,
    lockVars, lookVars, sessionVars, repairVars
<1>14. ASSUME NEW p \in Procs, Unprobe(p) PROVE LockInv'
  BY <1>14 DEF IInv, TypeInv, LockInv, Stages, Holding, Opened, Looking, Over, Unprobe, Go,
    lockVars, lookVars, sessionVars, repairVars
<1>15. ASSUME NEW p \in Procs, TryAgain(p) PROVE LockInv'
  BY <1>15 DEF IInv, TypeInv, LockInv, Stages, Holding, Opened, Looking, Over, TryAgain, Take, Found, Go,
    lockVars, lookVars, sessionVars, repairVars
<1>16. ASSUME NEW t \in Tails, FreeToken(t) PROVE LockInv'
  BY <1>16 DEF IInv, TypeInv, LockInv, Stages, Holding, Opened, Looking, Over, FreeToken, Go,
    lockVars, lookVars, sessionVars, repairVars
<1>17. ASSUME NEW t \in Tails, RemoveToken(t) PROVE LockInv'
  BY <1>17 DEF IInv, TypeInv, LockInv, Stages, Holding, Opened, Looking, Over, RemoveToken, Go,
    lockVars, lookVars, sessionVars, repairVars
<1>18. ASSUME NEW t \in Tails, LeaveLoop(t) PROVE LockInv'
  BY <1>18 DEF IInv, TypeInv, LockInv, Stages, Holding, Opened, Looking, Over, LeaveLoop, Go,
    lockVars, lookVars, sessionVars, repairVars
<1>19. ASSUME NEW t \in Tails, Join(t) PROVE LockInv'
  BY <1>19 DEF IInv, TypeInv, LockInv, Stages, Holding, Opened, Looking, Over, Join, Go,
    lockVars, lookVars, sessionVars, repairVars
<1>20. ASSUME NEW t \in Tails, JoinTimeout(t) PROVE LockInv'
  BY <1>20 DEF IInv, TypeInv, LockInv, Stages, Holding, Opened, Looking, Over, JoinTimeout, Go,
    lockVars, lookVars, sessionVars, repairVars
<1>21. ASSUME NEW t \in Tails, Drain(t) PROVE LockInv'
  BY <1>21 DEF IInv, TypeInv, LockInv, Stages, Holding, Opened, Looking, Over, Drain, Go,
    lockVars, lookVars, sessionVars, repairVars
<1>22. ASSUME NEW t \in Tails, HelperReturns(t) PROVE LockInv'
  BY <1>22 DEF IInv, TypeInv, LockInv, Stages, Holding, Opened, Looking, Over, HelperReturns, Go,
    lockVars, lookVars, sessionVars, repairVars
<1>23. ASSUME NEW t \in Tails, ActivateToken(t) PROVE LockInv'
  BY <1>23 DEF IInv, TypeInv, LockInv, Stages, Holding, Opened, Looking, Over, ActivateToken, Go,
    lockVars, lookVars, sessionVars, repairVars
<1>24. ASSUME NEW t \in Tails, ActivateTail(t) PROVE LockInv'
  BY <1>24 DEF IInv, TypeInv, LockInv, Stages, Holding, Opened, Looking, Over, ActivateTail, Go,
    lockVars, lookVars, sessionVars, repairVars
<1>25. ASSUME NEW t \in Tails, TailReturns(t) PROVE LockInv'
  BY <1>25 DEF IInv, TypeInv, LockInv, Stages, Holding, Opened, Looking, Over, TailReturns, Go,
    lockVars, lookVars, sessionVars, repairVars
<1>26. ASSUME NEW t \in Tails, Interrupt(t) PROVE LockInv'
  BY <1>26 DEF IInv, TypeInv, LockInv, Stages, Holding, Opened, Looking, Over, Interrupt, Go,
    lockVars, lookVars, sessionVars, repairVars
<1>27. ASSUME NEW t \in Tails, StartupRepair(t) PROVE LockInv'
  BY <1>27 DEF IInv, TypeInv, LockInv, Stages, Holding, Opened, Looking, Over, StartupRepair, StartTailRepair, Go,
    lockVars, lookVars, sessionVars, repairVars
<1>28. ASSUME NEW t \in Tails, RepairTick(t) PROVE LockInv'
  BY <1>28 DEF IInv, TypeInv, LockInv, Stages, Holding, Opened, Looking, Over, RepairTick, StartTailRepair, Go,
    lockVars, lookVars, sessionVars, repairVars
<1>29. ASSUME NEW t \in Tails, RepairDone(t) PROVE LockInv'
  BY <1>29 DEF IInv, TypeInv, LockInv, Stages, Holding, Opened, Looking, Over, RepairDone, Go,
    lockVars, lookVars, sessionVars, repairVars
<1>30. ASSUME NEW t \in Tails, DeliverResult(t) PROVE LockInv'
  BY <1>30 DEF IInv, TypeInv, LockInv, Stages, Holding, Opened, Looking, Over, DeliverResult, Go,
    lockVars, lookVars, sessionVars, repairVars
<1>31. ASSUME NEW t \in Tails, UnlockRepair(t) PROVE LockInv'
  BY <1>31 DEF IInv, TypeInv, LockInv, Stages, Holding, Opened, Looking, Over, UnlockRepair, Go,
    lockVars, lookVars, sessionVars, repairVars
<1>32. ASSUME NEW t \in Tails, BeginLedger(t) PROVE LockInv'
  BY <1>32 DEF IInv, TypeInv, LockInv, Stages, Holding, Opened, Looking, Over, BeginLedger, Go,
    lockVars, lookVars, sessionVars, repairVars
<1>33. ASSUME NEW t \in Tails, CommitLedger(t) PROVE LockInv'
  BY <1>33 DEF IInv, TypeInv, LockInv, Stages, Holding, Opened, Looking, Over, CommitLedger, Go,
    lockVars, lookVars, sessionVars, repairVars
<1> QED BY <1>1, <1>2, <1>3, <1>4, <1>5, <1>6, <1>7, <1>8, <1>9, <1>10, <1>11, <1>12, <1>13, <1>14, <1>15, <1>16, 
           <1>17, <1>18, <1>19, <1>20, <1>21, <1>22, <1>23, <1>24, <1>25, <1>26, <1>27, <1>28, <1>29, <1>30, <1>31, <1>32, <1>33
        DEF Step, Advance, Session, Gateway, Loop, Repair, Tails

(* What a command sees as the owner is a tail, for only a tail writes so.  *)
LEMMA LookInvKept ==
  ASSUME IInv, Step PROVE LookInv'
<1>1. ASSUME NEW p \in Procs, Start(p) PROVE LookInv'
  BY <1>1 DEF IInv, TypeInv, LookInv, Stages, Holding, Opened, Looking, Over, Tails, Start, Go,
    lockVars, lookVars, sessionVars, repairVars
<1>2. ASSUME NEW p \in Procs, TryLock(p) PROVE LookInv'
  BY <1>2 DEF IInv, TypeInv, LookInv, Stages, Holding, Opened, Looking, Over, Tails, TryLock, Take, Go,
    lockVars, lookVars, sessionVars, repairVars
<1>3. ASSUME NEW p \in Procs, WriteMetadata(p) PROVE LookInv'
  BY <1>3 DEF IInv, TypeInv, LookInv, Stages, Holding, Opened, Looking, Over, Tails, WriteMetadata, Go,
    lockVars, lookVars, sessionVars, repairVars
<1>4. ASSUME NEW p \in Procs, GiveUp(p) PROVE LookInv'
  BY <1>4 DEF IInv, TypeInv, LookInv, Stages, Holding, Opened, Looking, Over, Tails, GiveUp, Go,
    lockVars, lookVars, sessionVars, repairVars
<1>5. ASSUME NEW p \in Procs, OpenServices(p) PROVE LookInv'
  BY <1>5 DEF IInv, TypeInv, LookInv, Stages, Holding, Opened, Looking, Over, Tails, OpenServices, Go,
    lockVars, lookVars, sessionVars, repairVars
<1>6. ASSUME NEW p \in Procs, Work(p) PROVE LookInv'
  BY <1>6 DEF IInv, TypeInv, LookInv, Stages, Holding, Opened, Looking, Over, Tails, Work, Go,
    lockVars, lookVars, sessionVars, repairVars
<1>7. ASSUME NEW p \in Procs, Close(p) PROVE LookInv'
  BY <1>7 DEF IInv, TypeInv, LookInv, Stages, Holding, Opened, Looking, Over, Tails, Close, Go,
    lockVars, lookVars, sessionVars, repairVars
<1>8. ASSUME NEW p \in Procs, Release(p) PROVE LookInv'
  BY <1>8 DEF IInv, TypeInv, LookInv, Stages, Holding, Opened, Looking, Over, Tails, Release, Go,
    lockVars, lookVars, sessionVars, repairVars
<1>9. ASSUME NEW p \in Procs, Exit(p) PROVE LookInv'
  BY <1>9 DEF IInv, TypeInv, LookInv, Stages, Holding, Opened, Looking, Over, Tails, Exit, Gone, Go,
    lockVars, lookVars, sessionVars, repairVars
<1>10. ASSUME NEW p \in Procs, Kill(p) PROVE LookInv'
  BY <1>10 DEF IInv, TypeInv, LookInv, Stages, Holding, Opened, Looking, Over, Tails, Kill, Gone, Alive, Go,
    lockVars, lookVars, sessionVars, repairVars
<1>11. ASSUME NEW p \in Procs, Look(p) PROVE LookInv'
  BY <1>11 DEF IInv, TypeInv, LookInv, Stages, Holding, Opened, Looking, Over, Tails, Look, NamesTail, Alive, Go,
    lockVars, lookVars, sessionVars, repairVars
<1>12. ASSUME NEW p \in Procs, Compare(p) PROVE LookInv'
  BY <1>12 DEF IInv, TypeInv, LookInv, Stages, Holding, Opened, Looking, Over, Tails, Compare, Found, Go,
    lockVars, lookVars, sessionVars, repairVars
<1>13. ASSUME NEW p \in Procs, Probe(p) PROVE LookInv'
  BY <1>13 DEF IInv, TypeInv, LookInv, Stages, Holding, Opened, Looking, Over, Tails, Probe, Found, Go,
    lockVars, lookVars, sessionVars, repairVars
<1>14. ASSUME NEW p \in Procs, Unprobe(p) PROVE LookInv'
  BY <1>14 DEF IInv, TypeInv, LookInv, Stages, Holding, Opened, Looking, Over, Tails, Unprobe, Go,
    lockVars, lookVars, sessionVars, repairVars
<1>15. ASSUME NEW p \in Procs, TryAgain(p) PROVE LookInv'
  BY <1>15 DEF IInv, TypeInv, LookInv, Stages, Holding, Opened, Looking, Over, Tails, TryAgain, Take, Found, Go,
    lockVars, lookVars, sessionVars, repairVars
<1>16. ASSUME NEW t \in Tails, FreeToken(t) PROVE LookInv'
  BY <1>16 DEF IInv, TypeInv, LookInv, Stages, Holding, Opened, Looking, Over, Tails, FreeToken, Go,
    lockVars, lookVars, sessionVars, repairVars
<1>17. ASSUME NEW t \in Tails, RemoveToken(t) PROVE LookInv'
  BY <1>17 DEF IInv, TypeInv, LookInv, Stages, Holding, Opened, Looking, Over, Tails, RemoveToken, Go,
    lockVars, lookVars, sessionVars, repairVars
<1>18. ASSUME NEW t \in Tails, LeaveLoop(t) PROVE LookInv'
  BY <1>18 DEF IInv, TypeInv, LookInv, Stages, Holding, Opened, Looking, Over, Tails, LeaveLoop, Go,
    lockVars, lookVars, sessionVars, repairVars
<1>19. ASSUME NEW t \in Tails, Join(t) PROVE LookInv'
  BY <1>19 DEF IInv, TypeInv, LookInv, Stages, Holding, Opened, Looking, Over, Tails, Join, Go,
    lockVars, lookVars, sessionVars, repairVars
<1>20. ASSUME NEW t \in Tails, JoinTimeout(t) PROVE LookInv'
  BY <1>20 DEF IInv, TypeInv, LookInv, Stages, Holding, Opened, Looking, Over, Tails, JoinTimeout, Go,
    lockVars, lookVars, sessionVars, repairVars
<1>21. ASSUME NEW t \in Tails, Drain(t) PROVE LookInv'
  BY <1>21 DEF IInv, TypeInv, LookInv, Stages, Holding, Opened, Looking, Over, Tails, Drain, Go,
    lockVars, lookVars, sessionVars, repairVars
<1>22. ASSUME NEW t \in Tails, HelperReturns(t) PROVE LookInv'
  BY <1>22 DEF IInv, TypeInv, LookInv, Stages, Holding, Opened, Looking, Over, Tails, HelperReturns, Go,
    lockVars, lookVars, sessionVars, repairVars
<1>23. ASSUME NEW t \in Tails, ActivateToken(t) PROVE LookInv'
  BY <1>23 DEF IInv, TypeInv, LookInv, Stages, Holding, Opened, Looking, Over, Tails, ActivateToken, Go,
    lockVars, lookVars, sessionVars, repairVars
<1>24. ASSUME NEW t \in Tails, ActivateTail(t) PROVE LookInv'
  BY <1>24 DEF IInv, TypeInv, LookInv, Stages, Holding, Opened, Looking, Over, Tails, ActivateTail, Go,
    lockVars, lookVars, sessionVars, repairVars
<1>25. ASSUME NEW t \in Tails, TailReturns(t) PROVE LookInv'
  BY <1>25 DEF IInv, TypeInv, LookInv, Stages, Holding, Opened, Looking, Over, Tails, TailReturns, Go,
    lockVars, lookVars, sessionVars, repairVars
<1>26. ASSUME NEW t \in Tails, Interrupt(t) PROVE LookInv'
  BY <1>26 DEF IInv, TypeInv, LookInv, Stages, Holding, Opened, Looking, Over, Tails, Interrupt, Go,
    lockVars, lookVars, sessionVars, repairVars
<1>27. ASSUME NEW t \in Tails, StartupRepair(t) PROVE LookInv'
  BY <1>27 DEF IInv, TypeInv, LookInv, Stages, Holding, Opened, Looking, Over, Tails, StartupRepair, StartTailRepair, Go,
    lockVars, lookVars, sessionVars, repairVars
<1>28. ASSUME NEW t \in Tails, RepairTick(t) PROVE LookInv'
  BY <1>28 DEF IInv, TypeInv, LookInv, Stages, Holding, Opened, Looking, Over, Tails, RepairTick, StartTailRepair, Go,
    lockVars, lookVars, sessionVars, repairVars
<1>29. ASSUME NEW t \in Tails, RepairDone(t) PROVE LookInv'
  BY <1>29 DEF IInv, TypeInv, LookInv, Stages, Holding, Opened, Looking, Over, Tails, RepairDone, Go,
    lockVars, lookVars, sessionVars, repairVars
<1>30. ASSUME NEW t \in Tails, DeliverResult(t) PROVE LookInv'
  BY <1>30 DEF IInv, TypeInv, LookInv, Stages, Holding, Opened, Looking, Over, Tails, DeliverResult, Go,
    lockVars, lookVars, sessionVars, repairVars
<1>31. ASSUME NEW t \in Tails, UnlockRepair(t) PROVE LookInv'
  BY <1>31 DEF IInv, TypeInv, LookInv, Stages, Holding, Opened, Looking, Over, Tails, UnlockRepair, Go,
    lockVars, lookVars, sessionVars, repairVars
<1>32. ASSUME NEW t \in Tails, BeginLedger(t) PROVE LookInv'
  BY <1>32 DEF IInv, TypeInv, LookInv, Stages, Holding, Opened, Looking, Over, Tails, BeginLedger, Go,
    lockVars, lookVars, sessionVars, repairVars
<1>33. ASSUME NEW t \in Tails, CommitLedger(t) PROVE LookInv'
  BY <1>33 DEF IInv, TypeInv, LookInv, Stages, Holding, Opened, Looking, Over, Tails, CommitLedger, Go,
    lockVars, lookVars, sessionVars, repairVars
<1> QED BY <1>1, <1>2, <1>3, <1>4, <1>5, <1>6, <1>7, <1>8, <1>9, <1>10, <1>11, <1>12, <1>13, <1>14, <1>15, <1>16, 
           <1>17, <1>18, <1>19, <1>20, <1>21, <1>22, <1>23, <1>24, <1>25, <1>26, <1>27, <1>28, <1>29, <1>30, <1>31, <1>32, <1>33
        DEF Step, Advance, Session, Gateway, Loop, Repair, Tails

(* A token is its tail's from the ready callback to the end of the session.*)
LEMMA TokenInvKept ==
  ASSUME IInv, Step PROVE TokenInv'
<1>1. ASSUME NEW p \in Procs, Start(p) PROVE TokenInv'
  BY <1>1 DEF IInv, TypeInv, LockInv, LookInv, TokenInv, Holding, Opened, Looking, Over, Start, Go,
    lockVars, lookVars, sessionVars, repairVars
<1>2. ASSUME NEW p \in Procs, TryLock(p) PROVE TokenInv'
  BY <1>2, Waits DEF IInv, TokenInv, Busy, Ending, TryLock, lockVars, sessionVars, repairVars
<1>3. ASSUME NEW p \in Procs, WriteMetadata(p) PROVE TokenInv'
  BY <1>3 DEF IInv, TypeInv, LockInv, LookInv, TokenInv, Holding, Opened, Looking, Over, WriteMetadata, Go,
    lockVars, lookVars, sessionVars, repairVars
<1>4. ASSUME NEW p \in Procs, GiveUp(p) PROVE TokenInv'
  BY <1>4 DEF IInv, TypeInv, LockInv, LookInv, TokenInv, Holding, Opened, Looking, Over, GiveUp, Go,
    lockVars, lookVars, sessionVars, repairVars
<1>5. ASSUME NEW p \in Procs, OpenServices(p) PROVE TokenInv'
  <2>1. p \in Tails => tokenLock[p] # p
    BY <1>5 DEF IInv, TokenInv, OpenServices
  <2>2. CASE p \in Tails
    <3>1. \A t \in Tails : t # p => pc'[t] = pc[t] /\ gateway'[t] = gateway[t]
      BY <1>5, <2>2 DEF IInv, TypeInv, OpenServices, Go, Tails
    <3>2. pc'[p] = "loop" /\ gateway'[p] = "connecting"
      BY <1>5, <2>2 DEF IInv, TypeInv, OpenServices, Go
    <3> QED BY <1>5, <2>1, <3>1, <3>2 DEF IInv, TokenInv, OpenServices
  <2>3. CASE p \notin Tails
    <3>1. \A t \in Tails : pc'[t] = pc[t]
      BY <1>5, <2>3 DEF IInv, TypeInv, OpenServices, Go, Tails
    <3> QED BY <1>5, <2>3, <3>1 DEF IInv, TokenInv, OpenServices
  <2> QED BY <2>2, <2>3
<1>6. ASSUME NEW p \in Procs, Work(p) PROVE TokenInv'
  BY <1>6 DEF IInv, TypeInv, LockInv, LookInv, TokenInv, Holding, Opened, Looking, Over, Work, Go,
    lockVars, lookVars, sessionVars, repairVars
<1>7. ASSUME NEW p \in Procs, Close(p) PROVE TokenInv'
  BY <1>7 DEF IInv, TypeInv, LockInv, LookInv, TokenInv, Holding, Opened, Looking, Over, Close, Go,
    lockVars, lookVars, sessionVars, repairVars
<1>8. ASSUME NEW p \in Procs, Release(p) PROVE TokenInv'
  BY <1>8 DEF IInv, TypeInv, LockInv, LookInv, TokenInv, Holding, Opened, Looking, Over, Release, Go,
    lockVars, lookVars, sessionVars, repairVars
<1>9. ASSUME NEW p \in Procs, Exit(p) PROVE TokenInv'
  BY <1>9 DEF IInv, TypeInv, LockInv, LookInv, TokenInv, Holding, Opened, Looking, Over, Exit, Gone, Go,
    lockVars, lookVars, sessionVars, repairVars
<1>10. ASSUME NEW p \in Procs, Kill(p) PROVE TokenInv'
  <2> SUFFICES ASSUME NEW t \in Tails
               PROVE  /\ gateway'[t] \notin {"off", "returned"} => pc'[t] \in {"loop", "join", "drain"}
                      /\ tokenLock'[t] \in Tails => tokenLock'[t] = t
                      /\ tokenLock'[t] = t => /\ t \in tokenFile'
                                              /\ pc'[t] \in {"loop", "join", "drain", "close", "untoken"}
    BY DEF TokenInv
  <2>1. t \in Procs /\ None \notin Tails
    BY DEF Tails
  <2>2. CASE t = p
    BY <1>10, <2>1, <2>2 DEF IInv, TypeInv, TokenInv, Kill, Gone
  <2>3. CASE t # p
    <3>1. pc'[t] = pc[t] /\ gateway'[t] = gateway[t]
      BY <1>10, <2>1, <2>3 DEF IInv, TypeInv, Kill, Gone, Go
    <3> QED BY <1>10, <2>1, <3>1 DEF IInv, TypeInv, TokenInv, Kill
  <2> QED BY <2>2, <2>3
<1>11. ASSUME NEW p \in Procs, Look(p) PROVE TokenInv'
  BY <1>11, Waits DEF IInv, TokenInv, Busy, Ending, Look, lockVars, sessionVars, repairVars
<1>12. ASSUME NEW p \in Procs, Compare(p) PROVE TokenInv'
  BY <1>12 DEF IInv, TypeInv, LockInv, LookInv, TokenInv, Holding, Opened, Looking, Over, Compare, Found, Go,
    lockVars, lookVars, sessionVars, repairVars
<1>13. ASSUME NEW p \in Procs, Probe(p) PROVE TokenInv'
  <2>1. seen[p] \in Tails /\ p \notin Tails
    BY <1>13 DEF IInv, LookInv, Probe, Looking
  <2>2. \A t \in Tails : tokenLock'[t] = tokenLock[t] \/ tokenLock'[t] = p
    BY <1>13, <2>1 DEF IInv, TypeInv, Probe
  <2>3. tokenFile \subseteq tokenFile'
    BY <1>13 DEF Probe
  <2> QED BY <1>13, <2>1, <2>2, <2>3, Waits DEF IInv, TokenInv, Busy, Ending, Probe, sessionVars, repairVars
<1>14. ASSUME NEW p \in Procs, Unprobe(p) PROVE TokenInv'
  <2>1. None \notin Tails
    BY DEF Tails
  <2>2. \A t \in Tails : tokenLock'[t] = tokenLock[t] \/ tokenLock'[t] = None
    BY <1>14 DEF Unprobe
  <2> QED BY <1>14, <2>1, <2>2, Waits DEF IInv, TokenInv, Busy, Ending, Unprobe, sessionVars, repairVars
<1>15. ASSUME NEW p \in Procs, TryAgain(p) PROVE TokenInv'
  BY <1>15, Waits DEF IInv, TokenInv, Busy, Ending, TryAgain, lockVars, sessionVars, repairVars
<1>16. ASSUME NEW t \in Tails, FreeToken(t) PROVE TokenInv'
  <2>1. None \notin Tails /\ t \in Procs
    BY DEF Tails
  <2>2. \A s \in Tails : tokenLock'[s] = IF s = t THEN None ELSE tokenLock[s]
    BY <1>16 DEF IInv, TypeInv, FreeToken
  <2>3. \A s \in Tails : s # t => pc'[s] = pc[s] /\ (s \in tokenFile => s \in tokenFile')
    BY <1>16, <2>1 DEF IInv, TypeInv, FreeToken, Go, Tails
  <2>4. gateway[t] \in {"off", "returned"}
    BY <1>16 DEF IInv, TokenInv, FreeToken
  <2> QED BY <1>16, <2>1, <2>2, <2>3, <2>4 DEF IInv, TokenInv, FreeToken, sessionVars, repairVars
<1>17. ASSUME NEW t \in Tails, RemoveToken(t) PROVE TokenInv'
  <2>1. None \notin Tails /\ t \in Procs
    BY DEF Tails
  <2>2. \A s \in Tails : tokenLock'[s] = IF s = t THEN None ELSE tokenLock[s]
    BY <1>17 DEF IInv, TypeInv, RemoveToken
  <2>3. \A s \in Tails : s # t => pc'[s] = pc[s] /\ (s \in tokenFile => s \in tokenFile')
    BY <1>17, <2>1 DEF IInv, TypeInv, RemoveToken, Go, Tails
  <2>4. gateway[t] \in {"off", "returned"}
    BY <1>17 DEF IInv, TokenInv, RemoveToken
  <2> QED BY <1>17, <2>1, <2>2, <2>3, <2>4 DEF IInv, TokenInv, RemoveToken, sessionVars, repairVars
<1>18. ASSUME NEW t \in Tails, LeaveLoop(t) PROVE TokenInv'
  BY <1>18 DEF IInv, TypeInv, LockInv, LookInv, TokenInv, Holding, Opened, Looking, Over, LeaveLoop, Go,
    lockVars, lookVars, sessionVars, repairVars
<1>19. ASSUME NEW t \in Tails, Join(t) PROVE TokenInv'
  BY <1>19 DEF IInv, TypeInv, LockInv, LookInv, TokenInv, Holding, Opened, Looking, Over, Join, Go,
    lockVars, lookVars, sessionVars, repairVars
<1>20. ASSUME NEW t \in Tails, JoinTimeout(t) PROVE TokenInv'
  BY <1>20 DEF IInv, TypeInv, LockInv, LookInv, TokenInv, Holding, Opened, Looking, Over, JoinTimeout, Go,
    lockVars, lookVars, sessionVars, repairVars
<1>21. ASSUME NEW t \in Tails, Drain(t) PROVE TokenInv'
  BY <1>21 DEF IInv, TypeInv, LockInv, LookInv, TokenInv, Holding, Opened, Looking, Over, Drain, Go,
    lockVars, lookVars, sessionVars, repairVars
<1>22. ASSUME NEW t \in Tails, HelperReturns(t) PROVE TokenInv'
  BY <1>22 DEF IInv, TypeInv, LockInv, LookInv, TokenInv, Holding, Opened, Looking, Over, HelperReturns, Go,
    lockVars, lookVars, sessionVars, repairVars
<1>23. ASSUME NEW t \in Tails, ActivateToken(t) PROVE TokenInv'
  BY <1>23 DEF IInv, TypeInv, LockInv, LookInv, TokenInv, Holding, Opened, Looking, Over, ActivateToken, Go,
    lockVars, lookVars, sessionVars, repairVars
<1>24. ASSUME NEW t \in Tails, ActivateTail(t) PROVE TokenInv'
  BY <1>24 DEF IInv, TypeInv, LockInv, LookInv, TokenInv, Holding, Opened, Looking, Over, ActivateTail, Go,
    lockVars, lookVars, sessionVars, repairVars
<1>25. ASSUME NEW t \in Tails, TailReturns(t) PROVE TokenInv'
  BY <1>25 DEF IInv, TypeInv, LockInv, LookInv, TokenInv, Holding, Opened, Looking, Over, TailReturns, Go,
    lockVars, lookVars, sessionVars, repairVars
<1>26. ASSUME NEW t \in Tails, Interrupt(t) PROVE TokenInv'
  BY <1>26 DEF IInv, TypeInv, LockInv, LookInv, TokenInv, Holding, Opened, Looking, Over, Interrupt, Go,
    lockVars, lookVars, sessionVars, repairVars
<1>27. ASSUME NEW t \in Tails, StartupRepair(t) PROVE TokenInv'
  BY <1>27 DEF IInv, TypeInv, LockInv, LookInv, TokenInv, Holding, Opened, Looking, Over, StartupRepair, StartTailRepair, Go,
    lockVars, lookVars, sessionVars, repairVars
<1>28. ASSUME NEW t \in Tails, RepairTick(t) PROVE TokenInv'
  BY <1>28 DEF IInv, TypeInv, LockInv, LookInv, TokenInv, Holding, Opened, Looking, Over, RepairTick, StartTailRepair, Go,
    lockVars, lookVars, sessionVars, repairVars
<1>29. ASSUME NEW t \in Tails, RepairDone(t) PROVE TokenInv'
  BY <1>29 DEF IInv, TypeInv, LockInv, LookInv, TokenInv, Holding, Opened, Looking, Over, RepairDone, Go,
    lockVars, lookVars, sessionVars, repairVars
<1>30. ASSUME NEW t \in Tails, DeliverResult(t) PROVE TokenInv'
  BY <1>30 DEF IInv, TypeInv, LockInv, LookInv, TokenInv, Holding, Opened, Looking, Over, DeliverResult, Go,
    lockVars, lookVars, sessionVars, repairVars
<1>31. ASSUME NEW t \in Tails, UnlockRepair(t) PROVE TokenInv'
  BY <1>31 DEF IInv, TypeInv, LockInv, LookInv, TokenInv, Holding, Opened, Looking, Over, UnlockRepair, Go,
    lockVars, lookVars, sessionVars, repairVars
<1>32. ASSUME NEW t \in Tails, BeginLedger(t) PROVE TokenInv'
  BY <1>32 DEF IInv, TypeInv, LockInv, LookInv, TokenInv, Holding, Opened, Looking, Over, BeginLedger, Go,
    lockVars, lookVars, sessionVars, repairVars
<1>33. ASSUME NEW t \in Tails, CommitLedger(t) PROVE TokenInv'
  BY <1>33 DEF IInv, TypeInv, LockInv, LookInv, TokenInv, Holding, Opened, Looking, Over, CommitLedger, Go,
    lockVars, lookVars, sessionVars, repairVars
<1> QED BY <1>1, <1>2, <1>3, <1>4, <1>5, <1>6, <1>7, <1>8, <1>9, <1>10, <1>11, <1>12, <1>13, <1>14, <1>15, <1>16, 
           <1>17, <1>18, <1>19, <1>20, <1>21, <1>22, <1>23, <1>24, <1>25, <1>26, <1>27, <1>28, <1>29, <1>30, <1>31, <1>32, <1>33
        DEF Step, Advance, Session, Gateway, Loop, Repair, Tails

(* The loop starts a run only when it has none and ends over one only as a *)
(* fatal error.                                                            *)
LEMMA RepairInvKept ==
  ASSUME IInv, Step PROVE RepairInv'
<1>1. ASSUME NEW p \in Procs, Start(p) PROVE RepairInv'
  BY <1>1 DEF IInv, TypeInv, RepairInv, Ending, Looking, LookInv, Start, Go,
    lockVars, lookVars, sessionVars, repairVars
<1>2. ASSUME NEW p \in Procs, TryLock(p) PROVE RepairInv'
  BY <1>2, Waits DEF IInv, RepairInv, Busy, TryLock, sessionVars, repairVars
<1>3. ASSUME NEW p \in Procs, WriteMetadata(p) PROVE RepairInv'
  BY <1>3 DEF IInv, TypeInv, RepairInv, Ending, Looking, LookInv, WriteMetadata, Go,
    lockVars, lookVars, sessionVars, repairVars
<1>4. ASSUME NEW p \in Procs, GiveUp(p) PROVE RepairInv'
  BY <1>4 DEF IInv, TypeInv, RepairInv, Ending, Looking, LookInv, GiveUp, Go,
    lockVars, lookVars, sessionVars, repairVars
<1>5. ASSUME NEW p \in Procs, OpenServices(p) PROVE RepairInv'
  <2>1. \A t \in Tails : t # p => pc'[t] = pc[t]
    BY <1>5 DEF IInv, TypeInv, OpenServices, Go, Tails
  <2>2. p \in Tails => repair[p] = "none" /\ ~result[p] /\ pc'[p] = "loop"
    BY <1>5 DEF IInv, TypeInv, RepairInv, Ending, OpenServices, Go
  <2> QED BY <1>5, <2>1, <2>2 DEF IInv, RepairInv, Ending, OpenServices, repairVars
<1>6. ASSUME NEW p \in Procs, Work(p) PROVE RepairInv'
  BY <1>6 DEF IInv, TypeInv, RepairInv, Ending, Looking, LookInv, Work, Go,
    lockVars, lookVars, sessionVars, repairVars
<1>7. ASSUME NEW p \in Procs, Close(p) PROVE RepairInv'
  BY <1>7 DEF IInv, TypeInv, RepairInv, Ending, Looking, LookInv, Close, Go,
    lockVars, lookVars, sessionVars, repairVars
<1>8. ASSUME NEW p \in Procs, Release(p) PROVE RepairInv'
  BY <1>8 DEF IInv, TypeInv, RepairInv, Ending, Looking, LookInv, Release, Go,
    lockVars, lookVars, sessionVars, repairVars
<1>9. ASSUME NEW p \in Procs, Exit(p) PROVE RepairInv'
  BY <1>9 DEF IInv, TypeInv, RepairInv, Ending, Looking, LookInv, Exit, Gone, Go,
    lockVars, lookVars, sessionVars, repairVars
<1>10. ASSUME NEW p \in Procs, Kill(p) PROVE RepairInv'
  BY <1>10 DEF IInv, TypeInv, RepairInv, Ending, Looking, LookInv, Kill, Gone, Alive, Go,
    lockVars, lookVars, sessionVars, repairVars
<1>11. ASSUME NEW p \in Procs, Look(p) PROVE RepairInv'
  BY <1>11, Waits DEF IInv, RepairInv, Busy, Look, sessionVars, repairVars
<1>12. ASSUME NEW p \in Procs, Compare(p) PROVE RepairInv'
  BY <1>12 DEF IInv, TypeInv, RepairInv, Ending, Looking, LookInv, Compare, Found, Go,
    lockVars, lookVars, sessionVars, repairVars
<1>13. ASSUME NEW p \in Procs, Probe(p) PROVE RepairInv'
  BY <1>13, Waits DEF IInv, RepairInv, Busy, Probe, sessionVars, repairVars
<1>14. ASSUME NEW p \in Procs, Unprobe(p) PROVE RepairInv'
  BY <1>14 DEF IInv, TypeInv, RepairInv, Ending, Looking, LookInv, Unprobe, Go,
    lockVars, lookVars, sessionVars, repairVars
<1>15. ASSUME NEW p \in Procs, TryAgain(p) PROVE RepairInv'
  BY <1>15, Waits DEF IInv, RepairInv, Busy, TryAgain, sessionVars, repairVars
<1>16. ASSUME NEW t \in Tails, FreeToken(t) PROVE RepairInv'
  BY <1>16 DEF IInv, TypeInv, RepairInv, Ending, Looking, LookInv, FreeToken, Go,
    lockVars, lookVars, sessionVars, repairVars
<1>17. ASSUME NEW t \in Tails, RemoveToken(t) PROVE RepairInv'
  BY <1>17 DEF IInv, TypeInv, RepairInv, Ending, Looking, LookInv, RemoveToken, Go,
    lockVars, lookVars, sessionVars, repairVars
<1>18. ASSUME NEW t \in Tails, LeaveLoop(t) PROVE RepairInv'
  BY <1>18 DEF IInv, TypeInv, RepairInv, Ending, Looking, LookInv, LeaveLoop, Go,
    lockVars, lookVars, sessionVars, repairVars
<1>19. ASSUME NEW t \in Tails, Join(t) PROVE RepairInv'
  BY <1>19 DEF IInv, TypeInv, RepairInv, Ending, Looking, LookInv, Join, Go,
    lockVars, lookVars, sessionVars, repairVars
<1>20. ASSUME NEW t \in Tails, JoinTimeout(t) PROVE RepairInv'
  BY <1>20 DEF IInv, TypeInv, RepairInv, Ending, Looking, LookInv, JoinTimeout, Go,
    lockVars, lookVars, sessionVars, repairVars
<1>21. ASSUME NEW t \in Tails, Drain(t) PROVE RepairInv'
  BY <1>21 DEF IInv, TypeInv, RepairInv, Ending, Looking, LookInv, Drain, Go,
    lockVars, lookVars, sessionVars, repairVars
<1>22. ASSUME NEW t \in Tails, HelperReturns(t) PROVE RepairInv'
  BY <1>22 DEF IInv, TypeInv, RepairInv, Ending, Looking, LookInv, HelperReturns, Go,
    lockVars, lookVars, sessionVars, repairVars
<1>23. ASSUME NEW t \in Tails, ActivateToken(t) PROVE RepairInv'
  BY <1>23 DEF IInv, TypeInv, RepairInv, Ending, Looking, LookInv, ActivateToken, Go,
    lockVars, lookVars, sessionVars, repairVars
<1>24. ASSUME NEW t \in Tails, ActivateTail(t) PROVE RepairInv'
  BY <1>24 DEF IInv, TypeInv, RepairInv, Ending, Looking, LookInv, ActivateTail, Go,
    lockVars, lookVars, sessionVars, repairVars
<1>25. ASSUME NEW t \in Tails, TailReturns(t) PROVE RepairInv'
  BY <1>25 DEF IInv, TypeInv, RepairInv, Ending, Looking, LookInv, TailReturns, Go,
    lockVars, lookVars, sessionVars, repairVars
<1>26. ASSUME NEW t \in Tails, Interrupt(t) PROVE RepairInv'
  BY <1>26 DEF IInv, TypeInv, RepairInv, Ending, Looking, LookInv, Interrupt, Go,
    lockVars, lookVars, sessionVars, repairVars
<1>27. ASSUME NEW t \in Tails, StartupRepair(t) PROVE RepairInv'
  <2>1. ~result[t] /\ repair[t] # "run" /\ pc[t] = "loop" /\ startup'[t] = "done"
    BY <1>27 DEF IInv, TypeInv, RepairInv, StartupRepair
  <2>2. \A s \in Tails : s # t => startup'[s] = startup[s]
    BY <1>27 DEF IInv, TypeInv, StartupRepair
  <2>3. CASE cancelled[t]
    BY <1>27, <2>1, <2>2, <2>3 DEF IInv, TypeInv, RepairInv, StartupRepair, Ending
  <2>4. CASE ~cancelled[t] /\ mutex[t]
    <3>1. /\ active' = [active EXCEPT ![t] = FALSE] /\ mutex' = [mutex EXCEPT ![t] = TRUE]
          /\ repair' = [repair EXCEPT ![t] = repair[t]]
      BY <1>27, <2>4 DEF StartupRepair, StartTailRepair
    <3> QED BY <1>27, <2>1, <2>2, <2>4, <3>1 DEF IInv, TypeInv, RepairInv, StartupRepair, Ending
  <2>5. CASE ~cancelled[t] /\ ~mutex[t]
    <3>1. /\ active' = [active EXCEPT ![t] = TRUE] /\ mutex' = [mutex EXCEPT ![t] = TRUE]
          /\ repair' = [repair EXCEPT ![t] = "run"]
      BY <1>27, <2>5 DEF StartupRepair, StartTailRepair
    <3> QED BY <1>27, <2>1, <2>2, <2>5, <3>1 DEF IInv, TypeInv, RepairInv, StartupRepair, Ending
  <2> QED BY <2>3, <2>4, <2>5
<1>28. ASSUME NEW t \in Tails, RepairTick(t) PROVE RepairInv'
  <2>1. ~result[t] /\ repair[t] # "run" /\ pc[t] = "loop" /\ startup'[t] = "done"
    BY <1>28 DEF IInv, TypeInv, RepairInv, RepairTick
  <2>2. \A s \in Tails : s # t => startup'[s] = startup[s]
    BY <1>28 DEF IInv, TypeInv, RepairTick
  <2>4. CASE mutex[t]
    <3>1. /\ active' = [active EXCEPT ![t] = FALSE] /\ mutex' = [mutex EXCEPT ![t] = TRUE]
          /\ repair' = [repair EXCEPT ![t] = repair[t]]
      BY <1>28, <2>4 DEF RepairTick, StartTailRepair
    <3> QED BY <1>28, <2>1, <2>2, <2>4, <3>1 DEF IInv, TypeInv, RepairInv, RepairTick, Ending
  <2>5. CASE ~mutex[t]
    <3>1. /\ active' = [active EXCEPT ![t] = TRUE] /\ mutex' = [mutex EXCEPT ![t] = TRUE]
          /\ repair' = [repair EXCEPT ![t] = "run"]
      BY <1>28, <2>5 DEF RepairTick, StartTailRepair
    <3> QED BY <1>28, <2>1, <2>2, <2>5, <3>1 DEF IInv, TypeInv, RepairInv, RepairTick, Ending
  <2> QED BY <2>4, <2>5
<1>29. ASSUME NEW t \in Tails, RepairDone(t) PROVE RepairInv'
  BY <1>29 DEF IInv, TypeInv, RepairInv, Ending, Looking, LookInv, RepairDone, Go,
    lockVars, lookVars, sessionVars, repairVars
<1>30. ASSUME NEW t \in Tails, DeliverResult(t) PROVE RepairInv'
  BY <1>30 DEF IInv, TypeInv, RepairInv, Ending, Looking, LookInv, DeliverResult, Go,
    lockVars, lookVars, sessionVars, repairVars
<1>31. ASSUME NEW t \in Tails, UnlockRepair(t) PROVE RepairInv'
  BY <1>31 DEF IInv, TypeInv, RepairInv, Ending, Looking, LookInv, UnlockRepair, Go,
    lockVars, lookVars, sessionVars, repairVars
<1>32. ASSUME NEW t \in Tails, BeginLedger(t) PROVE RepairInv'
  BY <1>32 DEF IInv, TypeInv, RepairInv, Ending, Looking, LookInv, BeginLedger, Go,
    lockVars, lookVars, sessionVars, repairVars
<1>33. ASSUME NEW t \in Tails, CommitLedger(t) PROVE RepairInv'
  BY <1>33 DEF IInv, TypeInv, RepairInv, Ending, Looking, LookInv, CommitLedger, Go,
    lockVars, lookVars, sessionVars, repairVars
<1> QED BY <1>1, <1>2, <1>3, <1>4, <1>5, <1>6, <1>7, <1>8, <1>9, <1>10, <1>11, <1>12, <1>13, <1>14, <1>15, <1>16, 
           <1>17, <1>18, <1>19, <1>20, <1>21, <1>22, <1>23, <1>24, <1>25, <1>26, <1>27, <1>28, <1>29, <1>30, <1>31, <1>32, <1>33
        DEF Step, Advance, Session, Gateway, Loop, Repair, Tails
(* A token is locked by its tail in a step that finds the tail holding the *)
(* writer lock, or was locked so before.                                   *)
LEMMA SinceInvKept ==
  ASSUME IInv, Step, Watch PROVE SinceInv'
<1> SUFFICES ASSUME NEW t \in Tails, tokenLock'[t] = t, NEW p \in Procs PROVE since'[p]
  BY DEF SinceInv
<1>1. t \in Procs /\ None \notin Tails
  BY DEF Tails
<1>2. gateway[t] = "connecting" \/ tokenLock[t] = t
  <2>1. ASSUME NEW q \in Procs, Start(q) \/ Advance(q) \/ GiveUp(q) \/ Kill(q)
        PROVE  tokenLock[t] = t
    <3>1. CASE Probe(q)
      BY <1>1, <3>1 DEF IInv, TypeInv, LookInv, Looking, Probe
    <3>2. CASE Unprobe(q) \/ Kill(q)
      BY <1>1, <3>2 DEF Unprobe, Kill
    <3>3. CASE q \in Tails /\ (FreeToken(q) \/ RemoveToken(q))
      BY <1>1, <3>3 DEF IInv, TypeInv, FreeToken, RemoveToken
    <3>4. CASE UNCHANGED tokenLock
      BY <3>4
    <3> QED BY <2>1, <3>1, <3>2, <3>3, <3>4 DEF Advance, Start, GiveUp, TryLock, WriteMetadata, OpenServices,
               Work, Close, Release, Exit, Look, Compare, TryAgain, lockVars
  <2>2. ASSUME NEW s \in Tails, ActivateToken(s) PROVE gateway[t] = "connecting" \/ tokenLock[t] = t
    BY <2>2 DEF IInv, TypeInv, ActivateToken
  <2>3. ASSUME NEW s \in Tails, Session(s) \/ ActivateTail(s) \/ Loop(s) \/ Repair(s) \/ TailReturns(s)
                                 \/ Interrupt(s) \/ RepairTick(s)
        PROVE  tokenLock[t] = t
    BY <2>3 DEF Session, LeaveLoop, Join, JoinTimeout, Drain, HelperReturns, ActivateTail, Loop, StartupRepair,
                RepairDone, Repair, BeginLedger, CommitLedger, DeliverResult, UnlockRepair, TailReturns, Interrupt,
                RepairTick, lockVars
  <2> QED BY <2>1, <2>2, <2>3 DEF Step, Gateway
<1>3. flock = t
  BY <1>1, <1>2 DEF IInv, LockInv, TokenInv, Holding, Opened
<1> QED BY <1>3 DEF Watch, TailHolds

(* Every reachable state satisfies the inductive invariant.                *)
LEMMA Invariance == Spec => []IInv
<1>1. Init => IInv
  BY DEF Init, IInv, TypeInv, LockInv, LookInv, TokenInv, SinceInv, RepairInv, Stages, Holding, Opened, Looking,
         Ending, Over, Tails
<1>2. IInv /\ [Next]_vars => IInv'
  <2>1. CASE Next
    BY <2>1, TypeInvKept, LockInvKept, LookInvKept, TokenInvKept, SinceInvKept, RepairInvKept DEF Next, IInv
  <2>2. CASE UNCHANGED vars
    BY <2>2 DEF IInv, TypeInv, LockInv, LookInv, TokenInv, SinceInv, RepairInv, vars, lockVars, lookVars,
                sessionVars, repairVars
  <2> QED BY <2>1, <2>2
<1> QED BY <1>1, <1>2, PTL DEF Spec

(* Only the holder of the writer lock has a store open, whatever is killed *)
(* and however sessions end, and no session ends quietly over a repair     *)
(* that is still running.                                                  *)
THEOREM OnlyTheOwnerWrites == Spec => []OwnerWrites
<1>1. IInv => OwnerWrites
  BY DEF IInv, TypeInv, LockInv, RepairInv, OwnerWrites, Holding, Opened, Ending
<1> QED BY <1>1, Invariance, PTL

(* A messages command is refused for a live tail only if a tail did hold   *)
(* the lock since its attempt began, or it met another command's probe.    *)
THEOREM RefusedByATail == Spec => RefusalMeansTail
<1>1. IInv /\ [Next]_vars =>
        [\A p \in Procs : pc[p] # "refused" /\ pc'[p] = "refused" =>
           since[p] \/ \E q \in Procs \ Tails : tokenLock[seen[p]] = q]_vars
  <2> SUFFICES ASSUME IInv, Next, NEW p \in Procs, pc[p] # "refused", pc'[p] = "refused"
               PROVE  since[p] \/ \E q \in Procs \ Tails : tokenLock[seen[p]] = q
    OBVIOUS
  <2>1. Probe(p) /\ tokenLock[seen[p]] # None
    <3>1. ASSUME NEW q \in Procs, Start(q) \/ Advance(q) \/ GiveUp(q) \/ Kill(q)
          PROVE  Probe(p) /\ tokenLock[seen[p]] # None
      <4>1. CASE Probe(q)
        BY <4>1 DEF IInv, TypeInv, Probe, Found, Go
      <4>2. CASE ~Probe(q)
        BY <3>1, <4>2 DEF IInv, TypeInv, Advance, Start, GiveUp, Kill, TryLock, Take, WriteMetadata, OpenServices,
           Work, Close, Release, Exit, Look, Compare, Unprobe, TryAgain, FreeToken, RemoveToken, Go
      <4> QED BY <4>1, <4>2
    <3>2. ASSUME NEW s \in Tails, \/ Session(s) \/ Gateway(s) \/ Loop(s) \/ Repair(s) \/ TailReturns(s)
                                  \/ Interrupt(s) \/ RepairTick(s)
          PROVE  FALSE
      BY <3>2 DEF IInv, TypeInv, Session, LeaveLoop, Join, JoinTimeout, Drain, HelperReturns, Gateway, ActivateToken,
                  ActivateTail, Loop, StartupRepair, RepairDone, Repair, BeginLedger, CommitLedger, DeliverResult,
                  UnlockRepair, TailReturns, Interrupt, RepairTick, Go
    <3> QED BY <3>1, <3>2 DEF Next, Step
  <2>2. seen[p] \in Tails /\ tokenLock[seen[p]] \in Procs
    BY <2>1 DEF IInv, TypeInv, LookInv, Probe
  <2>3. CASE tokenLock[seen[p]] \in Tails
    BY <2>2, <2>3 DEF IInv, TokenInv, SinceInv
  <2>4. CASE tokenLock[seen[p]] \notin Tails
    BY <2>2, <2>4
  <2> QED BY <2>3, <2>4
<1> QED BY <1>1, Invariance, PTL DEF Spec, RefusalMeansTail
==============================================================================

------------------------- MODULE TailRecoveryProofs -------------------------
(***************************************************************************)
(* Proofs about TailRecovery for every set of messages, number of versions *)
(* and replay limit: recovery never takes a row back (any edit stamps),    *)
(* and no accepted failure and no archived event is lost (when edits are   *)
(* totally ordered by their stamps).                                       *)
(***************************************************************************)
EXTENDS TailRecovery, TLAPS

-----------------------------------------------------------------------------
(* The worker's event is an event, and names a ledger identity.            *)
LEMMA WorkerEvent ==
  ASSUME Typed, wpc # "idle"
  PROVE  /\ wev \in Events /\ Key \in Keys /\ wev.msg \in Msgs /\ wev.kind \in Kinds
         /\ wev.ver \in 1..MaxVer /\ wev.ver \in Versions
         /\ Key[1] = wev.kind /\ Key[2] = wev.msg
BY MaxVerAssumption DEF Typed, Events, Keys, Key, Versions

(* Owing an event records a version of it.                                 *)
LEMMA OweType ==
  ASSUME Typed, wpc # "idle", Owe
  PROVE  owed' \in [Keys -> Versions]
BY WorkerEvent DEF Owe, Typed

(* What recording a failure does to the sets of the ledger.                *)
LEMMA RecordFailureSets ==
  ASSUME NEW k, RecordFailure(k)
  PROVE  open' = open \cup {k} /\ stale' = stale \cup {k}
BY DEF RecordFailure

(* What an upsert leaves in a row: a row, never a revived one, and it is   *)
(* older than before only when equal stamps were not fenced.               *)
LEMMA UpsertedRow ==
  ASSUME Typed, NEW m \in Msgs, NEW v \in 1..MaxVer, NEW f \in BOOLEAN
  PROVE  /\ Upserted(m, v, f) \in [ver : Versions, del : BOOLEAN]
         /\ Upserted(m, v, f).del = row[m].del
         /\ Upserted(m, v, f).ver \in {v, row[m].ver}
         /\ row[m].del => row[m].ver = 0 \/ Upserted(m, v, f) = row[m]
         /\ f \/ v >= row[m].ver => Upserted(m, v, f).ver >= row[m].ver
<1>1. row[m] \in [ver : Versions, del : BOOLEAN] /\ v \in Versions
  BY MaxVerAssumption DEF Typed, Versions
<1>2. CASE Keep(m, v, f)
  BY <1>1, <1>2, MaxVerAssumption DEF Upserted, Versions
<1>3. CASE ~Keep(m, v, f)
  <2>1. Upserted(m, v, f) = [ver |-> v, del |-> row[m].del]
    BY <1>3 DEF Upserted
  <2>2. /\ Upserted(m, v, f).ver = v
        /\ Upserted(m, v, f).del = row[m].del
        /\ Upserted(m, v, f) \in [ver : Versions, del : BOOLEAN]
    BY <1>1, <2>1
  <2>3. row[m].ver # 0 /\ f => v >= row[m].ver
    BY <1>1, <1>3, MaxVerAssumption, StampAssumption DEF Keep, Versions
  <2>4. row[m].del => row[m].ver = 0
    BY <1>3 DEF Keep
  <2> QED BY <1>1, <2>2, <2>3, <2>4, MaxVerAssumption DEF Versions
<1> QED BY <1>2, <1>3

(* With ordered edits, an upsert leaves the newer of the two versions.     *)
LEMMA UpsertedNewest ==
  ASSUME Typed, OrderedEdits, NEW m \in Msgs, NEW v \in 1..MaxVer, NEW f \in BOOLEAN
  PROVE  /\ Upserted(m, v, f).ver >= row[m].ver
         /\ Upserted(m, v, f).ver >= v \/ Upserted(m, v, f).del
<1>1. row[m] \in [ver : Versions, del : BOOLEAN] /\ row[m].ver \in Versions
  BY DEF Typed
<1>2. CASE Keep(m, v, f)
  <2>1. row[m].del \/ v <= row[m].ver
    BY <1>1, <1>2, MaxVerAssumption, StampAssumption DEF Keep, Versions, OrderedEdits
  <2> QED BY <1>1, <1>2, <2>1, MaxVerAssumption DEF Upserted, Versions
<1>3. CASE ~Keep(m, v, f)
  <2>1. Upserted(m, v, f).ver = v
    BY <1>1, <1>3 DEF Upserted
  <2>2. row[m].ver <= v
    BY <1>1, <1>3, MaxVerAssumption, StampAssumption DEF Keep, Versions, OrderedEdits
  <2> QED BY <1>1, <2>1, <2>2, MaxVerAssumption DEF Versions
<1> QED BY <1>2, <1>3

(* The initial state is well typed.                                        *)
LEMMA TypedInit == Init => Typed
<1> SUFFICES ASSUME Init PROVE Typed
  OBVIOUS
<1>1. 0 \in Versions /\ 0 \in 0..MaxFaults
  BY MaxVerAssumption, LimitAssumption DEF Versions
<1>2. queue = <<>> /\ <<>> \in Seq(Events)
  BY DEF Init
<1>3. wev = NoEvent /\ wpc = "idle" /\ wgot = 0 /\ wfenced = FALSE
  BY DEF Init
<1>4. rgot \in [Msgs -> Versions] /\ archived \in [Msgs -> Versions] /\ owed \in [Keys -> Versions]
  BY <1>1 DEF Init, Nothing
<1>5. /\ remote \in [Msgs -> [ver : Versions, gone : BOOLEAN]]
      /\ row \in [Msgs -> [ver : Versions, del : BOOLEAN]]
  BY <1>1 DEF Init
<1> QED BY <1>1, <1>2, <1>3, <1>4, <1>5 DEF Init, Typed, WorkerStages, RepairStages

(* What happens at Discord keeps the state well typed.                     *)
LEMMA DiscordTyped == Typed /\ Discord => Typed'
<1> SUFFICES ASSUME Typed, Discord PROVE Typed'
  OBVIOUS
<1> USE MaxVerAssumption
<1>1. PICK m \in Msgs : Posted(m) \/ Edited(m) \/ Removed(m)
  BY DEF Discord
<1>2. remote[m] \in [ver : Versions, gone : BOOLEAN] /\ remote[m].ver \in Versions
  BY DEF Typed
<1>3. \A kind \in Kinds, v \in 1..MaxVer : Deliver(kind, m, v) => queue' \in Seq(Events)
  <2> TAKE kind \in Kinds, v \in 1..MaxVer
  <2>1. [kind |-> kind, msg |-> m, ver |-> v] \in Events
    BY DEF Events
  <2> QED BY <2>1 DEF Deliver, Typed
<1>4. remote' \in [Msgs -> [ver : Versions, gone : BOOLEAN]]
  <2>1. CASE Posted(m)
    BY <2>1 DEF Posted, Typed, Versions
  <2>2. CASE Edited(m)
    <3>1. remote[m].ver + 1 \in Versions
      BY <1>2, <2>2 DEF Edited, Versions
    <3> QED BY <2>2, <3>1 DEF Edited, Typed
  <2>3. CASE Removed(m)
    BY <1>2, <2>3 DEF Removed, Typed
  <2> QED BY <1>1, <2>1, <2>2, <2>3
<1>5. queue' \in Seq(Events)
  <2>1. CASE Posted(m)
    BY <1>3, <2>1 DEF Posted, Kinds
  <2>2. CASE Edited(m)
    <3>1. remote[m].ver + 1 \in 1..MaxVer
      BY <1>2, <2>2 DEF Edited, Versions
    <3> QED BY <1>3, <2>2, <3>1 DEF Edited, Kinds
  <2>3. CASE Removed(m)
    <3>1. remote[m].ver \in 1..MaxVer
      BY <1>2, <2>3 DEF Removed, Versions
    <3> QED BY <1>3, <2>3, <3>1 DEF Removed, Kinds
  <2> QED BY <1>1, <2>1, <2>2, <2>3
<1> QED BY <1>4, <1>5 DEF Typed, Discord, archiveVars, ledgerVars, workerVars, repairVars, historyVars

(* The tail worker keeps the state well typed.                             *)
LEMMA WorkerTyped == Typed /\ (WorkerStep \/ WorkerFault) => Typed'
<1> SUFFICES ASSUME Typed, WorkerStep \/ WorkerFault PROVE Typed'
  OBVIOUS
<1> USE MaxVerAssumption, LimitAssumption
<1> USE DEF discordVars, archiveVars, ledgerVars, workerVars, repairVars, historyVars
<1>0. wpc # "idle" => /\ wev \in Events /\ Key \in Keys /\ wev.msg \in Msgs
                      /\ wev.ver \in Versions
  BY WorkerEvent
<1>a. NoEvent \notin Events
  BY DEF NoEvent, Events, Kinds
<1>b. Release => /\ wpc' = "idle" /\ wev' = NoEvent /\ wgot' \in Versions /\ wfenced' \in BOOLEAN
                 /\ wpc' \in WorkerStages
  <2>1. Release => wfenced' \in BOOLEAN
    BY Zenon DEF Release
  <2>2. Release => wpc' = "idle" /\ wev' = NoEvent /\ wgot' \in Versions /\ wpc' \in WorkerStages
    BY DEF Release, Versions, WorkerStages
  <2> QED BY <2>1, <2>2
<1>1. CASE Take
  <2>1. PICK e \in Events : e = Head(queue) /\ wev' = e /\ wgot' = e.ver
                            /\ wpc' = IF e.kind = "update" THEN "refetch" ELSE "write"
    BY <1>1 DEF Take
  <2>2. queue' \in Seq(Events)
    BY <1>1 DEF Take, Typed
  <2>3. wgot' \in Versions /\ wpc' \in WorkerStages /\ wpc' # "idle" /\ wev' # NoEvent
    BY <2>1, <1>a DEF Events, Versions, WorkerStages
  <2>4. UNCHANGED <<remote, archiveVars, ledgerVars, mode, repairVars, historyVars, faults>>
        /\ wfenced' = FALSE
    BY <1>1 DEF Take
  <2> QED BY <2>1, <2>2, <2>3, <2>4 DEF Typed
<1>2. CASE MessageUpdateSnapshot
  <2>0. wpc = "refetch" /\ remote[wev.msg].ver \in Versions
    BY <1>2, <1>0 DEF MessageUpdateSnapshot, Typed
  <2>1. UNCHANGED <<discordVars, archiveVars, ledgerVars, mode, repairVars, historyVars, faults>>
    BY <1>2 DEF MessageUpdateSnapshot
  <2>2. CASE Release
    BY <1>b, <2>1, <2>2 DEF Typed
  <2>3. CASE wpc' \in {"write", "record"} /\ wgot' \in Versions /\ UNCHANGED <<wev, wfenced>>
    BY <2>0, <2>1, <2>3 DEF Typed, WorkerStages
  <2> QED BY <1>2, <2>0, <2>2, <2>3 DEF MessageUpdateSnapshot, Stage, Typed
<1>3. CASE ArchiveMessage
  <2>1. row' \in [Msgs -> [ver : Versions, del : BOOLEAN]]
    <3> DEFINE f == wev.kind = "update" /\ wfenced
    <3>1. row' = [row EXCEPT ![wev.msg] = Upserted(wev.msg, wgot, f)]
      BY <1>3 DEF ArchiveMessage
    <3>2. Upserted(wev.msg, wgot, f) \in [ver : Versions, del : BOOLEAN]
      BY <1>3, <1>0 DEF ArchiveMessage, Upserted, Typed
    <3> QED BY <3>1, <3>2 DEF Typed
  <2> QED BY <1>3, <1>0, <2>1 DEF ArchiveMessage, Stage, Typed, WorkerStages
<1>4. CASE ArchiveDelete
  BY <1>4, <1>0 DEF ArchiveDelete, MarkDeleted, Stage, Typed, WorkerStages
<1>5. CASE ResolveMessageFailure
  <2>1. archived' \in [Msgs -> Versions]
    BY <1>5, <1>0 DEF ResolveMessageFailure, Typed
  <2>2. open' \subseteq Keys /\ UNCHANGED <<spool, stale>>
    BY <1>5 DEF ResolveMessageFailure, ResolveFailures, Typed
  <2> QED BY <1>5, <1>b, <2>1, <2>2 DEF ResolveMessageFailure, Typed
<1>6. CASE RecordInLedger
  <2>1. owed' \in [Keys -> Versions] /\ Key \in Keys
    BY <1>6, <1>0, OweType DEF RecordInLedger
  <2>2. open' \subseteq Keys /\ stale' \subseteq Keys
    BY <1>6, <2>1, RecordFailureSets DEF RecordInLedger, Typed
  <2> QED BY <1>6, <1>b, <2>1, <2>2 DEF RecordInLedger, Typed
<1>7. CASE HandlerFails
  BY <1>7, <1>0 DEF HandlerFails, Handling, Fault, Stage, Typed, WorkerStages
<1>8. CASE RecordInSpool
  <2>1. owed' \in [Keys -> Versions] /\ Key \in Keys
    BY <1>8, <1>0, OweType DEF RecordInSpool
  <2>2. open' \subseteq Keys /\ stale' \subseteq Keys /\ spool' \subseteq Keys
    BY <1>8, <2>1, RecordFailureSets DEF RecordInSpool, Typed
  <2> QED BY <1>8, <1>b, <2>1, <2>2 DEF RecordInSpool, Fault, Typed
<1>9. CASE RecordFails
  <2>1. Key \in Keys
    BY <1>9, <1>0 DEF RecordFails
  <2>2. open' \subseteq Keys /\ stale' \subseteq Keys
    BY <1>9, <2>1, RecordFailureSets DEF RecordFails, Typed
  <2> QED BY <1>9, <1>b, <2>1, <2>2 DEF RecordFails, Fault, Typed
<1>10. CASE Detach
  <2>1. owed' \in [Keys -> Versions] /\ Key \in Keys
    BY <1>10, <1>0, OweType DEF Detach, Handling
  <2> QED BY <1>10, <2>1 DEF Detach, Handling, Fault, Typed
<1> QED BY <1>1, <1>2, <1>3, <1>4, <1>5, <1>6, <1>7, <1>8, <1>9, <1>10 DEF WorkerStep, WorkerFault

(* Writing a fetched page yields rows.                                     *)
LEMMA UpsertFetchedType ==
  ASSUME Typed, UpsertFetched
  PROVE  row' \in [Msgs -> [ver : Versions, del : BOOLEAN]] /\ wfenced' \in BOOLEAN
<1>1. \A m \in Msgs : Upserted(m, rgot[m], m \in rfenced) \in [ver : Versions, del : BOOLEAN]
  BY DEF Typed, Upserted
<1>2. row' \in [Msgs -> [ver : Versions, del : BOOLEAN]]
  BY <1>1 DEF UpsertFetched, Typed
<1>3. wfenced' \in BOOLEAN
  BY Zenon DEF UpsertFetched
<1> QED BY <1>2, <1>3

(* What repair forgets leaves its state well typed.                        *)
LEMMA ForgetType ==
  ASSUME Forget
  PROVE  rgot' \in [Msgs -> Versions] /\ rfenced' \subseteq Msgs
BY MaxVerAssumption DEF Forget, Nothing, Versions

(* An import opens what the spool held and empties it.                     *)
LEMMA ImportSets ==
  ASSUME ImportFallbacks
  PROVE  open' = open \cup spool /\ stale' = stale \cup spool /\ spool' = {}
BY DEF ImportFallbacks

(* The replay of a failed delivery keeps the state well typed.             *)
LEMMA ReplayTyped ==
  ASSUME Typed, NEW k \in Keys, ReplayStep(k) \/ ReplayFails(k)
  PROVE  Typed'
<1> USE MaxVerAssumption, LimitAssumption
<1> USE DEF discordVars, archiveVars, ledgerVars, workerVars, repairVars, historyVars
<1>0. k[2] \in Msgs
  BY DEF Keys
<1>1. CASE ReplayDelete(k)
  <2>1. row' \in [Msgs -> [ver : Versions, del : BOOLEAN]]
    BY <1>1, <1>0 DEF ReplayDelete, MarkDeleted, Typed
  <2> QED BY <1>1, <2>1 DEF ReplayDelete, Typed, RepairStages
<1>2. CASE Defer(k) /\ faults' \in 0..MaxFaults
  BY <1>2, RecordFailureSets, ForgetType DEF Defer, NextCandidate, Typed, RepairStages
<1>3. CASE ReplayStart(k)
  BY <1>3, ForgetType DEF ReplayStart, Typed, RepairStages
<1>4. CASE ReplayFetch(k)
  <2>1. rgot' \in [Msgs -> Versions]
    <3>1. Nothing \in [Msgs -> Versions] /\ remote[k[2]].ver \in Versions
      BY <1>0 DEF Nothing, Typed, Versions
    <3> QED BY <1>4, <3>1 DEF ReplayFetch
  <2> QED BY <1>4, <2>1 DEF ReplayFetch, Typed, RepairStages
<1>5. CASE ReplayUnavailable(k) \/ ResolveTailMessageReplay(k)
  BY <1>5, ForgetType DEF ReplayUnavailable, ResolveTailMessageReplay, ResolveFailureGeneration,
     ResolveFailures, NextCandidate, Typed, RepairStages
<1>6. CASE ReplayWrite(k)
  BY <1>6, UpsertFetchedType DEF ReplayWrite, Typed, RepairStages
<1>7. ReplayDeleteMissing(k) \/ ReplayFails(k) => Defer(k) /\ faults' \in 0..MaxFaults
  BY DEF ReplayDeleteMissing, ReplayFails, Fault, Typed
<1> QED BY <1>1, <1>2, <1>3, <1>4, <1>5, <1>6, <1>7 DEF ReplayStep

(* The repair pass keeps the state well typed.                             *)
LEMMA RepairTyped == Typed /\ (RepairStep \/ RepairFault) => Typed'
<1> SUFFICES ASSUME Typed, RepairStep \/ RepairFault PROVE Typed'
  OBVIOUS
<1> USE MaxVerAssumption, LimitAssumption
<1> USE DEF discordVars, archiveVars, ledgerVars, workerVars, repairVars, historyVars
<1>1. CASE StartRepair
  BY <1>1 DEF StartRepair, Typed, RepairStages
<1>2. CASE FetchPage
  BY <1>2 DEF FetchPage, Typed, RepairStages
<1>3. CASE PersistPage
  BY <1>3, UpsertFetchedType DEF PersistPage, Typed, RepairStages
<1>4. CASE SettlePage
  BY <1>4, ForgetType DEF SettlePage, ResolveFailures, Typed, RepairStages
<1>5. CASE ImportSpool
  BY <1>5, ImportSets DEF ImportSpool, Typed, RepairStages
<1>6. CASE ListCandidates
  BY <1>6 DEF ListCandidates, Typed, RepairStages
<1>7. CASE ReplayDone
  BY <1>7, ForgetType DEF ReplayDone, RepairIdle, Typed, RepairStages
<1>8. CASE PageFails
  BY <1>8, ForgetType DEF PageFails, Fault, Typed, RepairStages
<1>9. CASE RepairFails
  BY <1>9, ForgetType DEF RepairFails, RepairIdle, Fault, Typed, RepairStages
<1>10. CASE \E k \in Keys : ReplayStep(k) \/ ReplayFails(k)
  BY <1>10, ReplayTyped
<1> QED BY <1>1, <1>2, <1>3, <1>4, <1>5, <1>6, <1>7, <1>8, <1>9, <1>10 DEF RepairStep, RepairFault

(* Crash and restart keep the state well typed.                            *)
LEMMA ProcessTyped == Typed /\ Process => Typed'
<1> SUFFICES ASSUME Typed, Process PROVE Typed'
  OBVIOUS
<1> USE MaxVerAssumption, LimitAssumption
<1> USE DEF discordVars, archiveVars, ledgerVars, workerVars, repairVars, historyVars
<1>1. CASE Stop
  BY <1>1 DEF Stop, Fault, Typed
<1>2. CASE Exit \/ Crash
  <2>1. faults' \in 0..MaxFaults /\ Halt
    BY <1>2 DEF Exit, Crash, Fault, Typed
  <2>2. wfenced' \in BOOLEAN
    BY <2>1, Zenon DEF Halt, Release
  <2>3. wpc' = "idle" /\ wev' = NoEvent /\ wgot' \in Versions
    BY <2>1 DEF Halt, Release, Versions
  <2>4. rgot' \in [Msgs -> Versions] /\ rfenced' \subseteq Msgs /\ rpc' = "idle"
    BY <2>1, ForgetType DEF Halt, RepairIdle
  <2> QED BY <2>1, <2>2, <2>3, <2>4 DEF Halt, Typed, WorkerStages, RepairStages
<1>3. CASE Restart
  BY <1>3, ImportSets DEF Restart, Typed
<1> QED BY <1>1, <1>2, <1>3 DEF Process

(* Every step keeps the state well typed.                                  *)
LEMMA TypedStep == Typed /\ [Next]_vars => Typed'
<1>1. Typed /\ UNCHANGED vars => Typed'
  BY DEF Typed, vars, discordVars, archiveVars, ledgerVars, workerVars, repairVars, historyVars
<1> QED BY <1>1, DiscordTyped, WorkerTyped, RepairTyped, ProcessTyped DEF Next

-----------------------------------------------------------------------------
(* FromDiscord is inductive relative to the types.                         *)

(* Nothing is stored yet, so nothing is stored that Discord never said.    *)
LEMMA FromDiscordInit == Init => FromDiscord
<1> SUFFICES ASSUME Init PROVE FromDiscord
  OBVIOUS
<1>1. queue = <<>> /\ wpc = "idle" /\ \A k \in Keys : owed[k] = 0
  BY DEF Init
<1>2. \A m \in Msgs : remote[m].ver = 0 /\ row[m].ver = 0 /\ ~row[m].del /\ rgot[m] = 0
  BY DEF Init, Nothing
<1>3. \A k \in Keys : k[2] \in Msgs
  BY DEF Keys
<1> QED BY <1>1, <1>2, <1>3 DEF FromDiscord, QueueGenuine, WorkerGenuine, RowsGenuine,
                                FetchedGenuine, OwedGenuine

(* Discord's own steps only add versions.                                  *)
LEMMA RemoteGrows ==
  ASSUME Typed, Discord
  PROVE  \A m \in Msgs : remote'[m].ver >= remote[m].ver /\ (remote[m].gone => remote'[m].gone)
<1>1. PICK m \in Msgs : Posted(m) \/ Edited(m) \/ Removed(m)
  BY DEF Discord
<1>2. \A n \in Msgs : remote[n].ver \in Nat
  BY MaxVerAssumption DEF Typed, Versions
<1>3. PICK v, g : /\ v \in Nat /\ v >= remote[m].ver /\ (remote[m].gone => g)
                 /\ remote' = [remote EXCEPT ![m] = [ver |-> v, gone |-> g]]
  BY <1>1, <1>2 DEF Posted, Edited, Removed
<1>4. \A n \in Msgs : remote'[n] = IF n = m THEN [ver |-> v, gone |-> g] ELSE remote[n]
  BY <1>3 DEF Typed
<1> QED BY <1>2, <1>3, <1>4

(* A change at Discord only adds to what Discord has said.                 *)
LEMMA DiscordFromDiscord == Typed /\ FromDiscord /\ Discord => FromDiscord'
<1> SUFFICES ASSUME Typed, FromDiscord, Discord PROVE FromDiscord'
  OBVIOUS
<1> USE MaxVerAssumption
<1>1. PICK m \in Msgs : Posted(m) \/ Edited(m) \/ Removed(m)
  BY DEF Discord
<1>2. /\ \A n \in Msgs : remote'[n].ver >= remote[n].ver
      /\ \A n \in Msgs : remote[n].ver \in Nat /\ remote'[n].ver \in Nat
  <2>1. Typed'
    BY DiscordTyped
  <2>2. \A n \in Msgs : remote[n].ver \in Nat /\ remote'[n].ver \in Nat
    <3>1. /\ remote \in [Msgs -> [ver : Versions, gone : BOOLEAN]]
          /\ remote' \in [Msgs -> [ver : Versions, gone : BOOLEAN]]
      BY <2>1 DEF Typed
    <3> QED BY <3>1 DEF Versions
  <2> QED BY <2>2, RemoteGrows
<1> DEFINE G(e) == e.ver <= remote'[e.msg].ver /\ (e.kind = "create" => e.ver = 1)
<1>3. \A e \in Events : Genuine(e) => G(e)
  BY <1>2 DEF Genuine, Events
<1>4. \A kind \in Kinds, v \in 1..MaxVer :
         /\ Deliver(kind, m, v) /\ v <= remote'[m].ver /\ (kind = "create" => v = 1)
         => \A i \in 1..Len(queue') : G(queue'[i])
  <2> TAKE kind \in Kinds, v \in 1..MaxVer
  <2> HAVE Deliver(kind, m, v) /\ v <= remote'[m].ver /\ (kind = "create" => v = 1)
  <2> DEFINE e == [kind |-> kind, msg |-> m, ver |-> v]
  <2>1. e \in Events /\ G(e)
    BY DEF Events
  <2> HIDE DEF e
  <2>2. queue' = queue \/ queue' = Append(queue, e)
    BY DEF Deliver, e
  <2>3. \A i \in 1..Len(queue) : queue[i] \in Events /\ G(queue[i])
    BY <1>3 DEF FromDiscord, QueueGenuine, Typed
  <2> HIDE DEF G
  <2>4. CASE queue' = Append(queue, e)
    <3>1. /\ queue \in Seq(Events) /\ Len(queue') = Len(queue) + 1
          /\ \A i \in 1..Len(queue') : queue'[i] = IF i <= Len(queue) THEN queue[i] ELSE e
      BY <2>1, <2>4 DEF Typed
    <3> QED BY <2>1, <2>3, <3>1
  <2> QED BY <2>2, <2>3, <2>4
<1>5. \A i \in 1..Len(queue') : G(queue'[i])
  <2> HIDE DEF G
  <2>1. CASE Posted(m)
    <3>1. Deliver("create", m, 1) /\ remote'[m].ver = 1
      BY <2>1 DEF Posted, Typed
    <3> QED BY <1>4, <3>1 DEF Kinds
  <2>2. CASE Edited(m)
    <3>1. /\ remote[m].ver + 1 \in 1..MaxVer
          /\ Deliver("update", m, remote[m].ver + 1)
          /\ remote'[m].ver = remote[m].ver + 1
      BY <1>2, <2>2 DEF Edited, Typed
    <3> QED BY <1>4, <3>1 DEF Kinds
  <2>3. CASE Removed(m)
    <3>1. /\ remote[m].ver \in 1..MaxVer
          /\ Deliver("delete", m, remote[m].ver)
          /\ remote'[m].ver = remote[m].ver
      BY <2>3 DEF Removed, Typed, Versions
    <3> QED BY <1>4, <3>1 DEF Kinds
  <2> QED BY <1>1, <2>1, <2>2, <2>3
<1>6. UNCHANGED <<row, rgot, wpc, wev, wgot, owed>>
  BY DEF Discord, archiveVars, workerVars, repairVars, historyVars
<1>7. WorkerGenuine'
  <2> SUFFICES ASSUME wpc # "idle"
               PROVE  /\ G(wev)
                      /\ wpc \in {"write", "resolve"} => wev.ver <= wgot /\ wgot <= remote'[wev.msg].ver
    BY <1>6 DEF WorkerGenuine, Genuine
  <2>1. wev \in Events /\ wev.msg \in Msgs /\ wev.ver \in Nat /\ wgot \in Nat
    BY WorkerEvent, SMTT(60) DEF Versions, Typed
  <2> QED BY <1>2, <1>3, <2>1 DEF FromDiscord, WorkerGenuine
<1>8. RowsGenuine' /\ FetchedGenuine'
  <2>1. \A n \in Msgs : row[n].ver \in Nat /\ rgot[n] \in Nat
    BY DEF Typed, Versions
  <2> QED BY <1>2, <1>6, <2>1 DEF FromDiscord, RowsGenuine, FetchedGenuine
<1>9. OwedGenuine'
  <2>1. \A k \in Keys : k[2] \in Msgs /\ owed[k] \in Nat
    BY DEF Typed, Versions, Keys
  <2> QED BY <1>2, <1>6, <2>1 DEF FromDiscord, OwedGenuine
<1>10. QueueGenuine'
  BY <1>5 DEF QueueGenuine, Genuine
<1> QED BY <1>7, <1>8, <1>9, <1>10 DEF FromDiscord

(* A tombstone changes no version, and falls only on a row that exists.    *)
LEMMA MarkDeletedRows ==
  ASSUME Typed, RowsGenuine, NEW n \in Msgs, MarkDeleted(n)
  PROVE  \A m \in Msgs : /\ row'[m].ver = row[m].ver
                         /\ row'[m].del => row[m].ver # 0
                         /\ row[m].del => row'[m] = row[m]
                         /\ m = n /\ row[m].ver # 0 => row'[m].del
<1>1. \A m \in Msgs : m # n => row'[m] = row[m]
  BY DEF MarkDeleted, Typed
<1>2. row'[n] = [ver |-> row[n].ver, del |-> row[n].ver # 0]
  BY DEF MarkDeleted, Typed
<1>3. row'[n].ver = row[n].ver /\ (row'[n].del <=> row[n].ver # 0)
  <2>1. CASE row[n].ver = 0
    <3>1. row'[n] = [ver |-> row[n].ver, del |-> FALSE]
      BY <1>2, <2>1
    <3> QED BY <2>1, <3>1
  <2>2. CASE row[n].ver # 0
    <3>1. row'[n] = [ver |-> row[n].ver, del |-> TRUE]
      BY <1>2, <2>2
    <3> QED BY <2>2, <3>1
  <2> QED BY <2>1, <2>2
<1>4. row[n].del => row'[n] = row[n]
  <2> SUFFICES ASSUME row[n].del PROVE row'[n] = row[n]
    OBVIOUS
  <2>1. row[n] \in [ver : Versions, del : BOOLEAN] /\ row[n].ver # 0
    BY DEF Typed, RowsGenuine
  <2>2. row'[n] = [ver |-> row[n].ver, del |-> TRUE]
    BY <1>2, <2>1
  <2> QED BY <2>1, <2>2
<1> QED BY <1>1, <1>3, <1>4 DEF RowsGenuine

(* Recording a failure owes a version Discord had.                         *)
LEMMA OweGenuine ==
  ASSUME Typed, FromDiscord, wpc # "idle", Owe, UNCHANGED remote
  PROVE  OwedGenuine'
<1>1. wev \in Events /\ Key \in Keys /\ wev.ver \in Nat /\ Key[1] = wev.kind /\ Key[2] = wev.msg
  BY WorkerEvent DEF Versions
<1>2. \A k \in Keys : owed'[k] = IF k = Key THEN wev.ver ELSE owed[k]
  BY DEF Owe, Typed
<1>3. Genuine(wev)
  BY DEF FromDiscord, WorkerGenuine
<1> HIDE DEF Key
<1> QED BY <1>1, <1>2, <1>3 DEF FromDiscord, OwedGenuine, Genuine

(* The tail worker stores and owes only what Discord said.                 *)
LEMMA WorkerFromDiscord == Typed /\ FromDiscord /\ (WorkerStep \/ WorkerFault) => FromDiscord'
<1> SUFFICES ASSUME Typed, FromDiscord, WorkerStep \/ WorkerFault PROVE FromDiscord'
  OBVIOUS
<1> USE MaxVerAssumption
<1> USE DEF discordVars, archiveVars, ledgerVars, workerVars, repairVars, historyVars
<1>a. FetchedGenuine'
  <2>1. UNCHANGED <<remote, rgot>>
    BY DEF WorkerStep, WorkerFault, Take, MessageUpdateSnapshot, ArchiveMessage, ArchiveDelete,
       ResolveMessageFailure, RecordInLedger, HandlerFails, RecordInSpool, RecordFails, Detach
  <2> QED BY <2>1 DEF FromDiscord, FetchedGenuine
<1>b. UNCHANGED queue => QueueGenuine' \/ remote' # remote
  BY DEF FromDiscord, QueueGenuine, Genuine
<1>c. UNCHANGED <<row, remote>> => RowsGenuine'
  BY DEF FromDiscord, RowsGenuine
<1>d. UNCHANGED <<owed, remote>> => OwedGenuine'
  BY DEF FromDiscord, OwedGenuine
<1>e. Release => WorkerGenuine'
  BY DEF Release, WorkerGenuine
<1>f. UNCHANGED <<wev, wgot, remote>> /\ wpc # "idle" /\ (wpc' \in {wpc, "record"}) => WorkerGenuine'
  BY DEF FromDiscord, WorkerGenuine, Genuine
<1>1. CASE Take
  <2>1. PICK e \in Events : e = Head(queue) /\ wev' = e /\ wgot' = e.ver
                            /\ wpc' = IF e.kind = "update" THEN "refetch" ELSE "write"
    BY <1>1 DEF Take
  <2>2. queue \in Seq(Events) /\ queue # <<>> /\ queue' = Tail(queue) /\ UNCHANGED <<remote, row, owed>>
    BY <1>1 DEF Take, Typed
  <2>3. Genuine(e)
    BY <2>1, <2>2 DEF FromDiscord, QueueGenuine
  <2>4. e.ver \in Nat
    BY DEF Events
  <2>5. WorkerGenuine'
    BY <2>1, <2>2, <2>3, <2>4 DEF WorkerGenuine, Genuine
  <2>6. QueueGenuine'
    <3>1. Len(queue') = Len(queue) - 1 /\ \A i \in 1..Len(queue') : queue'[i] = queue[i + 1]
      BY <2>2
    <3>2. Len(queue) \in Nat
      BY <2>2
    <3>3. \A i \in 1..Len(queue') : Genuine(queue[i + 1])
      BY <3>1, <3>2 DEF FromDiscord, QueueGenuine
    <3> QED BY <2>2, <3>1, <3>3 DEF QueueGenuine, Genuine
  <2> QED BY <1>a, <1>c, <1>d, <2>2, <2>5, <2>6 DEF FromDiscord
<1>2. CASE MessageUpdateSnapshot
  <2>1. UNCHANGED <<remote, queue, row, owed>> /\ wpc = "refetch"
    BY <1>2 DEF MessageUpdateSnapshot
  <2>2. CASE wgot' = remote[wev.msg].ver /\ wpc' = "write" /\ wev' = wev
    <3>1. wev.ver <= remote[wev.msg].ver /\ remote[wev.msg].ver \in Nat
      BY <2>1, WorkerEvent DEF FromDiscord, WorkerGenuine, Genuine, Typed, Versions
    <3>2. WorkerGenuine'
      BY <2>1, <2>2, <3>1 DEF FromDiscord, WorkerGenuine, Genuine
    <3> QED BY <1>a, <1>b, <1>c, <1>d, <2>1, <3>2 DEF FromDiscord
  <2>3. CASE Stage("record") \/ Release
    <3>1. WorkerGenuine'
      BY <1>e, <1>f, <2>1, <2>3 DEF Stage
    <3> QED BY <1>a, <1>b, <1>c, <1>d, <2>1, <3>1 DEF FromDiscord
  <2> QED BY <1>2, <2>2, <2>3 DEF MessageUpdateSnapshot
<1>3. CASE ArchiveMessage
  <2>1. UNCHANGED <<remote, queue, owed, wev, wgot>> /\ wpc = "write" /\ wpc' = "resolve"
    BY <1>3 DEF ArchiveMessage, Stage
  <2>2. WorkerGenuine'
    BY <2>1 DEF FromDiscord, WorkerGenuine, Genuine
  <2>3. RowsGenuine'
    <3> DEFINE f == wev.kind = "update" /\ wfenced
    <3>1. row' = [row EXCEPT ![wev.msg] = Upserted(wev.msg, wgot, f)]
      BY <1>3 DEF ArchiveMessage
    <3>2. wev.msg \in Msgs /\ wev.ver \in 1..MaxVer /\ wgot \in Versions
      BY <2>1, WorkerEvent DEF Typed
    <3>3. wgot \in 1..MaxVer /\ wgot <= remote[wev.msg].ver
      BY <2>1, <3>2 DEF FromDiscord, WorkerGenuine, Versions
    <3>4. f \in BOOLEAN
      BY DEF Typed
    <3> HIDE DEF f
    <3>5. /\ Upserted(wev.msg, wgot, f).del = row[wev.msg].del
          /\ Upserted(wev.msg, wgot, f).ver \in {wgot, row[wev.msg].ver}
      BY <3>2, <3>3, <3>4, UpsertedRow
    <3>6. \A m \in Msgs : row'[m] = IF m = wev.msg THEN Upserted(wev.msg, wgot, f) ELSE row[m]
      BY <3>1 DEF Typed
    <3> QED BY <2>1, <3>2, <3>3, <3>5, <3>6 DEF FromDiscord, RowsGenuine
  <2> QED BY <1>a, <1>b, <1>d, <2>1, <2>2, <2>3 DEF FromDiscord
<1>4. CASE ArchiveDelete
  <2>1. UNCHANGED <<remote, queue, owed, wev, wgot>> /\ wpc = "write" /\ wpc' = "resolve"
    BY <1>4 DEF ArchiveDelete, Stage
  <2>2. WorkerGenuine'
    BY <2>1 DEF FromDiscord, WorkerGenuine, Genuine
  <2>3. RowsGenuine'
    BY <1>4, <2>1, WorkerEvent, MarkDeletedRows DEF ArchiveDelete, FromDiscord, RowsGenuine
  <2> QED BY <1>a, <1>b, <1>d, <2>1, <2>2, <2>3 DEF FromDiscord
<1>5. CASE ResolveMessageFailure \/ RecordFails
  <2>1. UNCHANGED <<remote, queue, row, owed>> /\ Release
    BY <1>5 DEF ResolveMessageFailure, RecordFails
  <2> QED BY <1>a, <1>b, <1>c, <1>d, <1>e, <2>1 DEF FromDiscord
<1>6. CASE RecordInLedger \/ RecordInSpool
  <2>1. UNCHANGED <<remote, queue, row>> /\ Release /\ Owe /\ wpc = "record"
    BY <1>6 DEF RecordInLedger, RecordInSpool
  <2>2. OwedGenuine'
    BY <2>1, OweGenuine
  <2> QED BY <1>a, <1>b, <1>c, <1>e, <2>1, <2>2 DEF FromDiscord
<1>7. CASE HandlerFails
  <2>1. UNCHANGED <<remote, queue, row, owed, wev, wgot>> /\ wpc # "idle" /\ wpc' = "record"
    BY <1>7 DEF HandlerFails, Stage, Handling
  <2> QED BY <1>a, <1>b, <1>c, <1>d, <1>f, <2>1 DEF FromDiscord
<1>8. CASE Detach
  <2>1. UNCHANGED <<remote, queue, row, wpc, wev, wgot>> /\ wpc # "idle" /\ Owe
    BY <1>8 DEF Detach, Handling
  <2>2. OwedGenuine'
    BY <2>1, OweGenuine
  <2> QED BY <1>a, <1>b, <1>c, <1>f, <2>1, <2>2 DEF FromDiscord
<1> QED BY <1>1, <1>2, <1>3, <1>4, <1>5, <1>6, <1>7, <1>8 DEF WorkerStep, WorkerFault

(* A write of repair leaves in each row what it was or what was fetched.   *)
LEMMA UpsertFetchedRows ==
  ASSUME Typed, UpsertFetched
  PROVE  \A m \in Msgs : row'[m] = IF rgot[m] # 0 THEN Upserted(m, rgot[m], m \in rfenced)
                                                  ELSE row[m]
BY DEF UpsertFetched, OnPage

(* A fetched page brings only what Discord said.                           *)
LEMMA UpsertFetchedGenuine ==
  ASSUME Typed, FromDiscord, UpsertFetched, UNCHANGED remote
  PROVE  RowsGenuine'
<1> SUFFICES ASSUME NEW m \in Msgs
             PROVE  row'[m].ver <= remote[m].ver /\ (row'[m].del => row'[m].ver # 0)
  BY DEF RowsGenuine
<1>1. row[m].ver <= remote[m].ver /\ (row[m].del => row[m].ver # 0) /\ rgot[m] <= remote[m].ver
  BY DEF FromDiscord, RowsGenuine, FetchedGenuine
<1>2. CASE rgot[m] = 0
  BY <1>1, <1>2, UpsertFetchedRows
<1>3. CASE rgot[m] # 0
  <2>1. rgot[m] \in 1..MaxVer /\ (m \in rfenced) \in BOOLEAN
    BY <1>3, MaxVerAssumption DEF Typed, Versions
  <2>2. /\ Upserted(m, rgot[m], m \in rfenced).del = row[m].del
        /\ Upserted(m, rgot[m], m \in rfenced).ver \in {rgot[m], row[m].ver}
    BY <2>1, UpsertedRow
  <2> QED BY <1>1, <1>3, <2>1, <2>2, UpsertFetchedRows
<1> QED BY <1>2, <1>3

(* What repair forgets leaves only what Discord said.                      *)
LEMMA ForgetGenuine ==
  ASSUME Typed, Forget, UNCHANGED remote
  PROVE  FetchedGenuine'
BY MaxVerAssumption DEF Forget, Nothing, FetchedGenuine, Typed, Versions

(* The repair pass stores only what Discord said.                          *)
LEMMA RepairFromDiscord == Typed /\ FromDiscord /\ (RepairStep \/ RepairFault) => FromDiscord'
<1> SUFFICES ASSUME Typed, FromDiscord, RepairStep \/ RepairFault PROVE FromDiscord'
  OBVIOUS
<1> USE MaxVerAssumption
<1> USE DEF discordVars, archiveVars, ledgerVars, workerVars, repairVars, historyVars
<1>0. UNCHANGED <<remote, queue, wpc, wev, wgot, owed>>
  <2>1. CASE StartRepair \/ FetchPage \/ PersistPage \/ SettlePage \/ ImportSpool \/ ListCandidates
             \/ ReplayDone \/ PageFails \/ RepairFails
    BY <2>1 DEF StartRepair, FetchPage, PersistPage, SettlePage, ImportSpool, ListCandidates,
                ReplayDone, PageFails, RepairFails
  <2>2. CASE \E k \in Keys : ReplayStep(k) \/ ReplayFails(k)
    BY <2>2 DEF ReplayStep, ReplayFails, ReplayDelete, ReplayDeleteMissing, ReplayStart, ReplayFetch,
                ReplayUnavailable, ReplayWrite, ResolveTailMessageReplay, Defer
  <2> QED BY <2>1, <2>2 DEF RepairStep, RepairFault
<1>1. QueueGenuine' /\ WorkerGenuine' /\ OwedGenuine'
  BY <1>0 DEF FromDiscord, QueueGenuine, WorkerGenuine, OwedGenuine, Genuine
<1>2. (UNCHANGED row => RowsGenuine') /\ (UNCHANGED rgot => FetchedGenuine')
  BY <1>0 DEF FromDiscord, RowsGenuine, FetchedGenuine
<1>3. CASE UNCHANGED row /\ (UNCHANGED rgot \/ Forget)
  BY <1>0, <1>1, <1>2, <1>3, ForgetGenuine DEF FromDiscord
<1>4. CASE FetchPage
  <2>1. \A m \in Msgs : remote[m].ver \in Nat
    BY DEF Typed, Versions
  <2>2. \A m \in Msgs : rgot'[m] \in {0, remote[m].ver}
    BY <1>4 DEF FetchPage
  <2>3. FetchedGenuine'
    BY <1>0, <2>1, <2>2 DEF FetchedGenuine
  <2>4. UNCHANGED row
    BY <1>4 DEF FetchPage
  <2> QED BY <1>1, <1>2, <2>3, <2>4 DEF FromDiscord
<1>5. CASE PersistPage \/ \E k \in Keys : ReplayWrite(k)
  <2>1. UpsertFetched /\ UNCHANGED rgot
    BY <1>5 DEF PersistPage, ReplayWrite
  <2> QED BY <1>0, <1>1, <1>2, <2>1, UpsertFetchedGenuine DEF FromDiscord
<1>6. CASE \E k \in Keys : ReplayDelete(k)
  <2>1. PICK k \in Keys : ReplayDelete(k)
    BY <1>6
  <2>2. UNCHANGED rgot /\ MarkDeleted(k[2]) /\ k[2] \in Msgs
    BY <2>1 DEF ReplayDelete, Keys
  <2>3. RowsGenuine'
    BY <1>0, <2>2, MarkDeletedRows DEF FromDiscord, RowsGenuine
  <2> QED BY <1>1, <1>2, <2>2, <2>3 DEF FromDiscord
<1>7. CASE \E k \in Keys : ReplayFetch(k)
  <2>1. PICK k \in Keys : ReplayFetch(k)
    BY <1>7
  <2>2. \A m \in Msgs : remote[m].ver \in Nat
    BY DEF Typed, Versions
  <2>3. \A m \in Msgs : rgot'[m] \in {0, remote[m].ver}
    BY <2>1 DEF ReplayFetch, Nothing, Keys
  <2>4. FetchedGenuine' /\ UNCHANGED row
    BY <1>0, <2>1, <2>2, <2>3 DEF FetchedGenuine, ReplayFetch
  <2> QED BY <1>1, <1>2, <2>4 DEF FromDiscord
<1>8. StartRepair \/ SettlePage \/ ImportSpool \/ ListCandidates \/ ReplayDone \/ PageFails \/ RepairFails
        => UNCHANGED row /\ (UNCHANGED rgot \/ Forget)
  BY DEF StartRepair, SettlePage, ImportSpool, ListCandidates, ReplayDone, PageFails, RepairFails,
         RepairIdle
<1>9. \A k \in Keys : ReplayDeleteMissing(k) \/ ReplayStart(k) \/ ReplayUnavailable(k)
                      \/ ResolveTailMessageReplay(k) \/ ReplayFails(k)
        => UNCHANGED row /\ (UNCHANGED rgot \/ Forget)
  BY DEF ReplayDeleteMissing, ReplayStart, ReplayUnavailable, ResolveTailMessageReplay, ReplayFails,
         Defer, NextCandidate
<1> QED BY <1>3, <1>4, <1>5, <1>6, <1>7, <1>8, <1>9 DEF RepairStep, RepairFault, ReplayStep

(* Crash and restart invent nothing.                                       *)
LEMMA ProcessFromDiscord == Typed /\ FromDiscord /\ Process => FromDiscord'
<1> SUFFICES ASSUME Typed, FromDiscord, Process PROVE FromDiscord'
  OBVIOUS
<1> USE DEF discordVars, archiveVars, ledgerVars, workerVars, repairVars, historyVars
<1>1. CASE Stop \/ Restart
  <2>1. UNCHANGED <<remote, queue, row, rgot, owed, wpc, wev, wgot>>
    BY <1>1 DEF Stop, Restart
  <2> QED BY <2>1 DEF FromDiscord, QueueGenuine, WorkerGenuine, RowsGenuine, FetchedGenuine,
                      OwedGenuine, Genuine
<1>2. CASE Halt
  <2>1. UNCHANGED <<remote, row, owed>> /\ Forget /\ queue' = <<>> /\ wpc' = "idle"
    BY <1>2 DEF Halt, RepairIdle, Release
  <2>2. RowsGenuine' /\ OwedGenuine'
    BY <2>1 DEF FromDiscord, RowsGenuine, OwedGenuine
  <2>3. QueueGenuine' /\ WorkerGenuine'
    BY <2>1 DEF QueueGenuine, WorkerGenuine
  <2> QED BY <2>1, <2>2, <2>3, ForgetGenuine DEF FromDiscord
<1> QED BY <1>1, <1>2 DEF Process, Exit, Crash

(* Every step keeps the archive within what Discord said.                  *)
LEMMA FromDiscordStep == Typed /\ FromDiscord /\ [Next]_vars => FromDiscord'
<1>1. FromDiscord /\ UNCHANGED vars => FromDiscord'
  BY DEF FromDiscord, QueueGenuine, WorkerGenuine, RowsGenuine, FetchedGenuine, OwedGenuine, Genuine,
         vars, discordVars, archiveVars, workerVars, repairVars, historyVars
<1> QED BY <1>1, DiscordFromDiscord, WorkerFromDiscord, RepairFromDiscord, ProcessFromDiscord DEF Next

-----------------------------------------------------------------------------
(* The fences: a version in hand is at least the row's, or is marked.      *)

(* A live write either leaves the row alone or marks it for repair.        *)
LEMMA ArchiveMessageRows ==
  ASSUME Typed, FromDiscord, ArchiveMessage
  PROVE  /\ \A m \in Msgs : row'[m] = row[m] \/ (m = wev.msg /\ m \in rfenced')
         /\ rfenced \subseteq rfenced'
         /\ wgot \in 1..MaxVer /\ wev.msg \in Msgs
         /\ \E f \in BOOLEAN : /\ f <=> wev.kind = "update" /\ wfenced
                               /\ row' = [row EXCEPT ![wev.msg] = Upserted(wev.msg, wgot, f)]
<1> DEFINE f == wev.kind = "update" /\ wfenced
<1>1. /\ row' = [row EXCEPT ![wev.msg] = Upserted(wev.msg, wgot, f)]
      /\ rfenced' = IF Keep(wev.msg, wgot, f) THEN rfenced ELSE rfenced \cup {wev.msg}
      /\ wpc = "write"
  BY DEF ArchiveMessage
<1>2. wev.msg \in Msgs /\ wev.ver \in 1..MaxVer /\ wgot \in Versions
  BY <1>1, WorkerEvent DEF Typed
<1>3. wgot \in 1..MaxVer
  BY <1>1, <1>2, MaxVerAssumption DEF FromDiscord, WorkerGenuine, Versions
<1>4. \A m \in Msgs : row'[m] = IF m = wev.msg THEN Upserted(wev.msg, wgot, f) ELSE row[m]
  BY <1>1 DEF Typed
<1>5. Keep(wev.msg, wgot, f) => Upserted(wev.msg, wgot, f) = row[wev.msg]
  BY DEF Upserted
<1>6. f \in BOOLEAN /\ (f <=> wev.kind = "update" /\ wfenced)
  BY DEF Typed
<1> HIDE DEF f
<1> QED BY <1>1, <1>2, <1>3, <1>4, <1>5, <1>6

(* A write of repair leaves a row alone or marks the worker on it.         *)
LEMMA UpsertFetchedMarks ==
  ASSUME Typed, UpsertFetched, wpc # "idle"
  PROVE  (wfenced => wfenced') /\ (row'[wev.msg] = row[wev.msg] \/ wfenced')
<1>1. wev.msg \in Msgs
  BY WorkerEvent
<1>2. wfenced' <=> wfenced \/ wev.msg \in Replaced(OnPage)
  BY Zenon DEF UpsertFetched
<1>3. CASE wev.msg \in Replaced(OnPage)
  BY <1>2, <1>3
<1>4. CASE wev.msg \notin Replaced(OnPage)
  <2>1. rgot[wev.msg] = 0 \/ Keep(wev.msg, rgot[wev.msg], wev.msg \in rfenced)
    BY <1>1, <1>4 DEF Replaced, OnPage
  <2> QED BY <1>1, <1>2, <2>1, UpsertFetchedRows DEF Upserted
<1> QED BY <1>3, <1>4

(* Nobody is at work at first, so no fence can be wrong.                   *)
LEMMA FencesInit == Init => RepairFenced /\ WorkerFenced
BY DEF Init, RepairFenced, WorkerFenced

(* No step puts a row ahead of the page in hand without fencing it.        *)
LEMMA RepairFencedStep == Typed /\ FromDiscord /\ RepairFenced /\ [Next]_vars => RepairFenced'
<1> SUFFICES ASSUME Typed, FromDiscord, RepairFenced, [Next]_vars PROVE RepairFenced'
  OBVIOUS
<1> USE DEF discordVars, archiveVars, ledgerVars, workerVars, repairVars, historyVars
<1>1. CASE UNCHANGED <<rpc, rgot, row, rfenced>>
  BY <1>1 DEF RepairFenced
<1>2. CASE rpc' \notin {"persist", "write"}
  BY <1>2 DEF RepairFenced
<1>3. CASE ArchiveMessage
  <2>1. UNCHANGED <<rpc, rgot>>
    BY <1>3 DEF ArchiveMessage
  <2> QED BY <1>3, <2>1, ArchiveMessageRows DEF RepairFenced
<1>4. CASE ArchiveDelete
  <2>1. UNCHANGED <<rpc, rgot>> /\ rfenced' = rfenced \cup {wev.msg} /\ wpc # "idle"
    BY <1>4 DEF ArchiveDelete
  <2>2. \A m \in Msgs : m # wev.msg => row'[m] = row[m]
    BY <1>4 DEF ArchiveDelete, MarkDeleted, Typed
  <2> QED BY <2>1, <2>2 DEF RepairFenced
<1>5. CASE FetchPage \/ \E k \in Keys : ReplayFetch(k)
  <2>1. UNCHANGED row /\ \A m \in Msgs : rgot'[m] \in {0, remote[m].ver}
    BY <1>5 DEF FetchPage, ReplayFetch, Nothing, Keys
  <2>2. \A m \in Msgs : remote[m].ver >= row[m].ver
    BY MaxVerAssumption DEF FromDiscord, RowsGenuine, Typed, Versions
  <2> QED BY <2>1, <2>2 DEF RepairFenced
<1>6. Discord => UNCHANGED <<rpc, rgot, row, rfenced>>
  BY DEF Discord
<1>7. WorkerStep \/ WorkerFault => \/ ArchiveMessage \/ ArchiveDelete
                                  \/ UNCHANGED <<rpc, rgot, row, rfenced>>
  BY DEF WorkerStep, WorkerFault, Take, MessageUpdateSnapshot, ResolveMessageFailure,
     RecordInLedger, HandlerFails, RecordInSpool, RecordFails, Detach
<1>8. RepairStep \/ RepairFault => \/ FetchPage \/ \E k \in Keys : ReplayFetch(k)
                                  \/ rpc' \notin {"persist", "write"}
  <2>1. CASE StartRepair \/ PersistPage \/ SettlePage \/ ImportSpool \/ ListCandidates
             \/ ReplayDone \/ PageFails \/ RepairFails
    BY <2>1 DEF StartRepair, PersistPage, SettlePage, ImportSpool, ListCandidates, ReplayDone,
                PageFails, RepairFails, RepairIdle
  <2>2. \A k \in Keys : ReplayStep(k) \/ ReplayFails(k) =>
           ReplayFetch(k) \/ rpc' \notin {"persist", "write"}
    BY DEF ReplayStep, ReplayFails, ReplayDelete, ReplayDeleteMissing, ReplayStart,
       ReplayUnavailable, ReplayWrite, ResolveTailMessageReplay, Defer, NextCandidate
  <2> QED BY <2>1, <2>2 DEF RepairStep, RepairFault
<1>9. Process => UNCHANGED <<rpc, rgot, row, rfenced>> \/ rpc' \notin {"persist", "write"}
  BY DEF Process, Stop, Exit, Crash, Halt, RepairIdle, Restart
<1>10. UNCHANGED vars => UNCHANGED <<rpc, rgot, row, rfenced>>
  BY DEF vars
<1> QED BY <1>1, <1>2, <1>3, <1>4, <1>5, <1>6, <1>7, <1>8, <1>9, <1>10 DEF Next

(* No step puts a row ahead of the refetched update without fencing it.    *)
LEMMA WorkerFencedStep == Typed /\ FromDiscord /\ WorkerFenced /\ [Next]_vars => WorkerFenced'
<1> SUFFICES ASSUME Typed, FromDiscord, WorkerFenced, [Next]_vars PROVE WorkerFenced'
  OBVIOUS
<1> USE DEF discordVars, archiveVars, ledgerVars, workerVars, repairVars, historyVars
<1>1. CASE UNCHANGED <<workerVars, row>>
  BY <1>1 DEF WorkerFenced
<1>2. CASE wpc' # "write" \/ wev'.kind # "update"
  BY <1>2 DEF WorkerFenced
<1>3. CASE MessageUpdateSnapshot /\ wpc' = "write"
  <2>1. UNCHANGED <<row, wev>> /\ wgot' = remote[wev.msg].ver /\ wpc = "refetch"
    BY <1>3 DEF MessageUpdateSnapshot, Stage, Release
  <2>2. remote[wev.msg].ver >= row[wev.msg].ver
    BY <2>1, WorkerEvent, MaxVerAssumption DEF FromDiscord, RowsGenuine, Typed, Versions
  <2> QED BY <2>1, <2>2 DEF WorkerFenced
<1>4. CASE PersistPage \/ \E k \in Keys : ReplayWrite(k)
  <2>1. UpsertFetched /\ UNCHANGED <<wpc, wev, wgot>>
    BY <1>4 DEF PersistPage, ReplayWrite
  <2>2. CASE wpc # "write"
    BY <2>1, <2>2 DEF WorkerFenced
  <2>3. CASE wpc = "write"
    <3>1. (wfenced => wfenced') /\ (row'[wev.msg] = row[wev.msg] \/ wfenced')
      BY <2>1, <2>3, UpsertFetchedMarks
    <3> QED BY <2>1, <3>1 DEF WorkerFenced
  <2> QED BY <2>2, <2>3
<1>5. CASE \E k \in Keys : ReplayDelete(k)
  <2>1. PICK k \in Keys : ReplayDelete(k)
    BY <1>5
  <2>2. UNCHANGED workerVars /\ MarkDeleted(k[2]) /\ k[2] \in Msgs
    BY <2>1 DEF ReplayDelete, Keys
  <2>3. \A m \in Msgs : row'[m].ver = row[m].ver /\ (row[m].del => row'[m] = row[m])
    BY <2>2, MarkDeletedRows DEF FromDiscord
  <2>4. CASE wpc = "write"
    BY <2>2, <2>3, <2>4, WorkerEvent DEF WorkerFenced
  <2>5. CASE wpc # "write"
    BY <2>2, <2>5 DEF WorkerFenced
  <2> QED BY <2>4, <2>5
<1>6. Discord => UNCHANGED <<workerVars, row>>
  BY DEF Discord
<1>7. WorkerStep \/ WorkerFault => \/ MessageUpdateSnapshot
                                  \/ wpc' # "write" \/ wev'.kind # "update"
                                  \/ UNCHANGED <<workerVars, row>>
  BY DEF WorkerStep, WorkerFault, Take, ArchiveMessage, ArchiveDelete, ResolveMessageFailure,
     RecordInLedger, HandlerFails, RecordInSpool, RecordFails, Detach, Stage, Release
<1>8. RepairStep \/ RepairFault =>
         \/ PersistPage \/ \E k \in Keys : ReplayWrite(k) \/ ReplayDelete(k)
         \/ UNCHANGED <<workerVars, row>>
  <2>1. CASE StartRepair \/ FetchPage \/ SettlePage \/ ImportSpool \/ ListCandidates
             \/ ReplayDone \/ PageFails \/ RepairFails
    BY <2>1 DEF StartRepair, FetchPage, SettlePage, ImportSpool, ListCandidates, ReplayDone,
                PageFails, RepairFails
  <2>2. \A k \in Keys : ReplayStep(k) \/ ReplayFails(k) =>
           ReplayWrite(k) \/ ReplayDelete(k) \/ UNCHANGED <<workerVars, row>>
    BY DEF ReplayStep, ReplayFails, ReplayDeleteMissing, ReplayStart, ReplayFetch,
       ReplayUnavailable, ResolveTailMessageReplay, Defer
  <2> QED BY <2>1, <2>2 DEF RepairStep, RepairFault
<1>9. Process => UNCHANGED <<workerVars, row>> \/ wpc' # "write"
  BY DEF Process, Stop, Exit, Crash, Halt, Release, Restart
<1>10. UNCHANGED vars => UNCHANGED <<workerVars, row>>
  BY DEF vars
<1> QED BY <1>1, <1>2, <1>3, <1>4, <1>5, <1>6, <1>7, <1>8, <1>9, <1>10 DEF Next

(* The fence invariant holds at first and is kept by every step.           *)
LEMMA FenceInvInductive == (Init => FenceInv) /\ (FenceInv /\ [Next]_vars => FenceInv')
<1>1. Init => FenceInv
  BY TypedInit, FromDiscordInit, FencesInit DEF FenceInv
<1>2. FenceInv /\ [Next]_vars => FenceInv'
  BY TypedStep, FromDiscordStep, RepairFencedStep, WorkerFencedStep DEF FenceInv
<1> QED BY <1>1, <1>2

(* Which steps write a row at all.                                         *)
LEMMA RowWriters ==
  ASSUME [Next]_vars
  PROVE  \/ UNCHANGED row
         \/ ArchiveMessage \/ ArchiveDelete
         \/ rpc \in {"persist", "write"} /\ UpsertFetched /\ UNCHANGED <<remote, wpc, wev, wgot>>
         \/ \E m \in Msgs : MarkDeleted(m)
<1> USE DEF discordVars, archiveVars, ledgerVars, workerVars, repairVars, historyVars
<1>1. Discord \/ Process \/ UNCHANGED vars => UNCHANGED row
  BY DEF Discord, Process, Stop, Exit, Crash, Halt, Restart, vars
<1>2. WorkerStep \/ WorkerFault => ArchiveMessage \/ ArchiveDelete \/ UNCHANGED row
  BY DEF WorkerStep, WorkerFault, Take, MessageUpdateSnapshot, ResolveMessageFailure,
     RecordInLedger, HandlerFails, RecordInSpool, RecordFails, Detach
<1>3. \A k \in Keys : ReplayStep(k) \/ ReplayFails(k) =>
         ReplayWrite(k) \/ ReplayDelete(k) \/ UNCHANGED row
  BY DEF ReplayStep, ReplayFails, ReplayDeleteMissing, ReplayStart, ReplayFetch,
     ReplayUnavailable, ResolveTailMessageReplay, Defer
<1>4. StartRepair \/ FetchPage \/ SettlePage \/ ImportSpool \/ ListCandidates \/ ReplayDone
        \/ PageFails \/ RepairFails => UNCHANGED row
  BY DEF StartRepair, FetchPage, SettlePage, ImportSpool, ListCandidates, ReplayDone, PageFails,
     RepairFails
<1>5. PersistPage \/ (\E k \in Keys : ReplayWrite(k)) =>
        rpc \in {"persist", "write"} /\ UpsertFetched /\ UNCHANGED <<remote, wpc, wev, wgot>>
  BY DEF PersistPage, ReplayWrite
<1>6. \A k \in Keys : ReplayDelete(k) => MarkDeleted(k[2]) /\ k[2] \in Msgs
  BY DEF ReplayDelete, Keys
<1> QED BY <1>1, <1>2, <1>3, <1>4, <1>5, <1>6 DEF Next, RepairStep, RepairFault

(* Replay, page repair and refetched updates never put an older version    *)
(* over a newer one and nothing brings a deleted row back, whatever the    *)
(* edit stamps: the fences of keepStoredMessage suffice.                   *)
THEOREM RecoveryNeverRegresses == Spec => RecoveryKeepsNewer
<1>1. ASSUME FenceInv, [Next]_vars
      PROVE  [\A m \in Msgs :
                /\ row[m].del => row'[m] = row[m]
                /\ row'[m].ver >= row[m].ver \/ (ArchiveMessage /\ wev.kind = "create")]_vars
  <2> SUFFICES ASSUME NEW m \in Msgs
               PROVE  /\ row[m].del => row'[m] = row[m]
                      /\ row'[m].ver >= row[m].ver \/ (ArchiveMessage /\ wev.kind = "create")
    OBVIOUS
  <2>0. row[m].ver \in Nat /\ rgot[m] \in Versions /\ (row[m].del => row[m].ver # 0)
    BY <1>1, MaxVerAssumption DEF FenceInv, FromDiscord, RowsGenuine, Typed, Versions
  <2>1. CASE UNCHANGED row
    BY <2>0, <2>1
  <2>2. CASE ArchiveMessage
    <3>1. PICK f \in BOOLEAN : /\ f <=> wev.kind = "update" /\ wfenced
                               /\ row' = [row EXCEPT ![wev.msg] = Upserted(wev.msg, wgot, f)]
      BY <1>1, <2>2, ArchiveMessageRows DEF FenceInv
    <3>2. wgot \in 1..MaxVer /\ wev.msg \in Msgs /\ wpc = "write" /\ wev.kind \in {"create", "update"}
      BY <1>1, <2>2, ArchiveMessageRows, WorkerEvent DEF FenceInv, ArchiveMessage, Kinds
    <3>3. CASE m # wev.msg
      BY <1>1, <2>0, <3>1, <3>3 DEF FenceInv, Typed
    <3>4. CASE m = wev.msg
      <4>1. row'[m] = Upserted(m, wgot, f)
        BY <1>1, <3>1, <3>4 DEF FenceInv, Typed
      <4>2. /\ row[m].del => row[m].ver = 0 \/ Upserted(m, wgot, f) = row[m]
            /\ f \/ wgot >= row[m].ver => Upserted(m, wgot, f).ver >= row[m].ver
        BY <1>1, <3>2, UpsertedRow DEF FenceInv
      <4>3. wev.kind = "update" => f \/ row[m].del \/ wgot >= row[m].ver
        BY <1>1, <3>1, <3>2, <3>4 DEF FenceInv, WorkerFenced
      <4> QED BY <2>0, <2>2, <3>2, <4>1, <4>2, <4>3
    <3> QED BY <3>3, <3>4
  <2>3. CASE ArchiveDelete \/ \E n \in Msgs : MarkDeleted(n)
    <3>1. PICK n \in Msgs : MarkDeleted(n)
      BY <1>1, <2>3, WorkerEvent DEF ArchiveDelete, FenceInv
    <3> QED BY <1>1, <2>0, <3>1, MarkDeletedRows DEF FenceInv, FromDiscord
  <2>4. CASE rpc \in {"persist", "write"} /\ UpsertFetched
    <3>1. CASE rgot[m] = 0
      BY <1>1, <2>0, <2>4, <3>1, UpsertFetchedRows DEF FenceInv
    <3>2. CASE rgot[m] # 0
      <4>1. rgot[m] \in 1..MaxVer /\ (m \in rfenced) \in BOOLEAN
        BY <2>0, <3>2, MaxVerAssumption DEF Versions
      <4>2. row'[m] = Upserted(m, rgot[m], m \in rfenced)
        BY <1>1, <2>4, <3>2, UpsertFetchedRows DEF FenceInv
      <4>3. /\ row[m].del => row[m].ver = 0 \/ Upserted(m, rgot[m], m \in rfenced) = row[m]
            /\ m \in rfenced \/ rgot[m] >= row[m].ver
                 => Upserted(m, rgot[m], m \in rfenced).ver >= row[m].ver
        BY <1>1, <4>1, UpsertedRow DEF FenceInv
      <4>4. m \in rfenced \/ row[m].del \/ rgot[m] >= row[m].ver
        BY <1>1, <2>4, <3>2 DEF FenceInv, RepairFenced
      <4> QED BY <2>0, <4>2, <4>3, <4>4
    <3> QED BY <3>1, <3>2
  <2> QED BY <1>1, <2>1, <2>2, <2>3, <2>4, RowWriters
<1> QED BY <1>1, FenceInvInductive, PTL DEF Spec, RecoveryKeepsNewer

-----------------------------------------------------------------------------
(* Nothing is lost, when edits are totally ordered by their stamps.        *)

(* Then rows only grow, and what is deleted stays deleted.                 *)
LEMMA ArchiveGrows ==
  ASSUME OrderedEdits, Typed, FromDiscord, [Next]_vars
  PROVE  /\ \A m \in Msgs : /\ row'[m].ver >= row[m].ver
                            /\ row[m].del => row'[m].del
                            /\ remote[m].gone => remote'[m].gone
                            /\ row[m].ver \in Nat /\ row'[m].ver \in Nat
         /\ deletes \subseteq deletes'
<1> USE DEF discordVars, archiveVars, ledgerVars, workerVars, repairVars, historyVars
<1>0. Typed'
  BY TypedStep
<1>1. \A m \in Msgs : row[m].ver \in Nat /\ row'[m].ver \in Nat /\ rgot[m] \in Versions
  <2>1. \A m \in Msgs : row[m].ver \in Versions /\ row'[m].ver \in Versions /\ rgot[m] \in Versions
    BY <1>0 DEF Typed
  <2> QED BY <2>1, MaxVerAssumption DEF Versions
<1>2. \A m \in Msgs : row[m].del => row[m].ver # 0
  BY DEF FromDiscord, RowsGenuine
<1>3. \A m \in Msgs : row'[m].ver >= row[m].ver /\ (row[m].del => row'[m].del)
  <2> TAKE m \in Msgs
  <2>1. CASE UNCHANGED row
    BY <1>1, <2>1
  <2>2. CASE ArchiveMessage
    <3>1. PICK f \in BOOLEAN : row' = [row EXCEPT ![wev.msg] = Upserted(wev.msg, wgot, f)]
      BY <2>2, ArchiveMessageRows
    <3>2. wgot \in 1..MaxVer /\ wev.msg \in Msgs
      BY <2>2, ArchiveMessageRows
    <3>3. CASE m # wev.msg
      BY <1>1, <3>1, <3>3 DEF Typed
    <3>4. CASE m = wev.msg
      <4>1. row'[m] = Upserted(m, wgot, f)
        BY <3>1, <3>4 DEF Typed
      <4> QED BY <3>2, <4>1, UpsertedRow, UpsertedNewest
    <3> QED BY <3>3, <3>4
  <2>3. CASE ArchiveDelete \/ \E n \in Msgs : MarkDeleted(n)
    <3>1. PICK n \in Msgs : MarkDeleted(n)
      BY <2>3, WorkerEvent DEF ArchiveDelete
    <3> QED BY <1>1, <3>1, MarkDeletedRows DEF FromDiscord
  <2>4. CASE UpsertFetched
    <3>1. CASE rgot[m] = 0
      BY <1>1, <2>4, <3>1, UpsertFetchedRows
    <3>2. CASE rgot[m] # 0
      <4>1. rgot[m] \in 1..MaxVer /\ (m \in rfenced) \in BOOLEAN
        BY <1>1, <3>2, MaxVerAssumption DEF Versions
      <4>2. row'[m] = Upserted(m, rgot[m], m \in rfenced)
        BY <2>4, <3>2, UpsertFetchedRows
      <4>3. \A f \in BOOLEAN : /\ Upserted(m, rgot[m], f).ver >= row[m].ver
                              /\ Upserted(m, rgot[m], f).del = row[m].del
        BY <4>1, UpsertedRow, UpsertedNewest
      <4> QED BY <4>1, <4>2, <4>3
    <3> QED BY <3>1, <3>2
  <2> QED BY <2>1, <2>2, <2>3, <2>4, RowWriters
<1>4. \A m \in Msgs : remote[m].gone => remote'[m].gone
  <2>1. CASE Discord
    BY <2>1, RemoteGrows
  <2>2. CASE UNCHANGED remote
    BY <2>2
  <2>3. Discord \/ UNCHANGED remote
    BY DEF Next, WorkerStep, WorkerFault, Take, MessageUpdateSnapshot, ArchiveMessage, ArchiveDelete,
       ResolveMessageFailure, RecordInLedger, HandlerFails, RecordInSpool, RecordFails, Detach,
       RepairStep, RepairFault, StartRepair, FetchPage, PersistPage, SettlePage, ImportSpool,
       ListCandidates, ReplayDone, PageFails, RepairFails, ReplayStep, ReplayFails, ReplayDelete,
       ReplayDeleteMissing, ReplayStart, ReplayFetch, ReplayUnavailable, ReplayWrite,
       ResolveTailMessageReplay, Defer, Process, Stop, Exit, Crash, Halt, Restart, vars
  <2> QED BY <2>1, <2>2, <2>3
<1>5. deletes \subseteq deletes'
  BY DEF Next, Discord, WorkerStep, WorkerFault, Take, MessageUpdateSnapshot, ArchiveMessage,
     ArchiveDelete, ResolveMessageFailure, RecordInLedger, HandlerFails, RecordInSpool, RecordFails,
     Detach, RepairStep, RepairFault, StartRepair, FetchPage, PersistPage, SettlePage, ImportSpool,
     ListCandidates, ReplayDone, PageFails, RepairFails, ReplayStep, ReplayFails, ReplayDelete,
     ReplayDeleteMissing, ReplayStart, ReplayFetch, ReplayUnavailable, ReplayWrite,
     ResolveTailMessageReplay, Defer, Process, Stop, Exit, Crash, Halt, Restart, vars
<1> QED BY <1>1, <1>3, <1>4, <1>5

(* So what is in the archive stays there.                                  *)
LEMMA SettledStays ==
  ASSUME OrderedEdits, Typed, FromDiscord, [Next]_vars
  PROVE  /\ \A m \in Msgs, v \in Nat : AtLeast(m, v) => AtLeast(m, v)'
         /\ \A k \in Keys, v \in Nat : Settled(k, v) => Settled(k, v)'
<1>1. \A k \in Keys : k[2] \in Msgs
  BY DEF Keys
<1>2. \A m \in Msgs, v \in Nat : AtLeast(m, v) => AtLeast(m, v)'
  BY ArchiveGrows DEF AtLeast
<1>3. \A k \in Keys, v \in Nat : Settled(k, v) => Settled(k, v)'
  BY <1>1, ArchiveGrows DEF Settled
<1> QED BY <1>2, <1>3

(* A live write leaves at least the version it had in hand.                *)
LEMMA ArchiveMessageStores ==
  ASSUME OrderedEdits, Typed, FromDiscord, ArchiveMessage
  PROVE  AtLeast(wev.msg, wgot)'
<1>1. PICK f \in BOOLEAN : row' = [row EXCEPT ![wev.msg] = Upserted(wev.msg, wgot, f)]
  BY ArchiveMessageRows
<1>2. wgot \in 1..MaxVer /\ wev.msg \in Msgs /\ UNCHANGED <<wev, wgot>>
  BY ArchiveMessageRows DEF ArchiveMessage, Stage
<1>3. row'[wev.msg] = Upserted(wev.msg, wgot, f)
  BY <1>1, <1>2 DEF Typed
<1> QED BY <1>2, <1>3, UpsertedNewest DEF AtLeast

(* So does a write of repair, for every message it fetched.                *)
LEMMA UpsertFetchedStores ==
  ASSUME OrderedEdits, Typed, UpsertFetched
  PROVE  \A m \in Msgs : rgot[m] # 0 => row'[m].ver >= rgot[m] \/ row'[m].del
<1> TAKE m \in Msgs
<1> HAVE rgot[m] # 0
<1>1. rgot[m] \in 1..MaxVer /\ (m \in rfenced) \in BOOLEAN
  BY MaxVerAssumption DEF Typed, Versions
<1> QED BY <1>1, UpsertFetchedRows, UpsertedNewest

(* What the worker is about to resolve is in the archive after any step.   *)
LEMMA WorkerSettlesStep ==
  ASSUME OrderedEdits, Typed, FromDiscord, WorkerSettles, [Next]_vars
  PROVE  WorkerSettles'
<1> USE DEF discordVars, archiveVars, ledgerVars, workerVars, repairVars, historyVars
<1>0. /\ wpc # "idle" => Key \in Keys /\ wev.msg \in Msgs /\ wev.ver \in Nat /\ Key[2] = wev.msg
      /\ wgot \in Nat /\ \A k \in Keys : owed[k] \in Nat
  <2>1. wgot \in Versions /\ \A k \in Keys : owed[k] \in Versions
    BY DEF Typed
  <2> QED BY <2>1, WorkerEvent, MaxVerAssumption DEF Versions
<1>1. CASE UNCHANGED <<wpc, wev, wgot, owed>>
  <2>1. wpc = "resolve" /\ AtLeast(wev.msg, wgot) => AtLeast(wev.msg, wgot)'
    <3> DEFINE m == wev.msg
               v == wgot
    <3>1. wpc = "resolve" => m \in Msgs /\ v \in Nat
      BY <1>0
    <3> QED BY <1>1, <3>1, ArchiveGrows DEF AtLeast
  <2>2. deletes \subseteq deletes'
    BY ArchiveGrows
  <2> QED BY <1>1, <2>1, <2>2 DEF WorkerSettles, Key
<1>2. CASE wpc' \notin {"write", "resolve"}
  BY <1>2 DEF WorkerSettles
<1>3. CASE Take
  <2>1. wpc' = (IF wev'.kind = "update" THEN "refetch" ELSE "write")
    BY <1>3 DEF Take
  <2> QED BY <2>1 DEF WorkerSettles
<1>4. CASE MessageUpdateSnapshot /\ wpc' = "write"
  <2>1. UNCHANGED <<owed, wev>> /\ wgot' = remote[wev.msg].ver /\ wpc = "refetch"
    BY <1>4 DEF MessageUpdateSnapshot, Stage, Release
  <2>2. remote[wev.msg].ver >= owed[Key]
    <3> HIDE DEF Key
    <3> QED BY <1>0, <2>1 DEF FromDiscord, OwedGenuine
  <2> QED BY <1>4, <2>1, <2>2 DEF WorkerSettles, Key
<1>5. CASE ArchiveMessage
  <2>1. UNCHANGED <<wev, wgot, owed>> /\ wpc = "write" /\ wpc' = "resolve" /\ wev.kind # "delete"
    BY <1>5 DEF ArchiveMessage, Stage
  <2> QED BY <1>5, <2>1, ArchiveMessageStores DEF WorkerSettles, Key
<1>6. CASE ArchiveDelete
  BY <1>6 DEF ArchiveDelete, Stage, WorkerSettles
<1>7. CASE Detach
  <2>1. UNCHANGED <<wpc, wev, wgot, row, deletes>> /\ Owe /\ wpc # "idle"
    BY <1>7 DEF Detach, Handling
  <2>2. owed'[Key] = wev.ver
    <3> HIDE DEF Key
    <3> QED BY <1>0, <2>1 DEF Owe, Typed
  <2>3. wpc \in {"write", "resolve"} => wgot >= wev.ver
    BY DEF FromDiscord, WorkerGenuine
  <2> QED BY <2>1, <2>2, <2>3 DEF WorkerSettles, Key, AtLeast
<1>8. \/ Discord \/ RepairStep \/ RepairFault \/ Stop \/ Restart \/ UNCHANGED vars
      \/ HandlerFails \/ RecordInLedger \/ RecordInSpool \/ RecordFails \/ Exit \/ Crash
      \/ ResolveMessageFailure
      \/ MessageUpdateSnapshot \/ Take \/ ArchiveMessage \/ ArchiveDelete \/ Detach
  BY DEF Next, WorkerStep, WorkerFault, Process
<1>9. RepairStep \/ RepairFault => UNCHANGED <<wpc, wev, wgot, owed>>
  BY DEF RepairStep, RepairFault, StartRepair, FetchPage, PersistPage, SettlePage, ImportSpool,
     ListCandidates, ReplayDone, PageFails, RepairFails, ReplayStep, ReplayFails, ReplayDelete,
     ReplayDeleteMissing, ReplayStart, ReplayFetch, ReplayUnavailable, ReplayWrite,
     ResolveTailMessageReplay, Defer
<1>10. Discord \/ Stop \/ Restart \/ UNCHANGED vars => UNCHANGED <<wpc, wev, wgot, owed>>
  BY DEF Discord, Stop, Restart, vars
<1>11. HandlerFails \/ RecordInLedger \/ RecordInSpool \/ RecordFails \/ Exit \/ Crash
         \/ ResolveMessageFailure => wpc' \notin {"write", "resolve"}
  BY DEF HandlerFails, RecordInLedger, RecordInSpool, RecordFails, Exit, Crash, Halt,
     ResolveMessageFailure, Release, Stage
<1>12. MessageUpdateSnapshot => wpc' = "write" \/ wpc' \notin {"write", "resolve"}
  BY DEF MessageUpdateSnapshot, Release, Stage
<1> QED BY <1>1, <1>2, <1>3, <1>4, <1>5, <1>6, <1>7, <1>8, <1>9, <1>10, <1>11, <1>12

(* An identity that is neither marked stale nor spooled was not recorded:  *)
(* it owes what it owed.                                                   *)
LEMMA OwedStays ==
  ASSUME Typed, [Next]_vars, NEW k \in Keys
  PROVE  /\ k \notin stale' /\ k \notin spool' /\ ~ListCandidates =>
              k \notin stale /\ k \notin spool /\ owed'[k] = owed[k]
         /\ owed'[k] # owed[k] => k \in open' \/ k \in spool'
<1> USE DEF discordVars, archiveVars, ledgerVars, workerVars, repairVars, historyVars
<1>1. CASE UNCHANGED <<spool, stale, owed>>
  BY <1>1
<1>2. CASE \E j \in Keys : RecordFailure(j) /\ UNCHANGED <<spool, owed>>
  BY <1>2, RecordFailureSets
<1>3. CASE ImportFallbacks /\ UNCHANGED owed
  BY <1>3, ImportSets
<1>4. CASE RecordInLedger \/ RecordInSpool \/ RecordFails \/ Detach
  <2>0. wpc # "idle"
    BY <1>4 DEF RecordInLedger, RecordInSpool, RecordFails, Detach, Handling
  <2>1. Key \in Keys
    BY <2>0, WorkerEvent
  <2>2. owed' = owed \/ (Owe /\ (Key \in spool' \/ (Key \in stale' /\ Key \in open')))
    BY <1>4, RecordFailureSets DEF RecordInLedger, RecordInSpool, RecordFails, Detach
  <2>3. spool \subseteq spool' /\ stale \subseteq stale'
    BY <1>4, RecordFailureSets DEF RecordInLedger, RecordInSpool, RecordFails, Detach
  <2>4. Owe /\ k # Key => owed'[k] = owed[k]
    <3> HIDE DEF Key
    <3> QED BY <2>1 DEF Owe, Typed
  <2> HIDE DEF Key
  <2> QED BY <2>2, <2>3, <2>4
<1>5. CASE ListCandidates
  BY <1>5 DEF ListCandidates
<1>6. Discord \/ WorkerStep \/ HandlerFails \/ Process \/ UNCHANGED vars =>
        \/ UNCHANGED <<spool, stale, owed>> \/ RecordInLedger
        \/ ImportFallbacks /\ UNCHANGED owed
  BY DEF Discord, WorkerStep, Take, MessageUpdateSnapshot, ArchiveMessage, ArchiveDelete,
     ResolveMessageFailure, ResolveFailures, HandlerFails, Process, Stop, Exit, Crash, Halt, Restart,
     vars
<1>7. RepairStep \/ RepairFault =>
        \/ UNCHANGED <<spool, stale, owed>> \/ ListCandidates
        \/ ImportFallbacks /\ UNCHANGED owed
        \/ \E j \in Keys : RecordFailure(j) /\ UNCHANGED <<spool, owed>>
  BY DEF RepairStep, RepairFault, StartRepair, FetchPage, PersistPage, SettlePage, ImportSpool,
     ReplayDone, PageFails, RepairFails, ReplayStep, ReplayFails, ReplayDelete,
     ReplayDeleteMissing, ReplayStart, ReplayFetch, ReplayUnavailable, ReplayWrite,
     ResolveTailMessageReplay, Defer, ResolveFailures, ResolveFailureGeneration
<1> QED BY <1>1, <1>2, <1>3, <1>4, <1>5, <1>6, <1>7 DEF Next, WorkerFault

(* Which steps leave repair with something in hand.                        *)
LEMMA RepairInHand ==
  ASSUME [Next]_vars, rpc' \in {"settle", "fetch", "write", "resolve"}
  PROVE  /\ ~ListCandidates
         /\ \/ UNCHANGED <<rpc, rgot, cands>>
            \/ PersistPage
            \/ \E j \in Keys : ReplayDelete(j) \/ ReplayStart(j) \/ ReplayFetch(j) \/ ReplayWrite(j)
<1> USE DEF discordVars, archiveVars, ledgerVars, workerVars, repairVars, historyVars
<1>1. Discord \/ WorkerStep \/ WorkerFault \/ UNCHANGED vars => UNCHANGED <<rpc, rgot, cands>>
  BY DEF Discord, WorkerStep, WorkerFault, Take, MessageUpdateSnapshot, ArchiveMessage,
     ArchiveDelete, ResolveMessageFailure, RecordInLedger, HandlerFails, RecordInSpool, RecordFails,
     Detach, vars
<1>2. Process => UNCHANGED <<rpc, rgot, cands>> \/ rpc' = "idle"
  BY DEF Process, Stop, Exit, Crash, Halt, RepairIdle, Restart
<1>3. StartRepair \/ FetchPage \/ SettlePage \/ ImportSpool \/ ListCandidates \/ ReplayDone
        \/ PageFails \/ RepairFails => rpc' \in {"page", "persist", "import", "list", "next", "idle"}
  BY DEF StartRepair, FetchPage, SettlePage, ImportSpool, ListCandidates, ReplayDone, PageFails,
     RepairFails, RepairIdle
<1>4. \A j \in Keys : ReplayDeleteMissing(j) \/ ReplayUnavailable(j)
        \/ ResolveTailMessageReplay(j) \/ ReplayFails(j) => rpc' = "next"
  BY DEF ReplayDeleteMissing, ReplayUnavailable, ResolveTailMessageReplay, ReplayFails, Defer,
     NextCandidate
<1> QED BY <1>1, <1>2, <1>3, <1>4 DEF Next, RepairStep, RepairFault, ReplayStep

(* What repair is about to resolve is in the archive after any step, or    *)
(* was recorded again, or is in the spool.                                 *)
LEMMA RepairSettlesStep ==
  ASSUME OrderedEdits, Typed, FromDiscord, RepairSettles, [Next]_vars
  PROVE  RepairSettles'
<1> USE DEF discordVars, archiveVars, ledgerVars, workerVars, repairVars, historyVars
<1>0. /\ \A m \in Msgs : rgot[m] \in Nat
      /\ \A k \in Keys : owed[k] \in Nat /\ k[2] \in Msgs
      /\ \A m \in Msgs : row'[m].ver \in Nat
  <2>1. (\A m \in Msgs : rgot[m] \in Versions) /\ \A k \in Keys : owed[k] \in Versions /\ k[2] \in Msgs
    BY DEF Typed, Keys
  <2> QED BY <2>1, ArchiveGrows, MaxVerAssumption DEF Versions
<1>1. ASSUME rpc' = "settle", NEW m \in Msgs, rgot'[m] # 0
      PROVE  AtLeast(m, 1)'
  <2>1. CASE UNCHANGED <<rpc, rgot, cands>>
    BY <1>1, <2>1, SettledStays DEF RepairSettles, OnPage
  <2>2. CASE PersistPage
    <3>1. UpsertFetched /\ UNCHANGED rgot
      BY <2>2 DEF PersistPage
    <3> QED BY <1>0, <1>1, <3>1, UpsertFetchedStores DEF AtLeast
  <2>3. ~ \E j \in Keys : ReplayDelete(j) \/ ReplayStart(j) \/ ReplayFetch(j) \/ ReplayWrite(j)
    BY <1>1 DEF ReplayDelete, ReplayStart, ReplayFetch, ReplayWrite
  <2> QED BY <1>1, <2>1, <2>2, <2>3, RepairInHand
<1>2. ASSUME NEW k \in Keys, Candidate(k)', k \notin stale', k \notin spool'
      PROVE  /\ rpc' = "write" => rgot'[k[2]] >= owed'[k] /\ k[1] # "delete"
             /\ rpc' = "fetch" => k[1] # "delete"
             /\ rpc' = "resolve" => Settled(k, owed[k])'
  <2>1. CASE rpc' \notin {"fetch", "write", "resolve"}
    BY <2>1
  <2>2. CASE rpc' \in {"fetch", "write", "resolve"}
    <3>1. k \notin stale /\ k \notin spool /\ owed'[k] = owed[k]
      BY <1>2, <2>2, OwedStays, RepairInHand
    <3>2. CASE UNCHANGED <<rpc, rgot, cands>>
      <4>1. Candidate(k)
        BY <1>2, <3>2 DEF Candidate
      <4>2. Settled(k, owed[k]) => Settled(k, owed[k])'
        <5> DEFINE v == owed[k]
        <5>1. v \in Nat /\ owed'[k] = v
          BY <1>0, <3>1
        <5>2. k[2] \in Msgs
          BY <1>0
        <5> QED BY <5>1, <5>2, ArchiveGrows DEF Settled
      <4> QED BY <3>1, <3>2, <4>1, <4>2 DEF RepairSettles
    <3>3. ASSUME NEW j \in Keys, ReplayDelete(j) PROVE Settled(k, owed[k])' /\ rpc' = "resolve"
      <4>1. k = j /\ row[j[2]].ver # 0 /\ MarkDeleted(j[2]) /\ j[1] = "delete" /\ rpc' = "resolve"
        BY <1>2, <3>3 DEF ReplayDelete, Candidate
      <4>2. row'[k[2]].del
        BY <1>0, <4>1, MarkDeletedRows DEF FromDiscord
      <4> QED BY <4>1, <4>2 DEF Settled
    <3>4. ASSUME NEW j \in Keys, ReplayStart(j) PROVE rpc' = "fetch" /\ k[1] # "delete"
      BY <1>2, <3>4 DEF ReplayStart, Candidate
    <3>5. ASSUME NEW j \in Keys, ReplayFetch(j)
          PROVE  rpc' = "write" /\ rgot'[k[2]] >= owed'[k] /\ k[1] # "delete"
      <4>1. k = j /\ Candidate(k) /\ rpc = "fetch" /\ rpc' = "write"
            /\ rgot' = [Nothing EXCEPT ![k[2]] = remote[k[2]].ver]
        BY <1>2, <3>5 DEF ReplayFetch, Candidate
      <4>2. rgot'[k[2]] = remote[k[2]].ver
        BY <1>0, <4>1 DEF Nothing
      <4>3. remote[k[2]].ver >= owed[k]
        BY DEF FromDiscord, OwedGenuine
      <4> QED BY <3>1, <4>1, <4>2, <4>3 DEF RepairSettles
    <3>6. ASSUME NEW j \in Keys, ReplayWrite(j) PROVE rpc' = "resolve" /\ Settled(k, owed[k])'
      <4>1. Candidate(k) /\ rpc = "write" /\ rpc' = "resolve" /\ UpsertFetched
        BY <1>2, <3>6 DEF ReplayWrite, Candidate
      <4>2. rgot[k[2]] >= owed[k] /\ k[1] # "delete"
        BY <3>1, <4>1 DEF RepairSettles
      <4>3. rgot[k[2]] # 0 => row'[k[2]].ver >= rgot[k[2]] \/ row'[k[2]].del
        BY <1>0, <4>1, UpsertFetchedStores
      <4>4. row'[k[2]].ver >= owed'[k] \/ row'[k[2]].del
        BY <1>0, <3>1, <4>2, <4>3
      <4> QED BY <4>1, <4>2, <4>4 DEF Settled
    <3>7. PersistPage => rpc' = "settle"
      BY DEF PersistPage
    <3> QED BY <2>2, <3>2, <3>3, <3>4, <3>5, <3>6, <3>7, RepairInHand
  <2> QED BY <2>1, <2>2
<1> QED BY <1>1, <1>2 DEF RepairSettles, OnPage

(* Only four steps take an identity out of the ledger.                     *)
LEMMA Resolvers ==
  ASSUME Typed, [Next]_vars, NEW k \in Keys, k \in open \/ k \in spool, k \notin open', k \notin spool'
  PROVE  /\ k \notin spool
         /\ \/ ResolveMessageFailure /\ k = Key
            \/ SettlePage /\ k[1] = "create" /\ rgot[k[2]] # 0
            \/ ReplayUnavailable(k) /\ k \notin stale
            \/ ResolveTailMessageReplay(k) /\ k \notin stale
<1> USE DEF discordVars, archiveVars, ledgerVars, workerVars, repairVars, historyVars
<1>1. CASE open \cup spool \subseteq open' \cup spool'
  BY <1>1
<1>2. CASE ResolveMessageFailure
  BY <1>2 DEF ResolveMessageFailure, ResolveFailures
<1>3. CASE SettlePage
  BY <1>3 DEF SettlePage, ResolveFailures, OnPage
<1>4. ASSUME NEW j \in Keys, ReplayUnavailable(j) PROVE k = j /\ k \notin stale /\ k \notin spool
  BY <1>4 DEF ReplayUnavailable, ResolveFailureGeneration, ResolveFailures
<1>5. ASSUME NEW j \in Keys, ResolveTailMessageReplay(j) PROVE k = j /\ k \notin stale /\ k \notin spool
  BY <1>5 DEF ResolveTailMessageReplay, ResolveFailureGeneration, ResolveFailures
<1>6. Discord \/ UNCHANGED vars \/ Process => open \cup spool \subseteq open' \cup spool'
  BY ImportSets DEF Discord, vars, Process, Stop, Exit, Crash, Halt, Restart
<1>7. WorkerStep \/ WorkerFault => ResolveMessageFailure \/ open \cup spool \subseteq open' \cup spool'
  BY RecordFailureSets DEF WorkerStep, WorkerFault, Take, MessageUpdateSnapshot, ArchiveMessage,
     ArchiveDelete, RecordInLedger, HandlerFails, RecordInSpool, RecordFails, Detach
<1>8. StartRepair \/ FetchPage \/ PersistPage \/ ImportSpool \/ ListCandidates \/ ReplayDone
        \/ PageFails \/ RepairFails => open \cup spool \subseteq open' \cup spool'
  BY ImportSets DEF StartRepair, FetchPage, PersistPage, ImportSpool, ListCandidates, ReplayDone,
     PageFails, RepairFails
<1>9. \A j \in Keys : ReplayDelete(j) \/ ReplayDeleteMissing(j) \/ ReplayStart(j) \/ ReplayFetch(j)
        \/ ReplayWrite(j) \/ ReplayFails(j) => open \cup spool \subseteq open' \cup spool'
  BY RecordFailureSets DEF ReplayDelete, ReplayDeleteMissing, ReplayStart, ReplayFetch, ReplayWrite,
     ReplayFails, Defer
<1> QED BY <1>1, <1>2, <1>3, <1>4, <1>5, <1>6, <1>7, <1>8, <1>9
        DEF Next, RepairStep, RepairFault, ReplayStep

(* No step loses an event whose handler failed.                            *)
LEMMA NoLostFailureStep ==
  ASSUME OrderedEdits, Typed, FromDiscord, WorkerSettles, RepairSettles, NoLostFailure, [Next]_vars
  PROVE  NoLostFailure'
<1> SUFFICES ASSUME NEW k \in Keys, owed'[k] > 0, k \notin open', k \notin spool'
             PROVE  Settled(k, owed[k])'
  BY DEF NoLostFailure
<1>0. owed'[k] = owed[k]
  BY OwedStays
<1>1. owed[k] \in Nat /\ k[2] \in Msgs /\ (k[1] = "create" => owed[k] <= 1) /\ row[k[2]].ver \in Nat
  <2>1. owed[k] \in Versions /\ k[2] \in Msgs
    BY DEF Typed, Keys
  <2> QED BY <2>1, ArchiveGrows, MaxVerAssumption DEF Versions, FromDiscord, OwedGenuine
<1>2. Settled(k, owed[k])
  <2>1. CASE Settled(k, owed[k])
    BY <2>1
  <2>2. CASE k \in open \/ k \in spool
    <3>1. CASE ResolveMessageFailure /\ k = Key
      <4>1. wpc = "resolve" /\ k[1] = wev.kind /\ k[2] = wev.msg /\ wev.ver \in Nat /\ wev.ver >= 1
        <5>1. wpc = "resolve"
          BY <3>1 DEF ResolveMessageFailure
        <5>2. wev.ver \in 1..MaxVer
          BY <5>1, WorkerEvent
        <5> QED BY <3>1, <5>1, <5>2, MaxVerAssumption DEF Key
      <4>2. wev.ver <= wgot /\ wgot \in Nat
        BY <4>1, MaxVerAssumption DEF FromDiscord, WorkerGenuine, Typed, Versions
      <4>3. k[1] = "delete" => k[2] \in deletes
        BY <4>1 DEF WorkerSettles
      <4>4. k[1] # "delete" => AtLeast(k[2], wgot)
        BY <4>1 DEF WorkerSettles
      <4>5. k[1] # "delete" => wgot >= owed[k]
        <5>1. k[1] = "update" => wgot >= owed[k]
          BY <3>1, <4>1 DEF WorkerSettles
        <5>2. k[1] \in {"create", "update", "delete"}
          BY DEF Keys, Kinds
        <5> QED BY <1>1, <4>1, <4>2, <5>1, <5>2
      <4> QED BY <1>1, <4>2, <4>3, <4>4, <4>5 DEF Settled, AtLeast
    <3>2. CASE SettlePage /\ k[1] = "create" /\ rgot[k[2]] # 0
      <4>1. AtLeast(k[2], 1)
        BY <1>1, <3>2 DEF SettlePage, RepairSettles, OnPage
      <4> QED BY <1>1, <3>2, <4>1 DEF Settled, AtLeast
    <3>3. CASE ReplayUnavailable(k) /\ k \notin stale /\ k \notin spool
      <4>1. rpc = "fetch" /\ Candidate(k) /\ remote[k[2]].gone
        BY <3>3 DEF ReplayUnavailable
      <4> QED BY <3>3, <4>1 DEF RepairSettles, Settled
    <3>4. CASE ResolveTailMessageReplay(k) /\ k \notin stale /\ k \notin spool
      BY <3>4 DEF ResolveTailMessageReplay, RepairSettles
    <3> QED BY <2>2, <3>1, <3>2, <3>3, <3>4, Resolvers
  <2> QED BY <1>0, <2>1, <2>2 DEF NoLostFailure
<1>3. \A v \in Nat : Settled(k, v) => Settled(k, v)'
  BY SettledStays
<1> DEFINE v == owed[k]
<1>4. v \in Nat /\ owed'[k] = v
  BY <1>0, <1>1
<1>5. Settled(k, v) => \/ k[1] = "delete" /\ (row'[k[2]].del \/ k[2] \in deletes')
                       \/ k[1] # "delete" /\ (row'[k[2]].ver >= v \/ row'[k[2]].del \/ remote'[k[2]].gone)
  BY <1>1, <1>3, <1>4 DEF Settled
<1> QED BY <1>2, <1>4, <1>5 DEF Settled

(* No step unsettles an event whose handler succeeded.                     *)
LEMMA ArchivedIsStoredStep ==
  ASSUME OrderedEdits, Typed, FromDiscord, WorkerSettles, ArchivedIsStored, [Next]_vars
  PROVE  ArchivedIsStored'
<1> USE DEF discordVars, archiveVars, ledgerVars, workerVars, repairVars, historyVars
<1>1. \A m \in Msgs : archived[m] \in Nat /\ row[m].ver \in Nat
  <2>1. \A m \in Msgs : archived[m] \in Versions
    BY DEF Typed
  <2> QED BY <2>1, ArchiveGrows, MaxVerAssumption DEF Versions
<1>2. CASE UNCHANGED archived
  BY <1>1, <1>2, ArchiveGrows DEF ArchivedIsStored
<1>3. CASE ResolveMessageFailure
  <2>1. wpc = "resolve" /\ UNCHANGED row
    BY <1>3 DEF ResolveMessageFailure
  <2>2. \A m \in Msgs : archived'[m] = archived[m] \/ (m = wev.msg /\ archived'[m] = wev.ver
                                                        /\ wev.kind # "delete")
    BY <1>3 DEF ResolveMessageFailure, Typed
  <2>3. wev.kind # "delete" => AtLeast(wev.msg, wgot)
    BY <2>1 DEF WorkerSettles
  <2>4. wev.ver <= wgot /\ wgot \in Nat /\ wev.ver \in Nat
    BY <2>1, WorkerEvent, MaxVerAssumption DEF FromDiscord, WorkerGenuine, Typed, Versions
  <2> QED BY <1>1, <2>1, <2>2, <2>3, <2>4 DEF ArchivedIsStored, AtLeast
<1>4. ResolveMessageFailure \/ UNCHANGED archived
  BY DEF Next, Discord, WorkerStep, WorkerFault, Take, MessageUpdateSnapshot, ArchiveMessage,
     ArchiveDelete, RecordInLedger, HandlerFails, RecordInSpool, RecordFails, Detach, RepairStep,
     RepairFault, StartRepair, FetchPage, PersistPage, SettlePage, ImportSpool,
     ListCandidates, ReplayDone, PageFails, RepairFails, ReplayStep, ReplayFails, ReplayDelete,
     ReplayDeleteMissing, ReplayStart, ReplayFetch, ReplayUnavailable, ReplayWrite,
     ResolveTailMessageReplay, Defer, Process, Stop, Exit, Crash, Halt, Restart, vars
<1> QED BY <1>2, <1>3, <1>4

(* Whatever the worker, repair, stops and crashes do, an event whose       *)
(* failure was accepted stays in the ledger or the spool until the archive *)
(* has it, and what was reported as archived stays in the archive.  Needed *)
(* of Discord: every edit moves edited_timestamp (see TailRecoveryShadowed *)
(* for the other case).                                                    *)
THEOREM NothingIsLost ==
  ASSUME OrderedEdits
  PROVE  Spec => [](NoLostFailure /\ ArchivedIsStored)
<1>1. Init => RecoveryInv
  <2> SUFFICES ASSUME Init PROVE RecoveryInv
    OBVIOUS
  <2>1. Typed /\ FromDiscord
    BY TypedInit, FromDiscordInit
  <2>2. wpc = "idle" /\ rpc = "idle"
    BY DEF Init
  <2>3. (\A k \in Keys : owed[k] = 0) /\ \A m \in Msgs : archived[m] = 0
    BY DEF Init, Nothing
  <2> QED BY <2>1, <2>2, <2>3 DEF RecoveryInv, WorkerSettles, RepairSettles, NoLostFailure,
                                  ArchivedIsStored
<1>2. RecoveryInv /\ [Next]_vars => RecoveryInv'
  BY TypedStep, FromDiscordStep, WorkerSettlesStep, RepairSettlesStep, NoLostFailureStep,
     ArchivedIsStoredStep DEF RecoveryInv
<1>3. RecoveryInv => NoLostFailure /\ ArchivedIsStored
  BY DEF RecoveryInv
<1> QED BY <1>1, <1>2, <1>3, PTL DEF Spec
=============================================================================

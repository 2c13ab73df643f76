---------------------------- MODULE TailRecovery ----------------------------
(***************************************************************************)
(* What a running tail does to one archive: the Gateway worker (handlers   *)
(* of syncer/tail.go), the record of a failed event (syncer/failures.go),  *)
(* and the repair that runs beside it (runTailRepair: one REST page, the   *)
(* fallback import, the exact replay of syncer/tail_replay.go).  Worker    *)
(* and repair share the message rows and the failure ledger; each          *)
(* transaction is one step and anything may happen between two of them.    *)
(*                                                                         *)
(* A message is its sequence of versions at Discord; Stamp gives the       *)
(* edited_timestamp of each (0 for none), which link previews and pins do  *)
(* not change.  retry_count is abstracted to stale: the ledger rows that   *)
(* were recorded again after the running replay read them.  Fallback files *)
(* are taken whole; TailFallback refines that step.  All channels are in   *)
(* scope, and every version carries text.                                  *)
(***************************************************************************)
EXTENDS Integers, Sequences, FiniteSets

CONSTANTS Msgs,         \* messages
          MaxVer,       \* bound: versions of one message
          Stamp,        \* edited_timestamp of each version
          ReplayLimit,  \* TailMessageReplayLimit
          MaxFaults     \* bound: failed calls, stops and crashes

ASSUME MaxVerAssumption == MaxVer \in Nat \ {0}
ASSUME StampAssumption ==
  /\ Stamp \in [1..MaxVer -> Nat]
  /\ \A v, w \in 1..MaxVer : v <= w => Stamp[v] <= Stamp[w]
ASSUME LimitAssumption == ReplayLimit \in Nat \ {0} /\ MaxFaults \in Nat

Kinds    == {"create", "update", "delete"}
Keys     == Kinds \X Msgs       \* failure_ledger identities of tail_message
Versions == 0..MaxVer           \* 0: no such message, no such row
Events   == [kind : Kinds, msg : Msgs, ver : 1..MaxVer]
NoEvent  == [kind |-> "none", msg |-> "none", ver |-> 0]

VARIABLES
  remote,   \* Discord: newest version of each message, and is it deleted?
  queue,    \* Gateway events waiting for the worker
  row,      \* messages table: stored version, deleted_at
  deletes,  \* messages with a delete row in message_events
  open,     \* failure_ledger identities with resolved_at null
  order,    \* recorded identities by last_seen_at, oldest first
  spool,    \* identities with a committed fallback file
  stale,    \* identities recorded since replay listed its candidates
  mode,     \* up, stopping (cancelled, handlers may still run), down
  wpc, wev, wgot,   \* worker: stage, event, version it will write
  wfenced,          \* was wev's row written since its handler started?
  rpc, rgot, cands, \* repair: stage, versions fetched, candidates left
  rfenced,          \* rows written since repair's observation started
  owed,     \* history: newest version each identity reported as failed
  archived, \* history: newest version the worker reported as archived
  faults

discordVars == <<remote, queue>>
archiveVars == <<row, deletes>>
ledgerVars  == <<open, order, spool, stale>>
workerVars  == <<wpc, wev, wgot, wfenced>>
repairVars  == <<rpc, rgot, cands, rfenced>>
historyVars == <<owed, archived>>
vars == <<discordVars, archiveVars, ledgerVars, mode, workerVars, repairVars,
          historyVars, faults>>

WorkerStages == {"idle", "refetch", "write", "resolve", "record"}
Handling     == {"refetch", "write", "resolve"}
RepairStages == {"idle", "page", "persist", "settle", "import", "list",
                 "next", "fetch", "write", "resolve"}

Nothing == [m \in Msgs |-> 0]

(* Types; the worker holds an event exactly while it works on one.         *)
Typed ==
  /\ remote \in [Msgs -> [ver : Versions, gone : BOOLEAN]]
  /\ queue \in Seq(Events)
  /\ row \in [Msgs -> [ver : Versions, del : BOOLEAN]]
  /\ deletes \subseteq Msgs
  /\ open \subseteq Keys /\ spool \subseteq Keys /\ stale \subseteq Keys
  /\ mode \in {"up", "stopping", "down"}
  /\ wpc \in WorkerStages
  /\ wev \in Events \cup {NoEvent} /\ (wpc = "idle" <=> wev = NoEvent)
  /\ wgot \in Versions /\ wfenced \in BOOLEAN
  /\ rpc \in RepairStages
  /\ rgot \in [Msgs -> Versions]
  /\ rfenced \subseteq Msgs
  /\ owed \in [Keys -> Versions] /\ archived \in [Msgs -> Versions]
  /\ faults \in 0..MaxFaults

TypeOK == Typed /\ order \in Seq(Keys) /\ cands \in Seq(Keys)

Init ==
  /\ remote = [m \in Msgs |-> [ver |-> 0, gone |-> FALSE]]
  /\ queue = <<>>
  /\ row = [m \in Msgs |-> [ver |-> 0, del |-> FALSE]]
  /\ deletes = {}
  /\ open = {} /\ order = <<>> /\ spool = {} /\ stale = {}
  /\ mode = "up"
  /\ wpc = "idle" /\ wev = NoEvent /\ wgot = 0 /\ wfenced = FALSE
  /\ rpc = "idle" /\ rgot = Nothing /\ cands = <<>> /\ rfenced = {}
  /\ owed = [k \in Keys |-> 0] /\ archived = Nothing
  /\ faults = 0

Fault == faults < MaxFaults /\ faults' = faults + 1

-----------------------------------------------------------------------------
(* Discord.  A change reaches the queue only while the tail is connected.  *)

Deliver(kind, m, ver) ==
  queue' = IF mode = "up" THEN Append(queue, [kind |-> kind, msg |-> m, ver |-> ver])
                          ELSE queue

Posted(m) ==
  /\ remote[m].ver = 0 /\ ~remote[m].gone
  /\ remote' = [remote EXCEPT ![m] = [ver |-> 1, gone |-> FALSE]]
  /\ Deliver("create", m, 1)

Edited(m) ==
  /\ remote[m].ver \in 1..(MaxVer - 1) /\ ~remote[m].gone
  /\ remote' = [remote EXCEPT ![m] = [ver |-> remote[m].ver + 1, gone |-> FALSE]]
  /\ Deliver("update", m, remote[m].ver + 1)

Removed(m) ==
  /\ remote[m].ver > 0 /\ ~remote[m].gone
  /\ remote' = [remote EXCEPT ![m] = [ver |-> remote[m].ver, gone |-> TRUE]]
  /\ Deliver("delete", m, remote[m].ver)

Discord ==
  /\ \E m \in Msgs : Posted(m) \/ Edited(m) \/ Removed(m)
  /\ UNCHANGED <<archiveVars, ledgerVars, mode, workerVars, repairVars,
                 historyVars, faults>>

-----------------------------------------------------------------------------
(* The store.                                                              *)

(* Bug variant: only tombstones stay.                                     *)
KeepDeletedOnly(m, ver, fenced) == row[m].ver # 0 /\ row[m].del

(* keepStoredMessage: a tombstone stays, provider edit order decides, and  *)
(* between equal edits a row written since the observation started stays.  *)
Keep(m, ver, fenced) ==
  /\ row[m].ver # 0
  /\ \/ row[m].del
     \/ Stamp[ver] < Stamp[row[m].ver]
     \/ Stamp[ver] = Stamp[row[m].ver] /\ fenced

(* UpsertMessages for one message.                                         *)
Upserted(m, ver, fenced) ==
  IF Keep(m, ver, fenced) THEN row[m] ELSE [ver |-> ver, del |-> row[m].del]

(* markMessageDeleted: sets deleted_at where there is a row.               *)
MarkDeleted(m) ==
  row' = [row EXCEPT ![m] = [ver |-> row[m].ver, del |-> row[m].ver # 0]]

(* Bug variant: last_seen_at is only set by the insert.                    *)
RecordFailureInPlace(k) ==
  /\ open' = open \cup {k}
  /\ order' = IF \E i \in DOMAIN order : order[i] = k THEN order ELSE Append(order, k)
  /\ stale' = stale \cup {k}

(* recordFailure: reopen the identity, move its last_seen_at, count it.    *)
RecordFailure(k) ==
  /\ open' = open \cup {k}
  /\ order' = Append(SelectSeq(order, LAMBDA x : x # k), k)
  /\ stale' = stale \cup {k}

(* ResolveFailureIdentity and ResolveMessageFailures.                      *)
ResolveFailures(ks) == open' = open \ ks /\ UNCHANGED <<order, stale, spool>>

(* ResolveFailureGeneration: only the generation replay has read.          *)
ResolveFailureGeneration(k) ==
  ResolveFailures(IF k \in stale THEN {} ELSE {k})

(* ImportTailMessageFailureFallbacks: all files, one last_seen_at.         *)
ImportFallbacks ==
  /\ open' = open \cup spool
  /\ \E s \in [1..Cardinality(spool) -> spool] :
       /\ \A k \in spool : \E i \in DOMAIN s : s[i] = k
       /\ order' = SelectSeq(order, LAMBDA x : x \notin spool) \o s
  /\ stale' = stale \cup spool
  /\ spool' = {}

-----------------------------------------------------------------------------
(* The Gateway worker, one event at a time.                                *)

Key == <<wev.kind, wev.msg>>
Release == wpc' = "idle" /\ wev' = NoEvent /\ wgot' = 0 /\ wfenced' = FALSE
Stage(s) == wpc' = s /\ UNCHANGED <<wev, wgot, wfenced>>

(* The worker takes an event; an update notes when its handling started.   *)
Take ==
  /\ mode = "up" /\ wpc = "idle" /\ queue # <<>>
  /\ \E e \in Events :
       /\ e = Head(queue)
       /\ wev' = e /\ wgot' = e.ver
       /\ wpc' = IF e.kind = "update" THEN "refetch" ELSE "write"
  /\ queue' = Tail(queue) /\ wfenced' = FALSE
  /\ UNCHANGED <<remote, archiveVars, ledgerVars, mode, repairVars, historyVars, faults>>

(* messageUpdateSnapshot: the full message as Discord has it now.          *)
MessageUpdateSnapshot ==
  /\ wpc = "refetch"
  /\ \/ /\ ~remote[wev.msg].gone
        /\ wgot' = remote[wev.msg].ver
        /\ wpc' = "write" /\ UNCHANGED <<wev, wfenced>>
     \/ /\ remote[wev.msg].gone
        /\ IF mode = "up" THEN Stage("record") ELSE Release
  /\ UNCHANGED <<discordVars, archiveVars, ledgerVars, mode, repairVars,
                 historyVars, faults>>

(* OnMessageCreate and OnMessageUpdate: the write and its event.  Only an  *)
(* update carries its starting time to the fence.                          *)
ArchiveMessage ==
  /\ wpc = "write" /\ wev.kind # "delete"
  /\ LET m == wev.msg
         fenced == wev.kind = "update" /\ wfenced
     IN /\ row' = [row EXCEPT ![m] = Upserted(m, wgot, fenced)]
        /\ rfenced' = IF Keep(m, wgot, fenced) THEN rfenced ELSE rfenced \cup {m}
  /\ Stage("resolve")
  /\ UNCHANGED <<discordVars, deletes, ledgerVars, mode, rpc, rgot, cands,
                 historyVars, faults>>

(* OnMessageDelete: the tombstone, if there is a row, and the event.       *)
ArchiveDelete ==
  /\ wpc = "write" /\ wev.kind = "delete"
  /\ MarkDeleted(wev.msg)
  /\ deletes' = deletes \cup {wev.msg}
  /\ rfenced' = rfenced \cup {wev.msg}
  /\ Stage("resolve")
  /\ UNCHANGED <<discordVars, ledgerVars, mode, rpc, rgot, cands, historyVars, faults>>

(* resolveMessageFailure ends a handler that returns nil.                  *)
ResolveMessageFailure ==
  /\ wpc = "resolve"
  /\ ResolveFailures({Key})
  /\ archived' = IF wev.kind = "delete" THEN archived
                 ELSE [archived EXCEPT ![wev.msg] = wev.ver]
  /\ Release
  /\ UNCHANGED <<discordVars, archiveVars, mode, repairVars, owed, faults>>

(* An error, a panic or a deadline, before or after the handler's write.   *)
HandlerFails ==
  /\ mode = "up" /\ wpc \in Handling /\ Fault
  /\ Stage("record")
  /\ UNCHANGED <<discordVars, archiveVars, ledgerVars, mode, repairVars, historyVars>>

Owe == owed' = [owed EXCEPT ![Key] = wev.ver]

(* RecordTailFailure, first path: the ledger.                              *)
RecordInLedger ==
  /\ wpc = "record"
  /\ RecordFailure(Key) /\ Owe /\ Release
  /\ UNCHANGED <<discordVars, archiveVars, spool, mode, repairVars, archived, faults>>

(* Second path: the ledger call fails, perhaps after its commit, and the   *)
(* fallback file is persisted.                                             *)
RecordInSpool ==
  /\ wpc = "record" /\ Fault
  /\ RecordFailure(Key) \/ UNCHANGED <<open, order, stale>>
  /\ spool' = spool \cup {Key}
  /\ Owe /\ Release
  /\ UNCHANGED <<discordVars, archiveVars, mode, repairVars, archived>>

(* Neither path works: fatal, the tail stops.                              *)
RecordFails ==
  /\ wpc = "record" /\ Fault
  /\ RecordFailure(Key) \/ UNCHANGED <<open, order, stale>>
  /\ mode' = "stopping" /\ Release
  /\ UNCHANGED <<discordVars, archiveVars, spool, repairVars, historyVars>>

(* The handler outlives its grace period: its failure is forced to a file, *)
(* the tail stops, and the handler is still running.                       *)
Detach ==
  /\ mode = "up" /\ wpc \in Handling /\ Fault
  /\ spool' = spool \cup {Key} /\ Owe
  /\ mode' = "stopping"
  /\ UNCHANGED <<discordVars, archiveVars, open, order, stale, workerVars,
                 repairVars, archived>>

WorkerStep ==
  \/ Take \/ MessageUpdateSnapshot \/ ArchiveMessage \/ ArchiveDelete
  \/ ResolveMessageFailure \/ RecordInLedger
WorkerFault == HandlerFails \/ RecordInSpool \/ RecordFails \/ Detach

-----------------------------------------------------------------------------
(* runTailRepair: pages of Sync, then replayTailMessages.                  *)

Forget == rgot' = Nothing /\ rfenced' = {}
RepairIdle == rpc' = "idle" /\ cands' = <<>> /\ Forget

StartRepair ==
  /\ mode = "up" /\ rpc = "idle"
  /\ rpc' = "page" /\ rfenced' = {}
  /\ UNCHANGED <<discordVars, archiveVars, ledgerVars, mode, workerVars, rgot, cands,
                 historyVars, faults>>

(* ChannelMessages: some of the messages that exist now.                   *)
FetchPage ==
  /\ rpc = "page"
  /\ rgot' \in {f \in [Msgs -> Versions] :
                  \A m \in Msgs : f[m] \in {0} \cup
                    (IF remote[m].gone THEN {} ELSE {remote[m].ver})}
  /\ rpc' = "persist"
  /\ UNCHANGED <<discordVars, archiveVars, ledgerVars, mode, workerVars, cands, rfenced,
                 historyVars, faults>>

OnPage == {m \in Msgs : rgot[m] # 0}
Replaced(ms) == {m \in ms : ~Keep(m, rgot[m], m \in rfenced)}

(* The write of repair: every fetched message in one transaction.          *)
UpsertFetched ==
  /\ row' = [m \in Msgs |-> IF m \in OnPage THEN Upserted(m, rgot[m], m \in rfenced)
                                            ELSE row[m]]
  /\ wfenced' = (wfenced \/ (wpc # "idle" /\ wev.msg \in Replaced(OnPage)))

(* persistMessagePage, the upsert.                                         *)
PersistPage ==
  /\ rpc = "persist"
  /\ UpsertFetched
  /\ rpc' = "settle"
  /\ UNCHANGED <<discordVars, deletes, ledgerVars, mode, wpc, wev, wgot, rgot, cands,
                 rfenced, historyVars, faults>>

(* Bug variant: a page resolves every failure of its messages.             *)
SettlePageAllKinds ==
  /\ rpc = "settle"
  /\ ResolveFailures(Kinds \X OnPage)
  /\ rpc' = "import" /\ Forget
  /\ UNCHANGED <<discordVars, archiveVars, mode, workerVars, cands, historyVars, faults>>

(* persistMessagePage, resolveTailMessageCreateFailuresForMessages.        *)
SettlePage ==
  /\ rpc = "settle"
  /\ ResolveFailures({<<"create", m>> : m \in OnPage})
  /\ rpc' = "import" /\ Forget
  /\ UNCHANGED <<discordVars, archiveVars, mode, workerVars, cands, historyVars, faults>>

(* Sync fails; replay runs all the same.                                   *)
PageFails ==
  /\ rpc \in {"page", "persist", "settle"} /\ Fault
  /\ rpc' = "import" /\ Forget
  /\ UNCHANGED <<discordVars, archiveVars, ledgerVars, mode, workerVars, cands, historyVars>>

ImportSpool ==
  /\ rpc = "import"
  /\ ImportFallbacks
  /\ rpc' = "list"
  /\ UNCHANGED <<discordVars, archiveVars, mode, workerVars, rgot, cands, rfenced,
                 historyVars, faults>>

(* ListFailureReplayCandidatesMatchingRelatedIDs: the oldest open ones.    *)
Oldest(n) == LET s == SelectSeq(order, LAMBDA k : k \in open)
             IN SubSeq(s, 1, IF Len(s) < n THEN Len(s) ELSE n)

ListCandidates ==
  /\ rpc = "list"
  /\ cands' = Oldest(ReplayLimit)
  /\ stale' = {}
  /\ rpc' = "next"
  /\ UNCHANGED <<discordVars, archiveVars, open, order, spool, mode, workerVars, rgot,
                 rfenced, historyVars, faults>>

ReplayDone ==
  /\ rpc = "next" /\ cands = <<>>
  /\ RepairIdle
  /\ UNCHANGED <<discordVars, archiveVars, ledgerVars, mode, workerVars, historyVars, faults>>

Candidate(k) == cands # <<>> /\ k = Head(cands)
NextCandidate == rpc' = "next" /\ cands' = Tail(cands) /\ Forget

(* recordTailMessageReplayFailure, and on to the next candidate.           *)
Defer(k) ==
  /\ RecordFailure(k)
  /\ NextCandidate
  /\ UNCHANGED <<discordVars, archiveVars, spool, mode, workerVars, historyVars>>

(* replayTailMessageDelete: the tombstone; without a row it is an error.   *)
ReplayDelete(k) ==
  /\ rpc = "next" /\ Candidate(k) /\ k[1] = "delete"
  /\ row[k[2]].ver # 0
  /\ MarkDeleted(k[2])
  /\ rpc' = "resolve"
  /\ UNCHANGED <<discordVars, deletes, ledgerVars, mode, workerVars, rgot, cands, rfenced,
                 historyVars, faults>>

ReplayDeleteMissing(k) ==
  /\ rpc = "next" /\ Candidate(k) /\ k[1] = "delete"
  /\ row[k[2]].ver = 0
  /\ Defer(k) /\ UNCHANGED faults

(* The observation starts before the fetch.                                *)
ReplayStart(k) ==
  /\ rpc = "next" /\ Candidate(k) /\ k[1] # "delete"
  /\ rpc' = "fetch" /\ Forget
  /\ UNCHANGED <<discordVars, archiveVars, ledgerVars, mode, workerVars, cands,
                 historyVars, faults>>

ReplayFetch(k) ==
  /\ rpc = "fetch" /\ Candidate(k) /\ ~remote[k[2]].gone
  /\ rgot' = [Nothing EXCEPT ![k[2]] = remote[k[2]].ver]
  /\ rpc' = "write"
  /\ UNCHANGED <<discordVars, archiveVars, ledgerVars, mode, workerVars, cands, rfenced,
                 historyVars, faults>>

(* Unknown Message: provider_unavailable_404.                              *)
ReplayUnavailable(k) ==
  /\ rpc = "fetch" /\ Candidate(k) /\ remote[k[2]].gone
  /\ ResolveFailureGeneration(k)
  /\ NextCandidate
  /\ UNCHANGED <<discordVars, archiveVars, mode, workerVars, historyVars, faults>>

ReplayWrite(k) ==
  /\ rpc = "write" /\ Candidate(k)
  /\ UpsertFetched
  /\ rpc' = "resolve"
  /\ UNCHANGED <<discordVars, deletes, ledgerVars, mode, wpc, wev, wgot, rgot, cands,
                 rfenced, historyVars, faults>>

(* resolveTailMessageReplay: exact_message_reconciled.                     *)
ResolveTailMessageReplay(k) ==
  /\ rpc = "resolve" /\ Candidate(k)
  /\ ResolveFailureGeneration(k)
  /\ NextCandidate
  /\ UNCHANGED <<discordVars, archiveVars, mode, workerVars, historyVars, faults>>

(* A fetch, a validation or a write fails.                                 *)
ReplayFails(k) ==
  /\ rpc \in {"fetch", "write"} \/ (rpc = "next" /\ k[1] = "delete")
  /\ Candidate(k) /\ Fault
  /\ Defer(k)

(* An error that ends the repair: import, list, resolve, record.           *)
RepairFails ==
  /\ rpc \notin {"idle", "page", "persist", "settle"} /\ Fault
  /\ RepairIdle
  /\ UNCHANGED <<discordVars, archiveVars, ledgerVars, mode, workerVars, historyVars>>

ReplayStep(k) ==
  \/ ReplayDelete(k) \/ ReplayDeleteMissing(k) \/ ReplayStart(k) \/ ReplayFetch(k)
  \/ ReplayUnavailable(k) \/ ReplayWrite(k) \/ ResolveTailMessageReplay(k)
RepairStep ==
  \/ StartRepair \/ FetchPage \/ PersistPage \/ SettlePage \/ ImportSpool
  \/ ListCandidates \/ ReplayDone
  \/ \E k \in Keys : ReplayStep(k)
RepairFault == PageFails \/ RepairFails \/ \E k \in Keys : ReplayFails(k)

-----------------------------------------------------------------------------
(* The process.                                                            *)

(* A signal, the failure circuit or a lost Gateway cancels everything.     *)
Stop ==
  /\ mode = "up" /\ Fault
  /\ mode' = "stopping"
  /\ UNCHANGED <<discordVars, archiveVars, ledgerVars, workerVars, repairVars, historyVars>>

Halt ==
  /\ mode' = "down" /\ queue' = <<>>
  /\ Release /\ RepairIdle
  /\ UNCHANGED <<remote, archiveVars, ledgerVars, historyVars>>

Exit == mode = "stopping" /\ Halt /\ UNCHANGED faults
Crash == mode = "up" /\ Fault /\ Halt

(* RunTail imports the fallback files before it opens the Gateway.         *)
Restart ==
  /\ mode = "down"
  /\ ImportFallbacks
  /\ mode' = "up"
  /\ UNCHANGED <<discordVars, archiveVars, workerVars, repairVars, historyVars, faults>>

Process == Stop \/ Exit \/ Crash \/ Restart

Next == Discord \/ WorkerStep \/ WorkerFault \/ RepairStep \/ RepairFault \/ Process

Spec == Init /\ [][Next]_vars
FairSpec == Spec /\ WF_vars(WorkerStep) /\ WF_vars(RepairStep)
                 /\ WF_vars(Exit) /\ WF_vars(Restart)

-----------------------------------------------------------------------------
(* The archive has what event k[1] of version v said, or Discord says the  *)
(* message is no longer there to fetch.                                    *)
Settled(k, v) ==
  IF k[1] = "delete" THEN row[k[2]].del \/ k[2] \in deletes
  ELSE row[k[2]].ver >= v \/ row[k[2]].del \/ remote[k[2]].gone

(* A failure that RecordTailFailure accepted is never dropped before the   *)
(* archive has the event: it is open in the ledger or waits in a fallback  *)
(* file, whatever replay, page repair, later events and crashes do.        *)
NoLostFailure ==
  \A k \in Keys : owed[k] > 0 => k \in open \/ k \in spool \/ Settled(k, owed[k])

(* A create or update the worker traced as archived is in the row, or the  *)
(* row holds something newer, and no later repair takes it out again.      *)
ArchivedIsStored ==
  \A m \in Msgs : archived[m] > 0 => row[m].ver >= archived[m] \/ row[m].del

(* Neither the writes of repair nor a refetched update take a row back to  *)
(* an older version, and nothing revives a tombstone.                      *)
RecoveryKeepsNewer ==
  [][\A m \in Msgs :
       /\ row[m].del => row'[m] = row[m]
       /\ row'[m].ver >= row[m].ver \/ (ArchiveMessage /\ wev.kind = "create")]_vars

(* A message whose deletion the tail observed is not live in the archive:  *)
(* what ingestion-integrity.md says of REST recovery.                      *)
RecoveryKeepsDeletion ==
  \A m \in deletes : row[m].ver = 0 \/ row[m].del

(* An open create or update failure is eventually handled, even when other *)
(* failures can never be replayed: each attempt rotates the candidates.    *)
NoStarvation ==
  \A k \in Keys : k[1] # "delete" => (k \in open ~> k \notin open)

-----------------------------------------------------------------------------
(* The inductive strengthening.                                            *)

(* An event tells of a version Discord had; a creation is version 1.       *)
Genuine(e) == e.ver <= remote[e.msg].ver /\ (e.kind = "create" => e.ver = 1)

(* Whatever is queued, handled, stored, fetched or owed is from Discord.   *)
QueueGenuine == \A i \in 1..Len(queue) : Genuine(queue[i])
WorkerGenuine ==
  /\ wpc # "idle" => Genuine(wev)
  /\ wpc \in {"write", "resolve"} => wev.ver <= wgot /\ wgot <= remote[wev.msg].ver
RowsGenuine ==
  \A m \in Msgs : row[m].ver <= remote[m].ver /\ (row[m].del => row[m].ver # 0)
FetchedGenuine == \A m \in Msgs : rgot[m] <= remote[m].ver
OwedGenuine ==
  \A k \in Keys : owed[k] <= remote[k[2]].ver /\ (k[1] = "create" => owed[k] <= 1)

FromDiscord ==
  QueueGenuine /\ WorkerGenuine /\ RowsGenuine /\ FetchedGenuine /\ OwedGenuine

(* A version in hand is older than the row only if the fence says so.      *)
RepairFenced ==
  rpc \in {"persist", "write"} =>
    \A m \in Msgs : rgot[m] = 0 \/ m \in rfenced \/ row[m].del \/ rgot[m] >= row[m].ver
WorkerFenced ==
  wpc = "write" /\ wev.kind = "update" =>
    wfenced \/ row[wev.msg].del \/ wgot >= row[wev.msg].ver

FenceInv == Typed /\ FromDiscord /\ RepairFenced /\ WorkerFenced

(* When provider edit order is total, a write leaves at least what it got. *)
OrderedEdits == \A v, w \in 1..MaxVer : v < w => Stamp[v] < Stamp[w]

AtLeast(m, ver) == row[m].ver >= ver \/ row[m].del

(* What the worker is about to resolve is in the archive.                  *)
WorkerSettles ==
  /\ wpc \in {"write", "resolve"} /\ wev.kind = "update" => wgot >= owed[Key]
  /\ wpc = "resolve" => IF wev.kind = "delete" THEN wev.msg \in deletes
                                              ELSE AtLeast(wev.msg, wgot)

(* What repair is about to resolve is in the archive, was recorded again   *)
(* since replay listed it, or waits in a fallback file as well.            *)
RepairSettles ==
  /\ rpc = "settle" => \A m \in OnPage : AtLeast(m, 1)
  /\ \A k \in Keys : Candidate(k) /\ k \notin stale /\ k \notin spool =>
       /\ rpc = "write" => rgot[k[2]] >= owed[k] /\ k[1] # "delete"
       /\ rpc = "fetch" => k[1] # "delete"
       /\ rpc = "resolve" => Settled(k, owed[k])

RecoveryInv ==
  /\ Typed /\ FromDiscord
  /\ WorkerSettles /\ RepairSettles
  /\ NoLostFailure /\ ArchivedIsStored
=============================================================================

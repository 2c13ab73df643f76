---------------------------- MODULE TailFallback ----------------------------
(***************************************************************************)
(* The fallback files of store/tail_failure_fallback.go.  When the failure *)
(* ledger cannot be written, the tail worker leaves one small file per     *)
(* failed message event in a directory beside the database (persist); at   *)
(* tail start and in every repair the files are read back into the ledger  *)
(* (import).  Both may run at the same time in one process, either may die *)
(* between any two system calls, and the machine may lose power, which     *)
(* undoes every directory change that was not fsynced.                     *)
(*                                                                         *)
(* An occurrence is one call of PersistTailMessageFailureFallback.  Its    *)
(* random 128-bit temp and final names are taken to be unique, so one      *)
(* model value stands for both names.  The ledger and the import receipts  *)
(* are one SQLite database opened with synchronous=FULL: a commit is       *)
(* durable.                                                                *)
(***************************************************************************)
EXTENDS Integers, FiniteSets

CONSTANTS Occurrences,    \* calls of PersistTailMessageFailureFallback
          Refs,           \* failure_ledger identities
          RefOf,          \* identity each occurrence reports
          Importers,      \* callers of ImportTailMessageFailureFallbacks
          MaxFaults,      \* bound: system calls that fail, process crashes
          MaxPowerLosses  \* bound: power failures

ASSUME OccurrencesFinite == IsFiniteSet(Occurrences)
ASSUME RefOfType == RefOf \in [Occurrences -> Refs]
ASSUME BoundsAssumption == MaxFaults \in Nat /\ MaxPowerLosses \in Nat

VARIABLES
  folder,    \* the fallback directory: absent, created (parent not synced), durable
  temps,     \* occurrences whose .tmp- file is in the directory
  dir,       \* occurrences whose committed .json file is in the directory
  durable,   \* committed files that are on disk, whatever dir shows
  pc,        \* where each persist call stands
  ipc,       \* where each import stands
  seen,      \* committed files this import listed and has still to handle
  seenTemps, \* temp files this import listed and has still to remove
  touched,   \* has this import removed a file since its last fsync?
  receipts,  \* sync_state rows tail-message-failure-fallback:<name>
  ledger,    \* how often each failure_ledger row was opened by an import
  faults, losses  \* losses: power failures of the bound that are behind us

diskVars   == <<folder, temps, dir, durable>>
importVars == <<ipc, seen, seenTemps, touched>>
dbVars     == <<receipts, ledger>>
faultVars  == <<faults, losses>>
vars == <<diskVars, pc, importVars, dbVars, faultVars>>

PersistStages == {"new", "folder", "open", "written", "renamed", "accepted", "failed"}
ImportStages  == {"idle", "listed", "cleaned", "imported"}
InProgress    == {"folder", "open", "written", "renamed"}

(* Types; an import that is not running holds nothing over to the next.    *)
TypeOK ==
  /\ folder \in {"absent", "created", "durable"}
  /\ temps \subseteq Occurrences
  /\ dir \subseteq Occurrences
  /\ durable \subseteq Occurrences
  /\ pc \in [Occurrences -> PersistStages]
  /\ ipc \in [Importers -> ImportStages]
  /\ seen \in [Importers -> SUBSET Occurrences]
  /\ seenTemps \in [Importers -> SUBSET Occurrences]
  /\ touched \in [Importers -> BOOLEAN]
  /\ receipts \subseteq Occurrences
  /\ ledger \in [Refs -> Nat]
  /\ faults \in 0..MaxFaults
  /\ losses \in 0..MaxPowerLosses
  /\ \A i \in Importers : ipc[i] = "idle" => seen[i] = {} /\ seenTemps[i] = {} /\ ~touched[i]

Init ==
  /\ folder \in {"absent", "durable"}   \* a first run, or a later one
  /\ temps = {} /\ dir = {} /\ durable = {}
  /\ pc = [o \in Occurrences |-> "new"]
  /\ ipc = [i \in Importers |-> "idle"]
  /\ seen = [i \in Importers |-> {}]
  /\ seenTemps = [i \in Importers |-> {}]
  /\ touched = [i \in Importers |-> FALSE]
  /\ receipts = {}
  /\ ledger = [k \in Refs |-> 0]
  /\ faults = 0 /\ losses \in 0..MaxPowerLosses

Fault == faults < MaxFaults /\ faults' = faults + 1 /\ UNCHANGED losses

-----------------------------------------------------------------------------
(* PersistTailMessageFailureFallback, one action per system call that      *)
(* another party can tell apart.                                           *)

At(o, stage) == pc[o] = stage
Goto(o, stage) == pc' = [pc EXCEPT ![o] = stage]

(* openTailMessageFailureFallbackDir(create) finds no directory, makes it  *)
(* and has still to fsync the parent.                                      *)
CreateFolder(o) ==
  /\ At(o, "new")
  /\ folder = "absent"
  /\ folder' = "created"
  /\ Goto(o, "folder")
  /\ UNCHANGED <<temps, dir, durable, importVars, dbVars, faultVars>>

(* The parent fsync by the call that created the directory, then its temp. *)
SyncParent(o) ==
  /\ At(o, "folder")
  /\ folder # "absent"
  /\ folder' = "durable"
  /\ temps' = temps \cup {o}
  /\ Goto(o, "open")
  /\ UNCHANGED <<dir, durable, importVars, dbVars, faultVars>>

(* An existing directory is opened as it is and the temp file created.     *)
CreateTemp(o) ==
  /\ At(o, "new")
  /\ folder # "absent"
  /\ temps' = temps \cup {o}
  /\ Goto(o, "open")
  /\ UNCHANGED <<folder, dir, durable, importVars, dbVars, faultVars>>

(* Write, fsync and close go through the descriptor: they succeed even if  *)
(* an import has unlinked the name meanwhile.                              *)
WriteTemp(o) ==
  /\ At(o, "open")
  /\ Goto(o, "written")
  /\ UNCHANGED <<diskVars, importVars, dbVars, faultVars>>

(* The no-replace rename is the commit point.  The link-and-remove variant *)
(* may leave the temp name behind.                                         *)
Rename(o) ==
  /\ At(o, "written")
  /\ o \in temps
  /\ dir' = dir \cup {o}
  /\ temps' \in {temps, temps \ {o}}
  /\ Goto(o, "renamed")
  /\ UNCHANGED <<folder, durable, importVars, dbVars, faultVars>>

(* The temp name is gone: a concurrent import took it for a stale one.     *)
RenameMissing(o) ==
  /\ At(o, "written")
  /\ o \notin temps
  /\ Goto(o, "failed")
  /\ UNCHANGED <<diskVars, importVars, dbVars, faultVars>>

(* Bug variant: nil without the fsync.                                     *)
SyncCommittedUnsynced(o) ==
  /\ At(o, "renamed")
  /\ Goto(o, "accepted")
  /\ UNCHANGED <<diskVars, importVars, dbVars, faultVars>>

(* The fsync of the directory, after which nil is returned.                *)
SyncCommitted(o) ==
  /\ At(o, "renamed")
  /\ durable' = dir
  /\ Goto(o, "accepted")
  /\ UNCHANGED <<folder, temps, dir, importVars, dbVars, faultVars>>

(* A system call fails: the error is returned; the deferred removal of the *)
(* temp file is best effort, a committed file stays.                       *)
PersistError(o) ==
  /\ pc[o] \in InProgress \cup {"new"}
  /\ Fault
  /\ temps' \in {temps, temps \ {o}}
  /\ Goto(o, "failed")
  /\ UNCHANGED <<folder, dir, durable, importVars, dbVars>>

-----------------------------------------------------------------------------
(* ImportTailMessageFailureFallbacks.                                      *)

IGoto(i, stage) == ipc' = [ipc EXCEPT ![i] = stage]
Held(i, files, tmps, dirty) ==
  /\ seen' = [seen EXCEPT ![i] = files]
  /\ seenTemps' = [seenTemps EXCEPT ![i] = tmps]
  /\ touched' = [touched EXCEPT ![i] = dirty]

(* Back to the caller, with or without an error.                           *)
ImportReturns(i) == IGoto(i, "idle") /\ Held(i, {}, {}, FALSE)

(* List the directory and read every committed file; all of them are valid.*)
ListFallbacks(i) ==
  /\ ipc[i] = "idle"
  /\ folder # "absent"
  /\ IGoto(i, "listed")
  /\ Held(i, dir, temps, FALSE)
  /\ UNCHANGED <<diskVars, pc, dbVars, faultVars>>

(* A listed file is gone before it is read (another import removed it):    *)
(* validation fails, nothing is imported.                                  *)
ValidationFails(i) ==
  /\ ipc[i] = "listed"
  /\ \E o \in seen[i] : o \notin dir
  /\ ImportReturns(i)
  /\ UNCHANGED <<diskVars, pc, dbVars, faultVars>>

(* cleanupTailMessageFailureTemps: every listed temp name, stale or not.   *)
CleanTemp(i, o) ==
  /\ ipc[i] = "listed"
  /\ o \in seenTemps[i]
  /\ temps' = temps \ {o}
  /\ Held(i, seen[i], seenTemps[i] \ {o}, touched[i] \/ o \in temps)
  /\ UNCHANGED <<folder, dir, durable, pc, ipc, dbVars, faultVars>>

CleanupDone(i) ==
  /\ ipc[i] = "listed"
  /\ seenTemps[i] = {}
  /\ durable' = IF touched[i] THEN dir ELSE durable
  /\ IF seen[i] = {}
       THEN ImportReturns(i)
       ELSE IGoto(i, "cleaned") /\ Held(i, seen[i], {}, FALSE)
  /\ UNCHANGED <<folder, temps, dir, pc, dbVars, faultVars>>

(* Ledger rows opened once more for the occurrences in S.                  *)
Opened(S, k) == Cardinality({o \in S : RefOf[o] = k})

(* Bug variant: the upsert does not ask whether the receipt is new.        *)
ImportRecordsAgain(i) ==
  /\ ipc[i] = "cleaned"
  /\ receipts' = receipts \cup seen[i]
  /\ ledger' = [k \in Refs |-> ledger[k] + Opened(seen[i], k)]
  /\ IGoto(i, "imported")
  /\ UNCHANGED <<diskVars, pc, seen, seenTemps, touched, faultVars>>

(* One transaction: a receipt per file, and a ledger upsert (insert, or    *)
(* retry_count + 1 and resolved_at = null) for each receipt that is new.   *)
ImportRecords(i) ==
  /\ ipc[i] = "cleaned"
  /\ receipts' = receipts \cup seen[i]
  /\ ledger' = [k \in Refs |-> ledger[k] + Opened(seen[i] \ receipts, k)]
  /\ IGoto(i, "imported")
  /\ UNCHANGED <<diskVars, pc, seen, seenTemps, touched, faultVars>>

(* Bug variant: files are removed before the commit.                       *)
RemoveUnimported(i, o) ==
  /\ ipc[i] = "cleaned"
  /\ o \in seen[i]
  /\ dir' = dir \ {o}
  /\ Held(i, seen[i] \ {o}, {}, touched[i] \/ o \in dir)
  /\ UNCHANGED <<folder, temps, durable, pc, ipc, dbVars, faultVars>>

(* Files are removed one by one after the commit; a missing one is fine.   *)
RemoveImported(i, o) ==
  /\ ipc[i] = "imported"
  /\ o \in seen[i]
  /\ dir' = dir \ {o}
  /\ Held(i, seen[i] \ {o}, {}, touched[i] \/ o \in dir)
  /\ UNCHANGED <<folder, temps, durable, pc, ipc, dbVars, faultVars>>

(* A removal that fails is remembered and the loop goes on.                *)
RemoveFails(i, o) ==
  /\ ipc[i] = "imported"
  /\ o \in seen[i]
  /\ Fault
  /\ Held(i, seen[i] \ {o}, {}, touched[i])
  /\ UNCHANGED <<diskVars, pc, ipc, dbVars>>

SyncRemovals(i) ==
  /\ ipc[i] = "imported"
  /\ seen[i] = {}
  /\ durable' = IF touched[i] THEN dir ELSE durable
  /\ ImportReturns(i)
  /\ UNCHANGED <<folder, temps, dir, pc, dbVars, faultVars>>

(* Any other error on the way (list, temp removal, fsync, transaction).    *)
ImportError(i) ==
  /\ ipc[i] # "idle"
  /\ Fault
  /\ ImportReturns(i)
  /\ UNCHANGED <<diskVars, pc, dbVars>>

-----------------------------------------------------------------------------
(* The process dies: calls in progress never return, the disk stays.       *)
Abandon ==
  /\ pc' = [o \in Occurrences |-> IF pc[o] \in InProgress THEN "failed" ELSE pc[o]]
  /\ ipc' = [i \in Importers |-> "idle"]
  /\ seen' = [i \in Importers |-> {}]
  /\ seenTemps' = [i \in Importers |-> {}]
  /\ touched' = [i \in Importers |-> FALSE]

Crash ==
  /\ Fault
  /\ Abandon
  /\ UNCHANGED <<diskVars, dbVars>>

(* The machine loses power: each directory entry is found as it was last   *)
(* synced or as it was last changed, and a directory whose parent was      *)
(* never synced may be gone with all its files.                            *)
PowerLoss ==
  /\ losses < MaxPowerLosses
  /\ losses' = losses + 1
  /\ UNCHANGED faults
  /\ Abandon
  /\ \/ /\ \E S \in SUBSET (dir \cup durable) : dir \cap durable \subseteq S /\ dir' = S
        /\ temps' \in SUBSET temps
        /\ folder' = IF folder = "created" THEN "durable" ELSE folder
     \/ /\ folder = "created"
        /\ folder' = "absent"
        /\ dir' = {} /\ temps' = {}
  /\ durable' = dir'
  /\ UNCHANGED dbVars

PersistStep(o) ==
  \/ CreateFolder(o) \/ SyncParent(o) \/ CreateTemp(o) \/ WriteTemp(o)
  \/ Rename(o) \/ RenameMissing(o) \/ SyncCommitted(o)

ImportStep(i) ==
  \/ ListFallbacks(i) \/ ValidationFails(i) \/ CleanupDone(i)
  \/ ImportRecords(i) \/ SyncRemovals(i)
  \/ \E o \in Occurrences : CleanTemp(i, o) \/ RemoveImported(i, o)

Next ==
  \/ \E o \in Occurrences : PersistStep(o) \/ PersistError(o)
  \/ \E i \in Importers : ImportStep(i) \/ ImportError(i)
  \/ \E i \in Importers, o \in Occurrences : RemoveFails(i, o)
  \/ Crash
  \/ PowerLoss

Spec == Init /\ [][Next]_vars

(* The directory is durable from an earlier run, or power is lost no more. *)
FolderStays == folder = "durable" \/ losses = MaxPowerLosses

SteadyInit == Init /\ FolderStays
SteadySpec == SteadyInit /\ [][Next]_vars

(* The repair loop keeps importing and an import that was started runs on: *)
(* both are code of a live goroutine.  Persist needs no fairness.          *)
SteadyFairSpec == SteadySpec /\ \A i \in Importers : WF_vars(ImportStep(i))

-----------------------------------------------------------------------------
(* An acknowledged failure survives: RecordTailFailure treated it as       *)
(* durable, so until the import has put it in the database its file is     *)
(* there, and is still there after a power failure.                        *)
AcceptedIsDurable ==
  \A o \in Occurrences :
    pc[o] = "accepted" => o \in receipts \/ o \in dir \cap durable

(* Every file is counted into its ledger row exactly once, however often   *)
(* crashes, failed removals or concurrent imports make it come back.       *)
LedgerCountsReceipts ==
  \A k \in Refs : ledger[k] = Opened(receipts, k)

(* A committed file leaves the directory only once the database has its    *)
(* receipt (or power was lost): import order is commit, then remove.       *)
RemovedOnlyAfterImport ==
  [][\A o \in dir \ dir' : o \in receipts \/ losses' # losses]_vars

(* What the two properties above rest on: a name is used by one persist    *)
(* call and only after its rename, and stays listed until it is imported;  *)
(* a file that is on disk but not listed was imported; an import handles   *)
(* only files that are still there or already imported, and removes only   *)
(* imported ones; the directory is there to stay, or power is lost no more.*)
CommittedAfterRename ==
  dir \cup durable \cup receipts
    \subseteq {o \in Occurrences : pc[o] \in {"renamed", "accepted", "failed"}}
RenamedIsListed ==
  \A o \in Occurrences : pc[o] = "renamed" => o \in dir \cup receipts
GhostsAreImported == durable \ dir \subseteq receipts
ImportsHoldRealFiles ==
  \A i \in Importers :
    /\ seen[i] \subseteq dir \cup receipts
    /\ ipc[i] = "imported" => seen[i] \subseteq receipts

IndInv ==
  /\ TypeOK
  /\ CommittedAfterRename
  /\ RenamedIsListed
  /\ GhostsAreImported
  /\ ImportsHoldRealFiles
  /\ FolderStays
  /\ AcceptedIsDurable
  /\ LedgerCountsReceipts

(* An acknowledged failure reaches the ledger.                             *)
AcceptedIsImported ==
  \A o \in Occurrences : pc[o] = "accepted" ~> o \in receipts

(* The files implement the abstract spool.                                 *)
SpoolState ==
  [o \in Occurrences |->
     IF o \in receipts THEN "applied"
     ELSE IF o \notin dir THEN "absent"
     ELSE IF pc[o] = "accepted" THEN "owed"
     ELSE "unacknowledged"]

Spool == INSTANCE FailureSpool WITH state <- SpoolState, count <- ledger

ImplementsSpool == Spool!SpoolSpec
=============================================================================

------------------------- MODULE TailFallbackProofs -------------------------
(***************************************************************************)
(* The fallback files keep every acknowledged failure and count each of    *)
(* them once, for any number of occurrences, ledger rows, importers,       *)
(* faults and power failures, provided the directory itself cannot vanish: *)
(* it exists from an earlier run, or power is never lost (FolderStays).    *)
(***************************************************************************)
EXTENDS TailFallback, FiniteSetTheorems, TLAPS

-----------------------------------------------------------------------------
(* Opened counts a finite set, and adding new receipts adds their number.  *)
LEMMA OpenedType ==
  ASSUME NEW S \in SUBSET Occurrences, NEW k
  PROVE  /\ IsFiniteSet({o \in S : RefOf[o] = k})
         /\ Opened(S, k) \in Nat
  BY OccurrencesFinite, FS_Subset, FS_CardinalityType DEF Opened

(* One more opened receipt is added to those opened before.                *)
LEMMA OpenedUnion ==
  ASSUME NEW S \in SUBSET Occurrences, NEW T \in SUBSET Occurrences, NEW k
  PROVE  Opened(S \cup T, k) = Opened(S, k) + Opened(T \ S, k)
<1> DEFINE A == {o \in S : RefOf[o] = k}
           B == {o \in T \ S : RefOf[o] = k}
<1>1. IsFiniteSet(A) /\ IsFiniteSet(B)
  BY OpenedType
<1>2. A \cap B = {} /\ {o \in S \cup T : RefOf[o] = k} = A \cup B
  OBVIOUS
<1>3. Cardinality(A \cup B) = Cardinality(A) + Cardinality(B) - Cardinality(A \cap B)
  BY <1>1, FS_Union
<1>4. Cardinality(A \cap B) = 0
  BY <1>2, FS_EmptySet
<1>5. Cardinality(A) \in Nat /\ Cardinality(B) \in Nat
  BY <1>1, FS_CardinalityType
<1>6. Opened(S \cup T, k) = Cardinality(A \cup B)
  BY <1>2 DEF Opened
<1>7. Opened(S, k) = Cardinality(A) /\ Opened(T \ S, k) = Cardinality(B)
  BY DEF Opened
<1> HIDE DEF A, B
<1> QED
  BY <1>3, <1>4, <1>5, <1>6, <1>7

-----------------------------------------------------------------------------
(* The spool starts empty, so nothing accepted is missing.                 *)
LEMMA InitInv == Init /\ FolderStays => IndInv
<1> SUFFICES ASSUME Init, FolderStays PROVE IndInv
  OBVIOUS
<1> USE DEF Init
<1>1. TypeOK
  BY BoundsAssumption DEF TypeOK, PersistStages, ImportStages
<1>2. /\ CommittedAfterRename /\ RenamedIsListed /\ GhostsAreImported
      /\ ImportsHoldRealFiles /\ FolderStays /\ AcceptedIsDurable
  BY DEF CommittedAfterRename, RenamedIsListed, GhostsAreImported, ImportsHoldRealFiles, FolderStays, AcceptedIsDurable
<1>3. LedgerCountsReceipts
  <2>1. \A k \in Refs : {o \in {} : RefOf[o] = k} = {}
    OBVIOUS
  <2> QED
    BY <2>1, FS_EmptySet DEF LedgerCountsReceipts, Opened
<1> QED
  BY <1>1, <1>2, <1>3 DEF IndInv

-----------------------------------------------------------------------------
(* Only the import transaction writes the database.                        *)
LEMMA LedgerUntouched ==
  ASSUME LedgerCountsReceipts, UNCHANGED dbVars
  PROVE  LedgerCountsReceipts'
  BY DEF LedgerCountsReceipts, dbVars, Opened

(* No step of the persister undoes the durability of what was accepted.    *)
LEMMA PersistStepInv ==
  ASSUME IndInv, NEW o \in Occurrences, PersistStep(o) \/ PersistError(o)
  PROVE  IndInv'
<1> USE DEF At, Goto, Fault, importVars, dbVars, faultVars, diskVars
<1> DEFINE Rest == CommittedAfterRename /\ RenamedIsListed /\ GhostsAreImported /\ ImportsHoldRealFiles
                     /\ FolderStays /\ AcceptedIsDurable
<1>0. UNCHANGED dbVars
  BY DEF PersistStep, PersistError, CreateFolder, SyncParent, CreateTemp, WriteTemp, Rename,
         RenameMissing, SyncCommitted
<1>1. LedgerCountsReceipts'
  BY <1>0, LedgerUntouched DEF IndInv
<1>2. TypeOK'
  BY BoundsAssumption DEF PersistStep, PersistError, CreateFolder, SyncParent, CreateTemp, WriteTemp,
     Rename, RenameMissing, SyncCommitted, IndInv, TypeOK, PersistStages, InProgress
<1>3. Rest'
  <2> USE DEF IndInv, TypeOK, CommittedAfterRename, RenamedIsListed, GhostsAreImported, ImportsHoldRealFiles,
              FolderStays, AcceptedIsDurable
  <2>1. CASE CreateFolder(o)
    BY <2>1 DEF CreateFolder
  <2>2. CASE SyncParent(o)
    BY <2>2 DEF SyncParent
  <2>3. CASE CreateTemp(o)
    BY <2>3 DEF CreateTemp
  <2>4. CASE WriteTemp(o)
    BY <2>4 DEF WriteTemp
  <2>5. CASE Rename(o)
    BY <2>5 DEF Rename
  <2>6. CASE RenameMissing(o)
    BY <2>6 DEF RenameMissing
  <2>7. CASE SyncCommitted(o)
    BY <2>7 DEF SyncCommitted
  <2>8. CASE PersistError(o)
    BY <2>8 DEF PersistError, InProgress
  <2> QED
    BY <2>1, <2>2, <2>3, <2>4, <2>5, <2>6, <2>7, <2>8 DEF PersistStep
<1> QED
  BY <1>1, <1>2, <1>3 DEF IndInv

(* The transaction of the importer moves receipts from files to the        *)
(* ledger, each once.                                                      *)
LEMMA ImportRecordsInv ==
  ASSUME IndInv, NEW i \in Importers, ImportRecords(i)
  PROVE  IndInv'
<1> USE DEF IGoto, diskVars, faultVars
<1>1. \A S \in SUBSET Occurrences, k \in Refs : Opened(S, k) \in Nat
  BY OpenedType
<1>2. TypeOK'
  <2>1. ledger' \in [Refs -> Nat]
    <3>1. ledger \in [Refs -> Nat] /\ (seen[i] \ receipts) \in SUBSET Occurrences
      BY DEF IndInv, TypeOK
    <3>2. \A k \in Refs : Opened(seen[i] \ receipts, k) \in Nat
      BY <3>1, <1>1
    <3>3. ledger' = [k \in Refs |-> ledger[k] + Opened(seen[i] \ receipts, k)]
      BY DEF ImportRecords
    <3> HIDE DEF Opened
    <3> QED
      BY <3>1, <3>2, <3>3
  <2> QED
    BY <2>1 DEF ImportRecords, IndInv, TypeOK, ImportStages
<1>3. LedgerCountsReceipts'
  <2> SUFFICES ASSUME NEW k \in Refs PROVE ledger'[k] = Opened(receipts', k)
    BY DEF LedgerCountsReceipts, Opened
  <2>1. receipts \in SUBSET Occurrences /\ seen[i] \in SUBSET Occurrences
    BY DEF IndInv, TypeOK
  <2>2. Opened(receipts \cup seen[i], k) = Opened(receipts, k) + Opened(seen[i] \ receipts, k)
    BY <2>1, OpenedUnion
  <2>3. ledger'[k] = ledger[k] + Opened(seen[i] \ receipts, k)
    BY DEF ImportRecords
  <2>4. ledger[k] = Opened(receipts, k) /\ receipts' = receipts \cup seen[i]
    BY DEF IndInv, LedgerCountsReceipts, ImportRecords
  <2> QED
    BY <2>2, <2>3, <2>4
<1>4. /\ CommittedAfterRename' /\ RenamedIsListed' /\ GhostsAreImported'
      /\ ImportsHoldRealFiles' /\ FolderStays' /\ AcceptedIsDurable'
  BY DEF ImportRecords, IndInv, TypeOK, CommittedAfterRename, RenamedIsListed,
     GhostsAreImported, ImportsHoldRealFiles, FolderStays, AcceptedIsDurable
<1> QED
  BY <1>2, <1>3, <1>4 DEF IndInv

(* The other steps of an import leave the database alone.                  *)
LEMMA ImportStepInv ==
  ASSUME IndInv, NEW i \in Importers,
         \/ ListFallbacks(i) \/ ValidationFails(i) \/ CleanupDone(i)
         \/ SyncRemovals(i) \/ ImportError(i)
         \/ \E o \in Occurrences : CleanTemp(i, o) \/ RemoveImported(i, o) \/ RemoveFails(i, o)
  PROVE  IndInv'
<1> USE DEF IGoto, Held, ImportReturns, Fault, dbVars, faultVars, diskVars
<1> DEFINE Rest == CommittedAfterRename /\ RenamedIsListed /\ GhostsAreImported
                     /\ ImportsHoldRealFiles /\ FolderStays /\ AcceptedIsDurable
<1>0. UNCHANGED dbVars
  BY DEF ListFallbacks, ValidationFails, CleanupDone, SyncRemovals, ImportError, CleanTemp,
         RemoveImported, RemoveFails
<1>1. LedgerCountsReceipts'
  BY <1>0, LedgerUntouched DEF IndInv
<1> USE DEF IndInv, TypeOK, ImportStages
<1>2. CASE ListFallbacks(i)
  <2>1. TypeOK'
    BY <1>2 DEF ListFallbacks
  <2>2. Rest'
    BY <1>2 DEF ListFallbacks, CommittedAfterRename, RenamedIsListed, GhostsAreImported,
       ImportsHoldRealFiles, FolderStays, AcceptedIsDurable
  <2> QED
    BY <1>1, <2>1, <2>2
<1>3. CASE ValidationFails(i) \/ ImportError(i)
  <2>1. TypeOK'
    <3>1. CASE ValidationFails(i)
      BY <3>1 DEF ValidationFails
    <3>2. CASE ImportError(i)
      <4>1. faults' \in 0..MaxFaults /\ losses' \in 0..MaxPowerLosses
        BY <3>2, BoundsAssumption DEF ImportError
      <4> QED
        BY <3>2, <4>1 DEF ImportError
    <3> QED
      BY <1>3, <3>1, <3>2
  <2>2. Rest'
    BY <1>3 DEF ValidationFails, ImportError, CommittedAfterRename, RenamedIsListed,
       GhostsAreImported, ImportsHoldRealFiles, FolderStays, AcceptedIsDurable
  <2> QED
    BY <1>1, <2>1, <2>2
<1>4. CASE CleanupDone(i) \/ SyncRemovals(i)
  <2>1. TypeOK'
    BY <1>4, ZenonT(60) DEF CleanupDone, SyncRemovals
  <2>2. Rest'
    BY <1>4 DEF CleanupDone, SyncRemovals, CommittedAfterRename, RenamedIsListed,
       GhostsAreImported, ImportsHoldRealFiles, FolderStays, AcceptedIsDurable
  <2> QED
    BY <1>1, <2>1, <2>2
<1>5. CASE \E o \in Occurrences : CleanTemp(i, o)
  <2> PICK o \in Occurrences : CleanTemp(i, o)
    BY <1>5
  <2>1. TypeOK'
    BY DEF CleanTemp
  <2>2. Rest'
    BY DEF CleanTemp, CommittedAfterRename, RenamedIsListed, GhostsAreImported,
       ImportsHoldRealFiles, FolderStays, AcceptedIsDurable
  <2> QED
    BY <1>1, <2>1, <2>2
<1>6. CASE \E o \in Occurrences : RemoveImported(i, o)
  <2> PICK o \in Occurrences : RemoveImported(i, o)
    BY <1>6
  <2>0. o \in receipts
    BY DEF RemoveImported, ImportsHoldRealFiles
  <2>1. TypeOK'
    BY DEF RemoveImported
  <2>2. Rest'
    BY <2>0 DEF RemoveImported, CommittedAfterRename, RenamedIsListed, GhostsAreImported,
       ImportsHoldRealFiles, FolderStays, AcceptedIsDurable
  <2> QED
    BY <1>1, <2>1, <2>2
<1>7. CASE \E o \in Occurrences : RemoveFails(i, o)
  <2> PICK o \in Occurrences : RemoveFails(i, o)
    BY <1>7
  <2>1. TypeOK'
    BY BoundsAssumption DEF RemoveFails
  <2>2. Rest'
    BY DEF RemoveFails, CommittedAfterRename, RenamedIsListed, GhostsAreImported,
       ImportsHoldRealFiles, FolderStays, AcceptedIsDurable
  <2> QED
    BY <1>1, <2>1, <2>2
<1> QED
  BY <1>2, <1>3, <1>4, <1>5, <1>6, <1>7

(* A crash or a power loss keeps every synced file and every ledger row.   *)
LEMMA CrashInv ==
  ASSUME IndInv, Crash \/ PowerLoss
  PROVE  IndInv'
<1> USE DEF Abandon, Fault, diskVars, dbVars
<1>0. UNCHANGED dbVars
  BY DEF Crash, PowerLoss
<1>1. LedgerCountsReceipts'
  BY <1>0, LedgerUntouched DEF IndInv
<1>2. CASE Crash
  <2>1. TypeOK'
    BY <1>2, BoundsAssumption DEF Crash, IndInv, TypeOK, PersistStages, ImportStages, InProgress
  <2>2. /\ CommittedAfterRename' /\ RenamedIsListed' /\ GhostsAreImported'
        /\ ImportsHoldRealFiles' /\ FolderStays' /\ AcceptedIsDurable'
    BY <1>2 DEF Crash, IndInv, TypeOK, InProgress, CommittedAfterRename, RenamedIsListed,
       GhostsAreImported, ImportsHoldRealFiles, FolderStays, AcceptedIsDurable
  <2> QED
    BY <1>1, <2>1, <2>2 DEF IndInv
<1>3. CASE PowerLoss
  (* Here, and only here, it matters that the directory stays.             *)
  <2>1. folder # "created"
    BY <1>3, BoundsAssumption DEF PowerLoss, IndInv, TypeOK, FolderStays
  <2>2. PICK S \in SUBSET (dir \cup durable) :
           dir \cap durable \subseteq S /\ dir' = S /\ durable' = S
    BY <1>3, <2>1 DEF PowerLoss
  <2>3. temps' \in SUBSET temps /\ folder' = folder
    BY <1>3, <2>1 DEF PowerLoss
  <2>4. TypeOK'
    BY <1>3, <2>2, <2>3, BoundsAssumption
       DEF PowerLoss, IndInv, TypeOK, PersistStages, ImportStages, InProgress
  <2>5. /\ CommittedAfterRename' /\ RenamedIsListed' /\ GhostsAreImported'
        /\ ImportsHoldRealFiles' /\ FolderStays' /\ AcceptedIsDurable'
    BY <1>3, <2>2, <2>3 DEF PowerLoss, IndInv, TypeOK, InProgress, CommittedAfterRename,
       RenamedIsListed, GhostsAreImported, ImportsHoldRealFiles, FolderStays, AcceptedIsDurable
  <2> QED
    BY <1>1, <2>4, <2>5 DEF IndInv
<1> QED
  BY <1>2, <1>3

(* Every step of the specification keeps the inductive invariant.          *)
LEMMA StepInv ==
  ASSUME IndInv, [Next]_vars
  PROVE  IndInv'
<1>1. CASE \E o \in Occurrences : PersistStep(o) \/ PersistError(o)
  BY <1>1, PersistStepInv
<1>2. CASE \E i \in Importers : ImportStep(i) \/ ImportError(i)
  BY <1>2, ImportStepInv, ImportRecordsInv DEF ImportStep
<1>3. CASE \E i \in Importers, o \in Occurrences : RemoveFails(i, o)
  BY <1>3, ImportStepInv
<1>4. CASE Crash \/ PowerLoss
  BY <1>4, CrashInv
<1>5. CASE UNCHANGED vars
  BY <1>5 DEF vars, diskVars, importVars, dbVars, faultVars, IndInv, TypeOK, CommittedAfterRename,
     RenamedIsListed, GhostsAreImported, ImportsHoldRealFiles, FolderStays, AcceptedIsDurable,
     LedgerCountsReceipts, Opened
<1> QED
  BY <1>1, <1>2, <1>3, <1>4, <1>5 DEF Next

-----------------------------------------------------------------------------
(* In every reachable state the state is well typed, every acknowledged    *)
(* failure of the tail is in the database or in a synced file, and every   *)
(* imported file was counted into its ledger row exactly once.             *)
THEOREM FallbackSafety ==
  SteadySpec => [](TypeOK /\ AcceptedIsDurable /\ LedgerCountsReceipts)
<1>1. Init /\ FolderStays => IndInv
  BY InitInv
<1>2. IndInv /\ [Next]_vars => IndInv'
  BY StepInv
<1>3. IndInv => TypeOK /\ AcceptedIsDurable /\ LedgerCountsReceipts
  BY DEF IndInv
<1> QED
  BY <1>1, <1>2, <1>3, PTL DEF SteadySpec, SteadyInit

-----------------------------------------------------------------------------
(* A committed file leaves the directory only after its receipt is in the  *)
(* database, whatever the import or a concurrent one does.                 *)
THEOREM RemovalFollowsImport ==
  SteadySpec => RemovedOnlyAfterImport
<1>1. ASSUME IndInv, [Next]_vars
      PROVE  [\A o \in dir \ dir' : o \in receipts \/ losses' # losses]_vars
  <2> SUFFICES ASSUME Next, NEW o \in dir, o \notin dir', losses' = losses
               PROVE  o \in receipts
    BY <1>1
  <2>1. PICK i \in Importers : \E p \in Occurrences : RemoveImported(i, p)
    <3>1. ASSUME NEW p \in Occurrences, PersistStep(p) \/ PersistError(p)
          PROVE  dir \subseteq dir'
      BY <3>1 DEF PersistStep, PersistError, CreateFolder, SyncParent, CreateTemp, WriteTemp,
         Rename, RenameMissing, SyncCommitted, diskVars
    <3>2. ASSUME NEW i \in Importers,
                 \/ ListFallbacks(i) \/ ValidationFails(i) \/ CleanupDone(i)
                 \/ ImportRecords(i) \/ SyncRemovals(i) \/ ImportError(i)
                 \/ \E p \in Occurrences : CleanTemp(i, p) \/ RemoveFails(i, p)
          PROVE  dir' = dir
      BY <3>2 DEF ListFallbacks, ValidationFails, CleanupDone, ImportRecords, SyncRemovals,
         ImportError, CleanTemp, RemoveFails, diskVars
    <3>3. Crash => dir' = dir
      BY DEF Crash, diskVars
    <3>4. ~PowerLoss
      BY <1>1 DEF PowerLoss, IndInv, TypeOK
    <3> QED
      BY <3>1, <3>2, <3>3, <3>4 DEF Next, ImportStep
  <2>2. PICK p \in Occurrences : RemoveImported(i, p)
    BY <2>1
  <2>3. o = p /\ p \in receipts
    BY <1>1, <2>2 DEF RemoveImported, IndInv, ImportsHoldRealFiles
  <2> QED
    BY <2>3
<1>2. Init /\ FolderStays => IndInv
  BY InitInv
<1>3. IndInv /\ [Next]_vars => IndInv'
  BY StepInv
<1> QED
  BY <1>1, <1>2, <1>3, PTL DEF SteadySpec, SteadyInit, RemovedOnlyAfterImport

-----------------------------------------------------------------------------
(* The files implement the abstract spool.  A step that keeps receipts,    *)
(* ledger, and the listing and acknowledgement of every file that has no   *)
(* receipt is a stuttering step of the spool.                              *)
LEMMA SpoolStutter ==
  ASSUME UNCHANGED dbVars,
         \A o \in Occurrences \ receipts :
            /\ o \in dir' <=> o \in dir
            /\ pc'[o] = "accepted" <=> pc[o] = "accepted"
  PROVE  UNCHANGED Spool!spoolVars
  BY DEF dbVars, SpoolState, Spool!spoolVars

(* A step of the persister is an arrival of the abstract spool or a        *)
(* stutter.                                                                *)
LEMMA RefinePersist ==
  ASSUME IndInv, NEW o \in Occurrences, PersistStep(o) \/ PersistError(o)
  PROVE  [Spool!SpoolNext]_(Spool!spoolVars)
<1> USE DEF At, Goto, dbVars
<1>1. CASE Rename(o)
  <2>1. o \notin dir \cup receipts
    BY <1>1 DEF Rename, IndInv, CommittedAfterRename
  <2>2. Spool!Arrive(o)
    BY <1>1, <2>1 DEF Rename, IndInv, TypeOK, Spool!Arrive, Spool!Move, SpoolState
  <2> QED
    BY <2>2 DEF Spool!SpoolNext
<1>2. CASE SyncCommitted(o) /\ o \notin receipts
  <2>1. o \in dir
    BY <1>2 DEF SyncCommitted, IndInv, RenamedIsListed
  <2>2. Spool!Acknowledge(o)
    BY <1>2, <2>1 DEF SyncCommitted, IndInv, TypeOK, Spool!Acknowledge, Spool!Move, SpoolState
  <2> QED
    BY <2>2 DEF Spool!SpoolNext
<1>3. CASE SyncCommitted(o) /\ o \in receipts
  BY <1>3, SpoolStutter DEF SyncCommitted, IndInv, TypeOK
<1>4. CASE \/ CreateFolder(o) \/ SyncParent(o) \/ CreateTemp(o) \/ WriteTemp(o)
           \/ RenameMissing(o) \/ PersistError(o)
  <2>1. /\ UNCHANGED dbVars /\ dir' = dir
        /\ pc[o] # "accepted"
        /\ \E stage \in {"folder", "open", "written", "failed"} : pc' = [pc EXCEPT ![o] = stage]
    BY <1>4 DEF CreateFolder, SyncParent, CreateTemp, WriteTemp, RenameMissing, PersistError,
       InProgress, diskVars
  <2> QED
    BY <2>1, SpoolStutter DEF IndInv, TypeOK
<1> QED
  BY <1>1, <1>2, <1>3, <1>4 DEF PersistStep

(* A step of the importer is an Apply of the abstract spool or a stutter.  *)
LEMMA RefineImport ==
  ASSUME IndInv, NEW i \in Importers,
         ImportStep(i) \/ ImportError(i) \/ \E o \in Occurrences : RemoveFails(i, o)
  PROVE  [Spool!SpoolNext]_(Spool!spoolVars)
<1> USE DEF dbVars, diskVars
<1>1. CASE ImportRecords(i)
  <2> DEFINE S == seen[i] \ receipts
  <2>1. S \in SUBSET Occurrences /\ S \subseteq dir
    BY DEF IndInv, TypeOK, ImportsHoldRealFiles
  <2>2. \A o \in S : SpoolState[o] \in {"unacknowledged", "owed"}
    BY <2>1 DEF SpoolState
  <2>3. Spool!Move(S, "applied")
    BY <1>1, <2>1 DEF ImportRecords, Spool!Move, SpoolState
  <2>4. ledger' = [k \in Refs |-> ledger[k] + Opened(S, k)]
    BY <1>1 DEF ImportRecords
  <2>5. Spool!Apply(S)
    BY <2>2, <2>3, <2>4 DEF Spool!Apply
  <2> QED
    BY <2>1, <2>5 DEF Spool!SpoolNext
<1>2. CASE \E o \in Occurrences : RemoveImported(i, o)
  <2> PICK o \in Occurrences : RemoveImported(i, o)
    BY <1>2
  <2>1. o \in receipts
    BY DEF RemoveImported, IndInv, ImportsHoldRealFiles
  <2> QED
    BY <2>1, SpoolStutter DEF RemoveImported
<1>3. CASE \/ ListFallbacks(i) \/ ValidationFails(i) \/ CleanupDone(i)
           \/ SyncRemovals(i) \/ ImportError(i)
           \/ \E o \in Occurrences : CleanTemp(i, o) \/ RemoveFails(i, o)
  <2>1. UNCHANGED <<dbVars, dir, pc>>
    BY <1>3 DEF ListFallbacks, ValidationFails, CleanupDone, SyncRemovals, ImportError, CleanTemp,
       RemoveFails
  <2> QED
    BY <2>1, SpoolStutter
<1> QED
  BY <1>1, <1>2, <1>3 DEF ImportStep

(* What a crash loses was never acknowledged, as the abstract spool        *)
(* allows.                                                                 *)
LEMMA RefineCrash ==
  ASSUME IndInv, Crash \/ PowerLoss
  PROVE  [Spool!SpoolNext]_(Spool!spoolVars)
<1>0. \A o \in Occurrences : pc'[o] = "accepted" <=> pc[o] = "accepted"
  BY DEF Crash, PowerLoss, Abandon, InProgress, IndInv, TypeOK
<1>1. CASE Crash
  BY <1>0, <1>1, SpoolStutter DEF Crash, diskVars, dbVars
<1>2. CASE PowerLoss
  <2> DEFINE S == {o \in dir \ dir' : o \notin receipts}
  <2>1. /\ folder # "created"
        /\ UNCHANGED <<receipts, ledger>>
    BY <1>2, BoundsAssumption
       DEF PowerLoss, IndInv, TypeOK, FolderStays, dbVars
  <2>2. dir \cap durable \subseteq dir' /\ dir' \subseteq dir \cup durable
    BY <1>2, <2>1 DEF PowerLoss
  <2>3. S \in SUBSET Occurrences /\ \A o \in S : SpoolState[o] = "unacknowledged"
    BY <2>2 DEF IndInv, TypeOK, AcceptedIsDurable, SpoolState
  <2>4. Spool!Move(S, "absent")
    BY <1>0, <2>1, <2>2 DEF Spool!Move, SpoolState, IndInv, GhostsAreImported
  <2>5. Spool!Lose(S)
    BY <2>1, <2>3, <2>4 DEF Spool!Lose
  <2> QED
    BY <2>3, <2>5 DEF Spool!SpoolNext
<1> QED
  BY <1>1, <1>2

(* Persist and import together behave as the abstract spool: acknowledged  *)
(* occurrences are never lost, and each is counted at most once.           *)
THEOREM FallbackImplementsSpool ==
  SteadySpec => ImplementsSpool
<1>1. Init /\ FolderStays => IndInv
  BY InitInv
<1>2. IndInv /\ [Next]_vars => IndInv'
  BY StepInv
<1>3. Init => Spool!SpoolInit
  BY DEF Init, Spool!SpoolInit, SpoolState
<1>4. ASSUME IndInv, [Next]_vars
      PROVE  [Spool!SpoolNext]_(Spool!spoolVars)
  <2>1. CASE UNCHANGED vars
    BY <2>1, SpoolStutter DEF vars, diskVars, dbVars
  <2>2. CASE Crash \/ PowerLoss
    BY <1>4, <2>2, RefineCrash
  <2>3. CASE Next /\ ~(Crash \/ PowerLoss)
    BY <1>4, <2>3, RefinePersist, RefineImport DEF Next
  <2> QED
    BY <1>4, <2>1, <2>2, <2>3
<1> QED
  BY <1>1, <1>2, <1>3, <1>4, PTL DEF SteadySpec, SteadyInit, ImplementsSpool, Spool!SpoolSpec
=============================================================================

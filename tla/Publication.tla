----------------------------- MODULE Publication -----------------------------
(***************************************************************************)
(* discrawl publish: a snapshot is staged, installed file by file into the *)
(* working tree of a Git checkout with the manifest last, committed and    *)
(* pushed.  Every step may fail, be cancelled or be the last one before a  *)
(* crash; earlier runs may have stopped anywhere or left out their commit; *)
(* the operator stages work of his own and other writers move the remote.  *)
(*                                                                         *)
(* A tree is a function from names to contents.  The content of a shard is *)
(* the generation it was exported in; a receipt names its producer and the *)
(* manifest it binds, to the last byte.                                    *)
(***************************************************************************)
EXTENDS Naturals, Sequences, SequencesExt, FiniteSets

CONSTANTS
    Order,      \* manifest, producer and shards in the order they are prepared
    Runs,       \* the options publish is called with
    None,
    MaxGen,     \* bound on the publications
    MaxFaults,  \* bound on failing steps and crashes
    MaxOutside  \* bound on the steps of the operator and of other writers

Managed == ToSet(Order)
Shards == Managed \ {"manifest", "producer"}
Names == Managed \cup {"readme", "notes", "other"}

ASSUME PublicationAssumption ==
    /\ {"manifest", "producer"} \subseteq Managed /\ Order[1] = "manifest"
    /\ \A r \in Runs : r.filtered => ~r.readme
    /\ MaxGen \in Nat /\ MaxFaults \in Nat /\ MaxOutside \in Nat

VARIABLES
    tree, index, head, \* the checkout: working tree, Git index, HEAD
    remote, base,      \* the branch at the remote, and as it was fetched last
    pc, run,           \* where the publish command is, and its options
    gen,               \* generations handed out
    stage,             \* the staged manifest
    previous,          \* paths owned by earlier publications
    todo,              \* names still to be prepared, installed or removed
    prepared, backup,  \* private directories with their previous files
    changed,           \* names this run has replaced
    cause,             \* did a rollback step fail
    generated,         \* the generated README path the commit takes over
    captured,          \* the manifest and receipt Push has read, None without a receipt
    before,            \* the working tree the installation started from
    damaged,           \* a crash or a failed rollback left a mixed tree
    faults, outside

checkout == <<tree, index, head>>
origin == <<remote, base>>
install == <<stage, previous, todo, prepared, backup, changed, cause, before>>
vars == <<checkout, origin, pc, run, gen, install, generated, captured, damaged, faults, outside>>

NoTree == [n \in Names |-> None]
NoRun == [filtered |-> FALSE, producer |-> None, readme |-> FALSE, commit |-> FALSE, push |-> FALSE]

Init ==
    /\ tree = NoTree /\ index = NoTree /\ head = NoTree
    /\ remote = NoTree /\ base = NoTree
    /\ pc = "idle" /\ run = NoRun /\ gen = 0
    /\ stage = None /\ previous = {} /\ todo = <<>>
    /\ prepared = {} /\ backup = NoTree /\ changed = {} /\ cause = FALSE
    /\ generated = FALSE /\ captured = None /\ before = NoTree /\ damaged = FALSE
    /\ faults = 0 /\ outside = 0

Fault == faults < MaxFaults /\ faults' = faults + 1
Outside == outside < MaxOutside /\ outside' = outside + 1

(***************************************************************************)
(* Ownership: what a manifest names.                                       *)
(***************************************************************************)
PublicationPaths(m) ==
    IF m = None THEN {}
    ELSE {"manifest"} \cup m.shards \cup (IF m.bound THEN {"producer"} ELSE {})

\* Bug variant: the manifest of the working tree alone.
PreviousOfTree == PublicationPaths(tree["manifest"])
\* HEAD is asked too: an export without commit must not hide what it removed.
PreviousPublicationPaths == PublicationPaths(tree["manifest"]) \cup PublicationPaths(head["manifest"])

\* A generated README that is gone from the tree but not from HEAD.
RemovedReadme == IF tree["readme"] = None /\ head["readme"] = "report" THEN {"readme"} ELSE {}

(***************************************************************************)
(* Export.                                                                 *)
(***************************************************************************)
Publish(r) ==
    /\ pc = "idle" /\ gen < MaxGen
    /\ run' = r /\ pc' = "sync"
    /\ generated' = FALSE
    /\ UNCHANGED <<checkout, origin, gen, install, captured, damaged, faults, outside>>

\* mirror.SyncForWrite: local commits are put on top of the remote's; it fails on a
\* conflict and where it would write over uncommitted work.  Git merges a manifest
\* line by line.  Two exports always collide, both have rewritten generated_at; an
\* export and an edit of other lines merge, or collide where the lines touch.
Touched(m) == [m EXCEPT !.edited = TRUE]
OnlyEdited == /\ base["manifest"] # None /\ remote["manifest"] = Touched(base["manifest"])
              /\ head["manifest"] # base["manifest"] /\ remote["manifest"] # base["manifest"]
              /\ head["manifest"] \notin {None, remote["manifest"]}
Merged == [n \in Names |-> IF head[n] = base[n] THEN remote[n]
                          ELSE IF n = "manifest" /\ OnlyEdited THEN Touched(head[n])
                          ELSE head[n]]
Clean == \A n \in Names :
            /\ head[n] # base[n] /\ remote[n] # base[n]
                 => head[n] = remote[n] \/ (n = "manifest" /\ OnlyEdited)
            /\ Merged[n] # head[n] => tree[n] = head[n] /\ index[n] = head[n]
Collides == ~Clean \/ OnlyEdited
SyncForWrite ==
    /\ base' = remote /\ head' = Merged
    /\ tree' = [n \in Names |-> IF Merged[n] # head[n] THEN Merged[n] ELSE tree[n]]
    /\ index' = [n \in Names |-> IF Merged[n] # head[n] THEN Merged[n] ELSE index[n]]

Fails == pc' = "failed" /\ UNCHANGED <<checkout, origin, install, generated, captured, gen, damaged>>

Sync ==
    /\ pc = "sync"
    /\ \/ Clean /\ SyncForWrite /\ pc' = "stage"
          /\ UNCHANGED <<remote, gen, install, generated, captured, damaged>>
       \/ Collides /\ Fails
    /\ UNCHANGED <<run, faults, outside>>

\* A producer.json nobody declared is never adopted.
ProducerDestination(owned) == run.producer # None => "producer" \in owned \/ tree["producer"] = None

\* The snapshot is written to a private stage; what it holds is up to the archive.
Stage(S) ==
    /\ pc = "stage"
    /\ \/ /\ ProducerDestination(PreviousPublicationPaths)
          /\ gen' = gen + 1
          /\ stage' = [gen |-> gen + 1, shards |-> S, bound |-> run.producer # None, edited |-> FALSE]
          /\ previous' = PreviousPublicationPaths
          /\ todo' = SelectSeq(Order, LAMBDA n : n \in PreviousPublicationPaths \cup PublicationPaths(stage'))
          /\ prepared' = {} /\ backup' = NoTree /\ changed' = {} /\ cause' = FALSE
          /\ before' = tree
          /\ pc' = "prepare"
          /\ UNCHANGED <<checkout, origin, generated, captured, damaged>>
       \/ ~ProducerDestination(PreviousPublicationPaths) /\ Fails
    /\ UNCHANGED <<run, faults, outside>>

(***************************************************************************)
(* installPublication.                                                     *)
(***************************************************************************)
Current == PublicationPaths(stage)
Replacement(n) == IF n = "producer" THEN [binds |-> stage, by |-> run.producer] ELSE stage.gen
Step(seq) == todo' = Tail(seq)

\* A backup of what is there, and the replacement beside it.
Prepare ==
    /\ pc = "prepare" /\ todo # <<>>
    /\ LET n == Head(todo) IN
       IF n \notin Current /\ tree[n] = None
       THEN UNCHANGED <<prepared, backup>>
       ELSE prepared' = prepared \cup {n} /\ backup' = [backup EXCEPT ![n] = tree[n]]
    /\ Step(todo)
    /\ UNCHANGED <<checkout, origin, pc, run, gen, stage, previous, changed, cause, generated, captured,
                   before, damaged, faults, outside>>

InstallOrder == SelectSeq(Order, LAMBDA n : n \in prepared /\ n \in Current /\ n # "manifest")
PrepareDone ==
    /\ pc = "prepare" /\ todo = <<>>
    /\ pc' = "install" /\ todo' = InstallOrder
    /\ UNCHANGED <<checkout, origin, run, gen, stage, previous, prepared, backup, changed, cause,
                   generated, captured, before, damaged, faults, outside>>

ManifestInstalled == tree["manifest"] # None /\ tree["manifest"].gen = stage.gen

\* Nothing is changed yet: only the private directories are removed.
PrepareFails ==
    /\ pc = "prepare" /\ Fault
    /\ pc' = "failed"
    /\ prepared' = {} /\ backup' = NoTree
    /\ UNCHANGED <<checkout, origin, run, gen, stage, previous, todo, changed, cause, generated, captured,
                   before, damaged, outside>>

Install ==
    /\ pc = "install" /\ todo # <<>>
    /\ tree' = [tree EXCEPT ![Head(todo)] = Replacement(Head(todo))]
    /\ changed' = changed \cup {Head(todo)}
    /\ Step(todo)
    /\ UNCHANGED <<index, head, origin, pc, run, gen, stage, previous, prepared, backup, cause,
                   generated, captured, before, damaged, faults, outside>>

Obsolete == SelectSeq(Order, LAMBDA n : n \in prepared \ Current)
InstallManifest ==
    /\ pc = "install" /\ todo = <<>>
    /\ tree' = [tree EXCEPT !["manifest"] = stage]
    /\ damaged' = FALSE
    /\ pc' = "cleanup" /\ todo' = Obsolete
    /\ UNCHANGED <<index, head, origin, run, gen, stage, previous, prepared, backup, changed, cause,
                   generated, captured, before, faults, outside>>

InstallFails ==
    /\ pc = "install" /\ Fault
    /\ pc' = "rollback"
    /\ todo' = Reverse(SelectSeq(Order, LAMBDA n : n \in changed))
    /\ UNCHANGED <<checkout, origin, run, gen, stage, previous, prepared, backup, changed, cause,
                   generated, captured, before, damaged, outside>>

Restored(n) == backup[n]
\* Rollback goes on whatever fails, the cancelled context included.
Rollback ==
    /\ pc = "rollback" /\ todo # <<>>
    /\ LET n == Head(todo) IN
       \/ /\ tree' = [tree EXCEPT ![n] = Restored(n)]
          /\ backup' = [backup EXCEPT ![n] = None]
          /\ UNCHANGED <<cause, faults>>
       \/ /\ Fault /\ cause' = TRUE
          /\ UNCHANGED <<tree, backup>>
    /\ Step(todo)
    /\ UNCHANGED <<index, head, origin, pc, run, gen, stage, previous, prepared, changed, generated, captured,
                   before, damaged, outside>>

\* Bug variant: the private directories are removed whatever the rollback said.
KeepNothing == {}
\* Backups are retained when a file could not be put back.
Kept == IF cause THEN prepared ELSE {}
RollbackDone ==
    /\ pc = "rollback" /\ todo = <<>>
    /\ pc' = "failed"
    /\ prepared' = Kept
    /\ backup' = [n \in Names |-> IF n \in Kept THEN backup[n] ELSE None]
    /\ damaged' = (damaged \/ cause)
    /\ UNCHANGED <<checkout, origin, run, gen, stage, previous, todo, changed, cause, generated, captured,
                   before, faults, outside>>

RemoveObsolete ==
    /\ pc = "cleanup" /\ todo # <<>>
    /\ tree' = [tree EXCEPT ![Head(todo)] = None]
    /\ Step(todo)
    /\ UNCHANGED <<index, head, origin, pc, run, gen, stage, previous, prepared, backup, changed, cause,
                   generated, captured, before, damaged, faults, outside>>

\* The manifest stays installed, but nothing is committed.
CleanupFails ==
    /\ pc = "cleanup" /\ Fault
    /\ pc' = "failed"
    /\ UNCHANGED <<checkout, origin, run, gen, install, generated, captured, damaged, outside>>

Installed ==
    /\ pc = "cleanup" /\ todo = <<>>
    /\ prepared' = {} /\ backup' = NoTree
    /\ pc' = "notes"
    /\ UNCHANGED <<checkout, origin, run, gen, stage, previous, todo, changed, cause, generated, captured,
                   before, damaged, faults, outside>>

(***************************************************************************)
(* Reports: a filtered publication removes them, --readme writes one.      *)
(***************************************************************************)
RemoveFieldNotes ==
    /\ pc = "notes"
    /\ tree' = IF run.filtered THEN [tree EXCEPT !["notes"] = None] ELSE tree
    /\ pc' = "readme"
    /\ UNCHANGED <<index, head, origin, run, gen, install, generated, captured, damaged, faults, outside>>

Readme ==
    /\ pc = "readme"
    /\ LET removed == run.filtered /\ tree["readme"] = "report" IN
       /\ tree' = CASE removed -> [tree EXCEPT !["readme"] = None]
                    [] run.readme -> [tree EXCEPT !["readme"] = "report"]
                    [] OTHER -> tree
       /\ generated' = (removed \/ run.readme)
    /\ pc' = IF run.commit THEN "add" ELSE IF run.push THEN "push" ELSE "done"
    /\ UNCHANGED <<index, head, origin, run, gen, install, captured, damaged, faults, outside>>

(***************************************************************************)
(* commitPublication and Push.                                             *)
(***************************************************************************)
\* workingPublicationBinding: a receipt binds the exact manifest beside it, and
\* names the producer that is asked for; the run that wrote it is not in it.
Binding ==
    LET m == tree["manifest"] IN
    IF m.bound
    THEN /\ tree["producer"] # None /\ tree["producer"].binds = m
         /\ run.producer # None => tree["producer"].by = run.producer
    ELSE run.producer = None

CommitPaths == PreviousPublicationPaths \cup (IF generated THEN {"readme"} ELSE {})
               \cup (IF run.filtered THEN {"notes"} \cup RemovedReadme ELSE {})
\* What the tree or the index has, and what was staged as deleted.
Selected == {n \in CommitPaths : tree[n] # None \/ index[n] # None \/ head[n] # None}

Add ==
    /\ pc = "add"
    /\ IF Binding
       THEN /\ index' = [n \in Names |-> IF n \in Selected THEN tree[n] ELSE index[n]]
            /\ pc' = "commit"
            /\ UNCHANGED <<tree, head>>
       ELSE pc' = "failed" /\ UNCHANGED checkout
    /\ UNCHANGED <<origin, run, gen, install, generated, captured, damaged, faults, outside>>

\* git commit --only takes the selected paths and leaves other staged work staged.
CommitOnly == [n \in Names |-> IF n \in Selected THEN tree[n] ELSE head[n]]
Commit ==
    /\ pc = "commit"
    /\ head' = CommitOnly
    /\ pc' = IF run.push THEN "push" ELSE "done"
    /\ UNCHANGED <<tree, index, origin, run, gen, install, generated, captured, damaged, faults, outside>>

\* Push reads the pair of the working tree once; the retry keeps it.
Captured == IF pc # "push" THEN captured
            ELSE IF ~tree["manifest"].bound THEN None
            ELSE [manifest |-> tree["manifest"], producer |-> tree["producer"]]
Committed(pair) == \A n \in DOMAIN pair : head[n] = pair[n]

\* Bug variant: the pair is checked before the first push only.
BoundPairOnce == pc = "push" => Binding /\ (Captured # None => Committed(Captured))
\* Under a receipt the committed pair is the captured one, before either push.
BoundPair == /\ pc = "push" => Binding
             /\ Captured # None => Binding /\ Committed(Captured)

Push ==
    /\ pc \in {"push", "repush"}
    /\ captured' = Captured
    /\ \/ /\ BoundPair /\ remote = base
          /\ remote' = head /\ base' = head
          /\ pc' = "done"
       \/ /\ BoundPair /\ remote # base
          /\ pc' = IF pc = "push" THEN "resync" ELSE "failed"
          /\ UNCHANGED origin
       \/ /\ ~BoundPair
          /\ pc' = "failed"
          /\ UNCHANGED origin
    /\ UNCHANGED <<checkout, run, gen, install, generated, damaged, faults, outside>>

\* A rejected push is tried once more after a sync.
Resync ==
    /\ pc = "resync"
    /\ \/ Clean /\ SyncForWrite /\ pc' = "repush"
          /\ UNCHANGED <<remote, gen, install, generated, captured, damaged>>
       \/ Collides /\ Fails
    /\ UNCHANGED <<run, faults, outside>>

End ==
    /\ pc \in {"done", "failed"}
    /\ pc' = "idle" /\ run' = NoRun
    /\ stage' = None /\ previous' = {} /\ todo' = <<>>
    /\ prepared' = {} /\ backup' = NoTree /\ changed' = {} /\ cause' = FALSE
    /\ before' = NoTree /\ generated' = FALSE /\ captured' = None
    /\ UNCHANGED <<checkout, origin, gen, damaged, faults, outside>>

Crash ==
    /\ pc # "idle" /\ Fault
    /\ pc' = "idle" /\ run' = NoRun
    /\ damaged' = (damaged \/ (changed # {} /\ ~ManifestInstalled))
    /\ stage' = None /\ previous' = {} /\ todo' = <<>>
    /\ prepared' = {} /\ backup' = NoTree /\ changed' = {} /\ cause' = FALSE
    /\ before' = NoTree /\ generated' = FALSE /\ captured' = None
    /\ UNCHANGED <<checkout, origin, gen, outside>>

(***************************************************************************)
(* The operator and the other writers of the remote.                       *)
(***************************************************************************)
\* Work of the operator's own, staged and not committed, and a staged deletion of a
\* managed file an earlier export removed.
OperatorStages(n) ==
    /\ Outside
    /\ \/ n = "other" /\ tree' = [tree EXCEPT ![n] = "draft"] /\ index' = [index EXCEPT ![n] = "draft"]
       \/ n \in Managed /\ tree[n] = None /\ index[n] # None
          /\ index' = [index EXCEPT ![n] = None] /\ UNCHANGED tree
    /\ UNCHANGED <<head, origin, pc, run, gen, install, generated, captured, damaged, faults>>

\* A workflow pushes field notes, or another publisher its own publication.
RemoteMoves(tree2) ==
    /\ Outside
    /\ remote' = tree2
    /\ UNCHANGED <<checkout, base, pc, run, gen, install, generated, captured, damaged, faults>>
FieldNotes == RemoteMoves([remote EXCEPT !["notes"] = "report"])
\* A script changes other lines of the published manifest.
Edit ==
    /\ remote["manifest"] # None /\ ~remote["manifest"].edited
    /\ RemoteMoves([remote EXCEPT !["manifest"] = Touched(@)])
Elsewhere(S) ==
    /\ remote["manifest"] # None
    /\ RemoteMoves([n \in Names |->
         CASE n = "manifest" -> [gen |-> MaxGen + 1, shards |-> S, bound |-> FALSE, edited |-> FALSE]
           [] n \in S -> MaxGen + 1
           [] n \in PublicationPaths(remote["manifest"]) \ (S \cup {"manifest"}) -> None
           [] OTHER -> remote[n]])

Command ==
    \/ Sync \/ (\E S \in SUBSET Shards \ {{}} : Stage(S))
    \/ Prepare \/ PrepareDone \/ PrepareFails \/ Install \/ InstallManifest \/ InstallFails
    \/ Rollback \/ RollbackDone \/ RemoveObsolete \/ CleanupFails \/ Installed
    \/ RemoveFieldNotes \/ Readme \/ Add \/ Commit \/ Push \/ Resync \/ End
Others == \/ \E n \in Names : OperatorStages(n)
          \/ FieldNotes \/ Edit \/ (\E S \in SUBSET Shards \ {{}} : Elsewhere(S))
Next == (\E r \in Runs : Publish(r)) \/ Command \/ Crash \/ Others
Spec == Init /\ [][Next]_vars

(***************************************************************************)
(* Properties.                                                             *)
(***************************************************************************)
\* Every file the manifest of a tree names is there, of the manifest's generation.
Whole(t) == LET m == t["manifest"] IN
    m # None => /\ \A n \in m.shards : t[n] = m.gen
                /\ m.bound => t["producer"] # None /\ t["producer"].binds.gen = m.gen

\* A publication that fails or is cancelled before its manifest is installed
\* leaves the working tree as it was; if a file could not be put back, every file
\* it has replaced is still in a retained backup; and while it runs no preimage is
\* ever without a copy.  Between runs the files of the working tree belong to its
\* manifest, unless a crash or a failed rollback has left it mixed and nothing was
\* published since.
FailureRestores ==
    /\ pc = "idle" /\ ~damaged => Whole(tree)
    /\ pc = "failed" /\ stage # None /\ ~ManifestInstalled /\ ~cause
         => \A n \in Managed : tree[n] = before[n]
    /\ stage # None /\ ~ManifestInstalled
         => \A n \in changed : before[n] # None => before[n] \in {tree[n], backup[n]}

\* A commit holds the files of its manifest and none of the files only the manifest
\* before it had, whatever exports without commit, crashes and staged deletions
\* came before; a filtered one carries no generated report; and work the operator
\* has staged stays staged and out of the commit.
CommitIsWhole ==
    [][pc = "commit" /\ pc' # "commit" /\ pc' # "idle" =>
         /\ Whole(head') /\ head'["manifest"] = stage
         /\ \A n \in PublicationPaths(head["manifest"]) \ PublicationPaths(head'["manifest"]) : head'[n] = None
         /\ run.filtered => head'["notes"] = None /\ head'["readme"] # "report"
         /\ head'["other"] = head["other"] /\ index'["other"] = index["other"]]_vars

\* A push under a receipt delivers the very manifest this run has exported and the
\* receipt that binds it: what other writers did before the commit, between the
\* commit and the push, or between a rejected push and its retry, edits of the
\* manifest that Git has merged into it included, is refused.  And the branch stays
\* whole.
PushedIsExported ==
    [][(pc = "push" \/ pc = "repush") /\ pc' = "done" =>
         /\ Whole(remote')
         /\ run.producer # None =>
              /\ remote'["manifest"] = stage
              /\ remote'["producer"] = [binds |-> stage, by |-> run.producer]]_vars
=============================================================================

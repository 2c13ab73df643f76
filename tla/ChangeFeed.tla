----------------------------- MODULE ChangeFeed -----------------------------
(***************************************************************************)
(* The source change feed.  Triggers append an entry to change_log for     *)
(* every changed row of a tracked table; a generation marks what the log   *)
(* cannot express; compaction removes a prefix of the log and keeps the    *)
(* floor.  A reader copies a table by replaying the entries after its      *)
(* cursor and rereads the whole table when its cursor is not provably of   *)
(* this history.  The file may lose parts of the feed, be migrated, be     *)
(* replaced by a snapshot or be restored in place from an earlier copy.    *)
(*                                                                         *)
(* A wall-clock stamp is drawn from Stamps in any order and only once: the *)
(* clock may step, but no two entries have the same digest.                *)
(***************************************************************************)
EXTENDS Naturals, FiniteSets, FiniteSetsExt

CONSTANTS
    Tables,   \* tracked tables
    Keys,     \* primary keys
    Values,   \* row contents
    Snapshots,\* contents a snapshot or a migration brings
    Stamps,   \* wall-clock stamps, natural numbers
    Batch,    \* changeFeedCompactionBatch
    MaxFaults,\* bound on losses, migrations, imports and restores
    None

ASSUME FeedAssumption ==
    /\ Stamps \subseteq Nat /\ IsFiniteSet(Stamps)
    /\ Batch \in Nat \ {0} /\ MaxFaults \in Nat /\ None \notin Values

VARIABLES
    db,       \* the database file
    backup,   \* an earlier copy of it
    used,     \* stamps already drawn
    nextGen,  \* the random generation ids already drawn
    cursor,   \* the reader's cursor for every table
    copy,     \* the reader's copy of every table
    faults

vars == <<db, backup, used, nextGen, cursor, copy, faults>>
reader == <<cursor, copy>>

Parts == {"log", "tables", "meta"}
Fault == faults < MaxFaults /\ faults' = faults + 1

\* A feed installed on an empty archive.
Init ==
    /\ db = [rows |-> [t \in Tables |-> [k \in Keys |-> None]],
             log |-> {}, alloc |-> 0, floor |-> 0, floorEntry |-> None,
             gen |-> [t \in Tables |-> 1], genSeq |-> [t \in Tables |-> 0],
             current |-> [t \in Tables |-> TRUE], lost |-> {}]
    /\ backup = None
    /\ used = {} /\ nextGen = 2
    /\ cursor = [t \in Tables |-> None]
    /\ copy = [t \in Tables |-> [k \in Keys |-> None]]
    /\ faults = 0

(***************************************************************************)
(* The log.                                                                *)
(***************************************************************************)
MaxSeq(log) == Max({e.seq : e \in log} \cup {0})
\* changeFeedHead: the highest sequence ever allocated.
Head(d) == Max({d.alloc, MaxSeq(d.log), d.floor})
Digest(e) == [table |-> e.table, op |-> e.op, key |-> e.key, at |-> e.at]
Entry(seq, t, op, k, at) == [seq |-> seq, table |-> t, op |-> op, key |-> k, at |-> at]

\* The entries the triggers of t write for an insert, an update, a delete, an
\* update of the key, and INSERT OR REPLACE, which fires no delete trigger.
Logged(d, t, ops, at) ==
    [d EXCEPT !.log = @ \cup {Entry(d.alloc + i, t, ops[i][1], ops[i][2], at) : i \in DOMAIN ops},
              !.alloc = @ + Cardinality(DOMAIN ops)]
KeyOps(old, new) == <<<<"d", old>>, <<"u", new>>>>
RowOps(t, k, v) ==
    CASE v = None -> <<<<"d", k>>>>
      [] v # None /\ db.rows[t][k] = None -> <<<<"i", k>>>>
      [] OTHER -> <<<<"u", k>>>>

\* A write commits with its entries.  Where a trigger is missing or older than
\* the table it may leave none; without a log the trigger fails the statement.
Commit(t, new, ops, at) ==
    /\ "log" \notin db.lost
    /\ at \in Stamps \ used
    /\ used' = used \cup {at}
    /\ LET d == [db EXCEPT !.rows[t] = new] IN
       \/ db' = Logged(d, t, ops, at)
       \/ ~db.current[t] /\ db' = d
    /\ UNCHANGED <<backup, nextGen, reader, faults>>

Write(t, k, v, at) ==
    /\ db.rows[t][k] # v
    /\ Commit(t, [db.rows[t] EXCEPT ![k] = v], RowOps(t, k, v), at)
ReplaceRow(t, k, v, at) ==
    /\ v # None
    /\ Commit(t, [db.rows[t] EXCEPT ![k] = v], <<<<"i", k>>>>, at)
ChangeKey(t, k, l, at) ==
    /\ db.rows[t][k] # None /\ db.rows[t][l] = None /\ k # l
    /\ Commit(t, [db.rows[t] EXCEPT ![l] = db.rows[t][k], ![k] = None], KeyOps(k, l), at)

(***************************************************************************)
(* Compaction: the longest prefix older than the cutoff, one batch.        *)
(***************************************************************************)
Scanned == {e \in db.log : e.seq > db.floor /\ Cardinality({f \in db.log : db.floor < f.seq /\ f.seq < e.seq}) < Batch}
CompactablePrefix(cutoff) == {e \in Scanned : \A f \in Scanned : f.seq <= e.seq => f.at < cutoff}

\* Bug variant: the floor moves without the digest of its entry.
FloorUnnamed(prefix) == None
FloorEntry(prefix) == LET last == CHOOSE e \in prefix : \A f \in prefix : f.seq <= e.seq IN Digest(last)

CompactChangeFeed(cutoff) ==
    /\ db.lost = {}
    /\ CompactablePrefix(cutoff) # {}
    /\ LET gone == CompactablePrefix(cutoff) IN
       db' = [db EXCEPT !.log = @ \ gone, !.floor = MaxSeq(gone), !.floorEntry = FloorEntry(gone)]
    /\ UNCHANGED <<backup, used, nextGen, reader, faults>>

(***************************************************************************)
(* Generations and repair at open.                                         *)
(***************************************************************************)
\* Bug variant: triggers are installed again, the generation is kept.
BumpNothing(d, S) == [d EXCEPT !.current = [t \in Tables |-> t \in S \/ @[t]]]
\* bumpChangeFeedGeneration: a new random id at the present head.
Bump(d, S) ==
    [d EXCEPT !.gen = [t \in Tables |-> IF t \in S THEN nextGen ELSE @[t]],
              !.genSeq = [t \in Tables |-> IF t \in S THEN Head(d) ELSE @[t]],
              !.current = [t \in Tables |-> t \in S \/ @[t]]]

\* restoreChangeLogAllocator: never at or below a sequence a reader may hold.
RestoreAllocator(d) ==
    [d EXCEPT !.alloc = Max({d.alloc, d.floor, MaxSeq(d.log)} \cup {d.genSeq[t] : t \in Tables})]

\* The head of a restored feed becomes an empty boundary.
Emptied(d) == [d EXCEPT !.log = {}, !.floor = Head(d), !.floorEntry = None]

ChangeFeedCurrent == db.lost = {} /\ \A t \in Tables : db.current[t]
EnsureChangeFeed ==
    /\ ~ChangeFeedCurrent
    /\ LET partial == db.lost # {}
           d == [RestoreAllocator(db) EXCEPT !.lost = {}]
           bumped == IF partial THEN Tables ELSE {t \in Tables : ~db.current[t]}
       IN  db' = Bump(IF partial THEN Emptied(d) ELSE d, bumped)
    /\ nextGen' = nextGen + 1
    /\ UNCHANGED <<backup, used, reader, faults>>

\* An exact snapshot import: triggers suspended, contents replaced, a generation.
Import(S, new) ==
    /\ ChangeFeedCurrent
    /\ Fault
    /\ db' = Bump([db EXCEPT !.rows = [t \in Tables |-> IF t \in S THEN new ELSE @[t]]], S)
    /\ nextGen' = nextGen + 1
    /\ UNCHANGED <<backup, used, reader>>

(***************************************************************************)
(* What happens to the file.                                               *)
(***************************************************************************)
\* A trigger is dropped, or a migration changes the table and with it its rows.
Disturb(t, new) ==
    /\ db.lost = {} /\ db.current[t]
    /\ Fault
    /\ db' = [db EXCEPT !.current[t] = FALSE, !.rows[t] = new]
    /\ UNCHANGED <<backup, used, nextGen, reader>>

Lose(part) ==
    /\ part \notin db.lost
    /\ Fault
    /\ db' = CASE part = "log" -> [db EXCEPT !.lost = @ \cup {part}, !.log = {}, !.alloc = 0]
               [] part = "tables" -> [db EXCEPT !.lost = @ \cup {part}, !.gen = [t \in Tables |-> None],
                                               !.genSeq = [t \in Tables |-> 0]]
               [] part = "meta" -> [db EXCEPT !.lost = @ \cup {part}, !.floor = 0, !.floorEntry = None]
    /\ UNCHANGED <<backup, used, nextGen, reader>>

CopyFile ==
    /\ backup = None
    /\ backup' = db
    /\ UNCHANGED <<db, used, nextGen, reader, faults>>

RestoreInPlace ==
    /\ backup # None /\ backup # db
    /\ Fault
    /\ db' = backup
    /\ UNCHANGED <<backup, used, nextGen, reader>>

(***************************************************************************)
(* The reader.                                                             *)
(***************************************************************************)
EntryAt(seq) == {e \in db.log : e.seq = seq}
DigestAt(seq) == IF EntryAt(seq) # {} THEN Digest(CHOOSE e \in EntryAt(seq) : TRUE)
                 ELSE IF seq = db.floor THEN db.floorEntry ELSE None
\* The digest never compared.
CursorInBounds(t) ==
    /\ cursor[t] # None
    /\ cursor[t].gen = db.gen[t]
    /\ db.floor <= cursor[t].seq /\ cursor[t].seq <= Head(db)
CursorValid(t) ==
    /\ cursor[t] # None
    /\ cursor[t].gen = db.gen[t]
    /\ db.floor <= cursor[t].seq /\ cursor[t].seq <= Head(db)
    /\ \/ EntryAt(cursor[t].seq) # {} /\ DigestAt(cursor[t].seq) = cursor[t].digest
       \/ EntryAt(cursor[t].seq) = {} /\ cursor[t].seq = db.floor /\ cursor[t].digest = db.floorEntry

Changed(t) == {e.key : e \in {e \in db.log : e.table = t /\ e.seq > cursor[t].seq}}
Capture(t) ==
    /\ db.lost = {}
    /\ copy' = [copy EXCEPT ![t] = IF CursorValid(t)
                  THEN [k \in Keys |-> IF k \in Changed(t) THEN db.rows[t][k] ELSE copy[t][k]]
                  ELSE db.rows[t]]
    /\ cursor' = [cursor EXCEPT ![t] = [gen |-> db.gen[t], seq |-> Head(db), digest |-> DigestAt(Head(db)),
                                            sound |-> db.current[t] /\ (CursorValid(t) => cursor[t].sound)]]
    /\ UNCHANGED <<db, backup, used, nextGen, faults>>

Writes == \E t \in Tables, k \in Keys, at \in Stamps :
            \/ \E v \in Values \cup {None} : Write(t, k, v, at) \/ ReplaceRow(t, k, v, at)
            \/ \E l \in Keys : ChangeKey(t, k, l, at)
Next == \/ Writes \/ EnsureChangeFeed \/ CopyFile \/ RestoreInPlace
        \/ \E cutoff \in {s + 1 : s \in Stamps} : CompactChangeFeed(cutoff)
        \/ \E S \in SUBSET Tables \ {{}}, new \in Snapshots : Import(S, new)
        \/ \E t \in Tables : Capture(t) \/ \E new \in Snapshots \cup {db.rows[t]} : Disturb(t, new)
        \/ \E part \in Parts : Lose(part)

Spec == Init /\ [][Next]_vars

(***************************************************************************)
(* Properties.                                                             *)
(***************************************************************************)
\* A capture reproduces the table: whatever was compacted, lost, repaired,
\* imported or restored since the cursor was taken, the reader never keeps a stale
\* row.  The feed promises nothing for a capture between a disturbance and the open
\* that repairs it: that cursor, and one replayed from it, is not sound.
CaptureIsExact ==
    [][\A t \in Tables : Capture(t) /\ db.current[t] /\ (CursorValid(t) => cursor[t].sound)
                            => copy'[t] = db.rows[t]]_vars

\* Compaction costs a reader nothing unless its cursor is below the new floor: a
\* cursor exactly on the floor still proves its history.
CompactionKeepsCursors ==
    [][\A t \in Tables :
         CursorValid(t) /\ db'.floor > db.floor /\ db'.gen[t] = db.gen[t] /\ cursor[t].seq >= db'.floor
         /\ (\E cutoff \in {s + 1 : s \in Stamps} : CompactChangeFeed(cutoff)) => CursorValid(t)']_vars
=============================================================================

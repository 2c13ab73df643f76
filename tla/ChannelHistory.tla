--------------------------- MODULE ChannelHistory ---------------------------
(***************************************************************************)
(* How the messages of one channel get into the archive and what the       *)
(* sync_state rows of the channel claim about them (syncer/message_sync.go *)
(* and syncer/history_window.go): forward pages after latest_message_id,   *)
(* backfill pages before backfill_cursor down to history_complete, the     *)
(* bootstrap of a new channel, the single page of a latest-only run, the   *)
(* verification of a complete channel that holds no rows, with its own     *)
(* checkpoint, and the certified window of --full --since.  Beside the     *)
(* runs a tail may write live messages.                                    *)
(*                                                                         *)
(* Message ids are 1, 2, ... in the order of posting and stand for their   *)
(* timestamps as well; 0 is the empty string of the code.  A page is       *)
(* fetched and stored in one step (a message posted or deleted in between  *)
(* might as well have come after), every sync_state write is one of its    *)
(* own: a run can fail and the process can die between any two.            *)
(***************************************************************************)
EXTENDS Integers, FiniteSets, FiniteSetsExt

CONSTANTS MaxPosts,   \* bound: messages posted
          PageSize,   \* messages per REST page (100 in the code)
          Modes,      \* full, latest (--latest-only, repair), incremental
          Sinces,     \* values of --since; 0 for none
          TailModes,  \* preserve (--repair-on-start) and advance
          MaxDeletes, \* bound: messages deleted at Discord
          MaxFaults   \* bound: failed runs and crashes

ASSUME BoundsAssumption ==
  /\ MaxPosts \in Nat /\ PageSize \in Nat \ {0}
  /\ MaxDeletes \in Nat /\ MaxFaults \in Nat
ASSUME InputsAssumption ==
  /\ Modes \subseteq {"full", "latest", "incremental"}
  /\ Sinces \subseteq Nat
  /\ TailModes \subseteq {"preserve", "advance"}

VARIABLES
  thread,   \* isThreadChannel(channel)
  posted,   \* Discord: messages 1..posted have been posted
  gone,     \* Discord: messages deleted there
  rows,     \* messages table
  latest,   \* sync_state latest_message_id
  cursor,   \* sync_state backfill_cursor
  complete, \* sync_state history_complete
  ckpt,     \* sync_state history_verification
  vempty,   \* sync_state verified_empty
  window,   \* sync_state history_window of each since: its until, -1 for none
  run,      \* the sync or repair in progress
  tail,     \* down, or the mode of the running tail
  pend,     \* live messages waiting for the handler
  moving,   \* the message whose handler is about to advance latest
  loose,    \* history: rows came by a way that keeps no account of coverage
  faults

discordVars == <<thread, posted, gone>>
cursorVars  == <<latest, cursor, complete>>
verifyVars  == <<ckpt, vempty>>
tailVars    == <<tail, pend, moving>>
vars == <<discordVars, rows, cursorVars, verifyVars, window, run, tailVars,
          loose, faults>>

Ids == 1..MaxPosts
None == [latest |-> 0, before |-> -1]   \* no checkpoint row
Kinds == {"full", "verify", "window", "page", "boot", "forward"}
Stages == {"load", "route", "intent", "clear", "forward", "advance", "turn",
           "back", "head", "cursor", "save", "complete", "boot", "final",
           "mark", "unmark", "certify", "restore"}
Idle == [stage |-> "idle", mode |-> "none", kind |-> "none", since |-> 0,
         last |-> 0, verify |-> FALSE, latest |-> 0, cursor |-> 0,
         complete |-> FALSE, pos |-> 0, floor |-> 0, top |-> 0,
         page |-> {}, until |-> 0]
Runs == [stage : Stages, mode : Modes \cup {"chosen"},
         kind : Kinds \cup {"none"}, since : Sinces, last : 0..MaxPosts,
         verify : BOOLEAN, latest : 0..MaxPosts, cursor : 0..MaxPosts,
         complete : BOOLEAN, pos : 0..MaxPosts, floor : 0..MaxPosts,
         top : 0..MaxPosts, page : SUBSET Ids, until : 0..MaxPosts]

(* Types; a run that has returned holds nothing.                           *)
TypeOK ==
  /\ thread \in BOOLEAN
  /\ posted \in 0..MaxPosts /\ gone \subseteq 1..posted /\ rows \subseteq 1..posted
  /\ latest \in 0..posted /\ cursor \in 0..posted /\ complete \in BOOLEAN
  /\ ckpt = None \/ ckpt \in [latest : 0..posted, before : 0..posted]
  /\ vempty \in BOOLEAN
  /\ window \in [Sinces \ {0} -> -1..posted]
  /\ run = Idle \/ run \in Runs
  /\ tail \in TailModes \cup {"down"}
  /\ pend \subseteq 1..posted /\ moving \in 0..posted
  /\ loose \in BOOLEAN /\ faults \in 0..MaxFaults

Init ==
  /\ thread \in BOOLEAN
  /\ posted = 0 /\ gone = {} /\ rows = {}
  /\ latest = 0 /\ cursor = 0 /\ complete = FALSE
  /\ ckpt = None /\ vempty = FALSE
  /\ window = [s \in Sinces \ {0} |-> -1]
  /\ run = Idle
  /\ tail = "down" /\ pend = {} /\ moving = 0
  /\ loose = FALSE /\ faults = 0

Fault == faults < MaxFaults /\ faults' = faults + 1

-----------------------------------------------------------------------------
(* Discord.                                                                *)

Post ==
  /\ posted < MaxPosts
  /\ posted' = posted + 1
  /\ pend' = IF tail = "down" THEN pend ELSE pend \cup {posted + 1}
  /\ UNCHANGED <<thread, gone, rows, cursorVars, verifyVars, window, run, tail,
                 moving, loose, faults>>

Delete ==
  /\ Cardinality(gone) < MaxDeletes
  /\ \E id \in 1..posted \ gone : gone' = gone \cup {id}
  /\ UNCHANGED <<thread, posted, rows, cursorVars, verifyVars, window, run,
                 tailVars, loose, faults>>

Larger(a, b) == IF a < b THEN b ELSE a        \* maxSnowflake
Low(S) == IF S = {} THEN 0 ELSE Min(S)
High(S) == IF S = {} THEN 0 ELSE Max(S)

Live == 1..posted \ gone

(* GET channel messages: the PageSize newest before an id (0: the head) or *)
(* the PageSize oldest after it.                                           *)
PageBefore(before) ==
  LET S == {id \in Live : before = 0 \/ id < before}
  IN  {id \in S : Cardinality({x \in S : x > id}) < PageSize}

(* Bug variant: the newest messages after the cursor, not the oldest.      *)
PageAfterNewest(after) ==
  LET S == {id \in Live : id > after}
  IN  {id \in S : Cardinality({x \in S : x > id}) < PageSize}

PageAfter(after) ==
  LET S == {id \in Live : id > after}
  IN  {id \in S : Cardinality({x \in S : x < id}) < PageSize}

-----------------------------------------------------------------------------
(* The steps of a run.                                                     *)

At(stage) == run.stage = stage

(* The run as it goes on: at a stage, with its next page, or over.         *)
Goto(r, stage) == [r EXCEPT !.stage = stage]
Again(r, stage, pos) == [r EXCEPT !.stage = stage, !.pos = pos, !.page = {}]
Done(r) == Idle

Short(r) == Cardinality(r.page) < PageSize
Eligible(r) == {id \in r.page : id >= r.since}   \* filterMessagesSince
Cut(r) == Eligible(r) # r.page              \* reachedSince

(* A run starts with the channel as the catalogue shows it.  While a tail  *)
(* holds the writer lock only its own repair runs: latest-only, unwindowed.*)
Start(mode, since) ==
  /\ run = Idle
  /\ tail = "down" \/ (mode = "latest" /\ since = 0)
  /\ since <= posted + 1
  /\ run' = [Idle EXCEPT !.stage = "load", !.mode = mode, !.since = since,
                         !.last = posted]
  /\ UNCHANGED <<discordVars, rows, cursorVars, verifyVars, window, tailVars,
                 loose, faults>>

IsWindow(r) == r.mode = "full" /\ r.since # 0

(* Bug variant: an interrupted verification is not taken up again.         *)
NeedsVerificationOnce ==
  /\ run.since = 0
  /\ complete /\ rows = {} /\ run.last # 0
  /\ run.mode = "full" \/ ~vempty

(* Complete without a row although Discord names a last message, or a      *)
(* verification that has not ended.                                        *)
NeedsVerification ==
  /\ run.since = 0
  /\ \/ ckpt # None
     \/ /\ complete /\ rows = {} /\ run.last # 0
        /\ run.mode = "full" \/ ~vempty

(* loadChannelSyncState, and the verified_empty marker that rows disprove. *)
Load ==
  /\ At("load")
  /\ run' = [run EXCEPT !.stage = "route", !.latest = latest, !.cursor = cursor,
                        !.complete = complete, !.verify = NeedsVerification]
  /\ vempty' = (vempty /\ (IsWindow(run) \/ rows = {} \/ (~complete /\ ckpt = None)))
  /\ UNCHANGED <<discordVars, rows, cursorVars, ckpt, window, tailVars, loose, faults>>

(* syncFullChannelHistory from the given cursors: forward first if there   *)
(* is a latest id, then back from the cursor unless the history is         *)
(* complete.                                                               *)
Crawl(r, kind, from, cur, whole) ==
  [r EXCEPT !.mode = "chosen", !.kind = kind, !.last = 0, !.latest = from,
            !.cursor = cur, !.complete = whole, !.floor = from,
            !.pos = IF from = 0 THEN cur ELSE from,
            !.stage = IF from # 0 THEN "forward"
                      ELSE IF whole THEN "final" ELSE "back"]

(* shouldSkipChannelSync: nothing new, unless the marker was only just set *)
(* and needsHistoryVerification, asked again, doubts it.                   *)
Skips(r, from, whole) ==
  /\ whole
  /\ r.complete \/ r.since # 0 \/ r.last = 0
  /\ IF r.last = 0 THEN from = 0 ELSE from # 0 /\ from >= r.last

(* Routes of syncChannelMessages and syncChannelHistory.                   *)
RouteWindow ==
  /\ At("route") /\ IsWindow(run)
  /\ run' = [Idle EXCEPT !.stage = "back", !.mode = "chosen", !.kind = "window",
                         !.since = run.since, !.floor = run.latest, !.until = posted]
  /\ UNCHANGED <<discordVars, rows, cursorVars, verifyVars, window, tailVars,
                 loose, faults>>

RouteVerify ==
  /\ At("route") /\ run.verify
  /\ run' = [Idle EXCEPT !.stage = "intent", !.mode = "chosen", !.kind = "verify"]
  /\ UNCHANGED <<discordVars, rows, cursorVars, verifyVars, window, tailVars,
                 loose, faults>>

(* A full run takes missing cursors from the oldest and the newest row.    *)
RouteFull ==
  /\ At("route") /\ ~IsWindow(run) /\ ~run.verify /\ run.mode = "full"
  /\ LET from  == IF run.latest = 0 THEN High(rows) ELSE run.latest
         cur   == IF run.cursor = 0 THEN Low(rows) ELSE run.cursor
         whole == run.complete \/ (run.latest # 0 /\ cur = 0)
     IN  /\ complete' = (complete \/ whole)
         /\ run' = IF Skips(run, from, whole) THEN Done(run)
                   ELSE Crawl(run, "full", from, cur, whole)
  /\ UNCHANGED <<discordVars, rows, latest, cursor, verifyVars, window, tailVars,
                 loose, faults>>

Begin(r, kind, stage) ==
  [r EXCEPT !.mode = "chosen", !.kind = kind, !.stage = stage, !.last = 0,
            !.pos = r.latest, !.floor = r.latest]

RouteRoutine ==
  /\ At("route") /\ ~run.verify /\ run.mode # "full"
  /\ run' = IF Skips(run, run.latest, run.complete) THEN Done(run)
            ELSE IF run.mode = "latest" /\ thread /\ ~run.complete
              THEN Crawl(run, "full", run.latest, run.cursor, FALSE)
            ELSE IF run.latest = 0
              THEN IF run.mode = "latest" THEN Begin(run, "page", "back")
                                          ELSE Begin(run, "boot", "boot")
            ELSE IF run.mode = "latest" /\ run.last # 0 /\ run.latest >= run.last
              THEN Done(run)
            ELSE Begin(run, "forward", "forward")
  /\ UNCHANGED <<discordVars, rows, cursorVars, verifyVars, window, tailVars,
                 loose, faults>>

-----------------------------------------------------------------------------
(* verifyChannelHistory: the intent is durable before history_complete     *)
(* goes, and the crawl starts from the checkpoint alone.                   *)

SaveIntent ==
  /\ At("intent")
  /\ ckpt' = IF ckpt = None THEN [latest |-> 0, before |-> 0] ELSE ckpt
  /\ run' = Goto(run, "clear")
  /\ UNCHANGED <<discordVars, rows, cursorVars, vempty, window, tailVars, loose, faults>>

(* Bug variant: verification trusts the shared cursors.                    *)
ClearCompleteShared ==
  /\ At("clear")
  /\ complete' = FALSE
  /\ run' = Crawl(run, "verify", latest, cursor, FALSE)
  /\ UNCHANGED <<discordVars, rows, latest, cursor, verifyVars, window, tailVars,
                 loose, faults>>

ClearComplete ==
  /\ At("clear")
  /\ complete' = FALSE
  /\ run' = Crawl(run, "verify", ckpt.latest, ckpt.before, FALSE)
  /\ UNCHANGED <<discordVars, rows, latest, cursor, verifyVars, window, tailVars,
                 loose, faults>>

RecordOutcome ==
  /\ At("mark")
  /\ vempty' = (rows = {})
  /\ run' = Goto(run, "unmark")
  /\ UNCHANGED <<discordVars, rows, cursorVars, ckpt, window, tailVars, loose, faults>>

DropCheckpoint ==
  /\ At("unmark")
  /\ ckpt' = None
  /\ run' = Done(run)
  /\ UNCHANGED <<discordVars, rows, cursorVars, vempty, window, tailVars, loose, faults>>

-----------------------------------------------------------------------------
(* syncForwardPages, and what its callers do when it returns.              *)

FetchForward ==
  /\ At("forward")
  /\ LET page == PageAfter(run.pos)
     IN  /\ rows' = rows \cup page
         /\ run' = [run EXCEPT !.page = page, !.floor = Larger(run.floor, High(page)),
                               !.stage = IF page = {} THEN "turn" ELSE "advance"]
  /\ UNCHANGED <<discordVars, cursorVars, verifyVars, window, tailVars, loose, faults>>

AdvanceLatest ==
  /\ At("advance")
  /\ latest' = Larger(latest, run.floor)
  /\ run' = IF Short(run) THEN Goto(run, "turn")
            ELSE Again(run, "forward", High(run.page))
  /\ UNCHANGED <<discordVars, rows, cursor, complete, verifyVars, window, tailVars,
                 loose, faults>>

Turn ==
  /\ At("turn")
  /\ latest' = Larger(latest, run.floor)
  /\ run' = IF run.kind = "forward" THEN Done(run)
            ELSE IF run.complete THEN Goto(run, "final")
            ELSE Again(run, "back", IF run.cursor = 0 THEN run.latest ELSE run.cursor)
  /\ UNCHANGED <<discordVars, rows, cursor, complete, verifyVars, window, tailVars,
                 loose, faults>>

-----------------------------------------------------------------------------
(* syncBackfillPages: after a page come the latest id if the page starts   *)
(* at the head, the cursor, the checkpoint of a verification, and          *)
(* history_complete when the page was the last one; a window moves neither *)
(* cursor nor marker.                                                      *)

PastCursor(r) ==
  IF Short(r) THEN Goto(r, "complete")
  ELSE IF r.kind = "page" THEN Goto(r, "final")
  ELSE Again(r, "back", Low(r.page))

PastHead(r) ==
  IF r.kind = "window"
  THEN IF Cut(r) \/ Short(r) THEN Goto(r, "certify")
       ELSE Again(r, "back", Low(r.page))
  ELSE IF Cut(r) /\ Eligible(r) = {} THEN Goto(r, "final") ELSE Goto(r, "cursor")

PastPage(r) ==
  IF r.page = {} THEN Goto(r, IF r.kind = "window" THEN "certify" ELSE "complete")
  ELSE IF r.top # 0 /\ r.top >= r.floor THEN Goto(r, "head")
  ELSE PastHead(r)

Fetched(r) == LET page == PageBefore(r.pos)
              IN  [r EXCEPT !.page = page,
                     !.top = Larger(r.top, High({id \in page : id >= r.since}))]

(* Rows of a window, or of a page or bootstrap of a channel that is        *)
(* already marked complete: what lies before them may be missing.          *)
Partial(r) ==
  /\ Eligible(r) # {}
  /\ r.kind = "window" \/ (r.kind \in {"page", "boot"} /\ r.complete)

FetchBack ==
  /\ At("back")
  /\ LET r == Fetched(run)
     IN  /\ rows' = rows \cup Eligible(r)
         /\ run' = PastPage(r)
         /\ loose' = (loose \/ Partial(r))
  /\ UNCHANGED <<discordVars, cursorVars, verifyVars, window, tailVars, faults>>

SetHead ==
  /\ At("head")
  /\ latest' = Larger(latest, run.top)
  /\ run' = PastHead(run)
  /\ UNCHANGED <<discordVars, rows, cursor, complete, verifyVars, window, tailVars,
                 loose, faults>>

SetCursor ==
  /\ At("cursor")
  /\ cursor' = Low(Eligible(run))
  /\ run' = IF Cut(run) \/ run.kind = "boot" THEN Goto(run, "final")
            ELSE IF run.kind = "verify" THEN Goto(run, "save")
            ELSE PastCursor(run)
  /\ UNCHANGED <<discordVars, rows, latest, complete, verifyVars, window, tailVars,
                 loose, faults>>

SaveCheckpoint ==
  /\ At("save")
  /\ ckpt' = [latest |-> Larger(run.floor, run.top), before |-> Low(run.page)]
  /\ run' = PastCursor(run)
  /\ UNCHANGED <<discordVars, rows, cursorVars, vempty, window, tailVars, loose, faults>>

SetComplete ==
  /\ At("complete")
  /\ complete' = TRUE
  /\ run' = Goto(run, "final")
  /\ UNCHANGED <<discordVars, rows, latest, cursor, verifyVars, window, tailVars,
                 loose, faults>>

(* The callers' last write: latest_message_id.                             *)
Finish ==
  /\ At("final")
  /\ latest' = Larger(latest, Larger(run.floor, run.top))
  /\ run' = IF run.kind = "verify" THEN Goto(run, "mark") ELSE Done(run)
  /\ UNCHANGED <<discordVars, rows, cursor, complete, verifyVars, window, tailVars,
                 loose, faults>>

(* bootstrapChannelHistory: no cursor between pages, history_complete      *)
(* before latest_message_id.                                               *)
FetchBoot ==
  /\ At("boot")
  /\ LET r == Fetched(run)
     IN  /\ rows' = rows \cup Eligible(r)
         /\ run' = IF r.page = {} \/ (Cut(r) /\ Eligible(r) = {}) THEN Goto(r, "final")
                   ELSE IF Cut(r) THEN Goto(r, "cursor")
                   ELSE IF Short(r) THEN Goto(r, "complete")
                   ELSE Again(r, "boot", Low(r.page))
         /\ loose' = (loose \/ Partial(r))
  /\ UNCHANGED <<discordVars, cursorVars, verifyVars, window, tailVars, faults>>

(* syncWindowChannelHistory, its record.                                   *)
Certify ==
  /\ At("certify")
  /\ window' = [window EXCEPT ![run.since] = Larger(@, run.until)]
  /\ run' = Done(run)
  /\ UNCHANGED <<discordVars, rows, cursorVars, verifyVars, tailVars, loose, faults>>

-----------------------------------------------------------------------------
(* Failures.  A crawl that stops before both cursors are set leaves rows   *)
(* without an account of what lies between them and the next attempt's.    *)

Unaccounted(r) == r.top # 0 /\ (latest = 0 \/ cursor = 0)

Crawling == run.kind = "verify" /\ run.stage \notin {"intent", "mark", "unmark", "restore"}

RunFails ==
  /\ run # Idle /\ Fault
  /\ run' = IF Crawling THEN Goto(run, "restore") ELSE Done(run)
  /\ loose' = (loose \/ Unaccounted(run))
  /\ UNCHANGED <<discordVars, rows, cursorVars, verifyVars, window, tailVars>>

(* restoreHistoryCompleteAfterFailedVerification *)
Restore ==
  /\ At("restore")
  /\ complete' = (complete \/ rows = {})
  /\ run' = Done(run)
  /\ UNCHANGED <<discordVars, rows, latest, cursor, verifyVars, window, tailVars,
                 loose, faults>>

Crash ==
  /\ run # Idle \/ tail # "down"
  /\ Fault
  /\ run' = Idle /\ tail' = "down" /\ pend' = {} /\ moving' = 0
  /\ loose' = (loose \/ Unaccounted(run))
  /\ UNCHANGED <<discordVars, rows, cursorVars, verifyVars, window>>

-----------------------------------------------------------------------------
(* The tail.  Only a tail without --repair-on-start moves latest itself.   *)

StartTail(mode) ==
  /\ tail = "down" /\ run = Idle
  /\ tail' = mode
  /\ UNCHANGED <<discordVars, rows, cursorVars, verifyVars, window, run, pend,
                 moving, loose, faults>>

StopTail ==
  /\ tail # "down" /\ run = Idle /\ moving = 0
  /\ tail' = "down" /\ pend' = {}
  /\ UNCHANGED <<discordVars, rows, cursorVars, verifyVars, window, run, moving,
                 loose, faults>>

(* OnMessageCreate: the row, then the cursor.                              *)
LiveWrite ==
  /\ pend # {} /\ moving = 0
  /\ rows' = rows \cup {Min(pend)}
  /\ pend' = pend \ {Min(pend)}
  /\ moving' = IF tail = "advance" THEN Min(pend) ELSE 0
  /\ loose' = TRUE
  /\ UNCHANGED <<discordVars, cursorVars, verifyVars, window, run, tail, faults>>

LiveAdvance ==
  /\ moving # 0
  /\ latest' = Larger(latest, moving)
  /\ moving' = 0
  /\ UNCHANGED <<discordVars, rows, cursor, complete, verifyVars, window, run, tail,
                 pend, loose, faults>>

LiveFails ==
  /\ pend # {} /\ moving = 0 /\ Fault
  /\ pend' = pend \ {Min(pend)}
  /\ UNCHANGED <<discordVars, rows, cursorVars, verifyVars, window, run, tail,
                 moving, loose>>

-----------------------------------------------------------------------------
RunStep ==
  \/ Load \/ RouteWindow \/ RouteVerify \/ RouteFull \/ RouteRoutine
  \/ SaveIntent \/ ClearComplete \/ RecordOutcome \/ DropCheckpoint
  \/ FetchForward \/ AdvanceLatest \/ Turn
  \/ FetchBack \/ SetHead \/ SetCursor \/ SaveCheckpoint \/ SetComplete \/ Finish
  \/ FetchBoot \/ Certify \/ Restore

Next ==
  \/ Post \/ Delete
  \/ \E mode \in Modes, since \in Sinces : Start(mode, since)
  \/ RunStep \/ RunFails \/ Crash
  \/ \E mode \in TailModes : StartTail(mode)
  \/ StopTail \/ LiveWrite \/ LiveAdvance \/ LiveFails

Spec == Init /\ [][Next]_vars

(* Somebody syncs without --since again and again, and a run goes on.      *)
FairSpec ==
  /\ Spec
  /\ SF_vars(\E mode \in Modes : Start(mode, 0))
  /\ WF_vars(RunStep)

-----------------------------------------------------------------------------
(* Properties.                                                             *)

Have == rows \cup gone

(* The cursors claim coverage of these ids.                                *)
Claimed == {id \in Ids : id <= latest /\ (complete \/ (cursor # 0 /\ cursor <= id))}

(* The cursors never jump over a message: whatever runs, fails and crashes *)
(* in whatever order, all between the backfill position and the latest id  *)
(* is stored (or was deleted at Discord), as long as no verification is    *)
(* pending and every row came by a way that accounts for its neighbours    *)
(* (forward pages, backfill, an uninterrupted bootstrap).                  *)
HistoryHasNoHole == ~loose /\ ckpt = None => Claimed \subseteq Have

(* "Only verification's own checkpoint proves recovered coverage": from    *)
(* before up to latest it holds, whatever live messages, windows and       *)
(* repairs did to the shared cursors.                                      *)
CheckpointCovers ==
  ckpt.before > 0 => \A id \in Ids : ckpt.before <= id /\ id <= ckpt.latest => id \in Have

(* A verification lets go of its checkpoint only with the channel complete *)
(* and everything up to the newest message it saw stored.                  *)
VerificationEndsWhole ==
  [][ckpt # None /\ ckpt' = None =>
       /\ complete
       /\ \A id \in Ids : id <= Larger(run.floor, run.top) => id \in Have]_vars

(* A certified window [since, until) has every message it covers.          *)
WindowIsWhole ==
  \A s \in DOMAIN window : \A id \in Ids : s <= id /\ id <= window[s] => id \in Have

(* An interrupted verification is taken up again and ends.                 *)
VerificationEnds == ckpt # None ~> ckpt = None

(* What history_complete says to every later run: nothing at or before the *)
(* latest id is missing.                                                   *)
HistoryIsWhole ==
  complete => \A id \in Ids : id <= latest => id \in Have
=============================================================================

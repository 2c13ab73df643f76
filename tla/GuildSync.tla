------------------------------ MODULE GuildSync ------------------------------
(***************************************************************************)
(* One guild's sync runs: the backlog of incomplete channels, the channel  *)
(* catalogue with its archived-thread cursors, the worker pool over the    *)
(* selected channels, the markers and ledger rows a failed channel leaves, *)
(* sync:last_success, and the lane of the tail's repair that settles       *)
(* pending channel failures.  The process may be cancelled or killed at    *)
(* any step while Discord changes.                                         *)
(*                                                                         *)
(* A point in time is only ever compared with the archive timestamps of    *)
(* threads, so it is kept as the set of threads archived before it.        *)
(***************************************************************************)
EXTENDS Naturals, FiniteSets, Sequences, SequencesExt

CONSTANTS
    Parents,    \* text and announcement channels: listed, and parents of threads
    Threads,
    ParentOf,   \* the parent of every thread
    Archives,   \* archived-thread lists: one per parent and privacy
    OwnerOf,    \* the parent of every list
    ListOf,     \* the list a thread is archived in
    FailureIds, \* the failure ids of the channels' ledger rows, in order
    Workers,
    None,
    Options,    \* the runs that are started: "latest", "full", "window", "target"
    PageLimit,  \* unknownChannelReplayLimit
    MaxChanges, \* bound on the changes at Discord
    MaxFaults   \* bound on failing requests, cancellations and crashes

Channels == Parents \cup Threads

ASSUME GuildSyncAssumption ==
    /\ ParentOf \in [Threads -> Parents] /\ OwnerOf \in [Archives -> Parents]
    /\ ListOf \in [Threads -> Archives]
    /\ ToSet(FailureIds) = Channels /\ IsInjective(FailureIds)
    /\ PageLimit \in Nat \ {0} /\ MaxChanges \in Nat /\ MaxFaults \in Nat

VARIABLES
    disc,        \* Discord's view of every channel
    rows,        \* stored channels
    dead,        \* stored channels with a recorded deletion
    complete,    \* channels with history_complete
    known,       \* channels with latest_message_id
    cursor,      \* the archived-thread cursor of every list
    lastSuccess, \* sync:last_success
    marker,      \* the unavailable marker of every channel
    fresh,       \* the markers still inside UnavailableMarkerWindow
    ledger,      \* the pending sync_messages failure of every channel
    after,       \* repair:sync_messages:after_failure_id
    pc, opt,     \* where the run is, and which run it is
    scan,        \* the start of the archive scan
    lists,       \* lists still to be scanned
    found,       \* channels observed by this run and not stored yet
    selected,    \* the message channels of the pool
    attempted,   \* channels the backlog phase has crawled in this run
    backlog,     \* the backlog being crawled: "none", "marked" only, or "unmarked"
    todo,        \* channels of the pool no worker has taken
    worker,      \* what every worker does
    stopped,     \* the pool's context is cancelled
    failed,      \* an error result was received
    cancelled,   \* the run's own context is cancelled
    crawled,     \* channels of the pool whose crawl succeeded
    verdict,     \* what the lookup of an unknown channel has said, until it is settled
    lane, last,  \* the page of the settling lane, and the row it did last
    between,     \* threads archived after a first successful run
    changes, faults

durable == <<rows, dead, complete, known, cursor, lastSuccess, marker, fresh, ledger, after>>
phase == <<opt, scan, lists, found, selected, attempted, backlog>>
pool == <<todo, worker, stopped, failed, crawled>>
laneVars == <<verdict, lane, last>>
provider == <<disc, between, changes>>
vars == <<provider, durable, pc, phase, pool, laneVars, cancelled, faults>>

Idle == [at |-> "idle", channel |-> None, result |-> None]
NoVerdict == [c \in Channels |-> None]
Archived == {t \in Threads : disc[t] = "archived"}
Listed == {p \in Parents : disc[p] \in {"active", "denied"}}
Readable(c) == disc[c] \in {"active", "archived"}
\* A recorded deletion of the channel or of its parent ends its collection.
Tombstoned(c) == c \in dead \/ (c \in Threads /\ ParentOf[c] \in dead)

Init ==
    /\ disc = [c \in Channels |-> IF c \in Parents THEN "active" ELSE "absent"]
    /\ rows = {} /\ dead = {} /\ complete = {} /\ known = {}
    /\ cursor = [l \in Archives |-> None]
    /\ lastSuccess = None
    /\ marker = [c \in Channels |-> None] /\ fresh = {}
    /\ ledger = [c \in Channels |-> None]
    /\ after = 0
    /\ pc = "idle" /\ opt = None
    /\ scan = {} /\ lists = {} /\ found = {} /\ selected = {} /\ attempted = {} /\ backlog = "none"
    /\ todo = {} /\ worker = [w \in Workers |-> Idle]
    /\ stopped = FALSE /\ failed = FALSE /\ crawled = {}
    /\ verdict = NoVerdict /\ lane = <<>> /\ last = 0
    /\ between = {}
    /\ cancelled = FALSE
    /\ changes = 0 /\ faults = 0

Fault == faults < MaxFaults /\ faults' = faults + 1

(***************************************************************************)
(* The run ends: the tail's repair goes on with its lanes unless the       *)
(* context is cancelled.                                                   *)
(***************************************************************************)
Reset ==
    /\ scan' = {} /\ lists' = {} /\ found' = {} /\ selected' = {} /\ attempted' = {} /\ backlog' = "none"
    /\ todo' = {} /\ worker' = [w \in Workers |-> Idle]
    /\ stopped' = FALSE /\ failed' = FALSE /\ crawled' = {}
EndRun ==
    /\ Reset
    /\ pc' = IF opt = "latest" /\ ~cancelled THEN "lane" ELSE "idle"
    /\ opt' = IF pc' = "lane" THEN opt ELSE None
    /\ cancelled' = FALSE

\* Anything read through the run's context after it was cancelled ends the run,
\* and so does a failing request for the guild, its channels or its threads.
Abort ==
    /\ pc \in {"start", "list", "scan", "store", "success"}
    /\ \/ cancelled /\ UNCHANGED faults
       \/ ~cancelled /\ pc \in {"start", "list"} /\ Fault
    /\ EndRun
    /\ UNCHANGED <<provider, durable, laneVars>>

Start(o) ==
    /\ pc = "idle" /\ o \in Options
    /\ pc' = "start" /\ opt' = o
    /\ UNCHANGED <<provider, durable, scan, lists, found, selected, attempted, backlog, pool,
                   laneVars, cancelled, faults>>

(***************************************************************************)
(* syncGuildIncompleteBatches and the targeted run over stored channels.   *)
(***************************************************************************)
Pool(S) ==
    /\ selected' = S /\ todo' = S /\ crawled' = {}
    /\ stopped' = FALSE /\ failed' = FALSE
    /\ pc' = "pool"
    /\ UNCHANGED worker

Marked == {c \in rows : marker[c] # None}
Incomplete == rows \ complete

Backlog ==
    /\ pc = "start" /\ opt = "full" /\ ~cancelled
    /\ Incomplete \cup Marked # {}
    /\ attempted' = Incomplete \cup Marked
    /\ backlog' = IF Incomplete \subseteq Marked THEN "marked" ELSE "unmarked"
    /\ Pool(Incomplete \cup Marked)
    /\ UNCHANGED <<provider, durable, opt, scan, lists, found, laneVars, cancelled, faults>>

\* --channels with channels that are all stored: no catalogue is read.
Target(c) ==
    /\ pc = "start" /\ opt = "target" /\ ~cancelled
    /\ c \in rows
    /\ Pool({c})
    /\ UNCHANGED <<provider, durable, opt, scan, lists, found, attempted, backlog, laneVars, cancelled, faults>>

\* --channels with a channel that is not stored: the listed channels and the
\* exact lookup, without an archive scan; a lookup that fails ends the run.
TargetUnknown(c) ==
    /\ pc = "start" /\ opt = "target" /\ ~cancelled
    /\ c \notin rows /\ disc[c] # "absent"
    /\ IF c \in Listed \/ Readable(c)
       THEN /\ found' = Listed \cup {c}
            /\ selected' = {c}
            /\ pc' = "store"
            /\ UNCHANGED <<opt, scan, lists, attempted, backlog, pool, cancelled>>
       ELSE EndRun
    /\ UNCHANGED <<provider, durable, laneVars, faults>>

(***************************************************************************)
(* liveChannelList: the listed channels, the active threads, and archived  *)
(* threads after each list's cursor, or all of them for a first catalogue. *)
(***************************************************************************)
Discover ==
    /\ pc = "start" /\ ~cancelled
    /\ \/ opt \in {"latest", "window"}
       \/ opt = "full" /\ Incomplete \cup Marked = {}
    /\ pc' = "list"
    /\ UNCHANGED <<provider, durable, phase, pool, laneVars, cancelled, faults>>

Incremental == opt = "latest" \/ (opt = "full" /\ rows # {})
StoredThreads == rows \cap Threads
ActiveThreads == {t \in Threads : disc[t] = "active" /\ ParentOf[t] \in Listed}

\* GuildThreadsActive is skipped when access is missing.
ListChannels(active) ==
    /\ pc = "list" /\ ~cancelled
    /\ active \in {ActiveThreads, {}}
    /\ active # ActiveThreads => \E p \in Parents : disc[p] = "denied"
    /\ found' = Listed \cup active \cup (IF Incremental THEN {} ELSE StoredThreads)
    /\ scan' = Archived
    /\ lists' = IF Incremental \/ StoredThreads = {}
                THEN {l \in Archives : OwnerOf[l] \in Listed} ELSE {}
    /\ pc' = "scan"
    /\ UNCHANGED <<provider, durable, opt, selected, attempted, backlog, pool, laneVars, cancelled, faults>>

Archive(l, from) == {t \in Archived : ListOf[t] = l} \ from
\* archivedThreadInitialCursor: the last success, or the start of the scan.
InitialCursor == IF lastSuccess = None THEN scan ELSE lastSuccess
CursorOf(l) == IF cursor[l] = None THEN InitialCursor ELSE cursor[l]

\* An archive listing that fails leaves the cursor; one that succeeds moves it to
\* the start of the scan.
ScanArchive(l) ==
    /\ pc = "scan" /\ l \in lists /\ ~cancelled
    /\ lists' = lists \ {l}
    /\ LET served == disc[OwnerOf[l]] = "active" IN
       \/ /\ served /\ UNCHANGED faults
          /\ found' = found \cup Archive(l, IF Incremental THEN CursorOf(l) ELSE {})
          /\ cursor' = IF Incremental THEN [cursor EXCEPT ![l] = scan] ELSE cursor
       \/ /\ IF served THEN Fault ELSE UNCHANGED faults
          /\ cursor' = IF Incremental THEN [cursor EXCEPT ![l] = CursorOf(l)] ELSE cursor
          /\ UNCHANGED found
    /\ UNCHANGED <<provider, rows, dead, complete, known, lastSuccess, marker, fresh, ledger, after, pc, opt, scan,
                   selected, attempted, backlog, pool, laneVars, cancelled>>

ScanDone ==
    /\ pc = "scan" /\ lists = {}
    /\ pc' = "store"
    /\ UNCHANGED <<provider, durable, phase, pool, laneVars, cancelled, faults>>

\* storeScopeMetadata, one row at a time; then the pool over what was found, less
\* what the backlog phase has tried and what a fresh marker holds back.
Unfinished == found \ rows
StoreChannel ==
    /\ pc = "store" /\ ~cancelled /\ Unfinished # {}
    /\ rows' = rows \cup {CHOOSE c \in Unfinished : TRUE}
    /\ UNCHANGED <<provider, dead, complete, known, cursor, lastSuccess, marker, fresh, ledger, after, pc, phase,
                   pool, laneVars, cancelled, faults>>

SelectedChannels == CASE opt = "target" -> selected
                      [] opt \in {"full", "window"} -> found \ attempted
                      [] opt = "latest" -> found \ fresh
SelectChannels ==
    /\ pc = "store" /\ ~cancelled /\ Unfinished = {}
    /\ Pool(SelectedChannels)
    /\ backlog' = "none"
    /\ UNCHANGED <<provider, durable, opt, scan, lists, found, attempted, laneVars, cancelled, faults>>

(***************************************************************************)
(* syncMessageChannelsConcurrent.                                          *)
(***************************************************************************)
Ctx == stopped \/ cancelled
At(w, where) == worker' = [worker EXCEPT ![w].at = where]
Result(w, r, where) == worker' = [worker EXCEPT ![w].result = r, ![w].at = where]

Take(w) ==
    /\ pc = "pool" /\ worker[w].at = "idle" /\ todo # {} /\ ~Ctx
    /\ LET c == CHOOSE c \in todo : TRUE IN
       /\ worker' = [worker EXCEPT ![w] = [at |-> "crawl", channel |-> c, result |-> None]]
       /\ todo' = todo \ {c}
    /\ UNCHANGED <<provider, durable, pc, phase, stopped, failed, crawled, laneVars, cancelled, faults>>

\* The stored cursors already reach the last message of the catalogue: the crawl
\* returns without a request.
NothingNew(c) == /\ opt # "window"
                 /\ c \in complete \/ (opt = "latest" /\ c \in known \cap Parents)

\* The outcome of a crawl, by what Discord answers.
Answer(c) == CASE Tombstoned(c) -> "scope"
               [] ~Tombstoned(c) /\ disc[c] = "denied" -> "missing_access"
               [] ~Tombstoned(c) /\ disc[c] = "gone" -> "unknown_channel"
               [] OTHER -> "ok"
Crawl(w) ==
    LET c == worker[w].channel IN
    /\ worker[w].at = "crawl"
    /\ \/ /\ ~Ctx
          /\ Result(w, Answer(c), "settle")
          /\ IF Answer(c) = "ok"
             THEN /\ crawled' = crawled \cup {c} /\ known' = known \cup {c}
                  /\ complete' = IF opt = "full" \/ (c \in Threads /\ opt # "window") THEN complete \cup {c} ELSE complete
             ELSE UNCHANGED <<crawled, complete, known>>
          /\ UNCHANGED faults
       \/ /\ ~Ctx /\ NothingNew(c)
          /\ Result(w, "ok", "settle")
          /\ crawled' = crawled \cup {c}
          /\ UNCHANGED <<complete, known, faults>>
       \/ /\ ~Ctx /\ Fault
          /\ \E r \in {"transient", "unknown_channel", "fatal"} : Result(w, r, "settle")
          /\ UNCHANGED <<crawled, complete, known>>
       \/ /\ Ctx
          /\ Result(w, "fatal", "settle")
          /\ UNCHANGED <<crawled, complete, known, faults>>
    /\ UNCHANGED <<provider, rows, dead, cursor, lastSuccess, marker, fresh, ledger, after, pc, phase,
                   todo, stopped, failed, laneVars, cancelled>>

Unavailable == {"missing_access", "unknown_channel"}

\* skipSyncError and clearUnavailableChannel write through the pool's context: a
\* cancelled one turns the outcome into an error, except that the channel has left
\* the scope.
Mark(w) ==
    LET c == worker[w].channel
        r == worker[w].result IN
    /\ worker[w].at = "settle"
    /\ CASE Ctx /\ r # "scope" -> /\ Result(w, "fatal", "record") /\ UNCHANGED <<marker, fresh>>
         [] ~Ctx /\ r = "ok" ->
              /\ marker' = [marker EXCEPT ![c] = None] /\ fresh' = fresh \ {c}
              /\ At(w, "resolve")
         [] ~Ctx /\ r \in Unavailable ->
              /\ marker' = [marker EXCEPT ![c] = r] /\ fresh' = fresh \cup {c}
              /\ At(w, "record")
         [] OTHER -> At(w, "record") /\ UNCHANGED <<marker, fresh>>
    /\ UNCHANGED <<provider, rows, dead, complete, known, cursor, lastSuccess, ledger, after, pc, phase, todo,
                   stopped, failed, crawled, laneVars, cancelled, faults>>

\* Ledger writes have a context of their own.
Resolve(w) ==
    /\ worker[w].at = "resolve"
    /\ ledger' = [ledger EXCEPT ![worker[w].channel] = None]
    /\ At(w, "send")
    /\ UNCHANGED <<provider, rows, dead, complete, known, cursor, lastSuccess, marker, fresh, after, pc, phase, todo,
                   stopped, failed, crawled, laneVars, cancelled, faults>>

Record(w) ==
    LET r == worker[w].result IN
    /\ worker[w].at = "record"
    /\ ledger' = [ledger EXCEPT ![worker[w].channel] = IF r = "scope" THEN None ELSE r]
    /\ At(w, IF r = "unknown_channel" /\ ~Ctx THEN "verify" ELSE "send")
    /\ UNCHANGED <<provider, rows, dead, complete, known, cursor, lastSuccess, marker, fresh, after, pc, phase, todo,
                   stopped, failed, crawled, laneVars, cancelled, faults>>

(***************************************************************************)
(* settleUnknownChannelFailure: the exact lookup corroborates or refutes.  *)
(***************************************************************************)
Verdict(c, v) == verdict' = [verdict EXCEPT ![c] = v]

\* Bug variant: one 404 is proof, no lookup is asked.
LookupNothing(c) == Verdict(c, "confirmed") /\ UNCHANGED faults
\* verifyUnknownChannel.
Lookup(c) ==
    \/ ~Ctx /\ disc[c] = "gone" /\ Verdict(c, "confirmed") /\ UNCHANGED faults
    \/ ~Ctx /\ Readable(c) /\ Verdict(c, "exists") /\ UNCHANGED faults
    \/ (Ctx \/ disc[c] = "denied") /\ Verdict(c, "inconclusive") /\ UNCHANGED faults
    \/ Fault /\ Verdict(c, "inconclusive")

\* The writes have a context of their own; an existing marker keeps its window.
KeepEvidence(c) ==
    /\ marker' = [marker EXCEPT ![c] = IF @ = None THEN "unknown_channel" ELSE @]
    /\ fresh' = IF marker[c] = None THEN fresh \cup {c} ELSE fresh
    /\ Verdict(c, "marked")
    /\ UNCHANGED ledger
\* Bug variant: the failure of a channel that is gone stays pending.
LeavePending(c) == Verdict(c, None) /\ UNCHANGED <<marker, fresh, ledger>>
ProviderUnavailable(c) ==
    /\ ledger' = [ledger EXCEPT ![c] = None]
    /\ Verdict(c, None)
    /\ UNCHANGED <<marker, fresh>>
Refute(c) ==
    /\ marker' = [marker EXCEPT ![c] = IF @ = "unknown_channel" THEN None ELSE @]
    /\ fresh' = IF marker[c] = "unknown_channel" THEN fresh \ {c} ELSE fresh
    /\ Verdict(c, None)
    /\ UNCHANGED ledger
\* One step of it; it is over when no verdict is left.
Settle(c) ==
    \/ verdict[c] = None /\ Lookup(c) /\ UNCHANGED <<marker, fresh, ledger>>
    \/ /\ \/ verdict[c] = "confirmed" /\ KeepEvidence(c)
          \/ verdict[c] = "marked" /\ ProviderUnavailable(c)
          \/ verdict[c] = "exists" /\ Refute(c)
          \/ verdict[c] = "inconclusive" /\ Verdict(c, None) /\ UNCHANGED <<marker, fresh, ledger>>
       /\ UNCHANGED faults

Verify(w) ==
    /\ worker[w].at = "verify"
    /\ Settle(worker[w].channel)
    /\ IF verdict'[worker[w].channel] = None THEN At(w, "send") ELSE UNCHANGED worker
    /\ UNCHANGED <<provider, rows, dead, complete, known, cursor, lastSuccess, after, pc, phase, todo, stopped,
                   failed, crawled, lane, last, cancelled>>

\* Bug variant: cancelAll before the send.
SendResultAfterCancel(w) ==
    LET error == worker[w].result = "fatal" IN
    /\ worker[w].at = "send"
    /\ \/ failed' = (failed \/ error)
       \/ (Ctx \/ error) /\ UNCHANGED failed
    /\ stopped' = (stopped \/ error)
    /\ worker' = [worker EXCEPT ![w] = IF error THEN [Idle EXCEPT !.at = "exit"] ELSE Idle]
    /\ UNCHANGED <<provider, durable, pc, phase, todo, crawled, laneVars, cancelled, faults>>

\* The result is sent before the pool is cancelled; once the context is done it
\* may be lost.
SendResult(w) ==
    LET error == worker[w].result = "fatal" IN
    /\ worker[w].at = "send"
    /\ \/ failed' = (failed \/ error)
       \/ Ctx /\ UNCHANGED failed
    /\ stopped' = (stopped \/ error)
    /\ worker' = [worker EXCEPT ![w] = IF error THEN [Idle EXCEPT !.at = "exit"] ELSE Idle]
    /\ UNCHANGED <<provider, durable, pc, phase, todo, crawled, laneVars, cancelled, faults>>
PoolDone ==
    /\ pc = "pool"
    /\ \A w \in Workers : worker[w].at \in {"idle", "exit"}
    /\ todo = {} \/ Ctx
    /\ IF failed THEN EndRun
       ELSE /\ pc' = IF backlog = "marked" THEN "list" ELSE "success"
            /\ worker' = [w \in Workers |-> Idle] /\ todo' = {} /\ stopped' = FALSE
            /\ UNCHANGED <<phase, failed, crawled, cancelled>>
    /\ UNCHANGED <<provider, durable, laneVars, faults>>

Success ==
    /\ pc = "success" /\ ~cancelled
    /\ lastSuccess' = Archived
    /\ EndRun
    /\ UNCHANGED <<provider, rows, dead, complete, known, cursor, marker, fresh, ledger, after, laneVars, faults>>

(***************************************************************************)
(* reconcileChannelMessageFailures: one page after the persisted cursor.   *)
(***************************************************************************)
PendingAfter(n) == SelectSeq(FailureIds, LAMBDA c : ledger[c] # None /\ SelectInSeq(FailureIds, LAMBDA d : d = c) > n)
Page(n) == LET s == PendingAfter(n) IN SubSeq(s, 1, IF Len(s) < PageLimit THEN Len(s) ELSE PageLimit)
NextPage == IF Page(after) = <<>> THEN Page(0) ELSE Page(after)

StartLane ==
    /\ pc = "lane"
    /\ lane' = NextPage
    /\ last' = IF Page(after) = <<>> THEN 0 ELSE after
    /\ pc' = "rows"
    /\ UNCHANGED <<provider, durable, phase, pool, verdict, cancelled, faults>>

LaneRow ==
    /\ pc = "rows" /\ lane # <<>>
    /\ LET c == Head(lane) IN
       /\ CASE verdict[c] # None \/ (~Tombstoned(c) /\ ledger[c] = "unknown_channel") -> Settle(c)
            [] verdict[c] = None /\ Tombstoned(c) -> /\ ledger' = [ledger EXCEPT ![c] = None]
                                                     /\ UNCHANGED <<marker, fresh, verdict, faults>>
            [] OTHER -> UNCHANGED <<marker, fresh, ledger, verdict, faults>>
       /\ IF verdict'[c] = None
          THEN lane' = Tail(lane) /\ last' = SelectInSeq(FailureIds, LAMBDA d : d = c)
          ELSE UNCHANGED <<lane, last>>
    /\ UNCHANGED <<provider, rows, dead, complete, known, cursor, lastSuccess, after, pc, phase, pool, cancelled>>

\* The page is done or the budget has expired: the cursor is kept.
EndLane ==
    /\ pc = "rows"
    /\ \/ lane = <<>> /\ UNCHANGED faults
       \/ lane # <<>> /\ verdict[Head(lane)] = None /\ Fault
    /\ after' = last
    /\ lane' = <<>> /\ last' = 0
    /\ pc' = "idle" /\ opt' = None
    /\ UNCHANGED <<provider, rows, dead, complete, known, cursor, lastSuccess, marker, fresh, ledger, scan, lists, found,
                   selected, attempted, backlog, pool, verdict, cancelled>>

(***************************************************************************)
(* The environment.                                                        *)
(***************************************************************************)
Cancel ==
    /\ pc \in {"start", "list", "scan", "store", "pool", "success"} /\ ~cancelled
    /\ Fault
    /\ cancelled' = TRUE
    /\ UNCHANGED <<provider, durable, pc, phase, pool, laneVars>>

Crash ==
    /\ pc # "idle"
    /\ Fault
    /\ Reset /\ pc' = "idle" /\ opt' = None /\ cancelled' = FALSE
    /\ verdict' = NoVerdict /\ lane' = <<>> /\ last' = 0
    /\ UNCHANGED <<provider, durable>>

\* Seven days pass over a marker.
Expire(c) ==
    /\ c \in fresh
    /\ fresh' = fresh \ {c}
    /\ UNCHANGED <<provider, rows, dead, complete, known, cursor, lastSuccess, marker, ledger, after, pc, phase, pool,
                   laneVars, cancelled, faults>>

\* A deletion is recorded if the tail hears of it.
ChangeAtDiscord(c, to) ==
    /\ changes < MaxChanges
    /\ \/ disc[c] = "absent" /\ to = "active" /\ disc[ParentOf[c]] = "active"
       \/ disc[c] = "active" /\ c \in Threads /\ to = "archived"
       \/ disc[c] = "active" /\ c \in Parents /\ to \in {"denied", "gone"}
       \/ disc[c] = "denied" /\ to = "active"
    /\ disc' = [disc EXCEPT ![c] = to]
    /\ \/ UNCHANGED <<rows, dead>>
       \/ to = "gone" /\ rows' = rows \cup {c} /\ dead' = dead \cup {c}
    /\ between' = IF to = "archived" /\ lastSuccess # None THEN between \cup {c} ELSE between
    /\ changes' = changes + 1
    /\ UNCHANGED <<complete, known, cursor, lastSuccess, marker, fresh, ledger, after, pc, phase, pool, laneVars,
                   cancelled, faults>>

Work == \/ Backlog \/ (\E c \in Channels : Target(c) \/ TargetUnknown(c))
        \/ Discover \/ (\E a \in SUBSET Threads : ListChannels(a))
        \/ (\E l \in Archives : ScanArchive(l)) \/ ScanDone
        \/ StoreChannel \/ SelectChannels \/ PoolDone \/ Success
        \/ StartLane \/ LaneRow \/ EndLane
        \/ (Abort /\ cancelled)
        \/ \E w \in Workers : \/ Take(w) \/ Crawl(w) \/ Mark(w) \/ Resolve(w) \/ Record(w)
                              \/ Verify(w) \/ SendResult(w)
Next == \/ Work \/ Abort \/ Cancel \/ Crash
        \/ \E c \in Channels : Expire(c)
        \/ \E o \in Options : Start(o)
        \/ \E c \in Channels, to \in {"active", "archived", "denied", "gone"} : ChangeAtDiscord(c, to)

Spec == /\ Init /\ [][Next]_vars
        /\ WF_vars(Work) /\ SF_vars(Start("latest")) /\ \A c \in Channels : WF_vars(Expire(c))

\* Only full runs are repeated.
FullSpec == Init /\ [][Next]_vars /\ WF_vars(Work) /\ SF_vars(Start("full"))

(***************************************************************************)
(* Properties.                                                             *)
(***************************************************************************)
TypeOK ==
    /\ rows \subseteq Channels /\ complete \subseteq rows /\ known \subseteq rows
    /\ cursor \in [Archives -> SUBSET Threads \cup {None}]
    /\ marker \in [Channels -> Unavailable \cup {None}] /\ fresh \subseteq Channels
    /\ todo \subseteq selected /\ crawled \subseteq selected

\* sync:last_success is written only when every channel the run selected was
\* crawled or left evidence of why not: a marker or a pending failure.  A worker's
\* error is never lost to the cancellation it causes.
SuccessHasEvidence ==
    [][lastSuccess' # lastSuccess =>
         \A c \in selected : c \in crawled \/ marker[c] # None \/ ledger[c] # None \/ Tombstoned(c)]_vars

\* No pending failure and no marker stays for ever: the lane of the tail's repair
\* and the retry window bring every listed channel to rest again and again.  A
\* readable one then has neither, one that Discord no longer serves has no failure
\* that would be retried for ever.
ChannelsSettle ==
    \A c \in Parents :
        []<>(c \in rows => /\ disc[c] = "active" => marker[c] = None /\ ledger[c] = None
                           /\ disc[c] = "gone" => ledger[c] # "unknown_channel"
                           /\ Tombstoned(c) => ledger[c] = None)

\* A failure is settled as provider-unavailable only for a channel that Discord
\* does not serve at that moment.
SettledIsGone ==
    [][\A c \in Channels : ~Tombstoned(c) /\ (marker[c] = "unknown_channel" \/ marker'[c] = "unknown_channel")
           /\ ledger[c] = "unknown_channel" /\ ledger'[c] = None /\ c \notin crawled => disc[c] = "gone"]_vars

\* "Routine refreshes keep a per-parent archived-thread cursor, so they discover
\* threads archived between runs": once a routine run has succeeded, a thread that
\* was archived after an earlier success and that its list's cursor has passed is
\* stored.
ArchivedBetweenRunsFound ==
    [][pc = "success" /\ opt = "latest" /\ lastSuccess' # lastSuccess =>
         \A t \in between : cursor[ListOf[t]] # None /\ t \in cursor[ListOf[t]] => t \in rows]_vars

\* "When only unavailable channels remain in the cached backlog, it also discovers
\* new channels": full runs find a new thread even when the backlog holds a
\* channel that can no longer be crawled.
FullRunsDiscover ==
    [](\A p \in Parents : disc[p] # "denied") =>
        \A t \in Threads : <>[](disc[t] = "active" /\ ParentOf[t] \in Listed => t \in rows)
=============================================================================

------------------------ MODULE ChannelHistoryProofs ------------------------
(***************************************************************************)
(* Proofs about ChannelHistory, for any number of messages, page size,     *)
(* modes, windows and faults.                                              *)
(***************************************************************************)
EXTENDS ChannelHistory, FiniteSetTheorems, WellFoundedInduction, TLAPS

(* All ids from a to b are stored or deleted at Discord.                   *)
Cov(a, b) == \A id \in Ids : a <= id /\ id <= b => id \in Have

(* The newest message a crawl knows of.                                    *)
Crest == Larger(run.floor, run.top)

(* Where the shared cursors say the stored history begins.                 *)
LowMark == IF cursor # 0 THEN cursor ELSE Low(rows)

(* Types, wider than TypeOK where that is enough.                          *)
AllRuns ==
  [stage : Stages \cup {"idle"}, mode : {"full", "latest", "incremental", "chosen", "none"},
   kind : Kinds \cup {"none"}, since : Nat, last : Nat, verify : BOOLEAN, latest : Nat,
   cursor : Nat, complete : BOOLEAN, pos : Nat, floor : Nat, top : Nat, page : SUBSET Ids,
   until : Nat]
Types ==
  /\ posted \in 0..MaxPosts /\ gone \subseteq 1..posted /\ rows \subseteq 1..posted
  /\ latest \in Nat /\ cursor \in Nat /\ complete \in BOOLEAN
  /\ ckpt \in [latest : Nat, before : Nat \cup {-1}]
  /\ window \in [Sinces \ {0} -> Int]
  /\ run \in AllRuns
  /\ pend \subseteq 1..posted /\ moving \in Nat /\ loose \in BOOLEAN

(* The stages each kind of run goes through; a crawl that has no page from *)
(* the backfill knows no head.                                             *)
StageInv ==
  /\ run.kind = "none"    => run.stage \in {"idle", "load", "route"}
  /\ run.kind = "verify"  => run.stage \in {"intent", "clear", "forward", "advance", "turn",
                               "back", "head", "cursor", "save", "complete", "final", "mark",
                               "unmark", "restore"}
  /\ run.kind = "window"  => run.stage \in {"back", "head", "certify"}
  /\ run.kind = "page"    => run.stage \in {"back", "head", "cursor", "complete", "final"}
  /\ run.kind = "boot"    => run.stage \in {"boot", "cursor", "complete", "final"}
  /\ run.kind = "forward" => run.stage \in {"forward", "advance", "turn"}
  /\ run.kind = "full"    => run.stage \in {"forward", "advance", "turn", "back", "head",
                               "cursor", "complete", "final"}
  /\ run.stage \in {"idle", "load", "route", "intent", "clear", "forward", "advance", "turn"} =>
       run.top = 0
  /\ run.stage \in {"load", "route"} => run.since \in Sinces
  /\ run.stage \in {"idle", "load"} => run.latest = 0
  /\ run.stage = "idle" => run = Idle
  /\ run.kind = "verify" => run.since = 0 /\ ~run.complete

(* Every position is that of a stored message.                             *)
InRows ==
  {latest, moving, ckpt.latest, run.latest, run.floor, run.top} \subseteq rows \cup {0}

(* A page of the backfill: it and all above it is there, and if it is the  *)
(* last one, all below it.                                                 *)
PageDone ==
  /\ Eligible(run) # {} /\ run.top # 0
  /\ Cov(Low(Eligible(run)), Crest)
  /\ Low(Eligible(run)) <= Crest
  /\ Short(run) /\ ~Cut(run) => Cov(1, Crest)

(* The page in hand: a forward page reaches up to floor, and a page of the *)
(* backfill that moves a cursor holds something to store.                  *)
PagePos ==
  /\ run.stage = "forward" => run.pos = run.floor /\ run.floor # 0
  /\ run.stage = "advance" => run.page # {} /\ High(run.page) = run.floor
  /\ run.stage = "turn" => run.floor # 0
  /\ run.stage = "head" => run.page # {} /\ run.top # 0
  /\ run.stage \in {"cursor", "save"} => Eligible(run) # {} /\ run.top # 0

(* What a verification has found by itself, whatever the shared cursors    *)
(* say; and, if no live message came, that nothing is missing between its  *)
(* own newest message and the shared one.                                  *)
CheckpointInv ==
  /\ ckpt.before > 0 => Cov(ckpt.before, ckpt.latest)
  /\ ckpt.before > 0 <=> ckpt.latest # 0
Reached ==
  \/ run.stage \in {"turn", "head", "cursor", "save", "complete", "final", "mark", "unmark"}
  \/ run.stage = "back" /\ run.pos # 0
  \/ run.stage = "advance" /\ Short(run)
VerifyInv ==
  run.kind = "verify" =>
    /\ run.stage # "intent" => ckpt # None
    /\ run.stage \in {"forward", "advance", "turn"} => run.cursor # 0 /\ Cov(run.cursor, run.floor)
    /\ run.stage = "back" => IF run.pos = 0 THEN Crest = 0 ELSE Cov(run.pos, Crest)
    /\ run.stage \in {"head", "cursor", "save"} => PageDone
    /\ run.stage \in {"complete", "final", "mark", "unmark"} => Cov(1, Crest)
    /\ run.stage \in {"final", "mark", "unmark"} => complete
    /\ Reached /\ ~loose => Cov(Crest + 1, latest)

(* What a window has found since its beginning.                            *)
WindowInv ==
  run.kind = "window" =>
    /\ run.since \in Sinces \ {0} /\ run.until <= posted
    /\ ~loose => run.top = 0
    /\ run.stage = "back" /\ run.pos # 0 => Cov(Larger(run.since, run.pos), run.until)
    /\ run.stage = "head" => /\ run.page # {}
                             /\ Cov(Larger(run.since, Low(run.page)), run.until)
                             /\ Short(run) => Cov(run.since, run.until)
    /\ run.stage = "certify" => Cov(run.since, run.until)

(* Without an unaccounted row an empty latest id means an empty channel.   *)
ZeroInv ==
  ~loose =>
    /\ moving = 0
    /\ run.top = 0 /\ latest = 0 => rows = {} /\ cursor = 0
    /\ run.stage = "route" => run.latest = latest /\ run.cursor = cursor /\ run.complete = complete
    /\ run.stage \in {"forward", "advance", "turn", "save"} => latest # 0
    /\ run.stage \in {"mark", "unmark", "restore"} => run.top = 0 \/ latest # 0
    /\ run.stage = "cursor" /\ run.kind # "boot" => latest # 0
    /\ ckpt.latest # 0 \/ run.floor # 0 => latest # 0

(* The shared cursors, and what each run does before it moves them.        *)
SharedInv ==
  /\ latest # 0 => Cov(LowMark, latest)
  /\ latest # 0 /\ ~complete => LowMark <= latest
  /\ complete => Cov(1, latest)
ForwardInv ==
  run.stage \in {"forward", "advance", "turn"} =>
    /\ latest # 0 /\ latest <= run.floor /\ Cov(latest, run.floor)
    /\ run.stage # "advance" => latest = run.floor
    /\ run.kind = "full" =>
         /\ run.complete = complete
         /\ run.latest # 0 /\ run.latest <= run.floor /\ Cov(run.latest, run.floor)
         /\ run.cursor # 0 => Cov(run.cursor, run.floor)
         /\ ~complete => run.cursor <= run.floor
BackInv ==
  run.kind \in {"full", "page"} =>
    /\ run.stage \in {"back", "cursor", "complete", "final"} => latest = Crest
    /\ run.stage = "back" =>
         /\ run.complete = complete
         /\ run.kind = "full" => ~complete
         /\ IF run.pos = 0 THEN rows = {} /\ cursor = 0
            ELSE /\ run.kind = "full" /\ Cov(run.pos, Crest) /\ run.pos <= Crest
                 /\ IF run.floor = 0 THEN cursor # 0 ELSE run.top < run.floor
    /\ run.stage = "head" =>
         /\ run.floor = 0
         /\ \/ latest = Crest /\ cursor # 0
            \/ latest = 0 /\ cursor = 0 /\ rows = Eligible(run)
         /\ Eligible(run) # {} => PageDone
    /\ run.stage = "cursor" => PageDone /\ (run.floor # 0 => run.top < run.floor)
    /\ run.stage \in {"head", "cursor"} => ~complete /\ ~run.complete
    /\ run.stage = "complete" => Cov(1, Crest)
BootInv ==
  run.kind = "boot" =>
    /\ latest = 0 /\ run.floor = 0
    /\ run.stage = "boot" =>
         /\ cursor = 0 /\ run.complete = complete
         /\ IF run.pos = 0 THEN rows = {} /\ run.top = 0
            ELSE run.top # 0 /\ Low(rows) = run.pos /\ run.pos <= run.top
                 /\ Cov(run.pos, Crest) /\ ~complete
    /\ run.stage = "cursor" => ~complete /\ PageDone
    /\ run.stage = "complete" => Cov(1, Crest) /\ LowMark <= Crest /\ run.top # 0
    /\ run.stage = "final" =>
         /\ run.top # 0 => LowMark <= Crest /\ Cov(LowMark, Crest)
         /\ complete => Cov(1, Crest)
NoHoleInv ==
  ~loose /\ ckpt = None => SharedInv /\ ForwardInv /\ BackInv /\ BootInv

(* The inductive invariant.                                                *)
IInv ==
  /\ Types /\ StageInv /\ InRows /\ PagePos /\ CheckpointInv /\ VerifyInv
  /\ WindowInv /\ WindowIsWhole /\ ZeroInv /\ NoHoleInv

USE BoundsAssumption, InputsAssumption

-----------------------------------------------------------------------------
(* Least and greatest ids, and the pages Discord serves.                   *)

(* Every set of naturals has a least element.                              *)
LEMMA Least == \A S \in SUBSET Nat : S # {} => \E x \in S : \A y \in S : x <= y
<1> SUFFICES ASSUME NEW S \in SUBSET Nat, S # {} PROVE \E x \in S : \A y \in S : x <= y
  OBVIOUS
<1>1. PICK x \in S : \A y \in S : ~(<<y, x>> \in OpToRel(<, Nat))
  BY NatLessThanWellFounded, WFMin
<1>2. \A y \in S : ~(y < x)
  BY <1>1 DEF OpToRel
<1> QED BY <1>2

(* Low and High are the ends of a set of ids.                              *)
LEMMA LowIs ==
  ASSUME NEW S \in SUBSET Ids
  PROVE  IF S = {} THEN Low(S) = 0 ELSE Low(S) \in S /\ \A y \in S : Low(S) <= y
<1>1. ASSUME S # {} PROVE \E x \in S : \A y \in S : x <= y
  BY <1>1, Least DEF Ids
<1> QED BY <1>1 DEF Low, Min

(* High is the greatest id of a set.                                       *)
LEMMA HighIs ==
  ASSUME NEW S \in SUBSET Ids
  PROVE  IF S = {} THEN High(S) = 0 ELSE High(S) \in S /\ \A y \in S : y <= High(S)
<1>1. ASSUME S # {} PROVE \E x \in S : \A y \in S : y <= x
  <2> DEFINE D == {n \in Nat : \A y \in S : y <= n}
  <2>1. MaxPosts \in D
    BY DEF Ids
  <2>2. PICK m \in D : \A n \in D : m <= n
    BY <2>1, Least
  <2>3. CASE m \in S
    BY <2>2, <2>3
  <2>4. CASE m \notin S
    <3>1. \A y \in S : y <= m /\ y # m /\ y \in 1 .. MaxPosts
      BY <2>2, <2>4 DEF Ids
    <3>2. m \in Nat /\ m - 1 \in Nat
      BY <1>1, <2>2, <3>1
    <3>3. m - 1 \in D
      BY <3>1, <3>2
    <3> QED BY <2>2, <3>2, <3>3
  <2> QED BY <2>3, <2>4
<1> QED BY <1>1 DEF High, Max

(* Both ends are ids of the set, in order, or 0 for none.                  *)
LEMMA EndsAre ==
  ASSUME NEW S \in SUBSET Ids
  PROVE  /\ Low(S) \in Nat /\ High(S) \in Nat /\ Low(S) \in S \cup {0} /\ High(S) \in S \cup {0}
         /\ S # {} => Low(S) # 0 /\ High(S) # 0 /\ Low(S) <= High(S)
<1>1. \A x \in S : x \in Nat /\ x # 0
  BY DEF Ids
<1>2. CASE S = {}
  BY <1>2, LowIs, HighIs
<1>3. CASE S # {}
  <2>1. Low(S) \in S /\ High(S) \in S /\ Low(S) <= High(S)
    BY <1>3, LowIs, HighIs
  <2> QED BY <1>1, <2>1
<1> QED BY <1>2, <1>3

(* A set of ids is finite, and a part of it is not larger.                 *)
LEMMA Sizes ==
  ASSUME NEW S \in SUBSET Ids, NEW T \in SUBSET S
  PROVE  /\ Cardinality(S) \in Nat /\ Cardinality(T) \in Nat /\ Cardinality(T) <= Cardinality(S)
         /\ S = {} => Cardinality(S) = 0
<1>1. IsFiniteSet(Ids)
  <2>1. 1 \in Int /\ MaxPosts \in Int
    OBVIOUS
  <2> QED BY <2>1, FS_Interval DEF Ids
<1>2. IsFiniteSet(S)
  BY <1>1, FS_Subset
<1> QED BY <1>2, FS_Subset, FS_CardinalityType, FS_EmptySet

(* A page before a position holds the newest messages there, without a     *)
(* gap, and a short one holds them all.                                    *)
LEMMA BeforeIs ==
  ASSUME Types, NEW p \in Nat
  PROVE  LET P == PageBefore(p) IN
         /\ P \in SUBSET Ids /\ P \subseteq Live
         /\ \A id \in P : p # 0 => id < p
         /\ \A id \in Live : (p = 0 \/ id < p) /\ (\E x \in P : x <= id) => id \in P
         /\ Cardinality(P) < PageSize => \A id \in Live : p = 0 \/ id < p => id \in P
         /\ P = {} => \A id \in Live : ~(p = 0 \/ id < p)
<1> DEFINE S == {id \in Live : p = 0 \/ id < p}
           P == PageBefore(p)
           Over(id) == {x \in S : x > id}
<1>1. S \in SUBSET Ids /\ Live \subseteq Ids
  BY DEF Types, Live, Ids
<1>2. P = {id \in S : Cardinality(Over(id)) < PageSize}
  BY DEF PageBefore
<1> HIDE DEF S, P
<1>3. P \in SUBSET S
  BY <1>2
<1>4. ASSUME NEW id \in S, NEW x \in P, x <= id PROVE id \in P
  <2>1. Over(id) \in SUBSET Over(x) /\ Over(x) \in SUBSET Ids
    <3>1. id \in Int /\ x \in Int /\ \A y \in S : y \in Int
      BY <1>1, <1>3 DEF Ids
    <3>2. \A y \in Over(id) : y \in Over(x)
      BY <1>4, <3>1
    <3> QED BY <1>1, <3>2
  <2>2. Cardinality(Over(id)) <= Cardinality(Over(x)) /\ Cardinality(Over(id)) \in Nat
        /\ Cardinality(Over(x)) \in Nat
    BY <2>1, Sizes
  <2> QED BY <1>2, <1>4, <2>2
<1>5. ASSUME Cardinality(P) < PageSize PROVE S \subseteq P
  <2> DEFINE D == S \ P
  <2>1. SUFFICES ASSUME D # {} PROVE FALSE
    OBVIOUS
  <2>2. High(D) \in D /\ \A y \in D : y <= High(D)
    BY <1>1, <2>1, HighIs
  <2>3. Over(High(D)) \in SUBSET P
    <3> DEFINE m == High(D)
    <3>1. m \in S
      BY <2>2
    <3>2. \A y \in S : y \in Int
      BY <1>1 DEF Ids
    <3>3. m \in Int /\ \A y \in S : y \in Int
      BY <3>1, <3>2
    <3>4. \A y \in Over(High(D)) : y \in S /\ y \notin D
      BY <2>2, <3>3
    <3> QED BY <3>4
  <2>4. Cardinality(Over(High(D))) <= Cardinality(P) /\ Cardinality(Over(High(D))) \in Nat
        /\ Cardinality(P) \in Nat
    BY <1>1, <1>3, <2>3, Sizes
  <2> QED BY <1>2, <1>5, <2>2, <2>4
<1>6. P = {} => Cardinality(P) < PageSize
  BY <1>1, <1>3, Sizes
<1>7. P \in SUBSET Ids /\ P \subseteq Live /\ \A id \in P : p # 0 => id < p
  BY <1>1, <1>3 DEF S
<1>8. \A id \in Live : (p = 0 \/ id < p) /\ (\E x \in P : x <= id) => id \in P
  BY <1>4 DEF S
<1>9. Cardinality(P) < PageSize => \A id \in Live : p = 0 \/ id < p => id \in P
  BY <1>5 DEF S
<1>10. P = {} => \A id \in Live : ~(p = 0 \/ id < p)
  BY <1>6, <1>9
<1> QED BY <1>7, <1>8, <1>9, <1>10 DEF P

(* A page after a position holds the oldest messages there, likewise.      *)
LEMMA AfterIs ==
  ASSUME Types, NEW p \in Nat
  PROVE  LET P == PageAfter(p) IN
         /\ P \in SUBSET Ids /\ P \subseteq Live
         /\ \A id \in P : id > p
         /\ \A id \in Live : id > p /\ (\E x \in P : id <= x) => id \in P
         /\ Cardinality(P) < PageSize => \A id \in Live : id > p => id \in P
         /\ P = {} => \A id \in Live : ~(id > p)
<1> DEFINE S == {id \in Live : id > p}
           P == PageAfter(p)
           Under(id) == {x \in S : x < id}
<1>1. S \in SUBSET Ids /\ Live \subseteq Ids
  BY DEF Types, Live, Ids
<1>2. P = {id \in S : Cardinality(Under(id)) < PageSize}
  BY DEF PageAfter
<1> HIDE DEF S, P
<1>3. P \in SUBSET S
  BY <1>2
<1>4. ASSUME NEW id \in S, NEW x \in P, id <= x PROVE id \in P
  <2>1. Under(id) \in SUBSET Under(x) /\ Under(x) \in SUBSET Ids
    <3>1. id \in Int /\ x \in Int /\ \A y \in S : y \in Int
      BY <1>1, <1>3 DEF Ids
    <3>2. \A y \in Under(id) : y \in Under(x)
      BY <1>4, <3>1
    <3> QED BY <1>1, <3>2
  <2>2. Cardinality(Under(id)) <= Cardinality(Under(x)) /\ Cardinality(Under(id)) \in Nat
        /\ Cardinality(Under(x)) \in Nat
    BY <2>1, Sizes
  <2> QED BY <1>2, <1>4, <2>2
<1>5. ASSUME Cardinality(P) < PageSize PROVE S \subseteq P
  <2> DEFINE D == S \ P
  <2>1. SUFFICES ASSUME D # {} PROVE FALSE
    OBVIOUS
  <2>2. Low(D) \in D /\ \A y \in D : Low(D) <= y
    BY <1>1, <2>1, LowIs
  <2>3. Under(Low(D)) \in SUBSET P
    <3> DEFINE m == Low(D)
    <3>1. m \in S
      BY <2>2
    <3>2. \A y \in S : y \in Int
      BY <1>1 DEF Ids
    <3>3. m \in Int /\ \A y \in S : y \in Int
      BY <3>1, <3>2
    <3>4. \A y \in Under(Low(D)) : y \in S /\ y \notin D
      BY <2>2, <3>3
    <3> QED BY <3>4
  <2>4. Cardinality(Under(Low(D))) <= Cardinality(P) /\ Cardinality(Under(Low(D))) \in Nat
        /\ Cardinality(P) \in Nat
    BY <1>1, <1>3, <2>3, Sizes
  <2> QED BY <1>2, <1>5, <2>2, <2>4
<1>6. P = {} => Cardinality(P) < PageSize
  BY <1>1, <1>3, Sizes
<1>7. P \in SUBSET Ids /\ P \subseteq Live /\ \A id \in P : id > p
  BY <1>1, <1>3 DEF S
<1>8. \A id \in Live : id > p /\ (\E x \in P : id <= x) => id \in P
  BY <1>4 DEF S
<1>9. Cardinality(P) < PageSize => \A id \in Live : id > p => id \in P
  BY <1>5 DEF S
<1>10. P = {} => \A id \in Live : ~(id > p)
  BY <1>6, <1>9
<1> QED BY <1>7, <1>8, <1>9, <1>10 DEF P

-----------------------------------------------------------------------------
(* What the steps make of a run.                                           *)

(* The fields that a step of a crawl leaves alone, and the page with what  *)
(* is judged by it.                                                        *)
Like(q, r) ==
  /\ q.kind = r.kind /\ q.since = r.since /\ q.latest = r.latest /\ q.cursor = r.cursor
  /\ q.complete = r.complete /\ q.floor = r.floor /\ q.until = r.until
SamePage(q, r) ==
  /\ q.page = r.page /\ Eligible(q) = Eligible(r)
  /\ (Short(q) <=> Short(r)) /\ (Cut(q) <=> Cut(r))

(* A change of stage leaves the rest of a run alone.                       *)
LEMMA GotoIs ==
  ASSUME NEW r \in AllRuns, NEW s \in Stages \cup {"idle"}
  PROVE  /\ Goto(r, s) \in AllRuns /\ Goto(r, s).stage = s
         /\ Like(Goto(r, s), r) /\ Goto(r, s).pos = r.pos /\ Goto(r, s).top = r.top
         /\ SamePage(Goto(r, s), r)
<1>1. /\ Goto(r, s) \in AllRuns /\ Goto(r, s).stage = s
      /\ Like(Goto(r, s), r) /\ Goto(r, s).pos = r.pos /\ Goto(r, s).top = r.top
      /\ Goto(r, s).page = r.page
  BY DEF AllRuns, Goto, Like
<1> QED BY <1>1 DEF Like, SamePage, Eligible, Short, Cut

(* The next page starts from its position with nothing in hand.            *)
LEMMA AgainIs ==
  ASSUME NEW r \in AllRuns, NEW s \in Stages, NEW p \in Nat
  PROVE  /\ Again(r, s, p) \in AllRuns /\ Again(r, s, p).stage = s
         /\ Like(Again(r, s, p), r) /\ Again(r, s, p).pos = p /\ Again(r, s, p).top = r.top
         /\ Again(r, s, p).page = {}
  BY DEF AllRuns, Again, Like

(* syncFullChannelHistory starts from the cursors it is given.             *)
LEMMA CrawlIs ==
  ASSUME NEW r \in AllRuns, NEW k \in Kinds, NEW from \in Nat, NEW cur \in Nat, NEW whole \in BOOLEAN
  PROVE  LET q == Crawl(r, k, from, cur, whole) IN
         /\ q \in AllRuns /\ q.kind = k /\ q.since = r.since /\ q.latest = from /\ q.cursor = cur
         /\ q.complete = whole /\ q.pos = (IF from = 0 THEN cur ELSE from)
         /\ q.floor = from /\ q.until = r.until
         /\ q.top = r.top
         /\ q.stage = IF from # 0 THEN "forward" ELSE IF whole THEN "final" ELSE "back"
  BY ZenonT(60) DEF AllRuns, Crawl, Stages

(* A routine run starts from the cursors it loaded.                        *)
LEMMA BeginIs ==
  ASSUME NEW r \in AllRuns, NEW k \in Kinds, NEW s \in Stages
  PROVE  LET q == Begin(r, k, s) IN
         /\ q \in AllRuns /\ q.kind = k /\ q.since = r.since /\ q.latest = r.latest
         /\ q.cursor = r.cursor /\ q.complete = r.complete /\ q.pos = r.latest
         /\ q.floor = r.latest /\ q.until = r.until /\ q.top = r.top /\ q.stage = s
  BY DEF AllRuns, Begin

(* What a run holds that has returned.                                     *)
LEMMA IdleIs ==
  /\ Idle \in AllRuns /\ Idle.stage = "idle" /\ Idle.kind = "none" /\ Idle.since = 0
  /\ Idle.latest = 0 /\ Idle.cursor = 0 /\ Idle.complete = FALSE /\ Idle.pos = 0
  /\ Idle.floor = 0 /\ Idle.top = 0 /\ Idle.until = 0 /\ Idle.page = {}
  BY DEF Idle, AllRuns

(* filterMessagesSince keeps what is not older than since; a cut page      *)
(* reaches below.                                                          *)
LEMMA EligibleIs ==
  ASSUME NEW r \in AllRuns
  PROVE  /\ Eligible(r) \in SUBSET r.page /\ Eligible(r) \in SUBSET Ids
         /\ \A id \in r.page : id \in Eligible(r) <=> id >= r.since
         /\ ~Cut(r) => Eligible(r) = r.page
         /\ Cut(r) => \E id \in r.page : id < r.since
<1>1. r.page \in SUBSET Ids /\ r.since \in Nat
  BY DEF AllRuns
<1>2. Eligible(r) \in SUBSET r.page /\ \A id \in r.page : id \in Eligible(r) <=> id >= r.since
  BY DEF Eligible
<1>3. Cut(r) => \E id \in r.page : id < r.since
  BY <1>1, <1>2 DEF Cut, Ids
<1> QED BY <1>1, <1>2, <1>3 DEF Cut

(* The types of the fields of a run.                                       *)
LEMMA Fields ==
  ASSUME NEW r \in AllRuns
  PROVE  /\ r.stage \in Stages \cup {"idle"} /\ r.kind \in Kinds \cup {"none"} /\ r.since \in Nat
         /\ r.latest \in Nat /\ r.cursor \in Nat /\ r.complete \in BOOLEAN /\ r.pos \in Nat
         /\ r.floor \in Nat /\ r.top \in Nat /\ r.page \in SUBSET Ids /\ r.until \in Nat
  BY DEF AllRuns

(* What a fetch puts into a run.                                           *)
LEMMA FetchedIs ==
  ASSUME Types
  PROVE  LET r == Fetched(run) IN
         /\ r \in AllRuns /\ r.stage = run.stage /\ Like(r, run) /\ r.pos = run.pos
         /\ r.page = PageBefore(run.pos)
         /\ r.top = Larger(run.top, High(Eligible(r)))
<1> DEFINE P == PageBefore(run.pos)
           E == {id \in P : id >= run.since}
           r == Fetched(run)
<1>1. run \in AllRuns /\ run.pos \in Nat /\ run.top \in Nat
  BY Fields DEF Types
<1>2. P \in SUBSET Ids
  BY <1>1, BeforeIs
<1>3. High(E) \in Nat
  BY <1>2, HighIs DEF Ids
<1>4. r = [run EXCEPT !.page = P, !.top = Larger(run.top, High(E))]
  BY DEF Fetched
<1> HIDE DEF P, E, r
<1>5. Larger(run.top, High(E)) \in Nat
  BY <1>1, <1>3 DEF Larger
<1>6. /\ r \in AllRuns /\ r.stage = run.stage /\ Like(r, run) /\ r.pos = run.pos
      /\ r.page = P /\ r.top = Larger(run.top, High(E))
  BY <1>1, <1>2, <1>4, <1>5 DEF AllRuns, Like
<1>7. Eligible(r) = E
  BY <1>6 DEF Eligible, Like, E
<1> QED BY <1>6, <1>7 DEF r, P

(* A page extends what is known from its position on down to its first     *)
(* message, and the last page to the beginning.                            *)
LEMMA PageCovers ==
  ASSUME Types, NEW r \in AllRuns, r = Fetched(run), rows' = rows \cup Eligible(r), gone' = gone,
         NEW b \in Nat, b <= posted,
         run.pos # 0 => \A id \in Ids : run.since <= id /\ run.pos <= id /\ id <= b => id \in Have
  PROVE  /\ r.page # {} =>
              \A id \in Ids : run.since <= id /\ Low(r.page) <= id /\ id <= b => id \in Have'
         /\ r.page = {} \/ Short(r) =>
              \A id \in Ids : run.since <= id /\ id <= b => id \in Have'
         /\ Eligible(r) # {} =>
              \A id \in Ids : Low(Eligible(r)) <= id /\ id <= b => id \in Have'
<1> DEFINE P == PageBefore(run.pos)
<1>1. run.pos \in Nat /\ run.since \in Nat /\ r.page = P /\ r.since = run.since
  BY Fields, FetchedIs DEF Types, Like
<1>2. /\ P \in SUBSET Ids /\ P \subseteq Live
      /\ \A id \in Live : (run.pos = 0 \/ id < run.pos) /\ (\E x \in P : x <= id) => id \in P
      /\ Short(r) => \A id \in Live : run.pos = 0 \/ id < run.pos => id \in P
      /\ P = {} => \A id \in Live : ~(run.pos = 0 \/ id < run.pos)
  BY <1>1, BeforeIs DEF Short
<1>3. \A id \in P : id >= run.since => id \in Have'
  BY <1>1, EligibleIs DEF Have
<1>4. \A id \in Ids : id <= b /\ id \notin Have => id \in Live
  BY DEF Live, Have, Ids, Types
<1>5. \A id \in Ids : id \in Have => id \in Have'
  BY DEF Have
<1> HIDE DEF P
<1>6. ASSUME P # {}, NEW id \in Ids, run.since <= id, Low(P) <= id, id <= b PROVE id \in Have'
  <2>1. Low(P) \in P
    BY <1>2, <1>6, LowIs
  <2>2. CASE run.pos = 0 \/ id < run.pos
    BY <1>2, <1>3, <1>4, <1>5, <1>6, <2>1, <2>2
  <2>3. CASE run.pos # 0 /\ run.pos <= id
    BY <1>5, <1>6, <2>3
  <2> QED BY <1>1, <2>2, <2>3 DEF Ids
<1>7. ASSUME P = {} \/ Short(r), NEW id \in Ids, run.since <= id, id <= b PROVE id \in Have'
  <2>2. CASE run.pos = 0 \/ id < run.pos
    BY <1>2, <1>3, <1>4, <1>5, <1>7, <2>2
  <2>3. CASE run.pos # 0 /\ run.pos <= id
    BY <1>5, <1>7, <2>3
  <2> QED BY <1>1, <2>2, <2>3 DEF Ids
<1>8. ASSUME Eligible(r) # {} PROVE P # {} /\ Low(P) <= Low(Eligible(r)) /\ run.since <= Low(Eligible(r))
                                    /\ Low(Eligible(r)) \in Ids /\ Low(P) \in Ids
  <2>1. Low(Eligible(r)) \in Eligible(r)
    BY <1>8, EligibleIs, LowIs
  <2>2. Low(Eligible(r)) \in P /\ Low(Eligible(r)) >= run.since
    BY <1>1, <2>1, EligibleIs
  <2>3. Low(P) \in P /\ Low(P) <= Low(Eligible(r))
    BY <1>2, <2>2, LowIs
  <2> QED BY <1>1, <1>2, <2>2, <2>3 DEF Ids
<1>9. ASSUME Eligible(r) # {}, NEW id \in Ids, Low(Eligible(r)) <= id, id <= b PROVE id \in Have'
  <2>1. run.since <= id /\ Low(P) <= id
    BY <1>1, <1>8, <1>9 DEF Ids
  <2> QED BY <1>6, <1>8, <1>9, <2>1
<1> QED BY <1>1, <1>6, <1>7, <1>9

(* The types of the fields of the current run.                             *)
LEMMA RunFields ==
  ASSUME Types
  PROVE  /\ run \in AllRuns
         /\ run.stage \in Stages \cup {"idle"} /\ run.kind \in Kinds \cup {"none"} /\ run.since \in Nat
         /\ run.latest \in Nat /\ run.cursor \in Nat /\ run.complete \in BOOLEAN /\ run.pos \in Nat
         /\ run.floor \in Nat /\ run.top \in Nat /\ run.page \in SUBSET Ids /\ run.until \in Nat
  BY Fields DEF Types

(* What is known of a finished page stays known while rows only grow.      *)
LEMMA PageDoneKept ==
  ASSUME PageDone, SamePage(run', run), run'.top = run.top, Crest' = Crest,
         rows \subseteq rows', gone \subseteq gone'
  PROVE  PageDone'
  BY DEF PageDone, SamePage, Cov, Have

(* What a fetched page is, whatever is made of it.                         *)
LEMMA PageFacts ==
  ASSUME IInv, NEW r, r = Fetched(run), rows' = rows \cup Eligible(r)
  PROVE  /\ r \in AllRuns /\ Like(r, run) /\ r.pos = run.pos /\ r.top \in Nat
         /\ r.page \in SUBSET Ids /\ Eligible(r) \in SUBSET Ids /\ Eligible(r) \subseteq r.page
         /\ r.page \subseteq Live /\ rows' \subseteq 1..posted /\ r.top \in rows' \cup {0}
         /\ run.top <= r.top /\ r.top \in {run.top, High(Eligible(r))}
         /\ Eligible(r) = {} => r.top = run.top /\ rows' = rows
         /\ Eligible(r) # {} => /\ r.top # 0 /\ Low(Eligible(r)) # 0 /\ Low(Eligible(r)) <= r.top
                                /\ High(Eligible(r)) \in Eligible(r) /\ r.page # {}
         /\ run.pos # 0 => \A id \in r.page : id < run.pos
         /\ ~Cut(r) => Eligible(r) = r.page
         /\ run.since = 0 => ~Cut(r)
         /\ r.page # {} /\ Eligible(r) = {} => Cut(r)
         /\ r.page # {} => Low(r.page) # 0 /\ Low(r.page) \in r.page
         /\ Low(Eligible(r)) \in Nat /\ Low(r.page) \in Nat /\ run.pos \in Nat /\ High(Eligible(r)) \in Nat
<1> DEFINE E == Eligible(r)
<1>1. /\ r \in AllRuns /\ Like(r, run) /\ r.pos = run.pos /\ r.page = PageBefore(run.pos)
      /\ r.top = Larger(run.top, High(E))
  BY FetchedIs DEF IInv
<1>2. E \in SUBSET r.page /\ E \in SUBSET Ids /\ (~Cut(r) => E = r.page)
      /\ (Cut(r) => \E id \in r.page : id < run.since) /\ (r.page # {} /\ E = {} => Cut(r))
  <2>1. /\ E \in SUBSET r.page /\ E \in SUBSET Ids /\ (~Cut(r) => E = r.page)
        /\ (Cut(r) => \E id \in r.page : id < r.since)
    BY <1>1, EligibleIs
  <2> QED BY <1>1, <2>1 DEF Like
<1>3. run.pos \in Nat /\ run.top \in Nat /\ run.since \in Nat
  BY RunFields DEF IInv
<1>4. r.page \in SUBSET Ids /\ r.page \subseteq Live /\ (run.pos # 0 => \A id \in r.page : id < run.pos)
  BY <1>1, <1>3, BeforeIs DEF IInv
<1>5. Low(E) \in Nat /\ High(E) \in Nat /\ Low(r.page) \in Nat /\ (E = {} => High(E) = 0)
      /\ (E # {} => Low(E) # 0 /\ High(E) # 0 /\ Low(E) <= High(E) /\ High(E) \in E)
      /\ (r.page # {} => Low(r.page) # 0 /\ Low(r.page) \in r.page)
  BY <1>2, <1>4, EndsAre, LowIs, HighIs
<1> HIDE DEF E
<1>6. /\ r.top \in Nat /\ run.top <= r.top /\ r.top \in {run.top, High(E)} /\ High(E) <= r.top
      /\ (E = {} => r.top = run.top)
  BY <1>1, <1>3, <1>5 DEF Larger
<1>7. rows' \subseteq 1..posted /\ (E = {} => rows' = rows)
  <2>1. E \subseteq 1..posted
    BY <1>2, <1>4 DEF Live
  <2> QED BY <2>1 DEF E, IInv, Types
<1>8. r.top \in rows' \cup {0}
  <2>1. run.top \in rows \cup {0}
    BY DEF IInv, InRows
  <2> QED BY <1>5, <1>6, <2>1 DEF E
<1>9. E # {} => r.top # 0 /\ Low(E) <= r.top /\ r.page # {}
  BY <1>2, <1>5, <1>6
<1>10. run.since = 0 => ~Cut(r)
  BY <1>2, <1>4 DEF Ids
<1> QED BY <1>1, <1>2, <1>3, <1>4, <1>5, <1>6, <1>7, <1>8, <1>9, <1>10 DEF E

(* With all from the position up to b known, a last page that is not cut   *)
(* leaves nothing below.                                                   *)
LEMMA LastPage ==
  ASSUME IInv, NEW r, r = Fetched(run), rows' = rows \cup Eligible(r), gone' = gone,
         NEW b \in Nat, b <= posted,
         run.pos # 0 => \A id \in Ids : run.pos <= id /\ id <= b => id \in Have
  PROVE  /\ r.page = {} \/ (Short(r) /\ ~Cut(r)) => \A id \in Ids : id <= b => id \in Have'
         /\ Eligible(r) # {} => \A id \in Ids : Low(Eligible(r)) <= id /\ id <= b => id \in Have'
<1>1. /\ r \in AllRuns /\ run.pos \in Nat /\ r.page = PageBefore(run.pos)
      /\ (~Cut(r) => Eligible(r) = r.page) /\ (r.page = {} => Eligible(r) = r.page)
  BY PageFacts, FetchedIs DEF IInv
<1>2. /\ Short(r) => \A id \in Live : run.pos = 0 \/ id < run.pos => id \in r.page
      /\ r.page = {} => \A id \in Live : ~(run.pos = 0 \/ id < run.pos)
  BY <1>1, BeforeIs DEF IInv, Short
<1>3. /\ \A id \in Ids : id <= b /\ id \notin Have => id \in Live
      /\ \A id \in Ids : id \in Have \/ id \in Eligible(r) => id \in Have'
  BY DEF Live, Have, Ids, IInv, Types
<1>4. ASSUME r.page = {} \/ (Short(r) /\ ~Cut(r)), NEW id \in Ids, id <= b PROVE id \in Have'
  <2>1. CASE run.pos = 0 \/ id < run.pos
    BY <1>1, <1>2, <1>3, <1>4, <2>1
  <2>2. CASE run.pos # 0 /\ run.pos <= id
    BY <1>3, <1>4, <2>2
  <2> QED BY <1>1, <2>1, <2>2 DEF Ids
<1>5. Eligible(r) # {} => \A id \in Ids : Low(Eligible(r)) <= id /\ id <= b => id \in Have'
  BY <1>1, PageCovers DEF IInv
<1> QED BY <1>4, <1>5

-----------------------------------------------------------------------------
(* Discord and the tail.                                                   *)

(* A new message is in no claim yet.                                       *)
LEMMA PostKeeps ==
  ASSUME IInv, Post PROVE IInv'
<1>1. posted' = posted + 1 /\ posted' \in 0..MaxPosts /\ gone' = gone
      /\ pend' \subseteq 1..posted' /\ UNCHANGED <<rows, latest, cursor, complete, ckpt, window, run, moving, loose>>
  BY DEF IInv, Types, Post, discordVars, cursorVars, verifyVars, tailVars
<1>10. Types' /\ StageInv' /\ InRows' /\ PagePos'
  BY <1>1 DEF IInv, Types, StageInv, InRows, PagePos, Like, SamePage, Larger, None, Kinds,
      Stages
<1>11. CheckpointInv' /\ VerifyInv'
  BY <1>1 DEF IInv, Types, StageInv, CheckpointInv, VerifyInv, PagePos, Reached, PageDone,
      Cov, Have, Crest, Larger, Like, SamePage, None
<1>12. WindowInv' /\ WindowIsWhole'
  BY <1>1, RunFields DEF IInv, Types, StageInv, WindowInv, WindowIsWhole, Cov, Have, Like,
      SamePage, Larger
<1>13. ZeroInv'
  BY <1>1 DEF IInv, Types, StageInv, ZeroInv, Larger, Like, SamePage
<1>14. NoHoleInv'
  BY <1>1 DEF IInv, Types, StageInv, NoHoleInv, SharedInv, ForwardInv, BackInv, BootInv,
      PagePos, PageDone, LowMark, Cov, Have, Crest, Larger, Like, SamePage, ZeroInv, InRows
<1> QED BY <1>10, <1>11, <1>12, <1>13, <1>14 DEF IInv

(* A deletion at Discord takes nothing from what is covered.               *)
LEMMA DeleteKeeps ==
  ASSUME IInv, Delete PROVE IInv'
<1>1. posted' = posted /\ gone \subseteq gone' /\ gone' \subseteq 1..posted /\ pend' = pend
      /\ UNCHANGED <<rows, latest, cursor, complete, ckpt, window, run, moving, loose>>
  BY DEF IInv, Types, Delete, discordVars, cursorVars, verifyVars, tailVars
<1>10. Types' /\ StageInv' /\ InRows' /\ PagePos'
  BY <1>1 DEF IInv, Types, StageInv, InRows, PagePos, Like, SamePage, Larger, None, Kinds,
      Stages
<1>11. CheckpointInv' /\ VerifyInv'
  BY <1>1 DEF IInv, Types, StageInv, CheckpointInv, VerifyInv, PagePos, Reached, PageDone,
      Cov, Have, Crest, Larger, Like, SamePage, None
<1>12. WindowInv' /\ WindowIsWhole'
  BY <1>1 DEF IInv, Types, StageInv, WindowInv, WindowIsWhole, Cov, Have, Like, SamePage,
      Larger
<1>13. ZeroInv'
  BY <1>1 DEF IInv, Types, StageInv, ZeroInv, Larger, Like, SamePage
<1>14. NoHoleInv'
  BY <1>1 DEF IInv, Types, StageInv, NoHoleInv, SharedInv, ForwardInv, BackInv, BootInv,
      PagePos, PageDone, LowMark, Cov, Have, Crest, Larger, Like, SamePage, ZeroInv, InRows
<1> QED BY <1>10, <1>11, <1>12, <1>13, <1>14 DEF IInv

(* A tail starts while no run is in progress.                              *)
LEMMA StartTailKeeps ==
  ASSUME IInv, NEW mode \in TailModes, StartTail(mode) PROVE IInv'
<1>1. pend' = pend /\ UNCHANGED <<posted, gone, rows, latest, cursor, complete, ckpt, window, run, moving, loose>>
  BY DEF StartTail, discordVars, cursorVars, verifyVars, tailVars
<1>10. Types' /\ StageInv' /\ InRows' /\ PagePos'
  BY <1>1 DEF IInv, Types, StageInv, InRows, PagePos, Like, SamePage, Larger, None, Kinds,
      Stages
<1>11. CheckpointInv' /\ VerifyInv'
  BY <1>1 DEF IInv, Types, StageInv, CheckpointInv, VerifyInv, PagePos, Reached, PageDone,
      Cov, Have, Crest, Larger, Like, SamePage, None
<1>12. WindowInv' /\ WindowIsWhole'
  BY <1>1 DEF IInv, Types, StageInv, WindowInv, WindowIsWhole, Cov, Have, Like, SamePage,
      Larger
<1>13. ZeroInv'
  BY <1>1 DEF IInv, Types, StageInv, ZeroInv, Larger, Like, SamePage
<1>14. NoHoleInv'
  BY <1>1 DEF IInv, Types, StageInv, NoHoleInv, SharedInv, ForwardInv, BackInv, BootInv,
      PagePos, PageDone, LowMark, Cov, Have, Crest, Larger, Like, SamePage, ZeroInv, InRows
<1> QED BY <1>10, <1>11, <1>12, <1>13, <1>14 DEF IInv

(* A tail stops with no cursor in flight.                                  *)
LEMMA StopTailKeeps ==
  ASSUME IInv, StopTail PROVE IInv'
<1>1. pend' \subseteq 1..posted /\ UNCHANGED <<posted, gone, rows, latest, cursor, complete, ckpt, window, run, moving, loose>>
  BY DEF StopTail, discordVars, cursorVars, verifyVars, tailVars
<1>10. Types' /\ StageInv' /\ InRows' /\ PagePos'
  BY <1>1 DEF IInv, Types, StageInv, InRows, PagePos, Like, SamePage, Larger, None, Kinds,
      Stages
<1>11. CheckpointInv' /\ VerifyInv'
  BY <1>1 DEF IInv, Types, StageInv, CheckpointInv, VerifyInv, PagePos, Reached, PageDone,
      Cov, Have, Crest, Larger, Like, SamePage, None
<1>12. WindowInv' /\ WindowIsWhole'
  BY <1>1 DEF IInv, Types, StageInv, WindowInv, WindowIsWhole, Cov, Have, Like, SamePage,
      Larger
<1>13. ZeroInv'
  BY <1>1 DEF IInv, Types, StageInv, ZeroInv, Larger, Like, SamePage
<1>14. NoHoleInv'
  BY <1>1 DEF IInv, Types, StageInv, NoHoleInv, SharedInv, ForwardInv, BackInv, BootInv,
      PagePos, PageDone, LowMark, Cov, Have, Crest, Larger, Like, SamePage, ZeroInv, InRows
<1> QED BY <1>10, <1>11, <1>12, <1>13, <1>14 DEF IInv

(* A live message is lost.                                                 *)
LEMMA LiveFailsKeeps ==
  ASSUME IInv, LiveFails PROVE IInv'
<1>1. pend' \subseteq 1..posted /\ UNCHANGED <<posted, gone, rows, latest, cursor, complete, ckpt, window, run, moving, loose>>
  BY DEF IInv, Types, LiveFails, discordVars, cursorVars, verifyVars, tailVars
<1>10. Types' /\ StageInv' /\ InRows' /\ PagePos'
  BY <1>1 DEF IInv, Types, StageInv, InRows, PagePos, Like, SamePage, Larger, None, Kinds,
      Stages
<1>11. CheckpointInv' /\ VerifyInv'
  BY <1>1 DEF IInv, Types, StageInv, CheckpointInv, VerifyInv, PagePos, Reached, PageDone,
      Cov, Have, Crest, Larger, Like, SamePage, None
<1>12. WindowInv' /\ WindowIsWhole'
  BY <1>1 DEF IInv, Types, StageInv, WindowInv, WindowIsWhole, Cov, Have, Like, SamePage,
      Larger
<1>13. ZeroInv'
  BY <1>1 DEF IInv, Types, StageInv, ZeroInv, Larger, Like, SamePage
<1>14. NoHoleInv'
  BY <1>1 DEF IInv, Types, StageInv, NoHoleInv, SharedInv, ForwardInv, BackInv, BootInv,
      PagePos, PageDone, LowMark, Cov, Have, Crest, Larger, Like, SamePage, ZeroInv, InRows
<1> QED BY <1>10, <1>11, <1>12, <1>13, <1>14 DEF IInv

(* A live row: the coverage is no longer accounted for.                    *)
LEMMA LiveWriteKeeps ==
  ASSUME IInv, LiveWrite PROVE IInv'
<1>1. /\ rows \subseteq rows' /\ rows' \subseteq 1..posted /\ pend' \subseteq 1..posted
      /\ moving' \in rows' \cup {0} /\ moving' \in Nat /\ loose' = TRUE
      /\ UNCHANGED <<posted, gone, latest, cursor, complete, ckpt, window, run>>
  <2> DEFINE m == Min(pend)
  <2>1. m \in pend
    <3>1. pend \in SUBSET Ids /\ pend # {}
      BY DEF IInv, Types, Ids, LiveWrite
    <3> QED BY <3>1, LowIs DEF Low
  <2>2. /\ rows' = rows \cup {m} /\ pend' = pend \ {m} /\ loose' = TRUE
        /\ moving' \in {m, 0}
        /\ UNCHANGED <<posted, gone, latest, cursor, complete, ckpt, window, run>>
    BY DEF LiveWrite, discordVars, cursorVars, verifyVars, tailVars
  <2> HIDE DEF m
  <2>3. m \in 1..posted /\ m \in Nat
    BY <2>1 DEF IInv, Types
  <2> QED BY <2>2, <2>3 DEF IInv, Types
<1>10. Types' /\ StageInv' /\ InRows' /\ PagePos'
  BY <1>1, ZenonT(60) DEF IInv, Types, StageInv, InRows, PagePos, Like, SamePage, Larger, None, Kinds,
      Stages
<1>11. CheckpointInv' /\ VerifyInv'
  BY <1>1 DEF IInv, Types, StageInv, CheckpointInv, VerifyInv, PagePos, Reached, PageDone,
      Cov, Have, Crest, Larger, Like, SamePage, None
<1>12. WindowInv' /\ WindowIsWhole'
  BY <1>1 DEF IInv, Types, StageInv, WindowInv, WindowIsWhole, Cov, Have, Like, SamePage,
      Larger
<1>13. ZeroInv'
  BY <1>1 DEF IInv, Types, StageInv, ZeroInv, Larger, Like, SamePage
<1>14. NoHoleInv'
  BY <1>1 DEF IInv, Types, StageInv, NoHoleInv, SharedInv, ForwardInv, BackInv, BootInv,
      PagePos, PageDone, LowMark, Cov, Have, Crest, Larger, Like, SamePage, ZeroInv, InRows
<1> QED BY <1>10, <1>11, <1>12, <1>13, <1>14 DEF IInv

(* The live handler moves latest_message_id.                               *)
LEMMA LiveAdvanceKeeps ==
  ASSUME IInv, LiveAdvance PROVE IInv'
<1>1. /\ latest' = Larger(latest, moving) /\ moving # 0 /\ moving' = 0
      /\ UNCHANGED <<posted, gone, rows, cursor, complete, ckpt, window, run, pend, loose>>
  BY DEF LiveAdvance, discordVars, cursorVars, verifyVars, tailVars
<1>10. Types' /\ StageInv' /\ InRows' /\ PagePos'
  BY <1>1 DEF IInv, Types, StageInv, InRows, PagePos, Like, SamePage, Larger, None, Kinds,
      Stages
<1>11. CheckpointInv' /\ VerifyInv'
  BY <1>1 DEF IInv, Types, StageInv, CheckpointInv, VerifyInv, PagePos, Reached, PageDone,
      Cov, Have, Crest, Larger, Like, SamePage, None, ZeroInv
<1>12. WindowInv' /\ WindowIsWhole'
  BY <1>1 DEF IInv, Types, StageInv, WindowInv, WindowIsWhole, Cov, Have, Like, SamePage,
      Larger
<1>13. ZeroInv'
  BY <1>1 DEF IInv, Types, StageInv, ZeroInv, Larger, Like, SamePage
<1>14. NoHoleInv'
  BY <1>1 DEF IInv, ZeroInv, NoHoleInv
<1> QED BY <1>10, <1>11, <1>12, <1>13, <1>14 DEF IInv

-----------------------------------------------------------------------------
(* The beginning and the end of a run.                                     *)

(* A run starts.                                                           *)
LEMMA StartKeeps ==
  ASSUME IInv, NEW mode \in Modes, NEW since \in Sinces, Start(mode, since) PROVE IInv'
<1>1. /\ run' \in AllRuns /\ run'.stage = "load" /\ run'.kind = "none" /\ run'.since = since
      /\ run'.latest = 0 /\ run'.floor = 0 /\ run'.top = 0
      /\ UNCHANGED <<posted, gone, rows, latest, cursor, complete, ckpt, window, pend, moving, loose>>
  <2>1. mode \in {"full", "latest", "incremental"} /\ since \in Nat /\ posted \in Nat
    BY DEF IInv, Types
  <2> QED BY <2>1, IdleIs DEF Start, AllRuns, Stages, discordVars, cursorVars, verifyVars,
      tailVars
<1>10. Types' /\ StageInv' /\ InRows' /\ PagePos'
  BY <1>1 DEF IInv, Types, StageInv, InRows, PagePos, Like, SamePage, Larger, None, Kinds,
      Stages
<1>11. CheckpointInv' /\ VerifyInv'
  BY <1>1 DEF IInv, Types, StageInv, CheckpointInv, VerifyInv, PagePos, Reached, PageDone,
      Cov, Have, Crest, Larger, Like, SamePage, None
<1>12. WindowInv' /\ WindowIsWhole'
  BY <1>1 DEF IInv, Types, StageInv, WindowInv, WindowIsWhole, Cov, Have, Like, SamePage,
      Larger
<1>13. ZeroInv'
  BY <1>1 DEF IInv, Types, StageInv, ZeroInv, Larger, Like, SamePage, Start, Idle
<1>14. NoHoleInv'
  BY <1>1 DEF IInv, Types, StageInv, NoHoleInv, SharedInv, ForwardInv, BackInv, BootInv,
      PagePos, PageDone, LowMark, Cov, Have, Crest, Larger, Like, SamePage, ZeroInv, InRows
<1> QED BY <1>10, <1>11, <1>12, <1>13, <1>14 DEF IInv

(* loadChannelSyncState reads the cursors.                                 *)
LEMMA LoadKeeps ==
  ASSUME IInv, Load PROVE IInv'
<1>1. /\ run.stage = "load" /\ run' \in AllRuns /\ run'.stage = "route" /\ run'.kind = run.kind
      /\ run'.since = run.since /\ run'.latest = latest /\ run'.cursor = cursor
      /\ run'.complete = complete /\ run'.floor = run.floor /\ run'.top = run.top
      /\ UNCHANGED <<posted, gone, rows, latest, cursor, complete, ckpt, window, pend, moving, loose>>
  <2>1. NeedsVerification \in BOOLEAN
    BY DEF NeedsVerification
  <2> HIDE DEF NeedsVerification
  <2> QED BY <2>1 DEF IInv, Types, Load, At, AllRuns, Stages, discordVars, cursorVars,
      verifyVars, tailVars
<1>10. Types' /\ StageInv' /\ InRows' /\ PagePos'
  BY <1>1 DEF IInv, Types, StageInv, InRows, PagePos, Like, SamePage, Larger, None, Kinds,
      Stages
<1>11. CheckpointInv' /\ VerifyInv'
  BY <1>1 DEF IInv, Types, StageInv, CheckpointInv, VerifyInv, PagePos, Reached, PageDone,
      Cov, Have, Crest, Larger, Like, SamePage, None
<1>12. WindowInv' /\ WindowIsWhole'
  BY <1>1 DEF IInv, Types, StageInv, WindowInv, WindowIsWhole, Cov, Have, Like, SamePage,
      Larger
<1>13. ZeroInv'
  BY <1>1 DEF IInv, Types, StageInv, ZeroInv, Larger, Like, SamePage
<1>14. NoHoleInv'
  BY <1>1 DEF IInv, Types, StageInv, NoHoleInv, SharedInv, ForwardInv, BackInv, BootInv,
      PagePos, PageDone, LowMark, Cov, Have, Crest, Larger, Like, SamePage, ZeroInv, InRows
<1> QED BY <1>10, <1>11, <1>12, <1>13, <1>14 DEF IInv

(* --full --since starts a window.                                         *)
LEMMA RouteWindowKeeps ==
  ASSUME IInv, RouteWindow PROVE IInv'
<1>1. /\ run.stage = "route" /\ run.since # 0 /\ run' \in AllRuns /\ run'.stage = "back"
      /\ run'.kind = "window" /\ run'.since = run.since /\ run'.latest = 0
      /\ run'.floor = run.latest /\ run'.top = 0 /\ run'.until = posted /\ run'.pos = 0
      /\ UNCHANGED <<posted, gone, rows, latest, cursor, complete, ckpt, window, pend, moving, loose>>
  <2>1. run.since \in Nat /\ run.latest \in Nat /\ posted \in Nat
    BY RunFields DEF IInv, Types
  <2> QED BY <2>1, IdleIs DEF RouteWindow, IsWindow, At, AllRuns, Stages, Kinds,
      discordVars, cursorVars, verifyVars, tailVars
<1>10. Types' /\ StageInv' /\ InRows' /\ PagePos'
  BY <1>1 DEF IInv, Types, StageInv, InRows, PagePos, Like, SamePage, Larger, None, Kinds,
      Stages
<1>11. CheckpointInv' /\ VerifyInv'
  BY <1>1 DEF IInv, Types, StageInv, CheckpointInv, VerifyInv, PagePos, Reached, PageDone,
      Cov, Have, Crest, Larger, Like, SamePage, None
<1>12. WindowInv' /\ WindowIsWhole'
  BY <1>1 DEF IInv, Types, StageInv, WindowInv, WindowIsWhole, Cov, Have, Like, SamePage,
      Larger
<1>13. ZeroInv'
  BY <1>1 DEF IInv, Types, StageInv, ZeroInv, Larger, Like, SamePage
<1>14. NoHoleInv'
  BY <1>1 DEF IInv, Types, StageInv, NoHoleInv, SharedInv, ForwardInv, BackInv, BootInv,
      PagePos, PageDone, LowMark, Cov, Have, Crest, Larger, Like, SamePage, ZeroInv, InRows
<1> QED BY <1>10, <1>11, <1>12, <1>13, <1>14 DEF IInv

(* A verification is due.                                                  *)
LEMMA RouteVerifyKeeps ==
  ASSUME IInv, RouteVerify PROVE IInv'
<1>1. /\ run.stage = "route" /\ run' \in AllRuns /\ run'.stage = "intent"
      /\ run'.kind = "verify" /\ run'.since = 0 /\ run'.latest = 0 /\ run'.complete = FALSE
      /\ run'.floor = 0 /\ run'.top = 0
      /\ UNCHANGED <<posted, gone, rows, latest, cursor, complete, ckpt, window, pend, moving, loose>>
  BY DEF IInv, Types, RouteVerify, At, AllRuns, Idle, Stages, Kinds, discordVars,
      cursorVars, verifyVars, tailVars
<1>10. Types' /\ StageInv' /\ InRows' /\ PagePos'
  BY <1>1 DEF IInv, Types, StageInv, InRows, PagePos, Like, SamePage, Larger, None, Kinds,
      Stages
<1>11. CheckpointInv' /\ VerifyInv'
  BY <1>1 DEF IInv, Types, StageInv, CheckpointInv, VerifyInv, PagePos, Reached, PageDone,
      Cov, Have, Crest, Larger, Like, SamePage, None
<1>12. WindowInv' /\ WindowIsWhole'
  BY <1>1 DEF IInv, Types, StageInv, WindowInv, WindowIsWhole, Cov, Have, Like, SamePage,
      Larger
<1>13. ZeroInv'
  BY <1>1 DEF IInv, Types, StageInv, ZeroInv, Larger, Like, SamePage
<1>14. NoHoleInv'
  BY <1>1 DEF IInv, Types, StageInv, NoHoleInv, SharedInv, ForwardInv, BackInv, BootInv,
      PagePos, PageDone, LowMark, Cov, Have, Crest, Larger, Like, SamePage, ZeroInv, InRows
<1> QED BY <1>10, <1>11, <1>12, <1>13, <1>14 DEF IInv

(* The intent becomes durable.                                             *)
LEMMA SaveIntentKeeps ==
  ASSUME IInv, SaveIntent PROVE IInv'
<1>1. /\ run.stage = "intent" /\ run' \in AllRuns /\ run'.stage = "clear"
      /\ Like(run', run) /\ run'.top = run.top
      /\ \/ ckpt = None /\ ckpt' = [latest |-> 0, before |-> 0]
         \/ ckpt # None /\ ckpt' = ckpt
      /\ UNCHANGED <<posted, gone, rows, latest, cursor, complete, window, pend, moving, loose>>
  BY GotoIs, RunFields DEF IInv, SaveIntent, At, Stages, discordVars, cursorVars,
      verifyVars, tailVars
<1>10. Types' /\ StageInv' /\ InRows' /\ PagePos'
  BY <1>1 DEF IInv, Types, StageInv, InRows, PagePos, Like, SamePage, Larger, None, Kinds,
      Stages
<1>11. CheckpointInv' /\ VerifyInv'
  BY <1>1 DEF IInv, Types, StageInv, CheckpointInv, VerifyInv, PagePos, Reached, PageDone,
      Cov, Have, Crest, Larger, Like, SamePage, None
<1>12. WindowInv' /\ WindowIsWhole'
  BY <1>1 DEF IInv, Types, StageInv, WindowInv, WindowIsWhole, Cov, Have, Like, SamePage,
      Larger
<1>13. ZeroInv'
  BY <1>1 DEF IInv, Types, StageInv, ZeroInv, Larger, Like, SamePage
<1>14. NoHoleInv'
  BY <1>1 DEF IInv, Types, StageInv, NoHoleInv, SharedInv, ForwardInv, BackInv, BootInv,
      PagePos, PageDone, LowMark, Cov, Have, Crest, Larger, Like, SamePage, ZeroInv, InRows
<1> QED BY <1>10, <1>11, <1>12, <1>13, <1>14 DEF IInv

(* verified_empty is recorded.                                             *)
LEMMA RecordOutcomeKeeps ==
  ASSUME IInv, RecordOutcome PROVE IInv'
<1>1. /\ run.stage = "mark" /\ run' \in AllRuns /\ run'.stage = "unmark"
      /\ Like(run', run) /\ run'.top = run.top
      /\ UNCHANGED <<posted, gone, rows, latest, cursor, complete, ckpt, window, pend, moving, loose>>
  BY GotoIs, RunFields DEF IInv, RecordOutcome, At, Stages, discordVars, cursorVars,
      verifyVars, tailVars
<1>10. Types' /\ StageInv' /\ InRows' /\ PagePos'
  BY <1>1 DEF IInv, Types, StageInv, InRows, PagePos, Like, SamePage, Larger, None, Kinds,
      Stages
<1>11. CheckpointInv' /\ VerifyInv'
  BY <1>1 DEF IInv, Types, StageInv, CheckpointInv, VerifyInv, PagePos, Reached, PageDone,
      Cov, Have, Crest, Larger, Like, SamePage, None
<1>12. WindowInv' /\ WindowIsWhole'
  BY <1>1 DEF IInv, Types, StageInv, WindowInv, WindowIsWhole, Cov, Have, Like, SamePage,
      Larger
<1>13. ZeroInv'
  BY <1>1 DEF IInv, Types, StageInv, ZeroInv, Larger, Like, SamePage
<1>14. NoHoleInv'
  BY <1>1 DEF IInv, Types, StageInv, NoHoleInv, SharedInv, ForwardInv, BackInv, BootInv,
      PagePos, PageDone, LowMark, Cov, Have, Crest, Larger, Like, SamePage, ZeroInv, InRows
<1> QED BY <1>10, <1>11, <1>12, <1>13, <1>14 DEF IInv

(* The checkpoint is deleted at the end.                                   *)
LEMMA DropCheckpointKeeps ==
  ASSUME IInv, DropCheckpoint PROVE IInv'
<1>1. /\ run.stage = "unmark" /\ run' = Idle /\ ckpt' = None
      /\ UNCHANGED <<posted, gone, rows, latest, cursor, complete, window, pend, moving, loose>>
  BY DEF DropCheckpoint, At, Done, discordVars, cursorVars, verifyVars, tailVars
<1>10. Types' /\ StageInv' /\ InRows' /\ PagePos'
  BY <1>1, IdleIs, RunFields DEF IInv, Types, StageInv, InRows, PagePos, Like, SamePage,
      Larger, None, Kinds, Stages
<1>11. CheckpointInv' /\ VerifyInv'
  BY <1>1, IdleIs, RunFields DEF IInv, Types, StageInv, CheckpointInv, VerifyInv, PagePos,
      Reached, PageDone, Cov, Have, Crest, Larger, Like, SamePage, None
<1>12. WindowInv' /\ WindowIsWhole'
  BY <1>1, IdleIs, RunFields DEF IInv, Types, StageInv, WindowInv, WindowIsWhole, Cov,
      Have, Like, SamePage, Larger
<1>13. ZeroInv'
  BY <1>1, IdleIs, RunFields DEF IInv, Types, StageInv, ZeroInv, Larger, Like, SamePage,
      None
<1>14. NoHoleInv'
  <2>1. complete /\ Cov(1, Crest) /\ (~loose => Cov(Crest + 1, latest))
    BY <1>1, RunFields DEF IInv, StageInv, VerifyInv, Reached, Kinds
  <2>2. Crest \in Nat
    BY RunFields DEF IInv, Crest, Larger
  <2>3. ~loose => \A id \in Ids : id <= latest => id \in Have
    BY <2>1, <2>2 DEF Cov, Ids, IInv, Types
  <2>4. ~loose => SharedInv'
    BY <1>1, <2>1, <2>3 DEF SharedInv, Cov, Have
  <2> QED BY <1>1, <2>4, IdleIs DEF NoHoleInv, ForwardInv, BackInv, BootInv
<1> QED BY <1>10, <1>11, <1>12, <1>13, <1>14 DEF IInv

(* The window is recorded.                                                 *)
LEMMA CertifyKeeps ==
  ASSUME IInv, Certify PROVE IInv'
<1>1. /\ run.stage = "certify" /\ run' = Idle
      /\ window' = [window EXCEPT ![run.since] = Larger(window[run.since], run.until)]
      /\ UNCHANGED <<posted, gone, rows, latest, cursor, complete, ckpt, pend, moving, loose>>
  BY DEF Certify, At, Done, discordVars, cursorVars, verifyVars, tailVars
<1>10. Types' /\ StageInv' /\ InRows' /\ PagePos'
  BY <1>1, IdleIs, RunFields DEF IInv, Types, StageInv, InRows, PagePos, Like, SamePage,
      Larger, None, Kinds, Stages, WindowInv
<1>11. CheckpointInv' /\ VerifyInv'
  BY <1>1, IdleIs, RunFields DEF IInv, Types, StageInv, CheckpointInv, VerifyInv, PagePos,
      Reached, PageDone, Cov, Have, Crest, Larger, Like, SamePage, None
<1>12. WindowInv' /\ WindowIsWhole'
  <2>1. run.since \in Sinces \ {0} /\ Cov(run.since, run.until)
    BY <1>1, RunFields DEF IInv, StageInv, WindowInv, Kinds
  <2>2. /\ DOMAIN window' = Sinces \ {0} /\ DOMAIN window = Sinces \ {0}
        /\ \A s \in Sinces \ {0} : window'[s] \in {window[s], run.until} /\ (window'[s] = window[s] \/ s = run.since)
    BY <1>1, <2>1 DEF IInv, Types, Larger
  <2>3. WindowInv'
    BY <1>1, IdleIs DEF WindowInv
  <2>4. ASSUME NEW s \in Sinces \ {0}, NEW id \in Ids, s <= id, id <= window'[s] PROVE id \in Have
    BY <2>1, <2>2, <2>4 DEF IInv, WindowIsWhole, Cov
  <2> QED BY <1>1, <2>2, <2>3, <2>4 DEF WindowIsWhole, Have
<1>13. ZeroInv'
  BY <1>1, IdleIs, RunFields DEF IInv, Types, StageInv, ZeroInv, Larger, Like, SamePage,
      WindowInv, Kinds
<1>14. NoHoleInv'
  BY <1>1, IdleIs, RunFields DEF IInv, Types, StageInv, NoHoleInv, SharedInv, ForwardInv,
      BackInv, BootInv, PagePos, PageDone, LowMark, Cov, Have, Crest, Larger, Like,
      SamePage, ZeroInv, InRows
<1> QED BY <1>10, <1>11, <1>12, <1>13, <1>14 DEF IInv

(* history_complete comes back after a failed verification of an empty     *)
(* channel.                                                                *)
LEMMA RestoreKeeps ==
  ASSUME IInv, Restore PROVE IInv'
<1>1. /\ run.stage = "restore" /\ run' = Idle /\ complete' = (complete \/ rows = {})
      /\ UNCHANGED <<posted, gone, rows, latest, cursor, ckpt, window, pend, moving, loose>>
  BY DEF Restore, At, Done, discordVars, cursorVars, verifyVars, tailVars
<1>10. Types' /\ StageInv' /\ InRows' /\ PagePos'
  BY <1>1, IdleIs, RunFields DEF IInv, Types, StageInv, InRows, PagePos, Like, SamePage,
      Larger, None, Kinds, Stages
<1>11. CheckpointInv' /\ VerifyInv'
  BY <1>1, IdleIs, RunFields DEF IInv, Types, StageInv, CheckpointInv, VerifyInv, PagePos,
      Reached, PageDone, Cov, Have, Crest, Larger, Like, SamePage, None
<1>12. WindowInv' /\ WindowIsWhole'
  BY <1>1, IdleIs, RunFields DEF IInv, Types, StageInv, WindowInv, WindowIsWhole, Cov,
      Have, Like, SamePage, Larger
<1>13. ZeroInv'
  BY <1>1, IdleIs, RunFields DEF IInv, Types, StageInv, ZeroInv, Larger, Like, SamePage
<1>14. NoHoleInv'
  BY <1>1, IdleIs, RunFields DEF IInv, Types, StageInv, NoHoleInv, SharedInv, ForwardInv,
      BackInv, BootInv, PagePos, PageDone, LowMark, Cov, Have, Crest, Larger, Like,
      SamePage, ZeroInv, InRows, VerifyInv, Kinds
<1> QED BY <1>10, <1>11, <1>12, <1>13, <1>14 DEF IInv

(* The process dies.                                                       *)
LEMMA CrashKeeps ==
  ASSUME IInv, Crash PROVE IInv'
<1>1. /\ run' = Idle /\ pend' = {} /\ moving' = 0 /\ loose' = (loose \/ Unaccounted(run))
      /\ UNCHANGED <<posted, gone, rows, latest, cursor, complete, ckpt, window>>
  BY DEF Crash, discordVars, cursorVars, verifyVars, tailVars
<1>10. Types' /\ StageInv' /\ InRows' /\ PagePos'
  BY <1>1, IdleIs, RunFields DEF IInv, Types, StageInv, InRows, PagePos, Like, SamePage,
      Larger, None, Kinds, Stages, Unaccounted
<1>11. CheckpointInv' /\ VerifyInv'
  BY <1>1, IdleIs, RunFields DEF IInv, Types, StageInv, CheckpointInv, VerifyInv, PagePos,
      Reached, PageDone, Cov, Have, Crest, Larger, Like, SamePage, None
<1>12. WindowInv' /\ WindowIsWhole'
  BY <1>1, IdleIs, RunFields DEF IInv, Types, StageInv, WindowInv, WindowIsWhole, Cov,
      Have, Like, SamePage, Larger
<1>13. ZeroInv'
  BY <1>1, IdleIs, RunFields DEF IInv, Types, StageInv, ZeroInv, Larger, Like, SamePage,
      Unaccounted
<1>14. NoHoleInv'
  BY <1>1, IdleIs, RunFields DEF IInv, Types, StageInv, NoHoleInv, SharedInv, ForwardInv,
      BackInv, BootInv, PagePos, PageDone, LowMark, Cov, Have, Crest, Larger, Like,
      SamePage, ZeroInv, InRows, Unaccounted
<1> QED BY <1>10, <1>11, <1>12, <1>13, <1>14 DEF IInv

(* A run returns an error.                                                 *)
LEMMA RunFailsKeeps ==
  ASSUME IInv, RunFails PROVE IInv'
<1>1. CASE Crawling
  <2>1. /\ run.kind = "verify" /\ run.stage # "intent" /\ run' \in AllRuns /\ run'.stage = "restore"
        /\ Like(run', run) /\ run'.top = run.top /\ loose' = (loose \/ Unaccounted(run))
        /\ UNCHANGED <<posted, gone, rows, latest, cursor, complete, ckpt, window, pend, moving>>
    BY <1>1, GotoIs, RunFields DEF IInv, RunFails, Crawling, Stages, discordVars,
        cursorVars, verifyVars, tailVars
  <2>10. Types' /\ StageInv' /\ InRows' /\ PagePos'
    BY <2>1, <1>1, RunFields DEF IInv, Types, StageInv, InRows, PagePos, Like, SamePage,
        Larger, None, Kinds, Stages, Unaccounted
  <2>11. CheckpointInv' /\ VerifyInv'
    BY <2>1, <1>1, RunFields DEF IInv, Types, StageInv, CheckpointInv, VerifyInv, PagePos,
        Reached, PageDone, Cov, Have, Crest, Larger, Like, SamePage, None
  <2>12. WindowInv' /\ WindowIsWhole'
    BY <2>1, <1>1, RunFields DEF IInv, Types, StageInv, WindowInv, WindowIsWhole, Cov,
        Have, Like, SamePage, Larger
  <2>13. ZeroInv'
    BY <2>1, <1>1, RunFields DEF IInv, Types, StageInv, ZeroInv, Larger, Like, SamePage,
        Unaccounted
  <2>14. NoHoleInv'
    BY <2>1, <1>1, RunFields DEF IInv, Types, StageInv, NoHoleInv, SharedInv, ForwardInv,
        BackInv, BootInv, PagePos, PageDone, LowMark, Cov, Have, Crest, Larger, Like,
        SamePage, ZeroInv, InRows, Unaccounted
  <2> QED BY <2>10, <2>11, <2>12, <2>13, <2>14 DEF IInv
<1>2. CASE ~Crawling
  <2>1. /\ run' = Idle /\ loose' = (loose \/ Unaccounted(run))
        /\ UNCHANGED <<posted, gone, rows, latest, cursor, complete, ckpt, window, pend, moving>>
    BY <1>2 DEF RunFails, Done, discordVars, cursorVars, verifyVars, tailVars
  <2>10. Types' /\ StageInv' /\ InRows' /\ PagePos'
    BY <2>1, <1>2, IdleIs, RunFields DEF IInv, Types, StageInv, InRows, PagePos, Like,
        SamePage, Larger, None, Kinds, Stages, Unaccounted
  <2>11. CheckpointInv' /\ VerifyInv'
    BY <2>1, <1>2, IdleIs, RunFields DEF IInv, Types, StageInv, CheckpointInv, VerifyInv,
        PagePos, Reached, PageDone, Cov, Have, Crest, Larger, Like, SamePage, None
  <2>12. WindowInv' /\ WindowIsWhole'
    BY <2>1, <1>2, IdleIs, RunFields DEF IInv, Types, StageInv, WindowInv, WindowIsWhole,
        Cov, Have, Like, SamePage, Larger
  <2>13. ZeroInv'
    BY <2>1, <1>2, IdleIs, RunFields DEF IInv, Types, StageInv, ZeroInv, Larger, Like,
        SamePage, Unaccounted
  <2>14. NoHoleInv'
    BY <2>1, <1>2, IdleIs, RunFields DEF IInv, Types, StageInv, NoHoleInv, SharedInv,
        ForwardInv, BackInv, BootInv, PagePos, PageDone, LowMark, Cov, Have, Crest, Larger,
        Like, SamePage, ZeroInv, InRows, Unaccounted
  <2> QED BY <2>10, <2>11, <2>12, <2>13, <2>14 DEF IInv
<1> QED BY <1>1, <1>2

-----------------------------------------------------------------------------
(* The routes of a run.                                                    *)

(* A full run takes missing cursors from the rows.                         *)
LEMMA RouteFullKeeps ==
  ASSUME IInv, RouteFull PROVE IInv'
<1> DEFINE from  == IF run.latest = 0 THEN High(rows) ELSE run.latest
           cur   == IF run.cursor = 0 THEN Low(rows) ELSE run.cursor
           whole == run.complete \/ (run.latest # 0 /\ cur = 0)
<1>1. rows \in SUBSET Ids
  BY DEF IInv, Types, Ids
<1>2. /\ from \in Nat /\ cur \in Nat /\ whole \in BOOLEAN /\ from \in rows \cup {0}
  BY <1>1, EndsAre, RunFields DEF IInv, InRows
<1>3. /\ run.stage = "route" /\ complete' = (complete \/ whole)
      /\ run' = IF Skips(run, from, whole) THEN Idle ELSE Crawl(run, "full", from, cur, whole)
      /\ UNCHANGED <<posted, gone, rows, latest, cursor, ckpt, window, pend, moving, loose>>
  BY DEF RouteFull, At, Done, discordVars, cursorVars, verifyVars, tailVars
<1>4. ~loose => from = latest /\ cur = LowMark /\ (whole <=> complete)
  <2>1. ~loose => run.latest = latest /\ run.cursor = cursor /\ run.complete = complete
                  /\ (latest = 0 => rows = {} /\ cursor = 0)
    BY <1>3 DEF IInv, ZeroInv, StageInv
  <2>2. rows # {} => Low(rows) # 0
    BY <1>1, EndsAre
  <2>3. rows = {} => High(rows) = 0
    BY <1>1, HighIs
  <2>4. latest # 0 => rows # {}
    BY DEF IInv, InRows
  <2> QED BY <2>1, <2>2, <2>3, <2>4 DEF LowMark, IInv, Types
<1>40. ~loose /\ from = 0 => cur = 0 /\ rows = {} /\ cursor = 0
  <2>1. ~loose /\ from = 0 => latest = 0 /\ run.top = 0
    BY <1>3, <1>4 DEF IInv, StageInv
  <2>2. ~loose /\ from = 0 => rows = {} /\ cursor = 0
    BY <2>1 DEF IInv, ZeroInv
  <2>3. rows = {} => Low(rows) = 0
    BY DEF Low
  <2> QED BY <1>4, <2>2, <2>3 DEF LowMark
<1> HIDE DEF from, cur, whole
<1>5. CASE Skips(run, from, whole)
  <2>1. /\ run' = Idle /\ (~loose => complete' = complete) /\ complete' \in BOOLEAN
        /\ UNCHANGED <<posted, gone, rows, latest, cursor, ckpt, window, pend, moving, loose>>
    BY <1>2, <1>3, <1>4, <1>5 DEF IInv, Types
  <2>10. Types' /\ StageInv' /\ InRows' /\ PagePos'
    BY <2>1, <1>5, <1>3, IdleIs DEF IInv, Types, StageInv, InRows, PagePos, Like, SamePage,
        Larger, None, Kinds, Stages
  <2>11. CheckpointInv' /\ VerifyInv'
    BY <2>1, <1>5, <1>3, IdleIs, <1>3 DEF IInv, Types, StageInv, CheckpointInv, VerifyInv,
        PagePos, Reached, PageDone, Cov, Have, Crest, Larger, Like, SamePage, None, Kinds
  <2>12. WindowInv' /\ WindowIsWhole'
    BY <2>1, <1>5, <1>3, IdleIs DEF IInv, Types, StageInv, WindowInv, WindowIsWhole, Cov,
        Have, Like, SamePage, Larger
  <2>13. ZeroInv'
    BY <2>1, <1>5, <1>3, IdleIs DEF IInv, Types, StageInv, ZeroInv, Larger, Like, SamePage
  <2>14. NoHoleInv'
    BY <2>1, <1>5, <1>3, IdleIs DEF IInv, Types, StageInv, NoHoleInv, SharedInv,
        ForwardInv, BackInv, BootInv, PagePos, PageDone, LowMark, Cov, Have, Crest, Larger,
        Like, SamePage, ZeroInv, InRows
  <2> QED BY <2>10, <2>11, <2>12, <2>13, <2>14 DEF IInv
<1>6. CASE ~Skips(run, from, whole)
  <2>1. /\ run' \in AllRuns /\ run'.kind = "full" /\ run'.since = run.since /\ run'.latest = from
        /\ run'.cursor = cur /\ run'.complete = whole /\ run'.floor = from
        /\ run'.pos = (IF from = 0 THEN cur ELSE from)
        /\ run'.top = run.top
        /\ run'.stage = IF from # 0 THEN "forward" ELSE IF whole THEN "final" ELSE "back"
        /\ (~loose => complete' = complete) /\ complete' \in BOOLEAN
        /\ UNCHANGED <<posted, gone, rows, latest, cursor, ckpt, window, pend, moving, loose>>
    <3>1. run \in AllRuns /\ "full" \in Kinds /\ complete \in BOOLEAN
      BY RunFields DEF IInv, Types, Kinds
    <3>2. run' = Crawl(run, "full", from, cur, whole)
      BY <1>3, <1>6
    <3>3. /\ run' \in AllRuns /\ run'.kind = "full" /\ run'.since = run.since /\ run'.latest = from
          /\ run'.cursor = cur /\ run'.complete = whole /\ run'.floor = from
          /\ run'.pos = (IF from = 0 THEN cur ELSE from)
          /\ run'.top = run.top
          /\ run'.stage = IF from # 0 THEN "forward" ELSE IF whole THEN "final" ELSE "back"
      BY <1>2, <3>1, <3>2, CrawlIs
    <3>4. (~loose => complete' = complete) /\ complete' \in BOOLEAN
      BY <1>2, <1>3, <1>4, <3>1
    <3> QED BY <1>3, <3>3, <3>4
  <2>10. Types' /\ StageInv' /\ InRows' /\ PagePos'
    BY <2>1, <1>6, <1>2, <1>3, <1>4 DEF IInv, Types, StageInv, InRows, PagePos, Like,
        SamePage, Larger, None, Kinds, Stages
  <2>11. CheckpointInv' /\ VerifyInv'
    BY <2>1, <1>6, <1>2, <1>3, <1>4 DEF IInv, Types, StageInv, CheckpointInv, VerifyInv,
        PagePos, Reached, PageDone, Cov, Have, Crest, Larger, Like, SamePage, None
  <2>12. WindowInv' /\ WindowIsWhole'
    BY <2>1, <1>6, <1>2, <1>3, <1>4 DEF IInv, Types, StageInv, WindowInv, WindowIsWhole,
        Cov, Have, Like, SamePage, Larger
  <2>13. ZeroInv'
    BY <2>1, <1>6, <1>2, <1>3, <1>4 DEF IInv, Types, StageInv, ZeroInv, Larger, Like,
        SamePage
  <2>14. NoHoleInv'
    <3>1. SUFFICES ASSUME ~loose', ckpt' = None PROVE SharedInv' /\ ForwardInv' /\ BackInv' /\ BootInv'
      BY DEF NoHoleInv
    <3>2. ~loose /\ ckpt = None /\ SharedInv /\ ForwardInv /\ BackInv /\ BootInv
      BY <2>1, <1>2, <1>3, <1>4, <3>1 DEF IInv, NoHoleInv
    <3>3. SharedInv'
      BY <2>1, <1>2, <1>3, <1>4, <3>2 DEF IInv, Types, StageInv, ZeroInv, SharedInv,
          ForwardInv, BackInv, LowMark, Ids, Cov, Have, Larger, Crest
    <3>4. ForwardInv'
      BY <2>1, <1>2, <1>3, <1>4, <3>2 DEF IInv, Types, StageInv, ZeroInv, SharedInv,
          ForwardInv, InRows, Ids, Cov, Have, Larger, Crest, LowMark, Like, PagePos
    <3>5. BackInv'
      <4>1. run'.stage \in {"forward", "final", "back"}
        BY <2>1
      <4>2. run'.stage \in {"final", "back"} => from = 0 /\ run'.floor = 0 /\ run'.top = 0 /\ latest' = 0
        BY <1>3, <1>4, <2>1, <3>2 DEF IInv, StageInv
      <4>3. run'.stage = "back" => /\ run'.pos = 0 /\ rows' = {} /\ cursor' = 0
                                   /\ ~whole /\ run'.complete = complete' /\ ~complete'
        BY <1>2, <1>3, <1>4, <1>40, <2>1, <3>2 DEF IInv, Types
      <4>4. run'.stage \in {"final", "back"} => latest' = Crest'
        BY <4>2 DEF Crest, Larger
      <4> QED BY <2>1, <4>1, <4>3, <4>4 DEF BackInv
    <3>6. BootInv'
      BY <2>1, <1>2, <1>3, <1>4, <3>2 DEF IInv, Types, StageInv, ZeroInv, SharedInv,
          BootInv, PageDone, Cov, Have, Larger, Crest, LowMark, Like, SamePage
    <3> QED BY <3>3, <3>4, <3>5, <3>6
  <2> QED BY <2>10, <2>11, <2>12, <2>13, <2>14 DEF IInv
<1> QED BY <1>5, <1>6

(* A latest-only or an incremental run takes its route.                    *)
LEMMA RouteRoutineKeeps ==
  ASSUME IInv, RouteRoutine PROVE IInv'
<1>1. /\ run.stage = "route" /\ UNCHANGED <<posted, gone, rows, latest, cursor, complete, ckpt, window, pend, moving, loose>>
      /\ \/ run' = Idle
         \/ ~run.complete /\ run' = Crawl(run, "full", run.latest, run.cursor, FALSE)
         \/ run.latest = 0 /\ run' = Begin(run, "page", "back")
         \/ run.latest = 0 /\ run' = Begin(run, "boot", "boot")
         \/ run.latest # 0 /\ run' = Begin(run, "forward", "forward")
  BY DEF RouteRoutine, At, Done, discordVars, cursorVars, verifyVars, tailVars
<1>2. CASE run' = Idle
  <2>1. /\ run' = Idle
    BY <1>2
  <2>10. Types' /\ StageInv' /\ InRows' /\ PagePos'
    BY <2>1, <1>2, <1>1, IdleIs DEF IInv, Types, StageInv, InRows, PagePos, Like, SamePage,
        Larger, None, Kinds, Stages
  <2>11. CheckpointInv' /\ VerifyInv'
    BY <2>1, <1>2, <1>1, IdleIs DEF IInv, Types, StageInv, CheckpointInv, VerifyInv,
        PagePos, Reached, PageDone, Cov, Have, Crest, Larger, Like, SamePage, None
  <2>12. WindowInv' /\ WindowIsWhole'
    BY <2>1, <1>2, <1>1, IdleIs DEF IInv, Types, StageInv, WindowInv, WindowIsWhole, Cov,
        Have, Like, SamePage, Larger
  <2>13. ZeroInv'
    BY <2>1, <1>2, <1>1, IdleIs DEF IInv, Types, StageInv, ZeroInv, Larger, Like, SamePage
  <2>14. NoHoleInv'
    BY <2>1, <1>2, <1>1, IdleIs DEF IInv, Types, StageInv, NoHoleInv, SharedInv,
        ForwardInv, BackInv, BootInv, PagePos, PageDone, LowMark, Cov, Have, Crest, Larger,
        Like, SamePage, ZeroInv, InRows
  <2> QED BY <2>10, <2>11, <2>12, <2>13, <2>14 DEF IInv
<1>3. CASE ~run.complete /\ run' = Crawl(run, "full", run.latest, run.cursor, FALSE)
  <2>1. /\ run' \in AllRuns /\ run'.kind = "full" /\ run'.since = run.since /\ run'.latest = run.latest
        /\ run'.cursor = run.cursor /\ run'.complete = FALSE /\ run'.floor = run.latest
        /\ run'.pos = (IF run.latest = 0 THEN run.cursor ELSE run.latest)
        /\ run'.top = run.top
        /\ run'.stage = IF run.latest # 0 THEN "forward" ELSE "back"
    <3>1. run \in AllRuns /\ "full" \in Kinds /\ run.latest \in Nat /\ run.cursor \in Nat
      BY RunFields DEF IInv, Kinds
    <3>2. run.complete \in BOOLEAN /\ run.complete = FALSE
      BY <1>3, RunFields DEF IInv
    <3>3. run' = Crawl(run, "full", run.latest, run.cursor, run.complete)
      BY <1>3, <3>2
    <3>4. /\ run' \in AllRuns /\ run'.kind = "full" /\ run'.since = run.since /\ run'.latest = run.latest
          /\ run'.cursor = run.cursor /\ run'.complete = run.complete
          /\ run'.pos = (IF run.latest = 0 THEN run.cursor ELSE run.latest)
          /\ run'.floor = run.latest /\ run'.top = run.top
          /\ run'.stage = IF run.latest # 0 THEN "forward" ELSE IF run.complete THEN "final" ELSE "back"
      BY <3>1, <3>2, <3>3, CrawlIs
    <3> QED BY <3>2, <3>4
  <2>10. Types' /\ StageInv' /\ InRows' /\ PagePos'
    <3>1. Types'
      BY <2>1, <1>3, <1>1, RunFields DEF IInv, Types, Larger
    <3>2. StageInv'
      BY <2>1, <1>3, <1>1, RunFields DEF IInv, Types, StageInv, Like, Kinds, Stages
    <3>3. InRows'
      BY <2>1, <1>3, <1>1, RunFields DEF IInv, Types, StageInv, InRows, Like, Larger, None
    <3>4. PagePos'
      BY <2>1, <1>3, <1>1, RunFields DEF IInv, Types, StageInv, PagePos, Like, SamePage,
          Larger, Kinds
    <3> QED BY <3>1, <3>2, <3>3, <3>4
  <2>11. CheckpointInv' /\ VerifyInv'
    BY <2>1, <1>3, <1>1, RunFields DEF IInv, Types, StageInv, CheckpointInv, VerifyInv,
        PagePos, Reached, PageDone, Cov, Have, Crest, Larger, Like, SamePage, None
  <2>12. WindowInv' /\ WindowIsWhole'
    BY <2>1, <1>3, <1>1, RunFields DEF IInv, Types, StageInv, WindowInv, WindowIsWhole,
        Cov, Have, Like, SamePage, Larger
  <2>13. ZeroInv'
    BY <2>1, <1>3, <1>1, RunFields DEF IInv, Types, StageInv, ZeroInv, Larger, Like,
        SamePage
  <2>14. NoHoleInv'
    <3>1. SUFFICES ASSUME ~loose', ckpt' = None PROVE SharedInv' /\ ForwardInv' /\ BackInv' /\ BootInv'
      BY DEF NoHoleInv
    <3>2. ~loose /\ ckpt = None /\ SharedInv /\ ForwardInv /\ BackInv /\ BootInv
      BY <2>1, <1>3, <1>1, RunFields, <3>1 DEF IInv, NoHoleInv
    <3>3. SharedInv'
      BY <2>1, <1>3, <1>1, RunFields, <3>2 DEF IInv, Types, StageInv, ZeroInv, SharedInv,
          ForwardInv, BackInv, LowMark, Ids, Cov, Have, Larger, Crest
    <3>4. ForwardInv'
      <4>1. run.latest = latest /\ run.cursor = cursor /\ run.complete = complete /\ ~complete
        BY <1>1, <1>3, <3>2 DEF IInv, ZeroInv
      <4>2. latest \in Nat /\ cursor \in Nat /\ (latest # 0 => latest \in Have)
        BY DEF IInv, Types, InRows, Have
      <4>3. latest # 0 => Cov(latest, latest)
        BY <4>2 DEF Cov, Ids
      <4>4. latest # 0 /\ cursor # 0 => Cov(cursor, latest) /\ cursor <= latest
        BY <3>2, <4>1 DEF SharedInv, LowMark
      <4>5. run'.complete = complete'
        <5>1. complete = FALSE
          BY <4>1 DEF IInv, Types
        <5> QED BY <1>1, <2>1, <5>1
      <4> QED BY <1>1, <2>1, <4>1, <4>2, <4>3, <4>4, <4>5 DEF ForwardInv, Cov, Have
    <3>5. BackInv'
      BY <2>1, <1>3, <1>1, RunFields, <3>2, ZenonT(60) DEF IInv, Types, StageInv, ZeroInv, SharedInv,
          ForwardInv, BackInv, PageDone, Cov, Have, Larger, Crest, LowMark, Like, SamePage
    <3>6. BootInv'
      BY <2>1, <1>3, <1>1, RunFields, <3>2 DEF IInv, Types, StageInv, ZeroInv, SharedInv,
          BootInv, PageDone, Cov, Have, Larger, Crest, LowMark, Like, SamePage
    <3> QED BY <3>3, <3>4, <3>5, <3>6
  <2> QED BY <2>10, <2>11, <2>12, <2>13, <2>14 DEF IInv
<1>4. CASE run.latest = 0 /\ run' = Begin(run, "page", "back")
  <2>1. /\ run' \in AllRuns /\ run'.kind = "page" /\ run'.since = run.since /\ run'.latest = run.latest
        /\ run'.cursor = run.cursor /\ run'.complete = run.complete /\ run'.pos = run.latest /\ run'.floor = run.latest
        /\ run'.top = run.top
        /\ run'.stage = "back"
    BY <1>4, BeginIs, RunFields, SMTT(60) DEF IInv, Kinds, Stages
  <2>10. Types' /\ StageInv' /\ InRows' /\ PagePos'
    BY <2>1, <1>4, <1>1, RunFields DEF IInv, Types, StageInv, InRows, PagePos, Like,
        SamePage, Larger, None, Kinds, Stages
  <2>11. CheckpointInv' /\ VerifyInv'
    BY <2>1, <1>4, <1>1, RunFields DEF IInv, Types, StageInv, CheckpointInv, VerifyInv,
        PagePos, Reached, PageDone, Cov, Have, Crest, Larger, Like, SamePage, None
  <2>12. WindowInv' /\ WindowIsWhole'
    BY <2>1, <1>4, <1>1, RunFields DEF IInv, Types, StageInv, WindowInv, WindowIsWhole,
        Cov, Have, Like, SamePage, Larger
  <2>13. ZeroInv'
    BY <2>1, <1>4, <1>1, RunFields DEF IInv, Types, StageInv, ZeroInv, Larger, Like,
        SamePage
  <2>14. NoHoleInv'
    BY <2>1, <1>4, <1>1, RunFields DEF IInv, Types, StageInv, NoHoleInv, SharedInv,
        ForwardInv, BackInv, BootInv, PagePos, PageDone, LowMark, Cov, Have, Crest, Larger,
        Like, SamePage, ZeroInv, InRows
  <2> QED BY <2>10, <2>11, <2>12, <2>13, <2>14 DEF IInv
<1>5. CASE run.latest = 0 /\ run' = Begin(run, "boot", "boot")
  <2>1. /\ run' \in AllRuns /\ run'.kind = "boot" /\ run'.since = run.since /\ run'.latest = run.latest
        /\ run'.cursor = run.cursor /\ run'.complete = run.complete /\ run'.pos = run.latest /\ run'.floor = run.latest
        /\ run'.top = run.top
        /\ run'.stage = "boot"
    BY <1>5, BeginIs, RunFields, SMTT(60) DEF IInv, Kinds, Stages
  <2>10. Types' /\ StageInv' /\ InRows' /\ PagePos'
    BY <2>1, <1>5, <1>1, RunFields DEF IInv, Types, StageInv, InRows, PagePos, Like,
        SamePage, Larger, None, Kinds, Stages
  <2>11. CheckpointInv' /\ VerifyInv'
    BY <2>1, <1>5, <1>1, RunFields DEF IInv, Types, StageInv, CheckpointInv, VerifyInv,
        PagePos, Reached, PageDone, Cov, Have, Crest, Larger, Like, SamePage, None
  <2>12. WindowInv' /\ WindowIsWhole'
    BY <2>1, <1>5, <1>1, RunFields DEF IInv, Types, StageInv, WindowInv, WindowIsWhole,
        Cov, Have, Like, SamePage, Larger
  <2>13. ZeroInv'
    BY <2>1, <1>5, <1>1, RunFields DEF IInv, Types, StageInv, ZeroInv, Larger, Like,
        SamePage
  <2>14. NoHoleInv'
    BY <2>1, <1>5, <1>1, RunFields DEF IInv, Types, StageInv, NoHoleInv, SharedInv,
        ForwardInv, BackInv, BootInv, PagePos, PageDone, LowMark, Cov, Have, Crest, Larger,
        Like, SamePage, ZeroInv, InRows
  <2> QED BY <2>10, <2>11, <2>12, <2>13, <2>14 DEF IInv
<1>6. CASE run.latest # 0 /\ run' = Begin(run, "forward", "forward")
  <2>1. /\ run' \in AllRuns /\ run'.kind = "forward" /\ run'.since = run.since /\ run'.latest = run.latest
        /\ run'.cursor = run.cursor /\ run'.complete = run.complete /\ run'.pos = run.latest /\ run'.floor = run.latest
        /\ run'.top = run.top
        /\ run'.stage = "forward"
    BY <1>6, BeginIs, RunFields DEF IInv, Kinds, Stages
  <2>10. Types' /\ StageInv' /\ InRows' /\ PagePos'
    BY <2>1, <1>6, <1>1, RunFields DEF IInv, Types, StageInv, InRows, PagePos, Like,
        SamePage, Larger, None, Kinds, Stages
  <2>11. CheckpointInv' /\ VerifyInv'
    BY <2>1, <1>6, <1>1, RunFields DEF IInv, Types, StageInv, CheckpointInv, VerifyInv,
        PagePos, Reached, PageDone, Cov, Have, Crest, Larger, Like, SamePage, None
  <2>12. WindowInv' /\ WindowIsWhole'
    BY <2>1, <1>6, <1>1, RunFields DEF IInv, Types, StageInv, WindowInv, WindowIsWhole,
        Cov, Have, Like, SamePage, Larger
  <2>13. ZeroInv'
    BY <2>1, <1>6, <1>1, RunFields DEF IInv, Types, StageInv, ZeroInv, Larger, Like,
        SamePage
  <2>14. NoHoleInv'
    <3>1. SUFFICES ASSUME ~loose', ckpt' = None PROVE SharedInv' /\ ForwardInv' /\ BackInv' /\ BootInv'
      BY DEF NoHoleInv
    <3>2. ~loose /\ ckpt = None /\ SharedInv /\ ForwardInv /\ BackInv /\ BootInv
      BY <2>1, <1>6, <1>1, RunFields, <3>1 DEF IInv, NoHoleInv
    <3>3. SharedInv'
      BY <2>1, <1>6, <1>1, RunFields, <3>2 DEF IInv, Types, StageInv, ZeroInv, SharedInv,
          ForwardInv, BackInv, LowMark, Ids, Cov, Have, Larger, Crest
    <3>4. ForwardInv'
      BY <2>1, <1>6, <1>1, RunFields, <3>2 DEF IInv, Types, StageInv, ZeroInv, SharedInv,
          ForwardInv, InRows, Ids, Cov, Have, Larger, Crest, LowMark, Like, PagePos
    <3>5. BackInv'
      BY <2>1, <1>6, <1>1, RunFields, <3>2 DEF IInv, Types, StageInv, ZeroInv, SharedInv,
          ForwardInv, BackInv, PageDone, Cov, Have, Larger, Crest, LowMark, Like, SamePage
    <3>6. BootInv'
      BY <2>1, <1>6, <1>1, RunFields, <3>2 DEF IInv, Types, StageInv, ZeroInv, SharedInv,
          BootInv, PageDone, Cov, Have, Larger, Crest, LowMark, Like, SamePage
    <3> QED BY <3>3, <3>4, <3>5, <3>6
  <2> QED BY <2>10, <2>11, <2>12, <2>13, <2>14 DEF IInv
<1> QED BY <1>1, <1>2, <1>3, <1>4, <1>5, <1>6

(* A verification starts from its checkpoint.                              *)
LEMMA ClearCompleteKeeps ==
  ASSUME IInv, ClearComplete PROVE IInv'
<1>1. /\ run' \in AllRuns /\ run'.kind = "verify" /\ run'.since = run.since /\ run'.latest = ckpt.latest
      /\ run'.cursor = ckpt.before /\ run'.complete = FALSE /\ run'.floor = ckpt.latest
      /\ run'.pos = (IF ckpt.latest = 0 THEN ckpt.before ELSE ckpt.latest)
      /\ run'.top = run.top
      /\ run'.stage = IF ckpt.latest # 0 THEN "forward" ELSE "back"
      /\ run.stage = "clear" /\ run.kind = "verify" /\ complete' = FALSE
      /\ UNCHANGED <<posted, gone, rows, latest, cursor, ckpt, window, pend, moving, loose>>
  <2>1. run.stage = "clear" /\ run.kind = "verify" /\ ckpt # None
    BY RunFields DEF ClearComplete, At, IInv, StageInv, VerifyInv, Kinds
  <2>2. ckpt.latest \in Nat /\ ckpt.before \in Nat
    BY <2>1 DEF IInv, Types, CheckpointInv, None
  <2>3. run \in AllRuns /\ "verify" \in Kinds
    BY RunFields DEF IInv, Kinds
  <2>4. /\ run' = Crawl(run, "verify", ckpt.latest, ckpt.before, FALSE) /\ complete' = FALSE
        /\ UNCHANGED <<posted, gone, rows, latest, cursor, ckpt, window, pend, moving, loose>>
    BY DEF ClearComplete, discordVars, verifyVars, tailVars
  <2>5. run.complete \in BOOLEAN /\ run.complete = FALSE
    BY <2>1, RunFields DEF IInv, StageInv
  <2>6. run' = Crawl(run, "verify", ckpt.latest, ckpt.before, run.complete)
    BY <2>4, <2>5
  <2>7. /\ run' \in AllRuns /\ run'.kind = "verify" /\ run'.since = run.since /\ run'.latest = ckpt.latest
        /\ run'.cursor = ckpt.before /\ run'.complete = run.complete
        /\ run'.pos = (IF ckpt.latest = 0 THEN ckpt.before ELSE ckpt.latest)
        /\ run'.floor = ckpt.latest /\ run'.top = run.top
        /\ run'.stage = IF ckpt.latest # 0 THEN "forward" ELSE IF run.complete THEN "final" ELSE "back"
    BY <2>2, <2>3, <2>5, <2>6, CrawlIs
  <2> QED BY <2>1, <2>4, <2>5, <2>7
<1>10. Types' /\ StageInv' /\ InRows' /\ PagePos'
  <2>1. Types'
    BY <1>1, RunFields DEF IInv, Types, Larger
  <2>2. StageInv'
    BY <1>1, RunFields DEF IInv, Types, StageInv, Like, Kinds, Stages
  <2>3. InRows'
    BY <1>1, RunFields DEF IInv, Types, StageInv, InRows, Like, Larger, None
  <2>4. PagePos'
    BY <1>1, RunFields DEF IInv, Types, StageInv, PagePos, Like, SamePage, Larger, Kinds
  <2> QED BY <2>1, <2>2, <2>3, <2>4
<1>11. CheckpointInv' /\ VerifyInv'
  BY <1>1, RunFields DEF IInv, Types, StageInv, CheckpointInv, VerifyInv, PagePos, Reached,
      PageDone, Cov, Have, Crest, Larger, Like, SamePage, None
<1>12. WindowInv' /\ WindowIsWhole'
  BY <1>1, RunFields DEF IInv, Types, StageInv, WindowInv, WindowIsWhole, Cov, Have, Like,
      SamePage, Larger
<1>13. ZeroInv'
  BY <1>1, RunFields DEF IInv, Types, StageInv, ZeroInv, Larger, Like, SamePage
<1>14. NoHoleInv'
  BY <1>1, RunFields DEF IInv, Types, StageInv, NoHoleInv, SharedInv, ForwardInv, BackInv,
      BootInv, PagePos, PageDone, LowMark, Cov, Have, Crest, Larger, Like, SamePage,
      ZeroInv, InRows, VerifyInv
<1> QED BY <1>10, <1>11, <1>12, <1>13, <1>14 DEF IInv

-----------------------------------------------------------------------------
(* Forward pages.                                                          *)

(* A forward page is stored.                                               *)
LEMMA FetchForwardKeeps ==
  ASSUME IInv, FetchForward PROVE IInv'
<1> DEFINE P == PageAfter(run.pos)
<1>1. /\ run.stage = "forward" /\ run.pos = run.floor /\ run.floor # 0 /\ rows' = rows \cup P
      /\ run.kind \in {"verify", "forward", "full"} /\ run.top = 0
      /\ run' = [run EXCEPT !.page = P, !.floor = Larger(run.floor, High(P)),
                            !.stage = IF P = {} THEN "turn" ELSE "advance"]
      /\ UNCHANGED <<posted, gone, latest, cursor, complete, ckpt, window, pend, moving, loose>>
  BY RunFields DEF IInv, FetchForward, At, PagePos, StageInv, Kinds, discordVars,
      cursorVars, verifyVars, tailVars
<1>2. /\ P \in SUBSET Ids /\ P \subseteq Live /\ (\A id \in P : id > run.floor)
      /\ \A id \in Live : id > run.floor /\ (\E x \in P : id <= x) => id \in P
      /\ Cardinality(P) < PageSize => \A id \in Live : id > run.floor => id \in P
      /\ P = {} => \A id \in Live : ~(id > run.floor)
  BY <1>1, AfterIs, RunFields DEF IInv
<1> HIDE DEF P
<1>3. High(P) \in Nat /\ (P = {} => High(P) = 0)
      /\ (P # {} => High(P) \in P /\ High(P) \in rows' /\ High(P) > run.floor /\ High(P) # 0)
  BY <1>1, <1>2, HighIs, EndsAre
<1>4. /\ run.floor \in Nat /\ run.latest \in Nat /\ run.cursor \in Nat /\ latest \in Nat
      /\ rows' \subseteq 1..posted /\ latest <= posted
      /\ \A id \in Ids : id \in Have => id \in Have'
      /\ \A id \in Ids : id \in P => id \in Have'
      /\ \A id \in Ids : id <= posted /\ id \notin Have => id \in Live
  <2>1. P \subseteq 1..posted
    BY <1>2 DEF Live
  <2> QED BY <1>1, <2>1, RunFields DEF IInv, Types, InRows, Have, Live, Ids
<1>5. P # {} => \A id \in Ids : run.floor < id /\ id <= High(P) => id \in Have'
  <2>1. P # {} => High(P) <= posted
    BY <1>2, <1>3 DEF Live, IInv, Types
  <2> QED BY <1>2, <1>3, <1>4, <2>1 DEF Ids, IInv, Types
<1>6. P = {} \/ Cardinality(P) < PageSize => \A id \in Ids : run.floor < id /\ id <= latest => id \in Have'
  BY <1>2, <1>4 DEF Ids, IInv, Types
<1>7. CASE P = {}
  <2>1. /\ run' \in AllRuns /\ run'.kind = run.kind /\ run'.since = run.since /\ run'.latest = run.latest
        /\ run'.cursor = run.cursor /\ run'.complete = run.complete /\ run'.until = run.until
        /\ run'.pos = run.pos /\ run'.top = run.top /\ run'.page = P /\ run'.stage = "turn" /\ run'.floor = run.floor /\ rows' = rows
    <3>1. rows \cup P = rows /\ Larger(run.floor, High(P)) = run.floor
      BY <1>3, <1>4, <1>7 DEF Larger
    <3> QED BY <1>1, <1>2, <1>4, <1>7, <3>1, ZenonT(60) DEF IInv, Types, AllRuns, Stages
  <2>10. Types' /\ StageInv' /\ InRows' /\ PagePos'
    BY <2>1, <1>7, <1>1, <1>4 DEF IInv, Types, StageInv, InRows, PagePos, Like, SamePage,
        Larger, None, Kinds, Stages
  <2>11. CheckpointInv' /\ VerifyInv'
    <3>1. run.kind # "verify" => CheckpointInv' /\ VerifyInv'
      BY <1>1, <1>4, <2>1 DEF IInv, CheckpointInv, VerifyInv, Cov
    <3>2. run.kind = "verify" => CheckpointInv' /\ VerifyInv'
      BY <1>1, <1>4, <1>6, <1>7, <2>1, RunFields DEF IInv, CheckpointInv, VerifyInv, Cov,
          Crest, Larger, Ids
    <3> QED BY <3>1, <3>2
  <2>12. WindowInv' /\ WindowIsWhole'
    BY <2>1, <1>7, <1>1, <1>4 DEF IInv, Types, StageInv, WindowInv, WindowIsWhole, Cov,
        Have, Like, SamePage, Larger
  <2>13. ZeroInv'
    BY <2>1, <1>7, <1>1, <1>4 DEF IInv, Types, StageInv, ZeroInv, Larger, Like, SamePage
  <2>14. NoHoleInv'
    BY <2>1, <1>7, <1>1, <1>4 DEF IInv, Types, StageInv, NoHoleInv, SharedInv, ForwardInv,
        BackInv, BootInv, PagePos, PageDone, LowMark, Cov, Have, Crest, Larger, Like,
        SamePage, ZeroInv, InRows
  <2> QED BY <2>10, <2>11, <2>12, <2>13, <2>14 DEF IInv
<1>8. CASE P # {}
  <2>1. /\ run' \in AllRuns /\ run'.kind = run.kind /\ run'.since = run.since /\ run'.latest = run.latest
        /\ run'.cursor = run.cursor /\ run'.complete = run.complete /\ run'.until = run.until
        /\ run'.pos = run.pos /\ run'.top = run.top /\ run'.page = P /\ run'.stage = "advance" /\ run'.floor = High(P) /\ rows' = rows \cup P
    BY <1>1, <1>2, <1>3, <1>4, <1>8 DEF IInv, Types, AllRuns, Stages, Larger
  <2>10. Types' /\ StageInv' /\ InRows' /\ PagePos'
    <3>1. Types'
      BY <2>1, <1>1, <1>3, <1>4, <1>8 DEF IInv, Types, Larger
    <3>2. StageInv'
      BY <2>1, <1>1, <1>3, <1>4, <1>8 DEF IInv, Types, StageInv, Like, Kinds, Stages
    <3>3. InRows'
      BY <2>1, <1>1, <1>3, <1>4, <1>8 DEF IInv, Types, StageInv, InRows, Like, Larger, None
    <3>4. PagePos'
      BY <2>1, <1>1, <1>3, <1>4, <1>8 DEF IInv, Types, StageInv, PagePos, Like, SamePage,
          Larger, Kinds
    <3> QED BY <3>1, <3>2, <3>3, <3>4
  <2>11. CheckpointInv' /\ VerifyInv'
    <3>1. run.kind # "verify" => CheckpointInv' /\ VerifyInv'
      BY <1>1, <1>4, <2>1 DEF IInv, CheckpointInv, VerifyInv, Cov
    <3>2. Short(run') <=> Cardinality(P) < PageSize
      BY <2>1 DEF Short
    <3>3. run.kind = "verify" => CheckpointInv' /\ VerifyInv'
      BY <1>1, <1>3, <1>4, <1>5, <1>6, <1>8, <2>1, <3>2 DEF IInv, CheckpointInv, VerifyInv,
          Reached, Cov, Crest, Larger, Ids
    <3> QED BY <3>1, <3>3
  <2>12. WindowInv' /\ WindowIsWhole'
    BY <2>1, <1>8, <1>1, <1>3, <1>4 DEF IInv, Types, StageInv, WindowInv, WindowIsWhole,
        Cov, Have, Like, SamePage, Larger
  <2>13. ZeroInv'
    BY <2>1, <1>8, <1>1, <1>3, <1>4 DEF IInv, Types, StageInv, ZeroInv, Larger, Like,
        SamePage
  <2>14. NoHoleInv'
    <3>1. SUFFICES ASSUME ~loose', ckpt' = None PROVE SharedInv' /\ ForwardInv' /\ BackInv' /\ BootInv'
      BY DEF NoHoleInv
    <3>2. ~loose /\ ckpt = None /\ SharedInv /\ ForwardInv /\ BackInv /\ BootInv
      BY <2>1, <1>1, <1>3, <1>4, <1>5, <1>8, <3>1 DEF IInv, NoHoleInv
    <3>3. SharedInv'
      <4>1. \A x \in P : x > latest
        BY <1>1, <1>2, <1>4, <3>2 DEF ForwardInv, Ids
      <4>2. Low(rows') = Low(rows)
        <5>1. rows \in SUBSET Ids /\ rows' \in SUBSET Ids /\ latest \in rows
          BY <1>1, <1>2, <3>2 DEF IInv, Types, InRows, ForwardInv, Ids
        <5>2. Low(rows) \in rows /\ (\A y \in rows : Low(rows) <= y) /\ Low(rows') \in rows' /\ (\A y \in rows' : Low(rows') <= y)
          BY <1>1, <5>1, LowIs
        <5> QED BY <1>1, <4>1, <5>1, <5>2 DEF Ids
      <4> QED BY <1>1, <1>4, <3>2, <4>2 DEF SharedInv, LowMark, Cov
    <3>4. ForwardInv'
      BY <2>1, <1>1, <1>3, <1>4, <1>5, <1>8, <3>2 DEF IInv, Types, StageInv, ZeroInv,
          SharedInv, ForwardInv, InRows, Ids, Cov, Have, Larger, Crest, LowMark, Like,
          PagePos
    <3>5. BackInv'
      BY <2>1, <1>1, <1>3, <1>4, <1>5, <1>8, <3>2 DEF IInv, Types, StageInv, ZeroInv,
          SharedInv, ForwardInv, BackInv, PageDone, Cov, Have, Larger, Crest, LowMark,
          Like, SamePage
    <3>6. BootInv'
      BY <2>1, <1>1, <1>3, <1>4, <1>5, <1>8, <3>2 DEF IInv, Types, StageInv, ZeroInv,
          SharedInv, BootInv, PageDone, Cov, Have, Larger, Crest, LowMark, Like, SamePage
    <3> QED BY <3>3, <3>4, <3>5, <3>6
  <2> QED BY <2>10, <2>11, <2>12, <2>13, <2>14 DEF IInv
<1> QED BY <1>7, <1>8

(* latest_message_id follows a forward page.                               *)
LEMMA AdvanceLatestKeeps ==
  ASSUME IInv, AdvanceLatest PROVE IInv'
<1>1. /\ run.stage = "advance" /\ run.page # {} /\ High(run.page) = run.floor /\ run.top = 0
      /\ run.kind \in {"verify", "forward", "full"}
      /\ latest' = Larger(latest, run.floor) /\ UNCHANGED <<posted, gone, rows, cursor, complete, ckpt, window, pend, moving, loose>>
      /\ run' = IF Short(run) THEN Goto(run, "turn") ELSE Again(run, "forward", run.floor)
  BY RunFields DEF IInv, AdvanceLatest, At, PagePos, StageInv, Kinds, discordVars,
      cursorVars, verifyVars, tailVars
<1>2. latest \in Nat /\ run.floor \in Nat /\ run.floor # 0 /\ Crest = run.floor /\ LowMark \in Nat
  <2>1. run.page \in SUBSET Ids /\ rows \in SUBSET Ids
    BY RunFields DEF IInv, Types, Ids
  <2>2. run.floor \in Nat /\ run.floor # 0 /\ Low(rows) \in Nat
    BY <1>1, <2>1, EndsAre
  <2> QED BY <1>1, <2>2 DEF IInv, Types, Crest, Larger, LowMark
<1>3. CASE Short(run)
  <2>1. /\ run' \in AllRuns /\ Like(run', run) /\ run'.top = run.top /\ run'.stage = "turn"
    BY <1>1, <1>3, GotoIs, RunFields DEF IInv, Stages
  <2>10. Types' /\ StageInv' /\ InRows' /\ PagePos'
    BY <2>1, <1>3, <1>1, <1>2, RunFields DEF IInv, Types, StageInv, InRows, PagePos, Like,
        SamePage, Larger, None, Kinds, Stages
  <2>11. CheckpointInv' /\ VerifyInv'
    <3>1. CheckpointInv'
      BY <1>1, <2>1 DEF IInv, CheckpointInv, Cov, Have
    <3>2. run.kind # "verify" => VerifyInv'
      BY <2>1 DEF VerifyInv, Like
    <3>3. Crest' = run.floor
      BY <1>1, <1>2, <2>1 DEF Crest, Larger, Like
    <3>4. run.kind = "verify" => VerifyInv'
      BY <1>1, <1>2, <1>3, <2>1, <3>3, RunFields DEF IInv, VerifyInv, Reached, Cov, Have,
          Larger, Ids, Like
    <3> QED BY <3>1, <3>2, <3>4
  <2>12. WindowInv' /\ WindowIsWhole'
    BY <2>1, <1>3, <1>1, <1>2, RunFields DEF IInv, Types, StageInv, WindowInv,
        WindowIsWhole, Cov, Have, Like, SamePage, Larger
  <2>13. ZeroInv'
    BY <2>1, <1>3, <1>1, <1>2, RunFields DEF IInv, Types, StageInv, ZeroInv, Larger, Like,
        SamePage
  <2>14. NoHoleInv'
    <3>1. SUFFICES ASSUME ~loose', ckpt' = None PROVE SharedInv' /\ ForwardInv' /\ BackInv' /\ BootInv'
      BY DEF NoHoleInv
    <3>2. ~loose /\ ckpt = None /\ SharedInv /\ ForwardInv /\ BackInv /\ BootInv
      BY <2>1, <1>1, <1>2, RunFields, <3>1 DEF IInv, NoHoleInv
    <3>3. SharedInv'
      BY <2>1, <1>1, <1>2, RunFields, <3>2 DEF IInv, Types, StageInv, ZeroInv, SharedInv,
          ForwardInv, BackInv, LowMark, Ids, Cov, Have, Larger, Crest
    <3>4. ForwardInv'
      BY <2>1, <1>1, <1>2, RunFields, <3>2 DEF IInv, Types, StageInv, ZeroInv, SharedInv,
          ForwardInv, InRows, Ids, Cov, Have, Larger, Crest, LowMark, Like, PagePos
    <3>5. BackInv'
      BY <2>1, <1>1, <1>2, RunFields, <3>2 DEF IInv, Types, StageInv, ZeroInv, SharedInv,
          ForwardInv, BackInv, PageDone, Cov, Have, Larger, Crest, LowMark, Like, SamePage
    <3>6. BootInv'
      BY <2>1, <1>1, <1>2, RunFields, <3>2 DEF IInv, Types, StageInv, ZeroInv, SharedInv,
          BootInv, PageDone, Cov, Have, Larger, Crest, LowMark, Like, SamePage
    <3> QED BY <3>3, <3>4, <3>5, <3>6
  <2> QED BY <2>10, <2>11, <2>12, <2>13, <2>14 DEF IInv
<1>4. CASE ~Short(run)
  <2>1. /\ run' \in AllRuns /\ Like(run', run) /\ run'.top = run.top /\ run'.stage = "forward"
        /\ run'.pos = run.floor
    <3>1. "forward" \in Stages
      BY DEF Stages
    <3>2. run' = Again(run, "forward", run.floor)
      BY <1>1, <1>4
    <3>3. run \in AllRuns /\ run.floor \in Nat
      BY RunFields DEF IInv
    <3> QED BY <3>1, <3>2, <3>3, AgainIs
  <2>10. Types' /\ StageInv' /\ InRows' /\ PagePos'
    BY <2>1, <1>4, <1>1, <1>2, RunFields DEF IInv, Types, StageInv, InRows, PagePos, Like,
        SamePage, Larger, None, Kinds, Stages
  <2>11. CheckpointInv' /\ VerifyInv'
    BY <2>1, <1>4, <1>1, <1>2, RunFields DEF IInv, Types, StageInv, CheckpointInv,
        VerifyInv, PagePos, Reached, PageDone, Cov, Have, Crest, Larger, Like, SamePage,
        None
  <2>12. WindowInv' /\ WindowIsWhole'
    BY <2>1, <1>4, <1>1, <1>2, RunFields DEF IInv, Types, StageInv, WindowInv,
        WindowIsWhole, Cov, Have, Like, SamePage, Larger
  <2>13. ZeroInv'
    BY <2>1, <1>4, <1>1, <1>2, RunFields DEF IInv, Types, StageInv, ZeroInv, Larger, Like,
        SamePage
  <2>14. NoHoleInv'
    <3>1. SUFFICES ASSUME ~loose', ckpt' = None PROVE SharedInv' /\ ForwardInv' /\ BackInv' /\ BootInv'
      BY DEF NoHoleInv
    <3>2. ~loose /\ ckpt = None /\ SharedInv /\ ForwardInv /\ BackInv /\ BootInv
      BY <2>1, <1>1, <1>2, RunFields, <3>1 DEF IInv, NoHoleInv
    <3>3. SharedInv'
      BY <2>1, <1>1, <1>2, RunFields, <3>2 DEF IInv, Types, StageInv, ZeroInv, SharedInv,
          ForwardInv, BackInv, LowMark, Ids, Cov, Have, Larger, Crest
    <3>4. ForwardInv'
      BY <2>1, <1>1, <1>2, RunFields, <3>2 DEF IInv, Types, StageInv, ZeroInv, SharedInv,
          ForwardInv, InRows, Ids, Cov, Have, Larger, Crest, LowMark, Like, PagePos
    <3>5. BackInv'
      BY <2>1, <1>1, <1>2, RunFields, <3>2 DEF IInv, Types, StageInv, ZeroInv, SharedInv,
          ForwardInv, BackInv, PageDone, Cov, Have, Larger, Crest, LowMark, Like, SamePage
    <3>6. BootInv'
      BY <2>1, <1>1, <1>2, RunFields, <3>2 DEF IInv, Types, StageInv, ZeroInv, SharedInv,
          BootInv, PageDone, Cov, Have, Larger, Crest, LowMark, Like, SamePage
    <3> QED BY <3>3, <3>4, <3>5, <3>6
  <2> QED BY <2>10, <2>11, <2>12, <2>13, <2>14 DEF IInv
<1> QED BY <1>3, <1>4

(* The forward pages are over.                                             *)
LEMMA TurnKeeps ==
  ASSUME IInv, Turn PROVE IInv'
<1> DEFINE p == IF run.cursor = 0 THEN run.latest ELSE run.cursor
<1>1. /\ run.stage = "turn" /\ run.floor # 0 /\ run.top = 0
      /\ run.kind \in {"verify", "forward", "full"}
      /\ latest' = Larger(latest, run.floor) /\ UNCHANGED <<posted, gone, rows, cursor, complete, ckpt, window, pend, moving, loose>>
      /\ run' = IF run.kind = "forward" THEN Idle
               ELSE IF run.complete THEN Goto(run, "final")
               ELSE Again(run, "back", p)
  BY RunFields DEF IInv, Turn, At, Done, PagePos, StageInv, Kinds, discordVars, cursorVars,
      verifyVars, tailVars
<1>2. latest \in Nat /\ run.floor \in Nat /\ Crest = run.floor /\ p \in Nat /\ LowMark \in Nat
  <2>1. rows \in SUBSET Ids
    BY DEF IInv, Types, Ids
  <2> QED BY <1>1, <2>1, RunFields, EndsAre DEF IInv, Types, Crest, Larger, LowMark
<1>3. CASE run.kind = "forward"
  <2>1. run' = Idle
    BY <1>1, <1>3
  <2>10. Types' /\ StageInv' /\ InRows' /\ PagePos'
    BY <2>1, <1>3, <1>1, <1>2, IdleIs DEF IInv, Types, StageInv, InRows, PagePos, Like,
        SamePage, Larger, None, Kinds, Stages
  <2>11. CheckpointInv' /\ VerifyInv'
    BY <2>1, <1>3, <1>1, <1>2, IdleIs DEF IInv, Types, StageInv, CheckpointInv, VerifyInv,
        PagePos, Reached, PageDone, Cov, Have, Crest, Larger, Like, SamePage, None
  <2>12. WindowInv' /\ WindowIsWhole'
    BY <2>1, <1>3, <1>1, <1>2, IdleIs DEF IInv, Types, StageInv, WindowInv, WindowIsWhole,
        Cov, Have, Like, SamePage, Larger
  <2>13. ZeroInv'
    BY <2>1, <1>3, <1>1, <1>2, IdleIs DEF IInv, Types, StageInv, ZeroInv, Larger, Like,
        SamePage
  <2>14. NoHoleInv'
    <3>1. SUFFICES ASSUME ~loose', ckpt' = None PROVE SharedInv' /\ ForwardInv' /\ BackInv' /\ BootInv'
      BY DEF NoHoleInv
    <3>2. ~loose /\ ckpt = None /\ SharedInv /\ ForwardInv /\ BackInv /\ BootInv
      BY <2>1, <1>1, <1>2, <1>3, IdleIs, <3>1 DEF IInv, NoHoleInv
    <3>3. SharedInv'
      BY <2>1, <1>1, <1>2, <1>3, IdleIs, <3>2 DEF IInv, Types, StageInv, ZeroInv,
          SharedInv, ForwardInv, BackInv, LowMark, Ids, Cov, Have, Larger, Crest
    <3>4. ForwardInv'
      BY <2>1, <1>1, <1>2, <1>3, IdleIs, <3>2 DEF IInv, Types, StageInv, ZeroInv,
          SharedInv, ForwardInv, InRows, Ids, Cov, Have, Larger, Crest, LowMark, Like,
          PagePos
    <3>5. BackInv'
      BY <2>1, <1>1, <1>2, <1>3, IdleIs, <3>2 DEF IInv, Types, StageInv, ZeroInv,
          SharedInv, ForwardInv, BackInv, PageDone, Cov, Have, Larger, Crest, LowMark,
          Like, SamePage
    <3>6. BootInv'
      BY <2>1, <1>1, <1>2, <1>3, IdleIs, <3>2 DEF IInv, Types, StageInv, ZeroInv,
          SharedInv, BootInv, PageDone, Cov, Have, Larger, Crest, LowMark, Like, SamePage
    <3> QED BY <3>3, <3>4, <3>5, <3>6
  <2> QED BY <2>10, <2>11, <2>12, <2>13, <2>14 DEF IInv
<1>4. CASE run.kind # "forward" /\ run.complete
  <2>1. /\ run' \in AllRuns /\ Like(run', run) /\ run'.top = run.top /\ run'.stage = "final"
    BY <1>1, <1>4, GotoIs, RunFields DEF IInv, Stages
  <2>10. Types' /\ StageInv' /\ InRows' /\ PagePos'
    BY <2>1, <1>4, <1>1, <1>2, RunFields DEF IInv, Types, StageInv, InRows, PagePos, Like,
        SamePage, Larger, None, Kinds, Stages
  <2>11. CheckpointInv' /\ VerifyInv'
    BY <2>1, <1>4, <1>1, <1>2, RunFields DEF IInv, Types, StageInv, CheckpointInv,
        VerifyInv, PagePos, Reached, PageDone, Cov, Have, Crest, Larger, Like, SamePage,
        None
  <2>12. WindowInv' /\ WindowIsWhole'
    BY <2>1, <1>4, <1>1, <1>2, RunFields DEF IInv, Types, StageInv, WindowInv,
        WindowIsWhole, Cov, Have, Like, SamePage, Larger
  <2>13. ZeroInv'
    BY <2>1, <1>4, <1>1, <1>2, RunFields DEF IInv, Types, StageInv, ZeroInv, Larger, Like,
        SamePage
  <2>14. NoHoleInv'
    <3>1. SUFFICES ASSUME ~loose', ckpt' = None PROVE SharedInv' /\ ForwardInv' /\ BackInv' /\ BootInv'
      BY DEF NoHoleInv
    <3>2. ~loose /\ ckpt = None /\ SharedInv /\ ForwardInv /\ BackInv /\ BootInv
      BY <2>1, <1>1, <1>2, <1>4, RunFields, <3>1 DEF IInv, NoHoleInv
    <3>3. SharedInv'
      BY <2>1, <1>1, <1>2, <1>4, RunFields, <3>2 DEF IInv, Types, StageInv, ZeroInv,
          SharedInv, ForwardInv, BackInv, LowMark, Ids, Cov, Have, Larger, Crest
    <3>4. ForwardInv'
      BY <2>1, <1>1, <1>2, <1>4, RunFields, <3>2 DEF IInv, Types, StageInv, ZeroInv,
          SharedInv, ForwardInv, InRows, Ids, Cov, Have, Larger, Crest, LowMark, Like,
          PagePos
    <3>5. BackInv'
      BY <2>1, <1>1, <1>2, <1>4, RunFields, <3>2 DEF IInv, Types, StageInv, ZeroInv,
          SharedInv, ForwardInv, BackInv, PageDone, Cov, Have, Larger, Crest, LowMark,
          Like, SamePage
    <3>6. BootInv'
      BY <2>1, <1>1, <1>2, <1>4, RunFields, <3>2 DEF IInv, Types, StageInv, ZeroInv,
          SharedInv, BootInv, PageDone, Cov, Have, Larger, Crest, LowMark, Like, SamePage
    <3> QED BY <3>3, <3>4, <3>5, <3>6
  <2> QED BY <2>10, <2>11, <2>12, <2>13, <2>14 DEF IInv
<1>5. CASE run.kind # "forward" /\ ~run.complete
  <2>1. /\ run' \in AllRuns /\ Like(run', run) /\ run'.top = run.top /\ run'.stage = "back"
        /\ run'.pos = p
    <3> HIDE DEF p
    <3>1. "back" \in Stages
      BY DEF Stages
    <3>2. run' = Again(run, "back", p)
      BY <1>1, <1>5
    <3>3. run \in AllRuns /\ p \in Nat
      BY <1>2, RunFields DEF IInv
    <3> QED BY <3>1, <3>2, <3>3, AgainIs
  <2>10. Types' /\ StageInv' /\ InRows' /\ PagePos'
    BY <2>1, <1>5, <1>1, <1>2, RunFields DEF IInv, Types, StageInv, InRows, PagePos, Like,
        SamePage, Larger, None, Kinds, Stages
  <2>11. CheckpointInv' /\ VerifyInv'
    <3>1. CheckpointInv'
      BY <1>1, <2>1 DEF IInv, CheckpointInv, Cov, Have
    <3>2. run.kind # "verify" => VerifyInv'
      BY <2>1 DEF VerifyInv, Like
    <3>3. Crest' = run.floor
      BY <1>1, <1>2, <2>1 DEF Crest, Larger, Like
    <3>4. run.kind = "verify" => VerifyInv'
      BY <1>1, <1>2, <1>5, <2>1, <3>3, RunFields DEF IInv, VerifyInv, Reached, Cov, Have,
          Larger, Ids, Like
    <3> QED BY <3>1, <3>2, <3>4
  <2>12. WindowInv' /\ WindowIsWhole'
    BY <2>1, <1>5, <1>1, <1>2, RunFields DEF IInv, Types, StageInv, WindowInv,
        WindowIsWhole, Cov, Have, Like, SamePage, Larger
  <2>13. ZeroInv'
    BY <2>1, <1>5, <1>1, <1>2, RunFields DEF IInv, Types, StageInv, ZeroInv, Larger, Like,
        SamePage
  <2>14. NoHoleInv'
    <3>1. SUFFICES ASSUME ~loose', ckpt' = None PROVE SharedInv' /\ ForwardInv' /\ BackInv' /\ BootInv'
      BY DEF NoHoleInv
    <3>2. ~loose /\ ckpt = None /\ SharedInv /\ ForwardInv /\ BackInv /\ BootInv
      BY <2>1, <1>1, <1>2, <1>5, RunFields, <3>1 DEF IInv, NoHoleInv
    <3>3. SharedInv'
      BY <2>1, <1>1, <1>2, <1>5, RunFields, <3>2 DEF IInv, Types, StageInv, ZeroInv,
          SharedInv, ForwardInv, BackInv, LowMark, Ids, Cov, Have, Larger, Crest
    <3>4. ForwardInv'
      BY <2>1, <1>1, <1>2, <1>5, RunFields, <3>2 DEF IInv, Types, StageInv, ZeroInv,
          SharedInv, ForwardInv, InRows, Ids, Cov, Have, Larger, Crest, LowMark, Like,
          PagePos
    <3>5. BackInv'
      BY <2>1, <1>1, <1>2, <1>5, RunFields, <3>2 DEF IInv, Types, StageInv, ZeroInv,
          SharedInv, ForwardInv, BackInv, PageDone, Cov, Have, Larger, Crest, LowMark,
          Like, SamePage
    <3>6. BootInv'
      BY <2>1, <1>1, <1>2, <1>5, RunFields, <3>2 DEF IInv, Types, StageInv, ZeroInv,
          SharedInv, BootInv, PageDone, Cov, Have, Larger, Crest, LowMark, Like, SamePage
    <3> QED BY <3>3, <3>4, <3>5, <3>6
  <2> QED BY <2>10, <2>11, <2>12, <2>13, <2>14 DEF IInv
<1> QED BY <1>3, <1>4, <1>5

-----------------------------------------------------------------------------
(* The writes after a page of the backfill.                                *)

(* latest_message_id after a page that starts at the head.                 *)
LEMMA SetHeadKeeps ==
  ASSUME IInv, SetHead PROVE IInv'
<1>1. /\ run.stage = "head" /\ run.kind \in {"verify", "window", "page", "full"}
      /\ latest' = Larger(latest, run.top) /\ run' = PastHead(run)
      /\ UNCHANGED <<posted, gone, rows, cursor, complete, ckpt, window, pend, moving, loose>>
  BY RunFields DEF IInv, SetHead, At, StageInv, Kinds, discordVars, cursorVars, verifyVars,
      tailVars
<1>2. /\ latest \in Nat /\ run.floor \in Nat /\ run.top \in Nat /\ run.since \in Nat /\ Crest \in Nat
      /\ run.floor <= Crest /\ run.top <= Crest /\ Crest \in {run.floor, run.top}
      /\ Low(run.page) \in Nat /\ Low(Eligible(run)) \in Nat /\ Low(rows) \in Nat /\ rows \in SUBSET Ids
  <2>1. rows \in SUBSET Ids /\ run.page \in SUBSET Ids /\ Eligible(run) \in SUBSET Ids
    BY EligibleIs, RunFields DEF IInv, Types, Ids
  <2>2. Low(run.page) \in Nat /\ Low(Eligible(run)) \in Nat /\ Low(rows) \in Nat
    BY <2>1, EndsAre
  <2> QED BY <2>1, <2>2, RunFields DEF IInv, Types, Crest, Larger
<1>3. latest' = Larger(latest, run.top) /\ run.page # {} /\ run.top # 0
      /\ (run.kind = "verify" => ckpt # None)
  BY <1>1 DEF IInv, PagePos, VerifyInv
<1>4. CASE run.kind = "window" /\ (Cut(run) \/ Short(run))
  <2>1. /\ run' \in AllRuns /\ Like(run', run) /\ run'.pos = run.pos /\ run'.top = run.top
        /\ SamePage(run', run) /\ run'.stage = "certify" /\ Crest' = Crest
    <3>1. "certify" \in Stages
      BY DEF Stages
    <3>2. run' = Goto(run, "certify")
      BY <1>1, <1>4 DEF PastHead
    <3>3. /\ run' \in AllRuns /\ Like(run', run) /\ run'.pos = run.pos /\ run'.top = run.top
          /\ SamePage(run', run) /\ run'.stage = "certify"
      BY <3>1, <3>2, GotoIs, RunFields DEF IInv
    <3> QED BY <3>3 DEF Like, Crest
  <2>10. Types' /\ StageInv' /\ InRows' /\ PagePos'
    BY <2>1, <1>4, <1>1, <1>2, <1>3 DEF IInv, Types, StageInv, InRows, PagePos, Like,
        SamePage, Larger, None, Kinds, Stages
  <2>11. CheckpointInv' /\ VerifyInv'
    BY <2>1, <1>4, <1>1, <1>2, <1>3 DEF IInv, Types, StageInv, CheckpointInv, VerifyInv,
        PagePos, Reached, PageDone, Cov, Have, Crest, Larger, Like, SamePage, None
  <2>12. WindowInv' /\ WindowIsWhole'
    <3>1. WindowIsWhole'
      BY <1>1 DEF IInv, WindowIsWhole, Have
    <3>2. Cut(run) => Low(run.page) < run.since
      <4>1. run.page \in SUBSET Ids
        BY RunFields DEF IInv
      <4> QED BY <4>1, <1>2, EligibleIs, LowIs, RunFields DEF IInv, Ids
    <3>3. WindowInv'
      BY <1>1, <1>2, <1>3, <1>4, <2>1, <3>2 DEF IInv, WindowInv, Like, SamePage, Cov, Have,
          Larger, Types
    <3> QED BY <3>1, <3>3
  <2>13. ZeroInv'
    BY <2>1, <1>4, <1>1, <1>2, <1>3 DEF IInv, Types, StageInv, ZeroInv, Larger, Like,
        SamePage
  <2>14. NoHoleInv'
    <3>1. loose
      BY <1>1, <1>3, <1>4 DEF IInv, WindowInv
    <3> QED BY <1>1, <3>1 DEF NoHoleInv
  <2> QED BY <2>10, <2>11, <2>12, <2>13, <2>14 DEF IInv
<1>5. CASE run.kind = "window" /\ ~(Cut(run) \/ Short(run))
  <2>1. /\ run' \in AllRuns /\ Like(run', run) /\ run'.pos = Low(run.page) /\ run'.top = run.top
        /\ run'.page = {} /\ run'.stage = "back" /\ Crest' = Crest
    <3>1. "back" \in Stages /\ Low(run.page) \in Nat
      BY <1>2 DEF Stages
    <3>2. run' = Again(run, "back", Low(run.page))
      BY <1>1, <1>5 DEF PastHead
    <3>3. run \in AllRuns
      BY RunFields DEF IInv
    <3>4. /\ run' \in AllRuns /\ Like(run', run) /\ run'.pos = Low(run.page) /\ run'.top = run.top
          /\ run'.page = {} /\ run'.stage = "back"
      BY <3>1, <3>2, <3>3, AgainIs
    <3> QED BY <3>4 DEF Like, Crest
  <2>10. Types' /\ StageInv' /\ InRows' /\ PagePos'
    BY <2>1, <1>5, <1>1, <1>2, <1>3 DEF IInv, Types, StageInv, InRows, PagePos, Like,
        SamePage, Larger, None, Kinds, Stages
  <2>11. CheckpointInv' /\ VerifyInv'
    BY <2>1, <1>5, <1>1, <1>2, <1>3 DEF IInv, Types, StageInv, CheckpointInv, VerifyInv,
        PagePos, Reached, PageDone, Cov, Have, Crest, Larger, Like, SamePage, None
  <2>12. WindowInv' /\ WindowIsWhole'
    <3>1. WindowIsWhole'
      BY <1>1 DEF IInv, WindowIsWhole, Have
    <3>2. Cut(run) => Low(run.page) < run.since
      <4>1. run.page \in SUBSET Ids
        BY RunFields DEF IInv
      <4> QED BY <4>1, <1>2, EligibleIs, LowIs, RunFields DEF IInv, Ids
    <3>3. WindowInv'
      BY <1>1, <1>2, <1>3, <1>5, <2>1, <3>2 DEF IInv, WindowInv, Like, SamePage, Cov, Have,
          Larger, Types
    <3> QED BY <3>1, <3>3
  <2>13. ZeroInv'
    BY <2>1, <1>5, <1>1, <1>2, <1>3 DEF IInv, Types, StageInv, ZeroInv, Larger, Like,
        SamePage
  <2>14. NoHoleInv'
    <3>1. loose
      BY <1>1, <1>3, <1>5 DEF IInv, WindowInv
    <3> QED BY <1>1, <3>1 DEF NoHoleInv
  <2> QED BY <2>10, <2>11, <2>12, <2>13, <2>14 DEF IInv
<1>6. CASE run.kind # "window" /\ Cut(run) /\ Eligible(run) = {}
  <2>1. /\ run' \in AllRuns /\ Like(run', run) /\ run'.pos = run.pos /\ run'.top = run.top
        /\ SamePage(run', run) /\ run'.stage = "final" /\ Crest' = Crest
    <3>1. "final" \in Stages
      BY DEF Stages
    <3>2. run' = Goto(run, "final")
      BY <1>1, <1>6 DEF PastHead
    <3>3. /\ run' \in AllRuns /\ Like(run', run) /\ run'.pos = run.pos /\ run'.top = run.top
          /\ SamePage(run', run) /\ run'.stage = "final"
      BY <3>1, <3>2, GotoIs, RunFields DEF IInv
    <3> QED BY <3>3 DEF Like, Crest
  <2>10. Types' /\ StageInv' /\ InRows' /\ PagePos'
    BY <2>1, <1>6, <1>1, <1>2, <1>3 DEF IInv, Types, StageInv, InRows, PagePos, Like,
        SamePage, Larger, None, Kinds, Stages
  <2>11. CheckpointInv' /\ VerifyInv'
    <3>1. run.kind # "verify"
      BY <1>1, <1>6, <1>2 DEF IInv, VerifyInv, PageDone
    <3> QED BY <1>1, <2>1, <3>1 DEF IInv, CheckpointInv, VerifyInv, Like, Cov, Have
  <2>12. WindowInv' /\ WindowIsWhole'
    BY <2>1, <1>6, <1>1, <1>2, <1>3 DEF IInv, Types, StageInv, WindowInv, WindowIsWhole,
        Cov, Have, Like, SamePage, Larger
  <2>13. ZeroInv'
    BY <2>1, <1>6, <1>1, <1>2, <1>3 DEF IInv, Types, StageInv, ZeroInv, Larger, Like,
        SamePage
  <2>14. NoHoleInv'
    <3>1. SUFFICES ASSUME ~loose', ckpt' = None PROVE SharedInv' /\ ForwardInv' /\ BackInv' /\ BootInv'
      BY DEF NoHoleInv
    <3>2. ~loose /\ ckpt = None /\ SharedInv /\ ForwardInv /\ BackInv /\ BootInv
      BY <2>1, <1>1, <1>2, <1>3, <1>6, <3>1 DEF IInv, NoHoleInv
    <3>3. SharedInv'
      <4>1. run.floor = 0 /\ Crest = run.top /\ ~complete
        BY <1>1, <1>2, <1>3, <1>6, <3>2 DEF BackInv
      <4>2. CASE latest = Crest /\ cursor # 0
        BY <1>1, <1>2, <3>2, <4>1, <4>2 DEF SharedInv, LowMark, Cov, Have, Larger
      <4>3. CASE latest = 0 /\ cursor = 0 /\ rows = Eligible(run)
        <5>1. latest' = Crest /\ PageDone
          BY <1>1, <1>2, <1>3, <1>6, <3>2, <4>1, <4>3 DEF BackInv, IInv, InRows, Larger
        <5> QED BY <1>1, <1>2, <4>1, <4>3, <5>1 DEF SharedInv, LowMark, PageDone, Cov, Have
      <4> QED BY <1>1, <1>3, <1>6, <3>2, <4>2, <4>3 DEF BackInv
    <3>4. ForwardInv'
      BY <2>1, <1>1, <1>2, <1>3, <1>6, <3>2 DEF IInv, Types, StageInv, ZeroInv, SharedInv,
          ForwardInv, InRows, Ids, Cov, Have, Larger, Crest, LowMark, Like, PagePos, InRows
    <3>5. BackInv'
      BY <2>1, <1>1, <1>2, <1>3, <1>6, <3>2 DEF IInv, Types, StageInv, ZeroInv, SharedInv,
          ForwardInv, BackInv, PageDone, Cov, Have, Larger, Crest, LowMark, Like, SamePage,
          InRows
    <3>6. BootInv'
      BY <2>1, <1>1, <1>2, <1>3, <1>6, <3>2 DEF IInv, Types, StageInv, ZeroInv, SharedInv,
          BootInv, PageDone, Cov, Have, Larger, Crest, LowMark, Like, SamePage, InRows
    <3> QED BY <3>3, <3>4, <3>5, <3>6
  <2> QED BY <2>10, <2>11, <2>12, <2>13, <2>14 DEF IInv
<1>7. CASE run.kind # "window" /\ ~(Cut(run) /\ Eligible(run) = {})
  <2>1. /\ run' \in AllRuns /\ Like(run', run) /\ run'.pos = run.pos /\ run'.top = run.top
        /\ SamePage(run', run) /\ run'.stage = "cursor" /\ Crest' = Crest
    <3>1. "cursor" \in Stages
      BY DEF Stages
    <3>2. run' = Goto(run, "cursor")
      BY <1>1, <1>7 DEF PastHead
    <3>3. /\ run' \in AllRuns /\ Like(run', run) /\ run'.pos = run.pos /\ run'.top = run.top
          /\ SamePage(run', run) /\ run'.stage = "cursor"
      BY <3>1, <3>2, GotoIs, RunFields DEF IInv
    <3> QED BY <3>3 DEF Like, Crest
  <2>10. Types' /\ StageInv' /\ InRows' /\ PagePos'
    <3>1. Types'
      BY <2>1, <1>1, <1>2, <1>3, <1>7, EligibleIs, RunFields DEF IInv, Types, Larger
    <3>2. StageInv'
      BY <2>1, <1>1, <1>2, <1>3, <1>7, EligibleIs, RunFields DEF IInv, Types, StageInv,
          Like, Kinds, Stages
    <3>3. InRows'
      BY <2>1, <1>1, <1>2, <1>3, <1>7, EligibleIs, RunFields DEF IInv, Types, StageInv,
          InRows, Like, Larger, None
    <3>4. PagePos'
      BY <2>1, <1>1, <1>2, <1>3, <1>7, EligibleIs, RunFields DEF IInv, Types, StageInv,
          PagePos, Like, SamePage, Larger, Kinds
    <3> QED BY <3>1, <3>2, <3>3, <3>4
  <2>11. CheckpointInv' /\ VerifyInv'
    <3>1. CheckpointInv'
      BY <1>1 DEF IInv, CheckpointInv, Cov, Have
    <3>2. run.kind = "verify" => PageDone' /\ (~loose => Cov(Crest + 1, latest)) /\ ckpt # None
      BY <1>1, <2>1, PageDoneKept DEF IInv, VerifyInv, Reached
    <3>3. VerifyInv'
      BY <1>1, <1>2, <2>1, <3>2 DEF VerifyInv, Like, Cov, Have, Larger, Ids
    <3> QED BY <3>1, <3>3
  <2>12. WindowInv' /\ WindowIsWhole'
    BY <2>1, <1>7, <1>1, <1>2, <1>3 DEF IInv, Types, StageInv, WindowInv, WindowIsWhole,
        Cov, Have, Like, SamePage, Larger
  <2>13. ZeroInv'
    BY <2>1, <1>7, <1>1, <1>2, <1>3 DEF IInv, Types, StageInv, ZeroInv, Larger, Like,
        SamePage
  <2>14. NoHoleInv'
    <3>1. SUFFICES ASSUME ~loose', ckpt' = None PROVE SharedInv' /\ ForwardInv' /\ BackInv' /\ BootInv'
      BY DEF NoHoleInv
    <3>2. ~loose /\ ckpt = None /\ SharedInv /\ ForwardInv /\ BackInv /\ BootInv
      BY <2>1, <1>1, <1>2, <1>3, <1>7, <3>1 DEF IInv, NoHoleInv
    <3>3. SharedInv'
      <4>1. run.floor = 0 /\ Crest = run.top /\ ~complete
        BY <1>1, <1>2, <1>3, <1>7, <3>2 DEF BackInv
      <4>2. CASE latest = Crest /\ cursor # 0
        BY <1>1, <1>2, <3>2, <4>1, <4>2 DEF SharedInv, LowMark, Cov, Have, Larger
      <4>3. CASE latest = 0 /\ cursor = 0 /\ rows = Eligible(run)
        <5>1. latest' = Crest /\ PageDone
          BY <1>1, <1>2, <1>3, <1>7, <3>2, <4>1, <4>3 DEF BackInv, IInv, InRows, Larger
        <5> QED BY <1>1, <1>2, <4>1, <4>3, <5>1 DEF SharedInv, LowMark, PageDone, Cov, Have
      <4> QED BY <1>1, <1>3, <1>7, <3>2, <4>2, <4>3 DEF BackInv
    <3>4. ForwardInv'
      BY <2>1, <1>1, <1>2, <1>3, <1>7, <3>2 DEF IInv, Types, StageInv, ZeroInv, SharedInv,
          ForwardInv, InRows, Ids, Cov, Have, Larger, Crest, LowMark, Like, PagePos, InRows
    <3>5. BackInv'
      <4>1. run.floor = 0 /\ Crest = run.top /\ latest' = Crest /\ ~complete /\ ~run.complete
        BY <1>1, <1>2, <1>3, <1>7, <3>2 DEF BackInv, Larger
      <4>2. PageDone'
        <5>1. PageDone
          BY <1>1, <1>3, <1>7, <3>2, EligibleIs, RunFields DEF IInv, BackInv
        <5> QED BY <1>1, <2>1, <5>1, PageDoneKept
      <4> QED BY <1>1, <2>1, <4>1, <4>2 DEF BackInv, Like
    <3>6. BootInv'
      BY <2>1, <1>1, <1>2, <1>3, <1>7, <3>2 DEF IInv, Types, StageInv, ZeroInv, SharedInv,
          BootInv, PageDone, Cov, Have, Larger, Crest, LowMark, Like, SamePage, InRows
    <3> QED BY <3>3, <3>4, <3>5, <3>6
  <2> QED BY <2>10, <2>11, <2>12, <2>13, <2>14 DEF IInv
<1> QED BY <1>4, <1>5, <1>6, <1>7

(* backfill_cursor after a page.                                           *)
LEMMA SetCursorKeeps ==
  ASSUME IInv, SetCursor PROVE IInv'
<1>1. /\ run.stage = "cursor" /\ run.kind \in {"verify", "page", "full", "boot"}
      /\ cursor' = Low(Eligible(run))
      /\ run' = IF Cut(run) \/ run.kind = "boot" THEN Goto(run, "final")
               ELSE IF run.kind = "verify" THEN Goto(run, "save") ELSE PastCursor(run)
      /\ UNCHANGED <<posted, gone, rows, latest, complete, ckpt, window, pend, moving, loose>>
  BY RunFields DEF IInv, SetCursor, At, StageInv, Kinds, discordVars, cursorVars,
      verifyVars, tailVars
<1>2. /\ latest \in Nat /\ run.floor \in Nat /\ run.top \in Nat /\ run.since \in Nat /\ Crest \in Nat
      /\ run.floor <= Crest /\ run.top <= Crest /\ Crest \in {run.floor, run.top}
      /\ Low(run.page) \in Nat /\ Low(Eligible(run)) \in Nat /\ Low(rows) \in Nat /\ rows \in SUBSET Ids
  <2>1. rows \in SUBSET Ids /\ run.page \in SUBSET Ids /\ Eligible(run) \in SUBSET Ids
    BY EligibleIs, RunFields DEF IInv, Types, Ids
  <2>2. Low(run.page) \in Nat /\ Low(Eligible(run)) \in Nat /\ Low(rows) \in Nat
    BY <2>1, EndsAre
  <2> QED BY <2>1, <2>2, RunFields DEF IInv, Types, Crest, Larger
<1>3. /\ Eligible(run) # {} /\ run.top # 0 /\ cursor' # 0 /\ cursor' \in Nat
      /\ (~Cut(run) => Eligible(run) = run.page)
      /\ (run.kind = "verify" => ckpt # None /\ ~Cut(run))
  <2>1. Eligible(run) \in SUBSET Ids /\ Eligible(run) # {} /\ run.top # 0
    BY <1>1, EligibleIs, RunFields DEF IInv, PagePos
  <2>2. run.kind = "verify" => ckpt # None /\ run.since = 0
    BY <1>1 DEF IInv, VerifyInv, StageInv
  <2>3. run.since = 0 => ~Cut(run)
    BY EligibleIs, RunFields DEF IInv, Ids
  <2>4. ~Cut(run) => Eligible(run) = run.page
    BY DEF Cut
  <2> QED BY <1>1, <1>2, <2>1, <2>2, <2>3, <2>4, EndsAre
<1>4. CASE Cut(run) \/ run.kind = "boot"
  <2>1. /\ run' \in AllRuns /\ Like(run', run) /\ run'.pos = run.pos /\ run'.top = run.top
        /\ SamePage(run', run) /\ run'.stage = "final" /\ Crest' = Crest
    <3>1. "final" \in Stages
      BY DEF Stages
    <3>2. run' = Goto(run, "final")
      BY <1>1, <1>4 DEF PastCursor
    <3>3. /\ run' \in AllRuns /\ Like(run', run) /\ run'.pos = run.pos /\ run'.top = run.top
          /\ SamePage(run', run) /\ run'.stage = "final"
      BY <3>1, <3>2, GotoIs, RunFields DEF IInv
    <3> QED BY <3>3 DEF Like, Crest
  <2>10. Types' /\ StageInv' /\ InRows' /\ PagePos'
    BY <2>1, <1>4, <1>1, <1>2, <1>3 DEF IInv, Types, StageInv, InRows, PagePos, Like,
        SamePage, Larger, None, Kinds, Stages
  <2>11. CheckpointInv' /\ VerifyInv'
    <3>1. CheckpointInv'
      BY <1>1 DEF IInv, CheckpointInv, Cov, Have
    <3>2. VerifyInv'
      BY <1>1, <1>3, <1>4, <2>1 DEF VerifyInv, Like
    <3> QED BY <3>1, <3>2
  <2>12. WindowInv' /\ WindowIsWhole'
    BY <2>1, <1>4, <1>1, <1>2, <1>3 DEF IInv, Types, StageInv, WindowInv, WindowIsWhole,
        Cov, Have, Like, SamePage, Larger
  <2>13. ZeroInv'
    BY <2>1, <1>4, <1>1, <1>2, <1>3 DEF IInv, Types, StageInv, ZeroInv, Larger, Like,
        SamePage
  <2>14. NoHoleInv'
    <3>1. SUFFICES ASSUME ~loose', ckpt' = None PROVE SharedInv' /\ ForwardInv' /\ BackInv' /\ BootInv'
      BY DEF NoHoleInv
    <3>2. ~loose /\ ckpt = None /\ SharedInv /\ ForwardInv /\ BackInv /\ BootInv
      BY <2>1, <1>1, <1>2, <1>3, <1>4, <3>1 DEF IInv, NoHoleInv
    <3>3. SharedInv'
      <4>1. CASE run.kind = "boot"
        BY <1>1, <3>2, <4>1 DEF BootInv, SharedInv, Cov, Ids, IInv, Types
      <4>2. CASE run.kind # "boot"
        <5>1. latest = Crest /\ PageDone
          BY <1>1, <1>3, <3>2, <4>2 DEF BackInv
        <5> QED BY <1>1, <1>2, <1>3, <3>2, <5>1 DEF SharedInv, LowMark, PageDone, Cov, Have
      <4> QED BY <4>1, <4>2
    <3>4. ForwardInv'
      BY <2>1, <1>1, <1>2, <1>3, <1>4, <3>2 DEF IInv, Types, StageInv, ZeroInv, SharedInv,
          ForwardInv, InRows, Ids, Cov, Have, Larger, Crest, LowMark, Like, PagePos
    <3>5. BackInv'
      BY <2>1, <1>1, <1>2, <1>3, <1>4, <3>2 DEF IInv, Types, StageInv, ZeroInv, SharedInv,
          ForwardInv, BackInv, PageDone, Cov, Have, Larger, Crest, LowMark, Like, SamePage
    <3>6. BootInv'
      BY <2>1, <1>1, <1>2, <1>3, <1>4, <3>2 DEF IInv, Types, StageInv, ZeroInv, SharedInv,
          BootInv, PageDone, Cov, Have, Larger, Crest, LowMark, Like, SamePage
    <3> QED BY <3>3, <3>4, <3>5, <3>6
  <2> QED BY <2>10, <2>11, <2>12, <2>13, <2>14 DEF IInv
<1>5. CASE ~Cut(run) /\ run.kind = "verify"
  <2>1. /\ run' \in AllRuns /\ Like(run', run) /\ run'.pos = run.pos /\ run'.top = run.top
        /\ SamePage(run', run) /\ run'.stage = "save" /\ Crest' = Crest
    <3>1. "save" \in Stages
      BY DEF Stages
    <3>2. run' = Goto(run, "save")
      BY <1>1, <1>5 DEF PastCursor
    <3>3. /\ run' \in AllRuns /\ Like(run', run) /\ run'.pos = run.pos /\ run'.top = run.top
          /\ SamePage(run', run) /\ run'.stage = "save"
      BY <3>1, <3>2, GotoIs, RunFields DEF IInv
    <3> QED BY <3>3 DEF Like, Crest
  <2>10. Types' /\ StageInv' /\ InRows' /\ PagePos'
    BY <2>1, <1>5, <1>1, <1>2, <1>3 DEF IInv, Types, StageInv, InRows, PagePos, Like,
        SamePage, Larger, None, Kinds, Stages
  <2>11. CheckpointInv' /\ VerifyInv'
    <3>1. CheckpointInv'
      BY <1>1 DEF IInv, CheckpointInv, Cov, Have
    <3>2. PageDone' /\ (~loose => Cov(Crest + 1, latest)) /\ ckpt # None
      BY <1>1, <1>5, <2>1, PageDoneKept DEF IInv, VerifyInv, Reached
    <3>3. VerifyInv'
      BY <1>1, <1>2, <2>1, <3>2 DEF VerifyInv, Like, Cov, Have
    <3> QED BY <3>1, <3>3
  <2>12. WindowInv' /\ WindowIsWhole'
    BY <2>1, <1>5, <1>1, <1>2, <1>3 DEF IInv, Types, StageInv, WindowInv, WindowIsWhole,
        Cov, Have, Like, SamePage, Larger
  <2>13. ZeroInv'
    BY <2>1, <1>5, <1>1, <1>2, <1>3 DEF IInv, Types, StageInv, ZeroInv, Larger, Like,
        SamePage
  <2>14. NoHoleInv'
    BY <1>1, <1>3, <1>5 DEF NoHoleInv
  <2> QED BY <2>10, <2>11, <2>12, <2>13, <2>14 DEF IInv
<1>6. CASE ~Cut(run) /\ run.kind \in {"page", "full"} /\ Short(run)
  <2>1. /\ run' \in AllRuns /\ Like(run', run) /\ run'.pos = run.pos /\ run'.top = run.top
        /\ SamePage(run', run) /\ run'.stage = "complete" /\ Crest' = Crest
    <3>1. "complete" \in Stages
      BY DEF Stages
    <3>2. run' = Goto(run, "complete")
      BY <1>1, <1>6 DEF PastCursor
    <3>3. /\ run' \in AllRuns /\ Like(run', run) /\ run'.pos = run.pos /\ run'.top = run.top
          /\ SamePage(run', run) /\ run'.stage = "complete"
      BY <3>1, <3>2, GotoIs, RunFields DEF IInv
    <3> QED BY <3>3 DEF Like, Crest
  <2>10. Types' /\ StageInv' /\ InRows' /\ PagePos'
    BY <2>1, <1>6, <1>1, <1>2, <1>3 DEF IInv, Types, StageInv, InRows, PagePos, Like,
        SamePage, Larger, None, Kinds, Stages
  <2>11. CheckpointInv' /\ VerifyInv'
    <3>1. CheckpointInv'
      BY <1>1 DEF IInv, CheckpointInv, Cov, Have
    <3>2. VerifyInv'
      BY <1>1, <1>6, <2>1 DEF VerifyInv, Like
    <3> QED BY <3>1, <3>2
  <2>12. WindowInv' /\ WindowIsWhole'
    BY <2>1, <1>6, <1>1, <1>2, <1>3 DEF IInv, Types, StageInv, WindowInv, WindowIsWhole,
        Cov, Have, Like, SamePage, Larger
  <2>13. ZeroInv'
    BY <2>1, <1>6, <1>1, <1>2, <1>3 DEF IInv, Types, StageInv, ZeroInv, Larger, Like,
        SamePage
  <2>14. NoHoleInv'
    <3>1. SUFFICES ASSUME ~loose', ckpt' = None PROVE SharedInv' /\ ForwardInv' /\ BackInv' /\ BootInv'
      BY DEF NoHoleInv
    <3>2. ~loose /\ ckpt = None /\ SharedInv /\ ForwardInv /\ BackInv /\ BootInv
      BY <2>1, <1>1, <1>2, <1>3, <1>6, <3>1 DEF IInv, NoHoleInv
    <3>3. SharedInv'
      <4>1. CASE run.kind = "boot"
        BY <1>1, <3>2, <4>1 DEF BootInv, SharedInv, Cov, Ids, IInv, Types
      <4>2. CASE run.kind # "boot"
        <5>1. latest = Crest /\ PageDone
          BY <1>1, <1>3, <3>2, <4>2 DEF BackInv
        <5> QED BY <1>1, <1>2, <1>3, <3>2, <5>1 DEF SharedInv, LowMark, PageDone, Cov, Have
      <4> QED BY <4>1, <4>2
    <3>4. ForwardInv'
      BY <2>1, <1>1, <1>2, <1>3, <1>6, <3>2 DEF IInv, Types, StageInv, ZeroInv, SharedInv,
          ForwardInv, InRows, Ids, Cov, Have, Larger, Crest, LowMark, Like, PagePos
    <3>5. BackInv'
      BY <2>1, <1>1, <1>2, <1>3, <1>6, <3>2 DEF IInv, Types, StageInv, ZeroInv, SharedInv,
          ForwardInv, BackInv, PageDone, Cov, Have, Larger, Crest, LowMark, Like, SamePage
    <3>6. BootInv'
      BY <2>1, <1>1, <1>2, <1>3, <1>6, <3>2 DEF IInv, Types, StageInv, ZeroInv, SharedInv,
          BootInv, PageDone, Cov, Have, Larger, Crest, LowMark, Like, SamePage
    <3> QED BY <3>3, <3>4, <3>5, <3>6
  <2> QED BY <2>10, <2>11, <2>12, <2>13, <2>14 DEF IInv
<1>7. CASE ~Cut(run) /\ run.kind = "page" /\ ~Short(run)
  <2>1. /\ run' \in AllRuns /\ Like(run', run) /\ run'.pos = run.pos /\ run'.top = run.top
        /\ SamePage(run', run) /\ run'.stage = "final" /\ Crest' = Crest
    <3>1. "final" \in Stages
      BY DEF Stages
    <3>2. run' = Goto(run, "final")
      BY <1>1, <1>7 DEF PastCursor
    <3>3. /\ run' \in AllRuns /\ Like(run', run) /\ run'.pos = run.pos /\ run'.top = run.top
          /\ SamePage(run', run) /\ run'.stage = "final"
      BY <3>1, <3>2, GotoIs, RunFields DEF IInv
    <3> QED BY <3>3 DEF Like, Crest
  <2>10. Types' /\ StageInv' /\ InRows' /\ PagePos'
    BY <2>1, <1>7, <1>1, <1>2, <1>3 DEF IInv, Types, StageInv, InRows, PagePos, Like,
        SamePage, Larger, None, Kinds, Stages
  <2>11. CheckpointInv' /\ VerifyInv'
    <3>1. CheckpointInv'
      BY <1>1 DEF IInv, CheckpointInv, Cov, Have
    <3>2. VerifyInv'
      BY <1>1, <1>7, <2>1 DEF VerifyInv, Like
    <3> QED BY <3>1, <3>2
  <2>12. WindowInv' /\ WindowIsWhole'
    BY <2>1, <1>7, <1>1, <1>2, <1>3 DEF IInv, Types, StageInv, WindowInv, WindowIsWhole,
        Cov, Have, Like, SamePage, Larger
  <2>13. ZeroInv'
    BY <2>1, <1>7, <1>1, <1>2, <1>3 DEF IInv, Types, StageInv, ZeroInv, Larger, Like,
        SamePage
  <2>14. NoHoleInv'
    <3>1. SUFFICES ASSUME ~loose', ckpt' = None PROVE SharedInv' /\ ForwardInv' /\ BackInv' /\ BootInv'
      BY DEF NoHoleInv
    <3>2. ~loose /\ ckpt = None /\ SharedInv /\ ForwardInv /\ BackInv /\ BootInv
      BY <2>1, <1>1, <1>2, <1>3, <1>7, <3>1 DEF IInv, NoHoleInv
    <3>3. SharedInv'
      <4>1. CASE run.kind = "boot"
        BY <1>1, <3>2, <4>1 DEF BootInv, SharedInv, Cov, Ids, IInv, Types
      <4>2. CASE run.kind # "boot"
        <5>1. latest = Crest /\ PageDone
          BY <1>1, <1>3, <3>2, <4>2 DEF BackInv
        <5> QED BY <1>1, <1>2, <1>3, <3>2, <5>1 DEF SharedInv, LowMark, PageDone, Cov, Have
      <4> QED BY <4>1, <4>2
    <3>4. ForwardInv'
      BY <2>1, <1>1, <1>2, <1>3, <1>7, <3>2 DEF IInv, Types, StageInv, ZeroInv, SharedInv,
          ForwardInv, InRows, Ids, Cov, Have, Larger, Crest, LowMark, Like, PagePos
    <3>5. BackInv'
      BY <2>1, <1>1, <1>2, <1>3, <1>7, <3>2 DEF IInv, Types, StageInv, ZeroInv, SharedInv,
          ForwardInv, BackInv, PageDone, Cov, Have, Larger, Crest, LowMark, Like, SamePage
    <3>6. BootInv'
      BY <2>1, <1>1, <1>2, <1>3, <1>7, <3>2 DEF IInv, Types, StageInv, ZeroInv, SharedInv,
          BootInv, PageDone, Cov, Have, Larger, Crest, LowMark, Like, SamePage
    <3> QED BY <3>3, <3>4, <3>5, <3>6
  <2> QED BY <2>10, <2>11, <2>12, <2>13, <2>14 DEF IInv
<1>8. CASE ~Cut(run) /\ run.kind = "full" /\ ~Short(run)
  <2>1. /\ run' \in AllRuns /\ Like(run', run) /\ run'.pos = Low(run.page) /\ run'.top = run.top
        /\ run'.page = {} /\ run'.stage = "back" /\ Crest' = Crest
    <3>1. "back" \in Stages /\ Low(run.page) \in Nat
      BY <1>2 DEF Stages
    <3>2. run' = Again(run, "back", Low(run.page))
      BY <1>1, <1>8 DEF PastCursor
    <3>3. run \in AllRuns
      BY RunFields DEF IInv
    <3>4. /\ run' \in AllRuns /\ Like(run', run) /\ run'.pos = Low(run.page) /\ run'.top = run.top
          /\ run'.page = {} /\ run'.stage = "back"
      BY <3>1, <3>2, <3>3, AgainIs
    <3> QED BY <3>4 DEF Like, Crest
  <2>10. Types' /\ StageInv' /\ InRows' /\ PagePos'
    BY <2>1, <1>8, <1>1, <1>2, <1>3 DEF IInv, Types, StageInv, InRows, PagePos, Like,
        SamePage, Larger, None, Kinds, Stages
  <2>11. CheckpointInv' /\ VerifyInv'
    <3>1. CheckpointInv'
      BY <1>1 DEF IInv, CheckpointInv, Cov, Have
    <3>2. VerifyInv'
      BY <1>1, <1>8, <2>1 DEF VerifyInv, Like
    <3> QED BY <3>1, <3>2
  <2>12. WindowInv' /\ WindowIsWhole'
    BY <2>1, <1>8, <1>1, <1>2, <1>3 DEF IInv, Types, StageInv, WindowInv, WindowIsWhole,
        Cov, Have, Like, SamePage, Larger
  <2>13. ZeroInv'
    BY <2>1, <1>8, <1>1, <1>2, <1>3 DEF IInv, Types, StageInv, ZeroInv, Larger, Like,
        SamePage
  <2>14. NoHoleInv'
    <3>1. SUFFICES ASSUME ~loose', ckpt' = None PROVE SharedInv' /\ ForwardInv' /\ BackInv' /\ BootInv'
      BY DEF NoHoleInv
    <3>2. ~loose /\ ckpt = None /\ SharedInv /\ ForwardInv /\ BackInv /\ BootInv
      BY <2>1, <1>1, <1>2, <1>3, <1>8, <3>1 DEF IInv, NoHoleInv
    <3>3. SharedInv'
      <4>1. CASE run.kind = "boot"
        BY <1>1, <3>2, <4>1 DEF BootInv, SharedInv, Cov, Ids, IInv, Types
      <4>2. CASE run.kind # "boot"
        <5>1. latest = Crest /\ PageDone
          BY <1>1, <1>3, <3>2, <4>2 DEF BackInv
        <5> QED BY <1>1, <1>2, <1>3, <3>2, <5>1 DEF SharedInv, LowMark, PageDone, Cov, Have
      <4> QED BY <4>1, <4>2
    <3>4. ForwardInv'
      BY <2>1, <1>1, <1>2, <1>3, <1>8, <3>2 DEF IInv, Types, StageInv, ZeroInv, SharedInv,
          ForwardInv, InRows, Ids, Cov, Have, Larger, Crest, LowMark, Like, PagePos
    <3>5. BackInv'
      <4>1. latest = Crest /\ PageDone /\ ~complete /\ ~run.complete /\ (run.floor # 0 => run.top < run.floor)
        BY <1>1, <1>8, <3>2 DEF BackInv
      <4>2. Low(run.page) # 0 /\ Low(run.page) <= Crest /\ Cov(Low(run.page), Crest)
        BY <1>1, <1>3, <1>8, <4>1 DEF PageDone
      <4>3. run'.complete = complete'
        <5>1. complete = FALSE /\ run.complete = FALSE
          BY <4>1, RunFields DEF IInv, Types
        <5> QED BY <1>1, <2>1, <5>1 DEF Like
      <4> QED BY <1>1, <1>3, <1>8, <2>1, <4>1, <4>2, <4>3 DEF BackInv, Like, Cov, Have
    <3>6. BootInv'
      BY <2>1, <1>1, <1>2, <1>3, <1>8, <3>2 DEF IInv, Types, StageInv, ZeroInv, SharedInv,
          BootInv, PageDone, Cov, Have, Larger, Crest, LowMark, Like, SamePage
    <3> QED BY <3>3, <3>4, <3>5, <3>6
  <2> QED BY <2>10, <2>11, <2>12, <2>13, <2>14 DEF IInv
<1> QED BY <1>1, <1>4, <1>5, <1>6, <1>7, <1>8

(* The checkpoint of a verification after a page.                          *)
LEMMA SaveCheckpointKeeps ==
  ASSUME IInv, SaveCheckpoint PROVE IInv'
<1>1. /\ run.stage = "save" /\ run.kind = "verify"
      /\ ckpt' = [latest |-> Crest, before |-> Low(run.page)]
      /\ run' = PastCursor(run)
      /\ UNCHANGED <<posted, gone, rows, latest, cursor, complete, window, pend, moving, loose>>
  BY RunFields DEF IInv, SaveCheckpoint, At, StageInv, Kinds, Crest, discordVars,
      cursorVars, verifyVars, tailVars
<1>2. /\ latest \in Nat /\ run.floor \in Nat /\ run.top \in Nat /\ run.since \in Nat /\ Crest \in Nat
      /\ run.floor <= Crest /\ run.top <= Crest /\ Crest \in {run.floor, run.top}
      /\ Low(run.page) \in Nat /\ Low(Eligible(run)) \in Nat /\ Low(rows) \in Nat /\ rows \in SUBSET Ids
  <2>1. rows \in SUBSET Ids /\ run.page \in SUBSET Ids /\ Eligible(run) \in SUBSET Ids
    BY EligibleIs, RunFields DEF IInv, Types, Ids
  <2>2. Low(run.page) \in Nat /\ Low(Eligible(run)) \in Nat /\ Low(rows) \in Nat
    BY <2>1, EndsAre
  <2> QED BY <2>1, <2>2, RunFields DEF IInv, Types, Crest, Larger
<1>3. /\ PageDone /\ Eligible(run) = run.page /\ ~Cut(run) /\ Low(run.page) # 0 /\ Crest # 0
      /\ (~loose => Cov(Crest + 1, latest)) /\ ckpt' # None
      /\ ckpt'.latest = Crest /\ ckpt'.before = Low(run.page)
      /\ ckpt' \in [latest : Nat, before : Nat \cup {-1}] /\ Crest \in rows
  <2>1. PageDone /\ (~loose => Cov(Crest + 1, latest)) /\ run.since = 0
    BY <1>1 DEF IInv, VerifyInv, StageInv, Reached
  <2>2. Eligible(run) = run.page /\ ~Cut(run)
    BY <2>1, EligibleIs, RunFields DEF IInv, Ids, Cut
  <2>3. run.page \in SUBSET Ids /\ run.page # {}
    BY <2>1, <2>2, RunFields DEF IInv, PageDone
  <2>4. Low(run.page) # 0 /\ Crest # 0
    BY <1>2, <2>1, <2>3, EndsAre DEF PageDone
  <2>5. Crest \in rows
    BY <1>2, <2>4 DEF IInv, InRows
  <2>6. /\ ckpt'.latest = Crest /\ ckpt'.before = Low(run.page) /\ ckpt' # None
        /\ ckpt' \in [latest : Nat, before : Nat \cup {-1}]
    BY <1>1, <1>2, <2>4 DEF None
  <2> QED BY <2>1, <2>2, <2>4, <2>5, <2>6
<1>4. CASE Short(run)
  <2>1. /\ run' \in AllRuns /\ Like(run', run) /\ run'.pos = run.pos /\ run'.top = run.top
        /\ SamePage(run', run) /\ run'.stage = "complete" /\ Crest' = Crest
    <3>1. "complete" \in Stages
      BY DEF Stages
    <3>2. run' = Goto(run, "complete")
      BY <1>1, <1>4 DEF PastCursor
    <3>3. /\ run' \in AllRuns /\ Like(run', run) /\ run'.pos = run.pos /\ run'.top = run.top
          /\ SamePage(run', run) /\ run'.stage = "complete"
      BY <3>1, <3>2, GotoIs, RunFields DEF IInv
    <3> QED BY <3>3 DEF Like, Crest
  <2>10. Types' /\ StageInv' /\ InRows' /\ PagePos'
    BY <2>1, <1>4, <1>1, <1>2, <1>3 DEF IInv, Types, StageInv, InRows, PagePos, Like,
        SamePage, Larger, None, Kinds, Stages
  <2>11. CheckpointInv' /\ VerifyInv'
    <3>1. CheckpointInv'
      <4>1. \A id \in Ids : Low(run.page) <= id /\ id <= Crest => id \in Have'
        BY <1>1, <1>3 DEF PageDone, Cov, Have
      <4>2. ckpt'.before > 0 /\ ckpt'.latest # 0
        BY <1>2, <1>3
      <4> QED BY <1>3, <4>1, <4>2 DEF CheckpointInv, Cov
    <3>2. VerifyInv'
      BY <1>1, <1>2, <1>3, <1>4, <2>1 DEF VerifyInv, PageDone, Reached, Like, SamePage,
          Cov, Have
    <3> QED BY <3>1, <3>2
  <2>12. WindowInv' /\ WindowIsWhole'
    BY <2>1, <1>4, <1>1, <1>2, <1>3 DEF IInv, Types, StageInv, WindowInv, WindowIsWhole,
        Cov, Have, Like, SamePage, Larger
  <2>13. ZeroInv'
    BY <2>1, <1>4, <1>1, <1>2, <1>3 DEF IInv, Types, StageInv, ZeroInv, Larger, Like,
        SamePage
  <2>14. NoHoleInv'
    BY <1>3 DEF NoHoleInv
  <2> QED BY <2>10, <2>11, <2>12, <2>13, <2>14 DEF IInv
<1>5. CASE ~Short(run)
  <2>1. /\ run' \in AllRuns /\ Like(run', run) /\ run'.pos = Low(run.page) /\ run'.top = run.top
        /\ run'.page = {} /\ run'.stage = "back" /\ Crest' = Crest
    <3>1. "back" \in Stages /\ Low(run.page) \in Nat
      BY <1>2 DEF Stages
    <3>2. run' = Again(run, "back", Low(run.page))
      BY <1>1, <1>5 DEF PastCursor
    <3>3. run \in AllRuns
      BY RunFields DEF IInv
    <3>4. /\ run' \in AllRuns /\ Like(run', run) /\ run'.pos = Low(run.page) /\ run'.top = run.top
          /\ run'.page = {} /\ run'.stage = "back"
      BY <3>1, <3>2, <3>3, AgainIs
    <3> QED BY <3>4 DEF Like, Crest
  <2>10. Types' /\ StageInv' /\ InRows' /\ PagePos'
    BY <2>1, <1>5, <1>1, <1>2, <1>3 DEF IInv, Types, StageInv, InRows, PagePos, Like,
        SamePage, Larger, None, Kinds, Stages
  <2>11. CheckpointInv' /\ VerifyInv'
    <3>1. CheckpointInv'
      <4>1. \A id \in Ids : Low(run.page) <= id /\ id <= Crest => id \in Have'
        BY <1>1, <1>3 DEF PageDone, Cov, Have
      <4>2. ckpt'.before > 0 /\ ckpt'.latest # 0
        BY <1>2, <1>3
      <4> QED BY <1>3, <4>1, <4>2 DEF CheckpointInv, Cov
    <3>2. VerifyInv'
      BY <1>1, <1>2, <1>3, <1>5, <2>1 DEF VerifyInv, PageDone, Reached, Like, SamePage,
          Cov, Have
    <3> QED BY <3>1, <3>2
  <2>12. WindowInv' /\ WindowIsWhole'
    BY <2>1, <1>5, <1>1, <1>2, <1>3 DEF IInv, Types, StageInv, WindowInv, WindowIsWhole,
        Cov, Have, Like, SamePage, Larger
  <2>13. ZeroInv'
    BY <2>1, <1>5, <1>1, <1>2, <1>3 DEF IInv, Types, StageInv, ZeroInv, Larger, Like,
        SamePage
  <2>14. NoHoleInv'
    BY <1>3 DEF NoHoleInv
  <2> QED BY <2>10, <2>11, <2>12, <2>13, <2>14 DEF IInv
<1> QED BY <1>4, <1>5

(* history_complete after the last page.                                   *)
LEMMA SetCompleteKeeps ==
  ASSUME IInv, SetComplete PROVE IInv'
<1>1. /\ run.stage = "complete" /\ run.kind \in {"verify", "page", "full", "boot"}
      /\ complete' = TRUE /\ run' = Goto(run, "final")
      /\ UNCHANGED <<posted, gone, rows, latest, cursor, ckpt, window, pend, moving, loose>>
  BY RunFields DEF IInv, SetComplete, At, StageInv, Kinds, discordVars, cursorVars,
      verifyVars, tailVars
<1>2. /\ latest \in Nat /\ run.floor \in Nat /\ run.top \in Nat /\ run.since \in Nat /\ Crest \in Nat
      /\ run.floor <= Crest /\ run.top <= Crest /\ Crest \in {run.floor, run.top}
      /\ Low(run.page) \in Nat /\ Low(Eligible(run)) \in Nat /\ Low(rows) \in Nat /\ rows \in SUBSET Ids
  <2>1. rows \in SUBSET Ids /\ run.page \in SUBSET Ids /\ Eligible(run) \in SUBSET Ids
    BY EligibleIs, RunFields DEF IInv, Types, Ids
  <2>2. Low(run.page) \in Nat /\ Low(Eligible(run)) \in Nat /\ Low(rows) \in Nat
    BY <2>1, EndsAre
  <2> QED BY <2>1, <2>2, RunFields DEF IInv, Types, Crest, Larger
<1>3. run.kind = "verify" => ckpt # None
  BY <1>1 DEF IInv, VerifyInv
<1>4. CASE TRUE
  <2>1. /\ run' \in AllRuns /\ Like(run', run) /\ run'.pos = run.pos /\ run'.top = run.top
        /\ SamePage(run', run) /\ run'.stage = "final" /\ Crest' = Crest
    <3>1. "final" \in Stages
      BY DEF Stages
    <3>2. run' = Goto(run, "final")
      BY <1>1
    <3>3. /\ run' \in AllRuns /\ Like(run', run) /\ run'.pos = run.pos /\ run'.top = run.top
          /\ SamePage(run', run) /\ run'.stage = "final"
      BY <3>1, <3>2, GotoIs, RunFields DEF IInv
    <3> QED BY <3>3 DEF Like, Crest
  <2>10. Types' /\ StageInv' /\ InRows' /\ PagePos'
    BY <2>1, <1>4, <1>1, <1>2, <1>3 DEF IInv, Types, StageInv, InRows, PagePos, Like,
        SamePage, Larger, None, Kinds, Stages
  <2>11. CheckpointInv' /\ VerifyInv'
    BY <2>1, <1>4, <1>1, <1>2, <1>3 DEF IInv, Types, StageInv, CheckpointInv, VerifyInv,
        PagePos, Reached, PageDone, Cov, Have, Crest, Larger, Like, SamePage, None
  <2>12. WindowInv' /\ WindowIsWhole'
    BY <2>1, <1>4, <1>1, <1>2, <1>3 DEF IInv, Types, StageInv, WindowInv, WindowIsWhole,
        Cov, Have, Like, SamePage, Larger
  <2>13. ZeroInv'
    BY <2>1, <1>4, <1>1, <1>2, <1>3 DEF IInv, Types, StageInv, ZeroInv, Larger, Like,
        SamePage
  <2>14. NoHoleInv'
    <3>1. SUFFICES ASSUME ~loose', ckpt' = None PROVE SharedInv' /\ ForwardInv' /\ BackInv' /\ BootInv'
      BY DEF NoHoleInv
    <3>2. ~loose /\ ckpt = None /\ SharedInv /\ ForwardInv /\ BackInv /\ BootInv
      BY <2>1, <1>1, <1>2, <1>3, <3>1 DEF IInv, NoHoleInv
    <3>3. SharedInv'
      BY <2>1, <1>1, <1>2, <1>3, <3>2 DEF IInv, Types, StageInv, ZeroInv, SharedInv,
          ForwardInv, BackInv, LowMark, Ids, Cov, Have, Larger, Crest, BootInv, Ids
    <3>4. ForwardInv'
      BY <2>1, <1>1, <1>2, <1>3, <3>2 DEF IInv, Types, StageInv, ZeroInv, SharedInv,
          ForwardInv, InRows, Ids, Cov, Have, Larger, Crest, LowMark, Like, PagePos,
          BootInv, Ids
    <3>5. BackInv'
      BY <2>1, <1>1, <1>2, <1>3, <3>2 DEF IInv, Types, StageInv, ZeroInv, SharedInv,
          ForwardInv, BackInv, PageDone, Cov, Have, Larger, Crest, LowMark, Like, SamePage,
          BootInv, Ids
    <3>6. BootInv'
      BY <2>1, <1>1, <1>2, <1>3, <3>2 DEF IInv, Types, StageInv, ZeroInv, SharedInv,
          BootInv, PageDone, Cov, Have, Larger, Crest, LowMark, Like, SamePage, BootInv, Ids
    <3> QED BY <3>3, <3>4, <3>5, <3>6
  <2> QED BY <2>10, <2>11, <2>12, <2>13, <2>14 DEF IInv
<1> QED BY <1>4

(* The callers' last write of latest_message_id.                           *)
LEMMA FinishKeeps ==
  ASSUME IInv, Finish PROVE IInv'
<1>1. /\ run.stage = "final" /\ run.kind \in {"verify", "page", "full", "boot"}
      /\ latest' = Larger(latest, Crest)
      /\ run' = IF run.kind = "verify" THEN Goto(run, "mark") ELSE Idle
      /\ UNCHANGED <<posted, gone, rows, cursor, complete, ckpt, window, pend, moving, loose>>
  BY RunFields DEF IInv, Finish, At, Done, StageInv, Kinds, Crest, discordVars, cursorVars,
      verifyVars, tailVars
<1>2. /\ latest \in Nat /\ run.floor \in Nat /\ run.top \in Nat /\ run.since \in Nat /\ Crest \in Nat
      /\ run.floor <= Crest /\ run.top <= Crest /\ Crest \in {run.floor, run.top}
      /\ Low(run.page) \in Nat /\ Low(Eligible(run)) \in Nat /\ Low(rows) \in Nat /\ rows \in SUBSET Ids
  <2>1. rows \in SUBSET Ids /\ run.page \in SUBSET Ids /\ Eligible(run) \in SUBSET Ids
    BY EligibleIs, RunFields DEF IInv, Types, Ids
  <2>2. Low(run.page) \in Nat /\ Low(Eligible(run)) \in Nat /\ Low(rows) \in Nat
    BY <2>1, EndsAre
  <2> QED BY <2>1, <2>2, RunFields DEF IInv, Types, Crest, Larger
<1>3. run.kind = "verify" => ckpt # None
  BY <1>1 DEF IInv, VerifyInv
<1>4. CASE run.kind = "verify"
  <2>1. /\ run' \in AllRuns /\ Like(run', run) /\ run'.pos = run.pos /\ run'.top = run.top
        /\ SamePage(run', run) /\ run'.stage = "mark" /\ Crest' = Crest
    <3>1. "mark" \in Stages
      BY DEF Stages
    <3>2. run' = Goto(run, "mark")
      BY <1>1, <1>4
    <3>3. /\ run' \in AllRuns /\ Like(run', run) /\ run'.pos = run.pos /\ run'.top = run.top
          /\ SamePage(run', run) /\ run'.stage = "mark"
      BY <3>1, <3>2, GotoIs, RunFields DEF IInv
    <3> QED BY <3>3 DEF Like, Crest
  <2>10. Types' /\ StageInv' /\ InRows' /\ PagePos'
    BY <2>1, <1>4, <1>1, <1>2, <1>3 DEF IInv, Types, StageInv, InRows, PagePos, Like,
        SamePage, Larger, None, Kinds, Stages
  <2>11. CheckpointInv' /\ VerifyInv'
    <3>1. CheckpointInv'
      BY <1>1 DEF IInv, CheckpointInv, Cov, Have
    <3>2. Cov(1, Crest) /\ complete /\ (~loose => Cov(Crest + 1, latest))
      BY <1>1, <1>4 DEF IInv, VerifyInv, Reached
    <3>3. VerifyInv'
      BY <1>1, <1>2, <1>3, <1>4, <2>1, <3>2 DEF VerifyInv, Like, Cov, Have, Larger, Ids
    <3> QED BY <3>1, <3>3
  <2>12. WindowInv' /\ WindowIsWhole'
    BY <2>1, <1>4, <1>1, <1>2, <1>3 DEF IInv, Types, StageInv, WindowInv, WindowIsWhole,
        Cov, Have, Like, SamePage, Larger
  <2>13. ZeroInv'
    BY <2>1, <1>4, <1>1, <1>2, <1>3 DEF IInv, Types, StageInv, ZeroInv, Larger, Like,
        SamePage
  <2>14. NoHoleInv'
    BY <1>1, <1>3, <1>4 DEF NoHoleInv
  <2> QED BY <2>10, <2>11, <2>12, <2>13, <2>14 DEF IInv
<1>5. CASE run.kind # "verify"
  <2>1. run' = Idle
    BY <1>1, <1>5
  <2>10. Types' /\ StageInv' /\ InRows' /\ PagePos'
    BY <2>1, <1>5, <1>1, <1>2, <1>3, IdleIs DEF IInv, Types, StageInv, InRows, PagePos,
        Like, SamePage, Larger, None, Kinds, Stages
  <2>11. CheckpointInv' /\ VerifyInv'
    BY <2>1, <1>5, <1>1, <1>2, <1>3, IdleIs DEF IInv, Types, StageInv, CheckpointInv,
        VerifyInv, PagePos, Reached, PageDone, Cov, Have, Crest, Larger, Like, SamePage,
        None
  <2>12. WindowInv' /\ WindowIsWhole'
    BY <2>1, <1>5, <1>1, <1>2, <1>3, IdleIs DEF IInv, Types, StageInv, WindowInv,
        WindowIsWhole, Cov, Have, Like, SamePage, Larger
  <2>13. ZeroInv'
    BY <2>1, <1>5, <1>1, <1>2, <1>3, IdleIs DEF IInv, Types, StageInv, ZeroInv, Larger,
        Like, SamePage
  <2>14. NoHoleInv'
    <3>1. SUFFICES ASSUME ~loose', ckpt' = None PROVE SharedInv' /\ ForwardInv' /\ BackInv' /\ BootInv'
      BY DEF NoHoleInv
    <3>2. ~loose /\ ckpt = None /\ SharedInv /\ ForwardInv /\ BackInv /\ BootInv
      BY <2>1, <1>1, <1>2, <1>3, <1>5, IdleIs, <3>1 DEF IInv, NoHoleInv
    <3>3. SharedInv'
      BY <2>1, <1>1, <1>2, <1>3, <1>5, IdleIs, <3>2 DEF IInv, Types, StageInv, ZeroInv,
          SharedInv, ForwardInv, BackInv, LowMark, Ids, Cov, Have, Larger, Crest, BootInv,
          Ids
    <3>4. ForwardInv'
      BY <2>1, <1>1, <1>2, <1>3, <1>5, IdleIs, <3>2 DEF IInv, Types, StageInv, ZeroInv,
          SharedInv, ForwardInv, InRows, Ids, Cov, Have, Larger, Crest, LowMark, Like,
          PagePos, BootInv, Ids
    <3>5. BackInv'
      BY <2>1, <1>1, <1>2, <1>3, <1>5, IdleIs, <3>2 DEF IInv, Types, StageInv, ZeroInv,
          SharedInv, ForwardInv, BackInv, PageDone, Cov, Have, Larger, Crest, LowMark,
          Like, SamePage, BootInv, Ids
    <3>6. BootInv'
      BY <2>1, <1>1, <1>2, <1>3, <1>5, IdleIs, <3>2 DEF IInv, Types, StageInv, ZeroInv,
          SharedInv, BootInv, PageDone, Cov, Have, Larger, Crest, LowMark, Like, SamePage,
          BootInv, Ids
    <3> QED BY <3>3, <3>4, <3>5, <3>6
  <2> QED BY <2>10, <2>11, <2>12, <2>13, <2>14 DEF IInv
<1> QED BY <1>4, <1>5

-----------------------------------------------------------------------------
(* Pages of the backfill and of a bootstrap.                               *)

(* A page of the backfill is stored.                                       *)
LEMMA FetchBackKeeps ==
  ASSUME IInv, FetchBack PROVE IInv'
<1> DEFINE r == Fetched(run)
           E == Eligible(r)
           c == Larger(run.floor, r.top)
           Sound == run.kind = "verify" \/ (~loose /\ ckpt = None /\ run.kind \in {"full", "page"})
<1>1. /\ run.stage = "back" /\ run.kind \in {"verify", "window", "page", "full"}
      /\ r = Fetched(run) /\ rows' = rows \cup E /\ gone' = gone /\ run' = PastPage(r)
      /\ loose' = (loose \/ Partial(r))
      /\ UNCHANGED <<posted, gone, latest, cursor, complete, ckpt, window, pend, moving>>
  BY RunFields DEF IInv, FetchBack, At, StageInv, Kinds, discordVars, cursorVars,
      verifyVars, tailVars
<1>2. /\ r \in AllRuns /\ Like(r, run) /\ r.pos = run.pos /\ r.top \in Nat
      /\ r.page \in SUBSET Ids /\ E \in SUBSET Ids /\ E \subseteq r.page
      /\ r.page \subseteq Live /\ rows' \subseteq 1..posted /\ r.top \in rows' \cup {0}
      /\ run.top <= r.top /\ r.top \in {run.top, High(E)}
      /\ (E = {} => r.top = run.top /\ rows' = rows)
      /\ (E # {} => r.top # 0 /\ Low(E) # 0 /\ Low(E) <= r.top /\ High(E) \in E /\ r.page # {})
      /\ (run.pos # 0 => \A id \in r.page : id < run.pos)
      /\ (~Cut(r) => E = r.page) /\ (run.since = 0 => ~Cut(r))
      /\ (r.page # {} /\ E = {} => Cut(r))
      /\ (r.page # {} => Low(r.page) # 0 /\ Low(r.page) \in r.page)
      /\ Low(E) \in Nat /\ Low(r.page) \in Nat /\ run.pos \in Nat /\ High(E) \in Nat
  BY <1>1, PageFacts
<1> HIDE DEF r, E
<1>3. /\ run.floor \in Nat /\ latest \in Nat /\ run.top \in Nat /\ run.since \in Nat /\ run.until \in Nat
      /\ c \in Nat /\ c <= posted /\ posted \in Nat /\ Crest \in Nat /\ Crest <= c /\ c \in {Crest, r.top}
      /\ run.floor <= c /\ r.top <= c /\ c \in {run.floor, r.top} /\ run.floor <= Crest /\ run.top <= Crest
      /\ (E = {} => c = Crest) /\ latest <= posted /\ rows \in SUBSET Ids
      /\ Crest \in {run.floor, run.top}
  <2>1. /\ run.floor \in Nat /\ latest \in Nat /\ run.top \in Nat /\ run.since \in Nat /\ run.until \in Nat
        /\ posted \in Nat /\ latest <= posted /\ run.floor <= posted /\ rows \in SUBSET Ids
    BY RunFields DEF IInv, Types, InRows, Ids
  <2>2. r.top <= posted
    BY <1>2, <2>1
  <2> QED BY <1>2, <2>1, <2>2 DEF c, Crest, Larger
<1> HIDE DEF c
<1>4. \A id \in Ids : id \in Have \/ id \in E => id \in Have'
  BY <1>1 DEF Have
<1>5. Sound /\ run.pos # 0 => \A id \in Ids : run.pos <= id /\ id <= c => id \in Have
  <2>1. Sound /\ run.pos # 0 => Cov(run.pos, Crest)
    BY <1>1 DEF IInv, VerifyInv, NoHoleInv, BackInv
  <2>2. run.pos # 0 => r.top <= Crest \/ r.top < run.pos
    BY <1>2, <1>3
  <2> QED BY <1>2, <1>3, <2>1, <2>2 DEF Cov, Ids
<1>6. Sound => /\ r.page = {} \/ (Short(r) /\ ~Cut(r)) => \A id \in Ids : id <= c => id \in Have'
               /\ E # {} => \A id \in Ids : Low(E) <= id /\ id <= c => id \in Have'
  BY <1>1, <1>3, <1>5, LastPage DEF E
<1>7. run.kind = "window" =>
        /\ run.since \in Sinces \ {0} /\ run.until <= posted
        /\ r.page # {} => \A id \in Ids : run.since <= id /\ Low(r.page) <= id /\ id <= run.until => id \in Have'
        /\ r.page = {} \/ Short(r) => \A id \in Ids : run.since <= id /\ id <= run.until => id \in Have'
  <2>1. SUFFICES ASSUME run.kind = "window" PROVE
          /\ run.since \in Sinces \ {0} /\ run.until <= posted
          /\ r.page # {} => \A id \in Ids : run.since <= id /\ Low(r.page) <= id /\ id <= run.until => id \in Have'
          /\ r.page = {} \/ Short(r) => \A id \in Ids : run.since <= id /\ id <= run.until => id \in Have'
    OBVIOUS
  <2>2. run.since \in Sinces \ {0} /\ run.until <= posted
    BY <2>1 DEF IInv, WindowInv
  <2>3. run.pos # 0 => \A id \in Ids : run.since <= id /\ run.pos <= id /\ id <= run.until => id \in Have
    BY <1>1, <1>2, <1>3, <2>1 DEF IInv, WindowInv, Cov, Larger, Ids
  <2> QED BY <1>1, <1>2, <1>3, <2>2, <2>3, PageCovers DEF IInv, E
<1>8. run.kind = "verify" => ckpt # None /\ run.since = 0 /\ ~Cut(r) /\ E = r.page
  BY <1>1, <1>2 DEF IInv, VerifyInv, StageInv
<1>9. run.kind = "verify" /\ ~loose => \A id \in Ids : c < id /\ id <= latest => id \in Have'
  <2>1. SUFFICES ASSUME run.kind = "verify", ~loose, NEW id \in Ids, c < id, id <= latest PROVE id \in Have'
    OBVIOUS
  <2>2. CASE run.pos # 0
    <3>1. Cov(Crest + 1, latest)
      BY <1>1, <2>1, <2>2 DEF IInv, VerifyInv, Reached
    <3> QED BY <1>3, <1>4, <2>1, <3>1 DEF Cov, Ids
  <2>3. CASE run.pos = 0
    <3>1. r.page = PageBefore(0)
      BY <1>1, <2>3, FetchedIs DEF IInv
    <3>2. \A x \in r.page : x <= High(r.page)
      BY <1>2, HighIs
    <3>3. Crest = 0
      BY <1>1, <2>1, <2>3 DEF IInv, VerifyInv
    <3>4. r.page # {} => High(r.page) <= c
      BY <1>2, <1>3, <1>8, <2>1, <3>3
    <3>5. id \notin r.page
      BY <1>3, <2>1, <3>2, <3>4, <1>2, <1>8 DEF Ids
    <3>6. \A x \in Live : (\E y \in r.page : y <= x) => x \in r.page
      BY <3>1, BeforeIs DEF IInv
    <3>7. r.page = {} => Live = {}
      BY <3>1, BeforeIs DEF IInv
    <3>8. id \notin Live
      <4>1. r.page # {} => Low(r.page) <= c /\ Low(r.page) \in r.page
        BY <1>2, <1>3, <1>8, <2>1
      <4> QED BY <1>2, <1>3, <2>1, <3>5, <3>6, <3>7, <4>1 DEF Ids
    <3> QED BY <1>3, <1>4, <2>1, <3>8 DEF Live, Have, Ids
  <2> QED BY <2>2, <2>3
<1>10. ~loose' /\ ckpt' = None => SharedInv'
  <2>1. SUFFICES ASSUME ~loose', ckpt' = None PROVE SharedInv'
    OBVIOUS
  <2>2. ~loose /\ ckpt = None /\ SharedInv /\ BackInv /\ ~Partial(r)
    BY <1>1, <2>1 DEF IInv, NoHoleInv
  <2>3. CASE E = {}
    BY <1>1, <1>2, <2>2, <2>3 DEF SharedInv, LowMark, Cov, Have
  <2>4. CASE E # {}
    <3>1. run.kind \in {"full", "page"} /\ Sound /\ latest = Crest
      BY <1>1, <1>2, <1>8, <2>2, <2>4 DEF Partial, BackInv, Like, E
    <3>2. complete => \A id \in Ids : id <= latest => id \in Have'
      BY <1>1, <1>3, <1>4, <2>2 DEF SharedInv, Cov, Ids
    <3>3. CASE latest = 0
      BY <1>1, <3>2, <3>3 DEF SharedInv, Cov, Ids
    <3>4. CASE latest # 0 /\ cursor # 0
      BY <1>1, <1>4, <2>2, <3>2, <3>4 DEF SharedInv, Cov, LowMark
    <3>5. CASE latest # 0 /\ cursor = 0
      <4>1. rows # {} /\ latest \in rows /\ rows' \in SUBSET Ids /\ rows' # {} /\ latest \in rows'
        BY <1>1, <1>2, <1>3, <3>5 DEF IInv, InRows, Ids, Types
      <4>2. Low(rows') \in rows' /\ (\A y \in rows' : Low(rows') <= y)
        BY <4>1, LowIs
      <4>3. Low(rows) \in rows /\ (\A y \in rows : Low(rows) <= y) /\ Low(E) \in E /\ (\A y \in E : Low(E) <= y)
        BY <1>2, <1>3, <2>4, <4>1, LowIs
      <4>4. Low(rows') \in {Low(rows), Low(E)}
        <5>1. Low(rows) \in Ids /\ Low(E) \in Ids /\ Low(rows') \in Ids
          BY <1>2, <1>3, <4>1, <4>2, <4>3
        <5>2. Low(rows') <= Low(rows) /\ Low(rows') <= Low(E)
          BY <1>1, <4>2, <4>3
        <5>3. Low(rows) <= Low(rows') \/ Low(E) <= Low(rows')
          BY <1>1, <4>2, <4>3
        <5> QED BY <5>1, <5>2, <5>3 DEF Ids
      <4>5. \A id \in Ids : Low(rows') <= id /\ id <= latest => id \in Have'
        BY <1>3, <1>4, <1>6, <2>2, <2>4, <3>1, <3>5, <4>4 DEF SharedInv, LowMark, Cov, Ids
      <4> QED BY <1>1, <3>2, <3>5, <4>1, <4>2, <4>5 DEF SharedInv, LowMark, Cov
    <3> QED BY <3>3, <3>4, <3>5
  <2> QED BY <2>3, <2>4
<1>11. ASSUME ~loose', ckpt' = None, run.kind \in {"full", "page"}
       PROVE  /\ Sound /\ latest = Crest /\ run.complete = complete
              /\ r.top # 0 /\ r.top >= run.floor =>
                   /\ run.floor = 0 /\ ~complete
                   /\ (latest = c /\ cursor # 0) \/ (latest = 0 /\ cursor = 0 /\ rows' = E)
              /\ r.top < run.floor => c = run.floor /\ c = latest
              /\ E # {} /\ r.top < run.floor => ~complete
  <2>1. ~loose /\ ckpt = None /\ BackInv /\ ~Partial(r) /\ ~(run.kind = "page" /\ E # {} /\ run.complete)
    BY <1>1, <1>2, <1>11 DEF IInv, NoHoleInv, Partial, Like, E
  <2>2. /\ Sound /\ latest = Crest /\ run.complete = complete /\ (run.kind = "full" => ~complete)
        /\ (run.pos = 0 => rows = {} /\ cursor = 0)
        /\ (run.pos # 0 => /\ run.kind = "full" /\ run.pos <= Crest
                           /\ (run.floor = 0 => cursor # 0) /\ (run.floor # 0 => run.top < run.floor))
    BY <1>1, <1>11, <2>1 DEF BackInv
  <2>3. run.pos = 0 => run.floor = 0 /\ run.top = 0 /\ latest = 0 /\ rows' = E
    BY <1>1, <2>2 DEF IInv, InRows
  <2>4. run.pos # 0 => c = Crest /\ (run.floor # 0 => r.top < run.floor)
    BY <1>2, <1>3, <2>2
  <2>5. r.top # 0 /\ r.top >= run.floor => run.floor = 0
    BY <1>2, <1>3, <2>3, <2>4
  <2>6. r.top # 0 => ~complete
    <3>1. CASE run.kind = "full"
      BY <2>2, <3>1
    <3>2. CASE run.kind = "page"
      BY <1>2, <2>1, <2>2, <2>3, <3>2
    <3> QED BY <1>11, <3>1, <3>2
  <2>7. r.top < run.floor => c = run.floor /\ c = latest
    BY <1>2, <1>3, <2>2, <2>3, <2>4
  <2> QED BY <1>2, <2>2, <2>3, <2>4, <2>5, <2>6, <2>7
<1>12. /\ r.kind = run.kind /\ r.floor = run.floor
       /\ (r.page = {} => E = {}) /\ (~loose' => ~loose) /\ (run.kind = "window" /\ ~loose' => E = {})
       /\ (~loose' => (run.top = 0 /\ latest = 0 => rows = {} /\ cursor = 0))
       /\ (~loose' => moving = 0 /\ (ckpt.latest # 0 \/ run.floor # 0 => latest # 0))
       /\ (~loose' /\ run.kind = "window" => run.top = 0)
  BY <1>1, <1>2 DEF IInv, ZeroInv, WindowInv, Partial, Like, E
<1>13. CheckpointInv' /\ WindowIsWhole'
  BY <1>1, <1>4 DEF IInv, CheckpointInv, WindowIsWhole, Cov
<1>14. run.kind = "verify" => Sound
  BY DEF Sound
<1> HIDE DEF Sound
<1>20. CASE r.page = {} /\ run.kind = "window"
  <2>1. /\ run' \in AllRuns /\ Like(run', run) /\ run'.pos = run.pos /\ run'.top = r.top
        /\ SamePage(run', r) /\ run'.stage = "certify" /\ Crest' = c
    <3>1. "certify" \in Stages
      BY DEF Stages
    <3>2. run' = Goto(r, "certify")
      BY <1>1, <1>12, <1>20 DEF PastPage
    <3>3. /\ run' \in AllRuns /\ Like(run', r) /\ run'.pos = r.pos /\ run'.top = r.top
          /\ SamePage(run', r) /\ run'.stage = "certify"
      BY <1>2, <3>1, <3>2, GotoIs
    <3> QED BY <1>2, <3>3 DEF Like, Crest, c
  <2>10. Types' /\ StageInv' /\ InRows' /\ PagePos'
    <3>1. Types'
      BY <1>1, <1>2, <1>3, <1>12, <1>20, <2>1 DEF IInv, Types, Larger
    <3>2. StageInv'
      BY <1>1, <1>2, <1>3, <1>12, <1>20, <2>1 DEF IInv, Types, StageInv, Like, Kinds, Stages
    <3>3. InRows'
      BY <1>1, <1>2, <1>3, <1>12, <1>20, <2>1 DEF IInv, Types, StageInv, InRows, Like,
          Larger, None
    <3>4. PagePos'
      BY <1>1, <1>2, <1>3, <1>12, <1>20, <2>1 DEF IInv, Types, StageInv, PagePos, Like,
          SamePage, E, Larger, Kinds
    <3> QED BY <3>1, <3>2, <3>3, <3>4
  <2>11. CheckpointInv' /\ VerifyInv'
    <3>1. VerifyInv'
      BY <1>20, <1>8, <2>1 DEF VerifyInv, Like
    <3> QED BY <1>13, <3>1
  <2>12. WindowInv' /\ WindowIsWhole'
    <3>2. WindowInv'
      BY <1>1, <1>2, <1>3, <1>7, <1>12, <1>20, <2>1 DEF WindowInv, Like, SamePage, Cov,
          Larger, Ids
    <3> QED BY <1>13, <3>2
  <2>13. ZeroInv'
    BY <1>1, <1>2, <1>3, <1>12, <1>20, <2>1 DEF ZeroInv, Like
  <2>14. NoHoleInv'
    <3>1. SUFFICES ASSUME ~loose', ckpt' = None PROVE SharedInv' /\ ForwardInv' /\ BackInv' /\ BootInv'
      BY DEF NoHoleInv
    <3>2. SharedInv'
      BY <1>10, <3>1
    <3>3. ForwardInv' /\ BootInv'
      BY <1>1, <2>1 DEF ForwardInv, BootInv, Like
    <3>4. BackInv'
      BY <1>20, <2>1 DEF BackInv, Like
    <3> QED BY <3>2, <3>3, <3>4
  <2> QED BY <2>10, <2>11, <2>12, <2>13, <2>14 DEF IInv
<1>21. CASE r.page = {} /\ run.kind # "window"
  <2>1. /\ run' \in AllRuns /\ Like(run', run) /\ run'.pos = run.pos /\ run'.top = r.top
        /\ SamePage(run', r) /\ run'.stage = "complete" /\ Crest' = c
    <3>1. "complete" \in Stages
      BY DEF Stages
    <3>2. run' = Goto(r, "complete")
      BY <1>1, <1>12, <1>21 DEF PastPage
    <3>3. /\ run' \in AllRuns /\ Like(run', r) /\ run'.pos = r.pos /\ run'.top = r.top
          /\ SamePage(run', r) /\ run'.stage = "complete"
      BY <1>2, <3>1, <3>2, GotoIs
    <3> QED BY <1>2, <3>3 DEF Like, Crest, c
  <2>10. Types' /\ StageInv' /\ InRows' /\ PagePos'
    <3>1. Types'
      BY <1>1, <1>2, <1>3, <1>12, <1>21, <2>1 DEF IInv, Types, Larger
    <3>2. StageInv'
      BY <1>1, <1>2, <1>3, <1>12, <1>21, <2>1 DEF IInv, Types, StageInv, Like, Kinds, Stages
    <3>3. InRows'
      BY <1>1, <1>2, <1>3, <1>12, <1>21, <2>1 DEF IInv, Types, StageInv, InRows, Like,
          Larger, None
    <3>4. PagePos'
      BY <1>1, <1>2, <1>3, <1>12, <1>21, <2>1 DEF IInv, Types, StageInv, PagePos, Like,
          SamePage, E, Larger, Kinds
    <3> QED BY <3>1, <3>2, <3>3, <3>4
  <2>11. CheckpointInv' /\ VerifyInv'
    <3>1. run.kind = "verify" => r.page = {}
      BY <1>8, <1>21
    <3>2. run.kind = "verify" => Cov(1, Crest)'
      BY <1>3, <1>6, <1>14, <2>1, <3>1 DEF Cov, Ids
    <3>3. run.kind = "verify" /\ ~loose' => Cov(Crest + 1, latest)'
      BY <1>1, <1>3, <1>9, <1>12, <2>1 DEF Cov, Ids
    <3>4. VerifyInv'
      BY <1>1, <1>8, <1>21, <2>1, <3>2, <3>3 DEF VerifyInv, Like
    <3> QED BY <1>13, <3>4
  <2>12. WindowInv' /\ WindowIsWhole'
    <3>2. WindowInv'
      BY <1>1, <1>2, <1>3, <1>7, <1>12, <1>21, <2>1 DEF WindowInv, Like, SamePage, Cov,
          Larger, Ids
    <3> QED BY <1>13, <3>2
  <2>13. ZeroInv'
    BY <1>1, <1>2, <1>3, <1>12, <1>21, <2>1 DEF ZeroInv, Like
  <2>14. NoHoleInv'
    <3>1. SUFFICES ASSUME ~loose', ckpt' = None PROVE SharedInv' /\ ForwardInv' /\ BackInv' /\ BootInv'
      BY DEF NoHoleInv
    <3>2. SharedInv'
      BY <1>10, <3>1
    <3>3. ForwardInv' /\ BootInv'
      BY <1>1, <2>1 DEF ForwardInv, BootInv, Like
    <3>4. BackInv'
      <4>1. SUFFICES ASSUME run.kind \in {"full", "page"} PROVE BackInv'
        BY <2>1 DEF BackInv, Like
      <4>2. Sound /\ latest = c
        BY <1>3, <1>11, <1>12, <1>21, <3>1, <4>1
      <4>3. Cov(1, Crest)'
        BY <1>3, <1>6, <1>21, <2>1, <4>2 DEF Cov, Ids
      <4> QED BY <1>1, <2>1, <4>2, <4>3 DEF BackInv, Like
    <3> QED BY <3>2, <3>3, <3>4
  <2> QED BY <2>10, <2>11, <2>12, <2>13, <2>14 DEF IInv
<1>22. CASE r.page # {} /\ r.top # 0 /\ r.top >= run.floor
  <2>1. /\ run' \in AllRuns /\ Like(run', run) /\ run'.pos = run.pos /\ run'.top = r.top
        /\ SamePage(run', r) /\ run'.stage = "head" /\ Crest' = c
    <3>1. "head" \in Stages
      BY DEF Stages
    <3>2. run' = Goto(r, "head")
      BY <1>1, <1>12, <1>22 DEF PastPage
    <3>3. /\ run' \in AllRuns /\ Like(run', r) /\ run'.pos = r.pos /\ run'.top = r.top
          /\ SamePage(run', r) /\ run'.stage = "head"
      BY <1>2, <3>1, <3>2, GotoIs
    <3> QED BY <1>2, <3>3 DEF Like, Crest, c
  <2>10. Types' /\ StageInv' /\ InRows' /\ PagePos'
    <3>1. Types'
      BY <1>1, <1>2, <1>3, <1>12, <1>22, <2>1 DEF IInv, Types, Larger
    <3>2. StageInv'
      BY <1>1, <1>2, <1>3, <1>12, <1>22, <2>1 DEF IInv, Types, StageInv, Like, Kinds, Stages
    <3>3. InRows'
      BY <1>1, <1>2, <1>3, <1>12, <1>22, <2>1 DEF IInv, Types, StageInv, InRows, Like,
          Larger, None
    <3>4. PagePos'
      BY <1>1, <1>2, <1>3, <1>12, <1>22, <2>1 DEF IInv, Types, StageInv, PagePos, Like,
          SamePage, E, Larger, Kinds
    <3> QED BY <3>1, <3>2, <3>3, <3>4
  <2>11. CheckpointInv' /\ VerifyInv'
    <3>1. run.kind = "verify" => PageDone'
      BY <1>2, <1>3, <1>6, <1>8, <1>14, <1>22, <2>1 DEF PageDone, SamePage, Cov, E
    <3>2. run.kind = "verify" /\ ~loose' => Cov(Crest + 1, latest)'
      BY <1>1, <1>3, <1>9, <1>12, <2>1 DEF Cov, Ids
    <3>3. VerifyInv'
      BY <1>1, <1>8, <2>1, <3>1, <3>2 DEF VerifyInv, Like
    <3> QED BY <1>13, <3>3
  <2>12. WindowInv' /\ WindowIsWhole'
    <3>2. WindowInv'
      BY <1>1, <1>2, <1>3, <1>7, <1>12, <1>22, <2>1 DEF WindowInv, Like, SamePage, Cov,
          Larger, Ids
    <3> QED BY <1>13, <3>2
  <2>13. ZeroInv'
    BY <1>1, <1>2, <1>3, <1>12, <1>22, <2>1 DEF ZeroInv, Like
  <2>14. NoHoleInv'
    <3>1. SUFFICES ASSUME ~loose', ckpt' = None PROVE SharedInv' /\ ForwardInv' /\ BackInv' /\ BootInv'
      BY DEF NoHoleInv
    <3>2. SharedInv'
      BY <1>10, <3>1
    <3>3. ForwardInv' /\ BootInv'
      BY <1>1, <2>1 DEF ForwardInv, BootInv, Like
    <3>4. BackInv'
      <4>1. SUFFICES ASSUME run.kind \in {"full", "page"} PROVE BackInv'
        BY <2>1 DEF BackInv, Like
      <4>2. /\ Sound /\ run.floor = 0 /\ ~complete /\ ~run.complete
            /\ (latest = c /\ cursor # 0) \/ (latest = 0 /\ cursor = 0 /\ rows' = E)
        BY <1>11, <1>22, <3>1, <4>1
      <4>3. E # {} => PageDone'
        BY <1>2, <1>3, <1>6, <2>1, <4>2 DEF PageDone, SamePage, Cov, E
      <4> QED BY <1>1, <2>1, <4>2, <4>3 DEF BackInv, Like, SamePage, E
    <3> QED BY <3>2, <3>3, <3>4
  <2> QED BY <2>10, <2>11, <2>12, <2>13, <2>14 DEF IInv
<1>23. CASE r.page # {} /\ ~(r.top # 0 /\ r.top >= run.floor) /\ run.kind = "window" /\ (Cut(r) \/ Short(r))
  <2>1. /\ run' \in AllRuns /\ Like(run', run) /\ run'.pos = run.pos /\ run'.top = r.top
        /\ SamePage(run', r) /\ run'.stage = "certify" /\ Crest' = c
    <3>1. "certify" \in Stages
      BY DEF Stages
    <3>2. run' = Goto(r, "certify")
      BY <1>1, <1>12, <1>23 DEF PastPage, PastHead
    <3>3. /\ run' \in AllRuns /\ Like(run', r) /\ run'.pos = r.pos /\ run'.top = r.top
          /\ SamePage(run', r) /\ run'.stage = "certify"
      BY <1>2, <3>1, <3>2, GotoIs
    <3> QED BY <1>2, <3>3 DEF Like, Crest, c
  <2>10. Types' /\ StageInv' /\ InRows' /\ PagePos'
    <3>1. Types'
      BY <1>1, <1>2, <1>3, <1>12, <1>23, <2>1 DEF IInv, Types, Larger
    <3>2. StageInv'
      BY <1>1, <1>2, <1>3, <1>12, <1>23, <2>1 DEF IInv, Types, StageInv, Like, Kinds, Stages
    <3>3. InRows'
      BY <1>1, <1>2, <1>3, <1>12, <1>23, <2>1 DEF IInv, Types, StageInv, InRows, Like,
          Larger, None
    <3>4. PagePos'
      BY <1>1, <1>2, <1>3, <1>12, <1>23, <2>1 DEF IInv, Types, StageInv, PagePos, Like,
          SamePage, E, Larger, Kinds
    <3> QED BY <3>1, <3>2, <3>3, <3>4
  <2>11. CheckpointInv' /\ VerifyInv'
    <3>1. VerifyInv'
      BY <1>23, <1>8, <2>1 DEF VerifyInv, Like
    <3> QED BY <1>13, <3>1
  <2>12. WindowInv' /\ WindowIsWhole'
    <3>1. Cut(r) /\ run.kind = "window" => Low(r.page) < run.since
      <4>1. Cut(r) => \E id \in r.page : id < run.since
        BY <1>2, EligibleIs DEF Like
      <4> QED BY <1>2, <1>3, <4>1, LowIs DEF Ids
    <3>2. WindowInv'
      BY <1>1, <1>2, <1>3, <1>7, <1>12, <1>23, <2>1, <3>1 DEF WindowInv, Like, SamePage,
          Cov, Larger, Ids
    <3> QED BY <1>13, <3>2
  <2>13. ZeroInv'
    BY <1>1, <1>2, <1>3, <1>12, <1>23, <2>1 DEF ZeroInv, Like
  <2>14. NoHoleInv'
    <3>1. SUFFICES ASSUME ~loose', ckpt' = None PROVE SharedInv' /\ ForwardInv' /\ BackInv' /\ BootInv'
      BY DEF NoHoleInv
    <3>2. SharedInv'
      BY <1>10, <3>1
    <3>3. ForwardInv' /\ BootInv'
      BY <1>1, <2>1 DEF ForwardInv, BootInv, Like
    <3>4. BackInv'
      BY <1>23, <2>1 DEF BackInv, Like
    <3> QED BY <3>2, <3>3, <3>4
  <2> QED BY <2>10, <2>11, <2>12, <2>13, <2>14 DEF IInv
<1>24. CASE r.page # {} /\ ~(r.top # 0 /\ r.top >= run.floor) /\ run.kind = "window" /\ ~(Cut(r) \/ Short(r))
  <2>1. /\ run' \in AllRuns /\ Like(run', run) /\ run'.pos = Low(r.page) /\ run'.top = r.top
        /\ run'.page = {} /\ run'.stage = "back" /\ Crest' = c
    <3>1. "back" \in Stages /\ Low(r.page) \in Nat
      BY <1>2 DEF Stages
    <3>2. run' = Again(r, "back", Low(r.page))
      BY <1>1, <1>12, <1>24 DEF PastPage, PastHead
    <3>3. /\ run' \in AllRuns /\ Like(run', r) /\ run'.pos = Low(r.page) /\ run'.top = r.top
          /\ run'.page = {} /\ run'.stage = "back"
      <4>1. r \in AllRuns
        BY <1>2
      <4> QED BY <3>1, <3>2, <4>1, AgainIs
    <3> QED BY <1>2, <3>3 DEF Like, Crest, c
  <2>10. Types' /\ StageInv' /\ InRows' /\ PagePos'
    <3>1. Types'
      BY <1>1, <1>2, <1>3, <1>12, <1>24, <2>1 DEF IInv, Types, Larger
    <3>2. StageInv'
      BY <1>1, <1>2, <1>3, <1>12, <1>24, <2>1 DEF IInv, Types, StageInv, Like, Kinds, Stages
    <3>3. InRows'
      BY <1>1, <1>2, <1>3, <1>12, <1>24, <2>1 DEF IInv, Types, StageInv, InRows, Like,
          Larger, None
    <3>4. PagePos'
      BY <1>1, <1>2, <1>3, <1>12, <1>24, <2>1 DEF IInv, Types, StageInv, PagePos, Like,
          SamePage, E, Larger, Kinds
    <3> QED BY <3>1, <3>2, <3>3, <3>4
  <2>11. CheckpointInv' /\ VerifyInv'
    <3>1. VerifyInv'
      BY <1>24, <1>8, <2>1 DEF VerifyInv, Like
    <3> QED BY <1>13, <3>1
  <2>12. WindowInv' /\ WindowIsWhole'
    <3>2. WindowInv'
      BY <1>1, <1>2, <1>3, <1>7, <1>12, <1>24, <2>1 DEF WindowInv, Like, SamePage, Cov,
          Larger, Ids
    <3> QED BY <1>13, <3>2
  <2>13. ZeroInv'
    BY <1>1, <1>2, <1>3, <1>12, <1>24, <2>1 DEF ZeroInv, Like
  <2>14. NoHoleInv'
    <3>1. SUFFICES ASSUME ~loose', ckpt' = None PROVE SharedInv' /\ ForwardInv' /\ BackInv' /\ BootInv'
      BY DEF NoHoleInv
    <3>2. SharedInv'
      BY <1>10, <3>1
    <3>3. ForwardInv' /\ BootInv'
      BY <1>1, <2>1 DEF ForwardInv, BootInv, Like
    <3>4. BackInv'
      BY <1>24, <2>1 DEF BackInv, Like
    <3> QED BY <3>2, <3>3, <3>4
  <2> QED BY <2>10, <2>11, <2>12, <2>13, <2>14 DEF IInv
<1>25. CASE r.page # {} /\ ~(r.top # 0 /\ r.top >= run.floor) /\ run.kind # "window" /\ Cut(r) /\ E = {}
  <2>1. /\ run' \in AllRuns /\ Like(run', run) /\ run'.pos = run.pos /\ run'.top = r.top
        /\ SamePage(run', r) /\ run'.stage = "final" /\ Crest' = c
    <3>1. "final" \in Stages
      BY DEF Stages
    <3>2. run' = Goto(r, "final")
      BY <1>1, <1>12, <1>25 DEF PastPage, PastHead, E
    <3>3. /\ run' \in AllRuns /\ Like(run', r) /\ run'.pos = r.pos /\ run'.top = r.top
          /\ SamePage(run', r) /\ run'.stage = "final"
      BY <1>2, <3>1, <3>2, GotoIs
    <3> QED BY <1>2, <3>3 DEF Like, Crest, c
  <2>10. Types' /\ StageInv' /\ InRows' /\ PagePos'
    <3>1. Types'
      BY <1>1, <1>2, <1>3, <1>12, <1>25, <2>1 DEF IInv, Types, Larger
    <3>2. StageInv'
      BY <1>1, <1>2, <1>3, <1>12, <1>25, <2>1 DEF IInv, Types, StageInv, Like, Kinds, Stages
    <3>3. InRows'
      BY <1>1, <1>2, <1>3, <1>12, <1>25, <2>1 DEF IInv, Types, StageInv, InRows, Like,
          Larger, None
    <3>4. PagePos'
      BY <1>1, <1>2, <1>3, <1>12, <1>25, <2>1 DEF IInv, Types, StageInv, PagePos, Like,
          SamePage, E, Larger, Kinds
    <3> QED BY <3>1, <3>2, <3>3, <3>4
  <2>11. CheckpointInv' /\ VerifyInv'
    <3>1. VerifyInv'
      BY <1>25, <1>8, <2>1 DEF VerifyInv, Like
    <3> QED BY <1>13, <3>1
  <2>12. WindowInv' /\ WindowIsWhole'
    <3>2. WindowInv'
      BY <1>1, <1>2, <1>3, <1>7, <1>12, <1>25, <2>1 DEF WindowInv, Like, SamePage, Cov,
          Larger, Ids
    <3> QED BY <1>13, <3>2
  <2>13. ZeroInv'
    BY <1>1, <1>2, <1>3, <1>12, <1>25, <2>1 DEF ZeroInv, Like
  <2>14. NoHoleInv'
    <3>1. SUFFICES ASSUME ~loose', ckpt' = None PROVE SharedInv' /\ ForwardInv' /\ BackInv' /\ BootInv'
      BY DEF NoHoleInv
    <3>2. SharedInv'
      BY <1>10, <3>1
    <3>3. ForwardInv' /\ BootInv'
      BY <1>1, <2>1 DEF ForwardInv, BootInv, Like
    <3>4. BackInv'
      <4>1. SUFFICES ASSUME run.kind \in {"full", "page"} PROVE BackInv'
        BY <2>1 DEF BackInv, Like
      <4>2. latest = c
        BY <1>3, <1>11, <1>25, <3>1, <4>1
      <4> QED BY <1>1, <2>1, <4>2 DEF BackInv, Like
    <3> QED BY <3>2, <3>3, <3>4
  <2> QED BY <2>10, <2>11, <2>12, <2>13, <2>14 DEF IInv
<1>26. CASE r.page # {} /\ ~(r.top # 0 /\ r.top >= run.floor) /\ run.kind # "window" /\ ~(Cut(r) /\ E = {})
  <2>1. /\ run' \in AllRuns /\ Like(run', run) /\ run'.pos = run.pos /\ run'.top = r.top
        /\ SamePage(run', r) /\ run'.stage = "cursor" /\ Crest' = c
    <3>1. "cursor" \in Stages
      BY DEF Stages
    <3>2. run' = Goto(r, "cursor")
      BY <1>1, <1>12, <1>26 DEF PastPage, PastHead, E
    <3>3. /\ run' \in AllRuns /\ Like(run', r) /\ run'.pos = r.pos /\ run'.top = r.top
          /\ SamePage(run', r) /\ run'.stage = "cursor"
      BY <1>2, <3>1, <3>2, GotoIs
    <3> QED BY <1>2, <3>3 DEF Like, Crest, c
  <2>10. Types' /\ StageInv' /\ InRows' /\ PagePos'
    <3>1. Types'
      BY <1>1, <1>2, <1>3, <1>12, <1>26, <2>1 DEF IInv, Types, Larger
    <3>2. StageInv'
      BY <1>1, <1>2, <1>3, <1>12, <1>26, <2>1 DEF IInv, Types, StageInv, Like, Kinds, Stages
    <3>3. InRows'
      BY <1>1, <1>2, <1>3, <1>12, <1>26, <2>1 DEF IInv, Types, StageInv, InRows, Like,
          Larger, None
    <3>4. PagePos'
      BY <1>1, <1>2, <1>3, <1>12, <1>26, <2>1 DEF IInv, Types, StageInv, PagePos, Like,
          SamePage, E, Larger, Kinds
    <3> QED BY <3>1, <3>2, <3>3, <3>4
  <2>11. CheckpointInv' /\ VerifyInv'
    <3>1. run.kind = "verify" => PageDone'
      BY <1>2, <1>3, <1>6, <1>8, <1>14, <1>26, <2>1 DEF PageDone, SamePage, Cov, E
    <3>2. run.kind = "verify" /\ ~loose' => Cov(Crest + 1, latest)'
      BY <1>1, <1>3, <1>9, <1>12, <2>1 DEF Cov, Ids
    <3>3. VerifyInv'
      BY <1>1, <1>8, <2>1, <3>1, <3>2 DEF VerifyInv, Like
    <3> QED BY <1>13, <3>3
  <2>12. WindowInv' /\ WindowIsWhole'
    <3>2. WindowInv'
      BY <1>1, <1>2, <1>3, <1>7, <1>12, <1>26, <2>1 DEF WindowInv, Like, SamePage, Cov,
          Larger, Ids
    <3> QED BY <1>13, <3>2
  <2>13. ZeroInv'
    BY <1>1, <1>2, <1>3, <1>12, <1>26, <2>1 DEF ZeroInv, Like
  <2>14. NoHoleInv'
    <3>1. SUFFICES ASSUME ~loose', ckpt' = None PROVE SharedInv' /\ ForwardInv' /\ BackInv' /\ BootInv'
      BY DEF NoHoleInv
    <3>2. SharedInv'
      BY <1>10, <3>1
    <3>3. ForwardInv' /\ BootInv'
      BY <1>1, <2>1 DEF ForwardInv, BootInv, Like
    <3>4. BackInv'
      <4>1. SUFFICES ASSUME run.kind \in {"full", "page"} PROVE BackInv'
        BY <2>1 DEF BackInv, Like
      <4>2. E # {} /\ r.top < run.floor
        BY <1>2, <1>3, <1>26
      <4>3. /\ Sound /\ latest = c /\ ~complete /\ ~run.complete
        BY <1>11, <3>1, <4>1, <4>2
      <4>4. PageDone'
        BY <1>2, <1>3, <1>6, <2>1, <4>2, <4>3 DEF PageDone, SamePage, Cov, E
      <4> QED BY <1>1, <2>1, <4>2, <4>3, <4>4 DEF BackInv, Like
    <3> QED BY <3>2, <3>3, <3>4
  <2> QED BY <2>10, <2>11, <2>12, <2>13, <2>14 DEF IInv
<1> QED BY <1>20, <1>21, <1>22, <1>23, <1>24, <1>25, <1>26

(* A page of a bootstrap is stored.                                        *)
LEMMA FetchBootKeeps ==
  ASSUME IInv, FetchBoot PROVE IInv'
<1> DEFINE r == Fetched(run)
           E == Eligible(r)
           c == Larger(run.floor, r.top)
           Sound == ~loose' /\ ckpt' = None
<1>1. /\ run.stage = "boot" /\ run.kind = "boot"
      /\ r = Fetched(run) /\ rows' = rows \cup E /\ gone' = gone
      /\ run' = (IF r.page = {} \/ (Cut(r) /\ E = {}) THEN Goto(r, "final")
                 ELSE IF Cut(r) THEN Goto(r, "cursor")
                 ELSE IF Short(r) THEN Goto(r, "complete")
                 ELSE Again(r, "boot", Low(r.page)))
      /\ loose' = (loose \/ Partial(r))
      /\ UNCHANGED <<posted, gone, latest, cursor, complete, ckpt, window, pend, moving>>
  BY RunFields DEF IInv, FetchBoot, At, StageInv, Kinds, discordVars, cursorVars,
      verifyVars, tailVars
<1>2. /\ r \in AllRuns /\ Like(r, run) /\ r.pos = run.pos /\ r.top \in Nat
      /\ r.page \in SUBSET Ids /\ E \in SUBSET Ids /\ E \subseteq r.page
      /\ r.page \subseteq Live /\ rows' \subseteq 1..posted /\ r.top \in rows' \cup {0}
      /\ run.top <= r.top /\ r.top \in {run.top, High(E)}
      /\ (E = {} => r.top = run.top /\ rows' = rows)
      /\ (E # {} => r.top # 0 /\ Low(E) # 0 /\ Low(E) <= r.top /\ High(E) \in E /\ r.page # {})
      /\ (run.pos # 0 => \A id \in r.page : id < run.pos)
      /\ (~Cut(r) => E = r.page) /\ (run.since = 0 => ~Cut(r))
      /\ (r.page # {} /\ E = {} => Cut(r))
      /\ (r.page # {} => Low(r.page) # 0 /\ Low(r.page) \in r.page)
      /\ Low(E) \in Nat /\ Low(r.page) \in Nat /\ run.pos \in Nat /\ High(E) \in Nat
  BY <1>1, PageFacts
<1> HIDE DEF r, E
<1>3. /\ run.floor \in Nat /\ latest \in Nat /\ run.top \in Nat /\ run.since \in Nat /\ run.until \in Nat
      /\ c \in Nat /\ c <= posted /\ posted \in Nat /\ Crest \in Nat /\ Crest <= c /\ c \in {Crest, r.top}
      /\ run.floor <= c /\ r.top <= c /\ c \in {run.floor, r.top} /\ run.floor <= Crest /\ run.top <= Crest
      /\ (E = {} => c = Crest) /\ latest <= posted /\ rows \in SUBSET Ids
      /\ Crest \in {run.floor, run.top}
  <2>1. /\ run.floor \in Nat /\ latest \in Nat /\ run.top \in Nat /\ run.since \in Nat /\ run.until \in Nat
        /\ posted \in Nat /\ latest <= posted /\ run.floor <= posted /\ rows \in SUBSET Ids
    BY RunFields DEF IInv, Types, InRows, Ids
  <2>2. r.top <= posted
    BY <1>2, <2>1
  <2> QED BY <1>2, <2>1, <2>2 DEF c, Crest, Larger
<1> HIDE DEF c
<1>4. \A id \in Ids : id \in Have \/ id \in E => id \in Have'
  BY <1>1 DEF Have
<1>5. Sound =>
        /\ ~loose /\ latest = 0 /\ run.floor = 0 /\ cursor = 0 /\ run.complete = complete
        /\ (run.pos = 0 => rows = {} /\ run.top = 0)
        /\ (run.pos # 0 => /\ run.top # 0 /\ Low(rows) = run.pos /\ run.pos <= run.top
                           /\ Cov(run.pos, Crest) /\ ~complete)
        /\ (E # {} => ~complete) /\ c = r.top /\ (run.pos # 0 => c = Crest)
  <2>1. SUFFICES ASSUME Sound PROVE
        /\ ~loose /\ latest = 0 /\ run.floor = 0 /\ cursor = 0 /\ run.complete = complete
        /\ (run.pos = 0 => rows = {} /\ run.top = 0)
        /\ (run.pos # 0 => /\ run.top # 0 /\ Low(rows) = run.pos /\ run.pos <= run.top
                           /\ Cov(run.pos, Crest) /\ ~complete)
        /\ (E # {} => ~complete) /\ c = r.top /\ (run.pos # 0 => c = Crest)
    OBVIOUS
  <2>2. ~loose /\ BootInv /\ ~Partial(r)
    BY <1>1, <2>1 DEF IInv, NoHoleInv
  <2>3. E # {} => ~run.complete
    BY <1>1, <1>2, <2>2 DEF Partial, Like, E
  <2>4. /\ latest = 0 /\ run.floor = 0 /\ cursor = 0 /\ run.complete = complete
        /\ (run.pos = 0 => rows = {} /\ run.top = 0)
        /\ (run.pos # 0 => /\ run.top # 0 /\ Low(rows) = run.pos /\ run.pos <= run.top
                           /\ Cov(run.pos, Crest) /\ ~complete)
    BY <1>1, <2>2 DEF BootInv
  <2>5. c = r.top /\ (run.pos # 0 => c = Crest)
    BY <1>2, <1>3, <2>4 DEF Ids
  <2> QED BY <2>2, <2>3, <2>4, <2>5
<1>6. Sound => /\ r.page = {} \/ (Short(r) /\ ~Cut(r)) => \A id \in Ids : id <= c => id \in Have'
               /\ E # {} => \A id \in Ids : Low(E) <= id /\ id <= c => id \in Have'
  <2>1. Sound /\ run.pos # 0 => \A id \in Ids : run.pos <= id /\ id <= c => id \in Have
    BY <1>5 DEF Cov
  <2> QED BY <1>1, <1>3, <2>1, LastPage DEF E
<1>7. E # {} => Low(rows') <= Low(E) /\ Low(rows') \in Nat
  <2>1. rows' \in SUBSET Ids
    BY <1>2 DEF IInv, Types, Ids
  <2>2. E # {} => Low(E) \in rows'
    BY <1>1, <1>2, LowIs
  <2> QED BY <2>1, <2>2, LowIs, EndsAre
<1>8. CheckpointInv' /\ WindowIsWhole'
  BY <1>1, <1>4 DEF IInv, CheckpointInv, WindowIsWhole, Cov
<1>9. /\ r.kind = run.kind /\ (r.page = {} => E = {}) /\ (~loose' => ~loose)
      /\ (~loose' => (run.top = 0 /\ latest = 0 => rows = {} /\ cursor = 0))
      /\ (~loose' => moving = 0 /\ (ckpt.latest # 0 \/ run.floor # 0 => latest # 0))
  BY <1>1, <1>2 DEF IInv, ZeroInv, Like
<1> HIDE DEF Sound
<1>20. CASE r.page = {} \/ (Cut(r) /\ E = {})
  <2>1. /\ run' \in AllRuns /\ Like(run', run) /\ run'.pos = run.pos /\ run'.top = r.top
        /\ SamePage(run', r) /\ run'.stage = "final" /\ Crest' = c
    <3>1. "final" \in Stages
      BY DEF Stages
    <3>2. run' = Goto(r, "final")
      BY <1>1, <1>20
    <3>3. /\ run' \in AllRuns /\ Like(run', r) /\ run'.pos = r.pos /\ run'.top = r.top
          /\ SamePage(run', r) /\ run'.stage = "final"
      BY <1>2, <3>1, <3>2, GotoIs
    <3> QED BY <1>2, <3>3 DEF Like, Crest, c
  <2>10. Types' /\ StageInv' /\ InRows' /\ PagePos'
    <3>1. Types'
      BY <1>1, <1>2, <1>3, <1>9, <1>20, <2>1 DEF IInv, Types, Larger
    <3>2. StageInv'
      BY <1>1, <1>2, <1>3, <1>9, <1>20, <2>1 DEF IInv, Types, StageInv, Like, Kinds, Stages
    <3>3. InRows'
      BY <1>1, <1>2, <1>3, <1>9, <1>20, <2>1 DEF IInv, Types, StageInv, InRows, Like,
          Larger, None
    <3>4. PagePos'
      BY <1>1, <1>2, <1>3, <1>9, <1>20, <2>1 DEF IInv, Types, StageInv, PagePos, Like,
          SamePage, E, Larger, Kinds
    <3> QED BY <3>1, <3>2, <3>3, <3>4
  <2>11. CheckpointInv' /\ VerifyInv'
    <3>1. VerifyInv'
      BY <1>1, <2>1 DEF VerifyInv, Like
    <3> QED BY <1>8, <3>1
  <2>12. WindowInv' /\ WindowIsWhole'
    <3>1. WindowInv'
      BY <1>1, <2>1 DEF WindowInv, Like
    <3> QED BY <1>8, <3>1
  <2>13. ZeroInv'
    BY <1>1, <1>2, <1>3, <1>9, <1>20, <2>1 DEF ZeroInv, Like
  <2>14. NoHoleInv'
    <3>1. SUFFICES ASSUME ~loose', ckpt' = None PROVE SharedInv' /\ ForwardInv' /\ BackInv' /\ BootInv'
      BY DEF NoHoleInv
    <3>2. Sound
      BY <3>1 DEF Sound
    <3>3. SharedInv'
      BY <1>1, <1>5, <3>2 DEF SharedInv, Cov, Ids
    <3>4. ForwardInv' /\ BackInv'
      BY <1>1, <2>1 DEF ForwardInv, BackInv, Like
    <3>5. BootInv'
      <4>1. E = {} /\ rows' = rows /\ r.top = run.top /\ c = Crest
        BY <1>2, <1>3, <1>9, <1>20
      <4>2. r.top # 0 => LowMark' <= c /\ Cov(LowMark, Crest)'
        BY <1>1, <1>3, <1>4, <1>5, <2>1, <3>2, <4>1 DEF LowMark, Cov
      <4>3. complete => Cov(1, Crest)'
        BY <1>2, <1>3, <1>5, <2>1, <3>2, <4>1 DEF Cov, Ids
      <4> QED BY <1>1, <1>5, <2>1, <3>2, <4>2, <4>3 DEF BootInv, Like
    <3> QED BY <3>3, <3>4, <3>5
  <2> QED BY <2>10, <2>11, <2>12, <2>13, <2>14 DEF IInv
<1>21. CASE r.page # {} /\ Cut(r) /\ E # {}
  <2>1. /\ run' \in AllRuns /\ Like(run', run) /\ run'.pos = run.pos /\ run'.top = r.top
        /\ SamePage(run', r) /\ run'.stage = "cursor" /\ Crest' = c
    <3>1. "cursor" \in Stages
      BY DEF Stages
    <3>2. run' = Goto(r, "cursor")
      BY <1>1, <1>21
    <3>3. /\ run' \in AllRuns /\ Like(run', r) /\ run'.pos = r.pos /\ run'.top = r.top
          /\ SamePage(run', r) /\ run'.stage = "cursor"
      BY <1>2, <3>1, <3>2, GotoIs
    <3> QED BY <1>2, <3>3 DEF Like, Crest, c
  <2>10. Types' /\ StageInv' /\ InRows' /\ PagePos'
    <3>1. Types'
      BY <1>1, <1>2, <1>3, <1>9, <1>21, <2>1 DEF IInv, Types, Larger
    <3>2. StageInv'
      BY <1>1, <1>2, <1>3, <1>9, <1>21, <2>1 DEF IInv, Types, StageInv, Like, Kinds, Stages
    <3>3. InRows'
      BY <1>1, <1>2, <1>3, <1>9, <1>21, <2>1 DEF IInv, Types, StageInv, InRows, Like,
          Larger, None
    <3>4. PagePos'
      BY <1>1, <1>2, <1>3, <1>9, <1>21, <2>1 DEF IInv, Types, StageInv, PagePos, Like,
          SamePage, E, Larger, Kinds
    <3> QED BY <3>1, <3>2, <3>3, <3>4
  <2>11. CheckpointInv' /\ VerifyInv'
    <3>1. VerifyInv'
      BY <1>1, <2>1 DEF VerifyInv, Like
    <3> QED BY <1>8, <3>1
  <2>12. WindowInv' /\ WindowIsWhole'
    <3>1. WindowInv'
      BY <1>1, <2>1 DEF WindowInv, Like
    <3> QED BY <1>8, <3>1
  <2>13. ZeroInv'
    BY <1>1, <1>2, <1>3, <1>9, <1>21, <2>1 DEF ZeroInv, Like
  <2>14. NoHoleInv'
    <3>1. SUFFICES ASSUME ~loose', ckpt' = None PROVE SharedInv' /\ ForwardInv' /\ BackInv' /\ BootInv'
      BY DEF NoHoleInv
    <3>2. Sound
      BY <3>1 DEF Sound
    <3>3. SharedInv'
      BY <1>1, <1>5, <3>2 DEF SharedInv, Cov, Ids
    <3>4. ForwardInv' /\ BackInv'
      BY <1>1, <2>1 DEF ForwardInv, BackInv, Like
    <3>5. BootInv'
      <4>1. E # {} /\ ~complete
        BY <1>5, <1>21, <3>2
      <4>2. PageDone'
        BY <1>2, <1>3, <1>6, <2>1, <3>2, <4>1 DEF PageDone, SamePage, Cov, E
      <4> QED BY <1>1, <1>5, <2>1, <3>2, <4>1, <4>2 DEF BootInv, Like
    <3> QED BY <3>3, <3>4, <3>5
  <2> QED BY <2>10, <2>11, <2>12, <2>13, <2>14 DEF IInv
<1>22. CASE r.page # {} /\ ~Cut(r) /\ Short(r)
  <2>1. /\ run' \in AllRuns /\ Like(run', run) /\ run'.pos = run.pos /\ run'.top = r.top
        /\ SamePage(run', r) /\ run'.stage = "complete" /\ Crest' = c
    <3>1. "complete" \in Stages
      BY DEF Stages
    <3>2. run' = Goto(r, "complete")
      BY <1>1, <1>22
    <3>3. /\ run' \in AllRuns /\ Like(run', r) /\ run'.pos = r.pos /\ run'.top = r.top
          /\ SamePage(run', r) /\ run'.stage = "complete"
      BY <1>2, <3>1, <3>2, GotoIs
    <3> QED BY <1>2, <3>3 DEF Like, Crest, c
  <2>10. Types' /\ StageInv' /\ InRows' /\ PagePos'
    <3>1. Types'
      BY <1>1, <1>2, <1>3, <1>9, <1>22, <2>1 DEF IInv, Types, Larger
    <3>2. StageInv'
      BY <1>1, <1>2, <1>3, <1>9, <1>22, <2>1 DEF IInv, Types, StageInv, Like, Kinds, Stages
    <3>3. InRows'
      BY <1>1, <1>2, <1>3, <1>9, <1>22, <2>1 DEF IInv, Types, StageInv, InRows, Like,
          Larger, None
    <3>4. PagePos'
      BY <1>1, <1>2, <1>3, <1>9, <1>22, <2>1 DEF IInv, Types, StageInv, PagePos, Like,
          SamePage, E, Larger, Kinds
    <3> QED BY <3>1, <3>2, <3>3, <3>4
  <2>11. CheckpointInv' /\ VerifyInv'
    <3>1. VerifyInv'
      BY <1>1, <2>1 DEF VerifyInv, Like
    <3> QED BY <1>8, <3>1
  <2>12. WindowInv' /\ WindowIsWhole'
    <3>1. WindowInv'
      BY <1>1, <2>1 DEF WindowInv, Like
    <3> QED BY <1>8, <3>1
  <2>13. ZeroInv'
    BY <1>1, <1>2, <1>3, <1>9, <1>22, <2>1 DEF ZeroInv, Like
  <2>14. NoHoleInv'
    <3>1. SUFFICES ASSUME ~loose', ckpt' = None PROVE SharedInv' /\ ForwardInv' /\ BackInv' /\ BootInv'
      BY DEF NoHoleInv
    <3>2. Sound
      BY <3>1 DEF Sound
    <3>3. SharedInv'
      BY <1>1, <1>5, <3>2 DEF SharedInv, Cov, Ids
    <3>4. ForwardInv' /\ BackInv'
      BY <1>1, <2>1 DEF ForwardInv, BackInv, Like
    <3>5. BootInv'
      <4>1. E # {} /\ r.top # 0
        BY <1>2, <1>22
      <4>2. Cov(1, Crest)' /\ LowMark' <= c
        BY <1>1, <1>2, <1>3, <1>5, <1>6, <1>7, <1>22, <2>1, <3>2, <4>1 DEF Cov, Ids, LowMark
      <4> QED BY <1>1, <1>5, <2>1, <3>2, <4>1, <4>2 DEF BootInv, Like
    <3> QED BY <3>3, <3>4, <3>5
  <2> QED BY <2>10, <2>11, <2>12, <2>13, <2>14 DEF IInv
<1>23. CASE r.page # {} /\ ~Cut(r) /\ ~Short(r)
  <2>1. /\ run' \in AllRuns /\ Like(run', run) /\ run'.pos = Low(r.page) /\ run'.top = r.top
        /\ run'.page = {} /\ run'.stage = "boot" /\ Crest' = c
    <3>1. "boot" \in Stages /\ Low(r.page) \in Nat
      BY <1>2 DEF Stages
    <3>2. run' = Again(r, "boot", Low(r.page))
      BY <1>1, <1>23
    <3>3. /\ run' \in AllRuns /\ Like(run', r) /\ run'.pos = Low(r.page) /\ run'.top = r.top
          /\ run'.page = {} /\ run'.stage = "boot"
      <4>1. r \in AllRuns
        BY <1>2
      <4> QED BY <3>1, <3>2, <4>1, AgainIs
    <3> QED BY <1>2, <3>3 DEF Like, Crest, c
  <2>10. Types' /\ StageInv' /\ InRows' /\ PagePos'
    <3>1. Types'
      BY <1>1, <1>2, <1>3, <1>9, <1>23, <2>1 DEF IInv, Types, Larger
    <3>2. StageInv'
      BY <1>1, <1>2, <1>3, <1>9, <1>23, <2>1 DEF IInv, Types, StageInv, Like, Kinds, Stages
    <3>3. InRows'
      BY <1>1, <1>2, <1>3, <1>9, <1>23, <2>1 DEF IInv, Types, StageInv, InRows, Like,
          Larger, None
    <3>4. PagePos'
      BY <1>1, <1>2, <1>3, <1>9, <1>23, <2>1 DEF IInv, Types, StageInv, PagePos, Like,
          SamePage, E, Larger, Kinds
    <3> QED BY <3>1, <3>2, <3>3, <3>4
  <2>11. CheckpointInv' /\ VerifyInv'
    <3>1. VerifyInv'
      BY <1>1, <2>1 DEF VerifyInv, Like
    <3> QED BY <1>8, <3>1
  <2>12. WindowInv' /\ WindowIsWhole'
    <3>1. WindowInv'
      BY <1>1, <2>1 DEF WindowInv, Like
    <3> QED BY <1>8, <3>1
  <2>13. ZeroInv'
    BY <1>1, <1>2, <1>3, <1>9, <1>23, <2>1 DEF ZeroInv, Like
  <2>14. NoHoleInv'
    <3>1. SUFFICES ASSUME ~loose', ckpt' = None PROVE SharedInv' /\ ForwardInv' /\ BackInv' /\ BootInv'
      BY DEF NoHoleInv
    <3>2. Sound
      BY <3>1 DEF Sound
    <3>3. SharedInv'
      BY <1>1, <1>5, <3>2 DEF SharedInv, Cov, Ids
    <3>4. ForwardInv' /\ BackInv'
      BY <1>1, <2>1 DEF ForwardInv, BackInv, Like
    <3>5. BootInv'
      <4>1. E # {} /\ E = r.page /\ r.top # 0 /\ ~complete /\ Low(E) # 0 /\ Low(E) <= r.top
        BY <1>2, <1>5, <1>23, <3>2
      <4>2. Cov(run.pos, Crest)'
        BY <1>6, <2>1, <3>2, <4>1 DEF Cov
      <4>3. Low(rows') = Low(r.page)
        <5>1. rows \in SUBSET Ids /\ rows' \in SUBSET Ids /\ rows' # {}
          BY <1>1, <1>2, <1>3, <4>1 DEF Ids
        <5>2. Low(rows') \in rows' /\ (\A y \in rows' : Low(rows') <= y) /\ Low(E) \in E /\ (\A y \in E : Low(E) <= y)
          BY <1>2, <4>1, <5>1, LowIs
        <5>3. \A y \in rows : Low(E) <= y
          <6>1. CASE run.pos = 0
            BY <1>5, <3>2, <6>1
          <6>2. CASE run.pos # 0
            <7>1. \A y \in rows : run.pos <= y
              BY <1>3, <1>5, <3>2, <6>2, LowIs
            <7>2. Low(E) < run.pos
              BY <1>2, <4>1, <5>2, <6>2
            <7> QED BY <1>2, <5>1, <7>1, <7>2 DEF Ids
          <6> QED BY <6>1, <6>2
        <5>4. Low(E) <= Low(rows') /\ Low(rows') <= Low(E)
          BY <1>1, <5>2, <5>3
        <5>5. Low(E) \in Nat /\ Low(rows') \in Nat /\ E = r.page
          BY <1>2, <4>1, <5>1, EndsAre
        <5>6. Low(rows') = Low(E)
          BY <5>4, <5>5
        <5> QED BY <5>5, <5>6
      <4>4. run'.complete = complete'
        BY <1>1, <1>5, <2>1, <3>2 DEF Like
      <4>5. latest' = 0 /\ run'.floor = 0 /\ cursor' = 0
        BY <1>1, <1>5, <2>1, <3>2 DEF Like
      <4>6. run'.pos # 0 /\ run'.top # 0 /\ Low(rows') = run'.pos /\ run'.pos <= run'.top /\ ~complete'
        BY <1>1, <2>1, <4>1, <4>3
      <4> QED BY <2>1, <4>2, <4>4, <4>5, <4>6 DEF BootInv
    <3> QED BY <3>3, <3>4, <3>5
  <2> QED BY <2>10, <2>11, <2>12, <2>13, <2>14 DEF IInv
<1> QED BY <1>20, <1>21, <1>22, <1>23

-----------------------------------------------------------------------------
(* The invariant, and what it gives.                                       *)

(* Nothing is stored, claimed or running at the start.                     *)
LEMMA InitHolds ==
  ASSUME Init PROVE IInv
<1>1. Types
  <2>1. None \in [latest : Nat, before : Nat \cup {-1}]
    BY DEF None
  <2>2. posted \in 0..MaxPosts /\ gone \subseteq 1..posted /\ rows \subseteq 1..posted /\ pend \subseteq 1..posted
    BY DEF Init
  <2>3. latest \in Nat /\ cursor \in Nat /\ complete \in BOOLEAN /\ moving \in Nat /\ loose \in BOOLEAN
    BY DEF Init
  <2>4. window \in [Sinces \ {0} -> Int] /\ run \in AllRuns /\ ckpt = None
    BY IdleIs DEF Init
  <2> QED BY <2>1, <2>2, <2>3, <2>4 DEF Types
<1>2. StageInv /\ InRows /\ PagePos
  BY IdleIs DEF Init, StageInv, InRows, PagePos, None
<1>3. CheckpointInv /\ VerifyInv
  BY IdleIs DEF Init, CheckpointInv, VerifyInv, None
<1>4. WindowInv /\ WindowIsWhole
  BY IdleIs DEF Init, WindowInv, WindowIsWhole, Ids
<1>5. ZeroInv
  BY IdleIs DEF Init, ZeroInv, None
<1>6. NoHoleInv
  BY IdleIs DEF Init, NoHoleInv, SharedInv, ForwardInv, BackInv, BootInv, Cov, Ids
<1> QED BY <1>1, <1>2, <1>3, <1>4, <1>5, <1>6 DEF IInv

(* A step that changes nothing keeps it.                                   *)
LEMMA StutterKeeps ==
  ASSUME IInv, UNCHANGED vars PROVE IInv'
<1>1. UNCHANGED <<posted, gone, rows, latest, cursor, complete, ckpt, window, run, pend, moving, loose>>
  BY DEF vars, discordVars, cursorVars, verifyVars, tailVars
<1>2. Types' /\ StageInv' /\ InRows'
  BY <1>1 DEF IInv, Types, StageInv, InRows
<1>3. PagePos'
  BY <1>1 DEF IInv, PagePos
<1>4. CheckpointInv' /\ VerifyInv'
  BY <1>1 DEF IInv, CheckpointInv, VerifyInv, PageDone, Reached, Cov, Have, Crest
<1>5. WindowInv' /\ WindowIsWhole' /\ ZeroInv'
  BY <1>1 DEF IInv, WindowInv, WindowIsWhole, ZeroInv, Cov, Have
<1>6. NoHoleInv'
  <2>1. SharedInv' <=> SharedInv
    BY <1>1 DEF SharedInv, LowMark, Cov, Have
  <2>2. ForwardInv' <=> ForwardInv
    BY <1>1 DEF ForwardInv, Cov, Have
  <2>3. BackInv' <=> BackInv
    BY <1>1 DEF BackInv, PageDone, Cov, Have, Crest
  <2>4. BootInv' <=> BootInv
    BY <1>1 DEF BootInv, PageDone, LowMark, Cov, Have, Crest
  <2> QED BY <1>1, <2>1, <2>2, <2>3, <2>4 DEF IInv, NoHoleInv
<1> QED BY <1>2, <1>3, <1>4, <1>5, <1>6 DEF IInv

(* Every step of a run, of Discord and of the tail keeps it.               *)
LEMMA StepKeeps ==
  ASSUME IInv, [Next]_vars PROVE IInv'
<1>1. CASE RunStep
  <2>1. CASE Load \/ RouteWindow \/ RouteVerify \/ RouteFull \/ RouteRoutine
    BY <2>1, LoadKeeps, RouteWindowKeeps, RouteVerifyKeeps, RouteFullKeeps,
        RouteRoutineKeeps
  <2>2. CASE SaveIntent \/ ClearComplete \/ RecordOutcome \/ DropCheckpoint
    BY <2>2, SaveIntentKeeps, ClearCompleteKeeps, RecordOutcomeKeeps, DropCheckpointKeeps
  <2>3. CASE FetchForward \/ AdvanceLatest \/ Turn
    BY <2>3, FetchForwardKeeps, AdvanceLatestKeeps, TurnKeeps
  <2>4. CASE FetchBack \/ SetHead \/ SetCursor \/ SaveCheckpoint \/ SetComplete \/ Finish
    BY <2>4, FetchBackKeeps, SetHeadKeeps, SetCursorKeeps, SaveCheckpointKeeps,
       SetCompleteKeeps, FinishKeeps
  <2>5. CASE FetchBoot \/ Certify \/ Restore
    BY <2>5, FetchBootKeeps, CertifyKeeps, RestoreKeeps
  <2> QED BY <1>1, <2>1, <2>2, <2>3, <2>4, <2>5 DEF RunStep
<1>2. CASE RunFails \/ Crash
  BY <1>2, RunFailsKeeps, CrashKeeps
<1>3. CASE Post \/ Delete
  BY <1>3, PostKeeps, DeleteKeeps
<1>4. CASE \E mode \in Modes, since \in Sinces : Start(mode, since)
  BY <1>4, StartKeeps
<1>5. CASE \E mode \in TailModes : StartTail(mode)
  BY <1>5, StartTailKeeps
<1>6. CASE StopTail \/ LiveWrite \/ LiveAdvance \/ LiveFails
  BY <1>6, StopTailKeeps, LiveWriteKeeps, LiveAdvanceKeeps, LiveFailsKeeps
<1>7. CASE UNCHANGED vars
  BY <1>7, StutterKeeps
<1> QED BY <1>1, <1>2, <1>3, <1>4, <1>5, <1>6, <1>7 DEF Next

(* The inductive invariant holds in every reachable state.                 *)
LEMMA Invariance == Spec => []IInv
<1>1. Init => IInv
  BY InitHolds
<1>2. IInv /\ [Next]_vars => IInv'
  BY StepKeeps
<1> QED BY <1>1, <1>2, PTL DEF Spec

(* Whatever runs, fails and crashes in whatever order, everything between  *)
(* backfill_cursor (or, once history_complete is set, the first message)   *)
(* and latest_message_id is stored, as long as no verification is pending  *)
(* and every row came by a way that accounts for its neighbours: for any   *)
(* number of messages and any page size.                                   *)
THEOREM CursorsClaimNoHole == Spec => []HistoryHasNoHole
<1>1. IInv => HistoryHasNoHole
  <2>1. SUFFICES ASSUME IInv, ~loose, ckpt = None, NEW id \in Claimed PROVE id \in Have
    BY DEF HistoryHasNoHole
  <2>2. SharedInv
    BY <2>1 DEF IInv, NoHoleInv
  <2>3. /\ id \in Ids /\ id <= latest /\ latest \in Nat /\ latest # 0
        /\ complete \/ (cursor # 0 /\ cursor <= id)
    BY <2>1 DEF Claimed, IInv, Types, Ids
  <2>4. CASE complete
    BY <2>2, <2>3, <2>4 DEF SharedInv, Cov, Ids
  <2>5. CASE cursor # 0 /\ cursor <= id
    BY <2>2, <2>3, <2>5 DEF SharedInv, LowMark, Cov
  <2> QED BY <2>3, <2>4, <2>5
<1> QED BY <1>1, Invariance, PTL

(* verifyChannelHistory deletes its checkpoint only with history_complete  *)
(* set and everything up to the newest message it saw stored, whatever     *)
(* live messages, windows and repairs did meanwhile.                       *)
THEOREM VerificationLetsGoWhole == Spec => VerificationEndsWhole
<1> DEFINE Ends == ckpt # None /\ ckpt' = None =>
             /\ complete
             /\ \A id \in Ids : id <= Larger(run.floor, run.top) => id \in Have
<1>1. IInv /\ [Next]_vars => [Ends]_vars
  <2>1. SUFFICES ASSUME IInv, Next, ckpt # None, ckpt' = None
                 PROVE  /\ complete
                        /\ \A id \in Ids : id <= Larger(run.floor, run.top) => id \in Have
    OBVIOUS
  <2>2. CASE DropCheckpoint
    <3>1. run.stage = "unmark" /\ run.kind = "verify"
      BY <2>1, <2>2, RunFields DEF DropCheckpoint, At, IInv, StageInv, Kinds
    <3>2. complete /\ Cov(1, Crest)
      BY <2>1, <3>1 DEF IInv, VerifyInv
    <3> QED BY <3>2 DEF Cov, Crest, Ids
  <2>3. CASE SaveIntent
    BY <2>1, <2>3 DEF SaveIntent, None
  <2>4. CASE SaveCheckpoint
    <3>1. run.page \in SUBSET Ids /\ Low(run.page) \in Nat
      BY <2>1, RunFields, EndsAre DEF IInv
    <3> QED BY <2>1, <2>4, <3>1 DEF SaveCheckpoint, None
  <2>5. ASSUME ckpt' = ckpt PROVE FALSE
    BY <2>1, <2>5
  <2>6. ~(DropCheckpoint \/ SaveIntent \/ SaveCheckpoint) => ckpt' = ckpt
    <3>1. CASE RunStep
      BY <3>1 DEF RunStep, Load, RouteWindow, RouteVerify, RouteFull, RouteRoutine,
          ClearComplete,
         RecordOutcome, FetchForward, AdvanceLatest, Turn, FetchBack, SetHead, SetCursor,
         SetComplete, Finish, FetchBoot, Certify, Restore, verifyVars
    <3>2. CASE ~RunStep
      BY <2>1, <3>2 DEF Next, Post, Delete, Start, RunFails, Crash, StartTail, StopTail,
          LiveWrite,
         LiveAdvance, LiveFails, verifyVars
    <3> QED BY <3>1, <3>2
  <2> QED BY <2>2, <2>3, <2>4, <2>5, <2>6
<1> QED BY <1>1, Invariance, PTL DEF Spec, VerificationEndsWhole

(* A checkpoint of a verification covers what it says, whatever the shared *)
(* cursors came to say meanwhile.                                          *)
THEOREM CheckpointIsTrue == Spec => []CheckpointCovers
<1>1. IInv => CheckpointCovers
  BY DEF IInv, CheckpointInv, CheckpointCovers, Cov
<1> QED BY <1>1, Invariance, PTL

(* A window that syncWindowChannelHistory has certified has every message  *)
(* of it stored.                                                           *)
THEOREM WindowsAreWhole == Spec => []WindowIsWhole
<1>1. IInv => WindowIsWhole
  BY DEF IInv
<1> QED BY <1>1, Invariance, PTL
=============================================================================

---------------------------- MODULE PoolRotation ----------------------------
(***************************************************************************)
(* How a pool's block walks its items: the rotation over the sources and   *)
(* the positions it stores, the item that is continued after a cut, and    *)
(* the item that is started once more because its input did not open.      *)
(*                                                                         *)
(* One pool, on air all the time but for what takes the air from it.  What *)
(* keeps an item from being picked (not ready, quarantined, excluded, held *)
(* out by a Skip, passed over after a failed resolve, its source held) is  *)
(* one set.  A cycle is modelled from its start of an item: the start with *)
(* its row write, the cycle-end write and the write of the position; an    *)
(* exit or the end of the container may come between any two of them.      *)
(* Positions count units, so that ten seconds and two minutes differ.      *)
(***************************************************************************)
EXTENDS Integers, Sequences, FiniteSets

CONSTANTS Lanes,          \* sourceIds in pool order, each a sequence of its items, oldest first
          OnDisk,         \* the items that may be a file on disk, which starts part-way
          ItemLength,
          RewindUnits,    \* RESUME_REWIND_SECONDS
          MinAired,       \* RESUME_MIN_AIRED_SECONDS
          MinRemaining,   \* RESUME_MIN_REMAINING_SECONDS
          MaxShortStarts, \* RESUME_MAX_SHORT_STARTS
          FirstPointers,  \* the pointers a pool may come with
          Watched,        \* the items whose turns are watched
          MaxHeld,        \* bound: times an item is held back or vanishes
          MaxCuts,        \* bound: exits that are no end, and what takes the air
          MaxBreaks       \* bound: refused writes and ends of the container

VARIABLES catalogue, \* the items that exist
          heldBack,  \* the items the pool may not take now
          pool,      \* pools.cursor_asset_id and source_cursors
          airRow,    \* playout.currentAssetId, selectionReasonCode and status
          run,       \* the process and what the worker remembers of it (ResumeRun)
          retry,     \* inputOpenRetry
          point,     \* the pool's entry of playout.resumePoints
          cycle,     \* what the cycle that started the item has still to write
          turn,      \* history: one item, and who has waited since it started last
          poolSpent  \* bounds

poolVars == <<catalogue, heldBack, pool, airRow, run, retry, point, cycle, turn, poolSpent>>

Sources == DOMAIN Lanes
ItemsOf(s) == {Lanes[s][i] : i \in DOMAIN Lanes[s]}
Items == UNION {ItemsOf(s) : s \in Sources}
LaneOf(x) == CHOOSE s \in Sources : x \in ItemsOf(s)

None == "none"
Cover == "cover"  \* a fallback or a bridge, which any pick of the pool replaces
Other == "other"  \* an operator's item, a Live Bridge, another block
Slate == "slate"  \* the reconnect slate

ASSUME PoolAssumption ==
    /\ RewindUnits \in Nat /\ MinAired \in Nat \ {0} /\ MaxShortStarts \in Nat \ {0}
    /\ ItemLength \in Nat \ {0} /\ MinRemaining \in Nat
    /\ Lanes \in Seq(Seq(Items)) /\ FirstPointers \subseteq Items \cup {None}
    /\ \A s, q \in Sources : \A i \in DOMAIN Lanes[s], j \in DOMAIN Lanes[q] :
          Lanes[s][i] = Lanes[q][j] => s = q /\ i = j   \* assets.id, source_id; normalizeState's sets
    /\ Watched \subseteq Items /\ {None, Cover, Other, Slate} \cap Items = {}

Eligible == catalogue \ heldBack

---------------------------------------------------------------------------
(* The rotation *)

\* withPointerPosition: the pointer says where its own source stands.
Positions ==
    [s \in Sources |-> IF pool.cursor \in catalogue \cap ItemsOf(s) THEN pool.cursor ELSE pool.cursors[s]]

\* lastSourceOf; 0: unknown.
LastSource ==
    LET of == {s \in Sources : pool.cursor # None /\ (IF pool.cursor \in catalogue THEN pool.cursor \in ItemsOf(s)
                                                      ELSE pool.cursors[s] = pool.cursor)}
    IN  IF of = {} THEN 0 ELSE CHOOSE s \in of : TRUE

\* The first of the numbers after a, cyclically, a itself the last.
Following(a, numbers, n) == CHOOSE i \in numbers : \A j \in numbers : (i - a - 1) % n <= (j - a - 1) % n

NextLane(eligible) ==
    Following(LastSource, {s \in Sources : ItemsOf(s) \cap eligible # {}}, Len(Lanes))

\* Mutant: the position is looked up among the items that may be picked.
PickInFilteredLane(s, anchor, eligible) ==
    LET numbers == {i \in DOMAIN Lanes[s] : Lanes[s][i] \in eligible}
        at == {i \in numbers : Lanes[s][i] = anchor}
    IN  Lanes[s][Following(IF at = {} THEN 0 ELSE CHOOSE i \in at : TRUE, numbers, Len(Lanes[s]))]

\* pickInLane: the position is taken in the source's full list; one that vanished is no position.
PickInLane(s, anchor, eligible) ==
    LET numbers == {i \in DOMAIN Lanes[s] : Lanes[s][i] \in eligible}
        at == {i \in DOMAIN Lanes[s] : Lanes[s][i] = anchor /\ anchor \in catalogue}
    IN  Lanes[s][Following(IF at = {} THEN 0 ELSE CHOOSE i \in at : TRUE, numbers, Len(Lanes[s]))]

RotationPick == LET s == NextLane(Eligible) IN PickInLane(s, Positions[s], Eligible)

\* What updatePoolCursor stores for an item that started.
PositionStored(x) ==
    [cursor |-> x, cursors |-> [Positions EXCEPT ![LaneOf(x)] = x]]

---------------------------------------------------------------------------
(* Resume points *)

NoPoint == [item |-> None, at |-> 0, shorts |-> 0]
OffAir == [item |-> None, kept |-> FALSE, turn |-> FALSE, resumed |-> FALSE, from |-> 0, aired |-> 0]

PositionOf(r) == r.from + r.aired

\* decideResumeStart: -1 when too little is left.
ResumeStart(at) ==
    IF ItemLength - at < MinRemaining THEN -1
    ELSE IF at < MinAired THEN 0 ELSE IF at > RewindUnits THEN at - RewindUnits ELSE 0

\* Mutant: a checkpoint starts the count again.
PointWithoutCount(r) == [item |-> r.item, at |-> PositionOf(r), shorts |-> 0]

\* pointOfRun: until the run has aired long enough it carries on the count, in which its start
\* is counted already (StartItem); a run without its point counts itself.
PointOfRun(r) ==
    [item |-> r.item, at |-> PositionOf(r),
     shorts |-> IF ~r.resumed \/ r.aired >= MinAired THEN 0 ELSE IF point.item = r.item THEN point.shorts ELSE 1]

WithoutItem(x) == IF point.item = x THEN NoPoint ELSE point

\* decideResumeCheckpoint: what is still owed, and the run on air, judged by nothing.
Checkpoint ==
    IF run.kept THEN PointOfRun(run)
    ELSE IF pool.cursor = point.item THEN point ELSE NoPoint

\* decideResumePointsAfterExit
PointAfterExit(kind, completed) ==
    LET left == IF completed THEN WithoutItem(run.item) ELSE point
    IN  CASE ~run.kept -> left
          [] run.kept /\ kind = "open-failure" -> left
          [] run.kept /\ (kind = "ended" \/ (kind = "failed" /\ run.resumed /\ run.aired < MinAired)) ->
                WithoutItem(run.item)
          [] OTHER -> PointOfRun(run)

\* pickResumeItem
ContinuedPick ==
    IF point.item \in Eligible /\ pool.cursor = point.item /\ point.shorts < MaxShortStarts
           /\ ResumeStart(point.at) >= 0
    THEN point.item ELSE None

---------------------------------------------------------------------------
(* The retry of an item that did not open *)

NoRetry == [item |-> None, step |-> "none", reason |-> None]

\* decideInputOpenRetry: a pool's pick and a Move next are tried once more, an operator's item is not.
RetryPick ==
    IF /\ retry.item \in Eligible
       /\ \/ retry.step = "bridged" /\ run.item = Cover
          \/ retry.step = "covered" /\ airRow.item = None
          \/ /\ retry.step \in {"owed", "bridged", "covered"} /\ run.item = None /\ airRow.failed
             /\ airRow.item = retry.item /\ airRow.reason \in {"match", "manual"}
    THEN retry.item ELSE None

\* A point that names the item to be tried again makes the selection throw: the look-up reads
\* currentScheduleItem ahead of its const.  Only the operator arms come before it, so nothing
\* else is selected until the retry's window is over (RetryExpires) or its item is held back.
SelectionThrows == RetryPick # None /\ point.item = RetryPick

RetryReason == IF retry.step \in {"bridged", "covered"} THEN retry.reason ELSE airRow.reason
Retry(step) == [retry EXCEPT !.step = step, !.reason = RetryReason]

\* decideInputOpenRetryAfterExit
RetryAfterExit(openFailure) ==
    IF openFailure
    THEN IF retry.item = run.item /\ retry.step \in {"retried", "exhausted"}
         THEN [retry EXCEPT !.step = "exhausted"] ELSE [NoRetry EXCEPT !.item = run.item, !.step = "owed"]
    ELSE IF retry.item = run.item \/ (retry.step = "covered" /\ run.item # Slate) THEN NoRetry ELSE retry

---------------------------------------------------------------------------
(* History: who waits for a turn *)

\* turn.item is one item; waiting are the items of its source, and passed the other sources,
\* that could have been picked ever since it (its source) started; runs counts its short
\* continuations in a row.
StillWaiting(t, eligible) ==
    [t EXCEPT !.waiting = @ \cap eligible,
              !.passed = {s \in @ : ItemsOf(s) \cap eligible # {}}]

AfterTurnOf(x) ==
    LET w == turn.item
        own == LaneOf(x) = LaneOf(w)
    IN  [turn EXCEPT
            !.waiting = IF x = w THEN (ItemsOf(LaneOf(w)) \cap Eligible) \ {w} ELSE @ \ {x},
            !.passed = IF own THEN {s \in Sources \ {LaneOf(w)} : ItemsOf(s) \cap Eligible # {}}
                       ELSE @ \ {LaneOf(x)}]

\* A position that was not stored, or one that vanished, is no longer the one to go on from.
ForgetTurn(t) == [t EXCEPT !.waiting = {}, !.passed = {}]

---------------------------------------------------------------------------
(* The cycle that starts an item *)

NoCycle == [step |-> "none", item |-> None, reason |-> None, takes |-> FALSE]
Idle == cycle = NoCycle

\* selectionTakesPoolPosition
TakesPosition(x, how) == how = "turn" /\ (airRow.item # x \/ airRow.reason = "operator")

\* Where an item with a point starts, -1 for one without (pickResumeItem).  A retry would start
\* there too, but one whose item has a point never gets that far (SelectionThrows).
PointStart(x) == IF point.item = x /\ point.shorts < MaxShortStarts THEN ResumeStart(point.at) ELSE -1

\* startOrSwitchPlayout and its row write.  A run counts at once against the point it
\* continues; an input that cannot start part-way gives the point up.
StartItem(x, how, reason) ==
    \E seekable \in {FALSE, (x \in OnDisk)} :
        LET continued == how # "turn" /\ reason = "match" /\ PointStart(x) >= 0
        IN  /\ run' = [item |-> x, kept |-> seekable /\ reason = "match", turn |-> how = "turn",
                       resumed |-> continued /\ seekable,
                       from |-> IF continued /\ seekable THEN PointStart(x) ELSE 0, aired |-> 0]
            /\ point' = CASE ~continued -> point
                          [] continued /\ seekable -> [point EXCEPT !.shorts = @ + 1]
                          [] continued /\ ~seekable -> NoPoint
            /\ airRow' = [item |-> x, reason |-> reason, failed |-> FALSE]
            /\ cycle' = [step |-> "end", item |-> x, reason |-> reason, takes |-> TakesPosition(x, how)]
            /\ turn' = LET t == CASE how # "turn" -> turn
                                 [] how = "turn" /\ TakesPosition(x, how) -> AfterTurnOf(x)
                                 [] OTHER -> ForgetTurn(AfterTurnOf(x))
                       IN  IF x = turn.item THEN [t EXCEPT !.runs = IF continued THEN @ + 1 ELSE 0] ELSE t

MayPick == Idle /\ run.item \in {None, Cover}
DropsRetry(x) == retry.step = "covered" /\ retry.item # x

StartRetry ==
    /\ MayPick /\ RetryPick # None /\ ~SelectionThrows
    /\ retry' = Retry("retried")
    /\ StartItem(RetryPick, "retry", RetryReason)
    /\ UNCHANGED <<catalogue, heldBack, pool, poolSpent>>

ContinueItem ==
    /\ MayPick /\ RetryPick = None /\ ContinuedPick # None
    /\ retry' = IF DropsRetry(ContinuedPick) THEN NoRetry ELSE retry
    /\ StartItem(ContinuedPick, "continue", "match")
    /\ UNCHANGED <<catalogue, heldBack, pool, poolSpent>>

StartNext ==
    /\ MayPick /\ RetryPick = None /\ ContinuedPick = None /\ Eligible # {}
    /\ retry' = IF DropsRetry(RotationPick) THEN NoRetry ELSE retry
    /\ StartItem(RotationPick, "turn", "match")
    /\ UNCHANGED <<catalogue, heldBack, pool, poolSpent>>

\* A local item covers the air: nothing may be picked, or the pick's input takes long to resolve
\* (planRecoveryAfterPlaybackPreparationFailure, shouldBridgeToFallbackBeforeResolve).
StartCover ==
    /\ Idle /\ run.item = None
    /\ Eligible = {} \/ (RetryPick \in Items \ OnDisk /\ ~SelectionThrows)
    /\ retry' = CASE RetryPick # None -> Retry("bridged")
                 [] RetryPick = None /\ DropsRetry(Cover) -> NoRetry
                 [] OTHER -> retry
    /\ run' = [OffAir EXCEPT !.item = Cover]
    /\ airRow' = [item |-> Cover, reason |-> "fallback", failed |-> FALSE]
    /\ UNCHANGED <<catalogue, heldBack, pool, point, cycle, turn, poolSpent>>

\* decideCycleEndStatus: the failed exit of the item this cycle started stands.
FailedAtCycleEnd(failed) == failed

EndCycle ==
    /\ cycle.step = "end"
    /\ point' = Checkpoint
    /\ airRow' = [item |-> cycle.item, reason |-> cycle.reason, failed |-> FailedAtCycleEnd(airRow.failed)]
    /\ cycle' = IF cycle.takes THEN [cycle EXCEPT !.step = "store"] ELSE NoCycle
    /\ UNCHANGED <<catalogue, heldBack, pool, run, retry, turn, poolSpent>>

StorePosition ==
    /\ cycle.step = "store"
    /\ pool' = PositionStored(cycle.item)
    /\ cycle' = NoCycle
    /\ UNCHANGED <<catalogue, heldBack, airRow, run, retry, point, turn, poolSpent>>

\* What is left of the turn when the position of a start is lost.
TurnOfLostPosition ==
    [turn EXCEPT !.waiting = IF cycle.item = turn.item THEN {} ELSE @,
                 !.passed = IF cycle.item \in ItemsOf(LaneOf(turn.item)) THEN {} ELSE @]
TurnAfterBreak == IF cycle.takes THEN TurnOfLostPosition ELSE turn

Spend(bound, limit) == /\ poolSpent[bound] < limit
                       /\ poolSpent' = [poolSpent EXCEPT ![bound] = @ + 1]

\* The write is refused, or the cycle-end write before it is: the cycle ends there.
PositionWriteFails ==
    /\ ~Idle /\ Spend("breaks", MaxBreaks)
    /\ cycle' = NoCycle /\ turn' = TurnAfterBreak
    /\ UNCHANGED <<catalogue, heldBack, pool, airRow, run, retry, point>>

\* Every later cycle keeps the item and writes where it stands.
KeepOnAir ==
    /\ Idle /\ run.item \in Items /\ run.kept
    /\ point' = Checkpoint
    /\ UNCHANGED <<catalogue, heldBack, pool, airRow, run, retry, cycle, turn, poolSpent>>

---------------------------------------------------------------------------
(* The process and what ends it *)

Air ==
    /\ run.item \in Items /\ PositionOf(run) < ItemLength
    /\ run' = [run EXCEPT !.aired = @ + 1]
    /\ turn' = IF run.item = turn.item /\ run.aired + 1 = MinAired THEN [turn EXCEPT !.runs = 0] ELSE turn
    /\ UNCHANGED <<catalogue, heldBack, pool, airRow, retry, point, cycle, poolSpent>>

ExitRow(failed) == IF failed THEN [airRow EXCEPT !.failed = TRUE] ELSE [airRow EXCEPT !.item = None, !.failed = FALSE]

EndsByItself ==
    /\ run.item \in Items /\ PositionOf(run) = ItemLength
    /\ point' = PointAfterExit("ended", TRUE)
    /\ retry' = RetryAfterExit(FALSE)
    /\ run' = OffAir /\ airRow' = ExitRow(FALSE)
    /\ UNCHANGED <<catalogue, heldBack, pool, cycle, turn, poolSpent>>

Fails ==
    /\ run.item \in Items /\ run.aired > 0 /\ Spend("cuts", MaxCuts)
    /\ point' = PointAfterExit("failed", FALSE)
    /\ retry' = RetryAfterExit(FALSE)
    /\ run' = OffAir /\ airRow' = ExitRow(TRUE)
    /\ UNCHANGED <<catalogue, heldBack, pool, cycle, turn>>

DoesNotOpen ==
    /\ run.item \in Items /\ run.aired = 0 /\ Spend("cuts", MaxCuts)
    /\ point' = PointAfterExit("open-failure", FALSE)
    /\ retry' = RetryAfterExit(TRUE)
    /\ run' = OffAir /\ airRow' = ExitRow(TRUE)
    /\ UNCHANGED <<catalogue, heldBack, pool, cycle, turn>>

\* What is on air leaves it for something that is no pick of the pool: an item an operator chose
\* (Play now, Pin: "operator"; Move next: "manual"), a Live Bridge or another block.
TakeAir(x, reason) ==
    /\ Idle /\ run.item # Slate /\ x # run.item /\ Spend("cuts", MaxCuts)
    /\ reason = "manual" => run.item = None /\ RetryPick = None
    /\ point' = PointAfterExit("cut", FALSE)
    /\ retry' = IF DropsRetry(x) THEN NoRetry ELSE IF run.item = None THEN retry ELSE RetryAfterExit(FALSE)
    /\ run' = [OffAir EXCEPT !.item = x]
    /\ airRow' = [item |-> x, reason |-> reason, failed |-> FALSE]
    /\ UNCHANGED <<catalogue, heldBack, pool, cycle, turn>>

\* The other block or the cover ends, or Resume takes an operator's item off the air.
LeaveAir ==
    /\ Idle
    /\ \/ run.item \in {Other, Cover}
       \/ airRow.reason = "operator" /\ run.item \in Items
    /\ run.item \in Items => RotationPick # run.item \/ ContinuedPick # None
    /\ point' = PointAfterExit("cut", FALSE)
    /\ retry' = RetryAfterExit(FALSE)
    /\ run' = OffAir /\ airRow' = ExitRow(FALSE)
    /\ UNCHANGED <<catalogue, heldBack, pool, cycle, turn, poolSpent>>

\* Resume of an operator's item that is the pool's own next: it runs on as the pool's.
RunsOn ==
    /\ Idle /\ airRow.reason = "operator" /\ run.item \in Eligible
    /\ ContinuedPick \in {None, run.item} /\ RotationPick = run.item
    /\ run' = [run EXCEPT !.turn = TRUE]
    /\ airRow' = [airRow EXCEPT !.reason = "match"]
    /\ cycle' = [step |-> "end", item |-> run.item, reason |-> "match", takes |-> TakesPosition(run.item, "turn")]
    /\ turn' = AfterTurnOf(run.item)
    /\ UNCHANGED <<catalogue, heldBack, pool, retry, point, poolSpent>>

\* The reconnect slate takes the cycle (shouldShowReconnectSlate): an owed retry it replaces waits
\* behind it, any other is dropped (decideInputOpenRetryAtSlate).
TakeSlate ==
    /\ Idle /\ run.item \notin {Slate, Other} /\ ~SelectionThrows /\ Spend("cuts", MaxCuts)
    /\ point' = PointAfterExit("cut", FALSE)
    /\ retry' = CASE RetryPick # None -> Retry("covered")
                 [] RetryPick = None /\ retry.step \in {"owed", "bridged", "covered"} -> NoRetry
                 [] OTHER -> IF run.item = None THEN retry ELSE RetryAfterExit(FALSE)
    /\ run' = [OffAir EXCEPT !.item = Slate]
    /\ airRow' = [item |-> None, reason |-> "slate", failed |-> FALSE]
    /\ UNCHANGED <<catalogue, heldBack, pool, cycle, turn>>

LeaveSlate ==
    /\ run.item = Slate
    /\ run' = OffAir
    /\ UNCHANGED <<catalogue, heldBack, pool, airRow, retry, point, cycle, turn, poolSpent>>

\* Skip: the item is held out, done with, and off the air.
Skip ==
    /\ Idle /\ run.item \in Items /\ Spend("held", MaxHeld)
    /\ heldBack' = heldBack \cup {run.item}
    /\ turn' = StillWaiting(turn, Eligible \ {run.item})
    /\ point' = PointAfterExit("ended", FALSE)
    /\ retry' = RetryAfterExit(FALSE)
    /\ run' = OffAir /\ airRow' = ExitRow(FALSE)
    /\ UNCHANGED <<catalogue, pool, cycle>>

\* Restart: the item on air starts again from its beginning; the row names it all the while.
Restart ==
    /\ Idle /\ run.item \in Items /\ airRow.reason = "match" /\ Spend("cuts", MaxCuts)
    /\ point' = PointAfterExit("ended", FALSE)
    /\ retry' = RetryAfterExit(FALSE)
    /\ run' = [run EXCEPT !.kept = run.item \in OnDisk, !.resumed = FALSE, !.from = 0, !.aired = 0]
    /\ cycle' = [step |-> "end", item |-> run.item, reason |-> "match", takes |-> FALSE]
    /\ turn' = IF run.item = turn.item THEN [turn EXCEPT !.runs = 0] ELSE turn
    /\ UNCHANGED <<catalogue, heldBack, pool, airRow>>

\* A redeploy or a host restart takes ffmpeg and the worker's memory; no exit is written.
ContainerDies ==
    /\ Spend("breaks", MaxBreaks) /\ run # OffAir
    /\ run' = OffAir /\ retry' = NoRetry /\ cycle' = NoCycle
    /\ turn' = TurnAfterBreak
    /\ UNCHANGED <<catalogue, heldBack, pool, airRow, point>>

---------------------------------------------------------------------------
(* Around it *)

HoldBack(x) ==
    /\ x \in Eligible /\ Spend("held", MaxHeld)
    /\ heldBack' = heldBack \cup {x}
    /\ turn' = StillWaiting(turn, Eligible \ {x})
    /\ UNCHANGED <<catalogue, pool, airRow, run, retry, point, cycle>>

Release(x) ==
    /\ heldBack' = heldBack \ {x}
    /\ x \in heldBack
    /\ UNCHANGED <<catalogue, pool, airRow, run, retry, point, cycle, turn, poolSpent>>

\* An archive that is gone from its source; one on air is left out.
Vanish(x) ==
    /\ x \in catalogue /\ x # run.item /\ Spend("held", MaxHeld)
    /\ catalogue' = catalogue \ {x}
    /\ turn' = IF x \in {Positions[LaneOf(x)], cycle.item} THEN ForgetTurn(turn) ELSE StillWaiting(turn, Eligible \ {x})
    /\ UNCHANGED <<heldBack, pool, airRow, run, retry, point, cycle>>

\* INPUT_OPEN_RETRY_WINDOW_MS is over.
RetryExpires ==
    /\ retry # NoRetry /\ retry' = NoRetry
    /\ UNCHANGED <<catalogue, heldBack, pool, airRow, run, point, cycle, turn, poolSpent>>

\* RESUME_VALID_MS is over; a point of the run on air is fresh.
PointExpires ==
    /\ point # NoPoint /\ run.item # point.item /\ point' = NoPoint
    /\ UNCHANGED <<catalogue, heldBack, pool, airRow, run, retry, cycle, turn, poolSpent>>

---------------------------------------------------------------------------
NoPositions == [s \in Sources |-> None]

\* A pool that has not played yet, or one from before the positions were kept, with its pointer.
PoolInit ==
    /\ catalogue = Items /\ heldBack = {}
    /\ pool \in {[cursor |-> x, cursors |-> NoPositions] : x \in FirstPointers}
    /\ airRow = [item |-> None, reason |-> None, failed |-> FALSE]
    /\ run = OffAir /\ retry = NoRetry /\ point = NoPoint /\ cycle = NoCycle
    /\ \E x \in Watched :
        turn = [item |-> x, runs |-> 0,
                waiting |-> IF pool.cursor = x THEN ItemsOf(LaneOf(x)) \ {x} ELSE {},
                passed |-> IF pool.cursor \in ItemsOf(LaneOf(x)) THEN {s \in Sources \ {LaneOf(x)} : ItemsOf(s) # {}} ELSE {}]
    /\ poolSpent = [held |-> 0, cuts |-> 0, breaks |-> 0]

PoolNext ==
    \/ StartRetry \/ ContinueItem \/ StartNext \/ StartCover
    \/ EndCycle \/ StorePosition \/ PositionWriteFails \/ KeepOnAir
    \/ Air \/ EndsByItself \/ Fails \/ DoesNotOpen
    \/ \E x \in Items, reason \in {"operator", "manual"} : TakeAir(x, reason)
    \/ TakeAir(Other, "other") \/ LeaveAir \/ RunsOn \/ TakeSlate \/ LeaveSlate
    \/ Skip \/ Restart \/ ContainerDies
    \/ \E x \in Items : HoldBack(x) \/ Release(x) \/ Vanish(x)
    \/ RetryExpires \/ PointExpires

PoolSpec == PoolInit /\ [][PoolNext]_poolVars

PoolTypeOK ==
    /\ catalogue \subseteq Items /\ heldBack \subseteq Items
    /\ pool.cursor \in Items \cup {None} /\ \A s \in Sources : pool.cursors[s] \in ItemsOf(s) \cup {None}
    /\ run.item \in Items \cup {None, Cover, Other, Slate} /\ PositionOf(run) \in 0..ItemLength
    /\ retry.step \in {"none", "owed", "bridged", "covered", "retried", "exhausted"}
    /\ point.item \in Items \cup {None} /\ point.at \in 0..ItemLength
    /\ cycle.step \in {"none", "end", "store"}

---------------------------------------------------------------------------
(* Properties *)

\* The rotation gives no item a second turn while another of its source, and no source one while
\* another source, has waited since the first and could have been picked all along: over skips,
\* holds, cuts, continued items and restarts of the container.  Only a position that was not
\* stored, or whose item has vanished, is forgiven (core createPoolRotation, db updatePoolCursor).
\* And it gives none to anything while the row names an item that did not open and whose one
\* retry is owed, also when the exit was written before the cycle that had started the item
\* ended (worker decideInputOpenRetry, decideCycleEndStatus).
TurnsAreDue ==
    [][~run.turn /\ run'.turn =>
           /\ run'.item = turn.item => turn.waiting = {}
           /\ LaneOf(run'.item) = LaneOf(turn.item) => turn.passed = {}
           /\ run.item = None /\ retry.step = "owed" =>
                  \/ retry.item \notin Eligible
                  \/ airRow.item # retry.item \/ airRow.reason = "operator"]_poolVars

\* An item is continued MaxShortStarts times at most without airing long enough, whatever ended
\* those runs (worker decideResumePointsAtStart, decideResumePointsAfterExit).
ContinuationsEnd == turn.runs <= MaxShortStarts

=============================================================================

---------------------------- MODULE PlayoutRow ----------------------------
(***************************************************************************)
(* The shared runtime row of the playout (table playout_runtime), and the  *)
(* pure decisions taken on it: what holds the air, what a playout cycle    *)
(* selects, what each of its writes leaves, and what an operator action or *)
(* a passed chat vote writes.  No state: PlayoutControl runs them.         *)
(*                                                                         *)
(* The relay is on (STREAM247_RELAY_ENABLED=1): no reconnect slate, and a  *)
(* Pin or Resume sets no restart flag.  A hold that runs out is an empty   *)
(* hold: every reader asks isTimestampActive first.  A time stamp is a     *)
(* tick of a logical clock, 0 for "".                                      *)
(***************************************************************************)
EXTENDS Naturals

CONSTANTS Assets,   \* the library items, all of them ready to play
          None      \* the empty asset id

ASSUME NoneIsNoAsset == None \notin Assets

MaybeAsset == Assets \cup {None}

\* What no arm tells apart (idle, starting, running, switching, recovering) is "up".
Statuses == {"up", "standby", "failed", "degraded"}
LiveStatuses == {"", "pending", "active", "releasing", "error"}
InsertStatuses == {"", "pending", "active"}

\* The columns of playout_runtime the playout and the admin coordinate through.
PlayoutRuntime ==
    [cur : MaybeAsset, status : Statuses, crash : BOOLEAN,
     ins : MaybeAsset, insReq : Nat, insSt : InsertStatuses,
     ovr : MaybeAsset, skip : MaybeAsset, rem : MaybeAsset, next : MaybeAsset,
     restart : Nat, live : LiveStatuses,
     act : SUBSET {"refresh", "rebuild"}, actReq : Nat]

EmptyRow ==
    [cur |-> None, status |-> "up", crash |-> FALSE,
     ins |-> None, insReq |-> 0, insSt |-> "",
     ovr |-> None, skip |-> None, rem |-> None, next |-> None,
     restart |-> 0, live |-> "", act |-> {}, actReq |-> 0]

---------------------------------------------------------------------------
(* What holds the air (packages/core/src/operator-precedence.ts) *)

HeldOut(r) == {r.skip, r.rem} \ {None}

LiveTakesAir(r) == r.live \in {"pending", "active"}

OverrideHold(r) ==
    /\ r.ovr # None
    /\ ~LiveTakesAir(r)
    /\ r.ovr \notin HeldOut(r)

InsertSelectable(r) == r.insSt # "" /\ r.ins # None /\ r.ins \notin HeldOut(r)

InsertHold(r) ==
    /\ InsertSelectable(r)
    /\ ~LiveTakesAir(r)
    /\ ~(r.insSt = "active" /\ r.cur \notin {None, r.ins})

OperatorHold(r) == OverrideHold(r) \/ InsertHold(r)

---------------------------------------------------------------------------
(* The selection (choosePlaybackCandidate) *)

Selections ==
    [kind : {"asset", "insert", "live", "standby"}, asset : MaybeAsset,
     reason : {"live_bridge", "operator_override", "operator_insert",
               "manual_next", "automatic", "recovery", "no_asset"},
     req : Nat]     \* the insert request the selection carries out, 0 for none

Pick(kind, a, reason) == [kind |-> kind, asset |-> a, reason |-> reason, req |-> 0]

LivePick == Pick("live", None, "live_bridge")
StandbyPick == Pick("standby", None, "no_asset")
InsertPick(r) == [Pick("insert", r.ins, "operator_insert") EXCEPT !.req = r.insReq]

\* The retry, schedule, pool, cue point and fallback arms: which item they name
\* depends on the library and the clock, but none of them names a held-out one.
AutomaticPicks(r) ==
    IF Assets \subseteq HeldOut(r)
    THEN {StandbyPick}
    ELSE {Pick("asset", a, "automatic") : a \in Assets \ HeldOut(r)}

SlotFree(r, running) == r.cur = None \/ (r.status = "failed" /\ ~running)

ManualNextDue(r, running) ==
    /\ r.next # None
    /\ r.next \notin HeldOut(r)
    /\ \/ SlotFree(r, running)
       \/ r.restart # 0 /\ r.cur = r.skip
       \/ r.status = "standby"

\* The input-open retry, for a failed item with nothing running, comes before Move next.
MayOweRetry(r, running) == r.status = "failed" /\ ~running

Candidates(r, running) ==
    IF LiveTakesAir(r) THEN {LivePick}
    ELSE IF OverrideHold(r) THEN {Pick("asset", r.ovr, "operator_override")}
    ELSE IF InsertSelectable(r) THEN {InsertPick(r)}
    ELSE IF ManualNextDue(r, running)
         THEN {Pick("asset", r.next, "manual_next")}
              \cup (IF MayOweRetry(r, running) THEN AutomaticPicks(r) ELSE {})
    ELSE AutomaticPicks(r)

\* runningAssetTargetMatches: an item on air as an insert runs on when it is
\* selected as itself, not the other way round.
Plays(p, s) ==
    IF s.asset = None
    THEN p.kind = s.kind
    ELSE p.asset = s.asset /\ (p.kind = s.kind \/ (s.kind = "asset" /\ p.kind = "insert"))

---------------------------------------------------------------------------
(* What a write of the cycle leaves (apps/worker/src/playout-boundary.ts) *)

\* Mutant: the ended insert keeps a status of its own.
EndInsertAsDropped(r) == [r EXCEPT !.ins = None, !.insReq = 0, !.insSt = "dropped"]

ClearInsert(r) == [r EXCEPT !.ins = None, !.insReq = 0, !.insSt = ""]

\* Mutant: a bridge only covers the insert.
InsertGivesWayToProgramme(r, s) == r.insSt # "" /\ s.reason # "operator_insert" /\ s.kind # "live"

\* Any selection but the insert ends it.
InsertGivesWay(r, s) == r.insSt # "" /\ s.reason # "operator_insert"

\* Mutant: the insert is cleared from a constant (before M89).
DropAnyInsert(u, r) == ClearInsert(r)

\* decideFailedCycleInsert, and the same test where the selection ends an insert.
DropInsertOf(u, r) == IF r.ins = u.ins /\ r.insReq = u.insReq THEN ClearInsert(r) ELSE r

PrepareFailure(r, s, running) ==
    CASE s.reason # "operator_insert" \/ ~running \/ r.cur = None -> "recover"
      [] OTHER -> IF r.insSt = "pending" THEN "drop"
                  ELSE IF r.insSt = "active" /\ r.cur # r.ins THEN "end" ELSE "recover"

\* Mutant: the flag is cleared from a constant (before M89).
AlwaysClearFlag(read, flag, spawnedAt) == 0

RestartFlagAfter(read, flag, spawnedAt) ==
    IF flag = read \/ flag <= spawnedAt THEN 0 ELSE flag

\* Mutants: the action is cleared by its name alone, or never.
ClearSameAction(u, r) == IF r.act = u.act THEN [r EXCEPT !.act = {}, !.actReq = 0] ELSE r
KeepPendingAction(u, r) == r

ClearPendingAction(u, r) ==
    IF r.act = u.act /\ r.actReq = u.actReq THEN [r EXCEPT !.act = {}, !.actReq = 0] ELSE r

MarkInsertActive(s, r) ==
    IF s.reason = "operator_insert" /\ r.ins = s.asset THEN [r EXCEPT !.insSt = "active"] ELSE r

StatusAfter(s) == IF s.kind = "standby" THEN "standby" ELSE "up"

CycleEndStatus(s, r, running) ==
    IF ~running /\ r.status \in {"failed", "degraded"} THEN r.status ELSE StatusAfter(s)

\* Mutant: a started bridge is active, released or not.
LiveAlwaysActive(s, r) == IF s.kind = "live" THEN "active" ELSE r.live

LiveStarted(s, r) ==
    IF s.kind = "live" /\ r.live # "releasing" THEN "active" ELSE r.live

LiveAtCycleEnd(s, r) ==
    IF s.kind # "live" /\ r.live = "releasing" THEN "" ELSE LiveStarted(s, r)

\* startOrSwitchPlayout's write, once the new process runs
StartedRow(s, u, spawnedAt, r) ==
    [ClearPendingAction(u, r) EXCEPT
        !.status = StatusAfter(s), !.cur = s.asset,
        !.restart = RestartFlagAfter(u.restart, @, spawnedAt),
        !.live = LiveStarted(s, r)]

\* the write that ends a cycle
CycleEndRow(s, u, running, spawnedAt, r) ==
    [MarkInsertActive(s, ClearPendingAction(u, r)) EXCEPT
        !.status = CycleEndStatus(s, r, running), !.cur = s.asset,
        !.restart = RestartFlagAfter(u.restart, @, spawnedAt),
        !.live = LiveAtCycleEnd(s, r),
        !.next = IF s.asset # None /\ @ = s.asset THEN None ELSE @]

\* the write of a start or switch that failed
StartFailedRow(s, u, r) ==
    [DropInsertOf(u, r) EXCEPT
        !.status = "degraded", !.live = IF s.kind = "live" THEN "error" ELSE @]

---------------------------------------------------------------------------
(* What an exit of ffmpeg writes (the exit handler's exitRuntimeUpdate) *)

\* Mutant: only an unplanned exit ends an insert (before M74).
NoItemEndingStop == {}

\* plannedStopReason of the stops that end the item: its duration bound, a feed watchdog
ItemEndingStops == {"duration-bound"}
StopReasons == {"", "switch", "restart-requested", "crash-loop-reset", "destination-missing",
                "duration-bound"}

\* x.failed: neither planned nor a clean exit; x.loop: this failure reaches the crash-loop threshold
Exits == [why : StopReasons, failed : BOOLEAN, loop : BOOLEAN, live : BOOLEAN]

EndsItem(why) == why = "" \/ why \in ItemEndingStops

ClearsInsertOnExit(x, r) == r.insSt = "active" /\ r.cur = r.ins /\ EndsItem(x.why)

ExitRow(x, r) ==
    [(IF ClearsInsertOnExit(x, r) THEN ClearInsert(r) ELSE r) EXCEPT
        !.status = IF ~x.failed THEN "up" ELSE IF x.loop THEN "degraded" ELSE "failed",
        !.crash = x.loop,
        !.cur = IF x.failed THEN @ ELSE None,
        !.live = IF x.live /\ x.failed THEN "error" ELSE @]

---------------------------------------------------------------------------
(* What an operator action writes (apps/web/lib/server/broadcast.ts) *)

OperatorActions == {"restart", "skip", "pin", "resume", "play_now", "move_next",
                    "remove_next", "refresh", "bridge_start", "bridge_release"}

\* A press in flight: its item, its time stamp, and whether a Skip was judged,
\* on the state read before the write, to end the override.
Presses == [type : OperatorActions, asset : MaybeAsset, at : Nat, ends : BOOLEAN]

\* The guards an action applies to the state it has read, before it writes.
PressAllowed(type, a, r) ==
    CASE type = "skip" -> a = r.cur /\ a # None
      [] type = "pin" -> a # None
      [] type = "play_now" -> /\ a \notin HeldOut(r) \cup {r.cur, None}
                              /\ ~LiveTakesAir(r) /\ ~OverrideHold(r)
      [] type = "move_next" -> a \notin {r.cur, None}
      [] type = "remove_next" -> a # None
      [] type = "bridge_release" -> a = None /\ r.live \in {"pending", "active", "error"}
      [] OTHER -> a = None

NewPress(type, a, at, r) ==
    [type |-> type, asset |-> a, at |-> at,
     ends |-> type = "skip" /\ OverrideHold(r) /\ r.ovr = a]

AddAction(r, what, at) == [r EXCEPT !.act = @ \cup {what}, !.actReq = at]

Unless(x, a) == IF x = a THEN None ELSE x

PinRow(a, r) ==
    [r EXCEPT !.ovr = a, !.skip = Unless(@, a), !.rem = Unless(@, a), !.next = None]

ResumeRow(r) ==
    [ClearInsert(r) EXCEPT !.ovr = None, !.skip = None, !.rem = None, !.next = None]

PlayNowRow(a, at, r) ==
    [r EXCEPT !.ins = a, !.insReq = at, !.insSt = "pending", !.next = None]

MoveNextRow(a, at, r) ==
    [AddAction(r, "rebuild", at) EXCEPT !.next = a, !.rem = Unless(@, a)]

RemoveNextRow(a, at, r) ==
    [AddAction(r, "rebuild", at) EXCEPT !.rem = a, !.next = Unless(@, a)]

SkipRow(a, at, ends, r) ==
    [r EXCEPT !.status = "up", !.restart = at, !.skip = a,
              !.ovr = IF ends THEN Unless(@, a) ELSE @]

BridgeStartRow(r) == [r EXCEPT !.status = "up", !.restart = 0, !.live = "pending"]

BridgeReleaseRow(at, r) ==
    [AddAction(r, "rebuild", at) EXCEPT !.status = "up", !.live = "releasing"]

OperatorRow(o, r) ==
    CASE o.type = "restart" -> [r EXCEPT !.status = "up", !.restart = o.at]
      [] o.type = "skip" -> SkipRow(o.asset, o.at, o.ends, r)
      [] o.type = "pin" -> PinRow(o.asset, r)
      [] o.type = "resume" -> ResumeRow(r)
      [] o.type = "play_now" -> PlayNowRow(o.asset, o.at, r)
      [] o.type = "move_next" -> MoveNextRow(o.asset, o.at, r)
      [] o.type = "remove_next" -> RemoveNextRow(o.asset, o.at, r)
      [] o.type = "refresh" -> AddAction(r, "refresh", o.at)
      [] o.type = "bridge_start" -> BridgeStartRow(r)
      [] o.type = "bridge_release" -> BridgeReleaseRow(o.at, r)

---------------------------------------------------------------------------
(* What a passed chat skip vote writes (drainChatEffects) *)

VoteApplies(a, r) == ~OperatorHold(r) /\ a = r.cur /\ a # r.skip

VoteRow(a, at, r) == [r EXCEPT !.status = "up", !.restart = at, !.skip = a]
===========================================================================

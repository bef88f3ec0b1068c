--------------------------- MODULE TwitchConnection ---------------------------
(***************************************************************************)
(* The Twitch steps of the worker's cycle (heal, reconcile, schedule sync, *)
(* live status), each read, request and write a step of its own, and the   *)
(* web's connect and disconnect handlers, which write the same two rows.   *)
(*                                                                         *)
(* A token stands for the access and refresh token of one answer and is    *)
(* numbered in the order Twitch issued them.  A unit of time is the delay  *)
(* between two cycles.  Incidents, alerts and audit events are left out,   *)
(* and so are the category and the emote-only decision: a chat settings    *)
(* write may or may not be due.                                            *)
(***************************************************************************)
EXTENDS Integers, FiniteSetsExt

CONSTANTS Split,       \* is another channel than the bot's configured?
          Titles,
          Starts,      \* the keys of the planned air windows: when each starts
          Life,        \* how long an issued token works
          RefreshWindow, HealEvery, SyncEvery, WriteEvery, \* TWITCH_TOKEN_REFRESH_WINDOW_MS,
                       \* ..._HEAL_MIN_INTERVAL_MS, syncEveryMs, ..._WRITE_MIN_INTERVAL_MS
          MaxClock,    \* bound: cycles
          MaxIssued,   \* bound: tokens and segments Twitch issues
          MaxEvents    \* bound: faults, restarts and what operators do

ASSUME TwitchAssumption ==
    /\ Split \in BOOLEAN /\ Starts \subseteq Nat
    /\ {Life, RefreshWindow, HealEvery, SyncEvery, WriteEvery, MaxClock, MaxIssued, MaxEvents} \subseteq Nat
    /\ MaxClock > 0 /\ MaxIssued > 1 \* the bounds leave room for the first cycle and the first two tokens

VARIABLES hour,      \* the clock
          identity,  \* twitch_connection
          owner,     \* twitch_broadcaster_connection
          segments,  \* twitch_schedule_segments: key to segment id
          twitch,    \* what Twitch has: the title, the segments, the numbers it has used
          wish,      \* the title of the item on air and the planned keys
          step,      \* the worker's cycle: where it is and what it read
          memory,    \* the worker's memory: last heal, last channel write, kept keys
          lost,      \* history: segments made by a request whose answer was never recorded
          events

twVars == <<hour, identity, owner, segments, twitch, wish, step, memory, lost, events>>

Nothing == "nothing"   \* no title; nothing on air
NoIdentity == [status |-> "none", refused |-> FALSE, title |-> Nothing, schedAt |-> 0, live |-> FALSE,
               token |-> 0, until |-> 0]
NoOwner == [status |-> "none", token |-> 0, until |-> 0]
Connected(row, token) == [row EXCEPT !.status = "connected", !.token = token, !.until = hour + Life]

Forgotten == [healAt |-> 0, wroteAt |-> 0, kept |-> {}]
AtRest == [at |-> "rest", seen |-> NoIdentity, own |-> NoOwner, inner |-> NoIdentity, wanted |-> Nothing,
         hand |-> 0, slotHand |-> 0, throttled |-> FALSE, retried |-> FALSE, goal |-> "title",
         known |-> <<>>, planned |-> {}, todo |-> {}, made |-> <<>>, keep |-> {}]
Goes(at) == step' = [AtRest EXCEPT !.at = at]

\* resolveTwitchMetadataSyncGate, on the rows the reconciliation read
Gate == IF ~Split THEN "identity"
        ELSE IF step.own.status = "connected" /\ step.own.token # 0 THEN "broadcaster" ELSE "waiting"

Expiring(until) == until - hour < RefreshWindow

\* Twitch refuses a token that has run out; any other failure is an event.
Answers(until, answer) ==
    \/ answer = "ok" /\ hour < until /\ UNCHANGED events
    \/ answer = "unauthorized" /\ hour >= until /\ UNCHANGED events
    \/ answer \in {"unauthorized", "failed"} /\ hour < until /\ events < MaxEvents /\ events' = events + 1
Event == events < MaxEvents /\ events' = events + 1

\* The 401 retry, once for the metadata and once for the schedule.
Failed(answer) ==
    IF answer = "unauthorized" /\ ~step.retried
    THEN step' = [step EXCEPT !.at = "refresh", !.retried = TRUE] ELSE Goes("live")

---------------------------------------------------------------------------
(* healTwitchConnection *)

\* decideTwitchConnectionHeal
HealDue == /\ identity.status = "error" /\ identity.token # 0 /\ ~identity.refused
           /\ memory.healAt = 0 \/ hour - memory.healAt >= HealEvery

BeginTwitchCycle ==
    /\ step.at = "rest"
    /\ IF HealDue THEN /\ step' = [AtRest EXCEPT !.at = "heal", !.seen = identity]
                       /\ memory' = [memory EXCEPT !.healAt = hour]
                  ELSE Goes("read") /\ UNCHANGED memory
    /\ UNCHANGED <<hour, identity, owner, segments, twitch, wish, lost, events>>

HealAnswered ==
    /\ step.at = "heal" /\ Goes("read")
    /\ \E answer \in {"ok", "unauthorized", "failed"} :
          /\ Answers(step.seen.until, answer)
          /\ identity' = IF answer = "ok" THEN [step.seen EXCEPT !.status = "connected", !.refused = FALSE]
                         ELSE identity
    /\ UNCHANGED <<hour, owner, segments, twitch, wish, memory, lost>>

---------------------------------------------------------------------------
(* reconcileTwitch *)

ReadForReconcile ==
    /\ step.at = "read"
    /\ IF identity.status # "connected" \/ identity.token = 0 THEN Goes("live")
       ELSE LET s == [AtRest EXCEPT !.seen = identity, !.own = owner, !.wanted = wish.title,
                                  !.hand = identity.until, !.slotHand = owner.until]
            IN  step' = [s EXCEPT !.at = IF Expiring(identity.until) THEN "refresh" ELSE "gate"]
    /\ UNCHANGED <<hour, identity, owner, segments, twitch, wish, memory, lost, events>>

\* After the identity's token: the owner's, or the sync itself.
PassGate ==
    /\ step.at = "gate"
    /\ \/ step.wanted = Nothing /\ Goes("live")
       \/ /\ step.wanted # Nothing
          /\ LET slotNext == Gate = "broadcaster" /\ (step.retried \/ Expiring(step.own.until))
             IN  step' = [step EXCEPT !.at = IF slotNext THEN "slot" ELSE step.goal]
    /\ UNCHANGED <<hour, identity, owner, segments, twitch, wish, memory, lost, events>>

\* refreshIdentityAccessToken reads the row again, asks, and writes that row back with the answer.
RefreshReads ==
    /\ step.at = "refresh"
    /\ IF identity.token = 0 THEN Goes("live") ELSE step' = [step EXCEPT !.at = "asking", !.inner = identity]
    /\ UNCHANGED <<hour, identity, owner, segments, twitch, wish, memory, lost, events>>

Refreshed ==
    /\ step.at = "asking" /\ twitch.issued < MaxIssued
    /\ twitch' = [twitch EXCEPT !.issued = @ + 1]
    /\ identity' = [Connected(step.inner, twitch'.issued) EXCEPT !.refused = FALSE]
    /\ step' = [step EXCEPT !.at = "gate", !.hand = identity'.until]
    /\ UNCHANGED <<hour, owner, segments, wish, memory, lost, events>>

\* A Twitch that is down ends the step; a refused token also marks the row.
RefreshFailed ==
    /\ step.at = "asking" /\ Event
    /\ \/ Goes("live")
       \/ Goes("refused")
    /\ UNCHANGED <<hour, identity, owner, segments, twitch, wish, memory, lost>>

\* markIdentityRefreshRefused
RefusalReads ==
    /\ step.at = "refused" /\ step' = [AtRest EXCEPT !.at = "mark", !.inner = identity]
    /\ UNCHANGED <<hour, identity, owner, segments, twitch, wish, memory, lost, events>>
RefusalMarked ==
    /\ step.at = "mark" /\ Goes("live")
    /\ identity' = [step.inner EXCEPT !.status = "error", !.refused = TRUE]
    /\ UNCHANGED <<hour, owner, segments, twitch, wish, memory, lost, events>>

\* refreshBroadcasterSlotAccessToken; a failure leaves the row as it is.
SlotReads ==
    /\ step.at = "slot"
    /\ IF owner.token = 0 THEN Goes("live") ELSE step' = [step EXCEPT !.at = "slotAsking", !.own = owner]
    /\ UNCHANGED <<hour, identity, owner, segments, twitch, wish, memory, lost, events>>
SlotRefreshed ==
    /\ step.at = "slotAsking" /\ twitch.issued < MaxIssued
    /\ twitch' = [twitch EXCEPT !.issued = @ + 1]
    /\ owner' = Connected(step.own, twitch'.issued)
    /\ step' = [step EXCEPT !.at = step.goal, !.slotHand = owner'.until]
    /\ UNCHANGED <<hour, identity, segments, wish, memory, lost, events>>
SlotFailed ==
    /\ step.at = "slotAsking" /\ Event /\ Goes("live")
    /\ UNCHANGED <<hour, identity, owner, segments, twitch, wish, memory, lost>>

\* The token the broadcast channel is written with.
ChannelHand == IF Gate = "broadcaster" THEN step.slotHand ELSE step.hand

\* decideTwitchChannelMetadataWrite
WriteDecision ==
    CASE Gate = "waiting" -> "waiting"
      [] Gate # "waiting" /\ step.seen.title = step.wanted -> "unchanged"
      [] OTHER -> IF memory.wroteAt > 0 /\ hour - memory.wroteAt < WriteEvery THEN "throttled" ELSE "write"

TitleLeft ==
    /\ step.at = "title" /\ WriteDecision # "write"
    /\ step' = [step EXCEPT !.at = "chat", !.throttled = WriteDecision = "throttled"]
    /\ UNCHANGED <<hour, identity, owner, segments, twitch, wish, memory, lost, events>>
TitleAnswered ==
    /\ step.at = "title" /\ WriteDecision = "write"
    /\ \E answer \in {"ok", "unauthorized", "failed"} :
          /\ Answers(ChannelHand, answer)
          /\ IF answer = "ok"
             THEN /\ twitch' = [twitch EXCEPT !.title = step.wanted]
                  /\ memory' = [memory EXCEPT !.wroteAt = hour]
                  /\ step' = [step EXCEPT !.at = "chat", !.throttled = FALSE]
             ELSE Failed(answer) /\ UNCHANGED <<twitch, memory>>
    /\ UNCHANGED <<hour, identity, owner, segments, wish, lost>>

\* The chat settings are due, or not; a channel that waits is not recorded as synced.
ChatAnswered ==
    /\ step.at = "chat"
    /\ LET done == IF Gate = "waiting" THEN Goes("live") ELSE step' = [step EXCEPT !.at = "record"]
       IN  \/ done /\ UNCHANGED events
           \/ \E answer \in {"unauthorized", "failed"} : Answers(step.hand, answer) /\ Failed(answer)
    /\ UNCHANGED <<hour, identity, owner, segments, twitch, wish, memory, lost>>

\* The sync writes the row its reconciliation read.
Recorded(seen) ==
    [seen EXCEPT !.status = "connected", !.refused = FALSE,
                 !.title = IF step.throttled THEN seen.title ELSE step.wanted]
RecordSync ==
    /\ step.at = "record"
    /\ identity' = Recorded(step.seen)
    /\ step' = [step EXCEPT !.at = "schedule", !.goal = "schedule", !.retried = FALSE]
    /\ UNCHANGED <<hour, owner, segments, twitch, wish, memory, lost, events>>

---------------------------------------------------------------------------
(* syncTwitchSchedule *)

Ahead(keys) == {k \in keys : k > hour}

\* listComparableTwitchSegmentKeys: a key kept after a failed delete is no change of the plan.
Comparable == DOMAIN segments \ memory.kept

ScheduleReads ==
    /\ step.at = "schedule"
    /\ LET plan == Ahead(wish.plan)
           same == plan = Comparable /\ identity.schedAt > 0 /\ hour - identity.schedAt < SyncEvery
       IN  IF same THEN Goes("live")
           ELSE step' = [step EXCEPT !.at = IF plan = {} THEN "delete" ELSE "segments",
                             !.inner = identity, !.slotHand = owner.until, !.known = segments,
                             !.planned = plan, !.todo = plan, !.made = <<>>, !.keep = {}]
    /\ UNCHANGED <<hour, identity, owner, segments, twitch, wish, memory, lost, events>>

\* Mutant: a key kept after a failed delete is not looked up again.
KnownIfComparable(k) == IF k \in DOMAIN step.known \ memory.kept THEN step.known[k] ELSE 0
\* The stored segment that is updated; none, or one Twitch has lost, makes a new one.
KnownId(k) == IF k \in DOMAIN step.known THEN step.known[k] ELSE 0

\* A list with the segment of one window entered.
Entered(list, key, id) == [k \in DOMAIN list \cup {key} |-> IF k = key THEN id ELSE list[k]]

\* Mutant: the stored list is left to the end of the sync.
StoredAtTheEnd(k, id) == segments
\* upsertTwitchScheduleSegment
StoredAtOnce(k, id) == Entered(segments, k, id)

NextKey == Min(step.todo)
IdAfter(k) == IF <<k, KnownId(k)>> \in twitch.segments THEN KnownId(k) ELSE twitch.issued + 1
TwitchWith(k, id) == [twitch EXCEPT !.segments = @ \cup {<<k, id>>}, !.issued = IF id > @ THEN id ELSE @]

SegmentWritten ==
    /\ step.at = "segments" /\ hour < ChannelHand
    /\ LET k == NextKey
           id == IdAfter(k)
       IN  /\ id <= MaxIssued
           /\ twitch' = TwitchWith(k, id)
           /\ segments' = StoredAtOnce(k, id)
           /\ step' = [step EXCEPT !.todo = @ \ {k}, !.made = Entered(@, k, id),
                                   !.at = IF step.todo = {k} THEN "delete" ELSE "segments"]
    /\ UNCHANGED <<hour, identity, owner, wish, memory, lost, events>>

SegmentRefused ==
    /\ step.at = "segments"
    /\ \E answer \in {"unauthorized", "failed"} : Answers(ChannelHand, answer) /\ Failed(answer)
    /\ UNCHANGED <<hour, identity, owner, segments, twitch, wish, memory, lost>>

\* Twitch made the segment and the answer did not come.
SegmentAnswerLost ==
    /\ step.at = "segments" /\ hour < ChannelHand /\ Event
    /\ LET id == twitch.issued + 1
       IN  /\ IdAfter(NextKey) = id /\ id <= MaxIssued
           /\ twitch' = TwitchWith(NextKey, id)
           /\ lost' = lost \cup {id}
    /\ Goes("live")
    /\ UNCHANGED <<hour, identity, owner, segments, wish, memory>>

\* deleteStaleTwitchScheduleSegments: a delete may be carried out and not confirmed.
Stale == DOMAIN step.known \ step.planned
StaleDeleted ==
    /\ step.at = "delete"
    /\ \E done \in SUBSET Stale : \E gone \in SUBSET done :
          /\ hour >= ChannelHand => done = {}
          /\ IF gone = Stale \/ hour >= ChannelHand THEN UNCHANGED events ELSE Event
          /\ twitch' = [twitch EXCEPT !.segments = @ \ {<<k, step.known[k]>> : k \in done}]
          /\ step' = [step EXCEPT !.at = "replace", !.keep = Ahead(Stale \ gone)]
    /\ UNCHANGED <<hour, identity, owner, segments, wish, memory, lost>>

\* replaceTwitchScheduleSegments
SegmentsReplaced ==
    /\ step.at = "replace"
    /\ segments' = [k \in DOMAIN step.made \cup step.keep |->
                       IF k \in DOMAIN step.made THEN step.made[k] ELSE step.known[k]]
    /\ memory' = [memory EXCEPT !.kept = step.keep]
    /\ step' = [step EXCEPT !.at = "book"]
    /\ UNCHANGED <<hour, identity, owner, twitch, wish, lost, events>>
ScheduleBooked ==
    /\ step.at = "book" /\ Goes("live")
    /\ identity' = [step.inner EXCEPT !.schedAt = hour, !.refused = FALSE]
    /\ UNCHANGED <<hour, owner, segments, twitch, wish, memory, lost, events>>

---------------------------------------------------------------------------
(* reconcileTwitchLiveStatus *)

LiveReads ==
    /\ step.at = "live"
    /\ \/ Goes("rest")     \* polled within the last minute
       \/ step' = [AtRest EXCEPT !.at = "polling", !.inner = identity]
    /\ UNCHANGED <<hour, identity, owner, segments, twitch, wish, memory, lost, events>>
LiveAnswered ==
    /\ step.at = "polling" /\ Goes("rest")
    /\ \E live \in BOOLEAN :
          /\ live => step.inner.status = "connected"
          /\ identity' = IF live = step.inner.live THEN identity ELSE [step.inner EXCEPT !.live = live]
    /\ UNCHANGED <<hour, owner, segments, twitch, wish, memory, lost, events>>

---------------------------------------------------------------------------
(* The world and the web *)

TwitchTick ==
    /\ step.at = "rest" /\ hour < MaxClock /\ hour' = hour + 1
    /\ UNCHANGED <<identity, owner, segments, twitch, wish, step, memory, lost, events>>

WorkerRestarts ==
    /\ step.at # "rest" /\ Event /\ Goes("rest") /\ memory' = Forgotten
    /\ UNCHANGED <<hour, identity, owner, segments, twitch, wish, lost>>

\* exchangeTwitchCode, exchangeTwitchBroadcasterCode: a fresh row.
ConnectBot ==
    /\ Event /\ twitch.issued < MaxIssued
    /\ twitch' = [twitch EXCEPT !.issued = @ + 1]
    /\ identity' = Connected(NoIdentity, twitch'.issued)
    /\ UNCHANGED <<hour, owner, segments, wish, step, memory, lost>>
ConnectOwner ==
    /\ Split /\ Event /\ twitch.issued < MaxIssued
    /\ twitch' = [twitch EXCEPT !.issued = @ + 1]
    /\ owner' = Connected(NoOwner, twitch'.issued)
    /\ UNCHANGED <<hour, identity, segments, wish, step, memory, lost>>
DisconnectOwner ==
    /\ Event /\ owner # NoOwner /\ owner' = NoOwner
    /\ UNCHANGED <<hour, identity, segments, twitch, wish, step, memory, lost>>

\* recordTwitchError of a failed connect: a connected row stays connected.
ConnectFails ==
    /\ Event /\ identity.status # "connected"
    /\ identity' = [identity EXCEPT !.status = "error", !.refused = FALSE]
    /\ UNCHANGED <<hour, owner, segments, twitch, wish, step, memory, lost>>

\* The item on air changes, the plan is edited, a segment is deleted on Twitch by hand.
TitleChanges ==
    /\ Event /\ \E title \in Titles \cup {Nothing} : wish' = [wish EXCEPT !.title = title]
    /\ UNCHANGED <<hour, identity, owner, segments, twitch, step, memory, lost>>
PlanChanges ==
    /\ Event /\ \E plan \in SUBSET Starts : wish' = [wish EXCEPT !.plan = plan]
    /\ UNCHANGED <<hour, identity, owner, segments, twitch, step, memory, lost>>
DeletedByHand ==
    /\ Event /\ \E s \in twitch.segments : twitch' = [twitch EXCEPT !.segments = @ \ {s}]
    /\ UNCHANGED <<hour, identity, owner, segments, wish, step, memory, lost>>

TwInit ==
    /\ hour = 1
    /\ identity \in {NoIdentity, Connected(NoIdentity, 1)}
    /\ owner \in {NoOwner} \cup (IF Split THEN {Connected(NoOwner, 2)} ELSE {})
    /\ segments = <<>>
    /\ twitch = [title |-> Nothing, segments |-> {}, issued |-> 2]
    /\ wish \in [title : Titles, plan : {Starts}]
    /\ step = AtRest /\ memory = Forgotten /\ lost = {} /\ events = 0

TwNext ==
    \/ BeginTwitchCycle \/ HealAnswered \/ ReadForReconcile \/ PassGate
    \/ RefreshReads \/ Refreshed \/ RefreshFailed \/ RefusalReads \/ RefusalMarked
    \/ SlotReads \/ SlotRefreshed \/ SlotFailed
    \/ TitleLeft \/ TitleAnswered \/ ChatAnswered \/ RecordSync
    \/ ScheduleReads \/ SegmentWritten \/ SegmentRefused \/ SegmentAnswerLost
    \/ StaleDeleted \/ SegmentsReplaced \/ ScheduleBooked \/ LiveReads \/ LiveAnswered
    \/ TwitchTick \/ WorkerRestarts \/ ConnectBot \/ ConnectOwner \/ DisconnectOwner
    \/ ConnectFails \/ TitleChanges \/ PlanChanges \/ DeletedByHand

TwSpec == TwInit /\ [][TwNext]_twVars

---------------------------------------------------------------------------
TwTypeOK ==
    /\ hour \in 1..MaxClock
    /\ identity.status \in {"none", "connected", "error"} /\ identity.token \in 0..MaxIssued
    /\ identity.status = "connected" => identity.token # 0
    /\ identity.refused => identity.status = "error"
    /\ owner.status = "connected" <=> owner.token # 0
    /\ DOMAIN segments \subseteq Starts
    /\ twitch.segments \subseteq Starts \X (1..MaxIssued)
    /\ step.at # "rest" => step.todo \subseteq step.planned

\* Every segment the sync has put on the channel's schedule and that still lies ahead is in the stored
\* list, unless the answer that named it never came: a sync that failed half way, a delete that was not
\* confirmed, a restart or a plan that brings a dropped key back make no second entry for one window
\* (syncTwitchSchedule's upsert before the next request, M113).
SegmentsAreKnown ==
    \A s \in twitch.segments :
        s[1] > hour => s[2] \in lost \/ s[2] \in {segments[k] : k \in DOMAIN segments}

\* A token Twitch issued for a refresh stays the stored one until a newer takes its place: the sync after
\* the refresh does not write back the row it read before it (reconcileTwitch: "The stored token is what
\* the chat bridge authenticates with on every sync").
RefreshIsKept == [][identity'.token >= identity.token]_twVars
===============================================================================

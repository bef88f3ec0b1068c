----------------------------- MODULE SyncTurns ------------------------------
(***************************************************************************)
(* Which remote sources a worker cycle gets round to: the YouTube sync and *)
(* then the Twitch sync walk their sources one by one on one budget of     *)
(* time, defer what has no room for a whole call, and leave a source alone *)
(* after a call that ran out of its timeout (remote-call-budget.ts, the    *)
(* walks of both syncs in the worker).                                     *)
(***************************************************************************)
EXTENDS Integers, Sequences, FiniteSets, SequencesExt

CONSTANTS
    YouTube,   \* the sources of each sync, in the order of the table
    Twitch,
    Timeout,   \* what one call may take: SOURCE_SYNC_YTDLP_TIMEOUT_MS
    Budget,    \* what all calls of one cycle may take
    PauseFor,      \* bound on a pause, in cycles: SOURCE_SYNC_TIMEOUT_BACKOFF_MS
    MaxStepBreaks  \* bound on the steps that fail half-way

ASSUME SyncTurnsAssumption ==
    /\ Timeout \in Nat \ {0} /\ Budget \in Nat /\ Timeout <= Budget
    /\ PauseFor \in Nat /\ MaxStepBreaks \in Nat
    /\ YouTube \in Seq(ToSet(YouTube)) /\ Twitch \in Seq(ToSet(Twitch))
    /\ ToSet(YouTube) \cap ToSet(Twitch) = {}   \* of different connector kinds

VARIABLES
    enabled,   \* the sources the operator has switched on
    step,      \* the sync that walks, "rest" between two cycles
    walk,      \* its sources still to come, a set: the order is OrderDeferredFirst
    left,      \* workerRemoteCallBudget.remainingMs()
    calls,     \* the calls this walk has started
    putOff,    \* what this walk has deferred, in order
    deferred,  \* sourceSyncDeferredIds, of each sync's last run
    twitchHeldBack,  \* twitchSyncHeldBack
    youtubeCallsStarted,
    paused,    \* sourceSyncPauses: the cycles left of each pause
    waited,    \* how many cycles in a row each source had no room
    breaks     \* the steps that failed so far

turnVars == <<enabled, step, walk, left, calls, putOff, deferred, twitchHeldBack,
              youtubeCallsStarted, paused, waited, breaks>>

Remote == ToSet(YouTube) \cup ToSet(Twitch)
SourcesOf(s) == IF s = "youtube" THEN YouTube ELSE Twitch

TurnsTypeOK ==
    /\ enabled \subseteq Remote /\ step \in {"rest", "youtube", "twitch"}
    /\ walk \subseteq Remote /\ putOff \in Seq(Remote)
    /\ left \in 0..Budget /\ calls \in 0..Cardinality(Remote)
    /\ deferred \in [{"youtube", "twitch"} -> Seq(Remote)]
    /\ twitchHeldBack \in BOOLEAN /\ youtubeCallsStarted \in 0..Len(YouTube)
    /\ paused \in [Remote -> 0..PauseFor] /\ breaks \in 0..MaxStepBreaks

TurnsInit ==
    /\ enabled = Remote /\ step = "rest" /\ walk = {} /\ left = 0
    /\ calls = 0 /\ putOff = <<>>
    /\ deferred = [s \in {"youtube", "twitch"} |-> <<>>]
    /\ twitchHeldBack = FALSE /\ youtubeCallsStarted = 0
    /\ paused = [s \in Remote |-> 0] /\ waited = [s \in Remote |-> 0]
    /\ breaks = 0

-----------------------------------------------------------------------------
\* The order of the table, whatever was deferred.
TableOrder(s) == SourcesOf(s)

\* orderDeferredFirst: what was deferred, then the table; a source counts where it comes first.
OrderDeferredFirst(s) == deferred[s] \o SourcesOf(s)

ComesBefore(x, y, order) ==
    \E i \in DOMAIN order : order[i] = x /\ \A j \in DOMAIN order : order[j] = y => i < j

\* The next source of the walk.
IsNext(x) == x \in walk /\ \A y \in walk \ {x} : ComesBefore(x, y, OrderDeferredFirst(step))

\* A walk takes the sync's sources that are on as it begins.
WalkOf(s) == ToSet(SourcesOf(s)) \cap enabled

\* What a YouTube call leaves for Twitch: its calls after the first, and the first
\* too when Twitch got no call at all.
Reserve ==
    IF step = "youtube" /\ deferred["twitch"] # <<>> /\ (calls > 0 \/ twitchHeldBack)
    THEN Timeout ELSE 0

FitsWhole == left - Reserve >= Timeout

\* What the earlier steps have left of the budget; a cycle with less than one call
\* in it helps nobody.
BeginCycle ==
    /\ step = "rest" /\ step' = "youtube"
    /\ left' \in Timeout..Budget
    /\ walk' = WalkOf("youtube") /\ putOff' = <<>> /\ calls' = 0
    /\ youtubeCallsStarted' = 0
    /\ paused' = [s \in Remote |-> IF paused[s] = 0 THEN 0 ELSE paused[s] - 1]
    /\ UNCHANGED <<enabled, deferred, twitchHeldBack, waited, breaks>>

CallsStarted == youtubeCallsStarted' = IF step = "youtube" THEN calls' ELSE youtubeCallsStarted

PassOverPaused(x) ==
    /\ IsNext(x) /\ paused[x] > 0
    /\ walk' = walk \ {x}
    /\ waited' = [waited EXCEPT ![x] = 0]
    /\ UNCHANGED <<enabled, step, left, calls, putOff, deferred, twitchHeldBack,
                   youtubeCallsStarted, paused, breaks>>

\* A listing call: an answer or an error within its time, or the whole timeout and a pause.
Call(x) ==
    /\ IsNext(x) /\ paused[x] = 0 /\ FitsWhole
    /\ \E took \in 0..Timeout :
          /\ left' = left - took
          /\ paused' = [paused EXCEPT ![x] = IF took = Timeout THEN PauseFor ELSE 0]
    /\ walk' = walk \ {x} /\ calls' = calls + 1 /\ CallsStarted
    /\ waited' = [waited EXCEPT ![x] = 0]
    /\ UNCHANGED <<enabled, step, putOff, deferred, twitchHeldBack, breaks>>

PutOff(x) ==
    /\ IsNext(x) /\ paused[x] = 0 /\ ~FitsWhole
    /\ walk' = walk \ {x} /\ putOff' = Append(putOff, x)
    /\ waited' = [waited EXCEPT ![x] = @ + 1]
    /\ UNCHANGED <<enabled, step, left, calls, deferred, twitchHeldBack, youtubeCallsStarted,
                   paused, breaks>>

\* The next step of the cycle, whether this one succeeded or not.
NextStep ==
    IF step = "youtube"
    THEN step' = "twitch" /\ walk' = WalkOf("twitch") /\ putOff' = <<>> /\ calls' = 0
    ELSE step' = "rest" /\ walk' = {} /\ putOff' = <<>> /\ calls' = 0

\* noteSourceSyncDeferrals, and after the Twitch sync whether it was kept out.
EndWalk ==
    /\ step # "rest" /\ walk = {}
    /\ deferred' = [deferred EXCEPT ![step] = putOff]
    /\ twitchHeldBack' = IF step = "youtube" THEN twitchHeldBack
                   ELSE calls = 0 /\ putOff # <<>> /\ youtubeCallsStarted > 0
    /\ NextStep
    /\ UNCHANGED <<enabled, left, youtubeCallsStarted, paused, waited, breaks>>

\* An incident that cannot be written ends the sync before it has noted anything.
WalkBreaks ==
    /\ step # "rest" /\ calls > 0 /\ breaks < MaxStepBreaks
    /\ breaks' = breaks + 1
    /\ NextStep
    /\ UNCHANGED <<enabled, left, deferred, twitchHeldBack, youtubeCallsStarted, paused, waited>>

\* The operator switches a source on or off between two cycles.
Switch(s) ==
    /\ step = "rest"
    /\ enabled' = IF s \in enabled THEN enabled \ {s} ELSE enabled \cup {s}
    /\ waited' = [waited EXCEPT ![s] = 0]
    /\ UNCHANGED <<step, walk, left, calls, putOff, deferred, twitchHeldBack,
                   youtubeCallsStarted, paused, breaks>>

TurnsNext ==
    \/ BeginCycle \/ EndWalk \/ WalkBreaks
    \/ \E s \in Remote : PassOverPaused(s) \/ Call(s) \/ PutOff(s) \/ Switch(s)

TurnsSpec == TurnsInit /\ [][TurnsNext]_turnVars

-----------------------------------------------------------------------------
(* Safety.                                                                 *)

\* No source is put off for good, and neither sync keeps the other waiting: as long
\* as every cycle has room for one call, a source that is on and not paused gets its
\* call before two cycles for every source of its own sync are over, or two more
\* for each sync that broke off and noted nothing.
NoSourceStarves ==
    \A s \in Remote :
        waited[s] <= 2 * (IF s \in ToSet(YouTube) THEN Len(YouTube) ELSE Len(Twitch)) - 1 + 2 * breaks
=============================================================================

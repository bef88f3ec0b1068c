------------------------------- MODULE Uplink -------------------------------
(***************************************************************************)
(* The uplink container: which destinations take the stream, the process   *)
(* of every output profile, the watchdog that restarts it, and the worker  *)
(* container's sync, which writes the same destination rows.               *)
(*                                                                         *)
(* A unit of time is the delay between two uplink cycles.  A destination's *)
(* address and stream key are the number of the save they come from; the   *)
(* encoder's command, its log lines and the incidents are left out.        *)
(***************************************************************************)
EXTENDS Integers, FiniteSets

CONSTANTS Destinations,
          RoleOf, ProfileOf,  \* role and output profile of each
          StartGrace,         \* uplinkStallGraceSeconds
          FreezeAfter,        \* uplinkStallTimeoutSeconds
          NeverAfter,         \* uplinkNoProgressRestartSeconds
          StallAfter,         \* UPLINK_DESTINATION_STALL_RESTART_SECONDS
          Cooldown,           \* DESTINATION_FAILURE_COOLDOWN_SECONDS
          FirstPause, MaxPause, Quiet, \* RESTART_BACKOFF_FIRST_MS, _MAX_MS, _QUIET_MS
          ReconnectGrace,     \* UPLINK_RECONNECT_GRACE_MS
          ReconnectEvery, ReconnectFor, \* the planned reconnect's interval and window
          MaxTime,            \* bound: cycles
          MaxTurns            \* bound: faults and recoveries of the world, and the operator's saves

ASSUME UplinkAssumption ==
    /\ {FirstPause, MaxPause, Quiet, ReconnectGrace, ReconnectFor, MaxTime} \subseteq Nat
    /\ 0 < FirstPause /\ FirstPause <= MaxPause /\ ReconnectGrace < Quiet

VARIABLES time,     \* [now, cycled, synced]
          dests,     \* the rows of stream_destinations
          reads,     \* the rows the uplink's and the worker's running cycle read
          procs,     \* uplinkProcesses
          watch,     \* uplinkWatchdog, of each profile
          outage,    \* its outageOpen and outageSeenAtMs
          stallSince,\* uplinkDestinationStallStartedAt
          reconnectUntil, \* uplinkReconnectUntil
          world,     \* what the processes, the far ends, the network and the feed do
          past,      \* history: the restarts of each profile, since when it is dark
          turns

upVars == <<time, dests, reads, procs, watch, outage, stallSince, reconnectUntil, world, past, turns>>

Profiles == {ProfileOf[d] : d \in Destinations}
Off == [ids |-> {}]
NoRows == [d \in {} |-> 0]
Never == -1
Long == -(Quiet + MaxPause + 1)   \* an instant before any streak

---------------------------------------------------------------------------
(* Routing *)

\* selectActiveDestinationGroup; the disabled ones have no target.
Active(rows) ==
    LET of(role) == {d \in Destinations : rows[d].enabled /\ RoleOf[d] = role}
        ready(role) == {d \in of(role) : rows[d].status = "ready"}
        first(a, b) == IF a # {} THEN a ELSE b
    IN  first(ready("primary"), first(ready("backup"), first(of("primary"), of("backup"))))

\* groupDestinationRuntimeTargetsByOutputProfile
Members(p, rows) == {d \in Active(rows) : ProfileOf[d] = p}
\* uplinkOutputSignature
Signature(ids, rows) == [d \in ids |-> rows[d].output]

Runs(p) == procs[p] # Off

---------------------------------------------------------------------------
(* RestartBackoff *)

Streak(w, t) == IF t - w.lastAt > Quiet THEN 0 ELSE w.restarts

\* restartBackoffDelayMs
PauseAfter(n) ==
    IF n = 0 THEN 0 ELSE LET pause == FirstPause * 2^(n - 1) IN IF pause < MaxPause THEN pause ELSE MaxPause

Recorded(w, t) == [w EXCEPT !.restarts = Streak(w, t) + 1, !.lastAt = t]

---------------------------------------------------------------------------
(* UplinkWatchdog *)

NoHold == [until |-> Never]
NoGrace == [until |-> Never]
Fresh == [restarts |-> 0, lastAt |-> Long, hold |-> NoHold, wait |-> Never, grace |-> NoGrace, restartedAt |-> Long]

\* observeNetwork: the outage over, every hold, wait and streak has ended.
Observed(o, verdict) ==
    CASE verdict = "down" -> [open |-> TRUE, at |-> time.now]
      [] verdict = "up"   -> [o EXCEPT !.open = FALSE]
      [] OTHER            -> o
WatchAfter(o, verdict, w) ==
    IF verdict = "up" /\ o.open
    THEN [w EXCEPT !.restarts = 0, !.lastAt = Long, !.hold = NoHold, !.wait = Never] ELSE w

\* Mutant: a grace for every fault, whatever was on air before.
GraceOfAnyFault(w, since, onAirSince, output) ==
    IF time.now < since + ReconnectGrace THEN [until |-> since + ReconnectGrace, output |-> output] ELSE NoGrace

\* reconnectGrace
GraceOf(w, since, onAirSince, output) ==
    IF w.grace # NoGrace /\ time.now < w.grace.until /\ w.grace.output = output THEN w.grace
    ELSE IF onAirSince # Never /\ since - onAirSince >= Quiet /\ since - w.restartedAt >= Quiet
              /\ time.now < since + ReconnectGrace
         THEN [until |-> since + ReconnectGrace, output |-> output]
    ELSE NoGrace

Kept(w) == [w |-> w, kind |-> "none", pause |-> 0]
Restarted(w, kind, pause) == [w |-> [w EXCEPT !.restartedAt = time.now + pause], kind |-> kind, pause |-> pause]

\* decideStorm: the pause waits on air.
DecideStorm(w) ==
    LET pause == PauseAfter(Streak(w, time.now))
    IN  IF w.wait # Never /\ time.now < w.wait THEN Kept(w)
        ELSE IF w.wait # Never \/ pause = 0
             THEN Restarted([Recorded(w, time.now) EXCEPT !.wait = Never], "storm", 0)
        ELSE Kept([w EXCEPT !.wait = time.now + pause])

\* decide, of a fault that is dark: o is the outage after this cycle's check.
DecideDark(w, o, since, onAirSince, output) ==
    LET g == GraceOf(w, since, onAirSince, output)
        w1 == [w EXCEPT !.wait = Never, !.grace = g]
        pause == PauseAfter(Streak(w, time.now))
        hold == IF pause = 0 THEN NoHold ELSE [until |-> time.now + pause, output |-> output]
    IN  IF o.open \/ o.at >= since THEN Restarted([w1 EXCEPT !.hold = NoHold], "outage", 0)
        ELSE IF g # NoGrace THEN Restarted(w1, "grace", 0)
        ELSE Restarted([Recorded(w1, time.now + pause) EXCEPT !.hold = hold], "counted", pause)

\* holdOf: what is left of the hold when the profile would start.
AfterHoldOf(w, output) ==
    IF w.hold = NoHold THEN w
    ELSE IF w.hold.output # output THEN [w EXCEPT !.hold = NoHold, !.restarts = 0, !.lastAt = Long]
    ELSE IF time.now >= w.hold.until THEN [w EXCEPT !.hold = NoHold]
    ELSE w

---------------------------------------------------------------------------
(* runUplinkCycle *)

Turned == turns < MaxTurns /\ turns' = turns + 1

\* The three checks of a running encoder; a feed that is not fresh explains a standing out_time.
EncoderVerdict(p, w, o) ==
    LET run == procs[p]
        age == time.now - run.startedAt
        onAirSince == IF run.seen THEN run.startedAt ELSE Never
        storm == IF ~run.storm THEN Kept([w EXCEPT !.wait = Never]) ELSE DecideStorm(w)
    IN  IF ~world.fresh THEN Kept(w)
        ELSE IF ~run.seen /\ age >= StartGrace
             THEN IF age >= NeverAfter THEN DecideDark(w, o, run.startedAt, onAirSince, run.output) ELSE Kept(w)
        ELSE IF age < StartGrace THEN Kept([w EXCEPT !.wait = Never])
        ELSE IF storm.kind = "none" /\ time.now - run.advancedAt >= FreezeAfter
             THEN DecideDark(storm.w, o, run.advancedAt, onAirSince, run.output)
        ELSE storm

\* evaluateUplinkDestinationStall, after the encoder checks left the process alone.
StallVerdict(p, w, o, rows) ==
    LET run == procs[p]
        since == IF stallSince[p] = Never THEN time.now ELSE stallSince[p]
    IN  IF \E d \in run.ids : rows[d].status # "error" THEN [v |-> Kept(w), since |-> Never]
        ELSE IF time.now - since < StallAfter THEN [v |-> Kept(w), since |-> since]
        ELSE [v |-> DecideDark(w, o, since, IF run.seen THEN run.startedAt ELSE Never, run.output), since |-> Never]

\* What the watchdog makes of a profile, and its stall timer.
Verdict(p, w, o, rows) ==
    LET encoder == EncoderVerdict(p, w, o)
    IN  IF ~Runs(p) THEN [v |-> Kept(w), since |-> stallSince[p]]
        ELSE IF encoder.kind # "none" THEN [v |-> encoder, since |-> stallSince[p]]
        ELSE StallVerdict(p, encoder.w, o, rows)

\* startUplink: the process and, of the rows as read, the destinations' status.
Started(ids, rows) ==
    [ids |-> ids, output |-> Signature(ids, rows), startedAt |-> time.now, seen |-> FALSE,
     advancedAt |-> time.now, storm |-> FALSE]

\* A profile at the end of the cycle: the process of a group that is no longer wanted stops, a
\* wanted one starts unless it is held.
Outcome(p, verdict, rows) ==
    LET wanted == Members(p, rows)
        stays == Runs(p) /\ verdict.v.kind = "none" /\ procs[p].ids = wanted
        w == IF wanted = {} \/ stays THEN verdict.v.w ELSE AfterHoldOf(verdict.v.w, Signature(wanted, rows))
        starts == wanted # {} /\ ~stays /\ w.hold = NoHold
    IN  [w |-> w, starts |-> starts,
         proc |-> IF stays THEN procs[p] ELSE IF starts THEN Started(wanted, rows) ELSE Off]

\* readAppState at the beginning of the cycle.
ReadRows ==
    /\ ~time.cycled /\ reads.uplink = NoRows
    /\ reads' = [reads EXCEPT !.uplink = dests]
    /\ UNCHANGED <<time, dests, procs, watch, outage, stallSince, reconnectUntil, world, past, turns>>

\* History: the restarts since the profile's output changed last.
RestartOf(v) == IF v.kind = "none" THEN {} ELSE {[at |-> time.now, kind |-> v.kind, pause |-> v.pause]}

CycleEnds == time' = [time EXCEPT !.cycled = TRUE] /\ reads' = [reads EXCEPT !.uplink = NoRows]

\* No output, no feed to begin with, or the planned reconnect: everything stops or nothing starts.
IdleCycle ==
    LET rows == reads.uplink
        newest == {procs[p].startedAt : p \in {q \in Profiles : Runs(q)}}
        due == newest # {} /\ \A t \in newest : time.now - t >= ReconnectEvery
        stop == procs' = [p \in Profiles |-> Off]
    IN  /\ reads.uplink # NoRows
        /\ \/ Active(rows) = {} /\ stop /\ UNCHANGED reconnectUntil
           \/ /\ Active(rows) # {} /\ newest = {} /\ ~world.fresh
              /\ UNCHANGED <<procs, reconnectUntil>>
           \/ /\ Active(rows) # {} /\ (newest # {} \/ world.fresh) /\ time.now < reconnectUntil
              /\ UNCHANGED <<procs, reconnectUntil>>
           \/ /\ Active(rows) # {} /\ time.now >= reconnectUntil /\ due
              /\ stop /\ reconnectUntil' = time.now + ReconnectFor
        /\ past' = [past EXCEPT !.litAt = [p \in Profiles |-> time.now]]
        /\ CycleEnds
        /\ UNCHANGED <<dests, watch, outage, stallSince, world, turns>>

\* The outage check asks while it can matter: verdict is what it says.
Cycle(verdict) ==
    LET rows == reads.uplink
        running == {p \in Profiles : Runs(p)}
        asked == \/ outage.open
                 \/ \E p \in Profiles : watch[p].hold.until > time.now
                 \/ \E p \in running : \E d \in procs[p].ids : rows[d].status = "error"
        o == Observed(outage, verdict)
        w == [p \in Profiles |-> IF asked THEN WatchAfter(outage, verdict, watch[p]) ELSE watch[p]]
        verdicts == [p \in Profiles |-> Verdict(p, w[p], o, rows)]
        dark == \E p \in Profiles : verdicts[p].v.kind \in {"outage", "grace", "counted"}
        outcomes == [p \in Profiles |-> Outcome(p, verdicts[p], rows)]
        started == UNION {outcomes[p].proc.ids : p \in {q \in Profiles : outcomes[q].starts}}
    IN  /\ reads.uplink # NoRows
        /\ Active(rows) # {} /\ (running # {} \/ world.fresh) /\ time.now >= reconnectUntil
        /\ running = {} \/ \E p \in running : time.now - procs[p].startedAt < ReconnectEvery
        /\ \/ ~asked /\ ~dark /\ verdict = "failed" /\ UNCHANGED turns
           \/ (asked \/ dark) /\ verdict = (IF world.net THEN "up" ELSE "down") /\ UNCHANGED turns
           \/ (asked \/ dark) /\ verdict = "failed" /\ Turned
        /\ procs' = [p \in Profiles |-> outcomes[p].proc]
        /\ watch' = [p \in Profiles |-> outcomes[p].w]
        /\ stallSince' = [p \in Profiles |-> verdicts[p].since]
        /\ outage' = IF asked \/ dark THEN o ELSE outage
        /\ dests' = [d \in Destinations |-> IF d \in started THEN [rows[d] EXCEPT !.status = "ready"] ELSE dests[d]]
        /\ reconnectUntil' = 0
        /\ past' = [restarts |-> [p \in Profiles |->
                        IF Signature(Members(p, rows), rows) # past.output[p] THEN {}
                        ELSE past.restarts[p] \cup RestartOf(verdicts[p].v)],
                    litAt |-> [p \in Profiles |->
                        IF Members(p, rows) # {} /\ outcomes[p].proc = Off THEN past.litAt[p] ELSE time.now],
                    output |-> [p \in Profiles |-> Signature(Members(p, rows), rows)]]
        /\ CycleEnds
        /\ UNCHANGED world

---------------------------------------------------------------------------
(* Everything else *)

\* playoutProcess of the worker container: only runPlayoutCycle, in another one, sets it.
WorkerPlays == FALSE

\* syncDestinations, once in two uplink cycles: reads all, then writes each whole row.
SyncReads ==
    /\ reads.worker = NoRows /\ time.now % 2 = 1 /\ ~time.synced
    /\ reads' = [reads EXCEPT !.worker = dests]
    /\ time' = [time EXCEPT !.synced = TRUE]
    /\ UNCHANGED <<dests, procs, watch, outage, stallSince, reconnectUntil, world, past, turns>>

Synced(row) ==
    LET cooling == row.status = "error" /\ time.now - row.failedAt < Cooldown
    IN  [row EXCEPT !.status = IF ~row.enabled THEN "missing-config"
                               ELSE IF cooling THEN "error"
                               ELSE IF WorkerPlays /\ row.status = "error" THEN "recovering"
                               ELSE "ready"]

SyncWrites ==
    /\ reads.worker # NoRows
    /\ dests' = [d \in Destinations |-> Synced(reads.worker[d])]
    /\ reads' = [reads EXCEPT !.worker = NoRows]
    /\ UNCHANGED <<time, procs, watch, outage, stallSince, reconnectUntil, world, past, turns>>

\* markDestinationFailure: ffmpeg's stderr names a destination that does not take the stream.
MarkFailure(d) ==
    /\ d \in world.refuse \/ ~world.net
    /\ \E p \in Profiles : Runs(p) /\ d \in procs[p].ids
    /\ dests[d].status # "error" \/ dests[d].failedAt < time.now
    /\ dests' = [dests EXCEPT ![d].status = "error", ![d].failedAt = time.now]
    /\ UNCHANGED <<time, reads, procs, watch, outage, stallSince, reconnectUntil, world, past, turns>>

\* The world turns between two cycles: what a cycle reads of it, it reads in one step.
Turn == time.cycled /\ Turned

\* The destination page: another address or key, or the switch.
Save(d) ==
    /\ Turned
    /\ \/ dests' = [dests EXCEPT ![d].output = 1 - @,
                                 ![d].status = IF dests[d].enabled THEN "ready" ELSE "missing-config"]
       \/ dests' = [dests EXCEPT ![d].enabled = ~@]
    /\ UNCHANGED <<time, reads, procs, watch, outage, stallSince, reconnectUntil, world, past>>

\* The encoder of a profile freezes, never gets to a frame, or recovers.
EncoderTurns(p, mode) ==
    /\ world.mode[p] # mode /\ Turn
    /\ world' = [world EXCEPT !.mode[p] = mode]
    /\ UNCHANGED <<time, dests, reads, procs, watch, outage, stallSince, reconnectUntil, past>>

\* The input's timeline comes apart, or settles.  The line count of a storm that settled falls with
\* the next line only.
StormTurns(p) ==
    /\ Runs(p) /\ Turn
    /\ procs' = [procs EXCEPT ![p].storm = ~@]
    /\ UNCHANGED <<time, dests, reads, watch, outage, stallSince, reconnectUntil, world, past>>

ProcessDies(p) ==
    /\ Runs(p) /\ Turn
    /\ procs' = [procs EXCEPT ![p] = Off]
    /\ UNCHANGED <<time, dests, reads, watch, outage, stallSince, reconnectUntil, world, past>>

FarEndTurns(d) ==
    /\ Turn
    /\ world' = [world EXCEPT !.refuse = IF d \in @ THEN @ \ {d} ELSE @ \cup {d}]
    /\ UNCHANGED <<time, dests, reads, procs, watch, outage, stallSince, reconnectUntil, past>>

\* The channel's own network; the history of restarts begins anew with an outage.
NetworkTurns ==
    /\ Turn
    /\ world' = [world EXCEPT !.net = ~@]
    /\ past' = [past EXCEPT !.restarts = [p \in Profiles |-> {}]]
    /\ UNCHANGED <<time, dests, reads, procs, watch, outage, stallSince, reconnectUntil>>

FeedTurns ==
    /\ Turn
    /\ world' = [world EXCEPT !.fresh = ~@]
    /\ UNCHANGED <<time, dests, reads, procs, watch, outage, stallSince, reconnectUntil, past>>

\* Time until the next cycle: out_time advances in what encodes.
Tick ==
    LET advances(p) == /\ world.fresh
                       /\ world.mode[p] = "ok" \/ (world.mode[p] = "frozen" /\ ~procs[p].seen)
    IN  /\ time.cycled /\ reads.worker = NoRows /\ time.now < MaxTime
        /\ time' = [now |-> time.now + 1, cycled |-> FALSE, synced |-> FALSE]
        /\ procs' = [p \in Profiles |-> IF Runs(p) /\ advances(p)
                                        THEN [procs[p] EXCEPT !.seen = TRUE, !.advancedAt = time.now + 1]
                                        ELSE procs[p]]
        /\ UNCHANGED <<dests, reads, watch, outage, stallSince, reconnectUntil, world, past, turns>>

UpInit ==
    /\ time = [now |-> 0, cycled |-> FALSE, synced |-> FALSE]
    /\ dests = [d \in Destinations |-> [enabled |-> TRUE, status |-> "ready", failedAt |-> Long, output |-> 0]]
    /\ reads = [uplink |-> NoRows, worker |-> NoRows]
    /\ procs = [p \in Profiles |-> Off] /\ watch = [p \in Profiles |-> Fresh]
    /\ outage = [open |-> FALSE, at |-> Long]
    /\ stallSince = [p \in Profiles |-> Never] /\ reconnectUntil = 0
    /\ world = [mode |-> [p \in Profiles |-> "ok"], refuse |-> {}, net |-> TRUE, fresh |-> TRUE]
    /\ past = [restarts |-> [p \in Profiles |-> {}], litAt |-> [p \in Profiles |-> 0],
               output |-> [p \in Profiles |-> Signature({}, dests)]]
    /\ turns = 0

UpNext ==
    \/ ReadRows \/ IdleCycle \/ \E verdict \in {"up", "down", "failed"} : Cycle(verdict)
    \/ SyncReads \/ SyncWrites
    \/ \E d \in Destinations : MarkFailure(d) \/ Save(d) \/ FarEndTurns(d)
    \/ \E p \in Profiles : \/ \E mode \in {"ok", "never", "frozen"} : EncoderTurns(p, mode)
                           \/ StormTurns(p) \/ ProcessDies(p)
    \/ NetworkTurns \/ FeedTurns \/ Tick

UpSpec == UpInit /\ [][UpNext]_upVars

\* Types.
DestRows == [Destinations -> [enabled : BOOLEAN, status : {"ready", "recovering", "missing-config", "error"},
                              failedAt : Int, output : 0..1]]
Outputs == UNION {[ids -> 0..1] : ids \in SUBSET Destinations}
Encoders == [ids : (SUBSET Destinations) \ {{}}, output : Outputs, startedAt : Nat, seen : BOOLEAN,
             advancedAt : Nat, storm : BOOLEAN]
Until == [until : Int, output : Outputs]

UpTypeOK ==
    /\ time \in [now : 0..MaxTime, cycled : BOOLEAN, synced : BOOLEAN]
    /\ dests \in DestRows
    /\ reads \in [uplink : {NoRows} \cup DestRows, worker : {NoRows} \cup DestRows]
    /\ procs \in [Profiles -> {Off} \cup Encoders]
    /\ watch \in [Profiles -> [restarts : Nat, lastAt : Int, hold : {NoHold} \cup Until, wait : Int,
                               grace : {NoGrace} \cup Until, restartedAt : Int]]
    /\ \A p \in Profiles : Runs(p) => watch[p].hold = NoHold
    /\ outage \in [open : BOOLEAN, at : Int]
    /\ stallSince \in [Profiles -> Int] /\ reconnectUntil \in Int
    /\ world \in [mode : [Profiles -> {"ok", "never", "frozen"}], refuse : SUBSET Destinations,
                  net : BOOLEAN, fresh : BOOLEAN]
    /\ past \in [restarts : [Profiles -> SUBSET [at : Nat, kind : {"storm", "outage", "grace", "counted"},
                                                 pause : Nat]],
                 litAt : [Profiles -> 0..MaxTime], output : [Profiles -> Outputs]]

---------------------------------------------------------------------------
(* Properties *)

\* A profile that is to deliver is dark for the longest pause at most, and for the cycle that
\* notices; and its restarts are rationed while neither its output nor the network changed: of two
\* counted restarts that set no pause the second comes after a quiet time, and those of the
\* reconnect grace lie within one grace or a quiet time apart (RESTART_BACKOFF_MAX_MS, holdOf,
\* restart-backoff.ts, UplinkWatchdog.reconnectGrace).
WatchdogKeepsMeasure ==
    \A p \in Profiles :
        /\ time.now - past.litAt[p] <= MaxPause + 1
        /\ \A r, s \in past.restarts[p] :
              r.at < s.at =>
                  /\ {r.kind, s.kind} \subseteq {"counted"} /\ r.pause = 0 /\ s.pause = 0 => s.at - r.at > Quiet
                  /\ r.kind = "grace" /\ s.kind = "grace" => s.at - r.at < ReconnectGrace \/ s.at - r.at >= Quiet

\* The worker does not mark an output that failed as ready while a programme plays: it stages it
\* (shouldStageRecoveredDestination).
RejoinsAreStaged ==
    [][SyncWrites => \A d \in Destinations :
           reads.worker[d].status = "error" => dests'[d].status # "ready"]_upVars
=============================================================================

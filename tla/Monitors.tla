------------------------------ MODULE Monitors ------------------------------
(***************************************************************************)
(* The steps of the worker's cycle that watch something and keep an        *)
(* incident for as long as it lasts: the media volume with its eviction    *)
(* ladder, the system volume, the relay, and the steps' own failures; with *)
(* a database that stops and returns, and the process that gives up on it. *)
(* A monitor remembers that its incident is open; a new process learns it  *)
(* from the open rows.                                                     *)
(*                                                                         *)
(* A volume is "low" (below its trigger), "gap" or "fine" (at its recovery *)
(* mark).  A unit of time is a cycle.  What a stage deletes is left out,   *)
(* and so are alerts, the syncs between these steps, and the event         *)
(* incidents, which the cycle's last sweep closes.                         *)
(***************************************************************************)
EXTENDS Integers, SequencesExt

CONSTANTS Stages,     \* the length of DISK_WATERMARK_STAGE_ORDER
          RelayAfter, \* RELAY_UNREACHABLE_AFTER_MS
          ExitAfter,  \* DATABASE_OUTAGE_EXIT_AFTER_MS
          MaxChanges  \* bound: changes of the world, outages and restarts

ASSUME MonitorsAssumption == {Stages, RelayAfter, ExitAfter, MaxChanges} \subseteq Nat \ {0}

VARIABLES world,    \* the volumes, the relay, the database
          open,     \* the open incidents
          known,    \* what the process remembers of them
          cycle,    \* the step it is in and the writes this step has left
          unclosed, \* history: the incidents whose closing this process was refused
          changes

monitorVars == <<world, open, known, cycle, unclosed, changes>>

Order == <<"rearm", "media", "volume", "relay">>
Levels == {"low", "gap", "fine"}
Watched == {"evicted", "exhausted", "volume", "relay"}
Incidents == Watched \cup {"step " \o s : s \in ToSet(Order)}
OfStep(s) == "step " \o s

Fresh == [rearmed |-> FALSE, media |-> FALSE, volume |-> FALSE, relay |-> "unread", silent |-> 0,
          episode |-> 0, settled |-> {}, unreachable |-> 0]
Between == [at |-> "idle", step |-> "rearm", todo |-> <<>>]

MonitorsInit ==
    /\ world = [media |-> "fine", volume |-> "fine", relay |-> "up", db |-> TRUE]
    /\ open = {} /\ known = Fresh /\ cycle = Between /\ unclosed = {} /\ changes = 0

Writes == [act : {"open", "close"}, what : Watched]
MonitorsTypeOK ==
    /\ world \in [media : Levels, volume : Levels, relay : {"up", "down", "unused"}, db : BOOLEAN]
    /\ open \subseteq Incidents /\ unclosed \subseteq Watched /\ changes \in Nat
    /\ known \in [rearmed : BOOLEAN, media : BOOLEAN, volume : BOOLEAN, relay : {"unread", "open", "shut"},
                  silent : Nat, episode : 0..Stages, settled : SUBSET ToSet(Order), unreachable : Nat]
    /\ cycle \in [at : {"idle", "run", "write", "close", "failed", "heartbeat", "crashed"},
                  step : ToSet(Order), todo : Seq(Writes)]

Raise(what) == [act |-> "open", what |-> what]
Resolve(what) == [act |-> "close", what |-> what]

Runs(step) == cycle.at = "run" /\ cycle.step = step
Finishes(todo) == cycle' = [cycle EXCEPT !.at = IF todo = <<>> THEN "close" ELSE "write", !.todo = todo]
Fails == cycle' = [cycle EXCEPT !.at = "failed", !.todo = <<>>]

After(step) ==
    IF step = Last(Order) THEN [Between EXCEPT !.at = "heartbeat"]
    ELSE [at |-> "run", step |-> Order[1 + CHOOSE i \in 1..Len(Order) : Order[i] = step], todo |-> <<>>]

BeginMonitorCycle ==
    /\ cycle.at = "idle" /\ cycle' = [Between EXCEPT !.at = "run"]
    /\ UNCHANGED <<world, open, known, unclosed, changes>>

---------------------------------------------------------------------------
(* The steps *)

\* Mutant: a new process starts with its flags down.
RearmedUnread == [known EXCEPT !.rearmed = TRUE]

\* rearmStateIncidentFlags, on the rows the first cycle of a process reads
Rearmed == [known EXCEPT !.rearmed = TRUE,
                          !.media = @ \/ open \cap {"evicted", "exhausted"} # {},
                          !.volume = @ \/ "volume" \in open]

RunRearm ==
    /\ Runs("rearm")
    /\ \/ known.rearmed /\ Finishes(<<>>) /\ UNCHANGED known
       \/ ~known.rearmed /\ world.db /\ known' = Rearmed /\ Finishes(<<>>)
       \/ ~known.rearmed /\ ~world.db /\ Fails /\ UNCHANGED known
    /\ UNCHANGED <<world, open, unclosed, changes>>

BothResolved == IF known.media THEN <<Resolve("evicted"), Resolve("exhausted")>> ELSE <<>>

\* decideDiskWatermarkAction: "idle" or "recovered" close what is open.
VolumeIsFine ==
    /\ IF known.episode = 0 THEN world.media # "low" ELSE world.media = "fine"
    /\ known' = [known EXCEPT !.media = FALSE, !.episode = 0] /\ Finishes(BothResolved)
    /\ UNCHANGED world

Exhausted ==
    /\ known.episode = Stages /\ world.media # "fine"
    /\ known' = [known EXCEPT !.media = TRUE, !.episode = 0] /\ Finishes(<<Raise("exhausted")>>)
    /\ UNCHANGED world

\* One stage, on the state it reads; without the database the step does nothing.
RunStage ==
    /\ IF known.episode = 0 THEN world.media = "low" ELSE known.episode < Stages /\ world.media # "fine"
    /\ \/ ~world.db /\ Finishes(<<>>) /\ UNCHANGED <<known, world>>
       \/ /\ world.db
          /\ \/ /\ known' = [known EXCEPT !.episode = @ + 1]
                /\ Finishes(<<>>) /\ UNCHANGED world
             \/ /\ known' = [known EXCEPT !.episode = @ + 1, !.media = TRUE]
                /\ Finishes(<<Raise("evicted")>>)
                /\ \E level \in Levels \ {"low"} : world' = [world EXCEPT !.media = level]

RunMedia ==
    /\ Runs("media")
    /\ VolumeIsFine \/ Exhausted \/ RunStage
    /\ UNCHANGED <<open, unclosed, changes>>

\* decideSystemVolumeObservation; the flag is set before the incident is written.
VolumeRaises == ~known.volume /\ world.volume = "low"
VolumeResolves == known.volume /\ world.volume = "fine"

RunVolume ==
    /\ Runs("volume")
    /\ known' = [known EXCEPT !.volume = (@ \/ VolumeRaises) /\ ~VolumeResolves]
    /\ Finishes(IF VolumeRaises THEN <<Raise("volume")>>
                ELSE IF VolumeResolves THEN <<Resolve("volume")>> ELSE <<>>)
    /\ UNCHANGED <<world, open, unclosed, changes>>

\* observeRelay: the watch starts from the open rows, then counts the time without an answer.
RelayWas == IF known.relay = "unread" THEN IF "relay" \in open THEN "open" ELSE "shut" ELSE known.relay
SilentFor == IF world.relay = "down" THEN known.silent + 1 ELSE 0

RunRelay ==
    /\ Runs("relay")
    /\ IF ~world.db THEN Fails /\ UNCHANGED known
       ELSE LET raises   == world.relay = "down" /\ RelayWas = "shut" /\ SilentFor > RelayAfter
                resolves == world.relay # "down" /\ RelayWas = "open"
            IN  /\ known' = [known EXCEPT
                       !.relay  = IF raises THEN "open" ELSE IF resolves THEN "shut" ELSE RelayWas,
                       !.silent = IF SilentFor > RelayAfter THEN RelayAfter + 1 ELSE SilentFor]
                /\ Finishes(IF raises THEN <<Raise("relay")>>
                            ELSE IF resolves THEN <<Resolve("relay")>> ELSE <<>>)
    /\ UNCHANGED <<world, open, unclosed, changes>>

---------------------------------------------------------------------------
(* The writes of a step, and how it ends *)

Closings(todo) == {todo[i].what : i \in {j \in 1..Len(todo) : todo[j].act = "close"}}

\* upsertIncident and resolveIncident.  The volume steps swallow a refusal, the relay step fails.
WriteIncident ==
    /\ cycle.at = "write"
    /\ IF world.db
       THEN LET w == Head(cycle.todo)
            IN  /\ open' = IF w.act = "open" THEN open \cup {w.what} ELSE open \ {w.what}
                /\ Finishes(Tail(cycle.todo)) /\ UNCHANGED unclosed
       ELSE /\ unclosed' = unclosed \cup Closings(cycle.todo)
            /\ IF cycle.step = "relay" THEN Fails ELSE Finishes(<<>>)
            /\ UNCHANGED open
    /\ UNCHANGED <<world, known, changes>>

Crash == cycle' = [Between EXCEPT !.at = "crashed"]

\* closeWorkerCycleStepIncident: once per process, and again after a failure.
CloseStep ==
    /\ cycle.at = "close"
    /\ IF cycle.step \in known.settled
       THEN cycle' = After(cycle.step) /\ UNCHANGED <<open, known>>
       ELSE IF world.db
       THEN /\ open' = open \ {OfStep(cycle.step)}
            /\ known' = [known EXCEPT !.settled = @ \cup {cycle.step}]
            /\ cycle' = After(cycle.step)
       ELSE Crash /\ UNCHANGED <<open, known>>
    /\ UNCHANGED <<world, unclosed, changes>>

\* recordWorkerCycleStepFailure: what cannot be recorded either ends the cycle.
StepFailed ==
    /\ cycle.at = "failed"
    /\ known' = [known EXCEPT !.settled = @ \ {cycle.step}]
    /\ IF world.db THEN open' = open \cup {OfStep(cycle.step)} /\ cycle' = After(cycle.step)
       ELSE Crash /\ UNCHANGED open
    /\ UNCHANGED <<world, unclosed, changes>>

Heartbeat ==
    /\ cycle.at = "heartbeat"
    /\ IF world.db THEN cycle' = Between /\ known' = [known EXCEPT !.unreachable = 0]
       ELSE Crash /\ UNCHANGED known
    /\ UNCHANGED <<world, open, unclosed, changes>>

NewProcess == known' = Fresh /\ cycle' = Between /\ unclosed' = {}

\* runLoop and DatabaseOutageBudget
CycleCrashed ==
    /\ cycle.at = "crashed"
    /\ \/ world.db /\ cycle' = Between /\ known' = [known EXCEPT !.unreachable = 0] /\ UNCHANGED unclosed
       \/ /\ ~world.db /\ known.unreachable + 1 < ExitAfter
          /\ cycle' = Between /\ known' = [known EXCEPT !.unreachable = @ + 1] /\ UNCHANGED unclosed
       \/ ~world.db /\ known.unreachable + 1 >= ExitAfter /\ NewProcess
    /\ UNCHANGED <<world, open, changes>>

---------------------------------------------------------------------------
(* The world *)

Changes == changes < MaxChanges /\ changes' = changes + 1

VolumeMoves(level) ==
    /\ level # world.volume /\ Changes /\ world' = [world EXCEPT !.volume = level]
    /\ UNCHANGED <<open, known, cycle, unclosed>>

MediaMoves(level) ==
    /\ level # world.media /\ Changes /\ world' = [world EXCEPT !.media = level]
    /\ UNCHANGED <<open, known, cycle, unclosed>>

RelayMoves(to) ==
    /\ to # world.relay /\ Changes /\ world' = [world EXCEPT !.relay = to]
    /\ UNCHANGED <<open, known, cycle, unclosed>>

DatabaseStops ==
    /\ world.db /\ Changes /\ world' = [world EXCEPT !.db = FALSE]
    /\ UNCHANGED <<open, known, cycle, unclosed>>

DatabaseReturns ==
    /\ ~world.db /\ world' = [world EXCEPT !.db = TRUE]
    /\ UNCHANGED <<open, known, cycle, unclosed, changes>>

MonitorRestarts ==
    /\ Changes /\ NewProcess
    /\ UNCHANGED <<world, open>>

MonitorStep ==
    \/ BeginMonitorCycle \/ RunRearm \/ RunMedia \/ RunVolume \/ RunRelay
    \/ WriteIncident \/ CloseStep \/ StepFailed \/ Heartbeat \/ CycleCrashed

MonitorsNext ==
    \/ MonitorStep
    \/ \E level \in Levels : VolumeMoves(level) \/ MediaMoves(level)
    \/ \E to \in {"up", "down", "unused"} : RelayMoves(to)
    \/ DatabaseStops \/ DatabaseReturns \/ MonitorRestarts

\* The worker's loop runs on, and a database that stopped comes back.
MonitorsFairness == WF_monitorVars(MonitorStep) /\ WF_monitorVars(DatabaseReturns)

---------------------------------------------------------------------------

Over == (IF world.media = "fine" THEN {"evicted", "exhausted"} ELSE {})
            \cup (IF world.volume = "fine" THEN {"volume"} ELSE {})
            \cup (IF world.relay # "down" THEN {"relay"} ELSE {})

\* An incident ends with what it describes, across restarts and outages: that of a failed step
\* always, that of a monitor unless this process was refused the write that closes it.  (The
\* world's changes are bounded: they end, and from some time on this holds.)
IncidentsEndWithTheirCause ==
    <>[](open \cap ({OfStep(s) : s \in ToSet(Order)} \cup (Over \ unclosed)) = {})

\* "the only correct reaction is a critical incident plus an alert, so an operator frees space
\* before Postgres stops accepting writes": a system volume that stays low is reported.
LowVolumeIsReported == (world.volume = "low") ~> ("volume" \in open \/ world.volume # "low")
=============================================================================

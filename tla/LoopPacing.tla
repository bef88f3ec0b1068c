----------------------------- MODULE LoopPacing -----------------------------
(***************************************************************************)
(* The pace of the playout's process: the loop that sleeps between cycles  *)
(* unless a wake was asked for, and the writer that turns ffmpeg's stderr  *)
(* into at most one database write at a time.  The lines are numbered; a   *)
(* write is told from another by the last line it names.                   *)
(***************************************************************************)
EXTENDS Naturals

CONSTANTS BurstLimit,  \* LOOP_WAKE_IMMEDIATE_BURST_LIMIT
          MinInterval, \* minIntervalMs of the writer
          MaxLines     \* bound: lines of stderr

ASSUME PaceAssumption == BurstLimit \in Nat \ {0} /\ {MinInterval, MaxLines} \subseteq Nat

VARIABLES loop,    \* where the loop is, its latch, its burst
          owed,    \* history: a wake asked for that no cycle has answered
          lines,   \* lines of stderr so far
          writer,  \* inFlight, pending (0: none), timerArmed, the time since the last start
          tried    \* the last line whose write has ended, done or refused

paceVars == <<loop, owed, lines, writer, tried>>

PaceInit ==
    /\ loop = [at |-> "cycle", pending |-> FALSE, burst |-> 0] /\ owed = FALSE
    /\ writer = [inFlight |-> 0, pending |-> 0, armed |-> FALSE, since |-> MinInterval]
    /\ lines = 0 /\ tried = 0

PaceTypeOK ==
    /\ loop \in [at : {"cycle", "woken", "asleep"}, pending : BOOLEAN, burst : 0..BurstLimit]
    /\ writer \in [inFlight : 0..MaxLines, pending : 0..MaxLines, armed : BOOLEAN, since : 0..MinInterval]
    /\ owed \in BOOLEAN /\ {lines, tried} \subseteq 0..MaxLines

---------------------------------------------------------------------------
(* LoopWakeLatch and waitForNextLoop *)

BeginPacedCycle ==
    /\ loop.at = "woken" /\ loop' = [loop EXCEPT !.at = "cycle"] /\ owed' = FALSE
    /\ UNCHANGED <<lines, writer, tried>>

\* A sleeping loop is woken at once; a running cycle leaves the request to its end.
RequestWake ==
    /\ IF loop.at = "asleep" THEN loop' = [loop EXCEPT !.at = "woken"]
       ELSE loop' = [loop EXCEPT !.pending = TRUE]
    /\ owed' = TRUE
    /\ UNCHANGED <<lines, writer, tried>>

\* Mutant: what was asked for while nobody slept is dropped.
TakeNothing == [at |-> "asleep", pending |-> FALSE, burst |-> 0]

\* takePending: a request shortens one sleep, and only so many in a row.
TakePending ==
    IF loop.pending /\ loop.burst < BurstLimit
    THEN [at |-> "woken", pending |-> FALSE, burst |-> loop.burst + 1]
    ELSE [at |-> "asleep", pending |-> FALSE, burst |-> 0]

CycleEnds ==
    /\ loop.at = "cycle" /\ loop' = TakePending
    /\ UNCHANGED <<owed, lines, writer, tried>>

DelayEnds ==
    /\ loop.at = "asleep" /\ loop' = [loop EXCEPT !.at = "woken"]
    /\ UNCHANGED <<owed, lines, writer, tried>>

---------------------------------------------------------------------------
(* CoalescingWriter *)

\* drain: a write in flight or an armed timer will come back to what is pending.
Drained(w) ==
    IF w.inFlight # 0 \/ w.armed \/ w.pending = 0 THEN w
    ELSE IF w.since < MinInterval THEN [w EXCEPT !.armed = TRUE]
    ELSE [inFlight |-> w.pending, pending |-> 0, armed |-> FALSE, since |-> 0]

Submit ==
    /\ lines < MaxLines /\ lines' = lines + 1
    /\ writer' = Drained([writer EXCEPT !.pending = lines + 1])
    /\ UNCHANGED <<loop, owed, tried>>

\* The write ends or is refused; a refused value is reported and not written again.
WriteEnds ==
    /\ writer.inFlight # 0 /\ tried' = writer.inFlight
    /\ writer' = Drained([writer EXCEPT !.inFlight = 0])
    /\ UNCHANGED <<loop, owed, lines>>

WriterTime ==
    /\ writer.since < MinInterval /\ writer' = [writer EXCEPT !.since = @ + 1]
    /\ UNCHANGED <<loop, owed, lines, tried>>

WriterTimer ==
    /\ writer.armed /\ writer.since = MinInterval
    /\ writer' = Drained([writer EXCEPT !.armed = FALSE])
    /\ UNCHANGED <<loop, owed, lines, tried>>

PaceNext ==
    \/ BeginPacedCycle \/ RequestWake \/ CycleEnds \/ DelayEnds
    \/ Submit \/ WriteEnds \/ WriterTime \/ WriterTimer

\* Writes end, timers fire.
PaceFairness == WF_paceVars(WriteEnds) /\ WF_paceVars(WriterTime) /\ WF_paceVars(WriterTimer)

---------------------------------------------------------------------------

\* A wake asked for during a cycle is answered without the delay, unless too many were in a row;
\* the last line of a burst gets its write, whatever was in flight or waiting when it came.
NothingAskedIsLost ==
    /\ [][loop.at = "cycle" /\ loop'.at = "asleep" => ~owed \/ loop.burst = BurstLimit]_paceVars
    /\ <>[](tried = lines)
=============================================================================

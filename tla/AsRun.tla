------------------------------- MODULE AsRun --------------------------------
(***************************************************************************)
(* The as-run log: one row for every run of the playout's ffmpeg, written  *)
(* by a queue nobody waits for (as-run.ts, the as-run statements of the    *)
(* database package, the spawn, stop and exit of the playout process).     *)
(* The rows outlive the process: a write may be refused, a container may   *)
(* die with writes in its queue, and an ffmpeg that ignores its stop may   *)
(* end long after the run that replaced it has begun.                      *)
(***************************************************************************)
EXTENDS Integers, Sequences, FiniteSets

CONSTANTS
    MaxRuns,     \* bound on the starts of ffmpeg
    MaxNow,      \* bound on the clock
    MaxRefused,  \* bound on the refused writes
    Retention    \* how long a row is kept after its start

ASSUME AsRunAssumption ==
    MaxRuns \in Nat /\ MaxNow \in Nat /\ MaxRefused \in Nat /\ Retention \in Nat

VARIABLES
    now,        \* the wall clock
    booted,     \* the playout process is up
    child,      \* what became of each ffmpeg: "none", "up", "gone"
    onAir,      \* playoutProcess: the run it belongs to, 0 for none
    leftAlone,  \* abandonedPlayoutProcesses
    stopReason, \* plannedStopReason
    stopIntent, \* asRunStopIntent
    chain,      \* the queued writes, oldest first
    asRows,     \* as_run_log: id -> row
    refused     \* the writes refused so far

asVars == <<now, booted, child, onAir, leftAlone, stopReason, stopIntent, chain, asRows, refused>>

RunIds == 1..MaxRuns
NotYet == -1   \* ended_at = ''
Intents == {"none", "skip", "switch", "operator-restart"}
Planned == {"switch", "restart-requested", "feed-stalled"}
EndReasons == {"natural-end", "failed", "skip", "switch", "operator-restart",
               "feed-watchdog", "process-gone"}
Rows == [at : 0..MaxNow, end : 0..MaxNow \cup {NotYet}, why : EndReasons \cup {"none"}]
Writes == [kind : {"boot", "start", "end"}, id : 0..MaxRuns, at : 0..MaxNow,
           why : EndReasons \cup {"none"}]

AsTypeOK ==
    /\ now \in 0..MaxNow /\ booted \in BOOLEAN /\ refused \in 0..MaxRefused
    /\ child \in [RunIds -> {"none", "up", "gone"}]
    /\ onAir \in 0..MaxRuns /\ leftAlone \subseteq RunIds
    /\ stopReason \in Planned \cup {"none"} /\ stopIntent \in Intents
    /\ chain \in Seq(Writes)
    /\ DOMAIN asRows \subseteq RunIds /\ \A r \in DOMAIN asRows : asRows[r] \in Rows

AsRunInit ==
    /\ now = 0 /\ booted = TRUE /\ refused = 0
    /\ child = [r \in RunIds |-> "none"]
    /\ onAir = 0 /\ leftAlone = {} /\ stopReason = "none" /\ stopIntent = "none"
    /\ chain = <<>> /\ asRows = <<>>

-----------------------------------------------------------------------------
(* What a run's end is called.                                             *)

\* asRunEndReasonOf: nobody asked, a restart and what it was for, a planned stop.
EndReasonOf(how) ==
    CASE stopReason = "none"              -> how
      [] stopReason = "restart-requested" ->
            IF stopIntent = "none" THEN "operator-restart" ELSE stopIntent
      [] stopReason = "switch"            -> IF stopIntent = "skip" THEN "skip" ELSE "switch"
      [] OTHER                            -> "feed-watchdog"

-----------------------------------------------------------------------------
(* The table.  Each statement is one transaction.                          *)

LatestOf(a, b) == IF a > b THEN a ELSE b

\* closeOpenAsRunRows: never before the row's own start.
CloseOpenAsRunRows(rows, at) ==
    [r \in DOMAIN rows |->
        IF rows[r].end # NotYet THEN rows[r]
        ELSE [rows[r] EXCEPT !.end = LatestOf(rows[r].at, at), !.why = "process-gone"]]

\* recordAsRunStart: close, insert, prune.
RecordAsRunStart(rows, w) ==
    LET kept == {r \in DOMAIN rows : rows[r].at >= w.at - Retention}
        closed == CloseOpenAsRunRows(rows, w.at)
    IN  [r \in kept \cup {w.id} |->
            IF r = w.id THEN [at |-> w.at, end |-> NotYet, why |-> "none"] ELSE closed[r]]

\* recordAsRunEnd without the condition that the row is still open.
CompleteAny(rows, w) ==
    IF w.id \in DOMAIN rows
    THEN [rows EXCEPT ![w.id] = [@ EXCEPT !.end = w.at, !.why = w.why]]
    ELSE rows

\* recordAsRunEnd: only an open row is completed.
RecordAsRunEnd(rows, w) ==
    IF w.id \in DOMAIN rows /\ rows[w.id].end = NotYet
    THEN [rows EXCEPT ![w.id] = [@ EXCEPT !.end = w.at, !.why = w.why]]
    ELSE rows

AfterWrite(rows, w) ==
    CASE w.kind = "boot"  -> CloseOpenAsRunRows(rows, w.at)
      [] w.kind = "start" -> RecordAsRunStart(rows, w)
      [] OTHER            -> RecordAsRunEnd(rows, w)

Enqueue(kind, id, why) ==
    chain' = Append(chain, [kind |-> kind, id |-> id, at |-> now, why |-> why])

WriteIsMade ==
    /\ chain # <<>>
    /\ chain' = Tail(chain) /\ asRows' = AfterWrite(asRows, Head(chain))
    /\ UNCHANGED <<now, booted, child, onAir, leftAlone, stopReason, stopIntent, refused>>

\* A failed write is logged and the chain goes on.
WriteIsRefused ==
    /\ chain # <<>> /\ refused < MaxRefused
    /\ chain' = Tail(chain) /\ refused' = refused + 1
    /\ UNCHANGED <<now, booted, child, onAir, leftAlone, stopReason, stopIntent, asRows>>

-----------------------------------------------------------------------------
(* The playout process.                                                    *)

IsUp(r) == r \in RunIds /\ child[r] = "up"

\* The start of a run whose predecessor has gone, or has been left alone.
StartRun ==
    /\ booted /\ ~IsUp(onAir)
    /\ \E r \in RunIds :
          /\ child[r] = "none" /\ \A q \in 1..(r - 1) : child[q] # "none"
          /\ child' = [child EXCEPT ![r] = "up"]
          /\ onAir' = r /\ stopReason' = "none" /\ stopIntent' = "none"
          /\ Enqueue("start", r, "none")
    /\ UNCHANGED <<now, booted, leftAlone, asRows, refused>>

\* stopPlayoutProcess, with the intent decided where the stop is made.
AskToStop ==
    /\ booted /\ IsUp(onAir) /\ stopReason = "none"
    /\ stopReason' \in Planned
    /\ stopIntent' \in CASE stopReason' = "restart-requested" -> Intents \ {"none"}
                         [] stopReason' = "switch"            -> {"none", "skip"}
                         [] OTHER                             -> {"none"}
    /\ UNCHANGED <<now, booted, child, onAir, leftAlone, chain, asRows, refused>>

\* The process outlived SIGKILL: its reason goes with it.
StopIsGivenUp ==
    /\ booted /\ IsUp(onAir) /\ stopReason # "none"
    /\ leftAlone' = leftAlone \cup {onAir}
    /\ onAir' = 0 /\ stopReason' = "none" /\ stopIntent' = "none"
    /\ UNCHANGED <<now, booted, child, chain, asRows, refused>>

\* An exit, seen first by watchAsRunEnd and then by the playout's own handler,
\* which a process that dies during the writes of its start does not have yet; a
\* spawn that failed (watchAsRunEnd's "error") is the same row, "failed", and no exit.
ChildExits ==
    \E r \in RunIds, how \in {"natural-end", "failed"}, handled \in BOOLEAN :
        /\ booted /\ IsUp(r)
        /\ child' = [child EXCEPT ![r] = "gone"]
        /\ Enqueue("end", r, EndReasonOf(how))
        /\ IF r = onAir /\ handled
           THEN onAir' = 0 /\ stopReason' = "none" /\ stopIntent' = "none"
           ELSE UNCHANGED <<onAir, stopReason, stopIntent>>
        /\ UNCHANGED <<now, booted, leftAlone, asRows, refused>>

\* The container dies with its children and its queue.
PlayoutDies ==
    /\ booted /\ booted' = FALSE
    /\ child' = [r \in RunIds |-> IF child[r] = "up" THEN "gone" ELSE child[r]]
    /\ onAir' = 0 /\ leftAlone' = {} /\ stopReason' = "none" /\ stopIntent' = "none"
    /\ chain' = <<>>
    /\ UNCHANGED <<now, asRows, refused>>

PlayoutBoots ==
    /\ ~booted /\ booted' = TRUE
    /\ Enqueue("boot", 0, "none")
    /\ UNCHANGED <<now, child, onAir, leftAlone, stopReason, stopIntent, asRows, refused>>

ClockMoves ==
    /\ now < MaxNow /\ now' = now + 1
    /\ UNCHANGED <<booted, child, onAir, leftAlone, stopReason, stopIntent, chain, asRows, refused>>

AsRunNext ==
    \/ WriteIsMade \/ WriteIsRefused
    \/ StartRun \/ AskToStop \/ StopIsGivenUp \/ ChildExits
    \/ PlayoutDies \/ PlayoutBoots
    \/ ClockMoves

AsRunSpec == AsRunInit /\ [][AsRunNext]_asVars

-----------------------------------------------------------------------------
(* Safety.                                                                 *)

\* The log never shows two runs on air at once, whatever was refused, lost with
\* a container or completed late: of two rows the earlier one has ended when
\* the later one starts (closeOpenAsRunRows, recordAsRunEnd).
RunsDoNotOverlap ==
    \A a, b \in DOMAIN asRows :
        a < b => asRows[a].end # NotYet /\ asRows[a].end <= asRows[b].at
=============================================================================

-------------------------- MODULE PlayoutControl --------------------------
(***************************************************************************)
(* The playout container's reconciliation loop (runPlayoutCycle,           *)
(* apps/worker/src/index.ts) against the other writers of the runtime row. *)
(*                                                                         *)
(* A cycle reads the row once, decides, and goes on for up to minutes: it  *)
(* resolves an input, stops ffmpeg, spawns the next one, writes the row.   *)
(* Meanwhile the admin writes the row (read, guard, then write), the       *)
(* worker applies passed chat votes, ffmpeg exits by itself, and the exit  *)
(* handler's write waits for the database, which may refuse it.            *)
(*                                                                         *)
(* Every write is one read-modify-write under the state lock; the lock     *)
(* serves the writes of this container in the order they were issued, so   *)
(* no write of the cycle overtakes a queued exit write (exitq = <<>>).     *)
(***************************************************************************)
EXTENDS PlayoutRow, Sequences, FiniteSets

CONSTANTS MaxPresses,    \* bound: operator presses and chat votes of a behaviour
          MaxProcs,      \* bound: ffmpeg processes alive at once, abandoned ones included
          MaxOutages,    \* bound: database failures and container restarts of a behaviour
          Actions,       \* the operator actions of the instance
          ViewersVote,   \* whether chat skip votes pass
          MayLoseDestination  \* whether the last output may be unconfigured

ASSUME BoundsAreNaturals == MaxPresses \in Nat /\ MaxProcs \in Nat \ {0} /\ MaxOutages \in Nat
ASSUME ActionsAreKnown == Actions \subseteq OperatorActions
ASSUME SwitchesAreBoolean == ViewersVote \in BOOLEAN /\ MayLoseDestination \in BOOLEAN

VARIABLES
    row,        \* the runtime row in Postgres
    pc,         \* where the playout loop is
    then,       \* where it goes on once a stop is over
    st,         \* the state this cycle has read
    sel,        \* what this cycle selected
    keep,       \* the running input is kept, nothing was resolved
    restarting, \* this cycle carries out a restart request
    used,       \* the requests this cycle may clear
    wasRunning, \* processRunningAtCycleStart
    proc,       \* playoutProcess, the handle
    planned,    \* plannedStopReason
    alive,      \* the ffmpeg processes that exist
    abandoned,  \* those the stop deadline gave up on
    exitq,      \* exit writes waiting for the database
    kept,       \* failedPlayoutExitWrite: at most one refused exit write
    op,         \* an operator press between its read and its write
    clock,      \* the logical clock of the time stamps
    outages,    \* database failures and container restarts so far
    ended,      \* history: the insert requests that ended on air and were not started since
    synced      \* history: no failed cycle since the last complete one

rowVars == <<row>>
cycleVars == <<pc, then, st, sel, keep, restarting, used, wasRunning>>
procVars == <<proc, planned, alive, abandoned, exitq, kept, ended>>
envVars == <<op, clock, outages>>
vars == <<row, cycleVars, procVars, envVars, synced>>

NoProc == [id |-> 0, kind |-> "standby", asset |-> None, req |-> 0, born |-> 0]
NoPress == [type |-> "restart", asset |-> None, at |-> 0, ends |-> FALSE]

Procs == [id : 1..MaxProcs, kind : {"asset", "insert", "live", "standby"},
          asset : MaybeAsset, req : Nat, born : Nat]

Steps == {"idle", "read", "bound", "reread", "select", "manual", "act", "nodest",
          "prepare", "resolve", "dropinsert", "gate", "reset", "decide", "clearflag",
          "kept", "stopping", "launch", "startwrite", "startfailed", "end"}

Running == proc # NoProc
ProgrammeRunning == proc.kind \in {"asset", "insert"} /\ Running

TypeOK ==
    /\ row \in PlayoutRuntime /\ st \in PlayoutRuntime /\ used \in PlayoutRuntime
    /\ pc \in Steps /\ then \in Steps /\ sel \in Selections
    /\ keep \in BOOLEAN /\ restarting \in BOOLEAN /\ wasRunning \in BOOLEAN
    /\ proc \in Procs \cup {NoProc} /\ planned \in StopReasons
    /\ alive \subseteq Procs /\ abandoned \subseteq Procs
    /\ exitq \in Seq(Exits) /\ kept \in {<<>>} \cup {<<x>> : x \in Exits}
    /\ op \in Presses /\ clock \in Nat \ {0} /\ outages \in Nat
    /\ ended \subseteq Nat /\ synced \in BOOLEAN

Init ==
    /\ row = EmptyRow
    /\ pc = "idle" /\ then = "idle" /\ st = EmptyRow /\ sel = StandbyPick
    /\ keep = FALSE /\ restarting = FALSE /\ used = EmptyRow /\ wasRunning = FALSE
    /\ proc = NoProc /\ planned = "" /\ alive = {} /\ abandoned = {}
    /\ exitq = <<>> /\ kept = <<>> /\ ended = {}
    /\ op = NoPress /\ clock = 1 /\ outages = 0 /\ synced = TRUE

---------------------------------------------------------------------------
(* Steps of the loop *)

GoTo(s) == pc' = s

\* A cycle returns: its locals are gone.
EndCycle ==
    /\ pc' = "idle" /\ then' = "idle" /\ st' = EmptyRow /\ sel' = StandbyPick
    /\ keep' = FALSE /\ restarting' = FALSE /\ used' = EmptyRow /\ wasRunning' = FALSE

\* A write of the cycle, in its turn behind the exit writes queued before it.
Write(r) == exitq = <<>> /\ row' = r

\* A cycle writes and reads the row back.
WriteAndRead(r) == Write(r) /\ st' = r

\* stopPlayoutProcess(why): a process is signalled and awaited, none is nothing to do.
StopThen(why, s) ==
    /\ IF Running
       THEN planned' = why /\ pc' = "stopping" /\ then' = s
       ELSE planned' = "" /\ pc' = s /\ then' = then
    /\ UNCHANGED <<proc, alive, abandoned, exitq, kept, ended>>

KeptApplied == IF kept = <<>> THEN row ELSE ExitRow(kept[1], row)

\* await pendingPlayoutExitUpdate, reapplyFailedPlayoutExitWrite, readAppState
ReadFresh ==
    /\ WriteAndRead(KeptApplied)
    /\ kept' = <<>>
    /\ UNCHANGED <<proc, planned, alive, abandoned, exitq, ended>>

StartCycle ==
    /\ pc = "idle"
    /\ GoTo("read")
    /\ wasRunning' = Running
    /\ UNCHANGED <<row, then, st, sel, keep, restarting, used, procVars, envVars, synced>>

ReadState ==
    /\ pc = "read"
    /\ ReadFresh
    /\ GoTo("bound")
    /\ UNCHANGED <<then, sel, keep, restarting, used, wasRunning, envVars, synced>>

\* enforceAssetDurationBound and the feed watchdogs: the item may have played past its end.
EnforceDurationBound ==
    /\ pc = "bound"
    /\ \/ ProgrammeRunning /\ StopThen("duration-bound", "reread")
       \/ GoTo("reread") /\ UNCHANGED <<then, procVars>>
    /\ UNCHANGED <<row, st, sel, keep, restarting, used, wasRunning, envVars, synced>>

\* The process ended since the top of the cycle: its exit write is awaited, the row read again.
EndedMeanwhile == wasRunning /\ ~Running

RereadAfterExit ==
    /\ pc = "reread" /\ EndedMeanwhile
    /\ ReadFresh
    /\ GoTo("select")
    /\ UNCHANGED <<then, sel, keep, restarting, used, wasRunning, envVars, synced>>

\* The selection; an insert it does not name is ended, and the selection made again.
Select ==
    /\ pc = "select" \/ (pc = "reread" /\ ~EndedMeanwhile)
    /\ \E s \in Candidates(st, Running) :
          IF InsertGivesWay(st, s)
          THEN /\ WriteAndRead(DropInsertOf(st, row))
               /\ sel' \in Candidates(row', Running)
          ELSE sel' = s /\ UNCHANGED <<row, st>>
    /\ GoTo("manual")
    /\ UNCHANGED <<then, keep, restarting, used, wasRunning, procVars, envVars, synced>>

\* A queued next item that is held out is dropped, and the selection made again.
DropHeldManualNext ==
    /\ pc = "manual"
    /\ IF st.next # None /\ sel.reason # "manual_next" /\ st.next \in HeldOut(st)
       THEN /\ WriteAndRead([row EXCEPT !.next = None])
            /\ sel' \in Candidates(row', Running)
       ELSE UNCHANGED <<row, st, sel>>
    /\ GoTo("act")
    /\ UNCHANGED <<then, keep, restarting, used, wasRunning, procVars, envVars, synced>>

LoseDestination ==
    /\ pc = "act" /\ MayLoseDestination
    /\ StopThen("destination-missing", "nodest")
    /\ UNCHANGED <<row, st, sel, keep, restarting, used, wasRunning, envVars, synced>>

ReportNoDestination ==
    /\ pc = "nodest"
    /\ Write([DropInsertOf(st, row) EXCEPT !.status = "degraded", !.cur = None])
    /\ EndCycle
    /\ UNCHANGED <<procVars, envVars, synced>>

\* The Refresh and queue rebuild read at the top are carried out and cleared.  The state
\* is read again, the selection is not made again.
CarryOutPendingAction ==
    /\ pc = "act"
    /\ used' = st
    /\ IF st.act # {} THEN WriteAndRead(ClearPendingAction(st, row)) ELSE UNCHANGED <<row, st>>
    /\ GoTo("prepare")
    /\ UNCHANGED <<then, sel, keep, restarting, wasRunning, procVars, envVars, synced>>

KeepsRunningInput ==
    sel.asset # None /\ Running /\ Plays(proc, sel) /\ st.restart = 0

\* The running input is kept; or the item is resolved, which can take a minute; or, with
\* nothing on air, a local item bridges the time an expensive resolve would take.
Prepare ==
    /\ pc = "prepare"
    /\ \/ /\ KeepsRunningInput \/ sel.asset = None
          /\ keep' = KeepsRunningInput /\ sel' = sel /\ GoTo("gate")
       \/ /\ ~KeepsRunningInput /\ sel.asset # None
          /\ GoTo("resolve") /\ UNCHANGED <<sel, keep>>
       \/ /\ ~Running /\ sel.asset # None /\ keep' = FALSE
          /\ \E b \in Assets \ {sel.asset} : sel' = Pick("asset", b, "recovery")
          /\ GoTo("gate")
    /\ UNCHANGED <<row, then, st, restarting, used, wasRunning, procVars, envVars, synced>>

RecoveryPicks ==
    {StandbyPick} \cup {Pick("asset", b, "recovery") : b \in Assets \ {sel.asset}}

Resolve ==
    /\ pc = "resolve"
    /\ \/ GoTo("gate") /\ sel' = sel
       \/ IF PrepareFailure(st, sel, Running) = "recover"
          THEN GoTo("gate") /\ sel' \in RecoveryPicks
          ELSE GoTo("dropinsert") /\ sel' = sel
    /\ UNCHANGED <<row, then, st, keep, restarting, used, wasRunning, procVars, envVars, synced>>

\* The insert that could not be prepared is dropped; the item on air stays.
DropUnpreparedInsert ==
    /\ pc = "dropinsert"
    /\ Write(IF row.ins = sel.asset THEN DropInsertOf(st, row) ELSE row)
    /\ EndCycle
    /\ UNCHANGED <<procVars, envVars, synced>>

\* Mutant: the protection does not yield to a restart request.
CrashLoopAlwaysHolds == st.crash

CrashLoopHolds == st.crash /\ st.restart = 0

\* Crash-loop protection: held, or (a playable item, the backoff over) reset.
CrashLoopGate ==
    /\ pc = "gate"
    /\ \/ /\ ~CrashLoopHolds
          /\ GoTo("decide")
          /\ UNCHANGED <<row, then, st, sel, keep, restarting, used, wasRunning, procVars>>
       \/ /\ CrashLoopHolds
          /\ Write([row EXCEPT !.status = "degraded"])
          /\ EndCycle
          /\ UNCHANGED procVars
       \/ /\ CrashLoopHolds /\ sel.kind # "standby"
          /\ StopThen("crash-loop-reset", "reset")
          /\ UNCHANGED <<row, st, sel, keep, restarting, used, wasRunning>>
    /\ UNCHANGED <<envVars, synced>>

ResetCrashLoop ==
    /\ pc = "reset"
    /\ WriteAndRead([row EXCEPT !.crash = FALSE, !.restart = clock, !.status = "up"])
    /\ GoTo("decide")
    /\ UNCHANGED <<then, sel, keep, restarting, used, wasRunning, procVars, envVars, synced>>

\* consumedRequests and consumedInsert: the pending action read at the top, the rest now.
Consumed == [st EXCEPT !.act = used.act, !.actReq = used.actReq]

DecideRestart ==
    /\ pc = "decide"
    /\ used' = Consumed
    /\ restarting' = (st.restart # 0 /\ sel.kind # "live")
    /\ IF st.restart # 0 /\ sel.kind # "live"
       THEN StopThen("restart-requested", "clearflag")
       ELSE GoTo("kept") /\ UNCHANGED <<then, procVars>>
    /\ UNCHANGED <<row, st, sel, keep, wasRunning, envVars, synced>>

ClearRestartFlag ==
    /\ pc = "clearflag"
    /\ Write([row EXCEPT !.crash = FALSE, !.restart = RestartFlagAfter(used.restart, @, 0)])
    /\ GoTo("kept")
    /\ UNCHANGED <<then, st, sel, keep, restarting, used, wasRunning, procVars, envVars, synced>>

\* A kept process that has exited since is the next cycle's; otherwise what runs is kept,
\* or stopped for the selection.
ReplaceProcess ==
    /\ pc = "kept"
    /\ \/ keep /\ ~Running /\ EndCycle /\ UNCHANGED procVars
       \/ /\ ~keep \/ Running
          /\ IF Running /\ Plays(proc, sel) /\ ~restarting
             THEN GoTo("end") /\ UNCHANGED <<then, procVars>>
             ELSE StopThen("switch", "launch")
          /\ UNCHANGED <<st, sel, keep, restarting, used, wasRunning>>
    /\ UNCHANGED <<row, envVars, synced>>

---------------------------------------------------------------------------
(* ffmpeg *)

\* The awaited process is gone.
StopDone ==
    /\ pc = "stopping" /\ ~Running
    /\ GoTo(then) /\ then' = "idle"
    /\ UNCHANGED <<row, st, sel, keep, restarting, used, wasRunning, procVars, envVars, synced>>

\* Neither SIGTERM nor SIGKILL ended it within PLAYOUT_STOP_DEADLINE_MS.
StopDeadline ==
    /\ pc = "stopping" /\ Running /\ Cardinality(alive) < MaxProcs
    /\ abandoned' = abandoned \cup {proc}
    /\ proc' = NoProc /\ planned' = ""
    /\ GoTo(then) /\ then' = "idle"
    /\ UNCHANGED <<row, st, sel, keep, restarting, used, wasRunning,
                   alive, exitq, kept, ended, envVars, synced>>

FreeIds == (1..MaxProcs) \ {p.id : p \in alive}

NewProc(id) == [id |-> id, kind |-> sel.kind, asset |-> sel.asset, req |-> sel.req, born |-> clock]

\* Mutant: the refused exit write outlives the next start.
KeepRefusedWrite == kept' = kept

\* A spawn supersedes an exit write the database has refused.
Supersede == kept' = <<>>

Spawn ==
    /\ pc = "launch"
    /\ \E id \in FreeIds : (\A j \in FreeIds : id <= j) /\ proc' = NewProc(id)
    /\ alive' = alive \cup {proc'}
    /\ ended' = ended \ {sel.req}
    /\ Supersede
    /\ GoTo("startwrite")
    /\ UNCHANGED <<row, then, st, sel, keep, restarting, used, wasRunning,
                   planned, abandoned, exitq, envVars, synced>>

FailToStart ==
    /\ pc = "launch"
    /\ GoTo("startfailed")
    /\ UNCHANGED <<row, then, st, sel, keep, restarting, used, wasRunning, procVars, envVars, synced>>

\* The write of a child that has ended already leaves the row to its exit write.
WriteStart ==
    /\ pc = "startwrite"
    /\ Write(IF Running THEN StartedRow(sel, used, proc.born, row) ELSE row)
    /\ GoTo("end")
    /\ UNCHANGED <<then, st, sel, keep, restarting, used, wasRunning, procVars, envVars, synced>>

WriteStartFailed ==
    /\ pc = "startfailed"
    /\ Write(StartFailedRow(sel, used, row))
    /\ EndCycle
    /\ synced' = FALSE
    /\ UNCHANGED <<procVars, envVars>>

WriteCycleEnd ==
    /\ pc = "end"
    /\ Write(CycleEndRow(sel, used, Running, proc.born, row))
    /\ EndCycle
    /\ synced' = TRUE
    /\ UNCHANGED <<procVars, envVars>>

\* Mutant: every exit is taken for the process on air.
NeverStale(p) == FALSE

\* isStaleProcessExit
IsStale(p) == proc # p /\ (proc # NoProc \/ p \in abandoned)

\* The row shows p on air as the insert it plays, and no write of its own start is due.
ShownAsInsert(p) ==
    /\ p.req # 0 /\ row.insReq = p.req /\ row.insSt = "active" /\ row.cur = row.ins
    /\ pc \notin {"startwrite", "startfailed", "end"}

\* What the operator asked to hear has run its course: it ended, or was ended at its bound.
PlayedOut(why) == why \in {"", "duration-bound"}

\* The exit handler: the handle is cleared at once, the row is written later.
HandleExit(p, failed, loop) ==
    /\ proc' = NoProc /\ planned' = ""
    /\ exitq' = Append(exitq, [why |-> planned, failed |-> failed /\ planned = "",
                               loop |-> loop /\ failed /\ planned = "", live |-> p.kind = "live"])
    /\ ended' = IF ShownAsInsert(p) /\ PlayedOut(planned) THEN ended \cup {p.req} ELSE ended

\* An ffmpeg process exits: by itself, for a signal, or long after it was abandoned.
Exit(p) ==
    /\ alive' = alive \ {p} /\ abandoned' = abandoned \ {p}
    /\ IF IsStale(p)
       THEN UNCHANGED <<proc, planned, exitq, ended>>
       ELSE \E failed, loop \in BOOLEAN : (loop => failed) /\ HandleExit(p, failed, loop)
    /\ UNCHANGED <<row, cycleVars, kept, envVars, synced>>

ProcessExits == \E p \in alive : Exit(p)

ExitWriteCommits ==
    /\ exitq # <<>>
    /\ row' = ExitRow(Head(exitq), row)
    /\ exitq' = Tail(exitq)
    /\ UNCHANGED <<cycleVars, proc, planned, alive, abandoned, kept, ended, envVars, synced>>

---------------------------------------------------------------------------
(* The database refuses a call, the container restarts *)

ExitWriteRefused ==
    /\ exitq # <<>> /\ outages < MaxOutages
    /\ outages' = outages + 1
    /\ kept' = IF Running THEN kept ELSE <<Head(exitq)>>
    /\ exitq' = Tail(exitq)
    /\ UNCHANGED <<row, cycleVars, proc, planned, alive, abandoned, ended, op, clock, synced>>

DatabaseSteps == Steps \ {"idle", "bound", "prepare", "resolve", "decide", "kept",
                          "stopping", "launch"}

\* The cycle throws and the loop goes on with the next one; a start whose write fails is
\* handled as a failed start.
CycleFails ==
    /\ pc \in DatabaseSteps /\ outages < MaxOutages
    /\ outages' = outages + 1
    /\ synced' = FALSE
    /\ IF pc = "startwrite"
       THEN GoTo("startfailed") /\ UNCHANGED <<then, st, sel, keep, restarting, used, wasRunning>>
       ELSE EndCycle
    /\ UNCHANGED <<row, procVars, op, clock>>

\* A stalled cycle, a long outage or a redeploy ends the container: ffmpeg goes with it and
\* its exit writes are lost; the row stays, and nothing puts it right at the boot.
ContainerRestarts ==
    /\ outages < MaxOutages
    /\ outages' = outages + 1
    /\ EndCycle
    /\ proc' = NoProc /\ planned' = "" /\ alive' = {} /\ abandoned' = {}
    /\ exitq' = <<>> /\ kept' = <<>>
    /\ synced' = FALSE
    /\ UNCHANGED <<row, ended, op, clock>>

---------------------------------------------------------------------------
(* The other writers *)

\* runBroadcastAction reads the state, takes its time stamp and judges the action...
PressRead ==
    /\ op = NoPress /\ clock <= MaxPresses
    /\ clock' = clock + 1
    /\ \E type \in Actions, a \in MaybeAsset :
          PressAllowed(type, a, row) /\ op' = NewPress(type, a, clock + 1, row)
    /\ UNCHANGED <<row, cycleVars, procVars, outages, synced>>

\* ... and writes the row as it is by then.
PressWrite ==
    /\ op # NoPress
    /\ row' = OperatorRow(op, row)
    /\ op' = NoPress
    /\ UNCHANGED <<cycleVars, procVars, clock, outages, synced>>

\* A vote on item a passed earlier and is judged on the row as it is now.
ApplySkipVote ==
    /\ ViewersVote /\ clock <= MaxPresses
    /\ clock' = clock + 1
    /\ \E a \in Assets : VoteApplies(a, row) /\ row' = VoteRow(a, clock + 1, row)
    /\ UNCHANGED <<cycleVars, procVars, op, outages, synced>>

\* overrideUntil, skipUntil or removeNextUntil passes.
HoldRunsOut ==
    /\ \/ row.ovr # None /\ row' = [row EXCEPT !.ovr = None]
       \/ row.skip # None /\ row' = [row EXCEPT !.skip = None]
       \/ row.rem # None /\ row' = [row EXCEPT !.rem = None]
    /\ UNCHANGED <<cycleVars, procVars, envVars, synced>>

---------------------------------------------------------------------------

CycleStep ==
    \/ StartCycle \/ ReadState \/ EnforceDurationBound \/ RereadAfterExit \/ Select
    \/ DropHeldManualNext \/ LoseDestination \/ ReportNoDestination
    \/ CarryOutPendingAction \/ Prepare \/ Resolve \/ DropUnpreparedInsert
    \/ CrashLoopGate \/ ResetCrashLoop \/ DecideRestart \/ ClearRestartFlag
    \/ ReplaceProcess \/ StopDone \/ StopDeadline \/ Spawn \/ FailToStart
    \/ WriteStart \/ WriteStartFailed \/ WriteCycleEnd

Next ==
    \/ CycleStep \/ CycleFails \/ ContainerRestarts
    \/ ProcessExits \/ ExitWriteCommits \/ ExitWriteRefused
    \/ PressRead \/ PressWrite \/ ApplySkipVote \/ HoldRunsOut

Spec == Init /\ [][Next]_vars

\* The loop runs on, the admin's request returns, the database commits what it accepts,
\* and a process that is signalled ends (SIGTERM, then SIGKILL).
Fairness ==
    /\ WF_vars(CycleStep)
    /\ WF_vars(PressWrite)
    /\ WF_vars(ExitWriteCommits)
    /\ WF_vars(pc = "stopping" /\ ProcessExits)

FairSpec == Spec /\ Fairness

---------------------------------------------------------------------------
(* Safety *)

\* At most one ffmpeg the playout has not given up on: two encoders on one output fight
\* for it.  Broken by the late exit of an abandoned process that clears the handle of its
\* successor, or by a start that does not wait for the stop.
OneEncoder == \A p \in alive : p = proc \/ p \in abandoned

\* Between cycles and where a cycle has read the row, with every write in, the row names the
\* item that is on air, whatever ended, was refused or was kept for later in between.
Settled == pc \in {"idle", "read", "bound"} /\ exitq = <<>> /\ synced

RowDescribesAir == Settled /\ Running => row.cur = proc.asset

\* While the Live Bridge is on air no insert is active: it would start again after the release.
BridgeEndsInsert == Settled /\ Running /\ proc.kind = "live" => row.insSt # "active"

---------------------------------------------------------------------------
(* What a step may never do *)

Spawning == pc = "launch" /\ proc' # proc

\* A Play now that is still pending is only dropped by a cycle that has read it: one
\* pressed while the cycle runs stands.
NewerInsertStands ==
    [][row.insSt = "pending" /\ row'.insReq # row.insReq /\ op' = op
          => st.insReq = row.insReq]_vars

\* The selection never names an insert that has ended on air: the exit's write, though the
\* database may have refused it, is in the row the selection is made from.
FinishedInsertNotSelected ==
    [][sel' # sel /\ sel'.kind = "insert" => sel'.req \notin ended]_vars

\* An insert plays once: neither its own end nor the bridge that cut it leaves it to a later cycle.
InsertsEndOnce == []BridgeEndsInsert /\ FinishedInsertNotSelected

\* Once the operator has released the bridge, no write of the cycle that started it makes
\* it active again.
ReleaseSticks == [][row.live = "releasing" => row'.live # "active"]_vars

\* A restart request is cleared only when no process from before the request is on air: a
\* Restart, Skip or vote of a running cycle is not erased.  A bridge on air waives it.
RestartIsHonoured ==
    [][row.restart # 0 /\ row'.restart = 0 /\ op' = op /\ sel.kind # "live"
          => ~Running \/ proc.born >= row.restart]_vars

\* A Refresh or queue rebuild is cleared only by the cycle that has read and carried it out.
RequestedNotLost ==
    [][row.act # {} /\ row'.act = {} => row.actReq \in {used.actReq, used'.actReq}]_vars

---------------------------------------------------------------------------
(* Liveness, under FairSpec *)

\* Every restart request is served: no crash-loop hold, kept input or race strands it.
RestartIsServed ==
    \A t \in 1..(MaxPresses + 1) : (row.restart = t) ~> (row.restart # t)

\* Every Refresh and queue rebuild is carried out.
RequestIsCarriedOut == (row.act # {}) ~> (row.act = {})

\* What the operator asked for is done in the end (reconcilePlayout and its request fields).
RequestsAreServed == RestartIsServed /\ RequestIsCarriedOut

---------------------------------------------------------------------------
(* What the repository says of the playout, and the code does not do *)

\* "a process that exits after this is caught by the re-read before the selection": a
\* finished insert is not started again by the cycle that ran when it ended.
FinishedInsertStaysFinished == [][Spawning /\ proc'.req # 0 => proc'.req \notin ended]_vars

\* "Skip current holds the item on air out for the override minutes": a cycle that has
\* read the hold does not bridge to the skipped item.
SkippedStaysOut ==
    [][Spawning /\ proc'.asset # None /\ sel.reason = "recovery" => proc'.asset # used.skip]_vars

\* "Skip current [...] moves on to the pool's next item": a cycle that carries out a Refresh
\* and then the Skip does not start the skipped item.
SkipMovesOn ==
    [][Spawning /\ restarting /\ used.act # {} /\ proc'.asset # None /\ sel.reason # "recovery"
          => proc'.asset # used.skip]_vars
===========================================================================

---------------------------- MODULE Upkeep_proofs ----------------------------
(***************************************************************************)
(* What the parts kept up beside the programme keep for any bounds: the    *)
(* types of the chat on air, the monitors, the archives' downloads and the *)
(* loop's pace, and what the loop's latch and its writer promise.          *)
(***************************************************************************)
EXTENDS MCUpkeep, FiniteSetTheorems, SequenceTheorems, WellFoundedInduction, TLAPS

---------------------------------------------------------------------------
(* The pace of the loop                                                    *)

LEMMA PaceConstants == BurstLimit \in Nat /\ BurstLimit > 0 /\ MinInterval \in Nat /\ MaxLines \in Nat
BY PaceAssumption DEF PaceAssumption

\* A wake asked for in a cycle is on the latch until the cycle's end.  The last line of stderr is
\* the one that waits, else the one that is written, else the one tried last; and a line that waits
\* has a write or a timer that comes back to it.
WakeIsLatched == owed /\ loop.at = "cycle" => loop.pending
LastLineIsKept ==
    /\ lines = IF writer.pending # 0 THEN writer.pending ELSE IF writer.inFlight # 0 THEN writer.inFlight ELSE tried
    /\ writer.pending # 0 => writer.inFlight # 0 \/ writer.armed

PaceInv == PaceTypeOK /\ WakeIsLatched /\ LastLineIsKept

LEMMA PaceStarts == PaceInit => PaceInv
<1> SUFFICES ASSUME PaceInit PROVE PaceInv
    OBVIOUS
<1>1. PaceTypeOK
    <2>1. loop \in [at : {"cycle", "woken", "asleep"}, pending : BOOLEAN, burst : 0..BurstLimit]
        BY PaceConstants DEF PaceInit
    <2>2. writer \in [inFlight : 0..MaxLines, pending : 0..MaxLines, armed : BOOLEAN, since : 0..MinInterval]
        BY PaceConstants DEF PaceInit
    <2>3. owed \in BOOLEAN
        BY Zenon DEF PaceInit
    <2>4. {lines, tried} \subseteq 0..MaxLines
        BY PaceConstants DEF PaceInit
    <2> QED BY Zenon, <2>1, <2>2, <2>3, <2>4 DEF PaceTypeOK
<1>2. WakeIsLatched /\ LastLineIsKept
    BY DEF PaceInit, WakeIsLatched, LastLineIsKept
<1> QED BY <1>1, <1>2 DEF PaceInv

Writers == [inFlight : 0..MaxLines, pending : 0..MaxLines, armed : BOOLEAN, since : 0..MinInterval]

\* What drain leaves of a writer.
LEMMA DrainKeeps ==
    ASSUME NEW w \in Writers
    PROVE  /\ Drained(w) \in Writers
           /\ Drained(w).pending # 0 => Drained(w).inFlight # 0 \/ Drained(w).armed
           /\ \/ Drained(w).inFlight = w.inFlight /\ Drained(w).pending = w.pending
              \/ w.inFlight = 0 /\ w.pending # 0 /\ Drained(w).inFlight = w.pending /\ Drained(w).pending = 0
<1>1. CASE w.inFlight # 0 \/ w.armed \/ w.pending = 0
    BY <1>1 DEF Drained, Writers
<1>2. CASE ~(w.inFlight # 0 \/ w.armed \/ w.pending = 0) /\ w.since < MinInterval
    <2>1. Drained(w) = [w EXCEPT !.armed = TRUE]
        BY <1>2 DEF Drained
    <2> QED BY <2>1 DEF Writers
<1>3. CASE ~(w.inFlight # 0 \/ w.armed \/ w.pending = 0) /\ ~(w.since < MinInterval)
    <2>1. Drained(w) = [inFlight |-> w.pending, pending |-> 0, armed |-> FALSE, since |-> 0]
        BY <1>3 DEF Drained
    <2> QED BY <1>3, <2>1, PaceConstants DEF Writers
<1> QED BY <1>1, <1>2, <1>3

LEMMA LoopStepsKeep ==
    ASSUME PaceInv, BeginPacedCycle \/ RequestWake \/ CycleEnds \/ DelayEnds
    PROVE  PaceInv'
<1>1. UNCHANGED <<lines, writer, tried>>
    BY DEF BeginPacedCycle, RequestWake, CycleEnds, DelayEnds
<1>2. LastLineIsKept'
    BY <1>1 DEF PaceInv, LastLineIsKept
<1>0. owed' \in BOOLEAN
    BY Zenon DEF PaceInv, PaceTypeOK, BeginPacedCycle, RequestWake, CycleEnds, DelayEnds
<1>3. loop' \in [at : {"cycle", "woken", "asleep"}, pending : BOOLEAN, burst : 0..BurstLimit]
    <2>1. loop \in [at : {"cycle", "woken", "asleep"}, pending : BOOLEAN, burst : 0..BurstLimit]
        BY DEF PaceInv, PaceTypeOK
    <2>2. TakePending \in [at : {"cycle", "woken", "asleep"}, pending : BOOLEAN, burst : 0..BurstLimit]
        BY <2>1, PaceConstants DEF TakePending
    <2>3. CASE BeginPacedCycle \/ DelayEnds
        BY <2>1, <2>3 DEF BeginPacedCycle, DelayEnds
    <2>4. CASE RequestWake
        BY <2>1, <2>4 DEF RequestWake
    <2>5. CASE CycleEnds
        BY <2>1, <2>2, <2>5 DEF CycleEnds
    <2> QED BY <2>3, <2>4, <2>5
<1>4. WakeIsLatched'
    <2>1. {"at", "pending", "burst"} \subseteq DOMAIN loop
        BY DEF PaceInv, PaceTypeOK
    <2>2. CASE BeginPacedCycle
        <3>1. owed' = FALSE
            BY <2>2 DEF BeginPacedCycle
        <3> QED BY Zenon, <3>1 DEF WakeIsLatched
    <2>3. CASE RequestWake
        <3>1. loop'.at = "woken" \/ loop'.pending = TRUE
            BY <2>1, <2>3 DEF RequestWake
        <3> QED BY Zenon, <3>1 DEF WakeIsLatched
    <2>4. CASE CycleEnds \/ DelayEnds
        <3>1. loop'.at # "cycle"
            BY <2>1, <2>4 DEF CycleEnds, DelayEnds, TakePending
        <3> QED BY <3>1 DEF WakeIsLatched
    <2> QED BY <2>2, <2>3, <2>4
<1> QED BY <1>0, <1>1, <1>2, <1>3, <1>4 DEF PaceInv, PaceTypeOK

LEMMA WriterStepsKeep ==
    ASSUME PaceInv, Submit \/ WriteEnds \/ WriterTime \/ WriterTimer
    PROVE  PaceInv'
<1>1. writer \in Writers /\ lines \in 0..MaxLines /\ tried \in 0..MaxLines
    BY DEF PaceInv, PaceTypeOK, Writers
<1>2. UNCHANGED <<loop, owed>>
    BY DEF Submit, WriteEnds, WriterTime, WriterTimer
<1>3. ASSUME writer' \in Writers, lines' \in 0..MaxLines, tried' \in 0..MaxLines, LastLineIsKept' PROVE PaceInv'
    BY <1>2, <1>3 DEF PaceInv, PaceTypeOK, WakeIsLatched, Writers
<1>4. CASE Submit
    <2> DEFINE w == [writer EXCEPT !.pending = lines + 1]
    <2>1. lines < MaxLines /\ lines' = lines + 1 /\ writer' = Drained(w) /\ tried' = tried
        BY <1>4 DEF Submit
    <2>2. w \in Writers /\ w.pending = lines + 1 /\ w.inFlight = writer.inFlight
        BY <1>1, <2>1, PaceConstants DEF Writers
    <2> HIDE DEF w
    <2>3. LastLineIsKept'
        BY <1>1, <2>1, <2>2, DrainKeeps DEF LastLineIsKept
    <2> QED BY <1>1, <1>3, <2>1, <2>2, <2>3, DrainKeeps, PaceConstants
<1>5. CASE WriteEnds
    <2> DEFINE w == [writer EXCEPT !.inFlight = 0]
    <2>1. writer.inFlight # 0 /\ lines' = lines /\ tried' = writer.inFlight /\ writer' = Drained(w)
        BY <1>5 DEF WriteEnds
    <2>2. w \in Writers /\ w.pending = writer.pending /\ w.inFlight = 0
        BY <1>1, PaceConstants DEF Writers
    <2> HIDE DEF w
    <2>3. LastLineIsKept'
        BY <1>1, <2>1, <2>2, DrainKeeps DEF LastLineIsKept, PaceInv
    <2>4. writer.inFlight \in 0..MaxLines
        BY <1>1 DEF Writers
    <2> QED BY <1>1, <1>3, <2>1, <2>2, <2>3, <2>4, DrainKeeps
<1>6. CASE WriterTime
    <2>1. writer.since < MinInterval /\ writer' = [writer EXCEPT !.since = @ + 1] /\ UNCHANGED <<lines, tried>>
        BY <1>6 DEF WriterTime
    <2>2. writer' \in Writers /\ writer'.pending = writer.pending /\ writer'.inFlight = writer.inFlight
          /\ writer'.armed = writer.armed
        BY <1>1, <2>1, PaceConstants DEF Writers
    <2>3. LastLineIsKept'
        BY <2>1, <2>2 DEF LastLineIsKept, PaceInv
    <2> QED BY <1>1, <1>3, <2>1, <2>2, <2>3
<1>7. CASE WriterTimer
    <2> DEFINE w == [writer EXCEPT !.armed = FALSE]
    <2>1. UNCHANGED <<lines, tried>> /\ writer' = Drained(w)
        BY <1>7 DEF WriterTimer
    <2>2. w \in Writers /\ w.pending = writer.pending /\ w.inFlight = writer.inFlight
        BY <1>1 DEF Writers
    <2> HIDE DEF w
    <2>3. LastLineIsKept'
        BY <1>1, <2>1, <2>2, DrainKeeps DEF LastLineIsKept, PaceInv
    <2> QED BY <1>1, <1>3, <2>1, <2>2, <2>3, DrainKeeps
<1> QED BY <1>4, <1>5, <1>6, <1>7

LEMMA PaceSteps == PaceInv /\ [PaceNext]_paceVars => PaceInv'
<1> SUFFICES ASSUME PaceInv, [PaceNext]_paceVars PROVE PaceInv'
    OBVIOUS
<1>1. CASE UNCHANGED paceVars
    BY <1>1 DEF paceVars, PaceInv, PaceTypeOK, WakeIsLatched, LastLineIsKept
<1> QED BY <1>1, LoopStepsKeep, WriterStepsKeep DEF PaceNext

LEMMA PaceInvHolds == PaceInit /\ [][PaceNext]_paceVars => []PaceInv
BY PaceStarts, PaceSteps, PTL

\* A wake asked for while a cycle runs is answered without the delay at its end, unless that was so
\* BurstLimit times in a row (LoopWakeLatch.takePending, waitForNextLoop).
AnsweredAtCycleEnd ==
    [][loop.at = "cycle" /\ loop'.at = "asleep" => ~owed \/ loop.burst = BurstLimit]_paceVars

THEOREM WakesAreAnswered == PaceInit /\ [][PaceNext]_paceVars => AnsweredAtCycleEnd
<1> DEFINE Answered == loop.at = "cycle" /\ loop'.at = "asleep" => ~owed \/ loop.burst = BurstLimit
<1>1. PaceInv /\ [PaceNext]_paceVars => [Answered]_paceVars
    <2> SUFFICES ASSUME PaceInv, [PaceNext]_paceVars, loop.at = "cycle", loop'.at = "asleep", owed
                 PROVE  loop.burst = BurstLimit
        OBVIOUS
    <2>1. loop' = TakePending
        BY DEF PaceNext, BeginPacedCycle, RequestWake, CycleEnds, DelayEnds, Submit, WriteEnds, WriterTime,
               WriterTimer, paceVars, PaceInv, PaceTypeOK
    <2>2. loop.pending /\ loop.burst \in 0..BurstLimit
        BY DEF PaceInv, PaceTypeOK, WakeIsLatched
    <2>3. ~(loop.burst < BurstLimit)
        BY <2>1, <2>2 DEF TakePending
    <2> QED BY <2>2, <2>3, PaceConstants
<1> QED BY <1>1, PaceInvHolds, PTL DEF AnsweredAtCycleEnd

\* When nothing is written and nothing waits, the last line of the burst has been tried
\* (CoalescingWriter.submit, drain): no value is dropped, whatever was in flight when it came.
THEOREM QuietWriterHasTried ==
    PaceInit /\ [][PaceNext]_paceVars =>
        [](writer.inFlight = 0 /\ ~writer.armed => writer.pending = 0 /\ tried = lines)
<1>1. PaceInv => (writer.inFlight = 0 /\ ~writer.armed => writer.pending = 0 /\ tried = lines)
    BY DEF PaceInv, LastLineIsKept
<1> QED BY <1>1, PaceInvHolds, PTL


---------------------------------------------------------------------------
(* The monitors                                                            *)

StepNames == {"rearm", "media", "volume", "relay"}
MonitorRows == [rearmed : BOOLEAN, media : BOOLEAN, volume : BOOLEAN, relay : {"unread", "open", "shut"},
                silent : Nat, episode : 0..Stages, settled : SUBSET StepNames, unreachable : Nat]
MonitorCycles == [at : {"idle", "run", "write", "close", "failed", "heartbeat", "crashed"},
                  step : StepNames, todo : Seq(Writes)]
Worlds == [media : Levels, volume : Levels, relay : {"up", "down", "unused"}, db : BOOLEAN]

\* A step that is at its writes has one left.
MonitorTypes ==
    /\ world \in Worlds /\ open \subseteq Incidents /\ unclosed \subseteq Watched /\ changes \in Nat
    /\ known \in MonitorRows /\ cycle \in MonitorCycles /\ (cycle.at = "write" => cycle.todo # <<>>)

LEMMA OrderIsOfSteps ==
    /\ Len(Order) = 4 /\ Order[1] = "rearm" /\ Order[2] = "media" /\ Order[3] = "volume" /\ Order[4] = "relay"
    /\ ToSet(Order) = StepNames /\ Last(Order) = "relay"
<1>1. Len(Order) = 4 /\ Order[1] = "rearm" /\ Order[2] = "media" /\ Order[3] = "volume" /\ Order[4] = "relay"
      /\ DOMAIN Order = 1..4
    BY DEF Order
<1>2. 1..4 = {1, 2, 3, 4}
    OBVIOUS
<1>3. ToSet(Order) = {Order[i] : i \in {1, 2, 3, 4}}
    BY <1>1, <1>2 DEF ToSet
<1>4. ToSet(Order) = StepNames
    BY <1>1, <1>3 DEF StepNames
<1>5. Last(Order) = "relay"
    BY <1>1 DEF Last
<1> QED BY <1>1, <1>4, <1>5

LEMMA StepsHaveIncidents == \A s \in StepNames : OfStep(s) \in Incidents
BY Zenon, OrderIsOfSteps DEF OfStep, Incidents

LEMMA WatchedAreIncidents == Watched \subseteq Incidents
BY Zenon DEF Incidents

LEMMA MonitorConstants ==
    Stages \in Nat /\ Stages > 0 /\ RelayAfter \in Nat /\ ExitAfter \in Nat
BY MonitorsAssumption DEF MonitorsAssumption

LEMMA FreshRows == Fresh \in MonitorRows /\ Between \in MonitorCycles /\ Between.at = "idle"
<1>1. <<>> \in Seq(Writes)
    OBVIOUS
<1> QED BY <1>1, MonitorConstants DEF Fresh, Between, MonitorRows, MonitorCycles, StepNames

LEMMA NextStepFits ==
    ASSUME NEW s \in StepNames
    PROVE  After(s) \in MonitorCycles /\ After(s).at # "write"
<1>1. CASE s = "relay"
    <2>1. After(s) = [Between EXCEPT !.at = "heartbeat"]
        BY <1>1, OrderIsOfSteps DEF After
    <2> QED BY <2>1, FreshRows DEF MonitorCycles
<1>2. CASE s # "relay"
    <2> DEFINE k == CHOOSE i \in 1..Len(Order) : Order[i] = s
    <2>1. \E i \in 1..4 : Order[i] = s
        BY OrderIsOfSteps DEF StepNames
    <2>2. k \in 1..4 /\ Order[k] = s
        BY <2>1, OrderIsOfSteps
    <2> HIDE DEF k
    <2>3. k \in {1, 2, 3}
        BY <1>2, <2>2, OrderIsOfSteps
    <2>4. Order[1 + k] \in StepNames
        BY <2>3, OrderIsOfSteps DEF StepNames
    <2>5. After(s) = [at |-> "run", step |-> Order[1 + k], todo |-> <<>>]
        BY <1>2, OrderIsOfSteps DEF After, k
    <2>6. <<>> \in Seq(Writes)
        OBVIOUS
    <2> QED BY <2>4, <2>5, <2>6 DEF MonitorCycles
<1> QED BY <1>1, <1>2

LEMMA FinishFits ==
    ASSUME MonitorTypes
    PROVE  /\ \A todo \in Seq(Writes) :
                  Finishes(todo) => cycle' \in MonitorCycles /\ (cycle'.at = "write" => cycle'.todo # <<>>)
           /\ Fails => cycle' \in MonitorCycles /\ cycle'.at # "write"
           /\ Crash => cycle' \in MonitorCycles /\ cycle'.at # "write"
<1>1. cycle \in MonitorCycles
    BY DEF MonitorTypes
<1>2. ASSUME NEW todo \in Seq(Writes), Finishes(todo)
      PROVE  cycle' \in MonitorCycles /\ (cycle'.at = "write" => cycle'.todo # <<>>)
    <2>1. CASE todo = <<>>
        BY <1>1, <1>2, <2>1 DEF Finishes, MonitorCycles
    <2>2. CASE todo # <<>>
        BY <1>1, <1>2, <2>2 DEF Finishes, MonitorCycles
    <2> QED BY <2>1, <2>2
<1>3. <<>> \in Seq(Writes)
    OBVIOUS
<1>4. Fails => cycle' \in MonitorCycles /\ cycle'.at # "write"
    BY <1>1, <1>3 DEF Fails, MonitorCycles
<1>5. Crash => cycle' \in MonitorCycles /\ cycle'.at # "write"
    BY FreshRows DEF Crash, MonitorCycles
<1> QED BY <1>2, <1>4, <1>5

LEMMA WritesFit ==
    /\ <<>> \in Seq(Writes)
    /\ \A w \in Watched : <<Raise(w)>> \in Seq(Writes) /\ <<Resolve(w)>> \in Seq(Writes)
    /\ BothResolved \in Seq(Writes)
<1>1. <<>> \in Seq(Writes)
    OBVIOUS
<1>2. \A w \in Watched : Raise(w) \in Writes /\ Resolve(w) \in Writes
    BY DEF Raise, Resolve, Writes
<1>3. \A x \in Writes : <<x>> \in Seq(Writes)
    OBVIOUS
<1>4. \A x, y \in Writes : <<x, y>> \in Seq(Writes)
    OBVIOUS
<1>5. BothResolved \in Seq(Writes)
    BY <1>1, <1>2, <1>4 DEF BothResolved, Watched
<1> QED BY <1>1, <1>2, <1>3, <1>5

LEMMA MonitorsStart == MonitorsInit => MonitorTypes
<1> SUFFICES ASSUME MonitorsInit PROVE MonitorTypes
    OBVIOUS
<1>1. world \in Worlds
    BY DEF MonitorsInit, Worlds, Levels
<1> QED BY <1>1, FreshRows DEF MonitorsInit, MonitorTypes

LEMMA StepRunsFit ==
    ASSUME MonitorTypes, RunRearm \/ RunMedia \/ RunVolume \/ RunRelay
    PROVE  MonitorTypes'
<1>1. UNCHANGED <<open, unclosed, changes>> /\ known \in MonitorRows /\ world \in Worlds
    BY DEF MonitorTypes, RunRearm, RunMedia, RunVolume, RunRelay
<1>2. ASSUME known' \in MonitorRows, world' \in Worlds,
             cycle' \in MonitorCycles, cycle'.at = "write" => cycle'.todo # <<>>
      PROVE  MonitorTypes'
    BY <1>1, <1>2 DEF MonitorTypes
<1>3. CASE RunRearm
    <2>1. world' = world /\ known' \in {known, Rearmed} /\ (Finishes(<<>>) \/ Fails)
        BY <1>3 DEF RunRearm
    <2>2. Rearmed \in MonitorRows
        <3> DEFINE media == known.media \/ open \cap {"evicted", "exhausted"} # {}
                   volume == known.volume \/ "volume" \in open
        <3>1. media \in BOOLEAN /\ volume \in BOOLEAN
            BY Zenon
        <3>2. Rearmed = [known EXCEPT !.rearmed = TRUE, !.media = media, !.volume = volume]
            BY DEF Rearmed
        <3> HIDE DEF media, volume
        <3> QED BY <1>1, <3>1, <3>2 DEF MonitorRows
    <2> QED BY <1>1, <1>2, <2>1, <2>2, FinishFits, WritesFit
<1>4. CASE RunMedia
    <2>1. CASE VolumeIsFine
        <3>1. known' = [known EXCEPT !.media = FALSE, !.episode = 0] /\ Finishes(BothResolved) /\ world' = world
            BY <2>1 DEF VolumeIsFine
        <3>2. known' \in MonitorRows
            <4>1. 0 \in 0..Stages
                BY MonitorConstants
            <4> QED BY ONLY <1>1, <3>1, <4>1 DEF MonitorRows
        <3> QED BY <1>1, <1>2, <3>1, <3>2, FinishFits, WritesFit
    <2>2. CASE Exhausted
        <3>1. known' = [known EXCEPT !.media = TRUE, !.episode = 0] /\ Finishes(<<Raise("exhausted")>>) /\ world' = world
            BY <2>2 DEF Exhausted
        <3>2. known' \in MonitorRows
            <4>1. 0 \in 0..Stages
                BY MonitorConstants
            <4> QED BY ONLY <1>1, <3>1, <4>1 DEF MonitorRows
        <3>3. <<Raise("exhausted")>> \in Seq(Writes)
            BY WritesFit DEF Watched
        <3> QED BY <1>1, <1>2, <3>1, <3>2, <3>3, FinishFits
    <2>3. CASE RunStage
        <3>1. known.episode \in 0..Stages /\ (known.episode = 0 \/ known.episode < Stages \/ ~RunStage)
            BY <1>1 DEF MonitorRows, RunStage
        <3>2. known.episode + 1 \in 0..Stages
            BY <2>3, <3>1, MonitorConstants
        <3>3. known' = known \/ known' = [known EXCEPT !.episode = known.episode + 1]
              \/ known' = [known EXCEPT !.episode = known.episode + 1, !.media = TRUE]
            BY <2>3 DEF RunStage
        <3>4. known' \in MonitorRows
            BY <1>1, <3>2, <3>3 DEF MonitorRows
        <3>5. world' = world \/ \E level \in Levels : world' = [world EXCEPT !.media = level]
            BY <2>3 DEF RunStage
        <3>6. world' \in Worlds
            BY <1>1, <3>5 DEF Worlds
        <3>7. Finishes(<<>>) \/ Finishes(<<Raise("evicted")>>)
            BY <2>3 DEF RunStage
        <3>8. <<Raise("evicted")>> \in Seq(Writes)
            BY WritesFit DEF Watched
        <3> QED BY <1>2, <3>4, <3>6, <3>7, <3>8, FinishFits, WritesFit
    <2> QED BY <1>4, <2>1, <2>2, <2>3 DEF RunMedia
<1>5. CASE RunVolume
    <2> DEFINE volume == (known.volume \/ VolumeRaises) /\ ~VolumeResolves
    <2>1. volume \in BOOLEAN
        BY Zenon
    <2>2. known' = [known EXCEPT !.volume = volume] /\ world' = world
          /\ (Finishes(<<Raise("volume")>>) \/ Finishes(<<Resolve("volume")>>) \/ Finishes(<<>>))
        BY <1>5 DEF RunVolume
    <2> HIDE DEF volume
    <2>3. known' \in MonitorRows
        BY <1>1, <2>1, <2>2 DEF MonitorRows
    <2>4. <<Raise("volume")>> \in Seq(Writes) /\ <<Resolve("volume")>> \in Seq(Writes)
        BY WritesFit DEF Watched
    <2> QED BY <1>1, <1>2, <2>2, <2>3, <2>4, FinishFits, WritesFit
<1>6. CASE RunRelay
    <2>1. CASE ~world.db
        BY <1>1, <1>2, <1>6, <2>1, FinishFits DEF RunRelay
    <2>2. CASE world.db
        <3> DEFINE silent == IF SilentFor > RelayAfter THEN RelayAfter + 1 ELSE SilentFor
        <3>1. RelayWas \in {"open", "shut"} /\ silent \in Nat
            BY <1>1, MonitorConstants DEF MonitorRows, RelayWas, SilentFor
        <3>2. /\ \E relay \in {"open", "shut"} : known' = [known EXCEPT !.relay = relay, !.silent = silent]
              /\ world' = world
              /\ Finishes(<<Raise("relay")>>) \/ Finishes(<<Resolve("relay")>>) \/ Finishes(<<>>)
            BY <1>6, <2>2, <3>1 DEF RunRelay
        <3> HIDE DEF silent
        <3>3. known' \in MonitorRows
            BY <1>1, <3>1, <3>2 DEF MonitorRows
        <3>4. <<Raise("relay")>> \in Seq(Writes) /\ <<Resolve("relay")>> \in Seq(Writes)
            BY WritesFit DEF Watched
        <3> QED BY <1>1, <1>2, <3>2, <3>3, <3>4, FinishFits, WritesFit
    <2> QED BY <2>1, <2>2
<1> QED BY <1>3, <1>4, <1>5, <1>6

LEMMA IncidentWritesFit ==
    ASSUME MonitorTypes, WriteIncident
    PROVE  MonitorTypes'
<1>1. cycle \in MonitorCycles /\ cycle.todo \in Seq(Writes) /\ cycle.todo # <<>>
    BY DEF MonitorTypes, MonitorCycles, WriteIncident
<1>2. UNCHANGED <<world, known, changes>>
    BY DEF WriteIncident
<1>3. CASE world.db
    <2> DEFINE w == Head(cycle.todo)
    <2>1. w \in Writes /\ Tail(cycle.todo) \in Seq(Writes)
        BY <1>1
    <2>2. /\ open' = (IF w.act = "open" THEN open \cup {w.what} ELSE open \ {w.what})
          /\ Finishes(Tail(cycle.todo)) /\ unclosed' = unclosed
        BY <1>3 DEF WriteIncident
    <2>3. w.what \in Incidents
        BY <2>1, WatchedAreIncidents DEF Writes
    <2> HIDE DEF w
    <2>4. open' \subseteq Incidents
        BY <2>2, <2>3 DEF MonitorTypes
    <2> QED BY <1>2, <2>1, <2>2, <2>4, FinishFits DEF MonitorTypes
<1>4. CASE ~world.db
    <2>1. unclosed' = unclosed \cup Closings(cycle.todo) /\ open' = open /\ (Fails \/ Finishes(<<>>))
        BY <1>4 DEF WriteIncident
    <2>2. Closings(cycle.todo) \subseteq Watched
        <3>1. \A i \in 1..Len(cycle.todo) : cycle.todo[i] \in Writes
            BY <1>1
        <3> QED BY <3>1 DEF Closings, Writes
    <2> QED BY <1>2, <2>1, <2>2, FinishFits, WritesFit DEF MonitorTypes
<1> QED BY <1>3, <1>4

LEMMA StepEndsFit ==
    ASSUME MonitorTypes, BeginMonitorCycle \/ CloseStep \/ StepFailed \/ Heartbeat \/ CycleCrashed
    PROVE  MonitorTypes'
<1>1. /\ known \in MonitorRows /\ cycle.step \in StepNames /\ OfStep(cycle.step) \in Incidents
      /\ Between \in MonitorCycles /\ Between.at # "write" /\ Fresh \in MonitorRows
    BY FreshRows, StepsHaveIncidents DEF MonitorTypes, MonitorCycles
<1>2. UNCHANGED <<world, changes>> /\ unclosed' \subseteq Watched
    BY DEF MonitorTypes, BeginMonitorCycle, CloseStep, StepFailed, Heartbeat, CycleCrashed, NewProcess
<1>3. open' \in {open, open \ {OfStep(cycle.step)}, open \cup {OfStep(cycle.step)}}
    BY DEF BeginMonitorCycle, CloseStep, StepFailed, Heartbeat, CycleCrashed
<1>4. open' \subseteq Incidents
    BY <1>1, <1>3 DEF MonitorTypes
<1>5. known' \in MonitorRows
    <2>1. \/ known' \in {known, Fresh}
          \/ known' = [known EXCEPT !.settled = @ \cup {cycle.step}] \/ known' = [known EXCEPT !.settled = @ \ {cycle.step}]
          \/ known' = [known EXCEPT !.unreachable = 0] \/ known' = [known EXCEPT !.unreachable = @ + 1]
        BY DEF BeginMonitorCycle, CloseStep, StepFailed, Heartbeat, CycleCrashed, NewProcess
    <2> QED BY <1>1, <2>1 DEF MonitorRows
<1>6. cycle' \in MonitorCycles /\ cycle'.at # "write"
    <2>1. cycle' \in {Between, After(cycle.step)} \/ cycle' = [Between EXCEPT !.at = "run"] \/ Crash
        BY DEF BeginMonitorCycle, CloseStep, StepFailed, Heartbeat, CycleCrashed, NewProcess
    <2>2. cycle' = [Between EXCEPT !.at = "run"] => cycle' \in MonitorCycles /\ cycle'.at # "write"
        BY <1>1 DEF MonitorCycles
    <2> QED BY <1>1, <2>1, <2>2, NextStepFits, FinishFits
<1> QED BY <1>2, <1>4, <1>5, <1>6 DEF MonitorTypes

LEMMA WorldStepsFit ==
    ASSUME MonitorTypes,
           \/ \E level \in Levels : VolumeMoves(level) \/ MediaMoves(level)
           \/ \E to \in {"up", "down", "unused"} : RelayMoves(to)
           \/ DatabaseStops \/ DatabaseReturns \/ MonitorRestarts
    PROVE  MonitorTypes'
<1>1. changes' \in {changes, changes + 1}
    BY DEF VolumeMoves, MediaMoves, RelayMoves, DatabaseStops, DatabaseReturns, MonitorRestarts, Changes
<1>2. changes' \in Nat
    BY <1>1 DEF MonitorTypes
<1>3. CASE MonitorRestarts
    <2>1. UNCHANGED <<world, open>> /\ known' = Fresh /\ cycle' = Between /\ unclosed' = {}
        BY <1>3 DEF MonitorRestarts, NewProcess
    <2> QED BY <1>2, <2>1, FreshRows DEF MonitorTypes
<1>4. CASE ~MonitorRestarts
    <2>1. /\ UNCHANGED <<open, known, cycle, unclosed>>
          /\ \/ \E level \in Levels : world' = [world EXCEPT !.volume = level] \/ world' = [world EXCEPT !.media = level]
             \/ \E to \in {"up", "down", "unused"} : world' = [world EXCEPT !.relay = to]
             \/ world' = [world EXCEPT !.db = FALSE] \/ world' = [world EXCEPT !.db = TRUE]
        BY <1>4 DEF VolumeMoves, MediaMoves, RelayMoves, DatabaseStops, DatabaseReturns
    <2>2. world' \in Worlds
        BY <2>1 DEF MonitorTypes, Worlds
    <2> QED BY <1>2, <2>1, <2>2 DEF MonitorTypes
<1> QED BY <1>3, <1>4

LEMMA MonitorSteps == MonitorTypes /\ [MonitorsNext]_monitorVars => MonitorTypes'
<1> SUFFICES ASSUME MonitorTypes, [MonitorsNext]_monitorVars PROVE MonitorTypes'
    OBVIOUS
<1>1. CASE UNCHANGED monitorVars
    BY <1>1 DEF monitorVars, MonitorTypes
<1> QED BY <1>1, StepRunsFit, IncidentWritesFit, StepEndsFit, WorldStepsFit DEF MonitorsNext, MonitorStep

\* The monitors' variables keep their types: an incident is opened or closed by its name only, a step
\* that writes has a write left, and the eviction ladder has no stage beyond its last.
THEOREM MonitorsTypeCorrect == MonitorsInit /\ [][MonitorsNext]_monitorVars => []MonitorsTypeOK
<1>1. MonitorTypes => MonitorsTypeOK
    BY OrderIsOfSteps DEF MonitorTypes, MonitorsTypeOK, Worlds, MonitorRows, MonitorCycles
<1> QED BY <1>1, MonitorsStart, MonitorSteps, PTL


---------------------------------------------------------------------------
(* The archives' downloads                                                 *)

LEMMA VodConstants ==
    /\ Pieces \in Nat /\ Pieces > 0 /\ Cooldown \in Nat /\ Cooldown > 0 /\ StaleAfter \in Nat /\ StaleAfter > 0
    /\ MaxMishaps \in Nat /\ Vods # {} /\ IsFiniteSet(Vods) /\ NoVod \notin Vods
    /\ Live \in Nat /\ Live > 1 /\ Live - 1 = StaleAfter
BY VodCacheAssumption DEF VodCacheAssumption, Live

DiskRows == [part : 0..Pieces, ready : BOOLEAN, lock : 0..Live]
ColumnRows == [status : Statuses, cooling : 0..Cooldown]
RunnerRows == [state : {"none", "queued", "running", "ready", "failed"}, cooling : 0..Cooldown]
Working == {"lock", "probe", "prune", "download", "verify"}
RunningJobs == [vod : Vods \cup {NoVod}, at : Working \cup {"idle", "persist"}, result : Statuses, further : BOOLEAN]
Lookups == [vod : Vods, at : {"asleep", "write"}, status : Statuses]

\* The queue holds an archive once, and the archives whose job is queued; the job at work is of an
\* archive whose record says that it runs.
InQueue(q, v) == \E i \in 1..Len(q) : q[i] = v
HoldsOnce(q) == q \in Seq(Vods) /\ \A i, j \in 1..Len(q) : q[i] = q[j] => i = j
VodShapes ==
    /\ large \subseteq Vods /\ watched \in Vods \cup {NoVod} /\ mishaps \in 0..MaxMishaps
    /\ disk \in [Vods -> DiskRows] /\ columns \in [Vods -> ColumnRows] /\ jobs \in [Vods -> RunnerRows]
    /\ job \in RunningJobs /\ prepared \in Lookups
QueueFits == HoldsOnce(waiting) /\ \A v \in Vods : jobs[v].state = "queued" <=> InQueue(waiting, v)
JobFits ==
    /\ job.at = "idle" <=> job.vod = NoVod
    /\ job.at \in Working => jobs[job.vod].state = "running"

VodInv == VodShapes /\ QueueFits /\ JobFits

\* The archives have an order, which names each of them.
LEMMA ArchivesHaveAnOrder ==
    /\ Len(InOrder) \in Nat /\ Len(InOrder) > 0
    /\ \A i \in 1..Len(InOrder) : InOrder[i] \in Vods
    /\ \A v \in Vods : \E i \in 1..Len(InOrder) : InOrder[i] = v
<1> DEFINE n == Cardinality(Vods)
<1>1. n \in Nat /\ ExistsBijection(1..n, Vods)
    BY VodConstants, FS_CardinalityType
<1>2. n > 0
    BY <1>1, VodConstants, FS_EmptySet
<1>3. IsFiniteSet(1..n) /\ Cardinality(1..n) = n
    BY <1>1, FS_Interval
<1>4. PICK f : f \in Bijection(1..n, Vods)
    BY <1>1 DEF ExistsBijection
<1>5. f \in [1..n -> Vods] /\ IsInjective(f)
    BY <1>4 DEF Bijection, Injection
<1>6. InOrder \in [1..n -> Vods] /\ IsInjective(InOrder)
    BY <1>5 DEF InOrder, SetToSeq
<1>7. InOrder \in Injection(1..n, Vods)
    BY <1>6 DEF Injection
<1>8. InOrder \in Surjection(1..n, Vods)
    BY <1>3, <1>7, VodConstants, FS_Injection
<1>9. \A v \in Vods : \E i \in 1..n : InOrder[i] = v
    BY <1>8 DEF Surjection
<1>10. Len(InOrder) = n
    BY <1>1, <1>6
<1> QED BY <1>1, <1>2, <1>6, <1>9, <1>10

LEMMA AnotherFollows == \A v \in Vods : Following(v) \in Vods /\ Asleep(Following(v)) \in Lookups
<1> SUFFICES ASSUME NEW v \in Vods PROVE Following(v) \in Vods /\ Asleep(Following(v)) \in Lookups
    OBVIOUS
<1> DEFINE k == CHOOSE i \in 1..Len(InOrder) : InOrder[i] = v
           n == Len(InOrder)
<1>1. k \in 1..n
    BY ArchivesHaveAnOrder
<1>2. n \in Nat /\ n > 0
    BY ArchivesHaveAnOrder
<1>3. Following(v) = InOrder[1 + (k % n)]
    BY DEF Following
<1> HIDE DEF k
<1>4. \A i \in 1..n : InOrder[i] \in Vods
    BY ArchivesHaveAnOrder
<1> HIDE DEF n
<1>5. 1 + (k % n) \in 1..n
    BY <1>1, <1>2
<1>6. Following(v) \in Vods
    BY <1>3, <1>4, <1>5
<1> QED BY <1>6 DEF Asleep, Lookups, Statuses

LEMMA QueueGrows ==
    ASSUME NEW q, HoldsOnce(q), NEW v \in Vods, ~InQueue(q, v)
    PROVE  HoldsOnce(Append(q, v)) /\ \A u \in Vods : InQueue(Append(q, v), u) <=> InQueue(q, u) \/ u = v
<1> DEFINE r == Append(q, v)
<1>1. q \in Seq(Vods) /\ Len(q) \in Nat /\ \A i, j \in 1..Len(q) : q[i] = q[j] => i = j
    BY DEF HoldsOnce
<1>2. /\ r \in Seq(Vods) /\ Len(r) = Len(q) + 1 /\ r[Len(q) + 1] = v
      /\ \A i \in 1..Len(q) : r[i] = q[i]
    BY <1>1
<1>3. \A i \in 1..Len(q) : q[i] # v
    BY DEF InQueue
<1> HIDE DEF r
<1>4. \A i, j \in 1..Len(r) : r[i] = r[j] => i = j
    BY <1>1, <1>2, <1>3
<1>5. \A u \in Vods : InQueue(r, u) <=> InQueue(q, u) \/ u = v
    BY <1>1, <1>2 DEF InQueue
<1>6. HoldsOnce(r)
    BY <1>2, <1>4 DEF HoldsOnce
<1> QED BY <1>5, <1>6 DEF r

LEMMA QueueShrinks ==
    ASSUME NEW q, HoldsOnce(q), q # <<>>
    PROVE  /\ Head(q) \in Vods /\ InQueue(q, Head(q)) /\ HoldsOnce(Tail(q))
           /\ \A u \in Vods : InQueue(Tail(q), u) <=> InQueue(q, u) /\ u # Head(q)
<1> DEFINE r == Tail(q)
           h == Head(q)
<1>1. q \in Seq(Vods) /\ Len(q) \in Nat /\ Len(q) > 0 /\ \A i, j \in 1..Len(q) : q[i] = q[j] => i = j
    BY DEF HoldsOnce
<1>2. /\ r \in Seq(Vods) /\ Len(r) = Len(q) - 1 /\ h = q[1] /\ h \in Vods
      /\ \A i \in 1..Len(r) : r[i] = q[i + 1]
    BY <1>1
<1> HIDE DEF r, h
<1>3. \A i, j \in 1..Len(r) : r[i] = r[j] => i = j
    BY <1>1, <1>2
<1>4. InQueue(q, h)
    BY <1>1, <1>2 DEF InQueue
<1>5. \A u \in Vods : InQueue(r, u) => InQueue(q, u) /\ u # h
    BY <1>1, <1>2 DEF InQueue
<1>6. \A u \in Vods : InQueue(q, u) /\ u # h => InQueue(r, u)
    <2> SUFFICES ASSUME NEW u \in Vods, InQueue(q, u), u # h PROVE InQueue(r, u)
        OBVIOUS
    <2>1. PICK i \in 1..Len(q) : q[i] = u
        BY DEF InQueue
    <2>2. i - 1 \in 1..Len(r) /\ (i - 1) + 1 = i
        BY <1>1, <1>2, <2>1
    <2> QED BY <1>2, <2>1, <2>2 DEF InQueue
<1>7. HoldsOnce(r)
    BY <1>2, <1>3 DEF HoldsOnce
<1> QED BY <1>2, <1>4, <1>5, <1>6, <1>7 DEF r, h

LEMMA VodStarts == VodInit => VodInv
<1> SUFFICES ASSUME VodInit PROVE VodInv
    OBVIOUS
<1>1. InOrder[1] \in Vods
    BY ArchivesHaveAnOrder
<1>2. NoStatus \in Statuses
    BY DEF Statuses
<1>3. /\ large \subseteq Vods /\ watched \in Vods \cup {NoVod} /\ mishaps \in 0..MaxMishaps
      /\ disk \in [Vods -> DiskRows] /\ columns \in [Vods -> ColumnRows] /\ jobs \in [Vods -> RunnerRows]
    BY <1>1, <1>2, VodConstants DEF VodInit, DiskRows, ColumnRows, RunnerRows, NoRecord
<1>4. job \in RunningJobs /\ prepared \in Lookups
    BY <1>1, <1>2 DEF VodInit, NoJob, RunningJobs, Asleep, Lookups
<1>5. QueueFits
    BY DEF VodInit, QueueFits, HoldsOnce, InQueue, NoRecord
<1>6. JobFits
    BY DEF VodInit, JobFits, NoJob, Working
<1> QED BY <1>3, <1>4, <1>5, <1>6 DEF VodInv, VodShapes


LEMMA JobIsOfArchive ==
    ASSUME VodInv, job.at \in Working
    PROVE  job.vod \in Vods /\ jobs[job.vod].state = "running" /\ disk[job.vod] \in DiskRows
<1>1. job.vod \in Vods
    BY DEF VodInv, VodShapes, JobFits, RunningJobs, Working
<1> QED BY <1>1 DEF VodInv, VodShapes, JobFits

\* One archive's row of the disk.
LEMMA DiskRowsFit ==
    \A d \in [Vods -> DiskRows] : \A v \in Vods :
        /\ d[v] \in DiskRows
        /\ \A row \in DiskRows : [d EXCEPT ![v] = row] \in [Vods -> DiskRows]
        /\ [d[v] EXCEPT !.lock = 0] \in DiskRows /\ [d[v] EXCEPT !.lock = Live] \in DiskRows
        /\ \A n \in 0..Pieces : [d[v] EXCEPT !.part = n] \in DiskRows
        /\ [part |-> 0, ready |-> TRUE, lock |-> 0] \in DiskRows
<1> SUFFICES ASSUME NEW d \in [Vods -> DiskRows], NEW v \in Vods
             PROVE  /\ d[v] \in DiskRows
                    /\ \A row \in DiskRows : [d EXCEPT ![v] = row] \in [Vods -> DiskRows]
                    /\ [d[v] EXCEPT !.lock = 0] \in DiskRows /\ [d[v] EXCEPT !.lock = Live] \in DiskRows
                    /\ \A n \in 0..Pieces : [d[v] EXCEPT !.part = n] \in DiskRows
                    /\ [part |-> 0, ready |-> TRUE, lock |-> 0] \in DiskRows
    OBVIOUS
<1>1. d[v] \in DiskRows
    OBVIOUS
<1>2. \A row \in DiskRows : [d EXCEPT ![v] = row] \in [Vods -> DiskRows]
    OBVIOUS
<1>3. 0 \in 0..Pieces /\ 0 \in 0..Live /\ Live \in 0..Live
    BY VodConstants
<1>4. [d[v] EXCEPT !.lock = 0] \in DiskRows /\ [d[v] EXCEPT !.lock = Live] \in DiskRows
    BY ONLY <1>1, <1>3 DEF DiskRows
<1>5. \A n \in 0..Pieces : [d[v] EXCEPT !.part = n] \in DiskRows
    BY ONLY <1>1 DEF DiskRows
<1>6. [part |-> 0, ready |-> TRUE, lock |-> 0] \in DiskRows
    BY ONLY <1>3 DEF DiskRows
<1> QED BY <1>1, <1>2, <1>4, <1>5, <1>6

LEMMA UnlockedFits ==
    ASSUME VodInv, job.at \in Working
    PROVE  \A d \in [Vods -> DiskRows] : Unlocked(d) \in [Vods -> DiskRows]
<1> SUFFICES ASSUME NEW d \in [Vods -> DiskRows] PROVE Unlocked(d) \in [Vods -> DiskRows]
    OBVIOUS
<1>1. Unlocked(d) = [d EXCEPT ![job.vod] = [d[job.vod] EXCEPT !.lock = 0]]
    BY DEF Unlocked
<1> QED BY <1>1, JobIsOfArchive, DiskRowsFit

LEMMA JobEndFits ==
    ASSUME VodInv, job.at \in Working, waiting' = waiting
    PROVE  \A result \in Statuses :
               Ends(result) => jobs' \in [Vods -> RunnerRows] /\ job' \in RunningJobs /\ QueueFits' /\ JobFits'
<1> SUFFICES ASSUME NEW result \in Statuses, Ends(result)
             PROVE  jobs' \in [Vods -> RunnerRows] /\ job' \in RunningJobs /\ QueueFits' /\ JobFits'
    OBVIOUS
<1>0. job.vod \in Vods /\ jobs[job.vod].state = "running" /\ job \in RunningJobs
      /\ jobs \in [Vods -> RunnerRows] /\ job.vod # NoVod
    BY JobIsOfArchive, VodConstants DEF VodInv, VodShapes
<1>1. PICK row \in RunnerRows : row.state # "queued" /\ jobs' = [jobs EXCEPT ![job.vod] = row]
    <2>1. [state |-> "ready", cooling |-> 0] \in RunnerRows /\ [state |-> "failed", cooling |-> Cooldown] \in RunnerRows
        BY VodConstants DEF RunnerRows
    <2> QED BY <2>1 DEF Ends
<1>2. jobs' \in [Vods -> RunnerRows]
    BY <1>0, <1>1
<1>3. \A v \in Vods : jobs'[v].state = "queued" <=> jobs[v].state = "queued"
    BY <1>0, <1>1
<1>4. QueueFits'
    BY <1>3 DEF VodInv, QueueFits
<1>5. job' = [job EXCEPT !.at = "persist", !.result = result]
    BY DEF Ends
<1>6. job'.at = "persist" /\ job'.vod = job.vod /\ job' \in RunningJobs
    <2>1. /\ job'.vod = job.vod /\ job'.at = "persist" /\ job'.result = result /\ job'.further = job.further
          /\ job' = [vod |-> job.vod, at |-> "persist", result |-> result, further |-> job.further]
        BY <1>0, <1>5 DEF RunningJobs
    <2> QED BY <1>0, <2>1 DEF RunningJobs
<1>7. JobFits'
    BY <1>0, <1>6 DEF JobFits, Working
<1> QED BY <1>2, <1>4, <1>6, <1>7

LEMMA JobGoesOn ==
    ASSUME VodInv, job.at \in Working, waiting' = waiting, jobs' = jobs,
           \/ \E to \in Working : JobGoes(to)
           \/ job' = [job EXCEPT !.further = TRUE]
    PROVE  job' \in RunningJobs /\ QueueFits' /\ JobFits'
<1>0. job.vod \in Vods /\ jobs[job.vod].state = "running" /\ job \in RunningJobs /\ job.vod # NoVod
    BY JobIsOfArchive, VodConstants DEF VodInv, VodShapes
<1>1. job' \in RunningJobs /\ job'.vod = job.vod /\ job'.at \in Working
    BY <1>0 DEF JobGoes, RunningJobs, Working
<1>2. QueueFits'
    BY DEF VodInv, QueueFits
<1>3. JobFits'
    BY <1>0, <1>1 DEF JobFits, Working
<1> QED BY <1>1, <1>2, <1>3

LEMMA LookUpFits == ASSUME VodInv, LookUp PROVE VodInv'
<1> DEFINE v == prepared.vod
           status == IF columns[v].status = "too-large" THEN "too-large"
                     ELSE IF disk[v].ready THEN "ready" ELSE "missing"
           asks == status = "missing" /\ MayQueue(v)
<1>0. v \in Vods /\ status \in Statuses
    BY DEF VodInv, VodShapes, Lookups, Statuses
<1>1. UNCHANGED <<large, disk, columns, job, watched, mishaps>>
    BY DEF LookUp
<1>2. \/ prepared' = Asleep(Following(v)) /\ UNCHANGED <<jobs, waiting>>
      \/ /\ prepared' = [vod |-> v, at |-> "write", status |-> status]
         /\ jobs' = IF asks THEN [jobs EXCEPT ![v] = [state |-> "queued", cooling |-> 0]] ELSE jobs
         /\ waiting' = IF asks THEN Append(waiting, v) ELSE waiting
    BY DEF LookUp
<1>3. asks => jobs[v].state # "queued" /\ jobs[v].state # "running"
    BY DEF MayQueue, Pending
<1> HIDE DEF status, asks
<1>4. prepared' \in Lookups
    BY <1>0, <1>2, AnotherFollows DEF Lookups
<1>5. CASE UNCHANGED <<jobs, waiting>>
    BY <1>1, <1>4, <1>5 DEF VodInv, VodShapes, QueueFits, JobFits
<1>6. CASE asks /\ jobs' = [jobs EXCEPT ![v] = [state |-> "queued", cooling |-> 0]] /\ waiting' = Append(waiting, v)
    <2>1. [state |-> "queued", cooling |-> 0] \in RunnerRows
        BY VodConstants DEF RunnerRows
    <2>2. jobs \in [Vods -> RunnerRows]
        BY DEF VodInv, VodShapes
    <2>3. /\ jobs' \in [Vods -> RunnerRows] /\ jobs'[v].state = "queued"
          /\ \A u \in Vods : u # v => jobs'[u] = jobs[u]
        BY <1>0, <1>6, <2>1, <2>2
    <2>4. ~InQueue(waiting, v) /\ HoldsOnce(waiting)
        BY <1>0, <1>3, <1>6 DEF VodInv, QueueFits
    <2>5. HoldsOnce(waiting') /\ \A u \in Vods : InQueue(waiting', u) <=> InQueue(waiting, u) \/ u = v
        BY <1>0, <1>6, <2>4, QueueGrows
    <2>6. QueueFits'
        BY <2>3, <2>5 DEF VodInv, QueueFits
    <2>7. JobFits'
        <3>1. job.at \in Working => job.vod # v /\ job.vod \in Vods
            BY <1>3, <1>6, JobIsOfArchive
        <3> QED BY <1>1, <2>3, <3>1 DEF VodInv, JobFits
    <2> QED BY <1>1, <1>4, <2>3, <2>6, <2>7 DEF VodInv, VodShapes
<1> QED BY <1>2, <1>5, <1>6

LEMMA LookedUpFits == ASSUME VodInv, LookedUp PROVE VodInv'
<1>0. /\ prepared.vod \in Vods /\ prepared.status \in Statuses /\ columns \in [Vods -> ColumnRows]
      /\ disk \in [Vods -> DiskRows] /\ 0 \in 0..Cooldown /\ 0 \in 0..Pieces
    BY VodConstants DEF VodInv, VodShapes, Lookups
<1>1. UNCHANGED <<large, jobs, waiting, job>>
    BY DEF LookedUp
<1>2. columns' \in [Vods -> ColumnRows]
    <2>1. [status |-> prepared.status, cooling |-> 0] \in ColumnRows
        BY <1>0 DEF ColumnRows
    <2>2. columns' = [columns EXCEPT ![prepared.vod] = [status |-> prepared.status, cooling |-> 0]]
        BY DEF LookedUp
    <2> QED BY <1>0, <2>1, <2>2
<1>3. prepared' \in Lookups
    BY <1>0, AnotherFollows DEF LookedUp
<1>4. disk' \in [Vods -> DiskRows] /\ watched' \in Vods \cup {NoVod}
    <2>1. CASE UNCHANGED <<disk, watched, mishaps>>
        BY <2>1 DEF VodInv, VodShapes
    <2>2. CASE watched' = prepared.vod /\ \E finished \in {watched, NoVod}, aged \in SUBSET Vods : disk' = Released(finished, aged)
        <3>1. PICK finished \in {watched, NoVod}, aged \in SUBSET Vods : disk' = Released(finished, aged)
            BY <2>2
        <3> DEFINE row(v) == [disk[v] EXCEPT !.ready = @ /\ v # finished,
                                             !.part = IF v \in aged /\ disk[v].lock < 2 THEN 0 ELSE @]
        <3>2. disk' = [v \in Vods |-> row(v)]
            BY <3>1 DEF Released
        <3>3. \A v \in Vods : row(v) \in DiskRows
            <4> SUFFICES ASSUME NEW v \in Vods PROVE row(v) \in DiskRows
                OBVIOUS
            <4> DEFINE ready == disk[v].ready /\ v # finished
                       part == IF v \in aged /\ disk[v].lock < 2 THEN 0 ELSE disk[v].part
            <4>1. disk[v] \in DiskRows
                BY <1>0
            <4>2. ready \in BOOLEAN
                BY Zenon
            <4>3. part \in 0..Pieces
                BY <1>0, <4>1 DEF DiskRows
            <4>4. row(v) = [disk[v] EXCEPT !.ready = ready, !.part = part]
                OBVIOUS
            <4> HIDE DEF part, ready, row
            <4> QED BY <4>1, <4>2, <4>3, <4>4 DEF DiskRows
        <3> HIDE DEF row
        <3> QED BY <1>0, <2>2, <3>2, <3>3
    <2> QED BY <2>1, <2>2 DEF LookedUp
<1>5. mishaps' \in 0..MaxMishaps
    BY VodConstants DEF LookedUp, Mishap, VodInv, VodShapes
<1> QED BY <1>1, <1>2, <1>3, <1>4, <1>5 DEF VodInv, VodShapes, QueueFits, JobFits


LEMMA BeginJobFits == ASSUME VodInv, BeginJob PROVE VodInv'
<1> DEFINE h == Head(waiting)
<1>0. UNCHANGED <<large, disk, columns, prepared, watched, mishaps>> /\ HoldsOnce(waiting) /\ waiting # <<>>
    BY DEF BeginJob, VodInv, QueueFits
<1>1. /\ h \in Vods /\ InQueue(waiting, h) /\ HoldsOnce(waiting')
      /\ \A u \in Vods : InQueue(waiting', u) <=> InQueue(waiting, u) /\ u # h
    BY <1>0, QueueShrinks DEF BeginJob
<1>2. job' = [NoJob EXCEPT !.vod = h, !.at = "lock"] /\ jobs' = [jobs EXCEPT ![h].state = "running"]
    BY DEF BeginJob
<1> HIDE DEF h
<1>3. /\ jobs' \in [Vods -> RunnerRows] /\ jobs'[h].state = "running"
      /\ \A u \in Vods : u # h => jobs'[u] = jobs[u]
    BY <1>1, <1>2 DEF VodInv, VodShapes, RunnerRows
<1>4. job' \in RunningJobs /\ job'.vod = h /\ job'.at = "lock"
    <2>1. job' = [vod |-> h, at |-> "lock", result |-> NoStatus, further |-> FALSE]
        BY <1>2 DEF NoJob
    <2> QED BY <1>1, <2>1 DEF RunningJobs, Working, Statuses
<1>5. QueueFits'
    BY <1>1, <1>3 DEF QueueFits, VodInv
<1>6. JobFits'
    BY <1>1, <1>3, <1>4, VodConstants DEF JobFits, Working
<1> QED BY <1>0, <1>3, <1>4, <1>5, <1>6 DEF VodInv, VodShapes

\* What a step of the job leaves, but for the disk and the mishaps.
LEMMA JobStepFits ==
    ASSUME VodInv, UNCHANGED <<large, columns, waiting, prepared, watched>>,
           disk' \in [Vods -> DiskRows], mishaps' \in 0..MaxMishaps,
           jobs' \in [Vods -> RunnerRows], job' \in RunningJobs, QueueFits', JobFits'
    PROVE  VodInv'
BY DEF VodInv, VodShapes

LEMMA MishapsFit == VodInv => mishaps \in 0..MaxMishaps /\ (Mishap => mishaps' \in 0..MaxMishaps)
BY VodConstants DEF Mishap, VodInv, VodShapes

LEMMA DiskFits == VodInv => disk \in [Vods -> DiskRows] /\ jobs \in [Vods -> RunnerRows] /\ columns \in [Vods -> ColumnRows]
BY DEF VodInv, VodShapes

LEMMA LockAndProbeFit == ASSUME VodInv, TakeVodLock \/ Probe PROVE VodInv'
<1>0. UNCHANGED <<large, columns, waiting, prepared, watched>> /\ job.at \in Working
    BY DEF TakeVodLock, Probe, Working
<1>1. mishaps' \in 0..MaxMishaps
    BY MishapsFit DEF TakeVodLock, Probe
<1>2. {"ready", "missing", "too-large"} \subseteq Statuses /\ {"probe", "prune"} \subseteq Working
    BY DEF Statuses, Working
<1>3. \/ \E result \in Statuses : Ends(result)
      \/ jobs' = jobs /\ \E to \in Working : JobGoes(to)
    BY <1>2 DEF TakeVodLock, Probe
<1>4. jobs' \in [Vods -> RunnerRows] /\ job' \in RunningJobs /\ QueueFits' /\ JobFits'
    BY <1>0, <1>3, JobEndFits, JobGoesOn, DiskFits
<1>5. \/ disk' = disk \/ disk' = Unlocked(disk)
      \/ disk' = [disk EXCEPT ![job.vod] = [disk[job.vod] EXCEPT !.lock = Live]]
    BY DEF TakeVodLock, Probe
<1>6. disk' \in [Vods -> DiskRows]
    BY <1>0, <1>5, DiskFits, DiskRowsFit, UnlockedFits, JobIsOfArchive
<1> QED BY <1>0, <1>1, <1>4, <1>6, JobStepFits

LEMMA PrunedFits ==
    ASSUME VodInv
    PROVE  \A parts \in SUBSET Vods, files \in SUBSET Vods, locks \in SUBSET Vods :
               Pruned(parts, files, locks) \in [Vods -> DiskRows]
<1> SUFFICES ASSUME NEW parts \in SUBSET Vods, NEW files \in SUBSET Vods, NEW locks \in SUBSET Vods
             PROVE  Pruned(parts, files, locks) \in [Vods -> DiskRows]
    OBVIOUS
<1> DEFINE part(v) == IF v \in parts /\ disk[v].lock < 2 THEN 0 ELSE disk[v].part
           ready(v) == disk[v].ready /\ v \notin files
           lock(v) == IF v \in locks THEN 0 ELSE disk[v].lock
<1>1. Pruned(parts, files, locks) = [v \in Vods |-> [part |-> part(v), ready |-> ready(v), lock |-> lock(v)]]
    BY DEF Pruned
<1>2. \A v \in Vods : part(v) \in 0..Pieces /\ lock(v) \in 0..Live
    BY DiskFits, VodConstants DEF DiskRows
<1>3. \A v \in Vods : ready(v) \in BOOLEAN
    BY Zenon
<1> HIDE DEF part, ready, lock
<1> QED BY <1>1, <1>2, <1>3 DEF DiskRows

LEMMA PruneFits == ASSUME VodInv, Prune PROVE VodInv'
<1>0. UNCHANGED <<large, columns, waiting, prepared, watched>> /\ job.at \in Working
    BY DEF Prune, Working
<1>1. mishaps' \in 0..MaxMishaps
    BY MishapsFit DEF Prune
<1>2. "failed" \in Statuses /\ "download" \in Working
    BY DEF Statuses, Working
<1>3. \/ Ends("failed")
      \/ jobs' = jobs /\ JobGoes("download")
    BY DEF Prune
<1>4. jobs' \in [Vods -> RunnerRows] /\ job' \in RunningJobs /\ QueueFits' /\ JobFits'
    BY <1>0, <1>2, <1>3, JobEndFits, JobGoesOn, DiskFits
<1>5. \/ disk' = disk
      \/ \E parts \in SUBSET Vods, files \in SUBSET Vods, locks \in SUBSET Vods :
             disk' = Pruned(parts, files, locks) \/ disk' = Unlocked(Pruned(parts, files, locks))
    BY DEF Prune
<1>6. disk' \in [Vods -> DiskRows]
    <2>1. CASE disk' = disk
        BY <2>1, DiskFits
    <2>2. CASE disk' # disk
        <3>1. PICK parts \in SUBSET Vods, files \in SUBSET Vods, locks \in SUBSET Vods :
                  disk' = Pruned(parts, files, locks) \/ disk' = Unlocked(Pruned(parts, files, locks))
            BY <1>5, <2>2
        <3>2. Pruned(parts, files, locks) \in [Vods -> DiskRows]
            BY PrunedFits
        <3> QED BY <1>0, <3>1, <3>2, UnlockedFits
    <2> QED BY <2>1, <2>2
<1> QED BY <1>0, <1>1, <1>4, <1>6, JobStepFits

LEMMA DownloadFits == ASSUME VodInv, Download \/ DownloadCut \/ Verify PROVE VodInv'
<1>0. UNCHANGED <<large, columns, waiting, prepared, watched>> /\ job.at \in Working
    BY DEF Download, DownloadCut, Cut, Verify, Working
<1>1. mishaps' \in 0..MaxMishaps
    BY MishapsFit DEF Download, DownloadCut, Cut, Verify
<1>2. {"failed", "ready"} \subseteq Statuses /\ "verify" \in Working
    BY DEF Statuses, Working
<1>3. \/ Ends("failed") \/ Ends("ready")
      \/ jobs' = jobs /\ (JobGoes("verify") \/ job' = [job EXCEPT !.further = TRUE])
    BY DEF Download, DownloadCut, Cut, Verify
<1>4. jobs' \in [Vods -> RunnerRows] /\ job' \in RunningJobs /\ QueueFits' /\ JobFits'
    BY <1>0, <1>2, <1>3, JobEndFits, JobGoesOn, DiskFits
<1>5. disk' \in [Vods -> DiskRows]
    <2>0. job.vod \in Vods /\ disk[job.vod] \in DiskRows /\ disk \in [Vods -> DiskRows]
        BY <1>0, JobIsOfArchive, DiskFits
    <2>1. CASE Download
        <3>1. \/ disk' = disk
              \/ /\ disk[job.vod].part < Pieces
                 /\ disk' = [disk EXCEPT ![job.vod] = [disk[job.vod] EXCEPT !.part = disk[job.vod].part + 1]]
            BY <2>1 DEF Download
        <3>2. disk[job.vod].part < Pieces => disk[job.vod].part + 1 \in 0..Pieces
            BY <2>0, VodConstants DEF DiskRows
        <3> QED BY <2>0, <3>1, <3>2, DiskRowsFit
    <2>2. CASE DownloadCut
        <3> DEFINE d == Unlocked(disk)
                   n == disk[job.vod].part
        <3>1. d \in [Vods -> DiskRows] /\ n \in 0..Pieces
            BY <1>0, <2>0, UnlockedFits DEF DiskRows
        <3>2. disk' = [d EXCEPT ![job.vod] = [d[job.vod] EXCEPT !.part = n]]
            BY <2>2 DEF DownloadCut, Cut
        <3> HIDE DEF d, n
        <3> QED BY <2>0, <3>1, <3>2, DiskRowsFit
    <2>3. CASE Verify
        <3>1. \/ disk' = Unlocked(disk)
              \/ disk' = [disk EXCEPT ![job.vod] = [part |-> 0, ready |-> TRUE, lock |-> 0]]
            BY <2>3 DEF Verify
        <3> QED BY <1>0, <2>0, <3>1, UnlockedFits, DiskRowsFit
    <2> QED BY <2>1, <2>2, <2>3
<1> QED BY <1>0, <1>1, <1>4, <1>5, JobStepFits

LEMMA PersistFits == ASSUME VodInv, Persist PROVE VodInv'
<1>1. UNCHANGED <<large, disk, jobs, waiting, prepared, watched>> /\ job' = NoJob /\ job.at = "persist"
    BY DEF Persist
<1>2. mishaps' \in 0..MaxMishaps
    BY MishapsFit DEF Persist
<1>3. job.vod \in Vods /\ job.result \in Statuses
    BY <1>1 DEF VodInv, VodShapes, JobFits, RunningJobs
<1>4. columns' \in [Vods -> ColumnRows]
    <2> DEFINE row == [status |-> job.result, cooling |-> IF job.result = "failed" THEN Cooldown ELSE 0]
    <2>1. row \in ColumnRows
        BY <1>3, VodConstants DEF ColumnRows
    <2>2. columns' = columns \/ columns' = [columns EXCEPT ![job.vod] = row]
        BY DEF Persist
    <2> HIDE DEF row
    <2> QED BY <1>3, <2>1, <2>2, DiskFits
<1>5. job' \in RunningJobs /\ JobFits'
    BY <1>1 DEF NoJob, RunningJobs, JobFits, Working, Statuses
<1> QED BY <1>1, <1>2, <1>4, <1>5 DEF VodInv, VodShapes, QueueFits

LEMMA VodTimeFits == ASSUME VodInv, VodTime PROVE VodInv'
<1>0. UNCHANGED <<large, waiting, job, prepared, watched, mishaps>>
    BY DEF VodTime
<1>1. \A n \in 0..Cooldown : Down(n) \in 0..Cooldown
    BY VodConstants DEF Down
<1>2. disk' \in [Vods -> DiskRows]
    <2> DEFINE lock(v) == IF Aging(v) THEN disk[v].lock - 1 ELSE disk[v].lock
    <2>1. \A v \in Vods : lock(v) \in 0..Live
        BY DiskFits, VodConstants DEF Aging, DiskRows
    <2>2. disk' = [v \in Vods |-> [disk[v] EXCEPT !.lock = lock(v)]]
        BY DEF VodTime
    <2> HIDE DEF lock
    <2>3. \A v \in Vods : [disk[v] EXCEPT !.lock = lock(v)] \in DiskRows
        BY <2>1, DiskFits DEF DiskRows
    <2> QED BY <2>2, <2>3
<1>3. columns' \in [Vods -> ColumnRows]
    <2>1. columns' = [v \in Vods |-> [columns[v] EXCEPT !.cooling = Down(columns[v].cooling)]]
        BY DEF VodTime
    <2>2. \A v \in Vods : [columns[v] EXCEPT !.cooling = Down(columns[v].cooling)] \in ColumnRows
        BY <1>1, DiskFits DEF ColumnRows
    <2> QED BY <2>1, <2>2
<1>4. jobs' \in [Vods -> RunnerRows] /\ \A v \in Vods : jobs'[v].state = jobs[v].state
    <2>1. jobs' = [v \in Vods |-> [jobs[v] EXCEPT !.cooling = Down(jobs[v].cooling)]]
        BY DEF VodTime
    <2>2. \A v \in Vods : /\ [jobs[v] EXCEPT !.cooling = Down(jobs[v].cooling)] \in RunnerRows
                          /\ [jobs[v] EXCEPT !.cooling = Down(jobs[v].cooling)].state = jobs[v].state
        BY <1>1, DiskFits DEF RunnerRows
    <2> QED BY <2>1, <2>2
<1>5. QueueFits'
    BY <1>0, <1>4 DEF VodInv, QueueFits
<1>6. JobFits'
    BY <1>0, <1>4, JobIsOfArchive DEF VodInv, JobFits
<1> QED BY <1>0, <1>2, <1>3, <1>4, <1>5, <1>6 DEF VodInv, VodShapes

LEMMA PlayoutRestartFits == ASSUME VodInv, PlayoutRestarts PROVE VodInv'
<1>1. UNCHANGED <<large, disk, columns>> /\ jobs' = NoRecord /\ waiting' = <<>> /\ job' = NoJob
      /\ prepared' = Asleep(InOrder[1]) /\ watched' = NoVod
    BY DEF PlayoutRestarts
<1>2. mishaps' \in 0..MaxMishaps
    BY MishapsFit DEF PlayoutRestarts
<1>3. InOrder[1] \in Vods /\ NoStatus \in Statuses
    BY ArchivesHaveAnOrder DEF Statuses
<1>4. jobs' \in [Vods -> RunnerRows] /\ job' \in RunningJobs /\ prepared' \in Lookups
    BY <1>1, <1>3, VodConstants DEF NoRecord, RunnerRows, NoJob, RunningJobs, Asleep, Lookups
<1>5. QueueFits' /\ JobFits'
    BY <1>1 DEF QueueFits, HoldsOnce, InQueue, NoRecord, JobFits, NoJob, Working
<1> QED BY <1>1, <1>2, <1>4, <1>5 DEF VodInv, VodShapes

LEMMA VodSteps == VodInv /\ [VodNext]_vodVars => VodInv'
<1> SUFFICES ASSUME VodInv, [VodNext]_vodVars PROVE VodInv'
    OBVIOUS
<1>1. CASE UNCHANGED vodVars
    BY <1>1 DEF vodVars, VodInv, VodShapes, QueueFits, JobFits
<1> QED BY <1>1, LookUpFits, LookedUpFits, BeginJobFits, LockAndProbeFit, PruneFits, DownloadFits, PersistFits,
           VodTimeFits, PlayoutRestartFits
        DEF VodNext, JobStep

\* The runner's records and its queue agree whatever is asked for, cut, pruned or forgotten in a restart
\* (VodCacheJobRunner.request, run): an archive is queued exactly if its record says so, and a job is of
\* one archive until its row is written.
THEOREM VodTypeCorrect == VodInit /\ [][VodNext]_vodVars => []VodTypeOK
<1>1. VodInv => VodTypeOK
    <2> SUFFICES ASSUME VodInv PROVE VodTypeOK
        OBVIOUS
    <2>1. \A v \in Vods : InQueue(waiting, v) <=> v \in ToSet(waiting)
        BY DEF InQueue, ToSet, VodInv, QueueFits, HoldsOnce
    <2> QED BY <2>1 DEF VodTypeOK, VodInv, VodShapes, QueueFits, JobFits, DiskRows, ColumnRows, RunnerRows
<1> QED BY <1>1, VodStarts, VodSteps, PTL


---------------------------------------------------------------------------
(* The chat on air                                                         *)

FeedWrites == [record : Panels, by : {"timer", "cycle"}]
Bridges == [socket : Sockets, closing : BOOLEAN, phase : Phases, using : Nat, refused : Nat, ring : Seq(Lines)]
Flushers == [rail : {"unread", "on", "off"}, timer : BOOLEAN, writes : Seq(FeedWrites), key : Seq(Panels)]
ChatSteps == [at : {"idle", "sync", "flush", "writing"}, rail : BOOLEAN, token : Nat]

FeedTypes ==
    /\ chat \in [rail : BOOLEAN, others : BOOLEAN, token : Nat, good : BOOLEAN]
    /\ panel \in Panels /\ alarm \in BOOLEAN /\ bridge \in Bridges /\ flusher \in Flushers /\ chatAt \in ChatSteps
    /\ deleted \subseteq Lines /\ missed \subseteq Lines /\ spent \in Nat

\* The ring and the row hold no more than their capacity.
FeedFits == Len(bridge.ring) <= Ring /\ Len(panel.lines) <= Stored

FeedInv == FeedTypes /\ FeedFits

LEMMA FeedConstants == Ring \in Nat /\ Ring > 0 /\ Stored \in Nat /\ Stored > 0 /\ Lines \subseteq Nat
BY ChatFeedAssumption DEF ChatFeedAssumption

LEMMA LastLinesFit ==
    \A s \in Seq(Lines) : \A n \in Nat : LastOf(s, n) \in Seq(Lines) /\ Len(LastOf(s, n)) <= n
<1> SUFFICES ASSUME NEW s \in Seq(Lines), NEW n \in Nat
             PROVE  LastOf(s, n) \in Seq(Lines) /\ Len(LastOf(s, n)) <= n
    OBVIOUS
<1> DEFINE first == 1 + (IF Len(s) > n THEN Len(s) - n ELSE 0)
<1>1. Len(s) \in Nat /\ first \in Nat /\ first >= 1 /\ Len(s) - first + 1 <= n
    OBVIOUS
<1>2. LastOf(s, n) = SubSeq(s, first, Len(s))
    BY DEF LastOf
<1> HIDE DEF first
<1>3. SubSeq(s, first, Len(s)) \in Seq(Lines)
    BY <1>1
<1>4. Len(SubSeq(s, first, Len(s))) <= n
    BY <1>1
<1> QED BY <1>2, <1>3, <1>4

\* The least of a set of naturals.
LEMMA LeastIs == \A T \in SUBSET Nat : T # {} => \E x \in T : \A y \in T : x <= y
<1> SUFFICES ASSUME NEW T \in SUBSET Nat, T # {} PROVE \E x \in T : \A y \in T : x <= y
    OBVIOUS
<1>1. PICK x \in T : \A y \in T : ~(<<y, x>> \in OpToRel(<, Nat))
    BY NatLessThanWellFounded, WFMin
<1>2. \A y \in T : ~(y < x)
    BY <1>1 DEF OpToRel
<1> QED BY <1>2

\* Of k entries that stay, one is the k-th.
LEMMA RankIsTaken ==
    \A n \in Nat : \A kept \in SUBSET (1..n) : \A k \in 1..Cardinality(kept) :
        \E i \in kept : Cardinality({j \in kept : j <= i}) = k
<1> SUFFICES ASSUME NEW n \in Nat, NEW kept \in SUBSET (1..n), NEW k \in 1..Cardinality(kept)
             PROVE  \E i \in kept : Cardinality({j \in kept : j <= i}) = k
    OBVIOUS
<1> DEFINE UpTo(i) == {j \in kept : j <= i}
           T == {i \in Nat : i <= n /\ Cardinality(UpTo(i)) >= k}
<1>0. kept \subseteq 1..n /\ \A j \in kept : j \in Nat /\ 1 <= j /\ j <= n
    OBVIOUS
<1>1. IsFiniteSet(kept) /\ Cardinality(kept) \in Nat
    <2>1. 1 \in Int /\ n \in Int
        OBVIOUS
    <2>2. IsFiniteSet(1..n)
        BY ONLY <2>1, FS_Interval
    <2> QED BY ONLY <1>0, <2>2, FS_Subset, FS_CardinalityType
<1>2. \A i \in Nat : UpTo(i) \subseteq kept /\ IsFiniteSet(UpTo(i)) /\ Cardinality(UpTo(i)) \in Nat
    <2> SUFFICES ASSUME NEW i \in Nat
                 PROVE  UpTo(i) \subseteq kept /\ IsFiniteSet(UpTo(i)) /\ Cardinality(UpTo(i)) \in Nat
        OBVIOUS
    <2>1. UpTo(i) \subseteq kept
        OBVIOUS
    <2> HIDE DEF UpTo
    <2> QED BY ONLY <1>1, <2>1, FS_Subset, FS_CardinalityType
<1>3. \A i \in Nat : \A j : j \in UpTo(i) <=> j \in kept /\ j <= i
    OBVIOUS
<1> HIDE DEF UpTo
<1>4. UpTo(n) = kept /\ UpTo(0) = {}
    <2>0. 0 \in Nat /\ n \in Nat
        OBVIOUS
    <2>2. /\ \A j : j \in UpTo(n) <=> j \in kept /\ j <= n
          /\ \A j : j \in UpTo(0) <=> j \in kept /\ j <= 0
        BY ONLY Zenon, <1>3, <2>0
    <2>1. \A j : (j \in UpTo(n) <=> j \in kept) /\ (j \in UpTo(0) <=> j \in {})
        <3>1. \A j \in kept : j <= n /\ ~(j <= 0)
            BY <1>0
        <3> QED BY ONLY Zenon, <2>2, <3>1
    <2> QED BY ONLY Zenon, <2>1
<1>5. Cardinality(UpTo(0)) = 0
    BY ONLY <1>4, FS_EmptySet
<1>6. k \in Nat /\ k > 0 /\ k <= Cardinality(UpTo(n))
    BY <1>1, <1>4
<1>7. n \in T /\ T \in SUBSET Nat
    BY <1>1, <1>4, <1>6
<1>8. PICK i \in T : \A y \in T : i <= y
    BY <1>7, LeastIs
<1>9. i \in Nat /\ i <= n /\ Cardinality(UpTo(i)) >= k
    BY <1>8
<1>10. i # 0
    BY ONLY <1>5, <1>6, <1>9
<1>11. i - 1 \in Nat /\ i - 1 <= n /\ i - 1 \notin T
    BY <1>8, <1>9, <1>10
<1>12. ~(Cardinality(UpTo(i - 1)) >= k)
    BY <1>11
<1> HIDE DEF T
<1>13. i \in kept
    <2>1. i \notin kept => UpTo(i) = UpTo(i - 1)
        <3>1. i \notin kept => \A j \in kept : j <= i <=> j <= i - 1
            BY <1>0, <1>9
        <3> QED BY ONLY Zenon, <1>3, <1>9, <1>11, <3>1
    <2> QED BY ONLY <1>9, <1>12, <2>1
<1>14. Cardinality(UpTo(i)) = Cardinality(UpTo(i - 1)) + 1
    <2>1. UpTo(i) = UpTo(i - 1) \cup {i} /\ i \notin UpTo(i - 1)
        <3>1. \A j \in kept : j <= i <=> j <= i - 1 \/ j = i
            BY <1>0, <1>9
        <3>2. i <= i /\ ~(i <= i - 1)
            BY <1>9
        <3> QED BY ONLY Zenon, <1>3, <1>9, <1>11, <1>13, <3>1, <3>2
    <2>2. IsFiniteSet(UpTo(i - 1))
        BY ONLY <1>2, <1>11
    <2> QED BY ONLY <2>1, <2>2, FS_AddElement
<1>15. Cardinality(UpTo(i)) = k
    <2>1. Cardinality(UpTo(i)) \in Nat /\ Cardinality(UpTo(i - 1)) \in Nat
        BY ONLY <1>2, <1>9, <1>11
    <2> QED BY ONLY <1>6, <1>9, <1>12, <1>14, <2>1
<1> QED BY <1>13, <1>15 DEF UpTo

\* What a moderator leaves of the ring.
LEMMA LeftFits ==
    ASSUME FeedTypes
    PROVE  \A gone : LeftAfter(gone) \in Seq(Lines) /\ Len(LeftAfter(gone)) <= Len(bridge.ring)
<1> SUFFICES ASSUME NEW gone
             PROVE  LeftAfter(gone) \in Seq(Lines) /\ Len(LeftAfter(gone)) <= Len(bridge.ring)
    OBVIOUS
<1> DEFINE s == bridge.ring
           kept == {i \in DOMAIN s : s[i] \notin gone}
           Kth(k) == CHOOSE i \in kept : Cardinality({j \in kept : j <= i}) = k
<1>1. s \in Seq(Lines)
    BY DEF FeedTypes, Bridges
<1>2. LeftAfter(gone) = [k \in 1..Cardinality(kept) |-> s[Kth(k)]]
    BY DEF LeftAfter
<1> HIDE DEF s
<1>3. Len(s) \in Nat /\ DOMAIN s = 1..Len(s) /\ \A i \in 1..Len(s) : s[i] \in Lines
    BY <1>1
<1>4. kept \in SUBSET (1..Len(s))
    BY <1>3
<1>5. Cardinality(kept) \in Nat /\ Cardinality(kept) <= Len(s)
    <2>1. IsFiniteSet(1..Len(s)) /\ Cardinality(1..Len(s)) = Len(s)
        BY <1>3, FS_Interval
    <2> HIDE DEF kept
    <2>2. IsFiniteSet(kept) /\ Cardinality(kept) <= Cardinality(1..Len(s))
        BY ONLY <1>4, <2>1, FS_Subset
    <2> QED BY ONLY <2>1, <2>2, FS_CardinalityType
<1>6. \A k \in 1..Cardinality(kept) : Kth(k) \in kept
    <2> HIDE DEF kept
    <2> SUFFICES ASSUME NEW k \in 1..Cardinality(kept) PROVE Kth(k) \in kept
        OBVIOUS
    <2>1. \E i \in kept : Cardinality({j \in kept : j <= i}) = k
        BY <1>3, <1>4, RankIsTaken
    <2> QED BY <2>1
<1> HIDE DEF Kth
<1>7. \A k \in 1..Cardinality(kept) : s[Kth(k)] \in Lines
    BY <1>3, <1>4, <1>6
<1> HIDE DEF kept
<1>8. LeftAfter(gone) \in Seq(Lines) /\ Len(LeftAfter(gone)) = Cardinality(kept)
    BY <1>2, <1>5, <1>7
<1> QED BY <1>5, <1>8 DEF s

LEMMA FreshFeed == NewBridge \in Bridges /\ NewFlusher \in Flushers /\ AtNone \in ChatSteps /\ Blank \in Panels
<1>1. <<>> \in Seq(Lines) /\ <<>> \in Seq(FeedWrites) /\ <<>> \in Seq(Panels)
    OBVIOUS
<1> QED BY <1>1 DEF NewBridge, NewFlusher, AtNone, Blank, Bridges, Flushers, ChatSteps, Panels, Sockets, Phases

LEMMA FeedStarts == FeedInit => FeedInv
<1> SUFFICES ASSUME FeedInit PROVE FeedInv
    OBVIOUS
<1>1. FeedTypes
    BY FreshFeed DEF FeedInit, FeedTypes
<1>2. FeedFits
    BY FeedConstants DEF FeedInit, FeedFits, NewBridge, Blank
<1> QED BY <1>1, <1>2 DEF FeedInv

\* A flush asks for one write at most.
LEMMA FlushFits ==
    ASSUME FeedTypes
    PROVE  \A by \in {"timer", "cycle"} : Flushed(by) \in Seq(FeedWrites)
<1> SUFFICES ASSUME NEW by \in {"timer", "cycle"} PROVE Flushed(by) \in Seq(FeedWrites)
    OBVIOUS
<1> DEFINE on == flusher.rail = "on"
           shown == IF on THEN bridge.ring ELSE <<>>
<1>1. flusher.writes \in Seq(FeedWrites)
    BY DEF FeedTypes, Flushers
<1>2. on \in BOOLEAN
    BY Zenon
<1>3. shown \in Seq(Lines)
    BY DEF FeedTypes, Bridges
<1>4. \/ Flushed(by) = flusher.writes
      \/ Flushed(by) = Append(flusher.writes, [record |-> [enabled |-> on, lines |-> shown], by |-> by])
    BY Zenon DEF Flushed
<1> HIDE DEF on, shown
<1>5. [record |-> [enabled |-> on, lines |-> shown], by |-> by] \in FeedWrites
    BY <1>2, <1>3 DEF FeedWrites, Panels
<1> QED BY <1>1, <1>4, <1>5


LEMMA FlushersFit ==
    ASSUME FeedTypes
    PROVE  /\ ChangesReachTimer \in Flushers
           /\ \A rail \in {"unread", "on", "off"} : [flusher EXCEPT !.rail = rail] \in Flushers
           /\ \A q \in Seq(FeedWrites) : [flusher EXCEPT !.writes = q] \in Flushers
           /\ \A q \in Seq(FeedWrites) : [flusher EXCEPT !.timer = FALSE, !.writes = q] \in Flushers
           /\ \A q \in Seq(FeedWrites), key \in Seq(Panels) : [flusher EXCEPT !.writes = q, !.key = key] \in Flushers
BY DEF FeedTypes, Flushers, ChangesReachTimer

LEMMA RowFits ==
    \A record \in Panels : /\ [record EXCEPT !.lines = LastOf(@, Stored)] \in Panels
                           /\ Len([record EXCEPT !.lines = LastOf(@, Stored)].lines) <= Stored
<1> SUFFICES ASSUME NEW record \in Panels
             PROVE  /\ [record EXCEPT !.lines = LastOf(@, Stored)] \in Panels
                    /\ Len([record EXCEPT !.lines = LastOf(@, Stored)].lines) <= Stored
    OBVIOUS
<1> DEFINE kept == LastOf(record.lines, Stored)
<1>1. record.lines \in Seq(Lines)
    BY DEF Panels
<1>2. kept \in Seq(Lines) /\ Len(kept) <= Stored
    BY <1>1, LastLinesFit, FeedConstants
<1>3. [record EXCEPT !.lines = LastOf(@, Stored)] = [record EXCEPT !.lines = kept]
    OBVIOUS
<1> HIDE DEF kept
<1>4. [record EXCEPT !.lines = kept] \in Panels /\ [record EXCEPT !.lines = kept].lines = kept
    BY <1>2 DEF Panels
<1> QED BY <1>2, <1>3, <1>4

LEMMA ReadAndFlushFit == ASSUME FeedInv, ReadForChat \/ CycleFlushes \/ TimerFlushes PROVE FeedInv'
<1>1. UNCHANGED <<chat, panel, alarm, bridge, deleted, missed, spent>>
    BY DEF ReadForChat, CycleFlushes, TimerFlushes
<1>2. flusher.writes \in Seq(FeedWrites)
    BY DEF FeedInv, FeedTypes, Flushers
<1>3. flusher' \in Flushers
    <2>1. CASE ReadForChat
        <3>1. \E rail \in {"on", "off"} : flusher' = [flusher EXCEPT !.rail = rail]
            BY <2>1 DEF ReadForChat
        <3> QED BY <3>1, FlushersFit DEF FeedInv
    <2>2. CASE CycleFlushes
        <3>1. flusher' = [flusher EXCEPT !.writes = Flushed("cycle")]
            BY <2>2 DEF CycleFlushes
        <3>2. Flushed("cycle") \in Seq(FeedWrites)
            BY FlushFits DEF FeedInv
        <3> QED BY <3>1, <3>2, FlushersFit DEF FeedInv
    <2>3. CASE TimerFlushes
        <3>1. PICK q \in Seq(FeedWrites) : flusher' = [flusher EXCEPT !.timer = FALSE, !.writes = q]
            BY <1>2, <2>3, FlushFits DEF TimerFlushes, FeedInv
        <3> QED BY <3>1, FlushersFit DEF FeedInv
    <2> QED BY <1>2, <2>1, <2>2, <2>3
<1>4. chatAt' \in ChatSteps
    <2>1. \/ chatAt' \in {chatAt, AtNone} \/ chatAt' = [at |-> "sync", rail |-> chat.rail, token |-> chat.token]
          \/ chatAt' = [chatAt EXCEPT !.at = "writing"]
        BY DEF ReadForChat, CycleFlushes, TimerFlushes
    <2> QED BY <2>1, FreshFeed DEF FeedInv, FeedTypes, ChatSteps
<1> QED BY <1>1, <1>3, <1>4 DEF FeedInv, FeedTypes, FeedFits

LEMMA AnswerFits == ASSUME FeedInv, FlushCommits \/ FlushIsRefused PROVE FeedInv'
<1>1. PICK made \in BOOLEAN : WriteAnswered(made)
    BY DEF FlushCommits, FlushIsRefused
<1>2. spent' \in Nat
    <2>1. spent' = spent \/ spent' = spent + 1
        BY Zenon DEF FlushCommits, FlushIsRefused, Spends
    <2>2. spent \in Nat
        BY Zenon DEF FeedInv, FeedTypes
    <2> QED BY ONLY <2>1, <2>2
<1>3. UNCHANGED <<chat, alarm, bridge, deleted, missed>> /\ flusher.writes # <<>>
    BY <1>1 DEF WriteAnswered
<1> DEFINE w == Head(flusher.writes)
<1>4. w \in FeedWrites /\ Tail(flusher.writes) \in Seq(FeedWrites) /\ flusher.key \in Seq(Panels)
    BY <1>3 DEF FeedInv, FeedTypes, Flushers
<1>5. w.record \in Panels /\ <<w.record>> \in Seq(Panels)
    BY <1>4 DEF FeedWrites
<1>6. /\ \E key \in {<<w.record>>, flusher.key} : flusher' = [flusher EXCEPT !.writes = Tail(flusher.writes), !.key = key]
      /\ panel' \in {[w.record EXCEPT !.lines = LastOf(@, Stored)], panel} /\ chatAt' \in {AtNone, chatAt}
    BY <1>1 DEF WriteAnswered
<1> HIDE DEF w
<1>7. flusher' \in Flushers
    <2>1. PICK key \in {<<w.record>>, flusher.key} : flusher' = [flusher EXCEPT !.writes = Tail(flusher.writes), !.key = key]
        BY <1>6
    <2>2. key \in Seq(Panels)
        BY <1>4, <1>5, <2>1
    <2>3. FeedTypes
        BY DEF FeedInv
    <2> QED BY <1>4, <2>1, <2>2, <2>3, FlushersFit
<1>8. panel' \in Panels /\ Len(panel'.lines) <= Stored
    BY <1>5, <1>6, RowFits DEF FeedInv, FeedTypes, FeedFits
<1>9. chatAt' \in ChatSteps
    BY <1>6, FreshFeed DEF FeedInv, FeedTypes
<1> QED BY <1>2, <1>3, <1>7, <1>8, <1>9 DEF FeedInv, FeedTypes, FeedFits

\* The incident is opened and closed by the phases.
LEMMA AlarmFits == FeedTypes => \A phase \in Phases : AlarmAfter(phase) \in BOOLEAN
BY Zenon DEF AlarmAfter, FeedTypes

LEMMA DisconnectedFits ==
    ASSUME FeedTypes
    PROVE  /\ Disconnected \in Bridges /\ Disconnected.ring = <<>>
           /\ [Disconnected EXCEPT !.phase = "idle", !.refused = 0] \in Bridges
           /\ [Disconnected EXCEPT !.phase = "idle", !.refused = 0].ring = <<>>
           /\ [Disconnected EXCEPT !.socket = "opening", !.phase = "connecting", !.using = chatAt.token] \in Bridges
           /\ [Disconnected EXCEPT !.socket = "opening", !.phase = "connecting", !.using = chatAt.token].ring = <<>>
<1> DEFINE closing == bridge.closing \/ bridge.socket \in {"opening", "joined"}
<1>1. closing \in BOOLEAN
    BY Zenon
<1>2. Disconnected = [bridge EXCEPT !.socket = "none", !.ring = <<>>, !.closing = closing]
    BY DEF Disconnected
<1> HIDE DEF closing
<1>3. bridge \in Bridges /\ chatAt.token \in Nat /\ <<>> \in Seq(Lines)
    BY DEF FeedTypes, ChatSteps
<1>4. Disconnected \in Bridges /\ Disconnected.ring = <<>>
    BY <1>1, <1>2, <1>3 DEF Bridges, Sockets
<1> DEFINE d == Disconnected
<1>5. d \in Bridges /\ d.ring = <<>>
    BY <1>4
<1> HIDE DEF d
<1>6. /\ [d EXCEPT !.phase = "idle", !.refused = 0] \in Bridges
      /\ [d EXCEPT !.phase = "idle", !.refused = 0].ring = <<>>
    BY <1>5 DEF Bridges, Phases
<1>7. /\ [d EXCEPT !.socket = "opening", !.phase = "connecting", !.using = chatAt.token] \in Bridges
      /\ [d EXCEPT !.socket = "opening", !.phase = "connecting", !.using = chatAt.token].ring = <<>>
    BY <1>3, <1>5 DEF Bridges, Phases, Sockets
<1> QED BY <1>4, <1>6, <1>7 DEF d

LEMMA SyncFits == ASSUME FeedInv, Sync PROVE FeedInv'
<1>0. UNCHANGED <<chat, panel, deleted, missed, spent>> /\ chatAt' = [chatAt EXCEPT !.at = "flush"] /\ FeedTypes
    BY DEF Sync, FeedInv
<1>1. chatAt' \in ChatSteps
    BY <1>0 DEF FeedTypes, ChatSteps
<1>2. flusher' \in Flushers
    BY <1>0, FlushersFit DEF Sync, SwitchesOff, KeepsConnection, WaitsForCooldown, Reconnects, FeedTypes
<1>3. alarm' \in BOOLEAN
    <2>1. alarm' = alarm \/ \E phase \in Phases : alarm' = AlarmAfter(phase)
        BY Zenon DEF Sync, SwitchesOff, KeepsConnection, WaitsForCooldown, Reconnects, Phases
    <2>2. alarm \in BOOLEAN
        BY <1>0, Zenon DEF FeedTypes
    <2> QED BY Zenon, <1>0, <2>1, <2>2, AlarmFits
<1>4. bridge' \in Bridges /\ (bridge'.ring = <<>> \/ bridge'.ring = bridge.ring)
    <2>1. bridge \in Bridges
        BY <1>0 DEF FeedTypes
    <2>2. [bridge EXCEPT !.phase = "login-rejected"] \in Bridges /\ [bridge EXCEPT !.phase = "login-rejected"].ring = bridge.ring
        BY <2>1 DEF Bridges, Phases
    <2>3. \/ bridge' \in {bridge, [bridge EXCEPT !.phase = "login-rejected"]}
          \/ bridge' = [Disconnected EXCEPT !.phase = "idle", !.refused = 0]
          \/ bridge' = [Disconnected EXCEPT !.socket = "opening", !.phase = "connecting", !.using = chatAt.token]
        BY DEF Sync, SwitchesOff, KeepsConnection, WaitsForCooldown, Reconnects
    <2> QED BY <1>0, <2>1, <2>2, <2>3, DisconnectedFits
<1>5. Len(bridge'.ring) <= Ring
    BY <1>4, FeedConstants DEF FeedInv, FeedFits
<1> QED BY <1>0, <1>1, <1>2, <1>3, <1>4, <1>5 DEF FeedInv, FeedTypes, FeedFits

LEMMA ConnectionFits ==
    ASSUME FeedInv, LoginAccepted \/ LoginRefused \/ ConnectionEnds \/ CloseIsNoted \/ CooldownEnds
    PROVE  FeedInv'
<1>0. UNCHANGED <<chat, panel, flusher, chatAt, deleted, missed>> /\ FeedTypes /\ bridge \in Bridges
    BY DEF FeedInv, FeedTypes, LoginAccepted, LoginRefused, ConnectionEnds, CloseIsNoted, CooldownEnds
<1>1. spent' \in Nat
    BY <1>0 DEF FeedTypes, LoginAccepted, LoginRefused, ConnectionEnds, CloseIsNoted, CooldownEnds, Spends
<1>2. alarm' \in BOOLEAN
    <2>1. alarm' = alarm \/ \E phase \in Phases : alarm' = AlarmAfter(phase)
        BY Zenon DEF LoginAccepted, LoginRefused, ConnectionEnds, CloseIsNoted, CooldownEnds, Phases
    <2>2. alarm \in BOOLEAN
        BY <1>0, Zenon DEF FeedTypes
    <2> QED BY Zenon, <1>0, <2>1, <2>2, AlarmFits
<1>3. bridge' \in Bridges /\ bridge'.ring = bridge.ring
    <2>1. CASE LoginAccepted
        BY <1>0, <2>1 DEF LoginAccepted, Bridges, Sockets, Phases
    <2>2. CASE LoginRefused
        BY <1>0, <2>2 DEF LoginRefused, Bridges, Sockets, Phases
    <2>3. CASE ConnectionEnds
        BY <1>0, <2>3 DEF ConnectionEnds, Bridges, Sockets
    <2>4. CASE CloseIsNoted
        <3>1. PICK phase \in Phases : bridge' = [bridge EXCEPT !.closing = FALSE, !.phase = phase]
            BY <1>0, <2>4 DEF CloseIsNoted, Phases
        <3> QED BY <1>0, <3>1 DEF Bridges
    <2>5. CASE CooldownEnds
        BY <1>0, <2>5 DEF CooldownEnds, Bridges
    <2> QED BY <2>1, <2>2, <2>3, <2>4, <2>5
<1> QED BY <1>0, <1>1, <1>2, <1>3 DEF FeedInv, FeedTypes, FeedFits

LEMMA SayFits == ASSUME FeedInv, NEW line \in Lines, Say(line) PROVE FeedInv'
<1>0. UNCHANGED <<chat, panel, alarm, chatAt, deleted, missed, spent>> /\ FeedTypes /\ bridge \in Bridges
      /\ bridge.ring \in Seq(Lines)
    BY DEF FeedInv, FeedTypes, Say, Bridges
<1> DEFINE ring == LastOf(Append(bridge.ring, line), Ring)
<1>1. Append(bridge.ring, line) \in Seq(Lines)
    BY <1>0
<1>2. ring \in Seq(Lines) /\ Len(ring) <= Ring
    BY <1>1, LastLinesFit, FeedConstants
<1>3. bridge' = [bridge EXCEPT !.ring = ring] /\ flusher' = ChangesReachTimer
    BY DEF Say
<1> HIDE DEF ring
<1>4. bridge' \in Bridges /\ bridge'.ring = ring
    BY <1>0, <1>2, <1>3 DEF Bridges
<1>5. flusher' \in Flushers
    BY <1>0, <1>3, FlushersFit
<1> QED BY <1>0, <1>2, <1>4, <1>5 DEF FeedInv, FeedTypes, FeedFits

LEMMA SaidAreLines == FeedTypes => SaidSoFar \subseteq Lines /\ \A gone \in Cleared : gone \subseteq Lines
<1> SUFFICES ASSUME FeedTypes PROVE SaidSoFar \subseteq Lines /\ \A gone \in Cleared : gone \subseteq Lines
    OBVIOUS
<1>1. bridge.ring \in Seq(Lines) /\ panel.lines \in Seq(Lines) /\ deleted \subseteq Lines /\ missed \subseteq Lines
    BY DEF FeedTypes, Bridges, Panels
<1>2. \A s \in Seq(Lines) : ToSet(s) \subseteq Lines
    BY DEF ToSet
<1>3. SaidSoFar \subseteq Lines
    BY <1>1, <1>2 DEF SaidSoFar
<1>4. \A gone \in Cleared : gone \subseteq SaidSoFar
    BY DEF Cleared
<1> QED BY <1>3, <1>4

LEMMA ModerationFits ==
    ASSUME FeedInv, NEW gone \in Cleared, Moderate(gone) \/ ModerateUnheard(gone)
    PROVE  FeedInv'
<1>0. FeedTypes /\ gone \subseteq Lines /\ bridge \in Bridges /\ deleted \subseteq Lines /\ missed \subseteq Lines
    BY SaidAreLines DEF FeedInv, FeedTypes
<1>1. UNCHANGED <<chat, panel, alarm, chatAt, spent>>
    BY DEF Moderate, ModerateUnheard
<1>2. deleted' \subseteq Lines /\ missed' \subseteq Lines
    BY <1>0 DEF Moderate, ModerateUnheard
<1>3. CASE Moderate(gone)
    <2>1. LeftAfter(gone) \in Seq(Lines) /\ Len(LeftAfter(gone)) <= Len(bridge.ring)
        BY <1>0, LeftFits
    <2>2. bridge' = [bridge EXCEPT !.ring = LeftAfter(gone)]
        BY <1>3 DEF Moderate
    <2>3. bridge' \in Bridges /\ bridge'.ring = LeftAfter(gone)
        BY <1>0, <2>1, <2>2 DEF Bridges
    <2>4. flusher' \in {flusher, ChangesReachTimer}
        BY <1>3 DEF Moderate
    <2>5. flusher' \in Flushers
        BY <1>0, <2>4, FlushersFit DEF FeedTypes
    <2>6. Len(bridge'.ring) <= Ring
        <3>1. Len(bridge.ring) \in Nat /\ Len(LeftAfter(gone)) \in Nat
            BY <1>0, <2>1 DEF Bridges
        <3> QED BY <2>1, <2>3, <3>1, FeedConstants DEF FeedInv, FeedFits
    <2> QED BY <1>0, <1>1, <1>2, <2>3, <2>5, <2>6 DEF FeedInv, FeedTypes, FeedFits
<1>4. CASE ModerateUnheard(gone)
    <2>1. UNCHANGED <<bridge, flusher>>
        BY <1>4 DEF ModerateUnheard
    <2> QED BY <1>0, <1>1, <1>2, <2>1 DEF FeedInv, FeedTypes, FeedFits
<1> QED BY <1>3, <1>4

LEMMA OperatorFits ==
    ASSUME FeedInv, \E on \in BOOLEAN : SwitchPanel(on) \/ SwitchOthers(on) \/ NewToken(on)
    PROVE  FeedInv'
<1>1. UNCHANGED <<panel, alarm, bridge, flusher, chatAt, deleted, missed>>
    BY DEF SwitchPanel, SwitchOthers, NewToken
<1>2. spent' \in Nat
    BY DEF SwitchPanel, SwitchOthers, NewToken, Spends, FeedInv, FeedTypes
<1>3. \E on \in BOOLEAN : \/ chat' = [chat EXCEPT !.rail = on] \/ chat' = [chat EXCEPT !.others = on]
                          \/ chat' = [chat EXCEPT !.token = chat.token + 1, !.good = on]
    BY DEF SwitchPanel, SwitchOthers, NewToken
<1>4. chat' \in [rail : BOOLEAN, others : BOOLEAN, token : Nat, good : BOOLEAN]
    <2>1. PICK on \in BOOLEAN : \/ chat' = [chat EXCEPT !.rail = on] \/ chat' = [chat EXCEPT !.others = on]
                                \/ chat' = [chat EXCEPT !.token = chat.token + 1, !.good = on]
        BY <1>3
    <2>2. chat \in [rail : BOOLEAN, others : BOOLEAN, token : Nat, good : BOOLEAN]
        BY DEF FeedInv, FeedTypes
    <2>3. CASE chat' = [chat EXCEPT !.rail = on]
        BY ONLY <2>2, <2>3
    <2>4. CASE chat' = [chat EXCEPT !.others = on]
        BY ONLY <2>2, <2>4
    <2>5. CASE chat' = [chat EXCEPT !.token = chat.token + 1, !.good = on]
        <3>1. chat.token + 1 \in Nat
            BY ONLY <2>2
        <3> QED BY ONLY <2>2, <2>5, <3>1
    <2> QED BY <2>1, <2>3, <2>4, <2>5
<1> QED BY <1>1, <1>2, <1>4 DEF FeedInv, FeedTypes, FeedFits

LEMMA FeedRestartFits == ASSUME FeedInv, FeedRestarts PROVE FeedInv'
<1>1. UNCHANGED <<chat, alarm, deleted, missed>> /\ bridge' = NewBridge /\ flusher' = NewFlusher /\ chatAt' = AtNone
    BY DEF FeedRestarts
<1>2. spent' \in Nat
    BY DEF FeedRestarts, Spends, FeedInv, FeedTypes
<1>3. panel' \in Panels /\ Len(panel'.lines) <= Stored
    <2>1. CASE panel' = panel
        BY <2>1 DEF FeedInv, FeedTypes, FeedFits
    <2>2. CASE panel' # panel
        <3>1. flusher.writes # <<>> /\ panel' = [Head(flusher.writes).record EXCEPT !.lines = LastOf(@, Stored)]
            BY <2>2 DEF FeedRestarts
        <3>2. Head(flusher.writes) \in FeedWrites
            BY <3>1 DEF FeedInv, FeedTypes, Flushers
        <3>3. Head(flusher.writes).record \in Panels
            BY <3>2 DEF FeedWrites
        <3> QED BY <3>1, <3>3, RowFits
    <2> QED BY <2>1, <2>2
<1>4. Len(bridge'.ring) <= Ring
    BY <1>1, FeedConstants DEF NewBridge
<1> QED BY <1>1, <1>2, <1>3, <1>4, FreshFeed DEF FeedInv, FeedTypes, FeedFits

LEMMA FeedSteps == FeedInv /\ [FeedNext]_feedVars => FeedInv'
<1> SUFFICES ASSUME FeedInv, [FeedNext]_feedVars PROVE FeedInv'
    OBVIOUS
<1>1. CASE UNCHANGED feedVars
    BY <1>1 DEF feedVars, FeedInv, FeedTypes, FeedFits
<1> QED BY <1>1, ReadAndFlushFit, AnswerFits, SyncFits, ConnectionFits, SayFits, ModerationFits, OperatorFits,
           FeedRestartFits
        DEF FeedNext, FeedCycle

LEMMA FeedInvHolds == FeedInit /\ [][FeedNext]_feedVars => []FeedInv
BY FeedStarts, FeedSteps, PTL

\* The bridge, its flushes and the row keep their types: what is written is a record of lines that were
\* said, whatever is moderated, cut or restarted between a flush and its write.
THEOREM FeedTypeCorrect == FeedInit /\ [][FeedNext]_feedVars => []FeedTypeOK
<1>1. FeedInv => FeedTypeOK
    <2> SUFFICES ASSUME FeedInv PROVE FeedTypeOK
        OBVIOUS
    <2>1. \A i \in 1..Len(flusher.writes) : flusher.writes[i].record \in Panels
        <3>1. flusher.writes \in Seq(FeedWrites)
            BY DEF FeedInv, FeedTypes, Flushers
        <3>2. \A i \in 1..Len(flusher.writes) : flusher.writes[i] \in FeedWrites
            BY <3>1
        <3> QED BY <3>2 DEF FeedWrites
    <2>2. alarm \in BOOLEAN
        BY Zenon DEF FeedInv, FeedTypes
    <2>3. chat \in [rail : BOOLEAN, others : BOOLEAN, token : Nat, good : BOOLEAN] /\ panel \in Panels
        BY DEF FeedInv, FeedTypes
    <2>4. /\ bridge \in [socket : Sockets, closing : BOOLEAN, phase : Phases, using : Nat, refused : Nat, ring : Seq(Lines)]
          /\ flusher.rail \in {"unread", "on", "off"} /\ flusher.timer \in BOOLEAN
          /\ chatAt.at \in {"idle", "sync", "flush", "writing"}
          /\ deleted \cup missed \subseteq Lines /\ spent \in Nat
        BY DEF FeedInv, FeedTypes, Bridges, Flushers, ChatSteps
    <2> QED BY Zenon, <2>1, <2>2, <2>3, <2>4 DEF FeedTypeOK
<1> QED BY <1>1, FeedInvHolds, PTL

\* Whatever is said and however the flushes and the writes follow each other, the ring and the row hold
\* no more lines than their capacity (TwitchChatBridge's ring, CHAT_OVERLAY_MESSAGES_STORED_MAX).
THEOREM ChatIsBounded ==
    FeedInit /\ [][FeedNext]_feedVars => [](Len(bridge.ring) <= Ring /\ Len(panel.lines) <= Stored)
<1>1. FeedInv => Len(bridge.ring) <= Ring /\ Len(panel.lines) <= Stored
    BY DEF FeedInv, FeedFits
<1> QED BY <1>1, FeedInvHolds, PTL

---------------------------------------------------------------------------
(* All of it                                                               *)

\* Each part runs by its own steps, whichever is looked at.
LEMMA UpkeepRunsAlone ==
    Spec => /\ FeedInit /\ [][FeedNext]_feedVars /\ MonitorsInit /\ [][MonitorsNext]_monitorVars
            /\ VodInit /\ [][VodNext]_vodVars /\ PaceInit /\ [][PaceNext]_paceVars
<1>1. Init => FeedInit /\ MonitorsInit /\ VodInit /\ PaceInit
    BY DEF Init
<1>2. [Next]_vars => /\ [FeedNext]_feedVars /\ [MonitorsNext]_monitorVars
                     /\ [VodNext]_vodVars /\ [PaceNext]_paceVars
    <2> SUFFICES ASSUME [Next]_vars
                 PROVE  /\ [FeedNext]_feedVars /\ [MonitorsNext]_monitorVars
                        /\ [VodNext]_vodVars /\ [PaceNext]_paceVars
        OBVIOUS
    <2>1. CASE InChat(FeedNext)
        BY <2>1, Zenon DEF InChat
    <2>2. CASE OnWatch(MonitorsNext)
        BY <2>2, Zenon DEF OnWatch
    <2>3. CASE OnVods(VodNext)
        BY <2>3, Zenon DEF OnVods
    <2>4. CASE InPace(PaceNext)
        BY <2>4, Zenon DEF InPace
    <2>5. CASE UNCHANGED vars
        BY <2>5, Zenon DEF vars
    <2> QED BY <2>1, <2>2, <2>3, <2>4, <2>5 DEF Next
<1> QED BY <1>1, <1>2, PTL DEF Spec

\* Whatever is looked at, its variables keep their types: the chat on air, the monitors, the archives'
\* downloads, the pace of the loop.
THEOREM UpkeepTypesCorrect == Spec => []TypesOK
<1>1. FeedTypeOK /\ MonitorsTypeOK /\ VodTypeOK /\ PaceTypeOK => TypesOK
    BY Zenon DEF TypesOK
<1>2. PaceInit /\ [][PaceNext]_paceVars => []PaceTypeOK
    <2>1. PaceInv => PaceTypeOK
        BY DEF PaceInv
    <2> QED BY <2>1, PaceInvHolds, PTL
<1> QED BY <1>1, <1>2, UpkeepRunsAlone, FeedTypeCorrect, MonitorsTypeCorrect, VodTypeCorrect, PTL
=============================================================================

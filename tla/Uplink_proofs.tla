----------------------------- MODULE Uplink_proofs -----------------------------
(***************************************************************************)
(* What the uplink's watchdog keeps for any set of destinations and output *)
(* profiles, any pauses and graces, and any number of faults: no profile   *)
(* that is to deliver is dark for longer than the longest pause, and its   *)
(* restarts are rationed.                                                  *)
(***************************************************************************)
EXTENDS Uplink, FiniteSetTheorems, TLAPS

---------------------------------------------------------------------------
(* The uplink's watchdog                                                   *)

\* A power of two counts the subsets of a finite set, so it is a natural number and not zero.
LEMMA PowersOfTwo ==
    \A k \in Nat : 2^k \in Nat /\ 2^k > 0
<1> SUFFICES ASSUME NEW k \in Nat PROVE 2^k \in Nat /\ 2^k > 0
    OBVIOUS
<1>1. IsFiniteSet(1..k) /\ Cardinality(1..k) = k
    BY FS_Interval
<1>2. IsFiniteSet(SUBSET (1..k)) /\ Cardinality(SUBSET (1..k)) = 2^k
    BY <1>1, FS_SUBSET
<1>3. Cardinality(SUBSET (1..k)) \in Nat
    BY <1>2, FS_CardinalityType
<1>4. SUBSET (1..k) # {}
    OBVIOUS
<1>5. Cardinality(SUBSET (1..k)) # 0
    BY <1>2, <1>4, FS_EmptySet
<1> QED BY <1>2, <1>3, <1>5

LEMMA PauseIsMeasured ==
    \A n \in Nat : PauseAfter(n) \in 0..MaxPause /\ (PauseAfter(n) = 0 => n = 0)
<1> SUFFICES ASSUME NEW n \in Nat, n # 0
             PROVE  PauseAfter(n) \in 0..MaxPause /\ PauseAfter(n) # 0
    BY UplinkAssumption DEF PauseAfter, UplinkAssumption
<1>1. FirstPause \in Nat /\ FirstPause > 0 /\ MaxPause \in Nat /\ MaxPause > 0
    BY UplinkAssumption DEF UplinkAssumption
<1>2. 2^(n - 1) \in Nat /\ 2^(n - 1) > 0
    <2>1. n - 1 \in Nat
        OBVIOUS
    <2> QED BY <2>1, PowersOfTwo
<1>3. \A a, b \in Nat : a > 0 /\ b > 0 => a * b \in Nat /\ a * b > 0
    OBVIOUS
<1>4. FirstPause * 2^(n - 1) \in Nat /\ FirstPause * 2^(n - 1) > 0
    BY <1>1, <1>2, <1>3
<1> QED BY <1>1, <1>4 DEF PauseAfter

---------------------------------------------------------------------------
(* What the watchdog makes of a running profile                            *)

Records == [restarts : Nat, lastAt : Int, hold : {NoHold} \cup Until, wait : Int,
            grace : {NoGrace} \cup Until, restartedAt : Int]

\* v is a verdict about a profile whose record was w, that is not held, whose encoder delivers output:
\* it counts when it says so, sets a hold for a counted restart only, and a grace that is not the one
\* it had begins after a quiet time.
Measured(v, w, o, output) ==
    /\ v.w \in Records /\ v.pause \in 0..MaxPause
    /\ v.kind \in {"none", "storm", "outage", "grace", "counted"}
    /\ v.w.hold # NoHold =>
          /\ v.kind = "counted" /\ v.pause > 0
          /\ v.w.hold.until = time.now + v.pause /\ v.w.hold.output = output
    /\ v.kind = "none" => v.w.restartedAt = w.restartedAt
    /\ v.kind # "none" => v.w.restartedAt >= time.now
    /\ v.kind \in {"storm", "counted"} => v.w.lastAt >= time.now /\ v.w.restarts >= 1
    /\ v.kind \notin {"storm", "counted"} => v.w.restarts = w.restarts /\ v.w.lastAt = w.lastAt
    /\ v.kind = "counted" => ~o.open /\ (v.pause = 0 => w.restarts = 0 \/ time.now - w.lastAt > Quiet)
    /\ v.kind = "grace" => v.w.grace # NoGrace /\ time.now < v.w.grace.until
    /\ \/ v.w.grace = NoGrace \/ v.w.grace = w.grace
       \/ time.now - w.restartedAt >= Quiet /\ v.w.grace.until <= time.now + ReconnectGrace

LEMMA StreakType ==
    \A w \in Records, t \in Int : Streak(w, t) \in Nat
BY UplinkAssumption DEF Streak, Records, UplinkAssumption

LEMMA RecordedType ==
    \A w \in Records, t \in Int :
        /\ Recorded(w, t) \in Records
        /\ Recorded(w, t).restarts >= 1 /\ Recorded(w, t).lastAt = t
        /\ Recorded(w, t).hold = w.hold /\ Recorded(w, t).grace = w.grace
        /\ Recorded(w, t).restartedAt = w.restartedAt
<1> SUFFICES ASSUME NEW w \in Records, NEW t \in Int
             PROVE  /\ Recorded(w, t) \in Records
                    /\ Recorded(w, t).restarts >= 1 /\ Recorded(w, t).lastAt = t
                    /\ Recorded(w, t).hold = w.hold /\ Recorded(w, t).grace = w.grace
                    /\ Recorded(w, t).restartedAt = w.restartedAt
    OBVIOUS
<1>1. Streak(w, t) \in Nat
    BY StreakType
<1> DEFINE n == Streak(w, t)
<1>2. n + 1 \in Nat /\ n + 1 >= 1
    BY <1>1
<1>3. Recorded(w, t) = [[w EXCEPT !.restarts = n + 1] EXCEPT !.lastAt = t]
    BY DEF Recorded, Records
<1> HIDE DEF n
<1> QED BY <1>2, <1>3 DEF Records

\* The verdict of a decision by its kind.
LEMMA DecisionIsMeasured ==
    ASSUME NEW w \in Records, NEW v, NEW o, NEW output, NEW x \in Records, NEW pause \in 0..MaxPause, NEW kind,
           time.now \in Nat, MaxPause \in Nat, 
           v.w = x, v.pause = pause, v.kind = kind,
           \/ x.grace = NoGrace \/ x.grace = w.grace
           \/ time.now - w.restartedAt >= Quiet /\ x.grace.until <= time.now + ReconnectGrace,
           \/ /\ kind = "none" /\ x.hold = NoHold /\ x.restartedAt = w.restartedAt /\ x.restarts = w.restarts
              /\ x.lastAt = w.lastAt
           \/ /\ kind \in {"outage", "grace"} /\ x.hold = NoHold /\ x.restartedAt = time.now
              /\ x.restarts = w.restarts /\ x.lastAt = w.lastAt
              /\ kind = "grace" => x.grace # NoGrace /\ time.now < x.grace.until
           \/ /\ kind = "storm" /\ x.hold = NoHold /\ x.restartedAt = time.now /\ x.restarts >= 1
              /\ x.lastAt = time.now
           \/ /\ kind = "counted" /\ x.restartedAt = time.now + pause /\ x.restarts >= 1
              /\ x.lastAt = time.now + pause /\ ~o.open
              /\ x.hold # NoHold => pause > 0 /\ x.hold.until = time.now + pause /\ x.hold.output = output
              /\ pause = 0 => w.restarts = 0 \/ time.now - w.lastAt > Quiet
    PROVE  Measured(v, w, o, output)
<1>1. v.w \in Records /\ v.pause \in 0..MaxPause
    OBVIOUS
<1>2. v.kind \in {"none", "storm", "outage", "grace", "counted"}
    OBVIOUS
<1>3. v.w.hold # NoHold =>
          /\ v.kind = "counted" /\ v.pause > 0
          /\ v.w.hold.until = time.now + v.pause /\ v.w.hold.output = output
    OBVIOUS
<1>4. v.kind = "none" => v.w.restartedAt = w.restartedAt
    OBVIOUS
<1>5. v.kind # "none" => v.w.restartedAt >= time.now
    OBVIOUS
<1>6. v.kind \in {"storm", "counted"} => v.w.lastAt >= time.now /\ v.w.restarts >= 1
    OBVIOUS
<1>7. v.kind \notin {"storm", "counted"} => v.w.restarts = w.restarts /\ v.w.lastAt = w.lastAt
    OBVIOUS
<1>8. v.kind = "counted" => ~o.open /\ (v.pause = 0 => w.restarts = 0 \/ time.now - w.lastAt > Quiet)
    OBVIOUS
<1>9. v.kind = "grace" => v.w.grace # NoGrace /\ time.now < v.w.grace.until
    OBVIOUS
<1>10. \/ v.w.grace = NoGrace \/ v.w.grace = w.grace
       \/ time.now - w.restartedAt >= Quiet /\ v.w.grace.until <= time.now + ReconnectGrace
    OBVIOUS
<1> QED BY <1>1, <1>2, <1>3, <1>4, <1>5, <1>6, <1>7, <1>8, <1>9, <1>10 DEF Measured

LEMMA KeptIsMeasured ==
    ASSUME NEW w \in Records, NEW x \in Int, NEW o, NEW output, time.now \in Nat, w.hold = NoHold
    PROVE  Measured(Kept(w), w, o, output) /\ Measured(Kept([w EXCEPT !.wait = x]), w, o, output)
<1>0. 0 \in 0..MaxPause /\ MaxPause \in Nat
    BY UplinkAssumption DEF UplinkAssumption
<1>1. \A y \in Records : /\ y.hold = NoHold /\ y.restartedAt = w.restartedAt /\ y.grace = w.grace
                          /\ y.restarts = w.restarts /\ y.lastAt = w.lastAt
                          => Measured(Kept(y), w, o, output)
    <2> SUFFICES ASSUME NEW y \in Records,
                        y.hold = NoHold, y.restartedAt = w.restartedAt, y.grace = w.grace,
                        y.restarts = w.restarts, y.lastAt = w.lastAt
                 PROVE  Measured(Kept(y), w, o, output)
        OBVIOUS
    <2> DEFINE v == Kept(y)
    <2>1. v.w = y /\ v.kind = "none" /\ v.pause = 0
        BY DEF Kept
    <2> HIDE DEF v
    <2>2. Measured(v, w, o, output)
        BY <1>0, <2>1, DecisionIsMeasured
    <2> QED BY <2>2 DEF v
<1>2. /\ [w EXCEPT !.wait = x] \in Records /\ [w EXCEPT !.wait = x].hold = NoHold
      /\ [w EXCEPT !.wait = x].restartedAt = w.restartedAt /\ [w EXCEPT !.wait = x].grace = w.grace
      /\ [w EXCEPT !.wait = x].restarts = w.restarts /\ [w EXCEPT !.wait = x].lastAt = w.lastAt
    BY DEF Records
<1> QED BY <1>1, <1>2

LEMMA RestartIsMeasured ==
    ASSUME NEW w \in Records, NEW o, NEW output, NEW x \in Records, NEW pause \in 0..MaxPause, NEW kind,
           time.now \in Nat, MaxPause \in Nat,
           \/ x.grace = NoGrace \/ x.grace = w.grace
           \/ time.now - w.restartedAt >= Quiet /\ x.grace.until <= time.now + ReconnectGrace,
           \/ /\ kind \in {"outage", "grace"} /\ pause = 0 /\ x.hold = NoHold
              /\ x.restarts = w.restarts /\ x.lastAt = w.lastAt
              /\ kind = "grace" => x.grace # NoGrace /\ time.now < x.grace.until
           \/ /\ kind = "storm" /\ pause = 0 /\ x.hold = NoHold /\ x.restarts >= 1 /\ x.lastAt = time.now
           \/ /\ kind = "counted" /\ x.restarts >= 1 /\ x.lastAt = time.now + pause /\ ~o.open
              /\ x.hold # NoHold => pause > 0 /\ x.hold.until = time.now + pause /\ x.hold.output = output
              /\ pause = 0 => w.restarts = 0 \/ time.now - w.lastAt > Quiet
    PROVE  Measured(Restarted(x, kind, pause), w, o, output)
<1> DEFINE y == [x EXCEPT !.restartedAt = time.now + pause]
           v == Restarted(x, kind, pause)
<1>1. v.w = y /\ v.kind = kind /\ v.pause = pause
    BY DEF Restarted
<1>2. /\ y \in Records /\ y.restartedAt = time.now + pause
      /\ y.hold = x.hold /\ y.grace = x.grace /\ y.restarts = x.restarts /\ y.lastAt = x.lastAt
    BY DEF Records
<1> HIDE DEF v, y
<1>3. pause = 0 => y.restartedAt = time.now
    BY <1>2
<1>4. Measured(v, w, o, output)
    BY <1>1, <1>2, <1>3, DecisionIsMeasured
<1> QED BY <1>4 DEF v

LEMMA StormIsMeasured ==
    ASSUME NEW w \in Records, NEW o, NEW output, time.now \in Nat, w.hold = NoHold
    PROVE  Measured(DecideStorm(w), w, o, output)
<1> DEFINE pause == PauseAfter(Streak(w, time.now))
           w2 == [Recorded(w, time.now) EXCEPT !.wait = Never]
<1>1. pause \in 0..MaxPause /\ MaxPause \in Nat
    BY StreakType, PauseIsMeasured, UplinkAssumption DEF UplinkAssumption
<1>2. Measured(Kept(w), w, o, output) /\ Measured(Kept([w EXCEPT !.wait = time.now + pause]), w, o, output)
    BY <1>1, KeptIsMeasured
<1>3. Measured(Restarted(w2, "storm", 0), w, o, output)
    <2>1. /\ Recorded(w, time.now) \in Records /\ Recorded(w, time.now).restarts >= 1
          /\ Recorded(w, time.now).lastAt = time.now /\ Recorded(w, time.now).hold = w.hold
          /\ Recorded(w, time.now).grace = w.grace
        BY RecordedType
    <2>2. /\ w2 \in Records /\ w2.restarts >= 1 /\ w2.lastAt = time.now /\ w2.hold = NoHold /\ w2.grace = w.grace
        BY <2>1 DEF Records, Never
    <2>3. 0 \in 0..MaxPause
        BY <1>1
    <2> HIDE DEF w2
    <2> QED BY <1>1, <2>2, <2>3, RestartIsMeasured
<1>4. DecideStorm(w) \in {Kept(w), Kept([w EXCEPT !.wait = time.now + pause]), Restarted(w2, "storm", 0)}
    BY DEF DecideStorm
<1> HIDE DEF pause, w2
<1> QED BY <1>2, <1>3, <1>4

LEMMA GraceIsMeasured ==
    ASSUME NEW w \in Records, NEW since \in Int, NEW onAirSince \in Int, NEW output \in Outputs,
           time.now \in Nat, since <= time.now
    PROVE  LET g == GraceOf(w, since, onAirSince, output)
           IN  /\ g \in {NoGrace} \cup Until
               /\ g # NoGrace => /\ time.now < g.until
                                 /\ \/ g = w.grace
                                    \/ time.now - w.restartedAt >= Quiet /\ g.until <= time.now + ReconnectGrace
BY UplinkAssumption DEF GraceOf, Records, Until, UplinkAssumption

LEMMA DarkIsMeasured ==
    ASSUME NEW w \in Records, NEW o, NEW since \in Int, NEW onAirSince \in Int, NEW output \in Outputs,
           time.now \in Nat, since <= time.now, w.hold = NoHold
    PROVE  Measured(DecideDark(w, o, since, onAirSince, output), w, o, output)
<1> DEFINE g == GraceOf(w, since, onAirSince, output)
           w1 == [w EXCEPT !.wait = Never, !.grace = g]
           pause == PauseAfter(Streak(w, time.now))
           hold == IF pause = 0 THEN NoHold ELSE [until |-> time.now + pause, output |-> output]
           w2 == [Recorded(w1, time.now + pause) EXCEPT !.hold = hold]
<1>1. /\ g \in {NoGrace} \cup Until
      /\ g # NoGrace => time.now < g.until
      /\ \/ g = NoGrace \/ g = w.grace
         \/ time.now - w.restartedAt >= Quiet /\ g.until <= time.now + ReconnectGrace
    BY GraceIsMeasured
<1>2. pause \in 0..MaxPause /\ MaxPause \in Nat /\ (pause = 0 => Streak(w, time.now) = 0)
    BY StreakType, PauseIsMeasured, UplinkAssumption DEF UplinkAssumption
<1> HIDE DEF g
<1>3. /\ w1 \in Records /\ w1.hold = NoHold /\ w1.grace = g /\ w1.restarts = w.restarts /\ w1.lastAt = w.lastAt
    <2>1. [w EXCEPT !.wait = Never] \in Records
        BY DEF Records, Never
    <2>2. w1 = [[w EXCEPT !.wait = Never] EXCEPT !.grace = g]
        BY DEF Records
    <2> QED BY <1>1, <2>1, <2>2 DEF Records
<1>4. Streak(w, time.now) = 0 => w.restarts = 0 \/ time.now - w.lastAt > Quiet
    BY DEF Streak
<1> HIDE DEF w1, pause
<1>0. 0 \in 0..MaxPause
    BY <1>2
<1>5. Measured(Restarted([w1 EXCEPT !.hold = NoHold], "outage", 0), w, o, output)
    <2> DEFINE x == [w1 EXCEPT !.hold = NoHold]
    <2>1. x \in Records /\ x.hold = NoHold /\ x.grace = g /\ x.restarts = w.restarts /\ x.lastAt = w.lastAt
        BY <1>3 DEF Records
    <2> HIDE DEF x
    <2>2. Measured(Restarted(x, "outage", 0), w, o, output)
        BY <1>0, <1>1, <1>2, <2>1, RestartIsMeasured
    <2> QED BY <2>2 DEF x
<1>6. ASSUME g # NoGrace PROVE Measured(Restarted(w1, "grace", 0), w, o, output)
    BY <1>0, <1>1, <1>2, <1>3, <1>6, RestartIsMeasured
<1>7. /\ w2 \in Records /\ w2.restarts >= 1 /\ w2.lastAt = time.now + pause /\ w2.hold = hold /\ w2.grace = g
    <2>1. time.now + pause \in Int
        BY <1>2
    <2>2. /\ Recorded(w1, time.now + pause) \in Records /\ Recorded(w1, time.now + pause).restarts >= 1
          /\ Recorded(w1, time.now + pause).lastAt = time.now + pause /\ Recorded(w1, time.now + pause).grace = g
        BY <1>3, <2>1, RecordedType
    <2>3. [until |-> time.now + pause, output |-> output] \in Until
        BY <2>1 DEF Until
    <2>4. hold \in {NoHold} \cup Until
        BY <2>3
    <2> DEFINE y == Recorded(w1, time.now + pause)
    <2>5. w2 = [y EXCEPT !.hold = hold]
        OBVIOUS
    <2>6. y \in Records /\ y.restarts >= 1 /\ y.lastAt = time.now + pause /\ y.grace = g
        BY <2>2
    <2> HIDE DEF hold, y, w2
    <2> QED BY <2>4, <2>5, <2>6 DEF Records
<1>8. hold # NoHold => pause > 0 /\ hold.until = time.now + pause /\ hold.output = output
    BY <1>2
<1> HIDE DEF w2, hold
<1>9. ~o.open => Measured(Restarted(w2, "counted", pause), w, o, output)
    BY <1>1, <1>2, <1>4, <1>7, <1>8, RestartIsMeasured
<1>10. DecideDark(w, o, since, onAirSince, output) =
          IF o.open \/ o.at >= since THEN Restarted([w1 EXCEPT !.hold = NoHold], "outage", 0)
          ELSE IF g # NoGrace THEN Restarted(w1, "grace", 0) ELSE Restarted(w2, "counted", pause)
    BY DEF DecideDark, g, w1, w2, pause, hold
<1> QED BY <1>5, <1>6, <1>9, <1>10

\* Two decisions in a row, of which the first left the process alone.
LEMMA ChainIsMeasured ==
    ASSUME NEW w \in Records, NEW x \in Records, NEW v, NEW o, NEW output, time.now \in Nat,
           x.restarts = w.restarts, x.lastAt = w.lastAt, x.restartedAt = w.restartedAt,
           \/ x.grace = NoGrace \/ x.grace = w.grace
           \/ time.now - w.restartedAt >= Quiet /\ x.grace.until <= time.now + ReconnectGrace,
           Measured(v, x, o, output)
    PROVE  Measured(v, w, o, output)
<1>1. \/ v.w.grace = NoGrace \/ v.w.grace = w.grace
      \/ time.now - w.restartedAt >= Quiet /\ v.w.grace.until <= time.now + ReconnectGrace
    <2>1. \/ v.w.grace = NoGrace \/ v.w.grace = x.grace
          \/ time.now - w.restartedAt >= Quiet /\ v.w.grace.until <= time.now + ReconnectGrace
        BY DEF Measured
    <2> QED BY <2>1
<1> QED BY <1>1 DEF Measured

LEMMA EncoderIsMeasured ==
    ASSUME NEW p \in Profiles, NEW w \in Records, NEW o, UpTypeOK, Runs(p), w.hold = NoHold,
           procs[p].startedAt <= time.now, procs[p].advancedAt <= time.now
    PROVE  Measured(EncoderVerdict(p, w, o), w, o, procs[p].output)
<1> DEFINE run == procs[p]
           onAirSince == IF run.seen THEN run.startedAt ELSE Never
           storm == IF ~run.storm THEN Kept([w EXCEPT !.wait = Never]) ELSE DecideStorm(w)
<1>1. time.now \in Nat
    BY UplinkAssumption DEF UpTypeOK, UplinkAssumption
<1>2. run \in Encoders
    BY DEF UpTypeOK, Runs
<1>3. run.startedAt \in Int /\ run.advancedAt \in Int /\ onAirSince \in Int /\ run.output \in Outputs
    BY <1>2 DEF Encoders, Never
<1>4. Never \in Int
    BY DEF Never
<1>5. Measured(Kept(w), w, o, run.output) /\ Measured(Kept([w EXCEPT !.wait = Never]), w, o, run.output)
    BY <1>1, <1>4, KeptIsMeasured
<1>6. Measured(storm, w, o, run.output)
    BY <1>1, <1>5, StormIsMeasured
<1>7. Measured(DecideDark(w, o, run.startedAt, onAirSince, run.output), w, o, run.output)
    BY <1>1, <1>3, DarkIsMeasured
<1>8. ASSUME storm.kind = "none"
      PROVE  Measured(DecideDark(storm.w, o, run.advancedAt, onAirSince, run.output), w, o, run.output)
    <2> DEFINE x == storm.w
    <2>1. /\ x \in Records /\ x.hold = NoHold /\ x.restarts = w.restarts /\ x.lastAt = w.lastAt
          /\ x.restartedAt = w.restartedAt
          /\ \/ x.grace = NoGrace \/ x.grace = w.grace
             \/ time.now - w.restartedAt >= Quiet /\ x.grace.until <= time.now + ReconnectGrace
        BY <1>6, <1>8 DEF Measured
    <2> HIDE DEF x, run, onAirSince
    <2>2. Measured(DecideDark(x, o, run.advancedAt, onAirSince, run.output), x, o, run.output)
        BY <1>1, <1>3, <2>1, DarkIsMeasured DEF run
    <2>3. Measured(DecideDark(x, o, run.advancedAt, onAirSince, run.output), w, o, run.output)
        BY <1>1, <2>1, <2>2, ChainIsMeasured
    <2> QED BY <2>3 DEF x
<1>9. EncoderVerdict(p, w, o) \in
          {Kept(w), DecideDark(w, o, run.startedAt, onAirSince, run.output), Kept([w EXCEPT !.wait = Never]), storm}
      \/ /\ storm.kind = "none"
         /\ EncoderVerdict(p, w, o) = DecideDark(storm.w, o, run.advancedAt, onAirSince, run.output)
    BY DEF EncoderVerdict
<1> HIDE DEF run, onAirSince, storm
<1>10. Measured(EncoderVerdict(p, w, o), w, o, run.output)
    BY <1>5, <1>6, <1>7, <1>8, <1>9
<1> QED BY <1>10 DEF run

LEMMA VerdictIsMeasured ==
    ASSUME NEW p \in Profiles, NEW w \in Records, NEW o, NEW rows, UpTypeOK, Runs(p), w.hold = NoHold,
           procs[p].startedAt <= time.now, procs[p].advancedAt <= time.now, stallSince[p] <= time.now
    PROVE  /\ Measured(Verdict(p, w, o, rows).v, w, o, procs[p].output)
           /\ Verdict(p, w, o, rows).since \in Int /\ Verdict(p, w, o, rows).since <= time.now
<1> DEFINE output == procs[p].output
           encoder == EncoderVerdict(p, w, o)
           x == encoder.w
           since == IF stallSince[p] = Never THEN time.now ELSE stallSince[p]
           onAirSince == IF procs[p].seen THEN procs[p].startedAt ELSE Never
           d == DecideDark(x, o, since, onAirSince, output)
<1>1. time.now \in Nat /\ stallSince[p] \in Int /\ Never \in Int /\ Never <= time.now
    BY UplinkAssumption DEF UpTypeOK, UplinkAssumption, Never
<1>2. procs[p] \in Encoders
    BY DEF UpTypeOK, Runs
<1>3. onAirSince \in Int /\ output \in Outputs /\ since \in Int /\ since <= time.now
    BY <1>1, <1>2 DEF Encoders
<1>4. Measured(encoder, w, o, output)
    BY EncoderIsMeasured
<1> HIDE DEF encoder, since, onAirSince, output
<1>5. ASSUME encoder.kind = "none"
      PROVE  Measured(Kept(x), w, o, output) /\ Measured(d, w, o, output)
    <2>1. /\ x \in Records /\ x.hold = NoHold /\ x.restarts = w.restarts /\ x.lastAt = w.lastAt
          /\ x.restartedAt = w.restartedAt
          /\ \/ x.grace = NoGrace \/ x.grace = w.grace
             \/ time.now - w.restartedAt >= Quiet /\ x.grace.until <= time.now + ReconnectGrace
        BY <1>4, <1>5 DEF Measured
    <2> HIDE DEF x
    <2>2. Measured(Kept(x), x, o, output)
        BY <1>1, <2>1, KeptIsMeasured
    <2>3. Measured(DecideDark(x, o, since, onAirSince, output), x, o, output)
        BY <1>1, <1>3, <2>1, DarkIsMeasured
    <2> QED BY <1>1, <2>1, <2>2, <2>3, ChainIsMeasured
<1>6. Verdict(p, w, o, rows) = IF encoder.kind # "none" THEN [v |-> encoder, since |-> stallSince[p]]
                               ELSE StallVerdict(p, x, o, rows)
    BY DEF Verdict, encoder
<1>7. StallVerdict(p, x, o, rows) \in {[v |-> Kept(x), since |-> Never], [v |-> Kept(x), since |-> since],
                                       [v |-> d, since |-> Never]}
    BY DEF StallVerdict, since, onAirSince, output
<1> HIDE DEF x, d
<1>8. Measured(Verdict(p, w, o, rows).v, w, o, output)
    BY <1>4, <1>5, <1>6, <1>7
<1>9. Verdict(p, w, o, rows).since \in Int /\ Verdict(p, w, o, rows).since <= time.now
    BY <1>1, <1>3, <1>6, <1>7
<1> QED BY <1>8, <1>9 DEF output

---------------------------------------------------------------------------
(* The inductive invariant                                                 *)

\* A profile is on air, noticed dark in the cycle before, or held for no longer than a pause.
Lit(p) ==
    /\ past.litAt[p] <= time.now
    /\ \/ past.litAt[p] = time.now
       \/ ~time.cycled /\ past.litAt[p] = time.now - 1
       \/ /\ watch[p].hold # NoHold /\ time.now <= watch[p].hold.until
          /\ time.cycled => time.now # watch[p].hold.until
    /\ watch[p].hold # NoHold => watch[p].hold.until <= past.litAt[p] + MaxPause + 1

\* What the profile's timers begin at has been.
Begun(p) ==
    /\ Runs(p) => procs[p].startedAt <= time.now /\ procs[p].advancedAt <= time.now
    /\ stallSince[p] <= time.now
    /\ watch[p].grace # NoGrace => watch[p].grace.until <= time.now + ReconnectGrace

\* A counted restart without a pause stays in the streak: nothing ends it but a change of the output or
\* the end of an outage, and both begin the history anew.
InStreak(p, r) ==
    r.kind = "counted" /\ r.pause = 0 =>
        /\ watch[p].lastAt >= r.at /\ watch[p].restarts >= 1
        /\ Runs(p) => procs[p].output = past.output[p]
        /\ watch[p].hold # NoHold => watch[p].hold.output = past.output[p]
        /\ ~(outage.open /\ world.net)

\* The grace in force is the one an earlier restart had, or a quiet time has passed since.
InGrace(p, r) ==
    r.kind = "grace" =>
        /\ watch[p].restartedAt >= r.at
        /\ \/ watch[p].grace = NoGrace
           \/ watch[p].grace.until <= r.at + ReconnectGrace
           \/ time.now - r.at >= Quiet

Apart(r, s) ==
    r.at < s.at =>
        /\ {r.kind, s.kind} \subseteq {"counted"} /\ r.pause = 0 /\ s.pause = 0 => s.at - r.at > Quiet
        /\ r.kind = "grace" /\ s.kind = "grace" => s.at - r.at < ReconnectGrace \/ s.at - r.at >= Quiet

Marks(p) ==
    /\ Lit(p) /\ Begun(p)
    /\ \A r \in past.restarts[p] : r.at <= time.now /\ InStreak(p, r) /\ InGrace(p, r)
    /\ \A r, s \in past.restarts[p] : Apart(r, s)

UpInv == UpTypeOK /\ \A p \in Profiles : Marks(p)

UpNumbers == /\ time.now \in Nat /\ time.now <= MaxTime
             /\ {FirstPause, MaxPause, Quiet, ReconnectGrace, MaxTime} \subseteq Nat
             /\ ReconnectGrace < Quiet

DestRow == [enabled : BOOLEAN, status : {"ready", "recovering", "missing-config", "error"},
            failedAt : Int, output : 0..1]

LEMMA UpNumbersHold == UpTypeOK => UpNumbers
BY UplinkAssumption DEF UpTypeOK, UplinkAssumption, UpNumbers

LEMMA RecordsAre == UpTypeOK => \A p \in Profiles : watch[p] \in Records
BY DEF UpTypeOK, Records

LEMMA MeasureFollows == UpInv => WatchdogKeepsMeasure
<1> SUFFICES ASSUME UpInv, NEW p \in Profiles
             PROVE  /\ time.now - past.litAt[p] <= MaxPause + 1
                    /\ \A r, s \in past.restarts[p] : Apart(r, s)
    BY DEF WatchdogKeepsMeasure, Apart
<1>1. Marks(p) /\ UpNumbers /\ past.litAt[p] \in Nat
    BY UpNumbersHold DEF UpInv, UpTypeOK, UpNumbers
<1>2. watch[p].hold # NoHold => watch[p].hold.until \in Int
    BY DEF UpInv, UpTypeOK, Until
<1>3. time.now - past.litAt[p] <= MaxPause + 1
    BY <1>1, <1>2 DEF Marks, Lit, UpNumbers
<1> QED BY <1>1, <1>3 DEF Marks

LEMMA InitMeasures == UpInit => UpInv
<1> SUFFICES ASSUME UpInit PROVE UpInv
    OBVIOUS
<1>1. UpTypeOK
    <2>1. Signature({}, dests) \in [{} -> 0..1]
        BY DEF Signature
    <2>2. Signature({}, dests) \in Outputs
        BY <2>1 DEF Outputs
    <2>3. dests \in DestRows
        BY UplinkAssumption DEF UpInit, DestRows, Long, UplinkAssumption
    <2>4. watch \in [Profiles -> [restarts : Nat, lastAt : Int, hold : {NoHold} \cup Until, wait : Int,
                                 grace : {NoGrace} \cup Until, restartedAt : Int]]
        BY UplinkAssumption DEF UpInit, Fresh, Long, Never, UplinkAssumption
    <2>5. past \in [restarts : [Profiles -> SUBSET [at : Nat, kind : {"storm", "outage", "grace", "counted"},
                                                 pause : Nat]],
                 litAt : [Profiles -> 0..MaxTime], output : [Profiles -> Outputs]]
        <3>1. past = [restarts |-> [p \in Profiles |-> {}], litAt |-> [p \in Profiles |-> 0],
                      output |-> [p \in Profiles |-> Signature({}, dests)]]
            BY DEF UpInit
        <3>2. [p \in Profiles |-> 0] \in [Profiles -> 0..MaxTime]
            BY UplinkAssumption DEF UplinkAssumption
        <3>3. [p \in Profiles |-> Signature({}, dests)] \in [Profiles -> Outputs]
            BY <2>2
        <3> QED BY <3>1, <3>2, <3>3
    <2>6. time \in [now : 0..MaxTime, cycled : BOOLEAN, synced : BOOLEAN]
        BY UplinkAssumption DEF UpInit, UplinkAssumption
    <2>7. outage \in [open : BOOLEAN, at : Int] /\ stallSince \in [Profiles -> Int] /\ reconnectUntil \in Int
        BY UplinkAssumption DEF UpInit, Long, Never, UplinkAssumption
    <2>8. \A p \in Profiles : procs[p] = Off
        BY DEF UpInit
    <2>9. /\ procs \in [Profiles -> {Off} \cup Encoders]
          /\ reads \in [uplink : {NoRows} \cup DestRows, worker : {NoRows} \cup DestRows]
          /\ world \in [mode : [Profiles -> {"ok", "never", "frozen"}], refuse : SUBSET Destinations,
                        net : BOOLEAN, fresh : BOOLEAN]
        BY DEF UpInit
    <2> QED BY <2>3, <2>4, <2>5, <2>6, <2>7, <2>8, <2>9 DEF UpTypeOK, Runs
<1>2. ASSUME NEW p \in Profiles PROVE Marks(p)
    BY <1>2, UplinkAssumption
       DEF UpInit, Marks, Lit, Begun, Runs, Fresh, Never, UplinkAssumption
<1> QED BY <1>1, <1>2 DEF UpInv

\* A step between the cycles: at most a process stops, or the watch of its input changes.
LEMMA AsideKeepsMarks ==
    ASSUME UpInv, time'.now = time.now, time'.cycled = time.cycled, watch' = watch, stallSince' = stallSince,
           past' = past, outage' = outage, world'.net = world.net,
           \A p \in Profiles : Runs(p)' =>
               /\ Runs(p) /\ procs'[p].output = procs[p].output
               /\ procs'[p].startedAt = procs[p].startedAt /\ procs'[p].advancedAt = procs[p].advancedAt
    PROVE  \A p \in Profiles : Marks(p)'
<1> SUFFICES ASSUME NEW p \in Profiles PROVE Marks(p)'
    OBVIOUS
<1>1. Marks(p)
    BY DEF UpInv
<1>2. Lit(p)'
    BY <1>1 DEF Marks, Lit
<1>3. Begun(p)'
    BY <1>1 DEF Marks, Begun
<1>4. \A r \in past'.restarts[p] : r.at <= time'.now /\ InStreak(p, r)' /\ InGrace(p, r)'
    BY <1>1 DEF Marks, InStreak, InGrace
<1>5. \A r, s \in past'.restarts[p] : Apart(r, s)
    BY <1>1 DEF Marks
<1> QED BY <1>2, <1>3, <1>4, <1>5 DEF Marks, Apart

LEMMA RowEdits ==
    \A row \in DestRow, t \in Int :
        /\ [row EXCEPT !.status = "error", !.failedAt = t] \in DestRow
        /\ \A st \in {"ready", "missing-config"} : [row EXCEPT !.output = 1 - @, !.status = st] \in DestRow
        /\ [row EXCEPT !.enabled = ~@] \in DestRow
<1> SUFFICES ASSUME NEW row \in DestRow, NEW t \in Int
             PROVE  /\ [row EXCEPT !.status = "error", !.failedAt = t] \in DestRow
                    /\ \A st \in {"ready", "missing-config"} :
                          [row EXCEPT !.output = 1 - @, !.status = st] \in DestRow
                    /\ [row EXCEPT !.enabled = ~@] \in DestRow
    OBVIOUS
<1>1. [row EXCEPT !.status = "error", !.failedAt = t] \in DestRow
    BY DEF DestRow
<1>2. \A st \in {"ready", "missing-config"} : [row EXCEPT !.output = 1 - @, !.status = st] \in DestRow
    <2> TAKE st \in {"ready", "missing-config"}
    <2> DEFINE n == 1 - row.output
    <2>1. n \in 0..1
        BY DEF DestRow
    <2>2. [row EXCEPT !.output = 1 - @, !.status = st] = [[row EXCEPT !.output = n] EXCEPT !.status = st]
        BY DEF DestRow
    <2> HIDE DEF n
    <2> QED BY <2>1, <2>2 DEF DestRow
<1>3. [row EXCEPT !.enabled = ~@] \in DestRow
    BY DEF DestRow
<1> QED BY <1>1, <1>2, <1>3

LEMMA EditsOfOneRow ==
    ASSUME NEW f \in [Destinations -> DestRow], NEW d \in Destinations, NEW t \in Int,
           NEW st \in {"ready", "missing-config"}
    PROVE  /\ [f EXCEPT ![d].status = "error", ![d].failedAt = t] \in [Destinations -> DestRow]
           /\ [f EXCEPT ![d].output = 1 - @, ![d].status = st] \in [Destinations -> DestRow]
           /\ [f EXCEPT ![d].enabled = ~@] \in [Destinations -> DestRow]
<1>1. f[d] \in DestRow
    OBVIOUS
<1>2. [f EXCEPT ![d].status = "error", ![d].failedAt = t] =
         [f EXCEPT ![d] = [f[d] EXCEPT !.status = "error", !.failedAt = t]]
    OBVIOUS
<1>3. [f EXCEPT ![d].output = 1 - @, ![d].status = st] =
         [f EXCEPT ![d] = [f[d] EXCEPT !.output = 1 - @, !.status = st]]
    OBVIOUS
<1>4. [f EXCEPT ![d].enabled = ~@] = [f EXCEPT ![d] = [f[d] EXCEPT !.enabled = ~@]]
    OBVIOUS
<1> QED BY <1>1, <1>2, <1>3, <1>4, RowEdits

LEMMA AsideKeeps ==
    ASSUME UpInv,
           \/ ReadRows \/ SyncReads \/ SyncWrites \/ FeedTurns
           \/ \E d \in Destinations : MarkFailure(d) \/ Save(d) \/ FarEndTurns(d)
           \/ \E p \in Profiles : \/ \E mode \in {"ok", "never", "frozen"} : EncoderTurns(p, mode)
                                  \/ StormTurns(p) \/ ProcessDies(p)
    PROVE  UpInv'
<1>1. UpTypeOK /\ UpNumbers
    BY UpNumbersHold DEF UpInv
<1>2. CASE ReadRows
    <2>1. UpTypeOK'
        BY <1>1, <1>2 DEF ReadRows, UpTypeOK, Runs
    <2>2. \A p \in Profiles : Marks(p)'
        BY <1>2, AsideKeepsMarks DEF ReadRows, Runs
    <2> QED BY <2>1, <2>2 DEF UpInv
<1>3. CASE SyncReads
    <2>1. UpTypeOK'
        BY <1>1, <1>3 DEF SyncReads, UpTypeOK, Runs
    <2>2. time'.now = time.now /\ time'.cycled = time.cycled
        BY <1>1, <1>3 DEF SyncReads, UpTypeOK
    <2>3. \A p \in Profiles : Marks(p)'
        BY <1>3, <2>2, AsideKeepsMarks DEF SyncReads, Runs
    <2> QED BY <2>1, <2>3 DEF UpInv
<1>4. CASE SyncWrites
    <2>1. reads.worker \in DestRows
        BY <1>1, <1>4 DEF SyncWrites, UpTypeOK
    <2>2. \A row \in DestRow : Synced(row) \in DestRow
        BY DEF Synced, DestRow
    <2>3. dests' \in DestRows
        BY <1>4, <2>1, <2>2 DEF SyncWrites, DestRows, DestRow
    <2>4. UpTypeOK'
        BY <1>1, <1>4, <2>3 DEF SyncWrites, UpTypeOK, Runs
    <2>5. \A p \in Profiles : Marks(p)'
        BY <1>4, AsideKeepsMarks DEF SyncWrites, Runs
    <2> QED BY <2>4, <2>5 DEF UpInv
<1>5. CASE FeedTurns
    <2>1. UpTypeOK'
        BY <1>1, <1>5 DEF FeedTurns, UpTypeOK, Runs
    <2>2. world'.net = world.net
        BY <1>1, <1>5 DEF FeedTurns, UpTypeOK
    <2>3. \A p \in Profiles : Marks(p)'
        BY <1>5, <2>2, AsideKeepsMarks DEF FeedTurns, Runs
    <2> QED BY <2>1, <2>3 DEF UpInv
<1>6. ASSUME NEW d \in Destinations, MarkFailure(d) PROVE UpInv'
    <2>1. dests \in [Destinations -> DestRow] /\ time.now \in Int
        BY <1>1 DEF UpTypeOK, DestRows, DestRow, UpNumbers
    <2>2. dests' \in DestRows
        <3>1. dests' = [dests EXCEPT ![d].status = "error", ![d].failedAt = time.now]
            BY <1>6 DEF MarkFailure
        <3>2. \A t \in Int, st \in {"ready", "missing-config"} :
                 [dests EXCEPT ![d].status = "error", ![d].failedAt = t] \in [Destinations -> DestRow]
            BY <2>1, EditsOfOneRow
        <3>3. "ready" \in {"ready", "missing-config"}
            OBVIOUS
        <3> QED BY <2>1, <3>1, <3>2, <3>3 DEF DestRows, DestRow
    <2>3. UpTypeOK'
        BY <1>1, <1>6, <2>2 DEF MarkFailure, UpTypeOK, Runs
    <2>4. \A p \in Profiles : Marks(p)'
        BY <1>6, AsideKeepsMarks DEF MarkFailure, Runs
    <2> QED BY <2>3, <2>4 DEF UpInv
<1>7. ASSUME NEW d \in Destinations, Save(d) PROVE UpInv'
    <2>1. dests \in [Destinations -> DestRow] /\ 0 \in Int
        BY <1>1 DEF UpTypeOK, DestRows, DestRow
    <2>2. dests' \in [Destinations -> DestRow]
        <3>1. dests' = [dests EXCEPT ![d].output = 1 - @, ![d].status = "ready"]
              \/ dests' = [dests EXCEPT ![d].output = 1 - @, ![d].status = "missing-config"]
              \/ dests' = [dests EXCEPT ![d].enabled = ~@]
            BY <1>7 DEF Save
        <3>2. \A st \in {"ready", "missing-config"} :
                 /\ [dests EXCEPT ![d].output = 1 - @, ![d].status = st] \in [Destinations -> DestRow]
                 /\ [dests EXCEPT ![d].enabled = ~@] \in [Destinations -> DestRow]
            BY <2>1, EditsOfOneRow
        <3>3. "ready" \in {"ready", "missing-config"} /\ "missing-config" \in {"ready", "missing-config"}
            OBVIOUS
        <3> QED BY <3>1, <3>2, <3>3
    <2>3. UpTypeOK'
        BY <1>1, <1>7, <2>2 DEF Save, UpTypeOK, Runs, DestRows, DestRow
    <2>4. \A p \in Profiles : Marks(p)'
        BY <1>7, AsideKeepsMarks DEF Save, Runs
    <2> QED BY <2>3, <2>4 DEF UpInv
<1>8. ASSUME NEW d \in Destinations, FarEndTurns(d) PROVE UpInv'
    <2>1. UpTypeOK'
        BY <1>1, <1>8 DEF FarEndTurns, UpTypeOK, Runs
    <2>2. world'.net = world.net
        BY <1>1, <1>8 DEF FarEndTurns, UpTypeOK
    <2>3. \A p \in Profiles : Marks(p)'
        BY <1>8, <2>2, AsideKeepsMarks DEF FarEndTurns, Runs
    <2> QED BY <2>1, <2>3 DEF UpInv
<1>9. ASSUME NEW p \in Profiles, NEW mode \in {"ok", "never", "frozen"}, EncoderTurns(p, mode) PROVE UpInv'
    <2>1. UpTypeOK'
        BY <1>1, <1>9 DEF EncoderTurns, UpTypeOK, Runs
    <2>2. world'.net = world.net
        BY <1>1, <1>9 DEF EncoderTurns, UpTypeOK
    <2>3. \A q \in Profiles : Marks(q)'
        BY <1>9, <2>2, AsideKeepsMarks DEF EncoderTurns, Runs
    <2> QED BY <2>1, <2>3 DEF UpInv
<1>10. ASSUME NEW p \in Profiles, StormTurns(p) PROVE UpInv'
    <2>1. procs[p] \in Encoders /\ procs'[p] = [procs[p] EXCEPT !.storm = ~@]
          /\ procs' = [procs EXCEPT ![p] = procs'[p]]
        BY <1>1, <1>10 DEF StormTurns, UpTypeOK, Runs
    <2>2. /\ procs'[p] \in Encoders /\ procs'[p].output = procs[p].output
          /\ procs'[p].startedAt = procs[p].startedAt /\ procs'[p].advancedAt = procs[p].advancedAt
        BY <2>1 DEF Encoders
    <2>3. procs' \in [Profiles -> {Off} \cup Encoders] /\ \A q \in Profiles : Runs(q)' => Runs(q)
        BY <1>1, <1>10, <2>1, <2>2 DEF UpTypeOK, Runs, StormTurns
    <2>4. UpTypeOK'
        BY <1>1, <1>10, <2>3 DEF StormTurns, UpTypeOK
    <2>5. \A q \in Profiles : Runs(q)' =>
               /\ Runs(q) /\ procs'[q].output = procs[q].output
               /\ procs'[q].startedAt = procs[q].startedAt /\ procs'[q].advancedAt = procs[q].advancedAt
        BY <1>1, <2>1, <2>2, <2>3 DEF UpTypeOK
    <2>6. \A q \in Profiles : Marks(q)'
        BY <1>10, <2>5, AsideKeepsMarks DEF StormTurns
    <2> QED BY <2>4, <2>6 DEF UpInv
<1>11. ASSUME NEW p \in Profiles, ProcessDies(p) PROVE UpInv'
    <2>1. UpTypeOK'
        BY <1>1, <1>11 DEF ProcessDies, UpTypeOK, Runs
    <2>2. \A q \in Profiles : Runs(q)' => Runs(q) /\ procs'[q] = procs[q]
        BY <1>1, <1>11 DEF ProcessDies, UpTypeOK, Runs
    <2>3. \A q \in Profiles : Marks(q)'
        BY <1>11, <2>2, AsideKeepsMarks DEF ProcessDies
    <2> QED BY <2>1, <2>3 DEF UpInv
<1> QED BY <1>2, <1>3, <1>4, <1>5, <1>6, <1>7, <1>8, <1>9, <1>10, <1>11

\* The network turns: the history of restarts begins anew.
LEMMA NetworkKeeps == ASSUME UpInv, NetworkTurns PROVE UpInv'
<1>1. UpTypeOK /\ past'.litAt = past.litAt /\ past'.restarts = [p \in Profiles |-> {}] /\ past'.output = past.output
    BY DEF NetworkTurns, UpInv, UpTypeOK
<1>2. UpTypeOK'
    <2>1. past' \in [restarts : [Profiles -> SUBSET [at : Nat, kind : {"storm", "outage", "grace", "counted"},
                                                   pause : Nat]],
                    litAt : [Profiles -> 0..MaxTime], output : [Profiles -> Outputs]]
        BY <1>1 DEF NetworkTurns, UpTypeOK
    <2>2. world' \in [mode : [Profiles -> {"ok", "never", "frozen"}], refuse : SUBSET Destinations,
                     net : BOOLEAN, fresh : BOOLEAN]
        BY <1>1 DEF NetworkTurns, UpTypeOK
    <2> QED BY <1>1, <2>1, <2>2 DEF NetworkTurns, UpTypeOK, Runs
<1>3. ASSUME NEW p \in Profiles PROVE Marks(p)'
    <2>1. Marks(p) /\ past'.restarts[p] = {} /\ past'.litAt[p] = past.litAt[p]
        BY <1>1 DEF UpInv
    <2> QED BY <2>1 DEF NetworkTurns, Marks, Lit, Begun, Runs
<1> QED BY <1>2, <1>3 DEF UpInv

\* The time until the next cycle.
LEMMA TickKeeps == ASSUME UpInv, Tick PROVE UpInv'
<1> DEFINE t == time.now
<1>1. /\ UpTypeOK /\ UpNumbers /\ time.cycled /\ t < MaxTime
      /\ time' = [now |-> t + 1, cycled |-> FALSE, synced |-> FALSE]
    BY UpNumbersHold DEF UpInv, Tick
<1>2. t \in Nat /\ t + 1 \in 0..MaxTime /\ time'.now = t + 1 /\ ~time'.cycled
    BY <1>1 DEF UpNumbers
<1>3. ASSUME NEW p \in Profiles
      PROVE  \/ procs'[p] = procs[p]
             \/ /\ Runs(p) /\ procs[p] \in Encoders
                /\ procs'[p] = [procs[p] EXCEPT !.seen = TRUE, !.advancedAt = t + 1]
    BY <1>1 DEF Tick, UpTypeOK, Runs
<1>4. ASSUME NEW p \in Profiles
      PROVE  \/ procs'[p] = procs[p]
             \/ /\ Runs(p) /\ procs'[p] \in Encoders /\ procs'[p].output = procs[p].output
                /\ procs'[p].startedAt = procs[p].startedAt /\ procs'[p].advancedAt = t + 1
    <2>1. CASE procs'[p] = procs[p]
        BY <2>1
    <2>2. CASE Runs(p) /\ procs[p] \in Encoders
               /\ procs'[p] = [procs[p] EXCEPT !.seen = TRUE, !.advancedAt = t + 1]
        <3>1. t + 1 \in Nat
            BY <1>2
        <3>2. procs'[p] = [[procs[p] EXCEPT !.seen = TRUE] EXCEPT !.advancedAt = t + 1]
            BY <2>2 DEF Encoders
        <3> HIDE DEF t
        <3> QED BY <2>2, <3>1, <3>2 DEF Encoders
    <2> QED BY <1>3, <2>1, <2>2
<1>5. ASSUME NEW p \in Profiles PROVE Runs(p)' => Runs(p)
    BY <1>4 DEF Runs
<1> HIDE DEF t
<1>6. UpTypeOK'
    <2>1. procs' \in [Profiles -> {Off} \cup Encoders]
        <3>1. \A p \in Profiles : procs'[p] \in {Off} \cup Encoders
            BY <1>1, <1>4 DEF UpTypeOK
        <3>2. procs' = [p \in Profiles |-> procs'[p]]
            BY DEF Tick
        <3> QED BY <3>1, <3>2
    <2>2. time' \in [now : 0..MaxTime, cycled : BOOLEAN, synced : BOOLEAN]
        BY <1>1, <1>2
    <2> QED BY <1>1, <1>5, <2>1, <2>2 DEF Tick, UpTypeOK, Runs
<1>7. ASSUME NEW p \in Profiles PROVE Marks(p)'
    <2>1. Marks(p) /\ past.litAt[p] \in Nat
        BY <1>1 DEF UpInv, UpTypeOK
    <2>2. /\ watch' = watch /\ past' = past /\ outage' = outage /\ world' = world /\ stallSince' = stallSince
        BY DEF Tick
    <2>3. watch[p].hold # NoHold => watch[p].hold.until \in Int
        BY <1>1 DEF UpTypeOK, Until
    <2>4. Lit(p)'
        <3>1. past.litAt[p] = t \/ (watch[p].hold # NoHold /\ t < watch[p].hold.until)
            BY <1>1, <1>2, <2>1, <2>3 DEF Marks, Lit, t
        <3>2. past'.litAt[p] <= time'.now
            BY <1>2, <2>1, <2>2 DEF Marks, Lit, t
        <3> QED BY <1>2, <2>1, <2>2, <2>3, <3>1, <3>2 DEF Marks, Lit
    <2>5. Begun(p)'
        <3>1. stallSince[p] \in Int /\ (watch[p].grace # NoGrace => watch[p].grace.until \in Int)
            BY <1>1 DEF UpTypeOK, Until
        <3>2. Runs(p) => procs[p].startedAt \in Int /\ procs[p].advancedAt \in Int
            BY <1>1 DEF UpTypeOK, Encoders, Runs
        <3>3. stallSince'[p] <= time'.now
            BY <1>2, <2>1, <2>2, <3>1 DEF Marks, Begun, t
        <3>4. watch'[p].grace # NoGrace => watch'[p].grace.until <= time'.now + ReconnectGrace
            BY <1>1, <1>2, <2>1, <2>2, <3>1 DEF Marks, Begun, t, UpNumbers
        <3>5. Runs(p)' => procs'[p].startedAt <= time'.now /\ procs'[p].advancedAt <= time'.now
            BY <1>2, <1>4, <1>5, <2>1, <3>2 DEF Marks, Begun, t
        <3> QED BY <3>3, <3>4, <3>5 DEF Begun
    <2>6. ASSUME NEW r \in past.restarts[p] PROVE r.at <= time'.now /\ InStreak(p, r)' /\ InGrace(p, r)'
        <3>1. r.at \in Nat /\ r.at <= t /\ InStreak(p, r) /\ InGrace(p, r)
            BY <1>1, <2>1 DEF UpTypeOK, Marks, t
        <3>2. r.at <= time'.now
            BY <1>2, <3>1
        <3>3. InStreak(p, r)'
            BY <1>4, <1>5, <2>2, <3>1 DEF InStreak
        <3>4. InGrace(p, r)'
            BY <1>1, <1>2, <2>2, <3>1 DEF InGrace, t, UpNumbers
        <3> QED BY <3>2, <3>3, <3>4
    <2>7. \A r, s \in past'.restarts[p] : Apart(r, s)
        BY <2>1, <2>2 DEF Marks
    <2> QED BY <2>2, <2>4, <2>5, <2>6, <2>7 DEF Marks, Apart
<1> QED BY <1>6, <1>7 DEF UpInv

\* A cycle that stops everything, or starts nothing.
LEMMA IdleKeeps == ASSUME UpInv, IdleCycle PROVE UpInv'
<1>1. /\ UpTypeOK /\ UpNumbers
      /\ past' = [past EXCEPT !.litAt = [p \in Profiles |-> time.now]]
      /\ time' = [time EXCEPT !.cycled = TRUE] /\ reads' = [reads EXCEPT !.uplink = NoRows]
      /\ UNCHANGED <<dests, watch, outage, stallSince, world, turns>>
    BY UpNumbersHold DEF UpInv, IdleCycle, CycleEnds
<1>2. procs' = [p \in Profiles |-> Off] \/ procs' = procs
    BY DEF IdleCycle
<1>3. reconnectUntil' \in Int
    <2>1. reconnectUntil' = reconnectUntil \/ reconnectUntil' = time.now + ReconnectFor
        BY DEF IdleCycle
    <2> QED BY <1>1, <2>1, UplinkAssumption DEF UpTypeOK, UpNumbers, UplinkAssumption
<1>4. /\ time'.now = time.now /\ time' \in [now : 0..MaxTime, cycled : BOOLEAN, synced : BOOLEAN]
      /\ past'.litAt = [p \in Profiles |-> time.now] /\ past'.restarts = past.restarts
      /\ past'.output = past.output
    BY <1>1 DEF UpTypeOK
<1>5. ASSUME NEW p \in Profiles PROVE Runs(p)' => Runs(p) /\ procs'[p] = procs[p]
    BY <1>2 DEF Runs
<1>6. UpTypeOK'
    <2>1. past' \in [restarts : [Profiles -> SUBSET [at : Nat, kind : {"storm", "outage", "grace", "counted"},
                                                   pause : Nat]],
                    litAt : [Profiles -> 0..MaxTime], output : [Profiles -> Outputs]]
        BY <1>1 DEF UpTypeOK
    <2>2. procs' \in [Profiles -> {Off} \cup Encoders]
        BY <1>1, <1>2 DEF UpTypeOK
    <2>3. reads' \in [uplink : {NoRows} \cup DestRows, worker : {NoRows} \cup DestRows]
        BY <1>1 DEF UpTypeOK
    <2> QED BY <1>1, <1>3, <1>4, <1>5, <2>1, <2>2, <2>3 DEF UpTypeOK, Runs
<1>7. ASSUME NEW p \in Profiles PROVE Marks(p)'
    <2>1. Marks(p) /\ past.litAt[p] \in Nat /\ past'.litAt[p] = time.now /\ past'.restarts[p] = past.restarts[p]
          /\ past'.output[p] = past.output[p]
        BY <1>1, <1>4 DEF UpInv, UpTypeOK
    <2>2. watch[p].hold # NoHold => watch[p].hold.until \in Int
        BY <1>1 DEF UpTypeOK, Until
    <2>3. Lit(p)'
        <3>1. watch[p].hold # NoHold => watch[p].hold.until <= time.now + MaxPause + 1
            BY <1>1, <2>1, <2>2 DEF Marks, Lit, UpNumbers
        <3> QED BY <1>1, <1>4, <2>1, <3>1 DEF Lit, UpNumbers
    <2>4. Begun(p)'
        BY <1>1, <1>4, <1>5, <2>1 DEF Marks, Begun
    <2>5. \A r \in past'.restarts[p] : r.at <= time'.now /\ InStreak(p, r)' /\ InGrace(p, r)'
        BY <1>1, <1>4, <1>5, <2>1 DEF Marks, InStreak, InGrace
    <2>6. \A r, s \in past'.restarts[p] : Apart(r, s)
        BY <2>1 DEF Marks
    <2> QED BY <2>3, <2>4, <2>5, <2>6 DEF Marks, Apart
<1> QED BY <1>6, <1>7 DEF UpInv

\* The watchdog's record of a profile after the outage check, and what the check says of the network.
LEMMA CheckKeeps ==
    ASSUME UpInv, NEW asked \in BOOLEAN, NEW verdict,
           verdict \in {"failed", IF world.net THEN "up" ELSE "down"}, NEW p \in Profiles
    PROVE  LET w == IF asked THEN WatchAfter(outage, verdict, watch[p]) ELSE watch[p]
               o == Observed(outage, verdict)
           IN  /\ w \in Records /\ w.grace = watch[p].grace /\ w.restartedAt = watch[p].restartedAt
               /\ w.hold = NoHold \/ w.hold = watch[p].hold
               /\ (w.restarts = watch[p].restarts /\ w.lastAt = watch[p].lastAt) \/ (outage.open /\ world.net)
               /\ o \in [open : BOOLEAN, at : Int] /\ (o.open /\ world.net => outage.open)
<1> DEFINE w == IF asked THEN WatchAfter(outage, verdict, watch[p]) ELSE watch[p]
           o == Observed(outage, verdict)
           y == [watch[p] EXCEPT !.restarts = 0, !.lastAt = Long, !.hold = NoHold, !.wait = Never]
<1>1. UpTypeOK /\ UpNumbers /\ watch[p] \in Records
    BY UpNumbersHold, RecordsAre DEF UpInv
<1>2. /\ y \in Records /\ y.grace = watch[p].grace /\ y.restartedAt = watch[p].restartedAt /\ y.hold = NoHold
    <2>1. Long \in Int /\ Never \in Int
        BY <1>1 DEF Long, Never, UpNumbers
    <2>2. y = [[[[watch[p] EXCEPT !.restarts = 0] EXCEPT !.lastAt = Long] EXCEPT !.hold = NoHold] EXCEPT !.wait = Never]
        BY <1>1 DEF Records
    <2> HIDE DEF y
    <2> QED BY <1>1, <2>1, <2>2 DEF Records
<1>3. w = watch[p] \/ (w = y /\ verdict = "up" /\ outage.open)
    BY DEF WatchAfter
<1>4. verdict = "up" => world.net
    OBVIOUS
<1>5. o \in [open : BOOLEAN, at : Int] /\ (o.open /\ world.net => outage.open)
    <2>1. outage \in [open : BOOLEAN, at : Int] /\ time.now \in Int
        BY <1>1 DEF UpTypeOK, UpNumbers
    <2>2. o \in [open : BOOLEAN, at : Int]
        BY <2>1 DEF Observed
    <2>3. verdict = "up" => o.open = FALSE
        BY <2>1 DEF Observed
    <2>4. verdict = "down" => ~world.net
        OBVIOUS
    <2>5. verdict = "failed" => o = outage
        BY DEF Observed
    <2> HIDE DEF o
    <2> QED BY <2>2, <2>3, <2>4, <2>5
<1> HIDE DEF w, y
<1>6. /\ w \in Records /\ w.grace = watch[p].grace /\ w.restartedAt = watch[p].restartedAt
      /\ w.hold = NoHold \/ w.hold = watch[p].hold
      /\ (w.restarts = watch[p].restarts /\ w.lastAt = watch[p].lastAt) \/ (outage.open /\ world.net)
    BY <1>1, <1>2, <1>3, <1>4
<1> QED BY <1>5, <1>6 DEF w

\* What a cycle leaves of a profile: v is the watchdog's verdict on it.
LEMMA OutcomeIs ==
    ASSUME UpTypeOK, NEW p \in Profiles, NEW v, v.v.w \in Records, NEW rows \in DestRows,
           Runs(p) \/ v.v.kind = "none"
    PROVE  LET wanted == Members(p, rows)
               output == Signature(wanted, rows)
               x == Outcome(p, v, rows)
           IN  /\ output \in Outputs /\ x.w \in Records
               /\ x.w.hold = NoHold \/ x.w.hold = v.v.w.hold
               /\ x.w.grace = v.v.w.grace /\ x.w.restartedAt = v.v.w.restartedAt
               /\ \/ x.w.restarts = v.v.w.restarts /\ x.w.lastAt = v.v.w.lastAt
                  \/ v.v.w.hold # NoHold /\ v.v.w.hold.output # output
               /\ x.proc \in {Off} \cup Encoders
               /\ x.proc # Off =>
                     /\ wanted # {}
                     /\ \/ /\ x.proc = procs[p] /\ Runs(p) /\ v.v.kind = "none" /\ x.w = v.v.w
                        \/ /\ x.proc.output = output /\ x.proc.startedAt = time.now
                           /\ x.proc.advancedAt = time.now /\ x.w.hold = NoHold
               /\ x.proc = Off /\ wanted # {} =>
                     /\ x.w.hold = v.v.w.hold /\ x.w.hold # NoHold /\ time.now < x.w.hold.until
                     /\ x.w.hold.output = output
<1> DEFINE wanted == Members(p, rows)
           output == Signature(wanted, rows)
           stays == Runs(p) /\ v.v.kind = "none" /\ procs[p].ids = wanted
           y == AfterHoldOf(v.v.w, output)
           w == IF wanted = {} \/ stays THEN v.v.w ELSE y
           starts == wanted # {} /\ ~stays /\ w.hold = NoHold
           proc == IF stays THEN procs[p] ELSE IF starts THEN Started(wanted, rows) ELSE Off
           x == Outcome(p, v, rows)
<1>1. wanted \subseteq Destinations
    BY DEF Members, Active
<1>2. output \in [wanted -> 0..1]
    BY <1>1 DEF Signature, DestRows
<1>3. output \in Outputs
    BY <1>1, <1>2 DEF Outputs
<1>4. time.now \in Nat /\ procs[p] \in {Off} \cup Encoders /\ (Runs(p) => procs[p] \in Encoders)
    BY UpNumbersHold DEF UpTypeOK, Runs, UpNumbers
<1> HIDE DEF wanted, output
<1>5. /\ y \in Records /\ (y.hold = NoHold \/ y.hold = v.v.w.hold)
      /\ y.grace = v.v.w.grace /\ y.restartedAt = v.v.w.restartedAt
      /\ \/ y.restarts = v.v.w.restarts /\ y.lastAt = v.v.w.lastAt
         \/ v.v.w.hold # NoHold /\ v.v.w.hold.output # output
      /\ y.hold # NoHold => y.hold = v.v.w.hold /\ time.now < y.hold.until /\ y.hold.output = output
    <2> DEFINE a == [v.v.w EXCEPT !.hold = NoHold, !.restarts = 0, !.lastAt = Long]
               b == [v.v.w EXCEPT !.hold = NoHold]
    <2>1. a \in Records /\ a.hold = NoHold /\ a.grace = v.v.w.grace /\ a.restartedAt = v.v.w.restartedAt
        <3>1. Long \in Int
            BY UpNumbersHold DEF Long, UpNumbers
        <3>2. a = [[[v.v.w EXCEPT !.hold = NoHold] EXCEPT !.restarts = 0] EXCEPT !.lastAt = Long]
            BY DEF Records
        <3> HIDE DEF a
        <3> QED BY <3>1, <3>2 DEF Records
    <2>2. /\ b \in Records /\ b.hold = NoHold /\ b.grace = v.v.w.grace /\ b.restartedAt = v.v.w.restartedAt
          /\ b.restarts = v.v.w.restarts /\ b.lastAt = v.v.w.lastAt
        BY DEF Records
    <2>3. v.v.w.hold # NoHold => v.v.w.hold.until \in Int
        BY DEF Records, Until
    <2>4. \/ y = v.v.w /\ v.v.w.hold = NoHold
          \/ y = a /\ v.v.w.hold # NoHold /\ v.v.w.hold.output # output
          \/ y = b
          \/ y = v.v.w /\ v.v.w.hold.output = output /\ time.now < v.v.w.hold.until /\ v.v.w.hold # NoHold
        BY <1>4, <2>3 DEF AfterHoldOf
    <2> HIDE DEF a, b, y
    <2> QED BY <2>1, <2>2, <2>4
<1>6. Runs(p) => procs[p].ids # {}
    BY <1>4 DEF Encoders
<1>7. wanted # {} => /\ Started(wanted, rows) \in Encoders /\ Started(wanted, rows).output = output
                     /\ Started(wanted, rows).startedAt = time.now /\ Started(wanted, rows).advancedAt = time.now
    BY <1>1, <1>3, <1>4 DEF Started, Encoders, output
<1>8. x.w = w /\ x.proc = proc
    BY DEF Outcome, wanted, output
<1> HIDE DEF y, x
<1>9. Off \notin Encoders
    BY DEF Off, Encoders
<1>10. proc \in {Off} \cup Encoders
    BY <1>4, <1>7
<1>11. proc # Off => /\ wanted # {}
                     /\ \/ proc = procs[p] /\ Runs(p) /\ v.v.kind = "none" /\ w = v.v.w
                        \/ /\ proc.output = output /\ proc.startedAt = time.now /\ proc.advancedAt = time.now
                           /\ w.hold = NoHold
    BY <1>6, <1>7
<1>12. proc = Off /\ wanted # {} =>
          w.hold = v.v.w.hold /\ w.hold # NoHold /\ time.now < w.hold.until /\ w.hold.output = output
    BY <1>4, <1>5, <1>7, <1>9
<1>13. /\ w \in Records /\ (w.hold = NoHold \/ w.hold = v.v.w.hold)
       /\ w.grace = v.v.w.grace /\ w.restartedAt = v.v.w.restartedAt
       /\ \/ w.restarts = v.v.w.restarts /\ w.lastAt = v.v.w.lastAt
          \/ v.v.w.hold # NoHold /\ v.v.w.hold.output # output
    BY <1>5
<1> HIDE DEF w, proc
<1> QED BY <1>3, <1>8, <1>10, <1>11, <1>12, <1>13 DEF x, output, wanted

\* A cycle, seen from one profile: x is its record after the check, o the outage, v the verdict.
CycleOf(p, w, o, v, x, rows) ==
    /\ w \in Records /\ w.grace = watch[p].grace /\ w.restartedAt = watch[p].restartedAt
    /\ w.hold = NoHold \/ w.hold = watch[p].hold
    /\ (w.restarts = watch[p].restarts /\ w.lastAt = watch[p].lastAt) \/ (outage.open /\ world.net)
    /\ o.open /\ world.net => outage.open
    /\ Runs(p) => Measured(v.v, w, o, procs[p].output)
    /\ ~Runs(p) => v.v = Kept(w)
    /\ v.v.w \in Records /\ v.v.pause \in 0..MaxPause
    /\ v.v.kind \in {"none", "storm", "outage", "grace", "counted"}
    /\ v.since \in Int /\ v.since <= time.now
    /\ procs'[p] = x.proc /\ watch'[p] = x.w /\ stallSince'[p] = v.since /\ outage' = o
    /\ past'.restarts[p] = IF Signature(Members(p, rows), rows) # past.output[p] THEN {}
                           ELSE past.restarts[p] \cup RestartOf(v.v)
    /\ past'.litAt[p] = IF Members(p, rows) # {} /\ x.proc = Off THEN past.litAt[p] ELSE time.now
    /\ past'.output[p] = Signature(Members(p, rows), rows)
    /\ time'.now = time.now /\ time'.cycled /\ world' = world
    /\ LET wanted == Members(p, rows)
           output == Signature(wanted, rows)
       IN  /\ output \in Outputs /\ x.w \in Records
           /\ x.w.hold = NoHold \/ x.w.hold = v.v.w.hold
           /\ x.w.grace = v.v.w.grace /\ x.w.restartedAt = v.v.w.restartedAt
           /\ \/ x.w.restarts = v.v.w.restarts /\ x.w.lastAt = v.v.w.lastAt
              \/ v.v.w.hold # NoHold /\ v.v.w.hold.output # output
           /\ x.proc \in {Off} \cup Encoders
           /\ x.proc # Off =>
                 /\ wanted # {}
                 /\ \/ /\ x.proc = procs[p] /\ Runs(p) /\ v.v.kind = "none" /\ x.w = v.v.w
                    \/ /\ x.proc.output = output /\ x.proc.startedAt = time.now
                       /\ x.proc.advancedAt = time.now /\ x.w.hold = NoHold
           /\ x.proc = Off /\ wanted # {} =>
                 /\ x.w.hold = v.v.w.hold /\ x.w.hold # NoHold /\ time.now < x.w.hold.until
                 /\ x.w.hold.output = output

LEMMA CycleIs ==
    ASSUME UpInv, NEW verdict \in {"up", "down", "failed"}, Cycle(verdict)
    PROVE  /\ reads.uplink \in DestRows
           /\ \A p \in Profiles : \E w, o, v, x : CycleOf(p, w, o, v, x, reads.uplink)
<1> DEFINE rows == reads.uplink
           running == {p \in Profiles : Runs(p)}
           asked == \/ outage.open
                    \/ \E p \in Profiles : watch[p].hold.until > time.now
                    \/ \E p \in running : \E d \in procs[p].ids : rows[d].status = "error"
           o == Observed(outage, verdict)
           w(p) == IF asked THEN WatchAfter(outage, verdict, watch[p]) ELSE watch[p]
           v(p) == Verdict(p, w(p), o, rows)
           x(p) == Outcome(p, v(p), rows)
           dark == \E p \in Profiles : v(p).v.kind \in {"outage", "grace", "counted"}
<1>1. UpTypeOK /\ UpNumbers
    BY UpNumbersHold DEF UpInv
<1>2. rows \in DestRows
    BY <1>1 DEF Cycle, UpTypeOK
<1>3. asked \in BOOLEAN /\ verdict \in {"failed", IF world.net THEN "up" ELSE "down"}
    BY DEF Cycle
<1>4. /\ procs' = [p \in Profiles |-> x(p).proc] /\ watch' = [p \in Profiles |-> x(p).w]
      /\ stallSince' = [p \in Profiles |-> v(p).since]
      /\ outage' = IF asked \/ dark THEN o ELSE outage
      /\ past' = [restarts |-> [p \in Profiles |->
                       IF Signature(Members(p, rows), rows) # past.output[p] THEN {}
                       ELSE past.restarts[p] \cup RestartOf(v(p).v)],
                   litAt |-> [p \in Profiles |->
                       IF Members(p, rows) # {} /\ x(p).proc = Off THEN past.litAt[p] ELSE time.now],
                   output |-> [p \in Profiles |-> Signature(Members(p, rows), rows)]]
      /\ time' = [time EXCEPT !.cycled = TRUE] /\ world' = world
    BY DEF Cycle, CycleEnds
<1>5. asked \/ dark \/ verdict = "failed"
    BY DEF Cycle
<1>6. outage' = o
    BY <1>4, <1>5 DEF Observed
<1>7. time'.now = time.now /\ time'.cycled
    BY <1>1, <1>4 DEF UpTypeOK
<1> HIDE DEF asked, dark, running
<1>8. ASSUME NEW p \in Profiles PROVE CycleOf(p, w(p), o, v(p), x(p), rows)
    <2>1. /\ w(p) \in Records /\ w(p).grace = watch[p].grace /\ w(p).restartedAt = watch[p].restartedAt
          /\ w(p).hold = NoHold \/ w(p).hold = watch[p].hold
          /\ (w(p).restarts = watch[p].restarts /\ w(p).lastAt = watch[p].lastAt) \/ (outage.open /\ world.net)
          /\ o.open /\ world.net => outage.open
        BY <1>3, CheckKeeps
    <2> HIDE DEF w, o
    <2>2. Runs(p) => /\ w(p).hold = NoHold /\ procs[p].startedAt <= time.now /\ procs[p].advancedAt <= time.now
                     /\ stallSince[p] <= time.now
        BY <1>1, <2>1 DEF UpInv, UpTypeOK, Marks, Begun
    <2>3. Runs(p) => /\ Measured(v(p).v, w(p), o, procs[p].output)
                     /\ v(p).since \in Int /\ v(p).since <= time.now
        BY <1>1, <2>1, <2>2, VerdictIsMeasured
    <2>4. ~Runs(p) => v(p) = [v |-> Kept(w(p)), since |-> stallSince[p]]
        BY DEF Verdict
    <2>5. stallSince[p] \in Int /\ stallSince[p] <= time.now
        BY <1>1 DEF UpInv, UpTypeOK, Marks, Begun
    <2>6. v(p).since \in Int /\ v(p).since <= time.now
        BY <2>3, <2>4, <2>5
    <2>7. ~Runs(p) => v(p).v = Kept(w(p)) /\ v(p).v.kind = "none" /\ v(p).v.w = w(p) /\ v(p).v.pause = 0
        BY <2>4 DEF Kept
    <2>8. 0 \in 0..MaxPause
        BY <1>1 DEF UpNumbers
    <2>9. v(p).v.w \in Records /\ v(p).v.pause \in 0..MaxPause
          /\ v(p).v.kind \in {"none", "storm", "outage", "grace", "counted"}
        BY <2>1, <2>3, <2>7, <2>8 DEF Measured
    <2>10. Runs(p) \/ v(p).v.kind = "none"
        BY <2>7
    <2> HIDE DEF v
    <2>11. LET wanted == Members(p, rows)
               output == Signature(wanted, rows)
           IN  /\ output \in Outputs /\ x(p).w \in Records
               /\ x(p).w.hold = NoHold \/ x(p).w.hold = v(p).v.w.hold
               /\ x(p).w.grace = v(p).v.w.grace /\ x(p).w.restartedAt = v(p).v.w.restartedAt
               /\ \/ x(p).w.restarts = v(p).v.w.restarts /\ x(p).w.lastAt = v(p).v.w.lastAt
                  \/ v(p).v.w.hold # NoHold /\ v(p).v.w.hold.output # output
               /\ x(p).proc \in {Off} \cup Encoders
               /\ x(p).proc # Off =>
                     /\ wanted # {}
                     /\ \/ /\ x(p).proc = procs[p] /\ Runs(p) /\ v(p).v.kind = "none" /\ x(p).w = v(p).v.w
                        \/ /\ x(p).proc.output = output /\ x(p).proc.startedAt = time.now
                           /\ x(p).proc.advancedAt = time.now /\ x(p).w.hold = NoHold
               /\ x(p).proc = Off /\ wanted # {} =>
                     /\ x(p).w.hold = v(p).v.w.hold /\ x(p).w.hold # NoHold /\ time.now < x(p).w.hold.until
                     /\ x(p).w.hold.output = output
        BY <1>1, <1>2, <2>9, <2>10, OutcomeIs
    <2> HIDE DEF x
    <2>12. /\ procs'[p] = x(p).proc /\ watch'[p] = x(p).w /\ stallSince'[p] = v(p).since /\ outage' = o
           /\ past'.restarts[p] = IF Signature(Members(p, rows), rows) # past.output[p] THEN {}
                                  ELSE past.restarts[p] \cup RestartOf(v(p).v)
           /\ past'.litAt[p] = IF Members(p, rows) # {} /\ x(p).proc = Off THEN past.litAt[p] ELSE time.now
           /\ past'.output[p] = Signature(Members(p, rows), rows)
           /\ time'.now = time.now /\ time'.cycled /\ world' = world
        BY <1>4, <1>6, <1>7
    <2> HIDE DEF rows
    <2> QED BY <2>1, <2>3, <2>6, <2>7, <2>9, <2>11, <2>12 DEF CycleOf
<1> HIDE DEF w, o, v, x
<1> QED BY <1>2, <1>8

Kinds == {"storm", "outage", "grace", "counted"}
Restarts == [at : Nat, kind : Kinds, pause : Nat]

LEMMA CycleKeepsTypes == ASSUME UpInv, NEW verdict \in {"up", "down", "failed"}, Cycle(verdict) PROVE UpTypeOK'
<1>1. UpTypeOK /\ UpNumbers
    BY UpNumbersHold DEF UpInv
<1>2. reads.uplink \in DestRows /\ \A p \in Profiles : \E w, o, v, x : CycleOf(p, w, o, v, x, reads.uplink)
    BY CycleIs
<1>3. ASSUME NEW p \in Profiles
      PROVE  /\ procs'[p] \in {Off} \cup Encoders /\ watch'[p] \in Records /\ stallSince'[p] \in Int
             /\ Runs(p)' => watch'[p].hold = NoHold
             /\ past'.restarts[p] \subseteq Restarts /\ past'.litAt[p] \in 0..MaxTime /\ past'.output[p] \in Outputs
    <2>1. PICK w, o, v, x : CycleOf(p, w, o, v, x, reads.uplink)
        BY <1>2
    <2>2. procs'[p] = x.proc /\ watch'[p] = x.w /\ stallSince'[p] = v.since
          /\ x.proc \in {Off} \cup Encoders /\ x.w \in Records /\ v.since \in Int /\ past'.output[p] \in Outputs
        BY <2>1 DEF CycleOf
    <2>3. Runs(p)' => watch'[p].hold = NoHold
        <3>1. ASSUME x.proc # Off PROVE x.w.hold = NoHold
            <4>1. \/ Runs(p) /\ v.v.kind = "none" /\ x.w = v.v.w
                  \/ x.w.hold = NoHold
                BY <2>1, <3>1 DEF CycleOf
            <4>2. Runs(p) => Measured(v.v, w, o, procs[p].output)
                BY <2>1 DEF CycleOf
            <4> QED BY <4>1, <4>2 DEF Measured
        <3> QED BY <2>2, <3>1 DEF Runs
    <2>4. RestartOf(v.v) \subseteq Restarts
        <3>1. v.v.pause \in Nat /\ v.v.kind \in {"none", "storm", "outage", "grace", "counted"}
            BY <1>1, <2>1 DEF CycleOf, UpNumbers
        <3> QED BY <1>1, <3>1 DEF RestartOf, Restarts, Kinds, UpNumbers
    <2>5. past.restarts[p] \subseteq Restarts
        BY <1>1 DEF UpTypeOK, Restarts, Kinds
    <2>6. past'.restarts[p] \subseteq Restarts
        <3>1. past'.restarts[p] = {} \/ past'.restarts[p] = past.restarts[p] \cup RestartOf(v.v)
            BY <2>1 DEF CycleOf
        <3> QED BY <2>4, <2>5, <3>1
    <2>7. past'.litAt[p] \in 0..MaxTime
        <3>1. past'.litAt[p] = past.litAt[p] \/ past'.litAt[p] = time.now
            BY <2>1 DEF CycleOf
        <3> QED BY <1>1, <3>1 DEF UpTypeOK
    <2> QED BY <2>2, <2>3, <2>6, <2>7
<1>4. /\ procs' = [p \in Profiles |-> procs'[p]] /\ watch' = [p \in Profiles |-> watch'[p]]
      /\ stallSince' = [p \in Profiles |-> stallSince'[p]]
      /\ past' = [restarts |-> [p \in Profiles |-> past'.restarts[p]], litAt |-> [p \in Profiles |-> past'.litAt[p]],
                  output |-> [p \in Profiles |-> past'.output[p]]]
    BY DEF Cycle
<1>5. /\ procs' \in [Profiles -> {Off} \cup Encoders] /\ watch' \in [Profiles -> Records]
      /\ stallSince' \in [Profiles -> Int]
    BY <1>3, <1>4
<1>6. past' \in [restarts : [Profiles -> SUBSET Restarts], litAt : [Profiles -> 0..MaxTime],
                 output : [Profiles -> Outputs]]
    <2>1. /\ [p \in Profiles |-> past'.restarts[p]] \in [Profiles -> SUBSET Restarts]
          /\ [p \in Profiles |-> past'.litAt[p]] \in [Profiles -> 0..MaxTime]
          /\ [p \in Profiles |-> past'.output[p]] \in [Profiles -> Outputs]
        BY <1>3
    <2> QED BY <1>4, <2>1
<1>7. time' \in [now : 0..MaxTime, cycled : BOOLEAN, synced : BOOLEAN]
      /\ reads' \in [uplink : {NoRows} \cup DestRows, worker : {NoRows} \cup DestRows]
    BY <1>1 DEF Cycle, CycleEnds, UpTypeOK
<1>8. dests' \in DestRows
    <2>1. \A row \in DestRow : [row EXCEPT !.status = "ready"] \in DestRow
        BY DEF DestRow
    <2>2. \A d \in Destinations : dests[d] \in DestRow /\ reads.uplink[d] \in DestRow
        BY <1>1, <1>2 DEF UpTypeOK, DestRows, DestRow
    <2>3. PICK started : dests' = [d \in Destinations |->
                                      IF d \in started THEN [reads.uplink[d] EXCEPT !.status = "ready"] ELSE dests[d]]
        BY DEF Cycle
    <2>4. dests' \in [Destinations -> DestRow]
        BY <2>1, <2>2, <2>3
    <2> QED BY <2>4 DEF DestRows, DestRow
<1>9. outage' \in [open : BOOLEAN, at : Int]
    <2>1. outage' = outage \/ outage' = Observed(outage, verdict)
        BY DEF Cycle
    <2>2. outage \in [open : BOOLEAN, at : Int] /\ time.now \in Int
        BY <1>1 DEF UpTypeOK, UpNumbers
    <2>3. Observed(outage, verdict) \in [open : BOOLEAN, at : Int]
        BY <2>2 DEF Observed
    <2> QED BY <2>1, <2>2, <2>3
<1>10. reconnectUntil' \in Int /\ world' = world
    <2>1. reconnectUntil' = 0 /\ world' = world
        BY DEF Cycle
    <2> QED BY <2>1
<1>11. \A p \in Profiles : Runs(p)' => watch'[p].hold = NoHold
    BY <1>3
<1> QED BY <1>1, <1>5, <1>6, <1>7, <1>8, <1>9, <1>10, <1>11 DEF UpTypeOK, Records, Restarts, Kinds

LEMMA CycleKeepsMarks ==
    ASSUME UpInv, NEW p \in Profiles, NEW w, NEW o, NEW v, NEW x, NEW rows, CycleOf(p, w, o, v, x, rows)
    PROVE  Marks(p)'
<1> DEFINE output == Signature(Members(p, rows), rows)
           wanted == Members(p, rows)
           now == time.now
<1>1. UpTypeOK /\ UpNumbers /\ Marks(p) /\ watch[p] \in Records
    BY UpNumbersHold, RecordsAre DEF UpInv
<1>2. now \in Nat /\ past.litAt[p] \in Nat /\ past.litAt[p] <= now /\ MaxPause \in Nat /\ ReconnectGrace \in Nat
      /\ Quiet \in Nat /\ ReconnectGrace < Quiet
    BY <1>1 DEF UpTypeOK, UpNumbers, Marks, Lit
<1>3. time'.now = now /\ time'.cycled
    BY DEF CycleOf
<1>4. x.w \in Records /\ v.v.w \in Records /\ w \in Records /\ watch'[p] = x.w
    BY DEF CycleOf
<1>5. /\ x.w.hold # NoHold => x.w.hold.until \in Int
      /\ watch[p].hold # NoHold => watch[p].hold.until \in Int
      /\ v.v.w.hold # NoHold => v.v.w.hold.until \in Int
      /\ watch[p].grace # NoGrace => watch[p].grace.until \in Int
      /\ x.w.grace # NoGrace => x.w.grace.until \in Int
      /\ watch[p].restartedAt \in Int /\ watch[p].lastAt \in Int /\ watch[p].restarts \in Nat
      /\ v.v.w.restartedAt \in Int /\ v.v.w.lastAt \in Int /\ v.v.w.restarts \in Nat /\ v.v.pause \in Nat
    BY <1>1, <1>2, <1>4 DEF Records, Until, CycleOf
<1>6. \A r \in past.restarts[p] : r.at \in Nat /\ r.pause \in Nat
    BY <1>1 DEF UpTypeOK
<1>7. Runs(p) => watch[p].hold = NoHold
    BY <1>1 DEF UpTypeOK
\* A hold that the cycle leaves is the one it found, or its own and of the profile's last output.
<1>8. v.v.w.hold = NoHold \/ (v.v.w.hold = watch[p].hold /\ ~Runs(p))
      \/ /\ Runs(p) /\ v.v.kind = "counted" /\ v.v.pause > 0 /\ v.v.pause <= MaxPause
         /\ v.v.w.hold.until = now + v.v.pause
    <2>1. CASE Runs(p)
        BY <1>2, <2>1 DEF CycleOf, Measured
    <2>2. CASE ~Runs(p)
        BY <2>2 DEF CycleOf, Kept
    <2> QED BY <2>1, <2>2
<1>9. Lit(p)'
    <2>1. past'.litAt[p] = (IF wanted # {} /\ x.proc = Off THEN past.litAt[p] ELSE now)
        BY DEF CycleOf
    <2>2. x.w.hold = NoHold \/ x.w.hold = v.v.w.hold
        BY DEF CycleOf
    <2>3. wanted # {} /\ x.proc = Off => x.w.hold # NoHold /\ now < x.w.hold.until
        BY DEF CycleOf
    <2>4. Runs(p) => past.litAt[p] + 1 >= now
        BY <1>1, <1>2, <1>7 DEF Marks, Lit
    <2>5. x.w.hold # NoHold => x.w.hold.until <= past.litAt[p] + MaxPause + 1
        <3>1. CASE v.v.w.hold = watch[p].hold
            BY <1>1, <1>2, <2>2, <3>1 DEF Marks, Lit
        <3>2. CASE Runs(p) /\ v.v.pause <= MaxPause /\ v.v.w.hold.until = now + v.v.pause
            BY <1>2, <1>5, <2>2, <2>4, <3>2
        <3> QED BY <1>8, <2>2, <3>1, <3>2
    <2> QED BY <1>2, <1>3, <1>4, <1>5, <2>1, <2>3, <2>5 DEF Lit
\* The grace that the cycle leaves is the one it found or begins after a quiet time.
<1>10. /\ x.w.grace = v.v.w.grace /\ x.w.restartedAt = v.v.w.restartedAt
       /\ \/ x.w.grace = NoGrace \/ x.w.grace = watch[p].grace
          \/ now - watch[p].restartedAt >= Quiet /\ x.w.grace.until <= now + ReconnectGrace
       /\ v.v.kind = "none" => x.w.restartedAt = watch[p].restartedAt
       /\ v.v.kind # "none" => x.w.restartedAt >= now
    <2>1. CASE Runs(p)
        BY <2>1 DEF CycleOf, Measured
    <2>2. CASE ~Runs(p)
        BY <2>2 DEF CycleOf, Kept
    <2> QED BY <2>1, <2>2
<1>11. Begun(p)'
    <2>1. stallSince'[p] <= now
        BY DEF CycleOf
    <2>2. x.w.grace # NoGrace => x.w.grace.until <= now + ReconnectGrace
        BY <1>1, <1>10 DEF Marks, Begun
    <2>3. procs'[p] # Off => procs'[p].startedAt <= now /\ procs'[p].advancedAt <= now
        BY <1>1, <1>2 DEF CycleOf, Marks, Begun
    <2> QED BY <1>3, <1>4, <2>1, <2>2, <2>3 DEF Begun, Runs
\* What stays of the history is about the same output.
<1>12. past'.output[p] = output
       /\ \/ past'.restarts[p] = {}
          \/ output = past.output[p] /\ past'.restarts[p] = past.restarts[p] \cup RestartOf(v.v)
    BY DEF CycleOf
<1>13. \A s \in RestartOf(v.v) : s.at = now /\ s.kind = v.v.kind /\ s.pause = v.v.pause /\ v.v.kind # "none" /\ Runs(p)
    BY DEF RestartOf, CycleOf, Kept
<1>14. outage' = o /\ world' = world /\ (o.open /\ world.net => outage.open)
    BY DEF CycleOf
<1>15. x.proc = procs'[p]
       /\ (x.proc # Off => \/ x.proc = procs[p] /\ Runs(p) /\ v.v.kind = "none" /\ x.w = v.v.w
                           \/ x.proc.output = output)
    BY DEF CycleOf
<1>16. /\ x.w.hold = NoHold \/ x.w.hold = v.v.w.hold
       /\ (x.w.restarts = v.v.w.restarts /\ x.w.lastAt = v.v.w.lastAt)
          \/ (v.v.w.hold # NoHold /\ v.v.w.hold.output # output)
    BY DEF CycleOf
<1>17. ASSUME NEW r \in past.restarts[p], output = past.output[p] PROVE InStreak(p, r)'
    <2> SUFFICES ASSUME r.kind = "counted", r.pause = 0
                 PROVE  /\ x.w.lastAt >= r.at /\ x.w.restarts >= 1
                        /\ x.proc # Off => x.proc.output = output
                        /\ x.w.hold # NoHold => x.w.hold.output = output
                        /\ ~(o.open /\ world.net)
        BY <1>4, <1>12, <1>14, <1>15 DEF InStreak, Runs
    <2>1. /\ watch[p].lastAt >= r.at /\ watch[p].restarts >= 1
          /\ Runs(p) => procs[p].output = past.output[p]
          /\ watch[p].hold # NoHold => watch[p].hold.output = past.output[p]
          /\ ~(outage.open /\ world.net)
        BY <1>1 DEF Marks, InStreak
    <2>2. r.at \in Nat /\ r.at <= now
        BY <1>1, <1>6 DEF Marks
    <2>3. w.restarts = watch[p].restarts /\ w.lastAt = watch[p].lastAt
        BY <2>1 DEF CycleOf
    <2>4. v.v.w.lastAt >= r.at /\ v.v.w.restarts >= 1
        <3>1. CASE Runs(p)
            BY <1>2, <1>5, <2>1, <2>2, <2>3, <3>1 DEF CycleOf, Measured
        <3>2. CASE ~Runs(p)
            BY <2>1, <2>3, <3>2 DEF CycleOf, Kept
        <3> QED BY <3>1, <3>2
    <2>5. v.v.w.hold # NoHold => v.v.w.hold.output = output
        <3>1. CASE Runs(p)
            BY <1>17, <2>1, <3>1 DEF CycleOf, Measured
        <3>2. CASE ~Runs(p)
            BY <1>8, <1>17, <2>1, <3>2
        <3> QED BY <3>1, <3>2
    <2>6. x.proc # Off => x.proc.output = output
        BY <1>15, <1>17, <2>1
    <2> QED BY <1>14, <1>16, <2>1, <2>4, <2>5, <2>6
<1>18. ASSUME NEW r \in past.restarts[p] PROVE InGrace(p, r)'
    <2>1. InGrace(p, r) /\ r.at \in Nat /\ r.at <= now
        BY <1>1, <1>6 DEF Marks
    <2>2. r.kind = "grace" => x.w.restartedAt >= r.at
        BY <1>2, <1>4, <1>5, <1>10, <2>1 DEF InGrace, Records
    <2>3. r.kind = "grace" => \/ x.w.grace = NoGrace \/ x.w.grace.until <= r.at + ReconnectGrace
                             \/ now - r.at >= Quiet
        BY <1>2, <1>5, <1>10, <2>1 DEF InGrace
    <2> QED BY <1>3, <1>4, <2>2, <2>3 DEF InGrace
\* The restart of this cycle itself.
<1>19. ASSUME NEW s \in RestartOf(v.v), output = past.output[p]
       PROVE  s.at <= time'.now /\ InStreak(p, s)' /\ InGrace(p, s)'
    <2>1. Runs(p) /\ Measured(v.v, w, o, procs[p].output) /\ s.at = now /\ s.kind = v.v.kind /\ s.pause = v.v.pause
          /\ v.v.kind # "none"
        BY <1>13 DEF CycleOf
    <2>2. s.at <= time'.now
        BY <1>2, <1>3, <2>1
    <2>3. InStreak(p, s)'
        <3> SUFFICES ASSUME v.v.kind = "counted", v.v.pause = 0
                     PROVE  /\ x.w.lastAt >= now /\ x.w.restarts >= 1
                            /\ x.proc # Off => x.proc.output = output
                            /\ x.w.hold # NoHold => x.w.hold.output = output
                            /\ ~(o.open /\ world.net)
            BY <1>4, <1>12, <1>14, <1>15, <2>1 DEF InStreak, Runs
        <3>1. v.v.w.hold = NoHold /\ v.v.w.lastAt >= now /\ v.v.w.restarts >= 1 /\ ~o.open
            BY <2>1 DEF Measured
        <3> QED BY <1>15, <1>16, <3>1
    <2>4. InGrace(p, s)'
        <3>1. x.w.restartedAt >= now
            BY <1>10, <2>1
        <3>2. x.w.grace # NoGrace => x.w.grace.until <= now + ReconnectGrace
            BY <1>1, <1>10 DEF Marks, Begun
        <3> QED BY <1>4, <2>1, <3>1, <3>2 DEF InGrace
    <2> QED BY <2>2, <2>3, <2>4
<1>20. ASSUME NEW r \in past.restarts[p], NEW s \in RestartOf(v.v), output = past.output[p]
       PROVE  Apart(r, s) /\ Apart(s, r)
    <2>1. Runs(p) /\ Measured(v.v, w, o, procs[p].output) /\ s.at = now /\ s.kind = v.v.kind /\ s.pause = v.v.pause
        BY <1>13 DEF CycleOf
    <2>2. r.at \in Nat /\ r.at <= now /\ InStreak(p, r) /\ InGrace(p, r)
        BY <1>1, <1>6 DEF Marks
    <2>3. Apart(s, r)
        BY <1>2, <2>1, <2>2 DEF Apart
    <2>4. ASSUME r.kind = "counted", s.kind = "counted", r.pause = 0, s.pause = 0 PROVE s.at - r.at > Quiet
        <3>1. watch[p].lastAt >= r.at /\ watch[p].restarts >= 1 /\ ~(outage.open /\ world.net)
            BY <2>2, <2>4 DEF InStreak
        <3>2. w.restarts = watch[p].restarts /\ w.lastAt = watch[p].lastAt
            BY <3>1 DEF CycleOf
        <3>3. w.restarts = 0 \/ now - w.lastAt > Quiet
            BY <2>1, <2>4 DEF Measured
        <3> QED BY <1>2, <1>5, <2>1, <2>2, <3>1, <3>2, <3>3
    <2>5. ASSUME r.kind = "grace", s.kind = "grace" PROVE s.at - r.at < ReconnectGrace \/ s.at - r.at >= Quiet
        <3>1. /\ watch[p].restartedAt >= r.at
              /\ \/ watch[p].grace = NoGrace \/ watch[p].grace.until <= r.at + ReconnectGrace
                 \/ now - r.at >= Quiet
            BY <2>2, <2>5 DEF InGrace
        <3>2. v.v.w.grace # NoGrace /\ now < v.v.w.grace.until
            BY <2>1, <2>5 DEF Measured
        <3>3. watch[p].grace = v.v.w.grace \/ now - watch[p].restartedAt >= Quiet
            BY <1>10, <3>2
        <3>4. CASE now - watch[p].restartedAt >= Quiet
            BY <1>2, <1>5, <2>1, <2>2, <3>1, <3>4
        <3>5. CASE watch[p].grace = v.v.w.grace
            BY <1>2, <1>5, <2>1, <2>2, <3>1, <3>2, <3>5
        <3> QED BY <3>3, <3>4, <3>5
    <2>6. Apart(r, s)
        BY <2>4, <2>5 DEF Apart
    <2> QED BY <2>3, <2>6
<1>21. \A r, s \in RestartOf(v.v) : Apart(r, s)
    BY <1>2, <1>13 DEF Apart
<1>22. \A r \in past'.restarts[p] : r.at <= time'.now /\ InStreak(p, r)' /\ InGrace(p, r)'
    <2>1. \A r \in past.restarts[p] : r.at <= time'.now
        BY <1>1, <1>3 DEF Marks
    <2> QED BY <1>12, <1>17, <1>18, <1>19, <2>1
<1>23. \A r, s \in past'.restarts[p] : Apart(r, s)
    <2>1. \A r, s \in past.restarts[p] : Apart(r, s)
        BY <1>1 DEF Marks
    <2> QED BY <1>12, <1>20, <1>21, <2>1
<1> QED BY <1>9, <1>11, <1>22, <1>23 DEF Marks, Apart

LEMMA UplinkCycleKeeps == ASSUME UpInv, NEW verdict \in {"up", "down", "failed"}, Cycle(verdict) PROVE UpInv'
<1>1. UpTypeOK'
    BY CycleKeepsTypes
<1>2. \A p \in Profiles : \E w, o, v, x : CycleOf(p, w, o, v, x, reads.uplink)
    BY CycleIs
<1>3. \A p \in Profiles : Marks(p)'
    BY <1>2, CycleKeepsMarks
<1> QED BY <1>1, <1>3 DEF UpInv

LEMMA UpInvHolds == UpSpec => []UpInv
<1>1. UpInv /\ [UpNext]_upVars => UpInv'
    <2> SUFFICES ASSUME UpInv, [UpNext]_upVars PROVE UpInv'
        OBVIOUS
    <2>1. CASE IdleCycle
        BY <2>1, IdleKeeps
    <2>2. CASE \E verdict \in {"up", "down", "failed"} : Cycle(verdict)
        BY <2>2, UplinkCycleKeeps
    <2>3. CASE NetworkTurns
        BY <2>3, NetworkKeeps
    <2>4. CASE Tick
        BY <2>4, TickKeeps
    <2>5. CASE \/ ReadRows \/ SyncReads \/ SyncWrites \/ FeedTurns
               \/ \E d \in Destinations : MarkFailure(d) \/ Save(d) \/ FarEndTurns(d)
               \/ \E p \in Profiles : \/ \E mode \in {"ok", "never", "frozen"} : EncoderTurns(p, mode)
                                      \/ StormTurns(p) \/ ProcessDies(p)
        BY <2>5, AsideKeeps
    <2>6. CASE UNCHANGED upVars
        BY <2>6 DEF upVars, UpInv, UpTypeOK, Marks, Lit, Begun, Runs, InStreak, InGrace, Apart
    <2> QED BY <2>1, <2>2, <2>3, <2>4, <2>5, <2>6 DEF UpNext
<1> QED BY <1>1, InitMeasures, PTL DEF UpSpec

\* Whatever the network, the feed, the far ends and the encoders do: a profile that is to deliver is dark
\* for no longer than the longest pause and the cycle that notices, and its restarts are rationed
\* (RestartBackoff, UplinkWatchdog).
THEOREM DarkTimeIsMeasured == UpSpec => []WatchdogKeepsMeasure
BY UpInvHolds, MeasureFollows, PTL
===============================================================================

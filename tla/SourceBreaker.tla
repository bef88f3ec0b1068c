---------------------------- MODULE SourceBreaker ----------------------------
(***************************************************************************)
(* The circuit breaker of one source: its row in source_breakers, the      *)
(* playout cycle that probes items and records what it heard, and the two  *)
(* other writers of the row, "Close breaker now" and "Delete source".      *)
(*                                                                         *)
(* A cycle takes a snapshot, resolves its pick, records that outcome,      *)
(* probes its queue, records those outcomes together with what an earlier  *)
(* refused write left, and decides the incident of the breaker.  An        *)
(* outcome is recorded by planning on a plain read and, only if the plan   *)
(* changes the row, planning once more under the state lock.  Both plans   *)
(* are judged at the time noted before the read (nowIso).                  *)
(*                                                                         *)
(* Time is the row's own: openedAt is kept as the row's age, counted in    *)
(* units shorter than the base cooldown, and lag says how much of it        *)
(* passed since nowIso.  Sources are planned one by one, so one is enough. *)
(***************************************************************************)
EXTENDS Integers, Sequences, FiniteSets

CONSTANTS Items,         \* the source's items
          Threshold,     \* SOURCE_BREAKER_FAILED_ITEM_THRESHOLD
          BaseCooldown,  \* SOURCE_BREAKER_BASE_COOLDOWN_SECONDS, in units of time
          MaxCooldown,   \* SOURCE_BREAKER_MAX_COOLDOWN_SECONDS
          QueueSize,     \* probes of one queue scan
          CarryLimit,    \* createBreakerOutcomeCarry's limit
          MaxFailures,   \* bound: probes that fail or are not heard
          MaxTroubles,   \* bound: refused writes, cycles cut short, restarts, left resolves
          MaxRequests    \* bound: requests of operators and whole-state writes

ASSUME CooldownsGrow == /\ BaseCooldown \in Nat \ {0} /\ MaxCooldown \in Nat
                        /\ BaseCooldown <= MaxCooldown
\* A recording, which a unit bounds, is over long before the cooldown it starts (30 minutes).
ASSUME RecordingIsShort == BaseCooldown > 1
ASSUME ThresholdIsPositive == Threshold \in Nat \ {0}
ASSUME SizesAreNaturals == QueueSize \in Nat /\ CarryLimit \in Nat \ {0}
ASSUME LimitsAreNaturals == MaxFailures \in Nat /\ MaxTroubles \in Nat /\ MaxRequests \in Nat
ASSUME ItemsAreFinite == IsFiniteSet(Items)

---------------------------------------------------------------------------
(* The row (packages/core/src/source-circuit-breaker.ts) *)

Ages == 0..(MaxCooldown + 1)

Records == [state : {"none", "closed", "open"}, failed : SUBSET Items,
            age : Ages, cooldown : 0..MaxCooldown]

\* The source never failed a probe, or was deleted: it has no row.
NoRecord == [state |-> "none", failed |-> {}, age |-> 0, cooldown |-> 0]
ClosedRecord == [state |-> "closed", failed |-> {}, age |-> 0, cooldown |-> 0]
OpenRecord(failed, cooldown, age) ==
    [state |-> "open", failed |-> failed, age |-> age, cooldown |-> cooldown]

\* History: early, probed before the cooldown now counted had run out; passed, a clean probe
\* has ended since.
Outcomes == [item : Items, ok : BOOLEAN, early : BOOLEAN, passed : BOOLEAN]

\* The phase at a moment that lies l units of time back.
Phase(r, l) ==
    IF r.state # "open" THEN "closed"
    ELSE IF r.age - l < r.cooldown THEN "open" ELSE "half-open"

\* Mutant: the cooldown grows without a cap.
DoubledForever(cooldown) == 2 * (IF cooldown < BaseCooldown THEN BaseCooldown ELSE cooldown)

Doubled(cooldown) ==
    LET twice == 2 * (IF cooldown < BaseCooldown THEN BaseCooldown ELSE cooldown)
    IN  IF twice > MaxCooldown THEN MaxCooldown ELSE twice

\* Mutant: an outcome counts while the cooldown runs.
CountsAlways(r, o, l) == o.ok => Phase(r, l) = "half-open" \/ r.failed # {}

\* Whether the outcome makes a new record at all.
Counts(r, o, l) ==
    /\ Phase(r, l) # "open"
    /\ o.ok => Phase(r, l) = "half-open" \/ r.failed # {}

\* Mutant: every opening doubles.
AfterFailureDoubled(r, item, l) ==
    LET failed == r.failed \cup {item}
    IN  IF Phase(r, l) = "half-open" \/ Cardinality(failed) >= Threshold
        THEN OpenRecord(failed, Doubled(r.cooldown), l)
        ELSE [r EXCEPT !.state = "closed", !.failed = failed]

AfterFailure(r, item, l) ==
    LET failed == r.failed \cup {item}
    IN  IF Phase(r, l) = "half-open" THEN OpenRecord(failed, Doubled(r.cooldown), l)
        ELSE IF Cardinality(failed) >= Threshold THEN OpenRecord(failed, BaseCooldown, l)
        ELSE [r EXCEPT !.state = "closed", !.failed = failed]

NextRecord(r, o, l) ==
    IF ~Counts(r, o, l) THEN r
    ELSE IF o.ok THEN ClosedRecord
    ELSE AfterFailure(r, o.item, l)

\* One more unit of time since the row was opened.
Aged(r) ==
    IF r.state = "open" /\ r.age <= MaxCooldown THEN [r EXCEPT !.age = r.age + 1] ELSE r

---------------------------------------------------------------------------
VARIABLES
    row,       \* the source's row in source_breakers
    source,    \* live, deleted on its page, or dropped by a whole-state write
    candidate, \* some pool could pick an item of the source
    incident,  \* the breaker's incident is open
    pc,        \* where the playout cycle is
    snap,      \* the snapshot of this cycle
    spent,     \* the trial item of this cycle's walk is spent
    queue,     \* the outcomes of this cycle's queue scan
    cache,     \* uncounted results of resolves a scan has left
    carry,     \* outcomes of a refused write, kept for one more
    call,      \* who records: a clean pick, a failed pick, the scan
    heard,     \* the outcomes being recorded
    todo,      \* those the plan has not looked at
    draft,     \* the record the plan has arrived at
    changed,   \* the plan has an update
    lag,       \* how much time passed since nowIso
    seen,      \* the breaker as recordSourceBreakerOutcomes returned it
    fallback,  \* the recovery plan of this cycle took an item of the source, and on which tier
    web,       \* the request of an operator being served
    spentOn,   \* bounds: failures, troubles and requests so far
    strikes    \* history: items recorded as failed since the row was last closed by hand

storeVars == <<row, source, candidate, incident>>
localVars == <<spent, queue, seen, fallback, snap>>
planVars == <<call, heard, todo, draft, changed>>
vars == <<storeVars, pc, localVars, planVars, lag, cache, carry, web, spentOn, strikes>>

NoOutcome == <<>>

Steps == {"idle", "select", "resolve", "read", "plan", "lock", "replan", "recover",
          "scan", "incident", "closed"}

Snapshots == [row : Records, source : {"live", "deleted", "dropped"},
              candidate : BOOLEAN, incident : BOOLEAN]

\* Tiers of PlaybackPreparationRecoveryPlan; none: standby, or an item of another source.
Fallbacks == {"none", "global", "generic"}

TypeOK ==
    /\ row \in Records /\ source \in {"live", "deleted", "dropped"}
    /\ candidate \in BOOLEAN /\ incident \in BOOLEAN
    /\ pc \in Steps /\ snap \in Snapshots
    /\ spent \in BOOLEAN /\ queue \in Seq(Outcomes)
    /\ cache \in [Items -> Seq(Outcomes)] /\ \A i \in Items : Len(cache[i]) <= 1
    /\ carry \in Seq(Outcomes)
    /\ call \in {"clean pick", "failed pick", "scan"}
    /\ heard \in Seq(Outcomes) /\ todo \in Seq(Outcomes)
    /\ draft \in Records /\ changed \in BOOLEAN
    /\ lag \in 0..1 /\ seen \in Records /\ fallback \in Fallbacks
    /\ web \in {"idle", "close", "resolve", "delete"}
    /\ spentOn \in [failures : Nat, troubles : Nat, requests : Nat]
    /\ strikes \subseteq Items

NoSnapshot == [row |-> NoRecord, source |-> "live", candidate |-> TRUE, incident |-> FALSE]

Init ==
    /\ row = NoRecord /\ source = "live" /\ candidate = TRUE /\ incident = FALSE
    /\ pc = "idle" /\ snap = NoSnapshot
    /\ spent = FALSE /\ queue = <<>> /\ seen = NoRecord /\ fallback = "none"
    /\ cache = [i \in Items |-> NoOutcome] /\ carry = <<>>
    /\ call = "scan" /\ heard = <<>> /\ todo = <<>> /\ draft = NoRecord /\ changed = FALSE
    /\ lag = 0 /\ web = "idle"
    /\ spentOn = [failures |-> 0, troubles |-> 0, requests |-> 0]
    /\ strikes = {}

---------------------------------------------------------------------------
(* Bounds, and what an opening does to results that are still under way *)

Spend(kind, bound) ==
    /\ spentOn[kind] < bound
    /\ spentOn' = [spentOn EXCEPT ![kind] = @ + 1]

Failure == Spend("failures", MaxFailures)
Trouble == Spend("troubles", MaxTroubles)
Request == Spend("requests", MaxRequests)

AllEarly(s) == [k \in DOMAIN s |-> [s[k] EXCEPT !.early = TRUE]]

\* The carried outcomes, the newest CarryLimit of them.
Newest(s) ==
    IF Len(s) <= CarryLimit THEN s ELSE SubSeq(s, Len(s) - CarryLimit + 1, Len(s))

Outcome(item, result) == [item |-> item, ok |-> result = "ok", early |-> Phase(row, 0) = "open",
                          passed |-> FALSE]

\* A probe ends: clean, failed, or failed in a way the breaker does not hear
\* (an archive still downloading, the channel's own network being down).
ProbeEnds(result) == IF result = "ok" THEN UNCHANGED spentOn ELSE Failure

AllPassed(s, result) ==
    IF result = "ok" THEN [k \in DOMAIN s |-> [s[k] EXCEPT !.passed = TRUE]] ELSE s

Results == {"ok", "failed", "unheard"}

\* recordSourceBreakerOutcomes returns or throws: its locals are gone.
PlanOver ==
    /\ call' = "scan" /\ heard' = <<>> /\ todo' = <<>> /\ draft' = NoRecord
    /\ changed' = FALSE /\ lag' = 0

\* The cycle ends: so are its own.
CycleOver ==
    /\ pc' = "idle" /\ snap' = NoSnapshot /\ seen' = NoRecord
    /\ spent' = FALSE /\ queue' = <<>> /\ fallback' = "none"
    /\ PlanOver

---------------------------------------------------------------------------
(* The cycle: the snapshot, the pick and its inline resolve *)

StartCycle ==
    /\ pc = "idle"
    /\ pc' = "select"
    /\ snap' = [row |-> row, source |-> source, candidate |-> candidate, incident |-> incident]
    /\ seen' = row
    /\ UNCHANGED <<storeVars, spent, queue, fallback, planVars, lag, cache, carry, web, spentOn, strikes>>

\* What the pools may take of the source: poolSourceGate of the snapshot, at the clock.
Gate == IF snap.source = "live" /\ snap.candidate THEN Phase(snap.row, 0) ELSE "open"

\* The started item is the trial of its source.
SpendTrial == spent' = (spent \/ Phase(snap.row, 0) = "half-open")

\* A pool picks an item of the source, or an operator's insert or a block does, which no
\* gate holds back; nothing is prepared, so it is resolved inline.
PickInline ==
    /\ pc = "select"
    /\ \/ Gate # "open" /\ UNCHANGED spentOn
       \/ snap.source = "live" /\ Request
    /\ SpendTrial
    /\ pc' = "resolve"
    /\ UNCHANGED <<storeVars, snap, queue, seen, fallback, planVars, lag, cache, carry, web, strikes>>

\* The item on air is kept, or the pick is prepared already, or of another source:
\* nothing is resolved, nothing recorded.
PickWithoutResolve ==
    /\ pc = "select"
    /\ SpendTrial \/ UNCHANGED spent
    /\ pc' = "scan"
    /\ UNCHANGED <<storeVars, snap, queue, seen, fallback, planVars, lag, cache, carry, web,
                   spentOn, strikes>>

\* recordSelectionResolveOutcome, up to its write. Unheard outcomes are not recorded.
ResolveEnds(item, result) ==
    /\ pc = "resolve"
    /\ ProbeEnds(result)
    /\ IF result = "unheard"
       THEN pc' = "recover" /\ UNCHANGED <<call, heard, lag>>
       ELSE /\ pc' = "read" /\ lag' = 0
            /\ call' = IF result = "ok" THEN "clean pick" ELSE "failed pick"
            /\ heard' = <<Outcome(item, result)>>
    /\ carry' = AllPassed(carry, result)
    /\ UNCHANGED <<storeVars, localVars, todo, draft, changed, cache, web, strikes>>

\* Which tiers may take an item of the source, by what is known of its breaker: the global
\* fallback is the operator's own pick and is not gated.
TiersOpen(r) == {"none", "global"} \cup (IF Phase(r, 0) = "open" THEN {} ELSE {"generic"})

\* Mutant: the sources held in the snapshot are passed over.
RecoverBySnapshot ==
    /\ pc = "recover"
    /\ fallback' \in IF snap.source = "live" THEN TiersOpen(snap.row) ELSE {"none"}
    /\ pc' = "scan"
    /\ UNCHANGED <<storeVars, snap, spent, queue, seen, planVars, lag, cache, carry, web,
                   spentOn, strikes>>

\* The fallback for a pick that could not be prepared, out of the assets of the snapshot: the
\* global one first; the generic tiers pass over a source held as of the failed resolve.
Recover ==
    /\ pc = "recover"
    /\ fallback' \in IF snap.source = "live" THEN TiersOpen(seen) ELSE {"none"}
    /\ pc' = "scan"
    /\ UNCHANGED <<storeVars, snap, spent, queue, seen, planVars, lag, cache, carry, web,
                   spentOn, strikes>>

---------------------------------------------------------------------------
(* The queue scan *)

ScanMayTake(item) ==
    /\ pc = "scan" /\ Len(queue) < QueueSize
    /\ \A k \in DOMAIN queue : queue[k].item # item
    /\ \/ Gate = "closed"
       \/ Gate = "half-open" /\ ~spent
       \/ Gate = "half-open" /\ queue = <<>>  \* a due insert is prepared ahead of the queue

ScanProbe(item, result) ==
    /\ ScanMayTake(item)
    /\ SpendTrial
    /\ ProbeEnds(result)
    /\ queue' = IF result = "unheard" THEN queue
                ELSE Append(AllPassed(queue, result), Outcome(item, result))
    /\ carry' = AllPassed(carry, result)
    /\ UNCHANGED <<storeVars, pc, snap, seen, fallback, planVars, lag, cache, web, strikes>>

\* The scan stops waiting for a resolve (the encoder died, or it is a refresh ahead of
\* time); the result lands in the probe cache, not yet counted.
ScanLeaves(item, result) ==
    /\ ScanMayTake(item)
    /\ SpendTrial
    /\ result # "unheard" /\ cache[item] = NoOutcome
    /\ cache' = [cache EXCEPT ![item] = <<Outcome(item, result)>>]
    /\ Trouble
    /\ UNCHANGED <<storeVars, pc, snap, queue, seen, fallback, planVars, lag, carry, web, strikes>>

\* takeUncountedProbeOutcome: a result a former cycle left is counted, once.
ScanCountsLeft(item) ==
    /\ ScanMayTake(item)
    /\ SpendTrial
    /\ cache[item] # NoOutcome
    /\ queue' = Append(queue, cache[item][1])
    /\ cache' = [cache EXCEPT ![item] = NoOutcome]
    /\ UNCHANGED <<storeVars, pc, snap, seen, fallback, planVars, lag, carry, web, spentOn, strikes>>

\* applySourceBreakerOutcomes: nowIso, and breakerOutcomeCarry.take(scanned).  The recovery
\* plan has had its use.
ScanEnds ==
    /\ pc = "scan"
    /\ pc' = "read" /\ lag' = 0 /\ call' = "scan"
    /\ heard' = carry \o queue
    /\ carry' = <<>> /\ fallback' = "none"
    /\ UNCHANGED <<storeVars, snap, spent, queue, seen, todo, draft, changed, cache, web, spentOn, strikes>>

\* A cycle may end before its scan: an insert that could not be prepared, a thrown error.
CycleCutShort ==
    /\ pc \in {"select", "resolve", "recover", "scan"}
    /\ CycleOver
    /\ Trouble
    /\ UNCHANGED <<storeVars, cache, carry, web, strikes>>

---------------------------------------------------------------------------
(* recordSourceBreakerOutcomes *)

StartPlan(r, outcomes) ==
    draft' = r /\ todo' = outcomes /\ changed' = FALSE

\* What the caller does with the rows it gets back.
Return(records) ==
    /\ pc' = CASE call = "clean pick" -> "scan"
               [] call = "failed pick" -> "recover"
               [] call = "scan" -> "incident"
    /\ seen' = IF call = "clean pick" THEN seen ELSE records
    /\ PlanOver

\* The plan on a plain read of the row, outside the lock.
ReadPlain ==
    /\ pc = "read"
    /\ pc' = "plan"
    /\ StartPlan(row, heard)
    /\ UNCHANGED <<storeVars, localVars, call, heard, lag, cache, carry, web, spentOn, strikes>>

\* planSourceBreakerUpdates, one outcome.
PlanOne ==
    /\ pc \in {"plan", "replan"} /\ todo # <<>>
    /\ draft' = NextRecord(draft, Head(todo), lag)
    /\ changed' = (changed \/ Counts(draft, Head(todo), lag))
    /\ todo' = Tail(todo)
    /\ UNCHANGED <<storeVars, pc, localVars, call, heard, lag, cache, carry, web, spentOn, strikes>>

\* Without an update the caller gets what the plain read returned.
NothingToWrite ==
    /\ pc = "plan" /\ todo = <<>> /\ ~changed
    /\ Return(draft)
    /\ UNCHANGED <<storeVars, snap, spent, queue, fallback, cache, carry, web, spentOn, strikes>>

WaitForLock ==
    /\ pc = "plan" /\ todo = <<>> /\ changed
    /\ pc' = "lock"
    /\ UNCHANGED <<storeVars, localVars, planVars, lag, cache, carry, web, spentOn, strikes>>

\* The state lock is the playout's from here to its commit.
LockFree == pc # "replan"

\* Mutant: what was probed is planned, whether or not the source is still there.
AllOutcomes == heard

\* Outcomes of a source that is gone are left out.
LiveOutcomes == IF source = "live" THEN heard ELSE <<>>

\* Mutant: the plan of the plain read is written.
WriteFirstPlan ==
    /\ pc = "lock"
    /\ pc' = "replan"
    /\ UNCHANGED <<storeVars, localVars, planVars, lag, cache, carry, web, spentOn, strikes>>

\* Under the lock the row is read and planned again.
PlanAgain ==
    /\ pc = "lock"
    /\ pc' = "replan"
    /\ StartPlan(row, LiveOutcomes)
    /\ UNCHANGED <<storeVars, localVars, call, heard, lag, cache, carry, web, spentOn, strikes>>

HeardFailures == {heard[k].item : k \in {n \in DOMAIN heard : ~heard[n].ok}}

Opens == changed /\ draft.state = "open" /\ draft # row
AsOfCommit(s) == IF Opens THEN AllEarly(s) ELSE s

\* The draft is committed. What is still under way was probed before an opening.
Commit ==
    /\ row' = IF changed THEN draft ELSE row
    /\ strikes' = strikes \cup HeardFailures
    /\ cache' = [i \in Items |-> AsOfCommit(cache[i])]

WriteRow ==
    /\ pc = "replan" /\ todo = <<>>
    /\ Commit
    /\ queue' = AsOfCommit(queue) /\ carry' = AsOfCommit(carry)
    /\ Return(row')
    /\ UNCHANGED <<source, candidate, incident, snap, spent, fallback, web, spentOn>>

\* What a refused write leaves: a pick's outcome joins what is carried, the scan's replace
\* what has now been tried twice.
KeptOutcomes == Newest(IF call = "scan" THEN queue ELSE carry \o heard)

\* A throw ends the breaker's part of the cycle when the scan was recorded; a pick goes on
\* as if nothing had been.
GoOnUnrecorded ==
    IF call = "scan" THEN CycleOver
    ELSE /\ pc' = IF call = "clean pick" THEN "scan" ELSE "recover"
         /\ PlanOver
         /\ UNCHANGED <<snap, seen, spent, queue, fallback>>

\* The database refuses the read, the lock or the write.
WriteRefused ==
    /\ pc \in {"read", "lock", "replan"} /\ (pc = "replan" => todo = <<>>)
    /\ Trouble
    /\ carry' = KeptOutcomes
    /\ GoOnUnrecorded
    /\ UNCHANGED <<storeVars, cache, web, strikes>>

\* The write commits and its answer is lost: the caller takes it for refused.
AnswerLost ==
    /\ pc = "replan" /\ todo = <<>>
    /\ Trouble
    /\ Commit
    /\ carry' = AsOfCommit(KeptOutcomes)
    /\ GoOnUnrecorded
    /\ UNCHANGED <<source, candidate, incident, web>>

---------------------------------------------------------------------------
(* The incident of the breaker: planSourceBreakerIncidents and its writes *)

\* The breaker no longer holds the source, or the source is gone.
NothingHeld == seen.state # "open" \/ snap.source # "live"

\* Mutant: the cycle resolves only what it has seen close.
ResolveTransition ==
    /\ pc = "incident" /\ NothingHeld
    /\ incident' = IF snap.incident /\ snap.row.state = "open" THEN FALSE ELSE incident
    /\ CycleOver
    /\ UNCHANGED <<row, source, candidate, cache, carry, web, spentOn, strikes>>

ResolveIncident ==
    /\ pc = "incident" /\ NothingHeld
    /\ incident' = IF snap.incident THEN FALSE ELSE incident
    /\ CycleOver
    /\ UNCHANGED <<row, source, candidate, cache, carry, web, spentOn, strikes>>

\* Mutant: the cycle reports only what it has seen open.
ReportTransition ==
    /\ pc = "incident" /\ ~NothingHeld /\ snap.candidate
    /\ incident' = IF snap.row.state = "open" THEN incident ELSE TRUE
    /\ CycleOver
    /\ UNCHANGED <<row, source, candidate, cache, carry, web, spentOn, strikes>>

ReportHeld ==
    /\ pc = "incident" /\ ~NothingHeld /\ snap.candidate
    /\ incident' = TRUE
    /\ CycleOver
    /\ UNCHANGED <<row, source, candidate, cache, carry, web, spentOn, strikes>>

\* closeSourceBreakerRecord: only an open breaker is closed.
CloseRow ==
    IF row.state = "open" THEN row' = ClosedRecord /\ strikes' = {}
    ELSE UNCHANGED <<row, strikes>>

\* Mutant: a hold that keeps nothing out is reported like any other.
ReportUnneeded ==
    /\ pc = "incident" /\ ~NothingHeld /\ ~snap.candidate
    /\ incident' = TRUE
    /\ CycleOver
    /\ UNCHANGED <<row, source, candidate, cache, carry, web, spentOn, strikes>>

\* No pool could pick an item of the source anyway: there is nothing to hold.
CloseUnneeded ==
    /\ pc = "incident" /\ ~NothingHeld /\ ~snap.candidate
    /\ CloseRow
    /\ IF snap.incident
       THEN pc' = "closed" /\ UNCHANGED <<localVars, planVars, lag>>
       ELSE CycleOver
    /\ UNCHANGED <<source, candidate, incident, cache, carry, web, spentOn>>

ResolveClosed ==
    /\ pc = "closed"
    /\ incident' = FALSE
    /\ CycleOver
    /\ UNCHANGED <<row, source, candidate, cache, carry, web, spentOn, strikes>>

\* A refused incident write is left to the next cycle.
IncidentRefused ==
    /\ pc \in {"incident", "closed"}
    /\ Trouble
    /\ CycleOver
    /\ UNCHANGED <<storeVars, cache, carry, web, strikes>>

---------------------------------------------------------------------------
(* The other writers, the clock, the pools, restarts *)

cycle == <<pc, localVars, planVars, lag, cache, carry>>

\* The routes look the source up in a state read outside the lock.
WebRequest(kind) ==
    /\ web = "idle" /\ source = "live"
    /\ kind = "delete" => ~candidate  \* no pool may name the source
    /\ web' = kind
    /\ Request
    /\ UNCHANGED <<storeVars, cycle, strikes>>

WebClose ==
    /\ web = "close" /\ LockFree
    /\ CloseRow
    /\ web' = IF row.state = "open" THEN "resolve" ELSE "idle"
    /\ UNCHANGED <<source, candidate, incident, cycle, spentOn>>

WebResolve ==
    /\ web = "resolve"
    /\ incident' = FALSE
    /\ web' = "idle"
    /\ UNCHANGED <<row, source, candidate, cycle, spentOn, strikes>>

\* deleteSourceRecordAndAssets takes the row along.
WebDelete ==
    /\ web = "delete" /\ LockFree
    /\ source' = "deleted" /\ row' = NoRecord /\ candidate' = FALSE /\ strikes' = {}
    /\ web' = "idle"
    /\ UNCHANGED <<incident, cycle, spentOn>>

\* The admin refuses or dies before its write.
WebGivesUp ==
    /\ web # "idle"
    /\ web' = "idle"
    /\ Trouble
    /\ UNCHANGED <<storeVars, cycle, strikes>>

\* A whole-state write without the source leaves its row behind.
DropSource ==
    /\ source = "live" /\ LockFree
    /\ source' = "dropped" /\ candidate' = FALSE
    /\ Request
    /\ UNCHANGED <<row, incident, cycle, web, strikes>>

\* Quarantine, exclusions, cooldowns and pool edits.
CandidatesChange ==
    /\ source = "live"
    /\ candidate' = ~candidate
    /\ Request
    /\ UNCHANGED <<row, source, incident, cycle, web, strikes>>

Judging == pc \in {"read", "plan", "lock", "replan"}

\* A unit of time since openedAt passes. A cycle is far shorter than the base cooldown, so
\* none passes in the cycle that opened the breaker, no cached result outlives one, and
\* outcomes are carried over one only while no cycle gets as far as its scan.
Tick ==
    /\ row.state = "open" /\ row.age <= MaxCooldown
    /\ pc = "idle" \/ snap.row = row
    /\ Judging => lag = 0
    /\ IF carry = <<>> THEN UNCHANGED spentOn ELSE Trouble
    /\ lag' = IF Judging THEN 1 ELSE 0
    /\ row' = Aged(row)
    /\ snap' = [snap EXCEPT !.row = Aged(snap.row)]
    /\ seen' = Aged(seen) /\ draft' = Aged(draft)
    /\ cache' = [i \in Items |-> NoOutcome]
    /\ UNCHANGED <<source, candidate, incident, pc, spent, queue, fallback, call, heard, todo,
                   changed, carry, web, strikes>>

\* The playout container restarts: what it kept in memory is gone.
Restart ==
    /\ CycleOver
    /\ cache' = [i \in Items |-> NoOutcome] /\ carry' = <<>>
    /\ Trouble
    /\ UNCHANGED <<storeVars, web, strikes>>

---------------------------------------------------------------------------
PlayoutNext ==
    \/ StartCycle \/ PickInline \/ PickWithoutResolve \/ Recover
    \/ \E item \in Items, result \in Results :
           ResolveEnds(item, result) \/ ScanProbe(item, result) \/ ScanLeaves(item, result)
    \/ \E item \in Items : ScanCountsLeft(item)
    \/ ScanEnds \/ CycleCutShort
    \/ ReadPlain \/ PlanOne \/ NothingToWrite \/ WaitForLock \/ PlanAgain
    \/ WriteRow \/ WriteRefused \/ AnswerLost
    \/ ResolveIncident \/ ReportHeld \/ CloseUnneeded \/ ResolveClosed \/ IncidentRefused
    \/ Restart

OthersNext ==
    \/ \E kind \in {"close", "delete"} : WebRequest(kind)
    \/ WebClose \/ WebResolve \/ WebDelete \/ WebGivesUp
    \/ DropSource \/ CandidatesChange
    \/ Tick

Next == PlayoutNext \/ OthersNext

Spec == Init /\ [][Next]_vars

\* The loop goes on, the database answers in the end, time passes, and the alternation of a
\* pool's sources reaches every source it may take from, where a probe is awaited to its end.
LoopGoesOn ==
    \/ StartCycle \/ PickWithoutResolve \/ Recover \/ ScanEnds
    \/ \E item \in Items : ResolveEnds(item, "ok")
    \/ ReadPlain \/ PlanOne \/ NothingToWrite \/ WaitForLock \/ PlanAgain \/ WriteRow
    \/ ResolveIncident \/ ReportHeld \/ CloseUnneeded \/ ResolveClosed

Fairness ==
    /\ WF_vars(LoopGoesOn) /\ WF_vars(Tick)
    /\ SF_vars(\E item \in Items : ScanProbe(item, "ok"))
    /\ WF_vars(WebClose \/ WebResolve \/ WebDelete)

FairSpec == Spec /\ Fairness

---------------------------------------------------------------------------
(* Properties *)

\* A source deleted on its page keeps no breaker row, whatever probes of it still end and
\* are recorded afterwards (recordSourceBreakerOutcomes plans live sources only).
DeletedStaysGone == source = "deleted" => row = NoRecord

\* Only an outcome heard after the cooldown has run out ends or renews a hold: what the
\* playout records during the cooldown changes nothing, carried outcomes included.
HoldIsServed ==
    [][pc = "replan" /\ pc' # "replan" /\ row' # row => Phase(row, 0) # "open"]_vars

\* A breaker that opens does so for the base cooldown and on enough different items, each
\* recorded as failed since the row was last closed by hand or deleted: a close that lands
\* between the two plans of a recording is not undone by what was planned before it.
OpensAfresh ==
    [][row.state # "open" /\ row'.state = "open" =>
         /\ row'.cooldown = BaseCooldown
         /\ Cardinality(row'.failed) >= Threshold
         /\ row'.failed \subseteq strikes']_vars

\* No generic fallback for a failed pick is taken from the source that pick's own failure has
\* just held again, unless that outcome could not be recorded.  The global fallback is excepted:
\* planRecoveryAfterPlaybackPreparationFailure takes the operator's own pick first, held or not.
RecoveryAvoidsHeld ==
    [][fallback' = "generic" /\ fallback # "generic" /\ carry = <<>> => Phase(row, 0) # "open"]_vars

\* A cycle whose incident writes are not refused leaves the incident open exactly when the
\* source is there and held, whatever former cycles failed to write, unless another writer
\* changed the row or dropped the source since the cycle recorded its scan.
IncidentMatchesHold ==
    [][/\ pc \in {"incident", "closed"} /\ pc' = "idle" /\ UNCHANGED spentOn
       /\ pc = "closed" \/ seen.state = row.state
       /\ snap.source = source
       => incident' = (row'.state = "open" /\ source = "live")]_vars

\* A source whose probes no longer fail comes back, and one that no pool could pick is
\* not held for ever.
SourceComesBack == <>[](source = "live" => row.state # "open")

\* No incident of a breaker stands for ever: whoever closed it, deleted or dropped the source.
IncidentEnds == <>[]~incident

\* Once the source's troubles are over, so are the hold and its incident.
TroublesEnd == SourceComesBack /\ IncidentEnds

\* The row as a breaker: whatever the playout, the operators and the clock do to it, it keeps
\* the promises of Breaker (core/source-circuit-breaker.ts, breakerHoldState and
\* planSourceBreakerUpdates): a hold is never prolonged while it runs, and each renewal of
\* one that ran out is twice as long, up to the cap.
AsBreaker == INSTANCE Breaker WITH Base <- BaseCooldown, Cap <- MaxCooldown,
                                   phase <- Phase(row, 0), hold <- row.cooldown
ImplementsBreaker == AsBreaker!Spec

---------------------------------------------------------------------------
(* What comments of the code say of it, and it does not keep *)

\* "An outcome while the cooldown runs ... deserves no longer cooldown": the trial is decided
\* by an outcome probed after the cooldown had run out.
TrialDecides ==
    [][pc = "replan" /\ todo # <<>> /\ todo' = Tail(todo) /\ Phase(draft, lag) = "half-open"
         => ~Head(todo).early]_vars

\* "A close now made since the snapshot was read must not reopen the incident".
ClosedStaysQuiet == [][incident' /\ ~incident => row.state = "open"]_vars

\* "Probes that fail on three different items, with no clean probe of it in between": none of
\* the failures that open the breaker is older than a clean probe its last one is newer than.
NoCleanProbeBetween ==
    [][pc = "replan" /\ draft.state # "open" /\ draft'.state = "open" /\ ~Head(todo).passed
         => ~ \E k \in DOMAIN heard : heard[k].passed /\ heard[k].item \in draft.failed]_vars
=============================================================================

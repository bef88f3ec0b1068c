------------------------ MODULE SourceBreaker_proofs ------------------------
(***************************************************************************)
(* What SourceBreaker keeps for any items, threshold, cooldowns, queue and *)
(* number of failures, troubles and requests.                              *)
(***************************************************************************)
EXTENDS SourceBreaker, TLAPS, SequenceTheorems, FiniteSetTheorems

---------------------------------------------------------------------------
(* The row *)

LEMMA FixedRecordsType == NoRecord \in Records /\ ClosedRecord \in Records
BY CooldownsGrow DEF NoRecord, ClosedRecord, Records, Ages

LEMMA DoubledType ==
    ASSUME NEW c \in 0..MaxCooldown
    PROVE  Doubled(c) \in 0..MaxCooldown
BY CooldownsGrow DEF Doubled

LEMMA OpenRecordType ==
    ASSUME NEW f \in SUBSET Items, NEW c \in 0..MaxCooldown, NEW a \in 0..1
    PROVE  OpenRecord(f, c, a) \in Records
BY CooldownsGrow DEF OpenRecord, Records, Ages

LEMMA NextRecordType ==
    ASSUME NEW r \in Records, NEW o \in Outcomes, NEW l \in 0..1
    PROVE  NextRecord(r, o, l) \in Records
<1>1. /\ o.item \in Items /\ r.failed \cup {o.item} \in SUBSET Items
      /\ r.cooldown \in 0..MaxCooldown /\ BaseCooldown \in 0..MaxCooldown
  BY CooldownsGrow DEF Records, Outcomes
<1>2. [r EXCEPT !.state = "closed", !.failed = r.failed \cup {o.item}] \in Records
  BY <1>1 DEF Records
<1>3. AfterFailure(r, o.item, l) \in Records
  BY <1>1, <1>2, DoubledType, OpenRecordType DEF AfterFailure
<1> QED BY <1>3, FixedRecordsType DEF NextRecord

LEMMA AgedType ==
    ASSUME NEW r \in Records
    PROVE  /\ Aged(r) \in Records /\ Aged(r).state = r.state
           /\ Aged(r).failed = r.failed /\ Aged(r).cooldown = r.cooldown
BY CooldownsGrow DEF Aged, Records, Ages

---------------------------------------------------------------------------
(* Outcomes *)

LEMMA OutcomeType ==
    ASSUME NEW item \in Items, NEW result \in Results
    PROVE  Outcome(item, result) \in Outcomes
BY DEF Outcome, Outcomes

LEMMA SeqOutcomes ==
    ASSUME NEW s \in Seq(Outcomes), NEW result \in Results
    PROVE  /\ AllEarly(s) \in Seq(Outcomes) /\ Len(AllEarly(s)) = Len(s)
           /\ AllPassed(s, result) \in Seq(Outcomes) /\ Len(AllPassed(s, result)) = Len(s)
<1>1. \A o \in Outcomes : [o EXCEPT !.early = TRUE] \in Outcomes /\ [o EXCEPT !.passed = TRUE] \in Outcomes
  BY DEF Outcomes
<1>2. Len(s) \in Nat /\ DOMAIN s = 1..Len(s) /\ \A k \in 1..Len(s) : s[k] \in Outcomes
  OBVIOUS
<1>3. /\ [k \in 1..Len(s) |-> [s[k] EXCEPT !.early = TRUE]] \in [1..Len(s) -> Outcomes]
      /\ [k \in 1..Len(s) |-> [s[k] EXCEPT !.passed = TRUE]] \in [1..Len(s) -> Outcomes]
  BY <1>1, <1>2
<1>4. \A f \in [1..Len(s) -> Outcomes] : f \in Seq(Outcomes) /\ Len(f) = Len(s)
  BY <1>2
<1> QED BY <1>2, <1>3, <1>4 DEF AllEarly, AllPassed

LEMMA NewestType ==
    ASSUME NEW s \in Seq(Outcomes)
    PROVE  Newest(s) \in Seq(Outcomes) /\ (s # <<>> => Newest(s) # <<>>)
<1>1. CASE Len(s) <= CarryLimit
  BY <1>1 DEF Newest
<1>2. CASE ~(Len(s) <= CarryLimit)
  <2>1. Len(s) \in Nat /\ CarryLimit \in Nat \ {0}
    BY SizesAreNaturals
  <2>2. Len(s) - CarryLimit + 1 \in 1..Len(s) /\ Len(s) \in 1..Len(s)
    BY <1>2, <2>1
  <2>3. Newest(s) = SubSeq(s, Len(s) - CarryLimit + 1, Len(s))
    BY <1>2 DEF Newest
  <2>4. Newest(s) \in Seq(Outcomes) /\ Len(Newest(s)) = Len(s) - (Len(s) - CarryLimit + 1) + 1
    BY <2>1, <2>2, <2>3
  <2> QED BY <2>1, <2>4
<1> QED BY <1>1, <1>2

LEMMA OneOutcome ==
    ASSUME NEW o \in Outcomes
    PROVE  <<o>> \in Seq(Outcomes) /\ Len(<<o>>) = 1 /\ <<o>> # <<>>
OBVIOUS

Caches == {c \in [Items -> Seq(Outcomes)] : \A i \in Items : Len(c[i]) <= 1}

LEMMA CacheUpdate ==
    ASSUME NEW c \in Caches, NEW item \in Items, NEW e \in Seq(Outcomes), Len(e) <= 1
    PROVE  [c EXCEPT ![item] = e] \in Caches
BY DEF Caches

LEMMA EmptyCache == [i \in Items |-> NoOutcome] \in Caches
BY EmptySeq DEF Caches, NoOutcome

---------------------------------------------------------------------------
(* Typing *)

LEMMA InitType == Init => TypeOK
<1> SUFFICES ASSUME Init PROVE TypeOK
  OBVIOUS
<1>1. queue \in Seq(Outcomes) /\ carry \in Seq(Outcomes) /\ heard \in Seq(Outcomes) /\ todo \in Seq(Outcomes)
  BY EmptySeq DEF Init
<1>2. row \in Records /\ seen \in Records /\ draft \in Records /\ snap \in Snapshots
  BY FixedRecordsType DEF Init, NoSnapshot, Snapshots
<1>3. /\ pc = "idle" /\ source = "live" /\ call = "scan" /\ web = "idle" /\ lag = 0
      /\ candidate = TRUE /\ incident = FALSE /\ spent = FALSE /\ fallback = "none" /\ changed = FALSE
      /\ cache = [i \in Items |-> NoOutcome] /\ strikes = {}
      /\ spentOn = [failures |-> 0, troubles |-> 0, requests |-> 0]
  BY DEF Init
<1>4. spentOn \in [failures : Nat, troubles : Nat, requests : Nat]
  BY <1>3
<1>5. cache \in [Items -> Seq(Outcomes)] /\ \A i \in Items : Len(cache[i]) <= 1
  BY <1>3, EmptySeq DEF NoOutcome
<1>6. pc \in Steps /\ lag \in 0..1 /\ strikes \subseteq Items
  BY <1>3 DEF Steps
<1>7. /\ source \in {"live", "deleted", "dropped"} /\ web \in {"idle", "close", "resolve", "delete"}
      /\ call \in {"clean pick", "failed pick", "scan"}
      /\ candidate \in BOOLEAN /\ incident \in BOOLEAN /\ spent \in BOOLEAN
      /\ fallback \in Fallbacks /\ changed \in BOOLEAN
  BY <1>3 DEF Fallbacks
<1> QED BY <1>1, <1>2, <1>4, <1>5, <1>6, <1>7 DEF TypeOK

Spendings == [failures : Nat, troubles : Nat, requests : Nat]

LEMMA SpendType ==
    ASSUME TypeOK
    PROVE  Failure \/ Trouble \/ Request => spentOn' \in Spendings /\ spentOn' # spentOn
<1>1. ASSUME NEW kind \in {"failures", "troubles", "requests"}, NEW bound, Spend(kind, bound)
      PROVE  spentOn' \in Spendings /\ spentOn' # spentOn
  <2>1. spentOn' = [spentOn EXCEPT ![kind] = spentOn[kind] + 1] /\ spentOn \in Spendings
    BY <1>1 DEF Spend, TypeOK, Spendings
  <2>2. spentOn[kind] \in Nat
    BY <2>1 DEF Spendings
  <2>3. spentOn[kind] + 1 \in Nat /\ spentOn[kind] + 1 # spentOn[kind]
    BY <2>2
  <2>4. spentOn' \in Spendings
    BY <2>1, <2>3 DEF Spendings
  <2>5. spentOn'[kind] = spentOn[kind] + 1
    BY <2>1 DEF Spendings
  <2> QED BY <2>3, <2>4, <2>5
<1> QED BY <1>1 DEF Failure, Trouble, Request

\* The type invariant in parts: what is stored, where the cycle is, what it records, and
\* what is kept from cycle to cycle.
StoreTypes ==
    /\ row \in Records /\ source \in {"live", "deleted", "dropped"}
    /\ candidate \in BOOLEAN /\ incident \in BOOLEAN /\ strikes \subseteq Items
CycleTypes ==
    /\ pc \in Steps /\ snap \in Snapshots /\ seen \in Records
    /\ spent \in BOOLEAN /\ queue \in Seq(Outcomes) /\ fallback \in Fallbacks
PlanTypes ==
    /\ call \in {"clean pick", "failed pick", "scan"}
    /\ heard \in Seq(Outcomes) /\ todo \in Seq(Outcomes)
    /\ draft \in Records /\ changed \in BOOLEAN /\ lag \in 0..1
KeptTypes ==
    /\ cache \in Caches /\ carry \in Seq(Outcomes)
    /\ web \in {"idle", "close", "resolve", "delete"}
    /\ spentOn \in Spendings

LEMMA TypeParts ==
    /\ TypeOK <=> StoreTypes /\ CycleTypes /\ PlanTypes /\ KeptTypes
    /\ TypeOK' <=> StoreTypes' /\ CycleTypes' /\ PlanTypes' /\ KeptTypes'
BY DEF TypeOK, StoreTypes, CycleTypes, PlanTypes, KeptTypes, Caches, Spendings

LEMMA CacheType == TypeOK => cache \in Caches
BY DEF TypeOK, Caches

LEMMA PlanOverType == PlanOver => PlanTypes'
<1> SUFFICES ASSUME PlanOver PROVE PlanTypes'
  OBVIOUS
<1>1. heard' \in Seq(Outcomes) /\ todo' \in Seq(Outcomes)
  BY EmptySeq DEF PlanOver
<1>2. lag' \in 0..1
  BY DEF PlanOver
<1>3. call' = "scan" /\ draft' = NoRecord /\ changed' = FALSE
  BY DEF PlanOver
<1> QED BY <1>1, <1>2, <1>3, FixedRecordsType DEF PlanTypes

LEMMA CycleOverType == CycleOver => CycleTypes' /\ PlanTypes'
<1> SUFFICES ASSUME CycleOver PROVE CycleTypes' /\ PlanTypes'
  OBVIOUS
<1>1. queue' \in Seq(Outcomes)
  BY EmptySeq DEF CycleOver
<1>2. snap' \in Snapshots /\ seen' \in Records
  BY FixedRecordsType DEF CycleOver, NoSnapshot, Snapshots
<1>3. pc' = "idle" /\ spent' = FALSE /\ fallback' = "none" /\ PlanOver
  BY DEF CycleOver
<1> QED BY <1>1, <1>2, <1>3, PlanOverType DEF CycleTypes, Steps, Fallbacks

\* The cycle up to its scan, and the scan.
LEMMA CycleStepType ==
    ASSUME TypeOK,
           \/ StartCycle \/ PickInline \/ PickWithoutResolve \/ Recover
           \/ \E item \in Items, result \in Results :
                  ResolveEnds(item, result) \/ ScanProbe(item, result) \/ ScanLeaves(item, result)
           \/ \E item \in Items : ScanCountsLeft(item)
           \/ ScanEnds \/ CycleCutShort
    PROVE  TypeOK'
<1> USE DEF storeVars, localVars, planVars
<1>1. CASE StartCycle
  BY <1>1 DEF StartCycle, TypeOK, Snapshots, Steps
<1>2. CASE PickInline
  <2>1. spentOn' \in Spendings /\ spent' \in BOOLEAN /\ pc' \in Steps
    BY <1>2, SpendType DEF PickInline, SpendTrial, TypeOK, Spendings, Steps
  <2> QED BY <1>2, <2>1 DEF PickInline, TypeOK, Spendings
<1>3. CASE PickWithoutResolve
  <2>1. spent' \in BOOLEAN /\ pc' \in Steps
    BY <1>3 DEF PickWithoutResolve, SpendTrial, TypeOK, Steps
  <2> QED BY <1>3, <2>1 DEF PickWithoutResolve, TypeOK
<1>4. CASE Recover
  <2>1. fallback' \in Fallbacks /\ pc' \in Steps
    BY <1>4 DEF Recover, TiersOpen, Fallbacks, Steps
  <2> QED BY <1>4, <2>1 DEF Recover, TypeOK
<1>5. ASSUME NEW item \in Items, NEW result \in Results, ResolveEnds(item, result)
      PROVE  TypeOK'
  <2>1. spentOn' \in Spendings
    BY <1>5, SpendType DEF ResolveEnds, ProbeEnds, TypeOK, Spendings
  <2>2. carry' \in Seq(Outcomes)
    BY <1>5, SeqOutcomes DEF ResolveEnds, TypeOK
  <2>3. heard' \in Seq(Outcomes)
    <3>1. heard' = heard \/ heard' = <<Outcome(item, result)>>
      BY <1>5 DEF ResolveEnds
    <3> QED BY <3>1, OutcomeType, OneOutcome DEF TypeOK
  <2>4. pc' \in Steps /\ lag' \in 0..1 /\ call' \in {"clean pick", "failed pick", "scan"}
    <3>1. pc' \in {"read", "recover"} /\ call' \in {call, "clean pick", "failed pick"}
      BY <1>5 DEF ResolveEnds
    <3>2. lag' = lag \/ lag' = 0
      BY <1>5 DEF ResolveEnds
    <3>3. pc' \in Steps
      BY <3>1 DEF Steps
    <3>4. lag' \in 0..1
      <4>1. lag \in 0..1
        BY DEF TypeOK
      <4>2. 0 \in 0..1
        OBVIOUS
      <4> QED BY <3>2, <4>1, <4>2, Zenon
    <3>5. call' \in {"clean pick", "failed pick", "scan"}
      BY <3>1 DEF TypeOK
    <3> QED BY <3>3, <3>4, <3>5
  <2> QED BY <1>5, <2>1, <2>2, <2>3, <2>4 DEF ResolveEnds, TypeOK, Spendings
<1>6. ASSUME NEW item \in Items, NEW result \in Results, ScanProbe(item, result)
      PROVE  TypeOK'
  <2>1. spentOn' \in Spendings /\ spent' \in BOOLEAN
    BY <1>6, SpendType DEF ScanProbe, SpendTrial, ProbeEnds, TypeOK, Spendings
  <2>2. carry' \in Seq(Outcomes)
    BY <1>6, SeqOutcomes DEF ScanProbe, TypeOK
  <2>3. queue' \in Seq(Outcomes)
    <3>1. queue \in Seq(Outcomes) /\ AllPassed(queue, result) \in Seq(Outcomes)
      BY SeqOutcomes DEF TypeOK
    <3>2. queue' = queue \/ queue' = Append(AllPassed(queue, result), Outcome(item, result))
      BY <1>6 DEF ScanProbe
    <3> QED BY <3>1, <3>2, OutcomeType
  <2> QED BY <1>6, <2>1, <2>2, <2>3 DEF ScanProbe, TypeOK, Spendings
<1>7. ASSUME NEW item \in Items, NEW result \in Results, ScanLeaves(item, result)
      PROVE  TypeOK'
  <2>1. spentOn' \in Spendings /\ spent' \in BOOLEAN
    BY <1>7, SpendType DEF ScanLeaves, SpendTrial, TypeOK
  <2>2. <<Outcome(item, result)>> \in Seq(Outcomes) /\ Len(<<Outcome(item, result)>>) <= 1
    BY OutcomeType, OneOutcome
  <2>3. cache' \in Caches
    BY <1>7, <2>2, CacheUpdate, CacheType DEF ScanLeaves
  <2> QED BY <1>7, <2>1, <2>3 DEF ScanLeaves, TypeOK, Spendings, Caches
<1>8. ASSUME NEW item \in Items, ScanCountsLeft(item)
      PROVE  TypeOK'
  <2>1. spent' \in BOOLEAN
    BY <1>8 DEF ScanCountsLeft, SpendTrial, TypeOK
  <2>2. cache[item] \in Seq(Outcomes) /\ cache[item] # <<>>
    BY <1>8 DEF ScanCountsLeft, TypeOK, NoOutcome
  <2>3. cache[item][1] \in Outcomes
    BY <2>2
  <2>4. queue' = Append(queue, cache[item][1]) /\ queue \in Seq(Outcomes)
    BY <1>8 DEF ScanCountsLeft, TypeOK
  <2>5. queue' \in Seq(Outcomes)
    BY <2>3, <2>4
  <2>6. cache' \in Caches
    <3>1. NoOutcome \in Seq(Outcomes) /\ Len(NoOutcome) <= 1
      BY EmptySeq DEF NoOutcome
    <3>2. cache' = [cache EXCEPT ![item] = NoOutcome]
      BY <1>8 DEF ScanCountsLeft
    <3> QED BY <3>1, <3>2, CacheUpdate, CacheType
  <2> QED BY <1>8, <2>1, <2>5, <2>6 DEF ScanCountsLeft, TypeOK, Caches
<1>9. CASE ScanEnds
  <2>1. carry' \in Seq(Outcomes) /\ heard' \in Seq(Outcomes)
    <3>1. carry \in Seq(Outcomes) /\ queue \in Seq(Outcomes)
      BY DEF TypeOK
    <3>2. carry \o queue \in Seq(Outcomes)
      BY <3>1, ConcatProperties
    <3> QED BY <1>9, <3>2, EmptySeq DEF ScanEnds
  <2>2. pc' \in Steps /\ lag' \in 0..1 /\ call' \in {"clean pick", "failed pick", "scan"} /\ fallback' \in Fallbacks
    BY <1>9 DEF ScanEnds, Steps, Fallbacks
  <2> QED BY <1>9, <2>1, <2>2 DEF ScanEnds, TypeOK
<1>10. CASE CycleCutShort
  <2>1. spentOn' \in Spendings
    BY <1>10, SpendType DEF CycleCutShort
  <2>2. CycleOver /\ UNCHANGED <<row, source, candidate, incident, cache, carry, web, strikes>>
    BY <1>10 DEF CycleCutShort
  <2> QED BY <2>1, <2>2, CycleOverType, TypeParts DEF StoreTypes, KeptTypes
<1> QED BY <1>1, <1>2, <1>3, <1>4, <1>5, <1>6, <1>7, <1>8, <1>9, <1>10

\* What is still under way at a commit keeps its type.
LEMMA CommitType ==
    ASSUME TypeOK, Commit
    PROVE  row' \in Records /\ strikes' \subseteq Items /\ cache' \in Caches
<1>1. row' \in Records
  BY DEF Commit, TypeOK
<1>2. HeardFailures \subseteq Items
  <2>1. \A k \in DOMAIN heard : heard[k] \in Outcomes
    <3>1. heard \in Seq(Outcomes)
      BY DEF TypeOK
    <3> QED BY <3>1
  <2>2. \A o \in Outcomes : o.item \in Items
    BY DEF Outcomes
  <2> QED BY <2>1, <2>2 DEF HeardFailures
<1>3. \A s \in Seq(Outcomes) : AsOfCommit(s) \in Seq(Outcomes) /\ Len(AsOfCommit(s)) = Len(s)
  BY SeqOutcomes DEF AsOfCommit, Results
<1>4. cache' \in Caches
  BY <1>3, CacheType DEF Commit, Caches
<1> QED BY <1>1, <1>2, <1>4 DEF Commit, TypeOK

LEMMA AsOfCommitType ==
    ASSUME NEW s \in Seq(Outcomes)
    PROVE  AsOfCommit(s) \in Seq(Outcomes) /\ (s # <<>> => AsOfCommit(s) # <<>>)
<1>1. AllEarly(s) \in Seq(Outcomes) /\ Len(AllEarly(s)) = Len(s)
  BY SeqOutcomes DEF Results
<1>2. s # <<>> => Len(s) # 0
  OBVIOUS
<1>3. AllEarly(s) = <<>> => Len(AllEarly(s)) = 0
  BY EmptySeq
<1> QED BY <1>1, <1>2, <1>3 DEF AsOfCommit

LEMMA KeptOutcomesType ==
    ASSUME TypeOK
    PROVE  /\ KeptOutcomes \in Seq(Outcomes)
           /\ call # "scan" /\ heard # <<>> => KeptOutcomes # <<>>
<1>1. /\ carry \in Seq(Outcomes) /\ heard \in Seq(Outcomes) /\ queue \in Seq(Outcomes)
  BY DEF TypeOK
<1>2. carry \o heard \in Seq(Outcomes) /\ Len(carry \o heard) = Len(carry) + Len(heard)
  BY <1>1, ConcatProperties
<1>3. heard # <<>> => carry \o heard # <<>>
  BY <1>1, <1>2, EmptySeq
<1> QED BY <1>1, <1>2, <1>3, NewestType DEF KeptOutcomes

LEMMA ReturnType ==
    ASSUME TypeOK, NEW r \in Records, Return(r)
    PROVE  pc' \in Steps /\ seen' \in Records /\ PlanTypes'
<1>1. pc' \in Steps
  BY DEF Return, TypeOK, Steps
<1>2. seen' \in {seen, r} /\ PlanOver
  BY DEF Return
<1> QED BY <1>1, <1>2, PlanOverType DEF TypeOK

LEMMA GoOnUnrecordedType ==
    ASSUME TypeOK, GoOnUnrecorded
    PROVE  CycleTypes' /\ PlanTypes'
<1>1. CASE call = "scan"
  BY <1>1, CycleOverType DEF GoOnUnrecorded
<1>2. CASE call # "scan"
  <2>1. pc' \in {"scan", "recover"} /\ PlanOver /\ UNCHANGED <<snap, seen, spent, queue, fallback>>
    BY <1>2 DEF GoOnUnrecorded
  <2>2. pc' \in Steps
    BY <2>1 DEF Steps
  <2> QED BY <2>1, <2>2, PlanOverType, TypeParts DEF CycleTypes
<1> QED BY <1>1, <1>2

\* recordSourceBreakerOutcomes.
LEMMA RecordingStepType ==
    ASSUME TypeOK,
           \/ ReadPlain \/ PlanOne \/ NothingToWrite \/ WaitForLock \/ PlanAgain
           \/ WriteRow \/ WriteRefused \/ AnswerLost
    PROVE  TypeOK'
<1> USE DEF storeVars, localVars, planVars
<1>0. StoreTypes /\ CycleTypes /\ PlanTypes /\ KeptTypes
  BY TypeParts
<1>1. CASE ReadPlain
  BY <1>1 DEF ReadPlain, StartPlan, TypeOK, Steps
<1>2. CASE PlanOne
  <2>1. Head(todo) \in Outcomes /\ Tail(todo) \in Seq(Outcomes)
    BY <1>2, HeadTailProperties DEF PlanOne, TypeOK
  <2>2. draft' \in Records /\ todo' \in Seq(Outcomes)
    BY <1>2, <2>1, NextRecordType DEF PlanOne, TypeOK
  <2>3. changed' \in BOOLEAN
    BY <1>2 DEF PlanOne
  <2> QED BY <1>2, <2>2, <2>3 DEF PlanOne, TypeOK
<1>3. CASE NothingToWrite
  <2>1. Return(draft) /\ draft \in Records
    BY <1>3 DEF NothingToWrite, TypeOK
  <2>2. pc' \in Steps /\ seen' \in Records /\ PlanTypes'
    BY <2>1, ReturnType
  <2>3. UNCHANGED <<row, source, candidate, incident, strikes, snap, spent, queue, fallback,
                    cache, carry, web, spentOn>>
    BY <1>3 DEF NothingToWrite
  <2> QED BY <1>0, <2>2, <2>3, TypeParts DEF StoreTypes, CycleTypes, KeptTypes
<1>4. CASE WaitForLock
  BY <1>4 DEF WaitForLock, TypeOK, Steps
<1>5. CASE PlanAgain
  <2>1. LiveOutcomes \in Seq(Outcomes)
    BY EmptySeq DEF LiveOutcomes, TypeOK
  <2> QED BY <1>5, <2>1 DEF PlanAgain, StartPlan, TypeOK, Steps
<1>6. CASE WriteRow
  <2>1. row' \in Records /\ strikes' \subseteq Items /\ cache' \in Caches
    BY <1>6, CommitType DEF WriteRow
  <2>2. queue' \in Seq(Outcomes) /\ carry' \in Seq(Outcomes)
    BY <1>6, AsOfCommitType DEF WriteRow, TypeOK
  <2>3. pc' \in Steps /\ seen' \in Records /\ PlanTypes'
    BY <1>6, <2>1, ReturnType DEF WriteRow
  <2>4. UNCHANGED <<source, candidate, incident, snap, spent, fallback, web, spentOn>>
    BY <1>6 DEF WriteRow
  <2> QED BY <1>0, <2>1, <2>2, <2>3, <2>4, TypeParts DEF StoreTypes, CycleTypes, KeptTypes
<1>7. CASE WriteRefused
  <2>1. carry' \in Seq(Outcomes) /\ spentOn' \in Spendings
    BY <1>7, KeptOutcomesType, SpendType DEF WriteRefused
  <2>2. CycleTypes' /\ PlanTypes'
    BY <1>7, GoOnUnrecordedType DEF WriteRefused
  <2>3. UNCHANGED <<row, source, candidate, incident, strikes, cache, web>>
    BY <1>7 DEF WriteRefused
  <2> QED BY <1>0, <2>1, <2>2, <2>3, TypeParts DEF StoreTypes, KeptTypes
<1>8. CASE AnswerLost
  <2>1. row' \in Records /\ strikes' \subseteq Items /\ cache' \in Caches
    BY <1>8, CommitType DEF AnswerLost
  <2>2. carry' \in Seq(Outcomes) /\ spentOn' \in Spendings
    BY <1>8, KeptOutcomesType, AsOfCommitType, SpendType DEF AnswerLost
  <2>3. CycleTypes' /\ PlanTypes'
    BY <1>8, GoOnUnrecordedType DEF AnswerLost
  <2>4. UNCHANGED <<source, candidate, incident, web>>
    BY <1>8 DEF AnswerLost
  <2> QED BY <1>0, <2>1, <2>2, <2>3, <2>4, TypeParts DEF StoreTypes, KeptTypes
<1> QED BY <1>1, <1>2, <1>3, <1>4, <1>5, <1>6, <1>7, <1>8

\* The incident of the breaker.
LEMMA IncidentStepType ==
    ASSUME TypeOK,
           \/ ResolveIncident \/ ReportHeld \/ CloseUnneeded \/ ResolveClosed \/ IncidentRefused
           \/ Restart
    PROVE  TypeOK'
<1> USE DEF storeVars, localVars, planVars
<1>0. StoreTypes /\ CycleTypes /\ PlanTypes /\ KeptTypes
  BY TypeParts
<1>1. CASE ResolveIncident \/ ReportHeld \/ ResolveClosed
  <2>1. incident' \in BOOLEAN /\ CycleOver
    BY <1>0, <1>1 DEF ResolveIncident, ReportHeld, ResolveClosed, StoreTypes
  <2>2. UNCHANGED <<row, source, candidate, cache, carry, web, spentOn, strikes>>
    BY <1>1 DEF ResolveIncident, ReportHeld, ResolveClosed
  <2> QED BY <1>0, <2>1, <2>2, CycleOverType, TypeParts DEF StoreTypes, KeptTypes
<1>2. CASE CloseUnneeded
  <2>1. row' \in Records /\ strikes' \subseteq Items
    BY <1>0, <1>2, FixedRecordsType DEF CloseUnneeded, CloseRow, StoreTypes
  <2>2. UNCHANGED <<source, candidate, incident, cache, carry, web, spentOn>>
    BY <1>2 DEF CloseUnneeded
  <2>3. CASE CycleOver
    BY <1>0, <2>1, <2>2, <2>3, CycleOverType, TypeParts DEF StoreTypes, KeptTypes
  <2>4. CASE pc' = "closed" /\ UNCHANGED <<localVars, planVars, lag>>
    <3>1. CycleTypes' /\ PlanTypes'
      BY <1>0, <2>4 DEF CycleTypes, PlanTypes, Steps
    <3> QED BY <1>0, <2>1, <2>2, <3>1, TypeParts DEF StoreTypes, KeptTypes
  <2> QED BY <1>2, <2>3, <2>4 DEF CloseUnneeded
<1>3. CASE IncidentRefused
  <2>1. spentOn' \in Spendings
    BY <1>3, SpendType DEF IncidentRefused
  <2>2. CycleOver /\ UNCHANGED <<row, source, candidate, incident, cache, carry, web, strikes>>
    BY <1>3 DEF IncidentRefused
  <2> QED BY <1>0, <2>1, <2>2, CycleOverType, TypeParts DEF StoreTypes, KeptTypes
<1>4. CASE Restart
  <2>1. spentOn' \in Spendings
    BY <1>4, SpendType DEF Restart
  <2>2. CycleOver /\ UNCHANGED <<row, source, candidate, incident, web, strikes>>
    BY <1>4 DEF Restart
  <2>3. cache' \in Caches /\ carry' \in Seq(Outcomes)
    BY <1>4, EmptyCache, EmptySeq DEF Restart
  <2> QED BY <1>0, <2>1, <2>2, <2>3, CycleOverType, TypeParts DEF StoreTypes, KeptTypes
<1> QED BY <1>1, <1>2, <1>3, <1>4

\* The admin, whole-state writes, the clock.
LEMMA OthersStepType == TypeOK /\ OthersNext => TypeOK'
<1> SUFFICES ASSUME TypeOK, OthersNext PROVE TypeOK'
  OBVIOUS
<1> USE DEF storeVars, localVars, planVars, cycle
<1>0. StoreTypes /\ CycleTypes /\ PlanTypes /\ KeptTypes
  BY TypeParts
<1>1. ASSUME NEW kind \in {"close", "delete"}, WebRequest(kind)
      PROVE  TypeOK'
  <2>1. spentOn' \in Spendings
    BY <1>1, SpendType DEF WebRequest
  <2> QED BY <1>1, <2>1 DEF WebRequest, TypeOK, Spendings
<1>2. CASE WebClose
  <2>1. row' \in Records /\ strikes' \subseteq Items
    BY <1>0, <1>2, FixedRecordsType DEF WebClose, CloseRow, StoreTypes
  <2>2. web' \in {"idle", "close", "resolve", "delete"}
    BY <1>2 DEF WebClose
  <2> QED BY <1>2, <2>1, <2>2 DEF WebClose, TypeOK
<1>3. CASE WebResolve
  BY <1>3 DEF WebResolve, TypeOK
<1>4. CASE WebDelete
  BY <1>4, FixedRecordsType DEF WebDelete, TypeOK
<1>5. CASE WebGivesUp
  <2>1. spentOn' \in Spendings
    BY <1>5, SpendType DEF WebGivesUp
  <2> QED BY <1>5, <2>1 DEF WebGivesUp, TypeOK, Spendings
<1>6. CASE DropSource
  <2>1. spentOn' \in Spendings
    BY <1>6, SpendType DEF DropSource
  <2> QED BY <1>6, <2>1 DEF DropSource, TypeOK, Spendings
<1>7. CASE CandidatesChange
  <2>1. spentOn' \in Spendings
    BY <1>7, SpendType DEF CandidatesChange
  <2> QED BY <1>7, <2>1 DEF CandidatesChange, TypeOK, Spendings
<1>8. CASE Tick
  <2>1. spentOn' \in Spendings
    BY <1>0, <1>8, SpendType DEF Tick, KeptTypes
  <2>2. row' \in Records /\ seen' \in Records /\ draft' \in Records /\ Aged(snap.row) \in Records
    BY <1>0, <1>8, AgedType DEF Tick, StoreTypes, CycleTypes, PlanTypes, Snapshots
  <2>3. snap' \in Snapshots
    BY <1>0, <1>8, <2>2 DEF Tick, CycleTypes, Snapshots
  <2>4. lag' \in 0..1 /\ cache' \in Caches
    BY <1>8, EmptyCache DEF Tick
  <2>5. UNCHANGED <<source, candidate, incident, pc, spent, queue, fallback, call, heard, todo,
                    changed, carry, web, strikes>>
    BY <1>8 DEF Tick
  <2> QED BY <1>0, <2>1, <2>2, <2>3, <2>4, <2>5, TypeParts
             DEF StoreTypes, CycleTypes, PlanTypes, KeptTypes
<1> QED BY <1>1, <1>2, <1>3, <1>4, <1>5, <1>6, <1>7, <1>8 DEF OthersNext

LEMMA TypeNext == TypeOK /\ [Next]_vars => TypeOK'
<1> SUFFICES ASSUME TypeOK, [Next]_vars PROVE TypeOK'
  OBVIOUS
<1>1. CASE UNCHANGED vars
  BY <1>1 DEF vars, storeVars, localVars, planVars, TypeOK
<1>2. CASE PlayoutNext
  BY <1>2, CycleStepType, RecordingStepType, IncidentStepType DEF PlayoutNext
<1> QED BY <1>1, <1>2, OthersStepType DEF Next

\* The row, the snapshot, the plan and what is kept keep their types under every
\* interleaving; above all, no cooldown exceeds its cap.
THEOREM BreakerTypeCorrect == Spec => []TypeOK
BY InitType, TypeNext, PTL DEF Spec

---------------------------------------------------------------------------
(* The inductive invariant *)

\* A deleted source has no row, and a row holds failures only that were recorded since it was
\* last closed by hand.
RowInv ==
    /\ source = "deleted" => row = NoRecord
    /\ row.failed \subseteq strikes

\* The snapshot knows every incident that is open, and a row is still closed when its
\* incident is resolved: nobody but the cycle opens either.
SnapInv ==
    /\ pc # "idle" /\ ~snap.incident => ~incident
    /\ pc = "closed" => row.state # "open"

\* Until the cycle chooses a fallback, a held row is the one it has seen, for the same reason.
SeenInv ==
    pc \in {"select", "resolve"} \/ (pc = "recover" /\ carry = <<>>)
        => (row.state = "open" => seen = row)

\* A plan under the lock knows the row: no other writer is between it and its commit.
LockedPlan ==
    /\ todo # <<>> \/ changed => source = "live"
    /\ ~changed => draft = row
    /\ changed => Phase(row, lag) # "open"
    /\ draft.failed \subseteq strikes \cup HeardFailures
    /\ \A k \in DOMAIN todo : ~todo[k].ok => todo[k].item \in HeardFailures
    /\ row.state # "open" /\ draft.state = "open" =>
           /\ Phase(draft, lag) = "open"
           /\ draft.cooldown = BaseCooldown
           /\ Cardinality(draft.failed) >= Threshold

PlanInv ==
    /\ pc = "plan" /\ ~changed => (row.state = "open" => draft = row)
    /\ pc = "replan" => LockedPlan
    /\ pc \in {"read", "plan", "lock", "replan"} /\ call # "scan" => heard # <<>>

IInv == TypeOK /\ RowInv /\ SnapInv /\ SeenInv /\ PlanInv

LEMMA InvInit == Init => RowInv /\ SnapInv /\ SeenInv /\ PlanInv
<1> SUFFICES ASSUME Init PROVE RowInv /\ SnapInv /\ SeenInv /\ PlanInv
  OBVIOUS
<1>1. pc = "idle" /\ row = NoRecord /\ NoRecord.failed = {}
  BY DEF Init, NoRecord
<1> QED BY <1>1 DEF RowInv, SnapInv, SeenInv, PlanInv

\* What one outcome does to a record.
LEMMA NextRecordFacts ==
    ASSUME NEW r \in Records, NEW o \in Outcomes, NEW l \in 0..1
    PROVE  /\ ~Counts(r, o, l) => NextRecord(r, o, l) = r
           /\ NextRecord(r, o, l).failed \subseteq r.failed \cup (IF o.ok THEN {} ELSE {o.item})
           /\ r.state # "open" /\ NextRecord(r, o, l).state = "open" =>
                  /\ Phase(NextRecord(r, o, l), l) = "open"
                  /\ NextRecord(r, o, l).cooldown = BaseCooldown
                  /\ Cardinality(NextRecord(r, o, l).failed) >= Threshold
<1>1. CASE ~Counts(r, o, l)
  <2>1. NextRecord(r, o, l) = r
    BY <1>1 DEF NextRecord
  <2> QED BY <1>1, <2>1
<1>2. CASE Counts(r, o, l) /\ o.ok
  <2>1. NextRecord(r, o, l) = ClosedRecord
    BY <1>2 DEF NextRecord
  <2> QED BY <1>2, <2>1 DEF ClosedRecord
<1>3. CASE Counts(r, o, l) /\ ~o.ok
  <2>1. NextRecord(r, o, l) = AfterFailure(r, o.item, l)
    BY <1>3 DEF NextRecord
  <2>2. AfterFailure(r, o.item, l).failed = r.failed \cup {o.item}
    BY DEF AfterFailure, OpenRecord, Records
  <2>3. ASSUME r.state # "open", AfterFailure(r, o.item, l).state = "open"
        PROVE  /\ Cardinality(r.failed \cup {o.item}) >= Threshold
               /\ AfterFailure(r, o.item, l) = OpenRecord(r.failed \cup {o.item}, BaseCooldown, l)
    BY <2>3 DEF AfterFailure, Phase, Records
  <2>4. Phase(OpenRecord(r.failed \cup {o.item}, BaseCooldown, l), l) = "open"
    BY CooldownsGrow DEF Phase, OpenRecord
  <2>5. OpenRecord(r.failed \cup {o.item}, BaseCooldown, l).cooldown = BaseCooldown
    BY DEF OpenRecord
  <2> QED BY <1>3, <2>1, <2>2, <2>3, <2>4, <2>5
<1> QED BY <1>1, <1>2, <1>3

\* One more outcome is planned under the lock.
LEMMA PlanOneKeeps ==
    ASSUME TypeOK, LockedPlan, PlanOne
    PROVE  LockedPlan'
<1> DEFINE o == Head(todo)
<1>0. /\ draft \in Records /\ lag \in 0..1 /\ o \in Outcomes /\ todo \in Seq(Outcomes) /\ todo # <<>>
  <2>1. todo \in Seq(Outcomes) /\ todo # <<>>
    BY DEF PlanOne, TypeOK
  <2>2. draft \in Records
    BY DEF TypeOK
  <2>3. lag \in 0..1
    BY DEF TypeOK
  <2> QED BY <2>1, <2>2, <2>3, HeadTailProperties
<1>1. /\ UNCHANGED <<row, source, lag, strikes, heard>>
      /\ draft' = NextRecord(draft, o, lag) /\ changed' = (changed \/ Counts(draft, o, lag))
      /\ todo' = Tail(todo)
  BY DEF PlanOne, storeVars
<1>2. source = "live"
  BY <1>0 DEF LockedPlan
<1>3. ~changed' => draft' = row
  BY <1>0, <1>1, NextRecordFacts DEF LockedPlan
<1>4. changed' => Phase(row, lag) # "open"
  <2>1. ~changed /\ Counts(draft, o, lag) => Phase(row, lag) # "open"
    BY DEF LockedPlan, Counts
  <2> QED BY <1>1, <2>1 DEF LockedPlan
<1>5. HeardFailures' = HeardFailures
  BY <1>1 DEF HeardFailures
<1>6. draft'.failed \subseteq strikes \cup HeardFailures
  <2>1. o = todo[1] /\ 1 \in DOMAIN todo
    BY <1>0, HeadTailProperties
  <2>2. ~o.ok => o.item \in HeardFailures
    BY <2>1 DEF LockedPlan
  <2>3. draft'.failed \subseteq draft.failed \cup (IF o.ok THEN {} ELSE {o.item})
    BY <1>0, <1>1, NextRecordFacts
  <2> QED BY <2>2, <2>3 DEF LockedPlan
<1>7. \A k \in DOMAIN todo' : ~todo'[k].ok => todo'[k].item \in HeardFailures
  <2>1. \A k \in DOMAIN Tail(todo) : k + 1 \in DOMAIN todo /\ Tail(todo)[k] = todo[k + 1]
    BY <1>0
  <2> QED BY <1>1, <2>1 DEF LockedPlan
<1>8. row.state # "open" /\ draft'.state = "open" =>
          /\ Phase(draft', lag) = "open"
          /\ draft'.cooldown = BaseCooldown
          /\ Cardinality(draft'.failed) >= Threshold
  <2>1. CASE draft.state = "open"
    <3>1. row.state # "open" => ~Counts(draft, o, lag)
      BY <2>1 DEF LockedPlan, Counts
    <3>2. row.state # "open" => draft' = draft
      BY <1>0, <1>1, <3>1, NextRecordFacts
    <3> QED BY <2>1, <3>2 DEF LockedPlan
  <2>2. CASE draft.state # "open"
    BY <1>0, <1>1, <2>2, NextRecordFacts
  <2> QED BY <2>1, <2>2
<1> HIDE DEF o
<1> QED BY <1>1, <1>2, <1>3, <1>4, <1>5, <1>6, <1>7, <1>8 DEF LockedPlan, Phase

\* What the admin, a whole-state write, the pools and the clock may do to a running cycle.
Quiet ==
    /\ UNCHANGED <<row, strikes, seen, draft, lag, snap>>
    /\ source' = source \/ (pc # "replan" /\ source' = "dropped")
Undone ==
    /\ pc # "replan" /\ strikes' = {} /\ UNCHANGED <<seen, draft, lag, snap>>
    /\ \/ row.state = "open" /\ row' = ClosedRecord /\ source' = source
       \/ row' = NoRecord /\ source' = "deleted"
Aging ==
    /\ row.state = "open" /\ row' = Aged(row) /\ UNCHANGED <<source, strikes>>
    /\ row.age <= MaxCooldown
    /\ seen' = Aged(seen) /\ draft' = Aged(draft) /\ snap' = [snap EXCEPT !.row = Aged(snap.row)]
    /\ pc = "replan" => lag = 0 /\ lag' = 1

Outside ==
    /\ UNCHANGED <<pc, call, heard, todo, changed, carry>>
    /\ incident' = incident \/ incident' = FALSE
    /\ Quiet \/ Undone \/ Aging

LEMMA OutsideSteps == TypeOK /\ OthersNext => Outside
<1> SUFFICES ASSUME TypeOK, OthersNext PROVE Outside
  OBVIOUS
<1> USE DEF storeVars, localVars, planVars, cycle
<1>1. ASSUME NEW kind \in {"close", "delete"}, WebRequest(kind)
      PROVE  Outside
  BY <1>1 DEF WebRequest, Outside, Quiet
<1>2. CASE WebClose
  BY <1>2 DEF WebClose, CloseRow, LockFree, Outside, Quiet, Undone
<1>3. CASE WebResolve
  BY <1>3 DEF WebResolve, Outside, Quiet
<1>4. CASE WebDelete
  BY <1>4 DEF WebDelete, LockFree, Outside, Undone
<1>5. CASE WebGivesUp
  BY <1>5 DEF WebGivesUp, Outside, Quiet
<1>6. CASE DropSource
  BY <1>6 DEF DropSource, LockFree, Outside, Quiet
<1>7. CASE CandidatesChange
  BY <1>7 DEF CandidatesChange, Outside, Quiet
<1>8. CASE Tick
  <2>1. pc = "replan" => lag = 0 /\ lag' = 1
    BY <1>8 DEF Tick, Judging
  <2>2. /\ UNCHANGED <<pc, call, heard, todo, changed, carry, incident, source, strikes>>
        /\ row.state = "open" /\ row.age <= MaxCooldown /\ row' = Aged(row)
        /\ seen' = Aged(seen) /\ draft' = Aged(draft) /\ snap' = [snap EXCEPT !.row = Aged(snap.row)]
    BY <1>8 DEF Tick
  <2> QED BY <2>1, <2>2 DEF Outside, Aging
<1> QED BY <1>1, <1>2, <1>3, <1>4, <1>5, <1>6, <1>7, <1>8 DEF OthersNext

\* They disturb neither the row's history nor what the cycle knows of it.
LEMMA OutsideKeeps == IInv /\ Outside => RowInv' /\ SnapInv' /\ SeenInv' /\ PlanInv'
<1> SUFFICES ASSUME IInv, Outside PROVE RowInv' /\ SnapInv' /\ SeenInv' /\ PlanInv'
  OBVIOUS
<1>0. /\ row \in Records /\ seen \in Records /\ draft \in Records /\ snap \in Snapshots
      /\ strikes \subseteq Items /\ RowInv /\ SnapInv /\ SeenInv /\ PlanInv
  BY DEF IInv, TypeOK
<1>1. /\ UNCHANGED <<pc, call, heard, todo, changed, carry>>
      /\ HeardFailures' = HeardFailures
      /\ incident' = incident \/ incident' = FALSE
  BY DEF Outside, HeardFailures
<1>2. CASE Quiet
  <2>1. RowInv'
    BY <1>0, <1>2 DEF RowInv, Quiet
  <2>2. SnapInv' /\ SeenInv'
    BY <1>0, <1>1, <1>2 DEF SnapInv, SeenInv, Quiet
  <2>3. LockedPlan /\ pc = "replan" => LockedPlan'
    BY <1>1, <1>2 DEF LockedPlan, Phase, Quiet
  <2> QED BY <1>0, <1>1, <1>2, <2>1, <2>2, <2>3 DEF PlanInv, Quiet
<1>3. CASE Undone
  <2>1. row'.state # "open" /\ row'.failed = {} /\ pc # "replan"
    BY <1>3 DEF Undone, ClosedRecord, NoRecord
  <2>2. RowInv'
    BY <1>0, <1>3, <2>1 DEF RowInv, Undone, NoRecord
  <2>3. SnapInv' /\ SeenInv' /\ PlanInv'
    BY <1>0, <1>1, <1>3, <2>1 DEF SnapInv, SeenInv, PlanInv, Undone
  <2> QED BY <2>2, <2>3
<1>4. CASE Aging
  <2>1. /\ row'.state = "open" /\ row'.failed = row.failed /\ row # NoRecord
    BY <1>0, <1>4, AgedType DEF Aging, NoRecord
  <2>2. RowInv'
    BY <1>0, <1>4, <2>1 DEF RowInv, Aging
  <2>3. SnapInv'
    BY <1>0, <1>1, <1>4 DEF SnapInv, Aging, Snapshots
  <2>4. SeenInv'
    BY <1>0, <1>1, <1>4 DEF SeenInv, Aging
  <2>5. ASSUME pc = "replan" PROVE LockedPlan'
    <3>1. LockedPlan /\ lag = 0 /\ lag' = 1 /\ UNCHANGED <<source, strikes>>
      BY <1>0, <1>4, <2>5 DEF PlanInv, Aging
    <3>2. draft'.failed = draft.failed
      BY <1>0, <1>4, AgedType DEF Aging
    <3>3. changed => Phase(row', 1) # "open"
      <4>1. row'.age = row.age + 1 /\ row'.cooldown = row.cooldown /\ row.age \in Nat /\ row.cooldown \in Nat
        BY <1>0, <1>4, CooldownsGrow DEF Aging, Aged, Records, Ages
      <4>2. changed => row.age >= row.cooldown
        BY <1>4, <3>1, <4>1 DEF LockedPlan, Phase, Aging
      <4> QED BY <4>1, <4>2 DEF Phase
    <3> QED BY <1>1, <1>4, <2>1, <3>1, <3>2, <3>3 DEF LockedPlan, Aging
  <2>6. PlanInv'
    BY <1>0, <1>1, <1>4, <2>5 DEF PlanInv, Aging
  <2> QED BY <2>2, <2>3, <2>4, <2>6
<1> QED BY <1>2, <1>3, <1>4 DEF Outside

\* A cycle that is over knows nothing more.
LEMMA IdleKnowsNothing == pc' = "idle" => SnapInv' /\ SeenInv' /\ PlanInv'
BY DEF SnapInv, SeenInv, PlanInv

\* A row keeps its history when the cycle leaves it alone.
LEMMA SameRow == RowInv /\ UNCHANGED <<row, source, strikes>> => RowInv'
BY DEF RowInv

LEMMA CommitKeepsRow == IInv /\ pc = "replan" /\ Commit /\ UNCHANGED source => RowInv'
<1> SUFFICES ASSUME IInv, pc = "replan", Commit, UNCHANGED source PROVE RowInv'
  OBVIOUS
<1>1. RowInv /\ LockedPlan /\ strikes' = strikes \cup HeardFailures
  BY DEF IInv, PlanInv, Commit
<1>2. CASE changed
  BY <1>1, <1>2 DEF Commit, RowInv, LockedPlan
<1>3. CASE ~changed
  BY <1>1, <1>3 DEF Commit, RowInv
<1> QED BY <1>2, <1>3

LEMMA CycleStepKeeps ==
    ASSUME IInv,
           \/ StartCycle \/ PickInline \/ PickWithoutResolve \/ Recover
           \/ \E item \in Items, result \in Results :
                  ResolveEnds(item, result) \/ ScanProbe(item, result) \/ ScanLeaves(item, result)
           \/ \E item \in Items : ScanCountsLeft(item)
           \/ ScanEnds \/ CycleCutShort
    PROVE  RowInv' /\ SnapInv' /\ SeenInv' /\ PlanInv'
<1> USE DEF storeVars, localVars, planVars
<1>0. TypeOK /\ RowInv /\ SnapInv /\ SeenInv /\ PlanInv
  BY DEF IInv
<1>1. UNCHANGED <<row, source, strikes, incident>>
  BY DEF StartCycle, PickInline, PickWithoutResolve, Recover, ResolveEnds, ScanProbe, ScanLeaves,
         ScanCountsLeft, ScanEnds, CycleCutShort
<1>2. RowInv'
  BY <1>0, <1>1, SameRow
<1>3. CASE StartCycle
  <2>1. pc' = "select" /\ snap'.incident = incident /\ seen' = row
    BY <1>3 DEF StartCycle
  <2> QED BY <1>1, <1>2, <2>1 DEF SnapInv, SeenInv, PlanInv
<1>4. CASE PickInline
  <2>1. pc = "select" /\ pc' = "resolve" /\ UNCHANGED <<snap, seen>>
    BY <1>4 DEF PickInline
  <2> QED BY <1>0, <1>1, <1>2, <2>1 DEF SnapInv, SeenInv, PlanInv
<1>5. CASE PickWithoutResolve \/ Recover
  <2>1. pc \in {"select", "recover"} /\ pc' = "scan" /\ UNCHANGED snap
    BY <1>5 DEF PickWithoutResolve, Recover
  <2> QED BY <1>0, <1>1, <1>2, <2>1 DEF SnapInv, SeenInv, PlanInv
<1>6. ASSUME NEW item \in Items, NEW result \in Results, ResolveEnds(item, result)
      PROVE  RowInv' /\ SnapInv' /\ SeenInv' /\ PlanInv'
  <2>1. pc = "resolve" /\ UNCHANGED <<snap, seen>>
    BY <1>6 DEF ResolveEnds
  <2>2. pc' = "recover" \/ (pc' = "read" /\ heard' = <<Outcome(item, result)>>)
    BY <1>6 DEF ResolveEnds
  <2>3. heard' = <<Outcome(item, result)>> => heard' # <<>>
    BY OutcomeType, OneOutcome
  <2> QED BY <1>0, <1>1, <1>2, <2>1, <2>2, <2>3 DEF SnapInv, SeenInv, PlanInv
<1>7. ASSUME NEW item \in Items, NEW result \in Results,
             ScanProbe(item, result) \/ ScanLeaves(item, result) \/ ScanCountsLeft(item)
      PROVE  RowInv' /\ SnapInv' /\ SeenInv' /\ PlanInv'
  <2>1. pc = "scan" /\ pc' = "scan" /\ UNCHANGED snap
    BY <1>7 DEF ScanProbe, ScanLeaves, ScanCountsLeft, ScanMayTake
  <2> QED BY <1>0, <1>1, <1>2, <2>1 DEF SnapInv, SeenInv, PlanInv
<1>8. CASE ScanEnds
  <2>1. pc = "scan" /\ pc' = "read" /\ call' = "scan" /\ UNCHANGED snap
    BY <1>8 DEF ScanEnds
  <2> QED BY <1>0, <1>1, <1>2, <2>1 DEF SnapInv, SeenInv, PlanInv
<1>9. CASE CycleCutShort
  BY <1>2, <1>9, IdleKnowsNothing DEF CycleCutShort, CycleOver
<1>10. ASSUME NEW item \in Items, ScanCountsLeft(item)
       PROVE  RowInv' /\ SnapInv' /\ SeenInv' /\ PlanInv'
  <2>1. "ok" \in Results
    BY DEF Results
  <2> QED BY <1>7, <1>10, <2>1
<1> QED BY <1>3, <1>4, <1>5, <1>6, <1>7, <1>8, <1>9, <1>10

\* A recording that returns leaves the step it was called from and hands over what it read.
LEMMA ReturnGoesOn ==
    ASSUME TypeOK, NEW r, Return(r)
    PROVE  pc' \in {"scan", "recover", "incident"} /\ (pc' = "recover" => seen' = r)
BY DEF Return, TypeOK

\* A recording that was refused leaves something in the carry before a fallback is chosen.
LEMMA RefusedIsCarried ==
    ASSUME IInv, pc \in {"read", "plan", "lock", "replan"}, GoOnUnrecorded,
           NEW s, s = KeptOutcomes \/ s = AsOfCommit(KeptOutcomes), carry' = s
    PROVE  pc' \in {"idle", "scan", "recover"} /\ (pc' = "recover" => carry' # <<>>)
<1>1. CASE call = "scan"
  BY <1>1 DEF GoOnUnrecorded, CycleOver
<1>2. CASE call # "scan"
  <2>1. heard # <<>>
    BY <1>2 DEF IInv, PlanInv
  <2>2. KeptOutcomes \in Seq(Outcomes) /\ KeptOutcomes # <<>>
    BY <1>2, <2>1, KeptOutcomesType DEF IInv
  <2>3. pc' \in {"scan", "recover"}
    BY <1>2 DEF GoOnUnrecorded
  <2> QED BY <2>2, <2>3, AsOfCommitType
<1> QED BY <1>1, <1>2

LEMMA UnrecordedSnap ==
    ASSUME GoOnUnrecorded
    PROVE  pc' = "idle" \/ UNCHANGED snap
BY DEF GoOnUnrecorded, CycleOver

LEMMA RecordingStepKeeps ==
    ASSUME IInv,
           \/ ReadPlain \/ PlanOne \/ NothingToWrite \/ WaitForLock \/ PlanAgain
           \/ WriteRow \/ WriteRefused \/ AnswerLost
    PROVE  RowInv' /\ SnapInv' /\ SeenInv' /\ PlanInv'
<1> USE DEF storeVars, localVars, planVars
<1>0. TypeOK /\ RowInv /\ SnapInv /\ SeenInv /\ PlanInv
  BY DEF IInv
<1>1. CASE ReadPlain
  <2>1. /\ pc = "read" /\ pc' = "plan" /\ draft' = row
        /\ UNCHANGED <<row, source, strikes, incident, snap, call, heard>>
    BY <1>1 DEF ReadPlain, StartPlan
  <2> QED BY <1>0, <2>1, SameRow DEF SnapInv, SeenInv, PlanInv
<1>2. CASE PlanOne
  <2>1. /\ pc \in {"plan", "replan"} /\ todo # <<>> /\ todo \in Seq(Outcomes)
        /\ UNCHANGED <<pc, row, source, strikes, incident, snap, call, heard>>
    BY <1>0, <1>2 DEF PlanOne, TypeOK
  <2>2. pc = "replan" => LockedPlan'
    BY <1>0, <1>2, PlanOneKeeps DEF PlanInv
  <2>3. ~changed' => ~changed /\ draft' = draft
    BY <1>2 DEF PlanOne, NextRecord
  <2> QED BY <1>0, <2>1, <2>2, <2>3, SameRow DEF SnapInv, SeenInv, PlanInv
<1>3. CASE NothingToWrite
  <2>1. /\ pc = "plan" /\ ~changed /\ Return(draft)
        /\ UNCHANGED <<row, source, strikes, incident, snap>>
    BY <1>3 DEF NothingToWrite
  <2>2. pc' \in {"scan", "recover", "incident"} /\ (pc' = "recover" => seen' = draft)
    BY <1>0, <2>1, ReturnGoesOn
  <2> QED BY <1>0, <2>1, <2>2, SameRow DEF SnapInv, SeenInv, PlanInv
<1>4. CASE WaitForLock
  <2>1. /\ pc = "plan" /\ pc' = "lock"
        /\ UNCHANGED <<row, source, strikes, incident, snap, call, heard>>
    BY <1>4 DEF WaitForLock
  <2> QED BY <1>0, <2>1, SameRow DEF SnapInv, SeenInv, PlanInv
<1>5. CASE PlanAgain
  <2>1. /\ pc = "lock" /\ pc' = "replan" /\ draft' = row /\ todo' = LiveOutcomes /\ ~changed'
        /\ UNCHANGED <<row, source, strikes, incident, snap, call, heard, lag>>
    BY <1>5 DEF PlanAgain, StartPlan
  <2>2. HeardFailures' = HeardFailures
    BY <2>1 DEF HeardFailures
  <2>3. \A k \in DOMAIN LiveOutcomes : ~LiveOutcomes[k].ok => LiveOutcomes[k].item \in HeardFailures
    <3>1. DOMAIN <<>> = {}
      OBVIOUS
    <3> QED BY <3>1 DEF LiveOutcomes, HeardFailures
  <2>4. LiveOutcomes # <<>> => source = "live"
    BY DEF LiveOutcomes
  <2>5. LockedPlan'
    BY <1>0, <2>1, <2>2, <2>3, <2>4 DEF LockedPlan, RowInv
  <2> QED BY <1>0, <2>1, <2>5, SameRow DEF SnapInv, SeenInv, PlanInv
<1>6. CASE WriteRow
  <2>1. /\ pc = "replan" /\ Commit /\ Return(row')
        /\ UNCHANGED <<source, incident, snap>>
    BY <1>6 DEF WriteRow
  <2>2. pc' \in {"scan", "recover", "incident"} /\ (pc' = "recover" => seen' = row')
    BY <1>0, <2>1, ReturnGoesOn
  <2> QED BY <1>0, <2>1, <2>2, CommitKeepsRow DEF SnapInv, SeenInv, PlanInv
<1>7. CASE WriteRefused
  <2>1. /\ pc \in {"read", "plan", "lock", "replan"} /\ GoOnUnrecorded /\ carry' = KeptOutcomes
        /\ UNCHANGED <<row, source, strikes, incident>>
    BY <1>7 DEF WriteRefused
  <2>2. pc' \in {"idle", "scan", "recover"} /\ (pc' = "recover" => carry' # <<>>)
    BY <2>1, RefusedIsCarried
  <2> QED BY <1>0, <2>1, <2>2, SameRow, UnrecordedSnap DEF SnapInv, SeenInv, PlanInv
<1>8. CASE AnswerLost
  <2>1. /\ pc = "replan" /\ GoOnUnrecorded /\ carry' = AsOfCommit(KeptOutcomes) /\ Commit
        /\ UNCHANGED <<source, incident>>
    BY <1>8 DEF AnswerLost
  <2>2. pc' \in {"idle", "scan", "recover"} /\ (pc' = "recover" => carry' # <<>>)
    BY <2>1, RefusedIsCarried
  <2> QED BY <1>0, <2>1, <2>2, CommitKeepsRow, UnrecordedSnap DEF SnapInv, SeenInv, PlanInv
<1> QED BY <1>1, <1>2, <1>3, <1>4, <1>5, <1>6, <1>7, <1>8

LEMMA CloseRowKeeps ==
    ASSUME RowInv, CloseRow, UNCHANGED source
    PROVE  RowInv' /\ row'.state # "open"
<1>1. CASE row.state = "open"
  <2>1. row # NoRecord /\ ClosedRecord.failed = {} /\ ClosedRecord.state = "closed"
    BY <1>1 DEF NoRecord, ClosedRecord
  <2> QED BY <1>1, <2>1 DEF RowInv, CloseRow
<1>2. CASE row.state # "open"
  BY <1>2 DEF RowInv, CloseRow
<1> QED BY <1>1, <1>2

LEMMA IncidentStepKeeps ==
    ASSUME IInv,
           \/ ResolveIncident \/ ReportHeld \/ CloseUnneeded \/ ResolveClosed \/ IncidentRefused
           \/ Restart
    PROVE  RowInv' /\ SnapInv' /\ SeenInv' /\ PlanInv'
<1> USE DEF storeVars, localVars, planVars
<1>0. RowInv /\ SnapInv
  BY DEF IInv
<1>1. CASE ResolveIncident \/ ReportHeld \/ ResolveClosed \/ IncidentRefused \/ Restart
  <2>1. pc' = "idle" /\ UNCHANGED <<row, source, strikes>>
    BY <1>1 DEF ResolveIncident, ReportHeld, ResolveClosed, IncidentRefused, Restart, CycleOver
  <2> QED BY <1>0, <2>1, SameRow, IdleKnowsNothing
<1>2. CASE CloseUnneeded
  <2>1. RowInv' /\ row'.state # "open" /\ UNCHANGED incident
    BY <1>0, <1>2, CloseRowKeeps DEF CloseUnneeded
  <2>2. pc' = "idle" \/ (pc = "incident" /\ pc' = "closed" /\ UNCHANGED snap)
    BY <1>2 DEF CloseUnneeded, CycleOver
  <2> QED BY <1>0, <2>1, <2>2, IdleKnowsNothing DEF SnapInv, SeenInv, PlanInv
<1> QED BY <1>1, <1>2

LEMMA InvNext == IInv /\ [Next]_vars => IInv'
<1> SUFFICES ASSUME IInv, [Next]_vars PROVE IInv'
  OBVIOUS
<1>0. TypeOK /\ TypeOK'
  BY TypeNext DEF IInv
<1>1. CASE UNCHANGED vars
  BY <1>0, <1>1 DEF IInv, vars, storeVars, localVars, planVars, RowInv, SnapInv, SeenInv, PlanInv,
                    LockedPlan, HeardFailures, Phase
<1>2. CASE PlayoutNext
  BY <1>0, <1>2, CycleStepKeeps, RecordingStepKeeps, IncidentStepKeeps DEF PlayoutNext, IInv
<1>3. CASE OthersNext
  BY <1>0, <1>3, OutsideSteps, OutsideKeeps DEF IInv
<1> QED BY <1>1, <1>2, <1>3 DEF Next

LEMMA InvAlways == Spec => []IInv
<1>1. Init => IInv
  BY InitType, InvInit DEF IInv
<1> QED BY <1>1, InvNext, PTL DEF Spec

---------------------------------------------------------------------------
(* Theorems *)

\* Whatever probes of a deleted source still end and are recorded, its row does not come back.
THEOREM DeletedSourcesStayGone == Spec => []DeletedStaysGone
<1>1. IInv => DeletedStaysGone
  BY DEF IInv, RowInv, DeletedStaysGone
<1> QED BY <1>1, InvAlways, PTL

\* Who writes the row, and from where.
LEMMA RowWriters ==
    ASSUME IInv, [Next]_vars, row' # row
    PROVE  \/ pc = "replan" /\ pc' # "replan" /\ changed /\ row' = draft
              /\ strikes' = strikes \cup HeardFailures
           \/ pc # "replan" /\ row' \in {ClosedRecord, NoRecord}
           \/ pc' = pc /\ row.state = "open" /\ row.age <= MaxCooldown /\ row' = Aged(row)
<1> USE DEF storeVars, localVars, planVars
<1>0. TypeOK
  BY DEF IInv
<1>1. CASE WriteRow
  <2>1. pc = "replan" /\ Commit /\ Return(row')
    BY <1>1 DEF WriteRow
  <2> QED BY <1>0, <2>1, ReturnGoesOn DEF Commit
<1>2. CASE AnswerLost
  <2>1. pc = "replan" /\ Commit /\ GoOnUnrecorded
    BY <1>2 DEF AnswerLost
  <2> QED BY <2>1 DEF Commit, GoOnUnrecorded, CycleOver
<1>3. CASE CloseUnneeded
  <2>1. pc = "incident" /\ CloseRow
    BY <1>3 DEF CloseUnneeded
  <2> QED BY <2>1 DEF CloseRow, ClosedRecord
<1>4. CASE OthersNext
  <2>1. Outside
    BY <1>0, <1>4, OutsideSteps
  <2> QED BY <2>1 DEF Outside, Quiet, Undone, Aging, ClosedRecord, NoRecord
<1>5. CASE UNCHANGED vars
  BY <1>5 DEF vars
<1>6. CASE \/ StartCycle \/ PickInline \/ PickWithoutResolve \/ Recover \/ ScanEnds \/ CycleCutShort
           \/ \E item \in Items, result \in Results :
                  ResolveEnds(item, result) \/ ScanProbe(item, result) \/ ScanLeaves(item, result)
           \/ \E item \in Items : ScanCountsLeft(item)
  BY <1>6 DEF StartCycle, PickInline, PickWithoutResolve, Recover, ScanEnds, CycleCutShort,
              ResolveEnds, ScanProbe, ScanLeaves, ScanCountsLeft
<1>7. CASE \/ ReadPlain \/ PlanOne \/ NothingToWrite \/ WaitForLock \/ PlanAgain \/ WriteRefused
           \/ ResolveIncident \/ ReportHeld \/ ResolveClosed \/ IncidentRefused \/ Restart
  BY <1>7 DEF ReadPlain, PlanOne, NothingToWrite, WaitForLock, PlanAgain, WriteRefused,
              ResolveIncident, ReportHeld, ResolveClosed, IncidentRefused, Restart
<1> QED BY <1>1, <1>2, <1>3, <1>4, <1>5, <1>6, <1>7 DEF Next, PlayoutNext

\* What is recorded while a cooldown runs, late answers and carried outcomes included, neither
\* ends nor renews the hold.
THEOREM HoldsAreServed == Spec => HoldIsServed
<1>1. ASSUME IInv, [Next]_vars, pc = "replan", pc' # "replan", row' # row
      PROVE  Phase(row, 0) # "open"
  <2>1. changed /\ LockedPlan
    BY <1>1, RowWriters DEF IInv, PlanInv
  <2>2. lag \in 0..1 /\ row \in Records
    BY <1>1 DEF IInv, TypeOK
  <2>3. row.age \in Int /\ row.cooldown \in Int
    BY <2>2 DEF Records, Ages
  <2> QED BY <2>1, <2>2, <2>3 DEF LockedPlan, Phase
<1>2. IInv /\ [Next]_vars => [pc = "replan" /\ pc' # "replan" /\ row' # row => Phase(row, 0) # "open"]_vars
  BY <1>1
<1> QED BY <1>2, InvAlways, PTL DEF Spec, HoldIsServed

\* No opening is built on failures from before a close by hand or a deletion, however these fall
\* between the two plans of a recording.
THEOREM EveryOpeningIsFresh == Spec => OpensAfresh
<1>1. ASSUME IInv, [Next]_vars, row.state # "open", row'.state = "open"
      PROVE  /\ row'.cooldown = BaseCooldown
             /\ Cardinality(row'.failed) >= Threshold
             /\ row'.failed \subseteq strikes'
  <2>1. pc = "replan" /\ row' = draft /\ strikes' = strikes \cup HeardFailures
    BY <1>1, RowWriters DEF ClosedRecord, NoRecord
  <2> QED BY <1>1, <2>1 DEF IInv, PlanInv, LockedPlan
<1>2. IInv /\ [Next]_vars
        => [row.state # "open" /\ row'.state = "open" =>
              /\ row'.cooldown = BaseCooldown
              /\ Cardinality(row'.failed) >= Threshold
              /\ row'.failed \subseteq strikes']_vars
  BY <1>1
<1> QED BY <1>2, InvAlways, PTL DEF Spec, OpensAfresh

LEMMA OnlyRecoverFallsBack ==
    ASSUME TypeOK, [Next]_vars, fallback' = "generic", fallback # "generic"
    PROVE  Recover
<1> USE DEF storeVars, localVars, planVars
<1>1. CASE \/ StartCycle \/ PickInline \/ PickWithoutResolve \/ ScanEnds \/ CycleCutShort
           \/ \E item \in Items, result \in Results :
                  ResolveEnds(item, result) \/ ScanProbe(item, result) \/ ScanLeaves(item, result)
           \/ \E item \in Items : ScanCountsLeft(item)
  BY <1>1 DEF StartCycle, PickInline, PickWithoutResolve, ScanEnds, CycleCutShort, CycleOver,
              ResolveEnds, ScanProbe, ScanLeaves, ScanCountsLeft
<1>2. CASE \/ ReadPlain \/ PlanOne \/ NothingToWrite \/ WaitForLock \/ PlanAgain
           \/ WriteRow \/ WriteRefused \/ AnswerLost
  BY <1>2 DEF ReadPlain, PlanOne, NothingToWrite, WaitForLock, PlanAgain, WriteRow, WriteRefused,
              AnswerLost, GoOnUnrecorded, CycleOver
<1>3. CASE ResolveIncident \/ ReportHeld \/ CloseUnneeded \/ ResolveClosed \/ IncidentRefused \/ Restart
  BY <1>3 DEF ResolveIncident, ReportHeld, CloseUnneeded, ResolveClosed, IncidentRefused, Restart, CycleOver
<1>4. CASE OthersNext
  BY <1>4 DEF OthersNext, WebRequest, WebClose, WebResolve, WebDelete, WebGivesUp, DropSource,
              CandidatesChange, Tick, cycle
<1>5. CASE UNCHANGED vars
  BY <1>5 DEF vars
<1> QED BY <1>1, <1>2, <1>3, <1>4, <1>5 DEF Next, PlayoutNext

\* A generic fallback is never of the source the failed pick has just held, except after a write
\* that was refused; the global one is the operator's and goes by no breaker.
THEOREM FallbacksAvoidHeld == Spec => RecoveryAvoidsHeld
<1>1. ASSUME IInv, [Next]_vars, fallback' = "generic", fallback # "generic", carry = <<>>
      PROVE  Phase(row, 0) # "open"
  <2>1. Recover
    BY <1>1, OnlyRecoverFallsBack DEF IInv
  <2>2. pc = "recover" /\ Phase(seen, 0) # "open"
    BY <1>1, <2>1 DEF Recover, TiersOpen
  <2>3. row.state = "open" => seen = row
    BY <1>1, <2>2 DEF IInv, SeenInv
  <2> QED BY <2>2, <2>3 DEF Phase
<1>2. IInv /\ [Next]_vars =>
          [fallback' = "generic" /\ fallback # "generic" /\ carry = <<>> => Phase(row, 0) # "open"]_vars
  BY <1>1
<1> QED BY <1>2, InvAlways, PTL DEF Spec, RecoveryAvoidsHeld

\* Whatever incident writes were refused before, a cycle whose own are not leaves the incident
\* open exactly while the source is there and held.
THEOREM IncidentsMatchHolds == Spec => IncidentMatchesHold
<1> DEFINE Settles == /\ pc \in {"incident", "closed"} /\ pc' = "idle" /\ UNCHANGED spentOn
                      /\ pc = "closed" \/ seen.state = row.state
                      /\ snap.source = source
<1>1. ASSUME IInv, [Next]_vars, Settles
      PROVE  incident' = (row'.state = "open" /\ source = "live")
  <2> USE DEF storeVars, localVars, planVars
  <2>0. /\ TypeOK
        /\ ~snap.incident => ~incident
        /\ incident \in BOOLEAN /\ snap.incident \in BOOLEAN
        /\ pc = "closed" => row.state # "open"
    BY <1>1 DEF IInv, SnapInv, TypeOK, Snapshots
  <2>1. \/ ResolveIncident \/ ReportHeld \/ CloseUnneeded \/ ResolveClosed
        \/ IncidentRefused \/ Restart
    <3>1. ASSUME \/ StartCycle \/ PickInline \/ PickWithoutResolve \/ Recover \/ ScanEnds \/ CycleCutShort
                 \/ \E item \in Items, result \in Results :
                        ResolveEnds(item, result) \/ ScanProbe(item, result) \/ ScanLeaves(item, result)
                 \/ \E item \in Items : ScanCountsLeft(item)
          PROVE  FALSE
      BY <1>1, <3>1 DEF StartCycle, PickInline, PickWithoutResolve, Recover, ScanEnds, CycleCutShort,
                        ResolveEnds, ScanProbe, ScanLeaves, ScanCountsLeft, ScanMayTake
    <3>2. ASSUME \/ ReadPlain \/ PlanOne \/ NothingToWrite \/ WaitForLock \/ PlanAgain
                 \/ WriteRow \/ WriteRefused \/ AnswerLost
          PROVE  FALSE
      BY <1>1, <3>2 DEF ReadPlain, PlanOne, NothingToWrite, WaitForLock, PlanAgain, WriteRow,
                        WriteRefused, AnswerLost
    <3>3. ASSUME OthersNext \/ UNCHANGED vars PROVE FALSE
      BY <1>1, <2>0, <3>3, OutsideSteps DEF Outside, vars
    <3> QED BY <1>1, <3>1, <3>2, <3>3 DEF Next, PlayoutNext
  <2>2. CASE ResolveIncident
    <3>1. ~incident' /\ UNCHANGED <<row, source>>
      BY <2>0, <2>2 DEF ResolveIncident
    <3>2. ~(row.state = "open" /\ source = "live")
      BY <1>1, <2>2 DEF ResolveIncident, NothingHeld
    <3> QED BY <2>2, <3>1, <3>2, <2>0 DEF ResolveIncident
  <2>3. CASE ReportHeld
    BY <1>1, <2>3 DEF ReportHeld, NothingHeld
  <2>4. CASE CloseUnneeded
    <3>1. ~snap.incident /\ UNCHANGED incident
      BY <1>1, <2>4 DEF CloseUnneeded
    <3>2. row'.state # "open"
      BY <2>4 DEF CloseUnneeded, CloseRow, ClosedRecord
    <3> QED BY <2>0, <3>1, <3>2
  <2>5. CASE ResolveClosed
    BY <2>0, <2>5 DEF ResolveClosed
  <2>6. CASE IncidentRefused \/ Restart
    BY <1>1, <2>0, <2>6, SpendType DEF IncidentRefused, Restart
  <2> QED BY <2>1, <2>2, <2>3, <2>4, <2>5, <2>6
<1>2. IInv /\ [Next]_vars => [Settles => incident' = (row'.state = "open" /\ source = "live")]_vars
  BY <1>1
<1> QED BY <1>2, InvAlways, PTL DEF Spec, IncidentMatchesHold

---------------------------------------------------------------------------
(* The row implements Breaker *)

\* A hold is no shorter than the first and no longer than the cap, and only a hold has a cooldown.
Shaped(r) == IF r.state = "open" THEN r.cooldown \in BaseCooldown..MaxCooldown ELSE r.cooldown = 0

\* What the plan under the lock has changed the row to: closed, or opened just now, afresh or
\* for twice the time of a hold that had run out.
FreshPlan ==
    /\ Shaped(draft)
    /\ changed /\ draft.state = "open" =>
          /\ draft.age = lag
          /\ \/ draft.cooldown = BaseCooldown
             \/ row.state = "open" /\ draft.cooldown = Doubled(row.cooldown)

ShapeInv == Shaped(row) /\ (pc = "replan" => FreshPlan)

LEMMA FixedShapes == Shaped(NoRecord) /\ Shaped(ClosedRecord)
BY DEF Shaped, NoRecord, ClosedRecord

\* One outcome keeps a record in shape, and opens it at the plan's own time.
LEMMA NextRecordShape ==
    ASSUME NEW r \in Records, NEW o \in Outcomes, NEW l \in 0..1, Shaped(r), Counts(r, o, l)
    PROVE  LET n == NextRecord(r, o, l)
           IN  /\ Shaped(n)
               /\ n.state = "open" => /\ n.age = l
                                      /\ IF r.state = "open" THEN n.cooldown = Doubled(r.cooldown)
                                         ELSE n.cooldown = BaseCooldown
<1> DEFINE failed == r.failed \cup {o.item}
<1>1. CASE o.ok
  <2>1. NextRecord(r, o, l) = ClosedRecord
    BY <1>1 DEF NextRecord
  <2> QED BY <2>1, FixedShapes DEF ClosedRecord
<1>2. CASE ~o.ok /\ r.state = "open"
  <2>1. Phase(r, l) = "half-open"
    BY <1>2 DEF Counts, Phase
  <2>2. NextRecord(r, o, l) = OpenRecord(failed, Doubled(r.cooldown), l)
    BY <1>2, <2>1 DEF NextRecord, AfterFailure
  <2>3. r.cooldown \in BaseCooldown..MaxCooldown
    BY <1>2 DEF Shaped
  <2>4. Doubled(r.cooldown) \in BaseCooldown..MaxCooldown
    BY <2>3, CooldownsGrow DEF Doubled
  <2> QED BY <1>2, <2>2, <2>4 DEF OpenRecord, Shaped
<1>3. CASE ~o.ok /\ r.state # "open"
  <2>1. Phase(r, l) = "closed"
    BY <1>3 DEF Phase
  <2>2. NextRecord(r, o, l) \in {OpenRecord(failed, BaseCooldown, l),
                                 [r EXCEPT !.state = "closed", !.failed = failed]}
    BY <1>3, <2>1 DEF NextRecord, AfterFailure
  <2>3. CASE NextRecord(r, o, l) = OpenRecord(failed, BaseCooldown, l)
    BY <1>3, <2>3, CooldownsGrow DEF OpenRecord, Shaped
  <2>4. CASE NextRecord(r, o, l) = [r EXCEPT !.state = "closed", !.failed = failed]
    BY <1>3, <2>4 DEF Records, Shaped
  <2> QED BY <2>2, <2>3, <2>4
<1> QED BY <1>1, <1>2, <1>3

\* An outcome planned while a hold runs changes nothing, so a plan opens a row only once.
LEMMA PlanOneShape ==
    ASSUME TypeOK, LockedPlan, FreshPlan, PlanOne
    PROVE  FreshPlan'
<1> DEFINE o == Head(todo)
<1>0. draft \in Records /\ lag \in 0..1 /\ o \in Outcomes
  <2>1. todo \in Seq(Outcomes) /\ todo # <<>>
    BY DEF PlanOne, TypeOK
  <2> QED BY <2>1, HeadTailProperties DEF TypeOK
<1>1. /\ UNCHANGED <<row, lag>> /\ draft' = NextRecord(draft, o, lag)
      /\ changed' = (changed \/ Counts(draft, o, lag))
  BY DEF PlanOne, storeVars
<1>2. CASE ~Counts(draft, o, lag)
  <2>1. draft' = draft /\ changed' = changed
    BY <1>1, <1>2, <1>0, NextRecordFacts DEF TypeOK
  <2> QED BY <1>1, <2>1 DEF FreshPlan, Shaped
<1>3. CASE Counts(draft, o, lag)
  <2>1. /\ Shaped(draft')
        /\ draft'.state = "open" => /\ draft'.age = lag
                                    /\ IF draft.state = "open" THEN draft'.cooldown = Doubled(draft.cooldown)
                                       ELSE draft'.cooldown = BaseCooldown
    BY <1>0, <1>1, <1>3, NextRecordShape DEF FreshPlan
  <2>2. draft.state = "open" => ~changed
    <3>1. SUFFICES ASSUME draft.state = "open", changed PROVE Phase(draft, lag) = "open"
      BY <1>3 DEF Counts
    <3>2. draft.age = lag /\ draft.cooldown \in BaseCooldown..MaxCooldown
      BY <3>1 DEF FreshPlan, Shaped
    <3> QED BY <1>0, <3>1, <3>2, CooldownsGrow DEF Phase
  <2>3. draft.state = "open" => draft = row
    BY <2>2 DEF LockedPlan
  <2> QED BY <1>1, <2>1, <2>3 DEF FreshPlan, Shaped
<1> QED BY <1>2, <1>3

LEMMA AgedShape ==
    ASSUME NEW r \in Records, Shaped(r)
    PROVE  Shaped(Aged(r))
BY AgedType DEF Shaped

\* Who is under the lock, and how the plan got there.
LEMMA LockSteps ==
    ASSUME IInv, [Next]_vars, pc' = "replan"
    PROVE  \/ pc = "lock" /\ ~changed' /\ draft' = row /\ UNCHANGED row
           \/ pc = "replan" /\ PlanOne
           \/ pc = "replan" /\ UNCHANGED <<row, draft, lag, changed>>
           \/ pc = "replan" /\ Aging /\ UNCHANGED changed
<1> USE DEF storeVars, localVars, planVars
<1>0. TypeOK
  BY DEF IInv
<1>1. CASE PlanAgain
  BY <1>1 DEF PlanAgain, StartPlan
<1>2. CASE PlanOne
  BY <1>2 DEF PlanOne
<1>3. CASE OthersNext
  <2>1. Outside
    BY <1>0, <1>3, OutsideSteps
  <2> QED BY <2>1 DEF Outside, Quiet, Undone
<1>4. CASE UNCHANGED vars
  BY <1>4 DEF vars
<1>5. CASE \/ StartCycle \/ PickInline \/ PickWithoutResolve \/ Recover \/ ScanEnds \/ CycleCutShort
           \/ \E item \in Items, result \in Results :
                  ResolveEnds(item, result) \/ ScanProbe(item, result) \/ ScanLeaves(item, result)
           \/ \E item \in Items : ScanCountsLeft(item)
  BY <1>5 DEF StartCycle, PickInline, PickWithoutResolve, Recover, ScanEnds, CycleCutShort, CycleOver,
              ResolveEnds, ScanProbe, ScanLeaves, ScanCountsLeft
<1>6. CASE WriteRow \/ NothingToWrite
  BY <1>0, <1>6, ReturnGoesOn DEF WriteRow, NothingToWrite
<1>7. CASE WriteRefused \/ AnswerLost
  BY <1>7 DEF WriteRefused, AnswerLost, GoOnUnrecorded, CycleOver
<1>8. CASE \/ ReadPlain \/ WaitForLock
           \/ ResolveIncident \/ ReportHeld \/ CloseUnneeded \/ ResolveClosed \/ IncidentRefused \/ Restart
  BY <1>8 DEF ReadPlain, WaitForLock, ResolveIncident, ReportHeld, CloseUnneeded, ResolveClosed,
              IncidentRefused, Restart, CycleOver
<1> QED BY <1>1, <1>2, <1>3, <1>4, <1>5, <1>6, <1>7, <1>8 DEF Next, PlayoutNext

LEMMA ShapeNext == IInv /\ ShapeInv /\ [Next]_vars => ShapeInv'
<1> SUFFICES ASSUME IInv, ShapeInv, [Next]_vars PROVE ShapeInv'
  OBVIOUS
<1>0. TypeOK /\ row \in Records /\ draft \in Records
  BY DEF IInv, TypeOK
<1>1. Shaped(row')
  <2>1. CASE row' = row
    BY <2>1 DEF ShapeInv
  <2>2. CASE row' # row
    BY <1>0, <2>2, RowWriters, FixedShapes, AgedShape DEF ShapeInv, FreshPlan
  <2> QED BY <2>1, <2>2
<1>2. ASSUME pc' = "replan" PROVE FreshPlan'
  <2>1. CASE pc = "lock" /\ ~changed' /\ draft' = row /\ UNCHANGED row
    BY <2>1 DEF ShapeInv, FreshPlan, Shaped
  <2>2. CASE pc = "replan" /\ PlanOne
    BY <1>0, <2>2, PlanOneShape DEF ShapeInv, IInv, PlanInv
  <2>3. CASE pc = "replan" /\ UNCHANGED <<row, draft, lag, changed>>
    BY <2>3 DEF ShapeInv, FreshPlan, Shaped
  <2>4. CASE pc = "replan" /\ Aging /\ UNCHANGED changed
    <3>1. /\ row.state = "open" /\ row' = Aged(row) /\ draft' = Aged(draft) /\ lag = 0 /\ lag' = 1
      BY <2>4 DEF Aging
    <3>2. /\ row'.state = "open" /\ row'.cooldown = row.cooldown
          /\ draft'.state = draft.state /\ draft'.cooldown = draft.cooldown
      BY <1>0, <3>1, AgedType
    <3>3. draft.state = "open" /\ draft.age = 0 => draft'.age = 1
      BY <1>0, <3>1, CooldownsGrow DEF Aged, Records, Ages
    <3> QED BY <2>4, <3>1, <3>2, <3>3 DEF ShapeInv, FreshPlan, Shaped
  <2> QED BY <1>2, <2>1, <2>2, <2>3, <2>4, LockSteps
<1> QED BY <1>1, <1>2 DEF ShapeInv, Shaped

\* The row and its hold change only as Breaker lets them.
LEMMA BreakerStep ==
    ASSUME IInv, ShapeInv, [Next]_vars, row' # row
    PROVE  AsBreaker!Next \/ UNCHANGED <<Phase(row, 0), row.cooldown>>
<1> USE DEF AsBreaker!Next, AsBreaker!Open, AsBreaker!RunOut, AsBreaker!Renew, AsBreaker!Close,
            AsBreaker!CleanAndOpenAgain, AsBreaker!HoldAfresh, AsBreaker!Longer
<1>0. /\ row \in Records /\ draft \in Records /\ lag \in 0..1
      /\ row.age \in Nat /\ row.cooldown \in Nat
  <2>1. row \in Records /\ draft \in Records /\ lag \in 0..1
    BY DEF IInv, TypeOK
  <2> QED BY <2>1, CooldownsGrow DEF Records, Ages
<1>1. CASE pc = "replan" /\ changed /\ row' = draft
  <2>1. FreshPlan /\ LockedPlan
    BY <1>1 DEF ShapeInv, IInv, PlanInv
  <2>2. Phase(row, 0) \in {"closed", "half-open"}
    BY <1>0, <1>1, <2>1 DEF LockedPlan, Phase
  <2>3. CASE draft.state # "open"
    <3>1. Phase(row', 0) = "closed" /\ row'.cooldown = 0
      BY <1>1, <2>1, <2>3 DEF Phase, FreshPlan, Shaped
    <3>2. Phase(row, 0) = "closed" => row.cooldown = 0
      BY DEF Phase, ShapeInv, Shaped
    <3> QED BY <2>2, <3>1, <3>2
  <2>4. CASE draft.state = "open"
    <3>1. draft.age = lag /\ draft.cooldown \in BaseCooldown..MaxCooldown
      BY <1>1, <2>1, <2>4 DEF FreshPlan, Shaped
    <3>2. Phase(row', 0) = "open"
      BY <1>0, <1>1, <2>4, <3>1, CooldownsGrow, RecordingIsShort DEF Phase
    <3>3. CASE draft.cooldown = BaseCooldown
      BY <1>1, <2>2, <3>2, <3>3
    <3>4. CASE row.state = "open" /\ draft.cooldown = Doubled(row.cooldown)
      <4>1. Phase(row, 0) = "half-open"
        BY <2>2, <3>4 DEF Phase
      <4>2. row.cooldown \in BaseCooldown..MaxCooldown
        BY <3>4 DEF ShapeInv, Shaped
      <4>3. Doubled(row.cooldown) = IF 2 * row.cooldown > MaxCooldown THEN MaxCooldown ELSE 2 * row.cooldown
        BY <4>2, CooldownsGrow DEF Doubled
      <4> QED BY <1>1, <3>2, <3>4, <4>1, <4>3
    <3> QED BY <1>1, <2>1, <2>4, <3>3, <3>4 DEF FreshPlan
  <2> QED BY <2>3, <2>4
<1>2. CASE row' \in {ClosedRecord, NoRecord}
  <2>1. Phase(row', 0) = "closed" /\ row'.cooldown = 0
    BY <1>2 DEF Phase, ClosedRecord, NoRecord
  <2>2. Phase(row, 0) = "closed" => row.cooldown = 0
    BY DEF Phase, ShapeInv, Shaped
  <2> QED BY <2>1, <2>2
<1>3. CASE row.state = "open" /\ row' = Aged(row)
  <2>1. row'.state = "open" /\ row'.cooldown = row.cooldown /\ row'.age \in {row.age, row.age + 1}
    BY <1>0, <1>3, AgedType DEF Aged, Records
  <2>2. Phase(row, 0) \in {"open", "half-open"} /\ Phase(row', 0) \in {"open", "half-open"}
    BY <1>3, <2>1 DEF Phase
  <2>3. Phase(row, 0) = "half-open" => Phase(row', 0) = "half-open"
    BY <1>0, <1>3, <2>1 DEF Phase
  <2> QED BY <2>1, <2>2, <2>3
<1> QED BY <1>1, <1>2, <1>3, RowWriters

\* Whatever the playout, the operators and the clock do, in whatever order their writes land,
\* the row is a circuit breaker: a hold that runs is not prolonged, a source is held anew for
\* the base cooldown only, and a hold that ran out ends or is renewed for twice the time.
THEOREM RowIsABreaker == Spec => ImplementsBreaker
<1>1. Init => ShapeInv /\ AsBreaker!Init
  <2> SUFFICES ASSUME Init PROVE ShapeInv /\ AsBreaker!Init
    OBVIOUS
  <2>1. row = NoRecord /\ pc = "idle"
    BY DEF Init
  <2> QED BY <2>1, FixedShapes DEF ShapeInv, AsBreaker!Init, Phase, NoRecord
<1>2. IInv /\ ShapeInv /\ [Next]_vars => [AsBreaker!Next]_AsBreaker!held
  BY BreakerStep DEF AsBreaker!held
<1> QED BY <1>1, <1>2, ShapeNext, InvAlways, PTL DEF Spec, ImplementsBreaker, AsBreaker!Spec
=============================================================================

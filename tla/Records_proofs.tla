---------------------------- MODULE Records_proofs ----------------------------
(***************************************************************************)
(* Proofs about the schedule sync of TwitchConnection: whatever fails      *)
(* between its requests, no entry of the channel's schedule is forgotten.  *)
(* Then the rows of the Twitch connection, the start on a database         *)
(* (SchemaBoot) and, with the store, all of MCRecords.                     *)
(***************************************************************************)
EXTENDS MCRecords, StateStore_proofs, WellFoundedInduction

---------------------------------------------------------------------------
(* The inductive invariant *)

\* The stored list names the segment for its window.
Named(list, s) == s[1] \in DOMAIN list /\ list[s[1]] = s[2]

\* A segment that the sync must know of: its window lies ahead and its answer has come.
Owed == {s \in twitch.segments : s[1] > hour /\ s[2] \notin lost}

\* What the numbers are, and that the plan, the requests and the step have their fields.
Shapes ==
    /\ hour \in Nat
    /\ twitch.segments \subseteq Nat \X Nat /\ twitch.issued \in Nat
    /\ wish.plan \subseteq Nat
    /\ {"title", "segments", "issued"} \subseteq DOMAIN twitch
    /\ {"title", "plan"} \subseteq DOMAIN wish
    /\ DOMAIN AtRest \subseteq DOMAIN step /\ step.goal \in {"title", "schedule"}

\* While a sync writes, the stored list is what it read with what it has made so far on top; it makes
\* each planned window once, and none is left when it goes on to delete.
Underway ==
    step.at \in {"segments", "delete", "replace"} =>
        /\ step.todo \subseteq step.planned /\ step.planned \subseteq Nat
        /\ DOMAIN step.made = step.planned \ step.todo
        /\ DOMAIN segments = DOMAIN step.made \cup DOMAIN step.known
        /\ \A k \in DOMAIN segments :
              segments[k] = IF k \in DOMAIN step.made THEN step.made[k] ELSE step.known[k]
        /\ step.at = "segments" <=> step.todo # {}

\* After the deletes: what Twitch still has was planned or is kept.
Weeded ==
    step.at = "replace" =>
        /\ step.keep \subseteq DOMAIN step.known
        /\ \A s \in Owed : s[1] \in step.planned \cup step.keep

KnownInv ==
    /\ Shapes
    /\ \A s \in Owed : Named(segments, s)
    /\ Underway
    /\ Weeded


---------------------------------------------------------------------------
(* About the operators *)

\* A set of numbers has a least one.
LEMMA LeastOf ==
    ASSUME NEW S, S \subseteq Nat, S # {}
    PROVE  \E x \in S : \A y \in S : x <= y
<1> DEFINE Less == {ss \in Nat \X Nat : ss[1] < ss[2]}
<1>1. OpToRel(<, Nat) = Less
    BY Zenon DEF OpToRel
<1>2. IsWellFoundedOn(Less, Nat)
    BY <1>1, NatLessThanWellFounded, Zenon
<1>3. PICK x \in S : \A y \in S : <<y, x>> \notin Less
    <2> HIDE DEF Less
    <2> QED BY <1>2, WFMin
<1>4. \A a, b \in Nat : a < b => <<a, b>> \in Less
    <2> TAKE a, b \in Nat
    <2> HAVE a < b
    <2>1. <<a, b>> \in Nat \X Nat /\ <<a, b>>[1] = a /\ <<a, b>>[2] = b
        OBVIOUS
    <2> QED BY <2>1
<1> HIDE DEF Less
<1>5. \A y \in S : x <= y
    <2> TAKE y \in S
    <2>1. x \in Nat /\ y \in Nat
        OBVIOUS
    <2>2. ~(y < x)
        BY <1>3, <1>4, <2>1
    <2> QED BY <2>1, <2>2
<1> QED BY <1>5

\* NextKey of a request that is left to make is one of them.
LEMMA LeastIsOne ==
    ASSUME NEW S, S \subseteq Nat, S # {}
    PROVE  Min(S) \in S
<1>1. \E x \in S : \A y \in S : x <= y
    BY LeastOf
<1> QED BY <1>1 DEF Min

\* A step of the cycle that is none of the schedule sync's.
Elsewhere ==
    /\ step'.at \notin {"segments", "delete", "replace"}
    /\ DOMAIN AtRest \subseteq DOMAIN step' /\ step'.goal \in {"title", "schedule"}

LEMMA RestFields ==
    /\ {"at", "goal", "retried", "throttled", "hand", "slotHand", "inner", "own", "seen", "wanted",
         "known", "planned", "todo", "made", "keep"} \subseteq DOMAIN AtRest
    /\ AtRest.goal = "title" /\ AtRest.at = "rest"
BY DEF AtRest

LEMMA Going ==
    ASSUME NEW at, Goes(at)
    PROVE  step'.at = at /\ (at \notin {"segments", "delete", "replace"} => Elsewhere)
<1>1. step' = [AtRest EXCEPT !.at = at]
    BY DEF Goes
<1> QED BY <1>1, RestFields DEF Elsewhere

LEMMA AnsweredFailed ==
    ASSUME Shapes, NEW answer, Failed(answer)
    PROVE  Elsewhere
<1>1. CASE Goes("live")
    BY <1>1, Going
<1>2. CASE step' = [step EXCEPT !.at = "refresh", !.retried = TRUE]
    BY <1>2, RestFields DEF Shapes, Elsewhere
<1> QED BY <1>1, <1>2 DEF Failed

---------------------------------------------------------------------------
(* Steps that make no segment and write no list *)

LEMMA QuietKeeps ==
    ASSUME KnownInv, Shapes', segments' = segments, twitch'.segments \subseteq twitch.segments,
           lost' = lost, hour' = hour \/ (hour' > hour /\ step.at = "rest"),
           step' = step \/ step'.at \notin {"segments", "delete", "replace"}
    PROVE  KnownInv'
<1>1. Owed' \subseteq Owed
    BY DEF Owed, KnownInv, Shapes
<1>2. \A s \in Owed' : Named(segments', s)
    BY <1>1 DEF KnownInv
<1>3. Underway'
    <2>1. CASE step' = step
        BY <2>1 DEF Underway, KnownInv
    <2>2. CASE step'.at \notin {"segments", "delete", "replace"}
        BY <2>2 DEF Underway
    <2> QED BY <2>1, <2>2
<1>4. Weeded'
    <2>1. CASE step' = step
        BY <1>1, <2>1 DEF Weeded, KnownInv
    <2>2. CASE step'.at \notin {"segments", "delete", "replace"}
        BY <2>2 DEF Weeded
    <2> QED BY <2>1, <2>2
<1> QED BY <1>2, <1>3, <1>4 DEF KnownInv, Named

\* The steps that move the cycle on to a place outside the schedule sync.
LEMMA MovesOn ==
    ASSUME KnownInv,
           \/ BeginTwitchCycle \/ HealAnswered \/ ReadForReconcile \/ PassGate
           \/ RefreshReads \/ Refreshed \/ RefreshFailed \/ RefusalReads \/ RefusalMarked
           \/ SlotReads \/ SlotRefreshed \/ SlotFailed
           \/ TitleLeft \/ TitleAnswered \/ ChatAnswered \/ RecordSync
           \/ SegmentRefused \/ ScheduleBooked \/ LiveReads \/ LiveAnswered \/ WorkerRestarts
    PROVE  Elsewhere
<1> USE Going, RestFields DEF KnownInv, Shapes
<1> HIDE DEF AtRest
<1>1. CASE BeginTwitchCycle
    <2>1. CASE step' = [AtRest EXCEPT !.at = "heal", !.seen = identity]
        BY <2>1 DEF Elsewhere
    <2> QED BY <1>1, <2>1 DEF BeginTwitchCycle
<1>2. CASE HealAnswered
    BY <1>2 DEF HealAnswered
<1>3. CASE ReadForReconcile
    <2>1. CASE Goes("live")
        BY <2>1
    <2>2. CASE \E at \in {"refresh", "gate"} :
                 step' = [[AtRest EXCEPT !.seen = identity, !.own = owner, !.wanted = wish.title,
                                 !.hand = identity.until, !.slotHand = owner.until] EXCEPT !.at = at]
        BY <2>2 DEF Elsewhere
    <2> QED BY <1>3, <2>1, <2>2 DEF ReadForReconcile
<1>4. CASE PassGate
    <2>1. CASE \E at \in {"slot", step.goal} : step' = [step EXCEPT !.at = at]
        BY <2>1 DEF Elsewhere
    <2> QED BY <1>4, <2>1 DEF PassGate
<1>5. CASE RefreshReads
    <2>1. CASE step' = [step EXCEPT !.at = "asking", !.inner = identity]
        BY <2>1 DEF Elsewhere
    <2> QED BY <1>5, <2>1 DEF RefreshReads
<1>6. CASE Refreshed
    <2>1. step' = [step EXCEPT !.at = "gate", !.hand = identity'.until]
        BY <1>6 DEF Refreshed
    <2> QED BY <2>1 DEF Elsewhere
<1>7. CASE RefreshFailed
    BY <1>7 DEF RefreshFailed
<1>8. CASE RefusalReads
    BY <1>8 DEF RefusalReads, Elsewhere
<1>9. CASE RefusalMarked
    BY <1>9 DEF RefusalMarked
<1>10. CASE SlotReads
    <2>1. CASE step' = [step EXCEPT !.at = "slotAsking", !.own = owner]
        BY <2>1 DEF Elsewhere
    <2> QED BY <1>10, <2>1 DEF SlotReads
<1>11. CASE SlotRefreshed
    <2>1. step' = [step EXCEPT !.at = step.goal, !.slotHand = owner'.until]
        BY <1>11 DEF SlotRefreshed
    <2> QED BY <2>1 DEF Elsewhere
<1>12. CASE SlotFailed
    BY <1>12 DEF SlotFailed
<1>13. CASE TitleLeft
    <2>1. PICK throttled : step' = [step EXCEPT !.at = "chat", !.throttled = throttled]
        BY <1>13 DEF TitleLeft
    <2> QED BY <2>1 DEF Elsewhere
<1>14. CASE TitleAnswered
    <2>1. CASE step' = [step EXCEPT !.at = "chat", !.throttled = FALSE]
        BY <2>1 DEF Elsewhere
    <2>2. CASE \E answer : Failed(answer)
        BY <2>2, AnsweredFailed
    <2> QED BY <1>14, <2>1, <2>2 DEF TitleAnswered
<1>15. CASE ChatAnswered
    <2>1. CASE step' = [step EXCEPT !.at = "record"]
        BY <2>1 DEF Elsewhere
    <2>2. CASE \E answer : Failed(answer)
        BY <2>2, AnsweredFailed
    <2> QED BY <1>15, <2>1, <2>2 DEF ChatAnswered
<1>16. CASE RecordSync
    BY <1>16 DEF RecordSync, Elsewhere
<1>17. CASE SegmentRefused
    BY <1>17, AnsweredFailed DEF SegmentRefused
<1>18. CASE ScheduleBooked
    BY <1>18 DEF ScheduleBooked
<1>19. CASE LiveReads
    <2>1. CASE step' = [AtRest EXCEPT !.at = "polling", !.inner = identity]
        BY <2>1 DEF Elsewhere
    <2> QED BY <1>19, <2>1 DEF LiveReads
<1>20. CASE LiveAnswered
    BY <1>20 DEF LiveAnswered
<1>21. CASE WorkerRestarts
    BY <1>21 DEF WorkerRestarts
<1> QED BY <1>1, <1>2, <1>3, <1>4, <1>5, <1>6, <1>7, <1>8, <1>9, <1>10, <1>11, <1>12, <1>13, <1>14,
           <1>15, <1>16, <1>17, <1>18, <1>19, <1>20, <1>21


---------------------------------------------------------------------------
(* The schedule sync *)

LEMMA ReadsKeep ==
    ASSUME KnownInv, ScheduleReads
    PROVE  KnownInv'
<1> DEFINE plan == Ahead(wish.plan)
<1>1. CASE Goes("live")
    <2>1. Elsewhere
        BY <1>1, Going
    <2> QED BY <2>1, QuietKeeps DEF KnownInv, Shapes, ScheduleReads, Elsewhere
<1>2. CASE step' = [step EXCEPT !.at = IF plan = {} THEN "delete" ELSE "segments",
                        !.inner = identity, !.slotHand = owner.until, !.known = segments,
                        !.planned = plan, !.todo = plan, !.made = <<>>, !.keep = {}]
    <2>1. plan \subseteq Nat
        BY DEF KnownInv, Shapes, Ahead
    <2> HIDE DEF plan
    <2>2. /\ step'.at = IF plan = {} THEN "delete" ELSE "segments"
          /\ step'.known = segments /\ step'.planned = plan /\ step'.todo = plan
          /\ step'.made = <<>> /\ step'.goal = step.goal /\ DOMAIN step' = DOMAIN step
        BY <1>2, RestFields DEF KnownInv, Shapes
    <2>3. segments' = segments /\ twitch' = twitch /\ hour' = hour /\ lost' = lost /\ wish' = wish
        BY DEF ScheduleReads
    <2>4. Shapes'
        BY <2>2, <2>3 DEF KnownInv, Shapes
    <2>5. \A s \in Owed' : Named(segments', s)
        BY <2>3 DEF KnownInv, Owed, Named
    <2>6. Underway'
        <3>1. DOMAIN step'.made = {} /\ step'.planned \ step'.todo = {}
            BY <2>2
        <3>2. step'.at = "segments" <=> step'.todo # {}
            BY <2>2
        <3> QED BY <2>1, <2>2, <2>3, <3>1, <3>2 DEF Underway
    <2>7. Weeded'
        BY <2>2 DEF Weeded
    <2> QED BY <2>4, <2>5, <2>6, <2>7 DEF KnownInv, Named
<1> QED BY <1>1, <1>2 DEF ScheduleReads


LEMMA WriteKeeps ==
    ASSUME KnownInv, SegmentWritten
    PROVE  KnownInv'
<1> DEFINE k == NextKey
           id == IdAfter(k)
<1>1. k \in step.todo /\ k \in Nat
    <2>1. step.todo \subseteq Nat /\ step.todo # {}
        BY DEF KnownInv, Underway, SegmentWritten
    <2> QED BY <2>1, LeastIsOne DEF NextKey
<1>2. id \in Nat /\ (<<k, KnownId(k)>> \in twitch.segments => id = KnownId(k))
    BY DEF IdAfter, KnownInv, Shapes
<1>3. segments' = Entered(segments, k, id)
    BY DEF SegmentWritten, StoredAtOnce
<1>4. /\ step.at = "segments" /\ hour' = hour /\ lost' = lost /\ wish' = wish
      /\ twitch' = TwitchWith(k, id)
      /\ step' = [step EXCEPT !.todo = @ \ {k}, !.made = Entered(@, k, id),
                              !.at = IF step.todo = {k} THEN "delete" ELSE "segments"]
    BY DEF SegmentWritten
<1> HIDE DEF k, id
<1>5. /\ twitch'.segments = twitch.segments \cup {<<k, id>>}
      /\ twitch'.issued \in Nat /\ DOMAIN twitch' = DOMAIN twitch
    BY <1>2, <1>4 DEF TwitchWith, KnownInv, Shapes
<1>6. /\ DOMAIN segments' = {k} \cup DOMAIN segments
      /\ segments'[k] = id
      /\ \A j \in DOMAIN segments : j # k => segments'[j] = segments[j]
    BY <1>3 DEF Entered
<1>7. /\ step'.todo = step.todo \ {k} /\ step'.made = Entered(step.made, k, id)
      /\ step'.at = IF step.todo = {k} THEN "delete" ELSE "segments"
      /\ step'.known = step.known /\ step'.planned = step.planned /\ step'.goal = step.goal
      /\ DOMAIN step' = DOMAIN step
    BY <1>4, RestFields DEF KnownInv, Shapes
<1>8. /\ DOMAIN step'.made = {k} \cup DOMAIN step.made
      /\ step'.made[k] = id
      /\ \A j \in DOMAIN step.made : j # k => step'.made[j] = step.made[j]
    BY <1>7 DEF Entered
<1>9. Shapes'
    BY <1>1, <1>2, <1>4, <1>5, <1>7 DEF KnownInv, Shapes
<1>10. \A s \in Owed' : Named(segments', s)
    <2> SUFFICES ASSUME NEW s \in Owed'
                 PROVE  s[1] \in DOMAIN segments' /\ segments'[s[1]] = s[2]
        BY DEF Named
    <2>1. CASE s = <<k, id>>
        BY <2>1, <1>6
    <2>2. CASE s # <<k, id>>
        <3>1. s \in Owed
            BY <2>2, <1>4, <1>5 DEF Owed
        <3>2. s[1] \in DOMAIN segments /\ segments[s[1]] = s[2]
            BY <3>1 DEF KnownInv, Named
        <3>3. s[1] # k
            <4> SUFFICES ASSUME s[1] = k PROVE FALSE
                OBVIOUS
            <4>1. k \notin DOMAIN step.made
                BY <1>1, <1>4 DEF KnownInv, Underway
            <4>2. k \in DOMAIN step.known /\ step.known[k] = s[2]
                BY <1>4, <3>2, <4>1 DEF KnownInv, Underway
            <4>3. KnownId(k) = s[2]
                BY <4>2 DEF KnownId
            <4>4. s = <<k, s[2]>> /\ s \in twitch.segments
                BY <3>1 DEF Owed, KnownInv, Shapes
            <4> QED BY <1>2, <2>2, <4>3, <4>4
        <3> QED BY <1>6, <3>2, <3>3
    <2> QED BY <2>1, <2>2
<1>11. Underway'
    <2>1. /\ step'.todo \subseteq step'.planned /\ step'.planned \subseteq Nat
          /\ DOMAIN step'.made = step'.planned \ step'.todo
        BY <1>1, <1>4, <1>7, <1>8 DEF KnownInv, Underway
    <2>2. DOMAIN segments' = DOMAIN step'.made \cup DOMAIN step'.known
        BY <1>4, <1>6, <1>7, <1>8 DEF KnownInv, Underway
    <2>3. ASSUME NEW j \in DOMAIN segments'
          PROVE  segments'[j] = IF j \in DOMAIN step'.made THEN step'.made[j] ELSE step'.known[j]
        <3>1. CASE j = k
            BY <3>1, <1>6, <1>8
        <3>2. CASE j # k
            <4>1. j \in DOMAIN segments /\ segments'[j] = segments[j]
                BY <3>2, <1>6
            <4>2. segments[j] = IF j \in DOMAIN step.made THEN step.made[j] ELSE step.known[j]
                BY <1>4, <4>1 DEF KnownInv, Underway
            <4> QED BY <1>7, <1>8, <3>2, <4>1, <4>2
        <3> QED BY <3>1, <3>2
    <2>4. step'.at = "segments" <=> step'.todo # {}
        BY <1>1, <1>7
    <2> QED BY <2>1, <2>2, <2>3, <2>4 DEF Underway
<1>12. Weeded'
    BY <1>7 DEF Weeded
<1> QED BY <1>9, <1>10, <1>11, <1>12 DEF KnownInv, Named

\* A segment whose answer does not come is the one exception the sync makes.
LEMMA LostKeeps ==
    ASSUME KnownInv, SegmentAnswerLost
    PROVE  KnownInv'
<1>1. PICK id : /\ id = twitch.issued + 1 /\ twitch' = TwitchWith(NextKey, id)
                /\ lost' = lost \cup {id}
    BY DEF SegmentAnswerLost
<1>2. NextKey \in Nat
    <2>1. step.todo \subseteq Nat /\ step.todo # {}
        BY DEF KnownInv, Underway, SegmentAnswerLost
    <2> QED BY <2>1, LeastIsOne DEF NextKey
<1>3. /\ twitch'.segments = twitch.segments \cup {<<NextKey, id>>}
      /\ twitch'.issued \in Nat /\ DOMAIN twitch' = DOMAIN twitch
    BY <1>1 DEF TwitchWith, KnownInv, Shapes
<1>4. Elsewhere
    BY Going DEF SegmentAnswerLost
<1>5. hour' = hour /\ segments' = segments /\ wish' = wish
    BY DEF SegmentAnswerLost
<1>6. Shapes'
    BY <1>1, <1>2, <1>3, <1>4, <1>5 DEF KnownInv, Shapes, Elsewhere
<1>7. Owed' \subseteq Owed
    <2> SUFFICES ASSUME NEW s \in Owed' PROVE s \in Owed
        OBVIOUS
    <2>1. s \in twitch'.segments /\ s[1] > hour /\ s[2] \notin lost'
        BY <1>5 DEF Owed
    <2>2. s # <<NextKey, id>>
        BY <1>1, <2>1
    <2> QED BY <1>1, <1>3, <2>1, <2>2 DEF Owed
<1>8. \A s \in Owed' : Named(segments', s)
    BY <1>5, <1>7 DEF KnownInv, Named
<1>9. Underway' /\ Weeded'
    BY <1>4 DEF Elsewhere, Underway, Weeded
<1> QED BY <1>6, <1>8, <1>9 DEF KnownInv, Named


LEMMA DeletesKeep ==
    ASSUME KnownInv, StaleDeleted
    PROVE  KnownInv'
<1>1. PICK done \in SUBSET Stale, gone \in SUBSET Stale :
          /\ gone \subseteq done
          /\ twitch' = [twitch EXCEPT !.segments = @ \ {<<k, step.known[k]>> : k \in done}]
          /\ step' = [step EXCEPT !.at = "replace", !.keep = Ahead(Stale \ gone)]
    BY DEF StaleDeleted
<1>2. /\ step'.at = "replace" /\ step'.keep = Ahead(Stale \ gone) /\ step'.todo = step.todo
      /\ step'.known = step.known /\ step'.planned = step.planned /\ step'.made = step.made
      /\ step'.goal = step.goal /\ DOMAIN step' = DOMAIN step
    BY <1>1, RestFields DEF KnownInv, Shapes
<1>3. /\ twitch'.segments = twitch.segments \ {<<k, step.known[k]>> : k \in done}
      /\ twitch'.issued = twitch.issued /\ DOMAIN twitch' = DOMAIN twitch
    BY <1>1 DEF KnownInv, Shapes
<1>4. step.at = "delete" /\ hour' = hour /\ segments' = segments /\ wish' = wish /\ lost' = lost
    BY DEF StaleDeleted
<1>5. Shapes'
    BY <1>2, <1>3, <1>4 DEF KnownInv, Shapes
<1>6. Owed' \subseteq Owed
    BY <1>3, <1>4 DEF Owed
<1>7. \A s \in Owed' : Named(segments', s)
    BY <1>4, <1>6 DEF KnownInv, Named
<1>8. Underway'
    BY <1>2, <1>4 DEF KnownInv, Underway
<1>9. ASSUME NEW s \in Owed', s[1] \notin step.planned
      PROVE  s[1] \in step'.keep
    <2>1. s[1] \in DOMAIN segments /\ segments[s[1]] = s[2]
        BY <1>6 DEF KnownInv, Named
    <2>2. s[1] \in DOMAIN step.known /\ step.known[s[1]] = s[2]
        BY <1>4, <1>9, <2>1 DEF KnownInv, Underway
    <2>3. s = <<s[1], step.known[s[1]]>> /\ s \in twitch'.segments /\ s[1] > hour
        <3>1. s \in twitch'.segments /\ s[1] > hour
            BY <1>4 DEF Owed
        <3>2. s \in Nat \X Nat
            BY <1>5, <3>1 DEF Shapes
        <3>3. s = <<s[1], s[2]>>
            BY <3>2
        <3> QED BY <2>2, <3>1, <3>3
    <2>4. s[1] \notin done
        <3> DEFINE gives == {<<k, step.known[k]>> : k \in done}
        <3>1. twitch'.segments = twitch.segments \ gives
            BY <1>3
        <3>2. s[1] \in done => <<s[1], step.known[s[1]]>> \in gives
            OBVIOUS
        <3> HIDE DEF gives
        <3>3. s \notin gives
            BY <2>3, <3>1
        <3>4. s[1] \in done => s \in gives
            <4> DEFINE entry == <<s[1], step.known[s[1]]>>
            <4>1. s = entry /\ (s[1] \in done => entry \in gives)
                BY <2>3, <3>2
            <4> HIDE DEF entry
            <4> QED BY <4>1
        <3> QED BY <3>3, <3>4
    <2>5. s[1] \in Stale \ gone
        <3>1. gone \subseteq done
            BY <1>1
        <3> QED BY <1>9, <2>2, <2>4, <3>1 DEF Stale
    <2> QED BY <1>2, <2>3, <2>5 DEF Ahead
<1>10. Weeded'
    <2>1. step'.keep \subseteq DOMAIN step'.known
        BY <1>2 DEF Ahead, Stale
    <2> QED BY <1>2, <1>9, <2>1 DEF Weeded
<1> QED BY <1>5, <1>7, <1>8, <1>10 DEF KnownInv, Named

LEMMA ReplaceKeeps ==
    ASSUME KnownInv, SegmentsReplaced
    PROVE  KnownInv'
<1>1. segments' = [k \in DOMAIN step.made \cup step.keep |->
                       IF k \in DOMAIN step.made THEN step.made[k] ELSE step.known[k]]
    BY DEF SegmentsReplaced
<1>2. /\ step.at = "replace" /\ twitch' = twitch /\ hour' = hour /\ wish' = wish /\ lost' = lost
      /\ step' = [step EXCEPT !.at = "book"]
    BY DEF SegmentsReplaced
<1>3. Elsewhere
    BY <1>2, RestFields DEF Elsewhere, KnownInv, Shapes
<1>4. Shapes'
    BY <1>2, <1>3 DEF KnownInv, Shapes, Elsewhere
<1>5. ASSUME NEW s \in Owed'
      PROVE  s[1] \in DOMAIN segments' /\ segments'[s[1]] = s[2]
    <2>1. s \in Owed
        BY <1>2 DEF Owed
    <2>2. s[1] \in DOMAIN segments /\ segments[s[1]] = s[2]
        BY <2>1 DEF KnownInv, Named
    <2>3. s[2] = IF s[1] \in DOMAIN step.made THEN step.made[s[1]] ELSE step.known[s[1]]
        BY <1>2, <2>2 DEF KnownInv, Underway
    <2>4. s[1] \in DOMAIN step.made \cup step.keep
        BY <1>2, <2>1 DEF KnownInv, Underway, Weeded
    <2> QED BY <1>1, <2>3, <2>4
<1>6. Underway' /\ Weeded'
    BY <1>3 DEF Elsewhere, Underway, Weeded
<1> QED BY <1>4, <1>5, <1>6 DEF KnownInv, Named

---------------------------------------------------------------------------
(* The invariant *)

LEMMA KnownInit ==
    ASSUME TwInit PROVE KnownInv
<1>1. step.at = "rest" /\ step.goal = "title" /\ step = AtRest
    BY RestFields DEF TwInit
<1>2. twitch = [title |-> Nothing, segments |-> {}, issued |-> 2] /\ hour = 1
    BY DEF TwInit
<1>3. wish \in [title : Titles, plan : {Starts}]
    BY DEF TwInit
<1>4. Shapes
    BY <1>1, <1>2, <1>3, TwitchAssumption DEF Shapes, TwitchAssumption
<1>5. Owed = {}
    BY <1>2 DEF Owed
<1> QED BY <1>1, <1>4, <1>5 DEF KnownInv, Underway, Weeded

\* The steps that leave the segments, their list and the clock as they are; Twitch may lose one by hand.
LEMMA QuietSteps ==
    ASSUME KnownInv,
           \/ BeginTwitchCycle \/ HealAnswered \/ ReadForReconcile \/ PassGate
           \/ RefreshReads \/ Refreshed \/ RefreshFailed \/ RefusalReads \/ RefusalMarked
           \/ SlotReads \/ SlotRefreshed \/ SlotFailed
           \/ TitleLeft \/ TitleAnswered \/ ChatAnswered \/ RecordSync
           \/ SegmentRefused \/ ScheduleBooked \/ LiveReads \/ LiveAnswered \/ WorkerRestarts
           \/ ConnectBot \/ ConnectOwner \/ DisconnectOwner \/ ConnectFails \/ DeletedByHand
    PROVE  /\ segments' = segments /\ lost' = lost /\ hour' = hour /\ wish' = wish
           /\ twitch'.segments \subseteq twitch.segments
           /\ twitch'.issued \in Nat /\ DOMAIN twitch' = DOMAIN twitch
<1> USE DEF KnownInv, Shapes
<1>1. CASE Refreshed \/ SlotRefreshed \/ ConnectBot \/ ConnectOwner
    <2>1. twitch' = [twitch EXCEPT !.issued = @ + 1]
        BY <1>1 DEF Refreshed, SlotRefreshed, ConnectBot, ConnectOwner
    <2> QED BY <1>1, <2>1 DEF Refreshed, SlotRefreshed, ConnectBot, ConnectOwner
<1>2. CASE TitleAnswered
    <2>1. twitch' = twitch \/ twitch' = [twitch EXCEPT !.title = step.wanted]
        BY <1>2 DEF TitleAnswered
    <2> QED BY <1>2, <2>1 DEF TitleAnswered
<1>3. CASE DeletedByHand
    <2>1. PICK s \in twitch.segments : twitch' = [twitch EXCEPT !.segments = @ \ {s}]
        BY <1>3 DEF DeletedByHand
    <2> QED BY <1>3, <2>1 DEF DeletedByHand
<1>4. CASE BeginTwitchCycle \/ HealAnswered \/ ReadForReconcile \/ PassGate \/ RefreshReads
    BY <1>4 DEF BeginTwitchCycle, HealAnswered, ReadForReconcile, PassGate, RefreshReads
<1>5. CASE RefreshFailed \/ RefusalReads \/ RefusalMarked \/ SlotReads \/ SlotFailed
    BY <1>5 DEF RefreshFailed, RefusalReads, RefusalMarked, SlotReads, SlotFailed
<1>6. CASE TitleLeft \/ ChatAnswered \/ RecordSync \/ SegmentRefused \/ ScheduleBooked
    BY <1>6 DEF TitleLeft, ChatAnswered, RecordSync, SegmentRefused, ScheduleBooked
<1>7. CASE LiveReads \/ LiveAnswered \/ WorkerRestarts \/ DisconnectOwner \/ ConnectFails
    BY <1>7 DEF LiveReads, LiveAnswered, WorkerRestarts, DisconnectOwner, ConnectFails
<1> QED BY <1>1, <1>2, <1>3, <1>4, <1>5, <1>6, <1>7

LEMMA KnownNext ==
    ASSUME KnownInv, [TwNext]_twVars
    PROVE  KnownInv'
<1> DEFINE Inside ==
           \/ BeginTwitchCycle \/ HealAnswered \/ ReadForReconcile \/ PassGate
           \/ RefreshReads \/ Refreshed \/ RefreshFailed \/ RefusalReads \/ RefusalMarked
           \/ SlotReads \/ SlotRefreshed \/ SlotFailed
           \/ TitleLeft \/ TitleAnswered \/ ChatAnswered \/ RecordSync
           \/ SegmentRefused \/ ScheduleBooked \/ LiveReads \/ LiveAnswered \/ WorkerRestarts
           Outside == ConnectBot \/ ConnectOwner \/ DisconnectOwner \/ ConnectFails \/ DeletedByHand
<1>1. CASE Inside
    <2>1. Elsewhere
        BY <1>1, MovesOn
    <2>2. /\ segments' = segments /\ lost' = lost /\ hour' = hour /\ wish' = wish
          /\ twitch'.segments \subseteq twitch.segments
          /\ twitch'.issued \in Nat /\ DOMAIN twitch' = DOMAIN twitch
        BY <1>1, QuietSteps
    <2>3. Shapes'
        BY <2>1, <2>2 DEF KnownInv, Shapes, Elsewhere
    <2> QED BY <2>1, <2>2, <2>3, QuietKeeps DEF Elsewhere
<1>2. CASE Outside
    <2>1. step' = step
        BY <1>2 DEF ConnectBot, ConnectOwner, DisconnectOwner, ConnectFails, DeletedByHand
    <2>2. /\ segments' = segments /\ lost' = lost /\ hour' = hour /\ wish' = wish
          /\ twitch'.segments \subseteq twitch.segments
          /\ twitch'.issued \in Nat /\ DOMAIN twitch' = DOMAIN twitch
        BY <1>2, QuietSteps
    <2>3. Shapes'
        BY <2>1, <2>2 DEF KnownInv, Shapes
    <2> QED BY <2>1, <2>2, <2>3, QuietKeeps
<1>3. CASE TitleChanges \/ PlanChanges
    <2>1. /\ segments' = segments /\ lost' = lost /\ hour' = hour /\ twitch' = twitch /\ step' = step
        BY <1>3 DEF TitleChanges, PlanChanges
    <2>2. wish'.plan \subseteq Nat /\ DOMAIN wish' = DOMAIN wish
        <3>1. CASE TitleChanges
            <4>1. PICK title : wish' = [wish EXCEPT !.title = title]
                BY <3>1 DEF TitleChanges
            <4> QED BY <4>1 DEF KnownInv, Shapes
        <3>2. CASE PlanChanges
            <4>1. PICK plan \in SUBSET Starts : wish' = [wish EXCEPT !.plan = plan]
                BY <3>2 DEF PlanChanges
            <4> QED BY <4>1, TwitchAssumption DEF KnownInv, Shapes, TwitchAssumption
        <3> QED BY <1>3, <3>1, <3>2
    <2>3. Shapes'
        BY <2>1, <2>2 DEF KnownInv, Shapes
    <2> QED BY <2>1, <2>3, QuietKeeps
<1>4. CASE TwitchTick
    <2>1. /\ segments' = segments /\ lost' = lost /\ twitch' = twitch /\ step' = step /\ wish' = wish
          /\ step.at = "rest" /\ hour' = hour + 1
        BY <1>4 DEF TwitchTick
    <2>2. Shapes' /\ hour' > hour
        BY <2>1 DEF KnownInv, Shapes
    <2> QED BY <2>1, <2>2, QuietKeeps
<1>5. CASE UNCHANGED twVars
    <2>1. /\ segments' = segments /\ lost' = lost /\ hour' = hour /\ twitch' = twitch
          /\ step' = step /\ wish' = wish
        BY <1>5 DEF twVars
    <2>2. Shapes'
        BY <2>1 DEF KnownInv, Shapes
    <2> QED BY <2>1, <2>2, QuietKeeps
<1>6. CASE ScheduleReads \/ SegmentWritten \/ SegmentAnswerLost \/ StaleDeleted \/ SegmentsReplaced
    BY <1>6, ReadsKeep, WriteKeeps, LostKeeps, DeletesKeep, ReplaceKeeps
<1> QED BY <1>1, <1>2, <1>3, <1>4, <1>5, <1>6 DEF TwNext

\* Whatever fails between the requests of a sync, every segment it has put on the channel's schedule
\* and that still lies ahead is in the stored list, unless the answer that named it never came: for any
\* planned windows, lives of tokens and intervals (syncTwitchSchedule, deleteStaleTwitchScheduleSegments,
\* replaceTwitchScheduleSegments).
THEOREM SegmentsStayKnown == TwSpec => []SegmentsAreKnown
<1>1. TwInit => KnownInv
    BY KnownInit
<1>2. KnownInv /\ [TwNext]_twVars => KnownInv'
    BY KnownNext
<1>3. KnownInv => SegmentsAreKnown
    <2> SUFFICES ASSUME KnownInv, NEW s \in twitch.segments, s[1] > hour, s[2] \notin lost
                 PROVE  s[2] \in {segments[k] : k \in DOMAIN segments}
        BY DEF SegmentsAreKnown
    <2> QED BY DEF KnownInv, Owed, Named
<1> QED BY <1>1, <1>2, <1>3, PTL DEF TwSpec


---------------------------------------------------------------------------
(* The rows of the connection *)

\* twitch_connection: a row without a token is not connected, and a refused one is in error.
IsIdentity(r) ==
    /\ {"status", "refused", "title", "schedAt", "live", "token", "until"} \subseteq DOMAIN r
    /\ r.status \in {"none", "connected", "error"} /\ r.token \in 0..MaxIssued /\ r.refused \in BOOLEAN
    /\ r.status = "connected" => r.token # 0
    /\ r.refused => r.status = "error"

\* twitch_broadcaster_connection
IsOwner(r) ==
    /\ {"status", "token", "until"} \subseteq DOMAIN r
    /\ r.token \in 0..MaxIssued
    /\ r.status = "connected" <=> r.token # 0

\* Where the cycle goes on with the row of a connection that it has read.
WithToken == {"heal", "refresh", "asking", "gate", "slot", "slotAsking", "title", "chat", "record",
              "schedule", "segments"}

\* What the cycle holds in hand.
IsStep(s) ==
    /\ DOMAIN AtRest \subseteq DOMAIN s
    /\ IsIdentity(s.seen) /\ IsIdentity(s.inner) /\ IsOwner(s.own)
    /\ s.at \in WithToken => s.seen.token # 0
    /\ s.todo \subseteq s.planned /\ s.planned \subseteq Starts
    /\ DOMAIN s.made \subseteq Starts /\ DOMAIN s.known \subseteq Starts /\ s.keep \subseteq Starts

\* The rest of the rows and what Twitch has.
Listed ==
    /\ hour \in 1..MaxClock
    /\ DOMAIN segments \subseteq Starts /\ wish.plan \subseteq Starts
    /\ twitch.segments \subseteq Starts \X (1..MaxIssued) /\ twitch.issued \in 0..MaxIssued

RowsInv == /\ IsIdentity(identity) /\ IsOwner(owner) /\ IsStep(step) /\ Listed

LEMMA NoRows == IsIdentity(NoIdentity) /\ IsOwner(NoOwner) /\ IsStep(AtRest)
<1>1. IsIdentity(NoIdentity) /\ IsOwner(NoOwner)
    BY TwitchAssumption DEF TwitchAssumption, NoIdentity, NoOwner, IsIdentity, IsOwner
<1> QED BY <1>1 DEF AtRest, IsStep, WithToken

LEMMA GoingIsStep ==
    ASSUME NEW at, at \notin WithToken, Goes(at)
    PROVE  IsStep(step')
<1>1. step' = [AtRest EXCEPT !.at = at] /\ "at" \in DOMAIN AtRest
    BY RestFields DEF Goes
<1> QED BY <1>1, NoRows, RestFields DEF IsStep

LEMMA ConnectedRows ==
    ASSUME NEW token \in 1..MaxIssued
    PROVE  /\ \A r : IsIdentity(r) => IsIdentity([Connected(r, token) EXCEPT !.refused = FALSE])
           /\ IsIdentity(Connected(NoIdentity, token))
           /\ \A r : IsOwner(r) => IsOwner(Connected(r, token))
<1>1. ASSUME NEW r, IsIdentity(r)
      PROVE  IsIdentity([Connected(r, token) EXCEPT !.refused = FALSE])
    BY <1>1, TwitchAssumption DEF Connected, IsIdentity, TwitchAssumption
<1>2. IsIdentity(Connected(NoIdentity, token))
    BY NoRows, TwitchAssumption DEF Connected, IsIdentity, TwitchAssumption, NoIdentity
<1>3. ASSUME NEW r, IsOwner(r)
      PROVE  IsOwner(Connected(r, token))
    BY <1>3, TwitchAssumption DEF Connected, IsOwner, TwitchAssumption
<1> QED BY <1>1, <1>2, <1>3

\* A 401 sends the cycle back to the refresh, with the row it has read.
LEMMA FailedIsStep ==
    ASSUME IsStep(step), step.at \in WithToken, NEW answer, Failed(answer)
    PROVE  IsStep(step')
<1>1. CASE Goes("live")
    BY <1>1, GoingIsStep DEF WithToken
<1>2. CASE step' = [step EXCEPT !.at = "refresh", !.retried = TRUE]
    BY <1>2, RestFields DEF IsStep, WithToken
<1> QED BY <1>1, <1>2 DEF Failed

\* A step that only goes on: what it holds stays, and it moves on with a token only if it had one.
LEMMA OnwardIsStep ==
    ASSUME IsStep(step), NEW s, IsStep(s), NEW at, at \in WithToken => s.seen.token # 0,
           step' = [s EXCEPT !.at = at]
    PROVE  IsStep(step')
BY RestFields DEF IsStep


LEMMA CycleHoldsRows ==
    ASSUME KnownInv, RowsInv,
           \/ BeginTwitchCycle \/ HealAnswered \/ ReadForReconcile \/ PassGate
           \/ RefreshReads \/ Refreshed \/ RefreshFailed \/ RefusalReads \/ RefusalMarked
           \/ SlotReads \/ SlotRefreshed \/ SlotFailed
           \/ TitleLeft \/ TitleAnswered \/ ChatAnswered \/ RecordSync
    PROVE  IsStep(step')
<1> USE GoingIsStep, NoRows, RestFields
<1> HIDE DEF AtRest, IsIdentity, IsOwner
<1>a. IsStep(step) /\ IsIdentity(identity) /\ IsOwner(owner)
    BY DEF RowsInv
<1>1. CASE BeginTwitchCycle
    <2>1. CASE step' = [AtRest EXCEPT !.at = "heal", !.seen = identity] /\ HealDue
        BY <1>a, <2>1 DEF IsStep, HealDue
    <2>2. CASE Goes("read")
        BY <2>2 DEF WithToken
    <2> QED BY <1>1, <2>1, <2>2 DEF BeginTwitchCycle
<1>2. CASE HealAnswered
    BY <1>2 DEF HealAnswered, WithToken
<1>3. CASE ReadForReconcile
    <2>1. CASE Goes("live")
        BY <2>1 DEF WithToken
    <2>2. CASE /\ identity.token # 0
               /\ \E at \in {"refresh", "gate"} :
                     step' = [[AtRest EXCEPT !.seen = identity, !.own = owner, !.wanted = wish.title,
                                     !.hand = identity.until, !.slotHand = owner.until] EXCEPT !.at = at]
        BY <1>a, <2>2 DEF IsStep
    <2> QED BY <1>3, <2>1, <2>2 DEF ReadForReconcile
<1>4. CASE PassGate
    <2>1. CASE Goes("live")
        BY <2>1 DEF WithToken
    <2>2. CASE \E at \in {"slot", step.goal} : step' = [step EXCEPT !.at = at]
        BY <1>a, <1>4, <2>2 DEF IsStep, PassGate, WithToken, KnownInv, Shapes
    <2> QED BY <1>4, <2>1, <2>2 DEF PassGate
<1>5. CASE RefreshReads
    <2>1. CASE Goes("live")
        BY <2>1 DEF WithToken
    <2>2. CASE step' = [step EXCEPT !.at = "asking", !.inner = identity]
        BY <1>a, <1>5, <2>2 DEF IsStep, RefreshReads, WithToken
    <2> QED BY <1>5, <2>1, <2>2 DEF RefreshReads
<1>6. CASE Refreshed
    <2>1. step' = [step EXCEPT !.at = "gate", !.hand = identity'.until] /\ step.at = "asking"
        BY <1>6 DEF Refreshed
    <2> QED BY <1>a, <2>1 DEF IsStep, WithToken
<1>7. CASE RefreshFailed
    BY <1>7 DEF RefreshFailed, WithToken
<1>8. CASE RefusalReads
    <2>1. step' = [AtRest EXCEPT !.at = "mark", !.inner = identity]
        BY <1>8 DEF RefusalReads
    <2> QED BY <1>a, <2>1 DEF IsStep, WithToken
<1>9. CASE RefusalMarked
    BY <1>9 DEF RefusalMarked, WithToken
<1>10. CASE SlotReads
    <2>1. CASE Goes("live")
        BY <2>1 DEF WithToken
    <2>2. CASE step' = [step EXCEPT !.at = "slotAsking", !.own = owner]
        BY <1>a, <1>10, <2>2 DEF IsStep, SlotReads, WithToken
    <2> QED BY <1>10, <2>1, <2>2 DEF SlotReads
<1>11. CASE SlotRefreshed
    <2>1. step' = [step EXCEPT !.at = step.goal, !.slotHand = owner'.until] /\ step.at = "slotAsking"
        BY <1>11 DEF SlotRefreshed
    <2> QED BY <1>a, <2>1 DEF IsStep, WithToken
<1>12. CASE SlotFailed
    BY <1>12 DEF SlotFailed, WithToken
<1>13. CASE TitleLeft
    <2>1. PICK throttled : step' = [step EXCEPT !.at = "chat", !.throttled = throttled]
        BY <1>13 DEF TitleLeft
    <2> QED BY <1>a, <1>13, <2>1 DEF IsStep, TitleLeft, WithToken
<1>14. CASE TitleAnswered
    <2>1. CASE step' = [step EXCEPT !.at = "chat", !.throttled = FALSE]
        BY <1>a, <1>14, <2>1 DEF IsStep, TitleAnswered, WithToken
    <2>2. CASE \E answer : Failed(answer)
        BY <1>a, <1>14, <2>2, FailedIsStep DEF TitleAnswered, WithToken
    <2> QED BY <1>14, <2>1, <2>2 DEF TitleAnswered
<1>15. CASE ChatAnswered
    <2>1. CASE step' = [step EXCEPT !.at = "record"]
        BY <1>a, <1>15, <2>1 DEF IsStep, ChatAnswered, WithToken
    <2>2. CASE \E answer : Failed(answer)
        BY <1>a, <1>15, <2>2, FailedIsStep DEF ChatAnswered, WithToken
    <2>3. CASE Goes("live")
        BY <2>3 DEF WithToken
    <2> QED BY <1>15, <2>1, <2>2, <2>3 DEF ChatAnswered
<1>16. CASE RecordSync
    <2>1. step' = [step EXCEPT !.at = "schedule", !.goal = "schedule", !.retried = FALSE] /\ step.at = "record"
        BY <1>16 DEF RecordSync
    <2> QED BY <1>a, <2>1 DEF IsStep, WithToken
<1> QED BY <1>1, <1>2, <1>3, <1>4, <1>5, <1>6, <1>7, <1>8, <1>9, <1>10, <1>11, <1>12, <1>13, <1>14,
           <1>15, <1>16

LEMMA SyncHoldsRows ==
    ASSUME KnownInv, RowsInv,
           \/ ScheduleReads \/ SegmentWritten \/ SegmentRefused \/ SegmentAnswerLost
           \/ StaleDeleted \/ SegmentsReplaced \/ ScheduleBooked \/ LiveReads \/ LiveAnswered
           \/ WorkerRestarts
    PROVE  IsStep(step')
<1> USE GoingIsStep, NoRows, RestFields
<1> HIDE DEF AtRest, IsIdentity, IsOwner
<1>a. IsStep(step) /\ IsIdentity(identity) /\ IsOwner(owner) /\ DOMAIN segments \subseteq Starts
    BY DEF RowsInv, Listed
<1>1. CASE ScheduleReads
    <2> DEFINE plan == Ahead(wish.plan)
    <2>1. plan \subseteq Starts
        BY DEF RowsInv, Listed, Ahead
    <2>2. CASE Goes("live")
        BY <2>2 DEF WithToken
    <2> HIDE DEF plan
    <2>3. CASE step' = [step EXCEPT !.at = IF plan = {} THEN "delete" ELSE "segments",
                             !.inner = identity, !.slotHand = owner.until, !.known = segments,
                             !.planned = plan, !.todo = plan, !.made = <<>>, !.keep = {}]
        <3>1. step.seen.token # 0
            BY <1>a, <1>1 DEF ScheduleReads, IsStep, WithToken
        <3>2. DOMAIN <<>> \subseteq Starts
            OBVIOUS
        <3> HIDE <2>1
        <3>3. /\ step'.seen = step.seen /\ step'.own = step.own /\ step'.inner = identity
              /\ step'.known = segments /\ step'.made = <<>> /\ step'.keep = {}
              /\ step'.planned = plan /\ step'.todo = plan /\ DOMAIN step' = DOMAIN step
            BY <1>a, <2>3 DEF IsStep
        <3> QED BY <1>a, <2>1, <3>1, <3>2, <3>3 DEF IsStep
    <2> QED BY <1>1, <2>2, <2>3 DEF ScheduleReads, plan
<1>2. CASE SegmentWritten
    <2>1. NextKey \in step.todo
        BY <1>2, LeastIsOne DEF KnownInv, Underway, SegmentWritten, NextKey
    <2>2. step' = [step EXCEPT !.todo = @ \ {NextKey}, !.made = Entered(@, NextKey, IdAfter(NextKey)),
                               !.at = IF step.todo = {NextKey} THEN "delete" ELSE "segments"]
          /\ step.at = "segments"
        BY <1>2 DEF SegmentWritten
    <2>3. NextKey \in Starts
        BY <1>a, <2>1 DEF IsStep
    <2>4. DOMAIN Entered(step.made, NextKey, IdAfter(NextKey)) = DOMAIN step.made \cup {NextKey}
        BY DEF Entered
    <2> QED BY <1>a, <2>2, <2>3, <2>4 DEF IsStep, WithToken
<1>3. CASE SegmentRefused
    BY <1>a, <1>3, FailedIsStep DEF SegmentRefused, WithToken
<1>4. CASE SegmentAnswerLost
    BY <1>4 DEF SegmentAnswerLost, WithToken
<1>5. CASE StaleDeleted
    <2>1. PICK done \in SUBSET Stale : \E gone \in SUBSET done :
              step' = [step EXCEPT !.at = "replace", !.keep = Ahead(Stale \ gone)]
        BY <1>5 DEF StaleDeleted
    <2>2. PICK gone \in SUBSET done : step' = [step EXCEPT !.at = "replace", !.keep = Ahead(Stale \ gone)]
        BY <2>1
    <2>3. Ahead(Stale \ gone) \subseteq Starts
        BY <1>a DEF Ahead, Stale, IsStep
    <2> QED BY <1>a, <2>2, <2>3 DEF IsStep, WithToken
<1>6. CASE SegmentsReplaced
    <2>1. step' = [step EXCEPT !.at = "book"]
        BY <1>6 DEF SegmentsReplaced
    <2> QED BY <1>a, <2>1 DEF IsStep, WithToken
<1>7. CASE ScheduleBooked
    BY <1>7 DEF ScheduleBooked, WithToken
<1>8. CASE LiveReads
    <2>1. CASE Goes("rest")
        BY <2>1 DEF WithToken
    <2>2. CASE step' = [AtRest EXCEPT !.at = "polling", !.inner = identity]
        BY <1>a, <2>2 DEF IsStep, WithToken
    <2> QED BY <1>8, <2>1, <2>2 DEF LiveReads
<1>9. CASE LiveAnswered
    BY <1>9 DEF LiveAnswered, WithToken
<1>10. CASE WorkerRestarts
    BY <1>10 DEF WorkerRestarts, WithToken
<1> QED BY <1>1, <1>2, <1>3, <1>4, <1>5, <1>6, <1>7, <1>8, <1>9, <1>10


\* Every write of a row of the connection writes one that makes sense.
LEMMA RowsAreWritten ==
    ASSUME KnownInv, RowsInv, [TwNext]_twVars
    PROVE  IsIdentity(identity') /\ IsOwner(owner')
<1> USE TwitchAssumption DEF TwitchAssumption
<1> HIDE DEF IsIdentity, IsOwner
<1>a. IsStep(step) /\ IsIdentity(identity) /\ IsOwner(owner) /\ twitch.issued \in 0..MaxIssued
      /\ "issued" \in DOMAIN twitch
    BY DEF RowsInv, Listed, KnownInv, Shapes
<1>b. IsIdentity(step.seen) /\ IsIdentity(step.inner) /\ IsOwner(step.own)
    BY <1>a DEF IsStep
<1>c. ASSUME twitch.issued < MaxIssued, twitch' = [twitch EXCEPT !.issued = @ + 1]
      PROVE  twitch'.issued \in 1..MaxIssued
    BY <1>a, <1>c
<1>1. CASE HealAnswered
    <2>1. step.seen.token # 0
        BY <1>a, <1>1 DEF HealAnswered, IsStep, WithToken
    <2>2. IsIdentity([step.seen EXCEPT !.status = "connected", !.refused = FALSE])
        BY <1>b, <2>1 DEF IsIdentity
    <2> QED BY <1>a, <1>1, <2>2 DEF HealAnswered
<1>2. CASE Refreshed
    BY <1>a, <1>b, <1>c, <1>2, ConnectedRows DEF Refreshed
<1>3. CASE RefusalMarked
    BY <1>a, <1>b, <1>3 DEF RefusalMarked, IsIdentity
<1>4. CASE SlotRefreshed
    BY <1>a, <1>b, <1>c, <1>4, ConnectedRows DEF SlotRefreshed
<1>5. CASE RecordSync
    <2>1. step.seen.token # 0
        BY <1>a, <1>5 DEF RecordSync, IsStep, WithToken
    <2>2. IsIdentity(Recorded(step.seen))
        BY <1>b, <2>1 DEF IsIdentity, Recorded
    <2> QED BY <1>a, <1>5, <2>2 DEF RecordSync
<1>6. CASE ScheduleBooked
    BY <1>a, <1>b, <1>6 DEF ScheduleBooked, IsIdentity
<1>7. CASE LiveAnswered
    <2>1. \A live : IsIdentity([step.inner EXCEPT !.live = live])
        BY <1>b DEF IsIdentity
    <2> QED BY <1>a, <1>7, <2>1 DEF LiveAnswered
<1>8. CASE ConnectBot
    BY <1>a, <1>c, <1>8, ConnectedRows DEF ConnectBot
<1>9. CASE ConnectOwner
    BY <1>a, <1>c, <1>9, ConnectedRows, NoRows DEF ConnectOwner
<1>10. CASE DisconnectOwner
    BY <1>a, <1>10, NoRows DEF DisconnectOwner
<1>11. CASE ConnectFails
    BY <1>a, <1>11 DEF ConnectFails, IsIdentity
<1>12. CASE \/ BeginTwitchCycle \/ ReadForReconcile \/ PassGate
            \/ RefreshReads \/ RefreshFailed \/ RefusalReads \/ SlotReads \/ SlotFailed
            \/ TitleLeft \/ TitleAnswered \/ ChatAnswered
    BY <1>a, <1>12 DEF BeginTwitchCycle, ReadForReconcile, PassGate, RefreshReads, RefreshFailed, RefusalReads,
           SlotReads, SlotFailed, TitleLeft, TitleAnswered, ChatAnswered
<1>13. CASE \/ ScheduleReads \/ SegmentWritten \/ SegmentRefused \/ SegmentAnswerLost
            \/ StaleDeleted \/ SegmentsReplaced \/ LiveReads
    BY <1>a, <1>13 DEF ScheduleReads, SegmentWritten, SegmentRefused, SegmentAnswerLost, StaleDeleted,
           SegmentsReplaced, LiveReads
<1>14. CASE TwitchTick \/ WorkerRestarts \/ TitleChanges \/ PlanChanges \/ DeletedByHand \/ UNCHANGED twVars
    BY <1>a, <1>14 DEF TwitchTick, WorkerRestarts, TitleChanges, PlanChanges, DeletedByHand, twVars
<1> QED BY <1>1, <1>2, <1>3, <1>4, <1>5, <1>6, <1>7, <1>8, <1>9, <1>10, <1>11, <1>12, <1>13, <1>14
        DEF TwNext

\* What Twitch makes for a window is numbered, and the stored list is of planned windows.
LEMMA ListsAreWritten ==
    ASSUME KnownInv, RowsInv, [TwNext]_twVars
    PROVE  Listed'
<1> USE TwitchAssumption DEF TwitchAssumption
<1>a. IsStep(step) /\ Listed /\ {"title", "segments", "issued"} \subseteq DOMAIN twitch
      /\ {"title", "plan"} \subseteq DOMAIN wish
    BY DEF RowsInv, KnownInv, Shapes
<1>b. ASSUME twitch.issued < MaxIssued, twitch' = [twitch EXCEPT !.issued = @ + 1], hour' = hour,
             segments' = segments, wish' = wish
      PROVE  Listed'
    BY <1>a, <1>b DEF Listed
<1>c. ASSUME NEW k \in Starts, NEW id \in 1..MaxIssued
      PROVE  /\ TwitchWith(k, id).segments \subseteq Starts \X (1..MaxIssued)
             /\ TwitchWith(k, id).issued \in 0..MaxIssued
    <2>1. /\ TwitchWith(k, id).segments = twitch.segments \cup {<<k, id>>}
          /\ TwitchWith(k, id).issued = IF id > twitch.issued THEN id ELSE twitch.issued
        BY <1>a DEF TwitchWith
    <2> QED BY <1>a, <2>1 DEF Listed
<1>1. CASE Refreshed \/ SlotRefreshed \/ ConnectBot \/ ConnectOwner
    BY <1>1, <1>b DEF Refreshed, SlotRefreshed, ConnectBot, ConnectOwner
<1>2. CASE TitleAnswered
    <2>1. twitch' = twitch \/ twitch' = [twitch EXCEPT !.title = step.wanted]
        BY <1>2 DEF TitleAnswered
    <2> QED BY <1>a, <1>2, <2>1 DEF TitleAnswered, Listed
<1>3. CASE SegmentWritten
    <2>1. NextKey \in step.todo /\ step.todo # {}
        BY <1>3, LeastIsOne DEF KnownInv, Underway, SegmentWritten, NextKey
    <2>2. NextKey \in Starts
        BY <1>a, <2>1 DEF IsStep
    <2>3. IdAfter(NextKey) \in 1..MaxIssued
        BY <1>a, <1>3 DEF SegmentWritten, IdAfter, Listed
    <2>4. /\ twitch' = TwitchWith(NextKey, IdAfter(NextKey)) /\ hour' = hour /\ wish' = wish
          /\ segments' = Entered(segments, NextKey, IdAfter(NextKey))
        BY <1>3 DEF SegmentWritten, StoredAtOnce
    <2>5. DOMAIN segments' = DOMAIN segments \cup {NextKey}
        BY <2>4 DEF Entered
    <2>6. /\ TwitchWith(NextKey, IdAfter(NextKey)).segments \subseteq Starts \X (1..MaxIssued)
          /\ TwitchWith(NextKey, IdAfter(NextKey)).issued \in 0..MaxIssued
        BY <1>c, <2>2, <2>3
    <2> HIDE DEF TwitchWith, NextKey, IdAfter
    <2> QED BY <1>a, <2>2, <2>4, <2>5, <2>6 DEF Listed
<1>4. CASE SegmentAnswerLost
    <2>1. step.at = "segments"
        BY <1>4 DEF SegmentAnswerLost
    <2>2. NextKey \in Starts
        BY <1>a, <2>1, LeastIsOne DEF KnownInv, Underway, NextKey, IsStep
    <2>3. twitch.issued + 1 \in 1..MaxIssued /\ twitch' = TwitchWith(NextKey, twitch.issued + 1)
          /\ hour' = hour /\ wish' = wish /\ segments' = segments
        BY <1>a, <1>4 DEF SegmentAnswerLost, Listed
    <2> HIDE DEF TwitchWith, NextKey
    <2> QED BY <1>a, <1>c, <2>2, <2>3 DEF Listed
<1>5. CASE StaleDeleted
    <2>1. PICK gone : twitch' = [twitch EXCEPT !.segments = @ \ gone]
        BY <1>5 DEF StaleDeleted
    <2> QED BY <1>a, <1>5, <2>1 DEF StaleDeleted, Listed
<1>6. CASE SegmentsReplaced
    <2>1. DOMAIN segments' = DOMAIN step.made \cup step.keep
        BY <1>6 DEF SegmentsReplaced
    <2> QED BY <1>a, <1>6, <2>1 DEF SegmentsReplaced, Listed, IsStep
<1>7. CASE DeletedByHand
    <2>1. PICK s \in twitch.segments : twitch' = [twitch EXCEPT !.segments = @ \ {s}]
        BY <1>7 DEF DeletedByHand
    <2> QED BY <1>a, <1>7, <2>1 DEF DeletedByHand, Listed
<1>8. CASE TitleChanges
    <2>1. PICK title : wish' = [wish EXCEPT !.title = title]
        BY <1>8 DEF TitleChanges
    <2> QED BY <1>a, <1>8, <2>1 DEF TitleChanges, Listed
<1>9. CASE PlanChanges
    <2>1. PICK plan \in SUBSET Starts : wish' = [wish EXCEPT !.plan = plan]
        BY <1>9 DEF PlanChanges
    <2> QED BY <1>a, <1>9, <2>1 DEF PlanChanges, Listed
<1>10. CASE TwitchTick
    BY <1>a, <1>10 DEF TwitchTick, Listed
<1>11. CASE \/ BeginTwitchCycle \/ HealAnswered \/ ReadForReconcile \/ PassGate
            \/ RefreshReads \/ RefreshFailed \/ RefusalReads \/ RefusalMarked
            \/ SlotReads \/ SlotFailed \/ TitleLeft \/ ChatAnswered \/ RecordSync
    <2>1. UNCHANGED <<hour, segments, twitch, wish>>
        BY <1>11 DEF BeginTwitchCycle, HealAnswered, ReadForReconcile, PassGate, RefreshReads, RefreshFailed,
               RefusalReads, RefusalMarked, SlotReads, SlotFailed, TitleLeft, ChatAnswered, RecordSync
    <2> QED BY <1>a, <2>1 DEF Listed
<1>12. CASE \/ ScheduleReads \/ SegmentRefused \/ ScheduleBooked \/ LiveReads \/ LiveAnswered
            \/ WorkerRestarts \/ DisconnectOwner \/ ConnectFails \/ UNCHANGED twVars
    <2>1. UNCHANGED <<hour, segments, twitch, wish>>
        BY <1>12 DEF ScheduleReads, SegmentRefused, ScheduleBooked, LiveReads, LiveAnswered, WorkerRestarts,
               DisconnectOwner, ConnectFails, twVars
    <2> QED BY <1>a, <2>1 DEF Listed
<1> QED BY <1>1, <1>2, <1>3, <1>4, <1>5, <1>6, <1>7, <1>8, <1>9, <1>10, <1>11, <1>12 DEF TwNext

LEMMA RowsNext ==
    ASSUME KnownInv, RowsInv, [TwNext]_twVars
    PROVE  RowsInv'
<1>1. IsStep(step')
    <2>1. CASE \/ BeginTwitchCycle \/ HealAnswered \/ ReadForReconcile \/ PassGate
               \/ RefreshReads \/ Refreshed \/ RefreshFailed \/ RefusalReads \/ RefusalMarked
               \/ SlotReads \/ SlotRefreshed \/ SlotFailed
               \/ TitleLeft \/ TitleAnswered \/ ChatAnswered \/ RecordSync
        BY <2>1, CycleHoldsRows
    <2>2. CASE \/ ScheduleReads \/ SegmentWritten \/ SegmentRefused \/ SegmentAnswerLost
               \/ StaleDeleted \/ SegmentsReplaced \/ ScheduleBooked \/ LiveReads \/ LiveAnswered
               \/ WorkerRestarts
        BY <2>2, SyncHoldsRows
    <2>3. CASE \/ TwitchTick \/ ConnectBot \/ ConnectOwner \/ DisconnectOwner
               \/ ConnectFails \/ TitleChanges \/ PlanChanges \/ DeletedByHand \/ UNCHANGED twVars
        <3>1. step' = step
            BY <2>3 DEF TwitchTick, ConnectBot, ConnectOwner, DisconnectOwner, ConnectFails, TitleChanges,
                   PlanChanges, DeletedByHand, twVars
        <3> QED BY <3>1 DEF RowsInv
    <2> QED BY <2>1, <2>2, <2>3 DEF TwNext
<1>2. IsIdentity(identity') /\ IsOwner(owner') /\ Listed'
    BY RowsAreWritten, ListsAreWritten
<1> QED BY <1>1, <1>2 DEF RowsInv, IsIdentity, IsOwner, IsStep

\* The two rows of the connection make sense whatever fails between the reads, the requests and the
\* writes of a cycle: a row that says connected has a token, so the steps that go by it have one to ask
\* with; a refusal is only on a row in error, which the next heal therefore leaves alone; and the stored
\* list and Twitch's are of planned windows (healTwitchConnection, reconcileTwitch, markIdentityRefreshRefused,
\* refreshBroadcasterSlotAccessToken, syncTwitchSchedule).
THEOREM TwitchTypeCorrect == TwSpec => []TwTypeOK
<1>1. TwInit => KnownInv /\ RowsInv
    <2> SUFFICES ASSUME TwInit PROVE RowsInv
        BY KnownInit
    <2>1. IsIdentity(identity)
        BY NoRows, ConnectedRows, TwitchAssumption DEF TwInit, TwitchAssumption
    <2>2. IsOwner(owner)
        <3>1. owner = NoOwner \/ owner = Connected(NoOwner, 2)
            BY Zenon DEF TwInit
        <3>2. 2 \in 1..MaxIssued
            BY TwitchAssumption DEF TwitchAssumption
        <3> QED BY <3>1, <3>2, NoRows, ConnectedRows
    <2>3. IsStep(step)
        BY NoRows DEF TwInit
    <2>4. /\ hour = 1 /\ segments = <<>> /\ twitch = [title |-> Nothing, segments |-> {}, issued |-> 2]
          /\ wish \in [title : Titles, plan : {Starts}]
        BY DEF TwInit
    <2>5. Listed
        BY <2>4, TwitchAssumption DEF Listed, TwitchAssumption
    <2> QED BY <2>1, <2>2, <2>3, <2>5 DEF RowsInv
<1>2. KnownInv /\ RowsInv /\ [TwNext]_twVars => (KnownInv /\ RowsInv)'
    BY KnownNext, RowsNext
<1>3. KnownInv /\ RowsInv => TwTypeOK
    <2> SUFFICES ASSUME RowsInv PROVE TwTypeOK
        OBVIOUS
    <2> QED BY DEF RowsInv, Listed, IsIdentity, IsOwner, IsStep, TwTypeOK
<1> QED BY <1>1, <1>2, <1>3, PTL DEF TwSpec

---------------------------------------------------------------------------
(* The migrations, one by one *)

\* The chunks that Migrations puts together, each with its length and where it starts.
AllRows == {Baseline} \cup {LibraryAndFeed[i] : i \in 1..5} \cup {OutputAndEngagement[i] : i \in 1..5}
           \cup {PresenceAndChat[i] : i \in 1..5} \cup {GamesAndVotes[i] : i \in 1..4}
           \cup {SourcesAndSecrets[i] : i \in 1..6} \cup {ScenesAndRepairs[i] : i \in 1..4}
           \cup {ProbeAndRotation[i] : i \in 1..6} \cup {DatesAndReplies[i] : i \in 1..7}

LEMMA RowLists ==
    ASSUME NEW S
    PROVE  /\ \A a, b, c, d \in S : <<a, b, c, d>> \in Seq(S) /\ Len(<<a, b, c, d>>) = 4
           /\ \A a, b, c, d, e \in S : <<a, b, c, d, e>> \in Seq(S) /\ Len(<<a, b, c, d, e>>) = 5
           /\ \A a, b, c, d, e, f \in S :
                 <<a, b, c, d, e, f>> \in Seq(S) /\ Len(<<a, b, c, d, e, f>>) = 6
           /\ \A a, b, c, d, e, f, g \in S :
                 <<a, b, c, d, e, f, g>> \in Seq(S) /\ Len(<<a, b, c, d, e, f, g>>) = 7
OBVIOUS

LEMMA ChunkLists ==
    /\ LibraryAndFeed \in Seq(AllRows) /\ Len(LibraryAndFeed) = 5
    /\ OutputAndEngagement \in Seq(AllRows) /\ Len(OutputAndEngagement) = 5
    /\ PresenceAndChat \in Seq(AllRows) /\ Len(PresenceAndChat) = 5
    /\ GamesAndVotes \in Seq(AllRows) /\ Len(GamesAndVotes) = 4
    /\ SourcesAndSecrets \in Seq(AllRows) /\ Len(SourcesAndSecrets) = 6
    /\ ScenesAndRepairs \in Seq(AllRows) /\ Len(ScenesAndRepairs) = 4
    /\ ProbeAndRotation \in Seq(AllRows) /\ Len(ProbeAndRotation) = 6
    /\ DatesAndReplies \in Seq(AllRows) /\ Len(DatesAndReplies) = 7
<1>1. LibraryAndFeed \in Seq(AllRows) /\ Len(LibraryAndFeed) = 5
    <2> DEFINE m(i) == LibraryAndFeed[i]
    <2>1. LibraryAndFeed = <<m(1), m(2), m(3), m(4), m(5)>>
        BY DEF LibraryAndFeed
    <2>2. \A i \in 1..5 : m(i) \in AllRows
        BY DEF AllRows
    <2> HIDE DEF m
    <2> QED BY <2>1, <2>2, RowLists
<1>2. OutputAndEngagement \in Seq(AllRows) /\ Len(OutputAndEngagement) = 5
    <2> DEFINE m(i) == OutputAndEngagement[i]
    <2>1. OutputAndEngagement = <<m(1), m(2), m(3), m(4), m(5)>>
        BY DEF OutputAndEngagement
    <2>2. \A i \in 1..5 : m(i) \in AllRows
        BY DEF AllRows
    <2> HIDE DEF m
    <2> QED BY <2>1, <2>2, RowLists
<1>3. PresenceAndChat \in Seq(AllRows) /\ Len(PresenceAndChat) = 5
    <2> DEFINE m(i) == PresenceAndChat[i]
    <2>1. PresenceAndChat = <<m(1), m(2), m(3), m(4), m(5)>>
        BY DEF PresenceAndChat
    <2>2. \A i \in 1..5 : m(i) \in AllRows
        BY DEF AllRows
    <2> HIDE DEF m
    <2> QED BY <2>1, <2>2, RowLists
<1>4. GamesAndVotes \in Seq(AllRows) /\ Len(GamesAndVotes) = 4
    <2> DEFINE m(i) == GamesAndVotes[i]
    <2>1. GamesAndVotes = <<m(1), m(2), m(3), m(4)>>
        BY DEF GamesAndVotes
    <2>2. \A i \in 1..4 : m(i) \in AllRows
        BY DEF AllRows
    <2> HIDE DEF m
    <2> QED BY <2>1, <2>2, RowLists
<1>5. SourcesAndSecrets \in Seq(AllRows) /\ Len(SourcesAndSecrets) = 6
    <2> DEFINE m(i) == SourcesAndSecrets[i]
    <2>1. SourcesAndSecrets = <<m(1), m(2), m(3), m(4), m(5), m(6)>>
        BY DEF SourcesAndSecrets
    <2>2. \A i \in 1..6 : m(i) \in AllRows
        BY DEF AllRows
    <2> HIDE DEF m
    <2> QED BY <2>1, <2>2, RowLists
<1>6. ScenesAndRepairs \in Seq(AllRows) /\ Len(ScenesAndRepairs) = 4
    <2> DEFINE m(i) == ScenesAndRepairs[i]
    <2>1. ScenesAndRepairs = <<m(1), m(2), m(3), m(4)>>
        BY DEF ScenesAndRepairs
    <2>2. \A i \in 1..4 : m(i) \in AllRows
        BY DEF AllRows
    <2> HIDE DEF m
    <2> QED BY <2>1, <2>2, RowLists
<1>7. ProbeAndRotation \in Seq(AllRows) /\ Len(ProbeAndRotation) = 6
    <2> DEFINE m(i) == ProbeAndRotation[i]
    <2>1. ProbeAndRotation = <<m(1), m(2), m(3), m(4), m(5), m(6)>>
        BY DEF ProbeAndRotation
    <2>2. \A i \in 1..6 : m(i) \in AllRows
        BY DEF AllRows
    <2> HIDE DEF m
    <2> QED BY <2>1, <2>2, RowLists
<1>8. DatesAndReplies \in Seq(AllRows) /\ Len(DatesAndReplies) = 7
    <2> DEFINE m(i) == DatesAndReplies[i]
    <2>1. DatesAndReplies = <<m(1), m(2), m(3), m(4), m(5), m(6), m(7)>>
        BY DEF DatesAndReplies
    <2>2. \A i \in 1..7 : m(i) \in AllRows
        BY DEF AllRows
    <2> HIDE DEF m
    <2> QED BY <2>1, <2>2, RowLists
<1> QED BY <1>1, <1>2, <1>3, <1>4, <1>5, <1>6, <1>7, <1>8

\* A list of n migrations; one that has the elements of another from some place on.
IsList(s, n) == s \in Seq(AllRows) /\ Len(s) = n
HasAt(s, o, t, n) == \A i \in 1..n : s[o + i] = t[i]

\* What is put together: the second part stands behind the first, which stays where it was.
LEMMA PutTogether ==
    ASSUME NEW s, NEW t, NEW m \in Nat, NEW n \in Nat, IsList(s, m), IsList(t, n)
    PROVE  /\ IsList(s \o t, m + n) /\ HasAt(s \o t, m, t, n)
           /\ m > 0 => (s \o t)[1] = s[1]
           /\ \A u : \A o, k \in Nat : o + k <= m /\ HasAt(s, o, u, k) => HasAt(s \o t, o, u, k)
<1> DEFINE r == s \o t
<1>0. s \in Seq(AllRows) /\ t \in Seq(AllRows) /\ Len(s) = m /\ Len(t) = n
    BY DEF IsList
<1>1. r \in Seq(AllRows) /\ Len(r) = Len(s) + Len(t)
    BY ONLY <1>0
<1>2. \A i \in 1..Len(s) : r[i] = s[i]
    BY ONLY <1>0
<1>3. \A i \in 1..Len(t) : r[Len(s) + i] = t[i]
    BY ONLY <1>0
<1> HIDE DEF r
<1>4. /\ r \in Seq(AllRows) /\ Len(r) = m + n
      /\ \A i \in 1..m : r[i] = s[i]
      /\ \A i \in 1..n : r[m + i] = t[i]
    BY ONLY <1>0, <1>1, <1>2, <1>3
<1>5. ASSUME NEW u, NEW o \in Nat, NEW k \in Nat, o + k <= m, HasAt(s, o, u, k)
      PROVE  HasAt(r, o, u, k)
    <2> SUFFICES ASSUME NEW i \in 1..k PROVE r[o + i] = u[i]
        BY DEF HasAt
    <2>1. o + i \in 1..m
        BY <1>5
    <2> QED BY <1>4, <1>5, <2>1 DEF HasAt
<1>6. IsList(r, m + n) /\ HasAt(r, m, t, n) /\ (m > 0 => r[1] = s[1])
    <2>1. m > 0 => r[1] = s[1]
        BY ONLY <1>4, m \in Nat
    <2> QED BY <1>4, <2>1 DEF IsList, HasAt
<1> QED BY <1>5, <1>6 DEF r

\* Where each chunk stands: the numbers by which the migrations are recorded.
LEMMA MigrationNumbers ==
    /\ Latest = 43 /\ Migrations[1] = Baseline
    /\ HasAt(Migrations, 1, LibraryAndFeed, 5)
    /\ HasAt(Migrations, 6, OutputAndEngagement, 5)
    /\ HasAt(Migrations, 11, PresenceAndChat, 5)
    /\ HasAt(Migrations, 16, GamesAndVotes, 4)
    /\ HasAt(Migrations, 20, SourcesAndSecrets, 6)
    /\ HasAt(Migrations, 26, ScenesAndRepairs, 4)
    /\ HasAt(Migrations, 30, ProbeAndRotation, 6)
    /\ HasAt(Migrations, 36, DatesAndReplies, 7)
<1> DEFINE s0 == <<Baseline>>
           s1 == s0 \o LibraryAndFeed
           s2 == s1 \o OutputAndEngagement
           s3 == s2 \o PresenceAndChat
           s4 == s3 \o GamesAndVotes
           s5 == s4 \o SourcesAndSecrets
           s6 == s5 \o ScenesAndRepairs
           s7 == s6 \o ProbeAndRotation
           s8 == s7 \o DatesAndReplies
<1>0. IsList(s0, 1) /\ s0[1] = Baseline
    BY DEF AllRows, IsList
<1> HIDE DEF s0
<1>c. /\ IsList(LibraryAndFeed, 5) /\ IsList(OutputAndEngagement, 5) /\ IsList(PresenceAndChat, 5) /\ IsList(GamesAndVotes, 4)
      /\ IsList(SourcesAndSecrets, 6) /\ IsList(ScenesAndRepairs, 4) /\ IsList(ProbeAndRotation, 6) /\ IsList(DatesAndReplies, 7)
    BY ChunkLists DEF IsList
<1>1. /\ IsList(s1, 6) /\ s1[1] = Baseline
      /\ HasAt(s1, 1, LibraryAndFeed, 5)
    <2>1. /\ IsList(s1, 1 + 5) /\ HasAt(s1, 1, LibraryAndFeed, 5)
          /\ 1 > 0 => s1[1] = s0[1]
          /\ \A u : \A p, j \in Nat : p + j <= 1 /\ HasAt(s0, p, u, j) => HasAt(s1, p, u, j)
        <3>1. IsList(s0, 1) /\ IsList(LibraryAndFeed, 5) /\ 1 \in Nat /\ 5 \in Nat
            BY <1>0, <1>c
        <3> QED BY ONLY <3>1, PutTogether
    <2> HIDE DEF s1
    <2> QED BY ONLY <1>0, <2>1
<1> HIDE DEF s1
<1>2. /\ IsList(s2, 11) /\ s2[1] = Baseline
      /\ HasAt(s2, 1, LibraryAndFeed, 5)
      /\ HasAt(s2, 6, OutputAndEngagement, 5)
    <2>1. /\ IsList(s2, 6 + 5) /\ HasAt(s2, 6, OutputAndEngagement, 5)
          /\ 6 > 0 => s2[1] = s1[1]
          /\ \A u : \A p, j \in Nat : p + j <= 6 /\ HasAt(s1, p, u, j) => HasAt(s2, p, u, j)
        <3>1. IsList(s1, 6) /\ IsList(OutputAndEngagement, 5) /\ 6 \in Nat /\ 5 \in Nat
            BY <1>1, <1>c
        <3> QED BY ONLY <3>1, PutTogether
    <2> HIDE DEF s2
    <2> QED BY ONLY <1>1, <2>1
<1> HIDE DEF s2
<1>3. /\ IsList(s3, 16) /\ s3[1] = Baseline
      /\ HasAt(s3, 1, LibraryAndFeed, 5)
      /\ HasAt(s3, 6, OutputAndEngagement, 5)
      /\ HasAt(s3, 11, PresenceAndChat, 5)
    <2>1. /\ IsList(s3, 11 + 5) /\ HasAt(s3, 11, PresenceAndChat, 5)
          /\ 11 > 0 => s3[1] = s2[1]
          /\ \A u : \A p, j \in Nat : p + j <= 11 /\ HasAt(s2, p, u, j) => HasAt(s3, p, u, j)
        <3>1. IsList(s2, 11) /\ IsList(PresenceAndChat, 5) /\ 11 \in Nat /\ 5 \in Nat
            BY <1>2, <1>c
        <3> QED BY ONLY <3>1, PutTogether
    <2> HIDE DEF s3
    <2> QED BY ONLY <1>2, <2>1
<1> HIDE DEF s3
<1>4. /\ IsList(s4, 20) /\ s4[1] = Baseline
      /\ HasAt(s4, 1, LibraryAndFeed, 5)
      /\ HasAt(s4, 6, OutputAndEngagement, 5)
      /\ HasAt(s4, 11, PresenceAndChat, 5)
      /\ HasAt(s4, 16, GamesAndVotes, 4)
    <2>1. /\ IsList(s4, 16 + 4) /\ HasAt(s4, 16, GamesAndVotes, 4)
          /\ 16 > 0 => s4[1] = s3[1]
          /\ \A u : \A p, j \in Nat : p + j <= 16 /\ HasAt(s3, p, u, j) => HasAt(s4, p, u, j)
        <3>1. IsList(s3, 16) /\ IsList(GamesAndVotes, 4) /\ 16 \in Nat /\ 4 \in Nat
            BY <1>3, <1>c
        <3> QED BY ONLY <3>1, PutTogether
    <2> HIDE DEF s4
    <2> QED BY ONLY <1>3, <2>1
<1> HIDE DEF s4
<1>5. /\ IsList(s5, 26) /\ s5[1] = Baseline
      /\ HasAt(s5, 1, LibraryAndFeed, 5)
      /\ HasAt(s5, 6, OutputAndEngagement, 5)
      /\ HasAt(s5, 11, PresenceAndChat, 5)
      /\ HasAt(s5, 16, GamesAndVotes, 4)
      /\ HasAt(s5, 20, SourcesAndSecrets, 6)
    <2>1. /\ IsList(s5, 20 + 6) /\ HasAt(s5, 20, SourcesAndSecrets, 6)
          /\ 20 > 0 => s5[1] = s4[1]
          /\ \A u : \A p, j \in Nat : p + j <= 20 /\ HasAt(s4, p, u, j) => HasAt(s5, p, u, j)
        <3>1. IsList(s4, 20) /\ IsList(SourcesAndSecrets, 6) /\ 20 \in Nat /\ 6 \in Nat
            BY <1>4, <1>c
        <3> QED BY ONLY <3>1, PutTogether
    <2> HIDE DEF s5
    <2> QED BY ONLY <1>4, <2>1
<1> HIDE DEF s5
<1>6. /\ IsList(s6, 30) /\ s6[1] = Baseline
      /\ HasAt(s6, 1, LibraryAndFeed, 5)
      /\ HasAt(s6, 6, OutputAndEngagement, 5)
      /\ HasAt(s6, 11, PresenceAndChat, 5)
      /\ HasAt(s6, 16, GamesAndVotes, 4)
      /\ HasAt(s6, 20, SourcesAndSecrets, 6)
      /\ HasAt(s6, 26, ScenesAndRepairs, 4)
    <2>1. /\ IsList(s6, 26 + 4) /\ HasAt(s6, 26, ScenesAndRepairs, 4)
          /\ 26 > 0 => s6[1] = s5[1]
          /\ \A u : \A p, j \in Nat : p + j <= 26 /\ HasAt(s5, p, u, j) => HasAt(s6, p, u, j)
        <3>1. IsList(s5, 26) /\ IsList(ScenesAndRepairs, 4) /\ 26 \in Nat /\ 4 \in Nat
            BY <1>5, <1>c
        <3> QED BY ONLY <3>1, PutTogether
    <2> HIDE DEF s6
    <2> QED BY ONLY <1>5, <2>1
<1> HIDE DEF s6
<1>7. /\ IsList(s7, 36) /\ s7[1] = Baseline
      /\ HasAt(s7, 1, LibraryAndFeed, 5)
      /\ HasAt(s7, 6, OutputAndEngagement, 5)
      /\ HasAt(s7, 11, PresenceAndChat, 5)
      /\ HasAt(s7, 16, GamesAndVotes, 4)
      /\ HasAt(s7, 20, SourcesAndSecrets, 6)
      /\ HasAt(s7, 26, ScenesAndRepairs, 4)
      /\ HasAt(s7, 30, ProbeAndRotation, 6)
    <2>1. /\ IsList(s7, 30 + 6) /\ HasAt(s7, 30, ProbeAndRotation, 6)
          /\ 30 > 0 => s7[1] = s6[1]
          /\ \A u : \A p, j \in Nat : p + j <= 30 /\ HasAt(s6, p, u, j) => HasAt(s7, p, u, j)
        <3>1. IsList(s6, 30) /\ IsList(ProbeAndRotation, 6) /\ 30 \in Nat /\ 6 \in Nat
            BY <1>6, <1>c
        <3> QED BY ONLY <3>1, PutTogether
    <2> HIDE DEF s7
    <2> QED BY ONLY <1>6, <2>1
<1> HIDE DEF s7
<1>8. /\ IsList(s8, 43) /\ s8[1] = Baseline
      /\ HasAt(s8, 1, LibraryAndFeed, 5)
      /\ HasAt(s8, 6, OutputAndEngagement, 5)
      /\ HasAt(s8, 11, PresenceAndChat, 5)
      /\ HasAt(s8, 16, GamesAndVotes, 4)
      /\ HasAt(s8, 20, SourcesAndSecrets, 6)
      /\ HasAt(s8, 26, ScenesAndRepairs, 4)
      /\ HasAt(s8, 30, ProbeAndRotation, 6)
      /\ HasAt(s8, 36, DatesAndReplies, 7)
    <2>1. /\ IsList(s8, 36 + 7) /\ HasAt(s8, 36, DatesAndReplies, 7)
          /\ 36 > 0 => s8[1] = s7[1]
          /\ \A u : \A p, j \in Nat : p + j <= 36 /\ HasAt(s7, p, u, j) => HasAt(s8, p, u, j)
        <3>1. IsList(s7, 36) /\ IsList(DatesAndReplies, 7) /\ 36 \in Nat /\ 7 \in Nat
            BY <1>7, <1>c
        <3> QED BY ONLY <3>1, PutTogether
    <2> HIDE DEF s8
    <2> QED BY ONLY <1>7, <2>1
<1> HIDE DEF s8
<1>9. Migrations = s8
    BY DEF Migrations, s0, s1, s2, s3, s4, s5, s6, s7, s8
<1> QED BY <1>8, <1>9 DEF Latest, IsList

---------------------------------------------------------------------------
(* What a migration after the baseline may do *)

\* The tables that migrations alter, and the last migration that creates such a table.
Altered == {"playout_runtime", "assets", "engagement_settings", "stream_destinations", "twitch_connection",
            "presence_windows", "overlay_video_sources", "overlay_settings", "overlay_drafts", "pools",
            "schedule_blocks", "chat_interaction_settings", "as_run_log", "team_access_grants"}
MadeBy(table) == CASE table = "engagement_settings" -> 8
                   [] table = "chat_interaction_settings" -> 15
                   [] table = "overlay_video_sources" -> 22
                   [] table = "as_run_log" -> 34
                   [] OTHER -> 1

\* A migration creates tables with no column that another does not add as well, alters a table only after
\* the last migration that creates it, and the one whose number came late creates none that is altered.
RowFits(m, i) ==
    /\ \A c \in m.creates : c = <<c[1], "own">> \/ (i = 8 /\ c = <<"engagement_settings", "alerts">>)
    /\ \A c \in m.adds : c[2] # "own" /\ c[1] \in Altered /\ MadeBy(c[1]) <= i
    /\ \A c \in m.creates : c[2] = "own" /\ c[1] \in Altered => i <= MadeBy(c[1]) /\ i # LateNumbered

LEMMA CreatesFits ==
    ASSUME NEW tables, NEW i \in Nat,
           \A t \in tables : t \in Altered => i <= MadeBy(t) /\ i # LateNumbered
    PROVE  RowFits(Creates(tables), i)
<1>1. \A c \in Own(tables) : c = <<c[1], "own">> /\ c[1] \in tables
    BY DEF Own
<1> QED BY <1>1 DEF RowFits, Creates

LEMMA AddsFit ==
    ASSUME NEW columns, NEW i \in Nat,
           \A c \in columns : c[2] # "own" /\ c[1] \in Altered /\ MadeBy(c[1]) <= i
    PROVE  RowFits(Adds(columns), i)
BY DEF RowFits, Adds

LEMMA TouchesFit == \A i : RowFits(Touches, i)
BY DEF RowFits, Touches

LEMMA LibraryAndFeedFit == \A i \in 1..5 : RowFits(LibraryAndFeed[i], 1 + i)
<1>1. RowFits(LibraryAndFeed[1], 2)
    BY CreatesFits DEF LibraryAndFeed, Altered, MadeBy, LateNumbered
<1>2. RowFits(LibraryAndFeed[2], 3)
    BY CreatesFits DEF LibraryAndFeed, Altered, MadeBy, LateNumbered
<1>3. RowFits(LibraryAndFeed[3], 4)
    BY AddsFit DEF LibraryAndFeed, Altered, MadeBy
<1>4. RowFits(LibraryAndFeed[4], 5)
    BY AddsFit DEF LibraryAndFeed, Altered, MadeBy
<1>5. RowFits(LibraryAndFeed[5], 6)
    BY AddsFit DEF LibraryAndFeed, Altered, MadeBy
<1> HIDE DEF RowFits
<1> QED BY <1>1, <1>2, <1>3, <1>4, <1>5

LEMMA OutputAndEngagementFit == \A i \in 1..5 : RowFits(OutputAndEngagement[i], 6 + i)
<1>1. RowFits(OutputAndEngagement[1], 7)
    BY CreatesFits DEF OutputAndEngagement, Altered, MadeBy, LateNumbered
<1>2. RowFits(OutputAndEngagement[2], 8)
    BY DEF OutputAndEngagement, RowFits, Own, Altered, MadeBy, LateNumbered
<1>3. RowFits(OutputAndEngagement[3], 9)
    BY AddsFit DEF OutputAndEngagement, Altered, MadeBy
<1>4. RowFits(OutputAndEngagement[4], 10)
    BY DEF OutputAndEngagement, RowFits, Own, Altered, MadeBy, LateNumbered
<1>5. RowFits(OutputAndEngagement[5], 11)
    BY AddsFit DEF OutputAndEngagement, Altered, MadeBy
<1> HIDE DEF RowFits
<1> QED BY <1>1, <1>2, <1>3, <1>4, <1>5

LEMMA PresenceAndChatFit == \A i \in 1..5 : RowFits(PresenceAndChat[i], 11 + i)
<1>1. RowFits(PresenceAndChat[1], 12)
    BY AddsFit DEF PresenceAndChat, Altered, MadeBy
<1>2. RowFits(PresenceAndChat[2], 13)
    BY AddsFit DEF PresenceAndChat, Altered, MadeBy
<1>3. RowFits(PresenceAndChat[3], 14)
    BY AddsFit DEF PresenceAndChat, Altered, MadeBy
<1>4. RowFits(PresenceAndChat[4], 15)
    BY CreatesFits DEF PresenceAndChat, Altered, MadeBy, LateNumbered
<1>5. RowFits(PresenceAndChat[5], 16)
    BY AddsFit DEF PresenceAndChat, Altered, MadeBy
<1> HIDE DEF RowFits
<1> QED BY <1>1, <1>2, <1>3, <1>4, <1>5

LEMMA GamesAndVotesFit == \A i \in 1..4 : RowFits(GamesAndVotes[i], 16 + i)
<1>1. RowFits(GamesAndVotes[1], 17)
    BY CreatesFits DEF GamesAndVotes, Altered, MadeBy, LateNumbered
<1>2. RowFits(GamesAndVotes[2], 18)
    BY CreatesFits DEF GamesAndVotes, Altered, MadeBy, LateNumbered
<1>3. RowFits(GamesAndVotes[3], 19)
    BY CreatesFits DEF GamesAndVotes, Altered, MadeBy, LateNumbered
<1>4. RowFits(GamesAndVotes[4], 20)
    BY AddsFit DEF GamesAndVotes, Altered, MadeBy
<1> HIDE DEF RowFits
<1> QED BY <1>1, <1>2, <1>3, <1>4

LEMMA SourcesAndSecretsFit == \A i \in 1..6 : RowFits(SourcesAndSecrets[i], 20 + i)
<1>1. RowFits(SourcesAndSecrets[1], 21)
    BY CreatesFits DEF SourcesAndSecrets, Altered, MadeBy, LateNumbered
<1>2. RowFits(SourcesAndSecrets[2], 22)
    BY CreatesFits DEF SourcesAndSecrets, Altered, MadeBy, LateNumbered
<1>3. RowFits(SourcesAndSecrets[3], 23)
    BY AddsFit DEF SourcesAndSecrets, Altered, MadeBy
<1>4. RowFits(SourcesAndSecrets[4], 24)
    BY CreatesFits DEF SourcesAndSecrets, Altered, MadeBy, LateNumbered
<1>5. RowFits(SourcesAndSecrets[5], 25)
    BY AddsFit DEF SourcesAndSecrets, Altered, MadeBy
<1>6. RowFits(SourcesAndSecrets[6], 26)
    BY AddsFit DEF SourcesAndSecrets, Altered, MadeBy
<1> HIDE DEF RowFits
<1> QED BY <1>1, <1>2, <1>3, <1>4, <1>5, <1>6

LEMMA ScenesAndRepairsFit == \A i \in 1..4 : RowFits(ScenesAndRepairs[i], 26 + i)
<1>1. RowFits(ScenesAndRepairs[1], 27)
    BY TouchesFit DEF ScenesAndRepairs
<1>2. RowFits(ScenesAndRepairs[2], 28)
    BY AddsFit DEF ScenesAndRepairs, Altered, MadeBy
<1>3. RowFits(ScenesAndRepairs[3], 29)
    BY TouchesFit DEF ScenesAndRepairs
<1>4. RowFits(ScenesAndRepairs[4], 30)
    BY AddsFit DEF ScenesAndRepairs, Altered, MadeBy
<1> HIDE DEF RowFits
<1> QED BY <1>1, <1>2, <1>3, <1>4

LEMMA ProbeAndRotationFit == \A i \in 1..6 : RowFits(ProbeAndRotation[i], 30 + i)
<1>1. RowFits(ProbeAndRotation[1], 31)
    BY AddsFit DEF ProbeAndRotation, Altered, MadeBy
<1>2. RowFits(ProbeAndRotation[2], 32)
    BY AddsFit DEF ProbeAndRotation, Altered, MadeBy
<1>3. RowFits(ProbeAndRotation[3], 33)
    BY CreatesFits DEF ProbeAndRotation, Altered, MadeBy, LateNumbered
<1>4. RowFits(ProbeAndRotation[4], 34)
    BY CreatesFits DEF ProbeAndRotation, Altered, MadeBy, LateNumbered
<1>5. RowFits(ProbeAndRotation[5], 35)
    BY TouchesFit DEF ProbeAndRotation
<1>6. RowFits(ProbeAndRotation[6], 36)
    BY AddsFit DEF ProbeAndRotation, Altered, MadeBy
<1> HIDE DEF RowFits
<1> QED BY <1>1, <1>2, <1>3, <1>4, <1>5, <1>6

LEMMA DatesAndRepliesFit == \A i \in 1..7 : RowFits(DatesAndReplies[i], 36 + i)
<1>1. RowFits(DatesAndReplies[1], 37)
    BY AddsFit DEF DatesAndReplies, Altered, MadeBy
<1>2. RowFits(DatesAndReplies[2], 38)
    BY AddsFit DEF DatesAndReplies, Altered, MadeBy
<1>3. RowFits(DatesAndReplies[3], 39)
    BY AddsFit DEF DatesAndReplies, Altered, MadeBy
<1>4. RowFits(DatesAndReplies[4], 40)
    BY AddsFit DEF DatesAndReplies, Altered, MadeBy
<1>5. RowFits(DatesAndReplies[5], 41)
    BY AddsFit DEF DatesAndReplies, Altered, MadeBy
<1>6. RowFits(DatesAndReplies[6], 42)
    BY AddsFit DEF DatesAndReplies, Altered, MadeBy
<1>7. RowFits(DatesAndReplies[7], 43)
    BY AddsFit DEF DatesAndReplies, Altered, MadeBy
<1> HIDE DEF RowFits
<1> QED BY <1>1, <1>2, <1>3, <1>4, <1>5, <1>6, <1>7

LEMMA MigrationsFit == \A i \in 2..43 : RowFits(Migrations[i], i)
<1> HIDE DEF RowFits
<1> SUFFICES ASSUME NEW i \in 2..43 PROVE RowFits(Migrations[i], i)
    OBVIOUS
<1>1. CASE i \in 2..6
    <2>1. i - 1 \in 1..5 /\ 1 + (i - 1) = i
        BY <1>1
    <2>2. Migrations[1 + (i - 1)] = LibraryAndFeed[i - 1]
        BY <2>1, MigrationNumbers DEF HasAt
    <2> QED BY <2>1, <2>2, LibraryAndFeedFit
<1>2. CASE i \in 7..11
    <2>1. i - 6 \in 1..5 /\ 6 + (i - 6) = i
        BY <1>2
    <2>2. Migrations[6 + (i - 6)] = OutputAndEngagement[i - 6]
        BY <2>1, MigrationNumbers DEF HasAt
    <2> QED BY <2>1, <2>2, OutputAndEngagementFit
<1>3. CASE i \in 12..16
    <2>1. i - 11 \in 1..5 /\ 11 + (i - 11) = i
        BY <1>3
    <2>2. Migrations[11 + (i - 11)] = PresenceAndChat[i - 11]
        BY <2>1, MigrationNumbers DEF HasAt
    <2> QED BY <2>1, <2>2, PresenceAndChatFit
<1>4. CASE i \in 17..20
    <2>1. i - 16 \in 1..4 /\ 16 + (i - 16) = i
        BY <1>4
    <2>2. Migrations[16 + (i - 16)] = GamesAndVotes[i - 16]
        BY <2>1, MigrationNumbers DEF HasAt
    <2> QED BY <2>1, <2>2, GamesAndVotesFit
<1>5. CASE i \in 21..26
    <2>1. i - 20 \in 1..6 /\ 20 + (i - 20) = i
        BY <1>5
    <2>2. Migrations[20 + (i - 20)] = SourcesAndSecrets[i - 20]
        BY <2>1, MigrationNumbers DEF HasAt
    <2> QED BY <2>1, <2>2, SourcesAndSecretsFit
<1>6. CASE i \in 27..30
    <2>1. i - 26 \in 1..4 /\ 26 + (i - 26) = i
        BY <1>6
    <2>2. Migrations[26 + (i - 26)] = ScenesAndRepairs[i - 26]
        BY <2>1, MigrationNumbers DEF HasAt
    <2> QED BY <2>1, <2>2, ScenesAndRepairsFit
<1>7. CASE i \in 31..36
    <2>1. i - 30 \in 1..6 /\ 30 + (i - 30) = i
        BY <1>7
    <2>2. Migrations[30 + (i - 30)] = ProbeAndRotation[i - 30]
        BY <2>1, MigrationNumbers DEF HasAt
    <2> QED BY <2>1, <2>2, ProbeAndRotationFit
<1>8. CASE i \in 37..43
    <2>1. i - 36 \in 1..7 /\ 36 + (i - 36) = i
        BY <1>8
    <2>2. Migrations[36 + (i - 36)] = DatesAndReplies[i - 36]
        BY <2>1, MigrationNumbers DEF HasAt
    <2> QED BY <2>1, <2>2, DatesAndRepliesFit
<1> QED BY <1>1, <1>2, <1>3, <1>4, <1>5, <1>6, <1>7, <1>8

---------------------------------------------------------------------------
(* Since which migration a column is there *)

\* The columns a migration brings first and last.
LEMMA SinceIsLast ==
    ASSUME NEW c \in Columns
    PROVE  /\ Since(c) \in 1..43 /\ c \in Brings(Migrations[Since(c)])
           /\ \A j \in 1..43 : c \in Brings(Migrations[j]) => j <= Since(c)
<1> DEFINE Bringing == {i \in 1..43 : c \in Brings(Migrations[i])}
           Left == {n \in 0..42 : 43 - n \in Bringing}
<1>0. Latest = 43
    BY MigrationNumbers
<1>1. PICK first \in Bringing : TRUE
    BY <1>0 DEF Columns
<1>2. Left # {} /\ Left \subseteq Nat
    <2>1. first \in 1..43
        OBVIOUS
    <2>2. 43 - first \in 0..42 /\ 43 - (43 - first) = first
        BY <2>1
    <2> HIDE DEF Bringing
    <2>3. 43 - first \in Left
        BY <2>2
    <2>4. \A k \in Left : k \in Nat
        OBVIOUS
    <2> HIDE DEF Left
    <2> QED BY <2>3, <2>4
<1>3. PICK n \in Left : \A y \in Left : n <= y
    <2> HIDE DEF Left
    <2> QED BY <1>2, LeastOf
<1> DEFINE last == 43 - n
<1>4. last \in Bringing /\ \A j \in Bringing : j <= last
    <2>1. last \in Bringing /\ n \in 0..42
        OBVIOUS
    <2>2. ASSUME NEW j \in Bringing PROVE j <= last
        <3>1. j \in 1..43 /\ 43 - j \in 0..42 /\ 43 - (43 - j) = j
            OBVIOUS
        <3>2. 43 - j \in Left
            BY <3>1
        <3>3. n <= 43 - j
            BY <1>3, <3>2
        <3> QED BY <2>1, <3>1, <3>3
    <2> QED BY <2>1, <2>2
<1>5. \E i \in 1..43 : c \in Brings(Migrations[i]) /\ \A j \in (i + 1)..43 : c \notin Brings(Migrations[j])
    <2>1. last \in 1..43 /\ c \in Brings(Migrations[last])
        BY <1>4
    <2>2. ASSUME NEW j \in (last + 1)..43 PROVE c \notin Brings(Migrations[j])
        <3>1. j \in 1..43 /\ ~(j <= last)
            BY <2>1, <2>2
        <3> QED BY <1>4, <3>1
    <2> QED BY <2>1, <2>2
<1> HIDE DEF last, Left, Bringing
<1>6. Since(c) = CHOOSE i \in 1..Latest : /\ c \in Brings(Migrations[i])
                                          /\ \A j \in (i + 1)..Latest : c \notin Brings(Migrations[j])
    BY DEF Since, SinceOf
<1>7. \E i \in 1..Latest : /\ c \in Brings(Migrations[i])
                           /\ \A j \in (i + 1)..Latest : c \notin Brings(Migrations[j])
    BY <1>0, <1>5
<1>8. /\ Since(c) \in 1..Latest /\ c \in Brings(Migrations[Since(c)])
      /\ \A j \in (Since(c) + 1)..Latest : c \notin Brings(Migrations[j])
    <2> HIDE DEF Since
    <2> QED BY <1>6, <1>7, Zenon
<1> HIDE DEF Since
<1> QED BY <1>0, <1>8

\* What the baseline creates only, a later migration adds.
LEMMA AddedLater ==
    /\ <<"engagement_settings", "alerts">> \in Brings(Migrations[9])
    /\ \A c \in OnlyInCreates : \E j \in 2..43 : c \in Brings(Migrations[j])
<1>1. <<"engagement_settings", "alerts">> \in Brings(Migrations[9])
    <2>1. Migrations[6 + 3] = OutputAndEngagement[3]
        BY MigrationNumbers DEF HasAt
    <2> QED BY <2>1 DEF OutputAndEngagement, Adds, Brings
<1>2. <<"engagement_settings", "game">> \in Brings(Migrations[10])
    <2>1. Migrations[6 + 4] = OutputAndEngagement[4]
        BY MigrationNumbers DEF HasAt
    <2> QED BY <2>1 DEF OutputAndEngagement, Brings
<1>3. <<"presence_windows", "minutes">> \in Brings(Migrations[13])
    <2>1. Migrations[11 + 2] = PresenceAndChat[2]
        BY MigrationNumbers DEF HasAt
    <2> QED BY <2>1 DEF PresenceAndChat, Adds, Brings
<1>4. <<"presence_windows", "id">> \in Brings(Migrations[16])
    <2>1. Migrations[11 + 5] = PresenceAndChat[5]
        BY MigrationNumbers DEF HasAt
    <2> QED BY <2>1 DEF PresenceAndChat, Adds, Brings
<1>5. <<"playout_runtime", "heartbeat">> \in Brings(Migrations[26])
    <2>1. Migrations[20 + 6] = SourcesAndSecrets[6]
        BY MigrationNumbers DEF HasAt
    <2> QED BY <2>1 DEF SourcesAndSecrets, Adds, Brings
<1>6. <<"team_access_grants", "twitch_id">> \in Brings(Migrations[43])
    <2>1. Migrations[36 + 7] = DatesAndReplies[7]
        BY MigrationNumbers DEF HasAt
    <2> QED BY <2>1 DEF DatesAndReplies, Adds, Brings
<1> HIDE DEF Brings
<1> QED BY <1>1, <1>2, <1>3, <1>4, <1>5, <1>6 DEF OnlyInCreates

\* The baseline: its tables and the columns it has for them; what it alters it creates.
LEMMA BaselineFacts ==
    /\ \A c \in Baseline.creates : c = <<c[1], "own">> \/ c \in Baseline.adds \cup OnlyInCreates
    /\ \A c \in Baseline.adds : c[2] # "own" /\ <<c[1], "own">> \in Baseline.creates
    /\ \A t \in Altered : t = "chat_interaction_settings" \/ <<t, "own">> \in Baseline.creates
<1>1. /\ Baseline.creates = Own(BaselineTables) \cup BaselineAlters \cup BaselineAltersOfProgramme \cup OnlyInCreates
      /\ Baseline.adds = BaselineAlters \cup BaselineAltersOfProgramme
    BY DEF Baseline
<1>2. \A t \in BaselineTables : <<t, "own">> \in Own(BaselineTables)
    BY DEF Own
<1>3. \A c \in Own(BaselineTables) : c = <<c[1], "own">>
    BY DEF Own
<1>4. \A c \in BaselineAlters \cup BaselineAltersOfProgramme : c[2] # "own" /\ c[1] \in BaselineTables
    BY DEF BaselineAlters, BaselineAltersOfProgramme, BaselineTables, AccountTables, SceneTables, AudienceTables,
           ProgrammeTables, ChannelTables
<1>5. \A t \in Altered : t = "chat_interaction_settings" \/ t \in BaselineTables
    BY DEF Altered, BaselineTables, AccountTables, SceneTables, AudienceTables, ProgrammeTables, ChannelTables
<1> QED BY <1>1, <1>2, <1>3, <1>4, <1>5

\* The last migration that brings a column adds it, and the last that brings a table creates it: a
\* migration that creates a table with a column leaves the column out where the table is there already.
LEMMA LastMakesIt ==
    ASSUME NEW c \in Columns
    PROVE  \/ c \in Migrations[Since(c)].adds /\ c[2] # "own"
           \/ c \in Migrations[Since(c)].creates /\ c = <<c[1], "own">>
<1> DEFINE s == Since(c)
<1>0. /\ s \in 1..43 /\ c \in Migrations[s].creates \cup Migrations[s].adds
      /\ \A j \in 1..43 : c \in Brings(Migrations[j]) => j <= s
    BY SinceIsLast DEF Brings
<1> HIDE DEF s
<1>1. CASE s = 1
    <2>1. Migrations[s] = Baseline
        BY <1>1, MigrationNumbers
    <2>2. c \notin OnlyInCreates
        BY <1>0, <1>1, AddedLater
    <2> QED BY <1>0, <2>1, <2>2, BaselineFacts DEF s
<1>2. CASE s \in 2..43
    <2>1. RowFits(Migrations[s], s)
        BY <1>2, MigrationsFit
    <2>2. ~(s = 8 /\ c = <<"engagement_settings", "alerts">>)
        BY <1>0, AddedLater
    <2> QED BY <1>0, <2>1, <2>2 DEF RowFits, s
<1> QED BY <1>0, <1>1, <1>2

\* What a later migration alters was last created before it, by a migration whose number came in its turn.
LEMMA MadeBefore ==
    ASSUME NEW i \in 2..43, NEW c \in Migrations[i].adds
    PROVE  /\ <<c[1], "own">> \in Columns /\ Since(<<c[1], "own">>) \in 1..i
           /\ Since(<<c[1], "own">>) # LateNumbered
           /\ <<c[1], "own">> \in Migrations[Since(<<c[1], "own">>)].creates
<1> DEFINE o == <<c[1], "own">>
           s == Since(o)
<1>1. c[1] \in Altered /\ MadeBy(c[1]) <= i
    BY MigrationsFit DEF RowFits
<1>2. o \in Columns
    <2>1. CASE c[1] = "chat_interaction_settings"
        <3>1. Migrations[11 + 4] = PresenceAndChat[4]
            BY MigrationNumbers DEF HasAt
        <3>2. o \in Brings(Migrations[15])
            BY <2>1, <3>1 DEF PresenceAndChat, Creates, Own, Brings
        <3> QED BY <3>2, MigrationNumbers DEF Columns
    <2>2. CASE o \in Baseline.creates
        BY <2>2, MigrationNumbers DEF Columns, Brings
    <2> QED BY <1>1, <2>1, <2>2, BaselineFacts
<1>3. s \in 1..43 /\ o \in Migrations[s].creates
    BY <1>2, SinceIsLast, LastMakesIt
<1>4. CASE s = 1
    BY <1>2, <1>3, <1>4 DEF LateNumbered
<1>5. CASE s \in 2..43
    <2>1. RowFits(Migrations[s], s)
        BY <1>5, MigrationsFit
    <2>2. o[1] = c[1] /\ o[2] = "own"
        OBVIOUS
    <2>3. s <= MadeBy(c[1]) /\ s # LateNumbered
        BY <1>1, <1>3, <2>1, <2>2 DEF RowFits
    <2>4. MadeBy(c[1]) \in Nat
        BY DEF MadeBy
    <2> HIDE DEF o, MadeBy
    <2> QED BY <1>1, <1>2, <1>3, <2>3, <2>4 DEF o
<1> QED BY <1>3, <1>4, <1>5

---------------------------------------------------------------------------
(* The boots *)

Databases == [schema : SUBSET Columns, applied : SUBSET (1..43), rows : {"none", "legacy", "initial", "kept"}]
Boots == [at : {"asleep", "waits", "migrates", "seeds", "commits", "ready"}, attempt : 1..BootAttempts,
          release : 0..43, seed : {"none", "legacy", "initial"}]

BootTypes ==
    /\ database \in Databases /\ boots \in [Containers -> Boots] /\ setbacks \in 0..MaxSetbacks
    /\ site.release \in 0..43 /\ site.missed \subseteq {LateNumbered}

\* What is recorded has been made: the database has every column whose last migration it has recorded.
Complete == \A c \in Columns : Since(c) \in database.applied => c \in database.schema

\* One boot is in its transaction at a time; what it is to seed fits the rows; and a container that is up
\* has recorded what its release knows, on a database with rows.
InTurn ==
    /\ \A p, q \in Containers : InTransaction(p) /\ InTransaction(q) => p = q
    /\ \A p \in Containers :
          /\ boots[p].at = "commits" => (boots[p].seed = "none" <=> database.rows # "none")
          /\ boots[p].at = "ready" => Known(boots[p].release) \subseteq database.applied /\ database.rows # "none"

BootInv == BootTypes /\ Complete /\ InTurn

LEMMA KnownNumbers ==
    ASSUME NEW release \in 0..43
    PROVE  /\ Known(release) = IF release = 43 THEN 1..43 ELSE (1..release) \ site.missed
           /\ Known(release) \subseteq 1..release
BY MigrationNumbers DEF Known

\* Every pending migration can be made: the table it alters is there, or a pending one before it creates it.
LEMMA PendingApplies ==
    ASSUME BootTypes, Complete, NEW release \in 0..43
    PROVE  Applies(Pending(release, database.applied), database.schema)
<1> DEFINE pending == Pending(release, database.applied)
<1>1. /\ pending = Known(release) \ database.applied
      /\ Known(release) = IF release = 43 THEN 1..43 ELSE (1..release) \ site.missed
    BY KnownNumbers DEF Pending
<1>2. site.missed \subseteq {LateNumbered}
    BY DEF BootTypes
<1> HIDE DEF pending
<1> SUFFICES ASSUME NEW i \in pending, NEW c \in Migrations[i].adds
             PROVE  <<c[1], "own">> \in database.schema \/ \E j \in Creators(pending, c[1]) : j <= i
    BY DEF Applies, pending
<1>3. i \in 1..43
    BY <1>1
<1>4. CASE i = 1
    <2>1. <<c[1], "own">> \in Migrations[i].creates
        BY <1>4, BaselineFacts, MigrationNumbers
    <2>2. i \in Creators(pending, c[1])
        BY <2>1 DEF Creators
    <2> QED BY <1>3, <2>2
<1>5. CASE i \in 2..43
    <2> DEFINE o == <<c[1], "own">>
               s == Since(o)
    <2>1. o \in Columns /\ s \in 1..i /\ s # LateNumbered /\ o \in Migrations[s].creates
        BY <1>5, MadeBefore
    <2> HIDE DEF s
    <2>2. s \in Known(release)
        BY <1>1, <1>2, <1>3, <2>1
    <2>3. CASE s \in database.applied
        BY <2>1, <2>3 DEF Complete, s
    <2>4. CASE s \notin database.applied
        <3>1. s \in pending
            BY <1>1, <2>2, <2>4
        <3>2. s \in Creators(pending, c[1]) /\ s <= i
            BY <1>3, <2>1, <3>1 DEF Creators
        <3> QED BY <3>2
    <2> QED BY <2>3, <2>4
<1> QED BY <1>3, <1>4, <1>5

\* What a boot leaves when it commits.
LEMMA CommitCompletes ==
    ASSUME BootTypes, Complete, NEW p \in Containers
    PROVE  /\ Committed(p) \in Databases
           /\ \A c \in Columns : Since(c) \in Committed(p).applied => c \in Committed(p).schema
<1> DEFINE release == boots[p].release
           pending == Pending(release, database.applied)
           upgraded == Upgraded(pending, database.schema)
<1>1. /\ release \in 0..43 /\ boots[p].seed \in {"none", "legacy", "initial"}
      /\ database.schema \subseteq Columns /\ database.applied \subseteq 1..43
      /\ database.rows \in {"none", "legacy", "initial", "kept"}
    BY DEF BootTypes, Boots, Databases
<1>2. UpgradedBy(release) = database.schema \cup (upgraded \cap DeclaredBy(release))
    BY DEF UpgradedBy
<1>3. DeclaredBy(release) \subseteq Columns
    BY DEF DeclaredBy, Declared
<1>4. Known(release) \subseteq 1..release /\ pending = Known(release) \ database.applied
    BY <1>1, KnownNumbers DEF Pending
<1> HIDE DEF release, pending, upgraded
<1>5. Known(release) \subseteq 1..43
    BY <1>1, <1>4
<1>6. /\ Committed(p) = [schema |-> UpgradedBy(release), applied |-> database.applied \cup Known(release),
                         rows |-> IF boots[p].seed = "none" THEN database.rows ELSE boots[p].seed]
    BY DEF Committed, release
<1>7. Committed(p) \in Databases
    BY <1>1, <1>2, <1>3, <1>5, <1>6 DEF Databases
<1>8. ASSUME NEW c \in Columns, Since(c) \in database.applied \cup Known(release)
      PROVE  c \in UpgradedBy(release)
    <2>1. CASE Since(c) \in database.applied
        BY <1>2, <2>1 DEF Complete
    <2>2. CASE Since(c) \notin database.applied /\ c \notin database.schema
        <3>1. Since(c) \in pending /\ Since(c) \in Known(release) /\ Since(c) <= release
            BY <1>1, <1>4, <1>8, <2>2
        <3>2. c \in DeclaredBy(release)
            BY <3>1 DEF DeclaredBy, Declared
        <3>3. CASE c \in Migrations[Since(c)].adds
            <4>1. c \in upgraded
                BY <3>1, <3>3 DEF Upgraded, upgraded
            <4> QED BY <1>2, <3>2, <4>1
        <3>4. CASE c \in Migrations[Since(c)].creates /\ c = <<c[1], "own">>
            <4> DEFINE first == CHOOSE i \in Creators(pending, c[1]) : \A j \in Creators(pending, c[1]) : i <= j
            <4>1. Since(c) \in Creators(pending, c[1])
                BY <3>1, <3>4 DEF Creators
            <4>2. Creators(pending, c[1]) \subseteq Nat
                BY <1>4, <1>5 DEF Creators
            <4>3. \E i \in Creators(pending, c[1]) : \A j \in Creators(pending, c[1]) : i <= j
                BY ONLY <4>1, <4>2, LeastOf
            <4>4. first \in Creators(pending, c[1])
                BY <4>3, Zenon
            <4>5. c \in Migrations[first].creates
                BY <3>4, <4>4 DEF Creators
            <4> HIDE DEF first
            <4>6. c \in UNION {Migrations[i].creates : i \in pending}
                BY <3>1, <3>4
            <4>7. <<c[1], "own">> \notin database.schema
                BY <2>2, <3>4
            <4>8. c \in {d \in UNION {Migrations[i].creates : i \in pending} :
                            /\ <<d[1], "own">> \notin database.schema
                            /\ d \in Migrations[CHOOSE i \in Creators(pending, d[1]) :
                                                   \A j \in Creators(pending, d[1]) : i <= j].creates}
                BY <4>5, <4>6, <4>7, Zenon DEF first
            <4>9. upgraded = database.schema \cup (UNION {Migrations[i].adds : i \in pending})
                             \cup {d \in UNION {Migrations[i].creates : i \in pending} :
                                     /\ <<d[1], "own">> \notin database.schema
                                     /\ d \in Migrations[CHOOSE i \in Creators(pending, d[1]) :
                                                            \A j \in Creators(pending, d[1]) : i <= j].creates}
                BY DEF Upgraded, upgraded
            <4>10. c \in upgraded
                BY ONLY <4>8, <4>9, Zenon
            <4> QED BY <1>2, <3>2, <4>10
        <3> QED BY <3>3, <3>4, LastMakesIt
    <2>3. CASE c \in database.schema
        BY <1>2, <2>3
    <2> QED BY <2>1, <2>2, <2>3
<1> QED BY <1>6, <1>7, <1>8

---------------------------------------------------------------------------
(* The invariant *)

LEMMA BootInitHolds ==
    ASSUME BootInit PROVE BootInv
<1>0. Latest = 43 /\ BootAttempts \in Nat \ {0} /\ MaxSetbacks \in Nat
    BY MigrationNumbers, SchemaAssumption DEF SchemaAssumption
<1>1. PICK release \in 0..Latest, missed \in {{}, {LateNumbered}},
           extra \in {{}} \cup {{c} : c \in BaselineAlters \cup BaselineAltersOfProgramme} :
        /\ missed # {} => LateNumbered < release /\ release < Latest
        /\ \E old \in BOOLEAN :
            /\ old => release = 0
            /\ (release = 0 /\ ~old) => extra = {}
            /\ LET schema == {c \in Declared(IF old THEN 1 ELSE release) : Since(c) \notin missed}
               IN  /\ \A c \in extra : c[2] # "own" => <<c[1], "own">> \in schema
                   /\ database = [schema |-> schema \cup extra, applied |-> (1..release) \ missed,
                                  rows |-> IF release = 0 /\ ~old THEN "none" ELSE "kept"]
            /\ \E file \in BOOLEAN :
                /\ file => database.rows = "none"
                /\ site = [release |-> release, missed |-> missed, legacy |-> file]
        /\ boots = [p \in Containers |-> Asleep(Latest)]
    BY Zenon DEF BootInit
<1>2. PICK old \in BOOLEAN :
            /\ old => release = 0
            /\ database = [schema |-> {c \in Declared(IF old THEN 1 ELSE release) : Since(c) \notin missed} \cup extra,
                           applied |-> (1..release) \ missed,
                           rows |-> IF release = 0 /\ ~old THEN "none" ELSE "kept"]
            /\ \E file : site = [release |-> release, missed |-> missed, legacy |-> file]
    BY <1>1
<1>3. boots = [p \in Containers |-> Asleep(Latest)] /\ setbacks = 0
    BY DEF BootInit
<1>4. extra \subseteq Columns
    <2>1. BaselineAlters \cup BaselineAltersOfProgramme \subseteq Brings(Migrations[1])
        BY MigrationNumbers DEF Baseline, Brings
    <2>2. BaselineAlters \cup BaselineAltersOfProgramme \subseteq Columns
        BY <1>0, <2>1 DEF Columns
    <2> QED BY <2>2
<1>5. \A r : Declared(r) \subseteq Columns
    BY DEF Declared
<1> DEFINE schema == {c \in Declared(IF old THEN 1 ELSE release) : Since(c) \notin missed} \cup extra
<1>6. schema \subseteq Columns
    BY <1>4, <1>5
<1>7. database.schema = schema /\ database.applied = (1..release) \ missed
    BY <1>2
<1>8. BootTypes
    <2>1. database \in Databases
        <3>1. (1..release) \ missed \subseteq 1..43
            BY <1>0
        <3> HIDE DEF schema
        <3>2. database = [schema |-> schema, applied |-> (1..release) \ missed,
                          rows |-> IF release = 0 /\ ~old THEN "none" ELSE "kept"]
            BY <1>2 DEF schema
        <3> QED BY <1>6, <3>1, <3>2 DEF Databases
    <2>2. Asleep(Latest) \in Boots
        BY <1>0 DEF Asleep, Boots
    <2>3. boots \in [Containers -> Boots]
        BY <1>3, <2>2
    <2>4. site.release = release /\ site.missed = missed
        BY <1>2
    <2> QED BY <1>0, <1>3, <2>1, <2>3, <2>4 DEF BootTypes
<1>9. Complete
    <2> SUFFICES ASSUME NEW c \in Columns, Since(c) \in database.applied PROVE c \in database.schema
        BY DEF Complete
    <2>1. Since(c) \in 1..release /\ Since(c) \notin missed /\ release \in 0..43
        BY <1>0, <1>7
    <2>2. ~old
        BY <1>2, <2>1
    <2>3. c \in Declared(release)
        BY <2>1 DEF Declared
    <2> QED BY <1>7, <2>1, <2>2, <2>3
<1>10. InTurn
    <2>1. \A p \in Containers : boots[p].at = "asleep"
        BY <1>3 DEF Asleep
    <2> QED BY <2>1 DEF InTurn, InTransaction
<1> QED BY <1>8, <1>9, <1>10 DEF BootInv

\* A step of one container that leaves the database as it is.
LEMMA OneBootMoves ==
    ASSUME BootInv, NEW p \in Containers, NEW b \in Boots, boots' = [boots EXCEPT ![p] = b],
           database' = database, site' = site, setbacks' \in 0..MaxSetbacks,
           b.at \in {"migrates", "seeds", "commits"} =>
               boots[p].at \in {"migrates", "seeds"} \/ \A q \in Containers : ~InTransaction(q),
           b.at = "commits" => (b.seed = "none" <=> database.rows # "none"),
           b.at # "ready"
    PROVE  BootInv'
<1>1. boots \in [Containers -> Boots] /\ boots'[p] = b /\ \A q \in Containers : q # p => boots'[q] = boots[q]
    BY DEF BootInv, BootTypes
<1>2. BootTypes'
    BY DEF BootInv, BootTypes
<1>3. Complete'
    BY DEF BootInv, Complete
<1>4. ASSUME NEW q \in Containers, NEW r \in Containers, InTransaction(q)', InTransaction(r)'
      PROVE  q = r
    BY <1>1, <1>4 DEF BootInv, InTurn, InTransaction
<1>5. ASSUME NEW q \in Containers
      PROVE  (/\ boots[q].at = "commits" => (boots[q].seed = "none" <=> database.rows # "none")
              /\ boots[q].at = "ready" => Known(boots[q].release) \subseteq database.applied /\ database.rows # "none")'
    BY <1>1 DEF BootInv, InTurn, Known
<1> QED BY <1>2, <1>3, <1>4, <1>5 DEF BootInv, InTurn, InTransaction

\* A step that commits the transaction of one container.
LEMMA OneBootCommits ==
    ASSUME BootInv, NEW p \in Containers, boots[p].at = "commits", database' = Committed(p),
           NEW b \in Boots, boots' = [boots EXCEPT ![p] = b], site' = site, setbacks' \in 0..MaxSetbacks,
           b.at \in {"asleep", "ready"}, b.release = boots[p].release
    PROVE  BootInv' /\ (database.rows = "kept" => database'.rows = "kept")
<1>1. boots \in [Containers -> Boots] /\ boots'[p] = b /\ \A q \in Containers : q # p => boots'[q] = boots[q]
    BY DEF BootInv, BootTypes
<1>2. BootTypes' /\ Complete'
    BY CommitCompletes DEF BootInv, BootTypes, Complete
<1>3. /\ database'.applied = database.applied \cup Known(boots[p].release)
      /\ database'.rows = IF boots[p].seed = "none" THEN database.rows ELSE boots[p].seed
    BY DEF Committed
<1>4. database'.rows # "none" /\ (database.rows = "kept" => database'.rows = "kept")
    BY <1>3 DEF BootInv, InTurn
<1>5. \A q \in Containers : q # p => ~InTransaction(q)
    BY DEF BootInv, InTurn, InTransaction
<1>6. \A q \in Containers : ~InTransaction(q)'
    BY <1>1, <1>5 DEF InTransaction
<1>7. ASSUME NEW q \in Containers, boots'[q].at = "ready"
      PROVE  (Known(boots[q].release) \subseteq database.applied)'
    BY <1>1, <1>3, <1>7 DEF BootInv, InTurn, Known
<1> QED BY <1>2, <1>4, <1>6, <1>7 DEF BootInv, InTurn, InTransaction

\* A container that tries again.
LEMMA TriesAgain ==
    ASSUME NEW r \in Boots, NEW attempt \in 1..BootAttempts
    PROVE  /\ [r EXCEPT !.at = "waits", !.attempt = attempt] \in Boots
           /\ [r EXCEPT !.at = "waits", !.attempt = attempt].at = "waits"
BY DEF Boots

LEMMA BootStepKeeps ==
    ASSUME BootInv, [BootNext]_bootVars
    PROVE  BootInv' /\ (database.rows = "kept" => database'.rows = "kept")
<1>0. /\ Latest = 43 /\ BootAttempts \in Nat \ {0} /\ MaxSetbacks \in Nat
      /\ setbacks \in 0..MaxSetbacks /\ boots \in [Containers -> Boots] /\ site.release \in 0..43
      /\ database \in Databases
    BY MigrationNumbers, SchemaAssumption DEF SchemaAssumption, BootInv, BootTypes
<1>a. \A release \in 0..43 : Asleep(release) \in Boots /\ Asleep(release).at = "asleep" /\ Asleep(release).release = release
    BY <1>0 DEF Asleep, Boots
<1>b. ASSUME SetBack PROVE setbacks' \in 0..MaxSetbacks
    BY <1>0, <1>b DEF SetBack
<1>1. ASSUME NEW p \in Containers, EnsureDatabase(p) PROVE BootInv' /\ database' = database
    <2> DEFINE b == [boots[p] EXCEPT !.at = "waits"]
    <2>1. b \in Boots /\ boots' = [boots EXCEPT ![p] = b] /\ b.at = "waits"
        BY <1>0, <1>1 DEF EnsureDatabase, Boots
    <2> HIDE DEF b
    <2> QED BY <1>0, <1>1, <2>1, OneBootMoves DEF EnsureDatabase
<1>2. ASSUME NEW p \in Containers, BootstrapOnce(p) PROVE BootInv' /\ database' = database
    <2> DEFINE b == [boots[p] EXCEPT !.at = "migrates"]
    <2>1. b \in Boots /\ boots' = [boots EXCEPT ![p] = b] /\ b.at = "migrates"
        BY <1>0, <1>2 DEF BootstrapOnce, Boots
    <2> HIDE DEF b
    <2> QED BY <1>0, <1>2, <2>1, OneBootMoves DEF BootstrapOnce
<1>3. ASSUME NEW p \in Containers, ApplyPendingMigrations(p) PROVE BootInv' /\ database' = database
    <2> DEFINE b == [boots[p] EXCEPT !.at = "seeds"]
    <2>1. b \in Boots /\ b.at = "seeds" /\ boots[p].release \in 0..43 /\ boots[p].at = "migrates"
        BY <1>0, <1>3 DEF ApplyPendingMigrations, Boots
    <2>2. boots' = [boots EXCEPT ![p] = b] \/ boots' = [boots EXCEPT ![p] = Asleep(boots[p].release)]
        BY <1>0, <1>3 DEF ApplyPendingMigrations
    <2> HIDE DEF b
    <2> QED BY <1>0, <1>3, <1>a, <2>1, <2>2, OneBootMoves DEF ApplyPendingMigrations
<1>4. ASSUME NEW p \in Containers, SeedIfEmpty(p) PROVE BootInv' /\ database' = database
    <2>1. PICK seed \in {"legacy", "initial", "none"} :
              /\ seed = "none" <=> database.rows # "none"
              /\ IF seed = "initial" /\ site.legacy THEN SetBack ELSE UNCHANGED setbacks
              /\ boots' = [boots EXCEPT ![p].at = "commits", ![p].seed = seed]
        BY <1>4 DEF SeedIfEmpty
    <2>2. setbacks' \in 0..MaxSetbacks
        BY <1>0, <1>b, <2>1
    <2> DEFINE b == [boots[p] EXCEPT !.at = "commits", !.seed = seed]
    <2>3. b \in Boots /\ boots' = [boots EXCEPT ![p] = b] /\ b.at = "commits" /\ b.seed = seed
        BY <1>0, <2>1 DEF Boots
    <2> HIDE DEF b
    <2> QED BY <1>4, <2>1, <2>2, <2>3, OneBootMoves DEF SeedIfEmpty
<1>5. ASSUME NEW p \in Containers, BootCommit(p) PROVE BootInv' /\ (database.rows = "kept" => database'.rows = "kept")
    <2> DEFINE b == [Asleep(boots[p].release) EXCEPT !.at = "ready"]
    <2>1. b \in Boots /\ boots' = [boots EXCEPT ![p] = b] /\ b.at = "ready" /\ b.release = boots[p].release
        BY <1>0, <1>5 DEF BootCommit, Boots, Asleep
    <2> HIDE DEF b
    <2> QED BY <1>0, <1>5, <2>1, OneBootCommits DEF BootCommit
<1>6. ASSUME NEW p \in Containers, CommitUnheard(p) PROVE BootInv' /\ (database.rows = "kept" => database'.rows = "kept")
    <2> DEFINE b == Asleep(boots[p].release)
    <2>1. b \in Boots /\ boots' = [boots EXCEPT ![p] = b] /\ b.at = "asleep" /\ b.release = boots[p].release
        BY <1>0, <1>6, <1>a DEF CommitUnheard, Boots
    <2>2. setbacks' \in 0..MaxSetbacks
        BY <1>6, <1>b DEF CommitUnheard
    <2> HIDE DEF b
    <2> QED BY <1>6, <2>1, <2>2, OneBootCommits DEF CommitUnheard
<1>7. ASSUME NEW p \in Containers, LoseTableLock(p) PROVE BootInv' /\ database' = database
    <2> DEFINE b == [Asleep(boots[p].release) EXCEPT !.at = "waits", !.attempt = boots[p].attempt + 1]
    <2>1. boots[p] \in Boots
        BY <1>0
    <2>2. boots[p].attempt < BootAttempts => b \in Boots /\ b.at = "waits"
        <3>1. boots[p].attempt < BootAttempts => boots[p].attempt + 1 \in 1..BootAttempts
            <4>1. boots[p].attempt \in 1..BootAttempts
                BY <2>1 DEF Boots
            <4> QED BY ONLY <1>0, <4>1
        <3>2. Asleep(boots[p].release) \in Boots
            BY <1>a, <2>1 DEF Boots
        <3> QED BY <3>1, <3>2, TriesAgain
    <2>3. \/ boots' = [boots EXCEPT ![p] = b] /\ boots[p].attempt < BootAttempts
          \/ boots' = [boots EXCEPT ![p] = Asleep(boots[p].release)]
        BY <1>0, <1>7 DEF LoseTableLock
    <2>4. setbacks' \in 0..MaxSetbacks
        BY <1>7, <1>b DEF LoseTableLock
    <2>5. Asleep(boots[p].release) \in Boots /\ Asleep(boots[p].release).at = "asleep"
        BY <1>a, <2>1 DEF Boots
    <2> HIDE DEF b
    <2> QED BY <1>7, <2>2, <2>3, <2>4, <2>5, OneBootMoves DEF LoseTableLock
<1>8. ASSUME NEW p \in Containers, Interrupted(p) PROVE BootInv' /\ database' = database
    <2>1. PICK release \in {boots[p].release} \cup (IF site.release = 0 THEN {} ELSE {site.release, Latest}) :
              boots' = [boots EXCEPT ![p] = Asleep(release)]
        BY <1>8 DEF Interrupted
    <2>2. boots[p].release \in 0..43
        BY <1>0 DEF Boots
    <2>3. release \in 0..43
        BY <1>0, <2>1, <2>2
    <2>4. setbacks' \in 0..MaxSetbacks
        BY <1>8, <1>b DEF Interrupted
    <2> QED BY <1>8, <1>a, <2>1, <2>3, <2>4, OneBootMoves DEF Interrupted
<1>9. ASSUME NEW p \in Containers, OperatorWrites(p) PROVE BootInv' /\ (database.rows = "kept" => database'.rows = "kept")
    <2>1. /\ database' = [database EXCEPT !.rows = "kept"] /\ boots' = boots /\ site' = site /\ setbacks' = setbacks
          /\ boots[p].at = "ready" /\ database.rows # "none"
        BY <1>9 DEF OperatorWrites, BootInv, InTurn
    <2>2. /\ database' \in Databases /\ database'.applied = database.applied /\ database'.schema = database.schema
          /\ database'.rows = "kept"
        BY <1>0, <2>1 DEF Databases
    <2>3. \A r : Known(r)' = Known(r)
        BY <2>1 DEF Known
    <2>4. BootTypes' /\ Complete'
        BY <2>1, <2>2 DEF BootInv, BootTypes, Complete
    <2>5. InTurn'
        BY <2>1, <2>2, <2>3 DEF BootInv, InTurn, InTransaction
    <2> QED BY <2>2, <2>4, <2>5 DEF BootInv
<1>10. CASE UNCHANGED bootVars
    <2>1. database' = database /\ boots' = boots /\ site' = site /\ setbacks' = setbacks
        BY <1>10 DEF bootVars
    <2>2. \A r : Known(r)' = Known(r)
        BY <2>1 DEF Known
    <2> QED BY <2>1, <2>2 DEF BootInv, BootTypes, Complete, InTurn, InTransaction
<1>11. CASE BootNext
    <2>1. PICK p \in Containers : \/ EnsureDatabase(p) \/ BootstrapOnce(p) \/ ApplyPendingMigrations(p)
                                  \/ SeedIfEmpty(p) \/ BootCommit(p) \/ CommitUnheard(p) \/ LoseTableLock(p)
                                  \/ Interrupted(p) \/ OperatorWrites(p)
        BY <1>11, Zenon DEF BootNext, BootStep
    <2> QED BY <1>1, <1>2, <1>3, <1>4, <1>5, <1>6, <1>7, <1>8, <1>9, <2>1
<1> QED BY <1>10, <1>11

LEMMA BootInvHolds == BootSpec => []BootInv
<1>1. BootInit => BootInv
    BY BootInitHolds
<1>2. BootInv /\ [BootNext]_bootVars => BootInv'
    BY BootStepKeeps
<1> QED BY <1>1, <1>2, PTL DEF BootSpec

\* What is recorded of migrations, who runs which step of its boot and how often it was put back keep their
\* types, whatever release the database comes from.
THEOREM BootTypeCorrect == BootSpec => []BootTypeOK
<1>1. BootInv => BootTypeOK
    <2> SUFFICES ASSUME BootInv PROVE BootTypeOK
        OBVIOUS
    <2>1. Latest = 43
        BY MigrationNumbers
    <2> QED BY <2>1 DEF BootInv, BootTypes, Databases, Boots, BootTypeOK
<1> QED BY <1>1, BootInvHolds, PTL

\* From whatever release the database comes, with however many containers, lost locks, lost answers and
\* restarts between releases, every pending migration can be made, a container that is up finds every column
\* its release declares, and no boot writes its seed over what was entered (bootstrapDatabaseOnce,
\* applyPendingMigrations, isDatabaseEmpty).
THEOREM SchemaAlwaysServes == BootSpec => SchemaServes
<1> DEFINE Serving == \A p \in Containers :
               /\ boots[p].at = "migrates" => Applies(Pending(boots[p].release, database.applied), database.schema)
               /\ boots[p].at = "ready" => DeclaredBy(boots[p].release) \subseteq database.schema
           Keeping == database.rows = "kept" => database'.rows = "kept"
<1>1. BootInv => Serving
    <2> SUFFICES ASSUME BootInv, NEW p \in Containers
                 PROVE  /\ Applies(Pending(boots[p].release, database.applied), database.schema)
                        /\ boots[p].at = "ready" => DeclaredBy(boots[p].release) \subseteq database.schema
        OBVIOUS
    <2>1. boots[p].release \in 0..43
        BY DEF BootInv, BootTypes, Boots
    <2>2. Applies(Pending(boots[p].release, database.applied), database.schema)
        BY <2>1, PendingApplies DEF BootInv
    <2>3. ASSUME boots[p].at = "ready", NEW c \in DeclaredBy(boots[p].release)
          PROVE  c \in database.schema
        <3>1. c \in Columns /\ Since(c) \in Known(boots[p].release)
            BY DEF DeclaredBy, Declared
        <3> QED BY <2>3, <3>1 DEF BootInv, InTurn, Complete
    <2> QED BY <2>2, <2>3
<1>2. BootInv /\ [BootNext]_bootVars => Keeping
    BY BootStepKeeps
<1>3. SchemaServes <=> []Serving /\ [][Keeping]_bootVars
    BY Zenon DEF SchemaServes
<1> HIDE DEF Serving, Keeping
<1>4. BootInv /\ [BootNext]_bootVars => [Keeping]_bootVars
    BY <1>2
<1> QED BY <1>1, <1>3, <1>4, BootInvHolds, PTL DEF BootSpec

---------------------------------------------------------------------------
(* All of it *)

\* Each part runs by its own specification, whichever is looked at.
LEMMA RecordsRunAlone == Spec => StoreSpec /\ TwSpec /\ BootSpec
<1>1. Init => StoreInit /\ TwInit /\ BootInit
    BY DEF Init
<1>2. [Next]_<<focus, storeVars, twVars, bootVars>> => [StoreNext]_storeVars /\ [TwNext]_twVars /\ [BootNext]_bootVars
    <2> SUFFICES ASSUME [Next]_<<focus, storeVars, twVars, bootVars>>
                 PROVE  [StoreNext]_storeVars /\ [TwNext]_twVars /\ [BootNext]_bootVars
        OBVIOUS
    <2>1. CASE InStore
        BY <2>1, Zenon DEF InStore
    <2>2. CASE OnTwitch
        BY <2>2, Zenon DEF OnTwitch
    <2>3. CASE AtBoot
        BY <2>3, Zenon DEF AtBoot
    <2>4. CASE UNCHANGED <<focus, storeVars, twVars, bootVars>>
        BY <2>4, Zenon
    <2> QED BY <2>1, <2>2, <2>3, <2>4 DEF Next
<1> QED BY <1>1, <1>2, PTL DEF Spec, StoreSpec, TwSpec, BootSpec

\* Whatever is looked at, its variables keep their types: the writes to the store under its lock and its
\* relay, the rows of the Twitch connection, the start on a database of any release.
THEOREM RecordsTypesCorrect == Spec => []TypesOK
<1>1. StoreTypeOK /\ TwTypeOK /\ BootTypeOK => TypesOK
    BY Zenon DEF TypesOK
<1> QED BY <1>1, RecordsRunAlone, StoreKeepsTypes, TwitchTypeCorrect, BootTypeCorrect, PTL

=============================================================================

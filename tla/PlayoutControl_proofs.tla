------------------------ MODULE PlayoutControl_proofs ------------------------
(***************************************************************************)
(* What PlayoutControl keeps for any number of items, presses, processes   *)
(* and failures.  First what the writers of the runtime row keep of it:    *)
(* its type, the stamp of the insert request, the restart flag, the        *)
(* released bridge; each such lemma is stated once, for any row.           *)
(***************************************************************************)
EXTENDS PlayoutControl, SequenceTheorems, TLAPS

---------------------------------------------------------------------------
(* Types of the row *)

LEMMA EmptyRowType == EmptyRow \in PlayoutRuntime
BY DEF EmptyRow, PlayoutRuntime, MaybeAsset, Statuses, InsertStatuses, LiveStatuses

LEMMA StandbyPickType == StandbyPick \in Selections
BY DEF StandbyPick, Pick, Selections, MaybeAsset

LEMMA PickType ==
    ASSUME NEW kind \in {"asset", "insert", "live", "standby"}, NEW a \in MaybeAsset,
           NEW reason \in {"live_bridge", "operator_override", "operator_insert",
                           "manual_next", "automatic", "recovery", "no_asset"}
    PROVE  Pick(kind, a, reason) \in Selections
BY DEF Pick, Selections

LEMMA AutomaticPicksType == ASSUME NEW r PROVE AutomaticPicks(r) \subseteq Selections
<1>1. \A a \in Assets : Pick("asset", a, "automatic") \in Selections
  BY PickType DEF MaybeAsset
<1> QED BY <1>1, StandbyPickType DEF AutomaticPicks

\* Every arm of the selection names an item of the library, or none.
LEMMA CandidatesType ==
    ASSUME NEW r \in PlayoutRuntime, NEW running \in BOOLEAN
    PROVE  Candidates(r, running) \subseteq Selections
<1>1. LivePick \in Selections
  BY PickType DEF LivePick, MaybeAsset
<1>2. /\ Pick("asset", r.ovr, "operator_override") \in Selections
      /\ Pick("asset", r.next, "manual_next") \in Selections
  BY PickType DEF PlayoutRuntime
<1>3. InsertPick(r) \in Selections
  BY DEF InsertPick, Pick, Selections, PlayoutRuntime
<1> QED BY <1>1, <1>2, <1>3, AutomaticPicksType DEF Candidates

LEMMA ClearInsertType ==
    ASSUME NEW r \in PlayoutRuntime PROVE ClearInsert(r) \in PlayoutRuntime
BY DEF ClearInsert, PlayoutRuntime, MaybeAsset, InsertStatuses

LEMMA DropInsertOfType ==
    ASSUME NEW u, NEW r \in PlayoutRuntime PROVE DropInsertOf(u, r) \in PlayoutRuntime
BY ClearInsertType DEF DropInsertOf

LEMMA ClearPendingActionType ==
    ASSUME NEW u, NEW r \in PlayoutRuntime PROVE ClearPendingAction(u, r) \in PlayoutRuntime
BY DEF ClearPendingAction, PlayoutRuntime

LEMMA MarkInsertActiveType ==
    ASSUME NEW s, NEW r \in PlayoutRuntime PROVE MarkInsertActive(s, r) \in PlayoutRuntime
BY DEF MarkInsertActive, PlayoutRuntime, InsertStatuses

LEMMA RestartFlagType ==
    ASSUME NEW read, NEW flag \in Nat, NEW t PROVE RestartFlagAfter(read, flag, t) \in {0, flag}
BY DEF RestartFlagAfter

LEMMA LiveType ==
    ASSUME NEW s, NEW r \in PlayoutRuntime
    PROVE  LiveStarted(s, r) \in LiveStatuses /\ LiveAtCycleEnd(s, r) \in LiveStatuses
BY DEF LiveStarted, LiveAtCycleEnd, PlayoutRuntime, LiveStatuses

LEMMA StartedRowType ==
    ASSUME NEW s \in Selections, NEW u, NEW t, NEW r \in PlayoutRuntime
    PROVE  StartedRow(s, u, t, r) \in PlayoutRuntime
<1> DEFINE c == ClearPendingAction(u, r)
<1>1. c \in PlayoutRuntime
  BY ClearPendingActionType
<1>2. RestartFlagAfter(u.restart, c.restart, t) \in Nat
  BY <1>1, RestartFlagType DEF PlayoutRuntime
<1>3. LiveStarted(s, r) \in LiveStatuses
  BY LiveType
<1>4. StatusAfter(s) \in Statuses /\ s.asset \in MaybeAsset
  BY DEF StatusAfter, Statuses, Selections
<1> QED BY <1>1, <1>2, <1>3, <1>4 DEF StartedRow, PlayoutRuntime

LEMMA CycleEndRowType ==
    ASSUME NEW s \in Selections, NEW u, NEW running, NEW t, NEW r \in PlayoutRuntime
    PROVE  CycleEndRow(s, u, running, t, r) \in PlayoutRuntime
<1> DEFINE c == MarkInsertActive(s, ClearPendingAction(u, r))
<1>1. c \in PlayoutRuntime
  BY ClearPendingActionType, MarkInsertActiveType
<1>2. RestartFlagAfter(u.restart, c.restart, t) \in Nat
  BY <1>1, RestartFlagType DEF PlayoutRuntime
<1>3. LiveAtCycleEnd(s, r) \in LiveStatuses
  BY LiveType
<1>4. CycleEndStatus(s, r, running) \in Statuses /\ s.asset \in MaybeAsset
  BY DEF CycleEndStatus, StatusAfter, Statuses, Selections, PlayoutRuntime
<1>5. (IF s.asset # None /\ c.next = s.asset THEN None ELSE c.next) \in MaybeAsset
  BY <1>1 DEF PlayoutRuntime, MaybeAsset
<1> QED BY <1>1, <1>2, <1>3, <1>4, <1>5 DEF CycleEndRow, PlayoutRuntime

LEMMA StartFailedRowType ==
    ASSUME NEW s, NEW u, NEW r \in PlayoutRuntime
    PROVE  StartFailedRow(s, u, r) \in PlayoutRuntime
<1>1. DropInsertOf(u, r) \in PlayoutRuntime
  BY DropInsertOfType
<1> QED BY <1>1 DEF StartFailedRow, PlayoutRuntime, Statuses, LiveStatuses

LEMMA ExitRowType ==
    ASSUME NEW x \in Exits, NEW r \in PlayoutRuntime
    PROVE  ExitRow(x, r) \in PlayoutRuntime
<1> DEFINE c == IF ClearsInsertOnExit(x, r) THEN ClearInsert(r) ELSE r
<1>1. c \in PlayoutRuntime
  BY ClearInsertType
<1>2. ASSUME NEW d \in PlayoutRuntime, NEW s \in Statuses, NEW b \in BOOLEAN,
             NEW a \in MaybeAsset, NEW l \in LiveStatuses
      PROVE  [d EXCEPT !.status = s, !.crash = b, !.cur = a, !.live = l] \in PlayoutRuntime
  BY DEF PlayoutRuntime
<1>3. /\ (IF ~x.failed THEN "up" ELSE IF x.loop THEN "degraded" ELSE "failed") \in Statuses
      /\ x.loop \in BOOLEAN
      /\ (IF x.failed THEN c.cur ELSE None) \in MaybeAsset
      /\ (IF x.live /\ x.failed THEN "error" ELSE c.live) \in LiveStatuses
  BY <1>1 DEF Exits, PlayoutRuntime, Statuses, LiveStatuses, MaybeAsset
<1> QED BY <1>1, <1>2, <1>3 DEF ExitRow

LEMMA AddActionType ==
    ASSUME NEW r \in PlayoutRuntime, NEW what \in {"refresh", "rebuild"}, NEW at \in Nat
    PROVE  AddAction(r, what, at) \in PlayoutRuntime
BY DEF AddAction, PlayoutRuntime

LEMMA QueueEditType ==
    ASSUME NEW r \in PlayoutRuntime, NEW a \in MaybeAsset
    PROVE  /\ [r EXCEPT !.next = a, !.rem = Unless(@, a)] \in PlayoutRuntime
           /\ [r EXCEPT !.rem = a, !.next = Unless(@, a)] \in PlayoutRuntime
<1>1. Unless(r.rem, a) \in MaybeAsset /\ Unless(r.next, a) \in MaybeAsset
  BY DEF Unless, PlayoutRuntime, MaybeAsset
<1> QED BY <1>1 DEF PlayoutRuntime

\* Every operator action leaves a row of the table's type.
LEMMA OperatorRowType ==
    ASSUME NEW o \in Presses, NEW r \in PlayoutRuntime
    PROVE  OperatorRow(o, r) \in PlayoutRuntime
<1>1. /\ o.type \in OperatorActions /\ o.asset \in MaybeAsset /\ o.at \in Nat
  BY DEF Presses
<1>2. CASE o.type = "restart"
  BY <1>1, <1>2 DEF OperatorRow, PlayoutRuntime, Statuses
<1>3. CASE o.type = "skip"
  BY <1>1, <1>3 DEF OperatorRow, SkipRow, Unless, PlayoutRuntime, Statuses, MaybeAsset
<1>4. CASE o.type = "pin"
  BY <1>1, <1>4 DEF OperatorRow, PinRow, Unless, PlayoutRuntime, MaybeAsset
<1>5. CASE o.type = "resume"
  <2>1. ASSUME NEW d \in PlayoutRuntime
        PROVE  [d EXCEPT !.ovr = None, !.skip = None, !.rem = None, !.next = None] \in PlayoutRuntime
    BY DEF PlayoutRuntime, MaybeAsset
  <2> QED BY <1>5, <2>1, ClearInsertType DEF OperatorRow, ResumeRow
<1>6. CASE o.type = "play_now"
  BY <1>1, <1>6 DEF OperatorRow, PlayNowRow, PlayoutRuntime, MaybeAsset, InsertStatuses
<1>7. CASE o.type = "move_next"
  BY <1>1, <1>7, QueueEditType, AddActionType DEF OperatorRow, MoveNextRow
<1>8. CASE o.type = "remove_next"
  BY <1>1, <1>8, QueueEditType, AddActionType DEF OperatorRow, RemoveNextRow
<1>9. CASE o.type = "refresh"
  BY <1>1, <1>9, AddActionType DEF OperatorRow
<1>10. CASE o.type = "bridge_start"
  BY <1>1, <1>10 DEF OperatorRow, BridgeStartRow, PlayoutRuntime, Statuses, LiveStatuses
<1>11. CASE o.type = "bridge_release"
  <2>1. ASSUME NEW d \in PlayoutRuntime
        PROVE  [d EXCEPT !.status = "up", !.live = "releasing"] \in PlayoutRuntime
    BY DEF PlayoutRuntime, Statuses, LiveStatuses
  <2> QED BY <1>1, <1>11, <2>1, AddActionType DEF OperatorRow, BridgeReleaseRow
<1> QED
  BY <1>1, <1>2, <1>3, <1>4, <1>5, <1>6, <1>7, <1>8, <1>9, <1>10, <1>11 DEF OperatorActions

---------------------------------------------------------------------------
(* Frames: what a write may do to the requests that are on the row *)

\* A write of the loop or of the exit handler, with what it has read as u: it does not make a
\* released bridge active, drops only the insert and clears only the action it has read.
Considerate(u, r, d) ==
    /\ r.insSt = "pending" /\ d.insReq # r.insReq => u.insReq = r.insReq
    /\ r.live = "releasing" => d.live # "active"
    /\ r.act # {} /\ d.act = {} => u.actReq = r.actReq

LEMMA DropInsertOfFrame ==
    ASSUME NEW u, NEW r \in PlayoutRuntime
    PROVE  /\ DropInsertOf(u, r).restart = r.restart
           /\ DropInsertOf(u, r).live = r.live
           /\ DropInsertOf(u, r).act = r.act
           /\ DropInsertOf(u, r).insReq # r.insReq => u.insReq = r.insReq
BY DEF DropInsertOf, ClearInsert, PlayoutRuntime

LEMMA ClearPendingActionFrame ==
    ASSUME NEW u, NEW r \in PlayoutRuntime
    PROVE  /\ ClearPendingAction(u, r).restart = r.restart
           /\ ClearPendingAction(u, r).live = r.live
           /\ ClearPendingAction(u, r).insReq = r.insReq
           /\ r.act # {} /\ ClearPendingAction(u, r).act = {} => u.actReq = r.actReq
BY DEF ClearPendingAction, PlayoutRuntime

LEMMA MarkInsertActiveFrame ==
    ASSUME NEW s, NEW r \in PlayoutRuntime
    PROVE  /\ MarkInsertActive(s, r).restart = r.restart
           /\ MarkInsertActive(s, r).insReq = r.insReq
           /\ MarkInsertActive(s, r).act = r.act
BY DEF MarkInsertActive, PlayoutRuntime

LEMMA LiveFrame ==
    ASSUME NEW s, NEW r, r.live = "releasing"
    PROVE  LiveStarted(s, r) # "active" /\ LiveAtCycleEnd(s, r) # "active"
BY DEF LiveStarted, LiveAtCycleEnd

LEMMA StartedRowFrame ==
    ASSUME NEW s, NEW u, NEW t, NEW r \in PlayoutRuntime
    PROVE  /\ StartedRow(s, u, t, r).restart = RestartFlagAfter(u.restart, r.restart, t)
           /\ Considerate(u, r, StartedRow(s, u, t, r))
<1> DEFINE c == ClearPendingAction(u, r)
<1>1. c \in PlayoutRuntime
  BY ClearPendingActionType
<1>2. c.restart = r.restart /\ c.insReq = r.insReq /\ (r.act # {} /\ c.act = {} => u.actReq = r.actReq)
  BY ClearPendingActionFrame
<1>3. StartedRow(s, u, t, r) =
        [c EXCEPT !.status = StatusAfter(s), !.cur = s.asset,
                  !.restart = RestartFlagAfter(u.restart, c.restart, t), !.live = LiveStarted(s, r)]
  BY DEF StartedRow
<1> HIDE DEF c
<1> QED BY <1>1, <1>2, <1>3, LiveFrame DEF Considerate, PlayoutRuntime

LEMMA CycleEndRowFrame ==
    ASSUME NEW s, NEW u, NEW running, NEW t, NEW r \in PlayoutRuntime
    PROVE  /\ CycleEndRow(s, u, running, t, r).restart = RestartFlagAfter(u.restart, r.restart, t)
           /\ Considerate(u, r, CycleEndRow(s, u, running, t, r))
<1> DEFINE b == ClearPendingAction(u, r)
           c == MarkInsertActive(s, b)
<1>1. b \in PlayoutRuntime
  BY ClearPendingActionType
<1>2. b.restart = r.restart /\ b.insReq = r.insReq /\ (r.act # {} /\ b.act = {} => u.actReq = r.actReq)
  BY ClearPendingActionFrame
<1> HIDE DEF b
<1>3. c \in PlayoutRuntime /\ c.restart = b.restart /\ c.insReq = b.insReq /\ c.act = b.act
  BY <1>1, MarkInsertActiveType, MarkInsertActiveFrame
<1>4. CycleEndRow(s, u, running, t, r) =
        [c EXCEPT !.status = CycleEndStatus(s, r, running), !.cur = s.asset,
                  !.restart = RestartFlagAfter(u.restart, c.restart, t), !.live = LiveAtCycleEnd(s, r),
                  !.next = IF s.asset # None /\ c.next = s.asset THEN None ELSE c.next]
  BY DEF CycleEndRow, b
<1> HIDE DEF c
<1> QED BY <1>2, <1>3, <1>4, LiveFrame DEF Considerate, PlayoutRuntime

LEMMA StartFailedRowFrame ==
    ASSUME NEW s, NEW u, NEW r \in PlayoutRuntime
    PROVE  /\ StartFailedRow(s, u, r).restart = r.restart
           /\ Considerate(u, r, StartFailedRow(s, u, r))
<1> DEFINE c == DropInsertOf(u, r)
<1>1. c \in PlayoutRuntime
  BY DropInsertOfType
<1>2. /\ c.restart = r.restart /\ c.live = r.live /\ c.act = r.act
      /\ c.insReq # r.insReq => u.insReq = r.insReq
  BY DropInsertOfFrame
<1>3. StartFailedRow(s, u, r) =
        [c EXCEPT !.status = "degraded", !.live = IF s.kind = "live" THEN "error" ELSE c.live]
  BY DEF StartFailedRow
<1> HIDE DEF c
<1> QED BY <1>1, <1>2, <1>3 DEF Considerate, PlayoutRuntime

\* The exit handler ends an insert only when it is on air.
LEMMA ExitRowFrame ==
    ASSUME NEW x, NEW u, NEW r \in PlayoutRuntime
    PROVE  /\ ExitRow(x, r).restart = r.restart
           /\ Considerate(u, r, ExitRow(x, r))
<1> DEFINE c == IF ClearsInsertOnExit(x, r) THEN ClearInsert(r) ELSE r
<1>1. c \in PlayoutRuntime
  BY ClearInsertType
<1>2. /\ c.restart = r.restart /\ c.live = r.live /\ c.act = r.act
      /\ c.insReq # r.insReq => r.insSt = "active"
  BY DEF ClearInsert, ClearsInsertOnExit, PlayoutRuntime
<1>3. ExitRow(x, r) =
        [c EXCEPT !.status = IF ~x.failed THEN "up" ELSE IF x.loop THEN "degraded" ELSE "failed",
                  !.crash = x.loop, !.cur = IF x.failed THEN c.cur ELSE None,
                  !.live = IF x.live /\ x.failed THEN "error" ELSE c.live]
  BY DEF ExitRow
<1> HIDE DEF c
<1> QED BY <1>1, <1>2, <1>3 DEF Considerate, PlayoutRuntime

\* An operator action leaves the restart flag, waives it or sets it to its own stamp; it neither
\* makes a released bridge active nor takes back a Refresh or rebuild.
LEMMA OperatorRowFrame ==
    ASSUME NEW o \in Presses, NEW r \in PlayoutRuntime
    PROVE  /\ OperatorRow(o, r).restart \in {0, o.at, r.restart}
           /\ r.live = "releasing" => OperatorRow(o, r).live # "active"
           /\ r.act # {} => OperatorRow(o, r).act # {}
<1>1. o.type \in OperatorActions
  BY DEF Presses
<1>2. CASE o.type \in {"restart", "skip", "pin", "play_now", "bridge_start"}
  BY <1>2 DEF OperatorRow, SkipRow, PinRow, PlayNowRow, BridgeStartRow, PlayoutRuntime
<1>3. CASE o.type = "resume"
  BY <1>3 DEF OperatorRow, ResumeRow, ClearInsert, PlayoutRuntime
<1>4. CASE o.type \in {"move_next", "remove_next", "refresh", "bridge_release"}
  BY <1>4 DEF OperatorRow, MoveNextRow, RemoveNextRow, BridgeReleaseRow, AddAction, PlayoutRuntime
<1> QED BY <1>1, <1>2, <1>3, <1>4 DEF OperatorActions


---------------------------------------------------------------------------
(* The item on air, as the writes leave it *)

LEMMA CurrentOfRows ==
    ASSUME NEW r \in PlayoutRuntime
    PROVE  /\ \A u : DropInsertOf(u, r).cur = r.cur /\ ClearPendingAction(u, r).cur = r.cur
           /\ \A s, u, t : StartedRow(s, u, t, r).cur = s.asset
           /\ \A s, u, b, t : CycleEndRow(s, u, b, t, r).cur = s.asset
           /\ \A s, u : StartFailedRow(s, u, r).cur = r.cur
           /\ \A o \in Presses : OperatorRow(o, r).cur = r.cur
           /\ \A a, t : VoteRow(a, t, r).cur = r.cur
<1>1. \A u : DropInsertOf(u, r).cur = r.cur /\ ClearPendingAction(u, r).cur = r.cur
  BY DEF DropInsertOf, ClearInsert, ClearPendingAction, PlayoutRuntime
<1>2. \A u : DropInsertOf(u, r) \in PlayoutRuntime /\ ClearPendingAction(u, r) \in PlayoutRuntime
  BY DropInsertOfType, ClearPendingActionType
<1>3. \A s, u, t : StartedRow(s, u, t, r).cur = s.asset
  BY <1>2 DEF StartedRow, PlayoutRuntime
<1>4. \A s, u, b, t : CycleEndRow(s, u, b, t, r).cur = s.asset
  <2>1. \A s, u : MarkInsertActive(s, ClearPendingAction(u, r)) \in PlayoutRuntime
    BY <1>2, MarkInsertActiveType
  <2> QED BY <2>1 DEF CycleEndRow, PlayoutRuntime
<1>5. \A s, u : StartFailedRow(s, u, r).cur = r.cur
  BY <1>1, <1>2 DEF StartFailedRow, PlayoutRuntime
<1>6. ASSUME NEW o \in Presses PROVE OperatorRow(o, r).cur = r.cur
  <2>1. o.type \in OperatorActions
    BY DEF Presses
  <2>2. CASE o.type \in {"restart", "skip", "pin", "play_now", "bridge_start"}
    BY <2>2 DEF OperatorRow, SkipRow, PinRow, PlayNowRow, BridgeStartRow, PlayoutRuntime
  <2>3. CASE o.type = "resume"
    BY <2>3 DEF OperatorRow, ResumeRow, ClearInsert, PlayoutRuntime
  <2>4. CASE o.type \in {"move_next", "remove_next", "refresh", "bridge_release"}
    BY <2>4 DEF OperatorRow, MoveNextRow, RemoveNextRow, BridgeReleaseRow, AddAction, PlayoutRuntime
  <2> QED BY <2>1, <2>2, <2>3, <2>4 DEF OperatorActions
<1>7. \A a, t : VoteRow(a, t, r).cur = r.cur
  BY DEF VoteRow, PlayoutRuntime
<1> QED BY <1>1, <1>3, <1>4, <1>5, <1>6, <1>7


---------------------------------------------------------------------------
(* The insert, as the writes leave it *)

HasInsert(r) == r.insSt # ""
SameInsert(r, d) == d.ins = r.ins /\ d.insReq = r.insReq /\ d.insSt = r.insSt /\ d.next \in {None, r.next}
NoInsert(r, d) ==
    d.ins = None /\ d.insReq = 0 /\ ~HasInsert(d) /\ d.insSt \notin {"active", "pending"} /\ d.next \in {None, r.next}
SameRequest(u, r) == r.ins = u.ins /\ r.insReq = u.insReq

LEMMA InsertCleared ==
    ASSUME NEW r \in PlayoutRuntime
    PROVE  NoInsert(r, ClearInsert(r)) /\ ClearInsert(r) \in PlayoutRuntime
<1>1. ClearInsert(r) \in PlayoutRuntime
  BY ClearInsertType
<1>2. ClearInsert(r).ins = None /\ ClearInsert(r).insReq = 0 /\ ClearInsert(r).next = r.next
  BY DEF ClearInsert, PlayoutRuntime
<1>3. ClearInsert(r).insSt = ""
  BY DEF ClearInsert, PlayoutRuntime
<1>4. "" \notin {"active", "pending"}
  OBVIOUS
<1> QED BY <1>1, <1>2, <1>3, <1>4, Zenon DEF NoInsert, HasInsert

LEMMA SameInsertIsIdle ==
    ASSUME NEW r, NEW d, SameInsert(r, d)
    PROVE  HasInsert(d) <=> HasInsert(r)
BY Zenon DEF SameInsert, HasInsert

LEMMA InsertDropped ==
    ASSUME NEW u, NEW r \in PlayoutRuntime
    PROVE  IF SameRequest(u, r) THEN NoInsert(r, DropInsertOf(u, r)) ELSE DropInsertOf(u, r) = r
BY InsertCleared DEF DropInsertOf, SameRequest

LEMMA InsertOfClearedAction ==
    ASSUME NEW u, NEW r \in PlayoutRuntime
    PROVE  SameInsert(r, ClearPendingAction(u, r))
BY DEF ClearPendingAction, SameInsert, PlayoutRuntime

LEMMA InsertOfStartedRow ==
    ASSUME NEW s, NEW u, NEW t, NEW r \in PlayoutRuntime
    PROVE  SameInsert(r, StartedRow(s, u, t, r))
<1> DEFINE c == ClearPendingAction(u, r)
<1>1. c \in PlayoutRuntime /\ SameInsert(r, c)
  BY ClearPendingActionType, InsertOfClearedAction
<1>2. StartedRow(s, u, t, r) =
        [c EXCEPT !.status = StatusAfter(s), !.cur = s.asset,
                  !.restart = RestartFlagAfter(u.restart, c.restart, t), !.live = LiveStarted(s, r)]
  BY DEF StartedRow
<1> HIDE DEF c
<1>3. SameInsert(c, StartedRow(s, u, t, r))
  BY <1>1, <1>2 DEF SameInsert, PlayoutRuntime
<1> QED BY <1>1, <1>3 DEF SameInsert

\* The last write of a cycle makes the insert it has selected active, and no other.
LEMMA InsertOfCycleEnd ==
    ASSUME NEW s, NEW u, NEW running, NEW t, NEW r \in PlayoutRuntime
    PROVE  LET d == CycleEndRow(s, u, running, t, r)
           IN  /\ d.ins = r.ins /\ d.insReq = r.insReq /\ d.next \in {None, r.next}
               /\ \/ d.insSt = r.insSt
                  \/ s.reason = "operator_insert" /\ r.ins = s.asset /\ d.insSt = "active"
<1> DEFINE b == ClearPendingAction(u, r)
           c == MarkInsertActive(s, b)
<1>1. b \in PlayoutRuntime /\ SameInsert(r, b)
  BY ClearPendingActionType, InsertOfClearedAction
<1> HIDE DEF b
<1>2. /\ c \in PlayoutRuntime /\ c.ins = b.ins /\ c.insReq = b.insReq /\ c.next = b.next
      /\ \/ c.insSt = b.insSt
         \/ s.reason = "operator_insert" /\ b.ins = s.asset /\ c.insSt = "active"
  BY <1>1, MarkInsertActiveType DEF MarkInsertActive, PlayoutRuntime
<1>3. CycleEndRow(s, u, running, t, r) =
        [c EXCEPT !.status = CycleEndStatus(s, r, running), !.cur = s.asset,
                  !.restart = RestartFlagAfter(u.restart, c.restart, t), !.live = LiveAtCycleEnd(s, r),
                  !.next = IF s.asset # None /\ c.next = s.asset THEN None ELSE c.next]
  BY DEF CycleEndRow, b
<1> HIDE DEF c
<1>4. LET d == CycleEndRow(s, u, running, t, r)
      IN  d.ins = c.ins /\ d.insReq = c.insReq /\ d.insSt = c.insSt /\ d.next \in {None, c.next}
  BY <1>2, <1>3 DEF PlayoutRuntime
<1> HIDE DEF CycleEndRow
<1> QED BY <1>1, <1>2, <1>4 DEF SameInsert

LEMMA InsertOfFailedStart ==
    ASSUME NEW s, NEW u, NEW r \in PlayoutRuntime
    PROVE  NoInsert(r, StartFailedRow(s, u, r)) \/ SameInsert(r, StartFailedRow(s, u, r))
<1> DEFINE c == DropInsertOf(u, r)
<1>1. c \in PlayoutRuntime /\ (NoInsert(r, c) \/ c = r)
  BY DropInsertOfType, InsertDropped
<1>2. StartFailedRow(s, u, r) =
        [c EXCEPT !.status = "degraded", !.live = IF s.kind = "live" THEN "error" ELSE c.live]
  BY DEF StartFailedRow
<1> HIDE DEF c
<1>3. LET d == StartFailedRow(s, u, r)
      IN  d.ins = c.ins /\ d.insReq = c.insReq /\ d.insSt = c.insSt /\ d.next = c.next
  BY <1>1, <1>2 DEF PlayoutRuntime
<1> QED BY <1>1, <1>3, Zenon DEF NoInsert, SameInsert, HasInsert

LEMMA InsertOfExit ==
    ASSUME NEW x, NEW r \in PlayoutRuntime
    PROVE  IF ClearsInsertOnExit(x, r) THEN NoInsert(r, ExitRow(x, r)) ELSE SameInsert(r, ExitRow(x, r))
<1> DEFINE c == IF ClearsInsertOnExit(x, r) THEN ClearInsert(r) ELSE r
<1>1. c \in PlayoutRuntime /\ (IF ClearsInsertOnExit(x, r) THEN NoInsert(r, c) ELSE c = r)
  BY InsertCleared
<1>2. ExitRow(x, r) =
        [c EXCEPT !.status = IF ~x.failed THEN "up" ELSE IF x.loop THEN "degraded" ELSE "failed",
                  !.crash = x.loop, !.cur = IF x.failed THEN c.cur ELSE None,
                  !.live = IF x.live /\ x.failed THEN "error" ELSE c.live]
  BY DEF ExitRow
<1> HIDE DEF c
<1>3. LET d == ExitRow(x, r)
      IN  d.ins = c.ins /\ d.insReq = c.insReq /\ d.insSt = c.insSt /\ d.next = c.next
  BY <1>1, <1>2 DEF PlayoutRuntime
<1> QED BY <1>1, <1>3, Zenon DEF NoInsert, SameInsert, HasInsert

\* Play now, Resume and Move next are the operator's writes on an insert or the next item.
LEMMA InsertOfPress ==
    ASSUME NEW o \in Presses, NEW r \in PlayoutRuntime, o.type # "move_next"
    PROVE  LET d == OperatorRow(o, r)
           IN  \/ SameInsert(r, d)
               \/ NoInsert(r, d)
               \/ /\ o.type = "play_now" /\ d.ins = o.asset /\ d.insReq = o.at /\ d.insSt = "pending"
                  /\ d.next \in {None, r.next}
<1>1. o.type \in OperatorActions \ {"move_next"}
  BY DEF Presses
<1>2. CASE o.type \in {"restart", "skip", "pin", "bridge_start"}
  BY <1>2 DEF OperatorRow, SkipRow, PinRow, BridgeStartRow, PlayoutRuntime, SameInsert
<1>3. CASE o.type = "resume"
  <2>1. OperatorRow(o, r) =
          [ClearInsert(r) EXCEPT !.ovr = None, !.skip = None, !.rem = None, !.next = None]
    BY <1>3 DEF OperatorRow, ResumeRow
  <2>2. NoInsert(r, ClearInsert(r)) /\ ClearInsert(r) \in PlayoutRuntime
    BY InsertCleared
  <2> DEFINE c == ClearInsert(r)
  <2> HIDE DEF c
  <2>3. ASSUME c \in PlayoutRuntime, NEW d,
               d = [c EXCEPT !.ovr = None, !.skip = None, !.rem = None, !.next = None]
        PROVE  d.ins = c.ins /\ d.insReq = c.insReq /\ d.insSt = c.insSt /\ d.next = None
    BY <2>3 DEF PlayoutRuntime
  <2>4. LET d == OperatorRow(o, r)
        IN  /\ d.ins = ClearInsert(r).ins /\ d.insReq = ClearInsert(r).insReq
            /\ d.insSt = ClearInsert(r).insSt /\ d.next = None
    BY <2>1, <2>2, <2>3 DEF c
  <2> QED BY <2>2, <2>4, Zenon DEF NoInsert, HasInsert
<1>4. CASE o.type = "play_now"
  BY <1>4 DEF OperatorRow, PlayNowRow, PlayoutRuntime
<1>5. CASE o.type \in {"remove_next", "refresh", "bridge_release"}
  BY <1>5 DEF OperatorRow, RemoveNextRow, BridgeReleaseRow, AddAction, Unless, PlayoutRuntime, SameInsert
<1> QED BY <1>1, <1>2, <1>3, <1>4, <1>5 DEF OperatorActions

LEMMA InsertOfVote ==
    ASSUME NEW a, NEW t, NEW r \in PlayoutRuntime
    PROVE  SameInsert(r, VoteRow(a, t, r))
BY DEF VoteRow, SameInsert, PlayoutRuntime

---------------------------------------------------------------------------
(* What a selection of the bridge or of an insert says of the row *)

LEMMA PickOfCandidates ==
    ASSUME NEW r \in PlayoutRuntime, NEW running, NEW s \in Candidates(r, running)
    PROVE  /\ s.kind = "live" => s.reason = "live_bridge"
           /\ s.kind = "insert" => HasInsert(r) /\ s.req = r.insReq /\ s.reason = "operator_insert"
<1>1. /\ LivePick.kind = "live" /\ LivePick.reason = "live_bridge" /\ StandbyPick.kind = "standby"
      /\ \A a, why : Pick("asset", a, why).kind = "asset"
  BY DEF LivePick, StandbyPick, Pick
<1>2. InsertPick(r).kind = "insert" /\ InsertPick(r).req = r.insReq /\ InsertPick(r).reason = "operator_insert"
  BY DEF InsertPick, Pick
<1>3. \A q \in AutomaticPicks(r) : q.kind \in {"asset", "standby"}
  BY <1>1 DEF AutomaticPicks
<1>4. InsertSelectable(r) => HasInsert(r)
  BY Zenon DEF InsertSelectable, HasInsert
<1> QED BY <1>1, <1>2, <1>3, <1>4 DEF Candidates

---------------------------------------------------------------------------
(* Typing *)

LEMMA InitType == Init => TypeOK
<1> SUFFICES ASSUME Init PROVE TypeOK
  OBVIOUS
<1>1. NoPress \in Presses
  BY DEF NoPress, Presses, OperatorActions, MaybeAsset
<1>2. row \in PlayoutRuntime /\ st \in PlayoutRuntime /\ used \in PlayoutRuntime /\ sel \in Selections
  BY EmptyRowType, StandbyPickType DEF Init
<1>3. pc \in Steps /\ then \in Steps /\ planned \in StopReasons
  BY DEF Init, Steps, StopReasons
<1>4. exitq \in Seq(Exits)
  BY EmptySeq DEF Init
<1>5. clock = 1 /\ outages = 0 /\ kept = <<>>
  BY DEF Init
<1>6. clock \in Nat \ {0} /\ outages \in Nat
  BY <1>5
<1> QED BY <1>1, <1>2, <1>3, <1>4, <1>5, <1>6 DEF Init, TypeOK

LEMMA EndCycleType ==
    ASSUME EndCycle
    PROVE  /\ pc' \in Steps /\ then' \in Steps /\ st' \in PlayoutRuntime /\ sel' \in Selections
           /\ keep' \in BOOLEAN /\ restarting' \in BOOLEAN /\ used' \in PlayoutRuntime
           /\ wasRunning' \in BOOLEAN
BY EmptyRowType, StandbyPickType DEF EndCycle, Steps

LEMMA StopThenType ==
    ASSUME TypeOK, NEW why \in StopReasons, NEW s \in Steps, StopThen(why, s)
    PROVE  /\ pc' \in Steps /\ then' \in Steps /\ planned' \in StopReasons
           /\ UNCHANGED <<proc, alive, abandoned, exitq, kept, ended>>
<1>1. "" \in StopReasons /\ "stopping" \in Steps
  BY DEF StopReasons, Steps
<1> QED BY <1>1 DEF StopThen, TypeOK

LEMMA KeptAppliedType == TypeOK => KeptApplied \in PlayoutRuntime
<1> SUFFICES ASSUME TypeOK PROVE KeptApplied \in PlayoutRuntime
  OBVIOUS
<1>1. kept # <<>> => kept[1] \in Exits
  BY DEF TypeOK
<1> QED BY <1>1, ExitRowType DEF KeptApplied, TypeOK

LEMMA ReadFreshType ==
    ASSUME TypeOK, ReadFresh
    PROVE  /\ row' \in PlayoutRuntime /\ st' \in PlayoutRuntime /\ kept' = <<>>
           /\ UNCHANGED <<proc, planned, alive, abandoned, exitq, ended>>
BY KeptAppliedType DEF ReadFresh, WriteAndRead, Write

LEMMA CandidatesTypes ==
    ASSUME TypeOK
    PROVE  /\ Candidates(st, Running) \subseteq Selections
           /\ row' \in PlayoutRuntime => Candidates(row', Running) \subseteq Selections
BY CandidatesType DEF TypeOK, Running

\* Each step of the loop keeps the types.
LEMMA CycleStepType == TypeOK /\ CycleStep => TypeOK'
<1> SUFFICES ASSUME TypeOK, CycleStep PROVE TypeOK'
  OBVIOUS
<1> USE DEF GoTo, envVars
<1>1. CASE StartCycle
  BY <1>1 DEF StartCycle, TypeOK, procVars, Steps, Running
<1>2. CASE ReadState
  BY <1>2, ReadFreshType DEF ReadState, TypeOK, Steps
<1>3. CASE EnforceDurationBound
  <2>1. "duration-bound" \in StopReasons /\ "reread" \in Steps
    BY DEF StopReasons, Steps
  <2> QED BY <1>3, <2>1, StopThenType DEF EnforceDurationBound, TypeOK, procVars
<1>4. CASE RereadAfterExit
  BY <1>4, ReadFreshType DEF RereadAfterExit, TypeOK, Steps
<1>5. CASE Select
  <2>1. row' \in PlayoutRuntime /\ st' \in PlayoutRuntime
    BY <1>5, DropInsertOfType DEF Select, WriteAndRead, Write, TypeOK
  <2>2. sel' \in Selections
    BY <1>5, <2>1, CandidatesTypes DEF Select
  <2> QED BY <1>5, <2>1, <2>2 DEF Select, TypeOK, procVars, Steps
<1>6. CASE DropHeldManualNext
  <2>1. [row EXCEPT !.next = None] \in PlayoutRuntime
    BY DEF TypeOK, PlayoutRuntime, MaybeAsset
  <2>2. row' \in PlayoutRuntime /\ st' \in PlayoutRuntime
    BY <1>6, <2>1 DEF DropHeldManualNext, WriteAndRead, Write, TypeOK
  <2>3. sel' \in Selections
    BY <1>6, <2>2, CandidatesTypes DEF DropHeldManualNext, TypeOK
  <2> QED BY <1>6, <2>2, <2>3 DEF DropHeldManualNext, TypeOK, procVars, Steps
<1>7. CASE LoseDestination
  <2>1. "destination-missing" \in StopReasons /\ "nodest" \in Steps
    BY DEF StopReasons, Steps
  <2> QED BY <1>7, <2>1, StopThenType DEF LoseDestination, TypeOK
<1>8. CASE ReportNoDestination
  <2>1. DropInsertOf(st, row) \in PlayoutRuntime
    BY DropInsertOfType DEF TypeOK
  <2>2. row' \in PlayoutRuntime
    BY <1>8, <2>1 DEF ReportNoDestination, Write, PlayoutRuntime, Statuses, MaybeAsset
  <2> QED BY <1>8, <2>2, EndCycleType DEF ReportNoDestination, TypeOK, procVars
<1>9. CASE CarryOutPendingAction
  <2>1. row' \in PlayoutRuntime /\ st' \in PlayoutRuntime /\ used' \in PlayoutRuntime
    BY <1>9, ClearPendingActionType DEF CarryOutPendingAction, WriteAndRead, Write, TypeOK
  <2> QED BY <1>9, <2>1 DEF CarryOutPendingAction, TypeOK, procVars, Steps
<1>10. CASE Prepare
  <2>1. \A b \in Assets : Pick("asset", b, "recovery") \in Selections
    BY PickType DEF MaybeAsset
  <2>2. sel' \in Selections /\ keep' \in BOOLEAN /\ pc' \in Steps
    BY <1>10, <2>1 DEF Prepare, KeepsRunningInput, Running, Plays, TypeOK, Steps
  <2> QED BY <1>10, <2>2 DEF Prepare, TypeOK, procVars
<1>11. CASE Resolve
  <2>1. RecoveryPicks \subseteq Selections
    BY PickType, StandbyPickType DEF RecoveryPicks, MaybeAsset
  <2>2. sel' \in Selections /\ pc' \in Steps
    BY <1>11, <2>1 DEF Resolve, TypeOK, Steps
  <2> QED BY <1>11, <2>2 DEF Resolve, TypeOK, procVars
<1>12. CASE DropUnpreparedInsert
  <2>1. row' \in PlayoutRuntime
    BY <1>12, DropInsertOfType DEF DropUnpreparedInsert, Write, TypeOK
  <2> QED BY <1>12, <2>1, EndCycleType DEF DropUnpreparedInsert, TypeOK, procVars
<1>13. CASE CrashLoopGate
  <2>1. "crash-loop-reset" \in StopReasons /\ "reset" \in Steps /\ "decide" \in Steps
    BY DEF StopReasons, Steps
  <2>2. [row EXCEPT !.status = "degraded"] \in PlayoutRuntime
    BY DEF TypeOK, PlayoutRuntime, Statuses
  <2>3. CASE pc' = "decide" /\ UNCHANGED <<row, then, st, sel, keep, restarting, used, wasRunning, procVars>>
    BY <1>13, <2>1, <2>3 DEF CrashLoopGate, TypeOK, procVars
  <2>4. CASE Write([row EXCEPT !.status = "degraded"]) /\ EndCycle /\ UNCHANGED procVars
    BY <1>13, <2>2, <2>4, EndCycleType DEF CrashLoopGate, TypeOK, procVars, Write
  <2>5. CASE /\ StopThen("crash-loop-reset", "reset")
             /\ UNCHANGED <<row, st, sel, keep, restarting, used, wasRunning>>
    BY <1>13, <2>1, <2>5, StopThenType DEF CrashLoopGate, TypeOK
  <2> QED BY <1>13, <2>3, <2>4, <2>5 DEF CrashLoopGate
<1>14. CASE ResetCrashLoop
  <2>1. row' \in PlayoutRuntime /\ st' \in PlayoutRuntime
    BY <1>14 DEF ResetCrashLoop, WriteAndRead, Write, TypeOK, PlayoutRuntime, Statuses
  <2> QED BY <1>14, <2>1 DEF ResetCrashLoop, TypeOK, procVars, Steps
<1>15. CASE DecideRestart
  <2>1. "restart-requested" \in StopReasons /\ "clearflag" \in Steps /\ "kept" \in Steps
    BY DEF StopReasons, Steps
  <2>2. used' \in PlayoutRuntime /\ restarting' \in BOOLEAN
    BY <1>15 DEF DecideRestart, Consumed, TypeOK, PlayoutRuntime
  <2> QED BY <1>15, <2>1, <2>2, StopThenType DEF DecideRestart, TypeOK, procVars
<1>16. CASE ClearRestartFlag
  <2>1. RestartFlagAfter(used.restart, row.restart, 0) \in Nat
    BY RestartFlagType DEF TypeOK, PlayoutRuntime
  <2>2. row' \in PlayoutRuntime
    BY <1>16, <2>1 DEF ClearRestartFlag, Write, TypeOK, PlayoutRuntime
  <2> QED BY <1>16, <2>2 DEF ClearRestartFlag, TypeOK, procVars, Steps
<1>17. CASE ReplaceProcess
  <2>1. "switch" \in StopReasons /\ "launch" \in Steps /\ "end" \in Steps
    BY DEF StopReasons, Steps
  <2>2. CASE EndCycle /\ UNCHANGED procVars
    BY <1>17, <2>2, EndCycleType DEF ReplaceProcess, TypeOK, procVars
  <2>3. CASE /\ IF Running /\ Plays(proc, sel) /\ ~restarting
                THEN GoTo("end") /\ UNCHANGED <<then, procVars>>
                ELSE StopThen("switch", "launch")
             /\ UNCHANGED <<st, sel, keep, restarting, used, wasRunning>>
    BY <1>17, <2>1, <2>3, StopThenType DEF ReplaceProcess, TypeOK, procVars
  <2> QED BY <1>17, <2>2, <2>3 DEF ReplaceProcess
<1>18. CASE StopDone
  BY <1>18 DEF StopDone, TypeOK, procVars, Steps
<1>19. CASE StopDeadline
  <2>1. proc \in Procs
    BY <1>19 DEF StopDeadline, Running, TypeOK
  <2> QED BY <1>19, <2>1 DEF StopDeadline, TypeOK, Steps, StopReasons
<1>20. CASE Spawn
  <2>1. proc' \in Procs
    <3>1. PICK id \in FreeIds : proc' = NewProc(id)
      BY <1>20 DEF Spawn
    <3> QED BY <3>1 DEF NewProc, FreeIds, Procs, TypeOK, Selections
  <2>2. ended' \subseteq Nat
    BY <1>20 DEF Spawn, TypeOK
  <2> QED BY <1>20, <2>1, <2>2 DEF Spawn, Supersede, TypeOK, Steps
<1>21. CASE FailToStart
  BY <1>21 DEF FailToStart, TypeOK, procVars, Steps
<1>22. CASE WriteStart
  <2>1. row' \in PlayoutRuntime
    BY <1>22, StartedRowType DEF WriteStart, Write, TypeOK
  <2> QED BY <1>22, <2>1 DEF WriteStart, TypeOK, procVars, Steps
<1>23. CASE WriteStartFailed
  <2>1. row' \in PlayoutRuntime
    BY <1>23, StartFailedRowType DEF WriteStartFailed, Write, TypeOK
  <2> QED BY <1>23, <2>1, EndCycleType DEF WriteStartFailed, TypeOK, procVars
<1>24. CASE WriteCycleEnd
  <2>1. row' \in PlayoutRuntime
    BY <1>24, CycleEndRowType DEF WriteCycleEnd, Write, TypeOK
  <2> QED BY <1>24, <2>1, EndCycleType DEF WriteCycleEnd, TypeOK, procVars
<1> QED
  BY <1>1, <1>2, <1>3, <1>4, <1>5, <1>6, <1>7, <1>8, <1>9, <1>10, <1>11, <1>12, <1>13, <1>14,
     <1>15, <1>16, <1>17, <1>18, <1>19, <1>20, <1>21, <1>22, <1>23, <1>24 DEF CycleStep

LEMMA ExitType == TypeOK /\ ProcessExits => TypeOK'
<1> SUFFICES ASSUME TypeOK, NEW p \in alive, Exit(p) PROVE TypeOK'
  BY DEF ProcessExits
<1>1. CASE IsStale(p)
  BY <1>1 DEF Exit, TypeOK, cycleVars, envVars
<1>2. CASE ~IsStale(p)
  <2>1. PICK failed \in BOOLEAN, loop \in BOOLEAN : HandleExit(p, failed, loop)
    BY <1>2 DEF Exit
  <2> DEFINE x == [why |-> planned, failed |-> failed /\ planned = "",
                   loop |-> loop /\ failed /\ planned = "", live |-> p.kind = "live"]
  <2>2. x \in Exits
    BY DEF Exits, TypeOK
  <2>3. exitq' \in Seq(Exits)
    <3> HIDE DEF x
    <3>1. Append(exitq, x) \in Seq(Exits)
      BY <2>2 DEF TypeOK
    <3> QED BY <2>1, <3>1 DEF HandleExit, x
  <2>4. ended' \subseteq Nat
    <3>1. p.req \in Nat
      BY DEF TypeOK, Procs
    <3> QED BY <2>1, <3>1 DEF HandleExit, TypeOK
  <2>5. proc' = NoProc /\ planned' \in StopReasons
    BY <2>1 DEF HandleExit, StopReasons
  <2> QED BY <2>3, <2>4, <2>5 DEF Exit, TypeOK, cycleVars, envVars
<1> QED BY <1>1, <1>2

\* ... and so does each step of the other writers, of ffmpeg and of the failures.
LEMMA OtherStepType == TypeOK /\ [Next]_vars /\ ~CycleStep => TypeOK'
<1> SUFFICES ASSUME TypeOK, [Next]_vars, ~CycleStep PROVE TypeOK'
  OBVIOUS
<1>1. CASE CycleFails
  <2>1. outages' \in Nat
    BY <1>1 DEF CycleFails, TypeOK
  <2>2. CASE pc = "startwrite"
    BY <1>1, <2>1, <2>2 DEF CycleFails, GoTo, TypeOK, procVars, Steps
  <2>3. CASE pc # "startwrite"
    BY <1>1, <2>1, <2>3, EndCycleType DEF CycleFails, TypeOK, procVars
  <2> QED BY <2>2, <2>3
<1>2. CASE ContainerRestarts
  <2>1. planned' \in StopReasons /\ outages' = outages + 1
    BY <1>2 DEF ContainerRestarts, StopReasons
  <2>2. exitq' \in Seq(Exits)
    BY <1>2, EmptySeq DEF ContainerRestarts
  <2>3. outages' \in Nat
    BY <2>1 DEF TypeOK
  <2> QED BY <1>2, <2>1, <2>2, <2>3, EndCycleType DEF ContainerRestarts, TypeOK
<1>3. CASE ProcessExits
  BY <1>3, ExitType
<1>4. CASE ExitWriteCommits
  <2>1. Head(exitq) \in Exits /\ Tail(exitq) \in Seq(Exits)
    BY <1>4 DEF ExitWriteCommits, TypeOK
  <2> QED BY <1>4, <2>1, ExitRowType DEF ExitWriteCommits, TypeOK, cycleVars, envVars
<1>5. CASE ExitWriteRefused
  <2>1. Head(exitq) \in Exits /\ Tail(exitq) \in Seq(Exits)
    BY <1>5 DEF ExitWriteRefused, TypeOK
  <2> QED BY <1>5, <2>1 DEF ExitWriteRefused, TypeOK, cycleVars
<1>6. CASE PressRead
  <2>1. PICK type \in Actions, a \in MaybeAsset : op' = NewPress(type, a, clock + 1, row)
    BY <1>6 DEF PressRead
  <2>2. op' \in Presses
    BY <2>1, ActionsAreKnown DEF NewPress, Presses, TypeOK
  <2> QED BY <1>6, <2>2 DEF PressRead, TypeOK, cycleVars, procVars
<1>7. CASE PressWrite
  <2>1. op' \in Presses
    BY <1>7 DEF PressWrite, NoPress, Presses, OperatorActions, MaybeAsset
  <2> QED BY <1>7, <2>1, OperatorRowType DEF PressWrite, TypeOK, cycleVars, procVars
<1>8. CASE ApplySkipVote
  <2>1. row' \in PlayoutRuntime
    <3>1. PICK a \in Assets : row' = VoteRow(a, clock + 1, row)
      BY <1>8 DEF ApplySkipVote
    <3>2. a \in MaybeAsset /\ clock + 1 \in Nat
      BY DEF MaybeAsset, TypeOK
    <3> QED BY <3>1, <3>2 DEF VoteRow, TypeOK, PlayoutRuntime, Statuses
  <2> QED BY <1>8, <2>1 DEF ApplySkipVote, TypeOK, cycleVars, procVars
<1>9. CASE HoldRunsOut
  <2>1. row' \in PlayoutRuntime
    <3>1. /\ [row EXCEPT !.ovr = None] \in PlayoutRuntime
          /\ [row EXCEPT !.skip = None] \in PlayoutRuntime
          /\ [row EXCEPT !.rem = None] \in PlayoutRuntime
      BY DEF TypeOK, PlayoutRuntime, MaybeAsset
    <3> QED BY <1>9, <3>1 DEF HoldRunsOut
  <2> QED BY <1>9, <2>1 DEF HoldRunsOut, TypeOK, cycleVars, procVars, envVars
<1>10. CASE UNCHANGED vars
  BY <1>10 DEF vars, TypeOK, cycleVars, procVars, envVars
<1> QED BY <1>1, <1>2, <1>3, <1>4, <1>5, <1>6, <1>7, <1>8, <1>9, <1>10 DEF Next

\* The row, what the loop holds of it, the processes and the queued writes keep their types
\* under every interleaving of the loop, the admin, the votes, ffmpeg and the failures.
THEOREM TypeCorrect == Spec => []TypeOK
<1>1. TypeOK /\ [Next]_vars => TypeOK'
  BY CycleStepType, OtherStepType
<1> QED BY InitType, <1>1, PTL DEF Spec

---------------------------------------------------------------------------
(* One encoder *)

\* Every process is the one the handle names or an abandoned one, never both, and the handle is
\* free where the loop spawns: inductive, as OneEncoder alone is not (the late exit of an
\* abandoned process that were also the handle's, a spawn over a live handle).
ProcInv ==
    /\ Running => proc \in alive
    /\ abandoned \subseteq alive \ {proc}
    /\ OneEncoder
    /\ pc = "launch" => ~Running

\* A stop that is over, or that had nothing to do, leaves the handle free.
LEMMA StopThenProc ==
    ASSUME ProcInv, NEW why, NEW s, StopThen(why, s)
    PROVE  /\ UNCHANGED <<proc, alive, abandoned>>
           /\ pc' = "launch" => ~Running
BY DEF StopThen

LEMMA ProcInit == Init => ProcInv
BY DEF Init, ProcInv, OneEncoder, Running

LEMMA ProcNext == TypeOK /\ ProcInv /\ [Next]_vars => ProcInv'
<1> SUFFICES ASSUME TypeOK, ProcInv, [Next]_vars PROVE ProcInv'
  OBVIOUS
<1>1. ASSUME UNCHANGED <<proc, alive, abandoned>>, pc' = "launch" => pc = "launch" \/ ~Running
      PROVE  ProcInv'
  BY <1>1 DEF ProcInv, OneEncoder, Running
<1>2. CASE StartCycle \/ ReadState \/ RereadAfterExit \/ Select \/ DropHeldManualNext
           \/ CarryOutPendingAction \/ Prepare \/ Resolve \/ ResetCrashLoop \/ ClearRestartFlag
           \/ FailToStart \/ WriteStart
  BY <1>1, <1>2 DEF StartCycle, ReadState, RereadAfterExit, Select, DropHeldManualNext,
     CarryOutPendingAction, Prepare, Resolve, ResetCrashLoop, ClearRestartFlag, FailToStart,
     WriteStart, ReadFresh, GoTo, procVars
<1>3. CASE ReportNoDestination \/ DropUnpreparedInsert \/ WriteStartFailed \/ WriteCycleEnd
  BY <1>1, <1>3 DEF ReportNoDestination, DropUnpreparedInsert, WriteStartFailed, WriteCycleEnd,
     EndCycle, procVars
<1>4. CASE EnforceDurationBound \/ LoseDestination \/ CrashLoopGate \/ DecideRestart
           \/ ReplaceProcess
  <2>1. UNCHANGED <<proc, alive, abandoned>>
    BY <1>4, StopThenProc DEF EnforceDurationBound, LoseDestination, CrashLoopGate, DecideRestart,
       ReplaceProcess, procVars
  <2>2. pc' = "launch" => ~Running
    BY <1>4, StopThenProc DEF EnforceDurationBound, LoseDestination, CrashLoopGate, DecideRestart,
       ReplaceProcess, EndCycle, GoTo
  <2> QED BY <1>1, <2>1, <2>2
<1>5. CASE StopDone
  BY <1>1, <1>5 DEF StopDone, GoTo, procVars
<1>6. CASE StopDeadline
  <2>1. proc' = NoProc /\ alive' = alive /\ abandoned' = abandoned \cup {proc} /\ proc # NoProc
    BY <1>6 DEF StopDeadline, Running
  <2>2. NoProc \notin alive
    BY DEF TypeOK, NoProc, Procs
  <2> QED BY <2>1, <2>2 DEF ProcInv, OneEncoder, Running
<1>7. CASE Spawn
  <2>1. PICK id \in FreeIds : proc' = NewProc(id)
    BY <1>7 DEF Spawn
  <2>2. proc' \notin alive
    BY <2>1 DEF NewProc, FreeIds
  <2>3. alive' = alive \cup {proc'} /\ abandoned' = abandoned /\ proc = NoProc /\ pc' = "startwrite"
    BY <1>7 DEF Spawn, GoTo, ProcInv, Running
  <2>4. NoProc \notin alive
    BY DEF TypeOK, NoProc, Procs
  <2>5. abandoned' \subseteq alive' \ {proc'}
    BY <2>2, <2>3 DEF ProcInv
  <2>6. OneEncoder'
    BY <2>3, <2>4 DEF ProcInv, OneEncoder
  <2> QED BY <2>3, <2>5, <2>6 DEF ProcInv
<1>8. CASE ProcessExits
  <2>1. PICK p \in alive : Exit(p)
    BY <1>8 DEF ProcessExits
  <2>2. alive' = alive \ {p} /\ abandoned' = abandoned \ {p} /\ pc' = pc
    BY <2>1 DEF Exit, cycleVars
  <2>3. NoProc \notin alive
    BY DEF TypeOK, NoProc, Procs
  <2>4. CASE IsStale(p)
    <3>1. proc' = proc /\ proc # p
      BY <2>1, <2>4 DEF Exit, IsStale
    <3> QED BY <2>2, <3>1 DEF ProcInv, OneEncoder, Running
  <2>5. CASE ~IsStale(p)
    <3>1. proc' = NoProc
      BY <2>1, <2>5 DEF Exit, HandleExit
    <3>2. proc = p
      BY <2>5 DEF IsStale, ProcInv, OneEncoder
    <3> QED BY <2>2, <2>3, <3>1, <3>2 DEF ProcInv, OneEncoder, Running
  <2> QED BY <2>4, <2>5
<1>9. CASE CycleFails
  BY <1>1, <1>9 DEF CycleFails, EndCycle, GoTo, procVars
<1>10. CASE ContainerRestarts
  BY <1>10 DEF ContainerRestarts, EndCycle, ProcInv, OneEncoder, Running
<1>11. CASE ExitWriteCommits \/ ExitWriteRefused \/ PressRead \/ PressWrite \/ ApplySkipVote
            \/ HoldRunsOut \/ UNCHANGED vars
  BY <1>1, <1>11 DEF ExitWriteCommits, ExitWriteRefused, PressRead, PressWrite, ApplySkipVote,
     HoldRunsOut, vars, cycleVars, procVars
<1> QED
  BY <1>2, <1>3, <1>4, <1>5, <1>6, <1>7, <1>8, <1>9, <1>10, <1>11 DEF Next, CycleStep

\* The exit handler, the stop deadline and the spawn together never leave two encoders of which
\* the playout has not given one up, however many processes there are.
THEOREM OneEncoderAlways == Spec => []OneEncoder
<1>1. ProcInv => OneEncoder
  BY DEF ProcInv
<1> QED BY TypeCorrect, ProcInit, ProcNext, <1>1, PTL DEF Spec

---------------------------------------------------------------------------
(* What a step may do to the row *)

\* A write of the cycle goes by what the cycle has read: used once it has decided, st before.
Read(u) == u = st \/ (u = used /\ pc \in {"startwrite", "startfailed", "end"})

\* How a step may change the restart flag.
RestartChange ==
    \/ row'.restart = row.restart
    \/ row'.restart \in {clock, clock'}
    \/ op' # op /\ row'.restart \in {0, op.at}
    \/ row'.restart = 0 /\ pc = "clearflag"
    \/ row'.restart = 0 /\ pc \in {"startwrite", "end"} /\ row.restart \in {used.restart} \cup 0..proc.born

\* The released bridge stays, whatever the step.
ReleaseStep == row.live = "releasing" => row'.live # "active"

\* The Refresh and the rebuild on the row are cleared by a cycle that has read them.
ActionStep == row.act # {} /\ row'.act = {} => row.actReq \in {used.actReq, used'.actReq}

\* The pending insert is dropped by a press, or by a cycle that has read it.
InsertStep ==
    row.insSt = "pending" /\ row'.insReq # row.insReq /\ op' = op
        => \E u \in {st, used} : Read(u) /\ u.insReq = row.insReq

RowStep == RestartChange /\ ReleaseStep /\ ActionStep /\ InsertStep

LEMMA UnchangedRowStep == ASSUME row' = row PROVE RowStep
BY DEF RowStep, RestartChange, ReleaseStep, ActionStep, InsertStep

\* An edit that leaves the flag, the bridge, the action and the insert request alone.
PlainEdit(d) ==
    d.restart = row.restart /\ d.live = row.live /\ d.act = row.act /\ d.insReq = row.insReq

\* A step that leaves the flag, the bridge, the action and the insert request alone.
LEMMA PlainRowStep ==
    ASSUME row'.restart = row.restart, row'.live = row.live \/ row'.live # "active",
           row'.act = row.act, row'.insReq = row.insReq
    PROVE  RowStep
BY DEF RowStep, RestartChange, ReleaseStep, ActionStep, InsertStep

LEMMA KeptAppliedStep == ASSUME TypeOK, row' = KeptApplied PROVE RowStep
<1>1. CASE kept = <<>>
  BY <1>1, UnchangedRowStep DEF KeptApplied
<1>2. CASE kept # <<>>
  <2>1. row' = ExitRow(kept[1], row)
    BY <1>2 DEF KeptApplied
  <2>2. row'.restart = row.restart /\ Considerate(st, row, row') /\ Considerate(used, row, row')
    BY <2>1, ExitRowFrame DEF TypeOK
  <2> QED
    BY <2>2 DEF Considerate, RowStep, RestartChange, ReleaseStep, ActionStep, InsertStep, Read
<1> QED BY <1>1, <1>2

LEMMA DropInsertStep ==
    ASSUME TypeOK, row' = DropInsertOf(st, row) PROVE RowStep
<1>1. /\ row'.restart = row.restart /\ row'.live = row.live /\ row'.act = row.act
      /\ row'.insReq # row.insReq => st.insReq = row.insReq
  BY DropInsertOfFrame DEF TypeOK
<1> QED BY <1>1 DEF RowStep, RestartChange, ReleaseStep, ActionStep, InsertStep, Read

\* Every write of the loop, of the exit handler and of the other writers is such a step.
LEMMA EveryRowStep == TypeOK /\ [Next]_vars => RowStep
<1> SUFFICES ASSUME TypeOK, [Next]_vars PROVE RowStep
  OBVIOUS
<1>1. CASE row' = row
  BY <1>1, UnchangedRowStep
<1>2. CASE ReadState \/ RereadAfterExit
  BY <1>2, KeptAppliedStep DEF ReadState, RereadAfterExit, ReadFresh, WriteAndRead, Write
<1>3. CASE Select
  BY <1>3, UnchangedRowStep, DropInsertStep DEF Select, WriteAndRead, Write
<1>4. CASE DropHeldManualNext \/ CrashLoopGate \/ HoldRunsOut
  <2>1. /\ PlainEdit([row EXCEPT !.next = None]) /\ PlainEdit([row EXCEPT !.status = "degraded"])
        /\ PlainEdit([row EXCEPT !.ovr = None]) /\ PlainEdit([row EXCEPT !.skip = None])
        /\ PlainEdit([row EXCEPT !.rem = None])
    BY DEF PlainEdit, TypeOK, PlayoutRuntime
  <2>2. row' = row \/ PlainEdit(row')
    BY <1>4, <2>1 DEF DropHeldManualNext, CrashLoopGate, HoldRunsOut, WriteAndRead, Write
  <2> QED BY <1>1, <2>2, PlainRowStep DEF PlainEdit
<1>5. CASE ReportNoDestination
  <2> DEFINE c == DropInsertOf(st, row)
  <2>1. c \in PlayoutRuntime
    BY DropInsertOfType DEF TypeOK
  <2>2. /\ c.restart = row.restart /\ c.live = row.live /\ c.act = row.act
        /\ c.insReq # row.insReq => st.insReq = row.insReq
    BY DropInsertOfFrame DEF TypeOK
  <2>3. row' = [c EXCEPT !.status = "degraded", !.cur = None]
    BY <1>5 DEF ReportNoDestination, Write
  <2> HIDE DEF c
  <2>4. /\ row'.restart = row.restart /\ row'.live = row.live /\ row'.act = row.act
        /\ row'.insReq # row.insReq => st.insReq = row.insReq
    BY <2>1, <2>2, <2>3 DEF PlayoutRuntime
  <2> QED BY <2>4 DEF RowStep, RestartChange, ReleaseStep, ActionStep, InsertStep, Read
<1>6. CASE CarryOutPendingAction
  <2>1. used' = st /\ (row' = row \/ row' = ClearPendingAction(st, row))
    BY <1>6 DEF CarryOutPendingAction, WriteAndRead, Write
  <2>2. CASE row' = ClearPendingAction(st, row)
    <3>1. /\ row'.restart = row.restart /\ row'.live = row.live /\ row'.insReq = row.insReq
          /\ row.act # {} /\ row'.act = {} => used'.actReq = row.actReq
      BY <2>1, <2>2, ClearPendingActionFrame DEF TypeOK
    <3> QED BY <3>1 DEF RowStep, RestartChange, ReleaseStep, ActionStep, InsertStep
  <2> QED BY <1>1, <2>1, <2>2
<1>7. CASE DropUnpreparedInsert
  BY <1>1, <1>7, DropInsertStep DEF DropUnpreparedInsert, Write
<1>8. CASE ResetCrashLoop
  <2>1. /\ row'.restart = clock /\ row'.live = row.live /\ row'.act = row.act
        /\ row'.insReq = row.insReq
    BY <1>8 DEF ResetCrashLoop, WriteAndRead, Write, TypeOK, PlayoutRuntime
  <2> QED BY <2>1 DEF RowStep, RestartChange, ReleaseStep, ActionStep, InsertStep
<1>9. CASE ClearRestartFlag
  <2>1. /\ pc = "clearflag" /\ row'.live = row.live /\ row'.act = row.act
        /\ row'.insReq = row.insReq
        /\ row'.restart = RestartFlagAfter(used.restart, row.restart, 0)
    BY <1>9 DEF ClearRestartFlag, Write, TypeOK, PlayoutRuntime
  <2>2. row'.restart \in {0, row.restart}
    BY <2>1, RestartFlagType DEF TypeOK, PlayoutRuntime
  <2> QED BY <2>1, <2>2 DEF RowStep, RestartChange, ReleaseStep, ActionStep, InsertStep
<1>10. CASE WriteStart \/ WriteCycleEnd
  <2>1. pc \in {"startwrite", "end"}
    BY <1>10 DEF WriteStart, WriteCycleEnd
  <2>2. CASE row' # row
    <3>1. /\ row'.restart = RestartFlagAfter(used.restart, row.restart, proc.born)
          /\ Considerate(used, row, row')
      BY <1>10, <2>2, StartedRowFrame, CycleEndRowFrame DEF WriteStart, WriteCycleEnd, Write, TypeOK
    <3>2. \/ row'.restart = row.restart
          \/ row'.restart = 0 /\ row.restart \in {used.restart} \cup 0..proc.born
      <4>1. proc.born \in Nat /\ row.restart \in Nat
        BY DEF TypeOK, Procs, NoProc, PlayoutRuntime
      <4> QED BY <3>1, <4>1 DEF RestartFlagAfter
    <3> QED
      BY <2>1, <3>1, <3>2
         DEF Considerate, RowStep, RestartChange, ReleaseStep, ActionStep, InsertStep, Read
  <2> QED BY <1>1, <2>2
<1>11. CASE WriteStartFailed
  <2>1. /\ pc = "startfailed" /\ row'.restart = row.restart
        /\ Considerate(used, row, row')
    BY <1>11, StartFailedRowFrame DEF WriteStartFailed, Write, TypeOK
  <2> QED
    BY <2>1 DEF Considerate, RowStep, RestartChange, ReleaseStep, ActionStep, InsertStep, Read
<1>12. CASE ExitWriteCommits
  <2>1. /\ row'.restart = row.restart /\ Considerate(st, row, row') /\ Considerate(used, row, row')
    BY <1>12, ExitRowFrame DEF ExitWriteCommits, TypeOK
  <2> QED
    BY <2>1 DEF Considerate, RowStep, RestartChange, ReleaseStep, ActionStep, InsertStep, Read
<1>13. CASE PressWrite
  <2>1. op' # op /\ row' = OperatorRow(op, row)
    BY <1>13 DEF PressWrite
  <2> QED
    BY <2>1, OperatorRowFrame
       DEF TypeOK, RowStep, RestartChange, ReleaseStep, ActionStep, InsertStep
<1>14. CASE ApplySkipVote
  <2>1. PICK a \in Assets : row' = VoteRow(a, clock + 1, row) /\ clock' = clock + 1
    BY <1>14 DEF ApplySkipVote
  <2>2. /\ row'.restart = clock' /\ row'.live = row.live /\ row'.act = row.act
        /\ row'.insReq = row.insReq
    BY <2>1 DEF VoteRow, TypeOK, PlayoutRuntime
  <2> QED BY <2>2 DEF RowStep, RestartChange, ReleaseStep, ActionStep, InsertStep
<1>15. CASE StartCycle \/ EnforceDurationBound \/ LoseDestination \/ Prepare \/ Resolve
            \/ DecideRestart \/ ReplaceProcess \/ StopDone \/ StopDeadline \/ Spawn \/ FailToStart
  BY <1>1, <1>15 DEF StartCycle, EnforceDurationBound, LoseDestination, Prepare, Resolve,
     DecideRestart, ReplaceProcess, StopDone, StopDeadline, Spawn, FailToStart
<1>16. CASE CycleFails \/ ContainerRestarts \/ ProcessExits \/ ExitWriteRefused \/ PressRead
            \/ UNCHANGED vars
  BY <1>1, <1>16 DEF CycleFails, ContainerRestarts, ProcessExits, Exit, ExitWriteRefused,
     PressRead, vars
<1> QED
  BY <1>2, <1>3, <1>4, <1>5, <1>6, <1>7, <1>8, <1>9, <1>10, <1>11, <1>12, <1>13, <1>14, <1>15,
     <1>16 DEF Next, CycleStep

\* A released bridge is never made active by a write that does not know of the release.
THEOREM ReleaseAlwaysSticks == Spec => ReleaseSticks
<1>1. TypeOK /\ [Next]_vars => [row.live = "releasing" => row'.live # "active"]_vars
  BY EveryRowStep DEF RowStep, ReleaseStep
<1> QED BY <1>1, TypeCorrect, PTL DEF Spec, ReleaseSticks

\* A Refresh or rebuild is never cleared by a write of a cycle that did not read it.
THEOREM NoRequestIsLost == Spec => RequestedNotLost
<1>1. TypeOK /\ [Next]_vars
        => [row.act # {} /\ row'.act = {} => row.actReq \in {used.actReq, used'.actReq}]_vars
  BY EveryRowStep DEF RowStep, ActionStep
<1> QED BY <1>1, TypeCorrect, PTL DEF Spec, RequestedNotLost

---------------------------------------------------------------------------
(* The requests a cycle has decided on *)

\* The cycle has decided: what its writes may clear is fixed.
Decided ==
    \/ pc \in {"clearflag", "kept", "launch", "startwrite", "startfailed", "end"}
    \/ pc = "stopping" /\ then \in {"clearflag", "launch"}

\* No stamp is in the future.
Stamps ==
    /\ row.restart <= clock /\ st.restart <= clock /\ used.restart <= clock
    /\ op.at <= clock

\* What RestartIsHonoured and NewerInsertStands need of the states before a write: the decision
\* still tells what was read, and a restart that is carried out has left no older process.
DecidedInv ==
    /\ Decided => used.insReq = st.insReq
    /\ Decided => restarting = (used.restart # 0 /\ sel.kind # "live")
    /\ pc = "stopping" => then \in {"reread", "nodest", "reset", "clearflag", "launch"}
    /\ pc = "clearflag" => ~Running
    /\ pc \in {"startwrite", "end"} /\ restarting /\ Running => proc.born >= used.restart

LEMMA DecidedInit == Init => Stamps /\ DecidedInv
<1>1. EmptyRow.restart = 0 /\ NoPress.at = 0
  BY DEF EmptyRow, NoPress
<1>2. ASSUME Init PROVE Stamps
  <2>1. row = EmptyRow /\ st = EmptyRow /\ used = EmptyRow /\ op = NoPress /\ clock = 1
    BY <1>2 DEF Init
  <2> QED BY <1>1, <2>1 DEF Stamps
<1>3. ASSUME Init PROVE DecidedInv
  BY <1>3 DEF Init, DecidedInv, Decided, Running
<1> QED BY <1>2, <1>3

\* Where what the loop holds of the row, and a press, have their stamps from.
LEMMA StampSources ==
    ASSUME [Next]_vars
    PROVE  /\ clock' \in {clock, clock + 1}
           /\ st' \in {st, row', EmptyRow}
           /\ used' \in {used, EmptyRow, st, Consumed}
           /\ op' = op \/ op' = NoPress \/ op'.at = clock'
<1>1. CASE ReadState \/ RereadAfterExit
  BY <1>1 DEF ReadState, RereadAfterExit, ReadFresh, WriteAndRead, Write, envVars
<1>2. CASE Select \/ DropHeldManualNext \/ CarryOutPendingAction \/ ResetCrashLoop \/ DecideRestart
  BY <1>2 DEF Select, DropHeldManualNext, CarryOutPendingAction, ResetCrashLoop, DecideRestart,
     WriteAndRead, Write, envVars
<1>3. CASE ReportNoDestination \/ DropUnpreparedInsert \/ WriteStartFailed \/ WriteCycleEnd
           \/ CrashLoopGate \/ ReplaceProcess \/ CycleFails \/ ContainerRestarts
  <2>1. clock' = clock /\ op' = op
    BY <1>3 DEF ReportNoDestination, DropUnpreparedInsert, WriteStartFailed, WriteCycleEnd,
       CrashLoopGate, ReplaceProcess, CycleFails, ContainerRestarts, envVars
  <2>2. EndCycle \/ UNCHANGED <<st, used>>
    BY <1>3 DEF ReportNoDestination, DropUnpreparedInsert, WriteStartFailed, WriteCycleEnd,
       CrashLoopGate, ReplaceProcess, CycleFails, ContainerRestarts
  <2> QED BY <2>1, <2>2 DEF EndCycle
<1>4. CASE PressRead
  BY <1>4 DEF PressRead, NewPress, cycleVars
<1>5. CASE PressWrite \/ ApplySkipVote
  BY <1>5 DEF PressWrite, ApplySkipVote, cycleVars
<1>6. CASE ProcessExits \/ ExitWriteCommits \/ ExitWriteRefused \/ HoldRunsOut \/ UNCHANGED vars
  BY <1>6 DEF ProcessExits, Exit, ExitWriteCommits, ExitWriteRefused, HoldRunsOut, vars,
     cycleVars, envVars
<1>7. CASE StartCycle \/ EnforceDurationBound \/ LoseDestination \/ Prepare \/ Resolve
           \/ StopDone \/ StopDeadline \/ Spawn \/ FailToStart \/ ClearRestartFlag \/ WriteStart
  BY <1>7 DEF StartCycle, EnforceDurationBound, LoseDestination, Prepare, Resolve, StopDone,
     StopDeadline, Spawn, FailToStart, ClearRestartFlag, WriteStart, envVars
<1> QED BY <1>1, <1>2, <1>3, <1>4, <1>5, <1>6, <1>7 DEF Next, CycleStep

LEMMA StampsNext == TypeOK /\ Stamps /\ [Next]_vars => Stamps'
<1> SUFFICES ASSUME TypeOK, Stamps, [Next]_vars PROVE Stamps'
  OBVIOUS
<1>1. /\ row.restart \in Nat /\ st.restart \in Nat /\ used.restart \in Nat /\ op.at \in Nat
      /\ clock \in Nat
  BY DEF TypeOK, PlayoutRuntime, Presses
<1>2. clock' \in {clock, clock + 1}
  BY StampSources
<1>3. row'.restart <= clock'
  BY <1>1, <1>2, EveryRowStep DEF RowStep, RestartChange, Stamps
<1>4. EmptyRow.restart = 0 /\ NoPress.at = 0
  BY DEF EmptyRow, NoPress
<1>5. st'.restart <= clock'
  <2>1. st' \in {st, row', EmptyRow}
    BY StampSources
  <2> QED BY <1>1, <1>2, <1>3, <1>4, <2>1 DEF Stamps
<1>6. used'.restart <= clock'
  <2>1. Consumed.restart = st.restart
    BY DEF Consumed, TypeOK, PlayoutRuntime
  <2>2. used' \in {used, EmptyRow, st, Consumed}
    BY StampSources
  <2> QED BY <1>1, <1>2, <1>4, <2>1, <2>2 DEF Stamps
<1>7. op'.at <= clock'
  BY <1>1, <1>2, <1>4, StampSources DEF Stamps
<1> QED BY <1>3, <1>5, <1>6, <1>7 DEF Stamps

LEMMA DecidedNext == TypeOK /\ Stamps /\ DecidedInv /\ [Next]_vars => DecidedInv'
<1> SUFFICES ASSUME TypeOK, Stamps, DecidedInv, [Next]_vars PROVE DecidedInv'
  OBVIOUS
<1> USE DEF GoTo
\* the steps of a cycle that has not decided, and those that end one
<1>1. ASSUME pc' \notin {"clearflag", "kept", "launch", "startwrite", "startfailed", "end"},
             pc' = "stopping" => then' \in {"reread", "nodest", "reset"}
      PROVE  DecidedInv'
  BY <1>1 DEF DecidedInv, Decided
<1>2. CASE StartCycle \/ ReadState \/ RereadAfterExit \/ Select \/ DropHeldManualNext
           \/ CarryOutPendingAction \/ Prepare \/ Resolve \/ ResetCrashLoop
  BY <1>1, <1>2 DEF StartCycle, ReadState, RereadAfterExit, Select, DropHeldManualNext,
     CarryOutPendingAction, Prepare, Resolve, ResetCrashLoop
<1>3. CASE EnforceDurationBound \/ LoseDestination \/ CrashLoopGate
  BY <1>1, <1>3 DEF EnforceDurationBound, LoseDestination, CrashLoopGate, StopThen, EndCycle
<1>4. CASE ReportNoDestination \/ DropUnpreparedInsert \/ WriteStartFailed \/ WriteCycleEnd
           \/ ContainerRestarts
  BY <1>1, <1>4 DEF ReportNoDestination, DropUnpreparedInsert, WriteStartFailed, WriteCycleEnd,
     ContainerRestarts, EndCycle
\* the steps that leave the loop where it is; the handle may become free
<1>5. ASSUME UNCHANGED cycleVars, proc' = proc \/ proc' = NoProc
      PROVE  DecidedInv'
  BY <1>5 DEF cycleVars, DecidedInv, Decided, Running
<1>6. CASE ProcessExits
  BY <1>5, <1>6 DEF ProcessExits, Exit, HandleExit
<1>7. CASE ExitWriteCommits \/ ExitWriteRefused \/ PressRead \/ PressWrite \/ ApplySkipVote
           \/ HoldRunsOut \/ UNCHANGED vars
  BY <1>5, <1>7 DEF ExitWriteCommits, ExitWriteRefused, PressRead, PressWrite, ApplySkipVote,
     HoldRunsOut, vars, procVars
\* the steps of a cycle that decides or has decided
<1>8. CASE DecideRestart
  <2>1. used'.insReq = st.insReq /\ used'.restart = st.restart
    BY <1>8 DEF DecideRestart, Consumed, TypeOK, PlayoutRuntime
  <2>2. restarting' = (used'.restart # 0 /\ sel.kind # "live")
    BY <1>8, <2>1 DEF DecideRestart
  <2>3. st' = st /\ sel' = sel /\ proc' = proc
    BY <1>8 DEF DecideRestart, StopThen, procVars
  <2>4. \/ pc' = "kept"
        \/ pc' = "clearflag" /\ ~Running
        \/ pc' = "stopping" /\ then' = "clearflag"
    BY <1>8 DEF DecideRestart, StopThen
  <2> QED BY <2>1, <2>2, <2>3, <2>4 DEF DecidedInv, Decided, Running
<1>9. CASE ReplaceProcess
  <2>1. CASE EndCycle
    BY <1>1, <2>1 DEF EndCycle
  <2>2. CASE ~EndCycle
    <3>1. UNCHANGED <<st, sel, restarting, used>> /\ pc = "kept" /\ proc' = proc
      BY <1>9, <2>2 DEF ReplaceProcess, StopThen, procVars
    <3>2. \/ pc' = "end" /\ ~restarting
          \/ pc' = "launch"
          \/ pc' = "stopping" /\ then' = "launch"
      BY <1>9, <2>2 DEF ReplaceProcess, StopThen
    <3> QED BY <3>1, <3>2 DEF DecidedInv, Decided, Running
  <2> QED BY <2>1, <2>2
<1>10. CASE StopDone \/ StopDeadline
  <2>1. /\ UNCHANGED <<st, sel, restarting, used>> /\ pc = "stopping" /\ pc' = then
        /\ proc' = NoProc
    BY <1>10 DEF StopDone, StopDeadline, procVars, Running
  <2> QED BY <2>1 DEF DecidedInv, Decided, Running
<1>11. CASE Spawn
  <2>1. UNCHANGED <<st, sel, restarting, used>> /\ pc = "launch" /\ pc' = "startwrite"
    BY <1>11 DEF Spawn
  <2>2. proc'.born = clock
    BY <1>11 DEF Spawn, NewProc
  <2>3. used.restart \in Nat /\ clock \in Nat
    BY DEF TypeOK, PlayoutRuntime
  <2> QED BY <2>1, <2>2, <2>3 DEF DecidedInv, Decided, Running, Stamps
<1>12. CASE ClearRestartFlag \/ FailToStart \/ WriteStart
  <2>1. UNCHANGED <<st, sel, restarting, used, proc>>
    BY <1>12 DEF ClearRestartFlag, FailToStart, WriteStart, procVars
  <2>2. \/ pc = "clearflag" /\ pc' = "kept"
        \/ pc = "launch" /\ pc' = "startfailed"
        \/ pc = "startwrite" /\ pc' = "end"
    BY <1>12 DEF ClearRestartFlag, FailToStart, WriteStart
  <2> QED BY <2>1, <2>2 DEF DecidedInv, Decided, Running
<1>13. CASE CycleFails
  <2>1. CASE pc = "startwrite"
    <3>1. UNCHANGED <<st, sel, restarting, used, proc>> /\ pc' = "startfailed"
      BY <1>13, <2>1 DEF CycleFails, procVars
    <3> QED BY <2>1, <3>1 DEF DecidedInv, Decided, Running
  <2>2. CASE pc # "startwrite"
    BY <1>1, <1>13, <2>2 DEF CycleFails, EndCycle
  <2> QED BY <2>1, <2>2
<1> QED
  BY <1>2, <1>3, <1>4, <1>6, <1>7, <1>8, <1>9, <1>10, <1>11, <1>12, <1>13 DEF Next, CycleStep

LEMMA DecidedAlways == Spec => [](TypeOK /\ Stamps /\ DecidedInv)
BY InitType, DecidedInit, CycleStepType, OtherStepType, StampsNext, DecidedNext, PTL DEF Spec

\* A Restart, Skip or vote is never erased by a running cycle: while its flag is taken back, no
\* process from before it is on air.
THEOREM RestartsAreHonoured == Spec => RestartIsHonoured
<1>1. ASSUME TypeOK, Stamps, DecidedInv, [Next]_vars,
             row.restart # 0, row'.restart = 0, op' = op, sel.kind # "live"
      PROVE  ~Running \/ proc.born >= row.restart
  <2>1. row.restart \in Nat /\ proc.born \in Nat /\ used.restart \in Nat /\ clock \in Nat \ {0}
    BY <1>1 DEF TypeOK, PlayoutRuntime, Procs, NoProc
  <2>2. clock' # 0
    BY <1>1, <2>1, StampSources
  <2>3. CASE pc = "clearflag"
    BY <1>1, <2>3 DEF DecidedInv
  <2>4. CASE pc \in {"startwrite", "end"} /\ row.restart \in 0..proc.born
    BY <2>1, <2>4
  <2>5. CASE pc \in {"startwrite", "end"} /\ row.restart = used.restart
    BY <1>1, <2>5 DEF DecidedInv, Decided
  <2> QED BY <1>1, <2>1, <2>2, <2>3, <2>4, <2>5, EveryRowStep DEF RowStep, RestartChange
<1>2. TypeOK /\ Stamps /\ DecidedInv /\ [Next]_vars
        => [row.restart # 0 /\ row'.restart = 0 /\ op' = op /\ sel.kind # "live"
              => ~Running \/ proc.born >= row.restart]_vars
  BY <1>1
<1> QED BY <1>2, DecidedAlways, PTL DEF Spec, RestartIsHonoured

\* A Play now pressed while a cycle runs stands, whatever that cycle drops, fails or starts.
THEOREM NewerInsertsStand == Spec => NewerInsertStands
<1>1. ASSUME TypeOK, DecidedInv, [Next]_vars,
             row.insSt = "pending", row'.insReq # row.insReq, op' = op
      PROVE  st.insReq = row.insReq
  <2>1. PICK u \in {st, used} : Read(u) /\ u.insReq = row.insReq
    BY <1>1, EveryRowStep DEF RowStep, InsertStep
  <2> QED BY <1>1, <2>1 DEF Read, DecidedInv, Decided
<1>2. TypeOK /\ DecidedInv /\ [Next]_vars
        => [row.insSt = "pending" /\ row'.insReq # row.insReq /\ op' = op
              => st.insReq = row.insReq]_vars
  BY <1>1
<1> QED BY <1>2, DecidedAlways, PTL DEF Spec, NewerInsertStands


---------------------------------------------------------------------------
(* The item on air, on the row *)

\* A selection without an item is the bridge or the slate; the insert is named as one.
WellPicked(s) ==
    /\ s.asset = None <=> s.kind \in {"live", "standby"}
    /\ s.reason = "operator_insert" <=> s.kind = "insert"

\* What the row must have been for it to name what is on air after the next write: the process is the
\* one selected from its spawn to the cycle's last write, and outside of these two steps no exit
\* write is due that would clear the item of a process that runs. A start whose write failed is out of
\* step until a cycle has run through.
AirInv ==
    /\ WellPicked(sel)
    /\ Running => (proc.asset = None <=> proc.kind \in {"live", "standby"})
    /\ Running => kept = <<>>
    /\ pc = "nodest" => ~Running
    /\ pc \in {"startwrite", "end"} /\ Running =>
           proc.asset = sel.asset /\ (sel.asset = None => proc.kind = sel.kind)
    /\ pc \notin {"startwrite", "end"} /\ Running /\ synced => exitq = <<>> /\ row.cur = proc.asset

LEMMA CandidatesWell ==
    ASSUME NEW r \in PlayoutRuntime, NEW running
    PROVE  \A s \in Candidates(r, running) : WellPicked(s)
<1>1. WellPicked(LivePick) /\ WellPicked(StandbyPick)
  BY DEF WellPicked, LivePick, StandbyPick, Pick
<1>2. \A a, why : a # None /\ why # "operator_insert" => WellPicked(Pick("asset", a, why))
  BY DEF WellPicked, Pick
<1>3. r.ins # None => WellPicked(InsertPick(r))
  BY DEF WellPicked, InsertPick, Pick
<1>4. \A s \in AutomaticPicks(r) : WellPicked(s)
  BY <1>1, <1>2, NoneIsNoAsset DEF AutomaticPicks
<1> QED BY <1>1, <1>2, <1>3, <1>4 DEF Candidates, OverrideHold, InsertSelectable, ManualNextDue

\* A recovery names another item, or the slate.
LEMMA RecoveryWell ==
    /\ \A a \in Assets : WellPicked(Pick("asset", a, "recovery"))
    /\ \A s \in RecoveryPicks : WellPicked(s)
BY NoneIsNoAsset DEF RecoveryPicks, WellPicked, Pick, StandbyPick

\* Every other step leaves what the row names as on air: only the start of an item, the end of a
\* cycle, an exit and a lost destination write it.
LEMMA CurrentKept ==
    ASSUME TypeOK,
           \/ Select \/ DropHeldManualNext \/ DropUnpreparedInsert \/ CarryOutPendingAction \/ Prepare \/ Resolve
           \/ CrashLoopGate \/ ResetCrashLoop \/ ClearRestartFlag \/ DecideRestart \/ WriteStartFailed
           \/ PressRead \/ PressWrite \/ ApplySkipVote \/ HoldRunsOut
    PROVE  row'.cur = row.cur
<1>0. row \in PlayoutRuntime /\ op \in Presses
  BY DEF TypeOK
<1> DEFINE cleared == [row EXCEPT !.next = None]
           held == [row EXCEPT !.status = "degraded"]
           noOvr == [row EXCEPT !.ovr = None]
           noSkip == [row EXCEPT !.skip = None]
           noRem == [row EXCEPT !.rem = None]
<1>a. /\ cleared.cur = row.cur /\ held.cur = row.cur
      /\ noOvr.cur = row.cur /\ noSkip.cur = row.cur /\ noRem.cur = row.cur
  BY <1>0 DEF PlayoutRuntime
<1>b. /\ DropInsertOf(st, row).cur = row.cur /\ ClearPendingAction(st, row).cur = row.cur
      /\ StartFailedRow(sel, used, row).cur = row.cur /\ OperatorRow(op, row).cur = row.cur
      /\ \A a, t : VoteRow(a, t, row).cur = row.cur
  BY <1>0, CurrentOfRows
<1>3. CASE Select
  BY <1>b, <1>3 DEF Select, WriteAndRead, Write
<1>4. CASE DropHeldManualNext
  <2>1. row' = cleared \/ row' = row
    BY <1>4 DEF DropHeldManualNext, WriteAndRead, Write
  <2> QED BY <1>a, <2>1
<1>5. CASE DropUnpreparedInsert
  BY <1>b, <1>5 DEF DropUnpreparedInsert, Write
<1>6. CASE CarryOutPendingAction
  BY <1>b, <1>6 DEF CarryOutPendingAction, WriteAndRead, Write
<1>7. CASE CrashLoopGate
  <2>1. row' = held \/ row' = row
    BY <1>7 DEF CrashLoopGate, Write
  <2> QED BY <1>a, <2>1
<1>8. CASE ResetCrashLoop
  BY <1>0, <1>8 DEF ResetCrashLoop, WriteAndRead, Write, PlayoutRuntime
<1>9. CASE ClearRestartFlag
  BY <1>0, <1>9 DEF ClearRestartFlag, Write, PlayoutRuntime
<1>10. CASE WriteStartFailed
  BY <1>b, <1>10 DEF WriteStartFailed, Write
<1>11. CASE Prepare \/ Resolve \/ DecideRestart \/ PressRead
  BY <1>11 DEF Prepare, Resolve, DecideRestart, PressRead
<1>12. CASE PressWrite \/ ApplySkipVote
  BY <1>b, <1>12 DEF PressWrite, ApplySkipVote
<1>13. CASE HoldRunsOut
  <2>1. row' = noOvr \/ row' = noSkip \/ row' = noRem
    BY <1>13 DEF HoldRunsOut
  <2> QED BY <1>a, <2>1
<1> HIDE DEF cleared, held, noOvr, noSkip, noRem
<1> QED BY <1>3, <1>4, <1>5, <1>6, <1>7, <1>8, <1>9, <1>10, <1>11, <1>12, <1>13

LEMMA AirInit == Init => AirInv
<1>1. Init => sel = StandbyPick /\ proc = NoProc /\ pc = "idle"
  BY DEF Init
<1>2. WellPicked(StandbyPick)
  BY DEF WellPicked, StandbyPick, Pick
<1> QED BY <1>1, <1>2 DEF AirInv, Running

LEMMA AirNext == TypeOK /\ ProcInv /\ DecidedInv /\ AirInv /\ [Next]_vars => AirInv'
<1> SUFFICES ASSUME TypeOK, ProcInv, DecidedInv, AirInv, [Next]_vars PROVE AirInv'
  OBVIOUS
<1> USE DEF GoTo
<1>0. row \in PlayoutRuntime /\ st \in PlayoutRuntime /\ row' \in PlayoutRuntime
  BY CycleStepType, OtherStepType DEF TypeOK
\* the steps that end a cycle
<1>1. ASSUME EndCycle, UNCHANGED procVars, synced' => synced /\ pc \notin {"startwrite", "end"},
             row'.cur = row.cur \/ ~Running
      PROVE  AirInv'
  <2>1. pc' = "idle" /\ WellPicked(sel')
    BY <1>1 DEF EndCycle, WellPicked, StandbyPick, Pick
  <2> QED BY <1>1, <2>1 DEF AirInv, Running, procVars
\* the steps in the middle of one
<1>2. ASSUME UNCHANGED <<proc, kept, exitq, synced>>, row'.cur = row.cur, WellPicked(sel'),
             pc \notin {"startwrite", "end"}, pc' \notin {"startwrite", "end"}, pc' = "nodest" => ~Running
      PROVE  AirInv'
  BY <1>2 DEF AirInv, Running
<1>3. CASE StartCycle
  BY <1>2, <1>3 DEF StartCycle, procVars, AirInv
<1>4. CASE ReadState \/ RereadAfterExit
  <2>1. pc' \in {"bound", "select"} /\ kept' = <<>> /\ UNCHANGED <<proc, exitq, synced, sel>> /\ pc \in {"read", "reread"}
    BY <1>4 DEF ReadState, RereadAfterExit, ReadFresh
  <2>2. Running => row'.cur = row.cur
    BY <1>4 DEF AirInv, ReadState, RereadAfterExit, ReadFresh, WriteAndRead, Write, KeptApplied
  <2> QED BY <2>1, <2>2 DEF AirInv, Running
<1>5. CASE EnforceDurationBound \/ LoseDestination \/ StopDone
  <2>1. row'.cur = row.cur /\ UNCHANGED <<proc, kept, exitq, synced, sel>> /\ pc \in {"bound", "act", "stopping"}
    BY <1>5 DEF EnforceDurationBound, LoseDestination, StopDone, StopThen, procVars
  <2>2. pc' \in {"reread", "nodest", "stopping", "reset", "clearflag", "launch"} /\ (pc' = "nodest" => ~Running)
    BY <1>5 DEF EnforceDurationBound, LoseDestination, StopDone, StopThen, DecidedInv
  <2> QED BY <1>2, <2>1, <2>2 DEF AirInv
<1>6. CASE Select \/ DropHeldManualNext
  <2>1. UNCHANGED <<proc, kept, exitq, synced>> /\ pc' \in {"manual", "act"} /\ pc \in {"select", "reread", "manual"}
    BY <1>6 DEF Select, DropHeldManualNext, procVars
  <2>2. row'.cur = row.cur
    BY <1>6, CurrentKept
  <2>3. WellPicked(sel')
    BY <1>0, <1>6, CandidatesWell DEF Select, DropHeldManualNext, AirInv
  <2> QED BY <1>2, <2>1, <2>2, <2>3
<1>7. CASE CarryOutPendingAction \/ Prepare \/ Resolve \/ ResetCrashLoop \/ ClearRestartFlag \/ DecideRestart
  <2>1. /\ UNCHANGED <<proc, kept, exitq, synced>> /\ pc \in {"act", "prepare", "resolve", "reset", "clearflag", "decide"}
        /\ pc' \in {"prepare", "gate", "resolve", "dropinsert", "decide", "kept", "clearflag", "stopping"}
    BY <1>7 DEF CarryOutPendingAction, Prepare, Resolve, ResetCrashLoop, ClearRestartFlag, DecideRestart, StopThen, procVars
  <2>2. row'.cur = row.cur
    BY <1>7, CurrentKept
  <2>3. WellPicked(sel')
    BY <1>7, RecoveryWell DEF CarryOutPendingAction, Prepare, Resolve, ResetCrashLoop, ClearRestartFlag, DecideRestart, AirInv
  <2> QED BY <1>2, <2>1, <2>2, <2>3
<1>8. CASE ReportNoDestination
  BY <1>1, <1>8 DEF ReportNoDestination, AirInv
<1>9. CASE DropUnpreparedInsert \/ WriteStartFailed
  <2>1. row'.cur = row.cur
    BY <1>9, CurrentKept
  <2> QED BY <1>1, <1>9, <2>1 DEF DropUnpreparedInsert, WriteStartFailed
<1>10. CASE CrashLoopGate
  <2>1. row'.cur = row.cur /\ pc = "gate" /\ synced' = synced
    BY <1>10, CurrentKept DEF CrashLoopGate
  <2>2. CASE EndCycle /\ UNCHANGED procVars
    BY <1>1, <2>1, <2>2
  <2>3. CASE ~(EndCycle /\ UNCHANGED procVars)
    BY <1>2, <1>10, <2>1, <2>3 DEF CrashLoopGate, StopThen, procVars, AirInv
  <2> QED BY <2>2, <2>3
<1>11. CASE ReplaceProcess
  <2>1. row'.cur = row.cur /\ pc = "kept" /\ synced' = synced
    BY <1>11 DEF ReplaceProcess
  <2>2. CASE EndCycle /\ UNCHANGED procVars
    BY <1>1, <2>1, <2>2
  <2>3. CASE Running /\ Plays(proc, sel) /\ pc' = "end" /\ UNCHANGED <<sel, procVars>>
    <3>1. proc.asset = sel.asset /\ (sel.asset = None => proc.kind = sel.kind)
      BY <2>3 DEF Plays, AirInv, WellPicked
    <3> QED BY <2>1, <2>3, <3>1 DEF AirInv, Running, procVars
  <2>4. CASE StopThen("switch", "launch") /\ UNCHANGED sel
    BY <1>2, <2>1, <2>4 DEF StopThen, AirInv
  <2> QED BY <1>11, <2>2, <2>3, <2>4 DEF ReplaceProcess
<1>12. CASE StopDeadline
  <2>1. proc' = NoProc /\ UNCHANGED <<sel>> /\ pc' = then /\ pc = "stopping"
    BY <1>12 DEF StopDeadline
  <2> QED BY <2>1 DEF AirInv, Running
<1>13. CASE Spawn
  <2>1. PICK id \in FreeIds : proc' = NewProc(id)
    BY <1>13 DEF Spawn
  <2>2. kept' = <<>> /\ sel' = sel /\ pc' = "startwrite"
    BY <1>13 DEF Spawn, Supersede
  <2>3. proc'.asset = sel.asset /\ proc'.kind = sel.kind
    BY <2>1 DEF NewProc
  <2> QED BY <2>2, <2>3 DEF AirInv, WellPicked
<1>14. CASE FailToStart
  BY <1>2, <1>14 DEF FailToStart, procVars, AirInv
<1>15. CASE WriteStart
  BY <1>15 DEF WriteStart, AirInv, Running, procVars
<1>16. CASE WriteCycleEnd
  <2>1. row'.cur = sel.asset /\ exitq = <<>> /\ pc = "end" /\ UNCHANGED procVars
    BY <1>0, <1>16, CurrentOfRows DEF WriteCycleEnd, Write
  <2>2. pc' = "idle" /\ WellPicked(sel')
    BY <1>16 DEF WriteCycleEnd, EndCycle, WellPicked, StandbyPick, Pick
  <2> QED BY <2>1, <2>2 DEF AirInv, Running, procVars
<1>17. CASE ProcessExits
  <2>1. PICK p \in alive : Exit(p)
    BY <1>17 DEF ProcessExits
  <2>2. CASE IsStale(p)
    BY <2>1, <2>2 DEF Exit, AirInv, Running, cycleVars
  <2>3. CASE ~IsStale(p)
    BY <2>1, <2>3 DEF Exit, HandleExit, AirInv, Running, cycleVars
  <2> QED BY <2>2, <2>3
<1>18. CASE ExitWriteCommits
  BY <1>18 DEF ExitWriteCommits, AirInv, Running, cycleVars
<1>19. CASE ExitWriteRefused
  BY <1>19 DEF ExitWriteRefused, AirInv, Running, cycleVars
<1>20. CASE CycleFails
  <2>1. CASE pc = "startwrite"
    BY <1>20, <2>1 DEF CycleFails, AirInv, Running, procVars
  <2>2. CASE pc # "startwrite"
    BY <1>1, <1>20, <2>2 DEF CycleFails
  <2> QED BY <2>1, <2>2
<1>21. CASE ContainerRestarts
  BY <1>21 DEF ContainerRestarts, EndCycle, AirInv, Running, WellPicked, StandbyPick, Pick
<1>22. CASE PressRead \/ PressWrite \/ ApplySkipVote \/ HoldRunsOut \/ UNCHANGED vars
  <2>1. UNCHANGED <<pc, sel, proc, kept, exitq, synced>>
    BY <1>22 DEF PressRead, PressWrite, ApplySkipVote, HoldRunsOut, vars, cycleVars, procVars
  <2>2. row'.cur = row.cur
    BY <1>22, CurrentKept DEF vars
  <2> QED BY <2>1, <2>2 DEF AirInv, Running
<1> QED
  BY <1>3, <1>4, <1>5, <1>6, <1>7, <1>8, <1>9, <1>10, <1>11, <1>12, <1>13, <1>14, <1>15, <1>16,
     <1>17, <1>18, <1>19, <1>20, <1>21, <1>22 DEF Next, CycleStep

LEMMA AirAlways == Spec => [](TypeOK /\ Stamps /\ DecidedInv /\ ProcInv /\ AirInv)
BY InitType, ProcInit, DecidedInit, AirInit, CycleStepType, OtherStepType, ProcNext, StampsNext, DecidedNext,
   AirNext, PTL DEF Spec

\* Whenever a cycle may read the row with every write in, it names the item that is on air, whatever
\* ended, was abandoned, refused or kept for later in between.
THEOREM RowAlwaysDescribesAir == Spec => []RowDescribesAir
<1>1. AirInv => RowDescribesAir
  BY DEF AirInv, RowDescribesAir, Settled
<1> QED BY <1>1, AirAlways, PTL



---------------------------------------------------------------------------
(* The insert under the Live Bridge *)

\* What a step does to the insert of the row: it leaves it, takes it off, puts a new one up (Play now),
\* or, at the end of a cycle that plays it, makes it active.
InsertWrite ==
    \/ SameInsert(row, row')
    \/ NoInsert(row, row')
    \/ /\ PressWrite /\ op.type = "play_now" /\ row'.next \in {None, row.next}
       /\ row'.ins = op.asset /\ row'.insReq = op.at /\ row'.insSt = "pending"
    \/ /\ WriteCycleEnd /\ row'.next \in {None, row.next}
       /\ row'.ins = row.ins /\ row'.insReq = row.insReq
       /\ \/ row'.insSt = row.insSt
          \/ sel.reason = "operator_insert" /\ row.ins = sel.asset /\ row'.insSt = "active"

LEMMA EveryInsertWrite == TypeOK /\ op.type # "move_next" /\ [Next]_vars => InsertWrite
<1> SUFFICES ASSUME TypeOK, op.type # "move_next", [Next]_vars PROVE InsertWrite
  OBVIOUS
<1>0. row \in PlayoutRuntime /\ op \in Presses
  BY DEF TypeOK
<1>1. ASSUME row' = row PROVE InsertWrite
  BY <1>1 DEF InsertWrite, SameInsert
<1>3. CASE ReadState \/ RereadAfterExit
  <2>1. row' = row \/ \E x : row' = ExitRow(x, row)
    BY <1>3 DEF ReadState, RereadAfterExit, ReadFresh, WriteAndRead, Write, KeptApplied
  <2> QED BY <1>0, <1>1, <2>1, InsertOfExit DEF InsertWrite
<1>4. CASE Select \/ DropUnpreparedInsert
  <2>1. row' = row \/ row' = DropInsertOf(st, row)
    BY <1>4 DEF Select, DropUnpreparedInsert, WriteAndRead, Write
  <2> QED BY <1>0, <1>1, <2>1, InsertDropped DEF InsertWrite
<1>5. CASE DropHeldManualNext \/ CrashLoopGate \/ ResetCrashLoop \/ ClearRestartFlag \/ HoldRunsOut
  <2> DEFINE a == [row EXCEPT !.next = None]
             b == [row EXCEPT !.status = "degraded"]
             c == [row EXCEPT !.crash = FALSE, !.restart = clock, !.status = "up"]
             e == [row EXCEPT !.crash = FALSE, !.restart = RestartFlagAfter(used.restart, @, 0)]
             f == [row EXCEPT !.ovr = None]
             g == [row EXCEPT !.skip = None]
             h == [row EXCEPT !.rem = None]
  <2>1. row' = row \/ row' = a \/ row' = b \/ row' = c \/ row' = e \/ row' = f \/ row' = g \/ row' = h
    BY <1>5 DEF DropHeldManualNext, CrashLoopGate, ResetCrashLoop, ClearRestartFlag, HoldRunsOut,
       WriteAndRead, Write
  <2>2. /\ SameInsert(row, a) /\ SameInsert(row, b) /\ SameInsert(row, c) /\ SameInsert(row, e)
        /\ SameInsert(row, f) /\ SameInsert(row, g) /\ SameInsert(row, h)
    BY <1>0 DEF SameInsert, PlayoutRuntime
  <2> HIDE DEF a, b, c, e, f, g, h
  <2> QED BY <1>1, <2>1, <2>2 DEF InsertWrite
<1>6. CASE ReportNoDestination
  <2> DEFINE c == DropInsertOf(st, row)
  <2>1. c \in PlayoutRuntime /\ (NoInsert(row, c) \/ SameInsert(row, c))
    BY <1>0, DropInsertOfType, InsertDropped DEF SameInsert
  <2>2. row' = [c EXCEPT !.status = "degraded", !.cur = None]
    BY <1>6 DEF ReportNoDestination, Write
  <2> HIDE DEF c
  <2>3. row'.ins = c.ins /\ row'.insReq = c.insReq /\ row'.insSt = c.insSt /\ row'.next = c.next
    BY <2>1, <2>2 DEF PlayoutRuntime
  <2> QED BY <2>1, <2>3, Zenon DEF InsertWrite, SameInsert, NoInsert, HasInsert
<1>7. CASE CarryOutPendingAction
  BY <1>0, <1>1, <1>7, InsertOfClearedAction DEF CarryOutPendingAction, WriteAndRead, Write, InsertWrite
<1>8. CASE WriteStart
  BY <1>0, <1>1, <1>8, InsertOfStartedRow DEF WriteStart, Write, InsertWrite
<1>9. CASE WriteStartFailed
  BY <1>0, <1>9, InsertOfFailedStart DEF WriteStartFailed, Write, InsertWrite
<1>10. CASE WriteCycleEnd
  <2>1. row' = CycleEndRow(sel, used, Running, proc.born, row)
    BY <1>10 DEF WriteCycleEnd, Write
  <2> HIDE DEF CycleEndRow
  <2> QED BY <1>0, <1>10, <2>1, InsertOfCycleEnd DEF InsertWrite
<1>11. CASE ExitWriteCommits
  BY <1>0, <1>11, InsertOfExit DEF ExitWriteCommits, InsertWrite
<1>12. CASE PressWrite
  <2>1. row' = OperatorRow(op, row)
    BY <1>12 DEF PressWrite
  <2> QED BY <1>0, <1>12, <2>1, InsertOfPress DEF InsertWrite
<1>13. CASE ApplySkipVote
  BY <1>0, <1>13, InsertOfVote DEF ApplySkipVote, InsertWrite
<1>14. CASE \/ StartCycle \/ EnforceDurationBound \/ LoseDestination \/ Prepare \/ Resolve \/ DecideRestart
            \/ ReplaceProcess \/ StopDone \/ StopDeadline \/ Spawn \/ FailToStart
            \/ CycleFails \/ ContainerRestarts \/ ProcessExits \/ ExitWriteRefused \/ PressRead
            \/ UNCHANGED vars
  <2>1. row' = row
    BY <1>14 DEF StartCycle, EnforceDurationBound, LoseDestination, Prepare, Resolve, DecideRestart,
       ReplaceProcess, StopDone, StopDeadline, Spawn, FailToStart, CycleFails, ContainerRestarts,
       ProcessExits, Exit, ExitWriteRefused, PressRead, vars
  <2> QED BY <1>1, <2>1
<1> QED
  BY <1>3, <1>4, <1>5, <1>6, <1>7, <1>8, <1>9, <1>10, <1>11, <1>12, <1>13, <1>14 DEF Next, CycleStep


\* The cycle has read the row and not selected yet.
Reading == pc \in {"bound", "reread", "select"} \/ (pc = "stopping" /\ then = "reread")

\* What of the loop tells where a selection of the bridge, the row a cycle selects from and a bridge on
\* air have come from.
LoopStep ==
    /\ sel' = sel \/ sel'.kind # "live" \/ Select \/ DropHeldManualNext
    /\ Reading' => (Reading /\ st' = st /\ pc # "end") \/ st' = row'
    /\ pc' \notin {"startwrite", "end"} /\ Running' /\ synced' =>
           proc' = proc /\ ((pc \notin {"startwrite", "end"} /\ synced) \/ WriteCycleEnd)

LEMMA EveryLoopStep == TypeOK /\ DecidedInv /\ [Next]_vars => LoopStep
<1> SUFFICES ASSUME TypeOK, DecidedInv, [Next]_vars PROVE LoopStep
  OBVIOUS
<1> USE DEF GoTo
<1>1. ASSUME EndCycle, UNCHANGED proc, synced' => synced /\ pc \notin {"startwrite", "end"} PROVE LoopStep
  <2>1. sel'.kind = "standby" /\ pc' = "idle"
    BY <1>1 DEF EndCycle, StandbyPick, Pick
  <2> QED BY <1>1, <2>1 DEF LoopStep, Reading, Running
<1>2. ASSUME UNCHANGED <<proc, synced>>, sel' = sel \/ sel'.kind # "live" \/ Select \/ DropHeldManualNext,
             pc \notin {"startwrite", "end"}, Reading' => (Reading /\ st' = st) \/ st' = row'
      PROVE  LoopStep
  BY <1>2 DEF LoopStep, Reading
<1>3. CASE StartCycle \/ ReadState \/ RereadAfterExit \/ EnforceDurationBound \/ StopDone \/ LoseDestination
  <2>1. UNCHANGED <<proc, synced, sel>> /\ pc \notin {"startwrite", "end"}
    BY <1>3 DEF StartCycle, ReadState, RereadAfterExit, ReadFresh, EnforceDurationBound, StopDone,
       LoseDestination, StopThen, procVars
  <2>2. CASE ReadState \/ RereadAfterExit
    BY <1>2, <2>1, <2>2 DEF ReadState, RereadAfterExit, ReadFresh, WriteAndRead, Write
  <2>3. CASE StartCycle \/ EnforceDurationBound \/ StopDone \/ LoseDestination
    <3>1. st' = st /\ (Reading' => Reading)
      BY <2>3 DEF StartCycle, EnforceDurationBound, StopDone, LoseDestination, StopThen, Reading, DecidedInv
    <3> QED BY <1>2, <2>1, <3>1
  <2> QED BY <1>3, <2>2, <2>3
<1>4. CASE Select \/ DropHeldManualNext
  <2>1. UNCHANGED <<proc, synced>> /\ pc' \in {"manual", "act"} /\ pc \in {"select", "reread", "manual"}
    BY <1>4 DEF Select, DropHeldManualNext, procVars
  <2> QED BY <1>2, <1>4, <2>1 DEF Reading
<1>5. CASE CarryOutPendingAction \/ Prepare \/ Resolve \/ ResetCrashLoop \/ ClearRestartFlag \/ DecideRestart
  <2>1. /\ UNCHANGED <<proc, synced>> /\ pc \in {"act", "prepare", "resolve", "reset", "clearflag", "decide"}
        /\ pc' \in {"prepare", "gate", "resolve", "dropinsert", "decide", "kept", "clearflag", "stopping"}
        /\ pc' = "stopping" => then' = "clearflag"
    BY <1>5 DEF CarryOutPendingAction, Prepare, Resolve, ResetCrashLoop, ClearRestartFlag, DecideRestart, StopThen, procVars
  <2>2. \A a : Pick("asset", a, "recovery").kind # "live"
    BY DEF Pick
  <2>3. StandbyPick.kind # "live"
    BY DEF StandbyPick, Pick
  <2>4. sel' = sel \/ sel'.kind # "live"
    BY <1>5, <2>2, <2>3 DEF CarryOutPendingAction, Prepare, Resolve, RecoveryPicks, ResetCrashLoop,
       ClearRestartFlag, DecideRestart
  <2> QED BY <1>2, <2>1, <2>4 DEF Reading
<1>6. CASE ReportNoDestination \/ DropUnpreparedInsert
  BY <1>1, <1>6 DEF ReportNoDestination, DropUnpreparedInsert, procVars
<1>7. CASE WriteStartFailed
  BY <1>1, <1>7 DEF WriteStartFailed, procVars
<1>8. CASE CrashLoopGate
  <2>1. pc = "gate" /\ synced' = synced
    BY <1>8 DEF CrashLoopGate
  <2>2. CASE EndCycle /\ UNCHANGED procVars
    BY <1>1, <2>1, <2>2 DEF procVars
  <2>3. CASE ~(EndCycle /\ UNCHANGED procVars)
    <3>1. UNCHANGED <<proc, sel>> /\ ~Reading'
      BY <1>8, <2>3 DEF CrashLoopGate, StopThen, procVars, Reading
    <3> QED BY <1>2, <2>1, <3>1
  <2> QED BY <2>2, <2>3
<1>9. CASE ReplaceProcess
  <2>1. pc = "kept" /\ synced' = synced
    BY <1>9 DEF ReplaceProcess
  <2>2. CASE EndCycle /\ UNCHANGED procVars
    BY <1>1, <2>1, <2>2 DEF procVars
  <2>3. CASE ~(EndCycle /\ UNCHANGED procVars)
    <3>1. UNCHANGED <<proc, sel>> /\ ~Reading'
      BY <1>9, <2>3 DEF ReplaceProcess, StopThen, procVars, Reading
    <3> QED BY <1>2, <2>1, <3>1
  <2> QED BY <2>2, <2>3
<1>10. CASE StopDeadline
  <2>1. /\ proc' = NoProc /\ UNCHANGED <<sel, st>> /\ pc' = then /\ pc = "stopping" /\ then' = "idle"
    BY <1>10 DEF StopDeadline
  <2>2. Reading' => Reading
    BY <2>1 DEF Reading, DecidedInv
  <2> QED BY <2>1, <2>2 DEF LoopStep, Running
<1>11. CASE Spawn \/ FailToStart \/ WriteStart
  <2>1. sel' = sel /\ pc' \in {"startwrite", "startfailed", "end"} /\ synced' = synced /\ pc \in {"launch", "startwrite"}
        /\ (pc' = "startfailed" => proc' = proc /\ pc = "launch")
    BY <1>11 DEF Spawn, FailToStart, WriteStart, procVars
  <2> QED BY <2>1 DEF LoopStep, Reading
<1>12. CASE WriteCycleEnd
  <2>1. sel'.kind = "standby" /\ pc' = "idle" /\ proc' = proc
    BY <1>12 DEF WriteCycleEnd, EndCycle, StandbyPick, Pick, procVars
  <2> QED BY <1>12, <2>1 DEF LoopStep, Reading
<1>13. CASE ProcessExits
  <2>1. UNCHANGED <<cycleVars, synced>> /\ (proc' = proc \/ proc' = NoProc)
    BY <1>13 DEF ProcessExits, Exit, HandleExit
  <2> QED BY <2>1 DEF LoopStep, Reading, Running, cycleVars
<1>14. CASE ExitWriteCommits \/ ExitWriteRefused \/ PressRead \/ PressWrite \/ ApplySkipVote \/ HoldRunsOut
            \/ UNCHANGED vars
  <2>1. UNCHANGED <<cycleVars, synced, proc>>
    BY <1>14 DEF ExitWriteCommits, ExitWriteRefused, PressRead, PressWrite, ApplySkipVote, HoldRunsOut,
       vars, procVars
  <2> QED BY <2>1 DEF LoopStep, Reading, Running, cycleVars
<1>15. CASE CycleFails
  <2>1. ~synced'
    BY <1>15 DEF CycleFails
  <2>2. (pc' = "startfailed" /\ sel' = sel) \/ EndCycle
    BY <1>15 DEF CycleFails
  <2>3. EndCycle => sel'.kind = "standby" /\ pc' = "idle"
    BY DEF EndCycle, StandbyPick, Pick
  <2> QED BY <2>1, <2>2, <2>3 DEF LoopStep, Reading
<1>16. CASE ContainerRestarts
  <2>1. sel'.kind = "standby" /\ pc' = "idle" /\ proc' = NoProc
    BY <1>16 DEF ContainerRestarts, EndCycle, StandbyPick, Pick
  <2> QED BY <2>1 DEF LoopStep, Reading, Running
<1> QED
  BY <1>3, <1>4, <1>5, <1>6, <1>7, <1>8, <1>9, <1>10, <1>11, <1>12, <1>13, <1>14, <1>15, <1>16
     DEF Next, CycleStep

LEMMA OnlyPressReads == [Next]_vars => PressRead \/ op' \in {op, NoPress}
BY DEF Next, CycleStep, StartCycle, ReadState, EnforceDurationBound, RereadAfterExit, Select,
   DropHeldManualNext, LoseDestination, ReportNoDestination, CarryOutPendingAction, Prepare, Resolve,
   DropUnpreparedInsert, CrashLoopGate, ResetCrashLoop, DecideRestart, ClearRestartFlag,
   ReplaceProcess, StopDone, StopDeadline, Spawn, FailToStart, WriteStart, WriteStartFailed,
   WriteCycleEnd, CycleFails, ContainerRestarts, ProcessExits, Exit, ExitWriteCommits,
   ExitWriteRefused, ApplySkipVote, HoldRunsOut, PressWrite, vars, envVars

\* An active insert is the one the cycle has read until it selects, and stays so under no selection of the
\* bridge; without a next item (Move next) the selection is made from the row the insert was dropped from.
BridgeInv ==
    /\ row.next = None /\ st.next = None /\ op.type # "move_next"
    /\ Reading /\ row.insSt = "active" => HasInsert(st) /\ SameRequest(st, row)
    /\ sel.kind = "live" => row.insSt # "active"
    /\ pc \notin {"startwrite", "end"} /\ Running /\ synced /\ proc.kind = "live" => row.insSt # "active"

LEMMA BridgeInit == Init => BridgeInv
<1> SUFFICES ASSUME Init PROVE BridgeInv
  OBVIOUS
<1>1. row = EmptyRow /\ st = EmptyRow /\ op = NoPress /\ sel = StandbyPick /\ pc = "idle" /\ proc = NoProc
  BY DEF Init
<1>2. EmptyRow.next = None /\ NoPress.type = "restart" /\ StandbyPick.kind = "standby"
  BY DEF EmptyRow, NoPress, StandbyPick, Pick
<1> QED BY <1>1, <1>2 DEF BridgeInv, Reading, Running

LEMMA BridgeNext ==
    ASSUME "move_next" \notin Actions, TypeOK, DecidedInv, AirInv, BridgeInv, [Next]_vars
    PROVE  BridgeInv'
<1> USE DEF GoTo
<1>0. row \in PlayoutRuntime /\ st \in PlayoutRuntime /\ InsertWrite /\ LoopStep
  BY EveryInsertWrite, EveryLoopStep DEF TypeOK, BridgeInv
<1>1. row'.next = None
  BY <1>0 DEF InsertWrite, SameInsert, NoInsert, BridgeInv
<1>2. st'.next = None
  <2>1. EmptyRow.next = None
    BY DEF EmptyRow
  <2> QED BY <1>1, <2>1, StampSources DEF BridgeInv
<1>3. op'.type # "move_next"
  <2>1. NoPress.type = "restart"
    BY DEF NoPress
  <2>2. CASE PressRead
    BY <2>2 DEF PressRead, NewPress
  <2> QED BY <2>1, <2>2, OnlyPressReads DEF BridgeInv
\* where an active insert comes from
<1>4. row'.insSt = "active" =>
        \/ row.insSt = "active" /\ row'.ins = row.ins /\ row'.insReq = row.insReq
        \/ WriteCycleEnd /\ sel.reason = "operator_insert"
  BY <1>0 DEF InsertWrite, SameInsert, NoInsert
<1>5. WriteCycleEnd => pc = "end" /\ sel'.kind = "standby" /\ proc' = proc
  BY DEF WriteCycleEnd, EndCycle, StandbyPick, Pick, procVars
<1>6. Reading' /\ row'.insSt = "active" => HasInsert(st') /\ SameRequest(st', row')
  <2> SUFFICES ASSUME Reading', row'.insSt = "active" PROVE HasInsert(st') /\ SameRequest(st', row')
    OBVIOUS
  <2>1. CASE st' = row'
    <3>1. HasInsert(row')
      BY Zenon DEF HasInsert
    <3> QED BY <2>1, <3>1 DEF SameRequest
  <2>2. CASE Reading /\ st' = st /\ pc # "end"
    BY <1>4, <1>5, <2>2 DEF BridgeInv, SameRequest
  <2> QED BY <1>0, <2>1, <2>2 DEF LoopStep
<1>7. sel'.kind = "live" => row'.insSt # "active"
  <2>1. CASE sel' = sel
    BY <1>4, <1>5, <2>1 DEF BridgeInv
  <2>2. CASE Select
    <3> SUFFICES ASSUME sel'.kind = "live" PROVE row'.insSt # "active"
      OBVIOUS
    <3>1. Reading
      BY <2>2 DEF Select, Reading
    <3>2. PICK s \in Candidates(st, Running) :
             IF InsertGivesWay(st, s)
             THEN WriteAndRead(DropInsertOf(st, row)) /\ sel' \in Candidates(row', Running)
             ELSE sel' = s /\ UNCHANGED <<row, st>>
      BY <2>2 DEF Select
    <3>3. CASE InsertGivesWay(st, s)
      <4>1. row' = DropInsertOf(st, row)
        BY <3>2, <3>3 DEF WriteAndRead, Write
      <4>2. CASE row.insSt = "active"
        BY <1>0, <3>1, <4>1, <4>2, InsertDropped DEF BridgeInv, NoInsert
      <4>3. CASE row.insSt # "active"
        BY <1>0, <4>1, <4>3, InsertDropped DEF NoInsert
      <4> QED BY <4>2, <4>3
    <3>4. CASE ~InsertGivesWay(st, s)
      <4>1. s.reason # "operator_insert" /\ row' = row
        BY <1>0, <3>2, <3>4, PickOfCandidates
      <4>2. ~HasInsert(st)
        BY <3>4, <4>1, Zenon DEF InsertGivesWay, HasInsert
      <4> QED BY <3>1, <4>1, <4>2 DEF BridgeInv
    <3> QED BY <3>3, <3>4
  <2>3. CASE DropHeldManualNext
    <3>1. sel' = sel
      BY <2>3 DEF DropHeldManualNext, BridgeInv
    <3> QED BY <2>1, <3>1
  <2> QED BY <1>0, <2>1, <2>2, <2>3 DEF LoopStep
<1>8. pc' \notin {"startwrite", "end"} /\ Running' /\ synced' /\ proc'.kind = "live" => row'.insSt # "active"
  <2> SUFFICES ASSUME pc' \notin {"startwrite", "end"}, Running', synced', proc'.kind = "live"
               PROVE  row'.insSt # "active"
    OBVIOUS
  <2>1. proc' = proc
    BY <1>0 DEF LoopStep
  <2>2. CASE pc \notin {"startwrite", "end"} /\ synced
    BY <1>4, <1>5, <2>1, <2>2 DEF BridgeInv, Running
  <2>3. CASE WriteCycleEnd
    <3>1. proc.asset = None /\ sel.asset = None /\ sel.kind = "live"
      BY <1>5, <2>1, <2>3 DEF AirInv, Running
    <3>2. sel.reason # "operator_insert" /\ row.insSt # "active"
      BY <3>1 DEF AirInv, WellPicked, BridgeInv
    <3> QED BY <1>4, <3>2
  <2> QED BY <1>0, <2>2, <2>3 DEF LoopStep
<1> QED BY <1>1, <1>2, <1>3, <1>6, <1>7, <1>8 DEF BridgeInv



---------------------------------------------------------------------------
(* The insert that has ended on air *)

\* An exit: a stale one leaves everything, that of the process on air frees the handle and queues its
\* write, and the insert the row shows has ended when it has run its course.
LEMMA ExitStep ==
    ASSUME TypeOK, ProcInv, ProcessExits
    PROVE  /\ UNCHANGED <<row, cycleVars, kept, envVars, synced>>
           /\ \/ UNCHANGED <<proc, exitq, ended>>
              \/ /\ Running /\ proc' = NoProc
                 /\ \E x : /\ exitq' = Append(exitq, x)
                           /\ \/ ended' = ended
                              \/ /\ ended' = ended \cup {row.insReq} /\ EndsItem(x.why)
                                 /\ row.insSt = "active" /\ row.cur = row.ins /\ pc # "startwrite"
<1>1. PICK p \in alive : Exit(p)
  BY DEF ProcessExits
<1>2. UNCHANGED <<row, cycleVars, kept, envVars, synced>>
  BY <1>1 DEF Exit
<1>3. CASE IsStale(p)
  BY <1>1, <1>2, <1>3 DEF Exit
<1>4. CASE ~IsStale(p)
  <2>1. p # NoProc /\ proc = p
    <3>1. p.id # 0 /\ NoProc.id = 0
      BY DEF TypeOK, Procs, NoProc
    <3> QED BY <1>4, <3>1 DEF IsStale, ProcInv, OneEncoder
  <2>2. PICK failed, loop \in BOOLEAN : HandleExit(p, failed, loop)
    BY <1>1, <1>4 DEF Exit
  <2> DEFINE x == [why |-> planned, failed |-> failed /\ planned = "",
                   loop |-> loop /\ failed /\ planned = "", live |-> p.kind = "live"]
  <2>3. exitq' = Append(exitq, x) /\ proc' = NoProc
    BY <2>2 DEF HandleExit
  <2>4. x.why = planned
    OBVIOUS
  <2> HIDE DEF x
  <2>5. CASE ShownAsInsert(p) /\ PlayedOut(planned)
    <3>1. ended' = ended \cup {p.req}
      BY <2>2, <2>5 DEF HandleExit
    <3>2. row.insReq = p.req /\ row.insSt = "active" /\ row.cur = row.ins /\ pc # "startwrite"
      BY <2>5 DEF ShownAsInsert
    <3>3. EndsItem(planned)
      BY <2>5, Zenon DEF PlayedOut, EndsItem, ItemEndingStops
    <3>4. EndsItem(x.why)
      BY <2>4, <3>3
    <3> QED BY <1>2, <2>1, <2>3, <3>1, <3>2, <3>4 DEF Running
  <2>6. CASE ~(ShownAsInsert(p) /\ PlayedOut(planned))
    <3>1. ended' = ended
      BY <2>2, <2>6 DEF HandleExit
    <3> QED BY <1>2, <2>1, <2>3, <3>1 DEF Running
  <2> QED BY <2>5, <2>6
<1> QED BY <1>3, <1>4

\* The insert of r has ended on air.
Over(r) == HasInsert(r) /\ r.insReq \in ended

Stopped == pc = "stopping" /\ then = "reread"
BeforeSelect == pc \in {"read", "bound", "reread"} \/ Stopped
HasRead == pc \in {"bound", "reread"} \/ Stopped

\* While the insert on the row has ended, the exit write that clears it is the next to commit, and no
\* cycle selects before it has: its end frees the handle the cycle found taken at its top.
EndedInv ==
    /\ HasInsert(row) \/ row.ins = None
    /\ kept = <<>>
    /\ Running /\ pc # "startwrite" => exitq = <<>>
    /\ Over(row) => exitq # <<>> /\ EndsItem(Head(exitq).why) /\ row.insSt = "active" /\ row.cur = row.ins
    /\ BeforeSelect /\ Running => wasRunning
    /\ HasRead /\ Over(st) => wasRunning /\ ~Running
    /\ pc = "select" => ~Running /\ ~Over(st)

\* A press that is under way is younger than every request on the row and every one that has ended.
FreshInv ==
    \A i \in ended \cup {0, row.insReq} : i <= clock /\ (op # NoPress => i < op.at)

\* The loop's own steps towards the selection.
LEMMA TowardsSelection ==
    ASSUME DecidedInv, [Next]_vars, ~ProcessExits
    PROVE  /\ BeforeSelect' => StartCycle \/ (BeforeSelect /\ UNCHANGED wasRunning /\ proc' \in {proc, NoProc})
           /\ HasRead' => \/ ReadState
                          \/ HasRead /\ UNCHANGED <<st, wasRunning>> /\ proc' \in {proc, NoProc}
           /\ pc' = "select" => \/ RereadAfterExit
                                \/ pc = "select" /\ UNCHANGED st /\ proc' \in {proc, NoProc}
<1> USE DEF GoTo
<1> DEFINE Near == BeforeSelect' \/ pc' = "select"
<1>1. CASE StartCycle \/ ReadState \/ RereadAfterExit
  BY <1>1 DEF StartCycle, ReadState, RereadAfterExit, ReadFresh, procVars, BeforeSelect, HasRead, Stopped
<1>2. CASE EnforceDurationBound \/ StopDone \/ StopDeadline \/ LoseDestination
  <2>1. UNCHANGED <<st, wasRunning>> /\ proc' \in {proc, NoProc} /\ (Near => HasRead /\ pc' # "select" /\ pc' # "read")
    BY <1>2 DEF EnforceDurationBound, StopDone, StopDeadline, LoseDestination, StopThen, procVars, HasRead,
       BeforeSelect, Stopped, DecidedInv
  <2> QED BY <2>1 DEF HasRead, BeforeSelect
<1>3. CASE Select \/ DropHeldManualNext \/ CarryOutPendingAction \/ Prepare \/ Resolve \/ ResetCrashLoop
           \/ DecideRestart \/ ClearRestartFlag \/ Spawn \/ FailToStart \/ WriteStart
  BY <1>3 DEF Select, DropHeldManualNext, CarryOutPendingAction, Prepare, Resolve, ResetCrashLoop,
     DecideRestart, ClearRestartFlag, Spawn, FailToStart, WriteStart, StopThen, BeforeSelect, HasRead, Stopped
<1>4. CASE ReportNoDestination \/ DropUnpreparedInsert \/ WriteStartFailed \/ WriteCycleEnd \/ CrashLoopGate
           \/ ReplaceProcess \/ CycleFails \/ ContainerRestarts
  BY <1>4 DEF ReportNoDestination, DropUnpreparedInsert, WriteStartFailed, WriteCycleEnd, CrashLoopGate,
     ReplaceProcess, CycleFails, ContainerRestarts, EndCycle, StopThen, BeforeSelect, HasRead, Stopped
<1>5. CASE ExitWriteCommits \/ ExitWriteRefused \/ PressRead \/ PressWrite \/ ApplySkipVote \/ HoldRunsOut
           \/ UNCHANGED vars
  <2>1. UNCHANGED <<cycleVars, proc>>
    BY <1>5 DEF ExitWriteCommits, ExitWriteRefused, PressRead, PressWrite, ApplySkipVote, HoldRunsOut,
       vars, procVars
  <2> QED BY <2>1 DEF cycleVars, BeforeSelect, HasRead, Stopped
<1> QED BY <1>1, <1>2, <1>3, <1>4, <1>5 DEF Next, CycleStep


\* Where the database refuses nothing: every step but an exit and the commit of its write leaves the queue
\* of exit writes, and the loop writes the row only when it is empty.
LEMMA QueueStep ==
    ASSUME MaxOutages = 0, TypeOK, [Next]_vars, ~ProcessExits, ~ExitWriteCommits
    PROVE  /\ exitq' = exitq /\ ended' \subseteq ended /\ kept' \in {kept, <<>>}
           /\ proc' \in {proc, NoProc} \/ pc' = "startwrite"
           /\ row' = row \/ exitq = <<>> \/ PressWrite \/ ApplySkipVote \/ HoldRunsOut
           /\ pc = "startwrite" => pc' = "startwrite" \/ exitq = <<>>
<1> USE DEF GoTo
<1>1. ~ExitWriteRefused /\ ~CycleFails /\ ~ContainerRestarts
  <2>1. outages \in Nat /\ ~(outages < MaxOutages)
    BY DEF TypeOK
  <2> QED BY <2>1 DEF ExitWriteRefused, CycleFails, ContainerRestarts
<1>2. CASE StartCycle \/ EnforceDurationBound \/ LoseDestination \/ Prepare \/ Resolve \/ DecideRestart
           \/ ReplaceProcess \/ StopDone \/ FailToStart
  BY <1>2 DEF StartCycle, EnforceDurationBound, LoseDestination, Prepare, Resolve, DecideRestart,
     ReplaceProcess, StopDone, FailToStart, StopThen, procVars
<1>6. CASE StopDeadline \/ Spawn
  BY <1>6 DEF StopDeadline, Spawn, Supersede
<1>3. CASE ReadState \/ RereadAfterExit \/ Select \/ DropHeldManualNext \/ CarryOutPendingAction
           \/ ResetCrashLoop \/ ClearRestartFlag \/ WriteStart
  BY <1>3 DEF ReadState, RereadAfterExit, ReadFresh, Select, DropHeldManualNext, CarryOutPendingAction,
     ResetCrashLoop, ClearRestartFlag, WriteStart, WriteAndRead, Write, procVars
<1>4. CASE ReportNoDestination \/ DropUnpreparedInsert \/ CrashLoopGate \/ WriteStartFailed \/ WriteCycleEnd
  BY <1>4 DEF ReportNoDestination, DropUnpreparedInsert, CrashLoopGate, WriteStartFailed, WriteCycleEnd,
     StopThen, WriteAndRead, Write, procVars
<1>5. CASE PressRead \/ PressWrite \/ ApplySkipVote \/ HoldRunsOut \/ UNCHANGED vars
  BY <1>5 DEF PressRead, PressWrite, ApplySkipVote, HoldRunsOut, procVars, cycleVars, vars
<1> QED BY <1>1, <1>2, <1>3, <1>4, <1>5, <1>6 DEF Next, CycleStep

LEMMA FreshNext ==
    ASSUME MaxOutages = 0, TypeOK, ProcInv, Stamps, BridgeInv, FreshInv, [Next]_vars
    PROVE  FreshInv'
<1>1. /\ InsertWrite /\ clock \in Nat /\ ended \subseteq Nat /\ row.insReq \in Nat /\ op.at \in Nat
  BY EveryInsertWrite DEF TypeOK, BridgeInv, PlayoutRuntime, Presses
<1>2. ended' \subseteq ended \cup {row.insReq}
  <2>1. CASE ProcessExits
    BY <2>1, ExitStep
  <2>2. CASE ExitWriteCommits
    BY <2>2 DEF ExitWriteCommits
  <2> QED BY <2>1, <2>2, QueueStep
<1>3. row'.insReq \in {0, row.insReq} \/ (PressWrite /\ row'.insReq = op.at)
  BY <1>1 DEF InsertWrite, SameInsert, NoInsert
<1>4. CASE PressRead
  <2>1. clock' = clock + 1 /\ op'.at = clock + 1 /\ row' = row /\ ended' = ended
    BY <1>4 DEF PressRead, NewPress, procVars
  <2> QED BY <1>1, <2>1 DEF FreshInv
<1>5. CASE PressWrite
  <2>1. op # NoPress /\ op' = NoPress /\ clock' = clock /\ ended' = ended
    BY <1>5 DEF PressWrite, procVars
  <2>2. op.at <= clock
    BY DEF Stamps
  <2> QED BY <1>1, <1>3, <2>1, <2>2 DEF FreshInv
<1>6. CASE ~PressRead /\ ~PressWrite
  <2>1. op' \in {op, NoPress} /\ clock' \in {clock, clock + 1}
    BY <1>6, OnlyPressReads, StampSources
  <2>2. ended' \cup {0, row'.insReq} \subseteq ended \cup {0, row.insReq}
    BY <1>2, <1>3, <1>6
  <2> SUFFICES ASSUME NEW i \in ended' \cup {0, row'.insReq}
               PROVE  i <= clock' /\ (op' # NoPress => i < op'.at)
    BY DEF FreshInv
  <2>5. i \in ended \cup {0, row.insReq}
    BY <2>2
  <2>3. i \in Nat /\ i <= clock /\ (op # NoPress => i < op.at)
    BY <1>1, <2>5 DEF FreshInv
  <2>4. i <= clock'
    BY ONLY <1>1, <2>1, <2>3
  <2> QED BY <2>1, <2>3, <2>4
<1> QED BY <1>4, <1>5, <1>6

\* An ended insert waits for the write of its exit alone.
LEMMA OverNext ==
    ASSUME MaxOutages = 0, TypeOK, ProcInv, AirInv, BridgeInv, FreshInv, EndedInv, [Next]_vars, Over(row)'
    PROVE  exitq' # <<>> /\ EndsItem(Head(exitq').why) /\ row'.insSt = "active" /\ row'.cur = row'.ins
<1>0. /\ row \in PlayoutRuntime /\ op \in Presses /\ InsertWrite /\ exitq \in Seq(Exits)
  BY EveryInsertWrite DEF TypeOK, BridgeInv
<1>1. HasInsert(row') /\ row'.insReq \in ended'
  BY DEF Over
\* the steps that leave the insert
<1>2. ASSUME SameInsert(row, row'), row'.cur = row.cur, ended' \subseteq ended, exitq' = exitq
      PROVE  exitq' # <<>> /\ EndsItem(Head(exitq').why) /\ row'.insSt = "active" /\ row'.cur = row'.ins
  <2>1. Over(row)
    BY <1>1, <1>2, SameInsertIsIdle DEF Over, SameInsert
  <2> QED BY <1>2, <2>1 DEF EndedInv, SameInsert
<1>3. CASE ProcessExits
  <2>1. row' = row /\ SameInsert(row, row')
    BY <1>3, ExitStep DEF SameInsert
  <2>2. CASE UNCHANGED <<exitq, ended>>
    BY <1>2, <2>1, <2>2
  <2>3. CASE ~UNCHANGED <<exitq, ended>>
    <3>1. PICK x : /\ Running /\ exitq' = Append(exitq, x)
                   /\ \/ ended' = ended
                      \/ /\ ended' = ended \cup {row.insReq} /\ EndsItem(x.why)
                         /\ row.insSt = "active" /\ row.cur = row.ins /\ pc # "startwrite"
      BY <1>3, <2>3, ExitStep
    <3>2. CASE Over(row)
      <4>1. exitq # <<>> /\ EndsItem(Head(exitq).why) /\ row.insSt = "active" /\ row.cur = row.ins
        BY <3>2 DEF EndedInv
      <4>2. exitq' # <<>> /\ Head(exitq') = Head(exitq)
        BY <1>0, <3>1, <4>1
      <4> QED BY <2>1, <4>1, <4>2
    <3>3. CASE ~Over(row)
      <4>1. /\ EndsItem(x.why) /\ row.insSt = "active" /\ row.cur = row.ins /\ pc # "startwrite"
        BY <1>1, <2>1, <3>1, <3>3 DEF Over
      <4>2. exitq = <<>>
        BY <3>1, <4>1 DEF EndedInv
      <4>3. exitq' # <<>> /\ Head(exitq') = x
        BY <3>1, <4>2
      <4> QED BY <2>1, <4>1, <4>3
    <3> QED BY <3>2, <3>3
  <2> QED BY <2>2, <2>3
<1>4. CASE ExitWriteCommits
  <2>1. exitq # <<>> /\ row' = ExitRow(Head(exitq), row) /\ ended' = ended
    BY <1>4 DEF ExitWriteCommits
  <2>2. CASE ClearsInsertOnExit(Head(exitq), row)
    BY <1>0, <1>1, <2>1, <2>2, InsertOfExit DEF NoInsert
  <2>3. CASE ~ClearsInsertOnExit(Head(exitq), row)
    <3>1. SameInsert(row, row')
      BY <1>0, <2>1, <2>3, InsertOfExit
    <3>2. Over(row)
      BY <1>1, <2>1, <3>1, SameInsertIsIdle DEF Over, SameInsert
    <3> QED BY <2>3, <3>2 DEF EndedInv, ClearsInsertOnExit
  <2> QED BY <2>2, <2>3
<1>5. CASE ~ProcessExits /\ ~ExitWriteCommits
  <2>1. exitq' = exitq /\ ended' \subseteq ended
    BY <1>5, QueueStep
  <2>2. CASE row' = row
    BY <1>2, <2>1, <2>2 DEF SameInsert
  <2>3. CASE PressWrite \/ ApplySkipVote \/ HoldRunsOut
    <3>1. row'.cur = row.cur
      BY <2>3, CurrentKept
    <3>2. row'.insReq = op.at => ~PressWrite
      BY <1>1, <2>1 DEF FreshInv, PressWrite, TypeOK, Presses
    <3>3. ~WriteCycleEnd
      <4>1. WriteCycleEnd => pc' = "idle" /\ pc = "end"
        BY DEF WriteCycleEnd, EndCycle
      <4>2. pc' = pc
        BY <2>3 DEF PressWrite, ApplySkipVote, HoldRunsOut, cycleVars
      <4> QED BY <4>1, <4>2
    <3>4. SameInsert(row, row')
      BY <1>0, <1>1, <3>2, <3>3 DEF InsertWrite, NoInsert
    <3> QED BY <1>2, <2>1, <3>1, <3>4
  <2>4. CASE exitq = <<>>
    <3>1. ~Over(row)
      BY <2>4 DEF EndedInv
    <3>2. ~SameInsert(row, row')
      BY <1>1, <2>1, <3>1, SameInsertIsIdle DEF Over, SameInsert
    <3>3. ~NoInsert(row, row')
      BY <1>1 DEF NoInsert
    <3>4. CASE PressWrite
      BY <2>3, <3>4
    <3>5. CASE ~PressWrite
      <4>1. /\ WriteCycleEnd /\ row'.insReq = row.insReq
            /\ row'.insSt = row.insSt \/ (sel.reason = "operator_insert" /\ row.ins = sel.asset)
        BY <1>0, <3>2, <3>3, <3>5 DEF InsertWrite
      <4>2. ~HasInsert(row)
        BY <1>1, <2>1, <3>1, <4>1 DEF Over
      <4>3. row.insSt # row'.insSt
        BY <1>1, <4>2, Zenon DEF HasInsert
      <4>4. sel.asset = None
        BY <4>1, <4>2, <4>3 DEF EndedInv
      <4> QED BY <4>1, <4>3, <4>4 DEF AirInv, WellPicked
    <3> QED BY <3>4, <3>5
  <2> QED BY <1>5, <2>2, <2>3, <2>4, QueueStep
<1> QED BY <1>3, <1>4, <1>5

LEMMA EndedNext ==
    ASSUME MaxOutages = 0, TypeOK, ProcInv, DecidedInv, AirInv, BridgeInv, FreshInv, EndedInv, [Next]_vars
    PROVE  EndedInv'
<1>0. row \in PlayoutRuntime /\ op \in Presses /\ InsertWrite
  BY EveryInsertWrite DEF TypeOK, BridgeInv
<1>1. HasInsert(row') \/ row'.ins = None
  <2>1. ASSUME row'.insSt \in {"pending", "active"} PROVE HasInsert(row')
    BY <2>1, Zenon DEF HasInsert
  <2>2. row'.insSt = row.insSt => (HasInsert(row') <=> HasInsert(row))
    BY Zenon DEF HasInsert
  <2> QED BY <1>0, <2>1, <2>2 DEF InsertWrite, SameInsert, NoInsert, EndedInv
<1>2. kept' = <<>>
  <2>1. CASE ProcessExits \/ ExitWriteCommits
    BY <2>1, ExitStep DEF ExitWriteCommits, EndedInv
  <2> QED BY <2>1, QueueStep DEF EndedInv
<1>3. Running' /\ pc' # "startwrite" => exitq' = <<>>
  <2>1. CASE ProcessExits
    BY <2>1, ExitStep DEF EndedInv, Running, cycleVars
  <2>2. CASE ExitWriteCommits
    BY <2>2 DEF ExitWriteCommits, EndedInv, Running, cycleVars
  <2>3. CASE ~ProcessExits /\ ~ExitWriteCommits
    BY <2>3, QueueStep DEF EndedInv, Running
  <2> QED BY <2>1, <2>2, <2>3
<1>4. Over(row)' => exitq' # <<>> /\ EndsItem(Head(exitq').why) /\ row'.insSt = "active" /\ row'.cur = row'.ins
  BY OverNext
<1>5. BeforeSelect' /\ Running' => wasRunning'
  <2>1. CASE ProcessExits
    BY <2>1, ExitStep DEF EndedInv, BeforeSelect, Stopped, Running, cycleVars
  <2>2. CASE StartCycle
    BY <2>2 DEF StartCycle, Running, procVars
  <2>3. CASE ~ProcessExits /\ ~StartCycle
    BY <2>3, TowardsSelection DEF EndedInv, Running
  <2> QED BY <2>1, <2>2, <2>3
\* what a step has read of an ended insert it has read before it ended
<1>6. ASSUME st' = row', ReadState \/ RereadAfterExit PROVE ~Over(st)'
  <2>1. exitq' = <<>>
    BY <1>6 DEF ReadState, RereadAfterExit, ReadFresh, WriteAndRead, Write
  <2>2. ~Over(row)'
    BY <1>4, <2>1
  <2> QED BY <1>6, <2>2 DEF Over
<1>7. ASSUME st' = st, ended' \subseteq ended, Over(st)' PROVE Over(st)
  BY <1>7 DEF Over
<1>8. ~ProcessExits => ended' \subseteq ended
  BY QueueStep DEF ExitWriteCommits
<1>9. HasRead' /\ Over(st)' => wasRunning' /\ ~Running'
  <2> SUFFICES ASSUME HasRead', Over(st)' PROVE wasRunning' /\ ~Running'
    OBVIOUS
  <2>1. CASE ProcessExits
    <3>1. UNCHANGED cycleVars /\ HasRead
      BY <2>1, ExitStep DEF cycleVars, HasRead, Stopped
    <3>2. CASE UNCHANGED <<proc, exitq, ended>>
      BY <1>7, <3>1, <3>2 DEF EndedInv, Running, cycleVars
    <3>3. CASE Running /\ proc' = NoProc
      BY <3>1, <3>3 DEF EndedInv, Running, cycleVars, HasRead, BeforeSelect
    <3> QED BY <2>1, <3>2, <3>3, ExitStep
  <2>2. CASE ReadState
    <3>1. st' = row'
      BY <2>2 DEF ReadState, ReadFresh, WriteAndRead, Write
    <3> QED BY <1>6, <2>2, <3>1
  <2>3. CASE ~ProcessExits /\ ~ReadState
    <3>1. HasRead /\ UNCHANGED <<st, wasRunning>> /\ proc' \in {proc, NoProc}
      BY <2>3, TowardsSelection
    <3> QED BY <1>7, <1>8, <2>3, <3>1 DEF EndedInv, Running
  <2> QED BY <2>1, <2>2, <2>3
<1>10. pc' = "select" => ~Running' /\ ~Over(st)'
  <2> SUFFICES ASSUME pc' = "select" PROVE ~Running' /\ ~Over(st)'
    OBVIOUS
  <2>1. CASE ProcessExits
    <3>1. UNCHANGED cycleVars /\ ~Running /\ ~Over(st)
      BY <2>1, ExitStep DEF cycleVars, EndedInv
    <3>2. UNCHANGED <<proc, exitq, ended>>
      BY <2>1, <3>1, ExitStep
    <3> QED BY <1>7, <3>1, <3>2 DEF Running, cycleVars
  <2>2. CASE RereadAfterExit
    <3>1. st' = row' /\ proc' = proc /\ ~Running
      BY <2>2 DEF RereadAfterExit, ReadFresh, WriteAndRead, Write, EndedMeanwhile
    <3> QED BY <1>6, <2>2, <3>1 DEF Running
  <2>3. CASE ~ProcessExits /\ ~RereadAfterExit
    <3>1. pc = "select" /\ UNCHANGED st /\ proc' \in {proc, NoProc}
      BY <2>3, TowardsSelection
    <3> QED BY <1>7, <1>8, <2>3, <3>1 DEF EndedInv, Running
  <2> QED BY <2>1, <2>2, <2>3
<1> QED BY <1>1, <1>2, <1>3, <1>4, <1>5, <1>9, <1>10 DEF EndedInv


LEMMA EndedInit == Init => EndedInv /\ FreshInv
<1> SUFFICES ASSUME Init PROVE EndedInv /\ FreshInv
  OBVIOUS
<1>1. /\ row = EmptyRow /\ pc = "idle" /\ proc = NoProc /\ kept = <<>> /\ ended = {}
      /\ op = NoPress /\ clock = 1
  BY DEF Init
<1>2. EmptyRow.ins = None /\ EmptyRow.insReq = 0
  BY DEF EmptyRow
<1>3. ~Over(row)
  BY <1>1 DEF Over
<1> QED BY <1>1, <1>2, <1>3 DEF EndedInv, FreshInv, BeforeSelect, HasRead, Stopped, Running

\* The selection an insert is named by is made from a row on which it has not ended.
LEMMA SelectionStep ==
    ASSUME MaxOutages = 0, TypeOK, BridgeInv, EndedInv, [Next]_vars, sel' # sel, sel'.kind = "insert"
    PROVE  sel'.req \notin ended
<1>0. row \in PlayoutRuntime /\ st \in PlayoutRuntime
  BY DEF TypeOK
<1>1. CASE Select
  <2>1. PICK s \in Candidates(st, Running) :
          IF InsertGivesWay(st, s)
          THEN WriteAndRead(DropInsertOf(st, row)) /\ sel' \in Candidates(row', Running)
          ELSE sel' = s /\ UNCHANGED <<row, st>>
    BY <1>1 DEF Select
  <2>2. CASE InsertGivesWay(st, s)
    <3>1. exitq = <<>> /\ row' = DropInsertOf(st, row) /\ sel' \in Candidates(row', Running)
      BY <2>1, <2>2 DEF WriteAndRead, Write
    <3>2. row' \in PlayoutRuntime
      BY <1>0, <3>1, DropInsertOfType
    <3>3. HasInsert(row') /\ sel'.req = row'.insReq
      BY <3>1, <3>2, PickOfCandidates
    <3>4. row' = row
      BY <1>0, <3>1, <3>3, InsertDropped DEF NoInsert
    <3> QED BY <3>1, <3>3, <3>4 DEF EndedInv, Over
  <2>3. CASE ~InsertGivesWay(st, s)
    <3>1. HasInsert(st) /\ sel'.req = st.insReq
      BY <1>0, <2>1, <2>3, PickOfCandidates
    <3>2. pc = "select" \/ (pc = "reread" /\ ~(wasRunning /\ ~Running))
      BY <1>1 DEF Select, EndedMeanwhile
    <3> QED BY <3>1, <3>2 DEF EndedInv, Over, HasRead
  <2> QED BY <2>2, <2>3
<1>2. CASE DropHeldManualNext
  BY <1>2 DEF DropHeldManualNext, BridgeInv
<1>3. \A a : Pick("asset", a, "recovery").kind = "asset"
  BY DEF Pick
<1>4. StandbyPick.kind = "standby"
  BY DEF StandbyPick, Pick
<1>5. CASE Prepare \/ Resolve
  BY <1>3, <1>4, <1>5 DEF Prepare, Resolve, RecoveryPicks
<1>6. CASE ReportNoDestination \/ DropUnpreparedInsert \/ CrashLoopGate \/ ReplaceProcess \/ WriteStartFailed
           \/ WriteCycleEnd \/ CycleFails \/ ContainerRestarts
  BY <1>4, <1>6 DEF ReportNoDestination, DropUnpreparedInsert, CrashLoopGate, ReplaceProcess,
     WriteStartFailed, WriteCycleEnd, CycleFails, ContainerRestarts, EndCycle
<1>7. CASE \/ StartCycle \/ ReadState \/ EnforceDurationBound \/ RereadAfterExit \/ LoseDestination
           \/ CarryOutPendingAction \/ ResetCrashLoop \/ DecideRestart \/ ClearRestartFlag \/ StopDone
           \/ StopDeadline \/ Spawn \/ FailToStart \/ WriteStart \/ ProcessExits \/ ExitWriteCommits
           \/ ExitWriteRefused \/ PressRead \/ PressWrite \/ ApplySkipVote \/ HoldRunsOut \/ UNCHANGED vars
  BY <1>7 DEF StartCycle, ReadState, EnforceDurationBound, RereadAfterExit, LoseDestination,
     CarryOutPendingAction, ResetCrashLoop, DecideRestart, ClearRestartFlag, StopDone, StopDeadline,
     Spawn, FailToStart, WriteStart, ProcessExits, Exit, ExitWriteCommits, ExitWriteRefused, PressRead,
     PressWrite, ApplySkipVote, HoldRunsOut, vars, cycleVars
<1> QED BY <1>1, <1>2, <1>5, <1>6, <1>7 DEF Next, CycleStep

\* A bridge on air leaves no insert active, for any number of items, presses, processes, refused writes
\* and restarts, where nobody presses Move next: with a held-out next item the selection is made a second
\* time, and the bridge pressed in between does not end the insert the first one named.
THEOREM BridgesEndInserts ==
    ASSUME "move_next" \notin Actions
    PROVE  Spec => []BridgeEndsInsert
<1>1. TypeOK /\ DecidedInv /\ AirInv /\ BridgeInv /\ [Next]_vars => BridgeInv'
  BY BridgeNext
<1>2. BridgeInv => BridgeEndsInsert
  BY DEF BridgeInv, BridgeEndsInsert, Settled
<1> QED BY <1>1, <1>2, BridgeInit, AirAlways, PTL DEF Spec

\* An insert plays once: neither its own end nor the bridge that cut it leaves it to a later cycle
\* (decideInsertAfterSelection, the exit handler, the second read of the cycle), where nobody presses Move
\* next and the database refuses no write.
THEOREM InsertsAlwaysEndOnce ==
    ASSUME "move_next" \notin Actions, MaxOutages = 0
    PROVE  Spec => InsertsEndOnce
<1>1. TypeOK /\ DecidedInv /\ AirInv /\ BridgeInv /\ [Next]_vars => BridgeInv'
  BY BridgeNext
<1>2. TypeOK /\ ProcInv /\ Stamps /\ BridgeInv /\ FreshInv /\ [Next]_vars => FreshInv'
  BY FreshNext
<1>3. TypeOK /\ ProcInv /\ DecidedInv /\ AirInv /\ BridgeInv /\ FreshInv /\ EndedInv /\ [Next]_vars
        => EndedInv'
  BY EndedNext
<1>4. TypeOK /\ BridgeInv /\ EndedInv /\ [Next]_vars
        => [sel' # sel /\ sel'.kind = "insert" => sel'.req \notin ended]_vars
  BY SelectionStep
<1>5. Spec => FinishedInsertNotSelected
  BY <1>1, <1>2, <1>3, <1>4, BridgeInit, EndedInit, AirAlways, PTL DEF Spec, FinishedInsertNotSelected
<1>6. Spec => []BridgeEndsInsert
  BY BridgesEndInserts
<1> QED BY <1>5, <1>6 DEF InsertsEndOnce
=============================================================================

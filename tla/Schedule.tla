------------------------------ MODULE Schedule ------------------------------
(***************************************************************************)
(* The weekly grid with its dated layer: which block is on air, how the    *)
(* editor keeps blocks from overlapping, and what the playout cycle does   *)
(* with the run on air: the takeover at a dated block's boundary and the   *)
(* cuepoints of the run.                                                   *)
(*                                                                         *)
(* Wall-clock time is counted in slots from 00:00 of date 0; a date is a   *)
(* number, its weekday date % DaysPerWeek.  Instants are slots too: they   *)
(* agree with the wall clock until SwitchAt, where the clock goes back by  *)
(* SwitchBy slots (forward when it is negative).  An occurrence is named   *)
(* by its run, <<block, date it starts>>; the block's start and length,    *)
(* which are part of the run key, are added to it where they matter.       *)
(* Title, pool, show and time formatting are left out.                     *)
(***************************************************************************)
EXTENDS Integers, FiniteSets

CONSTANTS SlotsPerDay,  \* 24 * 60 minutes
          DaysPerWeek,  \* 7
          SwitchAt, SwitchBy,
          BlockIds,     \* positions in the table, numbered
          Grids,        \* the shapes of block an editor may enter
          SavedGrid,    \* the table to begin with
          LastSlot,     \* bound: the clock stops here
          LastEdit,     \* bound: nobody edits the schedule later
          MaxEdits,     \* bound: requests of the editor
          MaxHolds      \* bound: picks that cannot be prepared

VARIABLES clock,     \* the instant
          table,     \* schedule_blocks: a block for some positions
          edit,      \* a save whose check has passed and that is not written yet
          recorded,  \* playout.cuepointWindowKey
          fired,     \* playout.cuepointFiredKeys
          airBlock,  \* the block whose pool the item on air came from; 0: no item
          airedCues, \* history: cuepoints fired since the last save
          excused,   \* history: the item on air has been through a change or a gap that is no boundary
          schedSpent \* bounds

schedVars == <<clock, table, edit, recorded, fired, airBlock, airedCues, excused, schedSpent>>

---------------------------------------------------------------------------
(* The clock *)

WallAt(t) == IF t < SwitchAt THEN t ELSE t - SwitchBy

\* getScheduleInstant: a time that exists twice means its first, a skipped one the switch.
InstantOf(w) ==
    IF w < SwitchAt THEN w
    ELSE IF w + SwitchBy < SwitchAt THEN SwitchAt ELSE w + SwitchBy

\* ambiguous: "later".
LaterInstantOf(w) ==
    IF w + SwitchBy >= SwitchAt THEN w + SwitchBy ELSE IF w < SwitchAt THEN w ELSE SwitchAt

\* getScheduleEndInstant: the minute before the end, counted to its last pass.
EndInstantOf(w) ==
    IF LaterInstantOf(w - 1) > InstantOf(w - 1) THEN LaterInstantOf(w - 1) + 1 ELSE InstantOf(w)

RepeatedMinute(t) == t - InstantOf(WallAt(t)) >= 1

DateOf(w) == w \div SlotsPerDay

---------------------------------------------------------------------------
(* Blocks: day, start, dur, and the dates from and until, 0 for none *)

Dated(b) == b.from # 0 \/ b.until # 0
ActiveOn(b, d) == (b.from = 0 \/ d >= b.from) /\ (b.until = 0 \/ d <= b.until)
StartsOn(b, d) == b.day = d % DaysPerWeek /\ ActiveOn(b, d)
CrossesMidnight(b) == b.start + b.dur > SlotsPerDay

\* The slots of the run that starts on date d.
RunSlots(b, d) == LET first == d * SlotsPerDay + b.start IN first..(first + b.dur - 1)

\* scheduleDateWindowHasWeekday
HasWeekday(b) == \/ b.from = 0 \/ b.until = 0
                 \/ \E k \in 0..(DaysPerWeek - 1) :
                        b.from + k <= b.until /\ (b.from + k) % DaysPerWeek = b.day
                 \/ b.until - b.from >= DaysPerWeek

\* validateScheduleBlock
ValidBlock(b, today) ==
    /\ b.day \in 0..(DaysPerWeek - 1) /\ b.start \in 0..(SlotsPerDay - 1) /\ b.dur \in 1..SlotsPerDay
    /\ b.from # 0 /\ b.until # 0 => b.from <= b.until /\ HasWeekday(b)
    /\ b.until # 0 => today <= b.until

\* A row of schedule_blocks; no group is 0.
Blocks == [day : Nat, start : Nat, dur : Nat, from : Nat, until : Nat, cues : SUBSET Nat,
           group : BlockIds \cup {0}]

ASSUME ScheduleAssumption ==
    /\ SlotsPerDay \in Nat \ {0} /\ DaysPerWeek \in Nat \ {0} /\ SwitchAt \in Int /\ SwitchBy \in Int
    /\ BlockIds \subseteq Nat \ {0} /\ IsFiniteSet(BlockIds)
    /\ Grids \subseteq Blocks
    /\ DOMAIN SavedGrid \subseteq BlockIds
    /\ \A i \in DOMAIN SavedGrid : SavedGrid[i] \in Blocks /\ ValidBlock(SavedGrid[i], 0)

---------------------------------------------------------------------------
(* Conflicts *)

\* The weekday line is circular: the other block is tried a week to either side.
MeetInTheWeek(l, r) ==
    LET week == DaysPerWeek * SlotsPerDay
        at(b) == b.day * SlotsPerDay + b.start
    IN  \E shift \in {-week, 0, week} :
            at(l) < at(r) + r.dur + shift /\ at(r) + shift < at(l) + l.dur

\* A block past midnight is still on air the day after its last date.
LastAirDate(b) == IF CrossesMidnight(b) THEN b.until + 1 ELSE b.until

DatesMeet(l, r) ==
    /\ r.until = 0 \/ l.from <= LastAirDate(r)
    /\ l.until = 0 \/ r.from <= LastAirDate(l)

ShareLayer(l, r) == /\ Dated(l) = Dated(r)
                    /\ Dated(l) => DatesMeet(l, r)

Later(x, y) == IF x > y THEN x ELSE y
Earlier(x, y) == IF x < y THEN x ELSE y

\* The dates on which both may be on air, one more at either end; long enough, they hold every
\* weekday of both blocks.
SharedFrom(l, r) == Later(l.from, r.from) - 1
SharedUntil(l, r) == Earlier(l.until, r.until) + 1
DatesDecide(l, r) ==
    /\ 0 \notin {l.from, l.until, r.from, r.until}
    /\ SharedUntil(l, r) - SharedFrom(l, r) < DaysPerWeek + 2

RunsBetween(b, first, last) ==
    {d \in Later(first, b.from)..Earlier(last, b.until) : d % DaysPerWeek = b.day}

RunsMeet(l, r) ==
    \E d \in RunsBetween(l, SharedFrom(l, r), SharedUntil(l, r)),
       e \in RunsBetween(r, SharedFrom(l, r), SharedUntil(l, r)) :
        RunSlots(l, d) \cap RunSlots(r, e) # {}

\* Mutant: the weekday line decides for short spans too.
OverlapByWeekday(l, r) == ShareLayer(l, r) /\ MeetInTheWeek(l, r)

\* scheduleBlocksOverlap
BlocksOverlap(l, r) ==
    /\ ShareLayer(l, r)
    /\ IF DatesDecide(l, r) THEN RunsMeet(l, r) ELSE MeetInTheWeek(l, r)

\* findScheduleConflictsInvolving: only pairs with a changed block are refused.
NewConflict(blocks, changed) ==
    \E i \in changed, j \in DOMAIN blocks : i # j /\ BlocksOverlap(blocks[i], blocks[j])

---------------------------------------------------------------------------
(* The schedule of a date *)

DatesAround(d) == {d - 1, d, d + 1}

DatedSlotsOf(blocks, d) ==
    UNION {RunSlots(blocks[p[1]], p[2]) :
           p \in {q \in (DOMAIN blocks) \X DatesAround(d) :
                     Dated(blocks[q[1]]) /\ StartsOn(blocks[q[1]], q[2])}}

\* applyScheduleLayers: the air windows of a run in the list of date d, as slots.
AirSlots(blocks, run, d) ==
    RunSlots(blocks[run[1]], run[2]) \ (IF Dated(blocks[run[1]]) THEN {} ELSE DatedSlotsOf(blocks, d))

\* buildScheduleOccurrences: what starts on the date, and what the day before carries over.
Occurrences(blocks, d) ==
    {run \in (DOMAIN blocks) \X {d - 1, d} :
        /\ StartsOn(blocks[run[1]], run[2])
        /\ run[2] = d \/ CrossesMidnight(blocks[run[1]])
        /\ AirSlots(blocks, run, d) # {}}

OnAirAt(blocks, w) == {run \in Occurrences(blocks, DateOf(w)) : w \in AirSlots(blocks, run, DateOf(w))}

RunStart(blocks, run) == run[2] * SlotsPerDay + blocks[run[1]].start

NoRun == <<0, 0, 0, 0>>

\* getScheduleOccurrenceRunKey
RunKey(blocks, run) == <<run[1], run[2], blocks[run[1]].start, blocks[run[1]].dur>>

\* findCurrentScheduleOccurrence: dated before undated, then the one that started last, then
\* the order of the list.
Precedes(blocks, run, other) ==
    IF Dated(blocks[run[1]]) # Dated(blocks[other[1]]) THEN Dated(blocks[run[1]])
    ELSE IF RunStart(blocks, run) # RunStart(blocks, other)
         THEN RunStart(blocks, run) > RunStart(blocks, other)
         ELSE run[1] < other[1]

CurrentRun(blocks, w) ==
    CHOOSE run \in OnAirAt(blocks, w) :
        \A other \in OnAirAt(blocks, w) \ {run} : Precedes(blocks, run, other)

\* listScheduleAirSegments: where the windows of date d's list start, each with its run.
WindowStarts(blocks, d) ==
    UNION {{<<s, run>> : s \in {x \in AirSlots(blocks, run, d) : x - 1 \notin AirSlots(blocks, run, d)}} :
           run \in Occurrences(blocks, d)}

\* Mutant: today's list offers what starts after midnight too.
UpcomingWithoutEnd(blocks, w) ==
    LET d == DateOf(w)
        today == {x \in WindowStarts(blocks, d) : x[1] > w}
        on(e) == {x \in WindowStarts(blocks, e) : DateOf(x[1]) = e}
        later == {e \in (d + 1)..(d + DaysPerWeek) : on(e) # {}}
    IN  IF today # {} THEN today
        ELSE IF later = {} THEN {} ELSE on(CHOOSE e \in later : \A f \in later : e <= f)

\* findNextScheduleOccurrenceAcrossDays: the windows of the first date that has any.
Upcoming(blocks, w) ==
    LET d == DateOf(w)
        today == {x \in WindowStarts(blocks, d) : x[1] > w /\ DateOf(x[1]) = d}
        on(e) == {x \in WindowStarts(blocks, e) : DateOf(x[1]) = e}
        later == {e \in (d + 1)..(d + DaysPerWeek) : on(e) # {}}
    IN  IF today # {} THEN today
        ELSE IF later = {} THEN {} ELSE on(CHOOSE e \in later : \A f \in later : e <= f)

---------------------------------------------------------------------------
(* The editor (apps/web/app/api/schedule/blocks) *)

NoEdit == [kind |-> "none"]

Today == DateOf(WallAt(clock))

SpendSched(kind, bound) == schedSpent[kind] < bound /\ schedSpent' = [schedSpent EXCEPT ![kind] = @ + 1]

Editing == clock <= LastEdit /\ SpendSched("edits", MaxEdits)

\* Any committed save: it starts the histories over and makes a waiting save's check stale.
Committed(blocks) ==
    /\ table' = blocks
    /\ airedCues' = {} /\ excused' = TRUE
    /\ edit' = IF edit.kind = "none" THEN edit ELSE [edit EXCEPT !.stale = TRUE]
    /\ UNCHANGED <<clock, recorded, fired, airBlock>>

\* Mutant: weekdays counted from 1.
PlacedFromMonday(grid, day, group) == [grid EXCEPT !.day = day + 1, !.group = group]

Placed(grid, day, group) == [grid EXCEPT !.day = day, !.group = group]

\* The weekdays a set gets: those between its dates.
DaysOf(grid, days) == {day \in days : HasWeekday([grid EXCEPT !.day = day])}

\* An identifier nobody has, nor a save under way.
FreshGroup == CHOOSE g \in BlockIds : /\ \A i \in DOMAIN table : table[i].group # g
                                      /\ edit.kind # "none" => edit.group # g

\* POST: one block, or a copy per weekday, checked in the transaction that inserts them.
CreateBlocks ==
    /\ Editing
    /\ \E grid \in Grids, days \in SUBSET (0..(DaysPerWeek - 1)), ids \in SUBSET (BlockIds \ DOMAIN table) :
        LET at == DaysOf(grid, days)
            group == IF Cardinality(at) > 1 THEN FreshGroup ELSE 0
        IN  /\ at # {} /\ Cardinality(ids) = Cardinality(at)
            /\ \A i \in ids, free \in BlockIds \ (DOMAIN table \cup ids) : i < free
            /\ \A day \in at : ValidBlock([grid EXCEPT !.day = day], Today)
            /\ \E place \in [ids -> at] :
                 /\ \A day \in at : \E i \in ids : place[i] = day
                 /\ LET blocks == [i \in DOMAIN table \cup ids |->
                                     IF i \in ids THEN Placed(grid, place[i], group) ELSE table[i]]
                    IN  ~NewConflict(blocks, ids) /\ Committed(blocks)

\* PUT up to its write: the check reads the table before the transaction that writes.
CheckEdit ==
    /\ edit.kind = "none" /\ Editing
    /\ \E i \in DOMAIN table, grid \in Grids, set \in BOOLEAN :
        LET wholeSet == set /\ table[i].group # 0
            changed == IF wholeSet THEN {j \in DOMAIN table : table[j].group = table[i].group} ELSE {i}
            after(j) == IF wholeSet THEN Placed(grid, table[j].day, table[j].group) ELSE Placed(grid, grid.day, 0)
            blocks == [j \in DOMAIN table |-> IF j \in changed THEN after(j) ELSE table[j]]
        IN  /\ \A j \in changed : ValidBlock(blocks[j], Today)
            /\ ~NewConflict(blocks, changed)
            /\ edit' = [kind |-> IF wholeSet THEN "set" ELSE "block", id |-> i, group |-> table[i].group,
                        grid |-> grid, stale |-> FALSE]
            /\ UNCHANGED <<clock, table, recorded, fired, airBlock, airedCues, excused>>

\* updateScheduleBlockRecord and updateScheduleRepeatGroupRecords: whoever is there now.
SaveEdit ==
    /\ edit.kind # "none"
    /\ table' = [j \in DOMAIN table |->
                    IF edit.kind = "block" /\ j = edit.id THEN Placed(edit.grid, edit.grid.day, 0)
                    ELSE IF edit.kind = "set" /\ table[j].group = edit.group
                         THEN Placed(edit.grid, table[j].day, edit.group)
                    ELSE table[j]]
    /\ edit' = NoEdit /\ airedCues' = {} /\ excused' = TRUE
    /\ UNCHANGED <<clock, recorded, fired, airBlock, schedSpent>>

DeleteBlock ==
    /\ Editing
    /\ \E i \in DOMAIN table : Committed([j \in DOMAIN table \ {i} |-> table[j]])

---------------------------------------------------------------------------
(* The playout cycle *)

\* decideScheduleTakeover; findScheduleRun looks on the date and the day before.
KnownRuns == {run \in Occurrences(table, Today) \cup Occurrences(table, Today - 1) :
                  RunKey(table, run) = recorded}

\* Mutant: a dated block's end is no boundary.
TakeoverAtStart(run) ==
    /\ RunKey(table, run) # recorded /\ recorded[1] # run[1]
    /\ ~RepeatedMinute(clock)
    /\ Dated(table[run[1]])

Takeover(run) ==
    /\ RunKey(table, run) # recorded /\ recorded[1] # run[1]
    /\ ~RepeatedMinute(clock)
    /\ Dated(table[run[1]]) \/ \E last \in KnownRuns : Dated(table[last[1]])

\* The windows of a run as instants, and whether offset c lies in the one on air.
InWindow(run, c) ==
    LET slots == AirSlots(table, run, Today)
        windows == {w \in slots \X slots : /\ w[1] <= w[2] /\ w[1]..w[2] \subseteq slots
                                           /\ w[1] - 1 \notin slots /\ w[2] + 1 \notin slots}
        start == InstantOf(RunStart(table, run))
    IN  \E w \in windows :
            /\ InstantOf(w[1]) <= clock /\ clock < EndInstantOf(w[2] + 1)
            /\ InstantOf(w[1]) <= start + c /\ start + c < EndInstantOf(w[2] + 1)

CueKey(run, c) == <<RunKey(table, run), c>>

\* getCuepointProgress: every cuepoint that is due, of which the first is taken.
DueCues(run) ==
    {c \in table[run[1]].cues : /\ c <= clock - InstantOf(RunStart(table, run))
                                /\ InWindow(run, c)
                                /\ CueKey(run, c) \notin fired}

FirstCue(run) == CHOOSE c \in DueCues(run) : \A other \in DueCues(run) : c <= other

\* Mutant: the list is emptied whenever the run changes.
KeepOwnCues(key) == IF key = recorded THEN fired ELSE {}

\* carryCuepointFiredKeys
CarriedCues(key) ==
    IF key = recorded THEN fired ELSE {k \in fired : k[1] \in {recorded, key} \ {NoRun}}

\* The item on air has come from where the schedule says.
Boundary(run) == airBlock = 0 \/ Takeover(run)

\* A cycle with a block on air. What it picks may not be there or not be prepared: the item on
\* air is kept then, and the run before the boundary with it.
CycleInBlock(ready) ==
    /\ OnAirAt(table, WallAt(clock)) # {}
    /\ LET run == CurrentRun(table, WallAt(clock))
           key == RunKey(table, run)
           waits == airBlock # 0 /\ Takeover(run) /\ ~ready
           fires == airBlock = 0 /\ DueCues(run) # {}
           kept == CarriedCues(IF waits THEN recorded ELSE key)
       IN  /\ airBlock' = IF ready /\ Boundary(run) THEN run[1] ELSE airBlock
           /\ recorded' = IF waits THEN recorded ELSE key
           /\ fired' = IF fires /\ ready THEN kept \cup {CueKey(run, FirstCue(run))} ELSE kept
           /\ airedCues' = IF fires /\ ready THEN airedCues \cup {CueKey(run, FirstCue(run))} ELSE airedCues
           /\ excused' = IF Boundary(run) /\ ~waits THEN FALSE
                         ELSE excused \/ (key # recorded /\ RepeatedMinute(clock))
    /\ IF ready THEN UNCHANGED schedSpent ELSE SpendSched("holds", MaxHolds)
    /\ UNCHANGED <<clock, table, edit>>

\* No block: what is on air plays on, and no run is recorded.
CycleInGap ==
    /\ OnAirAt(table, WallAt(clock)) = {}
    /\ recorded' = NoRun /\ fired' = CarriedCues(NoRun)
    /\ excused' = (airBlock # 0)
    /\ UNCHANGED <<clock, table, edit, airBlock, airedCues, schedSpent>>

ItemEnds ==
    /\ airBlock # 0
    /\ airBlock' = 0
    /\ UNCHANGED <<clock, table, edit, recorded, fired, airedCues, excused, schedSpent>>

\* A save is far shorter than a slot.
ClockTicks ==
    /\ clock < LastSlot /\ edit.kind = "none"
    /\ clock' = clock + 1
    /\ UNCHANGED <<table, edit, recorded, fired, airBlock, airedCues, excused, schedSpent>>

---------------------------------------------------------------------------
SchedInit ==
    /\ clock = SlotsPerDay /\ table = SavedGrid /\ edit = NoEdit
    /\ recorded = NoRun /\ fired = {} /\ airBlock = 0
    /\ airedCues = {} /\ excused = FALSE
    /\ schedSpent = [edits |-> 0, holds |-> 0]

SchedNext ==
    \/ CreateBlocks \/ CheckEdit \/ SaveEdit \/ DeleteBlock
    \/ \E ready \in BOOLEAN : CycleInBlock(ready)
    \/ CycleInGap \/ ItemEnds \/ ClockTicks

SchedSpec == SchedInit /\ [][SchedNext]_schedVars

\* Types.
SchedTypeOK ==
    /\ clock \in Nat /\ DOMAIN table \subseteq BlockIds
    /\ \A i \in DOMAIN table : ValidBlock(table[i], 0)
    /\ edit.kind \in {"none", "block", "set"}
    /\ airBlock \in BlockIds \cup {0}
    /\ \A k \in fired : k[1][1] \in BlockIds

---------------------------------------------------------------------------
(* Properties *)

\* What is really on air: by the dates alone, layer by layer, at any slot.
ReallyMeet(l, r, dates) ==
    \E d \in dates, e \in dates : StartsOn(l, d) /\ StartsOn(r, e) /\ RunSlots(l, d) \cap RunSlots(r, e) # {}

\* The conflict check reports every pair of blocks of a layer whose runs meet on some date, and
\* of two blocks with first and last dates no other pair.
ExactFor(blocks) ==
    LET dates == 1..(3 * DaysPerWeek)
    IN  \A i \in DOMAIN blocks : \A j \in DOMAIN blocks \ {i} :
            LET l == blocks[i]
                r == blocks[j]
            IN  Dated(l) = Dated(r) =>
                    /\ ReallyMeet(l, r, dates) => BlocksOverlap(l, r)
                    /\ 0 \notin {l.from, l.until, r.from, r.until} /\ Later(l.until, r.until) \in dates
                       => (BlocksOverlap(l, r) <=> ReallyMeet(l, r, dates))

Overlaps(blocks) ==
    {p \in (DOMAIN blocks) \X DOMAIN blocks : p[1] # p[2] /\ BlocksOverlap(blocks[p[1]], blocks[p[2]])}

\* Without an overlap the schedule names at most one block per minute, and the list of the
\* evening and the list of the morning after agree on a run that crosses midnight.
OneOnAirIn(blocks) ==
    Overlaps(blocks) = {} =>
        \A w \in SlotsPerDay..WallAt(LastSlot) :
            LET d == DateOf(w)
            IN  /\ Cardinality(OnAirAt(blocks, w)) <= 1
                /\ \A run \in Occurrences(blocks, d - 1) : run[2] = d - 1 =>
                       (w \in AirSlots(blocks, run, d - 1)
                          <=> run \in Occurrences(blocks, d) /\ w \in AirSlots(blocks, run, d))

\* In every table that is saved the conflict check says of each pair what the dates say (core
\* scheduleBlocksOverlap), and no minute has two blocks but by a reported overlap (core
\* applyScheduleLayers, buildScheduleOccurrences); and a save brings an overlap in only if its
\* check had read the table before another save (the conflict check of the schedule routes).
BlocksStayApart ==
    [][table' # table =>
           /\ ExactFor(table') /\ OneOnAirIn(table')
           /\ ~(edit.kind # "none" /\ edit.stale) => Overlaps(table') \subseteq Overlaps(table)]_table

\* The first entry of what comes next is the first minute at which a window begins, wherever
\* midnight falls (core findNextScheduleOccurrenceAcrossDays).
NextFrom(blocks, w) ==
    LET begins == {x \in (w + 1)..((DateOf(w) + DaysPerWeek) * SlotsPerDay) :
                      \E run \in OnAirAt(blocks, x) : x - 1 \notin AirSlots(blocks, run, DateOf(x))}
        first == CHOOSE x \in begins : \A y \in begins : x <= y
    IN  begins # {} => /\ \E u \in Upcoming(blocks, w) : u[1] = first
                       /\ \A u \in Upcoming(blocks, w) : u[1] >= first

NextIsNext == [][clock' # clock => NextFrom(table, WallAt(clock'))]_clock

\* What is announced can be kept: one block at a time, and the next one is the next.
WeekIsClear == BlocksStayApart /\ NextIsNext

\* A cuepoint of a run fires once, on the night the clock goes back too, unless the schedule is
\* edited in between (carryCuepointFiredKeys and getCuepointProgress).
CuepointsFireOnce ==
    [][\A k \in fired' \ fired : k \notin airedCues]_fired

\* A dated block has the air from the first cycle at its start to the first at its end: while
\* its run is recorded the item on air is its own, and its item stays for no other run, unless
\* the schedule was edited or the clock went back meanwhile (decideScheduleTakeover).
DatedBlocksKeepTheirTime ==
    airBlock # 0 /\ ~excused /\ recorded # NoRun =>
        /\ recorded[1] \in DOMAIN table /\ Dated(table[recorded[1]]) => airBlock = recorded[1]
        /\ airBlock \in DOMAIN table /\ Dated(table[airBlock]) => recorded[1] = airBlock
=============================================================================

--------------------------- MODULE Programme_proofs ---------------------------
(***************************************************************************)
(* What plays and what has played.  The schedule: what is saved is valid   *)
(* and does not overlap, what is announced comes, a dated block has its    *)
(* time, a cuepoint fires once.  The pool: continuations end and turns     *)
(* are due.  The as-run log: no two runs overlap.  The viewers: requests   *)
(* are rationed and a vote cuts its own item only.                         *)
(***************************************************************************)
EXTENDS Schedule, PoolRotation, AsRun, ViewerControl,
        FiniteSetTheorems, SequenceTheorems, WellFoundedInduction, TLAPS

---------------------------------------------------------------------------
(* The schedule: what is saved, and what a dated block has                 *)

EditRows == [kind : {"set", "block"}, id : BlockIds, group : BlockIds \cup {0}, grid : Grids, stale : BOOLEAN]

SavedBlocks(blocks) ==
    /\ DOMAIN blocks \subseteq BlockIds
    /\ \A i \in DOMAIN blocks : blocks[i] \in Blocks /\ ValidBlock(blocks[i], 0)

\* A save under way is valid for every block it will write, whatever was saved or deleted meanwhile.
EditFits ==
    /\ edit = NoEdit \/ edit \in EditRows
    /\ edit.kind = "block" => ValidBlock(Placed(edit.grid, edit.grid.day, 0), 0)
    /\ edit.kind = "set" =>
          /\ edit.group # 0
          /\ \A j \in DOMAIN table :
                table[j].group = edit.group => ValidBlock(Placed(edit.grid, table[j].day, edit.group), 0)

\* The run recorded is one of the table as it is, on a date the clock has shown.
RunStands ==
    airBlock # 0 /\ ~excused =>
        /\ recorded # NoRun /\ recorded[1] \in DOMAIN table /\ recorded[2] \in Int
        /\ recorded = RunKey(table, <<recorded[1], recorded[2]>>)
        /\ StartsOn(table[recorded[1]], recorded[2])
        /\ \E t \in 0..clock : recorded[2] <= DateOf(WallAt(t))

SchedShape ==
    /\ clock \in Nat /\ SavedBlocks(table) /\ EditFits
    /\ airBlock \in BlockIds \cup {0} /\ excused \in BOOLEAN
    /\ \A k \in fired : k[1][1] \in BlockIds

SchedInv == SchedShape /\ RunStands

\* The run recorded is no more than a day behind: some cycle of the day has found an item to play.
RecordKeepsUp ==
    airBlock # 0 /\ ~excused /\ recorded[1] \in DOMAIN table /\ Dated(table[recorded[1]]) =>
        Today <= recorded[2] + (IF CrossesMidnight(table[recorded[1]]) THEN 2 ELSE 1)

LEMMA LeastOf == \A T \in SUBSET Nat : T # {} => \E x \in T : \A y \in T : x <= y
<1> SUFFICES ASSUME NEW T \in SUBSET Nat, T # {} PROVE \E x \in T : \A y \in T : x <= y
    OBVIOUS
<1>1. PICK x \in T : \A y \in T : ~(<<y, x>> \in OpToRel(<, Nat))
    BY NatLessThanWellFounded, WFMin
<1>2. \A y \in T : ~(y < x)
    BY <1>1 DEF OpToRel
<1> QED BY <1>2

LEMMA SchedConstants ==
    /\ SlotsPerDay \in Nat /\ SlotsPerDay > 0 /\ SwitchAt \in Int /\ SwitchBy \in Int
    /\ \A t \in Int : WallAt(t) \in Int
    /\ \A w \in Int : DateOf(w) \in Int
    /\ \A i \in BlockIds : i \in Nat /\ i # 0
BY ScheduleAssumption DEF ScheduleAssumption, WallAt, DateOf

LEMMA ProductsDiffer == \A a, b \in Int : \A s \in Nat : s > 0 /\ a * s = b * s => a = b
OBVIOUS

\* What is on air at a slot began no later.
LEMMA OnAirFacts ==
    ASSUME NEW blocks, SavedBlocks(blocks), NEW w \in Int, NEW shown \in OnAirAt(blocks, w)
    PROVE  /\ shown = <<shown[1], shown[2]>> /\ shown[1] \in DOMAIN blocks /\ shown[2] \in {DateOf(w) - 1, DateOf(w)}
           /\ shown[1] \in Nat /\ shown[2] \in Int /\ shown \in Occurrences(blocks, DateOf(w))
           /\ StartsOn(blocks[shown[1]], shown[2])
           /\ RunStart(blocks, shown) \in Int /\ RunStart(blocks, shown) <= w
<1>1. shown \in Occurrences(blocks, DateOf(w)) /\ w \in AirSlots(blocks, shown, DateOf(w))
    BY DEF OnAirAt
<1>2. shown \in (DOMAIN blocks) \X {DateOf(w) - 1, DateOf(w)} /\ StartsOn(blocks[shown[1]], shown[2])
    BY <1>1 DEF Occurrences
<1>3. shown[1] \in DOMAIN blocks /\ shown[1] \in Nat /\ shown[2] \in {DateOf(w) - 1, DateOf(w)} /\ shown[2] \in Int
      /\ shown = <<shown[1], shown[2]>>
    BY <1>2, SchedConstants DEF SavedBlocks
<1>4. w \in RunSlots(blocks[shown[1]], shown[2])
    BY <1>1 DEF AirSlots
<1>5. blocks[shown[1]].start \in Nat /\ blocks[shown[1]].dur \in Nat
    BY <1>3 DEF SavedBlocks, Blocks
<1>6. shown[2] * SlotsPerDay \in Int
    BY <1>3, SchedConstants
<1>7. RunStart(blocks, shown) \in Int
    BY <1>5, <1>6 DEF RunStart
<1>8. RunStart(blocks, shown) <= w
    <2> DEFINE first == shown[2] * SlotsPerDay + blocks[shown[1]].start
    <2>1. first \in Int
        BY <1>5, <1>6
    <2>2. w \in first..(first + blocks[shown[1]].dur - 1)
        BY <1>4 DEF RunSlots
    <2> HIDE DEF first
    <2>3. first <= w
        BY <1>5, <2>1, <2>2
    <2> QED BY <2>3 DEF first, RunStart
<1> QED BY <1>1, <1>2, <1>3, <1>7, <1>8

\* One run comes before all others that are on air: the choice is one of them.
LEMMA CurrentIsOnAir ==
    ASSUME NEW blocks, SavedBlocks(blocks), NEW w \in Int, OnAirAt(blocks, w) # {}
    PROVE  CurrentRun(blocks, w) \in OnAirAt(blocks, w)
<1> DEFINE O == OnAirAt(blocks, w)
           Top == {r \in O : Dated(blocks[r[1]])}
           P == IF Top # {} THEN Top ELSE O
           Age(r) == w - RunStart(blocks, r)
<1>1. /\ P \subseteq O /\ P # {}
      /\ \A r \in P : \A q \in O \ P : Dated(blocks[r[1]]) # Dated(blocks[q[1]]) /\ Dated(blocks[r[1]])
      /\ \A r \in P : \A q \in P : Dated(blocks[r[1]]) = Dated(blocks[q[1]])
    BY DEF Dated
<1>2. \A r \in O : /\ r = <<r[1], r[2]>> /\ r[1] \in Nat /\ r[2] \in {DateOf(w) - 1, DateOf(w)} /\ r[2] \in Int
                   /\ RunStart(blocks, r) \in Int /\ RunStart(blocks, r) <= w
    BY OnAirFacts
<1> HIDE DEF P, O, Top
<1>3. \A r \in O : Age(r) \in Nat
    BY <1>2
<1> DEFINE Ages == {Age(r) : r \in P}
<1>4. PICK a \in Ages : \A b \in Ages : a <= b
    <2>1. Ages \in SUBSET Nat /\ Ages # {}
        BY <1>1, <1>3
    <2> HIDE DEF Ages
    <2> QED BY <2>1, LeastOf
<1> DEFINE Latest == {r \in P : Age(r) = a}
           Ids == {r[1] : r \in Latest}
<1>5. PICK n \in Ids : \A m \in Ids : n <= m
    <2>1. Ids \in SUBSET Nat /\ Ids # {}
        BY <1>1, <1>2, <1>4
    <2> HIDE DEF Ids
    <2> QED BY <2>1, LeastOf
<1>6. PICK shown \in Latest : shown[1] = n
    BY <1>5
<1>7. \A other \in O \ {shown} : Precedes(blocks, shown, other)
    <2> SUFFICES ASSUME NEW other \in O \ {shown} PROVE Precedes(blocks, shown, other)
        OBVIOUS
    <2>1. shown \in P /\ Age(shown) = a
        BY <1>6
    <2>2. CASE other \notin P
        BY <1>1, <2>1, <2>2 DEF Precedes
    <2>3. CASE other \in P
        <3>1. Dated(blocks[shown[1]]) = Dated(blocks[other[1]])
            BY <1>1, <2>1, <2>3
        <3>2. a <= Age(other)
            BY <1>4, <2>3
        <3>3. RunStart(blocks, shown) \in Int /\ RunStart(blocks, other) \in Int
            BY <1>1, <1>2, <2>1
        <3>4. RunStart(blocks, shown) >= RunStart(blocks, other)
            BY <2>1, <3>2, <3>3
        <3>5. CASE RunStart(blocks, shown) # RunStart(blocks, other)
            BY <3>1, <3>3, <3>4, <3>5 DEF Precedes
        <3>6. CASE RunStart(blocks, shown) = RunStart(blocks, other)
            <4>1. other \in Latest
                BY <2>1, <2>3, <3>6
            <4>2. shown[1] <= other[1]
                BY <1>5, <1>6, <4>1
            <4>3. shown[1] # other[1]
                <5> SUFFICES ASSUME shown[1] = other[1] PROVE FALSE
                    OBVIOUS
                <5> DEFINE first == blocks[shown[1]].start
                           e == shown[2]
                           f == other[2]
                           p == e * SlotsPerDay
                           q == f * SlotsPerDay
                <5>1. p + first = q + first
                    BY <3>6 DEF RunStart
                <5>2. shown \in O /\ other \in O
                    BY <1>1, <2>1
                <5>3. first \in Nat /\ e \in Int /\ f \in Int
                    BY <1>2, <5>2, OnAirFacts DEF O, SavedBlocks, Blocks
                <5>4. p \in Int /\ q \in Int
                    BY <5>3, SchedConstants
                <5> HIDE DEF first, e, f, p, q
                <5>5. p = q
                    BY ONLY <5>1, <5>3, <5>4
                <5>6. e = f
                    BY <5>3, <5>5, SchedConstants, ProductsDiffer DEF p, q
                <5>7. shown = other
                    BY <1>2, <5>2, <5>6 DEF e, f
                <5> QED BY <5>7
            <4>4. shown[1] < other[1]
                BY <1>1, <1>2, <2>1, <4>2, <4>3
            <4> QED BY <3>1, <3>6, <4>4 DEF Precedes
        <3> QED BY <3>5, <3>6
    <2> QED BY <2>2, <2>3
<1>8. shown \in O
    BY <1>1, <1>6
<1> QED BY <1>7, <1>8 DEF CurrentRun, O


\* A valid grid on a day is valid as it is placed there, and valid from date 0 on.
LEMMA PlacedIsValid ==
    ASSUME NEW g \in Blocks, NEW day \in Nat, NEW group \in BlockIds \cup {0}
    PROVE  /\ Placed(g, day, group) \in Blocks
           /\ Placed(g, day, group).day = day /\ Placed(g, day, group).group = group
           /\ \A today \in Int :
                 ValidBlock([g EXCEPT !.day = day], today) => ValidBlock(Placed(g, day, group), 0)
           /\ \A today \in Int :
                 ValidBlock(Placed(g, day, group), today) => ValidBlock(Placed(g, day, group), 0)
<1> DEFINE b == [g EXCEPT !.day = day]
           p == Placed(g, day, group)
<1>1. /\ p.day = day /\ p.start = g.start /\ p.dur = g.dur /\ p.from = g.from /\ p.until = g.until
      /\ p.group = group /\ p \in Blocks
    BY DEF Placed, Blocks
<1>2. b.day = day /\ b.start = g.start /\ b.dur = g.dur /\ b.from = g.from /\ b.until = g.until
    BY DEF Blocks
<1>3. g.from \in Nat /\ g.until \in Nat /\ g.start \in Nat /\ g.dur \in Nat
    BY DEF Blocks
<1> HIDE DEF b, p
<1>4. HasWeekday(b) <=> HasWeekday(p)
    BY <1>1, <1>2 DEF HasWeekday
<1>5. p.until \in Nat
    BY <1>1, <1>3
<1>6. \A today \in Int : ValidBlock(b, today) => ValidBlock(p, 0)
    BY <1>1, <1>2, <1>4, <1>5 DEF ValidBlock
<1>7. \A today \in Int : ValidBlock(p, today) => ValidBlock(p, 0)
    BY <1>5 DEF ValidBlock
<1> QED BY <1>1, <1>6, <1>7 DEF b, p

LEMMA ShapeFacts ==
    ASSUME SchedShape
    PROVE  /\ Today \in Int /\ WallAt(clock) \in Int
           /\ \A i \in DOMAIN table : i \in BlockIds /\ i \in Nat /\ i # 0 /\ table[i] \in Blocks
                                      /\ table[i].day \in Nat /\ table[i].group \in BlockIds \cup {0}
           /\ \A g \in Grids : g \in Blocks /\ g.day \in Nat
           /\ \A day \in 0..(DaysPerWeek - 1) : day \in Nat
           /\ edit.kind \in {"none", "set", "block"} /\ (edit.kind # "none" => edit \in EditRows)
<1>1. Today \in Int /\ WallAt(clock) \in Int
    BY SchedConstants DEF SchedShape, Today
<1>2. \A i \in DOMAIN table : i \in BlockIds /\ table[i] \in Blocks
    BY DEF SchedShape, SavedBlocks
<1>3. \A b \in Blocks : b.day \in Nat /\ b.group \in BlockIds \cup {0}
    BY DEF Blocks
<1>4. \A g \in Grids : g \in Blocks
    BY ScheduleAssumption DEF ScheduleAssumption
<1>5. \A day \in 0..(DaysPerWeek - 1) : day \in Nat
    BY ScheduleAssumption DEF ScheduleAssumption
<1>6. edit.kind \in {"none", "set", "block"} /\ (edit.kind # "none" => edit \in EditRows)
    BY DEF SchedShape, EditFits, EditRows, NoEdit
<1> QED BY <1>1, <1>2, <1>3, <1>4, <1>5, <1>6, SchedConstants

\* There is an identifier for a new group: it takes two free positions.
LEMMA FreshIsFresh ==
    ASSUME SchedShape, NEW ids \in SUBSET (BlockIds \ DOMAIN table), Cardinality(ids) > 1
    PROVE  /\ FreshGroup \in BlockIds
           /\ \A i \in DOMAIN table : table[i].group # FreshGroup
           /\ edit.kind # "none" => edit.group # FreshGroup
<1> DEFINE D == DOMAIN table
           G == {table[i].group : i \in D}
           U == G \cup {edit.group}
<1>1. IsFiniteSet(BlockIds) /\ D \in SUBSET BlockIds /\ IsFiniteSet(D)
    BY ScheduleAssumption, FS_Subset DEF ScheduleAssumption, SchedShape, SavedBlocks
<1>2. IsFiniteSet(ids) /\ ids \in SUBSET BlockIds /\ D \cap ids = {}
    BY <1>1, FS_Subset
<1>3. Cardinality(D) \in Nat /\ Cardinality(ids) \in Nat /\ Cardinality(BlockIds) \in Nat
    BY <1>1, <1>2, FS_CardinalityType
<1>4. Cardinality(D) + Cardinality(ids) <= Cardinality(BlockIds)
    <2>1. Cardinality(D \cup ids) = Cardinality(D) + Cardinality(ids) - Cardinality(D \cap ids)
        BY <1>1, <1>2, FS_Union
    <2>2. Cardinality(D \cap ids) = 0
        BY <1>2, FS_EmptySet
    <2>3. D \cup ids \in SUBSET BlockIds
        BY <1>1, <1>2
    <2>4. Cardinality(D \cup ids) <= Cardinality(BlockIds)
        BY <1>1, <2>3, FS_Subset
    <2> QED BY <1>3, <2>1, <2>2, <2>4
<1>5. IsFiniteSet(G) /\ Cardinality(G) <= Cardinality(D)
    <2> DEFINE f == [i \in D |-> table[i].group]
    <2>1. f \in Surjection(D, G)
        BY DEF Surjection
    <2> HIDE DEF f, G, D
    <2> QED BY <1>1, <2>1, FS_Surjection
<1>6. IsFiniteSet(U) /\ Cardinality(U) <= Cardinality(D) + 1
    <2> HIDE DEF G, D
    <2>1. IsFiniteSet(G \cup {edit.group}) /\ Cardinality(G \cup {edit.group}) =
              IF edit.group \in G THEN Cardinality(G) ELSE Cardinality(G) + 1
        BY <1>5, FS_AddElement
    <2>2. Cardinality(G) \in Nat
        BY <1>5, FS_CardinalityType
    <2> QED BY <1>3, <1>5, <2>1, <2>2
<1>7. \E g \in BlockIds : g \notin U
    <2> SUFFICES ASSUME \A g \in BlockIds : g \in U PROVE FALSE
        OBVIOUS
    <2>1. BlockIds \in SUBSET U
        OBVIOUS
    <2> HIDE DEF U
    <2>2. Cardinality(BlockIds) <= Cardinality(U) /\ Cardinality(U) \in Nat
        BY <1>6, <2>1, FS_Subset, FS_CardinalityType
    <2> QED BY <1>3, <1>4, <1>6, <2>2
<1>8. \E g \in BlockIds : (\A i \in DOMAIN table : table[i].group # g) /\ (edit.kind # "none" => edit.group # g)
    BY <1>7
<1> QED BY <1>8 DEF FreshGroup

\* Any committed save keeps a save under way valid if no new block is of its group.
LEMMA CommitKeeps ==
    ASSUME SchedShape, NEW blocks, Committed(blocks), SavedBlocks(blocks),
           \A j \in DOMAIN blocks : \/ j \in DOMAIN table /\ blocks[j] = table[j]
                                    \/ edit.kind # "none" => blocks[j].group \in {0} \cup (BlockIds \ {edit.group})
    PROVE  SchedShape'
<1>1. /\ table' = blocks /\ excused' = TRUE
      /\ edit' = IF edit.kind = "none" THEN edit ELSE [edit EXCEPT !.stale = TRUE]
      /\ UNCHANGED <<clock, recorded, fired, airBlock>>
    BY DEF Committed
<1>2. edit.kind \in {"none", "set", "block"} /\ (edit.kind # "none" => edit \in EditRows)
    BY ShapeFacts
<1>3. EditFits'
    <2>1. CASE edit.kind = "none"
        BY <1>1, <2>1 DEF SchedShape, EditFits
    <2>2. CASE edit.kind # "none"
        <3>1. edit' = [edit EXCEPT !.stale = TRUE] /\ edit \in EditRows
            BY <1>1, <1>2, <2>2
        <3>2. edit' \in EditRows /\ edit'.kind = edit.kind /\ edit'.grid = edit.grid /\ edit'.group = edit.group
            BY <3>1 DEF EditRows
        <3>3. edit.kind = "set" =>
                  /\ edit.group # 0
                  /\ \A j \in DOMAIN table' :
                        table'[j].group = edit.group
                            => ValidBlock(Placed(edit.grid, table'[j].day, edit.group), 0)
            BY <1>1, <2>2 DEF SchedShape, EditFits
        <3>4. edit.kind = "block" => ValidBlock(Placed(edit.grid, edit.grid.day, 0), 0)
            BY DEF SchedShape, EditFits
        <3> QED BY <3>2, <3>3, <3>4 DEF EditFits
    <2> QED BY <2>1, <2>2
<1>4. SavedBlocks(table')
    BY <1>1
<1>5. SavedBlocks(table)'
    BY <1>4 DEF SavedBlocks, ValidBlock, HasWeekday, Blocks
<1> QED BY <1>1, <1>3, <1>5 DEF SchedShape

LEMMA CreateKeeps == SchedShape /\ CreateBlocks => SchedShape'
<1> SUFFICES ASSUME SchedShape, CreateBlocks PROVE SchedShape'
    OBVIOUS
<1>1. PICK grid \in Grids, days \in SUBSET (0..(DaysPerWeek - 1)), ids \in SUBSET (BlockIds \ DOMAIN table) :
        LET at == DaysOf(grid, days)
            group == IF Cardinality(at) > 1 THEN FreshGroup ELSE 0
        IN  /\ at # {} /\ Cardinality(ids) = Cardinality(at)
            /\ \A i \in ids, free \in BlockIds \ (DOMAIN table \cup ids) : i < free
            /\ \A day \in at : ValidBlock([grid EXCEPT !.day = day], Today)
            /\ \E place \in [ids -> at] :
                 /\ \A day \in at : \E i \in ids : place[i] = day
                 /\ LET blocks == [i \in DOMAIN table \cup ids |->
                                     IF i \in ids THEN Placed(grid, place[i], group) ELSE table[i]]
                    IN  ~NewConflict(blocks, ids) /\ Committed(blocks)
    BY Zenon DEF CreateBlocks
<1> DEFINE at == DaysOf(grid, days)
           group == IF Cardinality(at) > 1 THEN FreshGroup ELSE 0
<1>2. PICK place \in [ids -> at] :
          Committed([i \in DOMAIN table \cup ids |-> IF i \in ids THEN Placed(grid, place[i], group) ELSE table[i]])
    BY <1>1
<1> DEFINE blocks == [i \in DOMAIN table \cup ids |-> IF i \in ids THEN Placed(grid, place[i], group) ELSE table[i]]
<1>3. group \in BlockIds \cup {0} /\ (edit.kind # "none" => group \in {0} \cup (BlockIds \ {edit.group}))
    <2>1. CASE Cardinality(at) > 1
        <3>1. Cardinality(ids) > 1
            BY <1>1, <2>1
        <3>2. FreshGroup \in BlockIds /\ (edit.kind # "none" => edit.group # FreshGroup)
            BY <3>1, FreshIsFresh
        <3> QED BY <2>1, <3>2
    <2>2. CASE ~(Cardinality(at) > 1)
        BY <2>2
    <2> QED BY <2>1, <2>2
<1>4. \A i \in ids : Placed(grid, place[i], group) \in Blocks /\ ValidBlock(Placed(grid, place[i], group), 0)
                     /\ Placed(grid, place[i], group).group = group
    <2> SUFFICES ASSUME NEW i \in ids
                 PROVE  Placed(grid, place[i], group) \in Blocks /\ ValidBlock(Placed(grid, place[i], group), 0)
                        /\ Placed(grid, place[i], group).group = group
        OBVIOUS
    <2>1. place[i] \in at /\ place[i] \in Nat
        BY ShapeFacts DEF DaysOf
    <2>2. ValidBlock([grid EXCEPT !.day = place[i]], Today) /\ Today \in Int /\ grid \in Blocks
        BY <1>1, <2>1, ShapeFacts
    <2> HIDE DEF group, at
    <2> QED BY <1>3, <2>1, <2>2, PlacedIsValid
<1> HIDE DEF group, at
<1>5. SavedBlocks(blocks)
    BY <1>4, ShapeFacts DEF SchedShape, SavedBlocks
<1>6. \A j \in DOMAIN blocks : \/ j \in DOMAIN table /\ blocks[j] = table[j]
                               \/ edit.kind # "none" => blocks[j].group \in {0} \cup (BlockIds \ {edit.group})
    BY <1>3, <1>4
<1>7. Committed(blocks)
    BY <1>2
<1> HIDE DEF blocks
<1> QED BY <1>5, <1>6, <1>7, CommitKeeps

LEMMA DeleteKeeps == SchedShape /\ DeleteBlock => SchedShape'
<1> SUFFICES ASSUME SchedShape, DeleteBlock PROVE SchedShape'
    OBVIOUS
<1>1. PICK i \in DOMAIN table : Committed([j \in DOMAIN table \ {i} |-> table[j]])
    BY DEF DeleteBlock
<1> DEFINE blocks == [j \in DOMAIN table \ {i} |-> table[j]]
<1>2. SavedBlocks(blocks)
    BY DEF SchedShape, SavedBlocks
<1>3. \A j \in DOMAIN blocks : j \in DOMAIN table /\ blocks[j] = table[j]
    OBVIOUS
<1>4. Committed(blocks)
    BY <1>1
<1> HIDE DEF blocks
<1> QED BY <1>2, <1>3, <1>4, CommitKeeps

LEMMA CheckEditKeeps == SchedShape /\ CheckEdit => SchedShape'
<1> SUFFICES ASSUME SchedShape, CheckEdit PROVE SchedShape'
    OBVIOUS
<1>1. PICK i \in DOMAIN table, grid \in Grids, set \in BOOLEAN :
        LET wholeSet == set /\ table[i].group # 0
            changed == IF wholeSet THEN {j \in DOMAIN table : table[j].group = table[i].group} ELSE {i}
            after(j) == IF wholeSet THEN Placed(grid, table[j].day, table[j].group) ELSE Placed(grid, grid.day, 0)
            blocks == [j \in DOMAIN table |-> IF j \in changed THEN after(j) ELSE table[j]]
        IN  /\ \A j \in changed : ValidBlock(blocks[j], Today)
            /\ ~NewConflict(blocks, changed)
            /\ edit' = [kind |-> IF wholeSet THEN "set" ELSE "block", id |-> i, group |-> table[i].group,
                        grid |-> grid, stale |-> FALSE]
            /\ UNCHANGED <<clock, table, recorded, fired, airBlock, airedCues, excused>>
    BY Zenon DEF CheckEdit
<1>2. UNCHANGED <<clock, table, recorded, fired, airBlock, airedCues, excused>>
    BY <1>1
<1>3. Today \in Int /\ grid \in Blocks /\ grid.day \in Nat /\ i \in BlockIds
      /\ \A j \in DOMAIN table : table[j].group \in BlockIds \cup {0} /\ table[j].day \in Nat
    BY ShapeFacts
<1>4. EditFits'
    <2>1. CASE set /\ table[i].group # 0
        <3>1. edit' = [kind |-> "set", id |-> i, group |-> table[i].group, grid |-> grid, stale |-> FALSE]
            BY <1>1, <2>1
        <3>2. \A j \in DOMAIN table : table[j].group = table[i].group
                  => ValidBlock(Placed(grid, table[j].day, table[j].group), Today)
            BY <1>1, <2>1
        <3>3. \A j \in DOMAIN table : table[j].group = table[i].group
                  => ValidBlock(Placed(grid, table[j].day, table[j].group), 0)
            BY <1>3, <3>2, PlacedIsValid
        <3>4. edit' \in EditRows /\ edit'.kind = "set" /\ edit'.group = table[i].group /\ edit'.grid = grid
            BY <1>3, <3>1 DEF EditRows
        <3> QED BY <1>2, <2>1, <3>3, <3>4 DEF EditFits
    <2>2. CASE ~(set /\ table[i].group # 0)
        <3>1. edit' = [kind |-> "block", id |-> i, group |-> table[i].group, grid |-> grid, stale |-> FALSE]
            BY <1>1, <2>2
        <3>2. ValidBlock(Placed(grid, grid.day, 0), Today)
            BY <1>1, <2>2
        <3>3. ValidBlock(Placed(grid, grid.day, 0), 0)
            BY <1>3, <3>2, PlacedIsValid
        <3>4. edit' \in EditRows /\ edit'.kind = "block" /\ edit'.grid = grid
            BY <1>3, <3>1 DEF EditRows
        <3> QED BY <3>3, <3>4 DEF EditFits
    <2> QED BY <2>1, <2>2
<1>5. SavedBlocks(table)'
    BY <1>2 DEF SchedShape, SavedBlocks, ValidBlock, HasWeekday, Blocks
<1> QED BY <1>2, <1>4, <1>5 DEF SchedShape

LEMMA SaveEditKeeps == SchedShape /\ SaveEdit => SchedShape'
<1> SUFFICES ASSUME SchedShape, SaveEdit PROVE SchedShape'
    OBVIOUS
<1>1. /\ edit.kind # "none" /\ edit' = NoEdit /\ excused' = TRUE
      /\ table' = [j \in DOMAIN table |->
                    IF edit.kind = "block" /\ j = edit.id THEN Placed(edit.grid, edit.grid.day, 0)
                    ELSE IF edit.kind = "set" /\ table[j].group = edit.group
                         THEN Placed(edit.grid, table[j].day, edit.group)
                    ELSE table[j]]
      /\ UNCHANGED <<clock, recorded, fired, airBlock>>
    BY DEF SaveEdit
<1>2. edit \in EditRows
    BY <1>1, ShapeFacts
<1>3. edit.grid \in Blocks /\ edit.grid.day \in Nat /\ edit.group \in BlockIds \cup {0}
    BY <1>2, ShapeFacts DEF EditRows
<1>4. \A j \in DOMAIN table : table[j] \in Blocks /\ ValidBlock(table[j], 0) /\ table[j].day \in Nat
    BY ShapeFacts DEF SchedShape, SavedBlocks
<1>5. \A j \in DOMAIN table : table'[j] \in Blocks /\ ValidBlock(table'[j], 0)
    <2> SUFFICES ASSUME NEW j \in DOMAIN table PROVE table'[j] \in Blocks /\ ValidBlock(table'[j], 0)
        OBVIOUS
    <2>1. CASE edit.kind = "block" /\ j = edit.id
        <3>1. table'[j] = Placed(edit.grid, edit.grid.day, 0)
            BY <1>1, <2>1
        <3>2. ValidBlock(Placed(edit.grid, edit.grid.day, 0), 0)
            BY <2>1 DEF SchedShape, EditFits
        <3>3. Placed(edit.grid, edit.grid.day, 0) \in Blocks
            BY <1>3, PlacedIsValid
        <3> QED BY <3>1, <3>2, <3>3
    <2>2. CASE edit.kind = "set" /\ table[j].group = edit.group
        <3>1. table'[j] = Placed(edit.grid, table[j].day, edit.group)
            BY <1>1, <2>2
        <3>2. ValidBlock(Placed(edit.grid, table[j].day, edit.group), 0)
            BY <2>2 DEF SchedShape, EditFits
        <3>3. Placed(edit.grid, table[j].day, edit.group) \in Blocks
            BY <1>3, <1>4, PlacedIsValid
        <3> QED BY <3>1, <3>2, <3>3
    <2>3. CASE ~(edit.kind = "block" /\ j = edit.id) /\ ~(edit.kind = "set" /\ table[j].group = edit.group)
        BY <1>1, <1>4, <2>3
    <2> QED BY <2>1, <2>2, <2>3
<1>6. DOMAIN table' = DOMAIN table
    BY <1>1
<1>7. SavedBlocks(table')
    BY <1>5, <1>6 DEF SchedShape, SavedBlocks
<1>8. SavedBlocks(table)'
    BY <1>7 DEF SavedBlocks, ValidBlock, HasWeekday, Blocks
<1>9. EditFits'
    BY <1>1 DEF EditFits, NoEdit
<1> QED BY <1>1, <1>8, <1>9 DEF SchedShape


LEMMA DivisionGrows ==
    ASSUME NEW v \in Int, NEW w \in Int, v <= w
    PROVE  DateOf(v) <= DateOf(w)
<1> DEFINE s == SlotsPerDay
           a == v \div s
           b == w \div s
<1>1. s \in Nat /\ s > 0
    BY SchedConstants
<1>2. a \in Int /\ b \in Int /\ v % s \in 0..(s - 1) /\ w % s \in 0..(s - 1)
    BY <1>1
<1>3. v = s * a + (v % s) /\ w = s * b + (w % s)
    BY <1>1
<1> DEFINE p == s * a
           q == s * b
           m == v % s
           n == w % s
<1>4. p \in Int /\ q \in Int
    BY <1>1, <1>2
<1>5. p < q + s
    <2> HIDE DEF a, b, p, q, m, n
    <2> QED BY <1>1, <1>2, <1>3, <1>4 DEF m, n, p, q
<1>6. s * (b + 1) = q + s
    BY <1>1, <1>2
<1>7. s * a < s * (b + 1)
    BY <1>5, <1>6
<1> HIDE DEF a, b
<1>8. a < b + 1
    BY <1>1, <1>2, <1>7
<1> QED BY <1>2, <1>8 DEF a, b, DateOf

\* The date goes back only while the minutes of the switch are repeated.
LEMMA DateOnlyRepeats ==
    ASSUME NEW t \in 0..clock, clock \in Nat, ~RepeatedMinute(clock)
    PROVE  DateOf(WallAt(t)) <= Today
<1>1. SwitchAt \in Int /\ SwitchBy \in Int /\ t \in Int /\ clock \in Int /\ t <= clock
    BY SchedConstants
<1>2. WallAt(t) <= WallAt(clock)
    BY <1>1 DEF RepeatedMinute, InstantOf, WallAt
<1> QED BY <1>1, <1>2, DivisionGrows, SchedConstants DEF Today

\* A dated run that ended no earlier than the day before yesterday is in one of the lists searched.
LEMMA RunIsKnown ==
    ASSUME SchedShape, NEW i \in DOMAIN table, NEW d \in Int, Dated(table[i]), StartsOn(table[i], d),
           d <= Today, Today <= d + (IF CrossesMidnight(table[i]) THEN 2 ELSE 1)
    PROVE  <<i, d>> \in Occurrences(table, Today) \cup Occurrences(table, Today - 1)
<1> DEFINE shown == <<i, d>>
<1>1. Today \in Int /\ table[i].start \in Nat /\ table[i].dur \in Nat /\ table[i].dur >= 1
    BY ShapeFacts DEF SchedShape, SavedBlocks, ValidBlock, Blocks
<1>2. \A e \in Int : AirSlots(table, shown, e) # {}
    <2> SUFFICES ASSUME NEW e \in Int PROVE AirSlots(table, shown, e) # {}
        OBVIOUS
    <2> DEFINE first == d * SlotsPerDay + table[i].start
    <2>1. first \in Int
        BY <1>1, SchedConstants
    <2>2. AirSlots(table, shown, e) = first..(first + table[i].dur - 1)
        BY DEF AirSlots, RunSlots
    <2> HIDE DEF first
    <2>3. first \in first..(first + table[i].dur - 1)
        BY <1>1, <2>1
    <2> QED BY <2>2, <2>3
<1>3. \/ d = Today
      \/ d = Today - 1
      \/ d = Today - 2 /\ CrossesMidnight(table[i])
    BY <1>1
<1>4. CASE d = Today
    BY <1>2, <1>4 DEF Occurrences
<1>5. CASE d = Today - 1
    BY <1>1, <1>2, <1>5 DEF Occurrences
<1>6. CASE d = Today - 2 /\ CrossesMidnight(table[i])
    <2>1. d = (Today - 1) - 1 /\ Today - 1 \in Int
        BY <1>1, <1>6
    <2> QED BY <1>2, <1>6, <2>1 DEF Occurrences
<1> QED BY <1>3, <1>4, <1>5, <1>6

\* The shape does not hang on what has the air.
LEMMA CycleShape ==
    ASSUME SchedShape, NEW ready \in BOOLEAN, CycleInBlock(ready)
    PROVE  SchedShape'
<1> DEFINE shown == CurrentRun(table, WallAt(clock))
<1>1. shown \in OnAirAt(table, WallAt(clock))
    BY ShapeFacts, CurrentIsOnAir DEF SchedShape, CycleInBlock
<1>2. shown[1] \in BlockIds
    BY <1>1, ShapeFacts, OnAirFacts DEF SchedShape
<1>3. /\ airBlock' \in {shown[1], airBlock} /\ excused' \in BOOLEAN /\ UNCHANGED <<clock, table, edit>>
      /\ fired' \subseteq fired \cup {CueKey(shown, FirstCue(shown))}
    BY DEF CycleInBlock, SchedShape, CarriedCues
<1> HIDE DEF shown
<1>4. CueKey(shown, FirstCue(shown))[1][1] = shown[1]
    BY DEF CueKey, RunKey
<1>5. \A k \in fired' : k[1][1] \in BlockIds
    BY <1>2, <1>3, <1>4 DEF SchedShape
<1>6. SavedBlocks(table)' /\ EditFits'
    BY <1>3 DEF SchedShape, SavedBlocks, EditFits, ValidBlock, HasWeekday, Blocks, Placed
<1> QED BY <1>2, <1>3, <1>5, <1>6 DEF SchedShape

\* What has the air at a boundary is the run itself; what stays on air past a run of its own was not dated.
LEMMA CycleKeeps ==
    ASSUME SchedInv, RecordKeepsUp, DatedBlocksKeepTheirTime, NEW ready \in BOOLEAN, CycleInBlock(ready)
    PROVE  SchedInv' /\ DatedBlocksKeepTheirTime'
<1> DEFINE shown == CurrentRun(table, WallAt(clock))
           key == RunKey(table, shown)
           waits == airBlock # 0 /\ Takeover(shown) /\ ~ready
           fires == airBlock = 0 /\ DueCues(shown) # {}
           kept == CarriedCues(IF waits THEN recorded ELSE key)
<1>1. /\ airBlock' = IF ready /\ Boundary(shown) THEN shown[1] ELSE airBlock
      /\ recorded' = IF waits THEN recorded ELSE key
      /\ fired' = IF fires /\ ready THEN kept \cup {CueKey(shown, FirstCue(shown))} ELSE kept
      /\ excused' = IF Boundary(shown) /\ ~waits THEN FALSE
                    ELSE excused \/ (key # recorded /\ RepeatedMinute(clock))
      /\ UNCHANGED <<clock, table, edit>> /\ OnAirAt(table, WallAt(clock)) # {}
    BY DEF CycleInBlock
<1>2. WallAt(clock) \in Int /\ SavedBlocks(table) /\ Today = DateOf(WallAt(clock))
    BY ShapeFacts DEF SchedInv, SchedShape, Today
<1>3. shown \in OnAirAt(table, WallAt(clock))
    BY <1>1, <1>2, CurrentIsOnAir
<1>4. /\ shown = <<shown[1], shown[2]>> /\ shown[1] \in DOMAIN table /\ shown[2] \in Int
      /\ StartsOn(table[shown[1]], shown[2]) /\ shown[1] \in BlockIds /\ shown[1] # 0
      /\ shown[2] \in {DateOf(WallAt(clock)) - 1, DateOf(WallAt(clock))}
    BY <1>2, <1>3, OnAirFacts, ShapeFacts DEF SchedInv
<1>12. \E t \in 0..clock : shown[2] <= DateOf(WallAt(t))
    <2>1. clock \in 0..clock /\ DateOf(WallAt(clock)) \in Int
        BY <1>2, SchedConstants DEF SchedInv, SchedShape
    <2>2. shown[2] <= DateOf(WallAt(clock))
        BY <1>4, <2>1
    <2> QED BY <2>1, <2>2
<1> HIDE DEF shown
<1>5. /\ key[1] = shown[1] /\ key[2] = shown[2] /\ key # NoRun /\ key = RunKey(table, <<key[1], key[2]>>)
    BY <1>4 DEF RunKey, NoRun
<1> HIDE DEF key
<1>6. SchedShape'
    BY CycleShape DEF SchedInv
<1>7. ASSUME Boundary(shown), ~waits PROVE RunStands' /\ DatedBlocksKeepTheirTime'
    <2>1. recorded' = key /\ airBlock' \in {0, shown[1]}
        BY <1>1, <1>7 DEF Boundary
    <2>2. RunStands'
        BY <1>1, <1>4, <1>5, <1>12, <2>1 DEF RunStands, RunKey, StartsOn, ActiveOn
    <2>3. DatedBlocksKeepTheirTime'
        BY <1>5, <2>1 DEF DatedBlocksKeepTheirTime
    <2> QED BY <2>2, <2>3
<1>8. ASSUME waits PROVE RunStands' /\ DatedBlocksKeepTheirTime'
    <2>1. recorded' = recorded /\ airBlock' = airBlock /\ (~excused' => ~excused)
        BY <1>1, <1>8
    <2>2. RunStands'
        BY <1>1, <2>1 DEF SchedInv, RunStands, RunKey, StartsOn, ActiveOn
    <2>3. DatedBlocksKeepTheirTime'
        BY <1>1, <2>1 DEF DatedBlocksKeepTheirTime, Dated
    <2> QED BY <2>2, <2>3
<1>9. ASSUME ~Boundary(shown), ~excused' PROVE RunStands' /\ DatedBlocksKeepTheirTime'
    <2>1. /\ airBlock # 0 /\ airBlock' = airBlock /\ ~Takeover(shown) /\ recorded' = key
          /\ ~excused /\ (key = recorded \/ ~RepeatedMinute(clock))
        BY <1>1, <1>9 DEF Boundary
    <2>2. /\ recorded # NoRun /\ recorded[1] \in DOMAIN table /\ recorded[2] \in Int
          /\ recorded = RunKey(table, <<recorded[1], recorded[2]>>) /\ StartsOn(table[recorded[1]], recorded[2])
        BY <2>1 DEF SchedInv, RunStands
    <2>3. RunStands'
        BY <1>1, <1>4, <1>5, <1>12, <2>1 DEF RunStands, RunKey, StartsOn, ActiveOn
    <2>4. CASE recorded[1] = shown[1]
        <3>1. recorded'[1] = recorded[1] /\ recorded' # NoRun
            BY <1>5, <2>1, <2>4
        <3> QED BY <1>1, <2>1, <2>2, <2>3, <3>1 DEF DatedBlocksKeepTheirTime, Dated
    <2>5. CASE recorded[1] # shown[1]
        <3>1. key # recorded
            BY <1>5, <2>5
        <3>2. ~Dated(table[shown[1]]) /\ \A last \in KnownRuns : ~Dated(table[last[1]])
            BY <2>1, <2>5, <3>1 DEF Takeover, key
        <3>3. ~Dated(table[recorded[1]])
            <4> SUFFICES ASSUME Dated(table[recorded[1]]) PROVE FALSE
                OBVIOUS
            <4>1. Today <= recorded[2] + (IF CrossesMidnight(table[recorded[1]]) THEN 2 ELSE 1)
                BY <2>1, <2>2 DEF RecordKeepsUp
            <4> DEFINE last == <<recorded[1], recorded[2]>>
            <4>2. last \notin Occurrences(table, Today) \cup Occurrences(table, Today - 1)
                BY <2>2, <3>2 DEF KnownRuns
            <4>4. recorded[2] <= Today
                <5>1. PICK t \in 0..clock : recorded[2] <= DateOf(WallAt(t))
                    BY <2>1 DEF SchedInv, RunStands
                <5>2. clock \in Nat /\ ~RepeatedMinute(clock)
                    BY <2>1, <3>1 DEF SchedInv, SchedShape
                <5>3. DateOf(WallAt(t)) <= Today
                    BY <5>2, DateOnlyRepeats
                <5>4. DateOf(WallAt(t)) \in Int /\ Today \in Int
                    BY <5>2, SchedConstants DEF Today
                <5> QED BY <2>2, <5>1, <5>3, <5>4
            <4>3. last \in Occurrences(table, Today) \cup Occurrences(table, Today - 1)
                BY <2>1, <2>2, <4>1, <4>4, RunIsKnown DEF SchedInv
            <4> QED BY <4>2, <4>3
        <3>4. airBlock \in DOMAIN table /\ Dated(table[airBlock]) => recorded[1] = airBlock
            BY <2>1, <2>2 DEF DatedBlocksKeepTheirTime
        <3>5. ~(airBlock \in DOMAIN table /\ Dated(table[airBlock]))
            BY <3>3, <3>4
        <3>6. DatedBlocksKeepTheirTime'
            BY <1>1, <1>5, <2>1, <3>2, <3>5 DEF DatedBlocksKeepTheirTime, Dated
        <3> QED BY <2>3, <3>6
    <2> QED BY <2>4, <2>5
<1>10. ASSUME excused' PROVE RunStands' /\ DatedBlocksKeepTheirTime'
    BY <1>10 DEF RunStands, DatedBlocksKeepTheirTime
<1> QED BY <1>6, <1>7, <1>8, <1>9, <1>10 DEF SchedInv

LEMMA OtherSchedStepShapes ==
    ASSUME SchedShape, CycleInGap \/ ItemEnds \/ ClockTicks \/ UNCHANGED schedVars
    PROVE  SchedShape'
<1>1. UNCHANGED <<table, edit>> /\ clock' \in Nat
    BY DEF CycleInGap, ItemEnds, ClockTicks, schedVars, SchedShape
<1>2. SavedBlocks(table)' /\ EditFits'
    BY <1>1 DEF SchedShape, SavedBlocks, EditFits, ValidBlock, HasWeekday, Blocks, Placed
<1>3. fired' \subseteq fired /\ airBlock' \in {0, airBlock} /\ excused' \in BOOLEAN
    BY DEF CycleInGap, ItemEnds, ClockTicks, schedVars, SchedShape, CarriedCues
<1> QED BY <1>1, <1>2, <1>3 DEF SchedShape

LEMMA OtherSchedStepKeeps ==
    ASSUME SchedInv, DatedBlocksKeepTheirTime,
           CycleInGap \/ ItemEnds \/ ClockTicks \/ UNCHANGED schedVars
    PROVE  SchedInv' /\ DatedBlocksKeepTheirTime'
<1>1. SchedShape' /\ UNCHANGED <<table, edit>>
    BY OtherSchedStepShapes DEF SchedInv, CycleInGap, ItemEnds, ClockTicks, schedVars
<1>2. CASE CycleInGap
    <2>1. airBlock' = airBlock /\ excused' = (airBlock # 0)
        BY <1>2 DEF CycleInGap
    <2> QED BY <1>1, <2>1 DEF SchedInv, RunStands, DatedBlocksKeepTheirTime
<1>3. CASE ItemEnds
    <2>1. airBlock' = 0
        BY <1>3 DEF ItemEnds
    <2> QED BY <1>1, <2>1 DEF SchedInv, RunStands, DatedBlocksKeepTheirTime
<1>4. CASE ClockTicks \/ UNCHANGED schedVars
    <2>1. UNCHANGED <<recorded, airBlock, excused>>
        BY <1>4 DEF ClockTicks, schedVars
    <2>2. \A t \in 0..clock : t \in 0..clock'
        BY <1>4 DEF ClockTicks, schedVars, SchedInv, SchedShape
    <2>3. RunStands'
        BY <1>1, <2>1, <2>2 DEF SchedInv, RunStands, RunKey, StartsOn, ActiveOn
    <2> QED BY <1>1, <2>1, <2>3 DEF SchedInv, DatedBlocksKeepTheirTime, Dated
<1> QED BY <1>2, <1>3, <1>4

\* After a save nothing is said of the item on air until the next boundary.
LEMMA EditExcuses ==
    ASSUME CreateBlocks \/ SaveEdit \/ DeleteBlock
    PROVE  RunStands' /\ DatedBlocksKeepTheirTime'
<1>1. excused' = TRUE
    BY DEF CreateBlocks, SaveEdit, DeleteBlock, Committed
<1> QED BY <1>1 DEF RunStands, DatedBlocksKeepTheirTime

LEMMA CheckEditTime ==
    ASSUME RunStands, DatedBlocksKeepTheirTime, CheckEdit
    PROVE  RunStands' /\ DatedBlocksKeepTheirTime'
<1>1. UNCHANGED <<clock, table, recorded, airBlock, excused>>
    BY DEF CheckEdit
<1> QED BY <1>1 DEF DatedBlocksKeepTheirTime, Dated, RunStands, RunKey, StartsOn, ActiveOn

LEMMA SchedStarts == SchedInit => SchedInv /\ DatedBlocksKeepTheirTime
<1> SUFFICES ASSUME SchedInit PROVE SchedInv /\ DatedBlocksKeepTheirTime
    OBVIOUS
<1>1. SavedBlocks(table)
    BY ScheduleAssumption DEF SchedInit, ScheduleAssumption, SavedBlocks
<1>2. clock \in Nat /\ EditFits
    BY ScheduleAssumption DEF SchedInit, ScheduleAssumption, EditFits, NoEdit
<1> QED BY <1>1, <1>2 DEF SchedInit, SchedInv, SchedShape, RunStands, DatedBlocksKeepTheirTime

LEMMA SchedStepShapes == SchedShape /\ [SchedNext]_schedVars => SchedShape'
<1> SUFFICES ASSUME SchedShape, [SchedNext]_schedVars PROVE SchedShape'
    OBVIOUS
<1>1. CASE CreateBlocks
    BY <1>1, CreateKeeps
<1>2. CASE CheckEdit
    BY <1>2, CheckEditKeeps
<1>3. CASE SaveEdit
    BY <1>3, SaveEditKeeps
<1>4. CASE DeleteBlock
    BY <1>4, DeleteKeeps
<1>5. ASSUME NEW ready \in BOOLEAN, CycleInBlock(ready) PROVE SchedShape'
    BY <1>5, CycleShape
<1>6. CASE CycleInGap \/ ItemEnds \/ ClockTicks \/ UNCHANGED schedVars
    BY <1>6, OtherSchedStepShapes
<1> QED BY <1>1, <1>2, <1>3, <1>4, <1>5, <1>6 DEF SchedNext

LEMMA SchedShapeHolds == SchedSpec => []SchedShape
<1>1. SchedInit => SchedShape
    BY SchedStarts DEF SchedInv
<1> QED BY <1>1, SchedStepShapes, PTL DEF SchedSpec

\* The variables of the schedule keep their types, however the editor's saves cross: every block
\* saved is one validateScheduleBlock accepts, a save to a whole set included.
THEOREM ScheduleTypeCorrect == SchedSpec => []SchedTypeOK
<1>1. SchedShape => SchedTypeOK
    BY ShapeFacts DEF SchedShape, SavedBlocks, SchedTypeOK
<1> QED BY <1>1, SchedShapeHolds, PTL

\* A dated block has the air from the first cycle at its start to the first at its end
\* (decideScheduleTakeover), for every grid, every day length and every switch of the clock, as
\* long as the run recorded is no more than a day behind: findScheduleRun looks no further back.
THEOREM DatedBlocksAlwaysKeepTheirTime ==
    SchedSpec /\ []RecordKeepsUp => []DatedBlocksKeepTheirTime
<1> DEFINE I == SchedInv /\ DatedBlocksKeepTheirTime
<1>1. SchedInit => I
    BY SchedStarts
<1>2. I /\ RecordKeepsUp /\ [SchedNext]_schedVars => I'
    <2> SUFFICES ASSUME I, RecordKeepsUp, [SchedNext]_schedVars PROVE I'
        OBVIOUS
    <2>1. SchedShape'
        BY SchedStepShapes DEF SchedInv
    <2>2. CASE CreateBlocks \/ SaveEdit \/ DeleteBlock
        BY <2>1, <2>2, EditExcuses DEF SchedInv
    <2>3. CASE CheckEdit
        BY <2>1, <2>3, CheckEditTime DEF SchedInv
    <2>4. ASSUME NEW ready \in BOOLEAN, CycleInBlock(ready) PROVE I'
        BY <2>4, CycleKeeps
    <2>5. CASE CycleInGap \/ ItemEnds \/ ClockTicks \/ UNCHANGED schedVars
        BY <2>5, OtherSchedStepKeeps
    <2> QED BY <2>2, <2>3, <2>4, <2>5 DEF SchedNext
<1> QED BY <1>1, <1>2, PTL DEF SchedSpec

---------------------------------------------------------------------------
(* The week: one block at a time, and the next one                         *)

LEMMA ProductsGrow == \A a, b \in Int : \A s \in Nat : a <= b => a * s <= b * s
OBVIOUS

LEMMA NextProduct == \A a \in Int : \A s \in Nat : (a + 1) * s = a * s + s /\ (a - 1) * s = a * s - s /\ a * s \in Int
OBVIOUS

LEMMA SmallProducts ==
    \A a \in Int : \A s \in Nat : s > 0 /\ -s < a * s /\ a * s < s => a = 0
<1> SUFFICES ASSUME NEW a \in Int, NEW s \in Nat, s > 0, -s < a * s, a * s < s PROVE a = 0
    OBVIOUS
<1>1. a >= 1 => 1 * s <= a * s
    BY ProductsGrow
<1>2. a <= -1 => a * s <= (-1) * s
    BY ProductsGrow
<1>3. 1 * s = s /\ (-1) * s = -s
    OBVIOUS
<1> DEFINE p == a * s
<1>4. p \in Int
    OBVIOUS
<1>5. (a >= 1 => s <= p) /\ (a <= -1 => p <= -s) /\ -s < p /\ p < s
    BY <1>1, <1>2, <1>3
<1> HIDE DEF p
<1> QED BY ONLY <1>4, <1>5, s \in Nat, a \in Int

\* A date is its slots.
LEMMA DateIs ==
    \A w, d \in Int : d = DateOf(w) <=> d * SlotsPerDay <= w /\ w < d * SlotsPerDay + SlotsPerDay
<1> SUFFICES ASSUME NEW w \in Int, NEW d \in Int
             PROVE  d = DateOf(w) <=> d * SlotsPerDay <= w /\ w < d * SlotsPerDay + SlotsPerDay
    OBVIOUS
<1> DEFINE s == SlotsPerDay
           a == w \div s
           m == w % s
           p == a * s
           q == d * s
<1>1. s \in Nat /\ s > 0
    BY SchedConstants
<1>2. a \in Int /\ m \in 0..(s - 1) /\ w = s * a + m
    BY <1>1
<1>3. s * a = p /\ p \in Int /\ q \in Int
    BY <1>1, <1>2
<1>4. p <= w /\ w < p + s
    <2> HIDE DEF a, m, p, s
    <2> QED BY <1>1, <1>2, <1>3
<1>5. a = DateOf(w)
    BY DEF DateOf
<1>6. q <= w /\ w < q + s => d = a
    <2> SUFFICES ASSUME q <= w, w < q + s PROVE d = a
        OBVIOUS
    <2>1. (d - a) * s = q - p
        BY <1>1, <1>2
    <2>2. -s < q - p /\ q - p < s
        <3> HIDE DEF p, q, a, s
        <3> QED BY <1>1, <1>3, <1>4
    <2>3. d - a \in Int
        BY <1>2
    <2>4. d - a = 0
        <3> HIDE DEF p, q, a, s
        <3> QED BY <1>1, <2>1, <2>2, <2>3, SmallProducts
    <2> QED BY <1>2, <2>4
<1> QED BY <1>4, <1>5, <1>6

\* A valid block: its numbers.
Fits(b) == b \in Blocks /\ ValidBlock(b, 0)

LEMMA FitFacts ==
    \A b : Fits(b) => /\ b.day \in Nat /\ b.start \in Nat /\ b.dur \in Nat /\ b.from \in Nat /\ b.until \in Nat
                      /\ b.day < DaysPerWeek /\ b.start < SlotsPerDay /\ b.dur >= 1 /\ b.dur <= SlotsPerDay
                      /\ DaysPerWeek \in Nat /\ DaysPerWeek > 0 /\ SlotsPerDay \in Nat /\ SlotsPerDay > 0
                      /\ Dated(b) \in BOOLEAN
<1>1. DaysPerWeek \in Nat /\ DaysPerWeek > 0 /\ SlotsPerDay \in Nat /\ SlotsPerDay > 0
    BY ScheduleAssumption DEF ScheduleAssumption
<1>2. \A b : Dated(b) \in BOOLEAN
    BY Zenon DEF Dated
<1> QED BY <1>1, <1>2 DEF Fits, Blocks, ValidBlock

LEMMA RunIs ==
    \A b : \A d \in Int : Fits(b) =>
        /\ d * SlotsPerDay \in Int
        /\ \A x : x \in RunSlots(b, d) <=> /\ x \in Int /\ d * SlotsPerDay + b.start <= x
                                           /\ x < d * SlotsPerDay + b.start + b.dur
<1> SUFFICES ASSUME NEW b, NEW d \in Int, Fits(b)
             PROVE  /\ d * SlotsPerDay \in Int
                    /\ \A x : x \in RunSlots(b, d) <=> /\ x \in Int /\ d * SlotsPerDay + b.start <= x
                                                       /\ x < d * SlotsPerDay + b.start + b.dur
    OBVIOUS
<1> DEFINE p == d * SlotsPerDay
<1>1. p \in Int /\ b.start \in Nat /\ b.dur \in Nat
    BY FitFacts
<1>2. RunSlots(b, d) = (p + b.start)..(p + b.start + b.dur - 1)
    BY DEF RunSlots
<1> HIDE DEF p
<1>3. \A x : x \in RunSlots(b, d) <=> x \in Int /\ p + b.start <= x /\ x < p + b.start + b.dur
    BY <1>1, <1>2
<1> QED BY <1>1, <1>3 DEF p

\* A run is on its date and, past midnight, on the next.
LEMMA RunDates ==
    ASSUME NEW b, Fits(b), NEW d \in Int, NEW x \in RunSlots(b, d)
    PROVE  /\ x \in Int /\ DateOf(x) \in {d, d + 1} /\ (DateOf(x) = d + 1 => CrossesMidnight(b))
<1> DEFINE s == SlotsPerDay
           p == d * s
<1>1. /\ s \in Nat /\ s > 0 /\ p \in Int /\ x \in Int /\ b.start \in Nat /\ b.dur \in Nat
      /\ b.start < s /\ b.dur <= s /\ p + b.start <= x /\ x < p + b.start + b.dur
    BY FitFacts, RunIs
<1>2. (d + 1) * s = p + s
    BY <1>1, NextProduct
<1>3. CASE x < p + s
    <2>1. d = DateOf(x)
        <3>1. p <= x /\ x < p + s
            <4> HIDE DEF p, s
            <4> QED BY <1>1, <1>3
        <3> QED BY <1>1, <3>1, DateIs
    <2> QED BY <1>1, <2>1
<1>4. CASE ~(x < p + s)
    <2>1. p + s <= x /\ x < (p + s) + s /\ b.start + b.dur > s
        <3> HIDE DEF p, s
        <3> QED BY <1>1, <1>4
    <2>2. d + 1 = DateOf(x)
        BY <1>1, <1>2, <2>1, DateIs
    <2> QED BY <1>1, <2>1, <2>2 DEF CrossesMidnight
<1> QED BY <1>3, <1>4

\* Runs that share a slot start a day apart at most.
LEMMA MeetingRuns ==
    ASSUME NEW l, Fits(l), NEW r, Fits(r), NEW d \in Int, NEW e \in Int,
           NEW x \in RunSlots(l, d), x \in RunSlots(r, e)
    PROVE  d \in {e - 1, e, e + 1} /\ (d = e + 1 => CrossesMidnight(r)) /\ (e = d + 1 => CrossesMidnight(l))
<1>1. DateOf(x) \in {d, d + 1} /\ (DateOf(x) = d + 1 => CrossesMidnight(l))
    BY RunDates
<1>2. DateOf(x) \in {e, e + 1} /\ (DateOf(x) = e + 1 => CrossesMidnight(r))
    BY RunDates
<1> QED BY <1>1, <1>2

\* A week's slots; where a block begins on the weekday line.
WeekSlots == DaysPerWeek * SlotsPerDay
LinePlace(b) == b.day * SlotsPerDay + b.start

LEMMA PlaceFacts ==
    \A b : Fits(b) => /\ WeekSlots \in Nat /\ WeekSlots > 0 /\ LinePlace(b) \in Nat /\ LinePlace(b) < WeekSlots
                      /\ b.dur \in Nat /\ b.dur <= WeekSlots
<1> SUFFICES ASSUME NEW b, Fits(b)
             PROVE  /\ WeekSlots \in Nat /\ WeekSlots > 0 /\ LinePlace(b) \in Nat /\ LinePlace(b) < WeekSlots
                    /\ b.dur \in Nat /\ b.dur <= WeekSlots
    OBVIOUS
<1> DEFINE s == SlotsPerDay
           n == DaysPerWeek
           p == b.day * s
           w == n * s
<1>1. /\ s \in Nat /\ s > 0 /\ n \in Nat /\ n > 0 /\ b.day \in Nat /\ b.day < n /\ b.start \in Nat /\ b.start < s
      /\ b.dur \in Nat /\ b.dur <= s
    BY FitFacts
<1>2. p \in Nat /\ w \in Nat
    BY <1>1
<1>3. (b.day + 1) * s <= n * s /\ 1 * s <= n * s
    <2>1. b.day + 1 \in Int /\ n \in Int /\ b.day + 1 <= n /\ 1 <= n
        BY <1>1
    <2> QED BY <1>1, <2>1, ProductsGrow
<1>4. (b.day + 1) * s = p + s /\ 1 * s = s
    BY <1>1, NextProduct
<1>5. p + s <= w /\ s <= w
    BY <1>3, <1>4
<1> HIDE DEF p, w, s
<1>6. p + b.start \in Nat /\ p + b.start < w /\ b.dur <= w /\ w > 0
    BY <1>1, <1>2, <1>5
<1> QED BY <1>1, <1>2, <1>6 DEF p, w, s, WeekSlots, LinePlace

\* The date of a weekday on the line.
LEMMA DateOnLine ==
    ASSUME NEW b, Fits(b), NEW d \in Int, b.day = d % DaysPerWeek
    PROVE  \E u \in Int : /\ d = DaysPerWeek * u + b.day /\ u * WeekSlots \in Int
                          /\ d * SlotsPerDay + b.start = u * WeekSlots + LinePlace(b)
<1> DEFINE n == DaysPerWeek
           s == SlotsPerDay
           u == d \div n
<1>1. n \in Nat /\ n > 0 /\ s \in Nat /\ b.day \in Nat /\ b.start \in Nat
    BY FitFacts
<1>2. u \in Int /\ d = n * u + (d % n)
    BY <1>1
<1>3. d = n * u + b.day
    BY <1>2
<1> HIDE DEF u
<1>4. d * s = u * (n * s) + b.day * s /\ u * (n * s) \in Int
    BY <1>1, <1>2, <1>3
<1>5. u * (n * s) \in Int /\ b.day * s \in Int
    BY <1>1, <1>2
<1>6. d * s + b.start = u * (n * s) + (b.day * s + b.start)
    <2> DEFINE p == d * s
               q == u * (n * s)
               t == b.day * s
    <2>1. p = q + t /\ q \in Int /\ t \in Int
        BY <1>4, <1>5
    <2> HIDE DEF p, q, t
    <2>2. p + b.start = q + (t + b.start)
        BY <1>1, <2>1
    <2> QED BY <2>2 DEF p, q, t
<1> QED BY <1>2, <1>3, <1>5, <1>6 DEF WeekSlots, LinePlace

\* MeetInTheWeek, on the line.
LEMMA MeetIs ==
    \A l, r : MeetInTheWeek(l, r) <=>
        \E shift \in {-WeekSlots, 0, WeekSlots} :
            LinePlace(l) < LinePlace(r) + r.dur + shift /\ LinePlace(r) + shift < LinePlace(l) + l.dur
BY Zenon DEF MeetInTheWeek, WeekSlots, LinePlace

LEMMA RunsMeetOnLine ==
    ASSUME NEW l, Fits(l), NEW r, Fits(r), NEW d \in Int, NEW e \in Int,
           l.day = d % DaysPerWeek, r.day = e % DaysPerWeek, RunSlots(l, d) \cap RunSlots(r, e) # {}
    PROVE  MeetInTheWeek(l, r)
<1> DEFINE w == WeekSlots
<1>1. PICK x : x \in RunSlots(l, d) /\ x \in RunSlots(r, e)
    OBVIOUS
<1>2. PICK u \in Int : u * w \in Int /\ d * SlotsPerDay + l.start = u * w + LinePlace(l)
    BY DateOnLine
<1>3. PICK v \in Int : v * w \in Int /\ e * SlotsPerDay + r.start = v * w + LinePlace(r)
    BY DateOnLine
<1> DEFINE k == v - u
           a == u * w
           c == v * w
           p == LinePlace(l)
           q == LinePlace(r)
<1>4. /\ w \in Nat /\ w > 0 /\ p \in Nat /\ q \in Nat /\ p < w /\ q < w
      /\ l.dur \in Nat /\ r.dur \in Nat /\ l.dur <= w /\ r.dur <= w
    BY PlaceFacts
<1>5. x \in Int /\ a + p <= x /\ x < a + p + l.dur /\ c + q <= x /\ x < c + q + r.dur
    BY <1>1, <1>2, <1>3, RunIs
<1>6. k \in Int /\ k * w = c - a /\ a \in Int /\ c \in Int
    BY <1>2, <1>3, <1>4
<1>7. k >= 2 => 2 * w <= k * w
    BY <1>4, <1>6, ProductsGrow
<1>8. k <= -2 => k * w <= (-2) * w
    BY <1>4, <1>6, ProductsGrow
<1>9. k = 1 => k * w = w
    BY <1>4
<1>10. k = -1 => k * w = -w
    BY <1>4
<1>11. k = 0 => k * w = 0
    BY <1>4
<1> DEFINE t == k * w
<1>12. (k >= 2 => 2 * w <= t) /\ (k <= -2 => t <= -(2 * w)) /\ (k = 1 => t = w) /\ (k = -1 => t = -w) /\ (k = 0 => t = 0)
       /\ t = c - a
    <2>1. (-2) * w = -(2 * w)
        BY <1>4
    <2> QED BY <1>6, <1>7, <1>8, <1>9, <1>10, <1>11, <2>1
<1> HIDE DEF t, k, a, c, p, q, w
<1>13. t \in {-w, 0, w} /\ p < q + r.dur + t /\ q + t < p + l.dur
    BY <1>4, <1>5, <1>6, <1>12
<1> QED BY <1>13, MeetIs DEF p, q, w

\* Two runs of a layer that share a slot are reported (scheduleBlocksOverlap).
LEMMA MeetingIsReported ==
    ASSUME NEW l, Fits(l), NEW r, Fits(r), NEW d \in Int, NEW e \in Int, Dated(l) = Dated(r),
           StartsOn(l, d), StartsOn(r, e), RunSlots(l, d) \cap RunSlots(r, e) # {}
    PROVE  BlocksOverlap(l, r)
<1>1. l.day = d % DaysPerWeek /\ r.day = e % DaysPerWeek /\ ActiveOn(l, d) /\ ActiveOn(r, e)
    BY DEF StartsOn
<1>2. PICK x : x \in RunSlots(l, d) /\ x \in RunSlots(r, e)
    OBVIOUS
<1>3. d \in {e - 1, e, e + 1} /\ (d = e + 1 => CrossesMidnight(r)) /\ (e = d + 1 => CrossesMidnight(l))
    BY <1>2, MeetingRuns
<1>4. /\ l.from \in Nat /\ l.until \in Nat /\ r.from \in Nat /\ r.until \in Nat
    BY FitFacts
<1>5. DatesMeet(l, r)
    BY <1>1, <1>3, <1>4 DEF DatesMeet, ActiveOn, LastAirDate
<1>6. MeetInTheWeek(l, r)
    BY <1>1, RunsMeetOnLine
<1>7. DatesDecide(l, r) => RunsMeet(l, r)
    <2> SUFFICES ASSUME DatesDecide(l, r) PROVE RunsMeet(l, r)
        OBVIOUS
    <2>1. 0 \notin {l.from, l.until, r.from, r.until}
        BY DEF DatesDecide
    <2>2. l.from <= d /\ d <= l.until /\ r.from <= e /\ e <= r.until
        BY <1>1, <1>4, <2>1 DEF ActiveOn
    <2> DEFINE f == SharedFrom(l, r)
               g == SharedUntil(l, r)
    <2>3. f \in Int /\ g \in Int /\ f <= d /\ f <= e /\ d <= g /\ e <= g
        BY <1>3, <1>4, <2>2 DEF SharedFrom, SharedUntil, Later, Earlier
    <2> HIDE DEF f, g
    <2>4. d \in Later(f, l.from)..Earlier(g, l.until) /\ e \in Later(f, r.from)..Earlier(g, r.until)
        BY <1>4, <2>2, <2>3 DEF Later, Earlier
    <2>5. d \in RunsBetween(l, f, g) /\ e \in RunsBetween(r, f, g)
        BY <1>1, <2>4 DEF RunsBetween
    <2> QED BY <2>5 DEF RunsMeet, f, g
<1> QED BY <1>5, <1>6, <1>7 DEF BlocksOverlap, ShareLayer

LEMMA WeekdayIs ==
    ASSUME NEW b, Fits(b), NEW u \in Int
    PROVE  DaysPerWeek * u + b.day \in Int /\ (DaysPerWeek * u + b.day) % DaysPerWeek = b.day
<1> DEFINE n == DaysPerWeek
           z == n * u + b.day
           v == z \div n
           m == z % n
<1>1. n \in Nat /\ n > 0 /\ b.day \in Nat /\ b.day < n
    BY FitFacts
<1>2. z \in Int
    BY <1>1
<1>3. v \in Int /\ m \in 0..(n - 1) /\ z = n * v + m
    <2> HIDE DEF z
    <2> QED BY <1>1, <1>2
<1>4. (u - v) * n = n * u - n * v /\ u - v \in Int /\ n * u \in Int /\ n * v \in Int
    BY <1>1, <1>3
<1> DEFINE p == n * u
           q == n * v
           k == u - v
<1>5. p + b.day = q + m
    BY <1>3
<1>6. k * n = p - q
    BY <1>4
<1>7. p \in Int /\ q \in Int /\ k \in Int
    BY <1>4
<1> HIDE DEF p, q, k, z, v, m
<1>8. -n < k * n /\ k * n < n
    BY <1>1, <1>3, <1>5, <1>6, <1>7
<1>9. k = 0
    BY <1>1, <1>7, <1>8, SmallProducts
<1>10. k * n = 0
    BY <1>1, <1>9
<1>11. p = q
    BY <1>6, <1>7, <1>10
<1>12. m = b.day
    BY <1>1, <1>3, <1>5, <1>7, <1>11
<1> QED BY <1>2, <1>12 DEF m, z

\* Among as many dates in a row as a week has days each weekday comes once.
LEMMA WeekdayComes ==
    ASSUME NEW b, Fits(b), NEW c \in Int
    PROVE  \E u \in Int : c <= DaysPerWeek * u + b.day /\ DaysPerWeek * u + b.day < c + DaysPerWeek
<1> DEFINE n == DaysPerWeek
           z == b.day - c
           k == z \div n
           m == z % n
<1>1. n \in Nat /\ n > 0 /\ b.day \in Nat
    BY FitFacts
<1>2. z \in Int
    BY <1>1
<1>3. k \in Int /\ m \in 0..(n - 1) /\ z = n * k + m
    <2> HIDE DEF z
    <2> QED BY <1>1, <1>2
<1>4. n * (-k) = -(n * k) /\ n * k \in Int /\ -k \in Int
    BY <1>1, <1>3
<1> DEFINE q == n * k
<1>5. b.day - c = q + m /\ n * (-k) = -q /\ q \in Int
    BY <1>3, <1>4
<1> HIDE DEF q, k, m, z
<1>6. c <= n * (-k) + b.day /\ n * (-k) + b.day < c + n
    <2> DEFINE t == n * (-k)
    <2>1. t = -q
        BY <1>5
    <2> HIDE DEF t
    <2>2. c <= t + b.day /\ t + b.day < c + n
        BY <1>1, <1>3, <1>5, <2>1
    <2> QED BY <2>2 DEF t
<1> QED BY <1>4, <1>6

\* Blocks that meet on the weekday line meet in every week, each time as many dates apart.
LEMMA LineMeetsEveryWeek ==
    ASSUME NEW l, Fits(l), NEW r, Fits(r), MeetInTheWeek(l, r)
    PROVE  \E t \in {-1, 0, 1} : \A u \in Int :
               RunSlots(l, DaysPerWeek * u + l.day) \cap RunSlots(r, DaysPerWeek * (u + t) + r.day) # {}
<1> DEFINE w == WeekSlots
           p == LinePlace(l)
           q == LinePlace(r)
<1>1. PICK shift \in {-w, 0, w} : p < q + r.dur + shift /\ q + shift < p + l.dur
    BY MeetIs
<1>2. w \in Nat /\ p \in Nat /\ q \in Nat /\ l.dur \in Nat /\ r.dur \in Nat /\ l.dur >= 1 /\ r.dur >= 1
    BY PlaceFacts, FitFacts
<1>3. \E t \in {-1, 0, 1} : t * w = shift
    <2>1. (-1) * w = -w /\ 0 * w = 0 /\ 1 * w = w
        BY <1>2
    <2> QED BY <1>1, <2>1
<1>4. PICK t \in {-1, 0, 1} : t * w = shift
    BY <1>3
<1> SUFFICES ASSUME NEW u \in Int
             PROVE  RunSlots(l, DaysPerWeek * u + l.day) \cap RunSlots(r, DaysPerWeek * (u + t) + r.day) # {}
    BY <1>4
<1> DEFINE d == DaysPerWeek * u + l.day
           e == DaysPerWeek * (u + t) + r.day
           s == SlotsPerDay
<1>5. d \in Int /\ e \in Int /\ u + t \in Int
    BY <1>4, WeekdayIs
<1>6. d * s + l.start = u * w + p /\ e * s + r.start = (u + t) * w + q
    <2>1. /\ DaysPerWeek \in Nat /\ s \in Nat /\ l.day \in Nat /\ r.day \in Nat /\ l.start \in Nat /\ r.start \in Nat
        BY FitFacts
    <2>2. \A a \in Int : \A k \in Nat : (DaysPerWeek * a + k) * s = a * (DaysPerWeek * s) + k * s
        BY <2>1
    <2>3. \A a \in Int : \A k, f \in Nat : (DaysPerWeek * a + k) * s + f = a * (DaysPerWeek * s) + (k * s + f)
        <3> SUFFICES ASSUME NEW a \in Int, NEW k \in Nat, NEW f \in Nat
                     PROVE  (DaysPerWeek * a + k) * s + f = a * (DaysPerWeek * s) + (k * s + f)
            OBVIOUS
        <3> DEFINE x == (DaysPerWeek * a + k) * s
                   y == a * (DaysPerWeek * s)
                   z == k * s
        <3>1. x = y + z /\ y \in Int /\ z \in Int
            BY <2>1, <2>2
        <3> HIDE DEF x, y, z
        <3>2. x + f = y + (z + f)
            BY <3>1
        <3> QED BY <3>2 DEF x, y, z
    <2> QED BY <1>5, <2>1, <2>3 DEF WeekSlots, LinePlace
<1>7. (u + t) * w = u * w + shift /\ u * w \in Int
    <2>1. (u + t) * w = u * w + t * w /\ u * w \in Int
        BY <1>2, <1>4
    <2> QED BY <1>4, <2>1
<1> DEFINE a == u * w
           c == (u + t) * w
           x == IF a + p >= c + q THEN a + p ELSE c + q
<1>8. a \in Int /\ c = a + shift /\ shift \in Int
    BY <1>1, <1>2, <1>7
<1>9. d * s + l.start = a + p /\ e * s + r.start = c + q
    BY <1>6
<1> DEFINE g == d * s + l.start
           h == e * s + r.start
<1>10. x \in Int /\ g <= x /\ x < g + l.dur /\ h <= x /\ x < h + r.dur
    <2>1. g = a + p /\ h = c + q
        BY <1>9
    <2> HIDE DEF g, h, a, c, p, q, w
    <2> QED BY <1>1, <1>2, <1>8, <2>1
<1>11. x \in RunSlots(l, d) /\ x \in RunSlots(r, e)
    <2>1. /\ \A y : y \in RunSlots(l, d) <=> y \in Int /\ d * s + l.start <= y /\ y < d * s + l.start + l.dur
          /\ \A y : y \in RunSlots(r, e) <=> y \in Int /\ e * s + r.start <= y /\ y < e * s + r.start + r.dur
        BY <1>5, RunIs
    <2> HIDE DEF x, d, e, s
    <2> QED BY <1>10, <2>1
<1> QED BY <1>11

\* What is reported of two blocks with first and last dates is so: on some date their runs share a slot.
LEMMA ReportedDoMeet ==
    ASSUME NEW l, Fits(l), NEW r, Fits(r), 0 \notin {l.from, l.until, r.from, r.until}, BlocksOverlap(l, r)
    PROVE  \E d \in l.from..l.until, e \in r.from..r.until :
               StartsOn(l, d) /\ StartsOn(r, e) /\ RunSlots(l, d) \cap RunSlots(r, e) # {}
<1> DEFINE n == DaysPerWeek
<1>1. /\ l.from \in Nat /\ l.until \in Nat /\ r.from \in Nat /\ r.until \in Nat
      /\ l.from # 0 /\ l.until # 0 /\ r.from # 0 /\ r.until # 0
      /\ n \in Nat /\ n > 0 /\ l.day \in Nat /\ r.day \in Nat
    BY FitFacts
<1>2. \A d \in Int : l.from <= d /\ d <= l.until /\ d % n = l.day => d \in l.from..l.until /\ StartsOn(l, d)
    BY <1>1 DEF StartsOn, ActiveOn
<1>3. \A e \in Int : r.from <= e /\ e <= r.until /\ e % n = r.day => e \in r.from..r.until /\ StartsOn(r, e)
    BY <1>1 DEF StartsOn, ActiveOn
<1>4. CASE DatesDecide(l, r)
    <2>1. PICK d \in RunsBetween(l, SharedFrom(l, r), SharedUntil(l, r)),
               e \in RunsBetween(r, SharedFrom(l, r), SharedUntil(l, r)) : RunSlots(l, d) \cap RunSlots(r, e) # {}
        BY <1>4 DEF BlocksOverlap, RunsMeet
    <2>2. \A f, g \in Int : \A x : x \in Later(f, g)..Earlier(f, g) => x \in Int
        BY DEF Later, Earlier
    <2>3. SharedFrom(l, r) \in Int /\ SharedUntil(l, r) \in Int
        BY <1>1 DEF SharedFrom, SharedUntil, Later, Earlier
    <2>4. d \in Int /\ l.from <= d /\ d <= l.until /\ d % n = l.day
        BY <1>1, <2>1, <2>3 DEF RunsBetween, Later, Earlier
    <2>5. e \in Int /\ r.from <= e /\ e <= r.until /\ e % n = r.day
        BY <1>1, <2>1, <2>3 DEF RunsBetween, Later, Earlier
    <2> QED BY <1>2, <1>3, <2>1, <2>4, <2>5
<1>5. CASE ~DatesDecide(l, r)
    <2> DEFINE first == Later(l.from, r.from)
               last == Earlier(l.until, r.until)
    <2>1. /\ first \in Int /\ last \in Int /\ last - first >= n
          /\ l.from <= first /\ r.from <= first /\ last <= l.until /\ last <= r.until
        BY <1>1, <1>5 DEF DatesDecide, SharedFrom, SharedUntil, Later, Earlier
    <2> HIDE DEF first, last
    <2>2. MeetInTheWeek(l, r)
        BY <1>5 DEF BlocksOverlap
    <2>3. PICK t \in {-1, 0, 1} : \A u \in Int :
               RunSlots(l, n * u + l.day) \cap RunSlots(r, n * (u + t) + r.day) # {}
        BY <2>2, LineMeetsEveryWeek
    <2> DEFINE apart == n * t + r.day - l.day
    <2>4. \A u \in Int : /\ n * u + l.day \in Int /\ n * (u + t) + r.day = (n * u + l.day) + apart
                         /\ n * (u + t) + r.day \in Int /\ u + t \in Int
        <3> SUFFICES ASSUME NEW u \in Int
                     PROVE  /\ n * u + l.day \in Int /\ n * (u + t) + r.day = (n * u + l.day) + apart
                            /\ n * (u + t) + r.day \in Int /\ u + t \in Int
            OBVIOUS
        <3>1. n * (u + t) = n * u + n * t /\ n * u \in Int /\ n * t \in Int
            BY <1>1, <2>3
        <3> DEFINE x == n * (u + t)
                   y == n * u
                   z == n * t
        <3>2. x = y + z /\ y \in Int /\ z \in Int
            BY <3>1
        <3> HIDE DEF x, y, z
        <3>3. x + r.day = (y + l.day) + (z + r.day - l.day) /\ y + l.day \in Int /\ x + r.day \in Int /\ u + t \in Int
            BY <1>1, <2>3, <3>2
        <3> QED BY <3>3 DEF x, y, z
    <2>5. apart \in {-1, 0, 1}
        <3> DEFINE d == n * 0 + l.day
                   e == n * (0 + t) + r.day
        <3>1. PICK x : x \in RunSlots(l, d) /\ x \in RunSlots(r, e)
            BY <2>3
        <3>2. d \in Int /\ e = d + apart /\ e \in Int
            BY <2>4
        <3>3. d \in {e - 1, e, e + 1}
            <4> HIDE DEF d, e
            <4> QED BY <3>1, <3>2, MeetingRuns
        <3>4. apart \in Int
            BY <1>1, <2>3
        <3> HIDE DEF d, e, apart
        <3> QED BY <3>2, <3>3, <3>4
    <2> DEFINE c == IF apart = -1 THEN first + 1 ELSE first
    <2>6. c \in Int /\ (apart = -1 => c = first + 1) /\ (apart # -1 => c = first)
        BY <2>1
    <2> HIDE DEF c
    <2>7. PICK u \in Int : c <= n * u + l.day /\ n * u + l.day < c + n
        BY <2>6, WeekdayComes
    <2> DEFINE d == n * u + l.day
               e == n * (u + t) + r.day
    <2>8. d \in Int /\ e = d + apart /\ e \in Int
        BY <2>4
    <2>9. d % n = l.day /\ e % n = r.day
        BY <2>4, WeekdayIs
    <2>10. RunSlots(l, d) \cap RunSlots(r, e) # {}
        BY <2>3
    <2>11. c <= d /\ d < c + n
        BY <2>7
    <2> HIDE DEF d, e, apart
    <2>12. first <= d /\ d <= last /\ first <= e /\ e <= last
        BY <1>1, <2>1, <2>5, <2>6, <2>8, <2>11
    <2>13. l.from <= d /\ d <= l.until /\ r.from <= e /\ e <= r.until
        BY <1>1, <2>1, <2>8, <2>12
    <2> QED BY <1>2, <1>3, <2>8, <2>9, <2>10, <2>13
<1> QED BY <1>4, <1>5

\* The conflict check says of every pair of a table what the dates say.
LEMMA ReportIsExact == \A blocks : SavedBlocks(blocks) => ExactFor(blocks)
<1> SUFFICES ASSUME NEW blocks, SavedBlocks(blocks) PROVE ExactFor(blocks)
    OBVIOUS
<1> DEFINE dates == 1..(3 * DaysPerWeek)
<1>1. \A i \in DOMAIN blocks : Fits(blocks[i])
    BY DEF SavedBlocks, Fits
<1>2. ASSUME NEW l, Fits(l), NEW r, Fits(r), Dated(l) = Dated(r)
      PROVE  /\ ReallyMeet(l, r, dates) => BlocksOverlap(l, r)
             /\ 0 \notin {l.from, l.until, r.from, r.until} /\ Later(l.until, r.until) \in dates
                    => (BlocksOverlap(l, r) <=> ReallyMeet(l, r, dates))
    <2>1. dates \subseteq Int
        BY <1>2, FitFacts
    <2>2. ReallyMeet(l, r, dates) => BlocksOverlap(l, r)
        BY <1>2, <2>1, MeetingIsReported DEF ReallyMeet
    <2>3. ASSUME 0 \notin {l.from, l.until, r.from, r.until}, Later(l.until, r.until) \in dates, BlocksOverlap(l, r)
          PROVE  ReallyMeet(l, r, dates)
        <3>1. PICK d \in l.from..l.until, e \in r.from..r.until :
                  StartsOn(l, d) /\ StartsOn(r, e) /\ RunSlots(l, d) \cap RunSlots(r, e) # {}
            BY <1>2, <2>3, ReportedDoMeet
        <3>2. /\ l.from \in Nat /\ l.until \in Nat /\ r.from \in Nat /\ r.until \in Nat /\ DaysPerWeek \in Nat
              /\ l.from # 0 /\ r.from # 0
            BY <1>2, <2>3, FitFacts
        <3>3. d \in dates /\ e \in dates
            BY <2>3, <3>2 DEF Later
        <3> QED BY <3>1, <3>3 DEF ReallyMeet
    <2> HIDE DEF dates
    <2> QED BY <2>2, <2>3
<1> QED BY <1>1, <1>2 DEF ExactFor

---------------------------------------------------------------------------
(* One block at a time                                                    *)

\* What the dated runs of a day cover, told from that date or the date before.
LEMMA DatedSlotsAgree ==
    ASSUME NEW blocks, SavedBlocks(blocks), NEW w \in Int, NEW d \in Int, DateOf(w) = d
    PROVE  /\ w \in DatedSlotsOf(blocks, d - 1) <=> w \in DatedSlotsOf(blocks, d)
           /\ \A i \in DOMAIN blocks : \A e \in {d - 1, d} :
                  Dated(blocks[i]) /\ StartsOn(blocks[i], e) /\ w \in RunSlots(blocks[i], e)
                      => w \in DatedSlotsOf(blocks, d)
<1>1. ASSUME NEW f \in Int
      PROVE  w \in DatedSlotsOf(blocks, f) <=>
                 \E i \in DOMAIN blocks : \E e \in DatesAround(f) :
                     Dated(blocks[i]) /\ StartsOn(blocks[i], e) /\ w \in RunSlots(blocks[i], e)
    <2>1. w \in DatedSlotsOf(blocks, f) <=>
              \E p \in (DOMAIN blocks) \X DatesAround(f) :
                  Dated(blocks[p[1]]) /\ StartsOn(blocks[p[1]], p[2]) /\ w \in RunSlots(blocks[p[1]], p[2])
        BY DEF DatedSlotsOf
    <2>2. ASSUME NEW i \in DOMAIN blocks, NEW e \in DatesAround(f),
                 Dated(blocks[i]), StartsOn(blocks[i], e), w \in RunSlots(blocks[i], e)
          PROVE  \E p \in (DOMAIN blocks) \X DatesAround(f) :
                  Dated(blocks[p[1]]) /\ StartsOn(blocks[p[1]], p[2]) /\ w \in RunSlots(blocks[p[1]], p[2])
        <3> DEFINE p == <<i, e>>
        <3>1. p \in (DOMAIN blocks) \X DatesAround(f) /\ p[1] = i /\ p[2] = e
            OBVIOUS
        <3> QED BY <2>2, <3>1
    <2> QED BY <2>1, <2>2
<1>2. ASSUME NEW i \in DOMAIN blocks, NEW e \in Int, w \in RunSlots(blocks[i], e)
      PROVE  e \in {d - 1, d}
    <2>1. Fits(blocks[i])
        BY DEF SavedBlocks, Fits
    <2>2. d \in {e, e + 1}
        BY <1>2, <2>1, RunDates
    <2> QED BY <2>2
<1>3. \A e \in {d - 1, d} : e \in DatesAround(d - 1) /\ e \in DatesAround(d)
    BY DEF DatesAround
<1>4. d - 1 \in Int /\ (\A e \in DatesAround(d - 1) : e \in Int) /\ (\A e \in DatesAround(d) : e \in Int)
    BY DEF DatesAround
<1> QED BY <1>1, <1>2, <1>3, <1>4

LEMMA OnlyOneRun ==
    ASSUME NEW blocks, SavedBlocks(blocks), Overlaps(blocks) = {}, NEW w \in Int,
           NEW r \in OnAirAt(blocks, w), NEW q \in OnAirAt(blocks, w)
    PROVE  r = q
<1> DEFINE d == DateOf(w)
<1>1. d \in Int
    BY SchedConstants
<1>2. /\ r = <<r[1], r[2]>> /\ r[1] \in DOMAIN blocks /\ r[2] \in Int /\ StartsOn(blocks[r[1]], r[2])
      /\ q = <<q[1], q[2]>> /\ q[1] \in DOMAIN blocks /\ q[2] \in Int /\ StartsOn(blocks[q[1]], q[2])
      /\ r[2] \in {d - 1, d} /\ q[2] \in {d - 1, d}
    BY OnAirFacts
<1>3. Fits(blocks[r[1]]) /\ Fits(blocks[q[1]])
    BY <1>2 DEF SavedBlocks, Fits
<1>4. /\ w \in RunSlots(blocks[r[1]], r[2]) /\ (Dated(blocks[r[1]]) \/ w \notin DatedSlotsOf(blocks, d))
      /\ w \in RunSlots(blocks[q[1]], q[2]) /\ (Dated(blocks[q[1]]) \/ w \notin DatedSlotsOf(blocks, d))
    BY DEF OnAirAt, AirSlots
<1>5. Dated(blocks[r[1]]) = Dated(blocks[q[1]])
    <2>1. Dated(blocks[r[1]]) \in BOOLEAN /\ Dated(blocks[q[1]]) \in BOOLEAN
        BY <1>3, FitFacts
    <2>2. Dated(blocks[r[1]]) => Dated(blocks[q[1]])
        BY <1>1, <1>2, <1>4, DatedSlotsAgree
    <2>3. Dated(blocks[q[1]]) => Dated(blocks[r[1]])
        BY <1>1, <1>2, <1>4, DatedSlotsAgree
    <2> DEFINE x == Dated(blocks[r[1]])
               y == Dated(blocks[q[1]])
    <2> HIDE DEF x, y
    <2>4. x = y
        BY <2>1, <2>2, <2>3 DEF x, y
    <2> QED BY Zenon, <2>4 DEF x, y
<1>6. r[1] = q[1]
    <2> SUFFICES ASSUME r[1] # q[1] PROVE FALSE
        OBVIOUS
    <2>1. BlocksOverlap(blocks[r[1]], blocks[q[1]])
        BY <1>2, <1>3, <1>4, <1>5, MeetingIsReported
    <2> DEFINE p == <<r[1], q[1]>>
    <2>2. p \in (DOMAIN blocks) \X DOMAIN blocks /\ p[1] = r[1] /\ p[2] = q[1]
        BY <1>2
    <2>3. p \in Overlaps(blocks)
        BY <2>1, <2>2 DEF Overlaps
    <2> QED BY <2>3
<1>7. r[2] = q[2]
    <2> DEFINE b == blocks[r[1]]
               x == r[2] * SlotsPerDay
               y == q[2] * SlotsPerDay
    <2>1. /\ x \in Int /\ y \in Int /\ x + b.start <= w /\ w < x + b.start + b.dur
          /\ y + b.start <= w /\ w < y + b.start + b.dur
        BY <1>2, <1>3, <1>4, <1>6, RunIs
    <2>2. /\ b.start \in Nat /\ b.dur \in Nat /\ b.dur <= SlotsPerDay /\ SlotsPerDay \in Nat /\ SlotsPerDay > 0
        BY <1>3, FitFacts
    <2>3. (r[2] - q[2]) * SlotsPerDay = x - y /\ r[2] - q[2] \in Int
        BY <1>2, <2>2
    <2>4. -SlotsPerDay < x - y /\ x - y < SlotsPerDay
        <3> HIDE DEF b, x, y
        <3> QED BY <2>1, <2>2
    <2> HIDE DEF b, x, y
    <2>5. r[2] - q[2] = 0
        BY <2>2, <2>3, <2>4, SmallProducts
    <2> QED BY <1>2, <2>5
<1> QED BY <1>2, <1>6, <1>7

LEMMA OneOnAir == \A blocks : SavedBlocks(blocks) => OneOnAirIn(blocks)
<1> SUFFICES ASSUME NEW blocks, SavedBlocks(blocks), Overlaps(blocks) = {},
                    NEW w \in SlotsPerDay..WallAt(LastSlot)
             PROVE  /\ Cardinality(OnAirAt(blocks, w)) <= 1
                    /\ \A shown \in Occurrences(blocks, DateOf(w) - 1) : shown[2] = DateOf(w) - 1 =>
                           (w \in AirSlots(blocks, shown, DateOf(w) - 1)
                              <=> shown \in Occurrences(blocks, DateOf(w)) /\ w \in AirSlots(blocks, shown, DateOf(w)))
    BY DEF OneOnAirIn
<1> DEFINE d == DateOf(w)
<1>1. w \in Int /\ d \in Int
    BY SchedConstants
<1>2. Cardinality(OnAirAt(blocks, w)) <= 1
    <2>1. CASE OnAirAt(blocks, w) = {}
        BY <2>1, FS_EmptySet
    <2>2. CASE OnAirAt(blocks, w) # {}
        <3>1. PICK r : r \in OnAirAt(blocks, w)
            BY <2>2
        <3>2. OnAirAt(blocks, w) = {r}
            BY <1>1, <3>1, OnlyOneRun
        <3>3. Cardinality({r}) = 1
            BY FS_Singleton
        <3> QED BY <3>2, <3>3
    <2> QED BY <2>1, <2>2
<1>3. ASSUME NEW shown \in Occurrences(blocks, d - 1), shown[2] = d - 1
      PROVE  w \in AirSlots(blocks, shown, d - 1)
                <=> shown \in Occurrences(blocks, d) /\ w \in AirSlots(blocks, shown, d)
    <2>1. shown \in (DOMAIN blocks) \X {(d - 1) - 1, d - 1} /\ StartsOn(blocks[shown[1]], shown[2])
        BY <1>3 DEF Occurrences
    <2>2. shown \in (DOMAIN blocks) \X {d - 1, d}
        BY <1>3, <2>1
    <2>3. w \in AirSlots(blocks, shown, d - 1) <=> w \in AirSlots(blocks, shown, d)
        <3>1. w \in DatedSlotsOf(blocks, d - 1) <=> w \in DatedSlotsOf(blocks, d)
            BY <1>1, DatedSlotsAgree
        <3> QED BY <3>1 DEF AirSlots
    <2>4. w \in AirSlots(blocks, shown, d) => CrossesMidnight(blocks[shown[1]])
        <3> SUFFICES ASSUME w \in AirSlots(blocks, shown, d) PROVE CrossesMidnight(blocks[shown[1]])
            OBVIOUS
        <3>1. w \in RunSlots(blocks[shown[1]], shown[2]) /\ shown[2] \in Int
            BY <1>1, <1>3 DEF AirSlots
        <3>2. Fits(blocks[shown[1]])
            BY <2>1 DEF SavedBlocks, Fits
        <3>3. DateOf(w) = shown[2] + 1
            BY <1>1, <1>3
        <3> QED BY <3>1, <3>2, <3>3, RunDates
    <2>5. w \in AirSlots(blocks, shown, d) => shown \in Occurrences(blocks, d)
        BY <2>1, <2>2, <2>4 DEF Occurrences
    <2> QED BY <2>3, <2>5
<1> QED BY <1>2, <1>3

---------------------------------------------------------------------------
(* The next one                                                           *)

LEMMA LeastFrom ==
    \A T \in SUBSET Int : \A low \in Int :
        T # {} /\ (\A x \in T : low <= x) => \E x \in T : \A y \in T : x <= y
<1> SUFFICES ASSUME NEW T \in SUBSET Int, NEW low \in Int, T # {}, \A x \in T : low <= x
             PROVE  \E x \in T : \A y \in T : x <= y
    OBVIOUS
<1> DEFINE U == {x - low : x \in T}
<1>1. U \in SUBSET Nat /\ U # {}
    <2>1. \A x \in T : x - low \in Nat
        OBVIOUS
    <2> QED BY <2>1
<1> HIDE DEF U
<1>2. PICK u \in U : \A v \in U : u <= v
    BY <1>1, LeastOf
<1>3. PICK x \in T : u = x - low
    BY <1>2 DEF U
<1>4. \A y \in T : x - low <= y - low
    BY <1>2, <1>3 DEF U
<1>5. \A y \in T : x <= y
    BY <1>4
<1> QED BY <1>5

\* A window begins at slot x.
Begins(blocks, x) == \E shown \in OnAirAt(blocks, x) : x - 1 \notin AirSlots(blocks, shown, DateOf(x))

\* What a date's list says begins on that date.
BeginningsOn(blocks, e) == {x \in WindowStarts(blocks, e) : DateOf(x[1]) = e}

LEMMA BeginningsAre ==
    ASSUME NEW blocks, SavedBlocks(blocks), NEW e \in Int
    PROVE  /\ \A u \in BeginningsOn(blocks, e) : u[1] \in Int /\ DateOf(u[1]) = e /\ Begins(blocks, u[1])
           /\ \A x \in Int : DateOf(x) = e /\ Begins(blocks, x) => \E u \in BeginningsOn(blocks, e) : u[1] = x
<1>1. ASSUME NEW u \in BeginningsOn(blocks, e)
      PROVE  u[1] \in Int /\ DateOf(u[1]) = e /\ Begins(blocks, u[1])
    <2>1. u \in WindowStarts(blocks, e) /\ DateOf(u[1]) = e
        BY DEF BeginningsOn
    <2>2. PICK shown \in Occurrences(blocks, e) :
              u \in {<<s, shown>> : s \in {x \in AirSlots(blocks, shown, e) : x - 1 \notin AirSlots(blocks, shown, e)}}
        BY <2>1 DEF WindowStarts
    <2>3. u[1] \in AirSlots(blocks, shown, e) /\ u[1] - 1 \notin AirSlots(blocks, shown, e)
        BY <2>2
    <2>4. u[1] \in Int
        <3>1. shown[1] \in DOMAIN blocks /\ shown[2] \in Int
            BY DEF Occurrences
        <3>2. Fits(blocks[shown[1]])
            BY <3>1 DEF SavedBlocks, Fits
        <3>3. u[1] \in RunSlots(blocks[shown[1]], shown[2])
            BY <2>3 DEF AirSlots
        <3> QED BY <3>1, <3>2, <3>3, RunIs
    <2>5. shown \in OnAirAt(blocks, u[1])
        BY <2>1, <2>3 DEF OnAirAt
    <2> QED BY <2>1, <2>3, <2>4, <2>5 DEF Begins
<1>2. ASSUME NEW x \in Int, DateOf(x) = e, Begins(blocks, x)
      PROVE  \E u \in BeginningsOn(blocks, e) : u[1] = x
    <2>1. PICK shown \in OnAirAt(blocks, x) : x - 1 \notin AirSlots(blocks, shown, e)
        BY <1>2 DEF Begins
    <2>2. shown \in Occurrences(blocks, e) /\ x \in AirSlots(blocks, shown, e)
        BY <1>2 DEF OnAirAt
    <2> DEFINE u == <<x, shown>>
    <2>3. u \in {<<s, shown>> : s \in {y \in AirSlots(blocks, shown, e) : y - 1 \notin AirSlots(blocks, shown, e)}}
        BY <2>1, <2>2
    <2>4. u \in WindowStarts(blocks, e)
        BY <2>2, <2>3 DEF WindowStarts
    <2>5. u[1] = x
        OBVIOUS
    <2> QED BY <1>2, <2>4, <2>5 DEF BeginningsOn
<1> QED BY <1>1, <1>2

\* Slots of two dates lie as the dates do.
LEMMA DatesInOrder ==
    ASSUME NEW v \in Int, NEW w \in Int, DateOf(v) < DateOf(w)
    PROVE  v < w
<1>1. DateOf(v) \in Int /\ DateOf(w) \in Int
    BY SchedConstants
<1>2. w <= v => DateOf(w) <= DateOf(v)
    BY DivisionGrows
<1> QED BY <1>1, <1>2

LEMMA TheNextIsNext == \A blocks : \A w \in Int : SavedBlocks(blocks) => NextFrom(blocks, w)
<1> SUFFICES ASSUME NEW blocks, NEW w \in Int, SavedBlocks(blocks) PROVE NextFrom(blocks, w)
    OBVIOUS
<1> DEFINE d == DateOf(w)
           n == DaysPerWeek
           end == (d + n) * SlotsPerDay
           begins == {x \in (w + 1)..end : \E shown \in OnAirAt(blocks, x) : x - 1 \notin AirSlots(blocks, shown, DateOf(x))}
           first == CHOOSE x \in begins : \A y \in begins : x <= y
           today == {x \in WindowStarts(blocks, d) : x[1] > w /\ DateOf(x[1]) = d}
           on(e) == {x \in WindowStarts(blocks, e) : DateOf(x[1]) = e}
           later == {e \in (d + 1)..(d + n) : on(e) # {}}
           soonest == CHOOSE e \in later : \A f \in later : e <= f
           next == IF today # {} THEN today ELSE IF later = {} THEN {} ELSE on(soonest)
<1>1. Upcoming(blocks, w) = next
    BY DEF Upcoming
<1>2. NextFrom(blocks, w) <=>
          (begins # {} => (\E u \in next : u[1] = first) /\ (\A u \in next : u[1] >= first))
    <2> HIDE DEF next
    <2> QED BY <1>1 DEF NextFrom
<1>3. d \in Int /\ n \in Nat /\ n > 0 /\ end \in Int
    BY SchedConstants, ScheduleAssumption DEF ScheduleAssumption
<1>4. DateOf(end) = d + n
    <2> DEFINE e == d + n
    <2>1. e \in Int /\ SlotsPerDay \in Nat /\ SlotsPerDay > 0 /\ end = e * SlotsPerDay
        BY <1>3, SchedConstants
    <2> HIDE DEF e, end
    <2>2. e * SlotsPerDay <= end /\ end < e * SlotsPerDay + SlotsPerDay
        BY <1>3, <2>1
    <2>3. e = DateOf(end)
        BY <1>3, <2>1, <2>2, DateIs
    <2> QED BY <2>3 DEF e
<1>5. \A x : x \in begins <=> x \in Int /\ w < x /\ x <= end /\ Begins(blocks, x)
    <2> HIDE DEF end
    <2> QED BY <1>3 DEF Begins
<1>6. \A e \in Int : on(e) = BeginningsOn(blocks, e)
    BY DEF BeginningsOn
<1>7. \A u : u \in today <=> u \in on(d) /\ u[1] > w
    OBVIOUS
<1>8. \A e : e \in later <=> e \in Int /\ d + 1 <= e /\ e <= d + n /\ on(e) # {}
    <2> HIDE DEF on, d, n
    <2> QED BY <1>3
<1> SUFFICES ASSUME begins # {}
             PROVE  (\E u \in next : u[1] = first) /\ (\A u \in next : u[1] >= first)
    BY <1>2
<1> HIDE DEF begins, today, on, later, end, n
<1>9. first \in begins /\ \A y \in begins : first <= y
    <2>1. begins \in SUBSET Int /\ \A x \in begins : w <= x
        BY <1>5
    <2>2. \E x \in begins : \A y \in begins : x <= y
        BY <2>1, LeastFrom
    <2> QED BY <2>2
<1> HIDE DEF first
<1>10. first \in Int /\ w < first /\ first <= end /\ Begins(blocks, first)
    BY <1>5, <1>9
<1> DEFINE f == DateOf(first)
<1>11. f \in Int /\ d <= f /\ f <= d + n
    BY <1>3, <1>4, <1>10, DivisionGrows, SchedConstants
<1>12. PICK u \in on(f) : u[1] = first
    BY <1>6, <1>10, <1>11, BeginningsAre
<1>13. \A e \in Int : \A v \in on(e) : v[1] \in Int /\ DateOf(v[1]) = e /\ Begins(blocks, v[1])
    BY <1>6, BeginningsAre
<1>14. \A e \in Int : \A v \in on(e) : v[1] > w => first <= v[1]
    <2> SUFFICES ASSUME NEW e \in Int, NEW v \in on(e), v[1] > w PROVE first <= v[1]
        OBVIOUS
    <2>1. v[1] \in Int /\ Begins(blocks, v[1])
        BY <1>13
    <2>2. CASE v[1] <= end
        BY <1>5, <1>9, <2>1, <2>2
    <2>3. CASE ~(v[1] <= end)
        BY <1>3, <1>10, <2>1, <2>3
    <2> QED BY <2>2, <2>3
<1> HIDE DEF f
<1>15. CASE today # {}
    <2>1. PICK v : v \in today
        BY <1>15
    <2>2. v \in on(d) /\ v[1] > w
        BY <1>7, <2>1
    <2>3. first <= v[1] /\ v[1] \in Int /\ DateOf(v[1]) = d
        BY <1>3, <1>13, <1>14, <2>2
    <2>4. f <= d
        BY <1>10, <2>3, DivisionGrows DEF f
    <2>5. f = d
        BY <1>3, <1>11, <2>4
    <2>6. u \in today
        BY <1>7, <1>10, <1>12, <2>5
    <2>7. next = today
        BY <1>15
    <2>8. \A v2 \in today : v2[1] >= first
        BY <1>3, <1>7, <1>10, <1>13, <1>14
    <2> QED BY <1>12, <2>6, <2>7, <2>8
<1>16. CASE today = {}
    <2>1. f # d
        BY <1>7, <1>10, <1>12, <1>16
    <2>2. f \in later
        BY <1>3, <1>8, <1>11, <1>12, <2>1
    <2>3. soonest \in later /\ \A e \in later : soonest <= e
        <3>1. later \in SUBSET Int /\ \A e \in later : d <= e
            BY <1>3, <1>8
        <3>2. \E e \in later : \A g \in later : e <= g
            BY <1>3, <2>2, <3>1, LeastFrom
        <3> QED BY <3>2
    <2>4. next = on(soonest)
        BY <1>16, <2>2
    <2> HIDE DEF soonest
    <2>5. soonest \in Int /\ d < soonest /\ on(soonest) # {} /\ soonest <= f
        BY <1>3, <1>8, <2>2, <2>3
    <2>6. \A e \in Int : \A v \in on(e) : d < e => v[1] > w
        BY <1>3, <1>13, DatesInOrder
    <2>7. soonest = f
        <3>1. PICK v : v \in on(soonest)
            BY <2>5
        <3>2. first <= v[1] /\ v[1] \in Int /\ DateOf(v[1]) = soonest
            BY <1>13, <1>14, <2>5, <2>6, <3>1
        <3>3. f <= soonest
            BY <1>10, <3>2, DivisionGrows DEF f
        <3> QED BY <1>11, <2>5, <3>3
    <2>8. \A v \in on(f) : v[1] >= first
        BY <1>10, <1>11, <1>13, <1>14, <2>5, <2>6, <2>7
    <2> QED BY <1>12, <2>4, <2>7, <2>8
<1> QED BY <1>15, <1>16

---------------------------------------------------------------------------
(* A save brings no overlap in but by a stale check                       *)

LEMMA MeetBothWays ==
    ASSUME NEW l, Fits(l), NEW r, Fits(r), MeetInTheWeek(l, r)
    PROVE  MeetInTheWeek(r, l)
<1>1. PICK shift \in {-WeekSlots, 0, WeekSlots} :
          LinePlace(l) < LinePlace(r) + r.dur + shift /\ LinePlace(r) + shift < LinePlace(l) + l.dur
    BY MeetIs
<1>2. WeekSlots \in Nat /\ LinePlace(l) \in Nat /\ LinePlace(r) \in Nat /\ l.dur \in Nat /\ r.dur \in Nat
    BY PlaceFacts
<1>3. /\ -shift \in {-WeekSlots, 0, WeekSlots}
      /\ LinePlace(r) < LinePlace(l) + l.dur + (-shift) /\ LinePlace(l) + (-shift) < LinePlace(r) + r.dur
    BY <1>1, <1>2
<1> QED BY <1>3, MeetIs

LEMMA OverlapBothWays ==
    ASSUME NEW l, Fits(l), NEW r, Fits(r), BlocksOverlap(l, r)
    PROVE  BlocksOverlap(r, l)
<1>1. l.from \in Nat /\ r.from \in Nat /\ l.until \in Nat /\ r.until \in Nat
    BY FitFacts
<1>2. ShareLayer(r, l)
    BY Zenon DEF BlocksOverlap, ShareLayer, DatesMeet
<1>3. SharedFrom(l, r) = SharedFrom(r, l) /\ SharedUntil(l, r) = SharedUntil(r, l)
    BY <1>1 DEF SharedFrom, SharedUntil, Later, Earlier
<1>4. DatesDecide(l, r) <=> DatesDecide(r, l)
    BY <1>3 DEF DatesDecide
<1>5. RunsMeet(l, r) => RunsMeet(r, l)
    BY <1>3 DEF RunsMeet
<1>6. MeetInTheWeek(l, r) => MeetInTheWeek(r, l)
    BY MeetBothWays
<1>7. IF DatesDecide(l, r) THEN RunsMeet(l, r) ELSE MeetInTheWeek(l, r)
    BY DEF BlocksOverlap
<1>8. IF DatesDecide(r, l) THEN RunsMeet(r, l) ELSE MeetInTheWeek(r, l)
    BY <1>4, <1>5, <1>6, <1>7
<1> QED BY <1>2, <1>8 DEF BlocksOverlap

\* The check need only look at pairs with a changed block (findScheduleConflictsInvolving).
LEMMA NoNewOverlap ==
    ASSUME NEW old, NEW blocks, SavedBlocks(blocks), NEW changed, ~NewConflict(blocks, changed),
           \A j \in DOMAIN blocks : j \in changed \/ (j \in DOMAIN old /\ blocks[j] = old[j])
    PROVE  Overlaps(blocks) \subseteq Overlaps(old)
<1> SUFFICES ASSUME NEW p \in Overlaps(blocks) PROVE p \in Overlaps(old)
    OBVIOUS
<1>1. p \in (DOMAIN blocks) \X DOMAIN blocks /\ p[1] # p[2] /\ BlocksOverlap(blocks[p[1]], blocks[p[2]])
    BY DEF Overlaps
<1>2. p[1] \in DOMAIN blocks /\ p[2] \in DOMAIN blocks /\ p = <<p[1], p[2]>>
    BY <1>1
<1>3. Fits(blocks[p[1]]) /\ Fits(blocks[p[2]])
    BY <1>2 DEF SavedBlocks, Fits
<1>4. BlocksOverlap(blocks[p[2]], blocks[p[1]])
    BY <1>1, <1>3, OverlapBothWays
<1>5. p[1] \notin changed
    BY <1>1, <1>2 DEF NewConflict
<1>6. p[2] \notin changed
    BY <1>1, <1>2, <1>4 DEF NewConflict
<1>7. /\ p[1] \in DOMAIN old /\ blocks[p[1]] = old[p[1]]
      /\ p[2] \in DOMAIN old /\ blocks[p[2]] = old[p[2]]
    BY <1>2, <1>5, <1>6
<1>8. p \in (DOMAIN old) \X DOMAIN old
    BY <1>2, <1>7
<1>9. BlocksOverlap(old[p[1]], old[p[2]])
    BY <1>1, <1>7
<1> QED BY <1>1, <1>8, <1>9 DEF Overlaps

\* The table as a save under way will write it.
AsWritten(blocks, e) ==
    [j \in DOMAIN blocks |->
        IF e.kind = "block" /\ j = e.id THEN Placed(e.grid, e.grid.day, 0)
        ELSE IF e.kind = "set" /\ blocks[j].group = e.group THEN Placed(e.grid, blocks[j].day, e.group)
        ELSE blocks[j]]

\* Until another save is committed, a save that passed its check brings no overlap in.
EditIsClear ==
    edit.kind # "none" /\ ~edit.stale => Overlaps(AsWritten(table, edit)) \subseteq Overlaps(table)

WeekInv == SchedShape /\ EditIsClear

LEMMA CheckIsClear ==
    ASSUME SchedShape, CheckEdit
    PROVE  EditIsClear'
<1>1. PICK i \in DOMAIN table, grid \in Grids, set \in BOOLEAN :
        LET wholeSet == set /\ table[i].group # 0
            changed == IF wholeSet THEN {j \in DOMAIN table : table[j].group = table[i].group} ELSE {i}
            after(j) == IF wholeSet THEN Placed(grid, table[j].day, table[j].group) ELSE Placed(grid, grid.day, 0)
            blocks == [j \in DOMAIN table |-> IF j \in changed THEN after(j) ELSE table[j]]
        IN  /\ \A j \in changed : ValidBlock(blocks[j], Today)
            /\ ~NewConflict(blocks, changed)
            /\ edit' = [kind |-> IF wholeSet THEN "set" ELSE "block", id |-> i, group |-> table[i].group,
                        grid |-> grid, stale |-> FALSE]
            /\ UNCHANGED <<clock, table, recorded, fired, airBlock, airedCues, excused>>
    BY Zenon DEF CheckEdit
<1>2. table' = table
    BY <1>1
<1>3. Today \in Int /\ grid \in Blocks /\ grid.day \in Nat /\ i \in BlockIds
      /\ \A j \in DOMAIN table : table[j].group \in BlockIds \cup {0} /\ table[j].day \in Nat
    BY ShapeFacts
<1>4. SavedBlocks(table)
    BY DEF SchedShape
<1>5. Overlaps(AsWritten(table, edit')) \subseteq Overlaps(table)
    <2>1. CASE set /\ table[i].group # 0
        <3> DEFINE changed == {j \in DOMAIN table : table[j].group = table[i].group}
                   blocks == [j \in DOMAIN table |->
                                IF j \in changed THEN Placed(grid, table[j].day, table[j].group) ELSE table[j]]
        <3>1. /\ edit' = [kind |-> "set", id |-> i, group |-> table[i].group, grid |-> grid, stale |-> FALSE]
              /\ \A j \in changed : ValidBlock(blocks[j], Today)
              /\ ~NewConflict(blocks, changed)
            BY <1>1, <2>1
        <3>2. edit'.kind = "set" /\ edit'.group = table[i].group /\ edit'.grid = grid
            BY <3>1
        <3>3. \A j \in DOMAIN table :
                  (IF edit'.kind = "block" /\ j = edit'.id THEN Placed(edit'.grid, edit'.grid.day, 0)
                   ELSE IF edit'.kind = "set" /\ table[j].group = edit'.group
                        THEN Placed(edit'.grid, table[j].day, edit'.group)
                   ELSE table[j]) = blocks[j]
            BY <3>2
        <3>4. AsWritten(table, edit') = blocks
            BY <3>3 DEF AsWritten
        <3>5. \A j \in changed : blocks[j] \in Blocks /\ ValidBlock(blocks[j], 0)
            <4> SUFFICES ASSUME NEW j \in changed PROVE blocks[j] \in Blocks /\ ValidBlock(blocks[j], 0)
                OBVIOUS
            <4>1. blocks[j] = Placed(grid, table[j].day, table[j].group) /\ ValidBlock(blocks[j], Today)
                BY <3>1
            <4> QED BY <1>3, <4>1, PlacedIsValid
        <3>6. SavedBlocks(blocks)
            BY <1>4, <3>5 DEF SavedBlocks
        <3>7. \A j \in DOMAIN blocks : j \in changed \/ (j \in DOMAIN table /\ blocks[j] = table[j])
            OBVIOUS
        <3> HIDE DEF blocks, changed
        <3> QED BY <3>1, <3>4, <3>6, <3>7, NoNewOverlap
    <2>2. CASE ~(set /\ table[i].group # 0)
        <3> DEFINE changed == {i}
                   blocks == [j \in DOMAIN table |-> IF j \in changed THEN Placed(grid, grid.day, 0) ELSE table[j]]
        <3>1. /\ edit' = [kind |-> "block", id |-> i, group |-> table[i].group, grid |-> grid, stale |-> FALSE]
              /\ \A j \in changed : ValidBlock(blocks[j], Today)
              /\ ~NewConflict(blocks, changed)
            BY <1>1, <2>2
        <3>2. edit'.kind = "block" /\ edit'.id = i /\ edit'.grid = grid
            BY <3>1
        <3>3. \A j \in DOMAIN table :
                  (IF edit'.kind = "block" /\ j = edit'.id THEN Placed(edit'.grid, edit'.grid.day, 0)
                   ELSE IF edit'.kind = "set" /\ table[j].group = edit'.group
                        THEN Placed(edit'.grid, table[j].day, edit'.group)
                   ELSE table[j]) = blocks[j]
            BY <3>2
        <3>4. AsWritten(table, edit') = blocks
            BY <3>3 DEF AsWritten
        <3>5. \A j \in changed : blocks[j] \in Blocks /\ ValidBlock(blocks[j], 0)
            BY <1>3, <3>1, PlacedIsValid
        <3>6. SavedBlocks(blocks)
            BY <1>4, <3>5 DEF SavedBlocks
        <3>7. \A j \in DOMAIN blocks : j \in changed \/ (j \in DOMAIN table /\ blocks[j] = table[j])
            OBVIOUS
        <3> HIDE DEF blocks, changed
        <3> QED BY <3>1, <3>4, <3>6, <3>7, NoNewOverlap
    <2> QED BY <2>1, <2>2
<1>6. Overlaps(AsWritten(table', edit')) \subseteq Overlaps(table')
    BY <1>2, <1>5
<1> QED BY <1>6 DEF EditIsClear

\* After any committed save, one under way is stale.
LEMMA CommitIsClear ==
    ASSUME SchedShape, NEW blocks, Committed(blocks)
    PROVE  EditIsClear'
<1>1. edit' = IF edit.kind = "none" THEN edit ELSE [edit EXCEPT !.stale = TRUE]
    BY DEF Committed
<1>2. CASE edit.kind = "none"
    BY <1>1, <1>2 DEF EditIsClear
<1>3. CASE edit.kind # "none"
    <2>1. edit \in EditRows
        BY <1>3, ShapeFacts
    <2>2. edit'.stale = TRUE
        BY <1>1, <1>3, <2>1 DEF EditRows
    <2> QED BY <2>2 DEF EditIsClear
<1> QED BY <1>2, <1>3

LEMMA CreateIsClear ==
    ASSUME SchedShape, CreateBlocks
    PROVE  EditIsClear' /\ Overlaps(table') \subseteq Overlaps(table)
<1>1. PICK grid \in Grids, days \in SUBSET (0..(DaysPerWeek - 1)), ids \in SUBSET (BlockIds \ DOMAIN table) :
        LET at == DaysOf(grid, days)
            group == IF Cardinality(at) > 1 THEN FreshGroup ELSE 0
        IN  /\ at # {} /\ Cardinality(ids) = Cardinality(at)
            /\ \A i \in ids, free \in BlockIds \ (DOMAIN table \cup ids) : i < free
            /\ \A day \in at : ValidBlock([grid EXCEPT !.day = day], Today)
            /\ \E place \in [ids -> at] :
                 /\ \A day \in at : \E i \in ids : place[i] = day
                 /\ LET blocks == [i \in DOMAIN table \cup ids |->
                                     IF i \in ids THEN Placed(grid, place[i], group) ELSE table[i]]
                    IN  ~NewConflict(blocks, ids) /\ Committed(blocks)
    BY Zenon DEF CreateBlocks
<1> DEFINE at == DaysOf(grid, days)
           group == IF Cardinality(at) > 1 THEN FreshGroup ELSE 0
           written(place) == [i \in DOMAIN table \cup ids |-> IF i \in ids THEN Placed(grid, place[i], group) ELSE table[i]]
<1>2. PICK place \in [ids -> at] : ~NewConflict(written(place), ids) /\ Committed(written(place))
    BY <1>1
<1> DEFINE blocks == written(place)
<1>3. table' = blocks /\ Committed(blocks) /\ ~NewConflict(blocks, ids)
    BY <1>2 DEF Committed
<1>4. \A j \in DOMAIN blocks : j \in ids \/ (j \in DOMAIN table /\ blocks[j] = table[j])
    OBVIOUS
<1>5. SchedShape'
    BY CreateKeeps
<1>6. SavedBlocks(table')
    BY <1>5 DEF SchedShape, SavedBlocks, ValidBlock, HasWeekday, Blocks
<1> HIDE DEF written, blocks
<1>7. Overlaps(blocks) \subseteq Overlaps(table)
    BY <1>3, <1>4, <1>6, NoNewOverlap
<1> QED BY <1>3, <1>7, CommitIsClear

LEMMA DeleteIsClear ==
    ASSUME SchedShape, DeleteBlock
    PROVE  EditIsClear' /\ Overlaps(table') \subseteq Overlaps(table)
<1>1. PICK i \in DOMAIN table : Committed([j \in DOMAIN table \ {i} |-> table[j]])
    BY DEF DeleteBlock
<1> DEFINE blocks == [j \in DOMAIN table \ {i} |-> table[j]]
<1>2. \A j \in DOMAIN blocks : j \in DOMAIN table /\ blocks[j] = table[j]
    OBVIOUS
<1>3. Committed(blocks) /\ table' = blocks
    BY <1>1 DEF Committed
<1> HIDE DEF blocks
<1>4. Overlaps(blocks) \subseteq Overlaps(table)
    BY <1>2 DEF Overlaps
<1> QED BY <1>3, <1>4, CommitIsClear

LEMMA SaveIsClear ==
    ASSUME WeekInv, SaveEdit
    PROVE  /\ EditIsClear'
           /\ ~(edit.kind # "none" /\ edit.stale) => Overlaps(table') \subseteq Overlaps(table)
<1>1. table' = AsWritten(table, edit) /\ edit' = NoEdit /\ edit.kind # "none"
    BY DEF SaveEdit, AsWritten
<1>2. EditIsClear'
    BY <1>1 DEF EditIsClear, NoEdit
<1>3. ~edit.stale => Overlaps(table') \subseteq Overlaps(table)
    BY <1>1 DEF WeekInv, EditIsClear
<1> QED BY <1>1, <1>2, <1>3

LEMMA OtherStepsClear ==
    ASSUME WeekInv, UNCHANGED <<table, edit>>
    PROVE  EditIsClear'
<1>1. table' = table /\ edit' = edit
    OBVIOUS
<1>2. edit'.kind # "none" /\ ~edit'.stale => Overlaps(AsWritten(table', edit')) \subseteq Overlaps(table')
    BY <1>1 DEF WeekInv, EditIsClear
<1> QED BY <1>2 DEF EditIsClear

LEMMA WeekStep ==
    WeekInv /\ [SchedNext]_schedVars =>
        /\ WeekInv'
        /\ table' # table => /\ ExactFor(table') /\ OneOnAirIn(table')
                             /\ ~(edit.kind # "none" /\ edit.stale) => Overlaps(table') \subseteq Overlaps(table)
        /\ clock' # clock => NextFrom(table, WallAt(clock'))
<1> SUFFICES ASSUME WeekInv, [SchedNext]_schedVars
             PROVE  /\ WeekInv'
                    /\ table' # table =>
                          /\ ExactFor(table') /\ OneOnAirIn(table')
                          /\ ~(edit.kind # "none" /\ edit.stale) => Overlaps(table') \subseteq Overlaps(table)
                    /\ clock' # clock => NextFrom(table, WallAt(clock'))
    OBVIOUS
<1>1. SchedShape'
    BY SchedStepShapes DEF WeekInv
<1>2. SavedBlocks(table')
    BY <1>1 DEF SchedShape, SavedBlocks, ValidBlock, HasWeekday, Blocks
<1>3. ExactFor(table') /\ OneOnAirIn(table')
    BY <1>2, ReportIsExact, OneOnAir
<1>4. NextFrom(table, WallAt(clock'))
    <2>1. SavedBlocks(table)
        BY DEF WeekInv, SchedShape
    <2>2. clock' \in Int
        BY <1>1 DEF SchedShape
    <2>3. WallAt(clock') \in Int
        BY <2>2, SchedConstants
    <2> QED BY <2>1, <2>3, TheNextIsNext
<1>5. /\ EditIsClear'
      /\ table' # table => (~(edit.kind # "none" /\ edit.stale) => Overlaps(table') \subseteq Overlaps(table))
    <2>1. CASE CreateBlocks
        BY <2>1, CreateIsClear DEF WeekInv
    <2>2. CASE CheckEdit
        <3>1. table' = table
            BY <2>2 DEF CheckEdit
        <3> QED BY <2>2, <3>1, CheckIsClear DEF WeekInv
    <2>3. CASE SaveEdit
        BY <2>3, SaveIsClear
    <2>4. CASE DeleteBlock
        BY <2>4, DeleteIsClear DEF WeekInv
    <2>5. CASE (\E ready \in BOOLEAN : CycleInBlock(ready)) \/ CycleInGap \/ ItemEnds \/ ClockTicks \/ UNCHANGED schedVars
        <3>1. UNCHANGED <<table, edit>>
            BY <2>5 DEF CycleInBlock, CycleInGap, ItemEnds, ClockTicks, schedVars
        <3> QED BY <3>1, OtherStepsClear
    <2> QED BY <2>1, <2>2, <2>3, <2>4, <2>5 DEF SchedNext
<1> QED BY <1>1, <1>3, <1>4, <1>5 DEF WeekInv

\* What is announced can be kept, for every grid, week and day length, in every table the editor's
\* crossing saves can leave: the conflict check says of each pair what the dates say
\* (scheduleBlocksOverlap), no minute has two blocks but by a reported overlap (applyScheduleLayers),
\* only a stale check lets one in (the routes of the schedule), and what comes next is the first
\* window to begin (findNextScheduleOccurrenceAcrossDays).
THEOREM WeekIsAlwaysClear == SchedSpec => WeekIsClear
<1>1. SchedInit => WeekInv
    BY SchedStarts DEF SchedInv, WeekInv, EditIsClear, SchedInit, NoEdit
<1>2. SchedSpec => []WeekInv
    BY <1>1, WeekStep, PTL DEF SchedSpec
<1>3. WeekInv /\ [SchedNext]_schedVars =>
          [table' # table => /\ ExactFor(table') /\ OneOnAirIn(table')
                             /\ ~(edit.kind # "none" /\ edit.stale) => Overlaps(table') \subseteq Overlaps(table)]_table
    BY WeekStep
<1>4. WeekInv /\ [SchedNext]_schedVars => [clock' # clock => NextFrom(table, WallAt(clock'))]_clock
    BY WeekStep
<1>5. SchedSpec => BlocksStayApart
    BY <1>2, <1>3, PTL DEF SchedSpec, BlocksStayApart
<1>6. SchedSpec => NextIsNext
    BY <1>2, <1>4, PTL DEF SchedSpec, NextIsNext
<1> QED BY <1>5, <1>6 DEF WeekIsClear

---------------------------------------------------------------------------
(* The cuepoints of a run                                                  *)

\* The cue of key k was fired at an instant t at which its run had the air.
FiredThen(k, shown, t) ==
    /\ k = CueKey(shown, k[2]) /\ k[2] \in Nat
    /\ InstantOf(RunStart(table, shown)) + k[2] <= t /\ t <= clock
    /\ shown \in OnAirAt(table, WallAt(t))

StillKept(k) == k \in fired /\ recorded = k[1]

\* The run has not had the air throughout since then.
HasLeft(shown, t) == \E u \in t..clock : shown \notin OnAirAt(table, WallAt(u))

\* A cue that has fired is in the list, which its run has not left, or the run has lost the air since.
CueInv ==
    \A k \in airedCues : \E shown \in (DOMAIN table) \X Int : \E t \in Int :
        FiredThen(k, shown, t) /\ (StillKept(k) \/ HasLeft(shown, t))

\* From instant p to q the wall clock goes on, and no window ends in an hour that is still to come back.
Onward(p, q) == SwitchBy <= 0 \/ q < SwitchAt - SwitchBy \/ p >= SwitchAt + SwitchBy

CueInstant(k) == InstantOf(k[1][2] * SlotsPerDay + k[1][3]) + k[2]

LEMMA InstantsAre ==
    /\ \A w \in Int : InstantOf(w) \in Int /\ LaterInstantOf(w) \in Int /\ EndInstantOf(w) \in Int
    /\ \A w \in Int : LaterInstantOf(w) > InstantOf(w) => EndInstantOf(w + 1) = LaterInstantOf(w) + 1
    /\ \A w \in Int : ~(LaterInstantOf(w) > InstantOf(w)) => EndInstantOf(w + 1) = InstantOf(w + 1)
<1>1. \A w \in Int : InstantOf(w) \in Int /\ LaterInstantOf(w) \in Int
    BY SchedConstants DEF InstantOf, LaterInstantOf
<1>2. \A w \in Int : w - 1 \in Int /\ (w + 1) - 1 = w
    OBVIOUS
<1>3. \A w \in Int : EndInstantOf(w) \in Int
    BY <1>1, <1>2 DEF EndInstantOf
<1>4. \A w \in Int : LaterInstantOf(w) > InstantOf(w) => EndInstantOf(w + 1) = LaterInstantOf(w) + 1
    BY <1>2 DEF EndInstantOf
<1>5. \A w \in Int : ~(LaterInstantOf(w) > InstantOf(w)) => EndInstantOf(w + 1) = InstantOf(w + 1)
    BY <1>2 DEF EndInstantOf
<1> QED BY <1>1, <1>3, <1>4, <1>5

\* Between the two the clock shows slots in their order, those of a window that is open at both.
LEMMA ClockGoesOn ==
    ASSUME NEW p \in Int, NEW q \in Int, Onward(p, q)
    PROVE  /\ \A s, t \in Int : p <= s /\ s <= t /\ t <= q => WallAt(s) <= WallAt(t)
           /\ \A v, w, s \in Int :
                  InstantOf(v) <= p /\ p <= s /\ s <= q /\ q < EndInstantOf(w + 1)
                      => v <= WallAt(s) /\ WallAt(s) <= w
<1>1. \A s, t \in Int : p <= s /\ s <= t /\ t <= q => WallAt(s) <= WallAt(t)
    BY SchedConstants DEF WallAt, Onward
<1>2. ASSUME NEW v \in Int, NEW s \in Int, InstantOf(v) <= p, p <= s, s <= q PROVE v <= WallAt(s)
    BY <1>2, SchedConstants DEF WallAt, InstantOf, Onward
<1>3. ASSUME NEW w \in Int, NEW s \in Int, p <= s, s <= q, q < EndInstantOf(w + 1) PROVE WallAt(s) <= w
    <2>1. CASE LaterInstantOf(w) > InstantOf(w)
        <3>1. q < LaterInstantOf(w) + 1
            BY <1>3, <2>1, InstantsAre
        <3> QED BY <1>3, <2>1, <3>1, SchedConstants DEF WallAt, InstantOf, LaterInstantOf, Onward
    <2>2. CASE ~(LaterInstantOf(w) > InstantOf(w))
        <3>1. q < InstantOf(w + 1)
            BY <1>3, <2>2, InstantsAre
        <3> QED BY <1>3, <2>2, <3>1, SchedConstants DEF WallAt, InstantOf, LaterInstantOf, Onward
    <2> QED BY <2>1, <2>2
<1> QED BY <1>1, <1>2, <1>3

\* A window open now, told from today's list, holds every slot since a cue in it was due.
LEMMA WindowCovers ==
    ASSUME SchedShape, NEW shown \in (DOMAIN table) \X Int, NEW c \in Nat, InWindow(shown, c),
           NEW p \in Int, p = InstantOf(RunStart(table, shown)) + c, Onward(p, clock),
           NEW u \in Int, p <= u, u <= clock
    PROVE  WallAt(u) \in AirSlots(table, shown, Today)
<1> DEFINE slots == AirSlots(table, shown, Today)
<1>1. slots \subseteq Int
    <2>1. Fits(table[shown[1]])
        BY DEF SchedShape, SavedBlocks, Fits
    <2>2. RunSlots(table[shown[1]], shown[2]) \subseteq Int
        BY <2>1, RunIs
    <2> QED BY <2>2 DEF AirSlots
<1> HIDE DEF slots
<1>2. PICK w \in slots \X slots :
          /\ w[1]..w[2] \subseteq slots
          /\ InstantOf(w[1]) <= clock /\ clock < EndInstantOf(w[2] + 1)
          /\ InstantOf(w[1]) <= p /\ p < EndInstantOf(w[2] + 1)
    BY DEF InWindow, slots
<1>3. w[1] \in Int /\ w[2] \in Int /\ clock \in Int /\ WallAt(u) \in Int
    <2>1. w[1] \in slots /\ w[2] \in slots
        BY <1>2
    <2>2. clock \in Int
        BY DEF SchedShape
    <2> QED BY <1>1, <2>1, <2>2, SchedConstants
<1>4. w[1] <= WallAt(u) /\ WallAt(u) <= w[2]
    BY <1>2, <1>3, ClockGoesOn
<1>5. WallAt(u) \in w[1]..w[2]
    BY <1>3, <1>4
<1> QED BY <1>2, <1>5 DEF slots

\* Between two slots at which a run has the air, the later date's list is right about it.
LEMMA KeepsTheAir ==
    ASSUME NEW blocks, SavedBlocks(blocks), NEW v \in Int, NEW w \in Int, NEW x \in Int, v <= w, w <= x,
           NEW shown \in OnAirAt(blocks, v), shown \in OnAirAt(blocks, x), w \in AirSlots(blocks, shown, DateOf(x))
    PROVE  shown \in OnAirAt(blocks, w)
<1> DEFINE b == blocks[shown[1]]
           e == shown[2]
<1>1. /\ shown[1] \in DOMAIN blocks /\ e \in Int /\ shown \in Occurrences(blocks, DateOf(v))
      /\ shown \in Occurrences(blocks, DateOf(x)) /\ e \in {DateOf(v) - 1, DateOf(v)} /\ e \in {DateOf(x) - 1, DateOf(x)}
    BY OnAirFacts
<1>2. Fits(b)
    BY <1>1 DEF SavedBlocks, Fits
<1>3. w \in RunSlots(b, e) /\ DateOf(w) \in {e, e + 1}
    BY <1>1, <1>2, RunDates DEF AirSlots
<1>4. DateOf(v) \in Int /\ DateOf(w) \in Int /\ DateOf(x) \in Int
    BY SchedConstants
<1>5. DateOf(v) <= DateOf(w) /\ DateOf(w) <= DateOf(x)
    BY <1>4, DatesInOrder
<1>6. CASE DateOf(w) = DateOf(x)
    BY <1>1, <1>6 DEF OnAirAt
<1>7. CASE DateOf(w) # DateOf(x)
    <2>1. DateOf(v) = e /\ DateOf(w) = e /\ DateOf(x) = e + 1
        BY <1>1, <1>3, <1>4, <1>5, <1>7
    <2>2. ASSUME ~Dated(b) PROVE w \notin DatedSlotsOf(blocks, e)
        <3>1. w \notin DatedSlotsOf(blocks, e + 1) /\ v \notin DatedSlotsOf(blocks, e)
            <4>1. v \in AirSlots(blocks, shown, DateOf(v))
                BY DEF OnAirAt
            <4> QED BY <2>1, <2>2, <4>1 DEF AirSlots
        <3> SUFFICES ASSUME w \in DatedSlotsOf(blocks, e) PROVE FALSE
            OBVIOUS
        <3>2. PICK p \in (DOMAIN blocks) \X DatesAround(e) :
                  Dated(blocks[p[1]]) /\ StartsOn(blocks[p[1]], p[2]) /\ w \in RunSlots(blocks[p[1]], p[2])
            BY DEF DatedSlotsOf
        <3>3. p[2] \notin DatesAround(e + 1)
            BY <3>1, <3>2 DEF DatedSlotsOf
        <3>4. p[2] = e - 1
            BY <1>1, <3>2, <3>3 DEF DatesAround
        <3>5. Fits(blocks[p[1]])
            BY <3>2 DEF SavedBlocks, Fits
        <3>6. v \in RunSlots(blocks[p[1]], p[2])
            <4> DEFINE q == blocks[p[1]]
                       a == (e - 1) * SlotsPerDay
                       s == SlotsPerDay
            <4>1. /\ a \in Int /\ q.start \in Nat /\ q.dur \in Nat /\ q.start < s /\ s \in Nat
                  /\ a + q.start <= w /\ w < a + q.start + q.dur
                BY <1>1, <3>2, <3>4, <3>5, RunIs, FitFacts
            <4>2. e * s <= v
                BY <1>1, <2>1, DateIs
            <4>3. e * s = a + s
                BY <1>1, <4>1
            <4>4. a + q.start <= v /\ v < a + q.start + q.dur
                <5> HIDE DEF a, q
                <5> QED BY <4>1, <4>2, <4>3
            <4> QED BY <1>1, <3>4, <3>5, <4>4, RunIs
        <3> QED BY <3>1, <3>2, <3>6 DEF DatedSlotsOf
    <2>3. w \in AirSlots(blocks, shown, e)
        BY <1>3, <2>2 DEF AirSlots
    <2> QED BY <1>1, <2>1, <2>3 DEF OnAirAt
<1> QED BY <1>6, <1>7

LEMMA FirstIsDue ==
    ASSUME SchedShape, NEW shown, shown[1] \in DOMAIN table, DueCues(shown) # {}
    PROVE  FirstCue(shown) \in DueCues(shown) /\ FirstCue(shown) \in Nat
<1>1. DueCues(shown) \in SUBSET Nat
    BY DEF DueCues, SchedShape, SavedBlocks, Blocks
<1>2. \E c \in DueCues(shown) : \A other \in DueCues(shown) : c <= other
    BY <1>1, LeastOf
<1>3. FirstCue(shown) \in DueCues(shown)
    BY <1>2 DEF FirstCue
<1> QED BY <1>1, <1>3

LEMMA OnceInBlock ==
    ASSUME SchedShape, CueInv, Overlaps(table) = {}, NEW ready \in BOOLEAN, CycleInBlock(ready)
    PROVE  CueInv' /\ \A k \in fired' \ fired : k \in airedCues => ~Onward(CueInstant(k), clock)
<1> DEFINE shown == CurrentRun(table, WallAt(clock))
           key == RunKey(table, shown)
           cue == FirstCue(shown)
           waits == airBlock # 0 /\ Takeover(shown) /\ ~ready
           fires == airBlock = 0 /\ DueCues(shown) # {}
           kept == CarriedCues(IF waits THEN recorded ELSE key)
<1>1. SavedBlocks(table) /\ clock \in Int /\ WallAt(clock) \in Int /\ table' = table /\ clock' = clock
    BY SchedConstants DEF SchedShape, CycleInBlock
<1>2. shown \in OnAirAt(table, WallAt(clock))
    BY <1>1, CurrentIsOnAir DEF CycleInBlock
<1>3. shown = <<shown[1], shown[2]>> /\ shown \in (DOMAIN table) \X Int /\ RunStart(table, shown) \in Int
    BY <1>1, <1>2, OnAirFacts
<1>4. /\ recorded' = IF waits THEN recorded ELSE key
      /\ fired' = IF fires /\ ready THEN kept \cup {CueKey(shown, cue)} ELSE kept
      /\ airedCues' = IF fires /\ ready THEN airedCues \cup {CueKey(shown, cue)} ELSE airedCues
    BY DEF CycleInBlock
<1>5. \A k, r, t : (FiredThen(k, r, t) <=> FiredThen(k, r, t)') /\ (HasLeft(r, t) <=> HasLeft(r, t)')
    BY <1>1 DEF FiredThen, HasLeft, CueKey, RunKey, RunStart
<1> HIDE DEF shown, cue
<1>6. kept \subseteq fired /\ (waits \/ key = recorded => kept = fired)
    BY DEF CarriedCues
<1>7. ASSUME fires, ready
      PROVE  /\ cue \in Nat /\ cue <= clock - InstantOf(RunStart(table, shown)) /\ InWindow(shown, cue)
             /\ CueKey(shown, cue) \notin fired /\ ~waits
             /\ InstantOf(RunStart(table, shown)) + cue <= clock
    <2>1. cue \in DueCues(shown) /\ cue \in Nat
        BY <1>3, <1>7, FirstIsDue DEF cue
    <2>2. cue <= clock - InstantOf(RunStart(table, shown)) /\ InWindow(shown, cue) /\ CueKey(shown, cue) \notin fired
        BY <2>1 DEF DueCues
    <2>3. InstantOf(RunStart(table, shown)) \in Int
        BY <1>3, InstantsAre
    <2>4. InstantOf(RunStart(table, shown)) + cue <= clock
        BY <1>1, <2>1, <2>2, <2>3
    <2> QED BY <1>7, <2>1, <2>2, <2>4
<1> HIDE DEF waits, fires, kept, key
<1>8. ASSUME NEW k \in airedCues
      PROVE  \E r \in (DOMAIN table) \X Int : \E t \in Int :
                 FiredThen(k, r, t)' /\ (StillKept(k)' \/ HasLeft(r, t)')
    <2>1. PICK r \in (DOMAIN table) \X Int, t \in Int :
              FiredThen(k, r, t) /\ (StillKept(k) \/ HasLeft(r, t))
        BY DEF CueInv
    <2>2. CASE HasLeft(r, t)
        BY <1>5, <2>1, <2>2
    <2>3. CASE k \in fired /\ recorded = k[1] /\ (waits \/ key = recorded)
        <3>1. StillKept(k)'
            BY <1>4, <1>6, <2>3 DEF StillKept
        <3> QED BY <1>5, <2>1, <3>1
    <2>4. CASE k \in fired /\ recorded = k[1] /\ key # recorded
        <3>1. k[1] = RunKey(table, r) /\ t <= clock
            BY <2>1 DEF FiredThen, CueKey
        <3>2. r # shown
            BY <2>4, <3>1 DEF key
        <3>3. r \notin OnAirAt(table, WallAt(clock))
            BY <1>1, <1>2, <3>2, OnlyOneRun
        <3>4. HasLeft(r, t)
            BY <1>1, <2>1, <3>1, <3>3 DEF HasLeft
        <3> QED BY <1>5, <2>1, <3>4
    <2> QED BY <2>1, <2>2, <2>3, <2>4 DEF StillKept
<1>9. ASSUME fires, ready, NEW k, k = CueKey(shown, cue), NEW r, r = shown, NEW t, t = clock
      PROVE  FiredThen(k, r, t)' /\ StillKept(k)'
    <2>1. k[2] = cue /\ k[1] = key
        BY <1>9 DEF CueKey, key
    <2>2. FiredThen(k, r, t)
        BY <1>1, <1>2, <1>7, <1>9, <2>1 DEF FiredThen
    <2>3. StillKept(k)'
        BY <1>4, <1>7, <1>9, <2>1 DEF StillKept
    <2> QED BY <1>5, <2>2, <2>3
<1>10. CueInv'
    <2> SUFFICES ASSUME NEW k \in airedCues'
                 PROVE  \E r \in (DOMAIN table) \X Int : \E t \in Int :
                            FiredThen(k, r, t)' /\ (StillKept(k)' \/ HasLeft(r, t)')
        BY <1>1 DEF CueInv
    <2>1. CASE k \in airedCues
        BY <1>8, <2>1
    <2>2. CASE fires /\ ready /\ k = CueKey(shown, cue)
        BY <1>1, <1>3, <1>9, <2>2
    <2> QED BY <1>4, <2>1, <2>2
<1>11. ASSUME NEW k \in fired', k \notin fired, k \in airedCues, Onward(CueInstant(k), clock) PROVE FALSE
    <2>1. fires /\ ready /\ k = CueKey(shown, cue)
        BY <1>4, <1>6, <1>11
    <2>2. PICK r \in (DOMAIN table) \X Int, t \in Int :
              FiredThen(k, r, t) /\ (StillKept(k) \/ HasLeft(r, t))
        BY <1>11 DEF CueInv
    <2>3. r = shown
        <3>1. RunKey(table, r) = RunKey(table, shown)
            BY <2>1, <2>2 DEF FiredThen, CueKey
        <3>2. r[1] = shown[1] /\ r[2] = shown[2] /\ r = <<r[1], r[2]>>
            BY <2>2, <3>1 DEF RunKey
        <3> QED BY <1>3, <3>2
    <2>4. PICK u \in t..clock : shown \notin OnAirAt(table, WallAt(u))
        BY <1>11, <2>2, <2>3 DEF HasLeft, StillKept
    <2> DEFINE p == CueInstant(k)
    <2>5. p = InstantOf(RunStart(table, shown)) + cue /\ k[2] = cue
        <3>1. k[2] = cue /\ k[1][2] = shown[2] /\ k[1][3] = table[shown[1]].start
            BY <2>1 DEF CueKey, RunKey
        <3> QED BY <3>1 DEF CueInstant, RunStart
    <2>6. InstantOf(RunStart(table, shown)) \in Int /\ cue \in Nat /\ InWindow(shown, cue) /\ p \in Int
        BY <1>3, <1>7, <2>1, <2>5, InstantsAre
    <2>7. Onward(p, clock)
        BY <1>11
    <2> HIDE DEF p
    <2>8. p <= t /\ shown \in OnAirAt(table, WallAt(t)) /\ u \in Int /\ t <= u /\ u <= clock
        BY <1>1, <2>2, <2>3, <2>4, <2>5 DEF FiredThen
    <2>9. p <= u
        BY <2>2, <2>6, <2>8
    <2>10. WallAt(u) \in AirSlots(table, shown, Today)
        BY <1>3, <2>5, <2>6, <2>7, <2>8, <2>9, WindowCovers
    <2>11. WallAt(t) <= WallAt(u) /\ WallAt(u) <= WallAt(clock) /\ WallAt(t) \in Int /\ WallAt(u) \in Int
        <3>1. clock <= clock
            BY <1>1
        <3> QED BY <1>1, <2>2, <2>6, <2>7, <2>8, <2>9, <3>1, ClockGoesOn, SchedConstants
    <2>12. shown \in OnAirAt(table, WallAt(u))
        BY <1>1, <1>2, <2>8, <2>10, <2>11, KeepsTheAir DEF Today
    <2> QED BY <2>4, <2>12
<1> QED BY <1>10, <1>11

LEMMA OnceElsewhere ==
    ASSUME SchedShape, CueInv, [CreateBlocks \/ CheckEdit \/ SaveEdit \/ DeleteBlock \/ CycleInGap \/ ItemEnds \/ ClockTicks]_schedVars
    PROVE  CueInv' /\ fired' \subseteq fired
<1>1. CASE CreateBlocks \/ SaveEdit \/ DeleteBlock
    <2>1. airedCues' = {} /\ fired' = fired
        BY <1>1 DEF CreateBlocks, SaveEdit, DeleteBlock, Committed
    <2> QED BY <2>1 DEF CueInv
<1>2. CASE CheckEdit \/ ItemEnds \/ UNCHANGED schedVars
    <2>1. UNCHANGED <<clock, table, recorded, fired, airedCues>>
        BY <1>2 DEF CheckEdit, ItemEnds, schedVars
    <2> QED BY <2>1 DEF CueInv, FiredThen, StillKept, HasLeft, CueKey, RunKey, RunStart
<1>3. CASE CycleInGap
    <2>1. UNCHANGED <<clock, table, airedCues>> /\ OnAirAt(table, WallAt(clock)) = {} /\ fired' \subseteq fired /\ clock \in Int
        BY <1>3 DEF CycleInGap, CarriedCues, SchedShape
    <2>2. ASSUME NEW k \in airedCues
          PROVE  \E r \in (DOMAIN table) \X Int : \E t \in Int : FiredThen(k, r, t)' /\ HasLeft(r, t)'
        <3>1. PICK r \in (DOMAIN table) \X Int, t \in Int : FiredThen(k, r, t)
            BY DEF CueInv
        <3>2. HasLeft(r, t)
            BY <2>1, <3>1 DEF FiredThen, HasLeft
        <3> QED BY <2>1, <3>1, <3>2 DEF FiredThen, HasLeft, CueKey, RunKey, RunStart
    <2> QED BY <2>1, <2>2 DEF CueInv
<1>4. CASE ClockTicks
    <2>1. UNCHANGED <<table, recorded, fired, airedCues>> /\ clock' = clock + 1 /\ clock \in Int
        BY <1>4 DEF ClockTicks, SchedShape
    <2>2. \A k, r : \A t \in Int : (FiredThen(k, r, t) => FiredThen(k, r, t)') /\ (HasLeft(r, t) => HasLeft(r, t)')
        <3>1. \A t \in Int : (t <= clock => t <= clock') /\ t..clock \subseteq t..clock'
            BY <2>1
        <3> QED BY <2>1, <3>1 DEF FiredThen, HasLeft, CueKey, RunKey, RunStart
    <2> QED BY <2>1, <2>2 DEF CueInv, StillKept
<1> QED BY <1>1, <1>2, <1>3, <1>4

CueStep == \A k \in fired' \ fired : k \in airedCues => ~Onward(CueInstant(k), clock)

LEMMA CuesStep == SchedShape /\ CueInv /\ Overlaps(table) = {} /\ [SchedNext]_schedVars => CueInv' /\ CueStep
<1> SUFFICES ASSUME SchedShape, CueInv, Overlaps(table) = {}, [SchedNext]_schedVars PROVE CueInv' /\ CueStep
    OBVIOUS
<1>1. ASSUME NEW ready \in BOOLEAN, CycleInBlock(ready) PROVE CueInv' /\ CueStep
    BY <1>1, OnceInBlock DEF CueStep
<1>2. CASE [CreateBlocks \/ CheckEdit \/ SaveEdit \/ DeleteBlock \/ CycleInGap \/ ItemEnds \/ ClockTicks]_schedVars
    BY <1>2, OnceElsewhere DEF CueStep
<1> QED BY <1>1, <1>2 DEF SchedNext

LEMMA CuesHold == SchedSpec /\ [](Overlaps(table) = {}) => [](SchedShape /\ CueInv)
<1>1. SchedInit => CueInv
    BY DEF SchedInit, CueInv
<1> QED BY <1>1, CuesStep, SchedShapeHolds, PTL DEF SchedSpec

\* Where no two blocks overlap and nobody edits the schedule in between, a cue fires a second time only
\* about the hour that is passed twice: it was due before that hour is over for the second time, and
\* fires again no earlier than that hour begins for the first. On any other night the windows of
\* getCuepointProgress hold back what carryCuepointFiredKeys has dropped.
THEOREM CuesComeBackInOneNight ==
    SchedSpec /\ [](Overlaps(table) = {}) =>
        [][\A k \in fired' \ fired : k \in airedCues =>
               SwitchBy > 0 /\ clock >= SwitchAt - SwitchBy /\ CueInstant(k) < SwitchAt + SwitchBy]_fired
<1> DEFINE Night == \A k \in fired' \ fired : k \in airedCues =>
                        SwitchBy > 0 /\ clock >= SwitchAt - SwitchBy /\ CueInstant(k) < SwitchAt + SwitchBy
<1>1. SchedShape /\ CueInv /\ Overlaps(table) = {} /\ [SchedNext]_schedVars => [Night]_fired
    <2> SUFFICES ASSUME SchedShape, CueInv, Overlaps(table) = {}, [SchedNext]_schedVars PROVE Night
        OBVIOUS
    <2> SUFFICES ASSUME NEW k \in fired' \ fired, k \in airedCues
                 PROVE  SwitchBy > 0 /\ clock >= SwitchAt - SwitchBy /\ CueInstant(k) < SwitchAt + SwitchBy
        OBVIOUS
    <2>1. ~Onward(CueInstant(k), clock)
        BY CuesStep DEF CueStep
    <2>2. CueInstant(k) \in Int /\ clock \in Int
        <3>1. PICK r \in (DOMAIN table) \X Int, t \in Int : FiredThen(k, r, t)
            BY DEF CueInv
        <3>2. k[2] \in Nat /\ k[1] = RunKey(table, r)
            BY <3>1 DEF FiredThen, CueKey
        <3>3. table[r[1]].start \in Nat /\ r[2] * SlotsPerDay \in Int
            BY <3>1, SchedConstants DEF SchedShape, SavedBlocks, Blocks
        <3>4. k[1][2] * SlotsPerDay + k[1][3] \in Int
            BY <3>2, <3>3 DEF RunKey
        <3> QED BY <3>2, <3>4, InstantsAre DEF CueInstant, SchedShape
    <2> QED BY <2>1, <2>2, SchedConstants DEF Onward
<1> QED BY <1>1, CuesHold, PTL DEF SchedSpec

\* A cuepoint of a run fires once unless the schedule is edited in between, the night of the fall-back
\* apart, in every schedule without an overlap (carryCuepointFiredKeys and getCuepointProgress).
THEOREM CuepointsFireOnceForwards ==
    SwitchBy <= 0 => (SchedSpec /\ [](Overlaps(table) = {}) => CuepointsFireOnce)
<1> SUFFICES ASSUME SwitchBy <= 0 PROVE SchedSpec /\ [](Overlaps(table) = {}) => CuepointsFireOnce
    OBVIOUS
<1>1. SchedShape /\ CueInv /\ Overlaps(table) = {} /\ [SchedNext]_schedVars =>
          [\A k \in fired' \ fired : k \notin airedCues]_fired
    BY CuesStep DEF CueStep, Onward
<1> QED BY <1>1, CuesHold, PTL DEF SchedSpec, CuepointsFireOnce

---------------------------------------------------------------------------
(* The item a pool continues                                               *)

PoolShapes ==
    /\ turn.item \in Watched /\ turn.runs \in Nat
    /\ {"item", "runs", "waiting", "passed"} \subseteq DOMAIN turn
    /\ {"item", "kept", "turn", "resumed", "from", "aired"} \subseteq DOMAIN run /\ run.aired \in Nat
    /\ {"item", "at", "shorts"} \subseteq DOMAIN point /\ point.shorts \in Nat

\* The run on air of the watched item counts against its point until it has aired long enough; a point
\* knows of all the short continuations in a row.
CountInv ==
    /\ PoolShapes
    /\ turn.runs <= MaxShortStarts
    /\ point.item = turn.item => turn.runs <= point.shorts
    /\ run.item = turn.item /\ run.kept =>
          IF run.resumed /\ run.aired < MinAired THEN point.item = turn.item ELSE turn.runs = 0


\* A point that may be stored: it counts the watched item's short continuations.
Counts(p) ==
    /\ {"item", "at", "shorts"} \subseteq DOMAIN p /\ p.shorts \in Nat
    /\ p.item = turn.item => turn.runs <= p.shorts

SameTurn(t) == t.item = turn.item /\ t.runs = turn.runs /\ DOMAIN t = DOMAIN turn

LEMMA WatchedIsNone ==
    ASSUME CountInv PROVE turn.item \notin {None, Cover, Other, Slate}
BY PoolAssumption DEF CountInv, PoolShapes, PoolAssumption

LEMMA NoPointCounts ==
    ASSUME CountInv PROVE Counts(NoPoint)
BY WatchedIsNone DEF Counts, NoPoint, None

LEMMA StoredPointCounts ==
    ASSUME CountInv PROVE Counts(point)
BY DEF CountInv, PoolShapes, Counts

LEMMA RunCounts ==
    ASSUME CountInv, run.kept
    PROVE  Counts(PointOfRun(run)) /\ PointOfRun(run).item = run.item
<1>1. PointOfRun(run).item = run.item
    BY DEF PointOfRun
<1>2. CASE run.resumed /\ run.aired < MinAired
    <2>1. PointOfRun(run).shorts = IF point.item = run.item THEN point.shorts ELSE 1
        BY <1>2, PoolAssumption DEF PointOfRun, PoolAssumption, CountInv, PoolShapes
    <2>2. run.item = turn.item => PointOfRun(run).shorts = point.shorts /\ turn.runs <= point.shorts
        BY <1>2, <2>1 DEF CountInv
    <2>3. {"item", "at", "shorts"} \subseteq DOMAIN PointOfRun(run)
        BY DEF PointOfRun
    <2> QED BY <1>1, <2>1, <2>2, <2>3 DEF Counts, CountInv, PoolShapes
<1>3. CASE ~(run.resumed /\ run.aired < MinAired)
    <2>1. PointOfRun(run).shorts = 0
        BY <1>3, PoolAssumption DEF PointOfRun, PoolAssumption, CountInv, PoolShapes
    <2>2. run.item = turn.item => turn.runs = 0
        BY <1>3 DEF CountInv
    <2>3. {"item", "at", "shorts"} \subseteq DOMAIN PointOfRun(run)
        BY DEF PointOfRun
    <2> QED BY <1>1, <2>1, <2>2, <2>3 DEF Counts
<1> QED BY <1>1, <1>2, <1>3

\* Every exit leaves a point that counts, and so does every cycle that keeps the item on air.
LEMMA ExitCounts ==
    ASSUME CountInv, NEW ending, NEW completed \in BOOLEAN
    PROVE  Counts(PointAfterExit(ending, completed))
<1>1. \A x : Counts(WithoutItem(x))
    BY NoPointCounts, StoredPointCounts DEF WithoutItem
<1>2. PointAfterExit(ending, completed) \in {WithoutItem(run.item), point}
      \/ (run.kept /\ PointAfterExit(ending, completed) = PointOfRun(run))
    BY DEF PointAfterExit
<1> QED BY <1>1, <1>2, StoredPointCounts, RunCounts

LEMMA CheckpointCounts ==
    ASSUME CountInv
    PROVE  Counts(Checkpoint) /\ (run.kept => Checkpoint.item = run.item)
BY NoPointCounts, StoredPointCounts, RunCounts DEF Checkpoint

LEMMA TurnsKept ==
    ASSUME CountInv
    PROVE  /\ \A x : SameTurn(AfterTurnOf(x)) /\ SameTurn(ForgetTurn(AfterTurnOf(x)))
           /\ SameTurn(turn) /\ SameTurn(ForgetTurn(turn)) /\ SameTurn(TurnAfterBreak)
           /\ \A eligible : SameTurn(StillWaiting(turn, eligible))
<1> USE DEF CountInv, PoolShapes, SameTurn
<1>1. \A x : SameTurn(AfterTurnOf(x))
    BY DEF AfterTurnOf
<1>2. \A t : SameTurn(t) => SameTurn(ForgetTurn(t))
    BY DEF ForgetTurn
<1>3. SameTurn(turn)
    OBVIOUS
<1>4. SameTurn(TurnAfterBreak)
    BY DEF TurnAfterBreak, TurnOfLostPosition
<1>5. \A eligible : SameTurn(StillWaiting(turn, eligible))
    BY DEF StillWaiting
<1> HIDE DEF SameTurn
<1> QED BY <1>1, <1>2, <1>3, <1>4, <1>5

---------------------------------------------------------------------------
\* A step with which nothing that is kept is on air any more.
LEMMA OffAirKeeps ==
    ASSUME CountInv, SameTurn(turn'), Counts(point'),
           run' = OffAir \/ \E x : run' = [OffAir EXCEPT !.item = x]
    PROVE  CountInv'
<1>1. /\ run'.kept = FALSE /\ run'.aired = 0
      /\ {"item", "kept", "turn", "resumed", "from", "aired"} \subseteq DOMAIN run'
    BY DEF OffAir
<1> QED BY <1>1 DEF CountInv, PoolShapes, SameTurn, Counts

\* A step that leaves the run as it is.
LEMMA SameRunKeeps ==
    ASSUME CountInv, SameTurn(turn'), Counts(point'), run' = run,
           run.kept => point'.item = run.item \/ point' = point
    PROVE  CountInv'
BY DEF CountInv, PoolShapes, SameTurn, Counts


---------------------------------------------------------------------------
\* Every start of an item: it counts when it continues a point, and starts the count again otherwise.
LEMMA StartKeeps ==
    ASSUME CountInv, NEW x, NEW how, NEW reason, StartItem(x, how, reason)
    PROVE  CountInv'
<1> DEFINE continued == how # "turn" /\ reason = "match" /\ PointStart(x) >= 0
           t == CASE how # "turn" -> turn
                  [] how = "turn" /\ TakesPosition(x, how) -> AfterTurnOf(x)
                  [] OTHER -> ForgetTurn(AfterTurnOf(x))
<1>1. PICK seekable \in BOOLEAN :
          /\ run' = [item |-> x, kept |-> seekable /\ reason = "match", turn |-> how = "turn",
                     resumed |-> continued /\ seekable,
                     from |-> IF continued /\ seekable THEN PointStart(x) ELSE 0, aired |-> 0]
          /\ point' = CASE ~continued -> point
                        [] continued /\ seekable -> [point EXCEPT !.shorts = @ + 1]
                        [] continued /\ ~seekable -> NoPoint
          /\ turn' = IF x = turn.item THEN [t EXCEPT !.runs = IF continued THEN @ + 1 ELSE 0] ELSE t
    BY DEF StartItem
<1>2. SameTurn(t)
    BY TurnsKept
<1>3. continued => point.item = x /\ point.shorts < MaxShortStarts
    BY DEF PointStart
<1> HIDE DEF continued, t
<1>4. /\ {"item", "kept", "turn", "resumed", "from", "aired"} \subseteq DOMAIN run' /\ run'.aired = 0
      /\ run'.item = x /\ (run'.kept => seekable) /\ (run'.resumed <=> continued /\ seekable)
    <2>1. /\ {"item", "kept", "turn", "resumed", "from", "aired"} \subseteq DOMAIN run'
          /\ run'.aired = 0 /\ run'.item = x
          /\ run'.kept = (seekable /\ reason = "match") /\ run'.resumed = (continued /\ seekable)
        BY <1>1
    <2>2. (run'.kept => seekable) /\ (run'.resumed <=> continued /\ seekable)
        BY <2>1, Zenon
    <2> QED BY <2>1, <2>2
<1>5. /\ turn'.item = turn.item /\ {"item", "runs", "waiting", "passed"} \subseteq DOMAIN turn'
      /\ turn'.runs = IF x = turn.item THEN (IF continued THEN turn.runs + 1 ELSE 0) ELSE turn.runs
    BY <1>1, <1>2 DEF SameTurn, CountInv, PoolShapes
<1>6. turn.runs \in Nat /\ turn.runs <= MaxShortStarts /\ MaxShortStarts \in Nat /\ turn.item \in Watched
    BY PoolAssumption DEF CountInv, PoolShapes, PoolAssumption
<1>7. CASE ~continued
    <2>1. point' = point
        BY <1>1, <1>7
    <2> QED BY <1>4, <1>5, <1>6, <1>7, <2>1, PoolAssumption
            DEF CountInv, PoolShapes, PoolAssumption
<1>8. CASE continued
    <2>1. x = turn.item => turn.runs < MaxShortStarts /\ turn.runs <= point.shorts
        BY <1>3, <1>6, <1>8 DEF CountInv, PoolShapes
    <2>2. CASE seekable
        <3>1. /\ point'.item = x /\ point'.shorts = point.shorts + 1
              /\ {"item", "at", "shorts"} \subseteq DOMAIN point'
            <4>1. point' = [point EXCEPT !.shorts = @ + 1]
                BY <1>1, <1>8, <2>2
            <4> QED BY <1>3, <1>8, <4>1 DEF CountInv, PoolShapes
        <3>2. run'.resumed /\ run'.aired < MinAired
            BY <1>4, <1>8, <2>2, PoolAssumption DEF PoolAssumption
        <3> QED BY <1>4, <1>5, <1>6, <1>8, <2>1, <3>1, <3>2 DEF CountInv, PoolShapes
    <2>3. CASE ~seekable
        <3>1. point' = NoPoint
            BY <1>1, <1>8, <2>3
        <3>2. Counts(point') /\ point'.item # turn.item
            BY <3>1, NoPointCounts, WatchedIsNone DEF NoPoint
        <3> QED BY <1>4, <1>5, <1>6, <1>8, <2>1, <2>3, <3>2 DEF CountInv, PoolShapes, Counts
    <2> QED BY <2>2, <2>3
<1> QED BY <1>7, <1>8


LEMMA RestartKeeps ==
    ASSUME CountInv, Restart
    PROVE  CountInv'
<1>1. /\ point' = PointAfterExit("ended", FALSE)
      /\ run' = [run EXCEPT !.kept = run.item \in OnDisk, !.resumed = FALSE, !.from = 0, !.aired = 0]
      /\ turn' = IF run.item = turn.item THEN [turn EXCEPT !.runs = 0] ELSE turn
    BY DEF Restart
<1>2. Counts(point')
    BY <1>1, ExitCounts
<1>3. run'.item = run.item /\ run'.resumed = FALSE /\ run'.aired = 0 /\ DOMAIN run' = DOMAIN run
    BY <1>1 DEF CountInv, PoolShapes
<1>4. /\ turn'.item = turn.item /\ DOMAIN turn' = DOMAIN turn
      /\ turn'.runs = IF run.item = turn.item THEN 0 ELSE turn.runs
    BY <1>1 DEF CountInv, PoolShapes
<1> QED BY <1>2, <1>3, <1>4, PoolAssumption DEF CountInv, PoolShapes, Counts, PoolAssumption

\* A unit on air: the count ends with the unit that makes the run long enough.
LEMMA AirKeeps ==
    ASSUME CountInv, Air
    PROVE  CountInv'
<1>1. /\ run' = [run EXCEPT !.aired = @ + 1] /\ point' = point
      /\ turn' = IF run.item = turn.item /\ run.aired + 1 = MinAired THEN [turn EXCEPT !.runs = 0] ELSE turn
    BY DEF Air
<1>2. /\ run'.aired = run.aired + 1 /\ DOMAIN run' = DOMAIN run
      /\ run'.item = run.item /\ run'.kept = run.kept /\ run'.resumed = run.resumed
    BY <1>1 DEF CountInv, PoolShapes
<1>3. /\ turn'.item = turn.item /\ DOMAIN turn' = DOMAIN turn
      /\ turn'.runs = IF run.item = turn.item /\ run.aired + 1 = MinAired THEN 0 ELSE turn.runs
    BY <1>1 DEF CountInv, PoolShapes
<1> QED BY <1>1, <1>2, <1>3, PoolAssumption DEF CountInv, PoolShapes, PoolAssumption

LEMMA CountInit ==
    ASSUME PoolInit PROVE CountInv
<1>1. /\ run = OffAir /\ point = NoPoint
      /\ \E x \in Watched : \E waiting, passed :
            turn = [item |-> x, runs |-> 0, waiting |-> waiting, passed |-> passed]
    BY DEF PoolInit
<1>2. PoolShapes /\ turn.runs = 0
    BY <1>1 DEF PoolShapes, OffAir, NoPoint
<1>3. run.kept = FALSE /\ point.shorts = 0
    BY <1>1 DEF OffAir, NoPoint
<1> QED BY <1>2, <1>3, PoolAssumption DEF CountInv, PoolAssumption

LEMMA CountNext ==
    ASSUME CountInv, [PoolNext]_poolVars
    PROVE  CountInv'
<1>1. CASE StartRetry \/ ContinueItem \/ StartNext
    BY <1>1, StartKeeps DEF StartRetry, ContinueItem, StartNext
<1>2. CASE EndCycle \/ KeepOnAir
    <2>1. point' = Checkpoint /\ run' = run /\ turn' = turn
        BY <1>2 DEF EndCycle, KeepOnAir
    <2> QED BY <2>1, CheckpointCounts, TurnsKept, SameRunKeeps
<1>3. CASE \/ StorePosition \/ PositionWriteFails \/ RetryExpires \/ UNCHANGED poolVars
           \/ \E x \in Items : HoldBack(x) \/ Release(x) \/ Vanish(x)
    <2>1. point' = point /\ run' = run
        BY <1>3 DEF StorePosition, PositionWriteFails, RetryExpires, HoldBack, Release, Vanish, poolVars
    <2>2. SameTurn(turn')
        <3>1. turn' \in {turn, TurnAfterBreak, ForgetTurn(turn)} \/ \E eligible : turn' = StillWaiting(turn, eligible)
            BY <1>3 DEF StorePosition, PositionWriteFails, RetryExpires, HoldBack, Release, Vanish, poolVars
        <3> QED BY <3>1, TurnsKept
    <2> QED BY <2>1, <2>2, StoredPointCounts, SameRunKeeps
<1>4. CASE PointExpires
    <2>1. point' = NoPoint /\ run' = run /\ turn' = turn /\ run.item # point.item
        BY <1>4 DEF PointExpires
    <2>2. Counts(point') /\ SameTurn(turn')
        BY <2>1, NoPointCounts, TurnsKept
    <2> QED BY <2>1, <2>2 DEF CountInv, PoolShapes, Counts
<1>5. CASE RunsOn
    <2>1. run' = [run EXCEPT !.turn = TRUE] /\ point' = point /\ turn' = AfterTurnOf(run.item)
        BY <1>5 DEF RunsOn
    <2>2. /\ run'.item = run.item /\ run'.kept = run.kept /\ run'.resumed = run.resumed
          /\ run'.aired = run.aired /\ DOMAIN run' = DOMAIN run
        BY <2>1 DEF CountInv, PoolShapes
    <2>3. SameTurn(turn')
        BY <2>1, TurnsKept
    <2> QED BY <2>1, <2>2, <2>3 DEF CountInv, PoolShapes, SameTurn
<1>6. CASE Air
    BY <1>6, AirKeeps
<1>7. CASE Restart
    BY <1>7, RestartKeeps
<1>8. CASE \/ EndsByItself \/ Fails \/ DoesNotOpen \/ LeaveAir \/ TakeSlate \/ Skip
           \/ \E x, reason : TakeAir(x, reason)
    <2>1. \E ending : \E completed \in BOOLEAN : point' = PointAfterExit(ending, completed)
        BY <1>8 DEF EndsByItself, Fails, DoesNotOpen, LeaveAir, TakeSlate, Skip, TakeAir
    <2>2. SameTurn(turn')
        BY <1>8, TurnsKept DEF EndsByItself, Fails, DoesNotOpen, LeaveAir, TakeSlate, Skip, TakeAir
    <2>3. run' = OffAir \/ \E x : run' = [OffAir EXCEPT !.item = x]
        BY <1>8 DEF EndsByItself, Fails, DoesNotOpen, LeaveAir, TakeSlate, Skip, TakeAir
    <2> QED BY <2>1, <2>2, <2>3, ExitCounts, OffAirKeeps
<1>9. CASE StartCover \/ LeaveSlate \/ ContainerDies
    <2>1. point' = point
        BY <1>9 DEF StartCover, LeaveSlate, ContainerDies
    <2>2. SameTurn(turn')
        BY <1>9, TurnsKept DEF StartCover, LeaveSlate, ContainerDies
    <2>3. run' = OffAir \/ run' = [OffAir EXCEPT !.item = Cover]
        BY <1>9 DEF StartCover, LeaveSlate, ContainerDies
    <2> QED BY <2>1, <2>2, <2>3, StoredPointCounts, OffAirKeeps
<1> QED BY <1>1, <1>2, <1>3, <1>4, <1>5, <1>6, <1>7, <1>8, <1>9 DEF PoolNext

\* No item is continued more often in a row than allowed without airing long enough, whatever ended its
\* runs, which writes were refused and how often the container went away: for any pool, any lengths and
\* any limit (decideResumePointsAtStart, decideResumeCheckpoint, decideResumePointsAfterExit).
THEOREM ContinuationsAlwaysEnd == PoolSpec => []ContinuationsEnd
<1>1. PoolInit => CountInv
    BY CountInit
<1>2. CountInv /\ [PoolNext]_poolVars => CountInv'
    BY CountNext
<1>3. CountInv => ContinuationsEnd
    BY DEF CountInv, ContinuationsEnd
<1> QED BY <1>1, <1>2, <1>3, PTL DEF PoolSpec


---------------------------------------------------------------------------
(* The types of the pool's state                                           *)

RunFits ==
    /\ {"item", "kept", "turn", "resumed", "from", "aired"} \subseteq DOMAIN run
    /\ run.item \in Items \cup {None, Cover, Other, Slate} /\ (run.kept => run.item \in Items)
    /\ run.from \in Nat /\ run.aired \in Nat /\ run.from + run.aired <= ItemLength

PointFits(p) ==
    /\ {"item", "at", "shorts"} \subseteq DOMAIN p
    /\ p.item \in Items \cup {None} /\ p.at \in 0..ItemLength

RetryFits ==
    /\ {"item", "step", "reason"} \subseteq DOMAIN retry
    /\ retry.step \in {"none", "owed", "bridged", "covered", "retried", "exhausted"}

\* A cycle that still has to write has started an item of the pool.
CycleFits ==
    /\ {"step", "item", "reason", "takes"} \subseteq DOMAIN cycle
    /\ cycle.step \in {"none", "end", "store"} /\ (cycle.step # "none" => cycle.item \in Items)

CursorsFit ==
    /\ catalogue \subseteq Items /\ heldBack \subseteq Items
    /\ pool.cursor \in Items \cup {None} /\ \A s \in Sources : pool.cursors[s] \in ItemsOf(s) \cup {None}

PoolTypes == CursorsFit /\ RunFits /\ PointFits(point) /\ RetryFits /\ CycleFits

LEMMA PoolConstants ==
    /\ ItemLength \in Nat /\ ItemLength > 0 /\ RewindUnits \in Nat /\ MinAired \in Nat /\ MinRemaining \in Nat
    /\ Sources = 1..Len(Lanes) /\ Len(Lanes) \in Nat
    /\ \A s \in Sources : DOMAIN Lanes[s] = 1..Len(Lanes[s]) /\ Len(Lanes[s]) \in Nat
    /\ {None, Cover, Other, Slate} \cap Items = {}
    /\ None # Cover /\ None # Other /\ None # Slate
<1>1. Lanes \in Seq(Seq(Items))
    BY PoolAssumption DEF PoolAssumption
<1>2. Sources = 1..Len(Lanes) /\ Len(Lanes) \in Nat
    BY <1>1 DEF Sources
<1>3. \A s \in Sources : Lanes[s] \in Seq(Items)
    BY <1>1, <1>2
<1>4. \A s \in Sources : DOMAIN Lanes[s] = 1..Len(Lanes[s]) /\ Len(Lanes[s]) \in Nat
    BY <1>3
<1> QED BY <1>2, <1>4, PoolAssumption DEF PoolAssumption, None, Cover, Other, Slate

\* The next number in the round is one of them.
LEMMA FollowingIsOne ==
    ASSUME NEW a \in Int, NEW n \in Nat, n > 0, NEW numbers \in SUBSET (1..n), numbers # {}
    PROVE  Following(a, numbers, n) \in numbers
<1> DEFINE After(i) == (i - a - 1) % n
           Steps == {After(i) : i \in numbers}
<1>1. \A i \in numbers : After(i) \in Nat
    OBVIOUS
<1>2. PICK k \in Steps : \A l \in Steps : k <= l
    <2>1. Steps \in SUBSET Nat /\ Steps # {}
        BY <1>1
    <2> HIDE DEF Steps
    <2> QED BY <2>1, LeastOf
<1>3. PICK i \in numbers : After(i) = k
    BY <1>2
<1>4. \A j \in numbers : After(i) <= After(j)
    BY <1>2, <1>3
<1>5. \E m \in numbers : \A j \in numbers : (m - a - 1) % n <= (j - a - 1) % n
    BY <1>4
<1> QED BY <1>5 DEF Following

LEMMA ChoiceIsOne == \A S : S # {} => (CHOOSE x \in S : TRUE) \in S
OBVIOUS

LEMMA RotationPicksItem ==
    ASSUME CursorsFit, Eligible # {}
    PROVE  RotationPick \in Items
<1> DEFINE s == NextLane(Eligible)
           with == {q \in Sources : ItemsOf(q) \cap Eligible # {}}
           numbers == {i \in DOMAIN Lanes[s] : Lanes[s][i] \in Eligible}
           at == {i \in DOMAIN Lanes[s] : Lanes[s][i] = Positions[s] /\ Positions[s] \in catalogue}
           anchor == IF at = {} THEN 0 ELSE CHOOSE i \in at : TRUE
<1>1. PICK x \in Eligible : x \in Items
    BY DEF CursorsFit, Eligible
<1>2. PICK r \in Sources : x \in ItemsOf(r)
    BY <1>1 DEF Items
<1>3. with \in SUBSET (1..Len(Lanes)) /\ r \in with /\ Len(Lanes) \in Nat /\ Len(Lanes) > 0
    BY <1>1, <1>2, PoolConstants
<1>4. LastSource \in Int
    <2> DEFINE of == {q \in Sources : pool.cursor # None /\ (IF pool.cursor \in catalogue
                                       THEN pool.cursor \in ItemsOf(q) ELSE pool.cursors[q] = pool.cursor)}
    <2>1. LastSource = IF of = {} THEN 0 ELSE CHOOSE q \in of : TRUE
        BY DEF LastSource
    <2>2. of \subseteq Sources
        OBVIOUS
    <2> HIDE DEF of
    <2>3. of # {} => (CHOOSE q \in of : TRUE) \in of
        BY ChoiceIsOne
    <2>4. \A q \in Sources : q \in Int
        BY PoolConstants
    <2> QED BY <2>1, <2>2, <2>3, <2>4
<1>5. s \in with
    <2> HIDE DEF with
    <2>1. Following(LastSource, with, Len(Lanes)) \in with
        BY <1>3, <1>4, FollowingIsOne
    <2> QED BY <2>1 DEF NextLane, with
<1>6. s \in Sources /\ DOMAIN Lanes[s] = 1..Len(Lanes[s]) /\ Len(Lanes[s]) \in Nat
    BY <1>5, PoolConstants
<1>7. PICK y \in Eligible : y \in ItemsOf(s)
    BY <1>5
<1> HIDE DEF s, with
<1>8. numbers # {} /\ numbers \in SUBSET (1..Len(Lanes[s])) /\ Len(Lanes[s]) > 0
    BY <1>6, <1>7 DEF ItemsOf
<1>9. anchor \in Int
    <2>1. at \subseteq 1..Len(Lanes[s])
        BY <1>6
    <2> HIDE DEF at
    <2>2. at # {} => (CHOOSE i \in at : TRUE) \in at
        BY ChoiceIsOne
    <2> DEFINE chosen == CHOOSE i \in at : TRUE
    <2>3. at # {} => chosen \in at
        BY <2>2
    <2> HIDE DEF chosen
    <2>6. at # {} => chosen \in 1..Len(Lanes[s])
        BY <2>1, <2>3
    <2>4. at # {} => chosen \in Int
        BY <2>6, <1>6
    <2>5. anchor = IF at = {} THEN 0 ELSE chosen
        BY Zenon DEF chosen
    <2> HIDE DEF anchor
    <2> QED BY <2>4, <2>5
<1>10. Following(anchor, numbers, Len(Lanes[s])) \in numbers
    <2> HIDE DEF anchor, numbers, at
    <2> QED BY <1>6, <1>8, <1>9, FollowingIsOne
<1>11. RotationPick = Lanes[s][Following(anchor, numbers, Len(Lanes[s]))]
    BY DEF RotationPick, PickInLane, s
<1>12. RotationPick \in Eligible
    <2> HIDE DEF anchor
    <2> QED BY <1>10, <1>11
<1> QED BY <1>12 DEF CursorsFit, Eligible

LEMMA PicksAreItems ==
    ASSUME PoolTypes
    PROVE  /\ RetryPick # None => RetryPick \in Items
           /\ ContinuedPick # None => ContinuedPick \in Items
           /\ Eligible \subseteq Items
BY DEF PoolTypes, CursorsFit, RetryPick, ContinuedPick, Eligible

LEMMA PointsFit ==
    ASSUME PoolTypes
    PROVE  /\ PointFits(NoPoint) /\ PointFits(Checkpoint)
           /\ \A ending : \A completed \in BOOLEAN : PointFits(PointAfterExit(ending, completed))
<1>1. PointFits(NoPoint)
    BY PoolConstants DEF PointFits, NoPoint
<1>2. PointFits(point)
    BY DEF PoolTypes
<1>3. run.kept => PointFits(PointOfRun(run))
    <2> SUFFICES ASSUME run.kept PROVE PointFits(PointOfRun(run))
        OBVIOUS
    <2>1. run.item \in Items /\ PositionOf(run) \in 0..ItemLength
        BY PoolConstants DEF PoolTypes, RunFits, PositionOf
    <2> QED BY <2>1 DEF PointOfRun, PointFits
<1>4. \A x : PointFits(WithoutItem(x))
    BY <1>1, <1>2 DEF WithoutItem
<1>5. PointFits(Checkpoint)
    BY <1>1, <1>2, <1>3 DEF Checkpoint
<1>6. ASSUME NEW ending, NEW completed \in BOOLEAN PROVE PointFits(PointAfterExit(ending, completed))
    <2>1. PointAfterExit(ending, completed) \in {WithoutItem(run.item), point}
          \/ (run.kept /\ PointAfterExit(ending, completed) = PointOfRun(run))
        BY DEF PointAfterExit
    <2> QED BY <1>2, <1>3, <1>4, <2>1
<1> QED BY <1>1, <1>5, <1>6

LEMMA RetriesFit ==
    ASSUME PoolTypes
    PROVE  /\ \A phase \in {"retried", "bridged", "covered"} :
                  retry' = Retry(phase) => RetryFits'
           /\ \A openFailure \in BOOLEAN : retry' = RetryAfterExit(openFailure) => RetryFits'
           /\ retry' \in {NoRetry, retry} => RetryFits'
<1>1. ASSUME NEW phase \in {"retried", "bridged", "covered"}, retry' = Retry(phase) PROVE RetryFits'
    BY <1>1 DEF PoolTypes, RetryFits, Retry
<1>2. retry' \in {NoRetry, retry} => RetryFits'
    BY DEF PoolTypes, RetryFits, NoRetry
<1>3. ASSUME NEW openFailure \in BOOLEAN, retry' = RetryAfterExit(openFailure) PROVE RetryFits'
    <2>1. \/ retry' \in {NoRetry, retry} \/ retry' = [retry EXCEPT !.step = "exhausted"]
          \/ retry' = [NoRetry EXCEPT !.item = run.item, !.step = "owed"]
        BY <1>3 DEF RetryAfterExit
    <2>2. retry' = [retry EXCEPT !.step = "exhausted"] => RetryFits'
        BY DEF PoolTypes, RetryFits
    <2>3. retry' = [NoRetry EXCEPT !.item = run.item, !.step = "owed"] => RetryFits'
        BY DEF RetryFits, NoRetry
    <2> QED BY <1>2, <2>1, <2>2, <2>3
<1> QED BY <1>1, <1>2, <1>3

LEMMA OffAirFits ==
    (run' = OffAir \/ \E x \in Items \cup {Cover, Other, Slate} : run' = [OffAir EXCEPT !.item = x]) => RunFits'
<1>1. run' = OffAir => RunFits'
    BY PoolConstants DEF RunFits, OffAir
<1>2. ASSUME NEW x \in Items \cup {Cover, Other, Slate}, run' = [OffAir EXCEPT !.item = x] PROVE RunFits'
    <2>1. run' = [item |-> x, kept |-> FALSE, turn |-> FALSE, resumed |-> FALSE, from |-> 0, aired |-> 0]
        BY <1>2 DEF OffAir
    <2> QED BY <2>1, PoolConstants DEF RunFits
<1> QED BY <1>1, <1>2

LEMMA StartFits ==
    ASSUME PoolTypes, NEW x \in Items, NEW how, NEW reason, StartItem(x, how, reason)
    PROVE  RunFits' /\ PointFits(point)' /\ CycleFits'
<1> DEFINE continued == how # "turn" /\ reason = "match" /\ PointStart(x) >= 0
<1>1. PICK seekable \in BOOLEAN :
          /\ run' = [item |-> x, kept |-> seekable /\ reason = "match", turn |-> how = "turn",
                     resumed |-> continued /\ seekable,
                     from |-> IF continued /\ seekable THEN PointStart(x) ELSE 0, aired |-> 0]
          /\ point' = CASE ~continued -> point
                        [] continued /\ seekable -> [point EXCEPT !.shorts = @ + 1]
                        [] continued /\ ~seekable -> NoPoint
          /\ cycle' = [step |-> "end", item |-> x, reason |-> reason, takes |-> TakesPosition(x, how)]
    BY DEF StartItem
<1>2. continued => PointStart(x) \in 0..ItemLength
    <2>1. PointStart(x) \in {-1, ResumeStart(point.at)}
        BY DEF PointStart
    <2>2. ResumeStart(point.at) \in {-1} \cup 0..ItemLength
        BY PoolConstants DEF PoolTypes, PointFits, ResumeStart
    <2> QED BY <2>1, <2>2, PoolConstants
<1> HIDE DEF continued
<1>3. RunFits'
    <2> DEFINE start == IF continued /\ seekable THEN PointStart(x) ELSE 0
    <2>1. start \in 0..ItemLength
        BY <1>2, PoolConstants
    <2>2. run'.item = x /\ run'.from = start /\ run'.aired = 0
          /\ {"item", "kept", "turn", "resumed", "from", "aired"} \subseteq DOMAIN run'
        BY <1>1
    <2> HIDE DEF start
    <2> QED BY <2>1, <2>2, PoolConstants DEF RunFits
<1>4. PointFits(point')
    <2>1. point' \in {point, [point EXCEPT !.shorts = @ + 1], NoPoint}
        BY <1>1
    <2>2. PointFits([point EXCEPT !.shorts = @ + 1])
        BY DEF PoolTypes, PointFits
    <2> QED BY <2>1, <2>2, PointsFit DEF PoolTypes
<1>5. CycleFits'
    BY <1>1 DEF CycleFits
<1> QED BY <1>3, <1>4, <1>5 DEF PointFits

LEMMA PositionsFit ==
    ASSUME PoolTypes, NEW x \in Items, pool' = PositionStored(x), UNCHANGED <<catalogue, heldBack>>
    PROVE  CursorsFit'
<1>1. LaneOf(x) \in Sources /\ x \in ItemsOf(LaneOf(x))
    BY DEF LaneOf, Items
<1>2. \A s \in Sources : Positions[s] \in ItemsOf(s) \cup {None}
    BY DEF Positions, PoolTypes, CursorsFit
<1>3. pool'.cursor = x
      /\ \A s \in Sources : pool'.cursors[s] = IF s = LaneOf(x) THEN x ELSE Positions[s]
    BY <1>1 DEF PositionStored, Positions
<1> QED BY <1>1, <1>2, <1>3 DEF CursorsFit, PoolTypes

LEMMA PoolStarts == PoolInit => PoolTypes
<1> SUFFICES ASSUME PoolInit PROVE PoolTypes
    OBVIOUS
<1>1. CursorsFit
    BY PoolAssumption DEF PoolInit, PoolAssumption, CursorsFit, NoPositions
<1>2. RunFits /\ PointFits(point) /\ RetryFits /\ CycleFits
    BY PoolConstants DEF PoolInit, RunFits, PointFits, RetryFits, CycleFits, OffAir, NoPoint, NoRetry, NoCycle
<1> QED BY <1>1, <1>2 DEF PoolTypes

PoolCycleStep == StartRetry \/ ContinueItem \/ StartNext \/ StartCover \/ EndCycle \/ StorePosition
                 \/ PositionWriteFails \/ KeepOnAir

LEMMA PoolCycleTypes == PoolTypes /\ PoolCycleStep => PoolTypes'
<1> SUFFICES ASSUME PoolTypes, PoolCycleStep PROVE PoolTypes'
    OBVIOUS
<1>1. ASSUME UNCHANGED <<catalogue, heldBack, pool>> PROVE CursorsFit'
    BY <1>1 DEF PoolTypes, CursorsFit
<1>2. ASSUME run' = run PROVE RunFits'
    BY <1>2 DEF PoolTypes, RunFits
<1>3. ASSUME PointFits(point') PROVE PointFits(point)'
    BY <1>3 DEF PointFits
<1>4. ASSUME cycle' \in {cycle, NoCycle} PROVE CycleFits'
    BY <1>4 DEF PoolTypes, CycleFits, NoCycle
<1>5. CASE StartRetry
    <2>1. RetryPick \in Items /\ StartItem(RetryPick, "retry", RetryReason) /\ retry' = Retry("retried")
          /\ UNCHANGED <<catalogue, heldBack, pool>>
        BY <1>5, PicksAreItems DEF StartRetry
    <2> QED BY <1>1, <2>1, StartFits, RetriesFit DEF PoolTypes
<1>6. CASE ContinueItem
    <2>1. ContinuedPick \in Items /\ StartItem(ContinuedPick, "continue", "match") /\ retry' \in {NoRetry, retry}
          /\ UNCHANGED <<catalogue, heldBack, pool>>
        BY <1>6, PicksAreItems DEF ContinueItem
    <2> QED BY <1>1, <2>1, StartFits, RetriesFit DEF PoolTypes
<1>7. CASE StartNext
    <2>1. RotationPick \in Items /\ StartItem(RotationPick, "turn", "match") /\ retry' \in {NoRetry, retry}
          /\ UNCHANGED <<catalogue, heldBack, pool>>
        BY <1>7, RotationPicksItem DEF StartNext, PoolTypes
    <2> QED BY <1>1, <2>1, StartFits, RetriesFit DEF PoolTypes
<1>8. CASE StartCover
    <2>1. run' = [OffAir EXCEPT !.item = Cover] /\ UNCHANGED <<catalogue, heldBack, pool, point, cycle>>
          /\ (retry' \in {NoRetry, retry} \/ retry' = Retry("bridged"))
        BY <1>8 DEF StartCover
    <2>2. RetryFits' /\ RunFits' /\ PointFits(point')
        BY <2>1, RetriesFit, OffAirFits DEF PoolTypes
    <2> QED BY <1>1, <1>3, <1>4, <2>1, <2>2 DEF PoolTypes
<1>9. CASE EndCycle
    <2>1. point' = Checkpoint /\ UNCHANGED <<catalogue, heldBack, pool, run, retry>> /\ cycle.step = "end"
          /\ (cycle' = NoCycle \/ cycle' = [cycle EXCEPT !.step = "store"])
        BY <1>9 DEF EndCycle
    <2>2. CycleFits'
        BY <1>4, <2>1 DEF PoolTypes, CycleFits
    <2> QED BY <1>1, <1>2, <1>3, <2>1, <2>2, PointsFit, RetriesFit DEF PoolTypes
<1>10. CASE StorePosition
    <2>1. pool' = PositionStored(cycle.item) /\ cycle' = NoCycle /\ UNCHANGED <<catalogue, heldBack, run, retry, point>>
          /\ cycle.item \in Items
        BY <1>10 DEF StorePosition, PoolTypes, CycleFits
    <2>2. CursorsFit'
        BY <2>1, PositionsFit
    <2> QED BY <1>2, <1>3, <1>4, <2>1, <2>2, RetriesFit DEF PoolTypes
<1>11. CASE PositionWriteFails
    <2>1. cycle' = NoCycle /\ UNCHANGED <<catalogue, heldBack, pool, run, retry, point>>
        BY <1>11 DEF PositionWriteFails
    <2> QED BY <1>1, <1>2, <1>3, <1>4, <2>1, RetriesFit DEF PoolTypes
<1>12. CASE KeepOnAir
    <2>1. point' = Checkpoint /\ UNCHANGED <<catalogue, heldBack, pool, run, retry, cycle>>
        BY <1>12 DEF KeepOnAir
    <2> QED BY <1>1, <1>2, <1>3, <1>4, <2>1, PointsFit, RetriesFit DEF PoolTypes
<1> QED BY <1>5, <1>6, <1>7, <1>8, <1>9, <1>10, <1>11, <1>12 DEF PoolCycleStep

PoolExit == EndsByItself \/ Fails \/ DoesNotOpen \/ LeaveAir \/ TakeSlate \/ LeaveSlate \/ Skip \/ ContainerDies
            \/ (\E x \in Items, reason \in {"operator", "manual"} : TakeAir(x, reason)) \/ TakeAir(Other, "other")

LEMMA PoolExitTypes == PoolTypes /\ PoolExit => PoolTypes'
<1> SUFFICES ASSUME PoolTypes, PoolExit PROVE PoolTypes'
    OBVIOUS
<1>1. UNCHANGED <<catalogue, pool>> /\ (heldBack' = heldBack \/ (heldBack' = heldBack \cup {run.item} /\ run.item \in Items))
    BY DEF PoolExit, EndsByItself, Fails, DoesNotOpen, LeaveAir, TakeSlate, LeaveSlate, Skip, ContainerDies, TakeAir
<1>2. CursorsFit'
    BY <1>1 DEF PoolTypes, CursorsFit
<1>3. cycle' \in {cycle, NoCycle}
    BY DEF PoolExit, EndsByItself, Fails, DoesNotOpen, LeaveAir, TakeSlate, LeaveSlate, Skip, ContainerDies, TakeAir
<1>4. CycleFits'
    BY <1>3 DEF PoolTypes, CycleFits, NoCycle
<1>5. run' = OffAir \/ \E x \in Items \cup {Cover, Other, Slate} : run' = [OffAir EXCEPT !.item = x]
    BY DEF PoolExit, EndsByItself, Fails, DoesNotOpen, LeaveAir, TakeSlate, LeaveSlate, Skip, ContainerDies, TakeAir
<1>6. RunFits'
    BY <1>5, OffAirFits
<1>7. point' = point \/ \E ending : \E completed \in BOOLEAN : point' = PointAfterExit(ending, completed)
    BY DEF PoolExit, EndsByItself, Fails, DoesNotOpen, LeaveAir, TakeSlate, LeaveSlate, Skip, ContainerDies, TakeAir
<1>8. PointFits(point')
    BY <1>7, PointsFit DEF PoolTypes
<1>9. PointFits(point)'
    BY <1>8 DEF PointFits
<1>10. retry' \in {retry, NoRetry} \/ retry' = Retry("covered")
       \/ \E openFailure \in BOOLEAN : retry' = RetryAfterExit(openFailure)
    BY DEF PoolExit, EndsByItself, Fails, DoesNotOpen, LeaveAir, TakeSlate, LeaveSlate, Skip, ContainerDies, TakeAir
<1>11. RetryFits'
    BY <1>10, RetriesFit
<1> QED BY <1>2, <1>4, <1>6, <1>9, <1>11 DEF PoolTypes

PoolOther == Air \/ RunsOn \/ Restart \/ (\E x \in Items : HoldBack(x) \/ Release(x) \/ Vanish(x))
             \/ RetryExpires \/ PointExpires \/ UNCHANGED poolVars

LEMMA PoolOtherTypes == PoolTypes /\ PoolOther => PoolTypes'
<1> SUFFICES ASSUME PoolTypes, PoolOther PROVE PoolTypes'
    OBVIOUS
<1>1. CursorsFit'
    <2>1. pool' = pool /\ catalogue' \subseteq catalogue /\ heldBack' \subseteq heldBack \cup Items
        BY DEF PoolOther, Air, RunsOn, Restart, HoldBack, Release, Vanish, RetryExpires, PointExpires, poolVars
    <2> QED BY <2>1 DEF PoolTypes, CursorsFit
<1>2. RunFits'
    <2>1. CASE run' = run
        BY <2>1 DEF PoolTypes, RunFits
    <2>2. CASE Air
        <3>1. run' = [run EXCEPT !.aired = @ + 1] /\ run.from + run.aired < ItemLength
            BY <2>2 DEF Air, PositionOf
        <3> QED BY <3>1, PoolConstants DEF PoolTypes, RunFits
    <2>3. CASE RunsOn
        BY <2>3 DEF RunsOn, PoolTypes, RunFits
    <2>4. CASE Restart
        <3>1. run.item \in Items
              /\ run' = [run EXCEPT !.kept = run.item \in OnDisk, !.resumed = FALSE, !.from = 0, !.aired = 0]
            BY <2>4 DEF Restart
        <3>2. run'.item = run.item /\ run'.from = 0 /\ run'.aired = 0 /\ DOMAIN run' = DOMAIN run
            BY <3>1 DEF PoolTypes, RunFits
        <3> QED BY <3>1, <3>2, PoolConstants DEF PoolTypes, RunFits
    <2> QED BY <2>1, <2>2, <2>3, <2>4
            DEF PoolOther, HoldBack, Release, Vanish, RetryExpires, PointExpires, poolVars
<1>3. PointFits(point')
    <2>1. point' \in {point, NoPoint} \/ point' = PointAfterExit("ended", FALSE)
        BY DEF PoolOther, Air, RunsOn, Restart, HoldBack, Release, Vanish, RetryExpires, PointExpires, poolVars
    <2> QED BY <2>1, PointsFit DEF PoolTypes
<1>4. RetryFits'
    <2>1. retry' \in {retry, NoRetry} \/ retry' = RetryAfterExit(FALSE)
        BY DEF PoolOther, Air, RunsOn, Restart, HoldBack, Release, Vanish, RetryExpires, PointExpires, poolVars
    <2> QED BY <2>1, RetriesFit
<1>5. CycleFits'
    <2>1. cycle' = cycle \/ \E x \in Items : \E takes :
              cycle' = [step |-> "end", item |-> x, reason |-> "match", takes |-> takes]
        BY PicksAreItems
           DEF PoolOther, Air, RunsOn, Restart, HoldBack, Release, Vanish, RetryExpires, PointExpires, poolVars
    <2> QED BY <2>1 DEF PoolTypes, CycleFits
<1> QED BY <1>1, <1>2, <1>3, <1>4, <1>5 DEF PoolTypes, PointFits

LEMMA PoolStepTypes == PoolTypes /\ [PoolNext]_poolVars => PoolTypes'
BY Zenon, PoolCycleTypes, PoolExitTypes, PoolOtherTypes DEF PoolNext, PoolCycleStep, PoolExit, PoolOther

\* The variables of a pool keep their types: a position stored for a source is an item of that source,
\* and no point or run lies outside its item.
LEMMA PoolTypeCorrect == PoolSpec => []PoolTypes
BY PoolStarts, PoolStepTypes, PTL DEF PoolSpec

LEMMA PoolTypesSuffice == PoolTypes => PoolTypeOK
BY DEF PoolTypes, CursorsFit, RunFits, PointFits, RetryFits, CycleFits, PoolTypeOK, PositionOf

---------------------------------------------------------------------------
(* Whose turn it is                                                        *)

\* How far b is behind the next of a in a round of n.
StepsAfter(a, b, n) == (b - a - 1) % n

LEMMA RoundSteps ==
    ASSUME NEW n \in Nat, n > 0, NEW a \in 1..n, NEW b \in 1..n
    PROVE  StepsAfter(a, b, n) = IF a < b THEN b - a - 1 ELSE b - a - 1 + n
<1>1. CASE a < b
    <2> DEFINE d == b - a - 1
    <2>1. d \in 0..(n - 1)
        BY <1>1
    <2> HIDE DEF d
    <2>2. d % n = d
        BY <2>1
    <2> QED BY <1>1, <2>2 DEF StepsAfter, d
<1>2. CASE ~(a < b)
    <2> DEFINE d == b - a - 1
    <2>1. d + n \in 0..(n - 1) /\ d \in Int
        BY <1>2
    <2> HIDE DEF d
    <2>2. d % n = d + n
        BY <2>1
    <2> QED BY <1>2, <2>2 DEF StepsAfter, d
<1> QED BY <1>1, <1>2

\* Nobody is both no later and later than another.
LEMMA OneOrder ==
    ASSUME NEW n \in Nat, n > 0, NEW a \in 1..n, NEW b \in 1..n, NEW c \in 1..n,
           StepsAfter(a, b, n) <= StepsAfter(a, c, n), StepsAfter(a, c, n) < StepsAfter(a, b, n)
    PROVE  FALSE
<1>1. StepsAfter(a, b, n) = IF a < b THEN b - a - 1 ELSE b - a - 1 + n
    BY RoundSteps
<1>2. StepsAfter(a, c, n) = IF a < c THEN c - a - 1 ELSE c - a - 1 + n
    BY RoundSteps
<1>3. StepsAfter(a, b, n) \in Int
    BY <1>1
<1>4. StepsAfter(a, c, n) \in Int
    BY <1>2
<1> DEFINE u == StepsAfter(a, b, n)
           v == StepsAfter(a, c, n)
<1>5. u \in Int /\ v \in Int /\ u <= v /\ v < u
    BY <1>3, <1>4
<1> HIDE DEF u, v
<1> QED BY ONLY <1>5

\* The first one after a leaves the others in their order.
LEMMA FirstLeavesOrder ==
    ASSUME NEW n \in Nat, n > 0, NEW a \in 1..n, NEW b \in 1..n, NEW c \in 1..n, NEW d \in 1..n,
           StepsAfter(a, b, n) <= StepsAfter(a, c, n), StepsAfter(a, c, n) < StepsAfter(a, d, n), b # c
    PROVE  StepsAfter(b, c, n) < StepsAfter(b, d, n)
<1>1. StepsAfter(a, b, n) = IF a < b THEN b - a - 1 ELSE b - a - 1 + n
    BY RoundSteps
<1>2. StepsAfter(a, c, n) = IF a < c THEN c - a - 1 ELSE c - a - 1 + n
    BY RoundSteps
<1>3. StepsAfter(a, d, n) = IF a < d THEN d - a - 1 ELSE d - a - 1 + n
    BY RoundSteps
<1>4. StepsAfter(b, c, n) = IF b < c THEN c - b - 1 ELSE c - b - 1 + n
    BY RoundSteps
<1>5. StepsAfter(b, d, n) = IF b < d THEN d - b - 1 ELSE d - b - 1 + n
    BY RoundSteps
<1>6. CASE a < b
    BY <1>1, <1>2, <1>3, <1>4, <1>5, <1>6
<1>7. CASE ~(a < b)
    BY <1>1, <1>2, <1>3, <1>4, <1>5, <1>7
<1> QED BY <1>6, <1>7

LEMMA LastOfTheRound ==
    ASSUME NEW n \in Nat, n > 0, NEW a \in 1..n, NEW b \in 1..n, a # b
    PROVE  StepsAfter(a, b, n) < StepsAfter(a, a, n)
<1>1. StepsAfter(a, a, n) = a - a - 1 + n
    BY RoundSteps
<1>2. StepsAfter(a, b, n) = IF a < b THEN b - a - 1 ELSE b - a - 1 + n
    BY RoundSteps
<1> QED BY <1>1, <1>2

LEMMA FollowingIsFirst ==
    ASSUME NEW a \in Int, NEW n \in Nat, n > 0, NEW numbers \in SUBSET (1..n), numbers # {}
    PROVE  /\ Following(a, numbers, n) \in numbers
           /\ \A j \in numbers : StepsAfter(a, Following(a, numbers, n), n) <= StepsAfter(a, j, n)
<1> DEFINE After(i) == (i - a - 1) % n
           Steps == {After(i) : i \in numbers}
<1>1. \A i \in numbers : After(i) \in Nat
    OBVIOUS
<1>2. PICK k \in Steps : \A l \in Steps : k <= l
    <2>1. Steps \in SUBSET Nat /\ Steps # {}
        BY <1>1
    <2> HIDE DEF Steps
    <2> QED BY <2>1, LeastOf
<1>3. PICK i \in numbers : After(i) = k
    BY <1>2
<1>4. \A j \in numbers : After(i) <= After(j)
    BY <1>2, <1>3
<1>5. \E m \in numbers : \A j \in numbers : (m - a - 1) % n <= (j - a - 1) % n
    BY <1>4
<1>6. /\ Following(a, numbers, n) \in numbers
      /\ \A j \in numbers : (Following(a, numbers, n) - a - 1) % n <= (j - a - 1) % n
    BY <1>5 DEF Following
<1> QED BY <1>6 DEF StepsAfter

\* The place of an item in its source.
PlaceOf(x) == CHOOSE i \in DOMAIN Lanes[LaneOf(x)] : Lanes[LaneOf(x)][i] = x
PlacesOf(s) == Len(Lanes[s])

LEMMA ItemsHavePlaces ==
    /\ \A x \in Items : /\ LaneOf(x) \in Sources /\ x \in ItemsOf(LaneOf(x))
                        /\ PlaceOf(x) \in 1..PlacesOf(LaneOf(x)) /\ Lanes[LaneOf(x)][PlaceOf(x)] = x
    /\ \A s \in Sources : \A x \in ItemsOf(s) : x \in Items /\ LaneOf(x) = s
    /\ \A s \in Sources : \A i \in DOMAIN Lanes[s] : Lanes[s][i] \in Items /\ LaneOf(Lanes[s][i]) = s /\ PlaceOf(Lanes[s][i]) = i
    /\ \A s \in Sources : PlacesOf(s) \in Nat
<1>1. \A x \in Items : LaneOf(x) \in Sources /\ x \in ItemsOf(LaneOf(x))
    BY DEF LaneOf, Items
<1>2. \A s \in Sources : \A x \in ItemsOf(s) : x \in Items /\ LaneOf(x) = s
    <2> TAKE s \in Sources
    <2> TAKE x \in ItemsOf(s)
    <2>1. x \in Items
        BY DEF Items
    <2>2. PICK i \in DOMAIN Lanes[s] : x = Lanes[s][i]
        BY DEF ItemsOf
    <2>3. LaneOf(x) \in Sources
        BY <1>1, <2>1
    <2>4. PICK j \in DOMAIN Lanes[LaneOf(x)] : x = Lanes[LaneOf(x)][j]
        BY <1>1, <2>1 DEF ItemsOf
    <2> QED BY <2>1, <2>2, <2>3, <2>4, PoolAssumption DEF PoolAssumption
<1>3. \A s \in Sources : DOMAIN Lanes[s] = 1..PlacesOf(s) /\ PlacesOf(s) \in Nat
    BY PoolConstants DEF PlacesOf
<1>4. \A x \in Items : PlaceOf(x) \in DOMAIN Lanes[LaneOf(x)] /\ Lanes[LaneOf(x)][PlaceOf(x)] = x
    <2> TAKE x \in Items
    <2>1. \E j \in DOMAIN Lanes[LaneOf(x)] : Lanes[LaneOf(x)][j] = x
        BY <1>1 DEF ItemsOf
    <2> QED BY <2>1 DEF PlaceOf
<1>5. \A s \in Sources : \A i \in DOMAIN Lanes[s] : Lanes[s][i] \in Items /\ LaneOf(Lanes[s][i]) = s
    BY <1>2 DEF ItemsOf
<1>6. \A s \in Sources : \A i \in DOMAIN Lanes[s] : PlaceOf(Lanes[s][i]) = i
    <2> TAKE s \in Sources
    <2> TAKE i \in DOMAIN Lanes[s]
    <2> DEFINE x == Lanes[s][i]
    <2>1. x \in Items /\ LaneOf(x) = s
        BY <1>5
    <2>2. PlaceOf(x) \in DOMAIN Lanes[s] /\ Lanes[s][PlaceOf(x)] = Lanes[s][i]
        BY <1>4, <2>1
    <2> QED BY <2>2, PoolAssumption DEF PoolAssumption
<1> QED BY <1>1, <1>2, <1>3, <1>4, <1>5, <1>6

\* The pool's pick: of the sources that have something, the first after the last one; in it, the first
\* that may be picked after the item the source stands at.
LEMMA RotationIsFirst ==
    ASSUME CursorsFit, Eligible # {}
    PROVE  /\ RotationPick \in Eligible /\ RotationPick \in Items
           /\ \A q \in Sources : ItemsOf(q) \cap Eligible # {} =>
                 StepsAfter(LastSource, LaneOf(RotationPick), Len(Lanes)) <= StepsAfter(LastSource, q, Len(Lanes))
           /\ LET s == LaneOf(RotationPick)
                  p == Positions[s]
              IN  p \in catalogue \cap ItemsOf(s) =>
                     \A y \in ItemsOf(s) \cap Eligible :
                        StepsAfter(PlaceOf(p), PlaceOf(RotationPick), PlacesOf(s))
                           <= StepsAfter(PlaceOf(p), PlaceOf(y), PlacesOf(s))
<1> DEFINE s == NextLane(Eligible)
           with == {q \in Sources : ItemsOf(q) \cap Eligible # {}}
           numbers == {i \in DOMAIN Lanes[s] : Lanes[s][i] \in Eligible}
           at == {i \in DOMAIN Lanes[s] : Lanes[s][i] = Positions[s] /\ Positions[s] \in catalogue}
           anchor == IF at = {} THEN 0 ELSE CHOOSE i \in at : TRUE
<1>1. PICK x \in Eligible : x \in Items
    BY DEF CursorsFit, Eligible
<1>2. PICK r \in Sources : x \in ItemsOf(r)
    BY <1>1 DEF Items
<1>3. with \in SUBSET (1..Len(Lanes)) /\ r \in with /\ Len(Lanes) \in Nat /\ Len(Lanes) > 0
    BY <1>1, <1>2, PoolConstants
<1>4. LastSource \in Int
    <2> DEFINE of == {q \in Sources : pool.cursor # None /\ (IF pool.cursor \in catalogue
                                       THEN pool.cursor \in ItemsOf(q) ELSE pool.cursors[q] = pool.cursor)}
    <2>1. LastSource = IF of = {} THEN 0 ELSE CHOOSE q \in of : TRUE
        BY DEF LastSource
    <2>2. of \subseteq Sources
        OBVIOUS
    <2> HIDE DEF of
    <2>3. of # {} => (CHOOSE q \in of : TRUE) \in of
        BY ChoiceIsOne
    <2>4. \A q \in Sources : q \in Int
        BY PoolConstants
    <2> QED BY <2>1, <2>2, <2>3, <2>4
<1>5. s \in with /\ \A q \in with : StepsAfter(LastSource, s, Len(Lanes)) <= StepsAfter(LastSource, q, Len(Lanes))
    <2> HIDE DEF with
    <2>1. /\ Following(LastSource, with, Len(Lanes)) \in with
          /\ \A q \in with : StepsAfter(LastSource, Following(LastSource, with, Len(Lanes)), Len(Lanes))
                                <= StepsAfter(LastSource, q, Len(Lanes))
        BY <1>3, <1>4, FollowingIsFirst
    <2> QED BY <2>1 DEF NextLane, with
<1>6. s \in Sources /\ DOMAIN Lanes[s] = 1..Len(Lanes[s]) /\ Len(Lanes[s]) \in Nat
    BY <1>5, PoolConstants
<1>7. PICK y \in Eligible : y \in ItemsOf(s)
    BY <1>5
<1> HIDE DEF s
<1>8. numbers # {} /\ numbers \in SUBSET (1..Len(Lanes[s])) /\ Len(Lanes[s]) > 0
    BY <1>6, <1>7 DEF ItemsOf
<1>9. anchor \in Int /\ (at # {} => anchor \in at)
    <2>1. at \subseteq 1..Len(Lanes[s])
        BY <1>6
    <2> HIDE DEF at
    <2>2. at # {} => (CHOOSE i \in at : TRUE) \in at
        BY ChoiceIsOne
    <2> DEFINE chosen == CHOOSE i \in at : TRUE
    <2>3. at # {} => chosen \in at
        BY <2>2
    <2> HIDE DEF chosen
    <2>6. at # {} => chosen \in 1..Len(Lanes[s])
        BY <2>1, <2>3
    <2>4. at # {} => chosen \in Int
        BY <2>6, <1>6
    <2>5. anchor = IF at = {} THEN 0 ELSE chosen
        BY Zenon DEF chosen
    <2> HIDE DEF anchor
    <2> QED BY <2>3, <2>4, <2>5
<1> DEFINE pick == Following(anchor, numbers, Len(Lanes[s]))
<1>10. /\ pick \in numbers
       /\ \A j \in numbers : StepsAfter(anchor, pick, Len(Lanes[s])) <= StepsAfter(anchor, j, Len(Lanes[s]))
    <2> HIDE DEF anchor, numbers, at
    <2> QED BY <1>6, <1>8, <1>9, FollowingIsFirst
<1>11. RotationPick = Lanes[s][pick]
    BY DEF RotationPick, PickInLane, s
<1> HIDE DEF pick, anchor
<1>12. RotationPick \in Eligible /\ LaneOf(RotationPick) = s /\ PlaceOf(RotationPick) = pick /\ RotationPick \in Items
    BY <1>6, <1>10, <1>11, ItemsHavePlaces
<1>13. ASSUME Positions[s] \in catalogue \cap ItemsOf(s), NEW z \in ItemsOf(s) \cap Eligible
       PROVE  StepsAfter(PlaceOf(Positions[s]), pick, PlacesOf(s)) <= StepsAfter(PlaceOf(Positions[s]), PlaceOf(z), PlacesOf(s))
    <2>1. PlaceOf(z) \in numbers
        BY <1>6, <1>13, ItemsHavePlaces DEF PlacesOf
    <2>2. PlaceOf(Positions[s]) \in at
        BY <1>6, <1>13, ItemsHavePlaces DEF PlacesOf
    <2>3. anchor \in DOMAIN Lanes[s] /\ Lanes[s][anchor] = Positions[s]
        BY <1>9, <2>2
    <2>4. anchor = PlaceOf(Positions[s])
        BY <1>6, <2>3, ItemsHavePlaces
    <2> QED BY <1>10, <2>1, <2>4 DEF PlacesOf
<1> QED BY <1>5, <1>12, <1>13

\* A pool whose pointer is there goes on from the pointer's source.
LEMMA LastIsOfPointer ==
    pool.cursor \in catalogue \cap Items => LastSource = LaneOf(pool.cursor)
<1> SUFFICES ASSUME pool.cursor \in catalogue \cap Items PROVE LastSource = LaneOf(pool.cursor)
    OBVIOUS
<1> DEFINE of == {q \in Sources : pool.cursor # None /\ (IF pool.cursor \in catalogue
                                   THEN pool.cursor \in ItemsOf(q) ELSE pool.cursors[q] = pool.cursor)}
<1>1. LastSource = IF of = {} THEN 0 ELSE CHOOSE q \in of : TRUE
    BY DEF LastSource
<1>2. pool.cursor # None
    BY PoolConstants
<1>3. LaneOf(pool.cursor) \in of /\ \A q \in of : q = LaneOf(pool.cursor)
    BY <1>2, ItemsHavePlaces
<1> HIDE DEF of
<1>4. (CHOOSE q \in of : TRUE) \in of
    BY <1>3, ChoiceIsOne
<1> QED BY <1>1, <1>3, <1>4

\* From x on, ys come before w in their source.
ComeFirst(x, ys, w) ==
    \A y \in ys : StepsAfter(PlaceOf(x), PlaceOf(y), PlacesOf(LaneOf(w)))
                     < StepsAfter(PlaceOf(x), PlaceOf(w), PlacesOf(LaneOf(w)))

\* From source s on, the sources qs come before r in the pool.
SourcesComeFirst(s, qs, r) ==
    \A q \in qs : StepsAfter(s, q, Len(Lanes)) < StepsAfter(s, r, Len(Lanes))

TurnShape ==
    /\ {"item", "runs", "waiting", "passed"} \subseteq DOMAIN turn /\ turn.item \in Items
    /\ turn.waiting \subseteq (ItemsOf(LaneOf(turn.item)) \cap Eligible) \ {turn.item}
    /\ turn.passed \subseteq {s \in Sources \ {LaneOf(turn.item)} : ItemsOf(s) \cap Eligible # {}}
    /\ cycle.takes \in BOOLEAN /\ (cycle.takes => cycle.step # "none") /\ (cycle.step = "store" => cycle.takes)

\* Whoever waits comes before the watched item, wherever the source goes on from: the position that
\* is stored, or the one the cycle has still to store; the former, should the latter be lost.
WaitersComeFirst ==
    turn.waiting # {} =>
        LET s == LaneOf(turn.item)
        IN  /\ cycle.takes /\ LaneOf(cycle.item) = s =>
                  cycle.item \in catalogue /\ ComeFirst(cycle.item, turn.waiting, turn.item)
            /\ ~(cycle.takes /\ cycle.item = turn.item) =>
                  Positions[s] \in catalogue \cap ItemsOf(s) /\ ComeFirst(Positions[s], turn.waiting, turn.item)

PassedComeFirst ==
    turn.passed # {} =>
        LET s == LaneOf(turn.item)
        IN  /\ cycle.takes => cycle.item \in catalogue /\ SourcesComeFirst(LaneOf(cycle.item), turn.passed, s)
            /\ ~(cycle.takes /\ LaneOf(cycle.item) = s) =>
                  pool.cursor \in catalogue \cap Items /\ SourcesComeFirst(LaneOf(pool.cursor), turn.passed, s)

DueInv == TurnShape /\ WaitersComeFirst /\ PassedComeFirst

LEMMA ItemsComeFirst ==
    ASSUME NEW w \in Items, NEW ys \in SUBSET (ItemsOf(LaneOf(w)) \ {w})
    PROVE  ComeFirst(w, ys, w)
<1> SUFFICES ASSUME NEW y \in ys
             PROVE  StepsAfter(PlaceOf(w), PlaceOf(y), PlacesOf(LaneOf(w)))
                       < StepsAfter(PlaceOf(w), PlaceOf(w), PlacesOf(LaneOf(w)))
    BY DEF ComeFirst
<1> DEFINE s == LaneOf(w)
           n == PlacesOf(s)
<1>1. s \in Sources /\ n \in Nat /\ PlaceOf(w) \in 1..n /\ Lanes[s][PlaceOf(w)] = w
    BY ItemsHavePlaces
<1>2. y \in ItemsOf(s) /\ y # w
    OBVIOUS
<1>3. y \in Items /\ LaneOf(y) = s
    BY <1>1, <1>2, ItemsHavePlaces
<1>4. PlaceOf(y) \in 1..n /\ Lanes[s][PlaceOf(y)] = y
    BY <1>3, ItemsHavePlaces
<1> HIDE DEF s, n
<1>5. PlaceOf(y) # PlaceOf(w) /\ n > 0
    BY <1>1, <1>2, <1>4
<1> QED BY <1>1, <1>4, <1>5, LastOfTheRound DEF n, s

LEMMA OthersComeFirst ==
    ASSUME NEW r \in Sources, NEW qs \in SUBSET (Sources \ {r})
    PROVE  SourcesComeFirst(r, qs, r)
<1> SUFFICES ASSUME NEW q \in qs PROVE StepsAfter(r, q, Len(Lanes)) < StepsAfter(r, r, Len(Lanes))
    BY DEF SourcesComeFirst
<1>1. Sources = 1..Len(Lanes) /\ Len(Lanes) \in Nat
    BY PoolConstants
<1>2. Len(Lanes) > 0 /\ q \in 1..Len(Lanes) /\ r \in 1..Len(Lanes) /\ q # r
    BY <1>1
<1> QED BY <1>1, <1>2, LastOfTheRound

LEMMA DueStarts == PoolInit => DueInv
<1> SUFFICES ASSUME PoolInit PROVE DueInv
    OBVIOUS
<1>1. /\ catalogue = Items /\ heldBack = {} /\ pool.cursors = NoPositions
      /\ pool.cursor \in Items \cup {None} /\ cycle = NoCycle
    BY PoolAssumption DEF PoolInit, PoolAssumption
<1>2. PICK w \in Watched :
        turn = [item |-> w, runs |-> 0,
                waiting |-> IF pool.cursor = w THEN ItemsOf(LaneOf(w)) \ {w} ELSE {},
                passed |-> IF pool.cursor \in ItemsOf(LaneOf(w))
                           THEN {s \in Sources \ {LaneOf(w)} : ItemsOf(s) # {}} ELSE {}]
    BY DEF PoolInit
<1> DEFINE s == LaneOf(w)
<1>3. w \in Items /\ s \in Sources /\ w \in ItemsOf(s)
    BY PoolAssumption, ItemsHavePlaces DEF PoolAssumption
<1>4. \A q \in Sources : ItemsOf(q) \cap Eligible = ItemsOf(q)
    BY <1>1, ItemsHavePlaces DEF Eligible
<1>5. TurnShape
    BY <1>1, <1>2, <1>3, <1>4 DEF TurnShape, NoCycle
<1>6. WaitersComeFirst
    <2> SUFFICES ASSUME turn.waiting # {} PROVE Positions[s] \in catalogue \cap ItemsOf(s) /\ ComeFirst(Positions[s], turn.waiting, w)
        BY <1>1, <1>2 DEF WaitersComeFirst, NoCycle
    <2>1. pool.cursor = w /\ turn.waiting = ItemsOf(s) \ {w}
        BY <1>2
    <2>2. Positions[s] = w
        BY <1>1, <1>3, <2>1 DEF Positions
    <2>3. ComeFirst(w, turn.waiting, w)
        BY <1>3, <2>1, ItemsComeFirst
    <2> QED BY <1>1, <1>3, <2>2, <2>3
<1>7. PassedComeFirst
    <2> SUFFICES ASSUME turn.passed # {} PROVE pool.cursor \in catalogue \cap Items /\ SourcesComeFirst(LaneOf(pool.cursor), turn.passed, s)
        BY <1>1, <1>2 DEF PassedComeFirst, NoCycle
    <2>1. pool.cursor \in ItemsOf(s) /\ turn.passed \subseteq Sources \ {s}
        BY <1>2
    <2>2. pool.cursor \in Items /\ LaneOf(pool.cursor) = s
        BY <1>3, <2>1, ItemsHavePlaces
    <2> QED BY <1>1, <1>3, <2>1, <2>2, OthersComeFirst
<1> QED BY <1>5, <1>6, <1>7 DEF DueInv

\* What takes no turn and stores nothing: whoever waits goes on waiting, or no longer can be picked.
DueStill ==
    /\ catalogue' = catalogue /\ pool' = pool
    /\ {"item", "runs", "waiting", "passed"} \subseteq DOMAIN turn' /\ turn'.item = turn.item
    /\ turn'.waiting \subseteq turn.waiting \cap Eligible'
    /\ turn'.passed \subseteq {s \in turn.passed : ItemsOf(s) \cap Eligible' # {}}
    /\ cycle'.takes = cycle.takes /\ (cycle.takes => cycle'.item = cycle.item /\ cycle'.step # "none")
    /\ cycle'.step = "store" => cycle'.takes

LEMMA StillKeeps == DueInv /\ DueStill => DueInv'
<1> SUFFICES ASSUME DueInv, DueStill PROVE DueInv'
    OBVIOUS
<1>1. TurnShape'
    BY DEF DueInv, DueStill, TurnShape
<1>2. Positions' = Positions
    BY DEF DueStill, Positions
<1>3. WaitersComeFirst'
    <2> SUFFICES ASSUME turn'.waiting # {} PROVE WaitersComeFirst'
        BY DEF WaitersComeFirst
    <2>1. turn.waiting # {} /\ \A y \in turn'.waiting : y \in turn.waiting
        BY DEF DueStill
    <2>2. \A x : ComeFirst(x, turn.waiting, turn.item) => ComeFirst(x, turn'.waiting, turn.item)
        BY <2>1 DEF ComeFirst
    <2> QED BY <1>2, <2>1, <2>2 DEF DueInv, DueStill, WaitersComeFirst
<1>4. PassedComeFirst'
    <2> SUFFICES ASSUME turn'.passed # {} PROVE PassedComeFirst'
        BY DEF PassedComeFirst
    <2>1. turn.passed # {} /\ \A q \in turn'.passed : q \in turn.passed
        BY DEF DueStill
    <2>2. \A x : SourcesComeFirst(x, turn.passed, LaneOf(turn.item)) => SourcesComeFirst(x, turn'.passed, LaneOf(turn.item))
        BY <2>1 DEF SourcesComeFirst
    <2> QED BY <2>1, <2>2 DEF DueInv, DueStill, PassedComeFirst
<1> QED BY <1>1, <1>3, <1>4 DEF DueInv

\* The pool's pick takes its turn: it begins a round of its own, or leaves those that wait.
DueTaken ==
    LET x == RotationPick
    IN  /\ Eligible # {} /\ cycle = NoCycle /\ UNCHANGED <<catalogue, heldBack, pool>>
        /\ cycle'.item = x /\ cycle'.step = "end" /\ cycle'.takes \in BOOLEAN
        /\ {"item", "runs", "waiting", "passed"} \subseteq DOMAIN turn' /\ turn'.item = turn.item
        /\ cycle'.takes => turn'.waiting = AfterTurnOf(x).waiting /\ turn'.passed = AfterTurnOf(x).passed
        /\ ~cycle'.takes => turn'.waiting = {} /\ turn'.passed = {}

LEMMA TurnFields ==
    ASSUME DueInv, NEW x
    PROVE  LET w == turn.item
               s == LaneOf(w)
           IN  /\ AfterTurnOf(x).item = w /\ DOMAIN AfterTurnOf(x) = DOMAIN turn
               /\ AfterTurnOf(x).waiting = IF x = w THEN (ItemsOf(s) \cap Eligible) \ {w} ELSE turn.waiting \ {x}
               /\ AfterTurnOf(x).passed = IF LaneOf(x) = s THEN {q \in Sources \ {s} : ItemsOf(q) \cap Eligible # {}}
                                          ELSE turn.passed \ {LaneOf(x)}
               /\ ForgetTurn(AfterTurnOf(x)).waiting = {} /\ ForgetTurn(AfterTurnOf(x)).passed = {}
               /\ ForgetTurn(AfterTurnOf(x)).item = w /\ DOMAIN ForgetTurn(AfterTurnOf(x)) = DOMAIN turn
BY DEF DueInv, TurnShape, AfterTurnOf, ForgetTurn

\* The pick leaves the order of those that wait behind it.
LEMMA PickLeavesWaiters ==
    ASSUME DueInv, CursorsFit, Eligible # {}, cycle = NoCycle,
           turn.waiting # {}, LaneOf(RotationPick) = LaneOf(turn.item)
    PROVE  RotationPick # turn.item /\ ComeFirst(RotationPick, turn.waiting \ {RotationPick}, turn.item)
<1> DEFINE x == RotationPick
           w == turn.item
           s == LaneOf(w)
           n == PlacesOf(s)
           p == Positions[s]
<1>1. /\ p \in catalogue \cap ItemsOf(s) /\ ComeFirst(p, turn.waiting, w)
      /\ w \in Items /\ turn.waiting \subseteq (ItemsOf(s) \cap Eligible) \ {w}
    BY DEF DueInv, TurnShape, WaitersComeFirst, NoCycle
<1>2. x \in Items /\ \A y \in ItemsOf(s) \cap Eligible : StepsAfter(PlaceOf(p), PlaceOf(x), n) <= StepsAfter(PlaceOf(p), PlaceOf(y), n)
    BY <1>1, RotationIsFirst
<1>3. \A y \in turn.waiting : /\ StepsAfter(PlaceOf(p), PlaceOf(x), n) <= StepsAfter(PlaceOf(p), PlaceOf(y), n)
                              /\ StepsAfter(PlaceOf(p), PlaceOf(y), n) < StepsAfter(PlaceOf(p), PlaceOf(w), n)
    BY <1>1, <1>2 DEF ComeFirst
<1>4. s \in Sources /\ n \in Nat
    BY <1>1, ItemsHavePlaces
<1>5. p \in Items /\ LaneOf(p) = s /\ \A y \in turn.waiting : y \in Items /\ LaneOf(y) = s
    BY <1>1, <1>4, ItemsHavePlaces
<1>6. /\ PlaceOf(p) \in 1..n /\ PlaceOf(x) \in 1..n /\ PlaceOf(w) \in 1..n
      /\ Lanes[s][PlaceOf(x)] = x /\ Lanes[s][PlaceOf(w)] = w
      /\ \A y \in turn.waiting : PlaceOf(y) \in 1..n /\ Lanes[s][PlaceOf(y)] = y
    BY <1>1, <1>2, <1>5, ItemsHavePlaces
<1> HIDE DEF x, w, s, n, p
<1>7. n > 0
    BY <1>4, <1>6
<1>8. x # w
    <2> SUFFICES ASSUME x = w PROVE FALSE
        OBVIOUS
    <2>1. PICK y \in turn.waiting : TRUE
        OBVIOUS
    <2>2. /\ StepsAfter(PlaceOf(p), PlaceOf(w), n) <= StepsAfter(PlaceOf(p), PlaceOf(y), n)
          /\ StepsAfter(PlaceOf(p), PlaceOf(y), n) < StepsAfter(PlaceOf(p), PlaceOf(w), n)
        BY <1>3
    <2> QED BY <1>4, <1>6, <1>7, <2>2, OneOrder
<1>9. ASSUME NEW y \in turn.waiting \ {x}
      PROVE  StepsAfter(PlaceOf(x), PlaceOf(y), n) < StepsAfter(PlaceOf(x), PlaceOf(w), n)
    <2>1. PlaceOf(x) # PlaceOf(y)
        BY <1>6
    <2> QED BY <1>3, <1>4, <1>6, <1>7, <2>1, FirstLeavesOrder
<1> QED BY <1>8, <1>9 DEF ComeFirst, x, w, n, s

LEMMA PickLeavesPassed ==
    ASSUME DueInv, CursorsFit, Eligible # {}, cycle = NoCycle, turn.passed # {}
    PROVE  /\ LaneOf(RotationPick) # LaneOf(turn.item)
           /\ SourcesComeFirst(LaneOf(RotationPick), turn.passed \ {LaneOf(RotationPick)}, LaneOf(turn.item))
<1> DEFINE r == LaneOf(RotationPick)
           s == LaneOf(turn.item)
           l == LaneOf(pool.cursor)
           N == Len(Lanes)
<1>1. /\ pool.cursor \in catalogue \cap Items /\ SourcesComeFirst(l, turn.passed, s) /\ turn.item \in Items
      /\ turn.passed \subseteq {q \in Sources \ {s} : ItemsOf(q) \cap Eligible # {}}
    BY DEF DueInv, TurnShape, PassedComeFirst, NoCycle
<1>2. LastSource = l
    BY <1>1, LastIsOfPointer
<1>3. RotationPick \in Items /\ \A q \in turn.passed : StepsAfter(l, r, N) <= StepsAfter(l, q, N)
    BY <1>1, <1>2, RotationIsFirst
<1>4. \A q \in turn.passed : StepsAfter(l, q, N) < StepsAfter(l, s, N)
    BY <1>1 DEF SourcesComeFirst
<1>5. N \in Nat /\ r \in 1..N /\ s \in 1..N /\ l \in 1..N /\ turn.passed \subseteq 1..N
    BY <1>1, <1>3, ItemsHavePlaces, PoolConstants
<1> HIDE DEF r, s, l, N
<1>6. N > 0
    BY <1>5
<1>7. r # s
    <2> SUFFICES ASSUME r = s PROVE FALSE
        OBVIOUS
    <2>1. PICK q \in turn.passed : TRUE
        OBVIOUS
    <2>2. StepsAfter(l, s, N) <= StepsAfter(l, q, N) /\ StepsAfter(l, q, N) < StepsAfter(l, s, N)
        BY <1>3, <1>4
    <2> QED BY <1>5, <1>6, <2>2, OneOrder
<1>8. \A q \in turn.passed \ {r} : StepsAfter(r, q, N) < StepsAfter(r, s, N)
    BY <1>3, <1>4, <1>5, <1>6, FirstLeavesOrder
<1> QED BY <1>7, <1>8 DEF SourcesComeFirst, r, s, N

LEMMA TakenKeeps == DueInv /\ CursorsFit /\ DueTaken => DueInv'
<1> SUFFICES ASSUME DueInv, CursorsFit, DueTaken PROVE DueInv'
    OBVIOUS
<1> DEFINE x == RotationPick
           w == turn.item
           s == LaneOf(w)
<1>1. /\ Eligible # {} /\ cycle = NoCycle /\ UNCHANGED <<catalogue, heldBack, pool>>
      /\ cycle'.item = x /\ cycle'.step = "end" /\ cycle'.takes \in BOOLEAN
      /\ {"item", "runs", "waiting", "passed"} \subseteq DOMAIN turn' /\ turn'.item = w
      /\ cycle'.takes => turn'.waiting = AfterTurnOf(x).waiting /\ turn'.passed = AfterTurnOf(x).passed
      /\ ~cycle'.takes => turn'.waiting = {} /\ turn'.passed = {}
    BY DEF DueTaken
<1>2. x \in Eligible /\ x \in Items /\ Eligible' = Eligible /\ Positions' = Positions
    BY <1>1, RotationIsFirst DEF Eligible, Positions
<1>3. /\ w \in Items /\ turn.waiting \subseteq (ItemsOf(s) \cap Eligible) \ {w}
      /\ turn.passed \subseteq {q \in Sources \ {s} : ItemsOf(q) \cap Eligible # {}}
    BY DEF DueInv, TurnShape
<1>4. /\ AfterTurnOf(x).waiting = IF x = w THEN (ItemsOf(s) \cap Eligible) \ {w} ELSE turn.waiting \ {x}
      /\ AfterTurnOf(x).passed = IF LaneOf(x) = s THEN {q \in Sources \ {s} : ItemsOf(q) \cap Eligible # {}}
                                 ELSE turn.passed \ {LaneOf(x)}
    BY TurnFields
<1>5. TurnShape'
    <2>1. turn'.waiting \subseteq (ItemsOf(s) \cap Eligible) \ {w}
        BY <1>1, <1>3, <1>4
    <2>2. turn'.passed \subseteq {q \in Sources \ {s} : ItemsOf(q) \cap Eligible # {}}
        BY <1>1, <1>3, <1>4
    <2> QED BY <1>1, <1>2, <1>3, <2>1, <2>2 DEF TurnShape
<1>6. s \in Sources /\ LaneOf(x) \in Sources /\ x \in ItemsOf(LaneOf(x)) /\ x \in catalogue /\ w \in ItemsOf(s)
    BY <1>2, <1>3, ItemsHavePlaces DEF Eligible
<1> HIDE DEF x
<1>7. WaitersComeFirst'
    <2> SUFFICES ASSUME turn'.waiting # {} PROVE WaitersComeFirst'
        BY DEF WaitersComeFirst
    <2>1. cycle'.takes
        BY <1>1
    <2>2. CASE x = w
        <3>1. ComeFirst(w, turn'.waiting, w)
            BY <1>1, <1>3, <1>4, <2>1, <2>2, ItemsComeFirst
        <3> QED BY <1>1, <1>6, <2>1, <2>2, <3>1 DEF WaitersComeFirst
    <2>3. CASE x # w
        <3>1. turn'.waiting = turn.waiting \ {x} /\ turn.waiting # {}
            BY <1>1, <1>4, <2>1, <2>3
        <3>2. Positions[s] \in catalogue \cap ItemsOf(s) /\ ComeFirst(Positions[s], turn'.waiting, w)
            BY <1>1, <3>1 DEF DueInv, WaitersComeFirst, NoCycle, ComeFirst
        <3>3. LaneOf(x) = s => ComeFirst(x, turn'.waiting, w)
            BY <1>1, <3>1, PickLeavesWaiters DEF x
        <3> QED BY <1>1, <1>2, <1>6, <2>1, <2>3, <3>2, <3>3 DEF WaitersComeFirst
    <2> QED BY <2>2, <2>3
<1>8. PassedComeFirst'
    <2> SUFFICES ASSUME turn'.passed # {} PROVE PassedComeFirst'
        BY DEF PassedComeFirst
    <2>1. cycle'.takes
        BY <1>1
    <2>2. CASE LaneOf(x) = s
        <3>1. SourcesComeFirst(s, turn'.passed, s)
            BY <1>1, <1>4, <1>6, <2>1, <2>2, OthersComeFirst
        <3> QED BY <1>1, <1>6, <2>1, <2>2, <3>1 DEF PassedComeFirst
    <2>3. CASE LaneOf(x) # s
        <3>1. turn'.passed = turn.passed \ {LaneOf(x)} /\ turn.passed # {}
            BY <1>1, <1>4, <2>1, <2>3
        <3>2. pool.cursor \in catalogue \cap Items /\ SourcesComeFirst(LaneOf(pool.cursor), turn'.passed, s)
            BY <1>1, <3>1 DEF DueInv, PassedComeFirst, NoCycle, SourcesComeFirst
        <3>3. SourcesComeFirst(LaneOf(x), turn'.passed, s)
            BY <1>1, <3>1, PickLeavesPassed DEF x
        <3> QED BY <1>1, <1>6, <2>1, <2>3, <3>2, <3>3 DEF PassedComeFirst
    <2> QED BY <2>2, <2>3
<1> QED BY <1>5, <1>7, <1>8 DEF DueInv

LEMMA StoredKeepsDue == DueInv /\ PoolTypes /\ StorePosition => DueInv'
<1> SUFFICES ASSUME DueInv, PoolTypes, StorePosition PROVE DueInv'
    OBVIOUS
<1> DEFINE x == cycle.item
           w == turn.item
           s == LaneOf(w)
<1>1. /\ cycle.step = "store" /\ cycle.takes /\ x \in Items /\ pool' = PositionStored(x) /\ cycle' = NoCycle
      /\ UNCHANGED <<catalogue, heldBack, turn>>
    BY DEF StorePosition, DueInv, TurnShape, PoolTypes, CycleFits
<1>2. LaneOf(x) \in Sources /\ x \in ItemsOf(LaneOf(x)) /\ w \in Items /\ s \in Sources
    BY <1>1, ItemsHavePlaces DEF DueInv, TurnShape
<1>3. pool'.cursor = x /\ \A q \in Sources : pool'.cursors[q] = IF q = LaneOf(x) THEN x ELSE Positions[q]
    BY <1>1, <1>2 DEF PositionStored, Positions
<1>4. Positions'[s] = IF s = LaneOf(x) THEN x ELSE Positions[s]
    <2>1. x \in ItemsOf(s) => LaneOf(x) = s
        BY <1>2, ItemsHavePlaces
    <2>2. Positions'[s] = IF x \in catalogue \cap ItemsOf(s) THEN x ELSE pool'.cursors[s]
        BY <1>1, <1>2, <1>3 DEF Positions
    <2> QED BY <1>2, <1>3, <2>1, <2>2
<1>5. TurnShape'
    BY <1>1 DEF DueInv, TurnShape, Eligible, NoCycle
<1>6. WaitersComeFirst'
    <2> SUFFICES ASSUME turn.waiting # {}
                 PROVE  Positions'[s] \in catalogue \cap ItemsOf(s) /\ ComeFirst(Positions'[s], turn.waiting, w)
        BY <1>1 DEF WaitersComeFirst, NoCycle
    <2>1. LaneOf(x) = s => x \in catalogue /\ ComeFirst(x, turn.waiting, w)
        BY <1>1 DEF DueInv, WaitersComeFirst
    <2>2. LaneOf(x) # s => Positions[s] \in catalogue \cap ItemsOf(s) /\ ComeFirst(Positions[s], turn.waiting, w)
        BY <1>1 DEF DueInv, WaitersComeFirst
    <2> QED BY <1>2, <1>4, <2>1, <2>2
<1>7. PassedComeFirst'
    <2> SUFFICES ASSUME turn.passed # {}
                 PROVE  x \in catalogue \cap Items /\ SourcesComeFirst(LaneOf(x), turn.passed, s)
        BY <1>1, <1>3 DEF PassedComeFirst, NoCycle
    <2> QED BY <1>1 DEF DueInv, PassedComeFirst
<1> QED BY <1>5, <1>6, <1>7 DEF DueInv

\* A cycle that ends before its position is stored: the source stays where it stood.
DueLost ==
    /\ UNCHANGED <<catalogue, heldBack, pool>>
    /\ cycle' = NoCycle /\ turn' = TurnAfterBreak

LEMMA LostKeeps == DueInv /\ PoolTypes /\ DueLost => DueInv'
<1> SUFFICES ASSUME DueInv, PoolTypes, DueLost PROVE DueInv'
    OBVIOUS
<1> DEFINE x == cycle.item
           w == turn.item
           s == LaneOf(w)
<1>1. UNCHANGED <<catalogue, heldBack, pool>> /\ cycle' = NoCycle /\ Eligible' = Eligible /\ Positions' = Positions
    BY DEF DueLost, Eligible, Positions
<1>2. cycle.takes => x \in Items /\ LaneOf(x) \in Sources /\ x \in ItemsOf(LaneOf(x))
    BY ItemsHavePlaces DEF DueInv, TurnShape, PoolTypes, CycleFits
<1>3. s \in Sources
    BY ItemsHavePlaces DEF DueInv, TurnShape
<1>4. x \in ItemsOf(s) => LaneOf(x) = s
    BY <1>3, ItemsHavePlaces
<1>5. /\ turn'.item = w /\ DOMAIN turn' = DOMAIN turn
      /\ turn'.waiting = IF cycle.takes /\ x = w THEN {} ELSE turn.waiting
      /\ turn'.passed = IF cycle.takes /\ x \in ItemsOf(s) THEN {} ELSE turn.passed
    BY DEF DueLost, TurnAfterBreak, TurnOfLostPosition, DueInv, TurnShape
<1>6. TurnShape'
    BY <1>1, <1>5 DEF DueInv, TurnShape, NoCycle
<1>7. WaitersComeFirst'
    <2> SUFFICES ASSUME turn'.waiting # {}
                 PROVE  Positions[s] \in catalogue \cap ItemsOf(s) /\ ComeFirst(Positions[s], turn'.waiting, w)
        BY <1>1, <1>5 DEF WaitersComeFirst, NoCycle
    <2> QED BY <1>5 DEF DueInv, WaitersComeFirst
<1>8. PassedComeFirst'
    <2> SUFFICES ASSUME turn'.passed # {}
                 PROVE  pool.cursor \in catalogue \cap Items /\ SourcesComeFirst(LaneOf(pool.cursor), turn'.passed, s)
        BY <1>1, <1>5 DEF PassedComeFirst, NoCycle
    <2> QED BY <1>2, <1>4, <1>5 DEF DueInv, PassedComeFirst
<1> QED BY <1>6, <1>7, <1>8 DEF DueInv

LEMMA VanishKeepsDue == \A x \in Items : DueInv /\ PoolTypes /\ Vanish(x) => DueInv'
<1> SUFFICES ASSUME NEW x \in Items, DueInv, PoolTypes, Vanish(x) PROVE DueInv'
    OBVIOUS
<1> DEFINE w == turn.item
           s == LaneOf(w)
<1>1. /\ catalogue' = catalogue \ {x} /\ x \in catalogue /\ UNCHANGED <<heldBack, pool, cycle>> /\ Eligible' = Eligible \ {x}
      /\ turn' = IF x \in {Positions[LaneOf(x)], cycle.item} THEN ForgetTurn(turn) ELSE StillWaiting(turn, Eligible \ {x})
    BY DEF Vanish, Eligible
<1>2. /\ turn'.item = w /\ DOMAIN turn' = DOMAIN turn
      /\ turn'.waiting \subseteq turn.waiting \cap Eligible'
      /\ turn'.passed \subseteq {q \in turn.passed : ItemsOf(q) \cap Eligible' # {}}
      /\ x \in {Positions[LaneOf(x)], cycle.item} => turn'.waiting = {} /\ turn'.passed = {}
    BY <1>1 DEF ForgetTurn, StillWaiting, DueInv, TurnShape
<1>3. TurnShape'
    BY <1>1, <1>2 DEF DueInv, TurnShape
<1>4. s \in Sources /\ LaneOf(x) \in Sources /\ x \in ItemsOf(LaneOf(x))
    BY ItemsHavePlaces DEF DueInv, TurnShape
<1>5. pool.cursor = x => Positions[LaneOf(x)] = x
    BY <1>1, <1>4 DEF Positions
<1>6. x \notin {Positions[LaneOf(x)], cycle.item} /\ Positions[s] \in catalogue \cap ItemsOf(s)
          => Positions'[s] = Positions[s] /\ Positions[s] \in catalogue'
    <2> SUFFICES ASSUME x \notin {Positions[LaneOf(x)], cycle.item}, Positions[s] \in catalogue \cap ItemsOf(s)
                 PROVE  Positions'[s] = Positions[s] /\ Positions[s] \in catalogue'
        OBVIOUS
    <2>1. pool.cursor # x
        BY <1>5
    <2>2. Positions[s] # x
        BY <1>4, ItemsHavePlaces
    <2> QED BY <1>1, <1>4, <2>1, <2>2 DEF Positions
<1>7. WaitersComeFirst'
    <2> SUFFICES ASSUME turn'.waiting # {} PROVE WaitersComeFirst'
        BY DEF WaitersComeFirst
    <2>1. turn.waiting # {} /\ x \notin {Positions[LaneOf(x)], cycle.item} /\ \A y \in turn'.waiting : y \in turn.waiting
        BY <1>2
    <2>2. \A p : ComeFirst(p, turn.waiting, w) => ComeFirst(p, turn'.waiting, w)
        BY <2>1 DEF ComeFirst
    <2> QED BY <1>1, <1>2, <1>6, <2>1, <2>2 DEF DueInv, WaitersComeFirst
<1>8. PassedComeFirst'
    <2> SUFFICES ASSUME turn'.passed # {} PROVE PassedComeFirst'
        BY DEF PassedComeFirst
    <2>1. turn.passed # {} /\ x \notin {Positions[LaneOf(x)], cycle.item} /\ \A q \in turn'.passed : q \in turn.passed
        BY <1>2
    <2>2. \A p : SourcesComeFirst(p, turn.passed, s) => SourcesComeFirst(p, turn'.passed, s)
        BY <2>1 DEF SourcesComeFirst
    <2> QED BY <1>1, <1>2, <1>5, <2>1, <2>2 DEF DueInv, PassedComeFirst
<1> QED BY <1>3, <1>7, <1>8 DEF DueInv


LEMMA StartTurns ==
    ASSUME TurnShape, cycle = NoCycle, NEW x, NEW how, NEW reason, StartItem(x, how, reason),
           UNCHANGED <<catalogue, heldBack, pool>>
    PROVE  /\ how # "turn" => DueStill
           /\ how = "turn" /\ x = RotationPick /\ Eligible # {} => DueTaken
<1> DEFINE continued == how # "turn" /\ reason = "match" /\ PointStart(x) >= 0
           t == CASE how # "turn" -> turn
                  [] how = "turn" /\ TakesPosition(x, how) -> AfterTurnOf(x)
                  [] OTHER -> ForgetTurn(AfterTurnOf(x))
<1>1. /\ cycle' = [step |-> "end", item |-> x, reason |-> reason, takes |-> TakesPosition(x, how)]
      /\ turn' = IF x = turn.item THEN [t EXCEPT !.runs = IF continued THEN @ + 1 ELSE 0] ELSE t
    BY Zenon DEF StartItem
<1>2. TakesPosition(x, how) \in BOOLEAN
    BY Zenon DEF TakesPosition
<1> DEFINE takes == TakesPosition(x, how)
<1>3. cycle'.step = "end" /\ cycle'.item = x /\ cycle'.takes = takes
    <2> HIDE DEF takes
    <2>1. cycle' = [step |-> "end", item |-> x, reason |-> reason, takes |-> takes]
        BY <1>1 DEF takes
    <2> QED BY <2>1
<1>4. cycle.takes = FALSE /\ cycle.step = "none" /\ Eligible' = Eligible
    BY DEF NoCycle, Eligible
<1> HIDE DEF continued, t
<1>5. {"item", "runs", "waiting", "passed"} \subseteq DOMAIN t =>
          /\ DOMAIN turn' = DOMAIN t /\ turn'.item = t.item
          /\ turn'.waiting = t.waiting /\ turn'.passed = t.passed
    BY <1>1
<1>6. CASE how # "turn"
    <2>1. t = turn
        BY <1>6 DEF t
    <2>2. takes = FALSE
        BY Zenon, <1>6 DEF takes, TakesPosition
    <2> HIDE DEF takes
    <2> QED BY <1>3, <1>4, <1>5, <1>6, <2>1, <2>2 DEF TurnShape, DueStill
<1>7. CASE how = "turn" /\ x = RotationPick /\ Eligible # {}
    <2>1. /\ DOMAIN AfterTurnOf(x) = DOMAIN turn /\ AfterTurnOf(x).item = turn.item
          /\ DOMAIN ForgetTurn(AfterTurnOf(x)) = DOMAIN turn /\ ForgetTurn(AfterTurnOf(x)).item = turn.item
          /\ ForgetTurn(AfterTurnOf(x)).waiting = {} /\ ForgetTurn(AfterTurnOf(x)).passed = {}
        BY DEF TurnShape, AfterTurnOf, ForgetTurn
    <2>2. takes => t = AfterTurnOf(x)
        BY Zenon, <1>7 DEF t, takes
    <2>3. ~takes => t = ForgetTurn(AfterTurnOf(x))
        BY Zenon, <1>7 DEF t, takes
    <2> HIDE DEF takes
    <2>4. DOMAIN t = DOMAIN turn /\ t.item = turn.item
        BY <2>1, <2>2, <2>3
    <2>5. DOMAIN turn' = DOMAIN turn /\ turn'.item = turn.item /\ turn'.waiting = t.waiting /\ turn'.passed = t.passed
        BY <1>5, <2>4 DEF TurnShape
    <2>6. takes => turn'.waiting = AfterTurnOf(x).waiting /\ turn'.passed = AfterTurnOf(x).passed
        BY <2>2, <2>5
    <2>7. ~takes => turn'.waiting = {} /\ turn'.passed = {}
        BY <2>1, <2>3, <2>5
    <2>8. cycle'.takes \in BOOLEAN
        BY <1>2, <1>3 DEF takes
    <2> QED BY <1>3, <1>4, <1>7, <2>5, <2>6, <2>7, <2>8 DEF TurnShape, DueTaken
<1> QED BY <1>6, <1>7

\* A step that leaves the turn but for its count, and the cycle or the kind of its write.
LEMMA QuietKeeps ==
    ASSUME TurnShape, UNCHANGED <<catalogue, pool>>, Eligible \subseteq Eligible',
           turn' = turn \/ (\E k : turn' = [turn EXCEPT !.runs = k]),
           \/ cycle' = cycle
           \/ cycle.step # "none" /\ cycle.takes /\ cycle' = [cycle EXCEPT !.step = "store"]
           \/ ~cycle.takes /\ cycle' = NoCycle
           \/ ~cycle.takes /\ \E x : cycle' = [step |-> "end", item |-> x, reason |-> "match", takes |-> FALSE]
    PROVE  PoolTypes => DueStill
<1> SUFFICES ASSUME PoolTypes PROVE DueStill
    OBVIOUS
<1>1. DOMAIN turn' = DOMAIN turn /\ turn'.item = turn.item /\ turn'.waiting = turn.waiting /\ turn'.passed = turn.passed
    BY DEF TurnShape
<1>2. turn.waiting \subseteq Eligible /\ turn.passed \subseteq {s \in Sources : ItemsOf(s) \cap Eligible # {}}
    BY DEF TurnShape
<1>3. turn.waiting \subseteq Eligible' /\ turn.passed \subseteq {s \in turn.passed : ItemsOf(s) \cap Eligible' # {}}
    BY <1>2
<1>4. /\ cycle'.takes = cycle.takes /\ (cycle.takes => cycle'.item = cycle.item /\ cycle'.step # "none")
      /\ (cycle'.step = "store" => cycle'.takes)
    <2>1. /\ {"step", "item", "reason", "takes"} \subseteq DOMAIN cycle
          /\ (cycle.takes => cycle.step # "none") /\ (cycle.step = "store" => cycle.takes) /\ cycle.takes \in BOOLEAN
        BY DEF TurnShape, PoolTypes, CycleFits
    <2>2. CASE cycle' = cycle
        BY <2>1, <2>2
    <2>3. CASE cycle.takes /\ cycle' = [cycle EXCEPT !.step = "store"]
        BY <2>1, <2>3
    <2>4. CASE ~cycle.takes /\ (cycle' = NoCycle \/ \E x : cycle' = [step |-> "end", item |-> x, reason |-> "match", takes |-> FALSE])
        <3>1. cycle'.takes = FALSE /\ cycle'.step \in {"none", "end"}
            BY <2>4 DEF NoCycle
        <3> QED BY <2>1, <2>4, <3>1
    <2> QED BY <2>2, <2>3, <2>4
<1> QED BY <1>1, <1>3, <1>4 DEF TurnShape, DueStill


LEMMA CycleStepsDue == DueInv /\ PoolTypes /\ PoolCycleStep => DueInv'
<1> SUFFICES ASSUME DueInv, PoolTypes, PoolCycleStep PROVE DueInv'
    OBVIOUS
<1>1. TurnShape /\ CursorsFit /\ CycleFits
    BY DEF DueInv, PoolTypes
<1>2. CASE StartRetry
    <2>1. cycle = NoCycle /\ StartItem(RetryPick, "retry", RetryReason) /\ UNCHANGED <<catalogue, heldBack, pool>>
        BY <1>2 DEF StartRetry, MayPick, Idle
    <2> QED BY <1>1, <2>1, StartTurns, StillKeeps
<1>3. CASE ContinueItem
    <2>1. cycle = NoCycle /\ StartItem(ContinuedPick, "continue", "match") /\ UNCHANGED <<catalogue, heldBack, pool>>
        BY <1>3 DEF ContinueItem, MayPick, Idle
    <2> QED BY <1>1, <2>1, StartTurns, StillKeeps
<1>4. CASE StartNext
    <2>1. cycle = NoCycle /\ StartItem(RotationPick, "turn", "match") /\ UNCHANGED <<catalogue, heldBack, pool>> /\ Eligible # {}
        BY <1>4 DEF StartNext, MayPick, Idle
    <2> QED BY <1>1, <2>1, StartTurns, TakenKeeps
<1>5. CASE StartCover \/ KeepOnAir
    <2>1. UNCHANGED <<catalogue, heldBack, pool, cycle, turn>>
        BY <1>5 DEF StartCover, KeepOnAir
    <2> QED BY <1>1, <2>1, QuietKeeps, StillKeeps DEF Eligible
<1>6. CASE EndCycle
    <2>1. UNCHANGED <<catalogue, heldBack, pool, turn>> /\ cycle.step = "end"
          /\ ((cycle.takes /\ cycle' = [cycle EXCEPT !.step = "store"]) \/ (~cycle.takes /\ cycle' = NoCycle))
        BY Zenon, <1>6 DEF EndCycle
    <2> QED BY <1>1, <2>1, QuietKeeps, StillKeeps DEF Eligible
<1>7. CASE PositionWriteFails
    BY <1>7, LostKeeps DEF PositionWriteFails, DueLost
<1> QED BY <1>2, <1>3, <1>4, <1>5, <1>6, <1>7, StoredKeepsDue DEF PoolCycleStep

LEMMA HeldTurnsStill ==
    ASSUME DueInv, NEW x, heldBack' = heldBack \cup {x}, turn' = StillWaiting(turn, Eligible \ {x}),
           UNCHANGED <<catalogue, pool, cycle>>
    PROVE  DueStill
<1>1. Eligible' = Eligible \ {x}
    BY DEF Eligible
<1>2. DOMAIN turn' = DOMAIN turn /\ turn'.item = turn.item /\ turn'.waiting = turn.waiting \cap Eligible'
      /\ turn'.passed = {s \in turn.passed : ItemsOf(s) \cap Eligible' # {}}
    BY <1>1 DEF DueInv, TurnShape, StillWaiting
<1> QED BY <1>1, <1>2 DEF DueInv, TurnShape, DueStill

LEMMA ExitsDue == DueInv /\ PoolTypes /\ PoolExit => DueInv'
<1> SUFFICES ASSUME DueInv, PoolTypes, PoolExit PROVE DueInv'
    OBVIOUS
<1>1. CASE Skip
    <2>1. heldBack' = heldBack \cup {run.item} /\ turn' = StillWaiting(turn, Eligible \ {run.item})
          /\ UNCHANGED <<catalogue, pool, cycle>>
        BY <1>1 DEF Skip
    <2> QED BY <2>1, HeldTurnsStill, StillKeeps
<1>2. CASE ContainerDies
    BY <1>2, LostKeeps DEF ContainerDies, DueLost
<1>3. CASE ~Skip /\ ~ContainerDies
    <2>1. UNCHANGED <<catalogue, heldBack, pool, cycle, turn>>
        BY <1>3 DEF PoolExit, EndsByItself, Fails, DoesNotOpen, LeaveAir, TakeSlate, LeaveSlate, TakeAir
    <2> QED BY <2>1, QuietKeeps, StillKeeps DEF Eligible, DueInv
<1> QED BY <1>1, <1>2, <1>3

LEMMA OthersDue == DueInv /\ PoolTypes /\ PoolOther => DueInv'
<1> SUFFICES ASSUME DueInv, PoolTypes, PoolOther PROVE DueInv'
    OBVIOUS
<1>1. TurnShape
    BY DEF DueInv
<1>2. CASE RunsOn
    <2> DEFINE x == RotationPick
    <2>1. /\ cycle = NoCycle /\ UNCHANGED <<catalogue, heldBack, pool>> /\ Eligible # {} /\ airRow.reason = "operator"
          /\ cycle' = [step |-> "end", item |-> x, reason |-> "match", takes |-> TakesPosition(x, "turn")]
          /\ turn' = AfterTurnOf(x)
        BY <1>2 DEF RunsOn, Idle
    <2>2. TakesPosition(x, "turn") = TRUE
        BY Zenon, <2>1 DEF TakesPosition
    <2>3. cycle'.item = x /\ cycle'.step = "end" /\ cycle'.takes = TRUE
        BY <2>1, <2>2
    <2>4. DOMAIN turn' = DOMAIN turn /\ turn'.item = turn.item
        BY <2>1, <1>1 DEF TurnShape, AfterTurnOf
    <2>5. DueTaken
        BY <1>1, <2>1, <2>3, <2>4 DEF TurnShape, DueTaken
    <2> QED BY <2>5, TakenKeeps DEF PoolTypes
<1>3. CASE Restart
    <2>1. cycle = NoCycle /\ UNCHANGED <<catalogue, heldBack, pool>>
          /\ cycle' = [step |-> "end", item |-> run.item, reason |-> "match", takes |-> FALSE]
          /\ (turn' = turn \/ turn' = [turn EXCEPT !.runs = 0])
        BY <1>3 DEF Restart, Idle
    <2>2. ~cycle.takes
        BY <2>1 DEF NoCycle
    <2> QED BY <1>1, <2>1, <2>2, QuietKeeps, StillKeeps DEF Eligible
<1>4. ASSUME NEW x \in Items, HoldBack(x) PROVE DueInv'
    <2>1. heldBack' = heldBack \cup {x} /\ turn' = StillWaiting(turn, Eligible \ {x})
          /\ UNCHANGED <<catalogue, pool, cycle>>
        BY <1>4 DEF HoldBack
    <2> QED BY <2>1, HeldTurnsStill, StillKeeps
<1>5. ASSUME NEW x \in Items, Release(x) PROVE DueInv'
    <2>1. UNCHANGED <<catalogue, pool, cycle, turn>> /\ heldBack' = heldBack \ {x}
        BY <1>5 DEF Release
    <2> QED BY <1>1, <2>1, QuietKeeps, StillKeeps DEF Eligible
<1>6. CASE Air \/ RetryExpires \/ PointExpires \/ UNCHANGED poolVars
    <2>1. UNCHANGED <<catalogue, heldBack, pool, cycle>> /\ (turn' = turn \/ turn' = [turn EXCEPT !.runs = 0])
        BY <1>6 DEF Air, RetryExpires, PointExpires, poolVars
    <2> QED BY <1>1, <2>1, QuietKeeps, StillKeeps DEF Eligible
<1> QED BY <1>2, <1>3, <1>4, <1>5, <1>6, VanishKeepsDue DEF PoolOther

LEMMA DueSteps == DueInv /\ PoolTypes /\ [PoolNext]_poolVars => DueInv'
BY Zenon, CycleStepsDue, ExitsDue, OthersDue DEF PoolNext, PoolCycleStep, PoolExit, PoolOther


PicksReasons == {"match", "manual", "operator"}

\* The row names an item only with a pick's or an operator's reason, a cycle still to end included;
\* and a retry is owed with the row's failed exit of its item, which a cycle that ends late keeps.
OwedInv ==
    /\ {"item", "reason", "failed"} \subseteq DOMAIN airRow
    /\ airRow.item \in Items => airRow.reason \in PicksReasons
    /\ retry.step \in {"bridged", "covered"} => retry.reason \in PicksReasons
    /\ cycle.step = "end" => cycle.reason \in PicksReasons /\ run.item \in {None, cycle.item}
    /\ run.item = Slate => airRow.item = None
    /\ /\ retry.step = "owed" /\ run.item = None /\ retry.item \in Items
       /\ airRow.item = retry.item \/ (cycle.step = "end" /\ cycle.item = retry.item)
       => airRow.failed = TRUE

LEMMA OwedStarts == PoolInit => OwedInv
BY PoolConstants DEF PoolInit, OwedInv, NoRetry, NoCycle, OffAir, None

LEMMA RetryReasons ==
    ASSUME OwedInv, RetryPick # None
    PROVE  RetryReason \in PicksReasons
BY DEF OwedInv, RetryPick, RetryReason, PicksReasons

LEMMA PoolItemStarted ==
    ASSUME NEW x, NEW how, NEW reason, StartItem(x, how, reason)
    PROVE  /\ run'.item = x /\ (run'.turn => how = "turn")
           /\ airRow' = [item |-> x, reason |-> reason, failed |-> FALSE]
           /\ cycle'.item = x /\ cycle'.reason = reason
<1> DEFINE continued == how # "turn" /\ reason = "match" /\ PointStart(x) >= 0
           ofTurn == how = "turn"
<1>1. PICK seekable \in BOOLEAN :
          /\ run' = [item |-> x, kept |-> seekable /\ reason = "match", turn |-> how = "turn",
                     resumed |-> continued /\ seekable,
                     from |-> IF continued /\ seekable THEN PointStart(x) ELSE 0, aired |-> 0]
          /\ airRow' = [item |-> x, reason |-> reason, failed |-> FALSE]
          /\ cycle' = [step |-> "end", item |-> x, reason |-> reason, takes |-> TakesPosition(x, how)]
    BY DEF StartItem
<1> HIDE DEF continued
<1>2. run'.item = x /\ cycle'.item = x /\ cycle'.reason = reason
    BY <1>1
<1>3. run'.turn = ofTurn
    <2>1. \E kept, resumed, from : run' = [item |-> x, kept |-> kept, turn |-> ofTurn, resumed |-> resumed,
                                          from |-> from, aired |-> 0]
        BY <1>1
    <2> HIDE DEF ofTurn
    <2> QED BY <2>1
<1> QED BY <1>1, <1>2, <1>3

LEMMA RetriesOwe ==
    ASSUME OwedInv, RetryFits,
           \/ retry' \in {NoRetry, retry} \/ (\E failure \in BOOLEAN : retry' = RetryAfterExit(failure))
           \/ RetryPick # None /\ \E phase : retry' = Retry(phase),
           retry'.step \in {"bridged", "covered"}
    PROVE  retry'.reason \in PicksReasons
<1>1. CASE retry' = retry
    BY <1>1 DEF OwedInv
<1>2. CASE retry' = NoRetry
    BY <1>2 DEF NoRetry
<1>3. ASSUME NEW failure \in BOOLEAN, retry' = RetryAfterExit(failure) PROVE retry' = retry
    BY <1>3 DEF RetryAfterExit, RetryFits, NoRetry
<1>4. ASSUME RetryPick # None, NEW phase, retry' = Retry(phase) PROVE retry'.reason \in PicksReasons
    <2>1. RetryReason \in PicksReasons
        BY <1>4, RetryReasons
    <2>2. retry'.reason = RetryReason
        BY <1>4 DEF Retry, RetryFits
    <2> QED BY <2>1, <2>2
<1> QED BY <1>1, <1>2, <1>3, <1>4

LEMMA StartsOwe ==
    ASSUME OwedInv, PoolTypes, NEW x \in Items, NEW how, NEW reason \in PicksReasons, StartItem(x, how, reason),
           retry'.step \notin {"bridged", "covered"} \/ retry' = retry
    PROVE  OwedInv'
<1>1. run'.item = x /\ airRow' = [item |-> x, reason |-> reason, failed |-> FALSE]
      /\ cycle'.item = x /\ cycle'.reason = reason
    BY PoolItemStarted
<1>2. run'.item = x /\ cycle'.item = x /\ cycle'.reason = reason /\ airRow'.item = x /\ airRow'.reason = reason
      /\ {"item", "reason", "failed"} \subseteq DOMAIN airRow'
    BY <1>1
<1>3. x # None /\ x # Slate
    BY PoolConstants
<1>4. retry'.step \in {"bridged", "covered"} => retry'.reason \in PicksReasons
    BY DEF OwedInv
<1> QED BY <1>2, <1>3, <1>4 DEF OwedInv

LEMMA CycleStepsOwe == OwedInv /\ PoolTypes /\ PoolCycleStep => OwedInv'
<1> SUFFICES ASSUME OwedInv, PoolTypes, PoolCycleStep PROVE OwedInv'
    OBVIOUS
<1>1. RetryFits /\ CycleFits /\ CursorsFit
    BY DEF PoolTypes
<1>2. CASE StartRetry
    <2>1. RetryPick # None /\ RetryPick \in Items /\ StartItem(RetryPick, "retry", RetryReason) /\ retry' = Retry("retried")
        BY <1>2, PicksAreItems DEF StartRetry
    <2>2. retry'.step = "retried" /\ RetryReason \in PicksReasons
        BY <1>1, <2>1, RetryReasons DEF Retry, RetryFits
    <2> QED BY <2>1, <2>2, StartsOwe
<1>3. CASE ContinueItem
    <2>1. ContinuedPick \in Items /\ StartItem(ContinuedPick, "continue", "match") /\ retry' \in {NoRetry, retry}
        BY <1>3, PicksAreItems DEF ContinueItem
    <2> QED BY <2>1, StartsOwe DEF NoRetry, PicksReasons
<1>4. CASE StartNext
    <2>1. RotationPick \in Items /\ StartItem(RotationPick, "turn", "match") /\ retry' \in {NoRetry, retry}
        BY <1>1, <1>4, RotationPicksItem DEF StartNext
    <2> QED BY <2>1, StartsOwe DEF NoRetry, PicksReasons
<1>5. CASE StartCover
    <2>1. /\ run' = [OffAir EXCEPT !.item = Cover] /\ airRow' = [item |-> Cover, reason |-> "fallback", failed |-> FALSE]
          /\ retry' \in {NoRetry, retry} \/ (retry' = Retry("bridged") /\ RetryPick # None)
          /\ cycle' = cycle /\ cycle = NoCycle
        BY <1>5 DEF StartCover, Idle
    <2>2. run'.item = Cover /\ airRow'.item = Cover /\ {"item", "reason", "failed"} \subseteq DOMAIN airRow'
          /\ cycle'.step = "none"
        BY <2>1 DEF OffAir, NoCycle
    <2>3. retry'.step \in {"bridged", "covered"} => retry'.reason \in PicksReasons
        BY <1>1, <2>1, RetriesOwe
    <2>4. Cover \notin Items /\ Cover # None /\ Cover # Slate
        BY PoolConstants DEF Cover, None, Slate
    <2> QED BY <2>2, <2>3, <2>4 DEF OwedInv
<1>6. CASE EndCycle
    <2>1. /\ cycle.step = "end" /\ cycle.item \in Items /\ UNCHANGED <<run, retry>>
          /\ airRow' = [item |-> cycle.item, reason |-> cycle.reason, failed |-> airRow.failed]
          /\ cycle' = NoCycle \/ cycle' = [cycle EXCEPT !.step = "store"]
        BY <1>1, <1>6 DEF EndCycle, FailedAtCycleEnd, CycleFits
    <2>2. cycle'.step # "end"
        BY <1>1, <2>1 DEF NoCycle, CycleFits
    <2>3. airRow'.item = cycle.item /\ airRow'.reason = cycle.reason /\ airRow'.failed = airRow.failed
          /\ {"item", "reason", "failed"} \subseteq DOMAIN airRow'
        BY <2>1
    <2>4. run.item # Slate
        BY <2>1, PoolConstants DEF OwedInv
    <2> QED BY <2>1, <2>2, <2>3, <2>4 DEF OwedInv
<1>7. CASE StorePosition \/ PositionWriteFails \/ KeepOnAir
    <2>1. UNCHANGED <<airRow, run, retry>> /\ cycle' \in {cycle, NoCycle}
        BY <1>7 DEF StorePosition, PositionWriteFails, KeepOnAir
    <2> QED BY <2>1 DEF OwedInv, NoCycle
<1> QED BY <1>2, <1>3, <1>4, <1>5, <1>6, <1>7 DEF PoolCycleStep

LEMMA ExitsOwe == OwedInv /\ PoolTypes /\ PoolExit => OwedInv'
<1> SUFFICES ASSUME OwedInv, PoolTypes, PoolExit PROVE OwedInv'
    OBVIOUS
<1>1. RetryFits /\ CycleFits /\ CursorsFit /\ RunFits
    BY DEF PoolTypes
<1>2. \A failure \in BOOLEAN : retry' = RetryAfterExit(failure) =>
          /\ retry'.step \notin {"bridged", "covered"} \/ retry' = retry
          /\ retry'.step = "owed" => retry'.item = run.item \/ (retry' = retry /\ retry.item # run.item)
          /\ retry'.step = "owed" /\ ~failure => retry' = retry /\ retry.item # run.item
    BY <1>1 DEF RetryAfterExit, RetryFits, NoRetry
<1>3. \A failed \in BOOLEAN : airRow' = ExitRow(failed) =>
          /\ {"item", "reason", "failed"} \subseteq DOMAIN airRow' /\ airRow'.reason = airRow.reason
          /\ failed => airRow'.failed = TRUE /\ airRow'.item = airRow.item
          /\ ~failed => airRow'.item = None
    BY DEF ExitRow, OwedInv
<1>4. None \notin Items /\ None # Slate /\ Slate \notin Items /\ Other \notin Items /\ Other # None /\ Other # Slate
    BY PoolConstants DEF None, Slate, Other
<1>5. CASE EndsByItself
    <2>1. run.item \in Items /\ run' = OffAir /\ airRow' = ExitRow(FALSE) /\ retry' = RetryAfterExit(FALSE) /\ cycle' = cycle
        BY <1>5 DEF EndsByItself
    <2>2. run'.item = None
        BY <2>1 DEF OffAir
    <2> QED BY <1>2, <1>3, <1>4, <2>1, <2>2 DEF OwedInv
<1>6. CASE Fails \/ DoesNotOpen
    <2>1. run.item \in Items /\ run' = OffAir /\ airRow' = ExitRow(TRUE) /\ cycle' = cycle
          /\ \E failure \in BOOLEAN : retry' = RetryAfterExit(failure)
        BY <1>6 DEF Fails, DoesNotOpen
    <2>2. run'.item = None
        BY <2>1 DEF OffAir
    <2>3. retry'.step \notin {"bridged", "covered"} \/ retry' = retry
        BY <1>2, <2>1
    <2>4. {"item", "reason", "failed"} \subseteq DOMAIN airRow' /\ airRow'.reason = airRow.reason
          /\ airRow'.failed = TRUE /\ airRow'.item = airRow.item
        BY <1>3, <2>1
    <2> QED BY <1>4, <2>1, <2>2, <2>3, <2>4 DEF OwedInv
<1>7. CASE LeaveAir \/ Skip
    <2>1. run' = OffAir /\ airRow' = ExitRow(FALSE) /\ retry' = RetryAfterExit(FALSE) /\ cycle' = cycle /\ cycle = NoCycle
        BY <1>7 DEF LeaveAir, Skip, Idle
    <2>2. run'.item = None /\ cycle'.step = "none"
        BY <2>1 DEF OffAir, NoCycle
    <2> QED BY <1>2, <1>3, <1>4, <2>1, <2>2 DEF OwedInv
<1>8. CASE TakeSlate
    <2>1. /\ run' = [OffAir EXCEPT !.item = Slate] /\ airRow' = [item |-> None, reason |-> "slate", failed |-> FALSE]
          /\ \/ retry' \in {NoRetry, retry} \/ retry' = RetryAfterExit(FALSE)
             \/ (retry' = Retry("covered") /\ RetryPick # None)
          /\ cycle' = cycle /\ cycle = NoCycle
        BY <1>8 DEF TakeSlate, Idle
    <2>2. run'.item = Slate /\ airRow'.item = None /\ {"item", "reason", "failed"} \subseteq DOMAIN airRow'
          /\ cycle'.step = "none"
        BY <2>1 DEF OffAir, NoCycle
    <2>3. retry'.step \in {"bridged", "covered"} => retry'.reason \in PicksReasons
        BY <1>1, <2>1, RetriesOwe
    <2> QED BY <1>4, <2>2, <2>3 DEF OwedInv
<1>9. CASE LeaveSlate
    <2>1. run.item = Slate /\ run' = OffAir /\ UNCHANGED <<airRow, retry, cycle>> /\ airRow.item = None
        BY <1>9 DEF LeaveSlate, OwedInv
    <2>2. cycle.step # "end"
        BY <1>1, <1>4, <2>1 DEF OwedInv, CycleFits
    <2> QED BY <1>4, <2>1, <2>2 DEF OwedInv, OffAir
<1>10. CASE ContainerDies
    <2>1. run' = OffAir /\ retry' = NoRetry /\ cycle' = NoCycle /\ airRow' = airRow
        BY <1>10 DEF ContainerDies
    <2> QED BY <1>4, <2>1 DEF OwedInv, OffAir, NoRetry, NoCycle
<1>11. ASSUME NEW x \in Items \cup {Other}, NEW reason, TakeAir(x, reason),
              x \in Items => reason \in PicksReasons PROVE OwedInv'
    <2>1. /\ run' = [OffAir EXCEPT !.item = x] /\ airRow' = [item |-> x, reason |-> reason, failed |-> FALSE]
          /\ retry' \in {NoRetry, retry} \/ retry' = RetryAfterExit(FALSE)
          /\ cycle' = cycle /\ cycle = NoCycle
        BY <1>11 DEF TakeAir, Idle
    <2>2. run'.item = x /\ airRow'.item = x /\ airRow'.reason = reason
          /\ {"item", "reason", "failed"} \subseteq DOMAIN airRow' /\ cycle'.step = "none"
        BY <2>1 DEF OffAir, NoCycle
    <2>3. retry'.step \in {"bridged", "covered"} => retry'.reason \in PicksReasons
        BY <1>1, <2>1, RetriesOwe
    <2>4. x # None /\ x # Slate
        BY <1>4
    <2> QED BY <1>4, <1>11, <2>2, <2>3, <2>4 DEF OwedInv
<1>12. (\E x \in Items, reason \in {"operator", "manual"} : TakeAir(x, reason)) \/ TakeAir(Other, "other") => OwedInv'
    BY <1>4, <1>11 DEF PicksReasons
<1> QED BY <1>5, <1>6, <1>7, <1>8, <1>9, <1>10, <1>12 DEF PoolExit

LEMMA OthersOwe == OwedInv /\ PoolTypes /\ PoolOther => OwedInv'
<1> SUFFICES ASSUME OwedInv, PoolTypes, PoolOther PROVE OwedInv'
    OBVIOUS
<1>1. RetryFits /\ CycleFits /\ CursorsFit /\ RunFits
    BY DEF PoolTypes
<1>2. None \notin Items /\ None # Slate /\ Slate \notin Items
    BY PoolConstants DEF None, Slate
<1>3. CASE RunsOn
    <2>1. /\ run.item \in Items /\ run' = [run EXCEPT !.turn = TRUE] /\ airRow' = [airRow EXCEPT !.reason = "match"]
          /\ \E takes : cycle' = [step |-> "end", item |-> run.item, reason |-> "match", takes |-> takes]
          /\ retry' = retry
        BY <1>1, <1>3 DEF RunsOn, CursorsFit, Eligible
    <2>2. run'.item = run.item /\ airRow'.reason = "match" /\ DOMAIN airRow' = DOMAIN airRow
          /\ cycle'.item = run.item /\ cycle'.reason = "match"
        BY <1>1, <2>1 DEF RunFits, OwedInv
    <2> QED BY <1>2, <2>1, <2>2 DEF OwedInv, PicksReasons
<1>4. CASE Restart
    <2>1. /\ run.item \in Items /\ run'.item = run.item /\ airRow' = airRow /\ retry' = RetryAfterExit(FALSE)
          /\ cycle' = [step |-> "end", item |-> run.item, reason |-> "match", takes |-> FALSE]
        BY <1>1, <1>4 DEF Restart, RunFits
    <2>2. cycle'.item = run.item /\ cycle'.reason = "match"
        BY <2>1
    <2>3. retry'.step \notin {"bridged", "covered"} \/ retry' = retry
        BY <1>1, <2>1 DEF RetryAfterExit, RetryFits, NoRetry
    <2> QED BY <1>2, <2>1, <2>2, <2>3 DEF OwedInv, PicksReasons
<1>5. CASE Air
    <2>1. run'.item = run.item /\ UNCHANGED <<airRow, retry, cycle>>
        BY <1>1, <1>5 DEF Air, RunFits
    <2> QED BY <2>1 DEF OwedInv
<1>6. CASE RetryExpires
    <2>1. retry' = NoRetry /\ UNCHANGED <<airRow, run, cycle>>
        BY <1>6 DEF RetryExpires
    <2> QED BY <2>1 DEF OwedInv, NoRetry
<1>7. CASE (\E x \in Items : HoldBack(x) \/ Release(x) \/ Vanish(x)) \/ PointExpires \/ UNCHANGED poolVars
    <2>1. UNCHANGED <<airRow, run, retry, cycle>>
        BY <1>7 DEF HoldBack, Release, Vanish, PointExpires, poolVars
    <2> QED BY <2>1 DEF OwedInv
<1> QED BY <1>3, <1>4, <1>5, <1>6, <1>7 DEF PoolOther

LEMMA OwedSteps == OwedInv /\ PoolTypes /\ [PoolNext]_poolVars => OwedInv'
BY Zenon, CycleStepsOwe, ExitsOwe, OthersOwe DEF PoolNext, PoolCycleStep, PoolExit, PoolOther

\* Only the pool's pick takes a turn.
LEMMA OnlyPicksTurn ==
    ASSUME PoolTypes, [PoolNext]_poolVars, ~run.turn, run'.turn
    PROVE  /\ cycle = NoCycle /\ Eligible # {} /\ run'.item = RotationPick
           /\ run.item = None => RetryPick = None
<1>1. RunFits /\ CursorsFit
    BY DEF PoolTypes
<1>2. CASE StartRetry \/ ContinueItem
    <2>1. \E how \in {"retry", "continue"} : \E x, reason : StartItem(x, how, reason)
        BY <1>2 DEF StartRetry, ContinueItem
    <2> QED BY <2>1, PoolItemStarted
<1>3. CASE StartNext
    <2>1. cycle = NoCycle /\ Eligible # {} /\ RetryPick = None /\ StartItem(RotationPick, "turn", "match")
        BY <1>3 DEF StartNext, MayPick, Idle
    <2>2. run'.item = RotationPick
        BY <2>1, PoolItemStarted
    <2> QED BY <2>1, <2>2
<1>4. CASE RunsOn
    <2>1. cycle = NoCycle /\ run.item \in Eligible /\ run.item = RotationPick /\ run' = [run EXCEPT !.turn = TRUE]
        BY <1>4 DEF RunsOn, Idle
    <2>2. run'.item = run.item /\ run.item \in Items
        BY <1>1, <2>1 DEF RunFits, CursorsFit, Eligible
    <2>3. run.item # None
        BY <2>2, PoolConstants
    <2> QED BY <2>1, <2>2, <2>3
<1>5. ASSUME ~StartRetry, ~ContinueItem, ~StartNext, ~RunsOn PROVE FALSE
    <2>1. CASE run'.turn = run.turn
        BY <2>1
    <2>2. CASE run' = OffAir \/ \E x : run' = [OffAir EXCEPT !.item = x]
        <3>1. run'.turn = FALSE
            BY <2>2 DEF OffAir
        <3> QED BY <3>1
    <2>3. CASE Air \/ Restart
        <3>1. run'.turn = run.turn
            BY <1>1, <2>3 DEF Air, Restart, RunFits
        <3> QED BY <3>1
    <2>4. CASE PoolCycleStep
        <3>1. run' = run \/ run' = [OffAir EXCEPT !.item = Cover]
            BY <1>5, <2>4 DEF PoolCycleStep, StartCover, EndCycle, StorePosition, PositionWriteFails, KeepOnAir
        <3> QED BY <2>1, <2>2, <3>1
    <2>5. CASE PoolExit
        <3>1. run' = OffAir \/ \E x : run' = [OffAir EXCEPT !.item = x]
            BY <2>5 DEF PoolExit, EndsByItself, Fails, DoesNotOpen, LeaveAir, TakeSlate, LeaveSlate, Skip, ContainerDies, TakeAir
        <3> QED BY <2>2, <3>1
    <2>6. CASE PoolOther
        <3>1. run' = run \/ Air \/ Restart
            BY <1>5, <2>6 DEF PoolOther, HoldBack, Release, Vanish, RetryExpires, PointExpires, poolVars
        <3> QED BY <2>1, <2>3, <3>1
    <2> QED BY Zenon, <2>4, <2>5, <2>6 DEF PoolNext, PoolCycleStep, PoolExit, PoolOther
<1> QED BY <1>2, <1>3, <1>4, <1>5

\* The rotation gives no item a second turn while another of its source, and no source one while
\* another source, has waited since the first (createPoolRotation, updatePoolCursor), and none to
\* anything while a retry is owed to what the row names (decideInputOpenRetry): for every pool
\* whose items are each listed once, and for any number of cuts, holds and ends of the container.
THEOREM EveryTurnIsDue == PoolSpec => TurnsAreDue
<1> DEFINE I == PoolTypes /\ DueInv /\ OwedInv
           Due == ~run.turn /\ run'.turn =>
                      /\ run'.item = turn.item => turn.waiting = {}
                      /\ LaneOf(run'.item) = LaneOf(turn.item) => turn.passed = {}
                      /\ run.item = None /\ retry.step = "owed" =>
                             \/ retry.item \notin Eligible
                             \/ airRow.item # retry.item \/ airRow.reason = "operator"
<1>1. PoolInit => I
    BY PoolStarts, DueStarts, OwedStarts
<1>2. I /\ [PoolNext]_poolVars => I'
    BY PoolStepTypes, DueSteps, OwedSteps
<1>3. I /\ [PoolNext]_poolVars => [Due]_poolVars
    <2> SUFFICES ASSUME I, [PoolNext]_poolVars, ~run.turn, run'.turn
                 PROVE  /\ run'.item = turn.item => turn.waiting = {}
                        /\ LaneOf(run'.item) = LaneOf(turn.item) => turn.passed = {}
                        /\ run.item = None /\ retry.step = "owed" =>
                               \/ retry.item \notin Eligible
                               \/ airRow.item # retry.item \/ airRow.reason = "operator"
        BY Zenon
    <2>1. /\ cycle = NoCycle /\ Eligible # {} /\ run'.item = RotationPick
          /\ run.item = None => RetryPick = None
        BY OnlyPicksTurn
    <2>2. CursorsFit /\ DueInv /\ OwedInv
        BY DEF PoolTypes
    <2>3. LaneOf(run'.item) = LaneOf(turn.item) => turn.passed = {}
        BY <2>1, <2>2, PickLeavesPassed
    <2>4. run'.item = turn.item => turn.waiting = {}
        BY <2>1, <2>2, PickLeavesWaiters
    <2>5. ASSUME run.item = None, retry.step = "owed", retry.item \in Eligible, airRow.item = retry.item PROVE airRow.reason = "operator"
        <3>1. retry.item \in Items /\ RetryPick = None /\ None \notin Items
            BY <2>1, <2>2, <2>5, PoolConstants DEF CursorsFit, Eligible
        <3>2. airRow.failed = TRUE /\ airRow.reason \in PicksReasons
            BY <2>2, <2>5, <3>1 DEF OwedInv
        <3> QED BY <2>5, <3>1, <3>2 DEF RetryPick, PicksReasons
    <2> QED BY <2>3, <2>4, <2>5
<1> QED BY <1>1, <1>2, <1>3, PTL DEF PoolSpec, TurnsAreDue

---------------------------------------------------------------------------
(* The as-run log: the inductive invariant                                *)

\* Runs are started in the order of their numbers.
InTurn == \A q, r \in RunIds : q < r /\ child[r] # "none" => child[q] # "none"

IsStart(i) == chain[i].kind = "start"

\* The queue is in the order of its times, and its starts in the order of their runs.
ChainInv ==
    /\ \A i \in 1..Len(chain) :
          /\ chain[i].at <= now
          /\ IsStart(i) => chain[i].id \in RunIds /\ child[chain[i].id] # "none"
    /\ \A i, j \in 1..Len(chain) : i < j =>
          /\ chain[i].at <= chain[j].at
          /\ IsStart(i) /\ IsStart(j) => chain[i].id < chain[j].id

\* What a row says lies before every write that is still queued: its run began, it began and
\* ended in time, and every start in the queue is of a later run.
RowBehind(r) ==
    /\ child[r] # "none" /\ asRows[r].at <= now /\ asRows[r].end <= now
    /\ \A i \in 1..Len(chain) :
          /\ asRows[r].at <= chain[i].at /\ asRows[r].end <= chain[i].at
          /\ IsStart(i) => r < chain[i].id

RowsBehind == \A r \in DOMAIN asRows : RowBehind(r)

LogInv == InTurn /\ ChainInv /\ RowsBehind /\ RunsDoNotOverlap

AsRunInv == AsTypeOK /\ LogInv

---------------------------------------------------------------------------
(* The as-run log: the queue of writes                                    *)

LEMMA WriteFields ==
    ASSUME NEW w \in Writes
    PROVE  /\ w.at \in 0..MaxNow /\ w.id \in 0..MaxRuns /\ w.why \in EndReasons \cup {"none"}
           /\ w.kind \in {"boot", "start", "end"}
BY DEF Writes

LEMMA LogRowFields ==
    ASSUME NEW r \in Rows
    PROVE  r.at \in 0..MaxNow /\ r.end \in 0..MaxNow \cup {NotYet} /\ r.why \in EndReasons \cup {"none"}
BY DEF Rows

\* The oldest write leaves the queue.
LEMMA TailFacts ==
    ASSUME NEW s \in Seq(Writes), s # <<>>
    PROVE  /\ Tail(s) \in Seq(Writes) /\ Len(Tail(s)) = Len(s) - 1 /\ Len(s) \in Nat
           /\ Head(s) = s[1] /\ 1 \in 1..Len(s) /\ Head(s) \in Writes
           /\ \A i \in 1..Len(Tail(s)) : i + 1 \in 1..Len(s) /\ Tail(s)[i] = s[i + 1]
OBVIOUS

\* A write joins the queue.
LEMMA AppendFacts ==
    ASSUME NEW s \in Seq(Writes), NEW w \in Writes
    PROVE  /\ Append(s, w) \in Seq(Writes) /\ Len(Append(s, w)) = Len(s) + 1 /\ Len(s) \in Nat
           /\ \A i \in 1..Len(s) : Append(s, w)[i] = s[i]
           /\ Append(s, w)[Len(s) + 1] = w
OBVIOUS

---------------------------------------------------------------------------
(* What a write does to rows that lie before it                           *)

\* The rows of runs that are all earlier than the write.
Behind(rows, w) ==
    \A r \in DOMAIN rows :
        /\ rows[r].at <= w.at /\ rows[r].end <= w.at
        /\ w.kind = "start" => r < w.id

RowsApart(rows) ==
    \A a, b \in DOMAIN rows : a < b => rows[a].end # NotYet /\ rows[a].end <= rows[b].at

TableOK(rows) == DOMAIN rows \subseteq RunIds /\ \A r \in DOMAIN rows : rows[r] \in Rows

\* Open rows are closed at the time of the write, and never before their own start.
LEMMA CloseFacts ==
    ASSUME NEW rows, TableOK(rows), NEW at \in 0..MaxNow,
           \A r \in DOMAIN rows : rows[r].at <= at /\ rows[r].end <= at
    PROVE  LET closed == CloseOpenAsRunRows(rows, at)
           IN  /\ DOMAIN closed = DOMAIN rows
               /\ \A r \in DOMAIN rows :
                     /\ closed[r] \in Rows /\ closed[r].at = rows[r].at
                     /\ closed[r].end # NotYet
                     /\ closed[r].end = IF rows[r].end = NotYet THEN at ELSE rows[r].end
<1> DEFINE closed == CloseOpenAsRunRows(rows, at)
<1>1. DOMAIN closed = DOMAIN rows
  BY DEF CloseOpenAsRunRows
<1>2. ASSUME NEW r \in DOMAIN rows
      PROVE  /\ closed[r] \in Rows /\ closed[r].at = rows[r].at
             /\ closed[r].end # NotYet
             /\ closed[r].end = IF rows[r].end = NotYet THEN at ELSE rows[r].end
  <2>1. rows[r] \in Rows /\ rows[r].at \in 0..MaxNow /\ rows[r].at <= at
    BY LogRowFields DEF TableOK
  <2>2. CASE rows[r].end # NotYet
    BY <2>1, <2>2 DEF CloseOpenAsRunRows
  <2>3. CASE rows[r].end = NotYet
    <3>1. closed[r] = [rows[r] EXCEPT !.end = LatestOf(rows[r].at, at), !.why = "process-gone"]
      BY <2>3 DEF CloseOpenAsRunRows
    <3>2. LatestOf(rows[r].at, at) = at
      BY <2>1 DEF LatestOf
    <3>3. at # NotYet
      BY DEF NotYet
    <3> QED BY <2>1, <2>3, <3>1, <3>2, <3>3 DEF Rows, EndReasons
  <2> QED BY <2>2, <2>3
<1> HIDE DEF closed
<1> QED BY <1>1, <1>2 DEF closed

\* Whatever the write is, rows stay apart, and none says anything of a later time.
LEMMA WriteKeepsApart ==
    ASSUME NEW rows, TableOK(rows), RowsApart(rows),
           NEW w \in Writes, Behind(rows, w), w.kind = "start" => w.id \in RunIds
    PROVE  LET made == AfterWrite(rows, w)
           IN  /\ TableOK(made) /\ RowsApart(made)
               /\ \A r \in DOMAIN made : made[r].at <= w.at /\ made[r].end <= w.at
               /\ \A r \in DOMAIN made : r \in DOMAIN rows \/ (w.kind = "start" /\ r = w.id)
<1> DEFINE closed == CloseOpenAsRunRows(rows, w.at)
<1>0. /\ w.at \in 0..MaxNow /\ w.why \in EndReasons \cup {"none"} /\ w.kind \in {"boot", "start", "end"}
      /\ NotYet = -1 /\ w.at \in Int /\ w.at # NotYet /\ NotYet <= w.at
  BY WriteFields, AsRunAssumption DEF NotYet
<1>1. /\ DOMAIN closed = DOMAIN rows
      /\ \A r \in DOMAIN rows :
            /\ closed[r] \in Rows /\ closed[r].at = rows[r].at
            /\ closed[r].end # NotYet
            /\ closed[r].end = IF rows[r].end = NotYet THEN w.at ELSE rows[r].end
  <2>1. \A r \in DOMAIN rows : rows[r].at <= w.at /\ rows[r].end <= w.at
    BY DEF Behind
  <2> QED BY <1>0, <2>1, CloseFacts
<1>2. \A r \in DOMAIN rows : /\ rows[r].at \in Int /\ rows[r].end \in Int /\ r \in RunIds
                             /\ rows[r] \in Rows
  <2>1. \A r \in DOMAIN rows : r \in RunIds /\ rows[r] \in Rows
    BY DEF TableOK
  <2>2. \A r \in DOMAIN rows : rows[r].at \in 0..MaxNow /\ rows[r].end \in 0..MaxNow \cup {NotYet}
    BY <2>1, LogRowFields
  <2> QED BY <1>0, <2>1, <2>2
<1>3. \A r \in DOMAIN rows : closed[r].end <= w.at
  BY <1>0, <1>1 DEF Behind
<1> HIDE DEF closed
<1>4. CASE w.kind = "boot"
  <2>1. AfterWrite(rows, w) = closed
    BY <1>4 DEF AfterWrite, closed
  <2>2. RowsApart(closed)
    BY <1>1 DEF RowsApart
  <2> QED BY <1>1, <1>2, <1>3, <2>1, <2>2 DEF TableOK, Behind
<1>5. CASE w.kind = "start"
  <2> DEFINE made == RecordAsRunStart(rows, w)
             new == [at |-> w.at, end |-> NotYet, why |-> "none"]
             kept == {r \in DOMAIN rows : rows[r].at >= w.at - Retention}
  <2>1. AfterWrite(rows, w) = made
    BY <1>5 DEF AfterWrite
  <2>2. made = [r \in kept \cup {w.id} |-> IF r = w.id THEN new ELSE closed[r]]
    BY DEF RecordAsRunStart, closed
  <2>3. /\ DOMAIN made = kept \cup {w.id} /\ kept \subseteq DOMAIN rows
        /\ made[w.id] = new /\ \A r \in kept : r < w.id /\ made[r] = closed[r]
    <3>1. \A r \in kept : r < w.id /\ r # w.id
      BY <1>2, <1>5 DEF Behind, RunIds
    <3> HIDE DEF new, made, kept
    <3>2. kept \subseteq DOMAIN rows
      BY DEF kept
    <3> QED BY <2>2, <3>1, <3>2
  <2>4. new \in Rows /\ new.at = w.at /\ new.end = NotYet
    BY <1>0 DEF Rows
  <2> HIDE DEF new, made, kept
  <2>5. TableOK(made)
    BY <1>1, <1>2, <1>5, <2>3, <2>4 DEF TableOK
  <2>6. ASSUME NEW a \in DOMAIN made, NEW b \in DOMAIN made, a < b
        PROVE  made[a].end # NotYet /\ made[a].end <= made[b].at
    <3>1. CASE b = w.id
      <4>1. a \in kept
        BY <1>2, <1>5, <2>3, <2>6, <3>1 DEF RunIds
      <4> QED BY <1>1, <1>3, <2>3, <2>4, <3>1, <4>1
    <3>2. CASE b # w.id
      <4>1. b \in kept /\ a \in kept
        <5>1. b \in kept /\ b < w.id /\ b \in Int /\ w.id \in Int
          BY <1>2, <1>5, <2>3, <2>6, <3>2 DEF RunIds
        <5>2. a # w.id
          BY <2>6, <5>1
        <5> QED BY <2>3, <5>1, <5>2
      <4>2. rows[a].end # NotYet /\ rows[a].end <= rows[b].at
        BY <2>3, <2>6, <4>1 DEF RowsApart
      <4> QED BY <1>1, <2>3, <4>1, <4>2
    <3> QED BY <3>1, <3>2
  <2>7. \A r \in DOMAIN made : made[r].at <= w.at /\ made[r].end <= w.at
    BY <1>0, <1>1, <1>3, <2>3, <2>4 DEF Behind
  <2> QED BY <1>5, <2>1, <2>3, <2>5, <2>6, <2>7 DEF RowsApart
<1>6. CASE w.kind = "end"
  <2>1. AfterWrite(rows, w) = RecordAsRunEnd(rows, w)
    BY <1>6 DEF AfterWrite
  <2>2. CASE w.id \in DOMAIN rows /\ rows[w.id].end = NotYet
    <3> DEFINE made == [rows EXCEPT ![w.id] = [@ EXCEPT !.end = w.at, !.why = w.why]]
    <3>1. AfterWrite(rows, w) = made
      BY <2>1, <2>2 DEF RecordAsRunEnd
    <3>2. /\ DOMAIN made = DOMAIN rows
          /\ made[w.id] = [rows[w.id] EXCEPT !.end = w.at, !.why = w.why]
          /\ \A r \in DOMAIN rows : r # w.id => made[r] = rows[r]
      BY <2>2
    <3> HIDE DEF made
    <3>3. made[w.id] \in Rows /\ made[w.id].at = rows[w.id].at /\ made[w.id].end = w.at
      <4>1. rows[w.id] \in Rows
        BY <1>2, <2>2
      <4>2. \A r \in Rows : LET ended == [r EXCEPT !.end = w.at, !.why = w.why]
                              IN  ended \in Rows /\ ended.at = r.at /\ ended.end = w.at
        BY <1>0 DEF Rows
      <4> QED BY <3>2, <4>1, <4>2
    <3>4. TableOK(made)
      BY <1>2, <3>2, <3>3 DEF TableOK
    <3>5. RowsApart(made)
      BY <2>2, <3>2, <3>3 DEF RowsApart
    <3>6. ASSUME NEW r \in DOMAIN made PROVE made[r].at <= w.at /\ made[r].end <= w.at
      <4>1. r \in DOMAIN rows /\ rows[r].at <= w.at /\ rows[r].end <= w.at
        BY <3>2 DEF Behind
      <4>2. CASE r = w.id
        BY <1>0, <3>3, <4>1, <4>2
      <4>3. CASE r # w.id
        BY <3>2, <4>1, <4>3
      <4> QED BY <4>2, <4>3
    <3> QED BY <3>1, <3>2, <3>4, <3>5, <3>6
  <2>3. CASE ~(w.id \in DOMAIN rows /\ rows[w.id].end = NotYet)
    BY <2>1, <2>3 DEF RecordAsRunEnd, Behind
  <2> QED BY <2>2, <2>3
<1> QED BY <1>0, <1>4, <1>5, <1>6

---------------------------------------------------------------------------
(* The as-run log: the steps                                              *)

LEMMA InitKeeps == AsRunInit => AsRunInv
<1> SUFFICES ASSUME AsRunInit PROVE AsRunInv
  OBVIOUS
<1>1. /\ asRows = <<>> /\ DOMAIN asRows = {} /\ chain = <<>> /\ Len(chain) = 0 /\ chain \in Seq(Writes)
      /\ \A r \in RunIds : child[r] = "none"
  BY DEF AsRunInit
<1>2. AsTypeOK
  BY <1>1, AsRunAssumption DEF AsRunInit, AsTypeOK, Intents
<1> QED BY <1>1, <1>2 DEF AsRunInv, LogInv, InTurn, ChainInv, RowsBehind, RunsDoNotOverlap

\* The oldest write is made or refused; the others keep their order.
LEMMA QueueMoves ==
    ASSUME AsRunInv, chain # <<>>, chain' = Tail(chain), UNCHANGED <<now, child>>
    PROVE  /\ chain' \in Seq(Writes) /\ ChainInv'
           /\ \A i \in 1..Len(chain') : i + 1 \in 1..Len(chain) /\ chain'[i] = chain[i + 1]
<1>1. /\ chain \in Seq(Writes) /\ ChainInv
  BY DEF AsRunInv, AsTypeOK, LogInv
<1>2. /\ chain' \in Seq(Writes) /\ Len(chain') = Len(chain) - 1 /\ Len(chain) \in Nat
      /\ \A i \in 1..Len(chain') : i + 1 \in 1..Len(chain) /\ chain'[i] = chain[i + 1]
  BY <1>1, TailFacts
<1>3. \A i \in 1..Len(chain') :
          /\ chain'[i].at <= now
          /\ chain'[i].kind = "start" => chain'[i].id \in RunIds /\ child[chain'[i].id] # "none"
  BY <1>1, <1>2 DEF ChainInv, IsStart
<1>4. ASSUME NEW i \in 1..Len(chain'), NEW j \in 1..Len(chain'), i < j
      PROVE  /\ chain'[i].at <= chain'[j].at
             /\ chain'[i].kind = "start" /\ chain'[j].kind = "start" => chain'[i].id < chain'[j].id
  <2>1. i + 1 \in 1..Len(chain) /\ j + 1 \in 1..Len(chain) /\ i + 1 < j + 1
    BY <1>2, <1>4
  <2> QED BY <1>1, <1>2, <2>1 DEF ChainInv, IsStart
<1> QED BY <1>2, <1>3, <1>4 DEF ChainInv, IsStart

LEMMA RefusedKeeps == AsRunInv /\ WriteIsRefused => AsRunInv'
<1> SUFFICES ASSUME AsRunInv, WriteIsRefused PROVE AsRunInv'
  OBVIOUS
<1>0. AsTypeOK /\ LogInv
  BY DEF AsRunInv
<1>1. /\ chain # <<>> /\ chain' = Tail(chain) /\ refused < MaxRefused /\ refused' = refused + 1
      /\ UNCHANGED <<now, booted, child, onAir, leftAlone, stopReason, stopIntent, asRows>>
  BY DEF WriteIsRefused
<1>2. /\ chain' \in Seq(Writes) /\ ChainInv'
      /\ \A i \in 1..Len(chain') : i + 1 \in 1..Len(chain) /\ chain'[i] = chain[i + 1]
  BY <1>1, QueueMoves
<1>3. AsTypeOK'
  <2>1. refused' \in 0..MaxRefused
    BY <1>0, <1>1, AsRunAssumption DEF AsTypeOK
  <2> QED BY <1>0, <1>1, <1>2, <2>1 DEF AsTypeOK
<1>4. RowsBehind'
  BY <1>0, <1>1, <1>2 DEF LogInv, RowsBehind, RowBehind, IsStart
<1> QED BY <1>0, <1>1, <1>2, <1>3, <1>4 DEF AsRunInv, LogInv, InTurn, RunsDoNotOverlap

\* The oldest write is no earlier than any row, and a start in it is of a later run.
LEMMA HeadIsNext ==
    ASSUME AsRunInv, chain # <<>>
    PROVE  /\ Head(chain) \in Writes /\ Head(chain).at <= now /\ Behind(asRows, Head(chain))
           /\ Head(chain).kind = "start" =>
                Head(chain).id \in RunIds /\ child[Head(chain).id] # "none"
<1>1. /\ chain \in Seq(Writes) /\ ChainInv /\ RowsBehind
  BY DEF AsRunInv, AsTypeOK, LogInv
<1>2. Head(chain) = chain[1] /\ 1 \in 1..Len(chain) /\ Head(chain) \in Writes
  BY <1>1, TailFacts
<1> QED BY <1>1, <1>2 DEF ChainInv, RowsBehind, RowBehind, Behind, IsStart

LEMMA WriteKeeps == AsRunInv /\ WriteIsMade => AsRunInv'
<1> SUFFICES ASSUME AsRunInv, WriteIsMade PROVE AsRunInv'
  OBVIOUS
<1> DEFINE w == Head(chain)
<1>0. AsTypeOK /\ LogInv /\ TableOK(asRows) /\ RowsApart(asRows)
  BY DEF AsRunInv, AsTypeOK, LogInv, TableOK, RowsApart, RunsDoNotOverlap
<1>1. /\ chain # <<>> /\ chain' = Tail(chain) /\ asRows' = AfterWrite(asRows, w)
      /\ UNCHANGED <<now, booted, child, onAir, leftAlone, stopReason, stopIntent, refused>>
  BY DEF WriteIsMade
<1>2. /\ chain' \in Seq(Writes) /\ ChainInv'
      /\ \A i \in 1..Len(chain') : i + 1 \in 1..Len(chain) /\ chain'[i] = chain[i + 1]
  BY <1>1, QueueMoves
<1>3. /\ w \in Writes /\ w.at <= now /\ Behind(asRows, w)
      /\ w.kind = "start" => w.id \in RunIds /\ child[w.id] # "none"
  BY <1>1, HeadIsNext
<1>4. /\ TableOK(asRows') /\ RowsApart(asRows')
      /\ \A r \in DOMAIN asRows' : asRows'[r].at <= w.at /\ asRows'[r].end <= w.at
      /\ \A r \in DOMAIN asRows' : r \in DOMAIN asRows \/ (w.kind = "start" /\ r = w.id)
  <2> HIDE DEF w
  <2> QED BY <1>0, <1>1, <1>3, WriteKeepsApart
<1>5. AsTypeOK'
  BY <1>0, <1>1, <1>2, <1>4 DEF AsTypeOK, TableOK
<1>6. ASSUME NEW r \in DOMAIN asRows' PROVE RowBehind(r)'
  <2>1. /\ asRows'[r].at \in Int /\ asRows'[r].end \in Int /\ w.at \in Int /\ now \in Int
        /\ asRows'[r].at <= w.at /\ asRows'[r].end <= w.at
    <3>1. asRows'[r] \in Rows
      BY <1>4 DEF TableOK
    <3>2. asRows'[r].at \in 0..MaxNow /\ asRows'[r].end \in 0..MaxNow \cup {NotYet}
      BY <3>1, LogRowFields
    <3>3. w.at \in 0..MaxNow /\ now \in 0..MaxNow
      BY <1>0, <1>3, WriteFields DEF AsTypeOK
    <3> QED BY <1>4, <3>2, <3>3, AsRunAssumption DEF NotYet
  <2>2. child[r] # "none"
    BY <1>0, <1>3, <1>4 DEF LogInv, RowsBehind, RowBehind
  <2>3. asRows'[r].at <= now /\ asRows'[r].end <= now
    <3> HIDE DEF w
    <3> QED BY <1>3, <2>1
  <2>4. ASSUME NEW i \in 1..Len(chain')
        PROVE  /\ asRows'[r].at <= chain'[i].at /\ asRows'[r].end <= chain'[i].at
               /\ chain'[i].kind = "start" => r < chain'[i].id
    <3>1. /\ i + 1 \in 1..Len(chain) /\ chain'[i] = chain[i + 1] /\ w = chain[1] /\ 1 \in 1..Len(chain)
          /\ 1 < i + 1
      BY <1>0, <1>1, <1>2, TailFacts DEF AsTypeOK
    <3>2. w.at <= chain'[i].at /\ chain'[i].at \in Int
      <4>1. chain'[i] \in Writes
        BY <1>2
      <4>2. chain'[i].at \in 0..MaxNow
        BY <4>1, WriteFields
      <4> QED BY <1>0, <3>1, <4>2, AsRunAssumption DEF LogInv, ChainInv
    <3>3. asRows'[r].at <= chain'[i].at /\ asRows'[r].end <= chain'[i].at
      <4> HIDE DEF w
      <4> QED BY <2>1, <3>2
    <3>4. ASSUME chain'[i].kind = "start" PROVE r < chain'[i].id
      <4>1. CASE r \in DOMAIN asRows
        BY <1>0, <3>1, <3>4, <4>1 DEF LogInv, RowsBehind, RowBehind, IsStart
      <4>2. CASE w.kind = "start" /\ r = w.id
        BY <1>0, <3>1, <3>4, <4>2 DEF LogInv, ChainInv, IsStart
      <4> QED BY <1>4, <4>1, <4>2
    <3> QED BY <3>3, <3>4
  <2> QED BY <1>1, <2>2, <2>3, <2>4 DEF RowBehind, IsStart
<1>7. InTurn'
  BY <1>0, <1>1 DEF LogInv, InTurn
<1>8. RunsDoNotOverlap'
  BY <1>4 DEF RowsApart, RunsDoNotOverlap
<1> QED BY <1>2, <1>5, <1>6, <1>7, <1>8 DEF AsRunInv, LogInv, RowsBehind

\* A write is queued at the time it is decided on, and a start only for a run that has its turn.
LEMMA EnqueueKeeps ==
    ASSUME AsRunInv, NEW sort \in {"boot", "start", "end"}, NEW id \in 0..MaxRuns,
           NEW why \in EndReasons \cup {"none"}, Enqueue(sort, id, why), UNCHANGED <<now, asRows>>,
           child' \in [RunIds -> {"none", "up", "gone"}],
           \A r \in RunIds : child[r] # "none" => child'[r] # "none",
           sort = "start" => /\ id \in RunIds /\ child[id] = "none" /\ child'[id] # "none"
                             /\ \A q \in 1..(id - 1) : child[q] # "none",
           sort # "start" => \A r \in RunIds : child'[r] # "none" => child[r] # "none",
           sort = "start" => \A r \in RunIds : r # id /\ child'[r] # "none" => child[r] # "none"
    PROVE  chain' \in Seq(Writes) /\ LogInv'
<1> DEFINE w == [kind |-> sort, id |-> id, at |-> now, why |-> why]
<1>0. AsTypeOK /\ LogInv /\ chain \in Seq(Writes) /\ now \in 0..MaxNow /\ now \in Int
  BY AsRunAssumption DEF AsRunInv, AsTypeOK
<1>1. w \in Writes
  BY <1>0 DEF Writes
<1>2. /\ chain' \in Seq(Writes) /\ Len(chain') = Len(chain) + 1 /\ Len(chain) \in Nat
      /\ \A i \in 1..Len(chain) : chain'[i] = chain[i]
      /\ chain'[Len(chain) + 1] = w
  <2>1. chain' = Append(chain, w)
    BY DEF Enqueue
  <2> HIDE DEF w
  <2> QED BY <1>0, <1>1, <2>1, AppendFacts
<1>3. w.kind = sort /\ w.id = id /\ w.at = now
  OBVIOUS
<1> HIDE DEF w
<1>4. \A i \in 1..Len(chain') : i \in 1..Len(chain) \/ i = Len(chain) + 1
  BY <1>2
<1>5. \A i \in 1..Len(chain') : chain'[i].at \in Int /\ chain'[i].id \in Int
  <2>1. \A i \in 1..Len(chain') : chain'[i] \in Writes
    BY <1>2
  <2> QED BY <2>1, WriteFields, AsRunAssumption
\* A run that has begun is earlier than the one that has its turn.
<1>6. ASSUME sort = "start", NEW r \in RunIds, child[r] # "none" PROVE r < id
  <2>1. r # id /\ r \in Int /\ id \in Int
    BY <1>6, AsRunAssumption DEF RunIds
  <2>2. ~(id < r)
    BY <1>0, <1>6 DEF LogInv, InTurn
  <2> QED BY <2>1, <2>2
<1>7. InTurn'
  <2>1. SUFFICES ASSUME NEW q \in RunIds, NEW r \in RunIds, q < r, child'[r] # "none"
                 PROVE  child'[q] # "none"
    BY DEF InTurn
  <2>2. CASE child[r] # "none"
    BY <1>0, <2>1, <2>2 DEF LogInv, InTurn
  <2>3. CASE child[r] = "none"
    <3>1. sort = "start" /\ r = id
      BY <2>1, <2>3
    <3>2. q \in 1..(id - 1)
      BY <2>1, <3>1, AsRunAssumption DEF RunIds
    <3> QED BY <3>1, <3>2
  <2> QED BY <2>2, <2>3
<1>8. ChainInv'
  <2>1. \A i \in 1..Len(chain') :
            /\ chain'[i].at <= now
            /\ chain'[i].kind = "start" => chain'[i].id \in RunIds /\ child'[chain'[i].id] # "none"
    BY <1>0, <1>2, <1>3, <1>4 DEF LogInv, ChainInv, IsStart
  <2>2. ASSUME NEW i \in 1..Len(chain'), NEW j \in 1..Len(chain'), i < j
        PROVE  /\ chain'[i].at <= chain'[j].at
               /\ chain'[i].kind = "start" /\ chain'[j].kind = "start" => chain'[i].id < chain'[j].id
    <3>1. i \in 1..Len(chain) /\ chain'[i] = chain[i]
      BY <1>2, <1>4, <2>2
    <3>2. CASE j \in 1..Len(chain)
      BY <1>0, <1>2, <2>2, <3>1, <3>2 DEF LogInv, ChainInv, IsStart
    <3>3. CASE j = Len(chain) + 1
      BY <1>0, <1>2, <1>3, <1>6, <3>1, <3>3 DEF LogInv, ChainInv, IsStart
    <3> QED BY <1>4, <3>2, <3>3
  <2> QED BY <2>1, <2>2 DEF ChainInv, IsStart
<1>9. RowsBehind'
  <2>1. SUFFICES ASSUME NEW r \in DOMAIN asRows PROVE RowBehind(r)'
    BY DEF RowsBehind
  <2>2. RowBehind(r) /\ r \in RunIds
    BY <1>0, <2>1 DEF LogInv, RowsBehind, AsTypeOK
  <2>3. \A i \in 1..Len(chain') :
            /\ asRows[r].at <= chain'[i].at /\ asRows[r].end <= chain'[i].at
            /\ chain'[i].kind = "start" => r < chain'[i].id
    BY <1>2, <1>3, <1>4, <1>6, <2>2 DEF RowBehind, IsStart
  <2> QED BY <2>2, <2>3 DEF RowBehind, IsStart
<1>10. RunsDoNotOverlap'
  BY <1>0 DEF LogInv, RunsDoNotOverlap
<1> QED BY <1>2, <1>7, <1>8, <1>9, <1>10 DEF LogInv

LEMMA ReasonType ==
    ASSUME AsTypeOK, NEW how \in {"natural-end", "failed"}
    PROVE  EndReasonOf(how) \in EndReasons
BY DEF AsTypeOK, EndReasonOf, EndReasons, Intents, Planned

LEMMA PlayoutStepKeeps ==
    ASSUME AsRunInv, StartRun \/ ChildExits \/ PlayoutBoots
    PROVE  AsRunInv'
<1>0. AsTypeOK /\ LogInv /\ child \in [RunIds -> {"none", "up", "gone"}] /\ MaxRuns \in Nat
  BY AsRunAssumption DEF AsRunInv, AsTypeOK
<1>1. CASE StartRun
  <2>1. PICK r \in RunIds :
            /\ child[r] = "none" /\ \A q \in 1..(r - 1) : child[q] # "none"
            /\ child' = [child EXCEPT ![r] = "up"]
            /\ onAir' = r /\ stopReason' = "none" /\ stopIntent' = "none"
            /\ Enqueue("start", r, "none")
    BY <1>1 DEF StartRun
  <2>2. UNCHANGED <<now, booted, leftAlone, asRows, refused>>
    BY <1>1 DEF StartRun
  <2>3. /\ child' \in [RunIds -> {"none", "up", "gone"}] /\ child'[r] = "up"
        /\ \A q \in RunIds : q # r => child'[q] = child[q]
    BY <1>0, <2>1
  <2>4. r \in 0..MaxRuns
    BY <1>0 DEF RunIds
  <2>5. chain' \in Seq(Writes) /\ LogInv'
    BY <2>1, <2>2, <2>3, <2>4, EnqueueKeeps
  <2>6. AsTypeOK'
    BY <1>0, <2>1, <2>2, <2>3, <2>4, <2>5 DEF AsTypeOK, Intents
  <2> QED BY <2>5, <2>6 DEF AsRunInv
<1>2. CASE ChildExits
  <2>1. PICK r \in RunIds, how \in {"natural-end", "failed"}, handled \in BOOLEAN :
            /\ booted /\ IsUp(r)
            /\ child' = [child EXCEPT ![r] = "gone"]
            /\ Enqueue("end", r, EndReasonOf(how))
            /\ IF r = onAir /\ handled
               THEN onAir' = 0 /\ stopReason' = "none" /\ stopIntent' = "none"
               ELSE UNCHANGED <<onAir, stopReason, stopIntent>>
            /\ UNCHANGED <<now, booted, leftAlone, asRows, refused>>
    BY <1>2 DEF ChildExits
  <2>2. /\ child' \in [RunIds -> {"none", "up", "gone"}]
        /\ \A q \in RunIds : child'[q] = "none" <=> child[q] = "none"
    BY <1>0, <2>1 DEF IsUp
  <2>3. r \in 0..MaxRuns /\ EndReasonOf(how) \in EndReasons \cup {"none"}
    BY <1>0, ReasonType DEF RunIds
  <2>4. chain' \in Seq(Writes) /\ LogInv'
    BY <2>1, <2>2, <2>3, EnqueueKeeps
  <2>5. onAir' \in 0..MaxRuns /\ stopReason' \in Planned \cup {"none"} /\ stopIntent' \in Intents
    BY <1>0, <2>1 DEF AsTypeOK, Intents
  <2>6. AsTypeOK'
    BY <1>0, <2>1, <2>2, <2>4, <2>5 DEF AsTypeOK
  <2> QED BY <2>4, <2>6 DEF AsRunInv
<1>3. CASE PlayoutBoots
  <2>1. /\ booted' = TRUE /\ Enqueue("boot", 0, "none")
        /\ UNCHANGED <<now, child, onAir, leftAlone, stopReason, stopIntent, asRows, refused>>
    BY <1>3 DEF PlayoutBoots
  <2>2. 0 \in 0..MaxRuns
    BY <1>0
  <2>3. chain' \in Seq(Writes) /\ LogInv'
    BY <1>0, <2>1, <2>2, EnqueueKeeps
  <2> QED BY <1>0, <2>1, <2>3 DEF AsRunInv, AsTypeOK
<1> QED BY <1>1, <1>2, <1>3

LEMMA OtherStepKeeps ==
    ASSUME AsRunInv, AskToStop \/ StopIsGivenUp \/ PlayoutDies \/ ClockMoves \/ UNCHANGED asVars
    PROVE  AsRunInv'
<1>0. AsTypeOK /\ LogInv
  BY DEF AsRunInv
<1>1. CASE AskToStop \/ StopIsGivenUp \/ UNCHANGED asVars
  <2>1. UNCHANGED <<now, booted, child, chain, asRows, refused>>
    BY <1>1 DEF AskToStop, StopIsGivenUp, asVars
  <2>2. /\ onAir' \in 0..MaxRuns /\ leftAlone' \subseteq RunIds
        /\ stopReason' \in Planned \cup {"none"} /\ stopIntent' \in Intents
    BY <1>0, <1>1, AsRunAssumption DEF AskToStop, StopIsGivenUp, asVars, AsTypeOK, Intents, IsUp
  <2> QED BY <1>0, <2>1, <2>2 DEF AsRunInv, AsTypeOK, LogInv, InTurn, ChainInv, RowsBehind, RowBehind,
                                  IsStart, RunsDoNotOverlap
<1>2. CASE PlayoutDies
  <2>1. /\ child' = [r \in RunIds |-> IF child[r] = "up" THEN "gone" ELSE child[r]]
        /\ booted' = FALSE /\ onAir' = 0 /\ leftAlone' = {} /\ stopReason' = "none" /\ stopIntent' = "none"
        /\ chain' = <<>> /\ UNCHANGED <<now, asRows, refused>>
    BY <1>2 DEF PlayoutDies
  <2>2. /\ child' \in [RunIds -> {"none", "up", "gone"}]
        /\ \A r \in RunIds : child'[r] = "none" <=> child[r] = "none"
    BY <1>0, <2>1 DEF AsTypeOK
  <2>3. Len(chain') = 0 /\ chain' \in Seq(Writes)
    BY <2>1
  <2>4. AsTypeOK'
    <3>1. 0 \in 0..MaxRuns
      BY AsRunAssumption
    <3>2. /\ booted' \in BOOLEAN /\ onAir' \in 0..MaxRuns /\ leftAlone' \subseteq RunIds
          /\ stopReason' \in Planned \cup {"none"} /\ stopIntent' \in Intents
      BY <2>1, <3>1 DEF Intents
    <3>3. UNCHANGED <<now, asRows, refused>>
      BY <2>1
    <3> QED BY <1>0, <2>2, <2>3, <3>2, <3>3 DEF AsTypeOK
  <2>5. LogInv'
    BY <1>0, <2>1, <2>2, <2>3 DEF AsTypeOK, LogInv, InTurn, ChainInv, RowsBehind, RowBehind, RunsDoNotOverlap
  <2> QED BY <2>4, <2>5 DEF AsRunInv
<1>3. CASE ClockMoves
  <2>1. /\ now' = now + 1 /\ now < MaxNow
        /\ UNCHANGED <<booted, child, onAir, leftAlone, stopReason, stopIntent, chain, asRows, refused>>
    BY <1>3 DEF ClockMoves
  <2>2. now' \in 0..MaxNow /\ now \in Int /\ now < now'
    BY <1>0, <2>1, AsRunAssumption DEF AsTypeOK
  <2>3. \A i \in 1..Len(chain) : chain[i].at \in Int
    <3>1. \A i \in 1..Len(chain) : chain[i] \in Writes
      BY <1>0 DEF AsTypeOK
    <3> QED BY <3>1, WriteFields, AsRunAssumption
  <2>4. \A r \in DOMAIN asRows : asRows[r].at \in Int /\ asRows[r].end \in Int
    <3>1. \A r \in DOMAIN asRows : asRows[r].at \in 0..MaxNow /\ asRows[r].end \in 0..MaxNow \cup {NotYet}
      BY <1>0, LogRowFields DEF AsTypeOK
    <3> QED BY <3>1, AsRunAssumption DEF NotYet
  <2>5. ChainInv'
    <3>1. \A i \in 1..Len(chain) : chain[i].at <= now'
      BY <1>0, <2>2, <2>3 DEF LogInv, ChainInv
    <3>2. ChainInv /\ UNCHANGED <<chain, child>>
      BY <1>0, <2>1 DEF LogInv
    <3> QED BY <3>1, <3>2 DEF ChainInv, IsStart
  <2>6. RowsBehind'
    BY <1>0, <2>1, <2>2, <2>4 DEF LogInv, RowsBehind, RowBehind, IsStart
  <2>7. AsTypeOK'
    BY <1>0, <2>1, <2>2 DEF AsTypeOK
  <2> QED BY <1>0, <2>1, <2>5, <2>6, <2>7 DEF AsRunInv, LogInv, InTurn, RunsDoNotOverlap
<1> QED BY <1>1, <1>2, <1>3

LEMMA AsRunInvAlways == AsRunSpec => []AsRunInv
<1>1. AsRunInv /\ [AsRunNext]_asVars => AsRunInv'
  BY WriteKeeps, RefusedKeeps, PlayoutStepKeeps, OtherStepKeeps DEF AsRunNext
<1> QED BY InitKeeps, <1>1, PTL DEF AsRunSpec

---------------------------------------------------------------------------
(* The as-run log: the theorems                                           *)

\* The log and what the playout knows of its runs keep their types (as-run.ts, worker index.ts).
THEOREM AsRunTypeCorrect == AsRunSpec => []AsTypeOK
<1>1. AsRunInv => AsTypeOK
  BY DEF AsRunInv
<1> QED BY <1>1, AsRunInvAlways, PTL

\* However many writes are refused or die with their container, and however late a stopped
\* ffmpeg exits, no two rows of the log overlap: a late end only completes the last row, and a
\* start closes what it finds open.
THEOREM LogNeverOverlaps == AsRunSpec => []RunsDoNotOverlap
<1>1. AsRunInv => RunsDoNotOverlap
  BY DEF AsRunInv, LogInv
<1> QED BY <1>1, AsRunInvAlways, PTL

---------------------------------------------------------------------------
(* What chat can and cannot bring about                                    *)

\* The tables and the memory hold what is put there; only their shape matters here.
IsSequence(s) == \E S : s \in Seq(S)

LEMMA SequenceFacts ==
    ASSUME NEW s, IsSequence(s)
    PROVE  /\ Len(s) \in Nat
           /\ IsSequence(<<>>)
           /\ s # <<>> => IsSequence(Tail(s)) /\ Len(s) # 0
           /\ \A x : /\ IsSequence(Append(s, x)) /\ Len(Append(s, x)) = Len(s) + 1
                     /\ Append(s, x)[Len(s) + 1] = x
                     /\ \A i \in 1..Len(s) : Append(s, x)[i] = s[i]
                     /\ DOMAIN Append(s, x) = 1..(Len(s) + 1)
           /\ DOMAIN s = 1..Len(s)
<1>1. PICK S : s \in Seq(S)
  BY DEF IsSequence
<1>2. IsSequence(<<>>)
  <2>1. <<>> \in Seq(S)
    OBVIOUS
  <2> QED BY <2>1 DEF IsSequence
<1>3. s # <<>> => IsSequence(Tail(s)) /\ Len(s) # 0
  BY <1>1 DEF IsSequence
<1>4. ASSUME NEW x
      PROVE  /\ IsSequence(Append(s, x)) /\ Len(Append(s, x)) = Len(s) + 1
             /\ Append(s, x)[Len(s) + 1] = x
             /\ \A i \in 1..Len(s) : Append(s, x)[i] = s[i]
             /\ DOMAIN Append(s, x) = 1..(Len(s) + 1)
  <2>1. s \in Seq(S \cup {x}) /\ x \in S \cup {x}
    BY <1>1
  <2>2. Append(s, x) \in Seq(S \cup {x})
    BY <2>1
  <2> QED BY <2>1, <2>2 DEF IsSequence
<1> QED BY <1>1, <1>2, <1>3, <1>4

---------------------------------------------------------------------------
(* The item a vote cuts                                                   *)

RowFields == {"item", "held", "skip", "restart", "cursor", "queue"} \subseteq DOMAIN onRow

\* The flag of a vote names the item that is on air: nothing takes that item off before the cycle that
\* carries the vote out.
CutInv == RowFields /\ (onRow.restart \in PoolItems => onRow.item = onRow.restart)

LEMMA CutInit == ViewerInit => CutInv
BY ViewerAssumption DEF ViewerInit, CutInv, RowFields, PoolItems

LEMMA CutNext == CutInv /\ [ViewerNext]_viewerVars => CutInv'
<1> SUFFICES ASSUME CutInv, [ViewerNext]_viewerVars PROVE CutInv'
  OBVIOUS
<1>0. "none" \notin PoolItems /\ "operator" \notin PoolItems
  BY ViewerAssumption DEF PoolItems
<1>1. CASE UNCHANGED onRow
  BY <1>1 DEF CutInv, RowFields, PoolItems
<1>2. CASE PromoteWinner
  BY <1>2 DEF PromoteWinner, CutInv, RowFields, PoolItems
<1>3. CASE ApplySkip
  BY <1>3 DEF ApplySkip, MayCut, CutInv, RowFields, PoolItems
<1>4. CASE DecideRequest
  BY <1>4 DEF DecideRequest, CutInv, RowFields, PoolItems
<1>5. CASE PlayoutCycle
  BY <1>0, <1>5 DEF PlayoutCycle, CutInv, RowFields, PoolItems
<1>6. CASE \E x \in PoolItems : OperatorTakes(x)
  BY <1>6 DEF OperatorTakes, CutInv, RowFields, PoolItems
<1>7. CASE OperatorSkips
  BY <1>0, <1>7 DEF OperatorSkips, CutInv, RowFields, PoolItems
<1>8. CASE HoldEnds
  BY <1>8 DEF HoldEnds, CutInv, RowFields, PoolItems
<1>9. CASE ViewerTime
  BY <1>9 DEF ViewerTime, CutInv, RowFields, PoolItems
<1> QED
  BY <1>1, <1>2, <1>3, <1>4, <1>5, <1>6, <1>7, <1>8, <1>9
     DEF ViewerNext, viewerVars, VoteToSkip, VoteNext, Ask, StepReads, RecordRequest, OpenPoll, StepFails, ChatRestarts,
         SwitchesOff, SwitchesOn

\* The votes of a room take off the air the item they were cast on and no other, none under the
\* operator's hold and none that somebody has taken off already.
THEOREM VotesCutOnlyTheirItem == ViewerSpec => VotesCutTheirItem
<1>1. CutInv /\ [ViewerNext]_viewerVars =>
        [/\ onRow.restart \in PoolItems /\ onRow'.restart = "none" => onRow.item = onRow.restart
         /\ onRow'.restart \in PoolItems /\ onRow'.restart # onRow.restart =>
                ~Holds(onRow) /\ onRow.skip # onRow'.restart]_onRow
  <2> SUFFICES ASSUME CutInv, [ViewerNext]_viewerVars, onRow' # onRow,
                      onRow'.restart \in PoolItems, onRow'.restart # onRow.restart
               PROVE  ~Holds(onRow) /\ onRow.skip # onRow'.restart
    BY DEF CutInv
  <2>0. "none" \notin PoolItems /\ "operator" \notin PoolItems
    BY ViewerAssumption DEF PoolItems
  <2>1. CASE ApplySkip
    BY <2>1 DEF ApplySkip, MayCut, CutInv, RowFields
  <2>2. CASE PromoteWinner \/ DecideRequest
    BY <2>2 DEF PromoteWinner, DecideRequest, CutInv, RowFields
  <2>3. CASE PlayoutCycle
    BY <2>0, <2>3 DEF PlayoutCycle, CutInv, RowFields
  <2>4. CASE OperatorSkips \/ HoldEnds \/ \E x \in PoolItems : OperatorTakes(x)
    BY <2>0, <2>4 DEF OperatorSkips, HoldEnds, OperatorTakes, CutInv, RowFields
  <2>5. CASE ViewerTime
    BY <2>5 DEF ViewerTime, CutInv, RowFields
  <2> QED
    BY <2>1, <2>2, <2>3, <2>4, <2>5
       DEF ViewerNext, viewerVars, VoteToSkip, VoteNext, Ask, StepReads, RecordRequest, OpenPoll, StepFails, ChatRestarts,
           SwitchesOff, SwitchesOn
<1> QED BY <1>1, CutInit, CutNext, PTL DEF ViewerSpec, VotesCutTheirItem


---------------------------------------------------------------------------
(* The requests                                                           *)

Waiting(rows) == {r \in rows : r.queued}

Rationed(rows) ==
    /\ IsFiniteSet(rows)
    /\ \A r \in rows : {"actor", "item", "queued", "recent"} \subseteq DOMAIN r
    /\ Cardinality(Waiting(rows)) <= RequestLimit
    /\ \A r, q \in rows : r # q => /\ r.queued /\ q.queued => r.item # q.item
                                   /\ r.recent /\ q.recent => r.actor # q.actor

\* There is room for a request, and nobody stands in its way.
RoomFor(rows, wish) ==
    /\ Cardinality(Waiting(rows)) < RequestLimit
    /\ \A r \in Waiting(rows) : r.item # wish.item
    /\ \A r \in rows : r.recent => r.actor # wish.actor

\* What a request passes on to the next: the rows after it are of rows before it, waiting and recent
\* at most as they were.
Thins(new, old, f) ==
    /\ f \in [new -> old] /\ IsInjective(f)
    /\ \A q \in new : /\ DOMAIN q = DOMAIN f[q]
                      /\ q.item = f[q].item /\ q.actor = f[q].actor
                      /\ q.queued => f[q].queued
                      /\ q.recent => f[q].recent

LEMMA ThinnedIsRationed ==
    ASSUME NEW old, NEW new, NEW f, Rationed(old), Thins(new, old, f)
    PROVE  /\ Rationed(new)
           /\ Cardinality(Waiting(new)) <= Cardinality(Waiting(old))
           /\ \A wish : RoomFor(old, wish) => RoomFor(new, wish)
<1>1. IsFiniteSet(Waiting(old)) /\ Cardinality(Waiting(old)) \in Nat
  <2>1. Waiting(old) \in SUBSET old
    BY DEF Waiting
  <2> QED BY <2>1, FS_Subset, FS_CardinalityType DEF Rationed
<1>2. IsFiniteSet(new)
  <2>1. f \in Injection(new, old)
    BY DEF Thins, Injection
  <2> QED BY <2>1, FS_Injection DEF Rationed
<1>3. IsFiniteSet(Waiting(new)) /\ Cardinality(Waiting(new)) \in Nat
      /\ Cardinality(Waiting(new)) <= Cardinality(Waiting(old))
  <2> DEFINE g == [q \in Waiting(new) |-> f[q]]
  <2>1. g \in Injection(Waiting(new), Waiting(old))
    BY DEF Thins, Injection, IsInjective, Waiting
  <2> QED BY <1>1, <2>1, FS_Injection, FS_CardinalityType
<1>4. \A r \in new : {"actor", "item", "queued", "recent"} \subseteq DOMAIN r
  BY DEF Rationed, Thins
<1>5. \A r, q \in new : r # q => /\ r.queued /\ q.queued => r.item # q.item
                                 /\ r.recent /\ q.recent => r.actor # q.actor
  <2> TAKE r, q \in new
  <2>1. r # q => f[r] # f[q]
    BY DEF Thins, IsInjective
  <2> QED BY <2>1 DEF Rationed, Thins
<1>6. Cardinality(Waiting(new)) <= RequestLimit
  BY <1>1, <1>3, ViewerAssumption DEF Rationed
<1>7. ASSUME NEW wish, RoomFor(old, wish) PROVE RoomFor(new, wish)
  <2>1. \A q \in new : f[q] \in old /\ (q \in Waiting(new) => f[q] \in Waiting(old))
    BY DEF Thins, Waiting
  <2>2. Cardinality(Waiting(new)) < RequestLimit
    BY <1>1, <1>3, <1>7, ViewerAssumption DEF RoomFor
  <2>3. \A r \in Waiting(new) : r.item # wish.item
    BY <1>7, <2>1 DEF RoomFor, Thins, Waiting
  <2>4. \A r \in new : r.recent => r.actor # wish.actor
    BY <1>7, <2>1 DEF RoomFor, Thins
  <2> QED BY <2>2, <2>3, <2>4 DEF RoomFor
<1> QED BY <1>2, <1>3, <1>4, <1>5, <1>6, <1>7 DEF Rationed

LEMMA MarkedThins ==
    ASSUME NEW rows, Rationed(rows), NEW view
    PROVE  /\ \E f : Thins(Marked(rows, view), rows, f)
           /\ \A r \in Waiting(Marked(rows, view)) : r.item \in view
           /\ \A r \in Waiting(rows) : r.item \in view => \E q \in Waiting(Marked(rows, view)) : q.item = r.item
<1> DEFINE new == Marked(rows, view)
           seen(p) == [p EXCEPT !.queued = p.queued /\ p.item \in view]
<1>1. \A p \in rows : /\ DOMAIN seen(p) = DOMAIN p
                      /\ seen(p).item = p.item /\ seen(p).actor = p.actor /\ seen(p).recent = p.recent
                      /\ seen(p).queued <=> (p.queued /\ p.item \in view)
  BY DEF Rationed
<1>2. \A q : q \in new <=> \E p \in rows : q = seen(p) /\ (q.queued \/ q.recent)
  BY DEF Marked
<1> HIDE DEF new, seen
<1> DEFINE f == [q \in new |-> CHOOSE p \in rows : q = seen(p)]
<1>3. \A q \in new : f[q] \in rows /\ q = seen(f[q])
  BY <1>2
<1>4. Thins(new, rows, f)
  <2>1. f \in [new -> rows]
    BY <1>3
  <2>2. IsInjective(f)
    BY <1>3 DEF IsInjective
  <2> HIDE DEF f
  <2>3. \A q \in new : /\ DOMAIN q = DOMAIN f[q]
                       /\ q.item = f[q].item /\ q.actor = f[q].actor
                       /\ q.queued => f[q].queued
                       /\ q.recent => f[q].recent
    BY <1>1, <1>3
  <2> QED BY <2>1, <2>2, <2>3 DEF Thins
<1>5. \A r \in Waiting(new) : r.item \in view
  BY <1>1, <1>2 DEF Waiting
<1>6. ASSUME NEW r \in Waiting(rows), r.item \in view PROVE \E q \in Waiting(new) : q.item = r.item
  <2>1. r \in rows /\ r.queued
    BY DEF Waiting
  <2>2. seen(r).queued /\ seen(r).item = r.item
    BY <1>1, <1>6, <2>1
  <2>3. seen(r) \in new
    BY <1>2, <2>1, <2>2
  <2> QED BY <2>2, <2>3 DEF Waiting
<1> QED BY <1>4, <1>5, <1>6 DEF new

\* The cooldown of one row is over; a row that waits for nothing either is forgotten.
Cooled(rows, r) == (rows \ {r}) \cup {q \in {[r EXCEPT !.recent = FALSE]} : q.queued}

LEMMA CooledThins ==
    ASSUME NEW rows, Rationed(rows), NEW r \in rows
    PROVE  /\ \E f : Thins(Cooled(rows, r), rows, f)
           /\ \A p \in Waiting(rows) : \E q \in Waiting(Cooled(rows, r)) : q.item = p.item
<1> DEFINE new == Cooled(rows, r)
           cool == [r EXCEPT !.recent = FALSE]
           f == [q \in new |-> IF q \in rows \ {r} THEN q ELSE r]
<1>1. /\ DOMAIN cool = DOMAIN r
      /\ cool.item = r.item /\ cool.actor = r.actor /\ cool.recent = FALSE /\ cool.queued = r.queued
  BY DEF Rationed
<1>2. \A q : q \in new <=> q \in rows \ {r} \/ (q = cool /\ q.queued)
  BY DEF Cooled
<1> HIDE DEF new, cool
<1>3. Thins(new, rows, f)
  <2>1. f \in [new -> rows] /\ IsInjective(f)
    BY <1>2 DEF IsInjective
  <2>2. \A q \in new : f[q] = q \/ (q = cool /\ f[q] = r)
    BY <1>2
  <2> HIDE DEF f
  <2> QED BY <1>1, <2>1, <2>2 DEF Thins
<1>4. ASSUME NEW p \in Waiting(rows) PROVE \E q \in Waiting(new) : q.item = p.item
  <2>1. p \in rows /\ p.queued
    BY DEF Waiting
  <2>2. CASE p # r
    <3>1. p \in new
      BY <1>2, <2>1, <2>2
    <3> QED BY <2>1, <3>1 DEF Waiting
  <2>3. CASE p = r
    <3>1. cool.queued /\ cool.item = p.item
      BY <1>1, <2>1, <2>3
    <3>2. cool \in new
      BY <1>2, <3>1
    <3> QED BY <3>1, <3>2 DEF Waiting
  <2> QED BY <2>2, <2>3
<1> QED BY <1>3, <1>4 DEF new

\* A request there is room for is recorded.
RecordedRow(wish) == [actor |-> wish.actor, item |-> wish.item, queued |-> TRUE, recent |-> TRUE]

LEMMA RecordedIsRationed ==
    ASSUME NEW rows, Rationed(rows), NEW wish, RoomFor(rows, wish)
    PROVE  Rationed(rows \cup {RecordedRow(wish)}) /\ RecordedRow(wish) \in Waiting(rows \cup {RecordedRow(wish)})
<1> DEFINE r == RecordedRow(wish)
           new == rows \cup {r}
<1>1. DOMAIN r = {"actor", "item", "queued", "recent"} /\ r.actor = wish.actor /\ r.item = wish.item /\ r.queued /\ r.recent
  BY DEF RecordedRow
<1> HIDE DEF r
<1>2. IsFiniteSet(new)
  BY FS_AddElement DEF Rationed
<1>3. Waiting(new) = Waiting(rows) \cup {r}
  BY <1>1 DEF Waiting
<1>4. Cardinality(Waiting(new)) <= RequestLimit
  <2>1. Waiting(rows) \in SUBSET rows
    BY DEF Waiting
  <2>2. IsFiniteSet(Waiting(rows)) /\ Cardinality(Waiting(rows)) \in Nat
    BY <2>1, FS_Subset, FS_CardinalityType DEF Rationed
  <2>3. Cardinality(Waiting(rows) \cup {r}) =
            IF r \in Waiting(rows) THEN Cardinality(Waiting(rows)) ELSE Cardinality(Waiting(rows)) + 1
    BY <2>2, FS_AddElement
  <2>4. Cardinality(Waiting(rows)) < RequestLimit /\ RequestLimit \in Nat
    BY ViewerAssumption DEF RoomFor
  <2>5. Cardinality(Waiting(rows) \cup {r}) <= RequestLimit
    BY <2>2, <2>3, <2>4
  <2> QED BY <1>3, <2>5
<1>5. \A p, q \in new : p # q => /\ p.queued /\ q.queued => p.item # q.item
                                 /\ p.recent /\ q.recent => p.actor # q.actor
  BY <1>1 DEF Rationed, RoomFor, Waiting
<1>6. \A p \in new : {"actor", "item", "queued", "recent"} \subseteq DOMAIN p
  BY <1>1 DEF Rationed
<1> QED BY <1>1, <1>2, <1>4, <1>5, <1>6 DEF Rationed, Waiting, r


\* The first n of the requests a pass has accepted are recorded and wait.
Backed(accepted, rows, n) == \A i \in 1..n : \E r \in Waiting(rows) : r.item = accepted[i]

\* A pass of the worker's cycle, with the requests on record: what it has accepted is recorded but for
\* the request that is being recorded, for which there is room.
PassInv(s, rows) ==
    /\ {"step", "queue", "todo", "accepted"} \subseteq DOMAIN s
    /\ IsSequence(s.todo) /\ IsSequence(s.accepted) /\ IsInjective(s.accepted)
    /\ s.step = "apply" =>
           Len(s.accepted) <= RequestLimit /\ Backed(s.accepted, rows, Len(s.accepted))
    /\ s.step = "record" =>
           /\ s.todo # <<>> /\ s.accepted # <<>> /\ s.accepted[Len(s.accepted)] = Head(s.todo).item
           /\ Len(s.accepted) <= RequestLimit /\ Backed(s.accepted, rows, Len(s.accepted) - 1)
           /\ RoomFor(rows, Head(s.todo))

RequestInv ==
    /\ Rationed(requests) /\ IsSequence(effects)
    /\ "step" \in DOMAIN chatStep /\ chatStep.step \in {"idle", "promote", "apply", "record"}
    /\ chatStep.step \in {"apply", "record"} => PassInv(chatStep, requests)

\* A pass accepts no more than wait already.
LEMMA AcceptedAreFewer ==
    ASSUME NEW rows, Rationed(rows), NEW accepted, IsSequence(accepted), IsInjective(accepted),
           Backed(accepted, rows, Len(accepted))
    PROVE  Len(accepted) <= Cardinality(Waiting(rows))
<1> DEFINE f == [i \in 1..Len(accepted) |-> CHOOSE r \in Waiting(rows) : r.item = accepted[i]]
<1>1. Len(accepted) \in Nat /\ DOMAIN accepted = 1..Len(accepted)
  BY SequenceFacts
<1>2. \A i \in 1..Len(accepted) : f[i] \in Waiting(rows) /\ f[i].item = accepted[i]
  BY DEF Backed
<1>3. f \in Injection(1..Len(accepted), Waiting(rows))
  <2>1. f \in [1..Len(accepted) -> Waiting(rows)] /\ DOMAIN f = 1..Len(accepted)
    BY <1>2
  <2> HIDE DEF f
  <2>2. IsInjective(f)
    BY <1>1, <1>2, <2>1 DEF IsInjective
  <2> QED BY <2>1, <2>2 DEF Injection
<1> HIDE DEF f
<1>4. IsFiniteSet(Waiting(rows))
  <2>1. Waiting(rows) \in SUBSET rows
    BY DEF Waiting
  <2> QED BY <2>1, FS_Subset DEF Rationed
<1>5. Cardinality(1..Len(accepted)) <= Cardinality(Waiting(rows))
  BY <1>3, <1>4, FS_Injection
<1>6. Cardinality(1..Len(accepted)) = Len(accepted)
  <2>1. Cardinality(1..Len(accepted)) = IF 1 > Len(accepted) THEN 0 ELSE Len(accepted) - 1 + 1
    BY <1>1, FS_Interval, 1 \in Int, Len(accepted) \in Int
  <2> QED BY <1>1, <2>1
<1> QED BY <1>5, <1>6

LEMMA BackedKept ==
    ASSUME NEW rows, NEW new, NEW accepted, NEW n, Backed(accepted, rows, n),
           \A i \in 1..n : \A r \in Waiting(rows) :
               r.item = accepted[i] => \E q \in Waiting(new) : q.item = r.item
    PROVE  Backed(accepted, new, n)
BY DEF Backed

LEMMA RequestInit == ViewerInit => RequestInv
<1> SUFFICES ASSUME ViewerInit PROVE RequestInv
  OBVIOUS
<1>1. requests = {} /\ effects = <<>> /\ chatStep = [step |-> "idle"]
  BY DEF ViewerInit, Asleep
<1>2. Waiting({}) = {}
  BY DEF Waiting
<1>3. Rationed({})
  <2>1. IsFiniteSet({}) /\ Cardinality({}) = 0
    BY FS_EmptySet
  <2>2. 0 <= RequestLimit
    BY ViewerAssumption
  <2> QED BY <1>2, <2>1, <2>2 DEF Rationed
<1>4. IsSequence(<<>>)
  <2>1. <<>> \in Seq({})
    OBVIOUS
  <2> QED BY <2>1 DEF IsSequence
<1> QED BY <1>1, <1>3, <1>4 DEF RequestInv

\* A pass begins with nothing accepted.
LEMMA PassBegins ==
    ASSUME RequestInv, NEW what, NEW hold, NEW queue, Applying(what, hold, queue), UNCHANGED requests
    PROVE  RequestInv'
<1>1. chatStep' = [step |-> "apply", queue |-> queue, todo |-> effects, accepted |-> <<>>] /\ effects' = <<>>
  BY DEF Applying
<1>2. IsSequence(<<>>) /\ Len(<<>>) = 0 /\ IsInjective(<<>>)
  BY SequenceFacts DEF RequestInv, IsInjective
<1>3. Backed(<<>>, requests, 0)
  BY DEF Backed
<1>4. PassInv(chatStep', requests)
  BY <1>1, <1>2, <1>3, ViewerAssumption DEF PassInv, RequestInv
<1> QED BY <1>1, <1>2, <1>4 DEF RequestInv

LEMMA RequestNext == RequestInv /\ [ViewerNext]_viewerVars => RequestInv'
<1> SUFFICES ASSUME RequestInv, [ViewerNext]_viewerVars PROVE RequestInv'
  OBVIOUS
<1>1. CASE UNCHANGED <<chatStep, requests>> /\ (IsSequence(effects'))
  BY <1>1 DEF RequestInv
<1>2. CASE \E v \in Viewers : VoteToSkip(v) \/ VoteNext(v, 1) \/ VoteNext(v, 2) \/ \E x \in PoolItems : Ask(v, x)
  <2>1. UNCHANGED <<chatStep, requests>>
    BY <1>2 DEF VoteToSkip, VoteNext, Ask
  <2>2. effects' = effects \/ \E e : effects' = Append(effects, e)
    BY <1>2 DEF VoteToSkip, VoteNext, Ask
  <2>3. IsSequence(effects')
    <3>1. IsSequence(effects)
      BY DEF RequestInv
    <3>2. \A e : IsSequence(Append(effects, e))
      BY <3>1, SequenceFacts
    <3> QED BY <2>2, <3>1, <3>2
  <2> QED BY <1>1, <2>1, <2>3
<1>3. CASE PlayoutCycle \/ OperatorSkips \/ SwitchesOff \/ HoldEnds \/ SwitchesOn \/ UNCHANGED viewerVars
           \/ \E x \in PoolItems : OperatorTakes(x)
  BY <1>1, <1>3 DEF PlayoutCycle, OperatorSkips, SwitchesOff, HoldEnds, SwitchesOn, OperatorTakes, viewerVars, RequestInv
<1>4. CASE StepReads
  <2>1. CASE UNCHANGED <<effects, chatStep>>
    BY <1>1, <1>4, <2>1 DEF StepReads, RequestInv
  <2>2. CASE effects' = effects /\ chatStep' = [step |-> "promote", item |-> onRow.item, hold |-> Holds(onRow), queue |-> onRow.queue]
    BY <1>4, <2>2 DEF StepReads, RequestInv
  <2>3. CASE Applying(onRow.item, Holds(onRow), onRow.queue)
    BY <1>4, <2>3, PassBegins DEF StepReads
  <2> QED BY <1>4, <2>1, <2>2, <2>3 DEF StepReads
<1>5. CASE PromoteWinner
  BY <1>5, PassBegins DEF PromoteWinner
<1>6. CASE ApplySkip
  <2> DEFINE todo == Tail(chatStep.todo)
  <2>1. chatStep.step = "apply" /\ PassInv(chatStep, requests) /\ chatStep.todo # <<>>
        /\ UNCHANGED <<effects, requests>> /\ chatStep' = [chatStep EXCEPT !.todo = todo]
    BY <1>6 DEF ApplySkip, RequestInv
  <2>2. IsSequence(todo)
    BY <2>1, SequenceFacts DEF PassInv
  <2> HIDE DEF todo
  <2>3. /\ chatStep'.todo = todo /\ chatStep'.accepted = chatStep.accepted /\ chatStep'.step = "apply"
        /\ DOMAIN chatStep' = DOMAIN chatStep
    BY <2>1 DEF PassInv
  <2>4. PassInv(chatStep', requests)
    BY <2>1, <2>2, <2>3 DEF PassInv
  <2> QED BY <2>1, <2>3, <2>4 DEF RequestInv
<1>7. CASE DecideRequest
  <2> DEFINE wish == Head(chatStep.todo)
             view == QueueView(chatStep.queue, chatStep.accepted)
             A == chatStep.accepted
  <2>1. /\ chatStep.step = "apply" /\ PassInv(chatStep, requests) /\ chatStep.todo # <<>> /\ UNCHANGED effects
        /\ requests' = Marked(requests, view)
    BY <1>7 DEF DecideRequest, RequestInv
  <2>2. PICK f : Thins(requests', requests, f)
    BY <2>1, MarkedThins DEF RequestInv
  <2>3. Rationed(requests')
    BY <2>2, ThinnedIsRationed DEF RequestInv
  <2>4. IsSequence(A) /\ DOMAIN A = 1..Len(A) /\ Len(A) \in Nat /\ IsInjective(A)
    BY <2>1, SequenceFacts DEF PassInv
  <2>5. \A i \in 1..Len(A) : A[i] \in view
    BY <2>4 DEF QueueView, ToSet
  <2>6. Backed(A, requests', Len(A))
    <3>1. Backed(A, requests, Len(A))
      BY <2>1 DEF PassInv
    <3>2. \A i \in 1..Len(A) : \A r \in Waiting(requests) : r.item = A[i] => \E q \in Waiting(requests') : q.item = r.item
      BY <2>1, <2>5, MarkedThins DEF RequestInv
    <3> QED BY <3>1, <3>2, BackedKept
  <2>7. CASE Accepts(requests', view, wish)
    <3>1. chatStep' = [chatStep EXCEPT !.step = "record", !.accepted = Append(A, wish.item)]
      BY <1>7, <2>1, <2>7 DEF DecideRequest
    <3>2. {r \in requests' : r.queued /\ r.item \in view} = Waiting(requests')
      BY <2>1, MarkedThins DEF Waiting, RequestInv
    <3>3. RoomFor(requests', wish)
      <4>1. Cardinality(Waiting(requests')) < RequestLimit
        BY <2>7, <3>2 DEF Accepts
      <4>2. wish.item \notin view
        BY <2>7 DEF Accepts
      <4>3. \A r \in Waiting(requests') : r.item # wish.item
        BY <2>1, <4>2, MarkedThins DEF RequestInv
      <4>4. \A r \in requests' : r.recent => r.actor # wish.actor
        BY <2>7 DEF Accepts
      <4> QED BY <4>1, <4>3, <4>4 DEF RoomFor
    <3>4. Len(A) < RequestLimit /\ RequestLimit \in Nat
      <4>1. Len(A) <= Cardinality(Waiting(requests'))
        BY <2>3, <2>4, <2>6, AcceptedAreFewer
      <4>2. Cardinality(Waiting(requests')) \in Nat
        <5>1. Waiting(requests') \in SUBSET requests'
          BY DEF Waiting
        <5> QED BY <2>3, <5>1, FS_Subset, FS_CardinalityType DEF Rationed
      <4> QED BY <2>4, <3>3, <4>1, <4>2, ViewerAssumption DEF RoomFor
    <3> DEFINE B == Append(A, wish.item)
    <3>5. /\ IsSequence(B) /\ Len(B) = Len(A) + 1 /\ B[Len(A) + 1] = wish.item /\ DOMAIN B = 1..(Len(A) + 1)
          /\ \A i \in 1..Len(A) : B[i] = A[i]
      BY <2>4, SequenceFacts
    <3> HIDE DEF B
    <3>6. IsInjective(B)
      <4>1. \A i \in 1..Len(A) : A[i] # wish.item
        BY <2>5, <2>7 DEF Accepts
      <4> QED BY <2>4, <3>5, <4>1 DEF IsInjective
    <3>7. Backed(B, requests', Len(A))
      BY <2>6, <3>5 DEF Backed
    <3>8. /\ chatStep'.step = "record" /\ chatStep'.accepted = B /\ chatStep'.todo = chatStep.todo
          /\ DOMAIN chatStep' = DOMAIN chatStep
      BY <2>1, <3>1 DEF PassInv, B
    <3>9. B # <<>>
      BY <2>4, <3>5
    <3>10. PassInv(chatStep', requests')
      <4>1. IsSequence(chatStep.todo) /\ {"step", "queue", "todo", "accepted"} \subseteq DOMAIN chatStep
        BY <2>1 DEF PassInv
      <4>2. Len(B) <= RequestLimit /\ Len(B) - 1 = Len(A) /\ B[Len(B)] = wish.item
        BY <2>4, <3>4, <3>5
      <4> QED BY <2>1, <3>3, <3>5, <3>6, <3>7, <3>8, <3>9, <4>1, <4>2 DEF PassInv
    <3> QED BY <2>1, <2>3, <3>8, <3>10 DEF RequestInv, PassInv
  <2>8. CASE ~Accepts(requests', view, wish)
    <3> DEFINE todo == Tail(chatStep.todo)
    <3>1. chatStep' = [chatStep EXCEPT !.todo = todo]
      BY <1>7, <2>1, <2>8 DEF DecideRequest
    <3>2. IsSequence(todo)
      BY <2>1, SequenceFacts DEF PassInv
    <3> HIDE DEF todo
    <3>3. /\ chatStep'.todo = todo /\ chatStep'.accepted = A /\ chatStep'.step = "apply"
          /\ DOMAIN chatStep' = DOMAIN chatStep
      BY <2>1, <3>1 DEF PassInv
    <3>4. PassInv(chatStep', requests')
      BY <2>1, <2>6, <3>2, <3>3 DEF PassInv
    <3> QED BY <2>1, <2>3, <3>3, <3>4 DEF RequestInv, PassInv
  <2> QED BY <2>7, <2>8
<1>8. CASE RecordRequest
  <2> DEFINE wish == Head(chatStep.todo)
             A == chatStep.accepted
             todo == Tail(chatStep.todo)
             new == requests \cup {RecordedRow(wish)}
  <2>1. /\ chatStep.step = "record" /\ PassInv(chatStep, requests) /\ UNCHANGED effects
        /\ requests' = new /\ chatStep' = [chatStep EXCEPT !.step = "apply", !.todo = todo]
    BY <1>8 DEF RecordRequest, RequestInv, RecordedRow
  <2>2. Rationed(new) /\ RecordedRow(wish) \in Waiting(new)
    BY <2>1, RecordedIsRationed DEF PassInv, RequestInv
  <2>3. IsSequence(todo) /\ Len(A) \in Nat /\ A[Len(A)] = wish.item /\ Len(A) <= RequestLimit
    BY <2>1, SequenceFacts DEF PassInv
  <2>4. Backed(A, new, Len(A))
    <3>1. Backed(A, requests, Len(A) - 1)
      BY <2>1 DEF PassInv
    <3>2. \A i \in 1..Len(A) : i = Len(A) \/ i \in 1..(Len(A) - 1)
      BY <2>3
    <3>3. RecordedRow(wish).item = A[Len(A)]
      BY <2>3 DEF RecordedRow
    <3>4. \A r \in Waiting(requests) : r \in Waiting(new)
      BY DEF Waiting
    <3> QED BY <2>2, <3>1, <3>2, <3>3, <3>4 DEF Backed
  <2> HIDE DEF todo, new
  <2>5. /\ chatStep'.todo = todo /\ chatStep'.accepted = A /\ chatStep'.step = "apply"
        /\ DOMAIN chatStep' = DOMAIN chatStep
    BY <2>1 DEF PassInv
  <2>6. PassInv(chatStep', requests')
    BY <2>1, <2>3, <2>4, <2>5 DEF PassInv
  <2> QED BY <2>1, <2>2, <2>5, <2>6 DEF RequestInv, PassInv
<1>9. CASE OpenPoll \/ StepFails \/ ChatRestarts
  <2>1. chatStep' = [step |-> "idle"] /\ requests' = requests /\ (effects' = effects \/ effects' = <<>>)
    BY <1>9 DEF OpenPoll, StepFails, ChatRestarts, Asleep
  <2>2. IsSequence(effects')
    BY <2>1, SequenceFacts DEF RequestInv
  <2> QED BY <2>1, <2>2 DEF RequestInv
<1>10. CASE ViewerTime
  <2>1. UNCHANGED <<chatStep, effects>>
    BY <1>10 DEF ViewerTime
  <2>2. CASE UNCHANGED requests
    BY <1>1, <2>1, <2>2 DEF RequestInv
  <2>3. CASE \E r \in requests : requests' = Cooled(requests, r)
    <3>1. PICK r \in requests : requests' = Cooled(requests, r)
      BY <2>3
    <3>2. PICK f : Thins(requests', requests, f)
      BY <3>1, CooledThins DEF RequestInv
    <3>3. Rationed(requests') /\ \A wish : RoomFor(requests, wish) => RoomFor(requests', wish)
      BY <3>2, ThinnedIsRationed DEF RequestInv
    <3>4. \A p \in Waiting(requests) : \E q \in Waiting(requests') : q.item = p.item
      BY <3>1, CooledThins DEF RequestInv
    <3>5. \A accepted, n : Backed(accepted, requests, n) => Backed(accepted, requests', n)
      BY <3>4 DEF Backed
    <3>6. PassInv(chatStep, requests) => PassInv(chatStep, requests')
      BY <3>3, <3>5 DEF PassInv
    <3> QED BY <2>1, <3>3, <3>6 DEF RequestInv
  <2> QED BY <1>10, <2>2, <2>3 DEF ViewerTime, Cooled
<1> QED BY <1>2, <1>3, <1>4, <1>5, <1>6, <1>7, <1>8, <1>9, <1>10 DEF ViewerNext

\* However many requests come between two cycles, and whatever becomes of the queue, the rows and the
\* worker meanwhile: a pass accepts no more than the limit and nothing twice, and the rows on record
\* stay within the limit, one per item, and one per viewer within the cooldown.
THEOREM RequestsStayRationed == ViewerSpec => []RequestsAreRationed
<1>1. RequestInv => RequestsAreRationed
  <2>1. Rationed(requests) =>
          /\ Cardinality({r \in requests : r.queued}) <= RequestLimit
          /\ \A r, q \in requests : r # q => /\ r.queued /\ q.queued => r.item # q.item
                                             /\ r.recent /\ q.recent => r.actor # q.actor
    BY DEF Rationed, Waiting
  <2> QED BY <2>1 DEF RequestInv, PassInv, RequestsAreRationed
<1> QED BY <1>1, RequestInit, RequestNext, PTL DEF ViewerSpec

---------------------------------------------------------------------------
(* The queues viewers fill                                                *)

LEMMA LeastIs == \A T \in SUBSET Nat : T # {} => \E x \in T : \A y \in T : x <= y
<1> SUFFICES ASSUME NEW T \in SUBSET Nat, T # {} PROVE \E x \in T : \A y \in T : x <= y
  OBVIOUS
<1>1. PICK x \in T : \A y \in T : ~(<<y, x>> \in OpToRel(<, Nat))
  BY NatLessThanWellFounded, WFMin
<1>2. \A y \in T : ~(y < x)
  BY <1>1 DEF OpToRel
<1> QED BY <1>2

\* Of k entries that stay, one is the k-th.
LEMMA RankIsTaken ==
    \A n \in Nat : \A kept \in SUBSET (1..n) : \A k \in 1..Cardinality(kept) :
        \E i \in kept : Cardinality({j \in kept : j <= i}) = k
<1> SUFFICES ASSUME NEW n \in Nat, NEW kept \in SUBSET (1..n), NEW k \in 1..Cardinality(kept)
             PROVE  \E i \in kept : Cardinality({j \in kept : j <= i}) = k
  OBVIOUS
<1> DEFINE UpTo(i) == {j \in kept : j <= i}
           T == {i \in Nat : i <= n /\ Cardinality(UpTo(i)) >= k}
<1>0. kept \subseteq 1..n /\ \A j \in kept : j \in Nat /\ 1 <= j /\ j <= n
  OBVIOUS
<1>1. IsFiniteSet(kept) /\ Cardinality(kept) \in Nat
  <2>1. 1 \in Int /\ n \in Int
    OBVIOUS
  <2>2. IsFiniteSet(1..n)
    BY ONLY <2>1, FS_Interval
  <2> QED BY ONLY <1>0, <2>2, FS_Subset, FS_CardinalityType
<1>2. \A i \in Nat : UpTo(i) \subseteq kept /\ IsFiniteSet(UpTo(i)) /\ Cardinality(UpTo(i)) \in Nat
  <2> SUFFICES ASSUME NEW i \in Nat
               PROVE  UpTo(i) \subseteq kept /\ IsFiniteSet(UpTo(i)) /\ Cardinality(UpTo(i)) \in Nat
    OBVIOUS
  <2>1. UpTo(i) \subseteq kept
    OBVIOUS
  <2> HIDE DEF UpTo
  <2> QED BY ONLY <1>1, <2>1, FS_Subset, FS_CardinalityType
<1>3. \A i \in Nat : \A j : j \in UpTo(i) <=> j \in kept /\ j <= i
  OBVIOUS
<1> HIDE DEF UpTo
<1>4. UpTo(n) = kept /\ UpTo(0) = {}
  <2>0. 0 \in Nat /\ n \in Nat
    OBVIOUS
  <2>2. /\ \A j : j \in UpTo(n) <=> j \in kept /\ j <= n
        /\ \A j : j \in UpTo(0) <=> j \in kept /\ j <= 0
    BY ONLY Zenon, <1>3, <2>0
  <2>1. \A j : (j \in UpTo(n) <=> j \in kept) /\ (j \in UpTo(0) <=> j \in {})
    <3>1. \A j \in kept : j <= n /\ ~(j <= 0)
      BY <1>0
    <3> QED BY ONLY Zenon, <2>2, <3>1
  <2> QED BY ONLY Zenon, <2>1
<1>5. Cardinality(UpTo(0)) = 0
  BY ONLY <1>4, FS_EmptySet
<1>6. k \in Nat /\ k > 0 /\ k <= Cardinality(UpTo(n))
  BY <1>1, <1>4
<1>7. n \in T /\ T \in SUBSET Nat
  BY <1>1, <1>4, <1>6
<1>8. PICK i \in T : \A y \in T : i <= y
  BY <1>7, LeastIs
<1>9. i \in Nat /\ i <= n /\ Cardinality(UpTo(i)) >= k
  BY <1>8
<1>10. i # 0
  BY ONLY <1>5, <1>6, <1>9
<1>11. i - 1 \in Nat /\ i - 1 <= n /\ i - 1 \notin T
  BY <1>8, <1>9, <1>10
<1>12. ~(Cardinality(UpTo(i - 1)) >= k)
  BY <1>11
<1> HIDE DEF T
<1>13. i \in kept
  <2>1. i \notin kept => UpTo(i) = UpTo(i - 1)
    <3>1. i \notin kept => \A j \in kept : j <= i <=> j <= i - 1
      BY <1>0, <1>9
    <3> QED BY ONLY Zenon, <1>3, <1>9, <1>11, <3>1
  <2> QED BY ONLY <1>9, <1>12, <2>1
<1>14. Cardinality(UpTo(i)) = Cardinality(UpTo(i - 1)) + 1
  <2>1. UpTo(i) = UpTo(i - 1) \cup {i} /\ i \notin UpTo(i - 1)
    <3>1. \A j \in kept : j <= i <=> j <= i - 1 \/ j = i
      BY <1>0, <1>9
    <3>2. i <= i /\ ~(i <= i - 1)
      BY <1>9
    <3> QED BY ONLY Zenon, <1>3, <1>9, <1>11, <1>13, <3>1, <3>2
  <2>2. IsFiniteSet(UpTo(i - 1))
    BY ONLY <1>2, <1>11
  <2> QED BY ONLY <2>1, <2>2, FS_AddElement
<1>15. Cardinality(UpTo(i)) = k
  <2>1. Cardinality(UpTo(i)) \in Nat /\ Cardinality(UpTo(i - 1)) \in Nat
    BY ONLY <1>2, <1>9, <1>11
  <2> QED BY ONLY <1>6, <1>9, <1>12, <1>14, <2>1
<1> QED BY <1>13, <1>15 DEF UpTo

\* A queue stays one of the same items; and it is not empty if an item stays.
LEMMA WithoutIsQueue ==
    \A S : \A s \in Seq(S) : \A x :
        /\ Without(s, x) \in Seq(S)
        /\ (\E i \in DOMAIN s : s[i] # x) => Without(s, x)[1] \in S
<1> SUFFICES ASSUME NEW S, NEW s \in Seq(S), NEW x
             PROVE  /\ Without(s, x) \in Seq(S)
                    /\ (\E i \in DOMAIN s : s[i] # x) => Without(s, x)[1] \in S
  OBVIOUS
<1> DEFINE kept == {i \in DOMAIN s : s[i] # x}
           Kth(k) == CHOOSE i \in kept : Cardinality({j \in kept : j <= i}) = k
<1>1. Len(s) \in Nat /\ DOMAIN s = 1..Len(s) /\ \A i \in 1..Len(s) : s[i] \in S
  OBVIOUS
<1>2. kept \in SUBSET (1..Len(s))
  BY <1>1
<1>3. IsFiniteSet(kept) /\ Cardinality(kept) \in Nat
  <2>1. 1 \in Int /\ Len(s) \in Int /\ kept \subseteq 1..Len(s)
    BY <1>1, <1>2
  <2>2. IsFiniteSet(1..Len(s))
    BY ONLY <2>1, FS_Interval
  <2> QED BY ONLY <2>1, <2>2, FS_Subset, FS_CardinalityType
<1>4. Without(s, x) = [k \in 1..Cardinality(kept) |-> s[Kth(k)]]
  BY DEF Without
<1>5. \A k \in 1..Cardinality(kept) : Kth(k) \in kept
  <2> HIDE DEF kept
  <2> SUFFICES ASSUME NEW k \in 1..Cardinality(kept) PROVE Kth(k) \in kept
    OBVIOUS
  <2>1. \E i \in kept : Cardinality({j \in kept : j <= i}) = k
    BY <1>1, <1>2, RankIsTaken
  <2> QED BY <2>1
<1> HIDE DEF Kth
<1>6. \A k \in 1..Cardinality(kept) : s[Kth(k)] \in S
  BY <1>1, <1>2, <1>5
<1> HIDE DEF kept
<1>7. Without(s, x) \in Seq(S)
  BY <1>3, <1>4, <1>6
<1>8. ASSUME NEW i \in DOMAIN s, s[i] # x PROVE Without(s, x)[1] \in S
  <2>1. i \in kept
    BY <1>8 DEF kept
  <2>2. Cardinality(kept) # 0
    BY <1>3, <2>1, FS_EmptySet
  <2>3. 1 \in 1..Cardinality(kept)
    BY <1>3, <2>2
  <2> QED BY <1>4, <1>6, <2>3
<1> QED BY <1>7, <1>8

---------------------------------------------------------------------------
(* The rotation viewers see                                               *)

LEMMA ProgrammeFacts ==
    /\ Programme \in Seq(PoolItems) /\ Len(Programme) \in Nat /\ Len(Programme) > 1
    /\ DOMAIN Programme = 1..Len(Programme)
    /\ \A i \in 1..Len(Programme) : Programme[i] \in PoolItems
    /\ \A x \in PoolItems : \E i \in 1..Len(Programme) : Programme[i] = x
    /\ \A i, j \in 1..Len(Programme) : Programme[i] = Programme[j] => i = j
    /\ Nobody \notin PoolItems /\ "none" \notin PoolItems /\ "operator" \notin PoolItems
<1>1. Programme \in Seq(PoolItems) /\ Len(Programme) > 1 /\ IsInjective(Programme)
  BY ViewerAssumption DEF PoolItems
<1>2. DOMAIN Programme = 1..Len(Programme) /\ Len(Programme) \in Nat
  BY <1>1
<1>3. PoolItems = {Programme[i] : i \in DOMAIN Programme}
  BY DEF PoolItems, ToSet
<1>4. \A i, j \in 1..Len(Programme) : Programme[i] = Programme[j] => i = j
  BY <1>1, <1>2 DEF IsInjective
<1>5. Nobody \notin PoolItems /\ "none" \notin PoolItems /\ "operator" \notin PoolItems
  BY ViewerAssumption DEF PoolItems
<1> QED BY <1>1, <1>2, <1>3, <1>4, <1>5

LEMMA Wraps ==
    \A n \in Nat \ {0} : /\ \A a \in 0..(n - 1) : a % n = a
                         /\ \A a \in n..(2 * n - 1) : a % n = a - n
                         /\ \A a \in Nat : a % n \in 0..(n - 1)
<1>1. \A n \in Nat \ {0} : \A a \in 0..(n - 1) : a % n = a
  OBVIOUS
<1>2. \A n \in Nat \ {0} : \A a \in n..(2 * n - 1) : a % n = a - n
  OBVIOUS
<1>3. \A n \in Nat \ {0} : \A a \in Nat : a % n \in 0..(n - 1)
  OBVIOUS
<1> QED BY <1>1, <1>2, <1>3

\* Whatever a skip holds out, an item follows: the pool has more than one.
LEMMA PoolGoesOn ==
    \A x \in PoolItems : \A skip : /\ AfterInPool(x, skip) \in Seq(PoolItems)
                                   /\ AfterInPool(x, skip)[1] \in PoolItems
<1> SUFFICES ASSUME NEW x \in PoolItems, NEW skip
             PROVE  AfterInPool(x, skip) \in Seq(PoolItems) /\ AfterInPool(x, skip)[1] \in PoolItems
  OBVIOUS
<1> DEFINE n == Len(Programme)
           at == CHOOSE i \in DOMAIN Programme : Programme[i] = x
           round == [i \in 1..n |-> Programme[((at + i - 1) % n) + 1]]
<1>1. at \in 1..n
  BY ProgrammeFacts
<1>2. n \in Nat /\ n > 1
  BY ProgrammeFacts
<1>3. AfterInPool(x, skip) = Without(round, skip)
  BY DEF AfterInPool
<1> HIDE DEF at, n
<1>4. \A i \in 1..n : (at + i - 1) % n \in 0..(n - 1)
  BY <1>1, <1>2, Wraps
<1>5. \A i \in 1..n : ((at + i - 1) % n) + 1 \in 1..n
  BY <1>2, <1>4
<1>6. \A i \in 1..n : Programme[((at + i - 1) % n) + 1] \in PoolItems
  BY <1>5, ProgrammeFacts DEF n
<1>7. round \in Seq(PoolItems) /\ DOMAIN round = 1..n
  BY <1>2, <1>6
<1>8. (at + 1 - 1) % n # (at + 2 - 1) % n
  <2>1. at + 1 - 1 = at /\ at + 2 - 1 = at + 1
    BY <1>1, <1>2
  <2>2. CASE at < n - 1
    <3>1. at \in 0..(n - 1) /\ at + 1 \in 0..(n - 1) /\ n \in Nat \ {0}
      BY <1>1, <1>2, <2>2
    <3>2. at % n = at /\ (at + 1) % n = at + 1
      BY <3>1, Wraps
    <3> QED BY <1>1, <2>1, <3>2
  <2>3. CASE at = n - 1
    <3>1. at % n = n - 1
      <4>1. at \in 0..(n - 1) /\ n \in Nat \ {0}
        BY <1>1, <1>2, <2>3
      <4>2. at % n = at
        BY <4>1, Wraps
      <4> QED BY <2>3, <4>2
    <3>2. n % n = 0
      BY <1>2, Wraps
    <3> QED BY <1>2, <2>1, <2>3, <3>1, <3>2
  <2>4. CASE at = n
    <3>1. n % n = 0 /\ (n + 1) % n = 1
      BY <1>2, Wraps
    <3> QED BY <2>1, <2>4, <3>1
  <2> QED BY <1>1, <1>2, <2>2, <2>3, <2>4
<1>9. round[1] # round[2]
  <2>1. 1 \in 1..n /\ 2 \in 1..n
    BY <1>2
  <2>2. ((at + 1 - 1) % n) + 1 # ((at + 2 - 1) % n) + 1
    BY <1>4, <1>8, <2>1
  <2>3. ((at + 1 - 1) % n) + 1 \in 1..n /\ ((at + 2 - 1) % n) + 1 \in 1..n
    BY <1>5, <2>1
  <2>4. Programme[((at + 1 - 1) % n) + 1] # Programme[((at + 2 - 1) % n) + 1]
    BY <2>2, <2>3, ProgrammeFacts DEF n
  <2> QED BY <2>1, <2>4
<1>10. \E i \in DOMAIN round : round[i] # skip
  <2>1. 1 \in DOMAIN round /\ 2 \in DOMAIN round
    BY <1>2, <1>7
  <2> QED BY <1>9, <2>1
<1> HIDE DEF round
<1>11. Without(round, skip) \in Seq(PoolItems) /\ Without(round, skip)[1] \in PoolItems
  BY ONLY <1>7, <1>10, WithoutIsQueue
<1> QED BY ONLY <1>3, <1>11

LEMMA QueueIsOfPool ==
    \A x : \A cursor \in PoolItems : \A skip : PoolQueue(x, cursor, skip) \in Seq(PoolItems)
BY PoolGoesOn, WithoutIsQueue DEF PoolQueue

---------------------------------------------------------------------------
(* The types of what viewers bring about                                  *)

RowsOnAir == [item : PoolItems, held : PoolItems \cup {Nobody}, skip : PoolItems \cup {Nobody},
         restart : {"none", "operator"} \cup PoolItems, cursor : PoolItems, queue : Seq(PoolItems)]
KnownRows == [item : PoolItems \cup {Nobody}, hold : BOOLEAN, enabled : BOOLEAN]
Campaigns == [item : PoolItems \cup {Nobody}, voters : SUBSET Viewers, fresh : BOOLEAN]
Passed == [kind : {"skip-passed"}, item : PoolItems]
Wishes == [kind : {"request"}, item : PoolItems, actor : Viewers]
RequestRows == [actor : Viewers, item : PoolItems, queued : BOOLEAN, recent : BOOLEAN]

PollFits(poll) ==
    /\ {"status", "options", "ballots", "due", "winner"} \subseteq DOMAIN poll
    /\ poll.status \in {"open", "closed"} /\ poll.options \in Seq(PoolItems)
    /\ DOMAIN poll.ballots \subseteq Viewers /\ poll.winner \in PoolItems \cup {Nobody}

\* What the chat step still has to do is of what the socket collected; the effect it records is a request.
StepFits(s, poll) ==
    \/ s = Asleep
    \/ s \in [step : {"promote"}, item : PoolItems, hold : BOOLEAN, queue : Seq(PoolItems)]
       /\ poll.winner \in PoolItems
    \/ /\ s \in [step : {"apply", "record"}, queue : Seq(PoolItems), todo : Seq(Passed \cup Wishes),
                 accepted : Seq(PoolItems)]
       /\ s.step = "record" => s.todo # <<>> /\ Head(s.todo).kind = "request"

ViewerTypes ==
    /\ chatOn \in BOOLEAN /\ offered \in Offers
    /\ onRow \in RowsOnAir /\ known \in KnownRows /\ campaign \in Campaigns
    /\ effects \in Seq(Passed \cup Wishes) /\ requests \subseteq RequestRows
    /\ PollFits(session) /\ StepFits(chatStep, session)

LEMMA ViewerTypesSuffice == ViewerTypes => ViewerTypeOK
<1> SUFFICES ASSUME ViewerTypes PROVE ViewerTypeOK
  OBVIOUS
<1>1. /\ onRow.item \in PoolItems /\ onRow.cursor \in PoolItems /\ onRow.queue \in Seq(PoolItems)
      /\ {onRow.held, onRow.skip} \subseteq PoolItems \cup {Nobody}
      /\ onRow.restart \in {"none", "operator"} \cup PoolItems
  BY DEF ViewerTypes, RowsOnAir
<1>2. campaign.voters \subseteq Viewers /\ campaign.item \in PoolItems \cup {Nobody}
  BY DEF ViewerTypes, Campaigns
<1>3. session.status \in {"open", "closed"} /\ DOMAIN session.ballots \subseteq Viewers
  BY DEF ViewerTypes, PollFits
<1>4. chatStep.step \in {"idle", "promote", "apply", "record"}
  BY DEF ViewerTypes, StepFits, Asleep
<1>5. requests \subseteq RequestRows /\ chatOn \in BOOLEAN /\ offered \in Offers
  BY DEF ViewerTypes
<1> QED BY <1>1, <1>2, <1>3, <1>4, <1>5 DEF ViewerTypeOK, RequestRows

LEMMA NothingFits ==
    /\ NothingKnown \in KnownRows /\ NoCampaign \in Campaigns /\ <<>> \in Seq(Passed \cup Wishes)
    /\ PollFits(NoPoll) /\ \A poll : StepFits(Asleep, poll)
<1>1. NothingKnown \in KnownRows /\ NoCampaign \in Campaigns
  BY DEF NothingKnown, KnownRows, NoCampaign, Campaigns
<1>2. PollFits(NoPoll)
  BY DEF NoPoll, PollFits
<1>3. <<>> \in Seq(Passed \cup Wishes)
  OBVIOUS
<1> QED BY <1>1, <1>2, <1>3 DEF StepFits

LEMMA ViewerStartTyped == ViewerInit => ViewerTypes
<1> SUFFICES ASSUME ViewerInit PROVE ViewerTypes
  OBVIOUS
<1>1. Programme[1] \in PoolItems
  BY ProgrammeFacts
<1>2. onRow \in RowsOnAir
  <2>1. PoolQueue(Programme[1], Programme[1], Nobody) \in Seq(PoolItems)
    BY <1>1, QueueIsOfPool
  <2>2. onRow = [item |-> Programme[1], held |-> Nobody, skip |-> Nobody, restart |-> "none",
                 cursor |-> Programme[1], queue |-> PoolQueue(Programme[1], Programme[1], Nobody)]
    BY DEF ViewerInit
  <2> QED BY ONLY <1>1, <2>1, <2>2 DEF RowsOnAir
<1>3. /\ chatOn \in BOOLEAN /\ offered \in Offers
      /\ known = NothingKnown /\ campaign = NoCampaign /\ effects = <<>> /\ session = NoPoll
      /\ requests = {} /\ chatStep = Asleep
  BY DEF ViewerInit
<1>4. requests \subseteq RequestRows
  BY <1>3
<1> QED BY <1>2, <1>3, <1>4, NothingFits DEF ViewerTypes

LEMMA EffectFacts ==
    /\ \A q \in Seq(Passed \cup Wishes) : \A e \in Passed \cup Wishes : Append(q, e) \in Seq(Passed \cup Wishes)
    /\ \A q \in Seq(Passed \cup Wishes) :
          q # <<>> => Head(q) \in Passed \cup Wishes /\ Tail(q) \in Seq(Passed \cup Wishes)
    /\ \A e \in Passed \cup Wishes : (e.kind = "request" => e \in Wishes)
                                     /\ (e.kind = "skip-passed" => e \in Passed)
<1>1. \A q \in Seq(Passed \cup Wishes) : \A e \in Passed \cup Wishes : Append(q, e) \in Seq(Passed \cup Wishes)
  OBVIOUS
<1>2. \A q \in Seq(Passed \cup Wishes) :
          q # <<>> => Head(q) \in Passed \cup Wishes /\ Tail(q) \in Seq(Passed \cup Wishes)
  OBVIOUS
<1>3. \A e \in Passed \cup Wishes : (e.kind = "request" => e \in Wishes)
                                     /\ (e.kind = "skip-passed" => e \in Passed)
  BY DEF Passed, Wishes
<1> QED BY <1>1, <1>2, <1>3

LEMMA RowChanges ==
    ASSUME NEW r \in RowsOnAir, NEW x \in PoolItems, NEW y \in PoolItems \cup {Nobody}, NEW q \in Seq(PoolItems)
    PROVE  /\ [r EXCEPT !.queue = q] \in RowsOnAir
           /\ [r EXCEPT !.restart = x, !.skip = x] \in RowsOnAir
           /\ [r EXCEPT !.held = x, !.skip = y] \in RowsOnAir
           /\ [r EXCEPT !.held = Nobody] \in RowsOnAir
           /\ [r EXCEPT !.skip = Nobody] \in RowsOnAir
           /\ [r EXCEPT !.held = Nobody, !.skip = x, !.restart = "operator"] \in RowsOnAir
           /\ \A c \in PoolItems :
                 [r EXCEPT !.item = x, !.cursor = c, !.restart = "none", !.queue = q] \in RowsOnAir
<1>1. [r EXCEPT !.queue = q] \in RowsOnAir
  BY ONLY r \in RowsOnAir, x \in PoolItems, y \in PoolItems \cup {Nobody}, q \in Seq(PoolItems) DEF RowsOnAir
<1>2. [r EXCEPT !.restart = x, !.skip = x] \in RowsOnAir
  BY ONLY r \in RowsOnAir, x \in PoolItems, y \in PoolItems \cup {Nobody}, q \in Seq(PoolItems) DEF RowsOnAir
<1>3. [r EXCEPT !.held = x, !.skip = y] \in RowsOnAir
  BY ONLY r \in RowsOnAir, x \in PoolItems, y \in PoolItems \cup {Nobody}, q \in Seq(PoolItems) DEF RowsOnAir
<1>4. [r EXCEPT !.held = Nobody] \in RowsOnAir
  BY ONLY r \in RowsOnAir, x \in PoolItems, y \in PoolItems \cup {Nobody}, q \in Seq(PoolItems) DEF RowsOnAir
<1>5. [r EXCEPT !.skip = Nobody] \in RowsOnAir
  BY ONLY r \in RowsOnAir, x \in PoolItems, y \in PoolItems \cup {Nobody}, q \in Seq(PoolItems) DEF RowsOnAir
<1>6. [r EXCEPT !.held = Nobody, !.skip = x, !.restart = "operator"] \in RowsOnAir
  BY ONLY r \in RowsOnAir, x \in PoolItems, y \in PoolItems \cup {Nobody}, q \in Seq(PoolItems) DEF RowsOnAir
<1>7. ASSUME NEW c \in PoolItems
      PROVE  [r EXCEPT !.item = x, !.cursor = c, !.restart = "none", !.queue = q] \in RowsOnAir
  BY DEF RowsOnAir
<1> QED BY <1>1, <1>2, <1>3, <1>4, <1>5, <1>6, <1>7

LEMMA RowHas ==
    \A r \in RowsOnAir : /\ r.item \in PoolItems /\ r.cursor \in PoolItems /\ r.queue \in Seq(PoolItems)
                      /\ r.held \in PoolItems \cup {Nobody} /\ r.skip \in PoolItems \cup {Nobody}
                      /\ Holds(r) \in BOOLEAN /\ (Holds(r) => r.held \in PoolItems)
<1> SUFFICES ASSUME NEW r \in RowsOnAir
             PROVE  /\ r.item \in PoolItems /\ r.cursor \in PoolItems /\ r.queue \in Seq(PoolItems)
                    /\ r.held \in PoolItems \cup {Nobody} /\ r.skip \in PoolItems \cup {Nobody}
                    /\ Holds(r) \in BOOLEAN /\ (Holds(r) => r.held \in PoolItems)
  OBVIOUS
<1>1. /\ r.item \in PoolItems /\ r.cursor \in PoolItems /\ r.queue \in Seq(PoolItems)
      /\ r.held \in PoolItems \cup {Nobody} /\ r.skip \in PoolItems \cup {Nobody}
  BY DEF RowsOnAir
<1>2. Holds(r) \in BOOLEAN
  BY Zenon DEF Holds
<1> QED BY <1>1, <1>2 DEF Holds

\* The winner of a poll is one of its options.
LEMMA WinnerIsOption == PollFits(session) => Winner \in PoolItems \cup {Nobody}
<1> SUFFICES ASSUME PollFits(session) PROVE Winner \in PoolItems \cup {Nobody}
  OBVIOUS
<1> DEFINE leaders == {i \in DOMAIN session.options :
                           \A j \in DOMAIN session.options : VotesFor(j) <= VotesFor(i)}
           first == CHOOSE i \in leaders : TRUE
<1>1. Winner = IF Cardinality(DOMAIN session.ballots) >= VoteMinimum /\ Cardinality(leaders) = 1
               THEN session.options[first] ELSE Nobody
  BY DEF Winner
<1>2. leaders \subseteq DOMAIN session.options
  OBVIOUS
<1>3. Cardinality(leaders) = 1 => leaders # {}
  <2> HIDE DEF leaders
  <2> QED BY FS_EmptySet
<1>4. leaders # {} => first \in leaders
  OBVIOUS
<1>5. \A i \in DOMAIN session.options : session.options[i] \in PoolItems
  BY DEF PollFits
<1> HIDE DEF leaders, first
<1> QED BY <1>1, <1>2, <1>3, <1>4, <1>5

\* What a step that applies has taken is what the socket has collected.
LEMMA ApplyingFits ==
    ASSUME ViewerTypes, NEW x \in PoolItems, NEW hold \in BOOLEAN, NEW queue \in Seq(PoolItems),
           Applying(x, hold, queue)
    PROVE  /\ known' \in KnownRows /\ campaign' \in Campaigns /\ effects' \in Seq(Passed \cup Wishes)
           /\ \A poll : StepFits(chatStep', poll)
<1>1. /\ known' = [item |-> x, hold |-> hold, enabled |-> TRUE]
      /\ campaign' \in {campaign, NoCampaign}
      /\ chatStep' = [step |-> "apply", queue |-> queue, todo |-> effects, accepted |-> <<>>]
      /\ effects' = <<>>
  BY DEF Applying
<1>2. known' \in KnownRows
  BY <1>1 DEF KnownRows
<1>3. campaign' \in Campaigns
  BY <1>1, NothingFits DEF ViewerTypes
<1>4. effects' \in Seq(Passed \cup Wishes)
  BY <1>1, NothingFits
<1>5. \A poll : StepFits(chatStep', poll)
  <2>1. effects \in Seq(Passed \cup Wishes) /\ <<>> \in Seq(PoolItems)
    BY DEF ViewerTypes
  <2>2. chatStep' \in [step : {"apply", "record"}, queue : Seq(PoolItems), todo : Seq(Passed \cup Wishes),
                       accepted : Seq(PoolItems)]
    BY ONLY <1>1, <2>1, queue \in Seq(PoolItems)
  <2>3. chatStep'.step # "record"
    BY <1>1
  <2> QED BY <2>2, <2>3 DEF StepFits
<1> QED BY <1>2, <1>3, <1>4, <1>5

\* What the socket does.
LEMMA SocketFits ==
    ASSUME ViewerTypes, NEW v \in Viewers,
           \/ VoteToSkip(v) \/ VoteNext(v, 1) \/ VoteNext(v, 2)
           \/ \E x \in PoolItems : Ask(v, x)
    PROVE  ViewerTypes'
<1>1. CASE VoteToSkip(v)
  <2>1. /\ known.item # Nobody
        /\ campaign' = [item |-> known.item, voters |-> TallyBefore \cup {v}, fresh |-> TRUE]
        /\ effects' \in {effects, Append(effects, [kind |-> "skip-passed", item |-> known.item])}
        /\ UNCHANGED <<chatOn, offered, onRow, known, session, requests, chatStep>>
    BY <1>1 DEF VoteToSkip
  <2>2. known.item \in PoolItems
    BY <2>1 DEF ViewerTypes, KnownRows
  <2>3. campaign' \in Campaigns
    <3>1. TallyBefore \subseteq Viewers
      BY DEF TallyBefore, ViewerTypes, Campaigns
    <3> QED BY <2>1, <2>2, <3>1 DEF Campaigns
  <2>4. effects' \in Seq(Passed \cup Wishes)
    <3>1. [kind |-> "skip-passed", item |-> known.item] \in Passed \cup Wishes
      BY <2>2 DEF Passed
    <3>2. effects \in Seq(Passed \cup Wishes)
      BY DEF ViewerTypes
    <3> QED BY <2>1, <3>1, <3>2, EffectFacts
  <2> QED BY <2>1, <2>3, <2>4 DEF ViewerTypes
<1>2. ASSUME NEW option \in {1, 2}, VoteNext(v, option) PROVE ViewerTypes'
  <2>1. /\ session' = [session EXCEPT !.ballots =
                [w \in DOMAIN session.ballots \cup {v} |-> IF w = v THEN option ELSE session.ballots[w]]]
        /\ UNCHANGED <<chatOn, offered, onRow, known, campaign, effects, requests, chatStep>>
    BY <1>2 DEF VoteNext
  <2>2. PollFits(session') /\ session'.winner = session.winner
    BY <2>1 DEF ViewerTypes, PollFits
  <2>3. StepFits(chatStep', session')
    BY <2>1, <2>2 DEF ViewerTypes, StepFits
  <2> QED BY <2>1, <2>2, <2>3 DEF ViewerTypes
<1>3. ASSUME NEW x \in PoolItems, Ask(v, x) PROVE ViewerTypes'
  <2>1. /\ effects' = Append(effects, [kind |-> "request", item |-> x, actor |-> v])
        /\ UNCHANGED <<chatOn, offered, onRow, known, campaign, session, requests, chatStep>>
    BY <1>3 DEF Ask
  <2>2. [kind |-> "request", item |-> x, actor |-> v] \in Passed \cup Wishes
    BY DEF Wishes
  <2>3. effects' \in Seq(Passed \cup Wishes)
    BY <2>1, <2>2, EffectFacts DEF ViewerTypes
  <2> QED BY <2>1, <2>3 DEF ViewerTypes
<1> QED BY <1>1, <1>2, <1>3

\* What the chat step does.
LEMMA ChatStepFits ==
    ASSUME ViewerTypes, StepReads \/ PromoteWinner \/ ApplySkip \/ DecideRequest \/ RecordRequest \/ OpenPoll
    PROVE  ViewerTypes'
<1>0. /\ onRow \in RowsOnAir /\ onRow.item \in PoolItems /\ onRow.queue \in Seq(PoolItems)
      /\ Holds(onRow) \in BOOLEAN
  BY RowHas DEF ViewerTypes
<1>1. CASE StepReads
  <2>0. UNCHANGED <<chatOn, offered, onRow, requests>>
    BY <1>1 DEF StepReads
  <2>1. CASE ~chatOn
    <3>1. known' = [known EXCEPT !.enabled = FALSE] /\ campaign' = NoCampaign
          /\ UNCHANGED <<effects, session, chatStep>>
      BY <1>1, <2>1 DEF StepReads
    <3>2. known' \in KnownRows
      BY <3>1 DEF ViewerTypes, KnownRows
    <3>3. campaign' \in Campaigns
      BY <3>1, NothingFits
    <3> QED BY <2>0, <3>1, <3>2, <3>3 DEF ViewerTypes
  <2>2. CASE chatOn
    <3>1. session' = IF Settles THEN [NoPoll EXCEPT !.winner = Winner] ELSE session
      BY <1>1, <2>2 DEF StepReads
    <3>2. PollFits(session')
      <4>1. Winner \in PoolItems \cup {Nobody} /\ PollFits(session)
        BY WinnerIsOption DEF ViewerTypes
      <4>2. CASE Settles
        BY <3>1, <4>1, <4>2 DEF NoPoll, PollFits
      <4> QED BY <3>1, <4>1, <4>2
    <3>3. CASE Settles /\ Winner # Nobody
      <4>1. /\ chatStep' = [step |-> "promote", item |-> onRow.item, hold |-> Holds(onRow), queue |-> onRow.queue]
            /\ known' = [known EXCEPT !.enabled = TRUE] /\ UNCHANGED <<campaign, effects>>
        BY <1>1, <2>2, <3>3 DEF StepReads
      <4>2. session'.winner \in PoolItems
        <5>1. session' = [NoPoll EXCEPT !.winner = Winner]
          BY <3>1, <3>3
        <5>2. session'.winner = Winner
          BY ONLY <5>1 DEF NoPoll
        <5>3. Winner \in PoolItems
          BY <3>3, WinnerIsOption DEF ViewerTypes
        <5> QED BY <5>2, <5>3
      <4>3. chatStep' \in [step : {"promote"}, item : PoolItems, hold : BOOLEAN, queue : Seq(PoolItems)]
        BY ONLY <1>0, <4>1
      <4>4. StepFits(chatStep', session')
        BY <4>2, <4>3 DEF StepFits
      <4>5. known' \in KnownRows
        BY <4>1 DEF ViewerTypes, KnownRows
      <4> QED BY <2>0, <3>2, <4>1, <4>4, <4>5 DEF ViewerTypes
    <3>4. CASE ~(Settles /\ Winner # Nobody)
      <4>1. Applying(onRow.item, Holds(onRow), onRow.queue)
        BY <1>1, <2>2, <3>4 DEF StepReads
      <4> QED BY <1>0, <2>0, <3>2, <4>1, ApplyingFits DEF ViewerTypes
    <3> QED BY <3>3, <3>4
  <2> QED BY <2>1, <2>2
<1>2. CASE PromoteWinner
  <2>1. /\ chatStep.step = "promote"
        /\ onRow' = [onRow EXCEPT !.queue = <<session.winner>> \o Without(chatStep.queue, session.winner)]
        /\ Applying(chatStep.item, chatStep.hold, chatStep.queue)
        /\ UNCHANGED <<chatOn, offered, session, requests>>
    BY <1>2 DEF PromoteWinner
  <2>2. /\ chatStep \in [step : {"promote"}, item : PoolItems, hold : BOOLEAN, queue : Seq(PoolItems)]
        /\ session.winner \in PoolItems
    BY <2>1 DEF ViewerTypes, StepFits, Asleep
  <2>3. chatStep.item \in PoolItems /\ chatStep.hold \in BOOLEAN /\ chatStep.queue \in Seq(PoolItems)
    BY <2>2
  <2>4. onRow' \in RowsOnAir
    <3>1. Without(chatStep.queue, session.winner) \in Seq(PoolItems)
      BY <2>3, WithoutIsQueue
    <3>2. <<session.winner>> \o Without(chatStep.queue, session.winner) \in Seq(PoolItems)
      BY <2>2, <3>1
    <3> QED BY <1>0, <2>1, <3>2 DEF RowsOnAir
  <2> QED BY <2>1, <2>3, <2>4, ApplyingFits DEF ViewerTypes
<1> DEFINE Steps == [step : {"apply", "record"}, queue : Seq(PoolItems), todo : Seq(Passed \cup Wishes),
                     accepted : Seq(PoolItems)]
<1>3. chatStep.step \in {"apply", "record"} =>
          /\ chatStep \in Steps /\ chatStep.queue \in Seq(PoolItems) /\ chatStep.accepted \in Seq(PoolItems)
          /\ chatStep.todo \in Seq(Passed \cup Wishes)
  BY DEF ViewerTypes, StepFits, Asleep
<1>4. ASSUME NEW new, new = [chatStep EXCEPT !.step = "apply", !.todo = Tail(@)],
             chatStep.step \in {"apply", "record"}, chatStep.todo # <<>>
      PROVE  \A poll : StepFits(new, poll)
  <2>1. Tail(chatStep.todo) \in Seq(Passed \cup Wishes)
    BY <1>3, <1>4, EffectFacts
  <2>2. new \in Steps /\ new.step = "apply"
    BY <1>3, <1>4, <2>1
  <2> QED BY <2>2 DEF StepFits
<1>5. chatStep \in Steps /\ chatStep.step = "apply" =>
          [chatStep EXCEPT !.todo = Tail(@)] = [chatStep EXCEPT !.step = "apply", !.todo = Tail(@)]
  OBVIOUS
<1> HIDE DEF Steps
<1>6. CASE ApplySkip
  <2>1. /\ chatStep.step = "apply" /\ chatStep.todo # <<>> /\ Head(chatStep.todo).kind = "skip-passed"
        /\ onRow' \in {onRow, [onRow EXCEPT !.restart = Head(chatStep.todo).item, !.skip = Head(chatStep.todo).item]}
        /\ campaign' = NoCampaign
        /\ chatStep' = [chatStep EXCEPT !.todo = Tail(@)]
        /\ UNCHANGED <<chatOn, offered, known, effects, session, requests>>
    BY <1>6 DEF ApplySkip
  <2>2. Head(chatStep.todo) \in Passed
    BY <1>3, <2>1, EffectFacts
  <2>3. Head(chatStep.todo).item \in PoolItems
    BY <2>2 DEF Passed
  <2>4. onRow' \in RowsOnAir
    BY <1>0, <2>1, <2>3 DEF RowsOnAir
  <2>5. StepFits(chatStep', session')
    <3>1. chatStep' = [chatStep EXCEPT !.step = "apply", !.todo = Tail(@)]
      BY <1>3, <1>5, <2>1
    <3> QED BY <1>4, <2>1, <3>1
  <2> QED BY <2>1, <2>4, <2>5, NothingFits DEF ViewerTypes
<1>7. CASE DecideRequest
  <2> DEFINE wish == Head(chatStep.todo)
             view == QueueView(chatStep.queue, chatStep.accepted)
  <2>1. /\ chatStep.step = "apply" /\ chatStep.todo # <<>> /\ wish.kind = "request"
        /\ requests' = Marked(requests, view)
        /\ \/ /\ onRow' = [onRow EXCEPT !.queue = Append(@, wish.item)]
              /\ chatStep' = [chatStep EXCEPT !.step = "record", !.accepted = Append(@, wish.item)]
           \/ chatStep' = [chatStep EXCEPT !.todo = Tail(@)] /\ UNCHANGED onRow
        /\ UNCHANGED <<chatOn, offered, known, campaign, effects, session>>
    BY <1>7 DEF DecideRequest
  <2>2. wish \in Wishes /\ wish.item \in PoolItems
    <3>1. wish \in Wishes
      BY <1>3, <2>1, EffectFacts
    <3> QED BY <3>1 DEF Wishes
  <2> HIDE DEF wish, view
  <2>3. requests' \subseteq RequestRows
    <3>1. \A q \in requests : [q EXCEPT !.queued = q.queued /\ q.item \in view] \in RequestRows
      <4> SUFFICES ASSUME NEW q \in requests
                   PROVE  [q EXCEPT !.queued = q.queued /\ q.item \in view] \in RequestRows
        OBVIOUS
      <4>1. q \in RequestRows
        BY DEF ViewerTypes
      <4>2. (q.queued /\ q.item \in view) \in BOOLEAN
        BY Zenon
      <4> QED BY ONLY <4>1, <4>2 DEF RequestRows
    <3> QED BY <2>1, <3>1 DEF Marked
  <2>4. CASE /\ onRow' = [onRow EXCEPT !.queue = Append(@, wish.item)]
             /\ chatStep' = [chatStep EXCEPT !.step = "record", !.accepted = Append(@, wish.item)]
    <3>1. Append(onRow.queue, wish.item) \in Seq(PoolItems)
      BY <1>0, <2>2
    <3>2. onRow' \in RowsOnAir
      BY ONLY <1>0, <2>4, <3>1 DEF RowsOnAir
    <3>3. Append(chatStep.accepted, wish.item) \in Seq(PoolItems)
      BY <1>3, <2>1, <2>2
    <3>4. chatStep' \in Steps /\ chatStep'.todo = chatStep.todo
      BY <1>3, <2>1, <2>4, <3>3 DEF Steps
    <3>5. chatStep'.todo # <<>> /\ Head(chatStep'.todo).kind = "request"
      BY <2>1, <3>4 DEF wish
    <3>6. StepFits(chatStep', session')
      BY <3>4, <3>5 DEF StepFits, Steps
    <3> QED BY <2>1, <2>3, <3>2, <3>6 DEF ViewerTypes
  <2>5. CASE chatStep' = [chatStep EXCEPT !.todo = Tail(@)] /\ UNCHANGED onRow
    <3>1. chatStep' = [chatStep EXCEPT !.step = "apply", !.todo = Tail(@)]
      BY <1>3, <1>5, <2>1, <2>5
    <3>2. StepFits(chatStep', session')
      BY <1>4, <2>1, <3>1
    <3> QED BY <2>1, <2>3, <2>5, <3>2 DEF ViewerTypes
  <2> QED BY <2>1, <2>4, <2>5
<1>8. CASE RecordRequest
  <2>1. /\ chatStep.step = "record"
        /\ requests' = requests \cup {[actor |-> Head(chatStep.todo).actor, item |-> Head(chatStep.todo).item,
                                       queued |-> TRUE, recent |-> TRUE]}
        /\ chatStep' = [chatStep EXCEPT !.step = "apply", !.todo = Tail(@)]
        /\ UNCHANGED <<chatOn, offered, onRow, known, campaign, effects, session>>
    BY <1>8 DEF RecordRequest
  <2>2. chatStep.todo # <<>> /\ Head(chatStep.todo).kind = "request"
    BY <2>1 DEF ViewerTypes, StepFits, Asleep
  <2>3. Head(chatStep.todo) \in Wishes
    BY <1>3, <2>1, <2>2, EffectFacts
  <2>4. requests' \subseteq RequestRows
    <3>1. [actor |-> Head(chatStep.todo).actor, item |-> Head(chatStep.todo).item,
           queued |-> TRUE, recent |-> TRUE] \in RequestRows
      BY ONLY <2>3 DEF Wishes, RequestRows
    <3> QED BY <2>1, <3>1 DEF ViewerTypes
  <2>5. StepFits(chatStep', session')
    BY <1>4, <2>1, <2>2
  <2> QED BY <2>1, <2>4, <2>5 DEF ViewerTypes
<1>9. CASE OpenPoll
  <2>1. /\ chatStep.step = "apply" /\ chatStep' = Asleep
        /\ \/ Len(chatStep.queue) > 1
              /\ session' = [NoPoll EXCEPT !.status = "open", !.options = SubSeq(chatStep.queue, 1, 2)]
           \/ UNCHANGED session
        /\ UNCHANGED <<chatOn, offered, onRow, known, campaign, effects, requests>>
    BY <1>9 DEF OpenPoll
  <2>2. ASSUME Len(chatStep.queue) > 1,
               session' = [NoPoll EXCEPT !.status = "open", !.options = SubSeq(chatStep.queue, 1, 2)]
        PROVE  PollFits(session')
    <3>1. chatStep.queue \in Seq(PoolItems)
      BY <1>3, <2>1
    <3>2. SubSeq(chatStep.queue, 1, 2) \in Seq(PoolItems)
      BY <2>2, <3>1
    <3> QED BY <2>2, <3>2 DEF NoPoll, PollFits
  <2> QED BY <2>1, <2>2, NothingFits DEF ViewerTypes
<1> QED BY <1>1, <1>2, <1>6, <1>7, <1>8, <1>9

\* What the playout and the operator do, and what time does.
LEMMA OtherViewerStepFits ==
    ASSUME ViewerTypes,
           \/ StepFails \/ ChatRestarts \/ PlayoutCycle \/ \E x \in PoolItems : OperatorTakes(x)
           \/ OperatorSkips \/ SwitchesOff \/ HoldEnds \/ SwitchesOn \/ ViewerTime \/ UNCHANGED viewerVars
    PROVE  ViewerTypes'
<1>0. /\ onRow \in RowsOnAir /\ onRow.item \in PoolItems /\ onRow.cursor \in PoolItems
      /\ onRow.queue \in Seq(PoolItems) /\ onRow.skip \in PoolItems \cup {Nobody}
      /\ (Holds(onRow) => onRow.held \in PoolItems)
  BY RowHas DEF ViewerTypes
<1>1. CASE StepFails \/ ChatRestarts
  <2>1. /\ UNCHANGED <<chatOn, offered, onRow, requests>> /\ chatStep' = Asleep
        /\ \/ UNCHANGED <<known, campaign, effects, session>>
           \/ known' = NothingKnown /\ campaign' = NoCampaign /\ effects' = <<>> /\ session' = NoPoll
    BY <1>1 DEF StepFails, ChatRestarts
  <2> QED BY <2>1, NothingFits DEF ViewerTypes
<1>2. ASSUME onRow' \in RowsOnAir, UNCHANGED <<offered, known, campaign, effects, session, requests, chatStep>>,
             chatOn' \in BOOLEAN
      PROVE  ViewerTypes'
  BY <1>2 DEF ViewerTypes
<1>3. chatOn \in BOOLEAN
  BY DEF ViewerTypes
<1>4. CASE PlayoutCycle
  <2>1. PICK ended \in BOOLEAN :
          LET moves == ended \/ onRow.restart # "none"
              next == IF Holds(onRow) THEN onRow.held
                      ELSE IF moves \/ onRow.item = onRow.skip THEN AfterInPool(onRow.cursor, onRow.skip)[1]
                      ELSE onRow.item
              cursor == IF ~Holds(onRow) /\ (moves \/ next # onRow.item) THEN next ELSE onRow.cursor
          IN  onRow' = [onRow EXCEPT !.item = next, !.cursor = cursor, !.restart = "none",
                                     !.queue = PoolQueue(next, cursor, onRow.skip)]
    BY <1>4 DEF PlayoutCycle
  <2> DEFINE moves == ended \/ onRow.restart # "none"
             next == IF Holds(onRow) THEN onRow.held
                     ELSE IF moves \/ onRow.item = onRow.skip THEN AfterInPool(onRow.cursor, onRow.skip)[1]
                     ELSE onRow.item
             cursor == IF ~Holds(onRow) /\ (moves \/ next # onRow.item) THEN next ELSE onRow.cursor
  <2>2. onRow' = [onRow EXCEPT !.item = next, !.cursor = cursor, !.restart = "none",
                               !.queue = PoolQueue(next, cursor, onRow.skip)]
    BY <2>1
  <2>3. next \in PoolItems
    <3>1. AfterInPool(onRow.cursor, onRow.skip)[1] \in PoolItems
      BY <1>0, PoolGoesOn
    <3> QED BY <1>0, <3>1
  <2>4. cursor \in PoolItems
    <3> HIDE DEF next
    <3> QED BY <1>0, <2>3
  <2> HIDE DEF next, cursor
  <2>5. PoolQueue(next, cursor, onRow.skip) \in Seq(PoolItems)
    BY <2>4, QueueIsOfPool
  <2>6. onRow' \in RowsOnAir
    BY ONLY <1>0, <2>2, <2>3, <2>4, <2>5 DEF RowsOnAir
  <2> QED BY <1>2, <1>3, <1>4, <2>6 DEF PlayoutCycle
<1>5. ASSUME NEW x \in PoolItems, OperatorTakes(x) PROVE ViewerTypes'
  <2>1. onRow' = [onRow EXCEPT !.held = x, !.skip = IF @ = x THEN Nobody ELSE @]
    BY <1>5 DEF OperatorTakes
  <2>2. onRow' \in RowsOnAir
    BY ONLY <1>0, <2>1, x \in PoolItems DEF RowsOnAir
  <2> QED BY <1>2, <1>3, <1>5, <2>2 DEF OperatorTakes
<1>6. CASE OperatorSkips \/ HoldEnds
  <2>1. onRow' \in {[onRow EXCEPT !.held = Nobody, !.skip = onRow.item, !.restart = "operator"],
                    [onRow EXCEPT !.held = Nobody]}
    BY <1>6 DEF OperatorSkips, HoldEnds
  <2>2. onRow' \in RowsOnAir
    BY ONLY <1>0, <2>1 DEF RowsOnAir
  <2> QED BY <1>2, <1>3, <1>6, <2>2 DEF OperatorSkips, HoldEnds
<1>7. CASE SwitchesOff \/ SwitchesOn
  BY <1>0, <1>2, <1>7 DEF SwitchesOff, SwitchesOn
<1>8. CASE ViewerTime
  <2>0. UNCHANGED <<chatOn, offered, known, effects, chatStep>>
    BY <1>8 DEF ViewerTime
  <2>1. CASE campaign' = [campaign EXCEPT !.fresh = FALSE] /\ UNCHANGED <<session, requests, onRow>>
    <3>1. campaign' \in Campaigns
      BY <2>1 DEF ViewerTypes, Campaigns
    <3> QED BY <2>0, <2>1, <3>1 DEF ViewerTypes
  <2>2. CASE session' = [session EXCEPT !.due = TRUE] /\ UNCHANGED <<campaign, requests, onRow>>
    <3>1. PollFits(session') /\ session'.winner = session.winner
      BY <2>2 DEF ViewerTypes, PollFits
    <3>2. StepFits(chatStep', session')
      BY <2>0, <3>1 DEF ViewerTypes, StepFits
    <3> QED BY <2>0, <2>2, <3>1, <3>2 DEF ViewerTypes
  <2>3. CASE (\E r \in requests : requests' = (requests \ {r}) \cup {q \in {[r EXCEPT !.recent = FALSE]} : q.queued})
             /\ UNCHANGED <<campaign, session, onRow>>
    <3>1. PICK r \in requests : requests' = (requests \ {r}) \cup {q \in {[r EXCEPT !.recent = FALSE]} : q.queued}
      BY <2>3
    <3>2. r \in RequestRows /\ requests \subseteq RequestRows
      BY DEF ViewerTypes
    <3>3. [r EXCEPT !.recent = FALSE] \in RequestRows
      BY ONLY <3>2 DEF RequestRows
    <3>4. requests' \subseteq RequestRows
      BY <3>1, <3>2, <3>3
    <3> QED BY <2>0, <2>3, <3>4 DEF ViewerTypes
  <2>4. CASE onRow' = [onRow EXCEPT !.skip = Nobody] /\ UNCHANGED <<campaign, session, requests>>
    <3>1. onRow' \in RowsOnAir
      BY ONLY <1>0, <2>4 DEF RowsOnAir
    <3> QED BY <1>2, <1>3, <2>0, <2>4, <3>1
  <2>5. \/ campaign' = [campaign EXCEPT !.fresh = FALSE] /\ UNCHANGED <<session, requests, onRow>>
        \/ session' = [session EXCEPT !.due = TRUE] /\ UNCHANGED <<campaign, requests, onRow>>
        \/ (\E r \in requests : requests' = (requests \ {r}) \cup {q \in {[r EXCEPT !.recent = FALSE]} : q.queued})
             /\ UNCHANGED <<campaign, session, onRow>>
        \/ onRow' = [onRow EXCEPT !.skip = Nobody] /\ UNCHANGED <<campaign, session, requests>>
    BY <1>8 DEF ViewerTime
  <2> QED BY <2>1, <2>2, <2>3, <2>4, <2>5
<1>9. CASE UNCHANGED viewerVars
  BY <1>9 DEF viewerVars, ViewerTypes
<1> QED BY <1>1, <1>4, <1>5, <1>6, <1>7, <1>8, <1>9

LEMMA ViewerStepTypes == ViewerTypes /\ [ViewerNext]_viewerVars => ViewerTypes'
<1> SUFFICES ASSUME ViewerTypes, [ViewerNext]_viewerVars PROVE ViewerTypes'
  OBVIOUS
<1>1. ASSUME NEW v \in Viewers,
             VoteToSkip(v) \/ VoteNext(v, 1) \/ VoteNext(v, 2) \/ \E x \in PoolItems : Ask(v, x)
      PROVE  ViewerTypes'
  BY <1>1, SocketFits
<1>2. CASE StepReads \/ PromoteWinner \/ ApplySkip \/ DecideRequest \/ RecordRequest \/ OpenPoll
  BY <1>2, ChatStepFits
<1>3. CASE \/ StepFails \/ ChatRestarts \/ PlayoutCycle \/ \E x \in PoolItems : OperatorTakes(x)
           \/ OperatorSkips \/ SwitchesOff \/ HoldEnds \/ SwitchesOn \/ ViewerTime \/ UNCHANGED viewerVars
  BY <1>3, OtherViewerStepFits
<1> QED BY <1>1, <1>2, <1>3 DEF ViewerNext

\* What chat keeps has its type, whatever crosses what: a winner is an item of the pool, an effect is
\* applied once it has been read, and whatever is held out, the pool goes on to an item.
THEOREM ViewerTypeCorrect == ViewerSpec => []ViewerTypeOK
BY ViewerStartTyped, ViewerStepTypes, ViewerTypesSuffice, PTL DEF ViewerSpec
=============================================================================

---------------------------- MODULE MCChannel -----------------------------
(***************************************************************************)
(* The way of an item to the air and out, in one run: what the syncs list, *)
(* the chapters of an item, the schedule, the pool, what viewers ask of    *)
(* it, the log of what ran and the uplink.  They share no variable, so a   *)
(* behaviour runs one of them: the states are those of each part, not      *)
(* their product.                                                          *)
(***************************************************************************)
EXTENDS Schedule, PoolRotation, Uplink, AsRun, SyncTurns, Chapters, Catalogue,
        ViewerControl, TLC

CONSTANTS d1, d2

VARIABLE focus

\* A grid's cuepoints lie within it.
Weekly(day, start, dur, cues) ==
    [day |-> day, start |-> start, dur |-> dur, from |-> 0, until |-> 0, cues |-> cues, group |-> 0]
Between(day, start, dur, from, until) ==
    [day |-> day, start |-> start, dur |-> dur, from |-> from, until |-> until, cues |-> {}, group |-> 0]

\* A weekly set on both days of the week, and a block past midnight.
WeekGrid == <<[Weekly(0, 1, 2, {1}) EXCEPT !.group = 1], [Weekly(1, 1, 2, {1}) EXCEPT !.group = 1],
              Weekly(1, 3, 3, {})>>

\* A one-off on either day, a run of dates past midnight, one that begins the day after its
\* last, and one without a last date.
DatedGrids ==
    {Between(1, 2, 1, 1, 1), Between(0, 0, 1, 2, 2), Between(1, 3, 2, 1, 4), Between(0, 0, 1, 5, 6),
     Between(1, 2, 2, 1, 0)}

\* A source with three items that takes turns with a source of one.
TwoLanes == <<<<"a1", "a2", "a3">>, <<"b1">>>>

\* A primary and its backup, of one output profile.
Roles == d1 :> "primary" @@ d2 :> "backup"
OneProfile == d1 :> "p1" @@ d2 :> "p1"

TwoOfYouTube == <<"y1", "y2">>
TwoOfTwitch == <<"t1", "t2">>

ThreeItems == <<"a", "b", "c">>

\* Four votes and presses decide a skip among two viewers and an operator.
InputsByOffer == ({"skip"} :> 4) @@ ({"skip", "vote"} :> 2) @@ ({"request"} :> 2)
OffersTried == DOMAIN InputsByOffer

Parts == {"schedule", "pool", "uplink", "log", "turns", "chapters", "catalogue", "viewers"}

\* What is not looked at starts in one way.
Init ==
    /\ focus \in Parts
    /\ SchedInit /\ PoolInit /\ UpInit /\ AsRunInit /\ TurnsInit /\ ChaptersInit /\ CatalogueInit
    /\ ViewerInit
    /\ focus # "chapters" => origin = "vod"
    /\ focus # "catalogue" => kind = "direct"
    /\ focus # "viewers" => offered = {"skip"}

channelVars == <<schedVars, poolVars, upVars, asVars, turnVars, chapterVars, catalogueVars, viewerVars>>

InSchedule  == /\ focus = "schedule" /\ SchedNext
               /\ UNCHANGED <<focus, poolVars, upVars, asVars, turnVars, chapterVars, catalogueVars, viewerVars>>
InPool      == /\ focus = "pool" /\ PoolNext
               /\ UNCHANGED <<focus, schedVars, upVars, asVars, turnVars, chapterVars, catalogueVars, viewerVars>>
InUplink    == /\ focus = "uplink" /\ UpNext
               /\ UNCHANGED <<focus, schedVars, poolVars, asVars, turnVars, chapterVars, catalogueVars, viewerVars>>
InLog       == /\ focus = "log" /\ AsRunNext
               /\ UNCHANGED <<focus, schedVars, poolVars, upVars, turnVars, chapterVars, catalogueVars, viewerVars>>
InTurns     == /\ focus = "turns" /\ TurnsNext
               /\ UNCHANGED <<focus, schedVars, poolVars, upVars, asVars, chapterVars, catalogueVars, viewerVars>>
InChapters  == /\ focus = "chapters" /\ ChaptersNext
               /\ UNCHANGED <<focus, schedVars, poolVars, upVars, asVars, turnVars, catalogueVars, viewerVars>>
InCatalogue == /\ focus = "catalogue" /\ CatalogueNext
               /\ UNCHANGED <<focus, schedVars, poolVars, upVars, asVars, turnVars, chapterVars, viewerVars>>
InChat      == /\ focus = "viewers" /\ ViewerNext
               /\ UNCHANGED <<focus, schedVars, poolVars, upVars, asVars, turnVars, chapterVars, catalogueVars>>

Next == InSchedule \/ InPool \/ InUplink \/ InLog \/ InTurns \/ InChapters \/ InCatalogue \/ InChat

Spec == Init /\ [][Next]_<<focus, channelVars>>

\* The types of the part looked at.
TypesOK == /\ focus = "schedule" => SchedTypeOK
           /\ focus = "pool" => PoolTypeOK
           /\ focus = "uplink" => UpTypeOK
           /\ focus = "log" => AsTypeOK
           /\ focus = "turns" => TurnsTypeOK
           /\ focus = "chapters" => ChaptersTypeOK
           /\ focus = "catalogue" => CatalogueTypeOK
           /\ focus = "viewers" => ViewerTypeOK
=============================================================================

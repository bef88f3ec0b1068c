------------------------------ MODULE Chapters ------------------------------
(***************************************************************************)
(* The chapter list of one item of the library: what the syncs and the     *)
(* metadata probes may fill in, what a recheck may replace, and what the   *)
(* operator edits meanwhile (chapter-backfill.ts, asset-chapters.ts, the   *)
(* writes of the database package).                                        *)
(***************************************************************************)
EXTENDS Integers, FiniteSets

CONSTANT RecheckCap  \* CHAPTER_PROBE_RECHECK_CAP

ASSUME ChaptersAssumption == RecheckCap \in Nat \ {0}

VARIABLES
    origin,  \* the kind of the item's source
    row,     \* its row: the list, what the probes left on it; NoRow when it is not listed
    young,   \* it was first listed less than the longest broadcast ago
    rested,  \* the waiting period of its last probe is over
    probe,   \* the candidate the backfill is asking about
    edited   \* the list the operator saved last and nobody may touch, "none" if there is none

chapterVars == <<origin, row, young, rested, probe, edited>>

-----------------------------------------------------------------------------
(* Lists.  "opening" is the one chapter at 0 that stands in for a list     *)
(* which has not come; "first" and "second" are two whole lists.           *)

ChapterLists == {"none", "opening", "first", "second"}
LengthOf == [none |-> 0, opening |-> 1, first |-> 2, second |-> 2]
Settled == 3

\* chaptersProbeStatus; the empty string of the column is "unprobed" here.
Statuses == {"unprobed", "ok", "failed"}

NoRow == [list |-> "unlisted"]
FirstListed(list) == [list |-> list, status |-> "unprobed", level |-> 0, rechecks |-> 0]
Listed == row # NoRow

\* Kinds whose chapter titles name the category: Twitch.
Names == origin = "archive"
NoProbe == [at |-> "none"]

ChaptersTypeOK ==
    /\ origin \in {"playlist", "archive", "vod"} /\ young \in BOOLEAN /\ rested \in BOOLEAN
    /\ edited \in ChapterLists
    /\ row \in [list : ChapterLists, status : Statuses, level : 0..Settled,
                rechecks : 0..RecheckCap] \cup {NoRow}
    /\ probe \in [at : {"asked"}, list : ChapterLists, status : Statuses] \cup {NoProbe}

ChaptersInit ==
    /\ origin \in {"playlist", "archive", "vod"} /\ row = NoRow /\ young = TRUE
    /\ rested = TRUE /\ probe = NoProbe /\ edited = "none"

-----------------------------------------------------------------------------
(* The backfill.                                                           *)

IsProvisional ==
    /\ row.list # "none" /\ row.rechecks < RecheckCap
    /\ row.level = 0 \/ (row.list = "opening" /\ row.level < Settled)

\* A finding-nothing answer waits longer than a failure; "rested" stands for either.
IsCandidate ==
    /\ Listed /\ origin # "vod"
    /\ IF row.list # "none"
       THEN Names /\ row.status = "ok" /\ IsProvisional /\ rested
       ELSE row.status = "unprobed" \/ rested

SelectCandidate ==
    /\ probe = NoProbe /\ IsCandidate
    /\ probe' = [at |-> "asked", list |-> row.list, status |-> row.status]
    /\ UNCHANGED <<origin, row, young, rested, edited>>

\* A list that is stored stays; an empty one takes what comes.
ChooseStored(stored, incoming) == IF stored # "none" THEN stored ELSE incoming

\* A whole list replaces the stand-in it was stored as; a shorter or empty answer replaces nothing.
Replaces(stored, answer) == answer # stored /\ answer # "none" /\ LengthOf[answer] >= LengthOf[stored]

\* An answer that is finished settles what it repeats.
LevelAfter(stored, level, answer) ==
    CASE answer = stored -> IF level >= 1 THEN Settled ELSE 1
      [] Replaces(stored, answer) -> IF level + 1 > Settled THEN Settled ELSE level + 1
      [] OTHER -> level

ResolveAnswer(stored, level, answer, recording) ==
    IF stored = "none"
    THEN [list |-> answer, level |-> IF recording THEN 0 ELSE 1]
    ELSE [list |-> IF Replaces(stored, answer) THEN answer ELSE stored,
          level |-> IF recording THEN 0 ELSE LevelAfter(stored, level, answer)]

IsRecheck == row.list # "none" /\ row.status = "ok"
Counted == IF row.rechecks + 1 > RecheckCap THEN RecheckCap ELSE row.rechecks + 1

\* The row as the answer leaves it; "failed" is a probe that got none.
AnswerOnRow(answer, recording) ==
    IF answer = "failed"
    THEN [row EXCEPT !.status = IF IsRecheck THEN "ok" ELSE "failed",
                     !.rechecks = IF IsRecheck /\ ~young THEN Counted ELSE row.rechecks]
    ELSE LET still == recording /\ young
             resolved == ResolveAnswer(row.list, row.level, answer, still)
         IN  [list |-> resolved.list, status |-> "ok", level |-> resolved.level,
              rechecks |-> IF ~IsRecheck THEN 0 ELSE IF still THEN row.rechecks ELSE Counted]

\* A write that trusts the selection, as before M108.
WriteUncompared(answer, recording) ==
    IF Listed
    THEN row' = AnswerOnRow(answer, recording) /\ rested' = FALSE
    ELSE UNCHANGED <<row, rested>>

\* updateAssetChapterProbeRecords, on the row as it is inside the write lock: what is no longer
\* what it was selected with was changed by the operator or a sync, and stays.
WriteAnswer(answer, recording) ==
    IF /\ Listed /\ probe.list = row.list /\ probe.status = row.status
       /\ row.list = "none" \/ IsRecheck
    THEN row' = AnswerOnRow(answer, recording) /\ rested' = FALSE
    ELSE UNCHANGED <<row, rested>>

ProbeAnswers ==
    /\ probe # NoProbe
    /\ \E answer \in ChapterLists \cup {"failed"}, recording \in BOOLEAN :
          WriteAnswer(answer, recording)
    /\ probe' = NoProbe
    /\ UNCHANGED <<origin, young, edited>>

\* The worker restarts while the probe runs.
ProbeIsLost ==
    /\ probe # NoProbe /\ probe' = NoProbe
    /\ UNCHANGED <<origin, row, young, rested, edited>>

-----------------------------------------------------------------------------
(* The syncs and the operator.                                             *)

\* A sync lists the item, again or for the first time; only a single VOD comes with chapters.
SyncLists ==
    /\ \E incoming \in IF origin = "vod" THEN ChapterLists ELSE {"none"} :
          row' = IF Listed THEN [row EXCEPT !.list = ChooseStored(row.list, incoming)]
                 ELSE FirstListed(incoming)
    /\ young' = (young \/ ~Listed)
    /\ rested' = (rested \/ ~Listed)
    /\ UNCHANGED <<origin, probe, edited>>

\* It leaves the listing, or its source is deleted.
SyncDrops ==
    /\ Listed /\ row' = NoRow /\ edited' = "none"
    /\ UNCHANGED <<origin, young, rested, probe>>

\* PATCH /api/assets/[id]; an empty list hands the item back to the probes.
EditChapters ==
    /\ Listed
    /\ \E list \in ChapterLists :
          /\ row' = [row EXCEPT !.list = list, !.status = "unprobed"]
          /\ edited' = list
    /\ rested' = TRUE
    /\ UNCHANGED <<origin, young, probe>>

TimeGoesBy ==
    /\ Listed
    /\ \/ rested' = TRUE /\ UNCHANGED young
       \/ young' = FALSE /\ rested' = TRUE
    /\ UNCHANGED <<origin, row, probe, edited>>

ChaptersNext ==
    \/ SelectCandidate \/ ProbeAnswers \/ ProbeIsLost \/ SyncLists \/ SyncDrops
    \/ EditChapters \/ TimeGoesBy

ChaptersSpec == ChaptersInit /\ [][ChaptersNext]_chapterVars

-----------------------------------------------------------------------------
\* What the operator saved stays until the operator changes it, and no probe whose answer comes
\* late, no recheck and no sync makes any list shorter: a single chapter is a wrong game on air,
\* an empty one none at all (decideAssetChapterProbeWrite, chooseStoredAssetChaptersJson).
EditedChaptersStand ==
    [][Listed /\ row' # NoRow /\ ~EditChapters =>
          IF edited # "none" THEN row'.list = row.list
          ELSE LengthOf[row'.list] >= LengthOf[row.list]]_chapterVars
=============================================================================

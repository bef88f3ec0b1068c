---------------------------- MODULE Channel_proofs ----------------------------
(***************************************************************************)
(* What is on the shelf: the chapter lists (Chapters), what a sync may     *)
(* take away (Catalogue), which sources a cycle gets round to (SyncTurns); *)
(* and all of the channel side by side (MCChannel).                        *)
(***************************************************************************)
EXTENDS MCChannel, Programme_proofs, Uplink_proofs,
        FiniteSetTheorems, SequenceTheorems, WellFoundedInduction, TLAPS

---------------------------------------------------------------------------
(* The chapters an operator saved                                          *)

\* A saved list that is not empty is the row's, and its probe status says that no probe has looked:
\* that is what keeps a recheck from it.
EditInv ==
    /\ edited \in ChapterLists
    /\ Listed => row.list \in ChapterLists /\ {"list", "status", "level", "rechecks"} \subseteq DOMAIN row
    /\ edited # "none" => Listed /\ row.list = edited /\ row.status = "unprobed"

LEMMA ListedByList ==
    ASSUME row'.list \in ChapterLists PROVE row' # NoRow
BY DEF ChapterLists, NoRow

\* An answer leaves a list that is not shorter.
LEMMA AnswerKeepsLength ==
    ASSUME EditInv, Listed, NEW answer \in ChapterLists \cup {"failed"}, NEW recording \in BOOLEAN
    PROVE  /\ AnswerOnRow(answer, recording).list \in ChapterLists
           /\ {"list", "status", "level", "rechecks"} \subseteq DOMAIN AnswerOnRow(answer, recording)
           /\ LengthOf[AnswerOnRow(answer, recording).list] >= LengthOf[row.list]
<1>1. row.list \in ChapterLists /\ {"list", "status", "level", "rechecks"} \subseteq DOMAIN row
    BY DEF EditInv
<1>2. \A list \in ChapterLists : LengthOf[list] \in Nat /\ LengthOf["none"] = 0
    BY DEF ChapterLists, LengthOf
<1>3. CASE answer = "failed"
    <2>1. AnswerOnRow(answer, recording).list = row.list
          /\ DOMAIN AnswerOnRow(answer, recording) = DOMAIN row
        BY <1>1, <1>3 DEF AnswerOnRow
    <2> QED BY <1>1, <1>2, <2>1
<1>4. CASE answer # "failed"
    <2>1. AnswerOnRow(answer, recording).list
              = IF row.list = "none" \/ Replaces(row.list, answer) THEN answer ELSE row.list
        BY <1>4 DEF AnswerOnRow, ResolveAnswer
    <2>2. {"list", "status", "level", "rechecks"} \subseteq DOMAIN AnswerOnRow(answer, recording)
        BY <1>4 DEF AnswerOnRow
    <2>3. answer \in ChapterLists
        BY <1>4
    <2> QED BY <1>1, <1>2, <2>1, <2>2, <2>3 DEF Replaces
<1> QED BY <1>3, <1>4

\* What a step that is no edit does to the list of an item that stays listed.
Stands ==
    Listed /\ row' # NoRow =>
        IF edited # "none" THEN row'.list = row.list ELSE LengthOf[row'.list] >= LengthOf[row.list]

LEMMA ProbeStep ==
    ASSUME EditInv, ProbeAnswers
    PROVE  EditInv' /\ Stands
<1>1. PICK answer \in ChapterLists \cup {"failed"}, recording \in BOOLEAN : WriteAnswer(answer, recording)
    BY DEF ProbeAnswers
<1>2. edited' = edited
    BY DEF ProbeAnswers
<1>3. \A list \in ChapterLists : LengthOf[list] \in Nat
    BY DEF ChapterLists, LengthOf
<1>4. CASE row' = row
    BY <1>2, <1>3, <1>4 DEF EditInv, Stands, Listed
<1>5. CASE row' # row
    <2>1. /\ Listed /\ row' = AnswerOnRow(answer, recording)
          /\ row.list = "none" \/ (row.list # "none" /\ row.status = "ok")
        BY <1>1, <1>5 DEF WriteAnswer, IsRecheck
    <2>2. edited = "none"
        BY <2>1 DEF EditInv
    <2>3. /\ row'.list \in ChapterLists /\ {"list", "status", "level", "rechecks"} \subseteq DOMAIN row'
          /\ LengthOf[row'.list] >= LengthOf[row.list]
        BY <2>1, AnswerKeepsLength
    <2> QED BY <1>2, <2>2, <2>3 DEF EditInv, Stands
<1> QED BY <1>4, <1>5

LEMMA SyncStep ==
    ASSUME EditInv, SyncLists
    PROVE  EditInv' /\ Stands
<1>1. PICK incoming \in ChapterLists :
          row' = IF Listed THEN [row EXCEPT !.list = ChooseStored(row.list, incoming)] ELSE FirstListed(incoming)
    BY DEF SyncLists, ChapterLists
<1>2. edited' = edited
    BY DEF SyncLists
<1>3. \A list \in ChapterLists : LengthOf[list] \in Nat /\ LengthOf["none"] = 0
    BY DEF ChapterLists, LengthOf
<1>4. CASE Listed
    <2>1. /\ row'.list = ChooseStored(row.list, incoming) /\ row'.status = row.status
          /\ DOMAIN row' = DOMAIN row
        BY <1>1, <1>4 DEF EditInv
    <2>2. row'.list \in ChapterLists /\ (row.list # "none" => row'.list = row.list)
        BY <1>4, <2>1 DEF EditInv, ChooseStored
    <2> QED BY <1>2, <1>3, <1>4, <2>1, <2>2, ListedByList DEF EditInv, Stands, Listed
<1>5. CASE ~Listed
    <2>1. row' = FirstListed(incoming)
        BY <1>1, <1>5
    <2>2. row'.list = incoming /\ {"list", "status", "level", "rechecks"} \subseteq DOMAIN row'
        BY <2>1 DEF FirstListed
    <2> QED BY <1>2, <1>5, <2>2 DEF EditInv, Stands
<1> QED BY <1>4, <1>5

LEMMA EditStep ==
    ASSUME EditInv, EditChapters
    PROVE  EditInv'
<1>1. PICK list \in ChapterLists :
          row' = [row EXCEPT !.list = list, !.status = "unprobed"] /\ edited' = list
    BY DEF EditChapters
<1>2. Listed
    BY DEF EditChapters
<1>3. row'.list = list /\ row'.status = "unprobed" /\ DOMAIN row' = DOMAIN row
    BY <1>1, <1>2 DEF EditInv
<1> QED BY <1>1, <1>2, <1>3, ListedByList DEF EditInv, Listed

LEMMA ChaptersStep ==
    ASSUME EditInv, [ChaptersNext]_chapterVars
    PROVE  EditInv' /\ (EditChapters \/ Stands)
<1>1. CASE SelectCandidate \/ ProbeIsLost \/ TimeGoesBy \/ UNCHANGED chapterVars
    <2>1. row' = row /\ edited' = edited
        BY <1>1 DEF SelectCandidate, ProbeIsLost, TimeGoesBy, chapterVars
    <2>2. \A list \in ChapterLists : LengthOf[list] \in Nat
        BY DEF ChapterLists, LengthOf
    <2> QED BY <2>1, <2>2 DEF EditInv, Stands, Listed
<1>2. CASE SyncDrops
    <2>1. row' = NoRow /\ edited' = "none"
        BY <1>2 DEF SyncDrops
    <2> QED BY <2>1 DEF EditInv, Stands, Listed, ChapterLists
<1> QED BY <1>1, <1>2, ProbeStep, SyncStep, EditStep DEF ChaptersNext

\* A list the operator saved stays until the operator changes it, whatever was asked before the edit and
\* answers after it and whatever the syncs list meanwhile; no answer makes any list shorter: however often
\* lists are rechecked (decideAssetChapterProbeWrite, chooseStoredAssetChaptersJson).
THEOREM EditedChaptersAlwaysStand == ChaptersSpec => EditedChaptersStand
<1>1. ChaptersInit => EditInv
    BY DEF ChaptersInit, EditInv, Listed, ChapterLists
<1>2. EditInv /\ [ChaptersNext]_chapterVars => EditInv'
    BY ChaptersStep
<1>3. EditInv /\ [ChaptersNext]_chapterVars =>
          [Listed /\ row' # NoRow /\ ~EditChapters =>
              IF edited # "none" THEN row'.list = row.list
              ELSE LengthOf[row'.list] >= LengthOf[row.list]]_chapterVars
    BY ChaptersStep DEF Stands
<1> QED BY <1>1, <1>2, <1>3, PTL DEF ChaptersSpec, EditedChaptersStand


---------------------------------------------------------------------------
(* What a sync may take away                                               *)

SourceRows == [enabled : BOOLEAN, valid : BOOLEAN, there : BOOLEAN]
ItemRows == [there : BOOLEAN, curated : BOOLEAN, cached : BOOLEAN, touched : Nat]

\* Only a source that is there can be switched on; an item without its source was written after the
\* source was deleted.
RowsInv ==
    /\ kind \in {"remote", "library", "direct"}
    /\ source \in SourceRows /\ (source.enabled => source.there)
    /\ item \in ItemRows /\ gone \in Nat /\ barren \in Nat
    /\ ~source.there /\ item.there => item.touched <= gone

\* The sync that runs knows the source and has an answer of its kind.
SyncShape ==
    /\ sync.at \in {"idle", "listing", "source", "items", "runs", "incidents"}
    /\ sync.at # "idle" =>
          /\ {"at", "source", "had", "pooled", "barren"} \subseteq DOMAIN sync
          /\ sync.source \in SourceRows /\ (kind # "library" => sync.source.there)
          /\ sync.source.enabled => sync.source.there
          /\ sync.barren \in Nat
    /\ sync.at \notin {"idle", "listing"} =>
          /\ sync.got \in Listings \cup {Threw, Partial, Invalid}
          /\ kind = "remote" => sync.got # Partial
          /\ kind = "library" => sync.got # Invalid
          /\ kind = "direct" => sync.got \in {{"item"}, Invalid}

\* What it has read still tells whether there is an item, and how many runs found nothing before it.
SyncKnows ==
    /\ sync.at \in {"listing", "source", "items"} => (item.there => sync.had) /\ sync.barren = barren
    /\ sync.at = "runs" /\ kind # "library" => sync.barren = barren
    /\ sync.at = "incidents" /\ kind = "remote" /\ ~Found(sync) => barren = Barren(sync.barren)

CatalogueInv == RowsInv /\ SyncShape /\ SyncKnows


LEMMA NoItemIsRow == NoItem \in ItemRows /\ NewItem \in ItemRows /\ ~NoItem.there /\ NoItem.touched = 0
BY DEF NoItem, NewItem, ItemRows

LEMMA ReinsertedIsRow ==
    ASSUME NEW stored \in ItemRows
    PROVE  /\ Reinserted(stored) \in ItemRows /\ Reinserted(stored).touched = 0
           /\ Reinserted(stored).there
           /\ Reinserted(stored).curated = stored.curated /\ Reinserted(stored).cached = stored.cached
<1>1. NewItem \in ItemRows /\ NewItem.touched = 0 /\ NewItem.there
    BY DEF NewItem, NoItem, ItemRows
<1> QED BY <1>1 DEF Reinserted, ItemRows

LEMMA OlderGrows ==
    ASSUME NEW a \in Nat, NEW b \in Nat, a <= b
    PROVE  Older(a) \in Nat /\ Older(a) <= Older(b)
BY CatalogueAssumption DEF Older, CatalogueAssumption

LEMMA BarrenCounts ==
    ASSUME NEW n \in Nat PROVE Barren(n) \in Nat \ {0}
BY CatalogueAssumption DEF Barren, CatalogueAssumption

---------------------------------------------------------------------------
LEMMA RowsKept ==
    ASSUME CatalogueInv, [CatalogueNext]_catalogueVars
    PROVE  RowsInv'
<1> USE DEF CatalogueInv
<1>1. CASE \/ BeginSync \/ ListingAnswers \/ RunIsAppended \/ IncidentsAreKept \/ SyncIsCutShort
           \/ EditReferences \/ CheckDelete \/ UNCHANGED catalogueVars
    <2>1. kind' = kind /\ source' = source /\ item' = item /\ gone' = gone
        BY <1>1 DEF BeginSync, ListingAnswers, RunIsAppended, IncidentsAreKept, SyncIsCutShort,
                    EditReferences, CheckDelete, catalogueVars
    <2>2. barren' \in {0, barren, Barren(barren)}
        BY <1>1 DEF BeginSync, ListingAnswers, RunIsAppended, IncidentsAreKept, SyncIsCutShort,
                    EditReferences, CheckDelete, catalogueVars
    <2> QED BY <2>1, <2>2, BarrenCounts DEF RowsInv
<1>2. CASE SourceIsWritten
    <2>1. /\ kind' = kind /\ item' = item /\ gone' = gone /\ barren' = barren /\ sync.at = "source"
          /\ source' = IF kind = "library" THEN [enabled |-> TRUE, valid |-> TRUE, there |-> TRUE]
                       ELSE sync.source
        BY <1>2 DEF SourceIsWritten
    <2>2. source' \in SourceRows /\ source'.there
        BY <2>1 DEF SyncShape, SourceRows
    <2> QED BY <2>1, <2>2 DEF RowsInv
<1>3. CASE ItemsAreReplaced
    <2>1. kind' = kind /\ source' = source /\ gone' = gone /\ barren' = barren
        BY <1>3 DEF ItemsAreReplaced
    <2>2. item' \in {item, Reinserted(item), NoItem}
        BY <1>3 DEF ItemsAreReplaced
    <2> QED BY <2>1, <2>2, NoItemIsRow, ReinsertedIsRow DEF RowsInv
<1>4. CASE Curate \/ CacheIsWritten
    <2>1. kind' = kind /\ source' = source /\ gone' = gone /\ barren' = barren
        BY <1>4 DEF Curate, CacheIsWritten
    <2>2. item' = [item EXCEPT !.curated = TRUE, !.touched = 0]
          \/ item' = [item EXCEPT !.cached = TRUE, !.touched = 0]
        BY <1>4 DEF Curate, CacheIsWritten
    <2>3. item' \in ItemRows /\ item'.touched = 0
        <3>1. item \in ItemRows
            BY DEF RowsInv
        <3>2. CASE item' = [item EXCEPT !.curated = TRUE, !.touched = 0]
            BY ONLY <3>1, <3>2 DEF ItemRows
        <3>3. CASE item' = [item EXCEPT !.cached = TRUE, !.touched = 0]
            BY ONLY <3>1, <3>3 DEF ItemRows
        <3> QED BY <2>2, <3>2, <3>3
    <2>4. gone \in Nat /\ 0 <= gone
        BY DEF RowsInv
    <2>5. item'.touched <= gone
        BY <2>3, <2>4
    <2> QED BY <2>1, <2>3, <2>5 DEF RowsInv
<1>5. CASE EditSource
    <2>1. /\ kind' = kind /\ item' = item /\ gone' = gone /\ barren' = barren /\ source.there
          /\ \/ source' = [source EXCEPT !.enabled = ~source.enabled]
             \/ source' = [source EXCEPT !.valid = ~source.valid]
        BY <1>5 DEF EditSource
    <2>2. source' \in SourceRows /\ source'.there
        BY <2>1 DEF RowsInv, SourceRows
    <2> QED BY <2>1, <2>2 DEF RowsInv
<1>6. CASE DeleteSource
    <2>1. /\ kind' = kind /\ barren' = barren /\ source' = NoSource /\ item' = NoItem
          /\ gone' \in {0, gone}
        BY <1>6 DEF DeleteSource
    <2>2. source' \in SourceRows /\ ~source'.enabled
        BY <2>1 DEF NoSource, SourceRows
    <2> QED BY <2>1, <2>2, NoItemIsRow DEF RowsInv
<1>7. CASE Sweep
    <2>1. kind' = kind /\ source' = source /\ gone' = gone /\ barren' = barren
        BY <1>7 DEF Sweep
    <2>2. item' \in {item, NoItem}
        BY <1>7 DEF Sweep
    <2> QED BY <2>1, <2>2, NoItemIsRow DEF RowsInv
<1>8. CASE DayPasses
    <2>1. /\ kind' = kind /\ source' = source /\ barren' = barren
          /\ item' = IF item.there THEN [item EXCEPT !.touched = Older(item.touched)] ELSE item
          /\ gone' = IF source.there THEN 0 ELSE Older(gone)
        BY <1>8 DEF DayPasses
    <2>2. item.touched \in Nat /\ gone \in Nat /\ Older(gone) \in Nat /\ Older(item.touched) \in Nat
        BY OlderGrows DEF RowsInv, ItemRows
    <2>3. /\ item' \in ItemRows /\ item'.there = item.there
          /\ item.there => item'.touched = Older(item.touched)
        BY <2>1, <2>2 DEF RowsInv, ItemRows
    <2>4. ~source.there /\ item.there => Older(item.touched) <= Older(gone)
        BY <2>2, OlderGrows DEF RowsInv
    <2> QED BY <2>1, <2>2, <2>3, <2>4 DEF RowsInv
<1> QED BY <1>1, <1>2, <1>3, <1>4, <1>5, <1>6, <1>7, <1>8 DEF CatalogueNext


LEMMA ShapeKept ==
    ASSUME CatalogueInv, [CatalogueNext]_catalogueVars
    PROVE  SyncShape' /\ SyncKnows'
<1> USE DEF CatalogueInv
<1>1. CASE sync' = sync /\ kind' = kind /\ barren' = barren /\ (item'.there => item.there)
    BY <1>1 DEF SyncShape, SyncKnows, Found, Answered
<1>2. CASE sync' = NoSync
    <2>1. sync'.at = "idle"
        BY <1>2 DEF NoSync
    <2> QED BY <2>1 DEF SyncShape, SyncKnows
<1>3. CASE BeginSync
    <2>1. /\ sync' = [at |-> "listing", source |-> source, had |-> item.there \/ others,
                      pooled |-> pooled, barren |-> barren]
          /\ kind = "library" \/ source.enabled
          /\ kind' = kind /\ item' = item /\ barren' = barren
        BY <1>3 DEF BeginSync
    <2>2. /\ sync'.at = "listing" /\ sync'.source = source /\ sync'.barren = barren
          /\ {"at", "source", "had", "pooled", "barren"} \subseteq DOMAIN sync'
          /\ sync'.had = (item.there \/ others)
        BY <2>1
    <2>3. item.there => sync'.had
        BY <2>2, Zenon
    <2>4. SyncShape'
        BY <2>1, <2>2 DEF SyncShape, RowsInv
    <2> QED BY <2>1, <2>2, <2>3, <2>4 DEF SyncKnows
<1>4. CASE ListingAnswers
    <2>1. PICK got \in Answers :
              sync' = [at |-> "source", source |-> sync.source, had |-> sync.had, got |-> got,
                       pooled |-> sync.pooled, barren |-> sync.barren]
        BY <1>4 DEF ListingAnswers
    <2>2. sync.at = "listing" /\ kind' = kind /\ item' = item /\ barren' = barren
        BY <1>4 DEF ListingAnswers
    <2>3. /\ sync'.at = "source" /\ sync'.source = sync.source /\ sync'.barren = sync.barren
          /\ sync'.had = sync.had /\ sync'.got = got
          /\ {"at", "source", "had", "pooled", "barren"} \subseteq DOMAIN sync'
        BY <2>1
    <2>4. /\ got \in Listings \cup {Threw, Partial, Invalid}
          /\ kind = "remote" => got # Partial
          /\ kind = "library" => got # Invalid
          /\ kind = "direct" => got \in {{"item"}, Invalid}
        <3>1. Partial \notin Listings \cup {Threw, Invalid} /\ Invalid \notin Listings \cup {Threw, Partial}
            <4>1. "partial" \in Partial /\ "partial" \notin Threw /\ "partial" \notin Invalid
                BY DEF Partial, Threw, Invalid
            <4>2. "invalid" \in Invalid /\ "invalid" \notin Threw /\ "invalid" \notin Partial
                BY DEF Partial, Threw, Invalid
            <4>3. \A l \in Listings : "partial" \notin l /\ "invalid" \notin l
                BY DEF Listings
            <4> QED BY <4>1, <4>2, <4>3
        <3>2. {"item"} \in Listings
            BY DEF Listings
        <3> QED BY <2>1, <3>1, <3>2 DEF Answers, RowsInv
    <2>5. SyncShape'
        BY <2>2, <2>3, <2>4 DEF SyncShape
    <2> QED BY <2>2, <2>3, <2>5 DEF SyncKnows
<1>5. CASE SourceIsWritten
    <2>1. /\ sync.at = "source" /\ sync' = [sync EXCEPT !.at = "items"]
          /\ kind' = kind /\ item' = item /\ barren' = barren
        BY <1>5 DEF SourceIsWritten
    <2>2. /\ sync'.at = "items" /\ sync'.source = sync.source /\ sync'.barren = sync.barren
          /\ sync'.had = sync.had /\ sync'.got = sync.got /\ DOMAIN sync' = DOMAIN sync
        BY <2>1 DEF SyncShape
    <2>3. SyncShape'
        BY <2>1, <2>2 DEF SyncShape
    <2> QED BY <2>1, <2>2, <2>3 DEF SyncKnows
<1>6. CASE ItemsAreReplaced
    <2>1. /\ sync.at = "items"
          /\ sync' = [sync EXCEPT !.at = IF kind = "library" THEN "incidents" ELSE "runs"]
          /\ kind' = kind /\ barren' = barren
        BY <1>6 DEF ItemsAreReplaced
    <2>2. /\ sync'.at = IF kind = "library" THEN "incidents" ELSE "runs"
          /\ sync'.source = sync.source /\ sync'.barren = sync.barren
          /\ sync'.had = sync.had /\ sync'.got = sync.got /\ DOMAIN sync' = DOMAIN sync
        BY <2>1 DEF SyncShape
    <2>3. SyncShape'
        BY <2>1, <2>2 DEF SyncShape
    <2> QED BY <2>1, <2>2, <2>3 DEF SyncKnows
<1>7. CASE RunIsAppended
    <2>1. /\ sync.at = "runs" /\ kind' = kind /\ item' = item
          /\ barren' = IF Found(sync) \/ sync.got = Partial THEN 0 ELSE Barren(barren)
          /\ sync' = IF kind = "library" THEN NoSync ELSE [sync EXCEPT !.at = "incidents"]
        BY <1>7 DEF RunIsAppended
    <2>2. CASE kind # "library"
        <3>1. /\ sync'.at = "incidents" /\ sync'.source = sync.source /\ sync'.barren = sync.barren
              /\ sync'.had = sync.had /\ sync'.got = sync.got /\ DOMAIN sync' = DOMAIN sync
            BY <2>1, <2>2 DEF SyncShape
        <3>2. SyncShape'
            BY <2>1, <2>2, <3>1 DEF SyncShape
        <3>3. ASSUME kind = "remote", ~Found(sync')
              PROVE  barren' = Barren(sync'.barren)
            <4>1. ~Found(sync)
                BY <3>1, <3>3 DEF Found, Answered
            <4>2. sync.got # Partial
                BY <2>1, <3>3 DEF SyncShape
            <4> QED BY <2>1, <2>2, <3>1, <4>1, <4>2 DEF SyncKnows
        <3> QED BY <2>1, <3>1, <3>2, <3>3 DEF SyncKnows
    <2> QED BY <1>2, <2>1, <2>2
<1>8. CASE IncidentsAreKept
    <2>1. /\ sync.at = "incidents" /\ kind' = kind /\ item' = item /\ barren' = barren
          /\ sync' = IF kind = "library" THEN [sync EXCEPT !.at = "runs"] ELSE NoSync
        BY <1>8 DEF IncidentsAreKept
    <2>2. CASE kind = "library"
        <3>1. /\ sync'.at = "runs" /\ sync'.source = sync.source /\ sync'.barren = sync.barren
              /\ sync'.had = sync.had /\ sync'.got = sync.got /\ DOMAIN sync' = DOMAIN sync
            BY <2>1, <2>2 DEF SyncShape
        <3>2. SyncShape'
            BY <2>1, <2>2, <3>1 DEF SyncShape
        <3> QED BY <2>1, <2>2, <3>1, <3>2 DEF SyncKnows
    <2> QED BY <1>2, <2>1, <2>2
<1>9. CASE SyncIsCutShort
    BY <1>2, <1>9 DEF SyncIsCutShort
<1>10. CASE Curate \/ CacheIsWritten \/ EditSource \/ EditReferences \/ CheckDelete
            \/ DeleteSource \/ Sweep \/ DayPasses \/ UNCHANGED catalogueVars
    <2>1. sync' = sync /\ kind' = kind /\ barren' = barren
        BY <1>10 DEF Curate, CacheIsWritten, EditSource, EditReferences, CheckDelete, DeleteSource,
                     Sweep, DayPasses, catalogueVars
    <2>2. item' \in {item, NoItem} \/ item.there
        BY <1>10 DEF Curate, CacheIsWritten, EditSource, EditReferences, CheckDelete, DeleteSource,
                     Sweep, DayPasses, catalogueVars
    <2> QED BY <1>1, <2>1, <2>2, NoItemIsRow
<1> QED BY <1>3, <1>4, <1>5, <1>6, <1>7, <1>8, <1>9, <1>10 DEF CatalogueNext

LEMMA CatalogueStarts == CatalogueInit => CatalogueInv
<1> SUFFICES ASSUME CatalogueInit PROVE CatalogueInv
    OBVIOUS
<1>1. sync.at = "idle"
    BY DEF CatalogueInit, NoSync
<1>2. SyncShape /\ SyncKnows
    BY <1>1 DEF SyncShape, SyncKnows
<1>3. RowsInv
    BY NoItemIsRow DEF CatalogueInit, RowsInv, SourceRows
<1> QED BY <1>2, <1>3 DEF CatalogueInv

\* The item's row: kept with what was written on it, or gone for one of the three reasons.
ItemKept ==
    item.there =>
        IF item'.there
        THEN (item.curated => item'.curated) /\ (item.cached => item'.cached)
        ELSE \/ deleting /\ ~deleting'
             \/ sync.at = "items" /\ Found(sync) /\ "item" \notin sync.got
             \/ ~source.there /\ gone >= Protection /\ ~referenced /\ ~pooled

LEMMA ItemStep ==
    ASSUME CatalogueInv, [CatalogueNext]_catalogueVars
    PROVE  ItemKept
<1> SUFFICES ASSUME item.there PROVE ItemKept
    BY DEF ItemKept
<1> USE DEF CatalogueInv
<1>1. CASE item' = item
    BY <1>1 DEF ItemKept
<1>2. CASE ItemsAreReplaced
    <2>1. CASE MayReplace(sync) /\ "item" \in sync.got
        <3>1. item' = Reinserted(item)
            BY <1>2, <2>1 DEF ItemsAreReplaced
        <3> QED BY <3>1, ReinsertedIsRow DEF RowsInv, ItemKept
    <2>2. CASE MayReplace(sync) /\ "item" \notin sync.got
        <3>1. sync.at = "items" /\ item' = NoItem
            BY <1>2, <2>2 DEF ItemsAreReplaced
        <3>2. sync.had
            BY <3>1 DEF SyncKnows
        <3>3. Found(sync)
            BY <2>2, <3>2, Zenon DEF MayReplace
        <3> QED BY <2>2, <3>1, <3>3, NoItemIsRow DEF ItemKept
    <2>3. CASE ~MayReplace(sync)
        BY <1>1, <1>2, <2>3 DEF ItemsAreReplaced
    <2> QED BY <2>1, <2>2, <2>3
<1>3. CASE Curate \/ CacheIsWritten
    <2>1. item' = [item EXCEPT !.curated = TRUE, !.touched = 0]
          \/ item' = [item EXCEPT !.cached = TRUE, !.touched = 0]
        BY <1>3 DEF Curate, CacheIsWritten
    <2>2. /\ item'.there = item.there
          /\ item'.curated \in {item.curated, TRUE} /\ item'.cached \in {item.cached, TRUE}
        BY <2>1 DEF RowsInv, ItemRows
    <2> QED BY <2>2 DEF ItemKept
<1>4. CASE DeleteSource
    <2>1. deleting /\ ~deleting' /\ item' = NoItem
        BY <1>4 DEF DeleteSource
    <2> QED BY <2>1, NoItemIsRow DEF ItemKept
<1>5. CASE Sweep
    <2>1. item' = item \/ (IsDeletable /\ item' = NoItem)
        BY <1>5 DEF Sweep
    <2>2. ASSUME IsDeletable PROVE ~source.there /\ gone >= Protection /\ ~referenced /\ ~pooled
        <3>1. item.touched \in Nat /\ gone \in Nat
            BY DEF RowsInv, ItemRows
        <3>2. ~source.there /\ ~referenced /\ ~pooled /\ item.touched >= Protection
            BY <2>2 DEF IsDeletable, IsOrphan, ProtectionIsOver
        <3> QED BY <3>1, <3>2, CatalogueAssumption DEF RowsInv, CatalogueAssumption
    <2> QED BY <1>1, <2>1, <2>2, NoItemIsRow DEF ItemKept
<1>6. CASE DayPasses
    <2>1. item' = [item EXCEPT !.touched = Older(item.touched)]
        BY <1>6 DEF DayPasses
    <2>2. item'.there = item.there /\ item'.curated = item.curated /\ item'.cached = item.cached
        BY <2>1 DEF RowsInv, ItemRows
    <2> QED BY <2>2 DEF ItemKept
<1>7. CASE \/ BeginSync \/ ListingAnswers \/ SourceIsWritten \/ RunIsAppended \/ IncidentsAreKept
           \/ SyncIsCutShort \/ EditSource \/ EditReferences \/ CheckDelete
           \/ UNCHANGED catalogueVars
    <2>1. item' = item
        BY <1>7 DEF BeginSync, ListingAnswers, SourceIsWritten, RunIsAppended, IncidentsAreKept,
                    SyncIsCutShort, EditSource, EditReferences, CheckDelete, catalogueVars
    <2> QED BY <1>1, <2>1
<1> QED BY <1>2, <1>3, <1>4, <1>5, <1>6, <1>7 DEF CatalogueNext

---------------------------------------------------------------------------
\* What came instead of a listing is none.
LEMMA NoListings ==
    /\ Threw \notin Listings /\ Partial \notin Listings /\ Invalid \notin Listings
    /\ Threw # Partial
<1>1. "threw" \in Threw /\ "threw" \notin Partial
    BY DEF Threw, Partial
<1>2. "partial" \in Partial /\ "invalid" \in Invalid
    BY DEF Partial, Invalid
<1>3. \A l \in Listings : "partial" \notin l /\ "invalid" \notin l /\ "threw" \notin l
    BY DEF Listings
<1> QED BY <1>1, <1>2, <1>3

\* The last write of a sync on the incident, by the kind of the source.
LEMMA IncidentStep ==
    ASSUME CatalogueInv, IncidentsAreKept
    PROVE  /\ "failing" \in incidents /\ "failing" \notin incidents' =>
                  Found(sync) \/ (kind = "library" /\ Answered(sync))
           /\ /\ ~Found(sync)
              /\ kind = "remote" => barren >= AlertAfter /\ (sync.had \/ sync.pooled)
              /\ kind # "remote" => ~Answered(sync)
              => "failing" \in incidents'
<1> USE DEF CatalogueInv
<1>1. sync.at = "incidents" /\ kind \in {"remote", "library", "direct"}
    BY DEF IncidentsAreKept, RowsInv
<1>2. CASE kind = "remote"
    <2>1. incidents' = DroughtDecided(sync, incidents)
        BY <1>2 DEF IncidentsAreKept
    <2>2. ASSUME ~Found(sync) PROVE Barren(sync.barren) = barren /\ Barren(sync.barren) \in Nat \ {0}
        BY <1>1, <1>2, <2>2, BarrenCounts DEF SyncShape, SyncKnows
    <2>3. CASE Found(sync)
        BY <2>3
    <2>4. CASE ~Found(sync)
        <3>1. incidents' = IF barren >= AlertAfter /\ (sync.had \/ sync.pooled)
                           THEN incidents \cup {"failing"} ELSE incidents
            BY <2>1, <2>2, <2>4 DEF DroughtDecided
        <3> QED BY <1>2, <3>1
    <2> QED BY <2>3, <2>4
<1>3. CASE kind = "library"
    <2>1. incidents' = ScanDecided(sync, incidents)
        BY <1>3 DEF IncidentsAreKept
    <2>2. sync.got \in Listings \cup {Threw, Partial}
        BY <1>1, <1>3 DEF SyncShape
    <2>3. CASE sync.got = Threw
        <3>1. ~Answered(sync) /\ ~Found(sync) /\ sync.got # Partial
            BY <2>3, NoListings DEF Answered, Found
        <3>2. incidents' = incidents \cup {"failing"}
            BY <2>1, <2>3, <3>1 DEF ScanDecided
        <3> QED BY <3>2
    <2>4. CASE sync.got = Partial
        <3>1. ~Answered(sync) /\ ~Found(sync) /\ sync.got # Threw
            BY <2>4, NoListings DEF Answered, Found
        <3>2. incidents' = (incidents \ {"empty"}) \cup {"failing"}
            BY <2>1, <2>4, <3>1 DEF ScanDecided
        <3> QED BY <3>2
    <2>5. CASE sync.got \in Listings
        BY <1>3, <2>5 DEF Answered
    <2> QED BY <2>2, <2>3, <2>4, <2>5
<1>4. CASE kind = "direct"
    <2>1. incidents' = IF Answered(sync) THEN incidents \ {"failing"} ELSE incidents \cup {"failing"}
        BY <1>4 DEF IncidentsAreKept
    <2>2. Answered(sync) => Found(sync)
        <3>1. sync.got \in {{"item"}, Invalid}
            BY <1>1, <1>4 DEF SyncShape
        <3> QED BY <3>1, NoListings DEF Answered, Found
    <2> QED BY <1>4, <2>1, <2>2
<1> QED BY <1>1, <1>2, <1>3, <1>4

\* However many syncs, edits, deletes, downloads and sweeps there are and wherever a sync is cut short
\* (decideSourceAssetReplacement, decideSourceDroughtIncident, the retention sweep).
THEOREM NothingIsEverTakenAway == CatalogueSpec => SyncsTakeNothingAway
<1>1. CatalogueInv /\ [CatalogueNext]_catalogueVars => CatalogueInv'
    BY RowsKept, ShapeKept DEF CatalogueInv
<1>2. ASSUME CatalogueInv, [CatalogueNext]_catalogueVars
      PROVE  "failing" \in incidents \ incidents' =>
                 sync.at = "incidents" /\ (Found(sync) \/ (kind = "library" /\ Answered(sync)))
    <2>1. CASE IncidentsAreKept
        <3>1. sync.at = "incidents"
            BY <2>1 DEF IncidentsAreKept
        <3> QED BY <1>2, <2>1, <3>1, IncidentStep
    <2>2. CASE \/ BeginSync \/ ListingAnswers \/ SourceIsWritten \/ ItemsAreReplaced \/ RunIsAppended
               \/ SyncIsCutShort \/ Curate \/ CacheIsWritten \/ EditSource \/ EditReferences
               \/ CheckDelete \/ DeleteSource \/ Sweep \/ DayPasses \/ UNCHANGED catalogueVars
        <3>1. incidents' \in {incidents, incidents \cup {"failing"}}
            BY <2>2 DEF BeginSync, ListingAnswers, SourceIsWritten, ItemsAreReplaced, RunIsAppended,
                        SyncIsCutShort, Curate, CacheIsWritten, EditSource, EditReferences,
                        CheckDelete, DeleteSource, Sweep, DayPasses, catalogueVars
        <3> QED BY <3>1
    <2> QED BY <1>2, <2>1, <2>2 DEF CatalogueNext
<1>3. ASSUME CatalogueInv, [CatalogueNext]_catalogueVars
      PROVE  IncidentsAreKept /\ (kind = "remote" => barren >= AlertAfter /\ (sync.had \/ sync.pooled))
                 /\ ~Found(sync) /\ (kind # "remote" => ~Answered(sync))
             => "failing" \in incidents'
    BY <1>3, IncidentStep
<1>4. CatalogueInv /\ [CatalogueNext]_catalogueVars =>
        [/\ item.there =>
              IF item'.there
              THEN (item.curated => item'.curated) /\ (item.cached => item'.cached)
              ELSE \/ deleting /\ ~deleting'
                   \/ sync.at = "items" /\ Found(sync) /\ "item" \notin sync.got
                   \/ ~source.there /\ gone >= Protection /\ ~referenced /\ ~pooled
         /\ "failing" \in incidents \ incidents' =>
              sync.at = "incidents" /\ (Found(sync) \/ (kind = "library" /\ Answered(sync)))
         /\ IncidentsAreKept /\ (kind = "remote" => barren >= AlertAfter /\ (sync.had \/ sync.pooled))
                             /\ ~Found(sync) /\ (kind # "remote" => ~Answered(sync))
              => "failing" \in incidents']_catalogueVars
    BY <1>2, <1>3, ItemStep DEF ItemKept
<1> QED BY CatalogueStarts, <1>1, <1>4, PTL DEF CatalogueSpec, SyncsTakeNothingAway


---------------------------------------------------------------------------
(* Which sources a cycle gets round to                                     *)

Syncs == {"youtube", "twitch"}
SyncOf(x) == IF x \in ToSet(YouTube) THEN "youtube" ELSE "twitch"
SizeOf(x) == Len(SourcesOf(SyncOf(x)))

\* The place a source has in its sync's next walk: where it was deferred, else the last.
Seat(x, j) ==
    \/ j \in DOMAIN deferred[SyncOf(x)] /\ deferred[SyncOf(x)][j] = x
    \/ x \notin ToSet(deferred[SyncOf(x)]) /\ j = SizeOf(x)

Called == IF calls > 0 THEN 1 ELSE 0
NoCall == IF calls = 0 THEN 1 ELSE 0
NoYouTubeCall == IF youtubeCallsStarted = 0 THEN 1 ELSE 0
HeldBack == IF twitchHeldBack THEN 1 ELSE 0

TurnTypes == TurnsTypeOK /\ waited \in [Remote -> Nat]

\* A walk calls and defers each source at most once.
WalkCounted ==
    /\ step = "rest" => walk = {}
    /\ step # "rest" =>
          /\ walk \subseteq ToSet(SourcesOf(step))
          /\ Len(putOff) + calls + Cardinality(walk) <= Cardinality(ToSet(SourcesOf(step)))
    /\ \A s \in Syncs : Len(deferred[s]) <= Len(SourcesOf(s))

\* When a sync has made no call yet and it is its turn, there is room for one.
RoomForOne ==
    /\ step = "youtube" => youtubeCallsStarted = calls
    /\ step = "youtube" /\ (calls = 0 \/ twitchHeldBack) => left >= Timeout
    /\ step = "twitch" /\ calls = 0 /\ (youtubeCallsStarted = 0 \/ twitchHeldBack) => left >= Timeout
    /\ step # "rest" /\ putOff # <<>> => ~FitsWhole
    /\ twitchHeldBack => deferred["twitch"] # <<>>

\* Only a source that is on, still to come or put off has waited.
WhoWaits ==
    \A x \in Remote :
        /\ x \notin enabled => waited[x] = 0
        /\ x \in walk => x \in enabled /\ x \notin ToSet(putOff)
        /\ step = SyncOf(x) /\ x \notin walk /\ x \notin ToSet(putOff) => waited[x] = 0

\* What has been called or put off so far stood before what is still to come.
Overtaken ==
    \A x \in walk : \A j \in Nat : Seat(x, j) => Len(putOff) + 1 + Called <= j

\* What a source has waited beyond two cycles for each seat it moved up.
Owed(x, j) == waited[x] - 2 * (SizeOf(x) - j) - 2 * breaks

MayOwe(x) ==
    IF SyncOf(x) = "youtube"
    THEN IF step = "twitch" THEN NoYouTubeCall
         ELSE IF step = "youtube" /\ x \in ToSet(putOff) THEN 2 - HeldBack ELSE 1 - HeldBack
    ELSE IF step = "twitch" /\ x \in ToSet(putOff) THEN HeldBack + 1 ELSE HeldBack

SeatsMoveUp == \A x \in Remote : \A j \in Nat : Seat(x, j) => Owed(x, j) <= MayOwe(x)

NewSeats == step # "rest" => \A k \in DOMAIN putOff : Owed(putOff[k], k) <= NoCall

TurnsInv ==
    /\ TurnTypes /\ WalkCounted /\ RoomForOne /\ WhoWaits
    /\ Overtaken /\ SeatsMoveUp /\ NewSeats

LEMMA TablesKnown ==
    \A s \in Syncs :
        /\ SourcesOf(s) \in Seq(Remote) /\ Len(SourcesOf(s)) \in Nat
        /\ \A x \in ToSet(SourcesOf(s)) : x \in Remote /\ SyncOf(x) = s
<1>1. YouTube \in Seq(Remote) /\ Twitch \in Seq(Remote)
    BY SyncTurnsAssumption DEF SyncTurnsAssumption, Remote
<1>2. Len(YouTube) \in Nat /\ Len(Twitch) \in Nat
    BY <1>1
<1>3. \A x \in ToSet(YouTube) : x \in Remote /\ SyncOf(x) = "youtube"
    BY DEF Remote, SyncOf
<1>4. \A x \in ToSet(Twitch) : x \in Remote /\ SyncOf(x) = "twitch"
    BY SyncTurnsAssumption DEF SyncTurnsAssumption, Remote, SyncOf
<1> QED BY <1>1, <1>2, <1>3, <1>4 DEF Syncs, SourcesOf

LEMMA SyncKnown ==
    \A x \in Remote :
        /\ SyncOf(x) \in Syncs /\ x \in ToSet(SourcesOf(SyncOf(x)))
        /\ SizeOf(x) \in Nat /\ SizeOf(x) >= 1
<1> SUFFICES ASSUME NEW x \in Remote
             PROVE  /\ SyncOf(x) \in Syncs /\ x \in ToSet(SourcesOf(SyncOf(x)))
                    /\ SizeOf(x) \in Nat /\ SizeOf(x) >= 1
    OBVIOUS
<1>1. SyncOf(x) \in Syncs /\ x \in ToSet(SourcesOf(SyncOf(x)))
    BY DEF Remote, SyncOf, Syncs, SourcesOf
<1>2. SourcesOf(SyncOf(x)) \in Seq(Remote)
    BY <1>1, TablesKnown
<1>3. PICK i \in DOMAIN SourcesOf(SyncOf(x)) : SourcesOf(SyncOf(x))[i] = x
    BY <1>1 DEF ToSet
<1>4. SizeOf(x) \in Nat /\ SizeOf(x) >= 1
    BY <1>2, <1>3 DEF SizeOf
<1> QED BY <1>1, <1>4

\* The set a sequence lists is no larger than the sequence.
LEMMA ListedNoLarger ==
    ASSUME NEW q, NEW S, q \in Seq(S)
    PROVE  IsFiniteSet(ToSet(q)) /\ Cardinality(ToSet(q)) \in Nat /\ Cardinality(ToSet(q)) <= Len(q)
<1>1. DOMAIN q = 1..Len(q) /\ Len(q) \in Nat
    OBVIOUS
<1>2. q \in [1..Len(q) -> ToSet(q)]
    BY <1>1 DEF ToSet
<1>3. q \in Surjection(1..Len(q), ToSet(q))
    BY <1>1, <1>2 DEF Surjection, ToSet
<1>4. ExistsSurjection(1..Len(q), ToSet(q))
    BY <1>3 DEF ExistsSurjection
<1>5. IsFiniteSet(ToSet(q))
    BY <1>1, <1>4, FS_NatSurjection
<1> QED BY <1>1, <1>4, <1>5, FS_SurjCardinalityBound, FS_CardinalityType

LEMMA TableSizes ==
    /\ IsFiniteSet(Remote)
    /\ \A s \in Syncs :
          /\ IsFiniteSet(ToSet(SourcesOf(s))) /\ Cardinality(ToSet(SourcesOf(s))) \in Nat
          /\ Cardinality(ToSet(SourcesOf(s))) <= Len(SourcesOf(s))
          /\ Cardinality(ToSet(SourcesOf(s))) <= Cardinality(Remote)
<1>1. \A s \in Syncs :
          /\ IsFiniteSet(ToSet(SourcesOf(s))) /\ Cardinality(ToSet(SourcesOf(s))) \in Nat
          /\ Cardinality(ToSet(SourcesOf(s))) <= Len(SourcesOf(s))
    BY TablesKnown, ListedNoLarger
<1>2. IsFiniteSet(ToSet(YouTube)) /\ IsFiniteSet(ToSet(Twitch))
    BY <1>1 DEF Syncs, SourcesOf
<1>3. IsFiniteSet(Remote)
    BY <1>2, FS_Union DEF Remote
<1>4. \A s \in Syncs : ToSet(SourcesOf(s)) \in SUBSET Remote
    BY TablesKnown
<1>5. \A s \in Syncs : Cardinality(ToSet(SourcesOf(s))) <= Cardinality(Remote)
    BY <1>3, <1>4, FS_Subset
<1> QED BY <1>1, <1>3, <1>5

LEMMA SeatBounds ==
    ASSUME TurnTypes, WalkCounted, NEW x \in Remote
    PROVE  /\ \A j : Seat(x, j) => j \in Nat /\ 1 <= j /\ j <= SizeOf(x)
           /\ \E j \in Nat : Seat(x, j)
<1> DEFINE q == deferred[SyncOf(x)]
<1>1. SyncOf(x) \in Syncs /\ SizeOf(x) \in Nat /\ SizeOf(x) >= 1
    BY SyncKnown
<1>2. q \in Seq(Remote)
    BY <1>1 DEF TurnTypes, TurnsTypeOK, Syncs
<1>3. Len(q) <= SizeOf(x)
    BY <1>1 DEF WalkCounted, SizeOf
<1>4. DOMAIN q = 1..Len(q) /\ Len(q) \in Nat
    BY <1>2
<1>5. \A j : Seat(x, j) <=> (j \in DOMAIN q /\ q[j] = x) \/ (x \notin ToSet(q) /\ j = SizeOf(x))
    BY DEF Seat
<1> HIDE DEF q
<1>6. \A j : Seat(x, j) => j \in Nat /\ 1 <= j /\ j <= SizeOf(x)
    BY <1>1, <1>3, <1>4, <1>5
<1>7. \E j \in Nat : Seat(x, j)
    <2>1. CASE x \in ToSet(q)
        <3>1. PICK j \in DOMAIN q : q[j] = x
            BY <2>1 DEF ToSet
        <3> QED BY <3>1, <1>4, <1>5
    <2>2. CASE x \notin ToSet(q)
        BY <2>2, <1>1, <1>5
    <2> QED BY <2>1, <2>2
<1> QED BY <1>6, <1>7

\* What the next source leaves behind it moves up one seat.
LEMMA NextMovesUp ==
    ASSUME TurnsInv, step # "rest", NEW x, IsNext(x)
    PROVE  \A y \in walk \ {x} : \A j \in Nat : Seat(y, j) => Len(putOff) + 2 + Called <= j
<1> SUFFICES ASSUME NEW y \in walk \ {x}, NEW j \in Nat, Seat(y, j)
             PROVE  Len(putOff) + 2 + Called <= j
    OBVIOUS
<1>1. step \in Syncs /\ x \in walk /\ walk \subseteq ToSet(SourcesOf(step))
    BY DEF TurnsInv, TurnTypes, TurnsTypeOK, Syncs, WalkCounted, IsNext
<1>2. x \in Remote /\ y \in Remote /\ SyncOf(x) = step /\ SyncOf(y) = step
    BY <1>1, TablesKnown
<1> DEFINE q == deferred[step]
           t == SourcesOf(step)
<1>3. q \in Seq(Remote) /\ t \in Seq(Remote) /\ DOMAIN q = 1..Len(q) /\ Len(q) \in Nat /\ Len(t) \in Nat
    <2>1. q \in Seq(Remote) /\ t \in Seq(Remote)
        BY <1>1, TablesKnown DEF TurnsInv, TurnTypes, TurnsTypeOK, Syncs
    <2> QED BY <2>1
<1>4. Len(putOff) \in Nat /\ calls \in Nat /\ Called \in {0, 1} /\ Called <= calls
    BY TableSizes, FS_CardinalityType DEF TurnsInv, TurnTypes, TurnsTypeOK, Called
<1>5. CASE j \in DOMAIN q /\ q[j] = y
    <2>1. PICK i \in DOMAIN (q \o t) : /\ (q \o t)[i] = x
                                       /\ \A n \in DOMAIN (q \o t) : (q \o t)[n] = y => i < n
        BY <1>1 DEF IsNext, ComesBefore, OrderDeferredFirst
    <2>2. /\ q \o t \in Seq(Remote) /\ Len(q \o t) = Len(q) + Len(t)
          /\ \A n \in 1..Len(q) + Len(t) : (q \o t)[n] = IF n <= Len(q) THEN q[n] ELSE t[n - Len(q)]
        BY <1>3, ConcatProperties
    <2>3. DOMAIN (q \o t) = 1..Len(q) + Len(t)
        BY <2>2
    <2> HIDE DEF q, t
    <2>4. j \in 1..Len(q) + Len(t) /\ j <= Len(q)
        BY <1>3, <1>5
    <2>5. (q \o t)[j] = y
        BY <1>5, <2>2, <2>4
    <2>6. i \in Nat /\ 1 <= i /\ i < j
        BY <2>1, <2>3, <2>4, <2>5
    <2>7. i \in 1..Len(q) /\ q[i] = x
        BY <2>1, <2>2, <2>3, <2>4, <2>6, <1>3
    <2>8. Seat(x, i)
        BY <2>7, <1>2, <1>3 DEF Seat, q
    <2>9. Len(putOff) + 1 + Called <= i
        BY <1>1, <2>6, <2>8 DEF TurnsInv, Overtaken
    <2> QED BY <1>4, <2>6, <2>9
<1>6. CASE y \notin ToSet(q) /\ j = SizeOf(y)
    <2>1. IsFiniteSet(walk)
        BY <1>1, TableSizes, FS_Subset
    <2>2. Cardinality(walk) \in Nat /\ Cardinality(walk \ {x}) \in Nat /\ IsFiniteSet(walk \ {x})
          /\ Cardinality(walk \ {x}) = Cardinality(walk) - 1
        BY <1>1, <2>1, FS_RemoveElement, FS_CardinalityType
    <2>3. Cardinality(walk \ {x}) # 0
        BY <2>2, FS_EmptySet
    <2>4. Len(putOff) + calls + Cardinality(walk) <= Cardinality(ToSet(t))
        BY <1>1 DEF TurnsInv, WalkCounted, Syncs
    <2>5. Cardinality(ToSet(t)) \in Nat /\ Cardinality(ToSet(t)) <= j
        BY <1>1, <1>2, <1>6, TableSizes DEF SizeOf
    <2> QED BY <1>4, <2>2, <2>3, <2>4, <2>5
<1> QED BY <1>2, <1>5, <1>6 DEF Seat


LEMMA TurnTyped ==
    ASSUME TurnsInv
    PROVE  /\ step \in {"rest", "youtube", "twitch"}
           /\ left \in Nat /\ calls \in Nat /\ breaks \in Nat /\ youtubeCallsStarted \in Nat
           /\ putOff \in Seq(Remote) /\ Len(putOff) \in Nat /\ DOMAIN putOff = 1..Len(putOff)
           /\ \A x \in Remote : waited[x] \in Nat
           /\ Timeout \in Nat /\ Timeout > 0 /\ Budget \in Nat /\ Timeout <= Budget
           /\ twitchHeldBack \in BOOLEAN /\ HeldBack \in {0, 1} /\ Called \in {0, 1}
           /\ NoCall \in {0, 1} /\ NoYouTubeCall \in {0, 1}
<1>1. Cardinality(Remote) \in Nat
    BY TableSizes, FS_CardinalityType
<1>2. putOff \in Seq(Remote)
    BY DEF TurnsInv, TurnTypes, TurnsTypeOK
<1>3. Len(putOff) \in Nat /\ DOMAIN putOff = 1..Len(putOff)
    BY <1>2
<1>4. Len(YouTube) \in Nat
    BY TablesKnown DEF Syncs, SourcesOf
<1>5. \A x \in Remote : waited[x] \in Nat
    BY DEF TurnsInv, TurnTypes
<1>6. left \in Nat /\ calls \in Nat /\ breaks \in Nat /\ youtubeCallsStarted \in Nat
    BY <1>1, <1>4, SyncTurnsAssumption DEF TurnsInv, TurnTypes, TurnsTypeOK, SyncTurnsAssumption
<1>7. twitchHeldBack \in BOOLEAN /\ step \in {"rest", "youtube", "twitch"}
    BY DEF TurnsInv, TurnTypes, TurnsTypeOK
<1> QED BY <1>2, <1>3, <1>5, <1>6, <1>7, SyncTurnsAssumption
        DEF SyncTurnsAssumption, HeldBack, Called, NoCall, NoYouTubeCall

\* A walk of a sync can begin on what is on of its table.
LEMMA WalksFit ==
    \A s \in Syncs : /\ WalkOf(s) \subseteq ToSet(SourcesOf(s)) /\ WalkOf(s) \subseteq Remote
                     /\ Cardinality(WalkOf(s)) \in Nat
                     /\ Cardinality(WalkOf(s)) <= Cardinality(ToSet(SourcesOf(s)))
<1> SUFFICES ASSUME NEW s \in Syncs
             PROVE  /\ WalkOf(s) \subseteq ToSet(SourcesOf(s)) /\ WalkOf(s) \subseteq Remote
                    /\ Cardinality(WalkOf(s)) \in Nat
                    /\ Cardinality(WalkOf(s)) <= Cardinality(ToSet(SourcesOf(s)))
    OBVIOUS
<1>1. WalkOf(s) \in SUBSET ToSet(SourcesOf(s)) /\ WalkOf(s) \subseteq Remote
    BY TablesKnown DEF WalkOf
<1> QED BY <1>1, TableSizes, FS_Subset, FS_CardinalityType

LEMMA TurnsStart == TurnsInit => TurnsInv
<1> SUFFICES ASSUME TurnsInit PROVE TurnsInv
    OBVIOUS
<1>1. TurnTypes
    <2>1. Cardinality(Remote) \in Nat /\ Len(YouTube) \in Nat
        BY TableSizes, FS_CardinalityType, TablesKnown DEF Syncs, SourcesOf
    <2>2. deferred \in [{"youtube", "twitch"} -> Seq(Remote)] /\ putOff \in Seq(Remote)
        BY DEF TurnsInit
    <2>3. left \in 0..Budget /\ calls \in 0..Cardinality(Remote) /\ breaks \in 0..MaxStepBreaks
          /\ youtubeCallsStarted \in 0..Len(YouTube)
        BY <2>1, SyncTurnsAssumption DEF TurnsInit, SyncTurnsAssumption
    <2>4. paused \in [Remote -> 0..PauseFor] /\ waited \in [Remote -> Nat]
        BY SyncTurnsAssumption DEF TurnsInit, SyncTurnsAssumption
    <2>5. enabled \subseteq Remote /\ step \in {"rest", "youtube", "twitch"} /\ walk \subseteq Remote
          /\ twitchHeldBack \in BOOLEAN
        BY DEF TurnsInit
    <2> QED BY <2>2, <2>3, <2>4, <2>5 DEF TurnTypes, TurnsTypeOK
<1>2. WalkCounted
    BY TablesKnown DEF TurnsInit, WalkCounted, Syncs
<1>3. RoomForOne /\ WhoWaits /\ Overtaken /\ NewSeats
    BY DEF TurnsInit, RoomForOne, WhoWaits, Overtaken, NewSeats, SyncOf, ToSet
<1>4. SeatsMoveUp
    <2> SUFFICES ASSUME NEW x \in Remote, NEW j \in Nat, Seat(x, j)
                 PROVE  Owed(x, j) <= MayOwe(x)
        BY DEF SeatsMoveUp
    <2>1. j <= SizeOf(x) /\ SizeOf(x) \in Nat
        BY <1>1, <1>2, SeatBounds, SyncKnown
    <2>2. waited[x] = 0 /\ breaks = 0
        BY DEF TurnsInit
    <2>3. Owed(x, j) <= 0
        BY <2>1, <2>2 DEF Owed
    <2>4. MayOwe(x) \in {0, 1}
        BY DEF TurnsInit, MayOwe, HeldBack, NoYouTubeCall
    <2>5. Owed(x, j) \in Int
        BY <2>1, <2>2 DEF Owed
    <2> QED BY <2>3, <2>4, <2>5
<1> QED BY <1>1, <1>2, <1>3, <1>4 DEF TurnsInv

LEMMA BeginKeeps == TurnsInv /\ BeginCycle => TurnsInv'
<1> SUFFICES ASSUME TurnsInv, BeginCycle PROVE TurnsInv'
    OBVIOUS
<1>0. "youtube" \in Syncs /\ SourcesOf("youtube") = YouTube
    BY DEF Syncs, SourcesOf
<1>1. /\ step = "rest" /\ step' = "youtube" /\ walk' = WalkOf("youtube") /\ putOff' = <<>> /\ calls' = 0
      /\ youtubeCallsStarted' = 0 /\ left' \in Timeout..Budget
      /\ UNCHANGED <<enabled, deferred, twitchHeldBack, waited, breaks>>
    BY DEF BeginCycle
<1>2. TurnTypes'
    <2>1. Cardinality(Remote) \in Nat /\ Len(YouTube) \in Nat
        BY TableSizes, FS_CardinalityType, TablesKnown DEF Syncs, SourcesOf
    <2>2. paused' \in [Remote -> 0..PauseFor]
        BY SyncTurnsAssumption DEF TurnsInv, TurnTypes, TurnsTypeOK, BeginCycle, SyncTurnsAssumption
    <2>3. left' \in 0..Budget
        BY <1>1, SyncTurnsAssumption DEF SyncTurnsAssumption
    <2>4. walk' \subseteq Remote /\ putOff' \in Seq(Remote)
        BY <1>0, <1>1, WalksFit
    <2> QED BY <1>1, <2>1, <2>2, <2>3, <2>4 DEF TurnsInv, TurnTypes, TurnsTypeOK
<1>3. WalkCounted'
    BY <1>0, <1>1, WalksFit DEF TurnsInv, WalkCounted
<1>4. RoomForOne'
    BY <1>1, TurnTyped DEF TurnsInv, RoomForOne
<1>5. \A x \in Remote, j \in Nat : Seat(x, j)' <=> Seat(x, j)
    BY <1>1 DEF Seat
<1>6. WhoWaits'
    <2>1. \A x \in Remote : /\ SyncOf(x) = "youtube" /\ x \notin walk' => x \notin enabled
                            /\ x \in walk' => x \in enabled
        BY <1>0, <1>1, SyncKnown DEF WalkOf
    <2>2. ToSet(putOff') = {}
        BY <1>1 DEF ToSet
    <2> QED BY <1>1, <2>1, <2>2 DEF TurnsInv, WhoWaits
<1>7. Overtaken'
    <2> SUFFICES ASSUME NEW x \in walk', NEW j \in Nat, Seat(x, j)'
                 PROVE  Len(putOff') + 1 + Called' <= j
        BY DEF Overtaken
    <2>1. x \in Remote
        BY <1>0, <1>1, WalksFit
    <2>2. Seat(x, j)
        BY <1>5, <2>1
    <2>3. 1 <= j
        BY <2>1, <2>2, SeatBounds DEF TurnsInv
    <2>4. Len(putOff') = 0 /\ Called' = 0
        BY <1>1 DEF Called
    <2> QED BY <2>3, <2>4
<1>8. SeatsMoveUp'
    <2> SUFFICES ASSUME NEW x \in Remote, NEW j \in Nat, Seat(x, j)'
                 PROVE  (Owed(x, j) <= MayOwe(x))'
        BY DEF SeatsMoveUp
    <2>1. Owed(x, j) <= MayOwe(x)
        BY <1>5 DEF TurnsInv, SeatsMoveUp
    <2>2. Owed(x, j)' = Owed(x, j)
        BY <1>1 DEF Owed
    <2>3. ToSet(putOff') = {}
        BY <1>1 DEF ToSet
    <2>4. MayOwe(x)' = MayOwe(x)
        BY <1>1, <2>3 DEF MayOwe, HeldBack
    <2> QED BY <2>1, <2>2, <2>4
<1>9. NewSeats'
    BY <1>1 DEF NewSeats
<1> QED BY <1>2, <1>3, <1>4, <1>6, <1>7, <1>8, <1>9 DEF TurnsInv

\* Passed over, called or put off, the next source leaves the walk and the rest moves up.
LEMMA WalkShrinks ==
    ASSUME TurnsInv, step # "rest", NEW x, IsNext(x), walk' = walk \ {x}
    PROVE  /\ step \in Syncs /\ x \in Remote /\ SyncOf(x) = step /\ x \notin ToSet(putOff)
           /\ walk' \subseteq ToSet(SourcesOf(step)) /\ walk' \subseteq Remote
           /\ Cardinality(walk') \in Nat
           /\ Len(putOff) + calls + Cardinality(walk') + 1 <= Cardinality(ToSet(SourcesOf(step)))
<1>1. step \in Syncs /\ x \in walk /\ walk \subseteq ToSet(SourcesOf(step))
    BY DEF TurnsInv, TurnTypes, TurnsTypeOK, Syncs, WalkCounted, IsNext
<1>2. x \in Remote /\ SyncOf(x) = step /\ walk \subseteq Remote
    BY <1>1, TablesKnown
<1>3. x \notin ToSet(putOff)
    BY <1>1, <1>2 DEF TurnsInv, WhoWaits
<1>4. IsFiniteSet(walk)
    BY <1>1, TableSizes, FS_Subset
<1>5. Cardinality(walk) \in Nat /\ Cardinality(walk \ {x}) \in Nat
      /\ Cardinality(walk \ {x}) = Cardinality(walk) - 1
    BY <1>1, <1>4, FS_RemoveElement, FS_CardinalityType
<1>6. Len(putOff) + calls + Cardinality(walk) <= Cardinality(ToSet(SourcesOf(step)))
    BY <1>1 DEF TurnsInv, WalkCounted, Syncs
<1>7. Len(putOff) \in Nat /\ calls \in Nat /\ Cardinality(ToSet(SourcesOf(step))) \in Nat
    BY <1>1, TurnTyped, TableSizes
<1>8. Len(putOff) + calls + Cardinality(walk') + 1 <= Cardinality(ToSet(SourcesOf(step)))
    BY <1>5, <1>6, <1>7
<1> QED BY <1>1, <1>2, <1>3, <1>5, <1>8

\* A source that has not waited owes nothing, wherever it stands.
FreshOwe == \A x \in Remote : \A j \in Nat : Seat(x, j) /\ waited[x] = 0 => Owed(x, j) <= MayOwe(x)

LEMMA FreshOwes == TurnTypes /\ WalkCounted => FreshOwe
<1> SUFFICES ASSUME TurnTypes, WalkCounted, NEW x \in Remote, NEW j \in Nat, Seat(x, j), waited[x] = 0
             PROVE  Owed(x, j) <= MayOwe(x)
    BY DEF FreshOwe
<1>1. j <= SizeOf(x) /\ SizeOf(x) \in Nat
    BY SeatBounds, SyncKnown
<1>2. breaks \in Nat
    BY SyncTurnsAssumption DEF TurnTypes, TurnsTypeOK, SyncTurnsAssumption
<1>3. Owed(x, j) <= 0 /\ Owed(x, j) \in Int
    BY <1>1, <1>2 DEF Owed
<1>4. MayOwe(x) \in {0, 1, 2}
    BY DEF TurnTypes, TurnsTypeOK, MayOwe, HeldBack, NoYouTubeCall
<1> QED BY <1>3, <1>4

LEMMA FreshOwesNext == TurnTypes' /\ WalkCounted' => FreshOwe'
BY FreshOwes, PTL

SeatsBounded == \A x \in Remote : \A j : Seat(x, j) => j \in Nat /\ 1 <= j

LEMMA SeatsAreBounded == TurnTypes /\ WalkCounted => SeatsBounded
BY SeatBounds DEF SeatsBounded

LEMMA SeatsBoundedNext == TurnTypes' /\ WalkCounted' => SeatsBounded'
BY SeatsAreBounded, PTL


LEMMA WalkingNow == \A x : TurnsInv /\ IsNext(x) => step # "rest"
BY DEF IsNext, TurnsInv, WalkCounted

LEMMA PassOverKeeps == \A x \in Remote : TurnsInv /\ PassOverPaused(x) => TurnsInv'
<1> SUFFICES ASSUME NEW x \in Remote, TurnsInv, PassOverPaused(x) PROVE TurnsInv'
    OBVIOUS
<1>1. /\ IsNext(x) /\ walk' = walk \ {x} /\ waited' = [waited EXCEPT ![x] = 0]
      /\ UNCHANGED <<enabled, step, left, calls, putOff, deferred, twitchHeldBack,
                     youtubeCallsStarted, paused, breaks>>
    BY DEF PassOverPaused
<1>2. step # "rest"
    BY <1>1, WalkingNow
<1>3. /\ step \in Syncs /\ x \in Remote /\ SyncOf(x) = step /\ x \notin ToSet(putOff)
      /\ walk' \subseteq ToSet(SourcesOf(step)) /\ walk' \subseteq Remote
      /\ Cardinality(walk') \in Nat
      /\ Len(putOff) + calls + Cardinality(walk') + 1 <= Cardinality(ToSet(SourcesOf(step)))
    BY <1>1, <1>2, WalkShrinks
<1>4. waited' \in [Remote -> Nat] /\ waited'[x] = 0 /\ \A y \in Remote \ {x} : waited'[y] = waited[y]
    BY <1>1 DEF TurnsInv, TurnTypes
<1>5. TurnTypes'
    BY <1>1, <1>3, <1>4 DEF TurnsInv, TurnTypes, TurnsTypeOK
<1>6. WalkCounted'
    <2>1. Len(putOff) + calls + Cardinality(walk') <= Cardinality(ToSet(SourcesOf(step)))
        BY <1>3, TurnTyped, TableSizes
    <2> QED BY <1>1, <1>2, <1>3, <2>1 DEF TurnsInv, WalkCounted, SourcesOf
<1>7. RoomForOne'
    <2>1. FitsWhole' <=> FitsWhole
        BY <1>1 DEF FitsWhole, Reserve
    <2> QED BY <1>1, <2>1 DEF TurnsInv, RoomForOne
<1>8. \A y \in Remote, j \in Nat : Seat(y, j)' <=> Seat(y, j)
    BY <1>1 DEF Seat
<1>9. WhoWaits'
    <2> SUFFICES ASSUME NEW y \in Remote
                 PROVE  /\ y \notin enabled => waited'[y] = 0
                        /\ y \in walk' => y \in enabled /\ y \notin ToSet(putOff)
                        /\ step = SyncOf(y) /\ y \notin walk' /\ y \notin ToSet(putOff) => waited'[y] = 0
        BY <1>1 DEF WhoWaits
    <2>1. CASE y = x
        BY <1>1, <1>4, <2>1
    <2>2. CASE y # x
        BY <1>1, <1>4, <2>2 DEF TurnsInv, WhoWaits
    <2> QED BY <2>1, <2>2
<1>10. Overtaken'
    <2> SUFFICES ASSUME NEW y \in walk', NEW j \in Nat, Seat(y, j)'
                 PROVE  Len(putOff) + 1 + Called <= j
        BY <1>1 DEF Overtaken, Called
    <2>1. Seat(y, j) /\ y \in walk
        BY <1>1, <1>3, <1>8
    <2> QED BY <2>1 DEF TurnsInv, Overtaken
<1>11. SeatsMoveUp'
    <2> SUFFICES ASSUME NEW y \in Remote, NEW j \in Nat, Seat(y, j)'
                 PROVE  (Owed(y, j) <= MayOwe(y))'
        BY DEF SeatsMoveUp
    <2>1. MayOwe(y)' = MayOwe(y)
        BY <1>1 DEF MayOwe, HeldBack, NoYouTubeCall
    <2>2. Seat(y, j)
        BY <1>8
    <2>3. CASE y # x
        <3>1. Owed(y, j)' = Owed(y, j)
            BY <1>1, <1>4, <2>3 DEF Owed
        <3> QED BY <2>1, <2>2, <3>1 DEF TurnsInv, SeatsMoveUp
    <2>4. CASE y = x
        BY <1>4, <1>5, <1>6, <2>4, FreshOwesNext DEF FreshOwe
    <2> QED BY <2>3, <2>4
<1>12. NewSeats'
    <2>1. \A k \in DOMAIN putOff : putOff[k] \in Remote /\ putOff[k] # x
        BY <1>3, TurnTyped DEF ToSet
    <2>2. \A k \in DOMAIN putOff : Owed(putOff[k], k)' = Owed(putOff[k], k)
        BY <1>1, <1>4, <2>1 DEF Owed
    <2> QED BY <1>1, <2>2 DEF TurnsInv, NewSeats, NoCall
<1> QED BY <1>5, <1>6, <1>7, <1>9, <1>10, <1>11, <1>12 DEF TurnsInv

LEMMA CallKeeps == \A x \in Remote : TurnsInv /\ Call(x) => TurnsInv'
<1> SUFFICES ASSUME NEW x \in Remote, TurnsInv, Call(x) PROVE TurnsInv'
    OBVIOUS
<1>1. /\ IsNext(x) /\ FitsWhole /\ walk' = walk \ {x} /\ waited' = [waited EXCEPT ![x] = 0]
      /\ calls' = calls + 1 /\ CallsStarted
      /\ UNCHANGED <<enabled, step, putOff, deferred, twitchHeldBack, breaks>>
    BY DEF Call
<1>2. step # "rest"
    BY <1>1, WalkingNow
<1>3. /\ step \in Syncs /\ x \in Remote /\ SyncOf(x) = step /\ x \notin ToSet(putOff)
      /\ walk' \subseteq ToSet(SourcesOf(step)) /\ walk' \subseteq Remote
      /\ Cardinality(walk') \in Nat
      /\ Len(putOff) + calls + Cardinality(walk') + 1 <= Cardinality(ToSet(SourcesOf(step)))
    BY <1>1, <1>2, WalkShrinks
<1>4. waited' \in [Remote -> Nat] /\ waited'[x] = 0 /\ \A y \in Remote \ {x} : waited'[y] = waited[y]
    BY <1>1 DEF TurnsInv, TurnTypes
<1>a. PICK took \in 0..Timeout :
          /\ left' = left - took
          /\ paused' = [paused EXCEPT ![x] = IF took = Timeout THEN PauseFor ELSE 0]
    BY DEF Call
<1>b. /\ step \in {"youtube", "twitch"} /\ left \in Nat /\ calls \in Nat /\ Timeout \in Nat /\ Timeout > 0
      /\ took \in Nat /\ took <= Timeout /\ Len(putOff) \in Nat /\ left <= Budget /\ Budget \in Nat
    BY <1>2, TurnTyped DEF TurnsInv, TurnTypes, TurnsTypeOK
<1>c. Reserve \in {0, Timeout} /\ left - Reserve >= Timeout /\ left' \in 0..Budget
    BY <1>1, <1>a, <1>b DEF Reserve, FitsWhole
<1>d. putOff = <<>> /\ Len(putOff) = 0
    BY <1>1, <1>2 DEF TurnsInv, RoomForOne
<1>e. Cardinality(ToSet(SourcesOf(step))) \in Nat
      /\ Cardinality(ToSet(SourcesOf(step))) <= Cardinality(Remote)
      /\ Cardinality(ToSet(SourcesOf(step))) <= Len(SourcesOf(step))
      /\ Cardinality(Remote) \in Nat /\ Len(SourcesOf(step)) \in Nat
    BY <1>3, TableSizes, TablesKnown, FS_CardinalityType
<1>f. calls' \in Nat /\ calls' > 0 /\ calls' <= Cardinality(ToSet(SourcesOf(step)))
    BY <1>1, <1>3, <1>b, <1>d, <1>e
<1>5. TurnTypes'
    <2>1. calls' \in 0..Cardinality(Remote)
        BY <1>e, <1>f
    <2>2. youtubeCallsStarted' \in 0..Len(YouTube)
        BY <1>1, <1>e, <1>f DEF CallsStarted, SourcesOf, TurnsInv, TurnTypes, TurnsTypeOK
    <2>3. (IF took = Timeout THEN PauseFor ELSE 0) \in 0..PauseFor
        BY SyncTurnsAssumption DEF SyncTurnsAssumption
    <2>4. paused' \in [Remote -> 0..PauseFor]
        BY <1>a, <2>3 DEF TurnsInv, TurnTypes, TurnsTypeOK
    <2> QED BY <1>1, <1>3, <1>4, <1>c, <2>1, <2>2, <2>4 DEF TurnsInv, TurnTypes, TurnsTypeOK
<1>6. WalkCounted'
    <2>1. Len(putOff') + calls' + Cardinality(walk') <= Cardinality(ToSet(SourcesOf(step)))
        BY <1>1, <1>3, <1>b, <1>d, <1>e
    <2> QED BY <1>1, <1>2, <1>3, <2>1 DEF TurnsInv, WalkCounted, SourcesOf
<1>7. RoomForOne'
    <2>1. twitchHeldBack => deferred["twitch"] # <<>>
        BY DEF TurnsInv, RoomForOne
    <2>2. step = "youtube" /\ twitchHeldBack => left' >= Timeout
        BY <1>a, <1>b, <1>c, <2>1 DEF Reserve
    <2>3. step = "youtube" => youtubeCallsStarted' = calls'
        BY <1>1 DEF CallsStarted
    <2> QED BY <1>1, <1>b, <1>d, <1>f, <2>1, <2>2, <2>3 DEF RoomForOne
<1>8. \A y \in Remote, j \in Nat : Seat(y, j)' <=> Seat(y, j)
    BY <1>1 DEF Seat
<1>9. WhoWaits'
    <2> SUFFICES ASSUME NEW y \in Remote
                 PROVE  /\ y \notin enabled => waited'[y] = 0
                        /\ y \in walk' => y \in enabled /\ y \notin ToSet(putOff)
                        /\ step = SyncOf(y) /\ y \notin walk' /\ y \notin ToSet(putOff) => waited'[y] = 0
        BY <1>1 DEF WhoWaits
    <2>1. CASE y = x
        BY <1>1, <1>4, <2>1
    <2>2. CASE y # x
        BY <1>1, <1>4, <2>2 DEF TurnsInv, WhoWaits
    <2> QED BY <2>1, <2>2
<1>10. Overtaken'
    <2> SUFFICES ASSUME NEW y \in walk', NEW j \in Nat, Seat(y, j)'
                 PROVE  Len(putOff) + 1 + Called' <= j
        BY <1>1 DEF Overtaken
    <2>1. Seat(y, j) /\ y \in walk \ {x}
        BY <1>1, <1>3, <1>8
    <2>2. Len(putOff) + 2 + Called <= j
        BY <1>1, <1>2, <2>1, NextMovesUp
    <2>3. Called \in {0, 1} /\ Called' = 1
        BY <1>f, TurnTyped DEF Called
    <2> QED BY <1>b, <2>2, <2>3
<1>11. SeatsMoveUp'
    <2> SUFFICES ASSUME NEW y \in Remote, NEW j \in Nat, Seat(y, j)'
                 PROVE  (Owed(y, j) <= MayOwe(y))'
        BY DEF SeatsMoveUp
    <2>1. SyncOf(y) \in Syncs
        BY SyncKnown
    <2>2. Seat(y, j)
        BY <1>8
    <2>3. CASE y # x
        <3>1. Owed(y, j)' = Owed(y, j)
            BY <1>1, <1>4, <2>3 DEF Owed
        <3>2. step = "twitch" => youtubeCallsStarted' = youtubeCallsStarted
            BY <1>1 DEF CallsStarted
        <3>3. MayOwe(y)' = MayOwe(y)
            BY <1>1, <3>2 DEF MayOwe, HeldBack, NoYouTubeCall
        <3> QED BY <2>2, <3>1, <3>3 DEF TurnsInv, SeatsMoveUp
    <2>4. CASE y = x
        BY <1>4, <1>5, <1>6, <2>4, FreshOwesNext DEF FreshOwe
    <2> QED BY <2>3, <2>4
<1>12. NewSeats'
    BY <1>1, <1>b, <1>d DEF NewSeats
<1> QED BY <1>5, <1>6, <1>7, <1>9, <1>10, <1>11, <1>12 DEF TurnsInv


LEMMA PutOffKeeps == \A x \in Remote : TurnsInv /\ PutOff(x) => TurnsInv'
<1> SUFFICES ASSUME NEW x \in Remote, TurnsInv, PutOff(x) PROVE TurnsInv'
    OBVIOUS
<1>1. /\ IsNext(x) /\ ~FitsWhole /\ walk' = walk \ {x} /\ putOff' = Append(putOff, x)
      /\ waited' = [waited EXCEPT ![x] = waited[x] + 1]
      /\ UNCHANGED <<enabled, step, left, calls, deferred, twitchHeldBack, youtubeCallsStarted,
                     paused, breaks>>
    BY DEF PutOff
<1>2. step # "rest"
    BY <1>1, WalkingNow
<1>3. /\ step \in Syncs /\ x \in Remote /\ SyncOf(x) = step /\ x \notin ToSet(putOff)
      /\ walk' \subseteq ToSet(SourcesOf(step)) /\ walk' \subseteq Remote
      /\ Cardinality(walk') \in Nat
      /\ Len(putOff) + calls + Cardinality(walk') + 1 <= Cardinality(ToSet(SourcesOf(step)))
    BY <1>1, <1>2, WalkShrinks
<1> DEFINE n == Len(putOff)
<1>b. /\ n \in Nat /\ calls \in Nat /\ breaks \in Nat /\ waited[x] \in Nat /\ left \in Nat
      /\ putOff \in Seq(Remote) /\ DOMAIN putOff = 1..n /\ Timeout \in Nat
      /\ Called \in {0, 1} /\ HeldBack \in {0, 1} /\ twitchHeldBack \in BOOLEAN
      /\ NoCall \in {0, 1} /\ NoYouTubeCall \in {0, 1}
    BY TurnTyped
<1>4. waited' \in [Remote -> Nat] /\ waited'[x] = waited[x] + 1
      /\ \A y \in Remote \ {x} : waited'[y] = waited[y]
    BY <1>1, <1>b DEF TurnsInv, TurnTypes
<1>5. /\ putOff' \in Seq(Remote) /\ Len(putOff') = n + 1 /\ DOMAIN putOff' = 1..n + 1
      /\ \A k \in 1..n : putOff'[k] = putOff[k]
      /\ putOff'[n + 1] = x
    <2>1. /\ Append(putOff, x) \in Seq(Remote) /\ Len(Append(putOff, x)) = n + 1
          /\ \A k \in 1..n : Append(putOff, x)[k] = putOff[k]
          /\ Append(putOff, x)[n + 1] = x
        BY <1>b, AppendProperties
    <2> QED BY <1>1, <2>1
<1>6. ToSet(putOff') = ToSet(putOff) \cup {x}
    <2>1. DOMAIN putOff' = DOMAIN putOff \cup {n + 1}
        BY <1>5, <1>b
    <2> QED BY <1>5, <1>b, <2>1 DEF ToSet
<1> HIDE DEF n
<1>7. TurnTypes'
    BY <1>1, <1>3, <1>4, <1>5 DEF TurnsInv, TurnTypes, TurnsTypeOK
<1>8. WalkCounted'
    <2>1. Len(putOff') + calls' + Cardinality(walk') <= Cardinality(ToSet(SourcesOf(step)))
        BY <1>1, <1>3, <1>5, <1>b, TableSizes DEF n
    <2> QED BY <1>1, <1>2, <1>3, <2>1 DEF TurnsInv, WalkCounted, SourcesOf
<1>9. RoomForOne'
    <2>1. FitsWhole' <=> FitsWhole
        BY <1>1 DEF FitsWhole, Reserve
    <2> QED BY <1>1, <2>1 DEF TurnsInv, RoomForOne
<1>10. \A y \in Remote, j \in Nat : Seat(y, j)' <=> Seat(y, j)
    BY <1>1 DEF Seat
<1>11. WhoWaits'
    <2> SUFFICES ASSUME NEW y \in Remote
                 PROVE  /\ y \notin enabled => waited'[y] = 0
                        /\ y \in walk' => y \in enabled /\ y \notin ToSet(putOff')
                        /\ step = SyncOf(y) /\ y \notin walk' /\ y \notin ToSet(putOff') => waited'[y] = 0
        BY <1>1 DEF WhoWaits
    <2>1. CASE y = x
        <3>1. x \in enabled
            BY <1>1 DEF TurnsInv, WhoWaits, IsNext
        <3> QED BY <1>1, <1>6, <2>1, <3>1
    <2>2. CASE y # x
        BY <1>1, <1>4, <1>6, <2>2 DEF TurnsInv, WhoWaits
    <2> QED BY <2>1, <2>2
<1>12. Overtaken'
    <2> SUFFICES ASSUME NEW y \in walk', NEW j \in Nat, Seat(y, j)'
                 PROVE  Len(putOff') + 1 + Called <= j
        BY <1>1 DEF Overtaken, Called
    <2>1. Seat(y, j) /\ y \in walk \ {x}
        BY <1>1, <1>3, <1>10
    <2>2. n + 2 + Called <= j
        BY <1>1, <1>2, <2>1, NextMovesUp DEF n
    <2> QED BY <1>5, <1>b, <2>2
<1>13. \A j \in Nat : Seat(x, j) =>
          /\ n + 1 + Called <= j /\ j <= SizeOf(x) /\ SizeOf(x) \in Nat
          /\ Owed(x, j) <= IF step = "youtube" THEN 1 - HeldBack ELSE HeldBack
    <2> SUFFICES ASSUME NEW j \in Nat, Seat(x, j)
                 PROVE  /\ n + 1 + Called <= j /\ j <= SizeOf(x) /\ SizeOf(x) \in Nat
                        /\ Owed(x, j) <= IF step = "youtube" THEN 1 - HeldBack ELSE HeldBack
        OBVIOUS
    <2>1. n + 1 + Called <= j
        BY <1>1 DEF TurnsInv, Overtaken, IsNext, n
    <2>2. j <= SizeOf(x) /\ SizeOf(x) \in Nat
        BY SeatBounds, SyncKnown DEF TurnsInv
    <2>3. Owed(x, j) <= MayOwe(x)
        BY DEF TurnsInv, SeatsMoveUp
    <2>4. MayOwe(x) = IF step = "youtube" THEN 1 - HeldBack ELSE HeldBack
        BY <1>2, <1>3 DEF MayOwe, Syncs
    <2> QED BY <2>1, <2>2, <2>3, <2>4
<1>14. SeatsMoveUp'
    <2> SUFFICES ASSUME NEW y \in Remote, NEW j \in Nat, Seat(y, j)'
                 PROVE  (Owed(y, j) <= MayOwe(y))'
        BY DEF SeatsMoveUp
    <2>1. Seat(y, j)
        BY <1>10
    <2>2. CASE y # x
        <3>1. Owed(y, j)' = Owed(y, j)
            BY <1>1, <1>4, <2>2 DEF Owed
        <3>2. MayOwe(y)' = MayOwe(y)
            BY <1>1, <1>6, <2>2 DEF MayOwe, HeldBack, NoYouTubeCall
        <3> QED BY <2>1, <3>1, <3>2 DEF TurnsInv, SeatsMoveUp
    <2>3. CASE y = x
        <3>1. /\ j <= SizeOf(x) /\ SizeOf(x) \in Nat
              /\ Owed(x, j) <= IF step = "youtube" THEN 1 - HeldBack ELSE HeldBack
            BY <1>13, <2>1, <2>3
        <3>2. Owed(x, j)' = Owed(x, j) + 1 /\ Owed(x, j) \in Int
            BY <1>1, <1>4, <1>b, <3>1 DEF Owed
        <3>3. MayOwe(x)' = IF step = "youtube" THEN 2 - HeldBack ELSE HeldBack + 1
            BY <1>1, <1>3, <1>6 DEF MayOwe, HeldBack, Syncs
        <3> QED BY <1>b, <2>3, <3>1, <3>2, <3>3
    <2> QED BY <2>2, <2>3
<1>15. NewSeats'
    <2>1. ASSUME NEW k \in 1..n PROVE (Owed(putOff[k], k) <= NoCall)'
        <3>1. putOff[k] \in Remote /\ putOff[k] # x
            BY <1>3, <1>b DEF ToSet
        <3>2. Owed(putOff[k], k) <= NoCall
            BY <1>2, <1>b DEF TurnsInv, NewSeats
        <3>3. putOff'[k] = putOff[k] /\ waited'[putOff[k]] = waited[putOff[k]]
            BY <1>4, <1>5, <3>1
        <3>4. Owed(putOff[k], k)' = Owed(putOff[k], k)
            BY <1>1, <3>3 DEF Owed
        <3> QED BY <1>1, <3>2, <3>4 DEF NoCall
    <2>2. waited'[x] - 2 * (SizeOf(x) - (n + 1)) - 2 * breaks <= NoCall
        <3>1. PICK j \in Nat : Seat(x, j)
            BY SeatBounds DEF TurnsInv
        <3>2. /\ n + 1 + Called <= j /\ j <= SizeOf(x) /\ SizeOf(x) \in Nat
              /\ waited[x] - 2 * (SizeOf(x) - j) - 2 * breaks <= IF step = "youtube" THEN 1 - HeldBack ELSE HeldBack
            BY <1>13, <3>1 DEF Owed
        <3>3. waited'[x] = waited[x] + 1
            BY <1>4
        <3>4. CASE calls > 0
            <4>1. Called = 1 /\ NoCall = 0
                BY <1>b, <3>4 DEF Called, NoCall
            <4>2. waited[x] - 2 * (SizeOf(x) - j) - 2 * breaks <= 1
                BY <1>b, <3>2
            <4>3. n + 2 <= j
                BY <1>b, <3>2, <4>1
            <4> QED BY <1>b, <3>2, <3>3, <4>1, <4>2, <4>3
        <3>5. CASE calls = 0
            <4>1. Called = 0 /\ NoCall = 1
                BY <3>5 DEF Called, NoCall
            <4>2. step = "youtube" => HeldBack = 1
                BY <1>1, <1>b, <3>5 DEF TurnsInv, RoomForOne, FitsWhole, Reserve, HeldBack
            <4>3. step = "twitch" => HeldBack = 0
                BY <1>1, <1>b, <3>5 DEF TurnsInv, RoomForOne, FitsWhole, Reserve, HeldBack
            <4>4. waited[x] - 2 * (SizeOf(x) - j) - 2 * breaks <= 0
                <5>1. CASE step = "youtube"
                    BY <3>2, <4>2, <5>1
                <5>2. CASE step # "youtube"
                    BY <1>3, <3>2, <4>3, <5>2 DEF Syncs
                <5> QED BY <5>1, <5>2
            <4>5. n + 1 <= j
                BY <1>b, <3>2, <4>1
            <4> QED BY <1>b, <3>2, <3>3, <4>1, <4>4, <4>5
        <3> QED BY <1>b, <3>4, <3>5
    <2>3. ASSUME NEW k, k = n + 1 PROVE (Owed(putOff[k], k) <= NoCall)'
        <3>1. putOff'[k] = x
            BY <1>5, <2>3
        <3> QED BY <1>1, <2>2, <2>3, <3>1 DEF Owed, NoCall
    <2>4. \A k \in DOMAIN putOff' : k \in 1..n \/ k = n + 1
        BY <1>5, <1>b
    <2> QED BY <2>1, <2>3, <2>4 DEF NewSeats
<1> QED BY <1>7, <1>8, <1>9, <1>11, <1>12, <1>14, <1>15 DEF TurnsInv


\* A walk that is over: what waited of its sync was put off.
LEMMA EndKeeps == TurnsInv /\ EndWalk => TurnsInv'
<1> SUFFICES ASSUME TurnsInv, EndWalk PROVE TurnsInv'
    OBVIOUS
<1>1. /\ step # "rest" /\ walk = {} /\ deferred' = [deferred EXCEPT ![step] = putOff]
      /\ twitchHeldBack' = IF step = "youtube" THEN twitchHeldBack
                           ELSE calls = 0 /\ putOff # <<>> /\ youtubeCallsStarted > 0
      /\ putOff' = <<>> /\ calls' = 0
      /\ step = "youtube" => step' = "twitch" /\ walk' = WalkOf("twitch")
      /\ step # "youtube" => step' = "rest" /\ walk' = {}
      /\ UNCHANGED <<enabled, left, youtubeCallsStarted, paused, waited, breaks>>
    BY DEF EndWalk, NextStep
<1>b. /\ step \in {"youtube", "twitch"} /\ step \in Syncs /\ "twitch" \in Syncs /\ "youtube" \in Syncs
      /\ Len(putOff) \in Nat /\ calls \in Nat /\ breaks \in Nat
      /\ left \in Nat /\ putOff \in Seq(Remote) /\ Timeout \in Nat /\ youtubeCallsStarted \in Nat
      /\ HeldBack \in {0, 1} /\ twitchHeldBack \in BOOLEAN /\ NoCall \in {0, 1} /\ NoYouTubeCall \in {0, 1}
    BY <1>1, TurnTyped DEF Syncs
<1>c. ToSet(putOff') = {} /\ Len(putOff') = 0 /\ DOMAIN putOff' = {} /\ putOff' \in Seq(Remote)
    BY <1>1 DEF ToSet
<1>2. TurnTypes'
    <2>1. calls' \in 0..Cardinality(Remote)
        BY <1>1, TableSizes, FS_CardinalityType
    <2>2. deferred' \in [{"youtube", "twitch"} -> Seq(Remote)]
        BY <1>1, <1>b DEF TurnsInv, TurnTypes, TurnsTypeOK
    <2>3. walk' \subseteq Remote /\ twitchHeldBack' \in BOOLEAN /\ step' \in {"rest", "youtube", "twitch"}
        BY <1>1, <1>b, WalksFit
    <2> QED BY <1>1, <1>c, <2>1, <2>2, <2>3 DEF TurnsInv, TurnTypes, TurnsTypeOK
<1>3. deferred'[step] = putOff /\ \A s \in Syncs \ {step} : deferred'[s] = deferred[s]
    BY <1>1, <1>b DEF TurnsInv, TurnTypes, TurnsTypeOK, Syncs
<1>4. WalkCounted'
    <2>1. Len(putOff) <= Len(SourcesOf(step))
        <3>1. Len(putOff) + calls + Cardinality(walk) <= Cardinality(ToSet(SourcesOf(step)))
            BY <1>1 DEF TurnsInv, WalkCounted
        <3>2. Cardinality(walk) = 0
            BY <1>1, FS_EmptySet
        <3> QED BY <1>b, <3>1, <3>2, TableSizes, TablesKnown
    <2>2. \A s \in Syncs : Len(deferred'[s]) <= Len(SourcesOf(s))
        BY <1>3, <2>1 DEF TurnsInv, WalkCounted
    <2>3. step = "youtube" => walk' \subseteq ToSet(SourcesOf("twitch"))
                              /\ Cardinality(walk') <= Cardinality(ToSet(SourcesOf("twitch")))
                              /\ Cardinality(walk') \in Nat
        BY <1>1, <1>b, WalksFit
    <2>4. step' # "rest" => walk' \subseteq ToSet(SourcesOf(step'))
              /\ Len(putOff') + calls' + Cardinality(walk') <= Cardinality(ToSet(SourcesOf(step')))
        BY <1>1, <1>c, <2>3
    <2>5. (\A s \in Syncs : Len(deferred[s]) <= Len(SourcesOf(s)))'
        BY <2>2 DEF SourcesOf
    <2>6. (step # "rest" =>
              /\ walk \subseteq ToSet(SourcesOf(step))
              /\ Len(putOff) + calls + Cardinality(walk) <= Cardinality(ToSet(SourcesOf(step))))'
        BY <2>4 DEF SourcesOf
    <2> QED BY <1>1, <1>b, <2>5, <2>6 DEF WalkCounted
<1>5. RoomForOne'
    <2>1. twitchHeldBack' => deferred'["twitch"] # <<>>
        <3>1. CASE step = "youtube"
            BY <1>1, <1>3, <1>b, <3>1 DEF TurnsInv, RoomForOne
        <3>2. CASE step = "twitch"
            BY <1>1, <1>3, <3>2
        <3> QED BY <1>b, <3>1, <3>2
    <2>2. step' # "youtube" /\ (step' = "twitch" => step = "youtube")
        BY <1>1, <1>b
    <2>3. step = "youtube" => youtubeCallsStarted = calls /\ (calls = 0 \/ twitchHeldBack => left >= Timeout)
        BY DEF TurnsInv, RoomForOne
    <2> QED BY <1>1, <2>1, <2>2, <2>3 DEF RoomForOne
<1>6. WhoWaits'
    <2>1. \A x \in Remote : /\ step' = SyncOf(x) /\ x \notin walk' => x \notin enabled
                            /\ x \in walk' => x \in enabled
        BY <1>1, <1>b, SyncKnown DEF WalkOf, Syncs
    <2> QED BY <1>1, <1>c, <2>1 DEF TurnsInv, WhoWaits
<1>7. Overtaken'
    <2>1. \A x \in Remote : \A j : Seat(x, j)' => j \in Nat /\ 1 <= j
        BY <1>2, <1>4, SeatsBoundedNext DEF SeatsBounded
    <2>2. Called' = 0
        BY <1>1 DEF Called
    <2>3. walk' \subseteq Remote
        BY <1>2 DEF TurnTypes, TurnsTypeOK
    <2> SUFFICES ASSUME NEW x \in walk', NEW j \in Nat, Seat(x, j)'
                 PROVE  Len(putOff') + 1 + Called' <= j
        BY DEF Overtaken
    <2> QED BY <1>c, <2>1, <2>2, <2>3
<1>8. SeatsMoveUp'
    <2> SUFFICES ASSUME NEW x \in Remote, NEW j \in Nat, Seat(x, j)'
                 PROVE  (Owed(x, j) <= MayOwe(x))'
        BY DEF SeatsMoveUp
    <2>1. Owed(x, j)' = Owed(x, j) /\ waited'[x] = waited[x]
        BY <1>1 DEF Owed
    <2>2. SyncOf(x) \in Syncs
        BY SyncKnown
    <2>3. CASE SyncOf(x) # step
        <3>1. Seat(x, j)
            BY <1>3, <2>2, <2>3 DEF Seat
        <3>2. Owed(x, j) <= MayOwe(x)
            BY <3>1 DEF TurnsInv, SeatsMoveUp
        <3>3. CASE step = "youtube"
            BY <1>1, <1>c, <1>b, <2>1, <2>2, <2>3, <3>2, <3>3 DEF MayOwe, Syncs, HeldBack
        <3>4. CASE step = "twitch"
            <4>1. SyncOf(x) = "youtube" /\ MayOwe(x) = NoYouTubeCall
                BY <2>2, <2>3, <3>4 DEF Syncs, MayOwe
            <4>2. MayOwe(x)' = 1 - HeldBack'
                BY <1>1, <3>4, <4>1 DEF MayOwe
            <4>3. NoYouTubeCall <= 1 - HeldBack'
                <5>1. youtubeCallsStarted = 0 => twitchHeldBack' = FALSE
                    <6>1. twitchHeldBack' = (calls = 0 /\ putOff # <<>> /\ youtubeCallsStarted > 0)
                        BY <1>1, <3>4
                    <6>2. youtubeCallsStarted = 0 => ~(youtubeCallsStarted > 0)
                        BY <1>b
                    <6> QED BY <6>1, <6>2
                <5>2. CASE youtubeCallsStarted = 0
                    BY <5>1, <5>2 DEF NoYouTubeCall, HeldBack
                <5>3. CASE youtubeCallsStarted # 0
                    BY <5>3 DEF NoYouTubeCall, HeldBack
                <5> QED BY <5>2, <5>3
            <4>4. HeldBack' \in {0, 1}
                BY DEF HeldBack
            <4>5. Owed(x, j) \in Int
                BY SyncKnown, TurnTyped DEF Owed
            <4> QED BY <1>b, <2>1, <3>2, <4>1, <4>2, <4>3, <4>4, <4>5
        <3> QED BY <1>b, <3>3, <3>4
    <2>4. CASE SyncOf(x) = step /\ x \notin ToSet(putOff)
        <3>1. waited'[x] = 0
            BY <1>1, <2>4 DEF TurnsInv, WhoWaits
        <3> QED BY <1>2, <1>4, <3>1, FreshOwesNext DEF FreshOwe
    <2>5. CASE SyncOf(x) = step /\ x \in ToSet(putOff)
        <3>1. j \in DOMAIN putOff /\ putOff[j] = x
            BY <1>3, <2>5 DEF Seat
        <3>2. Owed(x, j) <= NoCall
            BY <1>1, <3>1 DEF TurnsInv, NewSeats
        <3>3. CASE step = "youtube"
            <4>1. MayOwe(x)' = NoYouTubeCall /\ NoYouTubeCall = NoCall
                BY <1>1, <2>5, <3>3 DEF MayOwe, NoYouTubeCall, NoCall, TurnsInv, RoomForOne
            <4> QED BY <2>1, <3>2, <4>1
        <3>4. CASE step = "twitch"
            <4>1. MayOwe(x)' = HeldBack'
                BY <1>1, <2>5, <3>4 DEF MayOwe
            <4>2. calls = 0 => youtubeCallsStarted > 0
                <5>1. putOff # <<>>
                    BY <3>1
                <5>2. ~FitsWhole
                    BY <1>1, <5>1 DEF TurnsInv, RoomForOne
                <5>3. left < Timeout
                    BY <1>b, <3>4, <5>2 DEF FitsWhole, Reserve
                <5> QED BY <1>b, <3>4, <5>3 DEF TurnsInv, RoomForOne
            <4>3. NoCall <= HeldBack'
                <5>1. putOff # <<>>
                    BY <3>1
                <5>2. calls = 0 => twitchHeldBack' = TRUE
                    BY <1>1, <3>4, <4>2, <5>1
                <5>3. CASE calls = 0
                    BY <5>2, <5>3 DEF NoCall, HeldBack
                <5>4. CASE calls # 0
                    BY <5>4 DEF NoCall, HeldBack
                <5> QED BY <5>3, <5>4
            <4>4. HeldBack' \in {0, 1} /\ NoCall \in {0, 1} /\ Owed(x, j) \in Int
                BY <1>b, SyncKnown, TurnTyped DEF HeldBack, Owed
            <4> QED BY <2>1, <3>2, <4>1, <4>3, <4>4
        <3> QED BY <1>b, <3>3, <3>4
    <2> QED BY <2>3, <2>4, <2>5
<1>9. NewSeats'
    BY <1>c DEF NewSeats
<1> QED BY <1>2, <1>4, <1>5, <1>6, <1>7, <1>8, <1>9 DEF TurnsInv

\* A walk that breaks off notes nothing, and every seat stands for two cycles more.
LEMMA BreakKeeps == TurnsInv /\ WalkBreaks => TurnsInv'
<1> SUFFICES ASSUME TurnsInv, WalkBreaks PROVE TurnsInv'
    OBVIOUS
<1>1. /\ step # "rest" /\ calls > 0 /\ breaks < MaxStepBreaks /\ breaks' = breaks + 1
      /\ putOff' = <<>> /\ calls' = 0
      /\ step = "youtube" => step' = "twitch" /\ walk' = WalkOf("twitch")
      /\ step # "youtube" => step' = "rest" /\ walk' = {}
      /\ UNCHANGED <<enabled, left, deferred, twitchHeldBack, youtubeCallsStarted, paused, waited>>
    BY DEF WalkBreaks, NextStep
<1>b. /\ step \in {"youtube", "twitch"} /\ "twitch" \in Syncs
      /\ breaks \in Nat /\ left \in Nat /\ Timeout \in Nat /\ MaxStepBreaks \in Nat
      /\ HeldBack \in {0, 1} /\ twitchHeldBack \in BOOLEAN /\ NoYouTubeCall \in {0, 1}
    BY <1>1, TurnTyped, SyncTurnsAssumption DEF Syncs, SyncTurnsAssumption
<1>c. ToSet(putOff') = {} /\ Len(putOff') = 0 /\ DOMAIN putOff' = {} /\ putOff' \in Seq(Remote)
    BY <1>1 DEF ToSet
<1>2. TurnTypes'
    <2>1. calls' \in 0..Cardinality(Remote)
        BY <1>1, TableSizes, FS_CardinalityType
    <2>2. breaks' \in 0..MaxStepBreaks
        BY <1>1, <1>b
    <2>3. walk' \subseteq Remote /\ step' \in {"rest", "youtube", "twitch"}
        BY <1>1, <1>b, WalksFit
    <2> QED BY <1>1, <1>c, <2>1, <2>2, <2>3 DEF TurnsInv, TurnTypes, TurnsTypeOK
<1>4. WalkCounted'
    <2>1. step = "youtube" => walk' \subseteq ToSet(SourcesOf("twitch"))
                              /\ Cardinality(walk') <= Cardinality(ToSet(SourcesOf("twitch")))
                              /\ Cardinality(walk') \in Nat
        BY <1>1, <1>b, WalksFit
    <2>2. step' # "rest" => walk' \subseteq ToSet(SourcesOf(step'))
              /\ Len(putOff') + calls' + Cardinality(walk') <= Cardinality(ToSet(SourcesOf(step')))
        BY <1>1, <1>c, <2>1
    <2>3. (\A s \in Syncs : Len(deferred[s]) <= Len(SourcesOf(s)))'
        BY <1>1 DEF TurnsInv, WalkCounted, SourcesOf
    <2>4. (step # "rest" =>
              /\ walk \subseteq ToSet(SourcesOf(step))
              /\ Len(putOff) + calls + Cardinality(walk) <= Cardinality(ToSet(SourcesOf(step))))'
        BY <2>2 DEF SourcesOf
    <2> QED BY <1>1, <1>b, <2>3, <2>4 DEF WalkCounted
<1>5. RoomForOne'
    <2>1. step' # "youtube" /\ (step' = "twitch" => step = "youtube")
        BY <1>1, <1>b
    <2>2. step = "youtube" => youtubeCallsStarted = calls /\ (calls = 0 \/ twitchHeldBack => left >= Timeout)
        BY DEF TurnsInv, RoomForOne
    <2>3. twitchHeldBack' => deferred'["twitch"] # <<>>
        BY <1>1 DEF TurnsInv, RoomForOne
    <2> QED BY <1>1, <2>1, <2>2, <2>3 DEF RoomForOne
<1>6. WhoWaits'
    <2>1. \A x \in Remote : /\ step' = SyncOf(x) /\ x \notin walk' => x \notin enabled
                            /\ x \in walk' => x \in enabled
        BY <1>1, <1>b, SyncKnown DEF WalkOf, Syncs
    <2> QED BY <1>1, <1>c, <2>1 DEF TurnsInv, WhoWaits
<1>7. Overtaken'
    <2>1. \A x \in Remote : \A j : Seat(x, j)' => j \in Nat /\ 1 <= j
        BY <1>2, <1>4, SeatsBoundedNext DEF SeatsBounded
    <2>2. Called' = 0
        BY <1>1 DEF Called
    <2>3. walk' \subseteq Remote
        BY <1>2 DEF TurnTypes, TurnsTypeOK
    <2> SUFFICES ASSUME NEW x \in walk', NEW j \in Nat, Seat(x, j)'
                 PROVE  Len(putOff') + 1 + Called' <= j
        BY DEF Overtaken
    <2> QED BY <1>c, <2>1, <2>2, <2>3
<1>8. SeatsMoveUp'
    <2> SUFFICES ASSUME NEW x \in Remote, NEW j \in Nat, Seat(x, j)'
                 PROVE  (Owed(x, j) <= MayOwe(x))'
        BY DEF SeatsMoveUp
    <2>1. Seat(x, j)
        BY <1>1 DEF Seat
    <2>2. Owed(x, j) <= MayOwe(x) /\ Owed(x, j) \in Int
        BY <2>1, SyncKnown, TurnTyped DEF TurnsInv, SeatsMoveUp, Owed
    <2>3. Owed(x, j)' = Owed(x, j) - 2
        BY <1>1, <1>b, SyncKnown, TurnTyped DEF Owed
    <2>4. MayOwe(x) \in {0, 1, 2}
        BY <1>b DEF MayOwe, HeldBack, NoYouTubeCall
    <2>5. MayOwe(x)' \in {0, 1, 2}
        BY DEF MayOwe, HeldBack, NoYouTubeCall
    <2> QED BY <2>2, <2>3, <2>4, <2>5
<1>9. NewSeats'
    BY <1>c DEF NewSeats
<1> QED BY <1>2, <1>4, <1>5, <1>6, <1>7, <1>8, <1>9 DEF TurnsInv

LEMMA SwitchKeeps == \A s \in Remote : TurnsInv /\ Switch(s) => TurnsInv'
<1> SUFFICES ASSUME NEW s \in Remote, TurnsInv, Switch(s) PROVE TurnsInv'
    OBVIOUS
<1>1. /\ step = "rest" /\ enabled' = IF s \in enabled THEN enabled \ {s} ELSE enabled \cup {s}
      /\ waited' = [waited EXCEPT ![s] = 0]
      /\ UNCHANGED <<step, walk, left, calls, putOff, deferred, twitchHeldBack,
                     youtubeCallsStarted, paused, breaks>>
    BY DEF Switch
<1>2. waited' \in [Remote -> Nat] /\ waited'[s] = 0 /\ \A y \in Remote \ {s} : waited'[y] = waited[y]
    BY <1>1 DEF TurnsInv, TurnTypes
<1>3. TurnTypes'
    BY <1>1, <1>2 DEF TurnsInv, TurnTypes, TurnsTypeOK
<1>4. WalkCounted'
    BY <1>1 DEF TurnsInv, WalkCounted, SourcesOf
<1>5. RoomForOne'
    BY <1>1 DEF TurnsInv, RoomForOne
<1>6. walk = {} /\ \A y \in Remote : SyncOf(y) # "rest"
    BY <1>1, SyncKnown DEF TurnsInv, WalkCounted, Syncs
<1>7. WhoWaits'
    <2> SUFFICES ASSUME NEW y \in Remote PROVE y \notin enabled' => waited'[y] = 0
        BY <1>1, <1>6 DEF WhoWaits
    <2>1. CASE y = s
        BY <1>2, <2>1
    <2>2. CASE y # s
        BY <1>1, <1>2, <2>2 DEF TurnsInv, WhoWaits
    <2> QED BY <2>1, <2>2
<1>8. Overtaken' /\ NewSeats'
    BY <1>1, <1>6 DEF Overtaken, NewSeats
<1>9. SeatsMoveUp'
    <2> SUFFICES ASSUME NEW y \in Remote, NEW j \in Nat, Seat(y, j)'
                 PROVE  (Owed(y, j) <= MayOwe(y))'
        BY DEF SeatsMoveUp
    <2>1. CASE y = s
        BY <1>2, <1>3, <1>4, <2>1, FreshOwesNext DEF FreshOwe
    <2>2. CASE y # s
        <3>1. Seat(y, j)
            BY <1>1 DEF Seat
        <3>2. Owed(y, j)' = Owed(y, j)
            BY <1>1, <1>2, <2>2 DEF Owed
        <3>3. MayOwe(y)' = MayOwe(y)
            BY <1>1 DEF MayOwe, HeldBack, NoYouTubeCall
        <3> QED BY <3>1, <3>2, <3>3 DEF TurnsInv, SeatsMoveUp
    <2> QED BY <2>1, <2>2
<1> QED BY <1>3, <1>4, <1>5, <1>7, <1>8, <1>9 DEF TurnsInv

LEMMA TurnsInvHolds == TurnsSpec => []TurnsInv
<1>1. TurnsInv /\ [TurnsNext]_turnVars => TurnsInv'
    <2> SUFFICES ASSUME TurnsInv, [TurnsNext]_turnVars PROVE TurnsInv'
        OBVIOUS
    <2>1. CASE BeginCycle
        BY <2>1, BeginKeeps
    <2>2. CASE EndWalk
        BY <2>2, EndKeeps
    <2>3. CASE WalkBreaks
        BY <2>3, BreakKeeps
    <2>4. ASSUME NEW s \in Remote, PassOverPaused(s) \/ Call(s) \/ PutOff(s) \/ Switch(s)
          PROVE  TurnsInv'
        BY <2>4, PassOverKeeps, CallKeeps, PutOffKeeps, SwitchKeeps
    <2>5. CASE UNCHANGED turnVars
        <3>1. UNCHANGED <<enabled, step, walk, left, calls, putOff, deferred, twitchHeldBack,
                          youtubeCallsStarted, paused, waited, breaks>>
            BY <2>5 DEF turnVars
        <3>2. TurnTypes' /\ WalkCounted'
            BY <3>1 DEF TurnsInv, TurnTypes, TurnsTypeOK, WalkCounted, SourcesOf
        <3>3. RoomForOne' /\ WhoWaits'
            BY <3>1 DEF TurnsInv, RoomForOne, FitsWhole, Reserve, WhoWaits
        <3>4. \A x, j : Seat(x, j)' <=> Seat(x, j)
            BY <3>1 DEF Seat
        <3>5. Overtaken'
            BY <3>1, <3>4 DEF TurnsInv, Overtaken, Called
        <3>6. \A x, j : Owed(x, j)' = Owed(x, j)
            BY <3>1 DEF Owed
        <3>7. \A x : MayOwe(x)' = MayOwe(x)
            BY <3>1 DEF MayOwe, HeldBack, NoYouTubeCall
        <3>8. SeatsMoveUp' /\ NewSeats'
            BY <3>1, <3>4, <3>6, <3>7 DEF TurnsInv, SeatsMoveUp, NewSeats, NoCall, Owed
        <3> QED BY <3>2, <3>3, <3>5, <3>8 DEF TurnsInv
    <2> QED BY <2>1, <2>2, <2>3, <2>4, <2>5 DEF TurnsNext
<1> QED BY <1>1, TurnsStart, PTL DEF TurnsSpec

\* No source starves (remote-call-budget.ts: orderDeferredFirst, the reserve and twitchSyncHeldBack): a
\* source's seat is where the last walk deferred it, and two cycles move it up by one at least.
THEOREM EverySourceHasItsTurn == TurnsSpec => []NoSourceStarves
<1>1. TurnsInv => NoSourceStarves
    <2> SUFFICES ASSUME TurnsInv, NEW s \in Remote
                 PROVE  waited[s] <= 2 * (IF s \in ToSet(YouTube) THEN Len(YouTube) ELSE Len(Twitch)) - 1 + 2 * breaks
        BY DEF NoSourceStarves
    <2>1. SizeOf(s) = IF s \in ToSet(YouTube) THEN Len(YouTube) ELSE Len(Twitch)
        BY DEF SizeOf, SourcesOf, SyncOf
    <2>2. /\ SizeOf(s) \in Nat /\ breaks \in Nat /\ waited[s] \in Nat
          /\ step \in {"rest", "youtube", "twitch"}
          /\ HeldBack \in {0, 1} /\ NoCall \in {0, 1} /\ NoYouTubeCall \in {0, 1}
          /\ DOMAIN putOff = 1..Len(putOff) /\ Len(putOff) \in Nat
        BY SyncKnown, TurnTyped
    <2>3. waited[s] - 2 * (SizeOf(s) - 1) - 2 * breaks <= 1
        <3>1. CASE step # "rest" /\ s \in ToSet(putOff)
            <4>1. PICK k \in DOMAIN putOff : putOff[k] = s
                BY <3>1 DEF ToSet
            <4>2. waited[s] - 2 * (SizeOf(s) - k) - 2 * breaks <= NoCall
                BY <3>1, <4>1 DEF TurnsInv, NewSeats, Owed
            <4> QED BY <2>2, <4>1, <4>2
        <3>2. CASE ~(step # "rest" /\ s \in ToSet(putOff))
            <4>1. PICK j \in Nat : Seat(s, j)
                BY SeatBounds DEF TurnsInv
            <4>2. 1 <= j
                BY <4>1, SeatBounds DEF TurnsInv
            <4>3. MayOwe(s) \in {0, 1}
                BY <2>2, <3>2 DEF MayOwe
            <4>4. waited[s] - 2 * (SizeOf(s) - j) - 2 * breaks <= MayOwe(s)
                BY <4>1 DEF TurnsInv, SeatsMoveUp, Owed
            <4> QED BY <2>2, <4>1, <4>2, <4>3, <4>4
        <3> QED BY <3>1, <3>2
    <2>4. 2 * SizeOf(s) - 1 + 2 * breaks \in Nat /\ waited[s] <= 2 * SizeOf(s) - 1 + 2 * breaks
        BY <2>2, <2>3
    <2> QED BY <2>1, <2>4
<1> QED BY <1>1, TurnsInvHolds, PTL

---------------------------------------------------------------------------
(* The types of the chapters and of the catalogue                          *)

ChapterRows == [list : ChapterLists, status : Statuses, level : 0..Settled, rechecks : 0..RecheckCap]

LEMMA AnswerIsRow ==
    ASSUME row \in ChapterRows, NEW answer \in ChapterLists \cup {"failed"}, NEW recording \in BOOLEAN
    PROVE  AnswerOnRow(answer, recording) \in ChapterRows
<1>1. RecheckCap \in Nat /\ Settled = 3
    BY ChaptersAssumption DEF ChaptersAssumption, Settled
<1>2. row.list \in ChapterLists /\ row.status \in Statuses /\ row.level \in 0..3 /\ row.rechecks \in 0..RecheckCap
    BY <1>1 DEF ChapterRows
<1>3. Counted \in 0..RecheckCap
    BY <1>1, <1>2 DEF Counted
<1>4. CASE answer = "failed"
    <2>1. \E status \in {"ok", "failed"} : \E rechecks \in {Counted, row.rechecks} :
              AnswerOnRow(answer, recording) = [row EXCEPT !.status = status, !.rechecks = rechecks]
        BY <1>4 DEF AnswerOnRow
    <2> QED BY <1>2, <1>3, <2>1 DEF ChapterRows, Statuses
<1>5. CASE answer # "failed"
    <2> DEFINE still == recording /\ young
               resolved == ResolveAnswer(row.list, row.level, answer, still)
    <2>1. answer \in ChapterLists
        BY <1>5
    <2>2. LevelAfter(row.list, row.level, answer) \in 0..3
        BY <1>1, <1>2 DEF LevelAfter
    <2>3. resolved.list \in ChapterLists /\ resolved.level \in 0..3
        BY <1>2, <2>1, <2>2 DEF ResolveAnswer
    <2>4. \E rechecks \in {0, row.rechecks, Counted} :
              AnswerOnRow(answer, recording) = [list |-> resolved.list, status |-> "ok", level |-> resolved.level,
                                                rechecks |-> rechecks]
        BY <1>5 DEF AnswerOnRow
    <2> HIDE DEF resolved
    <2> QED BY <1>1, <1>2, <1>3, <2>3, <2>4 DEF ChapterRows, Statuses
<1> QED BY <1>4, <1>5

LEMMA ChaptersStepTypes == ChaptersTypeOK /\ [ChaptersNext]_chapterVars => ChaptersTypeOK'
<1> SUFFICES ASSUME ChaptersTypeOK, [ChaptersNext]_chapterVars PROVE ChaptersTypeOK'
    OBVIOUS
<1>1. row \in ChapterRows \cup {NoRow} /\ (Listed => row \in ChapterRows)
    BY DEF ChaptersTypeOK, ChapterRows, Listed
<1>2. ASSUME row' \in ChapterRows \cup {NoRow}, origin' = origin, young' \in BOOLEAN, rested' \in BOOLEAN,
             edited' \in ChapterLists, probe' \in {probe, NoProbe}
      PROVE  ChaptersTypeOK'
    BY <1>2 DEF ChaptersTypeOK, ChapterRows
<1>3. "none" \in ChapterLists /\ "unprobed" \in Statuses /\ Settled = 3 /\ RecheckCap \in Nat
    BY ChaptersAssumption DEF ChaptersAssumption, ChapterLists, Statuses, Settled
<1>4. CASE SelectCandidate
    <2>1. probe' = [at |-> "asked", list |-> row.list, status |-> row.status] /\ Listed
          /\ UNCHANGED <<origin, row, young, rested, edited>>
        BY <1>4 DEF SelectCandidate, IsCandidate
    <2>2. row.list \in ChapterLists /\ row.status \in Statuses
        BY <1>1, <2>1 DEF ChapterRows
    <2>3. probe' \in [at : {"asked"}, list : ChapterLists, status : Statuses]
        BY <2>1, <2>2
    <2> QED BY <2>1, <2>3 DEF ChaptersTypeOK
<1>5. CASE ProbeAnswers
    <2>1. PICK answer \in ChapterLists \cup {"failed"}, recording \in BOOLEAN : WriteAnswer(answer, recording)
        BY <1>5 DEF ProbeAnswers
    <2>2. \/ row' = row /\ rested' = rested
          \/ Listed /\ row' = AnswerOnRow(answer, recording) /\ rested' = FALSE
        BY Zenon, <2>1 DEF WriteAnswer
    <2>3. row' \in ChapterRows \cup {NoRow} /\ rested' \in BOOLEAN
        BY <1>1, <2>2, AnswerIsRow DEF ChaptersTypeOK
    <2> QED BY <1>2, <1>5, <2>3 DEF ProbeAnswers, ChaptersTypeOK
<1>6. CASE SyncLists
    <2>1. PICK incoming \in ChapterLists :
              row' = IF Listed THEN [row EXCEPT !.list = ChooseStored(row.list, incoming)] ELSE FirstListed(incoming)
        BY <1>3, <1>6 DEF SyncLists
    <2>2. row' \in ChapterRows
        BY <2>1, <1>1, <1>3, <1>6 DEF ChapterRows, ChooseStored, FirstListed
    <2> QED BY <1>2, <1>6, <2>2 DEF SyncLists, ChaptersTypeOK
<1>7. CASE EditChapters
    <2>1. PICK list \in ChapterLists : row' = [row EXCEPT !.list = list, !.status = "unprobed"] /\ edited' = list
        BY <1>7 DEF EditChapters
    <2>2. row \in ChapterRows
        BY <1>1, <1>7 DEF EditChapters
    <2>3. row' \in ChapterRows
        BY <1>3, <2>1, <2>2 DEF ChapterRows
    <2> QED BY <1>2, <1>7, <2>1, <2>3 DEF EditChapters, ChaptersTypeOK
<1>8. CASE ProbeIsLost \/ SyncDrops \/ TimeGoesBy \/ UNCHANGED chapterVars
    BY <1>1, <1>2, <1>3, <1>8 DEF ProbeIsLost, SyncDrops, TimeGoesBy, chapterVars, ChaptersTypeOK
<1> QED BY <1>4, <1>5, <1>6, <1>7, <1>8 DEF ChaptersNext

LEMMA ChaptersStartTyped == ChaptersInit => ChaptersTypeOK
BY DEF ChaptersInit, ChaptersTypeOK, ChapterLists

---------------------------------------------------------------------------
\* A row the source has, and one of an item, with ages inside the window.
SourceThere == [enabled : BOOLEAN, valid : BOOLEAN, there : {TRUE}]
ItemThere == [there : {TRUE}, curated : BOOLEAN, cached : BOOLEAN, touched : 0..Protection]

LEMMA AgesBounded ==
    /\ Protection \in Nat /\ Protection > 0 /\ AlertAfter \in Nat /\ AlertAfter > 0 /\ MaxWrites \in Nat
    /\ \A d \in 0..Protection : Older(d) \in 0..Protection
    /\ \A n \in 0..AlertAfter : Barren(n) \in 0..AlertAfter
BY CatalogueAssumption DEF CatalogueAssumption, Older, Barren

LEMMA ThereIsRow == \A r : r \in ItemThere <=> r \in ItemRows /\ r.there /\ r.touched <= Protection
<1> SUFFICES ASSUME NEW r PROVE r \in ItemThere <=> r \in ItemRows /\ r.there /\ r.touched <= Protection
    OBVIOUS
<1>1. ASSUME r \in ItemThere PROVE r \in ItemRows /\ r.there /\ r.touched <= Protection
    <2>1. r.there \in {TRUE} /\ r.touched \in 0..Protection
        BY <1>1 DEF ItemThere
    <2>3. r \in ItemRows
        <3>1. r.there \in BOOLEAN
            BY Zenon, <2>1
        <3> QED BY <1>1, <3>1, AgesBounded DEF ItemThere, ItemRows
    <2>2. r.there
        BY Zenon, <2>1
    <2> QED BY <2>1, <2>2, <2>3, AgesBounded
<1>2. ASSUME r \in ItemRows, r.there, r.touched <= Protection PROVE r \in ItemThere
    <2>1. r.there \in BOOLEAN /\ r.touched \in 0..Protection
        BY <1>2, AgesBounded DEF ItemRows
    <2>2. r.there \in {TRUE}
        BY Zenon, <1>2, <2>1
    <2> QED BY <1>2, <2>1, <2>2 DEF ItemThere, ItemRows
<1> QED BY <1>1, <1>2

\* What a sync has read of the source is a row that is there.
CatalogueTypes ==
    /\ CatalogueTypeOK
    /\ sync.at \in {"listing", "source"} /\ kind # "library" => sync.source \in SourceThere
    /\ sync.at # "idle" => {"at", "source", "had", "pooled", "barren"} \subseteq DOMAIN sync

LEMMA CatalogueStepTypes == CatalogueInv /\ CatalogueTypes /\ [CatalogueNext]_catalogueVars => CatalogueTypes'
<1> SUFFICES ASSUME CatalogueInv, CatalogueTypes, [CatalogueNext]_catalogueVars PROVE CatalogueTypes'
    OBVIOUS
<1>1. /\ source \in SourceThere \cup {NoSource} /\ (source.enabled => source \in SourceThere)
      /\ item \in ItemThere \cup {NoItem} /\ (item.there => item \in ItemThere)
      /\ kind \in {"remote", "library", "direct"}
      /\ {others, pooled, referenced, deleting} \subseteq BOOLEAN
      /\ mark \in Unmarked..Protection /\ gone \in 0..Protection /\ writes \in 0..MaxWrites /\ barren \in 0..AlertAfter
      /\ incidents \subseteq {"failing", "empty"}
    <2>1. source \in SourceThere \cup {NoSource} /\ item \in ItemThere \cup {NoItem}
        BY DEF CatalogueTypes, CatalogueTypeOK, SourceThere, ItemThere
    <2>2. ~NoSource.enabled /\ ~NoItem.there
        BY DEF NoSource, NoItem
    <2>3. (source.enabled => source \in SourceThere) /\ (item.there => item \in ItemThere)
        BY <2>1, <2>2
    <2> QED BY <2>1, <2>3 DEF CatalogueTypes, CatalogueTypeOK
<1> DEFINE RowsFit == /\ source' \in SourceThere \cup {NoSource}
                      /\ item' \in ItemThere \cup {NoItem}
                      /\ {others', pooled', referenced', deleting'} \subseteq BOOLEAN
           AgesFit == /\ mark' \in Unmarked..Protection /\ gone' \in 0..Protection
                      /\ writes' \in 0..MaxWrites /\ barren' \in 0..AlertAfter
                      /\ incidents' \subseteq {"failing", "empty"}
           SyncFits == /\ sync'.at \in {"idle", "listing", "source", "items", "runs", "incidents"}
                       /\ sync'.at \in {"listing", "source"} /\ kind # "library" => sync'.source \in SourceThere
                       /\ sync'.at # "idle" => {"at", "source", "had", "pooled", "barren"} \subseteq DOMAIN sync'
<1>2. kind' = kind
    BY DEF CatalogueNext, BeginSync, ListingAnswers, SourceIsWritten, ItemsAreReplaced, RunIsAppended, IncidentsAreKept,
           SyncIsCutShort, Curate, CacheIsWritten, EditSource, EditReferences, CheckDelete, DeleteSource, Sweep,
           DayPasses, catalogueVars
<1>3. RowsFit /\ AgesFit /\ SyncFits => CatalogueTypes'
    BY <1>1, <1>2 DEF CatalogueTypes, CatalogueTypeOK, SourceThere, ItemThere
<1>4. sync' = sync => SyncFits
    BY DEF CatalogueTypes, CatalogueTypeOK
<1>5. sync' = NoSync => SyncFits
    BY DEF NoSync
<1>6. UNCHANGED <<mark, gone, writes, barren, incidents>> => AgesFit
    BY <1>1
<1>7. UNCHANGED <<source, item, others, pooled, referenced, deleting>> => RowsFit
    BY <1>1
<1>8. /\ [enabled |-> TRUE, valid |-> TRUE, there |-> TRUE] \in SourceThere
      /\ \A stored \in ItemThere \cup {NoItem} : Reinserted(stored) \in ItemThere
    <2>1. \A stored \in ItemThere \cup {NoItem} : stored \in ItemRows
        BY ThereIsRow, NoItemIsRow
    <2>2. \A stored \in ItemRows : Reinserted(stored) \in ItemThere
        BY ReinsertedIsRow, ThereIsRow, AgesBounded
    <2> QED BY <2>1, <2>2 DEF SourceThere
<1>9. CASE BeginSync
    <2>1. /\ sync' = [at |-> "listing", source |-> source, had |-> item.there \/ others,
                      pooled |-> pooled, barren |-> barren]
          /\ kind = "library" \/ source.enabled
        BY <1>9 DEF BeginSync
    <2>2. SyncFits
        BY <1>1, <2>1
    <2> QED BY <1>3, <1>6, <1>7, <1>9, <2>2 DEF BeginSync
<1>10. CASE ListingAnswers
    <2>1. PICK got \in Answers :
          /\ sync' = [at |-> "source", source |-> sync.source, had |-> sync.had, got |-> got,
                      pooled |-> sync.pooled, barren |-> sync.barren]
          /\ incidents' = IF kind = "remote" /\ got = Threw THEN incidents \cup {"failing"} ELSE incidents
        BY <1>10 DEF ListingAnswers
    <2>2. SyncFits
        BY <1>10, <2>1 DEF ListingAnswers, CatalogueTypes
    <2>3. AgesFit
        BY <1>1, <1>10, <2>1 DEF ListingAnswers
    <2> QED BY <1>3, <1>7, <1>10, <2>2, <2>3 DEF ListingAnswers
<1>11. CASE SourceIsWritten
    <2>1. /\ sync' = [sync EXCEPT !.at = "items"] /\ sync.at = "source"
          /\ source' = IF kind = "library" THEN [enabled |-> TRUE, valid |-> TRUE, there |-> TRUE] ELSE sync.source
        BY <1>11 DEF SourceIsWritten
    <2>2. SyncFits
        BY <2>1 DEF CatalogueTypes
    <2>3. RowsFit
        BY <1>1, <1>8, <1>11, <2>1 DEF SourceIsWritten, CatalogueTypes
    <2> QED BY <1>3, <1>6, <1>11, <2>2, <2>3 DEF SourceIsWritten
<1>12. CASE ItemsAreReplaced
    <2>1. sync' = [sync EXCEPT !.at = IF kind = "library" THEN "incidents" ELSE "runs"] /\ sync.at = "items"
        BY <1>12 DEF ItemsAreReplaced
    <2>2. SyncFits
        BY <2>1 DEF CatalogueTypes
    <2>3. item' \in {item, NoItem, Reinserted(item)} /\ others' \in BOOLEAN
        <3>1. item' \in {item, NoItem, Reinserted(item)}
            BY <1>12 DEF ItemsAreReplaced
        <3>2. others' = others \/ others' = ("others" \in sync.got)
            <4>1. CASE MayReplace(sync)
                BY Zenon, <1>12, <4>1 DEF ItemsAreReplaced
            <4>2. CASE ~MayReplace(sync)
                BY Zenon, <1>12, <4>2 DEF ItemsAreReplaced
            <4> QED BY Zenon, <4>1, <4>2
        <3>3. others \in BOOLEAN
            BY <1>1
        <3>4. others' \in BOOLEAN
            <4>1. CASE others' = ("others" \in sync.got)
                <5>1. ("others" \in sync.got) \in BOOLEAN
                    OBVIOUS
                <5> QED BY Zenon, <4>1, <5>1
            <4> QED BY Zenon, <3>2, <3>3, <4>1
        <3> QED BY <3>1, <3>4
    <2>4. RowsFit
        BY <1>1, <1>8, <1>12, <2>3 DEF ItemsAreReplaced
    <2> QED BY <1>3, <1>6, <1>12, <2>2, <2>4 DEF ItemsAreReplaced
<1>13. CASE RunIsAppended
    <2>1. sync' = NoSync \/ (sync' = [sync EXCEPT !.at = "incidents"] /\ sync.at = "runs")
        BY <1>13 DEF RunIsAppended
    <2>2. SyncFits
        BY <1>5, <2>1 DEF CatalogueTypes
    <2>3. barren' \in {0, Barren(barren)}
        BY <1>13 DEF RunIsAppended
    <2>4. AgesFit
        BY <1>1, <1>13, <2>3, AgesBounded DEF RunIsAppended
    <2> QED BY <1>3, <1>7, <1>13, <2>2, <2>4 DEF RunIsAppended
<1>14. CASE IncidentsAreKept
    <2>1. sync' = NoSync \/ (sync' = [sync EXCEPT !.at = "runs"] /\ sync.at = "incidents")
        BY <1>14 DEF IncidentsAreKept
    <2>2. SyncFits
        BY <1>5, <2>1 DEF CatalogueTypes
    <2>3. incidents' \subseteq incidents \cup {"failing", "empty"}
        BY <1>1, <1>14 DEF IncidentsAreKept, DroughtDecided, ScanDecided
    <2>4. AgesFit
        BY <1>1, <1>14, <2>3 DEF IncidentsAreKept
    <2> QED BY <1>3, <1>7, <1>14, <2>2, <2>4 DEF IncidentsAreKept
<1>15. CASE SyncIsCutShort \/ UNCHANGED catalogueVars
    BY <1>3, <1>4, <1>5, <1>6, <1>7, <1>15 DEF SyncIsCutShort, catalogueVars
<1>16. writes' = writes \/ OneMoreWrite
    BY DEF CatalogueNext, BeginSync, ListingAnswers, SourceIsWritten, ItemsAreReplaced, RunIsAppended, IncidentsAreKept,
           SyncIsCutShort, Curate, CacheIsWritten, EditSource, EditReferences, CheckDelete, DeleteSource, Sweep,
           DayPasses, catalogueVars
<1>17. writes' \in 0..MaxWrites
    BY <1>1, <1>16, AgesBounded DEF OneMoreWrite
<1>18. CASE Curate \/ CacheIsWritten
    <2>1. item \in ItemThere
          /\ (item' = [item EXCEPT !.curated = TRUE, !.touched = 0] \/ item' = [item EXCEPT !.cached = TRUE, !.touched = 0])
        BY <1>1, <1>18 DEF Curate, CacheIsWritten
    <2>2. item' \in ItemThere
        <3>1. 0 \in 0..Protection
            BY AgesBounded
        <3>2. CASE item' = [item EXCEPT !.curated = TRUE, !.touched = 0]
            BY ONLY <2>1, <3>1, <3>2 DEF ItemThere
        <3>3. CASE item' = [item EXCEPT !.cached = TRUE, !.touched = 0]
            BY ONLY <2>1, <3>1, <3>3 DEF ItemThere
        <3> QED BY <2>1, <3>2, <3>3
    <2> QED BY <1>1, <1>3, <1>4, <1>17, <1>18, <2>2 DEF Curate, CacheIsWritten
<1>19. CASE EditSource
    <2>1. source \in SourceThere
        BY <1>1, <1>19 DEF EditSource, NoSource
    <2>2. source' \in SourceThere
        BY <1>19, <2>1 DEF EditSource, SourceThere
    <2> QED BY <1>1, <1>3, <1>4, <1>17, <1>19, <2>2 DEF EditSource
<1>20. CASE EditReferences \/ CheckDelete
    <2>1. pooled' \in BOOLEAN /\ referenced' \in BOOLEAN /\ deleting' \in BOOLEAN
        BY <1>1, <1>20 DEF EditReferences, CheckDelete
    <2> QED BY <1>1, <1>3, <1>4, <1>17, <1>20, <2>1 DEF EditReferences, CheckDelete
<1>21. CASE DeleteSource
    <2>1. source' = NoSource /\ item' = NoItem /\ others' = FALSE /\ deleting' = FALSE /\ gone' \in {0, gone}
          /\ UNCHANGED <<pooled, referenced, mark, barren, incidents, sync, writes>>
        BY <1>21 DEF DeleteSource
    <2>2. RowsFit
        <3>1. FALSE \in BOOLEAN
            BY Zenon
        <3> QED BY <1>1, <2>1, <3>1
    <2>3. gone' \in 0..Protection
        BY <1>1, <2>1, AgesBounded
    <2>4. AgesFit
        BY <1>1, <2>1, <2>3
    <2> QED BY <1>3, <1>4, <2>1, <2>2, <2>4
<1>22. CASE Sweep
    <2>1. item' \in {item, NoItem} /\ mark' \in {Unmarked, 0, mark}
        BY <1>22 DEF Sweep
    <2>2. mark' \in Unmarked..Protection
        BY <1>1, <2>1, AgesBounded DEF Unmarked
    <2> QED BY <1>1, <1>3, <1>4, <1>22, <2>1, <2>2 DEF Sweep
<1>23. CASE DayPasses
    <2>1. item' \in ItemThere \cup {NoItem}
        <3>1. CASE ~item.there
            BY <1>1, <1>23, <3>1 DEF DayPasses
        <3>2. CASE item.there
            <4>1. item \in ItemThere /\ item' = [item EXCEPT !.touched = Older(item.touched)]
                BY <1>1, <1>23, <3>2 DEF DayPasses
            <4>2. Older(item.touched) \in 0..Protection
                BY <4>1, AgesBounded DEF ItemThere
            <4> QED BY <4>1, <4>2 DEF ItemThere
        <3> QED BY <3>1, <3>2
    <2>2. mark' \in Unmarked..Protection
        <3>1. CASE mark = Unmarked
            BY <1>1, <1>23, <3>1 DEF DayPasses
        <3>2. CASE mark # Unmarked
            <4>1. mark \in 0..Protection
                BY <1>1, <3>2, AgesBounded DEF Unmarked
            <4>2. mark' = Older(mark)
                BY <1>23, <3>2 DEF DayPasses
            <4> QED BY <4>1, <4>2, AgesBounded DEF Unmarked
        <3> QED BY <3>1, <3>2
    <2>3. gone' \in 0..Protection
        BY <1>1, <1>23, AgesBounded DEF DayPasses
    <2> QED BY <1>1, <1>3, <1>4, <1>23, <2>1, <2>2, <2>3 DEF DayPasses
<1> HIDE DEF RowsFit, AgesFit, SyncFits
<1> QED BY <1>9, <1>10, <1>11, <1>12, <1>13, <1>14, <1>15, <1>18, <1>19, <1>20, <1>21, <1>22, <1>23 DEF CatalogueNext

LEMMA CatalogueStartTyped == CatalogueInit => CatalogueTypes
<1> SUFFICES ASSUME CatalogueInit PROVE CatalogueTypes
    OBVIOUS
<1>1. source \in SourceThere /\ item = NoItem /\ sync.at = "idle"
    BY DEF CatalogueInit, SourceThere, NoSync
<1>2. mark \in Unmarked..Protection /\ gone \in 0..Protection /\ writes \in 0..MaxWrites /\ barren \in 0..AlertAfter
    BY AgesBounded DEF CatalogueInit, Unmarked
<1>3. {others, pooled, referenced, deleting} \subseteq BOOLEAN /\ incidents = {} /\ kind \in {"remote", "library", "direct"}
    BY DEF CatalogueInit
<1> QED BY <1>1, <1>2, <1>3 DEF CatalogueTypes, CatalogueTypeOK, SourceThere

---------------------------------------------------------------------------
(* All parts, side by side                                                 *)

\* What runs in one behaviour is each part by itself: the theorems about the parts are theorems about
\* it too (the parts run in processes and on rows of their own).
THEOREM PartsRunAlone ==
    Spec => /\ SchedSpec /\ PoolSpec /\ UpSpec /\ AsRunSpec
            /\ TurnsSpec /\ ChaptersSpec /\ CatalogueSpec /\ ViewerSpec
<1>1. Init => /\ SchedInit /\ PoolInit /\ UpInit /\ AsRunInit
              /\ TurnsInit /\ ChaptersInit /\ CatalogueInit /\ ViewerInit
    BY DEF Init
<1> DEFINE Parted == /\ [SchedNext]_schedVars /\ [PoolNext]_poolVars /\ [UpNext]_upVars
                     /\ [AsRunNext]_asVars /\ [TurnsNext]_turnVars /\ [ChaptersNext]_chapterVars
                     /\ [CatalogueNext]_catalogueVars /\ [ViewerNext]_viewerVars
<1>2. [Next]_<<focus, channelVars>> => Parted
    <2>1. CASE InSchedule
        BY Zenon, <2>1 DEF InSchedule
    <2>2. CASE InPool
        BY Zenon, <2>2 DEF InPool
    <2>3. CASE InUplink
        BY Zenon, <2>3 DEF InUplink
    <2>4. CASE InLog
        BY Zenon, <2>4 DEF InLog
    <2>5. CASE InTurns
        BY Zenon, <2>5 DEF InTurns
    <2>6. CASE InChapters
        BY Zenon, <2>6 DEF InChapters
    <2>7. CASE InCatalogue
        BY Zenon, <2>7 DEF InCatalogue
    <2>8. CASE InChat
        BY Zenon, <2>8 DEF InChat
    <2>9. CASE UNCHANGED <<focus, channelVars>>
        BY Zenon, <2>9 DEF channelVars
    <2> QED BY Zenon, <2>1, <2>2, <2>3, <2>4, <2>5, <2>6, <2>7, <2>8, <2>9 DEF Next
<1> QED BY <1>1, <1>2, PTL DEF Spec, SchedSpec, PoolSpec, UpSpec, AsRunSpec, TurnsSpec, ChaptersSpec,
                              CatalogueSpec, ViewerSpec

\* The variables of every part keep their types, whatever its actors do to one another.
THEOREM ChannelTypesCorrect == Spec => []TypesOK
<1>1. ChaptersSpec => []ChaptersTypeOK
    <2>1. ChaptersTypeOK /\ [ChaptersNext]_chapterVars => ChaptersTypeOK'
        BY ChaptersStepTypes
    <2> QED BY <2>1, ChaptersStartTyped, PTL DEF ChaptersSpec
<1>2. CatalogueSpec => []CatalogueTypeOK
    <2>1. CatalogueTypes => CatalogueTypeOK
        BY DEF CatalogueTypes
    <2>2. CatalogueInv /\ [CatalogueNext]_catalogueVars => CatalogueInv'
        BY RowsKept, ShapeKept DEF CatalogueInv
    <2> QED BY <2>1, <2>2, CatalogueStarts, CatalogueStartTyped, CatalogueStepTypes, PTL DEF CatalogueSpec
<1>3. TurnsSpec => []TurnsTypeOK
    <2>1. TurnsInv => TurnsTypeOK
        BY DEF TurnsInv, TurnTypes
    <2> QED BY <2>1, TurnsInvHolds, PTL
<1>4. UpSpec => []UpTypeOK
    <2>1. UpInv => UpTypeOK
        BY DEF UpInv
    <2> QED BY <2>1, UpInvHolds, PTL
<1>5. PoolSpec => []PoolTypeOK
    BY PoolTypeCorrect, PoolTypesSuffice, PTL
<1>6. SchedTypeOK /\ PoolTypeOK /\ UpTypeOK /\ AsTypeOK /\ TurnsTypeOK /\ ChaptersTypeOK
      /\ CatalogueTypeOK /\ ViewerTypeOK => TypesOK
    BY DEF TypesOK
<1> QED BY <1>1, <1>2, <1>3, <1>4, <1>5, <1>6, PartsRunAlone, ScheduleTypeCorrect, AsRunTypeCorrect,
           ViewerTypeCorrect, PTL
=============================================================================

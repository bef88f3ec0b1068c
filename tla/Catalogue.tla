----------------------------- MODULE Catalogue ------------------------------
(***************************************************************************)
(* How a sync of a source rewrites the source's row, its items, its        *)
(* history and its incident, in a transaction each, from what was read     *)
(* before the listing; what operators, downloads and the retention sweep   *)
(* write meanwhile (the syncs of the worker, source-sync-scope.ts,         *)
(* asset-retention.ts and the writes of the database package).  One source *)
(* and one of its items are looked at; its others count together.          *)
(***************************************************************************)
EXTENDS Integers, FiniteSets

CONSTANTS
    AlertAfter,  \* SOURCE_BARREN_RUN_ALERT_THRESHOLD
    Protection,  \* days an orphan is kept: the retention's protectionDays
    MaxWrites    \* bound on what operators and downloads write

ASSUME CatalogueAssumption == AlertAfter \in Nat \ {0} /\ Protection \in Nat \ {0} /\ MaxWrites \in Nat

VARIABLES
    kind,        \* "remote" (yt-dlp), "library" (the mounted files) or "direct" (one URL)
    source,      \* its row, or NoSource
    item,        \* the row of the item, or NoItem
    others,      \* whether it stores other items
    pooled,      \* a pool draws on the source
    referenced,  \* a set, the playout's row, the queue or a chat names the item
    mark,        \* days since a sweep first saw the item without a source
    barren,      \* runs of the source in a row that found nothing
    incidents,   \* its open incidents
    sync,        \* the sync of it that runs
    deleting,    \* an operator's delete that has passed its checks
    gone,        \* days since the source was deleted
    writes       \* what operators and downloads have written

catalogueVars == <<kind, source, item, others, pooled, referenced, mark, barren, incidents,
                   sync, deleting,
                   gone, writes>>

NoSource == [enabled |-> FALSE, valid |-> FALSE, there |-> FALSE]
NoItem == [there |-> FALSE, curated |-> FALSE, cached |-> FALSE, touched |-> 0]
NewItem == [NoItem EXCEPT !.there = TRUE]
NoSync == [at |-> "idle"]
Unmarked == -1

\* A listing, by what is in it; or what came instead of one.
Listings == SUBSET {"item", "others"}
Threw == {"threw"}
Partial == {"partial"}  \* of the library: files, but not of every directory
Invalid == {"invalid"}
Answered(s) == s.got \in Listings
Found(s) == Answered(s) /\ s.got # {}

Older(days) == IF days < Protection THEN days + 1 ELSE Protection

CatalogueTypeOK ==
    /\ kind \in {"remote", "library", "direct"}
    /\ source \in [enabled : BOOLEAN, valid : BOOLEAN, there : {TRUE}] \cup {NoSource}
    /\ item \in [there : {TRUE}, curated : BOOLEAN, cached : BOOLEAN, touched : 0..Protection]
                \cup {NoItem}
    /\ {others, pooled, referenced, deleting} \subseteq BOOLEAN
    /\ mark \in Unmarked..Protection /\ gone \in 0..Protection /\ writes \in 0..MaxWrites /\ barren \in 0..AlertAfter
    /\ incidents \subseteq {"failing", "empty"}
    /\ sync.at \in {"idle", "listing", "source", "items", "runs", "incidents"}

CatalogueInit ==
    /\ kind \in {"remote", "library", "direct"}
    /\ source = [enabled |-> TRUE, valid |-> TRUE, there |-> TRUE]
    /\ item = NoItem /\ others = FALSE /\ pooled = FALSE /\ referenced = FALSE
    /\ mark = Unmarked /\ barren = 0 /\ incidents = {} /\ sync = NoSync /\ deleting = FALSE
    /\ gone = 0 /\ writes = 0

-----------------------------------------------------------------------------
(* A sync.  What it has read is what it decides from to the end.           *)

BeginSync ==
    /\ sync = NoSync
    /\ kind = "library" \/ source.enabled
    /\ sync' = [at |-> "listing", source |-> source, had |-> item.there \/ others,
                pooled |-> pooled, barren |-> barren]
    /\ UNCHANGED <<kind, source, item, others, pooled, referenced, mark, barren, incidents,
                   deleting, gone, writes>>

\* A URL that is no URL of its kind is not asked.
Answers ==
    CASE kind = "remote" -> IF sync.source.valid THEN Listings \cup {Threw} ELSE {Threw, Invalid}
      [] kind = "library" -> Listings \cup {Threw, Partial}
      [] kind = "direct" -> IF sync.source.valid THEN {{"item"}} ELSE {Invalid}

\* A call that throws opens the incident at once, in the walk.
ListingAnswers ==
    /\ sync.at = "listing"
    /\ \E got \in Answers :
          /\ sync' = [at |-> "source", source |-> sync.source, had |-> sync.had, got |-> got,
                      pooled |-> sync.pooled, barren |-> sync.barren]
          /\ incidents' = IF kind = "remote" /\ got = Threw THEN incidents \cup {"failing"}
                          ELSE incidents
    /\ UNCHANGED <<kind, source, item, others, pooled, referenced, mark, barren, deleting,
                   gone, writes>>

\* upsertSources: the row as it was read, or the library's fixed one, whether it is there or not.
SourceIsWritten ==
    /\ sync.at = "source"
    /\ source' = IF kind = "library" THEN [enabled |-> TRUE, valid |-> TRUE, there |-> TRUE]
                 ELSE sync.source
    /\ sync' = [sync EXCEPT !.at = "items"]
    /\ UNCHANGED <<kind, item, others, pooled, referenced, mark, barren, incidents, deleting,
                   gone, writes>>

\* Every answer counts, the empty one as well.
AnyAnswer(s) == Answered(s)

\* decideSourceAssetReplacement: nothing is deleted without evidence.
MayReplace(s) == Found(s) \/ (Answered(s) /\ ~s.had)

\* The columns that outlive the delete-and-insert of replaceAssetsForSourceIds.
Reinserted(stored) == [NewItem EXCEPT !.curated = stored.curated, !.cached = stored.cached]

ItemsAreReplaced ==
    /\ sync.at = "items"
    /\ IF MayReplace(sync)
       THEN /\ item' = IF "item" \in sync.got THEN Reinserted(item) ELSE NoItem
            /\ others' = ("others" \in sync.got)
       ELSE UNCHANGED <<item, others>>
    /\ sync' = [sync EXCEPT !.at = IF kind = "library" THEN "incidents" ELSE "runs"]
    /\ UNCHANGED <<kind, source, pooled, referenced, mark, barren, incidents, deleting,
                   gone, writes>>

Barren(before) == IF before < AlertAfter THEN before + 1 ELSE AlertAfter

RunIsAppended ==
    /\ sync.at = "runs"
    /\ barren' = IF Found(sync) \/ sync.got = Partial THEN 0 ELSE Barren(barren)
    /\ sync' = IF kind = "library" THEN NoSync ELSE [sync EXCEPT !.at = "incidents"]
    /\ UNCHANGED <<kind, source, item, others, pooled, referenced, mark, incidents, deleting,
                   gone, writes>>

\* decideSourceDroughtIncident: a run that delivered closes it, enough barren ones in a row open it.
DroughtDecided(s, open) ==
    LET now == IF Found(s) THEN 0 ELSE Barren(s.barren)
    IN  IF now = 0 THEN open \ {"failing"}
        ELSE IF now >= AlertAfter /\ (s.had \/ s.pooled) THEN open \cup {"failing"}
        ELSE open

\* The library says of itself that its scan failed, and that it is empty when the scan can be trusted.
ScanDecided(s, open) ==
    CASE s.got = Threw   -> open \cup {"failing"}
      [] s.got = Partial -> (open \ {"empty"}) \cup {"failing"}
      [] Found(s)        -> open \ {"failing", "empty"}
      [] OTHER           -> (open \ {"failing"}) \cup {"empty"}

IncidentsAreKept ==
    /\ sync.at = "incidents"
    /\ incidents' = CASE kind = "remote"  -> DroughtDecided(sync, incidents)
                      [] kind = "library" -> ScanDecided(sync, incidents)
                      [] kind = "direct"  -> IF Answered(sync) THEN incidents \ {"failing"}
                                             ELSE incidents \cup {"failing"}
    /\ sync' = IF kind = "library" THEN [sync EXCEPT !.at = "runs"] ELSE NoSync
    /\ UNCHANGED <<kind, source, item, others, pooled, referenced, mark, barren, deleting,
                   gone, writes>>

\* The worker stops, or a write of the step throws: the rest of the sync is not done.
SyncIsCutShort ==
    /\ sync # NoSync /\ sync' = NoSync
    /\ UNCHANGED <<kind, source, item, others, pooled, referenced, mark, barren, incidents,
                   deleting, gone, writes>>

-----------------------------------------------------------------------------
(* The operator and the downloads.                                         *)

OneMoreWrite == writes < MaxWrites /\ writes' = writes + 1

\* updateAssetCurationRecords: the columns the operator set, on the row as it is.
Curate ==
    /\ OneMoreWrite
    /\ item.there
    /\ item' = [item EXCEPT !.curated = TRUE, !.touched = 0]
    /\ UNCHANGED <<kind, source, others, pooled, referenced, mark, barren, incidents, sync,
                   deleting, gone>>

\* A download has ended, hours after it was asked for: the cache columns only.
CacheIsWritten ==
    /\ OneMoreWrite
    /\ kind = "remote" /\ item.there
    /\ item' = [item EXCEPT !.cached = TRUE, !.touched = 0]
    /\ UNCHANGED <<kind, source, others, pooled, referenced, mark, barren, incidents, sync,
                   deleting, gone>>

EditSource ==
    /\ OneMoreWrite
    /\ source.there
    /\ \/ source' = [source EXCEPT !.enabled = ~source.enabled]
       \/ source' = [source EXCEPT !.valid = ~source.valid]
    /\ UNCHANGED <<kind, item, others, pooled, referenced, mark, barren, incidents, sync,
                   deleting, gone>>

EditReferences ==
    /\ OneMoreWrite
    /\ \/ source.there /\ pooled' = TRUE /\ UNCHANGED referenced
       \/ pooled' = FALSE /\ UNCHANGED referenced
       \/ referenced' = (item.there /\ ~referenced) /\ UNCHANGED pooled
    /\ UNCHANGED <<kind, source, item, others, mark, barren, incidents, sync, deleting, gone>>

\* The checks of DELETE /api/sources are made on a plain read.
CheckDelete ==
    /\ OneMoreWrite
    /\ source.there /\ ~pooled /\ ~deleting /\ deleting' = TRUE
    /\ UNCHANGED <<kind, source, item, others, pooled, referenced, mark, barren, incidents,
                   sync, gone>>

DeleteSource ==
    /\ deleting /\ deleting' = FALSE
    /\ source' = NoSource /\ item' = NoItem /\ others' = FALSE
    /\ gone' = IF source.there THEN 0 ELSE gone
    /\ UNCHANGED <<kind, pooled, referenced, mark, barren, incidents, sync, writes>>

-----------------------------------------------------------------------------
(* The retention sweep: one transaction from what refers to the item to    *)
(* the delete.                                                             *)

IsOrphan == item.there /\ ~source.there

\* Seen without a source for the whole window, and not written within it either.
ProtectionIsOver == mark >= Protection /\ item.touched >= Protection

IsDeletable == IsOrphan /\ ~referenced /\ ~pooled /\ ProtectionIsOver

Sweep ==
    /\ \E deleteEnabled \in BOOLEAN :
          LET deleted == deleteEnabled /\ IsDeletable
          IN  /\ item' = IF deleted THEN NoItem ELSE item
              /\ mark' = CASE deleted \/ ~IsOrphan -> Unmarked
                           [] OTHER -> IF mark = Unmarked THEN 0 ELSE mark
    /\ UNCHANGED <<kind, source, others, pooled, referenced, barren, incidents, sync, deleting,
                   gone, writes>>

\* A sync and a request are over within minutes.
DayPasses ==
    /\ sync = NoSync /\ ~deleting
    /\ item' = IF item.there THEN [item EXCEPT !.touched = Older(item.touched)] ELSE item
    /\ mark' = IF mark = Unmarked THEN mark ELSE Older(mark)
    /\ gone' = IF source.there THEN 0 ELSE Older(gone)
    /\ UNCHANGED <<kind, source, others, pooled, referenced, barren, incidents, sync, deleting, writes>>

CatalogueNext ==
    \/ BeginSync \/ ListingAnswers \/ SourceIsWritten \/ ItemsAreReplaced \/ RunIsAppended
    \/ IncidentsAreKept \/ SyncIsCutShort
    \/ Curate \/ CacheIsWritten \/ EditSource \/ EditReferences \/ CheckDelete \/ DeleteSource
    \/ Sweep \/ DayPasses

CatalogueSpec == CatalogueInit /\ [][CatalogueNext]_catalogueVars

-----------------------------------------------------------------------------
\* A sync takes nothing away without evidence.  It loses nothing the operator or a download has
\* written on an item meanwhile; an item leaves the library only by a listing that has others and
\* not it, by its source's deletion, or as an unreferenced orphan whose source has been gone for
\* the whole protection window (the wipe of v1.5.31); the incident of a source that delivers
\* nothing closes only by a run that delivered or a trusted scan, and is open after the sync with
\* which as many runs as the threshold found nothing (the night of 2026-08-27).
SyncsTakeNothingAway ==
    [][/\ item.there =>
            IF item'.there
            THEN (item.curated => item'.curated) /\ (item.cached => item'.cached)
            ELSE \/ deleting /\ ~deleting'
                 \/ sync.at = "items" /\ Found(sync) /\ "item" \notin sync.got
                 \/ ~source.there /\ gone >= Protection /\ ~referenced /\ ~pooled
       /\ "failing" \in incidents \ incidents' =>
            sync.at = "incidents" /\ (Found(sync) \/ (kind = "library" /\ Answered(sync)))
       /\ IncidentsAreKept /\ (kind = "remote" => barren >= AlertAfter /\ (sync.had \/ sync.pooled))
                           /\ ~Found(sync) /\ (kind # "remote" => ~Answered(sync))
            => "failing" \in incidents']_catalogueVars
=============================================================================

---------------------------- MODULE SchemaBoot ------------------------------
(***************************************************************************)
(* The start of a container on a database of any release: the bootstrap    *)
(* under its advisory lock, the migrations in the order they are           *)
(* registered, the seed of an empty database, and the other containers,    *)
(* which may still run the release before.                                 *)
(*                                                                         *)
(* A column group <<table, group>> stands for the columns one migration    *)
(* adds to a table; <<table, "own">> for those the table was created with. *)
(* Types, defaults and indexes are left out.                               *)
(***************************************************************************)
EXTENDS Integers, Sequences, FiniteSets

CONSTANTS Containers,   \* web, worker, ...: each boots the database by itself
          BootAttempts, \* DB_BOOTSTRAP_MAX_ATTEMPTS
          MaxSetbacks   \* bound: lock waits, lost connections, restarts, changes of release

ASSUME SchemaAssumption == BootAttempts \in Nat \ {0} /\ MaxSetbacks \in Nat

VARIABLES database, \* what is committed: schema, applied, rows
          boots,    \* what each container does
          site,     \* what the installation came with: its release, a file of the time before the database
          setbacks

bootVars == <<database, boots, site, setbacks>>

Own(tables) == {<<t, "own">> : t \in tables}

---------------------------------------------------------------------------
(* The baseline: every table of the present release but those of two migrations *)

AccountTables == {"system_state", "users", "team_access_grants", "moderation_settings", "presence_windows"}

SceneTables == {"overlay_settings", "overlay_drafts", "overlay_scene_presets"}

AudienceTables == {"managed_config", "output_settings", "engagement_settings", "engagement_game_runtime",
                   "engagement_events", "chat_game_settings", "chat_game_runtime", "chat_skip_vote",
                   "chat_overlay_messages", "twitch_connection", "twitch_broadcaster_connection",
                   "twitch_schedule_segments"}

ProgrammeTables == {"schedule_blocks", "pools", "show_profiles", "sources", "assets", "asset_retention_marks",
                    "source_breakers", "as_run_log", "source_sync_runs"}

ChannelTables == {"stream_destinations", "overlay_video_sources", "managed_secrets", "incidents",
                  "audit_events", "playout_runtime"}

BaselineTables == AccountTables \cup SceneTables \cup AudienceTables \cup ProgrammeTables \cup ChannelTables

\* The columns its ALTERs bring to tables that are there already; the list is long and has grown
\* beside the migrations.
BaselineAlters ==
    {<<"as_run_log", "offset">>, <<"overlay_video_sources", "push">>, <<"overlay_video_sources", "live">>,
     <<"twitch_connection", "live">>, <<"twitch_connection", "started">>, <<"stream_destinations", "profile">>,
     <<"overlay_settings", "scenes">>, <<"overlay_settings", "placement">>,
     <<"overlay_drafts", "scenes">>, <<"overlay_drafts", "placement">>}

BaselineAltersOfProgramme ==
    {<<"schedule_blocks", "dates">>, <<"pools", "cursors">>,
     <<"assets", "duration">>, <<"assets", "cache">>, <<"assets", "chapters">>, <<"assets", "probe">>,
     <<"assets", "playback">>, <<"assets", "settle">>, <<"assets", "rechecks">>,
     <<"playout_runtime", "remove_next">>, <<"playout_runtime", "resume">>, <<"playout_runtime", "uplink">>}

---------------------------------------------------------------------------
(* The migrations, as they are registered *)

Creates(tables) == [creates |-> Own(tables), adds |-> {}]
Adds(columns) == [creates |-> {}, adds |-> columns]
Touches == [creates |-> {}, adds |-> {}] \* rows or an index only

\* A table it creates anew has these as well.
OnlyInCreates ==
    {<<"team_access_grants", "twitch_id">>, <<"presence_windows", "minutes">>, <<"presence_windows", "id">>,
     <<"engagement_settings", "alerts">>, <<"engagement_settings", "game">>, <<"playout_runtime", "heartbeat">>}

Baseline == [creates |-> Own(BaselineTables) \cup BaselineAlters \cup BaselineAltersOfProgramme \cup OnlyInCreates,
             adds    |-> BaselineAlters \cup BaselineAltersOfProgramme]

LibraryAndFeed ==
    <<Creates({"asset_collections", "asset_collection_items"}),
      Creates({"twitch_broadcaster_connection"}),
      Adds({<<"playout_runtime", "uplink">>}),
      Adds({<<"assets", "chapters">>}),
      Adds({<<"assets", "cache">>})>>

OutputAndEngagement ==
    <<Creates({"output_settings"}),
      [creates |-> Own({"engagement_settings", "engagement_events"}) \cup {<<"engagement_settings", "alerts">>},
       adds |-> {}],
      Adds({<<"engagement_settings", "alerts">>}),
      [creates |-> Own({"engagement_game_runtime"}), adds |-> {<<"engagement_settings", "game">>}],
      Adds({<<"stream_destinations", "profile">>})>>

PresenceAndChat ==
    <<Adds({<<"twitch_connection", "live">>, <<"twitch_connection", "started">>}),
      Adds({<<"presence_windows", "minutes">>}),
      Adds({<<"twitch_connection", "started">>}),
      Creates({"chat_interaction_settings", "chat_vote_session", "chat_viewer_requests"}),
      Adds({<<"presence_windows", "id">>})>>

GamesAndVotes ==
    <<Creates({"chat_game_settings", "chat_game_runtime"}),
      Creates({"chat_skip_vote"}),
      Creates({"chat_overlay_messages"}),
      Adds({<<"assets", "probe">>, <<"assets", "playback">>})>>

SourcesAndSecrets ==
    <<Creates({"asset_retention_marks"}),
      Creates({"overlay_video_sources"}),
      Adds({<<"overlay_video_sources", "push">>}),
      Creates({"managed_secrets"}),
      Adds({<<"overlay_video_sources", "live">>}),
      Adds({<<"playout_runtime", "heartbeat">>})>>

ScenesAndRepairs ==
    <<Touches, \* redactStoredSecrets
      Adds({<<"overlay_settings", "scenes">>, <<"overlay_drafts", "scenes">>}),
      Touches, \* the audit trail's index
      Adds({<<"overlay_settings", "placement">>, <<"overlay_drafts", "placement">>})>>

ProbeAndRotation ==
    <<Adds({<<"assets", "playback">>}),
      Adds({<<"pools", "cursors">>}),
      Creates({"source_breakers"}),
      Creates({"as_run_log"}),
      Touches, \* redactStoredSecrets, again
      Adds({<<"playout_runtime", "remove_next">>})>>

DatesAndReplies ==
    <<Adds({<<"schedule_blocks", "dates">>}),
      Adds({<<"assets", "duration">>}),
      Adds({<<"chat_interaction_settings", "replies">>}),
      Adds({<<"assets", "settle">>}),
      Adds({<<"assets", "rechecks">>}),
      Adds({<<"playout_runtime", "resume">>, <<"as_run_log", "offset">>}),
      Adds({<<"team_access_grants", "twitch_id">>})>>

Migrations == <<Baseline>> \o LibraryAndFeed \o OutputAndEngagement \o PresenceAndChat \o GamesAndVotes
              \o SourcesAndSecrets \o ScenesAndRepairs \o ProbeAndRotation \o DatesAndReplies

Latest == Len(Migrations)

Brings(m) == m.creates \cup m.adds
Columns == UNION {Brings(Migrations[i]) : i \in 1..Latest}

\* The last migration that brings a column: a release that has it has the column for certain,
\* whenever the baseline was given its copy.
SinceOf == [c \in Columns |-> CHOOSE i \in 1..Latest :
                                 /\ c \in Brings(Migrations[i])
                                 /\ \A j \in (i + 1)..Latest : c \notin Brings(Migrations[j])]
Since(c) == SinceOf[c]

\* DECLARED_SCHEMA of a release
Declared(release) == {c \in Columns : Since(c) <= release}

\* A number given late stands before others that are recorded already: the retention marks.
LateNumbered == 21

Known(release) == IF release = Latest THEN 1..Latest ELSE (1..release) \ site.missed
DeclaredBy(release) == {c \in Declared(release) : Since(c) \in Known(release)}

---------------------------------------------------------------------------
(* The bootstrap *)

SetBack == setbacks < MaxSetbacks /\ setbacks' = setbacks + 1

Asleep(release) == [at |-> "asleep", attempt |-> 1, release |-> release, seed |-> "none"]

InTransaction(p) == boots[p].at \in {"migrates", "seeds", "commits"}

\* ensureDatabase: the first caller of a container starts its bootstrap.
EnsureDatabase(p) ==
    /\ boots[p].at = "asleep"
    /\ boots' = [boots EXCEPT ![p].at = "waits"]
    /\ UNCHANGED <<database, site, setbacks>>

\* bootstrapDatabaseOnce: one transaction under the lock of the boots.
BootstrapOnce(p) ==
    /\ boots[p].at = "waits" /\ \A q \in Containers : ~InTransaction(q)
    /\ boots' = [boots EXCEPT ![p].at = "migrates"]
    /\ UNCHANGED <<database, site, setbacks>>

\* Mutant: it goes on from the last one recorded.
PendingAfterLast(release, applied) == {i \in Known(release) : \A j \in applied : j < i}

\* What is recorded is skipped, whatever was recorded after it.
Pending(release, applied) == Known(release) \ applied

\* The pending migrations that create a table; CREATE IF NOT EXISTS leaves one that is there as it is.
Creators(pending, table) == {i \in pending : <<table, "own">> \in Migrations[i].creates}

\* An ALTER of a table that is not there yet fails.
Applies(pending, schema) ==
    \A i \in pending : \A c \in Migrations[i].adds :
        <<c[1], "own">> \in schema \/ \E j \in Creators(pending, c[1]) : j <= i

\* What the pending migrations leave, of the columns their release knows.
Upgraded(pending, schema) ==
    schema \cup (UNION {Migrations[i].adds : i \in pending})
           \cup {c \in UNION {Migrations[i].creates : i \in pending} :
                    /\ <<c[1], "own">> \notin schema
                    /\ c \in Migrations[CHOOSE i \in Creators(pending, c[1]) :
                                          \A j \in Creators(pending, c[1]) : i <= j].creates}

UpgradedBy(release) ==
    LET upgraded == Upgraded(Pending(release, database.applied), database.schema)
    IN  database.schema \cup (upgraded \cap DeclaredBy(release))

\* Every error but a lost deadlock or lock wait ends the bootstrap; its callers see it.
ApplyPendingMigrations(p) ==
    /\ boots[p].at = "migrates"
    /\ boots' = [boots EXCEPT ![p] = IF Applies(Pending(@.release, database.applied), database.schema) THEN [@ EXCEPT !.at = "seeds"]
                                     ELSE Asleep(@.release)]
    /\ UNCHANGED <<database, site, setbacks>>

\* isDatabaseEmpty; a file that cannot be read is as good as none.
SeedIfEmpty(p) ==
    /\ boots[p].at = "seeds"
    /\ \E seed \in {"legacy", "initial", "none"} :
        /\ seed = "none" <=> database.rows # "none"
        /\ seed = "legacy" => site.legacy
        /\ IF seed = "initial" /\ site.legacy THEN SetBack ELSE UNCHANGED setbacks
        /\ boots' = [boots EXCEPT ![p].at = "commits", ![p].seed = seed]
    /\ UNCHANGED <<database, site>>

\* Nobody else migrates meanwhile.
Committed(p) ==
    [schema  |-> UpgradedBy(boots[p].release),
     applied |-> database.applied \cup Known(boots[p].release),
     rows    |-> IF boots[p].seed = "none" THEN database.rows ELSE boots[p].seed]

BootCommit(p) ==
    /\ boots[p].at = "commits"
    /\ database' = Committed(p)
    /\ boots' = [boots EXCEPT ![p] = [Asleep(@.release) EXCEPT !.at = "ready"]]
    /\ UNCHANGED <<site, setbacks>>

\* The answer to COMMIT is lost.
CommitUnheard(p) ==
    /\ boots[p].at = "commits" /\ SetBack
    /\ database' = Committed(p)
    /\ boots' = [boots EXCEPT ![p] = Asleep(@.release)]
    /\ UNCHANGED site

\* A container that still writes holds a table the migrations alter: 55P03 or 40P01.
LoseTableLock(p) ==
    /\ boots[p].at \in {"migrates", "seeds"} /\ SetBack
    /\ boots' = [boots EXCEPT ![p] = IF @.attempt < BootAttempts
                                     THEN [Asleep(@.release) EXCEPT !.at = "waits", !.attempt = boots[p].attempt + 1]
                                     ELSE Asleep(@.release)]
    /\ UNCHANGED <<database, site>>

\* The connection is lost, or the container ends, or it comes back with another release.
Interrupted(p) ==
    /\ SetBack
    /\ \E release \in {boots[p].release} \cup (IF site.release = 0 THEN {} ELSE {site.release, Latest}) :
        boots' = [boots EXCEPT ![p] = Asleep(release)]
    /\ UNCHANGED <<database, site>>

\* What anybody enters once the channel is up.
OperatorWrites(p) ==
    /\ boots[p].at = "ready"
    /\ database' = [database EXCEPT !.rows = "kept"]
    /\ UNCHANGED <<boots, site, setbacks>>

---------------------------------------------------------------------------
(* Specification *)

\* A database of any release, perhaps with a column its baseline had before a migration brought
\* it; an empty one; or the first release's, before migrations were recorded.
BootInit ==
    /\ \E release \in 0..Latest, missed \in {{}, {LateNumbered}},
         extra \in {{}} \cup {{c} : c \in BaselineAlters \cup BaselineAltersOfProgramme} :
        /\ missed # {} => LateNumbered < release /\ release < Latest
        /\ \E old \in BOOLEAN :
            /\ old => release = 0
            /\ (release = 0 /\ ~old) => extra = {}
            /\ LET schema == {c \in Declared(IF old THEN 1 ELSE release) : Since(c) \notin missed}
               IN  /\ \A c \in extra : c[2] # "own" => <<c[1], "own">> \in schema
                   /\ database = [schema |-> schema \cup extra, applied |-> (1..release) \ missed,
                                  rows |-> IF release = 0 /\ ~old THEN "none" ELSE "kept"]
            /\ \E file \in BOOLEAN :
                /\ file => database.rows = "none"
                /\ site = [release |-> release, missed |-> missed, legacy |-> file]
        /\ boots = [p \in Containers |-> Asleep(Latest)]
    /\ setbacks = 0

BootStep(p) == EnsureDatabase(p) \/ BootstrapOnce(p) \/ ApplyPendingMigrations(p) \/ SeedIfEmpty(p) \/ BootCommit(p)

BootNext == \E p \in Containers : \/ BootStep(p) \/ CommitUnheard(p) \/ LoseTableLock(p) \/ Interrupted(p)
                                 \/ OperatorWrites(p)

BootSpec == BootInit /\ [][BootNext]_bootVars

BootTypeOK ==
    /\ database.schema \subseteq Columns /\ database.applied \subseteq 1..Latest
    /\ database.rows \in {"none", "legacy", "initial", "kept"}
    /\ \A p \in Containers : /\ boots[p].at \in {"asleep", "waits", "migrates", "seeds", "commits", "ready"}
                            /\ boots[p].attempt \in 1..BootAttempts
    /\ setbacks \in 0..MaxSetbacks

\* From whatever release the database comes, every pending migration can be made, and a container
\* that is up finds every column its release declares; and no boot writes its seed over what was
\* entered.  (db bootstrapDatabaseOnce, applyPendingMigrations, isDatabaseEmpty; index.ts:4190: a
\* column added to the baseline alone reaches no installation that has recorded the baseline.)
SchemaServes ==
    /\ [](\A p \in Containers :
             /\ boots[p].at = "migrates" => Applies(Pending(boots[p].release, database.applied), database.schema)
             /\ boots[p].at = "ready" => DeclaredBy(boots[p].release) \subseteq database.schema)
    /\ [][database.rows = "kept" => database'.rows = "kept"]_bootVars
=============================================================================

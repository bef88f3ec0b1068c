----------------------------- MODULE StateStore -----------------------------
(***************************************************************************)
(* The state in PostgreSQL: how every write of web and worker goes through *)
(* one advisory lock, the whole-state writes, the values encrypted with    *)
(* APP_SECRET, the audit trail's two windows and the relay's internal key. *)
(*                                                                         *)
(* A row stands for a table and holds the number of the call that wrote it *)
(* last; a secret is the cipher stored for it: the key that opens it and   *)
(* the call that entered it.  SQL, normalisation and the other columns are *)
(* left out.                                                               *)
(***************************************************************************)
EXTENDS Integers, FiniteSets

CONSTANTS Callers,       \* requests and cycles at one time
          ProcessOf,     \* the container each runs in
          PoolSize,      \* connections of a container's pool
          MaxAttempts,   \* STATE_WRITE_MAX_RETRIES
          GeneralKept,   \* AUDIT_EVENT_RETENTION_LIMIT
          ProtectedKept, \* AUDIT_EVENT_PROTECTED_RETENTION_LIMIT
          MaxCalls,      \* bound: calls in all
          MaxTroubles    \* bound: deadlocks, lost connections, failed boots, restarts, changes of APP_SECRET

ASSUME StoreAssumption ==
    /\ PoolSize \in Nat \ {0} /\ MaxAttempts \in Nat \ {0}
    /\ {GeneralKept, ProtectedKept} \subseteq Nat \ {0} /\ {MaxCalls, MaxTroubles} \subseteq Nat
    /\ "free" \notin Callers

VARIABLES store,      \* what is committed: rows, secrets, audit
          calls,      \* each caller's call
          writeLock,  \* who holds STATE_WRITE_LOCK_KEY
          ready,      \* __stream247DbReady of each container
          appSecret,  \* the key the containers run with
          relayCache, \* cachedRelayInternalKey
          log,        \* history: what the calls did
          troubles

storeVars == <<store, calls, writeLock, ready, appSecret, relayCache, log, troubles>>

Processes == {ProcessOf[c] : c \in Callers}
Ids == 1..MaxCalls
Free == "free"

\* What web and worker ask for. An audit entry of a sign-in or a setting is a protected one.
Operations(p) == IF p = "web" THEN {"whole", "user", "config", "destination", "enter_key", "protected", "relay"}
                 ELSE {"whole", "audit", "as_run", "relay"}

---------------------------------------------------------------------------
(* Ciphers *)

Empty == [key |-> 0, entered |-> 0]
Encrypted(entered) == [key |-> appSecret, entered |-> entered]

\* decryptSecretString: what the reader makes of it; the failed one reads as no value.
Opens(cipher) == cipher # Empty /\ cipher.key = appSecret
Read(cipher) == IF Opens(cipher) THEN cipher.entered ELSE 0

\* Mutant: what reads as empty is written as empty.
EncryptWhatWasRead(seen, stored) == IF seen = 0 THEN Empty ELSE Encrypted(seen)

\* preservedTwoFactorSecret
PreservedTwoFactor(seen, stored) ==
    IF stored # Empty /\ seen = 0 THEN stored
    ELSE IF seen = 0 THEN Empty ELSE Encrypted(seen)

---------------------------------------------------------------------------
(* The audit trail: entries <<number, protected>>, numbered as they come *)

Newest(entries, n) == {e \in entries : Cardinality({f \in entries : f[1] > e[1]}) < n}

\* appendAuditEvent's DELETE
RetainedBySql(entries) ==
    Newest(entries, GeneralKept) \cup Newest({e \in entries : e[2]}, ProtectedKept)

\* selectRetainedAuditEvents, of as many entries as hydrateState reads.
RetainedByState(entries) ==
    LET read == Newest(entries, GeneralKept + ProtectedKept)
    IN  Newest(read, GeneralKept) \cup Newest({e \in read : e[2]}, ProtectedKept)

---------------------------------------------------------------------------
(* Calls *)

Idle == [step |-> "idle"]
NotRead == [rows |-> {}]

Spend == troubles < MaxTroubles /\ troubles' = troubles + 1

InUse(p) ==
    Cardinality({c \in Callers : ProcessOf[c] = p /\ calls[c].step \in {"waits", "locked", "computed", "relay"}})

\* hydrateState. The stream keys are read as well, but a whole-state write carries them over.
Hydrated == [rows |-> store.rows, totp |-> Read(store.secrets.totp),
             config |-> Read(store.secrets.config), audit |-> store.audit]

\* A route begins: what it will write is made of a state read before the lock.
StartCall(c) ==
    /\ calls[c] = Idle /\ log.calls < MaxCalls
    /\ \E op \in Operations(ProcessOf[c]) :
        /\ op = "relay" => relayCache[ProcessOf[c]] = 0
        /\ calls' = [calls EXCEPT ![c] = [step |-> "boot", op |-> op, id |-> log.calls + 1, attempt |-> 1,
                                          seen |-> IF op \in {"whole", "user", "config"} THEN Hydrated ELSE NotRead,
                                          at |-> "read"]]
    /\ log' = [log EXCEPT !.calls = @ + 1]
    /\ UNCHANGED <<store, writeLock, ready, appSecret, relayCache, troubles>>

To(c, step) == calls' = [calls EXCEPT ![c].step = step]

Return(c, outcome) ==
    /\ calls' = [calls EXCEPT ![c] = Idle]
    /\ log' = [log EXCEPT !.returned[calls[c].id] = outcome]

\* ensureDatabase: every caller awaits the one bootstrap of its container.
AwaitDatabase(c) ==
    /\ calls[c].step = "boot"
    /\ \/ /\ ready[ProcessOf[c]] = "none"
          /\ ready' = [ready EXCEPT ![ProcessOf[c]] = "booting"] /\ UNCHANGED calls
       \/ /\ ready[ProcessOf[c]] = "ready"
          /\ To(c, "connect") /\ UNCHANGED ready
    /\ UNCHANGED <<store, writeLock, appSecret, relayCache, log, troubles>>

\* bootstrapDatabase: its lock is another one and its writes only fill an empty database.
BootSucceeds(p) ==
    /\ ready[p] = "booting"
    /\ ready' = [ready EXCEPT ![p] = "ready"]
    /\ UNCHANGED <<store, calls, writeLock, appSecret, relayCache, log, troubles>>

\* Every caller of the attempt sees its error; the next call starts afresh.
BootFails(p) ==
    LET waiting == {c \in Callers : ProcessOf[c] = p /\ calls[c].step = "boot"}
    IN  /\ ready[p] = "booting" /\ Spend
        /\ ready' = [ready EXCEPT ![p] = "none"]
        /\ calls' = [c \in Callers |-> IF c \in waiting THEN Idle ELSE calls[c]]
        /\ log' = [log EXCEPT !.returned = [i \in Ids |-> IF \E c \in waiting : calls[c].id = i
                                                           THEN "error" ELSE @[i]]]
        /\ UNCHANGED <<store, writeLock, appSecret, relayCache>>

Connect(c) ==
    /\ calls[c].step = "connect" /\ InUse(ProcessOf[c]) < PoolSize
    /\ To(c, IF calls[c].op = "relay" THEN "relay" ELSE "waits")
    /\ UNCHANGED <<store, writeLock, ready, appSecret, relayCache, log, troubles>>

\* connectionTimeoutMillis: the pool has no connection to hand out, or PostgreSQL does not answer.
ConnectTimesOut(c) ==
    /\ calls[c].step = "connect"
    /\ IF InUse(ProcessOf[c]) >= PoolSize THEN UNCHANGED troubles ELSE Spend
    /\ Return(c, "error")
    /\ UNCHANGED <<store, writeLock, ready, appSecret, relayCache>>

\* acquireStateWriteLock
TakeLock(c) ==
    /\ calls[c].step = "waits" /\ calls[c].op # "as_run" /\ writeLock = Free
    /\ writeLock' = c /\ To(c, "locked")
    /\ UNCHANGED <<store, ready, appSecret, relayCache, log, troubles>>

\* The reads of the callback; what a whole-state write changes is made of them.
\* Mutant: the callback works on the state the route has read.
ReadsNothing(c) == calls[c].seen

ReadsUnderLock(c) == IF calls[c].op = "whole" THEN Hydrated ELSE calls[c].seen

Compute(c) ==
    /\ calls[c].step = "locked"
    /\ calls[c].op = "user" => InUse(ProcessOf[c]) < PoolSize
    /\ calls' = [calls EXCEPT ![c].step = "computed", ![c].seen = ReadsUnderLock(c)]
    /\ UNCHANGED <<store, writeLock, ready, appSecret, relayCache, log, troubles>>

\* Mutant: a wait for a connection has no bound.
WaitsForConnection(c) == FALSE /\ UNCHANGED storeVars

\* upsertUserRecord reads the stored secret on a second connection while it holds the lock.
SecondConnectionTimesOut(c) ==
    /\ calls[c].step = "locked" /\ calls[c].op = "user" /\ InUse(ProcessOf[c]) >= PoolSize
    /\ writeLock' = Free /\ Return(c, "error")
    /\ UNCHANGED <<store, ready, appSecret, relayCache, troubles>>

---------------------------------------------------------------------------
(* What a call writes *)

AuditEntry(c) == <<Cardinality(log.audit) + 1, calls[c].op = "protected">>

\* persistState: the rows of the state it was given. The as-run log, breakers and chat's requests
\* are left alone, and so are ciphers it cannot read.
PersistState(seen, id) ==
    [rows |-> [seen.rows EXCEPT !.schedule = id, !.as_run = store.rows.as_run],
     secrets |-> [store.secrets EXCEPT
                    !.totp = PreservedTwoFactor(seen.totp, @),
                    !.config = IF @ = Empty \/ Opens(@) THEN Encrypted(seen.config) ELSE @],
     audit |-> RetainedByState(seen.audit)]

\* updateManagedConfigRecord: the page's fields on top of the config it was rendered from.
SaveConfig(seen, id) ==
    [store EXCEPT !.rows.config = id, !.secrets.config = Encrypted(seen.config)]

\* updateDestinationRecord
SaveDestination(id, entered) ==
    [store EXCEPT !.rows.destination = id,
                  !.secrets.stream = IF entered THEN Encrypted(id) ELSE @]

SaveUser(seen, id) ==
    [store EXCEPT !.rows.user = id, !.secrets.totp = PreservedTwoFactor(seen.totp, @)]

AppendAudit(entry) == [store EXCEPT !.audit = RetainedBySql(@ \cup {entry})]

Written(c) ==
    LET call == calls[c]
    IN  CASE call.op = "whole"       -> PersistState(call.seen, call.id)
          [] call.op = "user"        -> SaveUser(call.seen, call.id)
          [] call.op = "config"      -> SaveConfig(call.seen, call.id)
          [] call.op = "destination" -> SaveDestination(call.id, FALSE)
          [] call.op = "enter_key"   -> SaveDestination(call.id, TRUE)
          [] OTHER                   -> AppendAudit(AuditEntry(c))

Commits(c) ==
    /\ store' = Written(c)
    /\ writeLock' = Free

Logged(c, outcome) ==
    [log EXCEPT !.returned[calls[c].id] = outcome, !.applied[calls[c].id] = @ + 1,
                !.audit = IF calls[c].op \in {"audit", "protected"} THEN @ \cup {AuditEntry(c)} ELSE @]

Commit(c) ==
    /\ calls[c].step = "computed"
    /\ Commits(c)
    /\ calls' = [calls EXCEPT ![c] = Idle] /\ log' = Logged(c, "ok")
    /\ UNCHANGED <<ready, appSecret, relayCache, troubles>>

\* withAsRunTransaction: a transaction without the lock.
CommitAsRun(c) ==
    /\ calls[c].step = "waits" /\ calls[c].op = "as_run"
    /\ store' = [store EXCEPT !.rows.as_run = calls[c].id]
    /\ calls' = [calls EXCEPT ![c] = Idle] /\ log' = Logged(c, "ok")
    /\ UNCHANGED <<writeLock, ready, appSecret, relayCache, troubles>>

\* Mutant: every error is tried again.
MayRetryAll(c, error) == calls[c].attempt < MaxAttempts

\* 40P01 and 40001: rolled back for certain, tried again.
MayRetry(c, error) == error = "deadlock" /\ calls[c].attempt < MaxAttempts

AfterError(c, error) ==
    IF MayRetry(c, error)
    THEN [calls EXCEPT ![c].step = "connect", ![c].attempt = @ + 1]
    ELSE [calls EXCEPT ![c] = Idle]

ReturnedAfterError(c, error, entries) ==
    IF MayRetry(c, error) THEN entries ELSE [entries EXCEPT !.returned[calls[c].id] = "error"]

Deadlock(c) ==
    /\ calls[c].step \in {"locked", "computed"} /\ Spend
    /\ writeLock' = Free
    /\ calls' = AfterError(c, "deadlock") /\ log' = ReturnedAfterError(c, "deadlock", log)
    /\ UNCHANGED <<store, ready, appSecret, relayCache>>

\* The connection is lost at the COMMIT: the server has carried it out or not.
LoseConnection(c, committed) ==
    /\ calls[c].step = "computed" /\ Spend
    /\ IF committed THEN Commits(c) ELSE writeLock' = Free /\ UNCHANGED store
    /\ calls' = AfterError(c, "lost")
    /\ log' = ReturnedAfterError(c, "lost", IF committed THEN Logged(c, log.returned[calls[c].id]) ELSE log)
    /\ UNCHANGED <<ready, appSecret, relayCache>>

\* Mutant: a lock that outlives the transaction.
RestartKeepsLock(procs) ==
    LET gone == {c \in Callers : ProcessOf[c] \in procs}
    IN  /\ calls' = [c \in Callers |-> IF c \in gone THEN Idle ELSE calls[c]]
        /\ ready' = [p \in Processes |-> IF p \in procs THEN "none" ELSE ready[p]]
        /\ relayCache' = [p \in Processes |-> IF p \in procs THEN 0 ELSE relayCache[p]]
        /\ UNCHANGED <<writeLock, store>>

\* A container stops: its connections close and its transactions are rolled back.
Restart(procs) ==
    LET gone == {c \in Callers : ProcessOf[c] \in procs}
    IN  /\ calls' = [c \in Callers |-> IF c \in gone THEN Idle ELSE calls[c]]
        /\ writeLock' = IF writeLock \in gone THEN Free ELSE writeLock
        /\ ready' = [p \in Processes |-> IF p \in procs THEN "none" ELSE ready[p]]
        /\ relayCache' = [p \in Processes |-> IF p \in procs THEN 0 ELSE relayCache[p]]
        /\ UNCHANGED store

ContainerRestarts(p) == Spend /\ Restart({p}) /\ UNCHANGED <<appSecret, log>>

\* The operator changes APP_SECRET, or puts the old one back.
RotateSecret ==
    /\ Spend
    /\ appSecret' = 3 - appSecret
    /\ Restart(Processes) /\ log' = [log EXCEPT !.overwrites = 0]

---------------------------------------------------------------------------
(* readRelayInternalKey: statements of their own, outside the lock *)

Adopt(c, key) ==
    /\ relayCache' = [relayCache EXCEPT ![ProcessOf[c]] = key]
    /\ calls' = [calls EXCEPT ![c] = Idle]

\* ON CONFLICT (id) DO NOTHING
InsertIfAbsent(stored, candidate) == IF stored = Empty THEN candidate ELSE stored

\* at is the statement that is next.
RelayStep(c) ==
    /\ calls[c].step = "relay"
    /\ LET relay == store.secrets.relay
           candidate == Encrypted(calls[c].id)
           next(at) == calls' = [calls EXCEPT ![c].at = at] /\ UNCHANGED relayCache
       IN  \/ /\ calls[c].at \in {"read", "reread", "last"} /\ Opens(relay)
              /\ Adopt(c, relay.entered) /\ UNCHANGED <<store, log>>
           \/ /\ calls[c].at = "read" /\ ~Opens(relay)
              /\ next("insert") /\ UNCHANGED <<store, log>>
           \/ /\ calls[c].at = "insert"
              /\ store' = [store EXCEPT !.secrets.relay = InsertIfAbsent(@, candidate)]
              /\ next("reread") /\ UNCHANGED log
           \/ /\ calls[c].at = "reread" /\ ~Opens(relay)
              /\ next("overwrite") /\ UNCHANGED <<store, log>>
           \/ /\ calls[c].at = "overwrite"
              /\ store' = [store EXCEPT !.secrets.relay = candidate]
              /\ log' = [log EXCEPT !.overwrites = @ + 1]
              /\ next("last")
    /\ UNCHANGED <<writeLock, ready, appSecret, troubles>>

---------------------------------------------------------------------------
\* A trail of a protected entry and a later one; the relay key is there or not yet made.
FirstEntries == {<<1, TRUE>>, <<2, FALSE>>}

StoreInit ==
    /\ \E relay \in {Empty, [key |-> 1, entered |-> MaxCalls + 1]} :
       store = [rows |-> [r \in {"schedule", "user", "config", "destination", "as_run"} |-> 0],
                secrets |-> [totp |-> [key |-> 1, entered |-> MaxCalls + 1], stream |-> Empty,
                             config |-> [key |-> 1, entered |-> MaxCalls + 1], relay |-> relay],
                audit |-> FirstEntries]
    /\ calls = [c \in Callers |-> Idle] /\ writeLock = Free
    /\ ready = [p \in Processes |-> "none"] /\ appSecret = 1
    /\ relayCache = [p \in Processes |-> 0]
    /\ log = [calls |-> 0, applied |-> [i \in Ids |-> 0], returned |-> [i \in Ids |-> "none"],
              audit |-> FirstEntries, overwrites |-> 0]
    /\ troubles = 0

CallStep(c) ==
    \/ AwaitDatabase(c) \/ Connect(c) \/ ConnectTimesOut(c) \/ TakeLock(c)
    \/ Compute(c) \/ SecondConnectionTimesOut(c) \/ Commit(c) \/ CommitAsRun(c)
    \/ RelayStep(c)

StoreNext ==
    \/ \E c \in Callers :
        \/ StartCall(c) \/ CallStep(c) \/ Deadlock(c)
        \/ \E committed \in BOOLEAN : LoseConnection(c, committed)
    \/ \E p \in Processes : BootSucceeds(p) \/ BootFails(p) \/ ContainerRestarts(p)
    \/ RotateSecret

StoreSpec == StoreInit /\ [][StoreNext]_storeVars

\* Timers fire and the database answers.
StoreFairness ==
    /\ \A c \in Callers : WF_storeVars(CallStep(c))
    /\ \A p \in Processes : WF_storeVars(BootSucceeds(p))

\* Types.
StoreTypeOK ==
    /\ \A c \in Callers : calls[c].step \in {"idle", "boot", "connect", "waits", "locked", "computed", "relay"}
    /\ writeLock \in Callers \cup {Free} /\ appSecret \in {1, 2}
    /\ writeLock # Free => calls[writeLock].step \in {"locked", "computed"}

---------------------------------------------------------------------------
(* Properties *)

Committing(c) == log'.applied # log.applied /\ calls[c].step \in {"waits", "computed"}
                   /\ log'.applied[calls[c].id] # log.applied[calls[c].id]

\* A whole-state write changes what its updater changes and nothing a save of somebody else has
\* committed, before or while it ran (db updateAppState, persistState).
WholeWritesKeepOthersSaves ==
    [][\A c \in Callers : calls[c] # Idle /\ Committing(c) /\ calls[c].op = "whole" =>
           /\ \A r \in DOMAIN store.rows \ {"schedule"} : store'.rows[r] = store.rows[r]
           /\ \A s \in DOMAIN store.secrets :
                 store.secrets[s] = Empty \/ store'.secrets[s].entered = store.secrets[s].entered]_store

\* A cipher no container can open (APP_SECRET was changed) stays as it is through every write but
\* the one that enters a new value and a save of a settings page, so that the old key brings it
\* back; and the relay key two containers have cached is the same one, unless two of them
\* replaced an unreadable one at the same time (db preservedTwoFactorSecret, persistState,
\* updateDestinationRecord, readRelayInternalKey).
SecretsSurvive ==
    [][/\ \A s \in {"totp", "stream", "config"} :
              store.secrets[s] # Empty /\ ~Opens(store.secrets[s]) /\ store'.secrets[s] # store.secrets[s] =>
                  \E c \in Callers : calls[c] # Idle /\ Committing(c) /\ calls[c].op \in {"config", "enter_key"}
       /\ \A p, q \in Processes : log'.overwrites < 2 /\ 0 \notin {relayCache'[p], relayCache'[q]}
                                      => relayCache'[p] = relayCache'[q]]_<<store, relayCache>>

\* Every write returns, also when every connection of the pool waits for the lock
\* (db connectionTimeoutMillis, ensureDatabase).
WritesReturn == \A c \in Callers : calls[c] # Idle ~> calls[c] = Idle

\* What has been saved stands, in the rows and in the secrets, and every save returns.
SavesStand == WholeWritesKeepOthersSaves /\ SecretsSurvive /\ WritesReturn

\* As above for the managed config, whoever writes: what the comment in persistState is afraid of.
UnreadableConfigSurvives ==
    [][store.secrets.config # Empty /\ ~Opens(store.secrets.config) =>
           store'.secrets.config = store.secrets.config]_store

\* Whatever fails, a call is applied once at most, and once if it said so; and the audit trail
\* holds the newest entries and the newest protected ones of all that were ever applied,
\* whichever of the two writers pruned it (db withSerializedStateWrite, appendAuditEvent, core
\* selectRetainedAuditEvents).
WritesAreOnRecord ==
    /\ \A i \in Ids : log.applied[i] <= 1 /\ (log.returned[i] = "ok" => log.applied[i] = 1)
    /\ store.audit = Newest(log.audit, GeneralKept) \cup Newest({e \in log.audit : e[2]}, ProtectedKept)
=============================================================================

------------------------------ MODULE VodCache ------------------------------
(***************************************************************************)
(* The local copies of Twitch archives: the playout's cycle looks an       *)
(* archive up, asks for its download and never waits for it; one job at a  *)
(* time downloads into a part that outlives the attempt, under a lock that *)
(* outlives the process; room is made before each download, and what has   *)
(* been watched is released at the item's end.                             *)
(*                                                                         *)
(* A download is Pieces long.  An attempt is cut (network, time limit) and *)
(* a process ends only once it has got a piece further: both may happen    *)
(* without bound.  Every other fault is counted.                           *)
(***************************************************************************)
EXTENDS Naturals, FiniteSets, SequencesExt

CONSTANTS Vods,
          Pieces,     \* the pieces of a download
          Cooldown,   \* failureCooldownMs
          StaleAfter, \* DEFAULT_LOCK_STALE_MS
          MaxMishaps  \* bound: refusals, evictions and restarts that come early

NoVod == "none"

ASSUME VodCacheAssumption ==
    /\ {Pieces, Cooldown, StaleAfter} \subseteq Nat \ {0} /\ MaxMishaps \in Nat
    /\ Vods # {} /\ IsFiniteSet(Vods) /\ NoVod \notin Vods

VARIABLES large,    \* the archives above maxAssetBytes
          disk,     \* per archive its part, its file and its lock
          columns,  \* per archive its cacheStatus, and the cooldown a failure has left
          jobs,     \* the runner's record of each archive
          waiting,  \* its queue
          job,      \* its one running job
          prepared, \* the archive the cycle resolves, and what it will write
          watched,  \* the archive on air
          mishaps

vodVars == <<large, disk, columns, jobs, waiting, job, prepared, watched, mishaps>>

Live == StaleAfter + 1      \* a lock just refreshed; 1 is a stale one, 0 none
NoStatus == ""
Settled == {"ready", "too-large"}
NoJob == [vod |-> NoVod, at |-> "idle", result |-> NoStatus, further |-> FALSE]
Asleep(v) == [vod |-> v, at |-> "asleep", status |-> NoStatus]
InOrder == SetToSeq(Vods)

NoRecord == [v \in Vods |-> [state |-> "none", cooling |-> 0]]

VodInit ==
    /\ large \in {{}, {InOrder[1]}}
    /\ disk = [v \in Vods |-> [part |-> 0, ready |-> FALSE, lock |-> 0]]
    /\ columns = [v \in Vods |-> [status |-> NoStatus, cooling |-> 0]]
    /\ jobs = NoRecord /\ waiting = <<>> /\ job = NoJob
    /\ prepared = Asleep(InOrder[1]) /\ watched = NoVod /\ mishaps = 0

Statuses == {NoStatus, "ready", "missing", "failed", "too-large"}
VodTypeOK ==
    /\ large \subseteq Vods /\ watched \in Vods \cup {NoVod} /\ mishaps \in 0..MaxMishaps
    /\ disk \in [Vods -> [part : 0..Pieces, ready : BOOLEAN, lock : 0..Live]]
    /\ columns \in [Vods -> [status : Statuses, cooling : 0..Cooldown]]
    /\ jobs \in [Vods -> [state : {"none", "queued", "running", "ready", "failed"}, cooling : 0..Cooldown]]
    /\ \A v \in Vods : jobs[v].state = "queued" <=> v \in ToSet(waiting)
    /\ job.at = "idle" <=> job.vod = NoVod

Mishap == mishaps < MaxMishaps /\ mishaps' = mishaps + 1

---------------------------------------------------------------------------
(* The cycle looks an archive up *)

Pending(v) == jobs[v].state \in {"queued", "running"}

\* Mutant: an archive whose job is already running is queued again.
MayQueueRunning(v) ==
    jobs[v].state # "queued" /\ ~(jobs[v].state = "failed" /\ jobs[v].cooling > 0)

\* VodCacheJobRunner.request
MayQueue(v) == ~Pending(v) /\ ~(jobs[v].state = "failed" /\ jobs[v].cooling > 0)

Following(v) == InOrder[1 + ((CHOOSE i \in 1..Len(InOrder) : InOrder[i] = v) % Len(InOrder))]

\* resolveAssetPlaybackInput, up to its write: an archive that cools down is passed over.
LookUp ==
    /\ prepared.at = "asleep"
    /\ LET v      == prepared.vod
           status == IF columns[v].status = "too-large" THEN "too-large"
                     ELSE IF disk[v].ready THEN "ready" ELSE "missing"
           asks   == status = "missing" /\ MayQueue(v)
       IN  IF columns[v].cooling > 0
           THEN prepared' = Asleep(Following(v)) /\ UNCHANGED <<jobs, waiting>>
           ELSE /\ prepared' = [vod |-> v, at |-> "write", status |-> status]
                /\ jobs' = IF asks THEN [jobs EXCEPT ![v] = [state |-> "queued", cooling |-> 0]] ELSE jobs
                /\ waiting' = IF asks THEN Append(waiting, v) ELSE waiting
    /\ UNCHANGED <<large, disk, columns, job, watched, mishaps>>

\* The end of an item that gives way to another: releaseWatchedVodCache.  It stays for a resume
\* point or a slot within the retention, which this leaves open; old parts go as well.
Released(finished, aged) ==
    [v \in Vods |-> [disk[v] EXCEPT !.ready = @ /\ v # finished,
                                    !.part = IF v \in aged /\ disk[v].lock < 2 THEN 0 ELSE @]]

\* It writes its columns; an archive that can play may take the air.
LookedUp ==
    /\ prepared.at = "write"
    /\ LET v == prepared.vod
       IN  /\ columns' = [columns EXCEPT ![v] = [status |-> prepared.status, cooling |-> 0]]
           /\ prepared' = Asleep(Following(v))
           /\ \/ UNCHANGED <<disk, watched, mishaps>>
              \/ /\ prepared.status \in Settled /\ watched # v /\ watched' = v
                 /\ \E finished \in {watched, NoVod}, aged \in SUBSET Vods :
                        /\ disk' = Released(finished, aged)
                        /\ IF aged = {} THEN UNCHANGED mishaps ELSE Mishap
    /\ UNCHANGED <<large, jobs, waiting, job>>

---------------------------------------------------------------------------
(* The job *)

JobGoes(to) == job' = [job EXCEPT !.at = to]

\* What the job's record says; the row is written after it.
Ends(result) ==
    /\ job' = [job EXCEPT !.at = "persist", !.result = result]
    /\ jobs' = [jobs EXCEPT ![job.vod] = IF result = "ready" THEN [state |-> "ready", cooling |-> 0]
                                         ELSE [state |-> "failed", cooling |-> Cooldown]]

Unlocked(d) == [d EXCEPT ![job.vod].lock = 0]

BeginJob ==
    /\ job.at = "idle" /\ waiting # <<>>
    /\ job' = [NoJob EXCEPT !.vod = Head(waiting), !.at = "lock"]
    /\ waiting' = Tail(waiting)
    /\ jobs' = [jobs EXCEPT ![Head(waiting)].state = "running"]
    /\ UNCHANGED <<large, disk, columns, prepared, watched, mishaps>>

\* acquireFileLock: a lock that was not refreshed in time is removed.
TakeVodLock ==
    /\ job.at = "lock"
    /\ IF disk[job.vod].ready THEN Ends("ready") /\ UNCHANGED disk
       ELSE IF disk[job.vod].lock > 1 THEN Ends("missing") /\ UNCHANGED disk
       ELSE JobGoes("probe") /\ disk' = [disk EXCEPT ![job.vod].lock = Live] /\ UNCHANGED jobs
    /\ UNCHANGED <<large, columns, waiting, prepared, watched, mishaps>>

\* probeTwitchVodSizeBytes: no answer is no reason not to download.
Probe ==
    /\ job.at = "probe"
    /\ \/ job.vod \in large /\ Ends("too-large") /\ disk' = Unlocked(disk) /\ UNCHANGED mishaps
       \/ job.vod \notin large /\ JobGoes("prune") /\ UNCHANGED <<disk, jobs, mishaps>>
       \/ job.vod \in large /\ Mishap /\ JobGoes("prune") /\ UNCHANGED <<disk, jobs>>
    /\ UNCHANGED <<large, columns, waiting, prepared, watched>>

\* pruneTwitchVodCache: parts and files of others by age, and for room, which takes lock files too.
Pruned(parts, files, locks) ==
    [v \in Vods |-> [part  |-> IF v \in parts /\ disk[v].lock < 2 THEN 0 ELSE disk[v].part,
                     ready |-> disk[v].ready /\ v \notin files,
                     lock  |-> IF v \in locks THEN 0 ELSE disk[v].lock]]

Prune ==
    /\ job.at = "prune"
    /\ \/ JobGoes("download") /\ UNCHANGED <<disk, jobs, mishaps>>
       \/ \E files \in SUBSET (Vods \ {job.vod}) :
              JobGoes("download") /\ disk' = Pruned({}, files, {}) /\ UNCHANGED <<jobs, mishaps>>
       \/ /\ Mishap
          /\ \E parts \in SUBSET Vods, files \in SUBSET (Vods \ {job.vod}), locks \in SUBSET Vods :
                 LET d == Pruned(parts, files, locks)
                 IN  \/ JobGoes("download") /\ disk' = d /\ UNCHANGED jobs
                     \/ Ends("failed") /\ disk' = Unlocked(d)
    /\ UNCHANGED <<large, columns, waiting, prepared, watched>>

\* An attempt goes on where the part ends.
Download ==
    /\ job.at = "download"
    /\ IF disk[job.vod].part < Pieces
       THEN disk' = [disk EXCEPT ![job.vod].part = @ + 1] /\ job' = [job EXCEPT !.further = TRUE]
       ELSE JobGoes("verify") /\ UNCHANGED disk
    /\ UNCHANGED <<large, columns, jobs, waiting, prepared, watched, mishaps>>

Cut(left) ==
    /\ job.at = "download"
    /\ IF job.further THEN UNCHANGED mishaps ELSE Mishap
    /\ Ends("failed") /\ disk' = [Unlocked(disk) EXCEPT ![job.vod].part = left]
    /\ UNCHANGED <<large, columns, waiting, prepared, watched>>

\* Mutant: the part of a cut attempt is removed, as the cycle's own downloads do.
DownloadCutRemoved == Cut(0)

\* Cut, the part stays for the next attempt.
DownloadCut == Cut(disk[job.vod].part)

Verify ==
    /\ job.at = "verify"
    /\ \/ Ends("ready") /\ UNCHANGED mishaps
          /\ disk' = [disk EXCEPT ![job.vod] = [part |-> 0, ready |-> TRUE, lock |-> 0]]
       \/ Mishap /\ Ends("failed") /\ disk' = Unlocked(disk)
    /\ UNCHANGED <<large, columns, waiting, prepared, watched>>

\* onResult; a row that cannot be written stays as it was.
Persist ==
    /\ job.at = "persist"
    /\ \/ columns' = [columns EXCEPT ![job.vod] =
              [status |-> job.result, cooling |-> IF job.result = "failed" THEN Cooldown ELSE 0]]
          /\ UNCHANGED mishaps
       \/ Mishap /\ UNCHANGED columns
    /\ job' = NoJob
    /\ UNCHANGED <<large, disk, jobs, waiting, prepared, watched>>

---------------------------------------------------------------------------

Down(n) == IF n = 0 THEN 0 ELSE n - 1

\* The lock of the running job is refreshed; one whose holder is gone ages.
Holding(v) == job.vod = v /\ job.at \in {"probe", "prune", "download", "verify"}
Aging(v) == disk[v].lock > 1 /\ ~Holding(v)

VodTime ==
    /\ \E v \in Vods : Aging(v) \/ columns[v].cooling > 0 \/ jobs[v].cooling > 0
    /\ disk' = [v \in Vods |-> [disk[v] EXCEPT !.lock = IF Aging(v) THEN @ - 1 ELSE @]]
    /\ columns' = [v \in Vods |-> [columns[v] EXCEPT !.cooling = Down(@)]]
    /\ jobs' = [v \in Vods |-> [jobs[v] EXCEPT !.cooling = Down(@)]]
    /\ UNCHANGED <<large, waiting, job, prepared, watched, mishaps>>

\* The playout's container restarts: the runner forgets, the disk and the rows do not.
PlayoutRestarts ==
    /\ IF job.further THEN UNCHANGED mishaps ELSE Mishap
    /\ jobs' = NoRecord /\ waiting' = <<>> /\ job' = NoJob
    /\ prepared' = Asleep(InOrder[1]) /\ watched' = NoVod
    /\ UNCHANGED <<large, disk, columns>>

JobStep == BeginJob \/ TakeVodLock \/ Probe \/ Prune \/ Download \/ DownloadCut \/ Verify \/ Persist

VodNext == LookUp \/ LookedUp \/ JobStep \/ VodTime \/ PlayoutRestarts

\* The cycle runs on, taking the archives in turn as their pool's rotation brings them up; the
\* one job goes on; time passes.
VodFairness == WF_vodVars(LookUp \/ LookedUp) /\ WF_vodVars(JobStep) /\ WF_vodVars(VodTime)

---------------------------------------------------------------------------

\* An archive whose download is asked for comes to be on disk, or is settled as one that is
\* streamed, however often its download is cut and the playout restarts.
DownloadsFinish == \A v \in Vods : Pending(v) ~> (disk[v].ready \/ columns[v].status = "too-large")
=============================================================================

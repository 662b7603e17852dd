---------------------------- MODULE SourceClaims ----------------------------
(***************************************************************************)
(* Scheduling and running one ingestion job per due source: the scheduler  *)
(* cron (app/workers/tasks.py, schedule_due_sources) takes claims in the   *)
(* database (app/ingestion/discovery.py) and dispatches them to the ARQ    *)
(* queue; workers execute ingest_source, one long transaction per run.     *)
(*                                                                         *)
(* The database is PostgreSQL at READ COMMITTED.  A row lock that matters  *)
(* is modelled where it is taken: a claim transaction holds FOR UPDATE on  *)
(* the sources it selected; a run holds, from its first flush to its end,  *)
(* the row lock of its job (the UPDATE to RUNNING) and a key-share lock on *)
(* its source (the foreign key of the source_runs row it inserts), which   *)
(* FOR UPDATE SKIP LOCKED skips and a plain UPDATE does not notice.        *)
(*                                                                         *)
(* Time is discrete.  A timestamp column is kept as its distance from now  *)
(* and saturates where no comparison of the code can tell further values   *)
(* apart, so the clock never has to stop; the attempt and failure counters *)
(* saturate in the same way.                                               *)
(***************************************************************************)
EXTENDS Integers, FiniteSets

CONSTANTS
  Sources, Jobs, Schedulers, Workers,
  NoJob,        \* claim_job_id IS NULL
  NoSource,     \* the source of a job row that does not exist yet
  Lease,        \* source_claim_lease_seconds
  JobTimeout,   \* worker_job_timeout_seconds
  QueuedStale,  \* job_queued_stale_after_seconds
  Interval,     \* crawl_frequency_minutes
  Multiplier,   \* BACKOFF_MULTIPLIER of the health a failure count gives
  FailCap,      \* failure count past which the health changes no more
  RetryDelay,   \* longest delay a retry is deferred by
  MaxTries,     \* worker_max_tries: ARQ's own limit per queue entry
  MaxAttempts,  \* ingestion_jobs.max_attempts
  ClaimLimit,   \* sources one scheduling pass may claim
  Managed       \* the sources an operator pauses or resumes in this instance

ASSUME WindowAssumption ==
  /\ Lease \in Nat \ {0} /\ JobTimeout \in Nat \ {0} /\ Lease >= JobTimeout
  /\ QueuedStale \in Nat /\ Interval \in Nat \ {0} /\ RetryDelay \in Nat
  /\ MaxTries \in Nat \ {0} /\ MaxAttempts \in Nat \ {0} /\ ClaimLimit \in Nat \ {0}
ASSUME BackoffAssumption ==
  /\ FailCap \in Nat
  /\ Multiplier \in [0 .. FailCap -> Nat \ {0}]
ASSUME NullAssumption == NoJob \notin Jobs /\ NoSource \notin Sources
ASSUME ManagedAssumption == Managed \subseteq Sources

VARIABLES
  source,  \* municipality_sources: eligibility, horizon, lease and health
  job,     \* ingestion_jobs, as committed
  queue,   \* ARQ: job j's k-th dispatch; k = 0 is the scheduler's
  run,     \* per worker slot: the ingest_source it executes
  sched    \* per process: the schedule_due_sources it executes

vars == <<source, job, queue, run, sched>>

-----------------------------------------------------------------------------
(* Rows                                                                    *)

Unleased == -2   \* claim_expires_at IS NULL
Expired  == -1   \* claim_expires_at < now; 0 is "expires now"

Live     == {"QUEUED", "RUNNING", "RETRYING"}
Terminal == {"COMPLETED", "FAILED", "CANCELLED"}
Dispatch == 0 .. MaxAttempts

SourceRow ==
  [active : BOOLEAN,                  \* active, unpaused, schedulable lifecycle
   next   : Nat,                      \* ticks until next_run_at; 0: due
   lease  : Unleased .. Lease,        \* ticks until claim_expires_at
   holder : Jobs \cup {NoJob},        \* claim_job_id
   fails  : 0 .. FailCap]             \* consecutive_failures

JobRow ==
  [status  : {"NONE"} \cup Live \cup Terminal,
   source  : Sources \cup {NoSource},
   overdue : -RetryDelay .. QueuedStale + 1,   \* now - scheduled_for
   attempt : 0 .. MaxAttempts]

QueueEntry ==
  [st    : {"absent", "waiting", "running", "done"},  \* "done": result kept
   try   : 0 .. MaxTries,                             \* ARQ job_try
   delay : Nat]                                       \* deferred by

\* What a run remembers of the rows it loaded, and for how long it has run.
RunState ==
  [pc       : {"idle", "loaded", "running"},
   job      : Jobs \cup {NoJob},
   dispatch : Dispatch,
   holder   : Jobs \cup {NoJob},
   leased   : BOOLEAN,
   fails    : 0 .. FailCap,
   attempt  : 0 .. MaxAttempts,
   elapsed  : 0 .. JobTimeout]

SchedState ==
  [pc     : {"idle", "claiming", "dispatching"},
   locked : SUBSET Sources,   \* rows the open transaction holds FOR UPDATE
   claims : SUBSET Jobs,      \* committed, not yet handed to the queue
   lost   : SUBSET Jobs]      \* whose enqueue failed

NewSource  == [active |-> TRUE, next |-> 0, lease |-> Unleased, holder |-> NoJob, fails |-> 0]
NoRow      == [status |-> "NONE", source |-> NoSource, overdue |-> 0, attempt |-> 0]
NoEntry    == [st |-> "absent", try |-> 0, delay |-> 0]
Dispatched == [st |-> "waiting", try |-> 0, delay |-> 0]
IdleRun    == [pc |-> "idle", job |-> NoJob, dispatch |-> 0, holder |-> NoJob,
               leased |-> FALSE, fails |-> 0, attempt |-> 0, elapsed |-> 0]
IdleSched  == [pc |-> "idle", locked |-> {}, claims |-> {}, lost |-> {}]

TypeOK ==
  /\ source \in [Sources -> SourceRow]
  /\ job    \in [Jobs -> JobRow]
  /\ queue  \in [Jobs -> [Dispatch -> QueueEntry]]
  /\ run    \in [Workers -> RunState]
  /\ sched  \in [Schedulers -> SchedState]

Init ==
  /\ source = [s \in Sources |-> NewSource]
  /\ job    = [j \in Jobs |-> NoRow]
  /\ queue  = [j \in Jobs |-> [k \in Dispatch |-> NoEntry]]
  /\ run    = [w \in Workers |-> IdleRun]
  /\ sched  = [p \in Schedulers |-> IdleSched]

-----------------------------------------------------------------------------
(* Derived state and row arithmetic                                        *)

Smaller(a, b) == IF a < b THEN a ELSE b
Larger(a, b)  == IF a > b THEN a ELSE b
Counted(n)    == Smaller(n, MaxAttempts)

FreshJobs == {j \in Jobs : job[j].status = "NONE"}

\* A claimer skips a row somebody locks: another claim transaction (or one
\* that is undoing claims), or the crawl of that source.
ClaimLocked(s) == \E p \in Schedulers : s \in sched[p].locked
BeingCrawled(s) ==
  \E w \in Workers : run[w].pc = "running" /\ job[run[w].job].source = s

JobLocked(j) == \E w \in Workers : run[w].pc = "running" /\ run[w].job = j

\* Mutant: the live lease is not looked at.
EligibleDespiteLease(row) == row.active /\ row.next = 0

Eligible(row) == row.active /\ row.next = 0 /\ row.lease <= 0

\* Mutants: FOR UPDATE without SKIP LOCKED semantics, for either kind of lock.
ClaimableDespiteClaim == {s \in Sources : Eligible(source[s]) /\ ~BeingCrawled(s)}
ClaimableDespiteCrawl == {s \in Sources : Eligible(source[s]) /\ ~ClaimLocked(s)}

Claimable == {s \in Sources : Eligible(source[s]) /\ ~ClaimLocked(s) /\ ~BeingCrawled(s)}

\* Crawl interval times health backoff.
Backoff(fails) == Interval * Multiplier[fails]

HoldsLease(row) == row.holder # NoJob => row.lease # Unleased  \* CHECK claim_has_lease

Claimed(row, j) ==
  [row EXCEPT !.next = Backoff(row.fails), !.lease = Lease, !.holder = j]

\* Mutant: the holder is forgotten, its lease stays behind.
UnclaimedKeepingLease(row) == [row EXCEPT !.holder = NoJob]

Unclaimed(row) == [row EXCEPT !.lease = Unleased, !.holder = NoJob]

-----------------------------------------------------------------------------
(* schedule_due_sources                                                    *)

\* SELECT ... FOR UPDATE SKIP LOCKED: lock what is due, up to the limit.  The
\* bound on the job rows a run may create is the size of Jobs.
SelectDue(p) ==
  /\ sched[p].pc = "idle"
  /\ \E due \in SUBSET Claimable :
       /\ due # {}
       /\ due = Claimable \/ Cardinality(due) = ClaimLimit
       /\ Cardinality(due) <= ClaimLimit
       /\ Cardinality(due) + Cardinality(UNION {sched[q].locked : q \in Schedulers})
            <= Cardinality(FreshJobs)
       /\ sched' = [sched EXCEPT ![p].pc = "claiming", ![p].locked = due]
  /\ UNCHANGED <<source, job, queue, run>>

\* One QUEUED job row per locked source, the claim on the source row, COMMIT.
CommitClaims(p) ==
  /\ sched[p].pc = "claiming"
  /\ \E to \in [sched[p].locked -> FreshJobs] :
       /\ \A s, t \in sched[p].locked : to[s] = to[t] => s = t
       /\ source' = [s \in Sources |->
            IF s \in sched[p].locked THEN Claimed(source[s], to[s]) ELSE source[s]]
       /\ job' = [j \in Jobs |->
            IF \E s \in sched[p].locked : to[s] = j
            THEN [status |-> "QUEUED", overdue |-> 0, attempt |-> 0,
                  source |-> CHOOSE s \in sched[p].locked : to[s] = j]
            ELSE job[j]]
       /\ sched' = [sched EXCEPT ![p] =
            [pc |-> "dispatching", locked |-> {}, lost |-> {},
             claims |-> {to[s] : s \in sched[p].locked}]]
  /\ UNCHANGED <<queue, run>>

\* queue.enqueue("ingest_source", ...) without a unique id: never a duplicate.
Enqueue(p, j) ==
  /\ j \in sched[p].claims
  /\ queue' = [queue EXCEPT ![j][0] = Dispatched]
  /\ sched' = [sched EXCEPT ![p].claims = @ \ {j}]
  /\ UNCHANGED <<source, job, run>>

\* The enqueue raised, before or after Redis had "taken" the entry: release_claim
\* is flushed, the job row set FAILED; both show with the pass's second commit.
EnqueueFails(p, j, taken) ==
  /\ j \in sched[p].claims
  /\ ~ClaimLocked(job[j].source)
  /\ queue' = IF taken THEN [queue EXCEPT ![j][0] = Dispatched] ELSE queue
  /\ sched' = [sched EXCEPT ![p].claims = @ \ {j},
                            ![p].lost   = @ \cup {j},
                            ![p].locked = @ \cup {job[j].source}]
  /\ UNCHANGED <<source, job, run>>

\* Mutant: the job is failed, the claim it took is not undone.
CommitDispatchKeepingClaims(p) ==
  /\ sched[p].pc = "dispatching" /\ sched[p].claims = {}
  /\ \A j \in sched[p].lost : ~JobLocked(j)
  /\ job' = [j \in Jobs |->
       IF j \in sched[p].lost THEN [job[j] EXCEPT !.status = "FAILED"] ELSE job[j]]
  /\ sched' = [sched EXCEPT ![p] = IdleSched]
  /\ UNCHANGED <<source, queue, run>>

CommitDispatch(p) ==
  /\ sched[p].pc = "dispatching" /\ sched[p].claims = {}
  /\ \A j \in sched[p].lost : ~JobLocked(j)
  /\ source' = [s \in Sources |->
       IF s \in sched[p].locked THEN Unclaimed(source[s]) ELSE source[s]]
  /\ job' = [j \in Jobs |->
       IF j \in sched[p].lost THEN [job[j] EXCEPT !.status = "FAILED"] ELSE job[j]]
  /\ sched' = [sched EXCEPT ![p] = IdleSched]
  /\ UNCHANGED <<queue, run>>

\* The process dies, or its transaction fails: what it had committed stays,
\* what it had only flushed is rolled back.
SchedulerCrash(p) ==
  /\ sched[p].pc # "idle"
  /\ sched' = [sched EXCEPT ![p] = IdleSched]
  /\ UNCHANGED <<source, job, queue, run>>

-----------------------------------------------------------------------------
(* ingest_source                                                           *)

Runnable(j, k) == queue[j][k].st = "waiting" /\ queue[j][k].delay = 0

\* ARQ keeps the result of an entry, and with it the entry's id.  The id of a
\* first dispatch is drawn at random, so keeping it refuses nobody.
Finished(k) ==
  IF k = 0 THEN NoEntry ELSE [st |-> "done", try |-> 0, delay |-> 0]

Deferred(entry, delay) == [entry EXCEPT !.st = "waiting", !.delay = delay]

\* ARQ hands the entry to a worker slot, which loads the source and the job.
\* Neither the job's status nor the source's eligibility is looked at.
Load(w, j, k) ==
  /\ run[w].pc = "idle"
  /\ Runnable(j, k) /\ queue[j][k].try < MaxTries
  /\ queue' = [queue EXCEPT ![j][k].st = "running", ![j][k].try = @ + 1]
  /\ LET row == source[job[j].source] IN
       run' = [run EXCEPT ![w] =
         [pc |-> "loaded", job |-> j, dispatch |-> k, elapsed |-> 0,
          holder |-> row.holder, leased |-> row.lease # Unleased,
          fails |-> row.fails, attempt |-> job[j].attempt]]
  /\ UNCHANGED <<source, job, sched>>

\* ARQ gives an entry up once it has been tried max_tries times.
DropEntry(j, k) ==
  /\ Runnable(j, k) /\ queue[j][k].try = MaxTries
  /\ queue' = [queue EXCEPT ![j][k] = Finished(k)]
  /\ UNCHANGED <<source, job, run, sched>>

\* The first flush: RUNNING and attempt + 1 stay inside the transaction, its
\* row locks do not.
Begin(w) ==
  /\ run[w].pc = "loaded"
  /\ ~JobLocked(run[w].job)
  /\ ~ClaimLocked(job[run[w].job].source)
  /\ run' = [run EXCEPT ![w].pc = "running"]
  /\ UNCHANGED <<source, job, queue, sched>>

\* _update_health and release_claim(reschedule=True) on the row the run loaded,
\* written over the row of now: the ORM writes the columns it changed.  The
\* horizon is counted from last_run_at, which _update_health has just set.
AfterRun(row, r, succeeded) ==
  LET fails    == IF succeeded THEN 0 ELSE Smaller(r.fails + 1, FailCap)
      judged   == [row EXCEPT !.fails = IF fails = r.fails THEN @ ELSE fails]
      released == [judged EXCEPT !.holder = IF r.holder = NoJob THEN @ ELSE NoJob,
                                 !.lease  = IF r.leased THEN Unleased ELSE @,
                                 !.next   = Backoff(fails)]
  IN  IF r.holder \in {NoJob, r.job} THEN released ELSE judged

\* The run of slot w commits: its source row becomes "row", its job row
\* "jobRow" and its queue entry "entry"; the slot is free again.
Commit(w, row, jobRow, entry) ==
  /\ ~ClaimLocked(job[run[w].job].source)
  /\ HoldsLease(row)
  /\ source' = [source EXCEPT ![job[run[w].job].source] = row]
  /\ job'    = [job EXCEPT ![run[w].job] = jobRow]
  /\ queue'  = [queue EXCEPT ![run[w].job][run[w].dispatch] = entry]
  /\ run'    = [run EXCEPT ![w] = IdleRun]
  /\ UNCHANGED sched

RowOf(w)   == source[job[run[w].job].source]
EntryOf(w) == queue[run[w].job][run[w].dispatch]

RunSucceeds(w) ==
  /\ run[w].pc = "running"
  /\ Commit(w, AfterRun(RowOf(w), run[w], TRUE),
            [job[run[w].job] EXCEPT
               !.status  = "COMPLETED",
               !.attempt = Counted(Larger(run[w].attempt + 1, EntryOf(w).try))],
            Finished(run[w].dispatch))

\* A transient failure with tries left: RETRYING, committed before ARQ's Retry
\* is raised; the delay is drawn with full jitter.
RunRetries(w, delay) ==
  /\ run[w].pc = "running" /\ EntryOf(w).try < MaxTries
  /\ Commit(w, AfterRun(RowOf(w), run[w], FALSE),
            [job[run[w].job] EXCEPT
               !.status = "RETRYING", !.overdue = -delay,
               !.attempt = Counted(run[w].attempt + 1)],
            Deferred(EntryOf(w), delay))

\* A permanent failure, or a transient one on the last try.
RunFails(w) ==
  /\ run[w].pc = "running"
  /\ Commit(w, AfterRun(RowOf(w), run[w], FALSE),
            [job[run[w].job] EXCEPT !.status = "FAILED", !.attempt = Counted(run[w].attempt + 1)],
            Finished(run[w].dispatch))

\* An exception escapes the pipeline: everything is rolled back, then rows read
\* afresh are marked: RETRYING with its old scheduled_for, and the claim freed
\* by its holder without a new horizon.
RunCrashes(w, delay) ==
  /\ run[w].pc = "running"
  /\ Commit(w, IF RowOf(w).holder \in {NoJob, run[w].job}
               THEN Unclaimed(RowOf(w)) ELSE RowOf(w),
            [job[run[w].job] EXCEPT !.status = "RETRYING"],
            Deferred(EntryOf(w), delay))

\* The run leaves no trace in the database; ARQ keeps or reschedules the entry.
Rollback(w, entry) ==
  /\ queue' = [queue EXCEPT ![run[w].job][run[w].dispatch] = entry]
  /\ run'   = [run EXCEPT ![w] = IdleRun]
  /\ UNCHANGED <<source, job, sched>>

\* An error outside the handler above, or inside it (the database is still
\* away, a deadlock, a refused CHECK): ARQ records a failed execution.
RunLost(w) ==
  /\ run[w].pc # "idle"
  /\ Rollback(w, Finished(run[w].dispatch))

\* ARQ cancels the task at its timeout and does not retry it.
RunTimesOut(w) ==
  /\ run[w].pc # "idle" /\ run[w].elapsed = JobTimeout
  /\ Rollback(w, Finished(run[w].dispatch))

\* The worker process stops: at once rerunnable after a graceful shutdown, after
\* the in-progress key has expired when it was killed.
WorkerDies(w, delay) ==
  /\ run[w].pc # "idle"
  /\ Rollback(w, Deferred(EntryOf(w), delay))

-----------------------------------------------------------------------------
(* The world around them                                                   *)

\* An operator activates, pauses or retires the source (set_lifecycle).
SetActive(s) ==
  /\ ~ClaimLocked(s)
  /\ source' = [source EXCEPT ![s].active = ~@]
  /\ UNCHANGED <<job, queue, run, sched>>

\* Redis is flushed, or a key expires: a waiting entry is gone.
QueueLoses(j, k) ==
  /\ queue[j][k].st = "waiting"
  /\ queue' = [queue EXCEPT ![j][k] = NoEntry]
  /\ UNCHANGED <<source, job, run, sched>>

\* Time passes for everybody at once.  A scheduling pass takes less than a tick,
\* and so does a run's start unless it waits for another run of its job; no
\* execution outlives ARQ's timeout.
\* Mutants: an expired lease does not stay expired; a horizon that moves along
\* with the clock.
AgedWithoutFloor(row) == [row EXCEPT !.next = Larger(@ - 1, 0), !.lease = @ - 1]
AgedLeaseOnly(row) == [row EXCEPT !.lease = IF @ > Expired THEN @ - 1 ELSE @]

Aged(row) ==
  [row EXCEPT !.next  = Larger(@ - 1, 0),
              !.lease = IF @ > Expired THEN @ - 1 ELSE @]

ClockTick ==
  /\ \A p \in Schedulers : sched[p].pc = "idle"
  /\ \A w \in Workers :
       /\ run[w].pc = "loaded" => JobLocked(run[w].job)
       /\ run[w].pc # "idle"  => run[w].elapsed < JobTimeout
  /\ source' = [s \in Sources |-> Aged(source[s])]
  /\ job' = [j \in Jobs |->
       IF j \in FreshJobs THEN job[j]
       ELSE [job[j] EXCEPT !.overdue = Smaller(@ + 1, QueuedStale + 1)]]
  /\ queue' = [j \in Jobs |-> [k \in Dispatch |->
       [queue[j][k] EXCEPT !.delay = Larger(@ - 1, 0)]]]
  /\ run' = [w \in Workers |->
       IF run[w].pc = "idle" THEN run[w] ELSE [run[w] EXCEPT !.elapsed = @ + 1]]
  /\ UNCHANGED sched

-----------------------------------------------------------------------------

SchedulerStep(p) ==
  \/ SelectDue(p)
  \/ CommitClaims(p)
  \/ \E j \in Jobs : Enqueue(p, j)
  \/ \E j \in Jobs, taken \in BOOLEAN : EnqueueFails(p, j, taken)
  \/ CommitDispatch(p)
  \/ SchedulerCrash(p)

WorkerStep(w) ==
  \/ \E j \in Jobs, k \in Dispatch : Load(w, j, k)
  \/ Begin(w)
  \/ RunSucceeds(w)
  \/ \E delay \in 0 .. RetryDelay : RunRetries(w, delay)
  \/ RunFails(w)
  \/ \E delay \in 0 .. RetryDelay : RunCrashes(w, delay)
  \/ RunLost(w)
  \/ RunTimesOut(w)
  \/ \E delay \in {0, JobTimeout} : WorkerDies(w, delay)

EnvironmentStep ==
  \/ \E s \in Managed : SetActive(s)
  \/ \E j \in Jobs, k \in Dispatch : QueueLoses(j, k)
  \/ \E j \in Jobs, k \in Dispatch : DropEntry(j, k)

Next ==
  \/ \E p \in Schedulers : SchedulerStep(p)
  \/ \E w \in Workers : WorkerStep(w)
  \/ EnvironmentStep
  \/ ClockTick

Spec == Init /\ [][Next]_vars

-----------------------------------------------------------------------------
(* Properties                                                              *)

\* Two schedulers never work on the same source: the sources a pass has locked
\* or has claimed and not yet dispatched are no other pass's, and stay so until
\* it is done with them, whatever runs of earlier claims release meanwhile.
InFlight(p) == sched[p].locked \cup {job[j].source : j \in sched[p].claims}

DisjointClaims ==
  \A p, q \in Schedulers : p # q => InFlight(p) \cap InFlight(q) = {}

\* A run's final write is never refused: no stale copy of a source makes it
\* drop the lease of a claim that has replaced its own and leave the holder,
\* which CHECK claim_has_lease forbids and which would lose the whole crawl.
RunIsNeverRefused ==
  \A w \in Workers, succeeded \in BOOLEAN :
    run[w].pc = "running" => HoldsLease(AfterRun(RowOf(w), run[w], succeeded))

\* A source never stays claimed by a job that has ended: whoever ends a job,
\* the run, the scheduler's clean-up or a repair, gives its claim back in the
\* same transaction, whatever stale copy of the source it started from.
ClaimHolderIsLive ==
  \A s \in Sources : source[s].holder # NoJob =>
    /\ job[source[s].holder].status \in Live
    /\ job[source[s].holder].source = s

\* Everything anybody works on exists: a queue entry, a run and a scheduler's
\* claim name a job row that is there, and a job row names its source.  A worker
\* that found no job row would make a second one (tasks.py, ingest_source).
RowsExist ==
  /\ \A j \in Jobs : job[j].status # "NONE" => job[j].source \in Sources
  /\ \A j \in Jobs, k \in Dispatch : queue[j][k].st # "absent" => job[j].status # "NONE"
  /\ \A w \in Workers :
       run[w].pc # "idle" => run[w].job \in Jobs /\ job[run[w].job].status # "NONE"
  /\ \A p \in Schedulers : \A j \in sched[p].claims \cup sched[p].lost :
       job[j].status # "NONE"

\* With schedulers and workers alone a lease and its holder come and go together.
LeaseHasHolder ==
  \A s \in Sources : source[s].lease # Unleased <=> source[s].holder # NoJob

\* A run whose job holds the claim read so when it loaded the source.
RunKnowsItsClaim ==
  \A w \in Workers : run[w].pc # "idle" =>
    /\ RowOf(w).holder = run[w].job => run[w].holder = run[w].job
    /\ run[w].leased <=> run[w].holder # NoJob

\* What a pass may rely on: the rows it claims are lapsed and not crawled, those
\* it has not dispatched yet are not due, and those it gives back are locked.
PassKnowsItsClaims ==
  \A p \in Schedulers :
    /\ sched[p].pc = "idle" => sched[p].locked = {}
    /\ sched[p].pc # "dispatching" => sched[p].claims = {} /\ sched[p].lost = {}
    /\ sched[p].pc = "claiming" =>
         \A s \in sched[p].locked : source[s].lease <= 0 /\ ~BeingCrawled(s)
    /\ \A j \in sched[p].claims : source[job[j].source].next > 0
    /\ \A j \in sched[p].lost : job[j].source \in sched[p].locked

\* The inductive invariant of the specification, next to TypeOK.
ClaimInv ==
  /\ RowsExist
  /\ LeaseHasHolder
  /\ ClaimHolderIsLive
  /\ RunKnowsItsClaim
  /\ PassKnowsItsClaims
  /\ DisjointClaims

\* A claim is never granted on a source that is being crawled at that moment,
\* however long ago the lease of that crawl ran out.
NeverClaimedMidCrawl ==
  [][\A s \in Sources :
       source[s]'.holder \notin {source[s].holder, NoJob} => ~BeingCrawled(s)]_vars

\* Claiming implements the lease it promises (ClaimLease): a grant needs a
\* lapsed lease, and a job is granted at most one source, once.
Leases == INSTANCE ClaimLease WITH
  holder  <- [s \in Sources |-> source[s].holder],
  lease   <- [s \in Sources |-> source[s].lease],
  granted <- Jobs \ FreshJobs

ImplementsClaimLease == Leases!Spec

\* A run that ends leaves the claim of another job alone (release_claim: "Only
\* the holder may release").
OnlyHolderReleases ==
  [][\A w \in Workers : LET s == job[run[w].job].source IN
       /\ run[w].pc = "running" /\ run[w]'.pc = "idle"
       /\ source[s].holder \notin {NoJob, run[w].job}
       => source'[s].holder = source[s].holder]_vars

\* A source whose enqueue failed is due again at once (claim_due_sources: the
\* caller "releases the claim so the next tick can try again").
FailedEnqueueIsDueAgain ==
  [][\A p \in Schedulers, s \in Sources :
       /\ s \in sched[p].locked /\ source[s].holder \in sched[p].lost
       /\ source[s]'.holder = NoJob
       => source[s]'.next = 0]_vars
=============================================================================

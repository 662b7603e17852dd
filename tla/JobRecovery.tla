----------------------------- MODULE JobRecovery -----------------------------
(***************************************************************************)
(* The reconciliation pass (app/services/job_recovery.py) beside the       *)
(* scheduler and the workers of SourceClaims.  A pass reads the stale rows *)
(* and, while it reads, pushes the re-dispatches to Redis; it writes what  *)
(* it decided at its end, over whatever the rows have become.  Passes run  *)
(* on a cron inside the worker and on demand from the API.                 *)
(*                                                                         *)
(* No transaction of the program commits a RUNNING job or source_run: a    *)
(* run is one transaction that ends with another status.  The two repairs  *)
(* of RUNNING rows select nothing the program writes and are left out.     *)
(***************************************************************************)
EXTENDS SourceClaims

CONSTANTS Reconcilers,  \* the processes that may be running a pass
          Reenqueue     \* reconcile_reenqueue

ASSUME ReenqueueAssumption == Reenqueue \in BOOLEAN

VARIABLE pass  \* per reconciler: what its open transaction is going to write

recoveryVars == <<source, job, queue, run, sched, pass>>

PassState ==
  [pc      : {"idle", "decided"},
   requeue : SUBSET Jobs,       \* -> RETRYING, dispatched again
   fail    : SUBSET Jobs,       \* -> FAILED
   cancel  : SUBSET Jobs,       \* -> CANCELLED, whatever the above say
   attempt : [Jobs -> 0 .. MaxAttempts],     \* the attempt written for a requeued job
   renew   : SUBSET Sources,    \* lease asserted again for a requeued holder
   free    : SUBSET Sources,    \* claim released with its failed holder
   clear   : SUBSET Sources,    \* expired lease of no live job dropped
   forget  : SUBSET Sources,    \* claim_job_id is set to NULL
   fails   : [Sources -> 0 .. FailCap],  \* failure count written when freed
   age     : 0 .. JobTimeout]   \* ticks since the pass read its clock

IdlePass ==
  [pc |-> "idle", requeue |-> {}, fail |-> {}, cancel |-> {},
   attempt |-> [j \in Jobs |-> 0], renew |-> {}, free |-> {}, clear |-> {},
   forget |-> {}, fails |-> [s \in Sources |-> 0], age |-> 0]

RecoveryTypeOK == TypeOK /\ pass \in [Reconcilers -> PassState]

RecoveryInit == Init /\ pass = [r \in Reconcilers |-> IdlePass]

-----------------------------------------------------------------------------
(* What a pass finds                                                       *)

\* QUEUED since, or RETRYING due since, longer than the window.
\* Mutant: a retry whose execution is gone is not looked for.
StuckQueued == {j \in Jobs : job[j].status = "QUEUED" /\ job[j].overdue > QueuedStale}

Stuck == {j \in Jobs : job[j].status \in {"QUEUED", "RETRYING"}
                       /\ job[j].overdue > QueuedStale}

Exhausted(j) == job[j].attempt >= MaxAttempts

Redispatchable == {j \in Stuck : Reenqueue /\ ~Exhausted(j)}

\* The unique id of the re-dispatch; ARQ refuses an id it still knows.
NextDispatch(j) == job[j].attempt + 1
Accepted(j) == queue[j][NextDispatch(j)].st = "absent"

Held(s, jobs) == source[s].holder \in jobs

ExpiredLeases == {s \in Sources :
  /\ source[s].active
  /\ source[s].lease = Expired
  /\ source[s].holder = NoJob \/ job[source[s].holder].status \notin Live}

\* The live jobs of a claimed source other than its holder, once "ended" have
\* been written out as no longer live.  A lease cleared a moment ago is NULL in
\* the session, and every job differs from NULL.
Duplicates(freed, cleared, ended) == {j \in Jobs \ ended :
  \E s \in Sources \ freed :
    /\ source[s].active /\ source[s].holder # NoJob
    /\ job[j].status \in Live /\ job[j].source = s
    /\ s \in cleared \/ j # source[s].holder}

-----------------------------------------------------------------------------
(* The pass                                                                *)

\* The plan of a pass that "reached" the queue for some jobs.  Failing a holder
\* flushes the session (release_claim), so the jobs failed up to then, "ended",
\* are seen as FAILED by the query for duplicates.
Plan(reached, ended) ==
  LET fail    == Stuck \ Redispatchable
      requeue == {j \in reached : Accepted(j)}
      free    == {s \in Sources : Held(s, fail)}
  IN  [pc |-> "decided", requeue |-> requeue, fail |-> fail,
       cancel  |-> Duplicates(free, ExpiredLeases, ended),
       attempt |-> [j \in Jobs |-> IF j \in requeue THEN NextDispatch(j) ELSE 0],
       renew   |-> {s \in Sources : Held(s, requeue)},
       free    |-> free,
       clear   |-> ExpiredLeases,
       forget  |-> free \cup {s \in ExpiredLeases : source[s].holder # NoJob},
       fails   |-> [s \in Sources |->
                      IF s \in free THEN Smaller(source[s].fails + 1, FailCap) ELSE 0],
       age     |-> 0]

\* The jobs failed before the last flush: every failed holder, and any others.
EndedBeforeQuery(ended) ==
  LET fail    == Stuck \ Redispatchable
      holders == {j \in fail : \E s \in Sources : source[s].holder = j}
  IN  /\ holders \subseteq ended /\ ended \subseteq fail
      /\ holders = {} => ended = {}

Redispatched(jobs) ==
  [j \in Jobs |-> IF j \in jobs /\ Accepted(j)
                  THEN [queue[j] EXCEPT ![NextDispatch(j)] = Dispatched]
                  ELSE queue[j]]

Reconcile(r, reached) ==
  /\ pass[r].pc = "idle"
  /\ Stuck \cup ExpiredLeases # {} \/ Duplicates({}, {}, {}) # {}
  /\ \E ended \in SUBSET Stuck :
       /\ EndedBeforeQuery(ended)
       /\ pass' = [pass EXCEPT ![r] = Plan(reached, ended)]
  /\ queue' = Redispatched(reached)
  /\ UNCHANGED <<source, job, run, sched>>

\* dry_run: the same pass, rolled back at its end.
DryRun(r, reached) ==
  /\ pass[r].pc = "idle"
  /\ queue' = Redispatched(reached)
  /\ UNCHANGED <<source, job, run, sched, pass>>

\* Mutants: the claim of a failed holder is kept; the lease is renewed from the
\* wrong end of the pass; the renewal asserts the holder with the lease.
RepairedKeepingHolder(row, p, s) ==
  [row EXCEPT !.lease = IF s \in p.renew THEN Lease - p.age ELSE @]
RepairedFromEnd(row, p, s) ==
  [row EXCEPT !.holder = IF s \in p.forget THEN NoJob ELSE @,
              !.lease  = IF s \in p.free \cup p.clear THEN Unleased
                         ELSE IF s \in p.renew THEN Lease + p.age ELSE @]
RepairedAssertingHolder(row, p, s) ==
  [row EXCEPT !.holder = IF s \in p.forget THEN NoJob
                         ELSE IF s \in p.renew
                              THEN CHOOSE j \in p.requeue : job[j].source = s ELSE @,
              !.lease  = IF s \in p.free \cup p.clear THEN Unleased
                         ELSE IF s \in p.renew THEN Lease - p.age ELSE @]

RepairedSource(row, p, s) ==
  [row EXCEPT
     !.holder = IF s \in p.forget THEN NoJob ELSE @,
     !.lease  = IF s \in p.free \cup p.clear THEN Unleased
                ELSE IF s \in p.renew THEN Lease - p.age ELSE @,
     !.next   = IF s \in p.free \cup p.clear THEN 0 ELSE @,
     !.fails  = IF s \in p.free THEN p.fails[s] ELSE @]

RepairedJob(row, p, j) ==
  [row EXCEPT
     !.status  = IF j \in p.cancel THEN "CANCELLED"
                 ELSE IF j \in p.fail THEN "FAILED"
                 ELSE IF j \in p.requeue THEN "RETRYING" ELSE @,
     !.attempt = IF j \in p.requeue THEN p.attempt[j] ELSE @,
     !.overdue = IF j \in p.requeue THEN Smaller(p.age, QueuedStale + 1) ELSE @]

Written(p) == p.requeue \cup p.fail \cup p.cancel

\* A job row a run has updated makes the pass wait for that run.
Blocked(p) == \E j \in Written(p) : JobLocked(j)

CommitPass(r) ==
  /\ pass[r].pc = "decided" /\ ~Blocked(pass[r])
  /\ \A s \in pass[r].renew \cup pass[r].free \cup pass[r].clear : ~ClaimLocked(s)
  /\ source' = [s \in Sources |-> RepairedSource(source[s], pass[r], s)]
  /\ \A s \in Sources : HoldsLease(source[s]')
  /\ job'  = [j \in Jobs |-> RepairedJob(job[j], pass[r], j)]
  /\ pass' = [pass EXCEPT ![r] = IdlePass]
  /\ UNCHANGED <<queue, run, sched>>

\* The process dies, the transaction is a deadlock's victim or violates the
\* CHECK: nothing is written, and what was pushed to Redis stays there.
AbortPass(r) ==
  /\ pass[r].pc = "decided"
  /\ pass' = [pass EXCEPT ![r] = IdlePass]
  /\ UNCHANGED <<source, job, queue, run, sched>>

\* keep_result has passed: the id of a re-dispatch that is over is free again.
ResultExpires(j, k) ==
  /\ queue[j][k].st = "done"
  /\ queue' = [queue EXCEPT ![j][k] = NoEntry]
  /\ UNCHANGED <<source, job, run, sched, pass>>

\* Only a wait for a run makes a pass last as long as a tick.
RecoveryTick ==
  /\ \A r \in Reconcilers : pass[r].pc = "decided" => Blocked(pass[r])
  /\ ClockTick
  /\ pass' = [r \in Reconcilers |->
       IF pass[r].pc = "idle" THEN pass[r]
       ELSE [pass[r] EXCEPT !.age = Smaller(@ + 1, JobTimeout)]]

-----------------------------------------------------------------------------

RecoveryStep(r) ==
  \/ \E reached \in SUBSET Redispatchable : Reconcile(r, reached)
  \/ \E reached \in SUBSET Redispatchable : DryRun(r, reached)
  \/ CommitPass(r)
  \/ AbortPass(r)

RecoveryNext ==
  \/ \E p \in Schedulers : SchedulerStep(p) /\ UNCHANGED pass
  \/ \E w \in Workers : WorkerStep(w) /\ UNCHANGED pass
  \/ EnvironmentStep /\ UNCHANGED pass
  \/ \E j \in Jobs, k \in Dispatch : ResultExpires(j, k)
  \/ \E r \in Reconcilers : RecoveryStep(r)
  \/ RecoveryTick

RecoverySpec == RecoveryInit /\ [][RecoveryNext]_recoveryVars

\* Time passes, started work goes on unless it fails, a free worker slot polls
\* the queue, ARQ enforces its limits, and the reconciliation cron fires and,
\* sooner or later, gets through.  Nothing is asked of crawls, crashes, the
\* scheduler's cron or operators.
PassGoesOn(p) == CommitClaims(p) \/ (\E j \in Jobs : Enqueue(p, j)) \/ CommitDispatch(p)

RecoveryFairness ==
  /\ SF_recoveryVars(RecoveryTick)
  /\ \A p \in Schedulers : WF_recoveryVars(PassGoesOn(p) /\ UNCHANGED pass)
  /\ \A w \in Workers :
       /\ WF_recoveryVars(Begin(w) /\ UNCHANGED pass)
       /\ WF_recoveryVars(RunTimesOut(w) /\ UNCHANGED pass)
  /\ \A j \in Jobs, k \in Dispatch :
       /\ SF_recoveryVars((\E w \in Workers : Load(w, j, k)) /\ UNCHANGED pass)
       /\ WF_recoveryVars(DropEntry(j, k) /\ UNCHANGED pass)
       /\ WF_recoveryVars(ResultExpires(j, k))
  /\ \A r \in Reconcilers :
       /\ SF_recoveryVars(Reconcile(r, Redispatchable))
       /\ WF_recoveryVars(CommitPass(r))
       /\ \A j \in Jobs : SF_recoveryVars(CommitPass(r) /\ j \in Written(pass[r]))

DryRunsEnd ==
  <>[][\A r \in Reconcilers, reached \in SUBSET Redispatchable : ~DryRun(r, reached)]_recoveryVars

FairRecoverySpec == RecoverySpec /\ RecoveryFairness /\ DryRunsEnd

-----------------------------------------------------------------------------
(* Properties                                                              *)

\* The promise of ClaimLease survives the repairs: a pass extends, drops or
\* forgets claims, it never grants one, whatever has changed since it read.
RecoveryImplementsClaimLease == Leases!Spec

\* No claim lands on a source in the middle of a crawl, not even when a pass
\* has meanwhile dropped the claim that crawl was started for.
RecoveryNeverClaimsMidCrawl ==
  [][\A s \in Sources :
       source[s]'.holder \notin {source[s].holder, NoJob} => ~BeingCrawled(s)]_recoveryVars

\* Every job comes to an end: whatever dies, is dropped by Redis, or is decided
\* by a pass that never commits, no job stays QUEUED or RETRYING for ever.
JobsSettle ==
  \A j \in Jobs : job[j].status \in Live ~> job[j].status \in Terminal

\* A source always becomes due again: no crash, lost run, stale repair or
\* renewed lease keeps it out of the schedule for good.
SourceComesDue == \A s \in Sources : []<>(Eligible(source[s]) \/ ~source[s].active)

\* A dry run writes nothing (operations.py: "dry_run=true writes nothing").
DryRunWritesNothing ==
  [][\A r \in Reconcilers, reached \in SUBSET Jobs :
       DryRun(r, reached) => UNCHANGED queue]_recoveryVars

\* A pass leaves a job alone that a worker is executing within its timeout
\* (job_recovery.py: "Never fight a live worker").
NeverFightsLiveWorker ==
  [][\A r \in Reconcilers, j \in Jobs :
       pass[r].pc = "idle" /\ j \in Written(pass[r])' => ~JobLocked(j)]_recoveryVars
=============================================================================

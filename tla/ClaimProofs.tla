----------------------------- MODULE ClaimProofs -----------------------------
(***************************************************************************)
(* Theorems about SourceClaims and JobRecovery, for every number of        *)
(* sources, jobs, schedulers, workers and reconcilers and every value of   *)
(* the windows.                                                            *)
(*                                                                         *)
(* First SourceClaims alone: typing and the existence of rows, and then    *)
(* the claim invariant and what follows from it.  Then JobRecovery.        *)
(* Beside a pass the claim invariant is lost: a stale renewal leaves a     *)
(* lease without a holder, and a run may know a claim that is no longer    *)
(* its own.  What is left, and is enough, is RecoveryInv: transactions     *)
(* that claim are alone with lapsed, uncrawled rows; a run whose job holds *)
(* the claim loaded it so; and a pass that will end a holder will free its *)
(* source.                                                                 *)
(***************************************************************************)
EXTENDS JobRecovery, TLAPS

-----------------------------------------------------------------------------
(* Operators on rows                                                       *)

\* Every crawl interval is at least a tick, whatever the health.
LEMMA BackoffPositive == \A f \in 0 .. FailCap : Backoff(f) \in Nat \ {0}
<1>1. \A a, b \in Nat \ {0} : a * b \in Nat \ {0}
  OBVIOUS
<1> QED
  BY <1>1, WindowAssumption, BackoffAssumption DEF Backoff

\* The values a lease column takes, and what a tick makes of them.
LEMMA LeaseValues ==
  /\ Lease \in Unleased .. Lease /\ Unleased \in Unleased .. Lease
  /\ \A l \in Unleased .. Lease : (IF l > Expired THEN l - 1 ELSE l) \in Unleased .. Lease
BY WindowAssumption DEF Unleased, Expired

\* A claimed, a released and an aged row are rows again.
LEMMA RowsStayRows ==
  ASSUME NEW row \in SourceRow
  PROVE  /\ \A j \in Jobs : Claimed(row, j) \in SourceRow
         /\ Unclaimed(row) \in SourceRow
         /\ Aged(row) \in SourceRow
<1>1. \A h \in Jobs \cup {NoJob}, l \in Unleased .. Lease, n \in Nat :
        /\ [row EXCEPT !.next = n, !.lease = l, !.holder = h] \in SourceRow
        /\ [row EXCEPT !.lease = l, !.holder = h] \in SourceRow
        /\ [row EXCEPT !.next = n, !.lease = l] \in SourceRow
  BY DEF SourceRow
<1>2. /\ Backoff(row.fails) \in Nat
      /\ Larger(row.next - 1, 0) \in Nat
      /\ row.lease \in Unleased .. Lease
  BY BackoffPositive DEF SourceRow, Larger
<1> QED
  BY <1>1, <1>2, LeaseValues DEF Claimed, Unclaimed, Aged

\* What a finished run writes over a row is a row.
LEMMA AfterRunIsRow ==
  ASSUME NEW row \in SourceRow, NEW r \in RunState, NEW succeeded \in BOOLEAN
  PROVE  AfterRun(row, r, succeeded) \in SourceRow
<1> DEFINE fails == IF succeeded THEN 0 ELSE Smaller(r.fails + 1, FailCap)
<1>1. fails \in 0 .. FailCap
  BY BackoffAssumption DEF RunState, Smaller
<1>2. Backoff(fails) \in Nat
  BY <1>1, BackoffPositive
<1> DEFINE judged == [row EXCEPT !.fails = IF fails = r.fails THEN @ ELSE fails]
<1>3. judged \in SourceRow
  BY <1>1 DEF SourceRow
<1>4. \A h \in Jobs \cup {NoJob}, l \in Unleased .. Lease, n \in Nat :
        [judged EXCEPT !.holder = h, !.lease = l, !.next = n] \in SourceRow
  BY <1>3 DEF SourceRow
<1>5. Unleased \in Unleased .. Lease
  BY WindowAssumption DEF Unleased
<1> QED
  BY <1>2, <1>3, <1>4, <1>5 DEF AfterRun, SourceRow

\* Entries as ARQ rewrites them, and the rows a fresh start is made of.
LEMMA EntriesStayEntries ==
  /\ \A k \in Dispatch : Finished(k) \in QueueEntry
  /\ \A e \in QueueEntry, delay \in Nat : Deferred(e, delay) \in QueueEntry
  /\ Dispatched \in QueueEntry /\ NoEntry \in QueueEntry
  /\ IdleRun \in RunState /\ IdleSched \in SchedState
<1>1. 0 \in 0 .. MaxTries /\ 0 \in Dispatch /\ 0 \in 0 .. FailCap
      /\ 0 \in 0 .. MaxAttempts /\ 0 \in 0 .. JobTimeout
  BY WindowAssumption, BackoffAssumption DEF Dispatch
<1> QED
  BY <1>1 DEF Finished, Deferred, Dispatched, NoEntry, QueueEntry, IdleRun, RunState,
              IdleSched, SchedState

\* A slot that executes something executes a row, of a source, from an entry.
LEMMA RunFacts ==
  ASSUME TypeOK, RowsExist, NEW w \in Workers, run[w].pc # "idle"
  PROVE  /\ run[w] \in RunState /\ run[w].job \in Jobs /\ run[w].dispatch \in Dispatch
         /\ job[run[w].job] \in JobRow /\ job[run[w].job].status # "NONE"
         /\ job[run[w].job].source \in Sources
         /\ RowOf(w) \in SourceRow /\ EntryOf(w) \in QueueEntry
<1>1. run[w] \in RunState
  BY DEF TypeOK
<1>2. run[w].dispatch \in Dispatch
  BY <1>1 DEF RunState
<1>3. run[w].job \in Jobs /\ job[run[w].job].status # "NONE"
  BY DEF RowsExist
<1>4. job[run[w].job].source \in Sources
  BY <1>3 DEF RowsExist
<1> QED
  BY <1>1, <1>2, <1>3, <1>4 DEF TypeOK, RowOf, EntryOf

-----------------------------------------------------------------------------
(* Type correctness                                                        *)

TypedRows == TypeOK /\ RowsExist

\* The initial rows are typed and every reference names something that exists.
LEMMA InitTyped == Init => TypedRows
<1> SUFFICES ASSUME Init PROVE TypedRows
  OBVIOUS
<1>1. NewSource \in SourceRow
  BY WindowAssumption, BackoffAssumption DEF NewSource, SourceRow, Unleased
<1>2. NoRow \in JobRow
  <2>1. 0 \in -RetryDelay .. QueuedStale + 1 /\ 0 \in 0 .. MaxAttempts
    BY WindowAssumption
  <2> QED
    BY <2>1 DEF NoRow, JobRow
<1>3. TypeOK
  BY <1>1, <1>2, EntriesStayEntries DEF Init, TypeOK
<1>4. RowsExist
  BY DEF Init, RowsExist, NoRow, NoEntry, IdleRun, IdleSched
<1> QED
  BY <1>3, <1>4 DEF TypedRows

\* The scheduler's steps.
LEMMA SchedulerTyped ==
  ASSUME TypedRows, NEW p \in Schedulers, SchedulerStep(p)
  PROVE  TypedRows'
<1> USE DEF TypedRows
<1>1. CASE SelectDue(p)
  <2>1. PICK due \in SUBSET Claimable :
          sched' = [sched EXCEPT ![p].pc = "claiming", ![p].locked = due]
    BY <1>1 DEF SelectDue
  <2>2. due \subseteq Sources
    BY DEF Claimable
  <2>3. sched' \in [Schedulers -> SchedState]
    BY <2>1, <2>2 DEF TypeOK, SchedState
  <2>4. \A q \in Schedulers : sched'[q].claims = sched[q].claims /\ sched'[q].lost = sched[q].lost
    BY <2>1 DEF TypeOK, SchedState
  <2> QED
    BY <1>1, <2>3, <2>4 DEF SelectDue, TypeOK, RowsExist
<1>2. CASE CommitClaims(p)
  <2> DEFINE locked == sched[p].locked
  <2>1. PICK to \in [locked -> FreshJobs] :
          /\ source' = [s \in Sources |-> IF s \in locked THEN Claimed(source[s], to[s])
                                          ELSE source[s]]
          /\ job' = [j \in Jobs |->
               IF \E s \in locked : to[s] = j
               THEN [status |-> "QUEUED", overdue |-> 0, attempt |-> 0,
                     source |-> CHOOSE s \in locked : to[s] = j]
               ELSE job[j]]
          /\ sched' = [sched EXCEPT ![p] = [pc |-> "dispatching", locked |-> {}, lost |-> {},
                                            claims |-> {to[s] : s \in locked}]]
    BY <1>2 DEF CommitClaims
  <2>2. locked \subseteq Sources
    BY DEF TypeOK, SchedState
  <2>3. \A s \in locked : to[s] \in Jobs /\ job[to[s]].status = "NONE"
    BY <2>1 DEF FreshJobs
  <2>4. source' \in [Sources -> SourceRow]
    BY <2>1, <2>2, <2>3, RowsStayRows DEF TypeOK
  <2>5. \A j \in Jobs : job'[j] = job[j] \/
          /\ job'[j] \in JobRow /\ job'[j].status = "QUEUED" /\ job'[j].source \in Sources
    <3> SUFFICES ASSUME NEW j \in Jobs, NEW s \in locked, to[s] = j
                 PROVE  /\ job'[j] \in JobRow /\ job'[j].status = "QUEUED"
                        /\ job'[j].source \in Sources
      BY <2>1
    <3>1. (CHOOSE t \in locked : to[t] = j) \in Sources
      BY <2>2
    <3>2. 0 \in -RetryDelay .. QueuedStale + 1 /\ 0 \in 0 .. MaxAttempts
      BY WindowAssumption
    <3>3. job'[j] = [status |-> "QUEUED", overdue |-> 0, attempt |-> 0,
                     source |-> CHOOSE t \in locked : to[t] = j]
      BY <2>1
    <3> QED
      BY <3>1, <3>2, <3>3 DEF JobRow, Live
  <2>6. job' \in [Jobs -> JobRow]
    BY <2>1, <2>5 DEF TypeOK
  <2>7. sched' \in [Schedulers -> SchedState]
    BY <2>1, <2>3 DEF TypeOK, SchedState
  <2>8. TypeOK'
    BY <1>2, <2>4, <2>6, <2>7 DEF CommitClaims, TypeOK
  <2>9. \A j \in Jobs : job[j].status # "NONE" => job'[j].status # "NONE"
    BY <2>5
  <2>10. \A j \in {to[s] : s \in locked} : job'[j].status # "NONE"
    BY <2>1, <2>3
  <2>11. \A q \in Schedulers : \A j \in sched'[q].claims \cup sched'[q].lost :
           job'[j].status # "NONE"
    <3> SUFFICES ASSUME NEW q \in Schedulers, NEW j \in sched'[q].claims \cup sched'[q].lost
                 PROVE  job'[j].status # "NONE"
      OBVIOUS
    <3>1. CASE q = p
      BY <2>1, <2>10, <3>1 DEF TypeOK
    <3>2. CASE q # p
      <4>1. j \in sched[q].claims \cup sched[q].lost
        BY <2>1, <3>2
      <4>2. j \in Jobs
        BY <4>1 DEF TypeOK, SchedState
      <4> QED
        BY <2>9, <4>1, <4>2 DEF RowsExist
    <3> QED
      BY <3>1, <3>2
  <2> QED
    BY <1>2, <2>5, <2>8, <2>9, <2>11 DEF CommitClaims, RowsExist, TypeOK
<1>3. ASSUME NEW j \in Jobs, Enqueue(p, j)
      PROVE  TypedRows'
  <2>1. 0 \in Dispatch
    BY WindowAssumption DEF Dispatch
  <2>2. queue' \in [Jobs -> [Dispatch -> QueueEntry]]
    BY <1>3, EntriesStayEntries DEF Enqueue, TypeOK
  <2>3. sched' \in [Schedulers -> SchedState]
    BY <1>3 DEF Enqueue, TypeOK, SchedState
  <2>4. \A q \in Schedulers : /\ sched'[q].claims \subseteq sched[q].claims
                              /\ sched'[q].lost = sched[q].lost
    BY <1>3 DEF Enqueue, TypeOK, SchedState
  <2>5. \A i \in Jobs, k \in Dispatch :
          queue'[i][k].st # "absent" => queue[i][k].st # "absent" \/ i = j
    BY <1>3, <2>1 DEF Enqueue, TypeOK
  <2>6. job[j].status # "NONE"
    BY <1>3 DEF Enqueue, RowsExist
  <2> QED
    BY <1>3, <2>2, <2>3, <2>4, <2>5, <2>6 DEF Enqueue, TypeOK, RowsExist
<1>4. ASSUME NEW j \in Jobs, NEW taken \in BOOLEAN, EnqueueFails(p, j, taken)
      PROVE  TypedRows'
  <2>1. 0 \in Dispatch
    BY WindowAssumption DEF Dispatch
  <2>2. queue' \in [Jobs -> [Dispatch -> QueueEntry]]
    BY <1>4, EntriesStayEntries DEF EnqueueFails, TypeOK
  <2>3. job[j].status # "NONE" /\ job[j].source \in Sources
    BY <1>4 DEF EnqueueFails, RowsExist
  <2> DEFINE after == [sched[p] EXCEPT !.claims = @ \ {j}, !.lost = @ \cup {j},
                                      !.locked = @ \cup {job[j].source}]
  <2>4. sched' \in [Schedulers -> SchedState]
    <3>1. after \in SchedState
      BY <2>3 DEF TypeOK, SchedState
    <3>2. sched' = [sched EXCEPT ![p] = after]
      BY <1>4 DEF EnqueueFails, TypeOK, SchedState
    <3> QED
      BY <3>1, <3>2 DEF TypeOK
  <2>5. \A q \in Schedulers : sched'[q].claims \cup sched'[q].lost
                                \subseteq sched[q].claims \cup sched[q].lost
    BY <1>4 DEF EnqueueFails, TypeOK, SchedState
  <2>6. \A i \in Jobs, k \in Dispatch :
          queue'[i][k].st # "absent" => queue[i][k].st # "absent" \/ i = j
    BY <1>4, <2>1 DEF EnqueueFails, TypeOK
  <2> QED
    BY <1>4, <2>2, <2>3, <2>4, <2>5, <2>6 DEF EnqueueFails, TypeOK, RowsExist
<1>5. CASE CommitDispatch(p)
  <2>1. source' \in [Sources -> SourceRow]
    BY <1>5, RowsStayRows DEF CommitDispatch, TypeOK
  <2>2. \A j \in Jobs : /\ job'[j] \in JobRow /\ job'[j].source = job[j].source
                        /\ job[j].status # "NONE" <=> job'[j].status # "NONE"
    <3> TAKE j \in Jobs
    <3>1. job[j] \in JobRow
      BY DEF TypeOK
    <3>2. j \in sched[p].lost => job[j].status # "NONE"
      BY DEF RowsExist
    <3> QED
      BY <1>5, <3>1, <3>2 DEF CommitDispatch, JobRow, Terminal
  <2>3. job' \in [Jobs -> JobRow]
    BY <1>5, <2>2 DEF CommitDispatch
  <2>4. sched' \in [Schedulers -> SchedState]
    BY <1>5, EntriesStayEntries DEF CommitDispatch, TypeOK
  <2>5. \A q \in Schedulers : sched'[q].claims \cup sched'[q].lost
                                \subseteq sched[q].claims \cup sched[q].lost
    BY <1>5 DEF CommitDispatch, TypeOK, IdleSched
  <2>6. \A q \in Schedulers : sched[q].claims \cup sched[q].lost \subseteq Jobs
    BY DEF TypeOK, SchedState
  <2> QED
    BY <1>5, <2>1, <2>2, <2>3, <2>4, <2>5, <2>6 DEF CommitDispatch, TypeOK, RowsExist
<1>6. CASE SchedulerCrash(p)
  BY <1>6, EntriesStayEntries DEF SchedulerCrash, TypeOK, RowsExist, IdleSched
<1> QED
  BY <1>1, <1>2, <1>3, <1>4, <1>5, <1>6 DEF SchedulerStep

\* A run that commits, whatever it writes, leaves typed rows behind.
LEMMA CommitTyped ==
  ASSUME TypedRows, NEW w \in Workers, run[w].pc # "idle",
         NEW row \in SourceRow, NEW jobRow \in JobRow, NEW entry \in QueueEntry,
         jobRow.status # "NONE", jobRow.source \in Sources,
         Commit(w, row, jobRow, entry)
  PROVE  TypedRows'
<1> USE DEF TypedRows
<1> DEFINE j == run[w].job  k == run[w].dispatch  s == job[j].source
<1>1. j \in Jobs /\ k \in Dispatch /\ s \in Sources /\ job[j].status # "NONE"
  BY RunFacts
<1>2. /\ source' = [source EXCEPT ![s] = row]
      /\ job' = [job EXCEPT ![j] = jobRow]
      /\ queue' = [queue EXCEPT ![j][k] = entry]
      /\ run' = [run EXCEPT ![w] = IdleRun]
      /\ sched' = sched
  BY DEF Commit
<1> HIDE DEF j, k, s
<1>3. TypeOK'
  BY <1>1, <1>2, EntriesStayEntries DEF TypeOK
<1>4. /\ \A i \in Jobs : job[i].status # "NONE" => job'[i].status # "NONE"
      /\ \A i \in Jobs : job'[i].status # "NONE" => job'[i].source \in Sources
  BY <1>1, <1>2 DEF TypeOK, RowsExist
<1>5. \A i \in Jobs, d \in Dispatch : queue'[i][d].st # "absent" => job'[i].status # "NONE"
  BY <1>1, <1>2, <1>4 DEF TypeOK, RowsExist
<1>6. \A v \in Workers : run'[v].pc # "idle" => run'[v] = run[v]
  BY <1>2 DEF TypeOK, IdleRun
<1>7. \A p \in Schedulers : sched[p].claims \cup sched[p].lost \subseteq Jobs
  BY DEF TypeOK, SchedState
<1> QED
  BY <1>2, <1>3, <1>4, <1>5, <1>6, <1>7 DEF RowsExist

\* A run that leaves no trace but in the queue.
LEMMA RollbackTyped ==
  ASSUME TypedRows, NEW w \in Workers, run[w].pc # "idle", NEW entry \in QueueEntry,
         Rollback(w, entry)
  PROVE  TypedRows'
<1> USE DEF TypedRows
<1> DEFINE j == run[w].job  k == run[w].dispatch
<1>1. j \in Jobs /\ k \in Dispatch /\ job[j].status # "NONE"
  BY RunFacts
<1>2. /\ queue' = [queue EXCEPT ![j][k] = entry]
      /\ run' = [run EXCEPT ![w] = IdleRun]
      /\ UNCHANGED <<source, job, sched>>
  BY DEF Rollback
<1> HIDE DEF j, k
<1>3. TypeOK'
  BY <1>1, <1>2, EntriesStayEntries DEF TypeOK
<1>4. \A v \in Workers : run'[v].pc # "idle" => run'[v] = run[v]
  BY <1>2 DEF TypeOK, IdleRun
<1>5. \A i \in Jobs, d \in Dispatch : queue'[i][d].st # "absent" => job[i].status # "NONE"
  BY <1>1, <1>2 DEF TypeOK, RowsExist
<1> QED
  BY <1>2, <1>3, <1>4, <1>5 DEF RowsExist

\* The job rows that runs write.
LEMMA WrittenJobs ==
  ASSUME NEW row \in JobRow
  PROVE  \A st \in Live \cup Terminal, n \in 0 .. MaxAttempts,
            d \in -RetryDelay .. QueuedStale + 1 :
           /\ [row EXCEPT !.status = st] \in JobRow
           /\ [row EXCEPT !.status = st, !.attempt = n] \in JobRow
           /\ [row EXCEPT !.status = st, !.overdue = d, !.attempt = n] \in JobRow
           /\ [row EXCEPT !.overdue = d] \in JobRow
<1> DEFINE Overdue == -RetryDelay .. QueuedStale + 1
<1>1. JobRow = [status : {"NONE"} \cup Live \cup Terminal,
                source : Sources \cup {NoSource}, overdue : Overdue, attempt : 0 .. MaxAttempts]
  BY DEF JobRow
<1> HIDE DEF Overdue
<1>2. \A st \in Live \cup Terminal, n \in 0 .. MaxAttempts, d \in Overdue :
        /\ [row EXCEPT !.status = st] \in JobRow
        /\ [row EXCEPT !.status = st, !.attempt = n] \in JobRow
        /\ [row EXCEPT !.status = st, !.overdue = d, !.attempt = n] \in JobRow
        /\ [row EXCEPT !.overdue = d] \in JobRow
  BY <1>1
<1> QED
  BY <1>2 DEF Overdue

\* The worker's steps.
LEMMA WorkerTyped ==
  ASSUME TypedRows, NEW w \in Workers, WorkerStep(w)
  PROVE  TypedRows'
<1> USE DEF TypedRows
<1>1. ASSUME NEW j \in Jobs, NEW k \in Dispatch, Load(w, j, k)
      PROVE  TypedRows'
  <2>1. job[j].status # "NONE" /\ job[j].source \in Sources
    BY <1>1 DEF Load, Runnable, RowsExist
  <2>2. queue[j][k] \in QueueEntry /\ queue[j][k].try < MaxTries
    BY <1>1 DEF Load, TypeOK
  <2> DEFINE taken == [queue[j][k] EXCEPT !.st = "running", !.try = @ + 1]
  <2>3. taken \in QueueEntry
    <3>1. queue[j][k].try + 1 \in 0 .. MaxTries
      BY <2>2, WindowAssumption DEF QueueEntry
    <3> QED
      BY <2>2, <3>1 DEF QueueEntry
  <2>4. queue' = [queue EXCEPT ![j][k] = taken]
    BY <1>1, <2>2 DEF Load, TypeOK
  <2> HIDE DEF taken
  <2> DEFINE row == source[job[j].source]
             loaded == [pc |-> "loaded", job |-> j, dispatch |-> k, elapsed |-> 0,
                        holder |-> row.holder, leased |-> row.lease # Unleased,
                        fails |-> row.fails, attempt |-> job[j].attempt]
  <2>5. run' = [run EXCEPT ![w] = loaded]
    BY <1>1 DEF Load
  <2>6. loaded \in RunState
    <3>1. row \in SourceRow /\ job[j] \in JobRow
      BY <2>1 DEF TypeOK
    <3>2. row.holder \in Jobs \cup {NoJob} /\ row.fails \in 0 .. FailCap
          /\ job[j].attempt \in 0 .. MaxAttempts
      BY <3>1 DEF SourceRow, JobRow
    <3>3. 0 \in 0 .. JobTimeout
      BY WindowAssumption
    <3> QED
      BY <3>2, <3>3 DEF RunState
  <2>7. loaded.job = j
    OBVIOUS
  <2> HIDE DEF loaded
  <2>8. TypeOK'
    <3>1. UNCHANGED <<source, job, sched>>
      BY <1>1 DEF Load
    <3> QED
      BY <2>3, <2>4, <2>5, <2>6, <3>1 DEF TypeOK
  <2>9. \A i \in Jobs, d \in Dispatch :
          queue'[i][d].st # "absent" => queue[i][d].st # "absent" \/ i = j
    BY <2>4 DEF TypeOK
  <2>10. \A v \in Workers : run'[v].pc # "idle" => run'[v] = run[v] \/ run'[v].job = j
    BY <2>5, <2>7 DEF TypeOK
  <2> QED
    BY <1>1, <2>1, <2>8, <2>9, <2>10 DEF Load, RowsExist
<1>2. CASE Begin(w)
  <2>1. run[w] \in RunState /\ run[w].pc # "idle"
    BY <1>2 DEF Begin, TypeOK
  <2>2. run' = [run EXCEPT ![w] = [run[w] EXCEPT !.pc = "running"]]
    BY <1>2 DEF Begin, TypeOK
  <2>3. [run[w] EXCEPT !.pc = "running"] \in RunState
    BY <2>1 DEF RunState
  <2>4. [run[w] EXCEPT !.pc = "running"].job = run[w].job
    BY <2>1 DEF RunState
  <2>5. \A v \in Workers : run'[v].pc # "idle" => run[v].pc # "idle" /\ run'[v].job = run[v].job
    BY <2>1, <2>2, <2>4 DEF TypeOK
  <2>6. TypeOK'
    BY <1>2, <2>2, <2>3 DEF Begin, TypeOK
  <2> QED
    BY <1>2, <2>5, <2>6 DEF Begin, RowsExist
<1> DEFINE j == run[w].job
<1>3. SUFFICES ASSUME run[w].pc # "idle",
                      \/ RunSucceeds(w)
                      \/ \E delay \in 0 .. RetryDelay : RunRetries(w, delay)
                      \/ RunFails(w)
                      \/ \E delay \in 0 .. RetryDelay : RunCrashes(w, delay)
                      \/ RunLost(w)
                      \/ RunTimesOut(w)
                      \/ \E delay \in {0, JobTimeout} : WorkerDies(w, delay)
               PROVE  TypedRows'
  BY <1>1, <1>2 DEF WorkerStep, RunSucceeds, RunRetries, RunFails, RunCrashes, RunLost,
                    RunTimesOut, WorkerDies
<1>4. /\ run[w] \in RunState /\ run[w].dispatch \in Dispatch
      /\ job[j] \in JobRow /\ job[j].source \in Sources
      /\ RowOf(w) \in SourceRow /\ EntryOf(w) \in QueueEntry
  BY <1>3, RunFacts
<1>5. \A succeeded \in BOOLEAN : AfterRun(RowOf(w), run[w], succeeded) \in SourceRow
  BY <1>4, AfterRunIsRow
<1>6. /\ Counted(Larger(run[w].attempt + 1, EntryOf(w).try)) \in 0 .. MaxAttempts
      /\ Counted(run[w].attempt + 1) \in 0 .. MaxAttempts
  BY <1>4, WindowAssumption DEF Counted, Smaller, Larger, RunState, QueueEntry
<1>7. 0 .. RetryDelay \subseteq Nat /\ {0, JobTimeout} \subseteq Nat
  BY WindowAssumption
<1>8. Finished(run[w].dispatch) \in QueueEntry
      /\ \A delay \in Nat : Deferred(EntryOf(w), delay) \in QueueEntry
  BY <1>4, EntriesStayEntries
<1>9. CASE RunSucceeds(w)
  <2> DEFINE done == [job[j] EXCEPT !.status = "COMPLETED",
                        !.attempt = Counted(Larger(run[w].attempt + 1, EntryOf(w).try))]
  <2>1. done \in JobRow /\ done.status # "NONE" /\ done.source \in Sources
    BY <1>4, <1>6, WrittenJobs DEF JobRow, Terminal
  <2>2. Commit(w, AfterRun(RowOf(w), run[w], TRUE), done, Finished(run[w].dispatch))
    BY <1>9 DEF RunSucceeds
  <2> QED
    BY <1>3, <1>5, <1>8, <2>1, <2>2, CommitTyped
<1>10. ASSUME NEW delay \in 0 .. RetryDelay, RunRetries(w, delay)
       PROVE  TypedRows'
  <2> DEFINE later == [job[j] EXCEPT !.status = "RETRYING", !.overdue = -delay,
                                     !.attempt = Counted(run[w].attempt + 1)]
  <2>1. -delay \in -RetryDelay .. QueuedStale + 1
    BY WindowAssumption
  <2>2. later \in JobRow /\ later.status # "NONE" /\ later.source \in Sources
    BY <1>4, <1>6, <2>1, WrittenJobs DEF JobRow, Live
  <2>3. Commit(w, AfterRun(RowOf(w), run[w], FALSE), later, Deferred(EntryOf(w), delay))
    BY <1>10 DEF RunRetries
  <2> QED
    BY <1>3, <1>5, <1>7, <1>8, <2>2, <2>3, CommitTyped
<1>11. CASE RunFails(w)
  <2> DEFINE failed == [job[j] EXCEPT !.status = "FAILED", !.attempt = Counted(run[w].attempt + 1)]
  <2>1. failed \in JobRow /\ failed.status # "NONE" /\ failed.source \in Sources
    BY <1>4, <1>6, WrittenJobs DEF JobRow, Terminal
  <2>2. Commit(w, AfterRun(RowOf(w), run[w], FALSE), failed, Finished(run[w].dispatch))
    BY <1>11 DEF RunFails
  <2> QED
    BY <1>3, <1>5, <1>8, <2>1, <2>2, CommitTyped
<1>12. ASSUME NEW delay \in 0 .. RetryDelay, RunCrashes(w, delay)
       PROVE  TypedRows'
  <2> DEFINE again == [job[j] EXCEPT !.status = "RETRYING"]
             row == IF RowOf(w).holder \in {NoJob, j} THEN Unclaimed(RowOf(w)) ELSE RowOf(w)
  <2>1. again \in JobRow /\ again.status # "NONE" /\ again.source \in Sources
    <3>1. 0 \in -RetryDelay .. QueuedStale + 1 /\ 0 \in 0 .. MaxAttempts
      BY WindowAssumption
    <3> QED
      BY <1>4, <3>1, WrittenJobs DEF JobRow, Live
  <2>2. row \in SourceRow
    BY <1>4, RowsStayRows
  <2>3. Commit(w, row, again, Deferred(EntryOf(w), delay))
    BY <1>12 DEF RunCrashes
  <2> HIDE DEF row
  <2> QED
    BY <1>3, <1>7, <1>8, <2>1, <2>2, <2>3, CommitTyped
<1>13. CASE RunLost(w)
  BY <1>3, <1>8, <1>13, RollbackTyped DEF RunLost
<1>14. CASE RunTimesOut(w)
  BY <1>3, <1>8, <1>14, RollbackTyped DEF RunTimesOut
<1>15. ASSUME NEW delay \in {0, JobTimeout}, WorkerDies(w, delay)
       PROVE  TypedRows'
  BY <1>3, <1>7, <1>8, <1>15, RollbackTyped DEF WorkerDies
<1> QED
  BY <1>3, <1>9, <1>10, <1>11, <1>12, <1>13, <1>14, <1>15

\* Operators, Redis and the clock.
LEMMA EnvironmentTyped ==
  ASSUME TypedRows, EnvironmentStep
  PROVE  TypedRows'
<1> USE DEF TypedRows
<1>1. ASSUME NEW s \in Sources, SetActive(s)
      PROVE  TypedRows'
  <2>1. [source[s] EXCEPT !.active = ~@] \in SourceRow
    BY DEF TypeOK, SourceRow
  <2>2. source' = [source EXCEPT ![s] = [source[s] EXCEPT !.active = ~@]]
    BY <1>1 DEF SetActive, TypeOK
  <2> QED
    BY <1>1, <2>1, <2>2 DEF SetActive, TypeOK, RowsExist
<1>2. ASSUME NEW j \in Jobs, NEW k \in Dispatch,
             \/ QueueLoses(j, k)
             \/ DropEntry(j, k)
      PROVE  TypedRows'
  <2>1. queue[j][k].st # "absent"
    BY <1>2 DEF QueueLoses, DropEntry, Runnable
  <2>2. PICK entry \in QueueEntry : queue' = [queue EXCEPT ![j][k] = entry]
    BY <1>2, EntriesStayEntries DEF QueueLoses, DropEntry
  <2>3. UNCHANGED <<source, job, run, sched>>
    BY <1>2 DEF QueueLoses, DropEntry
  <2>4. TypeOK'
    BY <2>2, <2>3 DEF TypeOK
  <2>5. \A i \in Jobs, d \in Dispatch : queue'[i][d].st # "absent" => job[i].status # "NONE"
    BY <2>1, <2>2 DEF TypeOK, RowsExist
  <2> QED
    BY <2>3, <2>4, <2>5 DEF RowsExist
<1> QED
  BY <1>1, <1>2, ManagedAssumption DEF EnvironmentStep

\* What a tick does to each row.
LEMMA TickRows ==
  ASSUME TypeOK, ClockTick
  PROVE  /\ \A s \in Sources : source'[s] = Aged(source[s])
         /\ job' \in [Jobs -> JobRow]
         /\ \A j \in Jobs : job'[j].status = job[j].status /\ job'[j].source = job[j].source
         /\ queue' \in [Jobs -> [Dispatch -> QueueEntry]]
         /\ \A j \in Jobs, k \in Dispatch : queue'[j][k].st = queue[j][k].st
         /\ run' \in [Workers -> RunState]
         /\ \A w \in Workers :
              /\ run'[w].pc = run[w].pc /\ run'[w].job = run[w].job
              /\ run'[w].holder = run[w].holder /\ run'[w].leased = run[w].leased
<1>1. \A s \in Sources : source'[s] = Aged(source[s])
  BY DEF ClockTick
<1>2. /\ job' \in [Jobs -> JobRow]
      /\ \A j \in Jobs : job'[j].status = job[j].status /\ job'[j].source = job[j].source
  <2>1. ASSUME NEW j \in Jobs
        PROVE  /\ job'[j] \in JobRow
               /\ job'[j].status = job[j].status /\ job'[j].source = job[j].source
    <3> DEFINE later == Smaller(job[j].overdue + 1, QueuedStale + 1)
    <3>1. job[j] \in JobRow
      BY DEF TypeOK
    <3>2. later \in -RetryDelay .. QueuedStale + 1
      BY <3>1, WindowAssumption DEF JobRow, Smaller
    <3>3. [job[j] EXCEPT !.overdue = later] \in JobRow
      <4>1. 0 \in 0 .. MaxAttempts /\ "QUEUED" \in Live \cup Terminal
        BY WindowAssumption DEF Live
      <4> QED
        BY <3>1, <3>2, <4>1, WrittenJobs
    <3>4. /\ [job[j] EXCEPT !.overdue = later].status = job[j].status
          /\ [job[j] EXCEPT !.overdue = later].source = job[j].source
      BY <3>1 DEF JobRow
    <3>5. job'[j] = job[j] \/ job'[j] = [job[j] EXCEPT !.overdue = later]
      BY DEF ClockTick
    <3> QED
      BY <3>1, <3>3, <3>4, <3>5
  <2> QED
    BY <2>1 DEF ClockTick
<1>3. /\ queue' \in [Jobs -> [Dispatch -> QueueEntry]]
      /\ \A j \in Jobs, k \in Dispatch : queue'[j][k].st = queue[j][k].st
  <2>1. ASSUME NEW j \in Jobs, NEW k \in Dispatch
        PROVE  /\ [queue[j][k] EXCEPT !.delay = Larger(@ - 1, 0)] \in QueueEntry
               /\ [queue[j][k] EXCEPT !.delay = Larger(@ - 1, 0)].st = queue[j][k].st
    <3>1. queue[j][k] \in QueueEntry
      BY DEF TypeOK
    <3>2. Larger(queue[j][k].delay - 1, 0) \in Nat
      BY <3>1 DEF QueueEntry, Larger
    <3> QED
      BY <3>1, <3>2 DEF QueueEntry
  <2> QED
    BY <2>1 DEF ClockTick
<1>4. /\ run' \in [Workers -> RunState]
      /\ \A w \in Workers :
           /\ run'[w].pc = run[w].pc /\ run'[w].job = run[w].job
           /\ run'[w].holder = run[w].holder /\ run'[w].leased = run[w].leased
  <2>1. ASSUME NEW w \in Workers
        PROVE  /\ run'[w] \in RunState
               /\ run'[w].pc = run[w].pc /\ run'[w].job = run[w].job
               /\ run'[w].holder = run[w].holder /\ run'[w].leased = run[w].leased
    <3>1. run[w] \in RunState
      BY DEF TypeOK
    <3>2. CASE run[w].pc = "idle"
      BY <3>1, <3>2 DEF ClockTick
    <3>3. CASE run[w].pc # "idle"
      <4>1. run[w].elapsed + 1 \in 0 .. JobTimeout
        BY <3>1, <3>3, WindowAssumption DEF ClockTick, RunState
      <4>2. run'[w] = [run[w] EXCEPT !.elapsed = @ + 1]
        BY <3>3 DEF ClockTick
      <4> QED
        BY <3>1, <4>1, <4>2 DEF RunState
    <3> QED
      BY <3>2, <3>3
  <2> QED
    BY <2>1 DEF ClockTick
<1> QED
  BY <1>1, <1>2, <1>3, <1>4

\* A tick of the clock leaves typed rows.
LEMMA TickTyped ==
  ASSUME TypedRows, ClockTick
  PROVE  TypedRows'
<1> USE DEF TypedRows
<1>1. source' \in [Sources -> SourceRow]
  BY RowsStayRows DEF ClockTick, TypeOK
<1>2. sched' = sched
  BY DEF ClockTick
<1>3. TypeOK'
  BY <1>1, <1>2, TickRows DEF TypeOK
<1>4. \A j \in Jobs : job'[j].status = job[j].status /\ job'[j].source = job[j].source
  BY TickRows
<1>5. \A j \in Jobs : job'[j].status # "NONE" => job'[j].source \in Sources
  BY <1>4 DEF RowsExist
<1>6. \A j \in Jobs, k \in Dispatch : queue'[j][k].st # "absent" => job'[j].status # "NONE"
  BY <1>4, TickRows DEF RowsExist
<1>7. \A w \in Workers :
        run'[w].pc # "idle" => run'[w].job \in Jobs /\ job'[run'[w].job].status # "NONE"
  <2>1. ASSUME NEW w \in Workers, run'[w].pc # "idle"
        PROVE  run'[w].job \in Jobs /\ job'[run'[w].job].status # "NONE"
    <3>1. run'[w].pc = run[w].pc /\ run'[w].job = run[w].job
      BY TickRows
    <3>2. run[w].job \in Jobs /\ job[run[w].job].status # "NONE"
      BY <2>1, <3>1 DEF RowsExist
    <3> QED
      BY <1>4, <3>1, <3>2
  <2> QED
    BY <2>1
<1>8. \A p \in Schedulers : \A j \in sched'[p].claims \cup sched'[p].lost :
        job'[j].status # "NONE"
  <2>1. \A p \in Schedulers : sched[p].claims \cup sched[p].lost \subseteq Jobs
    BY DEF TypeOK, SchedState
  <2> QED
    BY <1>2, <1>4, <2>1 DEF RowsExist
<1> QED
  BY <1>3, <1>5, <1>6, <1>7, <1>8 DEF RowsExist

\* TypedRows is inductive: one step per process, and the environment.
LEMMA TypedRowsInductive == TypedRows /\ [Next]_vars => TypedRows'
<1> SUFFICES ASSUME TypedRows, [Next]_vars PROVE TypedRows'
  OBVIOUS
<1>1. CASE Next
  BY <1>1, SchedulerTyped, WorkerTyped, EnvironmentTyped, TickTyped DEF Next
<1>2. CASE UNCHANGED vars
  BY <1>2 DEF vars, TypedRows, TypeOK, RowsExist
<1> QED
  BY <1>1, <1>2

\* Every row, entry, run and pass stays a value of its type; with it, every job
\* an entry, a run or a pass names exists and names its source.
THEOREM TypeCorrect == Spec => []TypedRows
<1> QED
  BY InitTyped, TypedRowsInductive, PTL DEF Spec

\* Every reachable state has the shape TypeOK gives it: no column, queue entry or
\* memory of a process leaves its range, through crashes, retries and the clock.
THEOREM TypeSafe == Spec => []TypeOK
<1>1. TypedRows => TypeOK
  BY DEF TypedRows
<1> QED
  BY <1>1, TypeCorrect, PTL

-----------------------------------------------------------------------------
(* The claim invariant is inductive                                        *)

IInv == TypedRows /\ ClaimInv

-----------------------------------------------------------------------------
(* What the row operators do to a claim                                    *)

\* A claim sets lease and holder together, a release clears them together, and
\* a tick changes neither the holder nor whether there is a lease.
LEMMA ClaimedRow ==
  ASSUME NEW row \in SourceRow, NEW j \in Jobs
  PROVE  /\ Claimed(row, j).holder = j
         /\ Claimed(row, j).lease # Unleased
         /\ Claimed(row, j).next > 0
<1>1. Backoff(row.fails) > 0
  BY BackoffPositive DEF SourceRow
<1>2. Lease # Unleased
  BY WindowAssumption DEF Unleased
<1> QED
  BY <1>1, <1>2 DEF Claimed, SourceRow

\* A released source has neither lease nor holder; the rest of it stays.
LEMMA UnclaimedRow ==
  ASSUME NEW row \in SourceRow
  PROVE  /\ Unclaimed(row).holder = NoJob
         /\ Unclaimed(row).lease = Unleased
         /\ Unclaimed(row).next = row.next
BY DEF Unclaimed, SourceRow

\* A tick leaves holder and activity alone and a lease a lease.
LEMMA AgedRow ==
  ASSUME NEW row \in SourceRow
  PROVE  /\ Aged(row).holder = row.holder
         /\ Aged(row).lease = Unleased <=> row.lease = Unleased
         /\ Aged(row).lease \in Unleased .. Lease
<1>1. row.lease \in Int
  BY DEF SourceRow, Unleased
<1>2. Aged(row).holder = row.holder
  BY DEF Aged, SourceRow
<1>3. Aged(row).lease = IF row.lease > Expired THEN row.lease - 1 ELSE row.lease
  BY DEF Aged, SourceRow
<1>4. row.lease \in Unleased .. Lease
  BY DEF SourceRow
<1> QED
  BY <1>1, <1>2, <1>3, <1>4, LeaseValues DEF Unleased, Expired

\* A run that saw its own claim, or none, and knows which, leaves its source
\* with the holder it finds or none, never with itself, and never due.
LEMMA RowAfterRun ==
  ASSUME NEW row \in SourceRow, NEW r \in RunState, NEW succeeded \in BOOLEAN,
         r.job \in Jobs,
         row.lease # Unleased <=> row.holder # NoJob,
         row.holder = r.job => r.holder = r.job,
         r.leased <=> r.holder # NoJob
  PROVE  LET after == AfterRun(row, r, succeeded) IN
           /\ after.holder \in {row.holder, NoJob} /\ after.holder # r.job
           /\ after.lease # Unleased <=> after.holder # NoJob
           /\ after.next = row.next \/ after.next > 0
<1> DEFINE fails == IF succeeded THEN 0 ELSE Smaller(r.fails + 1, FailCap)
           judged == [row EXCEPT !.fails = IF fails = r.fails THEN @ ELSE fails]
           released == [judged EXCEPT !.holder = IF r.holder = NoJob THEN @ ELSE NoJob,
                                      !.lease  = IF r.leased THEN Unleased ELSE @,
                                      !.next   = Backoff(fails)]
<1>1. Backoff(fails) > 0
  <2>1. fails \in 0 .. FailCap
    BY BackoffAssumption DEF RunState, Smaller
  <2> QED
    BY <2>1, BackoffPositive
<1>2. AfterRun(row, r, succeeded) = IF r.holder \in {NoJob, r.job} THEN released ELSE judged
  BY DEF AfterRun
<1> HIDE DEF fails
<1>3. judged.holder = row.holder /\ judged.lease = row.lease /\ judged.next = row.next
  BY DEF SourceRow
<1>4. /\ released.holder = IF r.holder = NoJob THEN row.holder ELSE NoJob
      /\ released.lease = IF r.leased THEN Unleased ELSE row.lease
      /\ released.next = Backoff(fails)
  BY DEF SourceRow
<1> HIDE DEF judged, released
<1>5. CASE r.holder = NoJob
  BY <1>1, <1>2, <1>4, <1>5, NullAssumption
<1>6. CASE r.holder = r.job
  BY <1>1, <1>2, <1>4, <1>6, NullAssumption
<1>7. CASE r.holder \notin {NoJob, r.job}
  BY <1>2, <1>3, <1>7
<1> QED
  BY <1>5, <1>6, <1>7

-----------------------------------------------------------------------------
(* The invariant, step by step                                             *)

\* The part of the invariant that TypedRows does not cover.
Claims ==
  LeaseHasHolder /\ ClaimHolderIsLive /\ RunKnowsItsClaim /\ PassKnowsItsClaims /\ DisjointClaims

\* Nothing is claimed, crawled or in flight at the start.
LEMMA InitClaims == Init => Claims
BY DEF Init, Claims, LeaseHasHolder, ClaimHolderIsLive, RunKnowsItsClaim, PassKnowsItsClaims,
       DisjointClaims, InFlight, NewSource, IdleRun, IdleSched

\* What TypedRows says of a pass and of a run, pointwise.
LEMMA WorkFacts ==
  ASSUME TypedRows
  PROVE  /\ \A s \in Sources : source[s] \in SourceRow
         /\ \A p \in Schedulers :
              /\ sched[p].locked \subseteq Sources
              /\ \A j \in sched[p].claims \cup sched[p].lost :
                   j \in Jobs /\ job[j].status # "NONE" /\ job[j].source \in Sources
         /\ \A w \in Workers : run[w].pc # "idle" =>
              /\ run[w].job \in Jobs /\ job[run[w].job].status # "NONE"
              /\ job[run[w].job].source \in Sources
         /\ \A s \in Sources : source[s].holder \in Jobs \cup {NoJob}
<1>1. \A p \in Schedulers : sched[p] \in SchedState
  BY DEF TypedRows, TypeOK
<1>2. \A p \in Schedulers : sched[p].claims \cup sched[p].lost \subseteq Jobs
                            /\ sched[p].locked \subseteq Sources
  BY <1>1 DEF SchedState
<1>3. \A s \in Sources : source[s] \in SourceRow
  BY DEF TypedRows, TypeOK
<1> QED
  BY <1>2, <1>3 DEF TypedRows, RowsExist, SourceRow

\* A transaction that locks what is claimable disturbs nobody.
LEMMA SelectDueClaims ==
  ASSUME TypedRows, Claims, NEW p \in Schedulers, SelectDue(p)
  PROVE  Claims'
<1> USE DEF Claims
<1>1. PICK due \in SUBSET Claimable :
        sched' = [sched EXCEPT ![p].pc = "claiming", ![p].locked = due]
  BY DEF SelectDue
<1>2. UNCHANGED <<source, job, queue, run>> /\ sched[p].pc = "idle"
  BY DEF SelectDue
<1>3. /\ sched'[p].pc = "claiming" /\ sched'[p].locked = due
      /\ sched'[p].claims = sched[p].claims /\ sched'[p].lost = sched[p].lost
      /\ \A q \in Schedulers : q # p => sched'[q] = sched[q]
  BY <1>1 DEF TypedRows, TypeOK, SchedState
<1>4. \A s \in due : /\ s \in Sources /\ source[s].next = 0 /\ source[s].lease <= 0
                     /\ ~ClaimLocked(s) /\ ~BeingCrawled(s)
  BY DEF Claimable, Eligible
<1>5. sched[p].claims = {} /\ sched[p].lost = {}
  BY <1>2 DEF PassKnowsItsClaims
<1>6. PassKnowsItsClaims'
  BY <1>2, <1>3, <1>4, <1>5 DEF PassKnowsItsClaims, BeingCrawled
<1>7. \A q \in Schedulers : q # p => InFlight(q) \cap due = {}
  BY <1>4 DEF InFlight, ClaimLocked, PassKnowsItsClaims
<1>8. InFlight(p)' = due /\ \A q \in Schedulers : q # p => InFlight(q)' = InFlight(q)
  BY <1>2, <1>3, <1>5 DEF InFlight
<1>9. DisjointClaims'
  BY <1>7, <1>8 DEF DisjointClaims
<1> QED
  BY <1>2, <1>6, <1>9 DEF LeaseHasHolder, ClaimHolderIsLive, RunKnowsItsClaim, RowOf

\* Claims go to locked rows and name jobs nobody knows yet.
LEMMA CommitClaimsClaims ==
  ASSUME TypedRows, Claims, NEW p \in Schedulers, CommitClaims(p)
  PROVE  Claims'
<1> USE DEF Claims
<1> DEFINE locked == sched[p].locked
<1>1. PICK to \in [locked -> FreshJobs] :
        /\ \A s, t \in locked : to[s] = to[t] => s = t
        /\ source' = [s \in Sources |-> IF s \in locked THEN Claimed(source[s], to[s])
                                        ELSE source[s]]
        /\ job' = [j \in Jobs |->
             IF \E s \in locked : to[s] = j
             THEN [status |-> "QUEUED", overdue |-> 0, attempt |-> 0,
                   source |-> CHOOSE s \in locked : to[s] = j]
             ELSE job[j]]
        /\ sched' = [sched EXCEPT ![p] = [pc |-> "dispatching", locked |-> {}, lost |-> {},
                                          claims |-> {to[s] : s \in locked}]]
  BY DEF CommitClaims
<1>2. UNCHANGED <<queue, run>> /\ sched[p].pc = "claiming"
  BY DEF CommitClaims
<1>3. \A s \in locked : s \in Sources /\ to[s] \in Jobs /\ job[to[s]].status = "NONE"
  BY <1>1, WorkFacts DEF FreshJobs
<1>4. \A s \in Sources :
        /\ s \in locked => /\ source'[s].holder = to[s] /\ source'[s].lease # Unleased
                           /\ source'[s].next > 0
        /\ s \notin locked => source'[s] = source[s]
  BY <1>1, <1>3, ClaimedRow, WorkFacts
<1>5. \A s \in locked : job'[to[s]].status = "QUEUED" /\ job'[to[s]].source = s
  <2> SUFFICES ASSUME NEW s \in locked
               PROVE  job'[to[s]].status = "QUEUED" /\ job'[to[s]].source = s
    OBVIOUS
  <2>1. (CHOOSE t \in locked : to[t] = to[s]) = s
    BY <1>1
  <2> QED
    BY <1>1, <1>3, <2>1
<1>6. \A j \in Jobs : job[j].status # "NONE" => job'[j] = job[j]
  BY <1>1, <1>3
<1>7. /\ sched'[p].pc = "dispatching" /\ sched'[p].locked = {} /\ sched'[p].lost = {}
      /\ sched'[p].claims = {to[s] : s \in locked}
      /\ \A q \in Schedulers : q # p => sched'[q] = sched[q]
  BY <1>1 DEF TypedRows, TypeOK
<1> HIDE DEF locked
<1>8. LeaseHasHolder'
  BY <1>3, <1>4, NullAssumption DEF LeaseHasHolder
<1>9. ClaimHolderIsLive'
  <2> SUFFICES ASSUME NEW s \in Sources, source'[s].holder # NoJob
               PROVE  /\ job'[source'[s].holder].status \in Live
                      /\ job'[source'[s].holder].source = s
    BY DEF ClaimHolderIsLive
  <2>1. CASE s \in locked
    BY <1>4, <1>5, <2>1 DEF Live
  <2>2. CASE s \notin locked
    <3>1. source[s].holder \in Jobs /\ job[source[s].holder].status \in Live
          /\ job[source[s].holder].source = s
      BY <1>4, <2>2, WorkFacts DEF ClaimHolderIsLive
    <3> QED
      BY <1>4, <1>6, <2>2, <3>1 DEF Live
  <2> QED
    BY <2>1, <2>2
<1>10. \A w \in Workers : run[w].pc # "idle" =>
         /\ run[w].job \in Jobs /\ job[run[w].job].source \in Sources
         /\ job'[run[w].job] = job[run[w].job] /\ job[run[w].job].status # "NONE"
  BY <1>6, WorkFacts
<1>11. RunKnowsItsClaim'
  <2> SUFFICES ASSUME NEW w \in Workers, run[w].pc # "idle"
               PROVE  /\ source'[job'[run[w].job].source].holder = run[w].job
                            => run[w].holder = run[w].job
                      /\ run[w].leased <=> run[w].holder # NoJob
    BY <1>2 DEF RunKnowsItsClaim, RowOf
  <2>1. CASE job[run[w].job].source \in locked
    BY <1>3, <1>4, <1>10, <2>1 DEF RunKnowsItsClaim
  <2>2. CASE job[run[w].job].source \notin locked
    BY <1>4, <1>10, <2>2 DEF RunKnowsItsClaim, RowOf
  <2> QED
    BY <2>1, <2>2
<1>12. \A q \in Schedulers : \A j \in sched[q].claims \cup sched[q].lost :
         /\ j \in Jobs /\ job[j].source \in Sources /\ job'[j] = job[j]
  BY <1>6, WorkFacts
<1>13. \A s \in Sources : BeingCrawled(s)' => BeingCrawled(s)
  BY <1>2, <1>10 DEF BeingCrawled
<1>14. PassKnowsItsClaims'
  <2> SUFFICES ASSUME NEW q \in Schedulers
               PROVE  /\ sched'[q].pc = "idle" => sched'[q].locked = {}
                      /\ sched'[q].pc # "dispatching" => sched'[q].claims = {} /\ sched'[q].lost = {}
                      /\ sched'[q].pc = "claiming" =>
                           \A s \in sched'[q].locked : source'[s].lease <= 0 /\ ~BeingCrawled(s)'
                      /\ \A j \in sched'[q].claims : source'[job'[j].source].next > 0
                      /\ \A j \in sched'[q].lost : job'[j].source \in sched'[q].locked
    BY DEF PassKnowsItsClaims
  <2>1. CASE q = p
    BY <1>3, <1>4, <1>5, <1>7, <2>1
  <2>2. CASE q # p
    <3>1. sched'[q] = sched[q]
      BY <1>7, <2>2
    <3>2. \A s \in sched[q].locked : s \in Sources /\ source'[s] = source[s]
      BY <1>4, <2>2, WorkFacts DEF DisjointClaims, InFlight, locked
    <3>3. \A j \in sched[q].claims : source'[job'[j].source].next > 0
      BY <1>4, <1>12 DEF PassKnowsItsClaims
    <3> QED
      BY <1>12, <1>13, <3>1, <3>2, <3>3 DEF PassKnowsItsClaims
  <2> QED
    BY <2>1, <2>2
<1>15. InFlight(p)' \subseteq InFlight(p)
  BY <1>5, <1>7 DEF InFlight, locked
<1>16. \A q \in Schedulers : q # p => InFlight(q)' = InFlight(q)
  BY <1>7, <1>12 DEF InFlight
<1>17. DisjointClaims'
  BY <1>15, <1>16 DEF DisjointClaims
<1> QED
  BY <1>8, <1>9, <1>11, <1>14, <1>17

\* Dispatching hands claims over; a failed one keeps its source locked.
LEMMA DispatchClaims ==
  ASSUME TypedRows, Claims, NEW p \in Schedulers, NEW j \in Jobs,
         Enqueue(p, j) \/ \E taken \in BOOLEAN : EnqueueFails(p, j, taken)
  PROVE  Claims'
<1> USE DEF Claims
<1>1. UNCHANGED <<source, job, run>> /\ j \in sched[p].claims
  BY DEF Enqueue, EnqueueFails
<1>2. sched[p].pc = "dispatching"
  BY <1>1 DEF PassKnowsItsClaims
<1>3. /\ \A q \in Schedulers : q # p => sched'[q] = sched[q]
      /\ sched'[p].pc = "dispatching"
      /\ sched'[p].claims = sched[p].claims \ {j}
      /\ \/ sched'[p].locked = sched[p].locked /\ sched'[p].lost = sched[p].lost
         \/ /\ ~ClaimLocked(job[j].source)
            /\ sched'[p].locked = sched[p].locked \cup {job[j].source}
            /\ sched'[p].lost = sched[p].lost \cup {j}
  <2>1. CASE Enqueue(p, j)
    BY <1>2, <2>1 DEF Enqueue, TypedRows, TypeOK, SchedState
  <2>2. ASSUME NEW taken \in BOOLEAN, EnqueueFails(p, j, taken)
        PROVE  <1>3!:
    <3> DEFINE after == [sched[p] EXCEPT !.claims = @ \ {j}, !.lost = @ \cup {j},
                                        !.locked = @ \cup {job[j].source}]
    <3>1. sched' = [sched EXCEPT ![p] = after]
      BY <2>2 DEF EnqueueFails, TypedRows, TypeOK, SchedState
    <3>2. /\ after.pc = sched[p].pc /\ after.claims = sched[p].claims \ {j}
          /\ after.lost = sched[p].lost \cup {j}
          /\ after.locked = sched[p].locked \cup {job[j].source}
      BY DEF TypedRows, TypeOK, SchedState
    <3>3. sched'[p] = after /\ \A q \in Schedulers : q # p => sched'[q] = sched[q]
      BY <3>1 DEF TypedRows, TypeOK
    <3>4. ~ClaimLocked(job[j].source)
      BY <2>2 DEF EnqueueFails
    <3> HIDE DEF after
    <3> QED
      BY <1>2, <3>2, <3>3, <3>4
  <2> QED
    BY <2>1, <2>2
<1>4. InFlight(p)' \subseteq InFlight(p)
      /\ \A q \in Schedulers : q # p => InFlight(q)' = InFlight(q)
  BY <1>1, <1>3 DEF InFlight
<1>5. DisjointClaims'
  BY <1>4 DEF DisjointClaims
<1>6. PassKnowsItsClaims'
  <2>1. /\ \A i \in sched'[p].claims : source[job[i].source].next > 0
        /\ \A i \in sched'[p].lost : job[i].source \in sched'[p].locked
    BY <1>1, <1>3 DEF PassKnowsItsClaims
  <2>2. \A s \in Sources : BeingCrawled(s)' = BeingCrawled(s)
    BY <1>1 DEF BeingCrawled
  <2>3. \A q \in Schedulers : sched[q].locked \subseteq Sources
    BY WorkFacts
  <2> QED
    BY <1>1, <1>3, <2>1, <2>2, <2>3 DEF PassKnowsItsClaims
<1> QED
  BY <1>1, <1>5, <1>6 DEF LeaseHasHolder, ClaimHolderIsLive, RunKnowsItsClaim, RowOf

\* A pass that ends fails the jobs it lost and frees the sources it has locked,
\* theirs among them; one that dies frees nothing.
LEMMA EndOfPassClaims ==
  ASSUME TypedRows, Claims, NEW p \in Schedulers, CommitDispatch(p) \/ SchedulerCrash(p)
  PROVE  Claims'
<1> USE DEF Claims
<1>1. /\ sched'[p] = IdleSched /\ \A q \in Schedulers : q # p => sched'[q] = sched[q]
      /\ UNCHANGED <<queue, run>>
  BY DEF CommitDispatch, SchedulerCrash, TypedRows, TypeOK
<1>2. \A s \in Sources :
        \/ source'[s] = source[s]
        \/ /\ s \in sched[p].locked
           /\ source'[s].holder = NoJob /\ source'[s].lease = Unleased
           /\ source'[s].next = source[s].next
  BY UnclaimedRow, WorkFacts DEF CommitDispatch, SchedulerCrash
<1>3. \A j \in sched[p].lost : j \in Jobs /\ \A s \in Sources :
        source'[s].holder = j => job'[j] = job[j]
  <2> SUFFICES ASSUME NEW j \in sched[p].lost, NEW s \in Sources, source'[s].holder = j,
                      CommitDispatch(p)
               PROVE  FALSE
    BY WorkFacts DEF SchedulerCrash
  <2>1. j \in Jobs /\ job[j].source \in sched[p].locked
    BY WorkFacts DEF PassKnowsItsClaims
  <2>2. source'[s].holder = IF s \in sched[p].locked THEN NoJob ELSE source[s].holder
    BY UnclaimedRow, WorkFacts DEF CommitDispatch
  <2>3. s \notin sched[p].locked /\ source[s].holder = j
    BY <2>1, <2>2, NullAssumption
  <2> QED
    BY <2>1, <2>3, NullAssumption DEF ClaimHolderIsLive
<1>4. \A j \in Jobs : job'[j].source = job[j].source
                      /\ (j \notin sched[p].lost => job'[j] = job[j])
  BY DEF CommitDispatch, SchedulerCrash, TypedRows, TypeOK, JobRow
<1>5. LeaseHasHolder'
  BY <1>2 DEF LeaseHasHolder
<1>6. ClaimHolderIsLive'
  BY <1>2, <1>3, <1>4, WorkFacts DEF ClaimHolderIsLive
<1>7. RunKnowsItsClaim'
  <2>1. \A w \in Workers : run[w].pc # "idle" =>
          run[w].job \in Jobs /\ job[run[w].job].source \in Sources
    BY WorkFacts
  <2> QED
    BY <1>1, <1>2, <1>4, <2>1, NullAssumption DEF RunKnowsItsClaim, RowOf
<1>8. \A q \in Schedulers : q # p => InFlight(q)' = InFlight(q)
  BY <1>1, <1>4, WorkFacts DEF InFlight
<1>9. DisjointClaims'
  <2>1. InFlight(p)' = {}
    BY <1>1 DEF InFlight, IdleSched
  <2> QED
    BY <1>8, <2>1 DEF DisjointClaims
<1>10. PassKnowsItsClaims'
  <2> SUFFICES ASSUME NEW q \in Schedulers, q # p
               PROVE  /\ sched'[q].pc = "claiming" =>
                           \A s \in sched'[q].locked : source'[s].lease <= 0 /\ ~BeingCrawled(s)'
                      /\ \A j \in sched'[q].claims : source'[job'[j].source].next > 0
                      /\ \A j \in sched'[q].lost : job'[j].source \in sched'[q].locked
    BY <1>1 DEF PassKnowsItsClaims, IdleSched
  <2>1. \A s \in sched[q].locked : s \in Sources /\ source'[s] = source[s]
    BY <1>2, WorkFacts DEF DisjointClaims, InFlight
  <2>2. \A s \in Sources : BeingCrawled(s)' = BeingCrawled(s)
    BY <1>1, <1>4, WorkFacts DEF BeingCrawled
  <2>3. \A j \in sched[q].claims \cup sched[q].lost : job'[j].source = job[j].source
                                                     /\ job[j].source \in Sources
    BY <1>4, WorkFacts
  <2> QED
    BY <1>1, <1>2, <2>1, <2>2, <2>3 DEF PassKnowsItsClaims
<1> QED
  BY <1>5, <1>6, <1>7, <1>9, <1>10

\* Every step of a scheduling pass keeps the claims correct.
LEMMA SchedulerClaims ==
  ASSUME TypedRows, Claims, NEW p \in Schedulers, SchedulerStep(p)
  PROVE  Claims'
BY SelectDueClaims, CommitClaimsClaims, DispatchClaims, EndOfPassClaims DEF SchedulerStep

\* A run starts by noting the claim it finds; from its first write on nobody
\* can lock its source.
LEMMA StartOfRunClaims ==
  ASSUME TypedRows, Claims, NEW w \in Workers,
         Begin(w) \/ \E j \in Jobs, k \in Dispatch : Load(w, j, k)
  PROVE  Claims'
<1> USE DEF Claims
<1>1. UNCHANGED <<source, job, sched>>
  BY DEF Begin, Load
<1>2. \A v \in Workers : v # w => run'[v] = run[v]
  BY DEF Begin, Load, TypedRows, TypeOK
<1>3. CASE Begin(w)
  <2>1. /\ run[w].pc = "loaded" /\ run'[w].pc = "running" /\ run'[w].job = run[w].job
        /\ run'[w].holder = run[w].holder /\ run'[w].leased = run[w].leased
        /\ ~ClaimLocked(job[run[w].job].source)
    BY <1>3 DEF Begin, TypedRows, TypeOK, RunState
  <2>2. RunKnowsItsClaim'
    BY <1>1, <1>2, <2>1 DEF RunKnowsItsClaim, RowOf
  <2>3. \A p \in Schedulers : \A s \in sched[p].locked : BeingCrawled(s)' = BeingCrawled(s)
    BY <1>1, <1>2, <2>1 DEF BeingCrawled, ClaimLocked
  <2>4. PassKnowsItsClaims'
    BY <1>1, <2>3, WorkFacts DEF PassKnowsItsClaims
  <2> QED
    BY <1>1, <2>2, <2>4 DEF LeaseHasHolder, ClaimHolderIsLive, DisjointClaims, InFlight
<1>4. ASSUME NEW j \in Jobs, NEW k \in Dispatch, Load(w, j, k)
      PROVE  Claims'
  <2>1. job[j].source \in Sources
    BY <1>4 DEF Load, Runnable, TypedRows, RowsExist
  <2>2. /\ run[w].pc = "idle" /\ run'[w].pc = "loaded" /\ run'[w].job = j
        /\ run'[w].holder = source[job[j].source].holder
        /\ run'[w].leased = (source[job[j].source].lease # Unleased)
    <3> DEFINE row == source[job[j].source]
               loaded == [pc |-> "loaded", job |-> j, dispatch |-> k, elapsed |-> 0,
                          holder |-> row.holder, leased |-> row.lease # Unleased,
                          fails |-> row.fails, attempt |-> job[j].attempt]
    <3>1. run[w].pc = "idle" /\ run' = [run EXCEPT ![w] = loaded]
      BY <1>4 DEF Load
    <3>2. /\ loaded.pc = "loaded" /\ loaded.job = j
          /\ loaded.holder = row.holder /\ loaded.leased = (row.lease # Unleased)
      OBVIOUS
    <3> HIDE DEF loaded
    <3> QED
      BY <3>1, <3>2 DEF TypedRows, TypeOK
  <2>3. RunKnowsItsClaim'
    <3>1. run'[w].leased <=> run'[w].holder # NoJob
      BY <2>1, <2>2 DEF LeaseHasHolder
    <3>2. RowOf(w)'.holder = run'[w].job => run'[w].holder = run'[w].job
      BY <1>1, <2>2 DEF RowOf
    <3>3. \A v \in Workers : v # w /\ run'[v].pc # "idle" =>
            /\ RowOf(v)'.holder = run'[v].job => run'[v].holder = run'[v].job
            /\ run'[v].leased <=> run'[v].holder # NoJob
      BY <1>1, <1>2 DEF RowOf, RunKnowsItsClaim
    <3> QED
      BY <3>1, <3>2, <3>3 DEF RunKnowsItsClaim
  <2>4. \A s \in Sources : BeingCrawled(s)' = BeingCrawled(s)
    BY <1>1, <1>2, <2>2 DEF BeingCrawled
  <2>5. PassKnowsItsClaims'
    BY <1>1, <2>4, WorkFacts DEF PassKnowsItsClaims
  <2> QED
    BY <1>1, <2>3, <2>5 DEF LeaseHasHolder, ClaimHolderIsLive, DisjointClaims, InFlight
<1> QED
  BY <1>3, <1>4

\* A run that commits forgets at most its own claim, and never leaves itself as
\* the holder.
LEMMA CommitKeepsClaims ==
  ASSUME TypedRows, Claims, NEW w \in Workers, run[w].pc = "running",
         NEW row \in SourceRow, NEW jobRow \in JobRow, NEW entry \in QueueEntry,
         row.holder \in {RowOf(w).holder, NoJob}, row.holder # run[w].job,
         row.lease # Unleased <=> row.holder # NoJob,
         row.next = RowOf(w).next \/ row.next > 0,
         jobRow.source = job[run[w].job].source,
         Commit(w, row, jobRow, entry)
  PROVE  Claims'
<1> USE DEF Claims
<1> DEFINE j == run[w].job  s == job[j].source
<1>1. j \in Jobs /\ s \in Sources /\ job[j].status # "NONE"
  BY WorkFacts
<1>2. /\ source'[s] = row /\ \A t \in Sources : t # s => source'[t] = source[t]
      /\ job'[j] = jobRow /\ \A i \in Jobs : i # j => job'[i] = job[i]
      /\ run'[w].pc = "idle" /\ \A v \in Workers : v # w => run'[v] = run[v]
      /\ sched' = sched /\ ~ClaimLocked(s)
  BY <1>1 DEF Commit, TypedRows, TypeOK, IdleRun
<1>3. \A i \in Jobs : job'[i].source = job[i].source
  BY <1>2
<1>4. /\ row.holder \in {source[s].holder, NoJob} /\ row.holder # j
      /\ row.next = source[s].next \/ row.next > 0
  BY DEF RowOf
<1> HIDE DEF j, s
<1>5. LeaseHasHolder'
  BY <1>1, <1>2 DEF LeaseHasHolder
<1>6. ClaimHolderIsLive'
  <2> SUFFICES ASSUME NEW t \in Sources, source'[t].holder # NoJob
               PROVE  /\ job'[source'[t].holder].status \in Live
                      /\ job'[source'[t].holder].source = t
    BY DEF ClaimHolderIsLive
  <2>1. source'[t].holder = source[t].holder /\ source[t].holder \in Jobs
    BY <1>2, <1>4, WorkFacts
  <2>2. job[source[t].holder].status \in Live /\ job[source[t].holder].source = t
    BY <2>1 DEF ClaimHolderIsLive
  <2>3. source[t].holder # j
    BY <1>2, <1>4, <2>1, <2>2 DEF s
  <2> QED
    BY <1>2, <2>1, <2>2, <2>3
<1>7. \A t \in Sources : source'[t].holder \in {source[t].holder, NoJob}
  BY <1>2, <1>4
<1>8. RunKnowsItsClaim'
  <2>1. \A v \in Workers : run'[v].pc # "idle" =>
          /\ run'[v] = run[v] /\ run[v].job \in Jobs /\ job[run[v].job].source \in Sources
    BY <1>2, WorkFacts
  <2> QED
    BY <1>3, <1>7, <2>1, NullAssumption DEF RunKnowsItsClaim, RowOf
<1>9. \A t \in Sources : BeingCrawled(t)' => BeingCrawled(t)
  BY <1>2, <1>3, WorkFacts DEF BeingCrawled
<1>10. \A p \in Schedulers, i \in Jobs : i \in sched[p].claims \cup sched[p].lost =>
         job'[i].source = job[i].source /\ job[i].source \in Sources
  BY <1>3, WorkFacts
<1>11. PassKnowsItsClaims'
  <2>1. \A p \in Schedulers : \A t \in sched[p].locked : t \in Sources /\ source'[t] = source[t]
    BY <1>2, WorkFacts DEF ClaimLocked
  <2>2. \A t \in Sources : source[t].next > 0 => source'[t].next > 0
    BY <1>2, <1>4
  <2>3. \A p \in Schedulers : sched[p].claims \cup sched[p].lost \subseteq Jobs
    BY WorkFacts
  <2> QED
    BY <1>2, <1>9, <1>10, <2>1, <2>2, <2>3 DEF PassKnowsItsClaims
<1>12. DisjointClaims'
  <2>1. \A p \in Schedulers : InFlight(p)' = InFlight(p)
    BY <1>2, <1>3, WorkFacts DEF InFlight
  <2> QED
    BY <2>1 DEF DisjointClaims
<1> QED
  BY <1>5, <1>6, <1>8, <1>11, <1>12

\* A run that leaves nothing in the database.
LEMMA RollbackKeepsClaims ==
  ASSUME TypedRows, Claims, NEW w \in Workers, NEW entry \in QueueEntry, Rollback(w, entry)
  PROVE  Claims'
<1> USE DEF Claims
<1>1. UNCHANGED <<source, job, sched>>
  BY DEF Rollback
<1>2. run'[w].pc = "idle" /\ \A v \in Workers : v # w => run'[v] = run[v]
  BY DEF Rollback, TypedRows, TypeOK, IdleRun
<1>3. \A s \in Sources : BeingCrawled(s)' => BeingCrawled(s)
  BY <1>1, <1>2 DEF BeingCrawled
<1>4. PassKnowsItsClaims'
  BY <1>1, <1>3, WorkFacts DEF PassKnowsItsClaims
<1>5. RunKnowsItsClaim'
  BY <1>1, <1>2 DEF RunKnowsItsClaim, RowOf
<1> QED
  BY <1>1, <1>4, <1>5 DEF LeaseHasHolder, ClaimHolderIsLive, DisjointClaims, InFlight

\* Every step of a worker slot keeps the claims correct.
LEMMA WorkerClaims ==
  ASSUME TypedRows, Claims, NEW w \in Workers, WorkerStep(w)
  PROVE  Claims'
<1> USE DEF Claims
<1> DEFINE j == run[w].job
<1>1. SUFFICES ASSUME run[w].pc # "idle",
                      \/ RunSucceeds(w)
                      \/ \E delay \in 0 .. RetryDelay : RunRetries(w, delay)
                      \/ RunFails(w)
                      \/ \E delay \in 0 .. RetryDelay : RunCrashes(w, delay)
                      \/ RunLost(w)
                      \/ RunTimesOut(w)
                      \/ \E delay \in {0, JobTimeout} : WorkerDies(w, delay)
               PROVE  Claims'
  BY StartOfRunClaims DEF WorkerStep, RunSucceeds, RunRetries, RunFails, RunCrashes, RunLost,
                          RunTimesOut, WorkerDies
<1>2. /\ run[w] \in RunState /\ run[w].dispatch \in Dispatch /\ j \in Jobs
      /\ job[j] \in JobRow /\ job[j].source \in Sources
      /\ RowOf(w) \in SourceRow /\ EntryOf(w) \in QueueEntry
  BY <1>1, RunFacts DEF TypedRows
<1>3. /\ RowOf(w).lease # Unleased <=> RowOf(w).holder # NoJob
      /\ RowOf(w).holder = j => run[w].holder = j
      /\ run[w].leased <=> run[w].holder # NoJob
  BY <1>1, <1>2 DEF LeaseHasHolder, RunKnowsItsClaim, RowOf
<1>4. \A succeeded \in BOOLEAN :
        LET after == AfterRun(RowOf(w), run[w], succeeded) IN
          /\ after \in SourceRow
          /\ after.holder \in {RowOf(w).holder, NoJob} /\ after.holder # j
          /\ after.lease # Unleased <=> after.holder # NoJob
          /\ after.next = RowOf(w).next \/ after.next > 0
  BY <1>2, <1>3, RowAfterRun, AfterRunIsRow
<1>5. /\ Counted(Larger(run[w].attempt + 1, EntryOf(w).try)) \in 0 .. MaxAttempts
      /\ Counted(run[w].attempt + 1) \in 0 .. MaxAttempts
  BY <1>2, WindowAssumption DEF Counted, Smaller, Larger, RunState, QueueEntry
<1>6. 0 .. RetryDelay \subseteq Nat /\ {0, JobTimeout} \subseteq Nat
  BY WindowAssumption
<1>7. Finished(run[w].dispatch) \in QueueEntry
      /\ \A delay \in Nat : Deferred(EntryOf(w), delay) \in QueueEntry
  BY <1>2, EntriesStayEntries
<1>8. CASE RunSucceeds(w)
  <2> DEFINE done == [job[j] EXCEPT !.status = "COMPLETED",
                        !.attempt = Counted(Larger(run[w].attempt + 1, EntryOf(w).try))]
  <2>1. done \in JobRow /\ done.source = job[j].source
    BY <1>2, <1>5, WrittenJobs DEF JobRow, Terminal
  <2>2. /\ run[w].pc = "running"
        /\ Commit(w, AfterRun(RowOf(w), run[w], TRUE), done, Finished(run[w].dispatch))
    BY <1>8 DEF RunSucceeds
  <2> HIDE DEF done
  <2> QED
    BY <1>4, <1>7, <2>1, <2>2, CommitKeepsClaims
<1>9. ASSUME NEW delay \in 0 .. RetryDelay, RunRetries(w, delay)
      PROVE  Claims'
  <2> DEFINE later == [job[j] EXCEPT !.status = "RETRYING", !.overdue = -delay,
                                     !.attempt = Counted(run[w].attempt + 1)]
  <2>1. -delay \in -RetryDelay .. QueuedStale + 1
    BY WindowAssumption
  <2>2. later \in JobRow /\ later.source = job[j].source
    BY <1>2, <1>5, <2>1, WrittenJobs DEF JobRow, Live
  <2>3. /\ run[w].pc = "running"
        /\ Commit(w, AfterRun(RowOf(w), run[w], FALSE), later, Deferred(EntryOf(w), delay))
    BY <1>9 DEF RunRetries
  <2> HIDE DEF later
  <2> QED
    BY <1>4, <1>6, <1>7, <2>2, <2>3, CommitKeepsClaims
<1>10. CASE RunFails(w)
  <2> DEFINE failed == [job[j] EXCEPT !.status = "FAILED", !.attempt = Counted(run[w].attempt + 1)]
  <2>1. failed \in JobRow /\ failed.source = job[j].source
    BY <1>2, <1>5, WrittenJobs DEF JobRow, Terminal
  <2>2. /\ run[w].pc = "running"
        /\ Commit(w, AfterRun(RowOf(w), run[w], FALSE), failed, Finished(run[w].dispatch))
    BY <1>10 DEF RunFails
  <2> HIDE DEF failed
  <2> QED
    BY <1>4, <1>7, <2>1, <2>2, CommitKeepsClaims
<1>11. ASSUME NEW delay \in 0 .. RetryDelay, RunCrashes(w, delay)
       PROVE  Claims'
  <2> DEFINE again == [job[j] EXCEPT !.status = "RETRYING"]
             row == IF RowOf(w).holder \in {NoJob, j} THEN Unclaimed(RowOf(w)) ELSE RowOf(w)
  <2>1. again \in JobRow /\ again.source = job[j].source
    <3>1. 0 \in -RetryDelay .. QueuedStale + 1 /\ 0 \in 0 .. MaxAttempts
      BY WindowAssumption
    <3> QED
      BY <1>2, <3>1, WrittenJobs DEF JobRow, Live
  <2>2. /\ row \in SourceRow
        /\ row.holder \in {RowOf(w).holder, NoJob} /\ row.holder # j
        /\ row.lease # Unleased <=> row.holder # NoJob
        /\ row.next = RowOf(w).next
    <3>1. CASE RowOf(w).holder \in {NoJob, j}
      BY <1>2, <3>1, UnclaimedRow, RowsStayRows, NullAssumption
    <3>2. CASE RowOf(w).holder \notin {NoJob, j}
      BY <1>2, <1>3, <3>2
    <3> QED
      BY <3>1, <3>2
  <2>3. run[w].pc = "running" /\ Commit(w, row, again, Deferred(EntryOf(w), delay))
    BY <1>11 DEF RunCrashes
  <2> HIDE DEF row, again
  <2> QED
    BY <1>6, <1>7, <2>1, <2>2, <2>3, CommitKeepsClaims
<1>12. CASE RunLost(w) \/ RunTimesOut(w) \/ \E delay \in {0, JobTimeout} : WorkerDies(w, delay)
  BY <1>6, <1>7, <1>12, RollbackKeepsClaims DEF RunLost, RunTimesOut, WorkerDies
<1> QED
  BY <1>1, <1>8, <1>9, <1>10, <1>11, <1>12

\* Operators and Redis hold no claims.
LEMMA EnvironmentClaims ==
  ASSUME TypedRows, Claims, EnvironmentStep
  PROVE  Claims'
<1> USE DEF Claims
<1>1. ASSUME NEW t \in Sources, SetActive(t)
      PROVE  Claims'
  <2>1. \A s \in Sources : /\ source'[s].holder = source[s].holder
                           /\ source'[s].lease = source[s].lease
                           /\ source'[s].next = source[s].next
    BY <1>1 DEF SetActive, TypedRows, TypeOK, SourceRow
  <2>2. UNCHANGED <<job, run, sched>>
    BY <1>1 DEF SetActive
  <2>3. LeaseHasHolder' /\ ClaimHolderIsLive'
    BY <2>1, <2>2 DEF LeaseHasHolder, ClaimHolderIsLive
  <2>4. RunKnowsItsClaim'
    BY <2>1, <2>2, WorkFacts DEF RunKnowsItsClaim, RowOf
  <2>5. PassKnowsItsClaims'
    BY <2>1, <2>2, WorkFacts DEF PassKnowsItsClaims, BeingCrawled
  <2> QED
    BY <2>2, <2>3, <2>4, <2>5 DEF DisjointClaims, InFlight
<1>2. CASE UNCHANGED <<source, job, run, sched>>
  <2>1. PassKnowsItsClaims'
    BY <1>2 DEF PassKnowsItsClaims, BeingCrawled
  <2>2. RunKnowsItsClaim'
    BY <1>2 DEF RunKnowsItsClaim, RowOf
  <2> QED
    BY <1>2, <2>1, <2>2 DEF LeaseHasHolder, ClaimHolderIsLive, DisjointClaims, InFlight
<1> QED
  BY <1>1, <1>2, ManagedAssumption DEF EnvironmentStep, QueueLoses, DropEntry

\* Between passes a tick moves deadlines only.
LEMMA TickClaims ==
  ASSUME TypedRows, Claims, ClockTick
  PROVE  Claims'
<1> USE DEF Claims
<1>1. \A p \in Schedulers : sched[p].pc = "idle"
  BY DEF ClockTick
<1>2. sched' = sched
  BY DEF ClockTick
<1>3. \A s \in Sources : source'[s].holder = source[s].holder
                         /\ (source'[s].lease = Unleased <=> source[s].lease = Unleased)
  BY AgedRow, TickRows, WorkFacts DEF TypedRows
<1>4. \A j \in Jobs : job'[j].status = job[j].status /\ job'[j].source = job[j].source
  BY TickRows DEF TypedRows
<1>5. \A w \in Workers :
        /\ run'[w].pc = run[w].pc /\ run'[w].job = run[w].job
        /\ run'[w].holder = run[w].holder /\ run'[w].leased = run[w].leased
  BY TickRows DEF TypedRows
<1>6. LeaseHasHolder'
  BY <1>3 DEF LeaseHasHolder
<1>7. ClaimHolderIsLive'
  BY <1>3, <1>4, WorkFacts DEF ClaimHolderIsLive
<1>8. RunKnowsItsClaim'
  <2>1. \A w \in Workers : run[w].pc # "idle" =>
          run[w].job \in Jobs /\ job[run[w].job].source \in Sources
    BY WorkFacts
  <2> QED
    BY <1>3, <1>4, <1>5, <2>1 DEF RunKnowsItsClaim, RowOf
<1>9. \A p \in Schedulers : sched[p].claims = {} /\ sched[p].lost = {} /\ sched[p].locked = {}
  BY <1>1 DEF PassKnowsItsClaims
<1>10. PassKnowsItsClaims'
  BY <1>1, <1>2, <1>9 DEF PassKnowsItsClaims
<1>11. DisjointClaims'
  BY <1>2, <1>9 DEF DisjointClaims, InFlight
<1> QED
  BY <1>6, <1>7, <1>8, <1>10, <1>11

\* The inductive invariant is typed rows plus the remaining parts of ClaimInv.
LEMMA IInvSplit == IInv <=> TypedRows /\ Claims
BY DEF IInv, ClaimInv, Claims, TypedRows

\* The inductive invariant survives every step of the specification.
LEMMA Inductive == IInv /\ [Next]_vars => IInv'
<1> SUFFICES ASSUME TypedRows, Claims, [Next]_vars PROVE TypedRows' /\ Claims'
  BY IInvSplit DEF IInv, ClaimInv, Claims, TypedRows
<1>1. CASE Next
  BY <1>1, SchedulerClaims, WorkerClaims, EnvironmentClaims, TickClaims, TypedRowsInductive
  DEF Next
<1>2. CASE UNCHANGED vars
  <2>1. Claims'
    BY <1>2 DEF vars, Claims, LeaseHasHolder, ClaimHolderIsLive, RunKnowsItsClaim, RowOf,
                PassKnowsItsClaims, BeingCrawled, DisjointClaims, InFlight
  <2> QED
    BY <1>2, <2>1, TypedRowsInductive
<1> QED
  BY <1>1, <1>2

-----------------------------------------------------------------------------
(* Theorems                                                                *)

\* The claim invariant holds of every behaviour.
THEOREM ClaimsCorrect == Spec => []ClaimInv
<1>1. Init => IInv
  BY InitTyped, InitClaims, IInvSplit
<1>2. IInv => ClaimInv
  BY DEF IInv
<1> QED
  BY <1>1, <1>2, Inductive, PTL DEF Spec

\* A source never stays claimed by a job that has ended.
THEOREM HoldersAreLive == Spec => []ClaimHolderIsLive
<1>1. ClaimInv => ClaimHolderIsLive
  BY DEF ClaimInv
<1> QED
  BY <1>1, ClaimsCorrect, PTL

\* No two passes ever have the same source in flight.
THEOREM PassesAreDisjoint == Spec => []DisjointClaims
<1>1. ClaimInv => DisjointClaims
  BY DEF ClaimInv
<1> QED
  BY <1>1, ClaimsCorrect, PTL

\* CHECK claim_has_lease never refuses the last write of a run.
THEOREM RunsAreNeverRefused == Spec => []RunIsNeverRefused
<1>1. IInv => RunIsNeverRefused
  <2> SUFFICES ASSUME TypedRows, Claims, NEW w \in Workers, NEW succeeded \in BOOLEAN,
                      run[w].pc = "running"
               PROVE  HoldsLease(AfterRun(RowOf(w), run[w], succeeded))
    BY IInvSplit DEF RunIsNeverRefused
  <2>1. run[w] \in RunState /\ run[w].job \in Jobs /\ RowOf(w) \in SourceRow
        /\ job[run[w].job].source \in Sources
    BY RunFacts DEF TypedRows
  <2>2. /\ RowOf(w).lease # Unleased <=> RowOf(w).holder # NoJob
        /\ RowOf(w).holder = run[w].job => run[w].holder = run[w].job
        /\ run[w].leased <=> run[w].holder # NoJob
    BY <2>1 DEF Claims, LeaseHasHolder, RunKnowsItsClaim, RowOf
  <2> QED
    BY <2>1, <2>2, RowAfterRun DEF HoldsLease
<1>2. Init => IInv
  BY InitTyped, InitClaims, IInvSplit
<1> QED
  BY <1>1, <1>2, Inductive, PTL DEF Spec

\* A step that gives no source a new holder and uses up no fresh job.
NoGrant ==
  /\ \A s \in Sources : source'[s].holder \in {source[s].holder, NoJob}
  /\ \A j \in Jobs : job'[j].status = "NONE" <=> job[j].status = "NONE"
  /\ \A j \in Jobs : job'[j].source = job[j].source

\* Whatever copy of the source a run started from, it names no new holder.
LEMMA HolderAfterRun ==
  ASSUME NEW row \in SourceRow, NEW r, NEW succeeded
  PROVE  AfterRun(row, r, succeeded).holder \in {row.holder, NoJob}
<1> DEFINE fails == IF succeeded THEN 0 ELSE Smaller(r.fails + 1, FailCap)
           judged == [row EXCEPT !.fails = IF fails = r.fails THEN @ ELSE fails]
           released == [judged EXCEPT !.holder = IF r.holder = NoJob THEN @ ELSE NoJob,
                                      !.lease  = IF r.leased THEN Unleased ELSE @,
                                      !.next   = Backoff(fails)]
<1>1. AfterRun(row, r, succeeded) = IF r.holder \in {NoJob, r.job} THEN released ELSE judged
  BY DEF AfterRun
<1> HIDE DEF fails
<1>2. judged.holder = row.holder /\ released.holder \in {row.holder, NoJob}
  BY DEF SourceRow
<1> QED
  BY <1>1, <1>2

\* A run that commits grants nothing.
LEMMA CommitGrantsNothing ==
  ASSUME TypedRows, NEW w \in Workers, run[w].pc # "idle",
         NEW row, NEW jobRow, NEW entry,
         row.holder \in {RowOf(w).holder, NoJob}, jobRow.status # "NONE",
         jobRow.source = job[run[w].job].source, Commit(w, row, jobRow, entry)
  PROVE  NoGrant
<1>1. run[w].job \in Jobs /\ job[run[w].job].status # "NONE" /\ job[run[w].job].source \in Sources
  BY RunFacts DEF TypedRows
<1> QED
  BY <1>1 DEF Commit, RowOf, NoGrant, TypedRows, TypeOK

\* No step of a worker grants a claim.
LEMMA RunsGrantNothing ==
  ASSUME TypedRows, NEW w \in Workers, WorkerStep(w)
  PROVE  NoGrant
<1> DEFINE j == run[w].job
<1>1. CASE UNCHANGED <<source, job>>
  BY <1>1 DEF NoGrant
<1>2. SUFFICES ASSUME run[w].pc # "idle",
                      \/ RunSucceeds(w)
                      \/ \E delay \in 0 .. RetryDelay : RunRetries(w, delay)
                      \/ RunFails(w)
                      \/ \E delay \in 0 .. RetryDelay : RunCrashes(w, delay)
               PROVE  NoGrant
  BY <1>1 DEF WorkerStep, Load, Begin, RunSucceeds, RunRetries, RunFails, RunCrashes, RunLost,
              RunTimesOut, WorkerDies, Rollback
<1>3. /\ run[w] \in RunState /\ RowOf(w) \in SourceRow /\ job[j] \in JobRow
      /\ j \in Jobs /\ job[j].source \in Sources
  BY <1>2, RunFacts DEF TypedRows
<1>4. \A succeeded \in BOOLEAN :
        AfterRun(RowOf(w), run[w], succeeded).holder \in {RowOf(w).holder, NoJob}
  BY <1>3, HolderAfterRun
<1>5. CASE RunSucceeds(w)
  <2> DEFINE done == [job[j] EXCEPT !.status = "COMPLETED",
                        !.attempt = Counted(Larger(run[w].attempt + 1, EntryOf(w).try))]
  <2>1. done.status # "NONE" /\ done.source = job[j].source
    BY <1>3 DEF JobRow
  <2> DEFINE row == AfterRun(RowOf(w), run[w], TRUE)
  <2>2. Commit(w, row, done, Finished(run[w].dispatch))
    BY <1>5 DEF RunSucceeds
  <2>3. row.holder \in {RowOf(w).holder, NoJob}
    BY <1>4
  <2> HIDE DEF done, row
  <2> QED
    BY <1>2, <2>1, <2>2, <2>3, CommitGrantsNothing
<1>6. ASSUME NEW delay \in 0 .. RetryDelay, RunRetries(w, delay)
      PROVE  NoGrant
  <2> DEFINE later == [job[j] EXCEPT !.status = "RETRYING", !.overdue = -delay,
                                     !.attempt = Counted(run[w].attempt + 1)]
  <2>1. later.status # "NONE" /\ later.source = job[j].source
    BY <1>3 DEF JobRow
  <2> DEFINE row == AfterRun(RowOf(w), run[w], FALSE)
  <2>2. Commit(w, row, later, Deferred(EntryOf(w), delay))
    BY <1>6 DEF RunRetries
  <2>3. row.holder \in {RowOf(w).holder, NoJob}
    BY <1>4
  <2> HIDE DEF later, row
  <2> QED
    BY <1>2, <2>1, <2>2, <2>3, CommitGrantsNothing
<1>7. CASE RunFails(w)
  <2> DEFINE failed == [job[j] EXCEPT !.status = "FAILED", !.attempt = Counted(run[w].attempt + 1)]
  <2>1. failed.status # "NONE" /\ failed.source = job[j].source
    BY <1>3 DEF JobRow
  <2> DEFINE row == AfterRun(RowOf(w), run[w], FALSE)
  <2>2. Commit(w, row, failed, Finished(run[w].dispatch))
    BY <1>7 DEF RunFails
  <2>3. row.holder \in {RowOf(w).holder, NoJob}
    BY <1>4
  <2> HIDE DEF failed, row
  <2> QED
    BY <1>2, <2>1, <2>2, <2>3, CommitGrantsNothing
<1>8. ASSUME NEW delay \in 0 .. RetryDelay, RunCrashes(w, delay)
      PROVE  NoGrant
  <2> DEFINE row == IF RowOf(w).holder \in {NoJob, j} THEN Unclaimed(RowOf(w)) ELSE RowOf(w)
             again == [job[j] EXCEPT !.status = "RETRYING"]
  <2>1. again.status # "NONE" /\ again.source = job[j].source
    BY <1>3 DEF JobRow
  <2>2. row.holder \in {RowOf(w).holder, NoJob}
    BY <1>3, UnclaimedRow
  <2>3. Commit(w, row, again, Deferred(EntryOf(w), delay))
    BY <1>8 DEF RunCrashes
  <2> HIDE DEF row, again
  <2> QED
    BY <1>2, <2>1, <2>2, <2>3, CommitGrantsNothing
<1> QED
  BY <1>2, <1>5, <1>6, <1>7, <1>8

\* Only a claim transaction grants.
LEMMA OnlyClaimsGrant ==
  ASSUME TypedRows, Next, \A p \in Schedulers : ~CommitClaims(p)
  PROVE  NoGrant
<1>1. CASE UNCHANGED <<source, job>>
  BY <1>1 DEF NoGrant
<1>2. ASSUME NEW p \in Schedulers, CommitDispatch(p)
      PROVE  NoGrant
  <2>1. \A s \in Sources : source'[s] = source[s] \/ source'[s] = Unclaimed(source[s])
    BY <1>2 DEF CommitDispatch
  <2>2. \A j \in Jobs : job[j] \in JobRow /\ (j \in sched[p].lost => job[j].status # "NONE")
    BY WorkFacts DEF TypedRows, TypeOK
  <2>3. \A j \in Jobs : /\ job'[j].status = "NONE" <=> job[j].status = "NONE"
                        /\ job'[j].source = job[j].source
    BY <1>2, <2>2 DEF CommitDispatch, JobRow
  <2> QED
    BY <2>1, <2>3, UnclaimedRow, WorkFacts DEF NoGrant
<1>3. ASSUME NEW w \in Workers, WorkerStep(w)
      PROVE  NoGrant
  BY <1>3, RunsGrantNothing
<1>4. ASSUME NEW t \in Sources, SetActive(t)
      PROVE  NoGrant
  BY <1>4 DEF SetActive, NoGrant, TypedRows, TypeOK, SourceRow
<1>5. CASE ClockTick
  BY <1>5, AgedRow, TickRows, WorkFacts DEF NoGrant, TypedRows
<1> QED
  BY <1>1, <1>2, <1>3, <1>4, <1>5, ManagedAssumption
  DEF Next, SchedulerStep, SelectDue, Enqueue, EnqueueFails, SchedulerCrash, EnvironmentStep,
      QueueLoses, DropEntry

\* No claim is granted on a source while a run is crawling it.
THEOREM NoClaimMidCrawl == Spec => NeverClaimedMidCrawl
<1> DEFINE Unharmed == \A s \in Sources :
             source[s]'.holder \notin {source[s].holder, NoJob} => ~BeingCrawled(s)
<1>1. IInv /\ [Next]_vars => [Unharmed]_vars
  <2> SUFFICES ASSUME TypedRows, Claims, Next, NEW s \in Sources,
                      source'[s].holder \notin {source[s].holder, NoJob}
               PROVE  ~BeingCrawled(s)
    BY IInvSplit
  <2>1. PICK p \in Schedulers : CommitClaims(p)
    BY OnlyClaimsGrant DEF NoGrant
  <2>2. s \in sched[p].locked /\ sched[p].pc = "claiming"
    BY <2>1 DEF CommitClaims
  <2> QED
    BY <2>2 DEF Claims, PassKnowsItsClaims
<1>2. Init => IInv
  BY InitTyped, InitClaims, IInvSplit
<1> QED
  BY <1>1, <1>2, Inductive, PTL DEF Spec, NeverClaimedMidCrawl, Unharmed

\* A claim transaction is a grant of the abstract lease.
LEMMA CommitClaimsGrants ==
  ASSUME TypedRows, NEW p \in Schedulers, CommitClaims(p),
         \A s \in sched[p].locked : source[s].lease <= 0
  PROVE  Leases!Grant
<1> DEFINE locked == sched[p].locked
<1>1. PICK to \in [locked -> FreshJobs] :
        /\ \A s, t \in locked : to[s] = to[t] => s = t
        /\ source' = [s \in Sources |-> IF s \in locked THEN Claimed(source[s], to[s])
                                        ELSE source[s]]
        /\ job' = [j \in Jobs |->
             IF \E s \in locked : to[s] = j
             THEN [status |-> "QUEUED", overdue |-> 0, attempt |-> 0,
                   source |-> CHOOSE s \in locked : to[s] = j]
             ELSE job[j]]
  BY DEF CommitClaims
<1>2. locked \subseteq Sources /\ sched[p].pc = "claiming"
  BY WorkFacts DEF CommitClaims
<1>3. to \in [locked -> Jobs \ (Jobs \ FreshJobs)]
  BY <1>1 DEF FreshJobs
<1>4. \A s \in locked : source[s].lease <= 0
  OBVIOUS
<1>5. \A s \in Sources : /\ source'[s].holder = IF s \in locked THEN to[s] ELSE source[s].holder
                         /\ source'[s].lease = IF s \in locked THEN Lease ELSE source[s].lease
  BY <1>1, WorkFacts DEF Claimed, SourceRow
<1>6. (Jobs \ FreshJobs)' = (Jobs \ FreshJobs) \cup {to[s] : s \in locked}
  <2>1. \A j \in Jobs : (\E s \in locked : to[s] = j) => job'[j].status = "QUEUED"
    BY <1>1
  <2>2. \A j \in Jobs : ~(\E s \in locked : to[s] = j) => job'[j] = job[j]
    BY <1>1
  <2>3. \A s \in locked : to[s] \in Jobs /\ job[to[s]].status = "NONE"
    BY <1>1 DEF FreshJobs
  <2> QED
    BY <2>1, <2>2, <2>3 DEF FreshJobs
<1> HIDE DEF locked
<1>7. \A s \in locked : [t \in Sources |-> source[t].lease][s] <= 0
  BY <1>2, <1>4
<1>8. [s \in Sources |-> source[s].holder]'
        = [s \in Sources |-> IF s \in locked THEN to[s]
                             ELSE [t \in Sources |-> source[t].holder][s]]
  BY <1>5
<1>9. [s \in Sources |-> source[s].lease]'
        = [s \in Sources |-> IF s \in locked THEN Lease
                             ELSE [t \in Sources |-> source[t].lease][s]]
  BY <1>5
<1>10. /\ \A s, t \in locked : to[s] = to[t] => s = t
       /\ \A s \in locked : Leases!Lapsed(s)
  BY <1>1, <1>7 DEF Leases!Lapsed, locked
<1>11. locked \in SUBSET Sources /\ to \in [locked -> Jobs \ (Jobs \ FreshJobs)]
  BY <1>2, <1>3 DEF locked
<1> QED
  BY <1>6, <1>8, <1>9, <1>10, <1>11 DEF Leases!Grant

\* A step that grants nothing is a change of the abstract lease.
LEMMA NoGrantChanges ==
  ASSUME NoGrant, TypeOK'
  PROVE  Leases!Change
<1>1. [s \in Sources |-> source[s].holder]' \in [Sources -> Jobs \cup {NoJob}]
  BY DEF TypeOK, SourceRow
<1>2. [s \in Sources |-> source[s].lease]' \in [Sources -> Leases!Unleased .. Lease]
  BY DEF TypeOK, SourceRow, Unleased, Leases!Unleased
<1>3. \A s \in Sources : [t \in Sources |-> source[t].holder]'[s]
                           \in {[t \in Sources |-> source[t].holder][s], NoJob}
  BY DEF NoGrant
<1>4. (Jobs \ FreshJobs)' = Jobs \ FreshJobs
  BY DEF NoGrant, FreshJobs
<1> QED
  BY <1>1, <1>2, <1>3, <1>4 DEF Leases!Change

\* Claiming implements the lease of ClaimLease.
THEOREM ClaimingImplementsLease == Spec => ImplementsClaimLease
<1>1. Init => Leases!Init
  BY DEF Init, Leases!Init, NewSource, Unleased, Leases!Unleased, FreshJobs, NoRow
<1>2. IInv /\ [Next]_vars => [Leases!Next]_(Leases!leaseVars)
  <2> SUFFICES ASSUME TypedRows, Claims, [Next]_vars
               PROVE  [Leases!Next]_(Leases!leaseVars)
    BY IInvSplit
  <2>1. ASSUME NEW p \in Schedulers, CommitClaims(p)
        PROVE  Leases!Grant
    <3>1. \A s \in sched[p].locked : source[s].lease <= 0
      BY <2>1 DEF CommitClaims, Claims, PassKnowsItsClaims
    <3> QED
      BY <2>1, <3>1, CommitClaimsGrants
  <2>2. CASE Next /\ \A p \in Schedulers : ~CommitClaims(p)
    BY <2>2, OnlyClaimsGrant, TypedRowsInductive, NoGrantChanges DEF TypedRows, Leases!Next
  <2>3. CASE UNCHANGED vars
    BY <2>3 DEF vars, Leases!leaseVars, FreshJobs
  <2> QED
    BY <2>1, <2>2, <2>3 DEF Leases!Next
<1>3. Init => IInv
  BY InitTyped, InitClaims, IInvSplit
<1> QED
  BY <1>1, <1>2, <1>3, Inductive, PTL DEF Spec, ImplementsClaimLease, Leases!Spec

-----------------------------------------------------------------------------
(* Beside a reconciliation pass                                            *)

-----------------------------------------------------------------------------
(* The invariant                                                           *)

\* What a pass writes, it writes to rows that are there.
PlansExist == \A r \in Reconcilers : \A j \in Written(pass[r]) : job[j].status # "NONE"

RecoveryTyped == TypedRows /\ pass \in [Reconcilers -> PassState] /\ PlansExist

\* A source is locked by one scheduling pass; while it claims, the source is lapsed and
\* not crawled; what it could not dispatch, it has locked.
LocksHold ==
  /\ \A p \in Schedulers :
       /\ sched[p].pc = "idle" => sched[p].locked = {}
       /\ sched[p].pc # "dispatching" => sched[p].claims = {} /\ sched[p].lost = {}
       /\ sched[p].pc = "claiming" =>
            \A s \in sched[p].locked : source[s].lease <= 0 /\ ~BeingCrawled(s)
       /\ \A j \in sched[p].lost : job[j].source \in sched[p].locked
  /\ \A p, q \in Schedulers : p # q => sched[p].locked \cap sched[q].locked = {}

RunsKnowTheirClaim ==
  \A w \in Workers : run[w].pc # "idle" =>
    (RowOf(w).holder = run[w].job => run[w].holder = run[w].job)

\* A pass that will end the holder of a source will free the source; it waits for the
\* locks of all it frees.
PlansFree ==
  \A r \in Reconcilers :
    /\ \A s \in Sources : source[s].holder \in pass[r].fail \cup pass[r].cancel =>
                            s \in pass[r].forget
    /\ pass[r].forget \subseteq pass[r].free \cup pass[r].clear

RecoveryInv ==
  RecoveryTyped /\ LocksHold /\ RunsKnowTheirClaim /\ ClaimHolderIsLive /\ PlansFree

\* No step gives a source to a job that is already there, or takes a job from its source.
NoRevival ==
  /\ \A s \in Sources : source'[s].holder \in {source[s].holder, NoJob} \cup FreshJobs
  /\ \A j \in Jobs : job[j].status # "NONE" =>
       job'[j].status # "NONE" /\ job'[j].source = job[j].source

-----------------------------------------------------------------------------
(* Steps of schedulers, workers, operators and the clock                   *)

LEMMA StepRevivesNothing ==
  ASSUME TypedRows, Next
  PROVE  NoRevival
<1>1. CASE NoGrant
  BY <1>1 DEF NoGrant, NoRevival
<1>2. ASSUME NEW p \in Schedulers, CommitClaims(p)
      PROVE  NoRevival
  <2> DEFINE locked == sched[p].locked
  <2>1. PICK to \in [locked -> FreshJobs] :
          /\ source' = [s \in Sources |-> IF s \in locked THEN Claimed(source[s], to[s])
                                          ELSE source[s]]
          /\ job' = [j \in Jobs |->
               IF \E s \in locked : to[s] = j
               THEN [status |-> "QUEUED", overdue |-> 0, attempt |-> 0,
                     source |-> CHOOSE s \in locked : to[s] = j]
               ELSE job[j]]
    BY <1>2 DEF CommitClaims
  <2>2. \A s \in locked : to[s] \in Jobs /\ job[to[s]].status = "NONE"
    BY <2>1 DEF FreshJobs
  <2>3. \A s \in Sources : source'[s].holder = IF s \in locked THEN to[s] ELSE source[s].holder
    BY <2>1, <2>2, ClaimedRow, WorkFacts
  <2>4. \A j \in Jobs : job[j].status # "NONE" => job'[j] = job[j]
    BY <2>1, <2>2
  <2> QED
    BY <2>1, <2>3, <2>4 DEF NoRevival
<1> QED
  BY <1>1, <1>2, OnlyClaimsGrant

\* Runs keep to the claim they loaded, whatever else happens to their source.
LEMMA RunsKeepKnowing ==
  ASSUME TypedRows, NoRevival, RunsKnowTheirClaim,
         \A w \in Workers : run'[w].pc # "idle" =>
           /\ run[w].pc # "idle" /\ run'[w].job = run[w].job /\ run'[w].holder = run[w].holder
  PROVE  RunsKnowTheirClaim'
<1> SUFFICES ASSUME NEW w \in Workers, run'[w].pc # "idle",
                    source'[job'[run'[w].job].source].holder = run'[w].job
             PROVE  run'[w].holder = run'[w].job
  BY DEF RunsKnowTheirClaim, RowOf
<1>1. /\ run[w].pc # "idle" /\ run'[w].job = run[w].job /\ run'[w].holder = run[w].holder
  OBVIOUS
<1>2. /\ run[w].job \in Jobs /\ job[run[w].job].status # "NONE"
      /\ job[run[w].job].source \in Sources
  BY <1>1, WorkFacts
<1>3. job'[run[w].job].source = job[run[w].job].source
  BY <1>2 DEF NoRevival
<1>4. run[w].job \notin FreshJobs /\ run[w].job # NoJob
  BY <1>2, NullAssumption DEF FreshJobs
<1>5. source[job[run[w].job].source].holder = run[w].job
  BY <1>1, <1>2, <1>3, <1>4 DEF NoRevival
<1> QED
  BY <1>1, <1>5 DEF RunsKnowTheirClaim, RowOf

\* A pass that is over, or has only grown older.
PlanStays(r) ==
  \/ pass'[r] = IdlePass
  \/ /\ pass'[r].requeue = pass[r].requeue /\ pass'[r].fail = pass[r].fail
     /\ pass'[r].cancel = pass[r].cancel /\ pass'[r].forget = pass[r].forget
     /\ pass'[r].free = pass[r].free /\ pass'[r].clear = pass[r].clear

\* Plans that stay keep freeing what they end.
LEMMA PlansStayFree ==
  ASSUME pass \in [Reconcilers -> PassState], PlansExist, NoRevival, PlansFree,
         \A r \in Reconcilers : PlanStays(r)
  PROVE  PlansFree' /\ PlansExist'
<1>1. \A r \in Reconcilers : /\ Written(pass[r]) \subseteq Jobs
                             /\ pass[r].fail \cup pass[r].cancel \subseteq Written(pass[r])
  BY DEF PassState, Written
<1>2. \A r \in Reconcilers :
        pass'[r] = IdlePass =>
          /\ pass'[r].fail = {} /\ pass'[r].cancel = {} /\ pass'[r].requeue = {}
          /\ pass'[r].forget = {}
  BY DEF IdlePass
<1>3. ASSUME NEW r \in Reconcilers
      PROVE  /\ pass'[r].forget \subseteq pass'[r].free \cup pass'[r].clear
             /\ pass'[r].fail \cup pass'[r].cancel \subseteq pass[r].fail \cup pass[r].cancel
             /\ \A s \in Sources : s \in pass[r].forget /\ pass'[r] # IdlePass =>
                  s \in pass'[r].forget
             /\ Written(pass'[r]) \subseteq Written(pass[r])
  BY <1>2 DEF PlanStays, PlansFree, Written
<1>4. ASSUME NEW r \in Reconcilers, NEW s \in Sources,
             source'[s].holder \in pass'[r].fail \cup pass'[r].cancel
      PROVE  s \in pass'[r].forget
  <2>1. source'[s].holder \in pass[r].fail \cup pass[r].cancel /\ pass'[r] # IdlePass
    BY <1>2, <1>3, <1>4
  <2>2. source'[s].holder \in Jobs /\ source'[s].holder \notin FreshJobs
    BY <1>1, <2>1 DEF PlansExist, FreshJobs
  <2>3. source'[s].holder = source[s].holder
    BY <2>2, NullAssumption DEF NoRevival
  <2> QED
    BY <1>3, <2>1, <2>3 DEF PlansFree
<1>5. PlansFree'
  BY <1>3, <1>4 DEF PlansFree
<1>6. PlansExist'
  BY <1>1, <1>3 DEF PlansExist, NoRevival
<1> QED
  BY <1>5, <1>6

\* Locks stay in order while no scheduling pass moves and locked sources are let alone.
LEMMA LocksStay ==
  ASSUME TypedRows, LocksHold, NoRevival, UNCHANGED sched,
         \A s \in Sources : ClaimLocked(s) =>
           /\ source[s].lease <= 0 => source'[s].lease <= 0
           /\ BeingCrawled(s)' => BeingCrawled(s)
  PROVE  LocksHold'
<1>1. \A p \in Schedulers :
        /\ \A s \in sched[p].locked : s \in Sources /\ ClaimLocked(s)
        /\ \A j \in sched[p].lost : job'[j].source = job[j].source
  BY WorkFacts DEF ClaimLocked, NoRevival
<1> QED
  BY <1>1 DEF LocksHold

LEMMA SelectLocks ==
  ASSUME TypedRows, LocksHold, NEW p \in Schedulers, SelectDue(p)
  PROVE  LocksHold'
<1>1. PICK due \in SUBSET Claimable :
        sched' = [sched EXCEPT ![p].pc = "claiming", ![p].locked = due]
  BY DEF SelectDue
<1>2. UNCHANGED <<source, job, run>> /\ sched[p].pc = "idle"
  BY DEF SelectDue
<1>3. /\ sched'[p].pc = "claiming" /\ sched'[p].locked = due
      /\ sched'[p].claims = sched[p].claims /\ sched'[p].lost = sched[p].lost
      /\ \A q \in Schedulers : q # p => sched'[q] = sched[q]
  BY <1>1 DEF TypedRows, TypeOK, SchedState
<1>4. \A s \in due : source[s].lease <= 0 /\ ~ClaimLocked(s) /\ ~BeingCrawled(s)
  BY DEF Claimable, Eligible
<1>5. \A q \in Schedulers : q # p => sched[q].locked \cap due = {}
  BY <1>4 DEF ClaimLocked
<1> QED
  BY <1>2, <1>3, <1>4, <1>5 DEF LocksHold, BeingCrawled

LEMMA CommitClaimsLocks ==
  ASSUME TypedRows, LocksHold, NoRevival, NEW p \in Schedulers, CommitClaims(p)
  PROVE  LocksHold'
<1>1. /\ sched'[p].pc = "dispatching" /\ sched'[p].locked = {} /\ sched'[p].lost = {}
      /\ \A q \in Schedulers : q # p => sched'[q] = sched[q]
      /\ \A s \in Sources : s \notin sched[p].locked => source'[s] = source[s]
      /\ run' = run
  BY DEF CommitClaims, TypedRows, TypeOK
<1>2. ASSUME NEW q \in Schedulers, q # p
      PROVE  /\ \A s \in sched[q].locked : s \in Sources /\ source'[s] = source[s]
             /\ \A j \in sched[q].lost : job'[j].source = job[j].source
  BY <1>1, <1>2, WorkFacts DEF LocksHold, NoRevival
<1>3. \A s \in Sources : BeingCrawled(s)' => BeingCrawled(s)
  <2>1. \A w \in Workers : run[w].pc # "idle" =>
          job'[run[w].job].source = job[run[w].job].source
    BY WorkFacts DEF NoRevival
  <2> QED
    BY <1>1, <2>1 DEF BeingCrawled
<1> QED
  BY <1>1, <1>2, <1>3 DEF LocksHold

LEMMA DispatchLocks ==
  ASSUME TypedRows, LocksHold, NEW p \in Schedulers, NEW j \in Jobs,
         Enqueue(p, j) \/ \E taken \in BOOLEAN : EnqueueFails(p, j, taken)
  PROVE  LocksHold'
<1>1. UNCHANGED <<source, job, run>> /\ j \in sched[p].claims
  BY DEF Enqueue, EnqueueFails
<1>2. sched[p].pc = "dispatching"
  BY <1>1 DEF LocksHold
<1>3. /\ \A q \in Schedulers : q # p => sched'[q] = sched[q]
      /\ sched'[p].pc = "dispatching"
      /\ \/ sched'[p].locked = sched[p].locked /\ sched'[p].lost = sched[p].lost
         \/ /\ ~ClaimLocked(job[j].source)
            /\ sched'[p].locked = sched[p].locked \cup {job[j].source}
            /\ sched'[p].lost = sched[p].lost \cup {j}
  <2>1. CASE Enqueue(p, j)
    BY <1>2, <2>1 DEF Enqueue, TypedRows, TypeOK, SchedState
  <2>2. ASSUME NEW taken \in BOOLEAN, EnqueueFails(p, j, taken)
        PROVE  <1>3!:
    <3> DEFINE after == [sched[p] EXCEPT !.claims = @ \ {j}, !.lost = @ \cup {j},
                                        !.locked = @ \cup {job[j].source}]
    <3>1. sched' = [sched EXCEPT ![p] = after]
      BY <2>2 DEF EnqueueFails, TypedRows, TypeOK, SchedState
    <3>2. /\ after.pc = sched[p].pc /\ after.lost = sched[p].lost \cup {j}
          /\ after.locked = sched[p].locked \cup {job[j].source}
      BY DEF TypedRows, TypeOK, SchedState
    <3>3. sched'[p] = after /\ \A q \in Schedulers : q # p => sched'[q] = sched[q]
      BY <3>1 DEF TypedRows, TypeOK
    <3>4. ~ClaimLocked(job[j].source)
      BY <2>2 DEF EnqueueFails
    <3> HIDE DEF after
    <3> QED
      BY <1>2, <3>2, <3>3, <3>4
  <2> QED
    BY <2>1, <2>2
<1>4. \A s \in Sources : BeingCrawled(s)' = BeingCrawled(s)
  BY <1>1 DEF BeingCrawled
<1>5. \A q \in Schedulers : sched[q].locked \subseteq Sources
  BY WorkFacts
<1> QED
  BY <1>1, <1>3, <1>4, <1>5 DEF LocksHold, ClaimLocked

LEMMA EndOfPassLocks ==
  ASSUME TypedRows, LocksHold, NoRevival, NEW p \in Schedulers,
         CommitDispatch(p) \/ SchedulerCrash(p)
  PROVE  LocksHold'
<1>1. /\ sched'[p] = IdleSched /\ \A q \in Schedulers : q # p => sched'[q] = sched[q]
      /\ run' = run
      /\ \A s \in Sources : s \notin sched[p].locked => source'[s] = source[s]
  BY DEF CommitDispatch, SchedulerCrash, TypedRows, TypeOK
<1>2. ASSUME NEW q \in Schedulers, q # p
      PROVE  /\ \A s \in sched[q].locked : s \in Sources /\ source'[s] = source[s]
             /\ \A j \in sched[q].lost : job'[j].source = job[j].source
  BY <1>1, <1>2, WorkFacts DEF LocksHold, NoRevival
<1>3. \A s \in Sources : BeingCrawled(s)' => BeingCrawled(s)
  <2>1. \A w \in Workers : run[w].pc # "idle" =>
          job'[run[w].job].source = job[run[w].job].source
    BY WorkFacts DEF NoRevival
  <2> QED
    BY <1>1, <2>1 DEF BeingCrawled
<1> QED
  BY <1>1, <1>2, <1>3 DEF LocksHold, IdleSched

\* What the steps of SourceClaims keep.
Kept == LocksHold /\ RunsKnowTheirClaim /\ ClaimHolderIsLive

\* A run that knows its claim does not leave itself as the holder.
LEMMA RunGivesBack ==
  ASSUME NEW row \in SourceRow, NEW r, NEW succeeded, r.job # NoJob,
         row.holder = r.job => r.holder = r.job
  PROVE  AfterRun(row, r, succeeded).holder # r.job
<1> DEFINE fails == IF succeeded THEN 0 ELSE Smaller(r.fails + 1, FailCap)
           judged == [row EXCEPT !.fails = IF fails = r.fails THEN @ ELSE fails]
           released == [judged EXCEPT !.holder = IF r.holder = NoJob THEN @ ELSE NoJob,
                                      !.lease  = IF r.leased THEN Unleased ELSE @,
                                      !.next   = Backoff(fails)]
<1>1. AfterRun(row, r, succeeded) = IF r.holder \in {NoJob, r.job} THEN released ELSE judged
  BY DEF AfterRun
<1> HIDE DEF fails
<1>2. /\ judged.holder = row.holder
      /\ released.holder = IF r.holder = NoJob THEN row.holder ELSE NoJob
  BY DEF SourceRow
<1> HIDE DEF judged, released
<1> QED
  BY <1>1, <1>2

\* A run that commits: its job ends only without the claim.
LEMMA CommitKeeps ==
  ASSUME TypedRows, Kept, NoRevival, NEW w \in Workers, run[w].pc = "running",
         NEW row \in SourceRow, NEW jobRow \in JobRow, NEW entry,
         row.holder \in {RowOf(w).holder, NoJob},
         row.holder # run[w].job \/ jobRow.status \in Live,
         jobRow.source = job[run[w].job].source,
         Commit(w, row, jobRow, entry)
  PROVE  Kept'
<1> USE DEF Kept
<1> DEFINE j == run[w].job  s == job[j].source
<1>1. j \in Jobs /\ s \in Sources /\ job[j].status # "NONE"
  BY WorkFacts
<1>2. /\ source'[s] = row /\ \A t \in Sources : t # s => source'[t] = source[t]
      /\ job'[j] = jobRow /\ \A i \in Jobs : i # j => job'[i] = job[i]
      /\ run'[w].pc = "idle" /\ \A v \in Workers : v # w => run'[v] = run[v]
      /\ sched' = sched /\ ~ClaimLocked(s)
  BY <1>1 DEF Commit, TypedRows, TypeOK, IdleRun
<1>3. row.holder \in {source[s].holder, NoJob}
  BY DEF RowOf
<1>4. \A i \in Jobs : job'[i].source = job[i].source
  BY <1>2
<1> HIDE DEF j, s
<1>5. \A t \in Sources : BeingCrawled(t)' => BeingCrawled(t)
  BY <1>2, <1>4, WorkFacts DEF BeingCrawled
<1>6. LocksHold'
  BY <1>2, <1>5, LocksStay
<1>7. RunsKnowTheirClaim'
  BY <1>2, RunsKeepKnowing
<1>8. ClaimHolderIsLive'
  <2> SUFFICES ASSUME NEW t \in Sources, source'[t].holder # NoJob
               PROVE  /\ job'[source'[t].holder].status \in Live
                      /\ job'[source'[t].holder].source = t
    BY DEF ClaimHolderIsLive
  <2>1. source'[t].holder = source[t].holder /\ source[t].holder \in Jobs
    BY <1>2, <1>3, WorkFacts
  <2>2. job[source[t].holder].status \in Live /\ job[source[t].holder].source = t
    BY <2>1 DEF ClaimHolderIsLive
  <2>3. CASE source[t].holder = j
    <3>1. t = s
      BY <2>2, <2>3 DEF s
    <3>2. row.holder = j
      BY <1>2, <2>1, <2>3, <3>1
    <3> QED
      BY <1>2, <1>4, <2>1, <2>2, <2>3, <3>2 DEF j
  <2>4. CASE source[t].holder # j
    BY <1>2, <2>1, <2>2, <2>4
  <2> QED
    BY <2>3, <2>4
<1> QED
  BY <1>6, <1>7, <1>8

\* A run that leaves nothing in the database, or only starts.
LEMMA QuietRunKeeps ==
  ASSUME TypedRows, Kept, NoRevival, NEW w \in Workers,
         \/ Begin(w)
         \/ \E j \in Jobs, k \in Dispatch : Load(w, j, k)
         \/ \E entry : Rollback(w, entry)
  PROVE  Kept'
<1> USE DEF Kept
<1>1. UNCHANGED <<source, job, sched>> /\ \A v \in Workers : v # w => run'[v] = run[v]
  BY DEF Begin, Load, Rollback, TypedRows, TypeOK
<1>2. ClaimHolderIsLive'
  BY <1>1 DEF ClaimHolderIsLive
<1>3. CASE Begin(w)
  <2>1. /\ run[w].pc = "loaded" /\ run'[w].job = run[w].job /\ run'[w].holder = run[w].holder
        /\ ~ClaimLocked(job[run[w].job].source)
    BY <1>3 DEF Begin, TypedRows, TypeOK, RunState
  <2>2. RunsKnowTheirClaim'
    BY <1>1, <2>1, RunsKeepKnowing
  <2>3. \A s \in Sources : ClaimLocked(s) => (BeingCrawled(s)' => BeingCrawled(s))
    BY <1>1, <2>1 DEF BeingCrawled
  <2> QED
    BY <1>1, <1>2, <2>2, <2>3, LocksStay
<1>4. ASSUME NEW j \in Jobs, NEW k \in Dispatch, Load(w, j, k)
      PROVE  Kept'
  <2>1. /\ run'[w].pc = "loaded" /\ run'[w].job = j
        /\ run'[w].holder = source[job[j].source].holder
    <3> DEFINE row == source[job[j].source]
               loaded == [pc |-> "loaded", job |-> j, dispatch |-> k, elapsed |-> 0,
                          holder |-> row.holder, leased |-> row.lease # Unleased,
                          fails |-> row.fails, attempt |-> job[j].attempt]
    <3>1. run' = [run EXCEPT ![w] = loaded]
      BY <1>4 DEF Load
    <3>2. loaded.pc = "loaded" /\ loaded.job = j /\ loaded.holder = row.holder
      OBVIOUS
    <3> HIDE DEF loaded
    <3> QED
      BY <3>1, <3>2 DEF TypedRows, TypeOK
  <2>2. RunsKnowTheirClaim'
    BY <1>1, <2>1 DEF RunsKnowTheirClaim, RowOf
  <2>3. \A s \in Sources : BeingCrawled(s)' => BeingCrawled(s)
    BY <1>1, <2>1 DEF BeingCrawled
  <2> QED
    BY <1>1, <1>2, <2>2, <2>3, LocksStay
<1>5. ASSUME NEW entry, Rollback(w, entry)
      PROVE  Kept'
  <2>1. run'[w].pc = "idle"
    BY <1>5 DEF Rollback, TypedRows, TypeOK, IdleRun
  <2>2. RunsKnowTheirClaim'
    BY <1>1, <2>1, RunsKeepKnowing
  <2>3. \A s \in Sources : BeingCrawled(s)' => BeingCrawled(s)
    BY <1>1, <2>1 DEF BeingCrawled
  <2> QED
    BY <1>1, <1>2, <2>2, <2>3, LocksStay
<1> QED
  BY <1>3, <1>4, <1>5

LEMMA WorkerKeeps ==
  ASSUME TypedRows, Kept, NoRevival, NEW w \in Workers, WorkerStep(w)
  PROVE  Kept'
<1> DEFINE j == run[w].job
<1>1. CASE \/ RunLost(w) \/ RunTimesOut(w) \/ Begin(w)
           \/ \E delay \in {0, JobTimeout} : WorkerDies(w, delay)
           \/ \E i \in Jobs, k \in Dispatch : Load(w, i, k)
  BY <1>1, QuietRunKeeps DEF RunLost, RunTimesOut, WorkerDies
<1>2. SUFFICES ASSUME run[w].pc = "running",
                      \/ RunSucceeds(w) \/ RunFails(w)
                      \/ \E delay \in 0 .. RetryDelay : RunRetries(w, delay)
                      \/ \E delay \in 0 .. RetryDelay : RunCrashes(w, delay)
               PROVE  Kept'
  BY <1>1 DEF WorkerStep, RunSucceeds, RunRetries, RunFails, RunCrashes
<1>3. /\ run[w] \in RunState /\ j \in Jobs /\ job[j] \in JobRow
      /\ RowOf(w) \in SourceRow /\ EntryOf(w) \in QueueEntry
  BY <1>2, RunFacts DEF TypedRows
<1>4. ASSUME NEW succeeded \in BOOLEAN
      PROVE  LET after == AfterRun(RowOf(w), run[w], succeeded) IN
               after \in SourceRow /\ after.holder \in {RowOf(w).holder, NoJob} /\ after.holder # j
  <2>1. j # NoJob /\ (RowOf(w).holder = j => run[w].holder = j)
    BY <1>2, <1>3, NullAssumption DEF Kept, RunsKnowTheirClaim
  <2> QED
    BY <1>3, <2>1, AfterRunIsRow, HolderAfterRun, RunGivesBack
<1>5. /\ Counted(Larger(run[w].attempt + 1, EntryOf(w).try)) \in 0 .. MaxAttempts
      /\ Counted(run[w].attempt + 1) \in 0 .. MaxAttempts
  BY <1>3, WindowAssumption DEF Counted, Smaller, Larger, RunState, QueueEntry
<1>6. ASSUME NEW st \in Live \cup Terminal, NEW n \in 0 .. MaxAttempts
      PROVE  /\ [job[j] EXCEPT !.status = st, !.attempt = n] \in JobRow
             /\ [job[j] EXCEPT !.status = st, !.attempt = n].source = job[j].source
             /\ [job[j] EXCEPT !.status = st] \in JobRow
             /\ [job[j] EXCEPT !.status = st].source = job[j].source
             /\ [job[j] EXCEPT !.status = st].status = st
  <2>1. 0 \in -RetryDelay .. QueuedStale + 1
    BY WindowAssumption
  <2> QED
    BY <1>3, <2>1, WrittenJobs DEF JobRow
<1>7. 0 \in 0 .. MaxAttempts
  BY WindowAssumption
<1>8. \A succeeded \in BOOLEAN, jobRow \in JobRow : \A entry :
        jobRow.source = job[j].source
        /\ Commit(w, AfterRun(RowOf(w), run[w], succeeded), jobRow, entry) => Kept'
  BY <1>2, <1>4, CommitKeeps
<1>9. CASE RunSucceeds(w)
  <2> DEFINE done == [job[j] EXCEPT !.status = "COMPLETED",
                        !.attempt = Counted(Larger(run[w].attempt + 1, EntryOf(w).try))]
  <2>1. done \in JobRow /\ done.source = job[j].source
    BY <1>5, <1>6, <1>7 DEF Terminal
  <2>2. Commit(w, AfterRun(RowOf(w), run[w], TRUE), done, Finished(run[w].dispatch))
    BY <1>9 DEF RunSucceeds
  <2> HIDE DEF done
  <2> QED
    BY <1>8, <2>1, <2>2
<1>10. ASSUME NEW delay \in 0 .. RetryDelay, RunRetries(w, delay)
       PROVE  Kept'
  <2> DEFINE later == [job[j] EXCEPT !.status = "RETRYING", !.overdue = -delay,
                                     !.attempt = Counted(run[w].attempt + 1)]
  <2>1. -delay \in -RetryDelay .. QueuedStale + 1
    BY WindowAssumption
  <2>2. later \in JobRow /\ later.source = job[j].source
    BY <1>3, <1>5, <2>1, WrittenJobs DEF JobRow, Live
  <2>3. Commit(w, AfterRun(RowOf(w), run[w], FALSE), later, Deferred(EntryOf(w), delay))
    BY <1>10 DEF RunRetries
  <2> HIDE DEF later
  <2> QED
    BY <1>8, <2>2, <2>3
<1>11. CASE RunFails(w)
  <2> DEFINE failed == [job[j] EXCEPT !.status = "FAILED", !.attempt = Counted(run[w].attempt + 1)]
  <2>1. failed \in JobRow /\ failed.source = job[j].source
    BY <1>5, <1>6, <1>7 DEF Terminal
  <2>2. Commit(w, AfterRun(RowOf(w), run[w], FALSE), failed, Finished(run[w].dispatch))
    BY <1>11 DEF RunFails
  <2> HIDE DEF failed
  <2> QED
    BY <1>8, <2>1, <2>2
<1>12. ASSUME NEW delay \in 0 .. RetryDelay, RunCrashes(w, delay)
       PROVE  Kept'
  <2> DEFINE again == [job[j] EXCEPT !.status = "RETRYING"]
             row == IF RowOf(w).holder \in {NoJob, j} THEN Unclaimed(RowOf(w)) ELSE RowOf(w)
  <2>1. again \in JobRow /\ again.source = job[j].source /\ again.status \in Live
    BY <1>6, <1>7 DEF Live
  <2>2. row \in SourceRow /\ row.holder \in {RowOf(w).holder, NoJob}
    BY <1>3, RowsStayRows, UnclaimedRow
  <2>3. Commit(w, row, again, Deferred(EntryOf(w), delay))
    BY <1>12 DEF RunCrashes
  <2> HIDE DEF again, row
  <2> QED
    BY <1>2, <2>1, <2>2, <2>3, CommitKeeps
<1> QED
  BY <1>2, <1>9, <1>10, <1>11, <1>12

LEMMA SchedulerKeeps ==
  ASSUME TypedRows, Kept, NoRevival, NEW p \in Schedulers, SchedulerStep(p)
  PROVE  Kept'
<1> USE DEF Kept
<1>1. LocksHold'
  BY SelectLocks, CommitClaimsLocks, DispatchLocks, EndOfPassLocks DEF SchedulerStep
<1>2. run' = run
  BY DEF SchedulerStep, SelectDue, CommitClaims, Enqueue, EnqueueFails, CommitDispatch, SchedulerCrash
<1>3. RunsKnowTheirClaim'
  BY <1>2, RunsKeepKnowing
<1>4. CASE UNCHANGED <<source, job>>
  BY <1>1, <1>3, <1>4 DEF ClaimHolderIsLive
<1>5. CASE CommitClaims(p)
  <2> DEFINE locked == sched[p].locked
  <2>1. PICK to \in [locked -> FreshJobs] :
          /\ \A s, t \in locked : to[s] = to[t] => s = t
          /\ source' = [s \in Sources |-> IF s \in locked THEN Claimed(source[s], to[s])
                                          ELSE source[s]]
          /\ job' = [j \in Jobs |->
               IF \E s \in locked : to[s] = j
               THEN [status |-> "QUEUED", overdue |-> 0, attempt |-> 0,
                     source |-> CHOOSE s \in locked : to[s] = j]
               ELSE job[j]]
    BY <1>5 DEF CommitClaims
  <2>2. \A s \in locked : s \in Sources /\ to[s] \in Jobs /\ job[to[s]].status = "NONE"
    BY <2>1, WorkFacts DEF FreshJobs
  <2>3. \A s \in Sources : source'[s].holder = IF s \in locked THEN to[s] ELSE source[s].holder
    BY <2>1, <2>2, ClaimedRow, WorkFacts
  <2>4. ASSUME NEW s \in locked
        PROVE  job'[to[s]].status = "QUEUED" /\ job'[to[s]].source = s
    <3>1. (CHOOSE t \in locked : to[t] = to[s]) = s
      BY <2>1
    <3> QED
      BY <2>1, <2>2, <3>1
  <2>5. \A j \in Jobs : job[j].status # "NONE" => job'[j] = job[j]
    BY <2>1, <2>2
  <2> HIDE DEF locked
  <2>6. ClaimHolderIsLive'
    <3> SUFFICES ASSUME NEW s \in Sources, source'[s].holder # NoJob
                 PROVE  /\ job'[source'[s].holder].status \in Live
                        /\ job'[source'[s].holder].source = s
      BY DEF ClaimHolderIsLive
    <3>1. CASE s \in locked
      BY <2>3, <2>4, <3>1 DEF Live
    <3>2. CASE s \notin locked
      <4>1. source[s].holder \in Jobs /\ job[source[s].holder].status \in Live
            /\ job[source[s].holder].source = s
        BY <2>3, <3>2, WorkFacts DEF ClaimHolderIsLive
      <4> QED
        BY <2>3, <2>5, <3>2, <4>1 DEF Live
    <3> QED
      BY <3>1, <3>2
  <2> QED
    BY <1>1, <1>3, <2>6
<1>6. CASE CommitDispatch(p)
  <2>1. \A s \in Sources : source'[s].holder =
          IF s \in sched[p].locked THEN NoJob ELSE source[s].holder
    BY <1>6, UnclaimedRow, WorkFacts DEF CommitDispatch
  <2>2. \A j \in Jobs : j \notin sched[p].lost => job'[j] = job[j]
    BY <1>6 DEF CommitDispatch
  <2>3. \A j \in sched[p].lost : job[j].source \in sched[p].locked
    BY DEF LocksHold
  <2>4. ClaimHolderIsLive'
    <3> SUFFICES ASSUME NEW s \in Sources, source'[s].holder # NoJob
                 PROVE  /\ job'[source'[s].holder].status \in Live
                        /\ job'[source'[s].holder].source = s
      BY DEF ClaimHolderIsLive
    <3>1. /\ source'[s].holder = source[s].holder /\ s \notin sched[p].locked
          /\ source[s].holder \in Jobs
      BY <2>1, WorkFacts
    <3>2. job[source[s].holder].status \in Live /\ job[source[s].holder].source = s
      BY <3>1 DEF ClaimHolderIsLive
    <3>3. source[s].holder \notin sched[p].lost
      BY <2>3, <3>1, <3>2
    <3> QED
      BY <2>2, <3>1, <3>2, <3>3
  <2> QED
    BY <1>1, <1>3, <2>4
<1> QED
  BY <1>4, <1>5, <1>6 DEF SchedulerStep, SelectDue, Enqueue, EnqueueFails, SchedulerCrash

LEMMA EnvironmentKeeps ==
  ASSUME TypedRows, Kept, NoRevival, EnvironmentStep
  PROVE  Kept'
<1> USE DEF Kept
<1>1. /\ UNCHANGED <<job, run, sched>>
      /\ \A s \in Sources : source'[s].holder = source[s].holder
                            /\ source'[s].lease = source[s].lease
  <2>1. ASSUME NEW t \in Sources, SetActive(t) PROVE <1>1!:
    BY <2>1 DEF SetActive, TypedRows, TypeOK, SourceRow
  <2> QED
    BY <2>1, ManagedAssumption DEF EnvironmentStep, QueueLoses, DropEntry
<1>2. ClaimHolderIsLive'
  BY <1>1 DEF ClaimHolderIsLive
<1>3. RunsKnowTheirClaim'
  BY <1>1, RunsKeepKnowing
<1>4. \A s \in Sources : BeingCrawled(s)' => BeingCrawled(s)
  BY <1>1 DEF BeingCrawled
<1> QED
  BY <1>1, <1>2, <1>3, <1>4, LocksStay

LEMMA TickKeeps ==
  ASSUME TypedRows, Kept, NoRevival, ClockTick
  PROVE  Kept'
<1> USE DEF Kept
<1>1. sched' = sched /\ \A p \in Schedulers : sched[p].pc = "idle" /\ sched[p].locked = {}
  BY DEF ClockTick, LocksHold
<1>2. \A s \in Sources : source'[s].holder = source[s].holder
  BY AgedRow, TickRows, WorkFacts DEF TypedRows
<1>3. \A j \in Jobs : job'[j].status = job[j].status /\ job'[j].source = job[j].source
  BY TickRows DEF TypedRows
<1>4. \A w \in Workers : /\ run'[w].pc = run[w].pc /\ run'[w].job = run[w].job
                          /\ run'[w].holder = run[w].holder
  BY TickRows DEF TypedRows
<1>5. ClaimHolderIsLive'
  BY <1>2, <1>3, WorkFacts DEF ClaimHolderIsLive
<1>6. RunsKnowTheirClaim'
  BY <1>4, RunsKeepKnowing
<1>7. LocksHold'
  BY <1>1, LocksStay DEF ClaimLocked
<1> QED
  BY <1>5, <1>6, <1>7

\* Every step but those of reconcilers keeps what RecoveryInv says of the claims.
LEMMA NextKeeps ==
  ASSUME TypedRows, Kept, Next
  PROVE  Kept' /\ NoRevival
BY StepRevivesNothing, SchedulerKeeps, WorkerKeeps, EnvironmentKeeps, TickKeeps DEF Next

-----------------------------------------------------------------------------
(* Steps of reconcilers                                                    *)

LEMMA PassesTyped ==
  /\ IdlePass \in PassState
  /\ \A p \in PassState : [p EXCEPT !.age = Smaller(@ + 1, JobTimeout)] \in PassState
<1>1. 0 \in 0 .. MaxAttempts /\ 0 \in 0 .. FailCap /\ 0 \in 0 .. JobTimeout
  BY WindowAssumption, BackoffAssumption
<1>2. IdlePass \in PassState
  BY <1>1 DEF IdlePass, PassState
<1>3. \A a \in 0 .. JobTimeout : Smaller(a + 1, JobTimeout) \in 0 .. JobTimeout
  BY WindowAssumption DEF Smaller
<1> DEFINE Ages == 0 .. JobTimeout
<1>4. \A p \in PassState : p.age \in Ages
  BY DEF PassState
<1>5. \A p \in PassState, a \in Ages : [p EXCEPT !.age = a] \in PassState
  BY DEF PassState
<1> QED
  BY <1>2, <1>3, <1>4, <1>5

\* What a pass decides is a plan, and is about jobs that are there.
LEMMA PlanTyped ==
  ASSUME TypedRows, NEW reached \in SUBSET Redispatchable, NEW ended
  PROVE  /\ Plan(reached, ended) \in PassState
         /\ \A j \in Written(Plan(reached, ended)) : job[j].status # "NONE"
<1> DEFINE fail    == Stuck \ Redispatchable
           requeue == {j \in reached : Accepted(j)}
           free    == {s \in Sources : Held(s, fail)}
           cancel  == Duplicates(free, ExpiredLeases, ended)
           attempt == [j \in Jobs |-> IF j \in requeue THEN NextDispatch(j) ELSE 0]
           renew   == {s \in Sources : Held(s, requeue)}
           forget  == free \cup {s \in ExpiredLeases : source[s].holder # NoJob}
           fails   == [s \in Sources |->
                         IF s \in free THEN Smaller(source[s].fails + 1, FailCap) ELSE 0]
<1>1. Plan(reached, ended) =
        [pc |-> "decided", requeue |-> requeue, fail |-> fail, cancel |-> cancel,
         attempt |-> attempt, renew |-> renew, free |-> free, clear |-> ExpiredLeases,
         forget |-> forget, fails |-> fails, age |-> 0]
  BY DEF Plan
<1>2. /\ \A j \in Stuck : j \in Jobs /\ job[j].status # "NONE"
      /\ Redispatchable \subseteq Stuck
  BY DEF Stuck, Redispatchable
<1>3. fail \subseteq Jobs /\ requeue \subseteq Jobs
      /\ \A j \in fail \cup requeue : job[j].status # "NONE"
  BY <1>2
<1>4. cancel \subseteq Jobs /\ \A j \in cancel : job[j].status # "NONE"
  BY DEF Duplicates, Live
<1>5. attempt \in [Jobs -> 0 .. MaxAttempts]
  <2>1. ASSUME NEW j \in requeue PROVE NextDispatch(j) \in 0 .. MaxAttempts
    <3>1. job[j].attempt \in 0 .. MaxAttempts /\ ~(job[j].attempt >= MaxAttempts)
      BY <1>3 DEF TypedRows, TypeOK, JobRow, Redispatchable, Exhausted
    <3> QED
      BY <3>1, WindowAssumption DEF NextDispatch
  <2>2. 0 \in 0 .. MaxAttempts
    BY WindowAssumption
  <2> HIDE DEF requeue
  <2> QED
    BY <2>1, <2>2
<1>6. renew \subseteq Sources /\ free \subseteq Sources /\ ExpiredLeases \subseteq Sources
      /\ forget \subseteq Sources
  BY DEF ExpiredLeases
<1>7. fails \in [Sources -> 0 .. FailCap]
  <2>1. \A s \in Sources : Smaller(source[s].fails + 1, FailCap) \in 0 .. FailCap
    BY BackoffAssumption DEF TypedRows, TypeOK, SourceRow, Smaller
  <2>2. 0 \in 0 .. FailCap
    BY BackoffAssumption
  <2> HIDE DEF free
  <2> QED
    BY <2>1, <2>2
<1>8. 0 \in 0 .. JobTimeout
  BY WindowAssumption
<1> HIDE DEF fail, requeue, free, cancel, attempt, renew, forget, fails
<1> QED
  BY <1>1, <1>3, <1>4, <1>5, <1>6, <1>7, <1>8 DEF PassState, Written

\* A plan frees the sources whose holders it ends.
LEMMA PlanFrees ==
  ASSUME TypedRows, ClaimHolderIsLive, NEW reached, NEW ended
  PROVE  LET p == Plan(reached, ended) IN
         /\ \A s \in Sources : source[s].holder \in p.fail \cup p.cancel => s \in p.forget
         /\ p.forget \subseteq p.free \cup p.clear
<1> DEFINE fail == Stuck \ Redispatchable
           free == {s \in Sources : Held(s, fail)}
           cancel == Duplicates(free, ExpiredLeases, ended)
           forget == free \cup {s \in ExpiredLeases : source[s].holder # NoJob}
<1>1. LET p == Plan(reached, ended) IN
        p.fail = fail /\ p.free = free /\ p.cancel = cancel /\ p.forget = forget
        /\ p.clear = ExpiredLeases
  BY DEF Plan
<1>2. ASSUME NEW s \in Sources, source[s].holder \in fail
      PROVE  s \in forget
  BY <1>2 DEF Held
<1>3. ASSUME NEW s \in Sources, source[s].holder \in cancel
      PROVE  s \in forget
  <2>1. source[s].holder \in Jobs /\ source[s].holder # NoJob
    BY <1>3, NullAssumption DEF Duplicates
  <2>2. job[source[s].holder].source = s
    BY <2>1 DEF ClaimHolderIsLive
  <2>3. s \in ExpiredLeases
    BY <1>3, <2>2 DEF Duplicates
  <2> QED
    BY <2>1, <2>3
<1> HIDE DEF fail, free, cancel
<1> QED
  BY <1>1, <1>2, <1>3

\* A pass pushes entries of jobs that are there.
LEMMA RedispatchTyped ==
  ASSUME TypedRows, NEW reached \in SUBSET Redispatchable,
         queue' = Redispatched(reached), UNCHANGED <<source, job, run, sched>>
  PROVE  TypedRows'
<1>1. \A j \in reached : /\ j \in Jobs /\ job[j].status # "NONE"
                          /\ NextDispatch(j) \in Dispatch
  <2> SUFFICES ASSUME NEW j \in reached
               PROVE  j \in Jobs /\ job[j].status # "NONE" /\ NextDispatch(j) \in Dispatch
    OBVIOUS
  <2>1. j \in Jobs /\ job[j].status # "NONE" /\ ~(job[j].attempt >= MaxAttempts)
    BY DEF Redispatchable, Stuck, Exhausted
  <2>2. job[j].attempt \in 0 .. MaxAttempts
    BY <2>1 DEF TypedRows, TypeOK, JobRow
  <2> QED
    BY <2>1, <2>2, WindowAssumption DEF NextDispatch, Dispatch
<1>2. \A j \in Jobs : queue[j] \in [Dispatch -> QueueEntry]
  BY DEF TypedRows, TypeOK
<1>3. ASSUME NEW j \in Jobs
      PROVE  /\ queue'[j] \in [Dispatch -> QueueEntry]
             /\ j \notin reached => queue'[j] = queue[j]
  BY <1>1, <1>2, EntriesStayEntries DEF Redispatched
<1>4. queue' \in [Jobs -> [Dispatch -> QueueEntry]]
  BY <1>3 DEF Redispatched
<1>5. TypeOK'
  BY <1>4 DEF TypedRows, TypeOK
<1>6. \A j \in Jobs, k \in Dispatch : queue'[j][k].st # "absent" => job[j].status # "NONE"
  BY <1>1, <1>3 DEF TypedRows, RowsExist
<1> QED
  BY <1>5, <1>6 DEF TypedRows, RowsExist

\* What a pass writes over a source and over a job.
LEMMA RepairedRows ==
  ASSUME RecoveryTyped, NEW r \in Reconcilers
  PROVE  /\ \A s \in Sources :
              LET after == RepairedSource(source[s], pass[r], s) IN
              /\ after \in SourceRow
              /\ after.holder = IF s \in pass[r].forget THEN NoJob ELSE source[s].holder
              /\ s \notin pass[r].renew \cup pass[r].free \cup pass[r].clear \cup pass[r].forget =>
                   after = source[s]
         /\ \A j \in Jobs :
              LET after == RepairedJob(job[j], pass[r], j) IN
              /\ after \in JobRow /\ after.source = job[j].source
              /\ after.status = IF j \in pass[r].cancel THEN "CANCELLED"
                                ELSE IF j \in pass[r].fail THEN "FAILED"
                                ELSE IF j \in pass[r].requeue THEN "RETRYING" ELSE job[j].status
<1>1. PICK p : p = pass[r]
  OBVIOUS
<1>2. /\ p \in PassState /\ \A s \in Sources : source[s] \in SourceRow
      /\ \A j \in Jobs : job[j] \in JobRow
  BY <1>1 DEF RecoveryTyped, TypedRows, TypeOK
<1>3. /\ p.age \in 0 .. JobTimeout /\ p.attempt \in [Jobs -> 0 .. MaxAttempts]
      /\ p.fails \in [Sources -> 0 .. FailCap]
  BY <1>2 DEF PassState
<1>4. /\ Lease - p.age \in Unleased .. Lease /\ Unleased \in Unleased .. Lease
      /\ Smaller(p.age, QueuedStale + 1) \in -RetryDelay .. QueuedStale + 1
  BY <1>3, WindowAssumption DEF Unleased, Smaller
<1>5. ASSUME NEW s \in Sources
      PROVE  LET after == RepairedSource(source[s], p, s) IN
             /\ after \in SourceRow
             /\ after.holder = IF s \in p.forget THEN NoJob ELSE source[s].holder
             /\ s \notin p.renew \cup p.free \cup p.clear \cup p.forget => after = source[s]
  <2>1. PICK row : row = source[s]
    OBVIOUS
  <2>2. PICK h, l, n, f :
          /\ h = IF s \in p.forget THEN NoJob ELSE row.holder
          /\ l = IF s \in p.free \cup p.clear THEN Unleased
                 ELSE IF s \in p.renew THEN Lease - p.age ELSE row.lease
          /\ n = IF s \in p.free \cup p.clear THEN 0 ELSE row.next
          /\ f = IF s \in p.free THEN p.fails[s] ELSE row.fails
    OBVIOUS
  <2>3. RepairedSource(source[s], p, s)
          = [row EXCEPT !.holder = h, !.lease = l, !.next = n, !.fails = f]
    BY <2>1, <2>2 DEF RepairedSource
  <2>4. row \in SourceRow
    BY <1>2, <2>1
  <2>5. /\ row.holder \in Jobs \cup {NoJob} /\ row.lease \in Unleased .. Lease
        /\ row.next \in Nat /\ row.fails \in 0 .. FailCap
    BY <2>4 DEF SourceRow
  <2>6. /\ h \in Jobs \cup {NoJob} /\ l \in Unleased .. Lease
        /\ n \in Nat /\ f \in 0 .. FailCap
    BY <1>3, <1>4, <2>2, <2>5
  <2>7. LET after == [row EXCEPT !.holder = h, !.lease = l, !.next = n, !.fails = f] IN
          after \in SourceRow /\ after.holder = h
    BY <2>4, <2>6 DEF SourceRow
  <2>8. h = row.holder /\ l = row.lease /\ n = row.next /\ f = row.fails =>
          [row EXCEPT !.holder = h, !.lease = l, !.next = n, !.fails = f] = row
    BY <2>4 DEF SourceRow
  <2> QED
    BY <2>1, <2>2, <2>3, <2>7, <2>8
<1>6. ASSUME NEW j \in Jobs
      PROVE  LET after == RepairedJob(job[j], p, j) IN
             /\ after \in JobRow /\ after.source = job[j].source
             /\ after.status = IF j \in p.cancel THEN "CANCELLED"
                               ELSE IF j \in p.fail THEN "FAILED"
                               ELSE IF j \in p.requeue THEN "RETRYING" ELSE job[j].status
  <2>1. PICK row : row = job[j]
    OBVIOUS
  <2>2. PICK st, a, o :
          /\ st = IF j \in p.cancel THEN "CANCELLED"
                  ELSE IF j \in p.fail THEN "FAILED"
                  ELSE IF j \in p.requeue THEN "RETRYING" ELSE row.status
          /\ a = IF j \in p.requeue THEN p.attempt[j] ELSE row.attempt
          /\ o = IF j \in p.requeue THEN Smaller(p.age, QueuedStale + 1) ELSE row.overdue
    OBVIOUS
  <2>3. RepairedJob(job[j], p, j) = [row EXCEPT !.status = st, !.attempt = a, !.overdue = o]
    BY <2>1, <2>2 DEF RepairedJob
  <2> DEFINE Overdue == -RetryDelay .. QueuedStale + 1
             Attempt == 0 .. MaxAttempts
             Status == {"NONE"} \cup Live \cup Terminal
  <2>4. JobRow = [status : Status, source : Sources \cup {NoSource},
                  overdue : Overdue, attempt : Attempt]
    BY DEF JobRow
  <2>5. row \in JobRow
    BY <1>2, <2>1
  <2>6. row.status \in Status /\ row.overdue \in Overdue /\ row.attempt \in Attempt
    BY <2>4, <2>5
  <2>7. "CANCELLED" \in Status /\ "FAILED" \in Status /\ "RETRYING" \in Status
    BY DEF Live, Terminal
  <2>8. p.attempt[j] \in Attempt /\ Smaller(p.age, QueuedStale + 1) \in Overdue
    BY <1>3, <1>4
  <2> HIDE DEF Overdue, Attempt, Status
  <2>9. st \in Status /\ a \in Attempt /\ o \in Overdue
    BY <2>2, <2>6, <2>7, <2>8
  <2>10. LET after == [row EXCEPT !.status = st, !.attempt = a, !.overdue = o] IN
           after \in JobRow /\ after.source = row.source /\ after.status = st
    BY <2>4, <2>5, <2>9
  <2> QED
    BY <2>1, <2>2, <2>3, <2>10
<1> QED
  BY <1>1, <1>5, <1>6

\* What a pass commits is typed, and its rows are there.
LEMMA CommitPassTyped ==
  ASSUME RecoveryTyped, NEW r \in Reconcilers, CommitPass(r)
  PROVE  TypedRows' /\ NoGrant /\ NoRevival
<1>1. /\ source' = [s \in Sources |-> RepairedSource(source[s], pass[r], s)]
      /\ job' = [j \in Jobs |-> RepairedJob(job[j], pass[r], j)]
      /\ UNCHANGED <<queue, run, sched>>
  BY DEF CommitPass
<1>2. TypeOK'
  BY <1>1, RepairedRows DEF RecoveryTyped, TypedRows, TypeOK
<1>3. \A s \in Sources : source'[s].holder \in {source[s].holder, NoJob}
  BY <1>1, RepairedRows
<1>4. ASSUME NEW j \in Jobs
      PROVE  /\ job'[j].source = job[j].source
             /\ job'[j].status = "NONE" <=> job[j].status = "NONE"
  <2>1. job[j].status = "NONE" => j \notin Written(pass[r])
    BY DEF RecoveryTyped, PlansExist
  <2> QED
    BY <1>1, <2>1, RepairedRows DEF Written
<1>5. RowsExist'
  BY <1>1, <1>4, WorkFacts DEF RecoveryTyped, TypedRows, RowsExist
<1> QED
  BY <1>2, <1>3, <1>4, <1>5 DEF NoGrant, NoRevival, TypedRows

LEMMA CommitPassKeeps ==
  ASSUME RecoveryInv, NEW r \in Reconcilers, CommitPass(r)
  PROVE  RecoveryInv'
<1> USE DEF RecoveryInv, RecoveryTyped
<1>1. /\ source' = [s \in Sources |-> RepairedSource(source[s], pass[r], s)]
      /\ job' = [j \in Jobs |-> RepairedJob(job[j], pass[r], j)]
      /\ pass' = [pass EXCEPT ![r] = IdlePass]
      /\ UNCHANGED <<queue, run, sched>>
      /\ \A s \in pass[r].renew \cup pass[r].free \cup pass[r].clear : ~ClaimLocked(s)
  BY DEF CommitPass
<1>2. TypedRows' /\ NoRevival /\ NoGrant
  BY CommitPassTyped
<1>3. pass' \in [Reconcilers -> PassState] /\ \A q \in Reconcilers : PlanStays(q)
  BY <1>1, PassesTyped DEF PlanStays
<1>4. PlansFree' /\ PlansExist'
  BY <1>2, <1>3, PlansStayFree
<1>5. RunsKnowTheirClaim'
  BY <1>1, <1>2, RunsKeepKnowing
<1>6. \A s \in Sources : ClaimLocked(s) => source'[s] = source[s]
  <2>1. pass[r].forget \subseteq pass[r].free \cup pass[r].clear
    BY DEF PlansFree
  <2> QED
    BY <1>1, <2>1, RepairedRows
<1>7. \A s \in Sources : BeingCrawled(s)' => BeingCrawled(s)
  BY <1>1, <1>2, WorkFacts DEF BeingCrawled, NoGrant
<1>8. LocksHold'
  BY <1>1, <1>2, <1>6, <1>7, LocksStay
<1>9. ClaimHolderIsLive'
  <2> SUFFICES ASSUME NEW s \in Sources, source'[s].holder # NoJob
               PROVE  /\ job'[source'[s].holder].status \in Live
                      /\ job'[source'[s].holder].source = s
    BY DEF ClaimHolderIsLive
  <2>1. s \notin pass[r].forget /\ source'[s].holder = source[s].holder
    BY <1>1, RepairedRows
  <2>2. /\ source[s].holder \in Jobs /\ job[source[s].holder].status \in Live
        /\ job[source[s].holder].source = s
    BY <2>1, WorkFacts DEF ClaimHolderIsLive
  <2>3. source[s].holder \notin pass[r].fail \cup pass[r].cancel
    BY <2>1 DEF PlansFree
  <2> QED
    BY <1>1, <2>1, <2>2, <2>3, RepairedRows DEF Live
<1> QED
  BY <1>2, <1>3, <1>4, <1>5, <1>8, <1>9

\* A step that leaves rows, runs and scheduling passes alone.
LEMMA RowsUntouched ==
  ASSUME Kept, UNCHANGED <<source, job, run, sched>>
  PROVE  Kept' /\ NoRevival /\ NoGrant
BY DEF Kept, LocksHold, RunsKnowTheirClaim, ClaimHolderIsLive, NoRevival, NoGrant,
       BeingCrawled, RowOf

LEMMA ReconcileKeeps ==
  ASSUME RecoveryInv, NEW r \in Reconcilers, NEW reached \in SUBSET Redispatchable,
         Reconcile(r, reached)
  PROVE  RecoveryInv'
<1>1. UNCHANGED <<source, job, run, sched>> /\ queue' = Redispatched(reached)
  BY DEF Reconcile
<1>2. TypedRows' /\ Kept'
  BY <1>1, RedispatchTyped, RowsUntouched DEF RecoveryInv, RecoveryTyped, Kept
<1>3. PICK ended : pass' = [pass EXCEPT ![r] = Plan(reached, ended)]
  BY DEF Reconcile
<1>4. PICK plan : plan = Plan(reached, ended)
  OBVIOUS
<1>5. /\ pass'[r] = plan /\ \A q \in Reconcilers : q # r => pass'[q] = pass[q]
      /\ plan \in PassState /\ pass' \in [Reconcilers -> PassState]
      /\ \A j \in Written(plan) : job[j].status # "NONE"
  BY <1>3, <1>4, PlanTyped DEF RecoveryInv, RecoveryTyped
<1>6. PlansExist'
  BY <1>1, <1>5 DEF RecoveryInv, RecoveryTyped, PlansExist
<1>7. /\ \A s \in Sources : source[s].holder \in plan.fail \cup plan.cancel => s \in plan.forget
      /\ plan.forget \subseteq plan.free \cup plan.clear
  BY <1>4, PlanFrees DEF RecoveryInv, RecoveryTyped
<1>8. PlansFree'
  BY <1>1, <1>5, <1>7 DEF RecoveryInv, PlansFree
<1> QED
  BY <1>2, <1>5, <1>6, <1>8 DEF RecoveryInv, RecoveryTyped, Kept

\* The other steps of reconcilers, and results that expire.
LEMMA QuietPassKeeps ==
  ASSUME RecoveryInv,
         \/ \E r \in Reconcilers : \E reached \in SUBSET Redispatchable : DryRun(r, reached)
         \/ \E r \in Reconcilers : AbortPass(r)
         \/ \E j \in Jobs, k \in Dispatch : ResultExpires(j, k)
  PROVE  RecoveryInv'
<1> USE DEF RecoveryInv, RecoveryTyped
<1>1. UNCHANGED <<source, job, run, sched>>
  BY DEF DryRun, AbortPass, ResultExpires
<1>2. Kept' /\ NoRevival
  BY <1>1, RowsUntouched DEF Kept
<1>3. pass' \in [Reconcilers -> PassState] /\ \A q \in Reconcilers : PlanStays(q)
  BY PassesTyped DEF DryRun, AbortPass, ResultExpires, PlanStays
<1>4. PlansFree' /\ PlansExist'
  BY <1>2, <1>3, PlansStayFree
<1>5. TypedRows'
  <2>1. ASSUME NEW r \in Reconcilers, NEW reached \in SUBSET Redispatchable, DryRun(r, reached)
        PROVE  TypedRows'
    BY <1>1, <2>1, RedispatchTyped DEF DryRun
  <2>2. ASSUME NEW r \in Reconcilers, AbortPass(r)
        PROVE  TypedRows'
    BY <1>1, <2>2 DEF AbortPass, TypedRows, TypeOK, RowsExist
  <2>3. ASSUME NEW j \in Jobs, NEW k \in Dispatch, ResultExpires(j, k)
        PROVE  TypedRows'
    <3>1. /\ queue' = [queue EXCEPT ![j][k] = NoEntry] /\ NoEntry \in QueueEntry
          /\ queue \in [Jobs -> [Dispatch -> QueueEntry]] /\ queue[j][k].st = "done"
      BY <2>3, EntriesStayEntries DEF ResultExpires, TypedRows, TypeOK
    <3>2. queue' \in [Jobs -> [Dispatch -> QueueEntry]]
      BY <3>1
    <3>3. \A i \in Jobs, m \in Dispatch : queue'[i][m] \in {queue[i][m], NoEntry}
      BY <3>1
    <3>4. NoEntry.st = "absent"
      BY DEF NoEntry
    <3>5. \A i \in Jobs, m \in Dispatch :
            queue'[i][m].st = queue[i][m].st \/ queue'[i][m].st = "absent"
      BY <3>3, <3>4
    <3> QED
      BY <1>1, <3>2, <3>5, <3>3, <3>4 DEF TypedRows, TypeOK, RowsExist
  <2> QED
    BY <2>1, <2>2, <2>3
<1> QED
  BY <1>2, <1>3, <1>4, <1>5 DEF Kept

LEMMA RecoveryTickKeeps ==
  ASSUME RecoveryInv, RecoveryTick
  PROVE  RecoveryInv'
<1> USE DEF RecoveryInv, RecoveryTyped
<1>1. ClockTick /\ pass' = [r \in Reconcilers |->
        IF pass[r].pc = "idle" THEN pass[r]
        ELSE [pass[r] EXCEPT !.age = Smaller(@ + 1, JobTimeout)]]
  BY DEF RecoveryTick
<1>2. TypedRows' /\ Kept' /\ NoRevival
  BY <1>1, TickTyped, NextKeeps DEF Kept, Next
<1>3. pass' \in [Reconcilers -> PassState]
  BY <1>1, PassesTyped
<1>4. ASSUME NEW r \in Reconcilers
      PROVE  PlanStays(r)
  <2>1. pass'[r] = IF pass[r].pc = "idle" THEN pass[r]
                   ELSE [pass[r] EXCEPT !.age = Smaller(@ + 1, JobTimeout)]
    BY <1>1
  <2> QED
    BY <2>1 DEF PlanStays, PassState
<1> QED
  BY <1>2, <1>3, <1>4, PlansStayFree DEF Kept

-----------------------------------------------------------------------------
(* The invariant is inductive                                              *)

LEMMA RecoveryStarts == RecoveryInit => RecoveryInv
<1> SUFFICES ASSUME RecoveryInit PROVE RecoveryInv
  OBVIOUS
<1>1. TypedRows /\ pass \in [Reconcilers -> PassState]
  BY InitTyped, PassesTyped DEF RecoveryInit
<1>2. LocksHold /\ RunsKnowTheirClaim /\ ClaimHolderIsLive
  BY DEF RecoveryInit, Init, LocksHold, RunsKnowTheirClaim, ClaimHolderIsLive,
         NewSource, IdleRun, IdleSched
<1>3. PlansExist /\ PlansFree
  BY DEF RecoveryInit, PlansExist, PlansFree, IdlePass, Written
<1> QED
  BY <1>1, <1>2, <1>3 DEF RecoveryInv, RecoveryTyped

\* The steps of a RecoveryNext that SourceClaims does not know.
ReconcilerStep ==
  \/ \E j \in Jobs, k \in Dispatch : ResultExpires(j, k)
  \/ \E r \in Reconcilers : RecoveryStep(r)

LEMMA RecoveryInductive == RecoveryInv /\ [RecoveryNext]_recoveryVars => RecoveryInv'
<1> SUFFICES ASSUME RecoveryInv, [RecoveryNext]_recoveryVars PROVE RecoveryInv'
  OBVIOUS
<1>1. CASE Next /\ UNCHANGED pass
  <2>1. TypedRows' /\ Kept' /\ NoRevival
    BY <1>1, TypedRowsInductive, NextKeeps DEF RecoveryInv, RecoveryTyped, Kept
  <2>2. PlansFree' /\ PlansExist'
    BY <1>1, <2>1, PlansStayFree DEF RecoveryInv, RecoveryTyped, PlanStays
  <2> QED
    BY <1>1, <2>1, <2>2 DEF RecoveryInv, RecoveryTyped, Kept
<1>2. CASE ReconcilerStep
  BY <1>2, ReconcileKeeps, CommitPassKeeps, QuietPassKeeps DEF ReconcilerStep, RecoveryStep
<1>3. CASE RecoveryTick
  BY <1>3, RecoveryTickKeeps
<1>4. CASE UNCHANGED recoveryVars
  BY <1>4 DEF recoveryVars, RecoveryInv, RecoveryTyped, TypedRows, TypeOK, RowsExist, PlansExist,
         LocksHold, RunsKnowTheirClaim, ClaimHolderIsLive, PlansFree, BeingCrawled, RowOf
<1> QED
  BY <1>1, <1>2, <1>3, <1>4 DEF RecoveryNext, Next, ReconcilerStep

\* Every row, entry, process memory and open pass keeps its shape, whatever a pass has
\* decided about rows that changed before it commits (job_recovery.py beside the claims).
THEOREM RecoveryTypeSafe == RecoverySpec => []RecoveryTypeOK
<1>1. RecoveryInv => RecoveryTypeOK
  BY DEF RecoveryInv, RecoveryTyped, TypedRows, RecoveryTypeOK
<1> QED
  BY <1>1, RecoveryStarts, RecoveryInductive, PTL DEF RecoverySpec

\* The job a source is claimed by is live and is a job of that source, whatever passes
\* fail, cancel and free from what they read before others wrote.
THEOREM RecoveryHoldersAreLive == RecoverySpec => []ClaimHolderIsLive
<1>1. RecoveryInv => ClaimHolderIsLive
  BY DEF RecoveryInv
<1> QED
  BY <1>1, RecoveryStarts, RecoveryInductive, PTL DEF RecoverySpec

-----------------------------------------------------------------------------
(* What a grant needs                                                      *)

\* Only claim transactions grant, and they have locked lapsed, uncrawled rows.
LEMMA RecoveryGrants ==
  ASSUME RecoveryInv, RecoveryNext
  PROVE  \/ \E p \in Schedulers :
              /\ CommitClaims(p)
              /\ \A s \in sched[p].locked : source[s].lease <= 0 /\ ~BeingCrawled(s)
         \/ NoGrant
<1> USE DEF RecoveryInv, RecoveryTyped
<1>1. ASSUME NEW p \in Schedulers, CommitClaims(p)
      PROVE  \A s \in sched[p].locked : source[s].lease <= 0 /\ ~BeingCrawled(s)
  BY <1>1 DEF CommitClaims, LocksHold
<1>2. CASE Next /\ \A p \in Schedulers : ~CommitClaims(p)
  BY <1>2, OnlyClaimsGrant
<1>3. ASSUME NEW r \in Reconcilers, CommitPass(r)
      PROVE  NoGrant
  BY <1>3, CommitPassTyped
<1>4. CASE UNCHANGED <<source, job>>
  BY <1>4 DEF NoGrant
<1> QED
  BY <1>1, <1>2, <1>3, <1>4
  DEF RecoveryNext, Next, RecoveryStep, RecoveryTick, ResultExpires, Reconcile, DryRun, AbortPass

\* No claim is granted on a source while a run is crawling it, not even when a pass has
\* meanwhile dropped the claim that crawl was started for.
THEOREM RecoveryGrantsNotMidCrawl == RecoverySpec => RecoveryNeverClaimsMidCrawl
<1> DEFINE Unharmed == \A s \in Sources :
             source[s]'.holder \notin {source[s].holder, NoJob} => ~BeingCrawled(s)
<1>1. RecoveryInv /\ [RecoveryNext]_recoveryVars => [Unharmed]_recoveryVars
  <2> SUFFICES ASSUME RecoveryInv, RecoveryNext, NEW s \in Sources,
                      source'[s].holder \notin {source[s].holder, NoJob}
               PROVE  ~BeingCrawled(s)
    OBVIOUS
  <2>1. PICK p \in Schedulers :
          /\ CommitClaims(p)
          /\ \A t \in sched[p].locked : source[t].lease <= 0 /\ ~BeingCrawled(t)
    BY RecoveryGrants DEF NoGrant
  <2>2. s \in sched[p].locked
    BY <2>1 DEF CommitClaims
  <2> QED
    BY <2>1, <2>2
<1> QED
  BY <1>1, RecoveryStarts, RecoveryInductive, PTL
  DEF RecoverySpec, RecoveryNeverClaimsMidCrawl, Unharmed

\* Claiming still implements the lease of ClaimLease beside the reconciler: a pass extends,
\* drops or forgets claims, it never grants one.
THEOREM RecoveryKeepsLease == RecoverySpec => RecoveryImplementsClaimLease
<1>1. RecoveryInit => Leases!Init
  BY DEF RecoveryInit, Init, Leases!Init, NewSource, Unleased, Leases!Unleased, FreshJobs, NoRow
<1>2. RecoveryInv /\ [RecoveryNext]_recoveryVars => [Leases!Next]_(Leases!leaseVars)
  <2> SUFFICES ASSUME RecoveryInv, [RecoveryNext]_recoveryVars
               PROVE  [Leases!Next]_(Leases!leaseVars)
    OBVIOUS
  <2>1. TypedRows /\ TypeOK'
    BY RecoveryInductive DEF RecoveryInv, RecoveryTyped, TypedRows
  <2>2. CASE RecoveryNext
    BY <2>1, <2>2, RecoveryGrants, CommitClaimsGrants, NoGrantChanges DEF Leases!Next
  <2>3. CASE UNCHANGED recoveryVars
    BY <2>3 DEF recoveryVars, Leases!leaseVars, FreshJobs
  <2> QED
    BY <2>2, <2>3
<1> QED
  BY <1>1, <1>2, RecoveryStarts, RecoveryInductive, PTL
  DEF RecoverySpec, RecoveryImplementsClaimLease, Leases!Spec
=============================================================================

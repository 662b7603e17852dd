------------------------------- MODULE ApiAccess -------------------------------
(***************************************************************************)
(* Who may use the API, and how often: keys (ApiKeyService and             *)
(* scripts/manage_api_keys.py), the authentication dependency (app/api/    *)
(* auth.py), the limiter of each API process, and the middleware that      *)
(* limits the public paths.                                                *)
(*                                                                         *)
(* A request awaits the database and Redis between its steps, and requests *)
(* of several processes run at once.  A route under /api-keys, and the     *)
(* reconcile route, authenticates twice: the router and the route each     *)
(* build a dependency of their own with require_scope, and FastAPI caches  *)
(* by identity.                                                            *)
(*                                                                         *)
(* A request's transaction is rolled back when it is refused (get_session) *)
(* and keeps what it committed.  Written together with a status: its stamp *)
(* and reason, which the code changes nowhere else.                        *)
(***************************************************************************)
EXTENDS RateLimit

CONSTANTS
  Keys,         \* rows of api_keys, present or to come
  Grants,       \* [Keys -> {"read", "admin", "none"}]: scopes of the keys of Init
  Lifetimes,    \* [Keys -> ticks or Never]: expires_at of the keys of Init
  Ips,          \* addresses of clients without a key
  Replicas,     \* API processes
  Requests,     \* requests that are served at the same time
  Calls,        \* what clients ask for: <<key or address, kind of route, key to revoke>>
  Terms,        \* how long a new key may live: ticks or Never
  NewScopes,    \* what a new key may be granted
  Start,        \* the time histories begin at
  Configs,      \* settings, see Config
  MaxTime,      \* bound on the clock
  MaxEvents,    \* bound on outages, restarts, failing statements, operator's commands
  MaxCalls,     \* bound on the requests of a history
  Never, None

Tiers == {"anonymous", "authenticated", "admin"}
Paths == {"public", "read", "list", "revoke", "create"}
Answers == {"200", "401", "403", "404", "422", "429", "503", "unavailable"}
Config == [enforce : BOOLEAN, limit : BOOLEAN, failOpen : BOOLEAN, selfService : BOOLEAN]

ASSUME AccessAssumption ==
  /\ DOMAIN Allowed = Tiers /\ Configs \subseteq Config
  /\ Calls \subseteq (Keys \cup Ips) \X Paths \X (Keys \cup {None})
  /\ \A call \in Calls : /\ call[2] = "public" => call[1] \in Ips
                         /\ call[2] = "revoke" <=> call[3] # None
  /\ Terms \subseteq (Nat \ {0}) \cup {Never}
  /\ {Start, MaxTime, MaxEvents, MaxCalls} \subseteq Nat /\ Start <= MaxTime
  /\ NewScopes \subseteq {"read", "admin"}
  /\ Grants \in [Keys -> {"read", "admin", "none"}]
  /\ Lifetimes \in [Keys -> (1..MaxTime) \cup {Never}] /\ Never \notin Nat
  /\ None \notin Keys \cup Ips \cup Replicas \cup Paths \cup Answers
  /\ Keys \cap Ips = {} /\ "redis" \notin Replicas

VARIABLES
  config,    \* settings, the same in every process
  now,
  keys,      \* api_keys, committed
  redis,     \* the counters of the present window, and whether Redis answers
  replica,   \* each API process: has it a primary, and its own counters
  req,       \* requests
  admitted,  \* per limiter and bucket: requests let through in the present window
  lost,      \* per process: buckets whose count of the present window was evicted
  calls,     \* requests so far
  events     \* outages, restarts, failing statements and operator's commands so far

vars == <<config, now, keys, redis, replica, req, admitted, lost, calls, events>>

-----------------------------------------------------------------------------
(* Rows and requests                                                       *)

Row == [status : {"absent", "ACTIVE", "REVOKED", "EXPIRED"}, scope : {"read", "admin", "none"},
        expires : Nat \cup {Never}, used : BOOLEAN]

NoRow == [status |-> "absent", scope |-> "none", expires |-> Never, used |-> FALSE]
NewRow(scope, expires) == [status |-> "ACTIVE", scope |-> scope, expires |-> expires, used |-> FALSE]

PastExpiry(row) == row.expires # Never /\ row.expires <= now

\* ApiKey.is_valid
IsValid(row) == row.status = "ACTIVE" /\ ~PastExpiry(row)

\* The scope the router names; ApiKey.grants
Needs(kind) == IF kind = "read" THEN "read" ELSE "admin"
Granted(row, scope) == row.scope \in {"admin", scope}

Tier(row) == IF Granted(row, "admin") THEN "admin" ELSE "authenticated"
Buckets == ({"authenticated", "admin"} \X Keys) \cup ({"anonymous"} \X Ips)

\* Dependencies that authenticate a request: the router's, and the route's own.
Passes(kind) == IF kind \in {"public", "read"} THEN 1 ELSE 2

\* A row that does not exist yet.
Unused == {k \in Keys : keys[k].status = "absent"}
Issued == Keys \ Unused

\* late: the key was issued and could no longer be used when the request came in.
\* counted: the limiters that let it through.  slack: when it may try again, in
\* ticks from the end of the window.
NoReq == [phase |-> "idle", kind |-> None, at |-> None, key |-> None, target |-> None,
          seen |-> NoRow, pass |-> 0, late |-> FALSE, counted |-> {},
          answer |-> None, slack |-> 0]

Init ==
  /\ config \in Configs
  /\ now = Start
  /\ keys = [k \in Keys |-> IF Grants[k] = "none" THEN NoRow ELSE NewRow(Grants[k], Lifetimes[k])]
  /\ redis \in [up : BOOLEAN, hits : {[b \in Buckets |-> NoKey]}]
  /\ replica = [p \in Replicas |-> [primary |-> redis.up, counters |-> <<>>]]
  /\ req = [r \in Requests |-> NoReq]
  /\ admitted = [s \in Replicas \cup {"redis"} |-> [b \in Buckets |-> 0]]
  /\ lost = [p \in Replicas |-> {}]
  /\ calls = 0 /\ events = 0

-----------------------------------------------------------------------------
(* A request comes in                                                      *)

Free(r) == req[r].phase \in {"idle", "done"}

Becomes(r, record) == req' = [req EXCEPT ![r] = record]

\* The end of a request: what remains is what was answered.
Ended(record, answer) ==
  [NoReq EXCEPT !.phase = "done", !.answer = answer, !.kind = record.kind, !.late = record.late,
                !.counted = record.counted, !.slack = record.slack]

\* PublicRateLimitMiddleware leaves the data routes to the dependency; that one refuses
\* a call without a credential, or takes it for anonymous, and reads the key of others.
FirstPhase(call) ==
  CASE call[1] \in Keys -> "verify"
    [] call[1] \in Ips /\ call[2] # "public" /\ config.enforce -> "refused"
    [] OTHER -> IF config.limit THEN "limit" ELSE "handle"

Arrive(r, call, p) ==
  LET came == [NoReq EXCEPT !.phase = FirstPhase(call), !.kind = call[2], !.at = p, !.pass = 1,
                            !.key = call[1], !.target = call[3],
                            !.late = call[1] \in Issued /\ ~IsValid(keys[call[1]])]
  IN
  /\ Free(r) /\ calls < MaxCalls
  /\ call[1] \in Keys => config.enforce
  /\ Becomes(r, IF came.phase = "refused" THEN Ended(came, "401") ELSE came)
  /\ calls' = calls + 1
  /\ UNCHANGED <<config, now, keys, redis, replica, admitted, lost, events>>

-----------------------------------------------------------------------------
(* authenticate                                                            *)

\* Mutant: the row seen by an earlier request is good enough.
Remembered(r) ==
  LET others == {s \in Requests : req[s].key = req[r].key /\ req[s].seen # NoRow}
  IN  IF others = {} THEN keys[req[r].key] ELSE req[CHOOSE s \in others : TRUE].seen

\* Every request reads the row; there is no cache.
Read(r) == keys[req[r].key]

\* ApiKeyService.verify, up to its first write
Verify(r) ==
  LET row == Read(r)
      answer == IF IsValid(row) THEN "403" ELSE "401"
      past == PastExpiry(row) /\ row.status # "REVOKED"
  IN
  /\ req[r].phase = "verify"
  /\ \/ /\ IsValid(row) /\ Granted(row, Needs(req[r].kind))
        /\ Becomes(r, [req[r] EXCEPT !.seen = row, !.phase = IF config.limit THEN "limit" ELSE "touch"])
     \/ /\ ~(IsValid(row) /\ Granted(row, Needs(req[r].kind)))
        /\ Becomes(r, IF past THEN [req[r] EXCEPT !.phase = "expire"] ELSE Ended(req[r], answer))
  /\ UNCHANGED <<config, now, keys, redis, replica, admitted, lost, calls, events>>

\* A database error while authenticating.
VerifyFails(r) ==
  /\ req[r].phase = "verify" /\ events < MaxEvents
  /\ Becomes(r, Ended(req[r], "503"))
  /\ events' = events + 1
  /\ UNCHANGED <<config, now, keys, redis, replica, admitted, lost, calls>>

\* Mutant: the refusal keeps what it flushed.
Kept(r) == [keys EXCEPT ![req[r].key].status = "EXPIRED"]

\* The rows after the request's rollback: not what it flushed.
RolledBack(r) == keys

\* verify flushes EXPIRED and raises.
RefuseExpired(r) ==
  /\ req[r].phase = "expire"
  /\ keys' = RolledBack(r)
  /\ Becomes(r, Ended(req[r], "401"))
  /\ UNCHANGED <<config, now, redis, replica, admitted, lost, calls, events>>

\* The bucket of _limit, and of the middleware.
BucketOf(r) ==
  IF req[r].key \in Keys THEN <<Tier(req[r].seen), req[r].key>> ELSE <<"anonymous", req[r].key>>

\* Onward after a pass: the next dependency, or the route.
NextPass(record) ==
  IF record.pass < Passes(record.kind)
  THEN [record EXCEPT !.pass = @ + 1, !.phase = IF record.key \in Keys THEN "verify" ELSE "limit",
                      !.seen = NoRow]
  ELSE [record EXCEPT !.phase = "handle"]

\* What follows a decision: the middleware goes on when the limiter raised.
AfterLimit(r, decision) ==
  LET passed == [req[r] EXCEPT !.counted = @ \cup {decision.by}]
  IN  CASE decision.by = "none" /\ req[r].kind = "public" -> [req[r] EXCEPT !.phase = "handle"]
        [] decision.by = "none" /\ req[r].kind # "public" -> Ended(req[r], "unavailable")
        [] decision.by # "none" /\ decision.allowed ->
             IF req[r].key \in Keys THEN [passed EXCEPT !.phase = "touch"] ELSE NextPass(passed)
        [] OTHER ->
             Ended([passed EXCEPT
                      !.slack = now + decision.seconds * TicksPerSecond - WindowEnd(now)], "429")

Admits(site, b, decision) ==
  admitted' = IF decision.allowed THEN [admitted EXCEPT ![site][b] = Another(@, b)] ELSE admitted

\* The primary answers.
LimitInRedis(r) ==
  LET b == BucketOf(r)
      key == Incremented(redis.hits[b], b, now)
      decision == Decision("redis", key.hits, b, Seconds(key.until - now))
  IN
  /\ req[r].phase = "limit" /\ replica[req[r].at].primary /\ redis.up
  /\ redis' = [redis EXCEPT !.hits[b] = key]
  /\ Admits("redis", b, decision)
  /\ Becomes(r, AfterLimit(r, decision))
  /\ UNCHANGED <<config, now, keys, replica, lost, calls, events>>

\* Mutant: without a primary the process counts on its own, whatever the policy.
FallsBackAnyway(p) == config.failOpen \/ ~replica[p].primary

\* The fallback may stand in for the primary.
FallsBack(p) == config.failOpen

\* ResilientRateLimiter without an answer of the primary.
Degraded(r) ==
  LET p == req[r].at
      b == BucketOf(r)
      decision == IF FallsBack(p)
        THEN Decision("process", InProcessHits(replica[p].counters, b), b,
                      Seconds(WindowEnd(now) - now))
        ELSE [by |-> "none", allowed |-> FALSE, seconds |-> 0]
  IN
  /\ Becomes(r, AfterLimit(r, decision))
  /\ Admits(p, b, decision)
  /\ IF FallsBack(p)
     THEN /\ replica' = [replica EXCEPT ![p].counters = InProcess(@, b)]
          /\ lost' = [lost EXCEPT ![p] =
               @ \cup {e \in Evicted(replica[p].counters, b) : Counted(replica[p].counters, e)}]
     ELSE UNCHANGED <<replica, lost>>

LimitInProcess(r) ==
  /\ req[r].phase = "limit" /\ (~replica[req[r].at].primary \/ ~redis.up)
  /\ Degraded(r)
  /\ UNCHANGED <<config, now, keys, redis, calls, events>>

\* Redis counts, and its answer is lost.
LimitAnswerLost(r) ==
  LET b == BucketOf(r) IN
  /\ req[r].phase = "limit" /\ replica[req[r].at].primary /\ redis.up /\ events < MaxEvents
  /\ redis' = [redis EXCEPT !.hits[b] = Incremented(@, b, now)]
  /\ Degraded(r)
  /\ events' = events + 1
  /\ UNCHANGED <<config, now, keys, calls>>

\* Mutant: the whole row goes back, as it was read.
WholeRow(r) == [req[r].seen EXCEPT !.used = TRUE]

\* The UPDATE writes the columns that changed.
UsedRow(r) == [keys[req[r].key] EXCEPT !.used = TRUE]

\* touch and its commit
Touch(r) ==
  /\ req[r].phase = "touch"
  /\ keys' = [keys EXCEPT ![req[r].key] = UsedRow(r)]
  /\ Becomes(r, NextPass(req[r]))
  /\ UNCHANGED <<config, now, redis, replica, admitted, lost, calls, events>>

\* Auditing must not break the request: rolled back, and on.
TouchFails(r) ==
  /\ req[r].phase = "touch" /\ events < MaxEvents
  /\ Becomes(r, NextPass(req[r]))
  /\ events' = events + 1
  /\ UNCHANGED <<config, now, keys, redis, replica, admitted, lost, calls>>

-----------------------------------------------------------------------------
(* The routes, and scripts/manage_api_keys.py                              *)

\* Routes that only read, and public paths.
HandleRead(r) ==
  /\ req[r].phase = "handle" /\ req[r].kind \in {"public", "read", "list"}
  /\ Becomes(r, Ended(req[r], "200"))
  /\ UNCHANGED <<config, now, keys, redis, replica, admitted, lost, calls, events>>

\* Mutant: a status the CHECK does not know.
Suspended(k) == [keys EXCEPT ![k].status = "SUSPENDED"]

\* ApiKeyService.revoke, whatever the row's status
Revoked(k) == [keys EXCEPT ![k].status = "REVOKED"]

HandleRevoke(r) ==
  LET k == req[r].target IN
  /\ req[r].phase = "handle" /\ req[r].kind = "revoke"
  /\ IF k \in Issued
     THEN keys' = Revoked(k) /\ Becomes(r, Ended(req[r], "200"))
     ELSE UNCHANGED keys /\ Becomes(r, Ended(req[r], "404"))
  /\ UNCHANGED <<config, now, redis, replica, admitted, lost, calls, events>>

\* expires_at of a new key lies ahead.
Futures == {IF term = Never THEN Never ELSE now + term : term \in Terms}

HandleCreate(r, k, scope, expires) ==
  /\ req[r].phase = "handle" /\ req[r].kind = "create" /\ config.selfService
  /\ k \in Unused /\ scope \in NewScopes /\ expires \in Futures
  /\ keys' = [keys EXCEPT ![k] = NewRow(scope, expires)]
  /\ Becomes(r, Ended(req[r], "200"))
  /\ UNCHANGED <<config, now, redis, replica, admitted, lost, calls, events>>

\* No self-service, or a request create() does not accept (name, scopes, expiry).
HandleCreateRefused(r) ==
  /\ req[r].phase = "handle" /\ req[r].kind = "create"
  /\ Becomes(r, Ended(req[r], IF config.selfService THEN "422" ELSE "403"))
  /\ UNCHANGED <<config, now, keys, redis, replica, admitted, lost, calls, events>>

Command ==
  /\ events < MaxEvents
  /\ events' = events + 1
  /\ UNCHANGED <<config, now, redis, replica, req, admitted, lost, calls>>

OperatorCreate(k, scope, expires) ==
  /\ k \in Unused /\ scope \in NewScopes /\ expires \in Futures
  /\ keys' = [keys EXCEPT ![k] = NewRow(scope, expires)]
  /\ Command

OperatorRevoke(k) ==
  /\ k \in Issued
  /\ keys' = Revoked(k)
  /\ Command

\* rotate: a successor with the same scopes, and the old key revoked, in one transaction
OperatorRotate(k, new, expires) ==
  /\ k \in Issued /\ new \in Unused /\ expires \in Futures
  /\ keys' = [Revoked(k) EXCEPT ![new] = NewRow(keys[k].scope, expires)]
  /\ Command

-----------------------------------------------------------------------------
(* Processes, Redis, the clock                                             *)

\* lifespan: the limiter is built once, with the Redis it finds.  Requests of the
\* process are gone, with their transactions.
Restart(p) ==
  /\ events < MaxEvents
  /\ replica' = [replica EXCEPT ![p] = [primary |-> redis.up, counters |-> <<>>]]
  /\ admitted' = [admitted EXCEPT ![p] = [b \in Buckets |-> 0]]
  /\ lost' = [lost EXCEPT ![p] = {}]
  /\ req' = [r \in Requests |-> IF req[r].at = p THEN NoReq ELSE req[r]]
  /\ events' = events + 1
  /\ UNCHANGED <<config, now, keys, redis, calls>>

RedisDown ==
  /\ redis.up /\ events < MaxEvents
  /\ redis' = [redis EXCEPT !.up = FALSE]
  /\ events' = events + 1
  /\ UNCHANGED <<config, now, keys, replica, req, admitted, lost, calls>>

\* Redis is back, with its counters.
RedisUp ==
  /\ ~redis.up
  /\ redis' = [redis EXCEPT !.up = TRUE]
  /\ UNCHANGED <<config, now, keys, replica, req, admitted, lost, calls, events>>

Tick ==
  LET turn == Window(now + 1) # Window(now) IN
  /\ now < MaxTime
  /\ now' = now + 1
  /\ redis' = [redis EXCEPT !.hits = Expire(@, now, now + 1)]
  /\ replica' = IF turn THEN [p \in Replicas |-> [replica[p] EXCEPT !.counters = Stale(@)]]
                ELSE replica
  /\ admitted' = IF turn THEN [s \in DOMAIN admitted |-> [b \in Buckets |-> 0]] ELSE admitted
  /\ lost' = IF turn THEN [p \in Replicas |-> {}] ELSE lost
  /\ UNCHANGED <<config, keys, req, calls, events>>

Serve(r) ==
  \/ Verify(r) \/ VerifyFails(r) \/ RefuseExpired(r)
  \/ LimitInRedis(r) \/ LimitInProcess(r) \/ LimitAnswerLost(r)
  \/ Touch(r) \/ TouchFails(r)
  \/ HandleRead(r) \/ HandleRevoke(r) \/ HandleCreateRefused(r)
  \/ \E k \in Keys, scope \in NewScopes, expires \in Futures :
       HandleCreate(r, k, scope, expires)

Next ==
  \/ \E r \in Requests, call \in Calls, p \in Replicas : Arrive(r, call, p)
  \/ \E r \in Requests : Serve(r)
  \/ \E k \in Keys, scope \in NewScopes, expires \in Futures : OperatorCreate(k, scope, expires)
  \/ \E k \in Keys : OperatorRevoke(k)
  \/ \E k, new \in Keys, expires \in Futures : OperatorRotate(k, new, expires)
  \/ \E p \in Replicas : Restart(p)
  \/ RedisDown \/ RedisUp \/ Tick

Spec == Init /\ [][Next]_vars

-----------------------------------------------------------------------------
(* Properties                                                              *)

\* Rows, counters and requests stay in their ranges, the shape the schema and the limiters
\* give them (models/security.py, rate_limit.py).  The fallback's memory is bounded, and it
\* forgets a count of the present window only with a full dictionary, which is one entry
\* shorter when the room that was made was not needed (rate_limit.py:92-117).
AccessTypeOK ==
  /\ config \in Configs /\ now \in 0..MaxTime
  /\ calls \in 0..MaxCalls /\ events \in 0..MaxEvents
  /\ keys \in [Keys -> Row]
  /\ redis.up \in BOOLEAN /\ redis.hits \in [Buckets -> RedisKey]
  /\ \A p \in Replicas : /\ replica[p].primary \in BOOLEAN
                         /\ replica[p].counters \in Seq(Entry(Buckets))
                         /\ Len(replica[p].counters) <= MaxEntries
                         /\ \A i, j \in DOMAIN replica[p].counters :
                              replica[p].counters[i].bucket = replica[p].counters[j].bucket => i = j
                         /\ lost[p] # {} => /\ Len(replica[p].counters) > 0
                                           /\ Len(replica[p].counters) >= MaxEntries - 1
  /\ \A s \in DOMAIN admitted, b \in Buckets : admitted[s][b] \in Nat
  /\ \A p \in Replicas : lost[p] \subseteq Buckets
  /\ \A r \in Requests : req[r].phase \in {"idle", "verify", "expire", "limit", "touch", "handle", "done"}

\* In one window no limiter lets a caller through more often than its budget, over
\* outages, lost answers, keys of Redis that expire and the turn of the window, unless
\* the process had to evict the caller's count (rate_limit.py:60-250).
WithinBudget ==
  \A b \in Buckets :
    /\ admitted["redis"][b] <= Budget(b)
    /\ \A p \in Replicas : b \notin lost[p] => admitted[p][b] <= Budget(b)

\* A caller that is refused and waits as long as it was told comes back less than a
\* second before the window ends, or within the one after it (rate_limit.py:119-135, 164-175).
RetryIsNearReset ==
  \A r \in Requests :
    req[r].answer = "429" => req[r].slack > -TicksPerSecond /\ req[r].slack <= WindowTicks

\* Under the fail-closed policy a data route serves only what Redis counted
\* (rate_limit.py:230-250).
ClosedMeansCounted ==
  ~config.failOpen /\ config.limit =>
    \A r \in Requests : req[r].kind # "public" /\ req[r].answer = "200" => req[r].counted = {"redis"}

\* Revocation is final and immediate: no request, operator or rollback brings a revoked key
\* back, and a request whose key was revoked or expired when it came in is not served,
\* whatever happens between its steps (routes/api_keys.py: "takes effect on the next
\* request"; api_key_service.py:205-275).
RevocationHolds ==
  [][/\ \A k \in Keys : keys[k].status = "REVOKED" => keys'[k].status = "REVOKED"
     /\ \A r \in Requests : req'[r].late => req'[r].answer \notin {"200", "404", "422"}]_vars
================================================================================

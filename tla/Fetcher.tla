-------------------------------- MODULE Fetcher --------------------------------
(***************************************************************************)
(* HTTPFetcher (app/ingestion/fetcher.py): one page is requested at a      *)
(* time, after a look at the site's robots.txt and after the pause its     *)
(* RateLimiter asks for; an answer that may get better is asked for again, *)
(* after a backoff, a bounded number of times.                             *)
(*                                                                         *)
(* Time is a number of ticks.  A request takes none, so two of them are    *)
(* never closer in the program than they are here.  A job has a fetcher of *)
(* its own, and a crawl contacts one host.                                 *)
(***************************************************************************)
EXTENDS Integers, Sequences, FiniteSetsExt

CONSTANTS
  Pages,       \* the addresses a crawl may ask for
  MaxRetries,  \* http_max_retries
  Spacing,     \* how long the limiter may keep a host waiting, in ticks: 0.9 .. 1.15
               \*   of an interval of 60 / rate_limit_per_minute seconds
  BackoffBase, \* http_backoff_base_seconds, in ticks
  BackoffCap,  \* thirty seconds, in ticks
  Nothing      \* no page, no error

ASSUME FetcherAssumption ==
  /\ Nothing \notin Pages
  /\ MaxRetries \in Nat
  /\ Spacing \subseteq Nat \ {0} /\ Spacing # {} /\ IsFiniteSet(Spacing)
  /\ BackoffBase \in Nat /\ BackoffCap \in Nat

VARIABLES
  request,  \* the page fetch() is working on, its attempt and what remains of a sleep
  limiter,  \* ticks until the host may be contacted, and since it was
  robots    \* RobotsCache: whether the host's file was read, the pages it closes to us

fetcher == <<request, limiter, robots>>

-----------------------------------------------------------------------------

MaxSpacing == Max(Spacing)

\* A limiter no request went through.
Unused == [wait |-> 0, since |-> MaxSpacing]

Limiters == [wait : 0 .. MaxSpacing, since : 0 .. MaxSpacing]

Idle == [page |-> Nothing, attempt |-> 0, sleep |-> 0]

\* Full jitter; the ceiling is put on the draw, which is the same.
Sleeps(attempt) == {s \in 0 .. BackoffCap : s <= BackoffBase * 2 ^ attempt}

Requests ==
  {Idle} \cup [page : Pages, attempt : 0 .. MaxRetries, sleep : 0 .. BackoffCap]

\* What a site may answer.  "busy": a RETRYABLE_STATUS or a transport error; "refused":
\* any other status from 400, another content type, more bytes than the limit.
Answers == {"page", "busy", "refused"}

\* How a fetch ends without a page: RetryableFetchError; PermanentFetchError or
\* ResponseTooLargeError; RobotsDisallowedError.
FetchErrors == {"busy", "refused", "disallowed"}

\* robots.txt: unreachable, an error status or malformed closes nothing.
RobotsFiles == [read : {TRUE}, closed : {{}} \cup {{p} : p \in Pages}]

Unread == [read |-> FALSE, closed |-> {}]

-----------------------------------------------------------------------------

\* fetch: the cached rules are used while fresh, an hour; a crawl may last longer.  A
\* source whose robots_policy is not RESPECT is one whose file closes nothing.
Ask(page) ==
  \E rules \in RobotsFiles \cup (IF robots.read THEN {robots} ELSE {}) :
    /\ robots' = rules
    /\ request' = [Idle EXCEPT !.page = page]

Disallowed == request # Idle /\ request.page \in robots.closed

\* RobotsDisallowedError, before anything is asked of the limiter.
Refuse ==
  /\ Disallowed
  /\ request' = Idle
  /\ UNCHANGED <<limiter, robots>>

\* Mutant: a retry does not go through the limiter.
FirstWaits == request.attempt > 0 \/ limiter.wait = 0

\* acquire: under the host's lock, until _next_allowed.
Acquired == limiter.wait = 0

Ready ==
  /\ request # Idle /\ ~Disallowed
  /\ request.sleep = 0
  /\ Acquired

\* One attempt, and what the answer means for the fetch: it is tried again, or it is over.
Send(answer, outcome) ==
  /\ Ready
  /\ outcome = (IF answer = "busy" /\ request.attempt < MaxRetries THEN "again" ELSE answer)
  /\ \E w \in Spacing : limiter' = [wait |-> w, since |-> 0]
  /\ \/ /\ outcome = "again"
        /\ \E s \in Sleeps(request.attempt) :
             request' = [request EXCEPT !.attempt = @ + 1, !.sleep = s]
     \/ outcome # "again" /\ request' = Idle
  /\ UNCHANGED robots

Down(t) == IF t = 0 THEN 0 ELSE t - 1

\* Time passes while fetch() sleeps or waits for the limiter.
Tick ==
  /\ request # Idle /\ ~Disallowed
  /\ ~(request.sleep = 0 /\ Acquired)
  /\ request' = [request EXCEPT !.sleep = Down(@)]
  /\ limiter' = [wait |-> Down(limiter.wait),
                 since |-> Min({MaxSpacing, limiter.since + 1})]
  /\ UNCHANGED robots

FetcherTypeOK ==
  /\ request \in Requests
  /\ limiter \in Limiters
  /\ robots \in {Unread} \cup RobotsFiles
=============================================================================

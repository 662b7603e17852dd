------------------------------- MODULE RateLimit -------------------------------
(***************************************************************************)
(* The limiters of app/services/rate_limit.py: a fixed window counted in   *)
(* Redis by an atomic script, the same counted in one API process, and     *)
(* what is answered.  Time is in ticks, finer than the seconds a caller is *)
(* told.  A count is kept up to one above the budget: no decision tells    *)
(* larger ones apart.                                                      *)
(***************************************************************************)
EXTENDS Integers, Sequences, FiniteSets

CONSTANTS
  Allowed,         \* [tier -> Nat]: sustained limit and burst together
  WindowSeconds,   \* WINDOW_SECONDS
  TicksPerSecond,  \* resolution of the clock
  MaxEntries       \* rate_limit_fallback_max_entries

ASSUME RateLimitAssumption ==
  /\ \A tier \in DOMAIN Allowed : Allowed[tier] \in Nat
  /\ WindowSeconds \in Nat \ {0} /\ TicksPerSecond \in Nat \ {0} /\ MaxEntries \in Nat \ {0}

WindowTicks  == WindowSeconds * TicksPerSecond
Window(t)    == t \div WindowTicks
WindowEnd(t) == (Window(t) + 1) * WindowTicks

\* A bucket is a tier and a caller.
Budget(b) == Allowed[b[1]]
Another(hits, b) == IF hits > Budget(b) THEN hits ELSE hits + 1

\* Mutant: rounded up, so a whole second also when none is left.
SecondsUp(ticks) == ticks \div TicksPerSecond + 1 + WindowSeconds

\* max(int(seconds), 1)
Seconds(ticks) ==
  IF ticks \div TicksPerSecond >= 1 THEN ticks \div TicksPerSecond ELSE 1

Decision(by, hits, b, seconds) == [by |-> by, allowed |-> hits <= Budget(b), seconds |-> seconds]

-----------------------------------------------------------------------------
(* InProcessWindowLimiter: an OrderedDict, in the order of insertion.      *)
(* fresh says that an entry belongs to the present window.                 *)

Entry(B) == [bucket : B, hits : Nat, fresh : BOOLEAN]

At(counters, b) == {i \in DOMAIN counters : counters[i].bucket = b}

Counted(counters, b) == \E i \in At(counters, b) : counters[i].fresh

\* Mutant: makes room one entry too late.
CrowdedLate(counters, b) == ~Counted(counters, b) /\ Len(counters) > MaxEntries

\* A first call of a window meets a full dictionary, whether it adds an entry or not.
Crowded(counters, b) == ~Counted(counters, b) /\ Len(counters) >= MaxEntries

\* _bucket_for
BucketFor(counters, b) ==
  LET kept == IF Crowded(counters, b) THEN Tail(counters) ELSE counters
      zero == [bucket |-> b, hits |-> 0, fresh |-> TRUE]
  IN  CASE Counted(counters, b) -> counters
        [] ~Counted(counters, b) /\ At(kept, b) = {} -> Append(kept, zero)
        [] OTHER -> [i \in DOMAIN kept |-> IF kept[i].bucket = b THEN zero ELSE kept[i]]

\* The bucket that loses its count so that b can be counted.
Evicted(counters, b) == IF Crowded(counters, b) THEN {Head(counters).bucket} \ {b} ELSE {}

\* InProcessWindowLimiter.check: the dictionary after it
InProcess(counters, b) ==
  LET opened == BucketFor(counters, b) IN
  [i \in DOMAIN opened |->
     IF opened[i].bucket = b THEN [opened[i] EXCEPT !.hits = Another(@, b)] ELSE opened[i]]

InProcessHits(counters, b) ==
  LET after == InProcess(counters, b)
      i == CHOOSE i \in At(after, b) : TRUE
  IN  after[i].hits

\* _bucket_for compares the number of the window: those of the last one are stale.
Stale(counters) == [i \in DOMAIN counters |-> [counters[i] EXCEPT !.fresh = FALSE]]

-----------------------------------------------------------------------------
(* RedisWindowLimiter: its keys name the window, so only those of the      *)
(* present one are kept here; until is when a key expires.                 *)

RedisKey == [hits : Nat, until : Nat]
NoKey == [hits |-> 0, until |-> 0]

\* Mutant: a key that lives for half a window.
HalfWindow(now) == now + WindowTicks \div 2

\* PEXPIRE at the first hit
Lives(now) == now + WindowTicks

\* The script _LUA_WINDOW.
Incremented(key, b, now) ==
  [hits |-> Another(key.hits, b), until |-> IF key.hits = 0 THEN Lives(now) ELSE key.until]

\* Keys that expire by the time t, or of a window that is over by then.
Expire(hits, now, t) ==
  [b \in DOMAIN hits |-> IF Window(t) # Window(now) \/ hits[b].until <= t THEN NoKey ELSE hits[b]]
================================================================================

---------------------------- MODULE ApiAccessProofs ----------------------------
(***************************************************************************)
(* Of ApiAccess, for any keys, callers, processes, budgets and windows: no  *)
(* limiter lets a caller through more often than its budget unless it had   *)
(* to forget the caller, a refused caller is told a time near the reset,    *)
(* the fail-closed policy serves only what Redis counted, and revocation is *)
(* final and immediate.                                                     *)
(*                                                                          *)
(* The argument is the invariant AccessInv: what a limiter has let through  *)
(* is no more than what it has counted, a key of Redis outlives its window, *)
(* and a late request is still at its first reading of a key that is not    *)
(* valid.                                                                   *)
(***************************************************************************)
EXTENDS ApiAccess, TLAPS

-----------------------------------------------------------------------------
(* The clock and its windows                                               *)

LEMMA Dividing ==
  ASSUME NEW n \in Nat, NEW d \in Nat \ {0}
  PROVE  n \div d \in Nat /\ (n \div d) * d <= n /\ n < (n \div d) * d + d
OBVIOUS

LEMMA WindowLength ==
  /\ WindowTicks \in Nat \ {0} /\ TicksPerSecond \in Nat \ {0} /\ TicksPerSecond <= WindowTicks
  /\ MaxEntries \in Nat \ {0}
<1>1. WindowSeconds \in Nat \ {0} /\ TicksPerSecond \in Nat \ {0}
  BY RateLimitAssumption
<1>2. WindowSeconds * TicksPerSecond \in Nat \ {0} /\ TicksPerSecond <= WindowSeconds * TicksPerSecond
  BY <1>1
<1> QED
  BY <1>1, <1>2, RateLimitAssumption DEF WindowTicks

\* A window ends after the present, and within its length.
LEMMA WindowEnds ==
  ASSUME NEW t \in Nat
  PROVE  /\ Window(t) \in Nat /\ WindowEnd(t) \in Nat
         /\ t < WindowEnd(t) /\ WindowEnd(t) <= t + WindowTicks
<1> DEFINE w == WindowTicks
           q == t \div w
<1>1. w \in Nat \ {0}
  BY WindowLength
<1>2. q \in Nat /\ q * w <= t /\ t < q * w + w
  BY <1>1, Dividing
<1> HIDE DEF w, q
<1>3. (q + 1) * w = q * w + w /\ q * w \in Nat
  BY <1>1, <1>2
<1>4. t < (q + 1) * w /\ (q + 1) * w <= t + w /\ (q + 1) * w \in Nat
  BY <1>1, <1>2, <1>3
<1> USE DEF w, q
<1> QED
  BY <1>2, <1>4 DEF Window, WindowEnd

\* The time told, rounded: less than a second short, and a second at least.
LEMMA SecondsTold ==
  ASSUME NEW x \in Nat
  PROVE  /\ Seconds(x) \in Nat /\ Seconds(x) * TicksPerSecond \in Nat
         /\ Seconds(x) * TicksPerSecond > x - TicksPerSecond
         /\ Seconds(x) * TicksPerSecond <= x \/ Seconds(x) * TicksPerSecond = TicksPerSecond
<1> DEFINE d == TicksPerSecond
           q == x \div d
<1>1. d \in Nat \ {0}
  BY WindowLength
<1>2. q \in Nat /\ q * d <= x /\ x < q * d + d
  BY <1>1, Dividing
<1>3. Seconds(x) = (IF q >= 1 THEN q ELSE 1)
  BY DEF Seconds
<1> HIDE DEF d, q
<1>4. q * d \in Nat /\ 1 * d = d
  BY <1>1, <1>2
<1>5. CASE q >= 1
  BY <1>1, <1>2, <1>3, <1>4, <1>5 DEF d
<1>6. CASE ~(q >= 1)
  <2>1. q = 0
    BY <1>2, <1>6
  <2>2. x < d
    BY <1>1, <1>2, <2>1
  <2>3. Seconds(x) = 1
    BY <1>3, <1>6
  <2> QED
    BY <1>1, <1>4, <2>2, <2>3 DEF d
<1> QED
  BY <1>5, <1>6

-----------------------------------------------------------------------------
(* The in-process counters                                                 *)

Tidy(counters) ==
  /\ counters \in Seq(Entry(Buckets)) /\ Len(counters) <= MaxEntries
  /\ \A i, j \in DOMAIN counters : counters[i].bucket = counters[j].bucket => i = j

\* What is left when room was made.
KeptOf(counters, b) == IF Crowded(counters, b) THEN Tail(counters) ELSE counters

LEMMA KeptTidy ==
  ASSUME NEW counters, Tidy(counters), NEW b \in Buckets
  PROVE  LET kept == KeptOf(counters, b) IN
         /\ Tidy(kept)
         /\ ~Counted(counters, b) => Len(kept) + 1 <= MaxEntries
         /\ Crowded(counters, b) => Len(kept) = MaxEntries - 1
         /\ ~Crowded(counters, b) => kept = counters
         /\ \A i \in DOMAIN counters :
              counters[i].bucket # b /\ counters[i].bucket \notin Evicted(counters, b) =>
                \E j \in DOMAIN kept : kept[j] = counters[i]
<1>1. MaxEntries \in Nat \ {0}
  BY WindowLength
<1>2. CASE ~Crowded(counters, b)
  BY <1>1, <1>2 DEF KeptOf, Crowded, Tidy
<1>3. CASE Crowded(counters, b)
  <2> DEFINE kept == Tail(counters)
  <2>1. Len(counters) = MaxEntries /\ counters \in Seq(Entry(Buckets)) /\ counters # <<>>
    BY <1>1, <1>3 DEF Crowded, Tidy
  <2>2. /\ kept \in Seq(Entry(Buckets)) /\ Len(kept) = MaxEntries - 1
        /\ \A i \in 1 .. MaxEntries - 1 : kept[i] = counters[i + 1]
    BY <1>1, <2>1
  <2>3. DOMAIN kept = 1 .. MaxEntries - 1 /\ DOMAIN counters = 1 .. MaxEntries
    BY <2>1, <2>2
  <2>4. KeptOf(counters, b) = kept
    BY <1>3 DEF KeptOf
  <2> HIDE DEF kept
  <2>5. \A i, j \in DOMAIN kept : kept[i].bucket = kept[j].bucket => i = j
    <3> SUFFICES ASSUME NEW i \in DOMAIN kept, NEW j \in DOMAIN kept,
                        kept[i].bucket = kept[j].bucket
                 PROVE  i = j
      OBVIOUS
    <3>1. i + 1 \in DOMAIN counters /\ j + 1 \in DOMAIN counters /\ i \in Int /\ j \in Int
      BY <1>1, <2>3
    <3>2. i + 1 = j + 1
      BY <2>2, <2>3, <3>1 DEF Tidy
    <3> QED
      BY <3>1, <3>2
  <2>6. ASSUME NEW i \in DOMAIN counters, counters[i].bucket # b,
               counters[i].bucket \notin Evicted(counters, b)
        PROVE  \E j \in DOMAIN kept : kept[j] = counters[i]
    <3>1. i # 1
      BY <1>3, <2>1, <2>6 DEF Evicted
    <3>2. i - 1 \in DOMAIN kept /\ kept[i - 1] = counters[(i - 1) + 1] /\ (i - 1) + 1 = i
      BY <1>1, <2>2, <2>3, <3>1
    <3> QED
      BY <3>2
  <2>7. Tidy(kept)
    BY <1>1, <2>2, <2>5 DEF Tidy
  <2> QED
    BY <1>1, <1>3, <2>2, <2>4, <2>6, <2>7
<1> QED
  BY <1>2, <1>3

\* The dictionary after _bucket_for: it has a count of the present window for b.
LEMMA Opened ==
  ASSUME NEW counters, Tidy(counters), NEW b \in Buckets
  PROVE  LET opened == BucketFor(counters, b) IN
         /\ Tidy(opened)
         /\ Crowded(counters, b) => Len(opened) >= MaxEntries - 1
         /\ ~Crowded(counters, b) => Len(opened) >= Len(counters)
         /\ \E i \in DOMAIN opened : opened[i].bucket = b /\ opened[i].fresh
         /\ \A i \in DOMAIN counters :
              counters[i].bucket # b /\ counters[i].bucket \notin Evicted(counters, b) =>
                \E j \in DOMAIN opened : opened[j] = counters[i]
         /\ \A i \in DOMAIN counters :
              counters[i].bucket = b /\ counters[i].fresh => opened = counters
<1> DEFINE kept == KeptOf(counters, b)
           zero == [bucket |-> b, hits |-> 0, fresh |-> TRUE]
           inPlace == [i \in DOMAIN kept |-> IF kept[i].bucket = b THEN zero ELSE kept[i]]
<1>1. MaxEntries \in Nat \ {0}
  BY WindowLength
<1>2. zero \in Entry(Buckets)
  BY DEF Entry
<1>3. CASE Counted(counters, b)
  <2>1. BucketFor(counters, b) = counters /\ ~Crowded(counters, b)
    BY <1>3 DEF BucketFor, Crowded
  <2>2. \A i \in DOMAIN counters : \E j \in DOMAIN counters : counters[j] = counters[i]
    OBVIOUS
  <2>3. Len(counters) >= Len(counters)
    BY DEF Tidy
  <2> QED
    BY <1>3, <2>1, <2>2, <2>3 DEF Counted, At
<1>4. CASE ~Counted(counters, b)
  <2>1. /\ Tidy(kept) /\ Len(kept) + 1 <= MaxEntries
        /\ Crowded(counters, b) => Len(kept) = MaxEntries - 1
        /\ ~Crowded(counters, b) => kept = counters
        /\ \A i \in DOMAIN counters :
              counters[i].bucket # b /\ counters[i].bucket \notin Evicted(counters, b) =>
                \E j \in DOMAIN kept : kept[j] = counters[i]
    BY <1>4, KeptTidy
  <2>2. BucketFor(counters, b) = IF At(kept, b) = {} THEN Append(kept, zero) ELSE inPlace
    BY <1>4 DEF BucketFor, KeptOf
  <2>3. \A i \in DOMAIN counters : ~(counters[i].bucket = b /\ counters[i].fresh)
    BY <1>4 DEF Counted, At
  <2> HIDE DEF kept
  <2> DEFINE n == Len(kept)
  <2>4. n \in Nat /\ DOMAIN kept = 1 .. n /\ kept \in Seq(Entry(Buckets))
    BY <2>1 DEF Tidy
  <2>5. Len(counters) \in Nat
    BY DEF Tidy
  <2>6. CASE At(kept, b) = {}
    <3> DEFINE opened == Append(kept, zero)
    <3> HIDE DEF zero
    <3>1. /\ opened \in Seq(Entry(Buckets)) /\ Len(opened) = n + 1 /\ DOMAIN opened = 1 .. n + 1
          /\ opened[n + 1] = zero /\ \A i \in 1 .. n : opened[i] = kept[i]
      BY <1>2, <2>4
    <3> HIDE DEF opened, n
    <3>2. \A i \in 1 .. n : kept[i].bucket # b
      BY <2>4, <2>6 DEF At
    <3>3. zero.bucket = b /\ zero.fresh
      BY DEF zero
    <3>4. \A i, j \in DOMAIN opened : opened[i].bucket = opened[j].bucket => i = j
      <4> SUFFICES ASSUME NEW i \in 1 .. n + 1, NEW j \in 1 .. n + 1,
                          opened[i].bucket = opened[j].bucket
                   PROVE  i = j
        BY <3>1
      <4>1. (i \in 1 .. n \/ i = n + 1) /\ (j \in 1 .. n \/ j = n + 1)
        BY <2>4 DEF n
      <4>2. CASE i \in 1 .. n /\ j \in 1 .. n
        BY <2>1, <2>4, <3>1, <4>2 DEF Tidy, n
      <4>3. CASE i = n + 1 /\ j \in 1 .. n
        BY <3>1, <3>2, <3>3, <4>3
      <4>4. CASE i \in 1 .. n /\ j = n + 1
        BY <3>1, <3>2, <3>3, <4>4
      <4> QED
        BY <4>1, <4>2, <4>3, <4>4
    <3>5. n + 1 \in DOMAIN opened
      BY <2>4, <3>1
    <3>6. Tidy(opened)
      BY <2>1, <3>1, <3>4 DEF Tidy, n
    <3>7. \A i \in DOMAIN kept : i \in DOMAIN opened /\ opened[i] = kept[i]
      BY <2>4, <3>1
    <3>8. BucketFor(counters, b) = opened
      BY <2>2, <2>6 DEF opened
    <3>9. /\ Crowded(counters, b) => Len(opened) >= MaxEntries - 1
          /\ ~Crowded(counters, b) => Len(opened) >= Len(counters)
      BY <1>1, <2>1, <2>4, <2>5, <3>1 DEF n
    <3>10. \E i \in DOMAIN opened : opened[i].bucket = b /\ opened[i].fresh
      BY <3>1, <3>3, <3>5
    <3> QED
      BY <2>1, <2>3, <3>6, <3>7, <3>8, <3>9, <3>10
  <2>7. CASE At(kept, b) # {}
    <3>1. /\ DOMAIN inPlace = 1 .. n
          /\ \A i \in 1 .. n : inPlace[i] = IF kept[i].bucket = b THEN zero ELSE kept[i]
      BY <2>4
    <3>2. \A i \in 1 .. n : kept[i] \in Entry(Buckets)
      BY <2>4
    <3>3. inPlace \in [1 .. n -> Entry(Buckets)]
      BY <1>2, <2>4, <3>2
    <3>4. inPlace \in Seq(Entry(Buckets)) /\ Len(inPlace) = n
      <4> HIDE DEF inPlace
      <4> QED
        BY <2>4, <3>3
    <3>5. zero.bucket = b /\ zero.fresh
      OBVIOUS
    <3> HIDE DEF inPlace, zero, n
    <3>6. \A i \in 1 .. n : inPlace[i].bucket = kept[i].bucket
      BY <3>1, <3>5
    <3>7. Tidy(inPlace)
      BY <2>1, <2>4, <3>1, <3>4, <3>6 DEF Tidy, n
    <3>8. PICK i \in 1 .. n : kept[i].bucket = b
      BY <2>4, <2>7 DEF At
    <3>9. i \in DOMAIN inPlace /\ inPlace[i] = zero
      BY <3>1, <3>8
    <3>10. \A j \in DOMAIN kept : kept[j].bucket # b => j \in DOMAIN inPlace /\ inPlace[j] = kept[j]
      BY <2>4, <3>1
    <3>11. /\ Crowded(counters, b) => Len(inPlace) >= MaxEntries - 1
           /\ ~Crowded(counters, b) => Len(inPlace) >= Len(counters)
      BY <1>1, <2>1, <2>5, <3>4 DEF n
    <3>12. BucketFor(counters, b) = inPlace
      BY <2>2, <2>7 DEF inPlace
    <3> QED
      BY <2>1, <2>3, <3>5, <3>7, <3>9, <3>10, <3>11, <3>12
  <2> QED
    BY <2>6, <2>7
<1> QED
  BY <1>3, <1>4

LEMMA CountsInProcess ==
  ASSUME NEW counters, Tidy(counters), NEW b \in Buckets
  PROVE  LET after == InProcess(counters, b)
             hits  == InProcessHits(counters, b)
         IN
         /\ Tidy(after)
         /\ Crowded(counters, b) => Len(after) > 0 /\ Len(after) >= MaxEntries - 1
         /\ ~Crowded(counters, b) => Len(after) >= Len(counters)
         /\ \A i \in DOMAIN counters :
              counters[i].bucket # b /\ counters[i].bucket \notin Evicted(counters, b) =>
                \E j \in DOMAIN after : after[j] = counters[i]
         /\ hits \in Nat \ {0}
         /\ \E i \in DOMAIN after :
              after[i].bucket = b /\ after[i].fresh /\ after[i].hits = hits
         /\ \A i \in DOMAIN counters :
              counters[i].bucket = b /\ counters[i].fresh => hits = Another(counters[i].hits, b)
<1> DEFINE opened == BucketFor(counters, b)
           after  == InProcess(counters, b)
           n      == Len(opened)
<1>1. /\ Tidy(opened)
      /\ Crowded(counters, b) => Len(opened) >= MaxEntries - 1
      /\ ~Crowded(counters, b) => Len(opened) >= Len(counters)
      /\ \E i \in DOMAIN opened : opened[i].bucket = b /\ opened[i].fresh
      /\ \A i \in DOMAIN counters :
           counters[i].bucket # b /\ counters[i].bucket \notin Evicted(counters, b) =>
             \E j \in DOMAIN opened : opened[j] = counters[i]
      /\ \A i \in DOMAIN counters :
           counters[i].bucket = b /\ counters[i].fresh => opened = counters
  BY Opened
<1>2. after = [i \in DOMAIN opened |->
        IF opened[i].bucket = b THEN [opened[i] EXCEPT !.hits = Another(@, b)] ELSE opened[i]]
  BY DEF InProcess
<1>3. InProcessHits(counters, b) = after[CHOOSE i \in At(after, b) : TRUE].hits
  BY DEF InProcessHits
<1> HIDE DEF opened, after
<1>4. n \in Nat /\ DOMAIN opened = 1 .. n /\ \A i \in 1 .. n : opened[i] \in Entry(Buckets)
  BY <1>1 DEF Tidy
<1>5. \A h \in Nat : Another(h, b) \in Nat \ {0}
  <2>1. Budget(b) \in Nat
    BY RateLimitAssumption, AccessAssumption DEF Budget, Buckets, Tiers
  <2> QED
    BY <2>1 DEF Another
<1>6. \A e \in Entry(Buckets) : LET f == [e EXCEPT !.hits = Another(@, b)] IN
        f \in Entry(Buckets) /\ f.bucket = e.bucket /\ f.fresh = e.fresh /\ f.hits = Another(e.hits, b)
  BY <1>5 DEF Entry
<1>7. /\ DOMAIN after = 1 .. n
      /\ \A i \in 1 .. n : /\ after[i] \in Entry(Buckets)
                           /\ after[i].bucket = opened[i].bucket /\ after[i].fresh = opened[i].fresh
                           /\ opened[i].bucket # b => after[i] = opened[i]
                           /\ opened[i].bucket = b => after[i].hits = Another(opened[i].hits, b)
  BY <1>2, <1>4, <1>6
<1>8. after \in [1 .. n -> Entry(Buckets)]
  BY <1>2, <1>4, <1>7
<1>9. after \in Seq(Entry(Buckets)) /\ Len(after) = n
  BY <1>4, <1>8
<1>10. \A i, j \in 1 .. n : opened[i].bucket = opened[j].bucket => i = j
  BY <1>1, <1>4 DEF Tidy
<1>11. Tidy(after)
  BY <1>1, <1>7, <1>9, <1>10 DEF Tidy
<1>12. PICK i \in 1 .. n : opened[i].bucket = b /\ opened[i].fresh
  BY <1>1, <1>4
<1>13. At(after, b) = {i}
  BY <1>7, <1>10, <1>12 DEF At
<1>14. InProcessHits(counters, b) = after[i].hits
  BY <1>3, <1>13
<1>15. opened[i].hits \in Nat
  BY <1>4, <1>12 DEF Entry
<1>16. after[i].hits = Another(opened[i].hits, b) /\ after[i].hits \in Nat \ {0}
  BY <1>5, <1>7, <1>12, <1>15
<1>17. \A k \in DOMAIN counters : counters[k].bucket = b /\ counters[k].fresh =>
         after[i].hits = Another(counters[k].hits, b)
  BY <1>1, <1>4, <1>10, <1>12, <1>16
<1>18. \A k \in DOMAIN counters :
         counters[k].bucket # b /\ counters[k].bucket \notin Evicted(counters, b) =>
           \E j \in DOMAIN after : after[j] = counters[k]
  BY <1>1, <1>4, <1>7
<1>19. after[i].bucket = b /\ after[i].fresh
  BY <1>7, <1>12
<1> USE DEF after
<1> QED
  BY <1>1, <1>4, <1>7, <1>9, <1>11, <1>12, <1>14, <1>16, <1>17, <1>18, <1>19

-----------------------------------------------------------------------------
(* The invariant                                                           *)

Phases  == {"idle", "verify", "expire", "limit", "touch", "handle", "done"}
Working == {"verify", "expire", "limit", "touch", "handle"}
Served  == {"200", "404", "422"}

Req == [phase : Phases, kind : Paths \cup {None}, at : Replicas \cup {None},
        key : Keys \cup Ips \cup {None}, target : Keys \cup {None}, seen : Row, pass : Nat,
        late : BOOLEAN, counted : SUBSET {"redis", "process"},
        answer : Answers \cup {None}, slack : Int]

ClockOK ==
  config \in Configs /\ now \in 0..MaxTime /\ calls \in 0..MaxCalls /\ events \in 0..MaxEvents

\* An issued key that can no longer be used.
Barred(k) == keys[k].status # "absent" /\ ~IsValid(keys[k])

KeysOK == keys \in [Keys -> Row]

\* What has been let through is no more than what was counted, nor than the budget; a key of
\* Redis outlives its window.
RedisCounts(b) ==
  /\ admitted["redis"][b] <= redis.hits[b].hits /\ admitted["redis"][b] <= Budget(b)
  /\ redis.hits[b].hits > 0 => /\ WindowEnd(now) <= redis.hits[b].until
                               /\ redis.hits[b].until <= now + WindowTicks

ProcessCounts(p, b) ==
  /\ admitted[p][b] <= Budget(b)
  /\ admitted[p][b] > 0 => \E i \in DOMAIN replica[p].counters :
       LET e == replica[p].counters[i] IN
       e.bucket = b /\ e.fresh /\ admitted[p][b] <= e.hits

LimitersTyped ==
  /\ redis \in [up : BOOLEAN, hits : [Buckets -> RedisKey]]
  /\ replica \in [Replicas -> [primary : BOOLEAN, counters : Seq(Entry(Buckets))]]
  /\ admitted \in [Replicas \cup {"redis"} -> [Buckets -> Nat]]
  /\ lost \in [Replicas -> SUBSET Buckets]

LimitersOK ==
  /\ LimitersTyped
  /\ \A p \in Replicas : /\ Tidy(replica[p].counters)
                         /\ lost[p] # {} =>
                                /\ Len(replica[p].counters) > 0
                                /\ Len(replica[p].counters) >= MaxEntries - 1
  /\ \A b \in Buckets : RedisCounts(b)
  /\ \A p \in Replicas : \A b \in Buckets : b \notin lost[p] => ProcessCounts(p, b)

\* A late request gets no further than its first reading of the key; under the fail-closed
\* policy a request gets past the limiter only by Redis.
ReqOK(q) ==
  /\ q \in Req
  /\ q.phase \in Working => q.key \in Keys \cup Ips /\ q.at \in Replicas /\ q.kind \in Paths
  /\ q.phase \in {"verify", "expire", "touch"} => q.key \in Keys
  /\ q.late => /\ q.phase \in {"verify", "expire", "done"} /\ q.answer \notin Served
               /\ q.phase \in {"verify", "expire"} => Barred(q.key)
  /\ q.answer = "429" => q.slack > -TicksPerSecond /\ q.slack <= WindowTicks
  /\ ~config.failOpen /\ config.limit /\ q.kind # "public" =>
       /\ q.phase \in Working => q.counted \subseteq {"redis"}
       /\ q.phase \in {"touch", "handle"} \/ q.answer = "200" => q.counted = {"redis"}

RequestsOK ==
  /\ req = [r \in Requests |-> req[r]]
  /\ \A r \in Requests : ReqOK(req[r])

AccessInv == ClockOK /\ KeysOK /\ LimitersOK /\ RequestsOK

-----------------------------------------------------------------------------
(* Keys                                                                    *)

\* No step but a creation touches an unused row, and none revives a key.
KeysKept ==
  \A k \in Keys : /\ keys[k].status = "REVOKED" => keys'[k].status = "REVOKED"
                  /\ Barred(k) => Barred(k)'

LEMMA RowsTyped ==
  /\ NoRow \in Row
  /\ \A scope \in NewScopes : \A expires \in Nat \cup {Never} : NewRow(scope, expires) \in Row
  /\ \A row \in Row : /\ [row EXCEPT !.status = "REVOKED"] \in Row
                      /\ [row EXCEPT !.used = TRUE] \in Row
<1>1. NewScopes \subseteq {"read", "admin"}
  BY AccessAssumption
<1> QED
  BY <1>1 DEF NoRow, NewRow, Row

LEMMA RevokedRows ==
  ASSUME KeysOK, NEW k \in Keys
  PROVE  /\ Revoked(k) \in [Keys -> Row]
         /\ Revoked(k)[k].status = "REVOKED"
         /\ \A l \in Keys \ {k} : Revoked(k)[l] = keys[l]
<1>1. keys[k] \in Row
  BY DEF KeysOK
<1>2. [keys[k] EXCEPT !.status = "REVOKED"] \in Row
  BY <1>1, RowsTyped
<1>3. [keys[k] EXCEPT !.status = "REVOKED"].status = "REVOKED"
  BY <1>1 DEF Row
<1>4. Revoked(k) = [keys EXCEPT ![k] = [keys[k] EXCEPT !.status = "REVOKED"]]
  BY DEF Revoked, KeysOK
<1> QED
  BY <1>2, <1>3, <1>4 DEF KeysOK

\* Rows that change are unused ones, or revoked, or have been used.
LEMMA KeysStay ==
  ASSUME KeysOK, keys' \in [Keys -> Row], now' = now,
         \A k \in Keys : \/ keys[k].status = "absent"
                         \/ keys'[k] = keys[k] \/ keys'[k].status = "REVOKED"
                         \/ /\ keys'[k].status = keys[k].status
                            /\ keys'[k].expires = keys[k].expires
  PROVE  KeysOK' /\ KeysKept
BY DEF KeysOK, KeysKept, Barred, IsValid, PastExpiry

LEMMA ServeKeys ==
  ASSUME AccessInv, NEW r \in Requests, Serve(r)
  PROVE  KeysOK' /\ KeysKept
<1>1. KeysOK /\ ClockOK /\ ReqOK(req[r])
  BY DEF AccessInv, RequestsOK
<1>2. CASE UNCHANGED <<keys, now>>
  BY <1>1, <1>2, KeysStay DEF KeysOK
<1>3. CASE Touch(r)
  <2>1. req[r].key \in Keys /\ now' = now
    BY <1>1, <1>3 DEF Touch, ReqOK
  <2> DEFINE k == req[r].key
             new == [keys[k] EXCEPT !.used = TRUE]
  <2>2. keys' = [keys EXCEPT ![k] = new]
    BY <1>3 DEF Touch, UsedRow
  <2>3. keys[k] \in Row
    BY <1>1, <2>1 DEF KeysOK
  <2>4. new \in Row /\ new.status = keys[k].status /\ new.expires = keys[k].expires
    BY <2>3, RowsTyped DEF Row
  <2> HIDE DEF new, k
  <2>5. keys' \in [Keys -> Row] /\ \A l \in Keys : keys'[l] = IF l = k THEN new ELSE keys[l]
    BY <1>1, <2>1, <2>2, <2>4 DEF KeysOK, k
  <2> QED
    BY <1>1, <2>1, <2>4, <2>5, KeysStay
<1>4. CASE HandleRevoke(r)
  <2>1. PICK k : k = req[r].target
    OBVIOUS
  <2>2. CASE k \in Issued
    <3>1. k \in Keys /\ keys' = Revoked(k) /\ now' = now
      BY <1>4, <2>1, <2>2 DEF HandleRevoke, Issued
    <3> QED
      BY <1>1, <3>1, KeysStay, RevokedRows
  <2>3. CASE k \notin Issued
    BY <1>2, <1>4, <2>1, <2>3 DEF HandleRevoke
  <2> QED
    BY <2>2, <2>3
<1>5. ASSUME NEW k \in Keys, NEW scope \in NewScopes, NEW expires \in Futures,
             HandleCreate(r, k, scope, expires)
      PROVE  KeysOK' /\ KeysKept
  <2>1. k \in Unused /\ keys' = [keys EXCEPT ![k] = NewRow(scope, expires)] /\ now' = now
    BY <1>5 DEF HandleCreate
  <2>2. expires \in Nat \cup {Never}
    BY <1>1, AccessAssumption DEF Futures, ClockOK
  <2>3. keys' \in [Keys -> Row] /\ \A l \in Keys \ {k} : keys'[l] = keys[l]
    BY <1>1, <2>1, <2>2, RowsTyped DEF KeysOK
  <2>4. keys[k].status = "absent"
    BY <2>1 DEF Unused
  <2> QED
    BY <1>1, <2>1, <2>3, <2>4, KeysStay
<1>6. \/ UNCHANGED <<keys, now>> \/ Touch(r) \/ HandleRevoke(r)
      \/ \E k \in Keys, scope \in NewScopes, expires \in Futures :
           HandleCreate(r, k, scope, expires)
  BY DEF Serve, Verify, VerifyFails, RefuseExpired, RolledBack, LimitInRedis, LimitInProcess,
         LimitAnswerLost, TouchFails, HandleRead, HandleCreateRefused
<1> QED
  BY <1>2, <1>3, <1>4, <1>5, <1>6

LEMMA NextKeys == AccessInv /\ [Next]_vars => KeysOK' /\ KeysKept
<1> SUFFICES ASSUME AccessInv, [Next]_vars PROVE KeysOK' /\ KeysKept
  OBVIOUS
<1>1. KeysOK /\ ClockOK
  BY DEF AccessInv
<1>2. CASE UNCHANGED <<keys, now>>
  BY <1>1, <1>2, KeysStay DEF KeysOK
<1>3. ASSUME NEW r \in Requests, Serve(r) PROVE KeysOK' /\ KeysKept
  BY <1>3, ServeKeys
<1>4. \A expires \in Futures : expires \in Nat \cup {Never}
  BY <1>1, AccessAssumption DEF Futures, ClockOK
<1>5. ASSUME NEW k \in Keys, NEW scope \in NewScopes, NEW expires \in Futures,
             OperatorCreate(k, scope, expires)
      PROVE  KeysOK' /\ KeysKept
  <2>1. /\ keys[k].status = "absent" /\ keys' = [keys EXCEPT ![k] = NewRow(scope, expires)]
        /\ now' = now
    BY <1>5 DEF OperatorCreate, Unused, Command
  <2>2. keys' \in [Keys -> Row] /\ \A l \in Keys \ {k} : keys'[l] = keys[l]
    BY <1>1, <1>4, <2>1, RowsTyped DEF KeysOK
  <2> QED
    BY <1>1, <2>1, <2>2, KeysStay
<1>6. ASSUME NEW k \in Keys, OperatorRevoke(k) PROVE KeysOK' /\ KeysKept
  BY <1>1, <1>6, KeysStay, RevokedRows DEF OperatorRevoke, Command
<1>7. ASSUME NEW k \in Keys, NEW new \in Keys, NEW expires \in Futures,
             OperatorRotate(k, new, expires)
      PROVE  KeysOK' /\ KeysKept
  <2> DEFINE row == NewRow(keys[k].scope, expires)
  <2>1. /\ keys[k].status # "absent" /\ keys[new].status = "absent" /\ now' = now
        /\ keys' = [Revoked(k) EXCEPT ![new] = row]
    BY <1>7 DEF OperatorRotate, Unused, Issued, Command
  <2>2. keys[k] \in Row
    BY <1>1 DEF KeysOK
  <2>3. row \in Row
    BY <1>4, <2>2 DEF NewRow, Row
  <2> HIDE DEF row
  <2>4. keys' \in [Keys -> Row] /\ \A l \in Keys \ {new} : keys'[l] = Revoked(k)[l]
    BY <1>1, <2>1, <2>3, RevokedRows
  <2> QED
    BY <1>1, <2>1, <2>4, KeysStay, RevokedRows
<1>8. CASE Tick
  <2>1. keys' = keys /\ now' = now + 1 /\ now \in Nat
    BY <1>1, <1>8, AccessAssumption DEF Tick, ClockOK
  <2>2. ASSUME NEW k \in Keys, Barred(k) PROVE Barred(k)'
    <3>1. keys[k].expires \in Nat \cup {Never}
      BY <1>1 DEF KeysOK, Row
    <3> QED
      BY <2>1, <2>2, <3>1, AccessAssumption DEF Barred, IsValid, PastExpiry
  <2> QED
    BY <1>1, <2>1, <2>2 DEF KeysOK, KeysKept
<1>9. \/ UNCHANGED <<keys, now>> \/ Tick \/ \E r \in Requests : Serve(r)
      \/ \E k \in Keys, scope \in NewScopes, expires \in Futures :
           OperatorCreate(k, scope, expires)
      \/ \E k \in Keys : OperatorRevoke(k)
      \/ \E k, new \in Keys, expires \in Futures : OperatorRotate(k, new, expires)
  BY DEF Next, vars, Arrive, Restart, RedisDown, RedisUp
<1> QED
  BY <1>2, <1>3, <1>5, <1>6, <1>7, <1>8, <1>9

-----------------------------------------------------------------------------
(* Limiters                                                                *)

LEMMA BudgetsTyped ==
  ASSUME NEW b \in Buckets
  PROVE  /\ Budget(b) \in Nat
         /\ \A h \in Nat : /\ Another(h, b) \in Nat \ {0} /\ h <= Another(h, b)
                           /\ h <= Budget(b) => Another(h, b) = h + 1
                           /\ Another(h, b) <= Budget(b) => Another(h, b) = h + 1
<1>1. Budget(b) \in Nat
  BY RateLimitAssumption, AccessAssumption DEF Budget, Buckets, Tiers
<1> QED
  BY <1>1 DEF Another

\* A bucket of a request at the limiter.
LEMMA BucketTyped ==
  ASSUME NEW r \in Requests, ReqOK(req[r]), req[r].phase = "limit"
  PROVE  BucketOf(r) \in Buckets /\ req[r].at \in Replicas
BY DEF ReqOK, Working, BucketOf, Buckets, Tier

\* Steps that leave the limiters alone.
LEMMA LimitersStay ==
  ASSUME LimitersOK, UNCHANGED <<replica, admitted, lost, now>>,
         redis' \in [up : BOOLEAN, hits : [Buckets -> RedisKey]], redis'.hits = redis.hits
  PROVE  LimitersOK'
BY DEF LimitersOK, LimitersTyped, RedisCounts, ProcessCounts

\* Redis has counted for b.
LEMMA RedisHits ==
  ASSUME ClockOK, LimitersOK, NEW b \in Buckets
  PROVE  LET key == Incremented(redis.hits[b], b, now) IN
         /\ key \in RedisKey /\ key.hits = Another(redis.hits[b].hits, b)
         /\ WindowEnd(now) <= key.until /\ key.until <= now + WindowTicks
<1>1. redis.hits[b] \in RedisKey /\ RedisCounts(b) /\ now \in Nat
  BY AccessAssumption DEF LimitersOK, LimitersTyped, ClockOK
<1>2. WindowEnd(now) \in Nat /\ WindowEnd(now) <= now + WindowTicks /\ WindowTicks \in Nat
  BY <1>1, WindowEnds, WindowLength
<1>3. Another(redis.hits[b].hits, b) \in Nat
  BY <1>1, BudgetsTyped DEF RedisKey
<1> QED
  BY <1>1, <1>2, <1>3 DEF Incremented, RedisKey, RedisCounts, Lives

\* Redis has answered.
LEMMA RedisAdmits ==
  ASSUME ClockOK, LimitersOK, NEW r \in Requests, ReqOK(req[r]), LimitInRedis(r)
  PROVE  LimitersOK'
<1> DEFINE b == BucketOf(r)
           key == Incremented(redis.hits[b], b, now)
           decision == Decision("redis", key.hits, b, Seconds(key.until - now))
           more == Another(admitted["redis"][b], b)
<1>1. b \in Buckets
  BY BucketTyped DEF LimitInRedis
<1>2. /\ redis' = [redis EXCEPT !.hits[b] = key] /\ UNCHANGED <<replica, lost, now>>
      /\ admitted' = IF decision.allowed THEN [admitted EXCEPT !["redis"][b] = more] ELSE admitted
  BY DEF LimitInRedis, Admits
<1>3. decision.allowed <=> key.hits <= Budget(b)
  BY DEF Decision
<1>4. /\ key \in RedisKey /\ key.hits = Another(redis.hits[b].hits, b)
      /\ WindowEnd(now) <= key.until /\ key.until <= now + WindowTicks
  BY <1>1, RedisHits
<1>5. LimitersTyped /\ RedisCounts(b) /\ admitted["redis"][b] \in Nat /\ redis.hits[b].hits \in Nat
  BY <1>1 DEF LimitersOK, LimitersTyped, RedisKey
<1>6. more \in Nat /\ Budget(b) \in Nat
  BY <1>1, <1>5, BudgetsTyped
<1>7. key.hits <= Budget(b) => more <= key.hits
  BY <1>1, <1>4, <1>5, BudgetsTyped DEF RedisCounts
<1>8. admitted["redis"][b] <= key.hits
  BY <1>1, <1>4, <1>5, BudgetsTyped DEF RedisCounts, RedisKey
<1> HIDE DEF key, decision, more, b
<1>9. /\ redis' \in [up : BOOLEAN, hits : [Buckets -> RedisKey]]
      /\ redis'.hits[b] = key /\ \A c \in Buckets \ {b} : redis'.hits[c] = redis.hits[c]
  BY <1>1, <1>2, <1>4, <1>5 DEF LimitersTyped
<1>10. /\ admitted' \in [Replicas \cup {"redis"} -> [Buckets -> Nat]]
       /\ admitted'["redis"][b] = IF decision.allowed THEN more ELSE admitted["redis"][b]
       /\ \A c \in Buckets \ {b} : admitted'["redis"][c] = admitted["redis"][c]
       /\ \A p \in Replicas : admitted'[p] = admitted[p]
  BY <1>1, <1>2, <1>5, <1>6, AccessAssumption DEF LimitersTyped
<1>11. LimitersTyped'
  BY <1>2, <1>5, <1>9, <1>10 DEF LimitersTyped
<1>12. \A c \in Buckets : RedisCounts(c)'
  <2> TAKE c \in Buckets
  <2>1. CASE c = b
    <3>1. admitted'["redis"][b] <= key.hits /\ admitted'["redis"][b] <= Budget(b)
      BY <1>3, <1>4, <1>5, <1>6, <1>7, <1>8, <1>10 DEF RedisCounts, RedisKey
    <3> QED
      BY <1>2, <1>4, <1>9, <2>1, <3>1 DEF RedisCounts
  <2>2. CASE c # b
    BY <1>2, <1>9, <1>10, <2>2 DEF RedisCounts, LimitersOK
  <2> QED
    BY <2>1, <2>2
<1>13. \A p \in Replicas : \A c \in Buckets : c \notin lost'[p] => ProcessCounts(p, c)'
  BY <1>2, <1>10 DEF LimitersOK, ProcessCounts
<1> QED
  BY <1>2, <1>11, <1>12, <1>13 DEF LimitersOK

\* What a process has counted for its limiter, and whom it forgot.
ProcessesOK ==
  /\ replica \in [Replicas -> [primary : BOOLEAN, counters : Seq(Entry(Buckets))]]
  /\ admitted \in [Replicas \cup {"redis"} -> [Buckets -> Nat]]
  /\ lost \in [Replicas -> SUBSET Buckets]
  /\ \A p \in Replicas : /\ Tidy(replica[p].counters)
                         /\ lost[p] # {} =>
                                /\ Len(replica[p].counters) > 0
                                /\ Len(replica[p].counters) >= MaxEntries - 1
  /\ \A p \in Replicas : \A b \in Buckets : b \notin lost[p] => ProcessCounts(p, b)

LEMMA EvictedTyped ==
  ASSUME NEW counters, Tidy(counters), NEW b
  PROVE  /\ Evicted(counters, b) \subseteq Buckets
         /\ Evicted(counters, b) # {} => Crowded(counters, b)
<1>1. MaxEntries \in Nat \ {0}
  BY WindowLength
<1>2. CASE Crowded(counters, b)
  <2>1. counters \in Seq(Entry(Buckets)) /\ Len(counters) >= 1
    BY <1>1, <1>2 DEF Tidy, Crowded
  <2>2. Head(counters) \in Entry(Buckets)
    BY <2>1
  <2> QED
    BY <1>2, <2>2 DEF Evicted, Entry
<1>3. CASE ~Crowded(counters, b)
  BY <1>3 DEF Evicted
<1> QED
  BY <1>2, <1>3

\* Process p has counted b: what its counters were and are, and whom it forgot.
HasCounted(p, b, counters, after, hits, forgotten) ==
  /\ counters = replica[p].counters
  /\ after = InProcess(counters, b) /\ hits = InProcessHits(counters, b)
  /\ forgotten = {e \in Evicted(counters, b) : Counted(counters, e)}
  /\ admitted' = IF hits <= Budget(b) THEN [admitted EXCEPT ![p][b] = Another(@, b)] ELSE admitted
  /\ replica' = [replica EXCEPT ![p].counters = after]
  /\ lost' = [lost EXCEPT ![p] = @ \cup forgotten]

\* A caller it lets through is counted, and a count that is lost is
\* remembered as lost.
LEMMA ProcessCounted ==
  ASSUME LimitersOK, NEW p \in Replicas, NEW b \in Buckets,
         NEW counters, NEW after, NEW hits, NEW forgotten,
         HasCounted(p, b, counters, after, hits, forgotten)
  PROVE  ProcessesOK' /\ admitted'["redis"] = admitted["redis"]
<1> DEFINE more == Another(admitted[p][b], b)
<1> USE DEF HasCounted
<1>1. p # "redis"
  BY AccessAssumption
<1>2. /\ LimitersTyped /\ Tidy(counters)
      /\ lost[p] # {} => Len(counters) > 0 /\ Len(counters) >= MaxEntries - 1
      /\ \A c \in Buckets : c \notin lost[p] => ProcessCounts(p, c)
  BY DEF LimitersOK
<1>4. ProcessesOK' /\ admitted'["redis"] = admitted["redis"]
  <2>1. admitted' = IF hits <= Budget(b) THEN [admitted EXCEPT ![p][b] = more] ELSE admitted
    BY <1>2 DEF LimitersTyped
  <2>2. /\ Tidy(after) /\ hits \in Nat \ {0}
        /\ Crowded(counters, b) => Len(after) > 0 /\ Len(after) >= MaxEntries - 1
        /\ ~Crowded(counters, b) => Len(after) >= Len(counters)
        /\ \A i \in DOMAIN counters :
             counters[i].bucket # b /\ counters[i].bucket \notin Evicted(counters, b) =>
               \E j \in DOMAIN after : after[j] = counters[i]
        /\ \E i \in DOMAIN after : after[i].bucket = b /\ after[i].fresh /\ after[i].hits = hits
        /\ \A i \in DOMAIN counters :
             counters[i].bucket = b /\ counters[i].fresh => hits = Another(counters[i].hits, b)
    BY <1>2, CountsInProcess
  <2>3. forgotten \subseteq Buckets /\ (forgotten # {} => Crowded(counters, b))
    BY <1>2, EvictedTyped
  <2>4. admitted[p][b] \in Nat /\ Budget(b) \in Nat /\ more \in Nat
    BY <1>2, BudgetsTyped DEF LimitersTyped
  <2>5. \A i \in DOMAIN counters : counters[i].hits \in Nat
    <3>1. \A i \in DOMAIN counters : counters[i] \in Entry(Buckets)
      BY <1>2 DEF Tidy
    <3> QED
      BY <3>1 DEF Entry
  <2> HIDE DEF more
  <2>6. /\ replica' \in [Replicas -> [primary : BOOLEAN, counters : Seq(Entry(Buckets))]]
        /\ replica'[p].counters = after
        /\ \A q \in Replicas \ {p} : replica'[q] = replica[q]
    <3>1. replica[p] \in [primary : BOOLEAN, counters : Seq(Entry(Buckets))]
      BY <1>2 DEF LimitersTyped
    <3>2. [replica[p] EXCEPT !.counters = after] \in [primary : BOOLEAN, counters : Seq(Entry(Buckets))]
      BY <2>2, <3>1 DEF Tidy
    <3>3. [replica[p] EXCEPT !.counters = after].counters = after
      BY <3>1
    <3>4. replica' = [replica EXCEPT ![p] = [replica[p] EXCEPT !.counters = after]]
      BY <1>2 DEF LimitersTyped
    <3> QED
      BY <1>2, <3>2, <3>3, <3>4 DEF LimitersTyped
  <2>7. /\ lost' \in [Replicas -> SUBSET Buckets] /\ lost'[p] = lost[p] \cup forgotten
        /\ \A q \in Replicas \ {p} : lost'[q] = lost[q]
    BY <1>1, <1>2, <2>1, <2>3 DEF LimitersTyped
  <2>8. /\ admitted' \in [Replicas \cup {"redis"} -> [Buckets -> Nat]]
        /\ admitted'[p][b] = IF hits <= Budget(b) THEN more ELSE admitted[p][b]
        /\ \A c \in Buckets \ {b} : admitted'[p][c] = admitted[p][c]
        /\ \A q \in (Replicas \cup {"redis"}) \ {p} : admitted'[q] = admitted[q]
    BY <1>1, <1>2, <2>1, <2>4 DEF LimitersTyped
  <2>9. lost'[p] # {} => Len(after) > 0 /\ Len(after) >= MaxEntries - 1
    <3>1. Len(after) \in Nat /\ Len(counters) \in Nat /\ MaxEntries \in Nat
      BY <1>2, <2>2, WindowLength DEF Tidy
    <3> QED
      BY <1>2, <2>2, <2>3, <2>7, <3>1
  <2>10. b \notin lost'[p] => ProcessCounts(p, b)'
    <3> SUFFICES ASSUME b \notin lost[p] PROVE ProcessCounts(p, b)'
      BY <2>7
    <3>1. /\ admitted[p][b] <= Budget(b)
          /\ admitted[p][b] > 0 => \E i \in DOMAIN counters :
               counters[i].bucket = b /\ counters[i].fresh /\ admitted[p][b] <= counters[i].hits
      BY <1>1, <1>2 DEF ProcessCounts
    <3>2. admitted[p][b] + 1 <= hits \/ (admitted[p][b] <= hits /\ hits > Budget(b))
      <4>1. CASE admitted[p][b] = 0
        BY <2>2, <4>1
      <4>2. CASE admitted[p][b] > 0
        <5>1. PICK i \in DOMAIN counters :
                counters[i].bucket = b /\ counters[i].fresh /\ admitted[p][b] <= counters[i].hits
          BY <3>1, <4>2
        <5>2. hits = Another(counters[i].hits, b) /\ counters[i].hits \in Nat
          BY <2>2, <2>5, <5>1
        <5> QED
          BY <2>4, <5>1, <5>2 DEF Another
      <4> QED
        BY <2>4, <4>1, <4>2
    <3>3. admitted'[p][b] <= hits /\ admitted'[p][b] <= Budget(b)
      BY <2>2, <2>4, <2>8, <3>1, <3>2 DEF more, Another
    <3>4. PICK i \in DOMAIN after : after[i].bucket = b /\ after[i].fresh /\ after[i].hits = hits
      BY <2>2
    <3> QED
      BY <2>6, <3>3, <3>4 DEF ProcessCounts
  <2>11. ASSUME NEW c \in Buckets, c # b, c \notin lost'[p] PROVE ProcessCounts(p, c)'
    <3>1. c \notin lost[p] /\ c \notin forgotten
      BY <2>7, <2>11
    <3>2. /\ admitted[p][c] <= Budget(c)
          /\ admitted[p][c] > 0 => \E i \in DOMAIN counters :
               counters[i].bucket = c /\ counters[i].fresh /\ admitted[p][c] <= counters[i].hits
      BY <1>1, <1>2, <3>1 DEF ProcessCounts
    <3>3. admitted'[p][c] = admitted[p][c]
      BY <2>8, <2>11
    <3>4. admitted[p][c] > 0 => \E j \in DOMAIN after :
            after[j].bucket = c /\ after[j].fresh /\ admitted[p][c] <= after[j].hits
      <4> SUFFICES ASSUME admitted[p][c] > 0
                   PROVE  \E j \in DOMAIN after :
                            after[j].bucket = c /\ after[j].fresh /\ admitted[p][c] <= after[j].hits
        OBVIOUS
      <4>1. PICK i \in DOMAIN counters :
              counters[i].bucket = c /\ counters[i].fresh /\ admitted[p][c] <= counters[i].hits
        BY <3>2
      <4>2. Counted(counters, c)
        BY <4>1 DEF Counted, At
      <4>3. c \notin Evicted(counters, b)
        BY <3>1, <4>2 
      <4> QED
        BY <2>2, <2>11, <4>1, <4>3
    <3> QED
      BY <2>6, <3>2, <3>3, <3>4 DEF ProcessCounts
  <2>12. ASSUME NEW q \in Replicas \ {p}
         PROVE  /\ Tidy(replica'[q].counters)
                /\ lost'[q] # {} =>
                       /\ Len(replica'[q].counters) > 0
                       /\ Len(replica'[q].counters) >= MaxEntries - 1
                /\ \A c \in Buckets : c \notin lost'[q] => ProcessCounts(q, c)'
    <3>1. replica'[q] = replica[q] /\ lost'[q] = lost[q] /\ admitted'[q] = admitted[q]
      BY <2>6, <2>7, <2>8
    <3> QED
      BY <3>1 DEF LimitersOK, ProcessCounts
  <2>13. \A q \in Replicas : \A c \in Buckets : c \notin lost'[q] => ProcessCounts(q, c)'
    BY <2>10, <2>11, <2>12
  <2>14. \A q \in Replicas : /\ Tidy(replica'[q].counters)
                             /\ lost'[q] # {} =>
                                    /\ Len(replica'[q].counters) > 0
                                    /\ Len(replica'[q].counters) >= MaxEntries - 1
    BY <2>2, <2>6, <2>9, <2>12
  <2> QED
    BY <1>1, <2>6, <2>7, <2>8, <2>13, <2>14 DEF ProcessesOK
<1> QED
  BY <1>4

\* A process decides on its own, if the policy lets it.
LEMMA ProcessAdmits ==
  ASSUME LimitersOK, NEW r \in Requests, ReqOK(req[r]), req[r].phase = "limit", Degraded(r)
  PROVE  ProcessesOK' /\ admitted'["redis"] = admitted["redis"]
<1>1. PICK p, b : p = req[r].at /\ b = BucketOf(r)
  OBVIOUS
<1>2. p \in Replicas /\ b \in Buckets
  BY <1>1, BucketTyped
<1>3. CASE ~FallsBack(p)
  <2>1. UNCHANGED <<admitted, replica, lost>>
    BY <1>1, <1>3 DEF Degraded, Admits
  <2> QED
    BY <2>1 DEF LimitersOK, LimitersTyped, ProcessesOK, ProcessCounts
<1>4. CASE FallsBack(p)
  <2>1. PICK counters : counters = replica[p].counters
    OBVIOUS
  <2>2. PICK after, hits : after = InProcess(counters, b) /\ hits = InProcessHits(counters, b)
    OBVIOUS
  <2>3. PICK forgotten : forgotten = {e \in Evicted(counters, b) : Counted(counters, e)}
    OBVIOUS
  <2>4. HasCounted(p, b, counters, after, hits, forgotten)
    BY <1>1, <1>4, <2>1, <2>2, <2>3
    DEF HasCounted, Degraded, Admits, Decision, LimitersOK, LimitersTyped
  <2> QED
    BY <1>2, <2>4, ProcessCounted
<1> QED
  BY <1>3, <1>4

LEMMA DegradedLimiters ==
  ASSUME ClockOK, LimitersOK, NEW r \in Requests, ReqOK(req[r]),
         LimitInProcess(r) \/ LimitAnswerLost(r)
  PROVE  LimitersOK'
<1>1. /\ req[r].phase = "limit" /\ Degraded(r) /\ now' = now
  BY DEF LimitInProcess, LimitAnswerLost
<1>2. ProcessesOK' /\ admitted'["redis"] = admitted["redis"]
  BY <1>1, ProcessAdmits
<1>3. redis' \in [up : BOOLEAN, hits : [Buckets -> RedisKey]] /\ \A b \in Buckets : RedisCounts(b)'
  <2>1. CASE redis' = redis
    BY <1>1, <1>2, <2>1 DEF LimitersOK, LimitersTyped, RedisCounts
  <2>2. CASE LimitAnswerLost(r)
    <3>0. PICK b, key : b = BucketOf(r) /\ key = Incremented(redis.hits[b], b, now)
      OBVIOUS
    <3>1. b \in Buckets
      BY <1>1, <3>0, BucketTyped
    <3>2. redis' = [redis EXCEPT !.hits[b] = key]
      BY <2>2, <3>0, <3>1 DEF LimitAnswerLost, LimitersOK, LimitersTyped
    <3>3. /\ key \in RedisKey /\ key.hits = Another(redis.hits[b].hits, b)
          /\ WindowEnd(now) <= key.until /\ key.until <= now + WindowTicks
      BY <3>0, <3>1, RedisHits
    <3>4. admitted["redis"][b] <= key.hits
      BY <3>1, <3>3, BudgetsTyped DEF LimitersOK, LimitersTyped, RedisCounts, RedisKey
    <3>5. /\ redis' \in [up : BOOLEAN, hits : [Buckets -> RedisKey]]
          /\ redis'.hits[b] = key /\ \A c \in Buckets \ {b} : redis'.hits[c] = redis.hits[c]
      BY <3>1, <3>2, <3>3 DEF LimitersOK, LimitersTyped
    <3>6. RedisCounts(b)'
      BY <1>1, <1>2, <3>1, <3>3, <3>4, <3>5 DEF RedisCounts, LimitersOK
    <3>7. \A c \in Buckets \ {b} : RedisCounts(c)'
      BY <1>1, <1>2, <3>5 DEF RedisCounts, LimitersOK
    <3> QED
      BY <3>5, <3>6, <3>7
  <2> QED
    BY <2>1, <2>2 DEF LimitInProcess
<1> QED
  BY <1>2, <1>3 DEF LimitersOK, LimitersTyped, ProcessesOK

LEMMA RestartLimiters ==
  ASSUME LimitersOK, NEW p \in Replicas, Restart(p)
  PROVE  LimitersOK'
<1> DEFINE new == [primary |-> redis.up, counters |-> <<>>]
           none == [b \in Buckets |-> 0]
<1>1. /\ replica' = [replica EXCEPT ![p] = new] /\ admitted' = [admitted EXCEPT ![p] = none]
      /\ lost' = [lost EXCEPT ![p] = {}] /\ UNCHANGED <<redis, now>>
  BY DEF Restart
<1>2. LimitersTyped /\ p # "redis" /\ MaxEntries \in Nat
  BY AccessAssumption, WindowLength DEF LimitersOK
<1>3. Tidy(<<>>)
  BY <1>2 DEF Tidy
<1>4. /\ new \in [primary : BOOLEAN, counters : Seq(Entry(Buckets))] /\ new.counters = <<>>
      /\ none \in [Buckets -> Nat]
  BY <1>2 DEF LimitersTyped
<1> HIDE DEF new
<1>5. /\ LimitersTyped'
      /\ replica'[p] = new /\ admitted'[p] = none /\ lost'[p] = {}
      /\ \A q \in Replicas \ {p} : replica'[q] = replica[q] /\ lost'[q] = lost[q]
      /\ \A q \in (Replicas \cup {"redis"}) \ {p} : admitted'[q] = admitted[q]
  BY <1>1, <1>2, <1>4 DEF LimitersTyped
<1>6. \A b \in Buckets : RedisCounts(b)'
  BY <1>1, <1>2, <1>5 DEF LimitersOK, RedisCounts
<1>7. \A q \in Replicas : /\ Tidy(replica'[q].counters)
                          /\ lost'[q] # {} =>
                                 /\ Len(replica'[q].counters) > 0
                                 /\ Len(replica'[q].counters) >= MaxEntries - 1
  BY <1>3, <1>4, <1>5 DEF LimitersOK
<1>8. \A b \in Buckets : ProcessCounts(p, b)'
  BY <1>5, BudgetsTyped DEF ProcessCounts
<1>9. \A q \in Replicas \ {p} : \A b \in Buckets : b \notin lost'[q] => ProcessCounts(q, b)'
  BY <1>5 DEF LimitersOK, ProcessCounts
<1> QED
  BY <1>5, <1>6, <1>7, <1>8, <1>9 DEF LimitersOK

\* A count that is stale is a count all the same.
LEMMA StaleTidy ==
  ASSUME NEW counters, Tidy(counters)
  PROVE  Tidy(Stale(counters))
<1> DEFINE n == Len(counters)
           stale == Stale(counters)
<1>1. n \in Nat /\ DOMAIN counters = 1 .. n /\ \A i \in 1 .. n : counters[i] \in Entry(Buckets)
  BY DEF Tidy
<1>2. \A e \in Entry(Buckets) : LET f == [e EXCEPT !.fresh = FALSE] IN
        f \in Entry(Buckets) /\ f.bucket = e.bucket
  BY DEF Entry
<1>3. stale = [i \in 1 .. n |-> [counters[i] EXCEPT !.fresh = FALSE]]
  BY <1>1 DEF Stale
<1> HIDE DEF stale, n
<1>4. /\ stale \in [1 .. n -> Entry(Buckets)]
      /\ \A i \in 1 .. n : stale[i].bucket = counters[i].bucket
  BY <1>1, <1>2, <1>3
<1>5. stale \in Seq(Entry(Buckets)) /\ Len(stale) = n /\ DOMAIN stale = 1 .. n
  BY <1>1, <1>4
<1>6. Tidy(stale)
  BY <1>1, <1>4, <1>5 DEF Tidy, n
<1> USE DEF stale
<1> QED
  BY <1>6

\* The clock: a key with hits of the present window outlives it, and a new window starts
\* with nobody let through.
LEMMA TickLimiters ==
  ASSUME ClockOK, LimitersOK, Tick
  PROVE  LimitersOK'
<1> DEFINE turn == Window(now + 1) # Window(now)
<1>1. /\ now' = now + 1 /\ redis' = [redis EXCEPT !.hits = Expire(@, now, now + 1)]
      /\ replica' = IF turn THEN [p \in Replicas |-> [replica[p] EXCEPT !.counters = Stale(@)]]
                    ELSE replica
      /\ admitted' = IF turn THEN [s \in DOMAIN admitted |-> [b \in Buckets |-> 0]] ELSE admitted
      /\ lost' = IF turn THEN [p \in Replicas |-> {}] ELSE lost
  BY DEF Tick
<1>2. now \in Nat /\ now + 1 \in Nat /\ LimitersTyped
  BY AccessAssumption DEF ClockOK, LimitersOK
<1>3. /\ WindowEnd(now) \in Nat /\ WindowEnd(now + 1) \in Nat /\ WindowTicks \in Nat
      /\ now + 1 < WindowEnd(now + 1)
  BY <1>2, WindowEnds, WindowLength
<1>4. NoKey \in RedisKey /\ NoKey.hits = 0
  BY DEF NoKey, RedisKey
<1>5. /\ redis' \in [up : BOOLEAN, hits : [Buckets -> RedisKey]]
      /\ \A b \in Buckets : redis'.hits[b] =
           IF turn \/ redis.hits[b].until <= now + 1 THEN NoKey ELSE redis.hits[b]
  <2> DEFINE hits == Expire(redis.hits, now, now + 1)
  <2>1. /\ hits \in [Buckets -> RedisKey]
        /\ \A b \in Buckets :
             hits[b] = IF turn \/ redis.hits[b].until <= now + 1 THEN NoKey ELSE redis.hits[b]
    BY <1>2, <1>4 DEF Expire, LimitersTyped
  <2>2. redis' = [redis EXCEPT !.hits = hits]
    BY <1>1 DEF LimitersTyped
  <2> HIDE DEF hits, turn
  <2> QED
    BY <1>2, <2>1, <2>2 DEF LimitersTyped
<1>6. CASE turn
  <2>1. /\ replica' = [p \in Replicas |-> [replica[p] EXCEPT !.counters = Stale(@)]]
        /\ admitted' = [s \in Replicas \cup {"redis"} |-> [b \in Buckets |-> 0]]
        /\ lost' = [p \in Replicas |-> {}]
    BY <1>1, <1>2, <1>6 DEF LimitersTyped
  <2>2. \A p \in Replicas : Tidy(Stale(replica[p].counters))
    BY StaleTidy DEF LimitersOK
  <2>3. \A p \in Replicas : /\ replica'[p] \in [primary : BOOLEAN, counters : Seq(Entry(Buckets))]
                            /\ replica'[p].counters = Stale(replica[p].counters)
    BY <1>2, <2>1, <2>2 DEF LimitersTyped, Tidy
  <2>4. LimitersTyped'
    BY <1>5, <2>1, <2>3 DEF LimitersTyped
  <2>5. \A b \in Buckets : RedisCounts(b)'
    BY <1>4, <1>5, <1>6, <2>1, BudgetsTyped DEF RedisCounts
  <2>6. \A p \in Replicas : \A b \in Buckets : ProcessCounts(p, b)'
    BY <2>1, BudgetsTyped DEF ProcessCounts
  <2> QED
    BY <2>1, <2>2, <2>3, <2>4, <2>5, <2>6 DEF LimitersOK
<1>7. CASE ~turn
  <2>1. UNCHANGED <<replica, admitted, lost>> /\ WindowEnd(now + 1) = WindowEnd(now)
    BY <1>1, <1>7 DEF WindowEnd
  <2>2. ASSUME NEW b \in Buckets PROVE RedisCounts(b)'
    <3>1. RedisCounts(b) /\ redis.hits[b] \in RedisKey /\ admitted["redis"][b] \in Nat
      BY <1>2 DEF LimitersOK, LimitersTyped
    <3>2. CASE redis.hits[b].hits > 0
      <4>1. /\ WindowEnd(now) <= redis.hits[b].until /\ redis.hits[b].until <= now + WindowTicks
            /\ redis.hits[b].until \in Nat
        BY <3>1, <3>2 DEF RedisCounts, RedisKey
      <4>2. redis.hits[b].until > now + 1
        BY <1>2, <1>3, <2>1, <4>1
      <4>3. redis'.hits[b] = redis.hits[b]
        BY <1>2, <1>5, <1>7, <4>1, <4>2
      <4> QED
        BY <1>1, <1>2, <1>3, <2>1, <3>1, <4>1, <4>3 DEF RedisCounts
    <3>3. CASE ~(redis.hits[b].hits > 0)
      <4>1. admitted["redis"][b] = 0 /\ redis.hits[b].hits = 0
        BY <3>1, <3>3 DEF RedisCounts, RedisKey
      <4>2. redis'.hits[b].hits = 0
        BY <1>4, <1>5, <4>1
      <4> QED
        BY <2>1, <3>1, <4>1, <4>2 DEF RedisCounts
    <3> QED
      BY <3>2, <3>3
  <2> QED
    BY <1>5, <2>1, <2>2 DEF LimitersOK, LimitersTyped, ProcessCounts
<1> QED
  BY <1>6, <1>7

LEMMA NextLimiters == AccessInv /\ [Next]_vars => LimitersOK'
<1> SUFFICES ASSUME AccessInv, [Next]_vars PROVE LimitersOK'
  OBVIOUS
<1>1. ClockOK /\ LimitersOK /\ \A r \in Requests : ReqOK(req[r])
  BY DEF AccessInv, RequestsOK
<1>2. CASE UNCHANGED <<replica, admitted, lost, now, redis>>
  BY <1>1, <1>2, LimitersStay DEF LimitersOK, LimitersTyped
<1>3. ASSUME NEW r \in Requests, LimitInRedis(r) PROVE LimitersOK'
  BY <1>1, <1>3, RedisAdmits
<1>4. ASSUME NEW r \in Requests, LimitInProcess(r) \/ LimitAnswerLost(r) PROVE LimitersOK'
  BY <1>1, <1>4, DegradedLimiters
<1>5. ASSUME NEW p \in Replicas, Restart(p) PROVE LimitersOK'
  BY <1>1, <1>5, RestartLimiters
<1>6. CASE RedisDown \/ RedisUp
  <2>1. /\ UNCHANGED <<replica, admitted, lost, now>>
        /\ redis' \in [up : BOOLEAN, hits : [Buckets -> RedisKey]] /\ redis'.hits = redis.hits
    BY <1>1, <1>6 DEF RedisDown, RedisUp, LimitersOK, LimitersTyped
  <2> QED
    BY <1>1, <2>1, LimitersStay
<1>7. CASE Tick
  BY <1>1, <1>7, TickLimiters
<1>8. ASSUME NEW r \in Requests, Serve(r)
      PROVE  \/ UNCHANGED <<replica, admitted, lost, now, redis>>
             \/ LimitInRedis(r) \/ LimitInProcess(r) \/ LimitAnswerLost(r)
  BY <1>8 DEF Serve, Verify, VerifyFails, RefuseExpired, Touch, TouchFails,
              HandleRead, HandleRevoke, HandleCreate, HandleCreateRefused
<1>9. \/ UNCHANGED <<replica, admitted, lost, now, redis>> \/ RedisDown \/ RedisUp \/ Tick
      \/ \E r \in Requests : Serve(r)
      \/ \E p \in Replicas : Restart(p)
  BY DEF Next, vars, Command, Arrive, OperatorCreate, OperatorRevoke, OperatorRotate
<1> QED
  BY <1>2, <1>3, <1>4, <1>5, <1>6, <1>7, <1>8, <1>9

-----------------------------------------------------------------------------
(* Requests                                                                *)

LEMMA NoReqTyped ==
  /\ NoReq \in Req /\ NoReq.phase = "idle" /\ NoReq.late = FALSE /\ NoReq.counted = {}
  /\ NoReq.answer = None /\ NoReq.slack = 0 /\ NoReq.seen = NoRow
BY RowsTyped DEF NoReq, Req, Phases

LEMMA NoReqOK == ReqOK(NoReq)
<1>1. None \notin Answers
  BY AccessAssumption
<1> QED
  BY <1>1, NoReqTyped DEF ReqOK, Working, Answers

LEMMA EndedTyped ==
  ASSUME NEW q, q.kind \in Paths \cup {None}, q.late \in BOOLEAN, q.slack \in Int,
         q.counted \in SUBSET {"redis", "process"}, NEW answer \in Answers
  PROVE  LET e == Ended(q, answer) IN
         /\ e \in Req /\ e.phase = "done" /\ e.answer = answer /\ e.kind = q.kind
         /\ e.late = q.late /\ e.counted = q.counted /\ e.slack = q.slack
BY NoReqTyped DEF Ended, Req, Phases

\* A request may end with any answer, if it is not late and served, nor served uncounted.
LEMMA EndedOK ==
  ASSUME NEW q, q.kind \in Paths \cup {None}, q.late \in BOOLEAN, q.slack \in Int,
         q.counted \in SUBSET {"redis", "process"}, NEW answer \in Answers,
         q.late => answer \notin Served,
         answer = "429" => q.slack > -TicksPerSecond /\ q.slack <= WindowTicks,
         ~config.failOpen /\ config.limit /\ q.kind # "public" /\ answer = "200" =>
           q.counted = {"redis"}
  PROVE  ReqOK(Ended(q, answer))
<1> DEFINE e == Ended(q, answer)
<1>1. /\ e \in Req /\ e.phase = "done" /\ e.answer = answer /\ e.kind = q.kind
      /\ e.late = q.late /\ e.counted = q.counted /\ e.slack = q.slack
  BY EndedTyped
<1> HIDE DEF e
<1>2. ReqOK(e)
  BY <1>1 DEF ReqOK, Working
<1> USE DEF e
<1> QED
  BY <1>2

\* A working request goes to another phase.
LEMMA PhaseTyped ==
  ASSUME NEW q \in Req, NEW phase \in Phases
  PROVE  LET e == [q EXCEPT !.phase = phase] IN
         /\ e \in Req /\ e.phase = phase /\ e.kind = q.kind /\ e.at = q.at /\ e.key = q.key
         /\ e.late = q.late /\ e.counted = q.counted /\ e.answer = q.answer /\ e.slack = q.slack
BY DEF Req

LEMMA NextPassOK ==
  ASSUME NEW q \in Req, q.key \in Keys \cup Ips, q.at \in Replicas, q.kind \in Paths,
         ~q.late, q.answer = "429" => q.slack > -TicksPerSecond /\ q.slack <= WindowTicks,
         ~config.failOpen /\ config.limit /\ q.kind # "public" => q.counted = {"redis"}
  PROVE  ReqOK(NextPass(q))
<1>0. PICK first : first = IF q.key \in Keys THEN "verify" ELSE "limit"
  OBVIOUS
<1> DEFINE again == [q EXCEPT !.pass = @ + 1, !.phase = first, !.seen = NoRow]
           on == [q EXCEPT !.phase = "handle"]
<1>1. NextPass(q) = IF q.pass < Passes(q.kind) THEN again ELSE on
  BY <1>0 DEF NextPass
<1>2. /\ again \in Req /\ again.phase = first
      /\ again.kind = q.kind /\ again.at = q.at /\ again.key = q.key /\ again.late = q.late
      /\ again.counted = q.counted /\ again.answer = q.answer /\ again.slack = q.slack
  <2>1. q.pass + 1 \in Nat /\ first \in Phases
    BY <1>0 DEF Req, Phases
  <2> QED
    BY <2>1, RowsTyped DEF Req
<1>3. /\ on \in Req /\ on.phase = "handle" /\ on.kind = q.kind /\ on.at = q.at /\ on.key = q.key
      /\ on.late = q.late /\ on.counted = q.counted /\ on.answer = q.answer /\ on.slack = q.slack
  BY PhaseTyped DEF Phases
<1> HIDE DEF again, on
<1>4. ReqOK(again)
  BY <1>0, <1>2 DEF ReqOK
<1>5. ReqOK(on)
  BY <1>3 DEF ReqOK
<1> QED
  BY <1>1, <1>4, <1>5

\* Keys only become less usable, so what is said of the requests of a step holds after it.
LEMMA RequestsKept ==
  ASSUME KeysKept, config' = config, NEW f \in [Requests -> Req], req' = f,
         \A s \in Requests : ReqOK(f[s])
  PROVE  RequestsOK'
<1>1. ASSUME NEW q, ReqOK(q) PROVE ReqOK(q)'
  <2>1. q.phase \in {"verify", "expire"} /\ Barred(q.key) => Barred(q.key)'
    BY <1>1 DEF ReqOK, KeysKept
  <2> QED
    BY <1>1, <2>1 DEF ReqOK
<1>2. ASSUME NEW s \in Requests PROVE ReqOK(f[s])'
  <2>1. PICK q : q = f[s]
    OBVIOUS
  <2>2. ReqOK(q)'
    BY <1>1, <2>1
  <2> QED
    BY <2>1, <2>2
<1> QED
  BY <1>2 DEF RequestsOK, ReqOK

\* One request becomes another.
LEMMA RequestsMove ==
  ASSUME RequestsOK, KeysKept, config' = config, NEW r \in Requests, NEW new, ReqOK(new),
         req' = [req EXCEPT ![r] = new]
  PROVE  RequestsOK'
<1>1. PICK f : f = [req EXCEPT ![r] = new]
  OBVIOUS
<1>2. \A s \in Requests : ReqOK(f[s])
  BY <1>1 DEF RequestsOK
<1>3. f \in [Requests -> Req]
  BY <1>1 DEF RequestsOK, ReqOK
<1> QED
  BY <1>1, <1>2, <1>3, RequestsKept

LEMMA RequestsStay ==
  ASSUME RequestsOK, KeysKept, config' = config, req' = req
  PROVE  RequestsOK'
<1>1. PICK f : f = req
  OBVIOUS
<1>2. f \in [Requests -> Req] /\ \A s \in Requests : ReqOK(f[s])
  BY <1>1 DEF RequestsOK, ReqOK
<1> QED
  BY <1>1, <1>2, RequestsKept

\* A key that is late is barred, and there is no way past the first reading for it.
LEMMA ArriveKeeps ==
  ASSUME AccessInv, KeysKept, NEW r \in Requests, NEW call \in Calls, NEW p \in Replicas,
         Arrive(r, call, p)
  PROVE  RequestsOK'
<1> DEFINE came == [NoReq EXCEPT !.phase = FirstPhase(call), !.kind = call[2], !.at = p, !.pass = 1,
                            !.key = call[1], !.target = call[3],
                            !.late = call[1] \in Issued /\ ~IsValid(keys[call[1]])]
<1>1. /\ config' = config /\ RequestsOK
      /\ req' = [req EXCEPT ![r] = IF came.phase = "refused" THEN Ended(came, "401") ELSE came]
  BY DEF Arrive, Becomes, AccessInv
<1>2. /\ call[1] \in Keys \cup Ips /\ call[2] \in Paths /\ call[3] \in Keys \cup {None}
      /\ Keys \cap Ips = {}
  BY AccessAssumption
<1>3. /\ came.phase = FirstPhase(call) /\ came.kind = call[2] /\ came.at = p /\ came.key = call[1]
      /\ came.late = (call[1] \in Issued /\ ~IsValid(keys[call[1]]))
      /\ came.counted = {} /\ came.slack = 0 /\ came.answer = None
      /\ FirstPhase(call) \in Phases => came \in Req
  BY <1>2, NoReqTyped DEF Req
<1>4. FirstPhase(call) \in {"verify", "refused", "limit", "handle"}
  BY DEF FirstPhase
<1>5. /\ FirstPhase(call) = "verify" => call[1] \in Keys
      /\ call[1] \in Keys => FirstPhase(call) = "verify"
      /\ FirstPhase(call) = "handle" => ~config.limit
  BY <1>2 DEF FirstPhase
<1>6. call[1] \in Issued => call[1] \in Keys
  BY DEF Issued
<1> HIDE DEF came
<1>7. CASE FirstPhase(call) = "refused"
  <2>1. ~came.late
    BY <1>3, <1>5, <1>6, <1>7
  <2>2. /\ came.late = FALSE /\ came.kind \in Paths \cup {None} /\ came.slack \in Int
        /\ came.counted \in SUBSET {"redis", "process"}
    BY <1>2, <1>3, <2>1
  <2>3. ReqOK(Ended(came, "401"))
    BY <2>2, EndedOK DEF Answers
  <2> QED
    BY <1>1, <1>3, <1>7, <2>3, RequestsMove
<1>8. CASE FirstPhase(call) # "refused"
  <2>1. came \in Req
    BY <1>3, <1>4, <1>8 DEF Phases
  <2>2. came.late => came.phase = "verify" /\ Barred(came.key)
    BY <1>3, <1>5, <1>6 DEF Issued, Unused, Barred
  <2>3. None \notin Answers
    BY AccessAssumption
  <2>4. ReqOK(came)
    BY <1>2, <1>3, <1>4, <1>5, <1>8, <2>1, <2>2, <2>3 DEF ReqOK, Answers, Served
  <2> QED
    BY <1>1, <1>3, <1>8, <2>4, RequestsMove
<1> QED
  BY <1>7, <1>8

LEMMA VerifyKeeps ==
  ASSUME AccessInv, KeysKept, NEW r \in Requests,
         Verify(r) \/ VerifyFails(r) \/ RefuseExpired(r)
  PROVE  RequestsOK'
<1>1. PICK q : q = req[r]
  OBVIOUS
<1>2. /\ ReqOK(q) /\ RequestsOK /\ KeysOK /\ config' = config /\ q.phase \in {"verify", "expire"}
  BY <1>1 DEF AccessInv, RequestsOK, Verify, VerifyFails, RefuseExpired
<1>3. /\ q \in Req /\ q.key \in Keys /\ q.kind \in Paths /\ q.late \in BOOLEAN /\ q.slack \in Int
      /\ q.counted \in SUBSET {"redis", "process"} /\ keys[q.key] \in Row
  BY <1>2 DEF ReqOK, Req, Working, KeysOK
<1>4. \A answer \in {"401", "403", "503"} : ReqOK(Ended(q, answer))
  BY <1>3, EndedOK DEF Answers, Served
<1>5. CASE \E answer \in {"401", "403", "503"} : req' = [req EXCEPT ![r] = Ended(q, answer)]
  BY <1>2, <1>4, <1>5, RequestsMove
<1>6. CASE req' = [req EXCEPT ![r] = [q EXCEPT !.phase = "expire"]] /\ q.phase = "verify"
  <2>1. PICK new : new = [q EXCEPT !.phase = "expire"]
    OBVIOUS
  <2>2. /\ new \in Req /\ new.phase = "expire" /\ new.kind = q.kind /\ new.at = q.at
        /\ new.key = q.key /\ new.late = q.late /\ new.counted = q.counted
        /\ new.answer = q.answer /\ new.slack = q.slack
    BY <1>3, <2>1, PhaseTyped DEF Phases
  <2>3. ReqOK(new)
    BY <1>2, <1>6, <2>2 DEF ReqOK, Working
  <2> QED
    BY <1>2, <1>6, <2>1, <2>3, RequestsMove
<1>7. CASE /\ IsValid(keys[q.key]) /\ q.phase = "verify"
           /\ req' = [req EXCEPT ![r] = [q EXCEPT !.seen = keys[q.key],
                                        !.phase = IF config.limit THEN "limit" ELSE "touch"]]
  <2>1. PICK new : new = [q EXCEPT !.seen = keys[q.key],
                                   !.phase = IF config.limit THEN "limit" ELSE "touch"]
    OBVIOUS
  <2>2. /\ new \in Req /\ new.phase = (IF config.limit THEN "limit" ELSE "touch")
        /\ new.kind = q.kind /\ new.at = q.at /\ new.key = q.key /\ new.late = q.late
        /\ new.counted = q.counted /\ new.answer = q.answer /\ new.slack = q.slack
    BY <1>3, <2>1 DEF Req, Phases
  <2>3. ~q.late
    BY <1>2, <1>7 DEF ReqOK, Barred
  <2>4. ReqOK(new)
    BY <1>2, <1>7, <2>2, <2>3 DEF ReqOK, Working
  <2> QED
    BY <1>2, <1>7, <2>1, <2>4, RequestsMove
<1> QED
  BY <1>1, <1>5, <1>6, <1>7 DEF Verify, VerifyFails, RefuseExpired, Read, Becomes

\* How long a refused caller is told to wait.
SlackOf(seconds) == now + seconds * TicksPerSecond - WindowEnd(now)

LEMMA SlackBounded ==
  ASSUME ClockOK, NEW until \in Nat, WindowEnd(now) <= until, until <= now + WindowTicks
  PROVE  LET slack == SlackOf(Seconds(until - now)) IN
         slack \in Int /\ slack > -TicksPerSecond /\ slack <= WindowTicks
<1> DEFINE x == until - now
           told == Seconds(x) * TicksPerSecond
<1>1. now \in Nat
  BY AccessAssumption DEF ClockOK
<1>2. WindowEnd(now) \in Nat /\ now < WindowEnd(now)
  BY <1>1, WindowEnds
<1>3. /\ WindowTicks \in Nat /\ TicksPerSecond \in Nat \ {0} /\ TicksPerSecond <= WindowTicks
  BY WindowLength
<1>4. x \in Nat
  BY <1>1, <1>2
<1>5. told \in Nat /\ told > x - TicksPerSecond /\ (told <= x \/ told = TicksPerSecond)
  BY <1>4, SecondsTold
<1>6. x = until - now
  OBVIOUS
<1> HIDE DEF x, told
<1>7. /\ now + told - WindowEnd(now) \in Int
      /\ now + told - WindowEnd(now) > -TicksPerSecond
      /\ now + told - WindowEnd(now) <= WindowTicks
  BY <1>1, <1>2, <1>3, <1>4, <1>5, <1>6
<1> QED
  BY <1>7 DEF SlackOf, x, told

\* A request goes on after the limiter as the policy says.
LEMMA AfterLimitOK ==
  ASSUME ClockOK, NEW r \in Requests, ReqOK(req[r]), req[r].phase = "limit",
         NEW decision, decision.by \in {"redis", "process", "none"},
         decision.by = "process" => config.failOpen, decision.by = "none" => ~config.failOpen,
         decision.by # "none" =>
           LET slack == SlackOf(decision.seconds) IN
           slack \in Int /\ slack > -TicksPerSecond /\ slack <= WindowTicks
  PROVE  ReqOK(AfterLimit(r, decision))
<1>1. PICK q : q = req[r]
  OBVIOUS
<1>2. ReqOK(q) /\ q.phase = "limit"
  BY <1>1
<1>3. /\ q \in Req /\ q.key \in Keys \cup Ips /\ q.at \in Replicas /\ q.kind \in Paths
      /\ q.late = FALSE /\ q.slack \in Int /\ q.counted \in SUBSET {"redis", "process"}
  BY <1>2 DEF ReqOK, Req, Working
<1>4. q.answer = "429" => q.slack > -TicksPerSecond /\ q.slack <= WindowTicks
  BY <1>2 DEF ReqOK
<1>5. CASE decision.by = "none" /\ q.kind = "public"
  <2>1. PICK new : new = [q EXCEPT !.phase = "handle"]
    OBVIOUS
  <2>2. AfterLimit(r, decision) = new
    BY <1>1, <1>5, <2>1 DEF AfterLimit
  <2>3. /\ new \in Req /\ new.phase = "handle" /\ new.kind = q.kind /\ new.at = q.at
        /\ new.key = q.key /\ new.late = q.late /\ new.counted = q.counted
        /\ new.answer = q.answer /\ new.slack = q.slack
    BY <1>3, <2>1, PhaseTyped DEF Phases
  <2> QED
    BY <1>2, <1>3, <1>5, <2>2, <2>3 DEF ReqOK
<1>6. CASE decision.by = "none" /\ q.kind # "public"
  <2>1. AfterLimit(r, decision) = Ended(q, "unavailable")
    BY <1>1, <1>6 DEF AfterLimit
  <2> QED
    BY <1>3, <2>1, EndedOK DEF Answers
<1>7. CASE decision.by # "none"
  <2>1. PICK passed : passed = [q EXCEPT !.counted = @ \cup {decision.by}]
    OBVIOUS
  <2>2. /\ passed \in Req /\ passed.phase = "limit" /\ passed.kind = q.kind /\ passed.at = q.at
        /\ passed.key = q.key /\ passed.late = FALSE /\ passed.answer = q.answer
        /\ passed.slack = q.slack /\ passed.counted = q.counted \cup {decision.by}
    BY <1>2, <1>3, <1>7, <2>1 DEF Req
  <2>3. ~config.failOpen /\ config.limit /\ q.kind # "public" => passed.counted = {"redis"}
    BY <1>2, <1>7, <2>2 DEF ReqOK, Working
  <2>4. CASE decision.allowed /\ q.key \in Keys
    <3>1. PICK new : new = [passed EXCEPT !.phase = "touch"]
      OBVIOUS
    <3>2. AfterLimit(r, decision) = new
      BY <1>1, <1>7, <2>1, <2>4, <3>1 DEF AfterLimit
    <3>3. /\ new \in Req /\ new.phase = "touch" /\ new.kind = q.kind /\ new.at = q.at
          /\ new.key = q.key /\ new.late = FALSE /\ new.counted = passed.counted
          /\ new.answer = q.answer /\ new.slack = q.slack
      BY <2>2, <3>1, PhaseTyped DEF Phases
    <3> QED
      BY <1>3, <1>4, <2>3, <2>4, <3>2, <3>3 DEF ReqOK
  <2>5. CASE decision.allowed /\ q.key \notin Keys
    <3>1. AfterLimit(r, decision) = NextPass(passed)
      BY <1>1, <1>7, <2>1, <2>5 DEF AfterLimit
    <3> QED
      BY <1>3, <1>4, <2>2, <2>3, <3>1, NextPassOK
  <2>6. CASE ~decision.allowed
    <3>1. PICK new : new = [passed EXCEPT !.slack = SlackOf(decision.seconds)]
      OBVIOUS
    <3>2. AfterLimit(r, decision) = Ended(new, "429")
      BY <1>1, <1>7, <2>1, <2>6, <3>1 DEF AfterLimit, SlackOf
    <3>3. /\ new.kind = q.kind /\ new.late = FALSE /\ new.counted = passed.counted
          /\ new.slack = SlackOf(decision.seconds)
      BY <2>2, <3>1 DEF Req
    <3>4. passed.counted \in SUBSET {"redis", "process"}
      BY <2>2 DEF Req
    <3> QED
      BY <1>3, <1>7, <3>2, <3>3, <3>4, EndedOK DEF Answers
  <2> QED
    BY <2>4, <2>5, <2>6
<1> QED
  BY <1>5, <1>6, <1>7

LEMMA LimitKeeps ==
  ASSUME AccessInv, KeysKept, NEW r \in Requests,
         LimitInRedis(r) \/ LimitInProcess(r) \/ LimitAnswerLost(r)
  PROVE  RequestsOK'
<1>1. /\ ClockOK /\ LimitersOK /\ RequestsOK /\ ReqOK(req[r]) /\ req[r].phase = "limit"
      /\ config' = config
  BY DEF AccessInv, RequestsOK, LimitInRedis, LimitInProcess, LimitAnswerLost
<1>2. now \in Nat /\ WindowEnd(now) \in Nat /\ WindowEnd(now) <= now + WindowTicks
  BY <1>1, AccessAssumption, WindowEnds DEF ClockOK
<1>3. CASE LimitInRedis(r)
  <2>1. PICK b, key : b = BucketOf(r) /\ key = Incremented(redis.hits[b], b, now)
    OBVIOUS
  <2>2. key \in RedisKey /\ WindowEnd(now) <= key.until /\ key.until <= now + WindowTicks
    BY <1>1, <2>1, BucketTyped, RedisHits
  <2>3. PICK decision : decision = Decision("redis", key.hits, b, Seconds(key.until - now))
    OBVIOUS
  <2>4. decision.by = "redis" /\ decision.seconds = Seconds(key.until - now)
    BY <2>3 DEF Decision
  <2>5. key.until \in Nat
    BY <2>2 DEF RedisKey
  <2>6. ReqOK(AfterLimit(r, decision))
    BY <1>1, <2>2, <2>4, <2>5, SlackBounded, AfterLimitOK
  <2>7. req' = [req EXCEPT ![r] = AfterLimit(r, decision)]
    BY <1>3, <2>1, <2>3 DEF LimitInRedis, Becomes
  <2> QED
    BY <1>1, <2>6, <2>7, RequestsMove
<1>4. CASE Degraded(r)
  <2>1. PICK p, b : p = req[r].at /\ b = BucketOf(r)
    OBVIOUS
  <2>2. PICK decision : decision =
          IF FallsBack(p)
          THEN Decision("process", InProcessHits(replica[p].counters, b), b,
                        Seconds(WindowEnd(now) - now))
          ELSE [by |-> "none", allowed |-> FALSE, seconds |-> 0]
    OBVIOUS
  <2>3. /\ FallsBack(p) => decision.by = "process" /\ decision.seconds = Seconds(WindowEnd(now) - now)
        /\ ~FallsBack(p) => decision.by = "none"
    BY <2>2 DEF Decision
  <2>4. ReqOK(AfterLimit(r, decision))
    BY <1>1, <1>2, <2>3, SlackBounded, AfterLimitOK DEF FallsBack
  <2>5. req' = [req EXCEPT ![r] = AfterLimit(r, decision)]
    BY <1>4, <2>1, <2>2 DEF Degraded, Becomes
  <2> QED
    BY <1>1, <2>4, <2>5, RequestsMove
<1> QED
  BY <1>3, <1>4 DEF LimitInProcess, LimitAnswerLost

LEMMA RouteKeeps ==
  ASSUME AccessInv, KeysKept, NEW r \in Requests,
         \/ Touch(r) \/ TouchFails(r) \/ HandleRead(r) \/ HandleRevoke(r) \/ HandleCreateRefused(r)
         \/ \E k \in Keys, scope \in NewScopes, expires \in Futures :
              HandleCreate(r, k, scope, expires)
  PROVE  RequestsOK'
<1>1. PICK q : q = req[r]
  OBVIOUS
<1>2. ReqOK(q) /\ RequestsOK /\ config' = config /\ q.phase \in {"touch", "handle"}
  BY <1>1 DEF AccessInv, RequestsOK, Touch, TouchFails, HandleRead, HandleRevoke,
              HandleCreateRefused, HandleCreate
<1>3. /\ q \in Req /\ q.key \in Keys \cup Ips /\ q.at \in Replicas /\ q.kind \in Paths
      /\ q.late = FALSE /\ q.slack \in Int /\ q.counted \in SUBSET {"redis", "process"}
      /\ q.answer = "429" => q.slack > -TicksPerSecond /\ q.slack <= WindowTicks
      /\ ~config.failOpen /\ config.limit /\ q.kind # "public" => q.counted = {"redis"}
  BY <1>2 DEF ReqOK, Req, Working
<1>4. \A answer \in {"200", "403", "404", "422"} : ReqOK(Ended(q, answer))
  BY <1>3, EndedOK DEF Answers
<1>5. ReqOK(NextPass(q))
  BY <1>3, NextPassOK
<1>6. \/ req' = [req EXCEPT ![r] = NextPass(q)]
      \/ \E answer \in {"200", "403", "404", "422"} : req' = [req EXCEPT ![r] = Ended(q, answer)]
  BY <1>1 DEF Touch, TouchFails, HandleRead, HandleRevoke, HandleCreateRefused, HandleCreate, Becomes
<1> QED
  BY <1>2, <1>4, <1>5, <1>6, RequestsMove

LEMMA NextRequests == AccessInv /\ KeysKept /\ [Next]_vars => RequestsOK'
<1> SUFFICES ASSUME AccessInv, KeysKept, [Next]_vars PROVE RequestsOK'
  OBVIOUS
<1>1. RequestsOK
  BY DEF AccessInv
<1>2. CASE UNCHANGED <<req, config>>
  BY <1>1, <1>2, RequestsStay
<1>3. ASSUME NEW r \in Requests, NEW call \in Calls, NEW p \in Replicas, Arrive(r, call, p)
      PROVE  RequestsOK'
  BY <1>3, ArriveKeeps
<1>4. ASSUME NEW r \in Requests, Serve(r) PROVE RequestsOK'
  BY <1>4, VerifyKeeps, LimitKeeps, RouteKeeps DEF Serve
<1>5. ASSUME NEW p \in Replicas, Restart(p) PROVE RequestsOK'
  <2>1. PICK f : f = [r \in Requests |-> IF req[r].at = p THEN NoReq ELSE req[r]]
    OBVIOUS
  <2>2. config' = config /\ req' = f
    BY <1>5, <2>1 DEF Restart
  <2>3. \A r \in Requests : ReqOK(f[r])
    BY <1>1, <2>1, NoReqOK DEF RequestsOK
  <2>4. f \in [Requests -> Req]
    BY <2>1, <2>3 DEF ReqOK
  <2> QED
    BY <2>2, <2>3, <2>4, RequestsKept
<1>6. \/ UNCHANGED <<req, config>>
      \/ \E r \in Requests, call \in Calls, p \in Replicas : Arrive(r, call, p)
      \/ \E r \in Requests : Serve(r)
      \/ \E p \in Replicas : Restart(p)
  BY DEF Next, vars, Command, OperatorCreate, OperatorRevoke, OperatorRotate, RedisDown, RedisUp, Tick
<1> QED
  BY <1>2, <1>3, <1>4, <1>5, <1>6

-----------------------------------------------------------------------------
(* Theorems                                                                *)

LEMMA NextClock == AccessInv /\ [Next]_vars => ClockOK'
<1> SUFFICES ASSUME AccessInv, [Next]_vars PROVE ClockOK'
  OBVIOUS
<1>1. ClockOK /\ {MaxTime, MaxEvents, MaxCalls} \subseteq Nat
  BY AccessAssumption DEF AccessInv
<1>2. CASE UNCHANGED <<config, now, calls, events>>
  BY <1>1, <1>2 DEF ClockOK
<1>3. CASE UNCHANGED <<config, now, calls>> /\ events < MaxEvents /\ events' = events + 1
  BY <1>1, <1>3 DEF ClockOK
<1>4. CASE UNCHANGED <<config, now, events>> /\ calls < MaxCalls /\ calls' = calls + 1
  BY <1>1, <1>4 DEF ClockOK
<1>5. CASE UNCHANGED <<config, calls, events>> /\ now < MaxTime /\ now' = now + 1
  BY <1>1, <1>5 DEF ClockOK
<1>6. ASSUME NEW r \in Requests, Serve(r)
      PROVE  \/ UNCHANGED <<config, now, calls, events>>
             \/ UNCHANGED <<config, now, calls>> /\ events < MaxEvents /\ events' = events + 1
  BY <1>6 DEF Serve, Verify, VerifyFails, RefuseExpired, LimitInRedis, LimitInProcess,
              LimitAnswerLost, Touch, TouchFails, HandleRead, HandleRevoke, HandleCreate,
              HandleCreateRefused
<1>7. \/ UNCHANGED <<config, now, calls, events>>
      \/ UNCHANGED <<config, now, calls>> /\ events < MaxEvents /\ events' = events + 1
      \/ UNCHANGED <<config, now, events>> /\ calls < MaxCalls /\ calls' = calls + 1
      \/ UNCHANGED <<config, calls, events>> /\ now < MaxTime /\ now' = now + 1
      \/ \E r \in Requests : Serve(r)
  BY DEF Next, vars, Command, Arrive, OperatorCreate, OperatorRevoke, OperatorRotate, Restart,
         RedisDown, RedisUp, Tick
<1> QED
  BY <1>2, <1>3, <1>4, <1>5, <1>6, <1>7

LEMMA InitAccess == Init => AccessInv
<1> SUFFICES ASSUME Init PROVE AccessInv
  OBVIOUS
<1>1. ClockOK
  BY AccessAssumption DEF Init, ClockOK
<1>2. KeysOK
  <2>1. ASSUME NEW k \in Keys
        PROVE  (IF Grants[k] = "none" THEN NoRow ELSE NewRow(Grants[k], Lifetimes[k])) \in Row
    BY RowsTyped, AccessAssumption DEF NewRow, Row
  <2> QED
    BY <2>1 DEF Init, KeysOK
<1>3. LimitersOK
  <2>1. NoKey \in RedisKey /\ NoKey.hits = 0
    BY DEF NoKey, RedisKey
  <2>2. /\ redis \in [up : BOOLEAN, hits : [Buckets -> RedisKey]]
        /\ \A b \in Buckets : redis.hits[b] = NoKey
    BY <2>1 DEF Init
  <2>3. /\ replica = [p \in Replicas |-> [primary |-> redis.up, counters |-> <<>>]]
        /\ admitted = [s \in Replicas \cup {"redis"} |-> [b \in Buckets |-> 0]]
        /\ lost = [p \in Replicas |-> {}]
    BY DEF Init
  <2>4. redis.up \in BOOLEAN
    BY <2>2
  <2>5. LimitersTyped
    BY <2>2, <2>3, <2>4 DEF LimitersTyped
  <2>6. Tidy(<<>>)
    BY WindowLength DEF Tidy
  <2>7. \A b \in Buckets : RedisCounts(b)
    BY <2>1, <2>2, <2>3, BudgetsTyped DEF RedisCounts
  <2>8. \A p \in Replicas : \A b \in Buckets : ProcessCounts(p, b)
    BY <2>3, BudgetsTyped DEF ProcessCounts
  <2> QED
    BY <2>3, <2>5, <2>6, <2>7, <2>8 DEF LimitersOK
<1>4. RequestsOK
  BY NoReqOK DEF Init, RequestsOK
<1> QED
  BY <1>1, <1>2, <1>3, <1>4 DEF AccessInv

\* Keys, limiters and requests fit together, whatever requests interleave.
THEOREM AccessInvHolds == Spec => []AccessInv
<1>1. AccessInv /\ [Next]_vars => AccessInv'
  BY NextClock, NextKeys, NextLimiters, NextRequests DEF AccessInv
<1> QED
  BY <1>1, InitAccess, PTL DEF Spec

\* Rows, counters and requests stay in their ranges; the fallback's memory is bounded, and
\* it forgets a count of the present window only with a full dictionary.
THEOREM AccessTypeSafe == Spec => []AccessTypeOK
<1>1. AccessInv => AccessTypeOK
  <2> SUFFICES ASSUME AccessInv PROVE AccessTypeOK
    OBVIOUS
  <2>1. ClockOK /\ KeysOK /\ LimitersOK /\ RequestsOK
    BY DEF AccessInv
  <2>2. \A r \in Requests : req[r].phase \in Phases
    BY <2>1 DEF RequestsOK, ReqOK, Req
  <2>3. redis.up \in BOOLEAN /\ redis.hits \in [Buckets -> RedisKey]
    BY <2>1 DEF LimitersOK, LimitersTyped
  <2>4. \A p \in Replicas :
          /\ replica[p].primary \in BOOLEAN /\ Tidy(replica[p].counters) /\ lost[p] \subseteq Buckets
          /\ lost[p] # {} =>
                 /\ Len(replica[p].counters) > 0
                 /\ Len(replica[p].counters) >= MaxEntries - 1
    BY <2>1 DEF LimitersOK, LimitersTyped
  <2>5. \A s \in DOMAIN admitted, b \in Buckets : admitted[s][b] \in Nat
    BY <2>1 DEF LimitersOK, LimitersTyped
  <2> QED
    BY <2>1, <2>2, <2>3, <2>4, <2>5 DEF AccessTypeOK, ClockOK, KeysOK, Tidy, Phases
<1> QED
  BY <1>1, AccessInvHolds, PTL

\* In one window no limiter lets a caller through more often than its budget, over outages,
\* lost answers and the turn of windows, unless the caller's count had to be evicted.
THEOREM BudgetsHold == Spec => []WithinBudget
<1>1. AccessInv => WithinBudget
  BY DEF AccessInv, LimitersOK, RedisCounts, ProcessCounts, WithinBudget
<1> QED
  BY <1>1, AccessInvHolds, PTL

\* A refused caller that waits as told comes back at the window's end, or within the next.
THEOREM RefusedComeBack == Spec => []RetryIsNearReset
<1>1. AccessInv => RetryIsNearReset
  BY DEF AccessInv, RequestsOK, ReqOK, RetryIsNearReset
<1> QED
  BY <1>1, AccessInvHolds, PTL

\* Under the fail-closed policy a data route serves only what Redis counted.
THEOREM ClosedServesCounted == Spec => []ClosedMeansCounted
<1>1. AccessInv => ClosedMeansCounted
  BY DEF AccessInv, RequestsOK, ReqOK, ClosedMeansCounted
<1> QED
  BY <1>1, AccessInvHolds, PTL

\* Revocation is final and immediate, whatever requests are under way and roll back.
THEOREM RevocationIsFinal == Spec => RevocationHolds
<1> DEFINE Step ==
      /\ \A k \in Keys : keys[k].status = "REVOKED" => keys'[k].status = "REVOKED"
      /\ \A r \in Requests : req'[r].late => req'[r].answer \notin {"200", "404", "422"}
<1>1. AccessInv /\ AccessInv' /\ [Next]_vars => Step
  <2>1. AccessInv /\ [Next]_vars =>
          \A k \in Keys : keys[k].status = "REVOKED" => keys'[k].status = "REVOKED"
    BY NextKeys DEF KeysKept
  <2>2. AccessInv' => \A r \in Requests : req'[r].late => req'[r].answer \notin Served
    BY DEF AccessInv, RequestsOK, ReqOK
  <2> QED
    BY <2>1, <2>2 DEF Served
<1> HIDE DEF Step
<1>2. Spec => [][Step]_vars
  BY <1>1, AccessInvHolds, PTL DEF Spec
<1> USE DEF Step
<1> QED
  BY <1>2 DEF RevocationHolds
================================================================================

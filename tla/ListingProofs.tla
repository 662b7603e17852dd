------------------------------ MODULE ListingProofs ------------------------------
(***************************************************************************)
(* Theorems about TenderListing, for every catalogue, filter, page size    *)
(* and number of commits during a walk: what a client that reads a listing *)
(* page by page can rely on.                                               *)
(*                                                                         *)
(* The argument counts: a tender's place in the listing is the number of   *)
(* tenders before it, which the order makes unique.  While nothing comes   *)
(* in or moves, places only fall, so a tender that was on a page is not on *)
(* a later one; while nothing leaves or moves, places only rise, so a      *)
(* tender that was not on a page yet is still ahead.                       *)
(***************************************************************************)
EXTENDS TenderListing, FiniteSetTheorems, SequenceTheorems, TLAPS

-----------------------------------------------------------------------------
(* The order of a listing                                                  *)

\* Keys are ordered strictly, and two of them are the same or one comes first.
LEMMA KeysAreOrdered ==
  ASSUME NEW f, NEW a \in Moments, NEW b \in Moments, NEW c \in Moments
  PROVE  /\ ~KeyBefore(a, a, f)
         /\ KeyBefore(a, b, f) /\ KeyBefore(b, c, f) => KeyBefore(a, c, f)
         /\ a = b \/ KeyBefore(a, b, f) \/ KeyBefore(b, a, f)
<1>1. CASE Descending(f)
  BY <1>1 DEF KeyBefore, Moments
<1>2. CASE ~Descending(f)
  BY <1>2 DEF KeyBefore, Moments
<1> QED
  BY <1>1, <1>2

\* What a table of committed rows may be.
Tables == [Tenders -> Rows \cup {None}]

\* A listed tender has a row, and so a key.
LEMMA ListedHaveKeys ==
  ASSUME NEW rows \in Tables, NEW f \in Filters, NEW t \in Listed(rows, f)
  PROVE  t \in Tenders /\ t \in Nat /\ SortKey(rows[t], f) \in Moments
<1>1. t \in Tenders /\ rows[t] \in Rows
  BY DEF Listed, Tables
<1>2. rows[t] \in Row /\ t \in Nat
  BY <1>1, ListingAssumption
<1> QED
  BY <1>1, <1>2 DEF SortKey, Row, Moments

\* The order of a listing is strict and total: ids break the ties.
LEMMA ListingIsOrdered ==
  ASSUME NEW rows \in Tables, NEW f \in Filters,
         NEW t \in Listed(rows, f), NEW u \in Listed(rows, f), NEW v \in Listed(rows, f)
  PROVE  /\ ~Before(rows, t, t, f)
         /\ Before(rows, t, u, f) /\ Before(rows, u, v, f) => Before(rows, t, v, f)
         /\ t = u \/ Before(rows, t, u, f) \/ Before(rows, u, t, f)
<1>1. PICK a \in Moments, b \in Moments, c \in Moments :
        a = SortKey(rows[t], f) /\ b = SortKey(rows[u], f) /\ c = SortKey(rows[v], f)
  BY ListedHaveKeys
<1>2. t \in Nat /\ u \in Nat /\ v \in Nat
  BY ListedHaveKeys
<1>3. /\ ~KeyBefore(a, a, f)
      /\ KeyBefore(a, b, f) /\ KeyBefore(b, c, f) => KeyBefore(a, c, f)
      /\ a = b \/ KeyBefore(a, b, f) \/ KeyBefore(b, a, f)
  BY KeysAreOrdered
<1>4. ~Before(rows, t, t, f)
  BY <1>1, <1>2, <1>3 DEF Before
<1>5. Before(rows, t, u, f) /\ Before(rows, u, v, f) => Before(rows, t, v, f)
  BY <1>1, <1>2, <1>3 DEF Before
<1>6. t = u \/ Before(rows, t, u, f) \/ Before(rows, u, t, f)
  BY <1>1, <1>2, <1>3 DEF Before
<1> QED
  BY <1>4, <1>5, <1>6

-----------------------------------------------------------------------------
(* Places                                                                  *)

\* The tenders before t in the listing, and how many they are.
Above(rows, f, t) == {u \in Listed(rows, f) : Before(rows, u, t, f)}

Place(rows, f, t) == Cardinality(Above(rows, f, t))

\* A listing is finite, and so is what is before a tender.
LEMMA PlacesAreNumbers ==
  ASSUME NEW rows, NEW f, NEW t
  PROVE  /\ IsFiniteSet(Listed(rows, f)) /\ Cardinality(Listed(rows, f)) \in Nat
         /\ IsFiniteSet(Above(rows, f, t)) /\ Place(rows, f, t) \in Nat
<1>1. IsFiniteSet(Listed(rows, f))
  BY ListingAssumption, FS_Subset DEF Listed
<1>2. IsFiniteSet(Above(rows, f, t))
  BY <1>1, FS_Subset DEF Above
<1> QED
  BY <1>1, <1>2, FS_CardinalityType DEF Place

\* A listed tender's place is before the end.
LEMMA PlaceWithin ==
  ASSUME NEW rows \in Tables, NEW f \in Filters, NEW t \in Listed(rows, f)
  PROVE  Place(rows, f, t) < Cardinality(Listed(rows, f))
<1>1. Above(rows, f, t) \subseteq Listed(rows, f) /\ t \notin Above(rows, f, t)
  BY ListingIsOrdered DEF Above
<1>2. /\ IsFiniteSet(Listed(rows, f)) /\ Cardinality(Listed(rows, f)) \in Nat
      /\ Place(rows, f, t) \in Nat
  BY PlacesAreNumbers
<1>3. Place(rows, f, t) <= Cardinality(Listed(rows, f))
  BY <1>1, <1>2, FS_Subset DEF Place
<1>4. Place(rows, f, t) # Cardinality(Listed(rows, f))
  BY <1>1, <1>2, FS_Subset DEF Place
<1> QED
  BY <1>2, <1>3, <1>4

\* In an order the database may return, a tender stands right after those before it.
LEMMA OrdersFollowPlaces ==
  ASSUME NEW rows \in Tables, NEW f \in Filters, NEW s \in Orders(rows, f)
  PROVE  /\ s \in [1 .. Cardinality(Listed(rows, f)) -> Listed(rows, f)]
         /\ \A t \in Listed(rows, f) : \E i \in DOMAIN s : s[i] = t
         /\ \A i \in DOMAIN s : Place(rows, f, s[i]) = i - 1
<1> DEFINE L == Listed(rows, f)
           n == Cardinality(L)
<1>1. /\ s \in [1 .. n -> L]
      /\ \A i, j \in 1 .. n : i # j => s[i] # s[j]
      /\ \A i, j \in 1 .. n : Before(rows, s[i], s[j], f) => i < j
  BY DEF Orders, SetToSeqs
<1>2. IsFiniteSet(L) /\ n \in Nat
  BY PlacesAreNumbers
<1>3. \A t \in L : \E i \in 1 .. n : s[i] = t
  <2>1. s \in Injection(1 .. n, L)
    BY <1>1 DEF Injection, IsInjective
  <2>2. Cardinality(1 .. n) = n
    BY <1>2, FS_Interval
  <2>3. s \in Surjection(1 .. n, L)
    BY <1>2, <2>1, <2>2, FS_Injection
  <2> QED
    BY <2>3 DEF Surjection
<1>4. ASSUME NEW i \in 1 .. n
      PROVE  Place(rows, f, s[i]) = i - 1
  <2> DEFINE A == Above(rows, f, s[i])
             g == [j \in 1 .. i - 1 |-> s[j]]
  <2>1. \A j \in 1 .. i - 1 : s[j] \in A
    <3> SUFFICES ASSUME NEW j \in 1 .. i - 1 PROVE s[j] \in A
      OBVIOUS
    <3>1. j \in 1 .. n /\ j # i /\ ~(i < j)
      BY <1>2
    <3>2. s[i] \in L /\ s[j] \in L /\ s[i] # s[j] /\ ~Before(rows, s[i], s[j], f)
      BY <1>1, <3>1
    <3>3. Before(rows, s[j], s[i], f)
      BY <3>2, ListingIsOrdered
    <3> QED
      BY <3>2, <3>3 DEF Above
  <2>2. \A u \in A : \E j \in 1 .. i - 1 : s[j] = u
    <3> SUFFICES ASSUME NEW u \in A PROVE \E j \in 1 .. i - 1 : s[j] = u
      OBVIOUS
    <3>1. u \in L /\ Before(rows, u, s[i], f)
      BY DEF Above
    <3>2. PICK j \in 1 .. n : s[j] = u
      BY <1>3, <3>1
    <3>3. j < i
      BY <1>1, <3>1, <3>2
    <3> QED
      BY <1>2, <3>2, <3>3
  <2>3. g \in Bijection(1 .. i - 1, A)
    <3>1. g \in [1 .. i - 1 -> A]
      BY <2>1
    <3>2. \A j, k \in 1 .. i - 1 : g[j] = g[k] => j = k
      BY <1>1, <1>2
    <3>3. \A u \in A : \E j \in 1 .. i - 1 : g[j] = u
      BY <2>2
    <3> HIDE DEF g, A
    <3> QED
      BY <3>1, <3>2, <3>3 DEF Bijection, Injection, IsInjective, Surjection
  <2>4. IsFiniteSet(1 .. i - 1) /\ Cardinality(1 .. i - 1) = i - 1
    <3>1. PICK m \in Nat : m = i - 1
      BY <1>2
    <3>2. IsFiniteSet(1 .. m) /\ Cardinality(1 .. m) = m
      BY FS_Interval
    <3> QED
      BY <3>1, <3>2
  <2>5. ExistsBijection(1 .. i - 1, A)
    BY <2>3 DEF ExistsBijection
  <2>6. Cardinality(A) = i - 1
    BY <2>4, <2>5, FS_Bijection
  <2> QED
    BY <2>6 DEF Place
<1> QED
  BY <1>1, <1>3, <1>4

\* Places in a listing that something may have left, and nothing came into, are not later;
\* in one that something may have come into, they are not earlier.
LEMMA PlacesShift ==
  ASSUME NEW old \in Tables, NEW new \in Tables, NEW f \in Filters,
         Listed(new, f) \subseteq Listed(old, f),
         \A u \in Listed(new, f) : SortKey(new[u], f) = SortKey(old[u], f),
         NEW t \in Listed(new, f)
  PROVE  Place(new, f, t) <= Place(old, f, t)
<1>1. Above(new, f, t) \subseteq Above(old, f, t)
  BY DEF Above, Before
<1>2. IsFiniteSet(Above(old, f, t))
  BY PlacesAreNumbers
<1> QED
  BY <1>1, <1>2, FS_Subset DEF Place

-----------------------------------------------------------------------------
(* Pages                                                                   *)

\* The tenders of a page are those whose places are on it.
LEMMA PageHoldsPlaces ==
  ASSUME NEW rows \in Tables, NEW f \in Filters, NEW s \in Orders(rows, f),
         NEW w, w.page \in Nat \ {0}, w.size \in Nat \ {0}
  PROVE  /\ Page(s, w) \in Seq(Tenders)
         /\ \A m \in DOMAIN Page(s, w) :
              /\ Page(s, w)[m] \in Listed(rows, f)
              /\ Place(rows, f, Page(s, w)[m]) = Offset(w) + m - 1
              /\ m <= w.size
         /\ \A t \in Listed(rows, f) :
              Offset(w) <= Place(rows, f, t) /\ Place(rows, f, t) < Offset(w) + w.size =>
                \E m \in DOMAIN Page(s, w) : Page(s, w)[m] = t
<1> DEFINE L == Listed(rows, f)
<1>1. PICK n \in Nat : n = Cardinality(L)
  BY PlacesAreNumbers
<1>2. /\ s \in [1 .. n -> L] /\ DOMAIN s = 1 .. n
      /\ \A t \in L : \E i \in 1 .. n : s[i] = t
      /\ \A i \in 1 .. n : Place(rows, f, s[i]) = i - 1
  BY <1>1, OrdersFollowPlaces
<1>3. s \in Seq(L) /\ Len(s) = n
  BY <1>2
<1>4. PICK o \in Nat : o = Offset(w)
  BY DEF Offset
<1>5. PICK z \in Nat \ {0} : z = w.size
  OBVIOUS
<1>6. PICK e \in Nat : e = IF o + z < n THEN o + z ELSE n
  BY <1>5
<1>7. Page(s, w) = SubSeq(s, o + 1, e)
  BY <1>3, <1>4, <1>5, <1>6 DEF Page
<1>8. \A i \in o + 1 .. e : s[i] \in L
  BY <1>2, <1>6
<1>9. /\ SubSeq(s, o + 1, e) \in Seq(L)
      /\ Len(SubSeq(s, o + 1, e)) = IF o + 1 <= e THEN e - (o + 1) + 1 ELSE 0
      /\ \A i \in 1 .. e - (o + 1) + 1 : SubSeq(s, o + 1, e)[i] = s[(o + 1) + i - 1]
  BY <1>8, SubSeqProperties
<1>10. DOMAIN Page(s, w) = 1 .. (IF o + 1 <= e THEN e - o ELSE 0)
  BY <1>7, <1>9
<1>11. \A i \in DOMAIN Page(s, w) : i \in 1 .. e - o /\ Page(s, w)[i] = s[o + i] /\ o + i \in 1 .. n
  BY <1>6, <1>7, <1>9, <1>10
<1>12. Page(s, w) \in Seq(Tenders)
  BY <1>7, <1>9 DEF Listed
<1>13. ASSUME NEW m \in DOMAIN Page(s, w)
       PROVE  /\ Page(s, w)[m] \in L
              /\ Place(rows, f, Page(s, w)[m]) = Offset(w) + m - 1
              /\ m <= w.size
  <2>1. PICK i \in 1 .. n : i = o + m
    BY <1>11
  <2>2. Page(s, w)[m] = s[i] /\ s[i] \in L /\ Place(rows, f, s[i]) = i - 1
    BY <1>2, <1>11, <2>1
  <2>3. m \in 1 .. e - o
    BY <1>11
  <2>4. m <= z
    BY <1>6, <2>3
  <2> QED
    BY <1>4, <1>5, <2>1, <2>2, <2>3, <2>4
<1>14. ASSUME NEW t \in L, Offset(w) <= Place(rows, f, t), Place(rows, f, t) < Offset(w) + w.size
       PROVE  \E m \in DOMAIN Page(s, w) : Page(s, w)[m] = t
  <2>1. PICK i \in 1 .. n : s[i] = t
    BY <1>2
  <2>2. o <= i - 1 /\ i - 1 < o + z
    BY <1>2, <1>4, <1>5, <1>14, <2>1
  <2>3. i - o \in DOMAIN Page(s, w)
    BY <1>6, <1>10, <2>2
  <2> QED
    BY <1>11, <2>1, <2>3
<1> QED
  BY <1>12, <1>13, <1>14

-----------------------------------------------------------------------------
(* The invariant                                                           *)

Walks ==
  [at : {"idle", "refused", "count", "select", "done"}, filter : Filters, size : PageSizes,
   page : Nat \ {0}, total : Nat]

Drifts ==
  [entered : SUBSET Tenders, left : SUBSET Tenders, moved : SUBSET Tenders, commits : Nat,
   split : BOOLEAN]

WalkTyped ==
  /\ table \in Tables /\ walk \in Walks /\ drift \in Drifts
  /\ shown \in Seq(Seq(Tenders))

\* A page per answer.
PagesCounted == Len(shown) = IF walk.at = "done" THEN walk.page ELSE walk.page - 1

\* The last total is the listing's, unless something was committed since; a walk is over
\* when no page is left of it.
TotalKept ==
  /\ walk.at \in {"select", "done"} /\ ~drift.split =>
       walk.total = Cardinality(Listed(table, walk.filter))
  /\ walk.at = "done" => ~HasNext(walk)

\* While nothing comes in or moves: what was shown on a page and is listed has not fallen
\* behind that page, and nothing was shown twice.
PlacesFall ==
  drift.entered \cup drift.moved = {} =>
    /\ \A i \in DOMAIN shown : \A m \in DOMAIN shown[i] :
         shown[i][m] \in Listed(table, walk.filter) =>
           Place(table, walk.filter, shown[i][m]) < i * walk.size
    /\ \A i, j \in DOMAIN shown : \A m \in DOMAIN shown[i], n \in DOMAIN shown[j] :
         shown[i][m] = shown[j][n] => i = j /\ m = n

\* While nothing leaves or moves: what was there and was not shown is ahead.
PlacesRise ==
  drift.left \cup drift.moved = {} =>
    \A t \in Listed(table, walk.filter) \ drift.entered :
      t \in Shown \/ Place(table, walk.filter, t) >= Len(shown) * walk.size

WalkInv == WalkTyped /\ PagesCounted /\ TotalKept /\ PlacesFall /\ PlacesRise

\* The invariant is what a walk can rely on: at its end nothing is ahead.
LEMMA WalkInvSuffices == WalkInv => WalkIsReliable
<1> SUFFICES ASSUME WalkInv
             PROVE  WalkIsReliable
  OBVIOUS
<1>1. ASSUME drift.entered \cup drift.moved = {}
      PROVE  \A t \in Shown : ~Repeated(t)
  BY <1>1 DEF WalkInv, PlacesFall, Repeated
<1>2. ASSUME walk.at = "done", drift.left \cup drift.moved = {}, ~drift.split,
             NEW t \in Listed(table, walk.filter) \ drift.entered
      PROVE  t \in Shown
  <2> DEFINE n == Cardinality(Listed(table, walk.filter))
             p == Place(table, walk.filter, t)
  <2>1. table \in Tables /\ walk.filter \in Filters
    BY DEF WalkInv, WalkTyped, Walks
  <2>2. p < n /\ p \in Nat /\ n \in Nat
    BY <2>1, PlaceWithin, PlacesAreNumbers
  <2>3. n <= walk.page * walk.size
    <3>1. ~(walk.page * walk.size < n)
      BY <1>2 DEF WalkInv, TotalKept, HasNext
    <3>2. walk.page \in Nat /\ walk.size \in Nat
      BY ListingAssumption DEF WalkInv, WalkTyped, Walks
    <3>3. walk.page * walk.size \in Nat
      BY <3>2
    <3> QED
      BY <2>2, <3>1, <3>3
  <2>4. t \in Shown \/ p >= walk.page * walk.size
    BY <1>2 DEF WalkInv, PagesCounted, PlacesRise
  <2>5. walk.page * walk.size \in Nat
    <3>1. walk.page \in Nat /\ walk.size \in Nat
      BY ListingAssumption DEF WalkInv, WalkTyped, Walks
    <3> QED
      BY <3>1
  <2> QED
    BY <2>2, <2>3, <2>4, <2>5
<1> QED
  BY <1>1, <1>2 DEF WalkIsReliable

-----------------------------------------------------------------------------
(* The steps                                                               *)

\* The pages before, and the next one.
LEMMA PagesAddUp ==
  /\ \A j, n, z \in Nat : j <= n => j * z <= n * z
  /\ \A n, z \in Nat : n * z \in Nat /\ (n + 1) * z = n * z + z
<1>1. ASSUME NEW j \in Nat, NEW n \in Nat, NEW z \in Nat, j <= n
      PROVE  j * z <= n * z
  <2>1. PICK d \in Nat : n = j + d
    <3>1. n - j \in Nat /\ n = j + (n - j)
      BY <1>1
    <3> QED
      BY <3>1
  <2>2. n * z = j * z + d * z /\ d * z \in Nat /\ j * z \in Nat
    BY <2>1
  <2> QED
    BY <2>2
<1> QED
  BY <1>1

\* Before a walk nothing was shown and nothing has drifted.
LEMMA InitWalkInv == Init => WalkInv
<1> SUFFICES ASSUME Init
             PROVE  WalkInv
  OBVIOUS
<1>1. PICK f \in Filters, n \in PageSizes :
        walk = [at |-> "idle", filter |-> f, size |-> n, page |-> 1, total |-> 0]
  BY DEF Init
<1>2. WalkTyped
  BY <1>1, EmptySeq DEF Init, WalkTyped, Tables, Walks, Drifts, Steady
<1>3. PagesCounted /\ TotalKept
  BY <1>1, EmptySeq DEF Init, PagesCounted, TotalKept
<1>4. PlacesFall
  <2>1. DOMAIN shown = {}
    BY DEF Init
  <2> QED
    BY <2>1 DEF PlacesFall
<1>5. PlacesRise
  <2>1. Len(shown) = 0 /\ walk.size \in Nat
    BY <1>1, ListingAssumption, EmptySeq DEF Init
  <2>2. Len(shown) * walk.size = 0
    BY <2>1
  <2> QED
    BY <2>2, PlacesAreNumbers DEF PlacesRise
<1> QED
  BY <1>2, <1>3, <1>4, <1>5 DEF WalkInv

\* A request begins, or counts: nothing is shown and nothing changes place.
LEMMA RequestsKeepWalkInv ==
  ASSUME WalkInv, Ask \/ CountRows
  PROVE  WalkInv'
<1>1. walk \in Walks /\ drift \in Drifts
  BY DEF WalkInv, WalkTyped
<1>2. /\ table' = table /\ shown' = shown
      /\ walk'.filter = walk.filter /\ walk'.size = walk.size /\ walk'.page = walk.page
      /\ drift'.entered = drift.entered /\ drift'.left = drift.left /\ drift'.moved = drift.moved
      /\ walk.at # "done" /\ walk'.at # "done"
  BY <1>1 DEF Ask, CountRows, Walks, Drifts
<1>3. WalkTyped'
  <2>1. Cardinality(Listed(table, walk.filter)) \in Nat
    BY PlacesAreNumbers
  <2> QED
    BY <1>1, <2>1 DEF WalkInv, WalkTyped, Ask, CountRows, Walks, Drifts
<1>4. PagesCounted'
  BY <1>2 DEF WalkInv, PagesCounted
<1>5. TotalKept'
  <2>1. CASE Ask
    BY <1>2, <2>1 DEF TotalKept, Ask
  <2>2. CASE CountRows
    <3>1. walk'.total = Cardinality(Listed(table, walk.filter))
      BY <1>1, <2>2 DEF CountRows, Walks
    <3> QED
      BY <1>2, <3>1 DEF TotalKept
  <2> QED
    BY <2>1, <2>2
<1>6. PlacesFall'
  BY <1>2 DEF WalkInv, PlacesFall
<1>7. PlacesRise'
  BY <1>2 DEF WalkInv, PlacesRise, Shown
<1> QED
  BY <1>3, <1>4, <1>5, <1>6, <1>7 DEF WalkInv

\* A page is shown.
LEMMA SelectKeepsWalkInv ==
  ASSUME WalkInv, SelectPage
  PROVE  WalkInv'
<1> DEFINE f == walk.filter
<1>1. /\ table \in Tables /\ walk \in Walks /\ drift \in Drifts
      /\ shown \in Seq(Seq(Tenders))
      /\ f \in Filters /\ walk.page \in Nat \ {0} /\ walk.size \in Nat \ {0}
  BY ListingAssumption DEF WalkInv, WalkTyped, Walks
<1>2. PICK s \in Orders(table, f) : shown' = Append(shown, Page(s, walk))
  BY DEF SelectPage
<1>3. PICK pg \in Seq(Tenders) : pg = Page(s, walk)
  BY <1>1, PageHoldsPlaces
<1>4. PICK n \in Nat, z \in Nat \ {0} : n = Len(shown) /\ z = walk.size /\ walk.page = n + 1
  BY <1>1 DEF WalkInv, PagesCounted, SelectPage
<1>5. PICK o \in Nat : o = n * z /\ (n + 1) * z = o + z /\ \A j \in 1 .. n : j * z <= o
  BY PagesAddUp
<1>6. Offset(walk) = o
  BY <1>4, <1>5 DEF Offset
<1>7. /\ \A m \in DOMAIN pg : /\ pg[m] \in Listed(table, f)
                              /\ Place(table, f, pg[m]) = o + m - 1
                              /\ m <= z
      /\ \A t \in Listed(table, f) :
           o <= Place(table, f, t) /\ Place(table, f, t) < o + z => \E m \in DOMAIN pg : pg[m] = t
  <2>1. /\ \A m \in DOMAIN Page(s, walk) :
             /\ Page(s, walk)[m] \in Listed(table, f)
             /\ Place(table, f, Page(s, walk)[m]) = Offset(walk) + m - 1
             /\ m <= walk.size
        /\ \A t \in Listed(table, f) :
             Offset(walk) <= Place(table, f, t) /\ Place(table, f, t) < Offset(walk) + walk.size =>
               \E m \in DOMAIN Page(s, walk) : Page(s, walk)[m] = t
    BY <1>1, PageHoldsPlaces
  <2> QED
    BY <1>3, <1>4, <1>6, <2>1
<1>8. \A m \in DOMAIN pg : m \in Nat \ {0}
  BY <1>3, LenProperties
<1>9. /\ shown' \in Seq(Seq(Tenders)) /\ Len(shown') = n + 1
      /\ DOMAIN shown = 1 .. n /\ DOMAIN shown' = 1 .. n + 1
      /\ \A i \in 1 .. n : shown'[i] = shown[i]
      /\ shown'[n + 1] = pg
  BY <1>1, <1>2, <1>3, <1>4, AppendProperties, LenProperties
<1>10. /\ table' = table /\ drift' = drift
       /\ walk'.filter = f /\ walk'.size = z /\ walk'.total = walk.total
       /\ walk' \in Walks
       /\ walk'.at = IF HasNext(walk) THEN "count" ELSE "done"
       /\ walk'.page = IF HasNext(walk) THEN n + 2 ELSE n + 1
  <2>1. CASE HasNext(walk)
    <3>1. walk' = [walk EXCEPT !.at = "count", !.page = (n + 1) + 1]
      BY <1>4, <2>1 DEF SelectPage
    <3>2. UNCHANGED <<table, drift>>
      BY DEF SelectPage
    <3>3. PICK q \in Nat \ {0} : q = n + 2 /\ walk' = [walk EXCEPT !.at = "count", !.page = q]
      <4>1. (n + 1) + 1 = n + 2 /\ n + 2 \in Nat \ {0}
        BY <1>4
      <4>2. walk' = [walk EXCEPT !.at = "count", !.page = n + 2]
        BY <3>1, <4>1
      <4> QED
        BY <4>1, <4>2
    <3>4. walk' \in Walks /\ walk'.at = "count" /\ walk'.page = q
      BY <1>1, <3>3 DEF Walks
    <3>5. walk'.filter = f /\ walk'.size = walk.size /\ walk'.total = walk.total
      BY <1>1, <3>3 DEF Walks
    <3> QED
      BY <1>4, <2>1, <3>2, <3>3, <3>4, <3>5
  <2>2. CASE ~HasNext(walk)
    <3>1. walk' = [walk EXCEPT !.at = "done"]
      BY <2>2 DEF SelectPage
    <3> QED
      BY <1>1, <1>4, <2>2, <3>1 DEF SelectPage, Walks
  <2> QED
    BY <2>1, <2>2
<1>11. WalkTyped'
  BY <1>1, <1>9, <1>10 DEF WalkTyped
<1>12. PagesCounted'
  BY <1>9, <1>10 DEF PagesCounted
<1>13. TotalKept'
  BY <1>4, <1>10 DEF WalkInv, TotalKept, SelectPage, HasNext
<1>14. ASSUME drift.entered \cup drift.moved = {}
       PROVE  /\ \A i \in 1 .. n + 1 : \A m \in DOMAIN shown'[i] :
                   shown'[i][m] \in Listed(table, f) => Place(table, f, shown'[i][m]) < i * z
              /\ \A i, j \in 1 .. n + 1 : \A m \in DOMAIN shown'[i], k \in DOMAIN shown'[j] :
                   shown'[i][m] = shown'[j][k] => i = j /\ m = k
  <2>1. \A i \in 1 .. n : \A m \in DOMAIN shown[i] :
          shown[i][m] \in Listed(table, f) => Place(table, f, shown[i][m]) < i * z
    BY <1>4, <1>9, <1>14 DEF WalkInv, PlacesFall
  <2>2. \A i, j \in 1 .. n : \A m \in DOMAIN shown[i], k \in DOMAIN shown[j] :
          shown[i][m] = shown[j][k] => i = j /\ m = k
    BY <1>9, <1>14 DEF WalkInv, PlacesFall
  <2>3. ASSUME NEW m \in DOMAIN pg
        PROVE  Place(table, f, pg[m]) < (n + 1) * z
    <3>1. PICK e \in Nat : e = (n + 1) * z /\ e = o + z
      BY <1>5
    <3>2. Place(table, f, pg[m]) = o + m - 1 /\ m <= z /\ m \in Nat
      BY <1>7, <1>8
    <3>3. o + m - 1 < e
      BY <3>1, <3>2
    <3> QED
      BY <3>1, <3>2, <3>3
  <2>4. \A m, k \in DOMAIN pg : pg[m] = pg[k] => m = k
    BY <1>5, <1>7, <1>8
  <2>5. \A j \in 1 .. n : \A m \in DOMAIN pg, k \in DOMAIN shown[j] : pg[m] # shown[j][k]
    <3> SUFFICES ASSUME NEW j \in 1 .. n, NEW m \in DOMAIN pg, NEW k \in DOMAIN shown[j],
                        pg[m] = shown[j][k]
                 PROVE  FALSE
      OBVIOUS
    <3>1. PICK q \in Nat : q = j * z /\ q <= o
      BY <1>5, PagesAddUp
    <3>2. Place(table, f, pg[m]) < q /\ Place(table, f, pg[m]) = o + m - 1
      BY <1>7, <2>1, <3>1
    <3> QED
      BY <1>5, <1>8, <3>1, <3>2
  <2>6. ASSUME NEW i \in 1 .. n + 1, NEW m \in DOMAIN shown'[i], shown'[i][m] \in Listed(table, f)
        PROVE  Place(table, f, shown'[i][m]) < i * z
    <3>1. CASE i \in 1 .. n
      BY <1>9, <2>1, <2>6, <3>1
    <3>2. CASE i = n + 1
      BY <1>9, <2>3, <2>6, <3>2
    <3> QED
      BY <3>1, <3>2
  <2>7. ASSUME NEW i \in 1 .. n + 1, NEW j \in 1 .. n + 1,
               NEW m \in DOMAIN shown'[i], NEW k \in DOMAIN shown'[j],
               shown'[i][m] = shown'[j][k]
        PROVE  i = j /\ m = k
    <3>1. CASE i \in 1 .. n /\ j \in 1 .. n
      BY <1>9, <2>2, <2>7, <3>1
    <3>2. CASE i = n + 1 /\ j \in 1 .. n
      BY <1>9, <2>5, <2>7, <3>2
    <3>3. CASE i \in 1 .. n /\ j = n + 1
      BY <1>9, <2>5, <2>7, <3>3
    <3>4. CASE i = n + 1 /\ j = n + 1
      BY <1>9, <2>4, <2>7, <3>4
    <3> QED
      BY <3>1, <3>2, <3>3, <3>4
  <2> QED
    BY <2>6, <2>7
<1>15. PlacesFall'
  BY <1>9, <1>10, <1>14 DEF PlacesFall
<1>16. ASSUME drift.left \cup drift.moved = {}, NEW t \in Listed(table, f) \ drift.entered
       PROVE  t \in Shown' \/ Place(table, f, t) >= (n + 1) * z
  <2>1. t \in Shown \/ Place(table, f, t) >= o
    BY <1>4, <1>5, <1>16 DEF WalkInv, PlacesRise
  <2>2. t \in Shown => t \in Shown'
    BY <1>9 DEF Shown, ToSet
  <2>3. ASSUME Place(table, f, t) >= o, Place(table, f, t) < o + z
        PROVE  t \in Shown'
    <3>1. PICK m \in DOMAIN pg : pg[m] = t
      BY <1>7, <1>16, <2>3
    <3>2. n + 1 \in DOMAIN shown' /\ t \in ToSet(shown'[n + 1])
      BY <1>9, <3>1 DEF ToSet
    <3> QED
      BY <3>2 DEF Shown
  <2>4. Place(table, f, t) \in Nat
    BY PlacesAreNumbers
  <2> QED
    BY <1>4, <1>5, <2>1, <2>2, <2>3, <2>4
<1>17. PlacesRise'
  BY <1>9, <1>10, <1>16 DEF PlacesRise
<1> QED
  BY <1>11, <1>12, <1>13, <1>15, <1>17 DEF WalkInv

\* A commit changes the row of one tender, and the drift says what that does to the listing.
LEMMA CommitKeepsWalkInv ==
  ASSUME WalkInv, NEW u \in Tenders, NEW row \in Rows, Commit(u, row)
  PROVE  WalkInv'
<1> DEFINE f == walk.filter
           old == Listed(table, f)
           new == Listed(table', f)
<1>1. /\ table \in Tables /\ walk \in Walks /\ drift \in Drifts
      /\ shown \in Seq(Seq(Tenders))
      /\ f \in Filters /\ walk.size \in Nat
  BY ListingAssumption DEF WalkInv, WalkTyped, Walks
<1>2. /\ walk' = walk /\ shown' = shown /\ walk.at # "done"
  BY DEF Commit
<1>3. table' \in Tables
  BY <1>1 DEF Commit, Tables
<1>4. drift' = Drifted(table')
  BY DEF Commit
<1>5. /\ drift'.entered = drift.entered \cup (new \ old)
      /\ drift'.left = drift.left \cup (old \ new)
      /\ drift'.moved = drift.moved \cup
           {t \in old \cap new : SortKey(table'[t], f) # SortKey(table[t], f)}
      /\ drift'.split = TRUE /\ drift'.commits = drift.commits + 1
      /\ drift' = [entered |-> drift'.entered, left |-> drift'.left, moved |-> drift'.moved,
                   commits |-> drift'.commits, split |-> drift'.split]
  BY <1>4 DEF Drifted
<1>6. drift' \in Drifts
  <2>1. old \subseteq Tenders /\ new \subseteq Tenders
    BY DEF Listed
  <2>2. /\ drift'.entered \subseteq Tenders /\ drift'.left \subseteq Tenders
        /\ drift'.moved \subseteq Tenders
        /\ drift'.commits \in Nat /\ drift'.split \in BOOLEAN
    <3>1. /\ drift.entered \subseteq Tenders /\ drift.left \subseteq Tenders
          /\ drift.moved \subseteq Tenders /\ drift.commits \in Nat
      BY <1>1 DEF Drifts
    <3>2. {t \in old \cap new : SortKey(table'[t], f) # SortKey(table[t], f)} \subseteq Tenders
      BY <2>1
    <3>3. drift'.entered \subseteq Tenders
      BY <1>5, <2>1, <3>1
    <3>4. drift'.left \subseteq Tenders
      BY <1>5, <2>1, <3>1
    <3>5. drift'.moved \subseteq Tenders
      BY <1>5, <3>1, <3>2
    <3>6. drift'.commits = drift.commits + 1 /\ drift'.split = TRUE
      BY <1>5, Zenon
    <3>7. drift'.commits \in Nat
      BY <3>1, <3>6
    <3>8. drift'.split \in BOOLEAN
      BY <3>6, Zenon
    <3> QED
      BY <3>3, <3>4, <3>5, <3>7, <3>8
  <2> QED
    BY <1>5, <2>2 DEF Drifts
<1>7. WalkTyped'
  BY <1>1, <1>2, <1>3, <1>6 DEF WalkTyped
<1>8. PagesCounted'
  BY <1>2 DEF WalkInv, PagesCounted
<1>9. TotalKept'
  BY <1>2, <1>5 DEF TotalKept
<1>10. PlacesFall'
  <2> SUFFICES ASSUME drift'.entered \cup drift'.moved = {}
               PROVE  /\ \A i \in DOMAIN shown : \A m \in DOMAIN shown[i] :
                           shown[i][m] \in new => Place(table', f, shown[i][m]) < i * walk.size
                      /\ \A i, j \in DOMAIN shown : \A m \in DOMAIN shown[i], n \in DOMAIN shown[j] :
                           shown[i][m] = shown[j][n] => i = j /\ m = n
    BY <1>2 DEF PlacesFall
  <2>1. /\ drift.entered \cup drift.moved = {}
        /\ new \subseteq old
        /\ \A t \in new : SortKey(table'[t], f) = SortKey(table[t], f)
    BY <1>5
  <2>2. ASSUME NEW i \in DOMAIN shown, NEW m \in DOMAIN shown[i], shown[i][m] \in new
        PROVE  Place(table', f, shown[i][m]) < i * walk.size
    <3>1. Place(table, f, shown[i][m]) < i * walk.size
      BY <2>1, <2>2 DEF WalkInv, PlacesFall
    <3>2. Place(table', f, shown[i][m]) <= Place(table, f, shown[i][m])
      BY <1>1, <1>3, <2>1, <2>2, PlacesShift
    <3>3. i \in Nat /\ i * walk.size \in Nat
      <4>1. i \in Nat
        BY <1>1, LenProperties
      <4> QED
        BY <1>1, <4>1
    <3>4. Place(table, f, shown[i][m]) \in Nat /\ Place(table', f, shown[i][m]) \in Nat
      BY PlacesAreNumbers
    <3> QED
      BY <3>1, <3>2, <3>3, <3>4
  <2> QED
    BY <2>1, <2>2 DEF WalkInv, PlacesFall
<1>11. PlacesRise'
  <2> SUFFICES ASSUME drift'.left \cup drift'.moved = {}, NEW t \in new \ drift'.entered
               PROVE  t \in Shown \/ Place(table', f, t) >= Len(shown) * walk.size
    BY <1>2 DEF PlacesRise, Shown
  <2>1. /\ drift.left \cup drift.moved = {}
        /\ old \subseteq new
        /\ \A v \in old : SortKey(table'[v], f) = SortKey(table[v], f)
        /\ t \in old \ drift.entered
    BY <1>5
  <2>2. t \in Shown \/ Place(table, f, t) >= Len(shown) * walk.size
    BY <2>1 DEF WalkInv, PlacesRise
  <2>3. Place(table, f, t) <= Place(table', f, t)
    BY <1>1, <1>3, <2>1, PlacesShift
  <2>4. Place(table, f, t) \in Nat /\ Place(table', f, t) \in Nat
    BY PlacesAreNumbers
  <2>5. Len(shown) * walk.size \in Nat
    BY <1>1, LenProperties
  <2> QED
    BY <2>2, <2>3, <2>4, <2>5
<1> QED
  BY <1>7, <1>8, <1>9, <1>10, <1>11 DEF WalkInv

\* No request and no commit breaks the invariant.
LEMMA NextKeepsWalkInv == WalkInv /\ [Next]_vars => WalkInv'
<1> SUFFICES ASSUME WalkInv, [Next]_vars
             PROVE  WalkInv'
  OBVIOUS
<1>1. CASE Ask \/ CountRows
  BY <1>1, RequestsKeepWalkInv
<1>2. CASE SelectPage
  BY <1>2, SelectKeepsWalkInv
<1>3. ASSUME NEW t \in Tenders, NEW row \in Rows, Insert(t, row) \/ Update(t, row)
      PROVE  WalkInv'
  BY <1>3, CommitKeepsWalkInv DEF Insert, Update
<1>4. CASE UNCHANGED vars
  <2>1. table' = table /\ walk' = walk /\ shown' = shown /\ drift' = drift
    BY <1>4 DEF vars
  <2> QED
    BY <2>1 DEF WalkInv, WalkTyped, PagesCounted, TotalKept, PlacesFall, PlacesRise, Shown
<1> QED
  BY <1>1, <1>2, <1>3, <1>4 DEF Next

\* A client that reads a listing page by page is shown no tender twice unless one came into
\* the listing or changed place meanwhile, and misses none that was there unless one left or
\* changed place: offsets into a total order, with ids to break ties
\* (tender_service.py:305-319).
THEOREM WalkIsReliableHolds == Spec => []WalkIsReliable
<1>1. Init => WalkInv
  BY InitWalkInv
<1>2. WalkInv /\ [Next]_vars => WalkInv'
  BY NextKeepsWalkInv
<1>3. WalkInv => WalkIsReliable
  BY WalkInvSuffices
<1> QED
  BY <1>1, <1>2, <1>3, PTL DEF Spec

=============================================================================

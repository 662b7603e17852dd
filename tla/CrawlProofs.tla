------------------------------- MODULE CrawlProofs -------------------------------
(***************************************************************************)
(* Theorems about Fetcher and Crawl, for every site, number of retries,    *)
(* limit and schedule of the fetcher: requests keep their distance, and    *)
(* whatever fails, the pipeline has been given what the listings hold, in  *)
(* order, up to the failure; and each step leaves a crawl less to do.      *)
(*                                                                         *)
(* What a listing holds is defined by recursion over its pages and their   *)
(* items.  That such functions exist, and are sequences of the right kind, *)
(* follows from the well-foundedness of the numbers, with sets in the      *)
(* place of predicates.                                                    *)
(***************************************************************************)
EXTENDS Crawl, WellFoundedInduction, FiniteSetTheorems, SequenceTheorems, TLAPS

-----------------------------------------------------------------------------
(* Induction and recursion                                                 *)

\* The numbers are well-founded.
LEMMA NatLess == IsWellFoundedOn({ss \in Nat \X Nat : ss[1] < ss[2]}, Nat)
<1>1. OpToRel(<, Nat) = {ss \in Nat \X Nat : ss[1] < ss[2]}
  BY DEF OpToRel
<1> QED
  BY <1>1, NatLessThanWellFounded

\* A set of numbers has a least element.
LEMMA LeastOf ==
  ASSUME NEW T, T \subseteq Nat, T # {}
  PROVE  \E m \in T : \A n \in T : m <= n
<1> DEFINE R == {ss \in Nat \X Nat : ss[1] < ss[2]}
<1>1. IsWellFoundedOn(R, Nat)
  BY NatLess
<1>2. \E x \in T : \A y \in T : ~(<<y, x>> \in R)
  <2> HIDE DEF R
  <2> QED
    BY <1>1, WFMin
<1>3. PICK x \in T : \A y \in T : ~(<<y, x>> \in R)
  BY <1>2
<1>4. ASSUME NEW y \in T
      PROVE  x <= y
  <2>1. ~(<<y, x>> \in R)
    BY <1>3
  <2>2. x \in Nat /\ y \in Nat
    OBVIOUS
  <2> QED
    BY <2>1, <2>2
<1> QED
  BY <1>4

\* A set that has 0, and with a number the next, has all numbers.
LEMMA Induction ==
  ASSUME NEW T, 0 \in T, \A n \in Nat : n \in T => n + 1 \in T
  PROVE  Nat \subseteq T
<1> DEFINE S == Nat \ T
<1>1. SUFFICES ASSUME S # {}
               PROVE  FALSE
  OBVIOUS
<1>2. PICK m \in S : \A n \in S : m <= n
  <2>1. S \subseteq Nat
    OBVIOUS
  <2> HIDE DEF S
  <2> QED
    BY <1>1, <2>1, LeastOf
<1>3. m \in Nat /\ m # 0
  BY <1>2
<1>4. m - 1 \in Nat /\ m - 1 \notin S
  BY <1>2, <1>3
<1> QED
  BY <1>2, <1>3, <1>4

\* A set that has the empty sequence, and a sequence with its tail, has all sequences.
LEMMA SequenceInduction ==
  ASSUME NEW P, NEW T, <<>> \in T,
         \A s \in Seq(P) : s # <<>> /\ Tail(s) \in T => s \in T
  PROVE  Seq(P) \subseteq T
<1> DEFINE Long == {n \in Nat : \A s \in Seq(P) : Len(s) = n => s \in T}
<1>1. 0 \in Long
  BY EmptySeq
<1>2. ASSUME NEW n \in Nat, n \in Long
      PROVE  n + 1 \in Long
  <2> SUFFICES ASSUME NEW s \in Seq(P), Len(s) = n + 1
               PROVE  s \in T
    OBVIOUS
  <2>1. s # <<>>
    BY EmptySeq
  <2>2. Tail(s) \in Seq(P) /\ Len(Tail(s)) = n
    BY <2>1, HeadTailProperties
  <2> QED
    BY <1>2, <2>1, <2>2
<1>3. Nat \subseteq Long
  <2> HIDE DEF Long
  <2> QED
    BY <1>1, <1>2, Induction
<1> QED
  BY <1>3, LenProperties

\* The first n steps from d.
Steps(D, d, G, n) ==
  {f \in [0 .. n -> D] : f[0] = d /\ \A k \in 0 .. n - 1 : f[k + 1] = G[f[k]]}

\* Steps can be taken one further, and those of two lengths agree.
LEMMA StepsAgree ==
  ASSUME NEW D, NEW d \in D, NEW G \in [D -> D]
  PROVE  /\ \A n \in Nat : Steps(D, d, G, n) # {}
         /\ \A k, n, m \in Nat : k <= n /\ k <= m =>
              \A f \in Steps(D, d, G, n), g \in Steps(D, d, G, m) : f[k] = g[k]
<1> DEFINE Some == {n \in Nat : Steps(D, d, G, n) # {}}
           Same == {k \in Nat : \A n, m \in Nat : k <= n /\ k <= m =>
                      \A f \in Steps(D, d, G, n), g \in Steps(D, d, G, m) : f[k] = g[k]}
<1>1. 0 \in Some
  <2>1. [k \in 0 .. 0 |-> d] \in Steps(D, d, G, 0)
    BY DEF Steps
  <2> QED
    BY <2>1
<1>2. ASSUME NEW n \in Nat, n \in Some
      PROVE  n + 1 \in Some
  <2>1. PICK f \in [0 .. n -> D] : f[0] = d /\ \A k \in 0 .. n - 1 : f[k + 1] = G[f[k]]
    BY <1>2 DEF Steps
  <2> DEFINE g == [k \in 0 .. n + 1 |-> IF k = n + 1 THEN G[f[n]] ELSE f[k]]
  <2>2. g \in [0 .. n + 1 -> D]
    OBVIOUS
  <2>3. g[0] = d
    BY <2>1
  <2>4. ASSUME NEW k \in 0 .. (n + 1) - 1
        PROVE  g[k + 1] = G[g[k]]
    <3>1. CASE k = n
      BY <3>1
    <3>2. CASE k # n
      BY <2>1, <3>2
    <3> QED
      BY <3>1, <3>2
  <2>5. g \in Steps(D, d, G, n + 1)
    <3> HIDE DEF g
    <3> QED
      BY <2>2, <2>3, <2>4 DEF Steps
  <2> QED
    BY <2>5
<1>3. Nat \subseteq Some
  <2> HIDE DEF Some
  <2> QED
    BY <1>1, <1>2, Induction
<1>4. 0 \in Same
  BY DEF Steps
<1>5. ASSUME NEW k \in Nat, k \in Same
      PROVE  k + 1 \in Same
  <2> SUFFICES ASSUME NEW n \in Nat, NEW m \in Nat, k + 1 <= n, k + 1 <= m,
                      NEW f \in Steps(D, d, G, n), NEW g \in Steps(D, d, G, m)
               PROVE  f[k + 1] = g[k + 1]
    OBVIOUS
  <2>1. f[k] = g[k]
    <3>1. k <= n /\ k <= m
      OBVIOUS
    <3> QED
      BY <1>5, <3>1
  <2>2. k \in 0 .. n - 1 /\ k \in 0 .. m - 1
    OBVIOUS
  <2>3. f[k + 1] = G[f[k]] /\ g[k + 1] = G[g[k]]
    BY <2>2 DEF Steps
  <2> QED
    BY <2>1, <2>3
<1>6. Nat \subseteq Same
  <2> HIDE DEF Same
  <2> QED
    BY <1>4, <1>5, Induction
<1> QED
  BY <1>3, <1>6

Iterates(F, d, G) == F[0] = d /\ \A n \in Nat : F[n + 1] = G[F[n]]

\* A value and a function on its set have the sequence of the values it leads to.
LEMMA Iteration ==
  ASSUME NEW D, NEW d \in D, NEW G \in [D -> D]
  PROVE  \E F \in [Nat -> D] : Iterates(F, d, G)
<1> DEFINE F == [n \in Nat |-> (CHOOSE f \in Steps(D, d, G, n) : TRUE)[n]]
<1>1. ASSUME NEW n \in Nat
      PROVE  \E f \in Steps(D, d, G, n) : F[n] = f[n]
  <2>1. \E f : f \in Steps(D, d, G, n)
    BY StepsAgree
  <2>2. (CHOOSE f \in Steps(D, d, G, n) : TRUE) \in Steps(D, d, G, n)
    BY <2>1
  <2> QED
    BY <2>2
<1>2. F \in [Nat -> D]
  <2>1. \A n \in Nat : F[n] \in D
    <3> HIDE DEF F
    <3> QED
      BY <1>1 DEF Steps
  <2> QED
    BY <2>1
<1> HIDE DEF F
<1>3. F[0] = d
  BY <1>1 DEF Steps
<1>4. ASSUME NEW n \in Nat
      PROVE  F[n + 1] = G[F[n]]
  <2>1. PICK f \in Steps(D, d, G, n) : F[n] = f[n]
    BY <1>1
  <2>2. n + 1 \in Nat /\ n <= n + 1 /\ n \in 0 .. (n + 1) - 1
    OBVIOUS
  <2>3. PICK g \in Steps(D, d, G, n + 1) : F[n + 1] = g[n + 1]
    BY <1>1, <2>2
  <2>4. f[n] = g[n]
    BY <2>2, StepsAgree
  <2>5. g[n + 1] = G[g[n]]
    BY <2>2 DEF Steps
  <2> QED
    BY <2>1, <2>3, <2>4, <2>5
<1> QED
  BY <1>2, <1>3, <1>4 DEF Iterates

Follows(F, P, d, G) == \A s \in Seq(P) : F[s] = IF s = <<>> THEN d ELSE G[Head(s)][F[Tail(s)]]

\* A function on sequences may be defined by what it does with the first element and with
\* its value for the rest.
LEMMA SequenceRecursion ==
  ASSUME NEW P, NEW D, NEW d \in D, NEW G \in [P -> [D -> D]]
  PROVE  \E F \in [Seq(P) -> D] : Follows(F, P, d, G)
<1> DEFINE E == [Seq(P) -> D]
           e == [s \in Seq(P) |-> d]
           H == [h \in E |-> [s \in Seq(P) |-> IF s = <<>> THEN d ELSE G[Head(s)][h[Tail(s)]]]]
<1>1. e \in E
  OBVIOUS
<1>2. H \in [E -> E]
  <2> SUFFICES ASSUME NEW h \in E, NEW s \in Seq(P), s # <<>>
               PROVE  G[Head(s)][h[Tail(s)]] \in D
    OBVIOUS
  <2>1. Head(s) \in P /\ Tail(s) \in Seq(P)
    BY HeadTailProperties
  <2>2. h[Tail(s)] \in D /\ G[Head(s)] \in [D -> D]
    BY <2>1
  <2> QED
    BY <2>2
<1>3. PICK R \in [Nat -> E] : R[0] = e /\ \A n \in Nat : R[n + 1] = H[R[n]]
  <2> HIDE DEF E, e, H
  <2>1. \E R \in [Nat -> E] : Iterates(R, e, H)
    BY <1>1, <1>2, Iteration
  <2> QED
    BY <2>1 DEF Iterates
<1> DEFINE F == [s \in Seq(P) |-> R[Len(s)][s]]
<1>4. F \in [Seq(P) -> D]
  BY LenProperties
<1>5. ASSUME NEW s \in Seq(P), s # <<>>
      PROVE  F[s] = G[Head(s)][F[Tail(s)]]
  <2>1. PICK n \in Nat : Len(s) = n + 1 /\ Tail(s) \in Seq(P) /\ Len(Tail(s)) = n
    <3>1. PICK n \in Nat : Len(s) = n + 1
      <4>1. Len(s) - 1 \in Nat /\ Len(s) = (Len(s) - 1) + 1
        BY <1>5, EmptySeq
      <4> QED
        BY <4>1
    <3>2. Tail(s) \in Seq(P) /\ Len(Tail(s)) = n
      BY <1>5, <3>1, HeadTailProperties
    <3> QED
      BY <3>1, <3>2
  <2>2. F[s] = R[n + 1][s] /\ F[Tail(s)] = R[n][Tail(s)]
    BY <2>1
  <2>3. R[n + 1] = H[R[n]] /\ R[n] \in E
    BY <1>3
  <2> QED
    BY <1>5, <2>2, <2>3
<1>6. F[<<>>] = d
  BY <1>3, EmptySeq
<1> QED
  BY <1>4, <1>5, <1>6 DEF Follows

-----------------------------------------------------------------------------
(* What the listings hold                                                  *)

\* A site's parts are pages and items.
LEMMA SiteParts ==
  ASSUME NEW s \in Sites
  PROVE  /\ s.paths \in Seq(Pages) /\ s.rest \in Seq(Pages) /\ s.root \in Pages
         /\ s.maxPages \in Nat
         /\ \A p \in Pages : s.lists[p] \in Seq(Items) /\ Onward(s, p) \in Pages \cup {Nothing}
         /\ Targets(s) \in Seq(Pages) /\ ListingTargets(s) \in Seq(Pages)
         /\ Mode(s) \in {"api", "html"}
<1>1. s \in Site
  BY SitesAssumption
<1>2. /\ s.paths \in Seq(Pages) /\ s.rest \in Seq(Pages) /\ s.root \in Pages
      /\ s.maxPages \in Nat
      /\ s.lists \in [Pages -> Seq(Items)] /\ s.next \in [Pages -> Pages \cup {Nothing}]
  BY <1>1 DEF Site
<1>3. ListingTargets(s) \in Seq(Pages)
  BY <1>2 DEF ListingTargets
<1>4. Targets(s) \in Seq(Pages)
  BY <1>2, <1>3 DEF Targets, RestTargets, OcdsTargets
<1> QED
  BY <1>2, <1>3, <1>4 DEF Onward, Mode

\* f gathers from a sequence a member at a time.
Gathers(f, S, I, part, stop) ==
  /\ f \in [Seq(S) -> Seq(I)]
  /\ f[<<>>] = <<>>
  /\ \A q \in Seq(S) : q # <<>> =>
       f[q] = IF Head(q) \in stop THEN <<>> ELSE part[Head(q)] \o f[Tail(q)]

\* The recursion that gathers has a solution.
LEMMA Gathered ==
  ASSUME NEW S, NEW I, NEW part \in [S -> Seq(I)], NEW stop
  PROVE  Gathers(Gather(S, part, stop), S, I, part, stop)
<1> DEFINE D == Seq(I)
           G == [p \in S |-> [x \in D |-> IF p \in stop THEN <<>> ELSE part[p] \o x]]
           Body(f) == [q \in Seq(S) |->
                         IF q = <<>> \/ Head(q) \in stop THEN <<>> ELSE part[Head(q)] \o f[Tail(q)]]
<1>1. G \in [S -> [D -> D]]
  OBVIOUS
<1>2. PICK F \in [Seq(S) -> D] :
        \A q \in Seq(S) : F[q] = IF q = <<>> THEN <<>> ELSE G[Head(q)][F[Tail(q)]]
  <2>1. <<>> \in D
    OBVIOUS
  <2> HIDE DEF D, G
  <2>2. \E F \in [Seq(S) -> D] : Follows(F, S, <<>>, G)
    BY <1>1, <2>1, SequenceRecursion
  <2> QED
    BY <2>2 DEF Follows
<1>3. F = Body(F)
  <2>1. ASSUME NEW q \in Seq(S), q # <<>>
        PROVE  F[q] = IF Head(q) \in stop THEN <<>> ELSE part[Head(q)] \o F[Tail(q)]
    BY <1>2, <2>1, HeadTailProperties
  <2> QED
    BY <1>2, <2>1
<1>4. PICK f : f = Gather(S, part, stop) /\ f = Body(f)
  BY <1>3 DEF Gather
<1>5. f[<<>>] = <<>>
  BY <1>4
<1>6. ASSUME NEW q \in Seq(S), q # <<>>
      PROVE  f[q] = IF Head(q) \in stop THEN <<>> ELSE part[Head(q)] \o f[Tail(q)]
  BY <1>4, <1>6
<1>7. Seq(S) \subseteq {q \in Seq(S) : f[q] \in D}
  <2> DEFINE T == {q \in Seq(S) : f[q] \in D}
  <2>1. <<>> \in T
    <3>1. <<>> \in Seq(S) /\ <<>> \in Seq(I)
      BY EmptySeq
    <3> QED
      BY <1>5, <3>1
  <2>2. ASSUME NEW q \in Seq(S), q # <<>>, Tail(q) \in T
        PROVE  q \in T
    <3>1. Head(q) \in S /\ part[Head(q)] \in Seq(I) /\ f[Tail(q)] \in Seq(I)
      BY <2>2, HeadTailProperties
    <3>2. part[Head(q)] \o f[Tail(q)] \in Seq(I) /\ <<>> \in Seq(I)
      BY <3>1, ConcatProperties, EmptySeq
    <3> QED
      BY <1>6, <2>2, <3>2
  <2> HIDE DEF T
  <2>3. Seq(S) \subseteq T
    BY <2>1, <2>2, SequenceInduction
  <2> QED
    BY <2>3 DEF T
<1>8. f \in [Seq(S) -> D]
  BY <1>4, <1>7
<1> HIDE DEF D
<1> QED
  BY <1>4, <1>5, <1>6, <1>8 DEF Gathers, D

\* A page, and then what is read from the page it leads to.
LEMMA WalkSteps ==
  ASSUME NEW s \in Sites
  PROVE  /\ \A n \in Nat, p \in Pages \cup {Nothing} : Walk(s)[n][p] \in Seq(Pages)
         /\ \A n \in Nat : Walk(s)[n][Nothing] = <<>>
         /\ \A p \in Pages : Walk(s)[0][p] = <<>>
         /\ \A n \in Nat, p \in Pages :
              Walk(s)[n + 1][p] = <<p>> \o Walk(s)[n][Onward(s, p)]
<1> DEFINE PN == Pages \cup {Nothing}
           D == [PN -> Seq(Pages)]
           d == [p \in PN |-> <<>>]
           G == [g \in D |-> [p \in PN |-> IF p = Nothing THEN <<>> ELSE <<p>> \o g[Onward(s, p)]]]
           At(f, n) == [p \in PN |-> IF n = 0 \/ p = Nothing THEN <<>>
                                     ELSE <<p>> \o f[n - 1][Onward(s, p)]]
<1>1. \A p \in Pages : Onward(s, p) \in PN
  BY SiteParts
<1>2. d \in D
  BY EmptySeq
<1>3. G \in [D -> D]
  <2> SUFFICES ASSUME NEW g \in D, NEW p \in PN
               PROVE  (IF p = Nothing THEN <<>> ELSE <<p>> \o g[Onward(s, p)]) \in Seq(Pages)
    OBVIOUS
  <2>1. CASE p = Nothing
    BY <2>1, EmptySeq
  <2>2. CASE p # Nothing
    <3>1. <<p>> \in Seq(Pages) /\ g[Onward(s, p)] \in Seq(Pages)
      BY <1>1, <2>2
    <3> QED
      BY <2>2, <3>1, ConcatProperties
  <2> QED
    BY <2>1, <2>2
<1>4. PICK R \in [Nat -> D] : R[0] = d /\ \A n \in Nat : R[n + 1] = G[R[n]]
  <2> HIDE DEF D, d, G
  <2>1. \E R \in [Nat -> D] : Iterates(R, d, G)
    BY <1>2, <1>3, Iteration
  <2> QED
    BY <2>1 DEF Iterates
<1>5. ASSUME NEW n \in Nat
      PROVE  R[n] = At(R, n)
  <2>1. CASE n = 0
    BY <1>4, <2>1
  <2>2. CASE n # 0
    <3>1. PICK m \in Nat : n = m + 1 /\ n - 1 = m
      <4>1. n - 1 \in Nat /\ n = (n - 1) + 1
        BY <2>2
      <4> QED
        BY <4>1
    <3>2. R[n] = G[R[m]] /\ R[m] \in D
      BY <1>4, <3>1
    <3>3. G[R[m]] = [p \in PN |-> IF p = Nothing THEN <<>> ELSE <<p>> \o R[m][Onward(s, p)]]
      BY <3>2
    <3>4. At(R, n) = [p \in PN |-> IF p = Nothing THEN <<>> ELSE <<p>> \o R[m][Onward(s, p)]]
      BY <2>2, <3>1
    <3> QED
      BY <3>2, <3>3, <3>4
  <2> QED
    BY <2>1, <2>2
<1>6. R = [n \in Nat |-> At(R, n)]
  BY <1>4, <1>5
<1>7. PICK f : f = Walk(s) /\ f = [n \in Nat |-> At(f, n)]
  <2>1. Walk(s) = [n \in Nat |-> At(Walk(s), n)]
    BY <1>6, Zenon DEF Walk
  <2> QED
    BY <2>1
<1>8. \A n \in Nat, p \in PN : f[n][p] = IF n = 0 \/ p = Nothing THEN <<>>
                                         ELSE <<p>> \o f[n - 1][Onward(s, p)]
  <2>1. \A n \in Nat : f[n] = At(f, n)
    BY <1>7, Zenon
  <2> QED
    BY <2>1
<1>9. ASSUME NEW n \in Nat, NEW p \in Pages
      PROVE  f[n + 1][p] = <<p>> \o f[n][Onward(s, p)]
  <2>1. n + 1 \in Nat /\ n + 1 # 0 /\ (n + 1) - 1 = n /\ p # Nothing
    BY FetcherAssumption
  <2> QED
    BY <1>8, <2>1
<1>10. Nat \subseteq {n \in Nat : \A p \in PN : f[n][p] \in Seq(Pages)}
  <2> DEFINE T == {n \in Nat : \A p \in PN : f[n][p] \in Seq(Pages)}
  <2>1. 0 \in T
    BY <1>8, EmptySeq
  <2>2. ASSUME NEW n \in Nat, n \in T
        PROVE  n + 1 \in T
    <3> SUFFICES ASSUME NEW p \in PN PROVE f[n + 1][p] \in Seq(Pages)
      OBVIOUS
    <3>1. CASE p = Nothing
      <4>1. n + 1 \in Nat
        OBVIOUS
      <4> QED
        BY <1>8, <3>1, <4>1, EmptySeq
    <3>2. CASE p # Nothing
      <4>1. <<p>> \in Seq(Pages) /\ f[n][Onward(s, p)] \in Seq(Pages)
        BY <1>1, <2>2, <3>2
      <4> QED
        BY <1>9, <3>2, <4>1, ConcatProperties
    <3> QED
      BY <3>1, <3>2
  <2> HIDE DEF T
  <2>3. Nat \subseteq T
    BY <2>1, <2>2, Induction
  <2> QED
    BY <2>3 DEF T
<1> QED
  BY <1>7, <1>8, <1>9, <1>10

\* The head and the tail of a sequence that something was put before.
LEMMA ConsProperties ==
  ASSUME NEW S, NEW p \in S, NEW q \in Seq(S)
  PROVE  /\ <<p>> \o q \in Seq(S) /\ <<p>> \o q # <<>>
         /\ Head(<<p>> \o q) = p /\ Tail(<<p>> \o q) = q
<1>1. <<p>> \in Seq(S) /\ Len(<<p>>) = 1 /\ <<p>>[1] = p
  OBVIOUS
<1>2. /\ <<p>> \o q \in Seq(S) /\ Len(<<p>> \o q) = 1 + Len(q)
      /\ \A i \in 1 .. 1 + Len(q) : (<<p>> \o q)[i] = IF i <= 1 THEN <<p>>[i] ELSE q[i - 1]
  BY <1>1, ConcatProperties
<1>3. Len(q) \in Nat
  BY LenProperties
<1>4. <<p>> \o q # <<>>
  BY <1>2, <1>3, EmptySeq
<1>5. Head(<<p>> \o q) = p
  <2>1. (<<p>> \o q)[1] = p
    BY <1>1, <1>2, <1>3
  <2> QED
    BY <1>2, <1>4, <2>1
<1>6. Tail(<<p>> \o q) = q
  <2>1. /\ Tail(<<p>> \o q) \in Seq(S) /\ Len(Tail(<<p>> \o q)) = Len(q)
        /\ \A i \in 1 .. Len(q) : Tail(<<p>> \o q)[i] = (<<p>> \o q)[i + 1]
    BY <1>2, <1>3, <1>4, HeadTailProperties
  <2>2. \A i \in 1 .. Len(q) : (<<p>> \o q)[i + 1] = q[i]
    BY <1>2, <1>3
  <2> QED
    BY <2>1, <2>2, SeqEqual
<1> QED
  BY <1>2, <1>4, <1>5, <1>6

\* The pages of a list of targets are those of the first, then those of the others.
LEMMA TargetPages ==
  ASSUME NEW s \in Sites, NEW mode
  PROVE  /\ PagesOf(s, mode) \in [Seq(Pages) -> Seq(Pages)]
         /\ PagesOf(s, mode)[<<>>] = <<>>
         /\ \A q \in Seq(Pages) : q # <<>> =>
              PagesOf(s, mode)[q] =
                (IF mode = "html" THEN Walk(s)[s.maxPages][Head(q)] ELSE <<Head(q)>>)
                  \o PagesOf(s, mode)[Tail(q)]
<1> DEFINE part == [p \in Pages |-> IF mode = "html" THEN Walk(s)[s.maxPages][p] ELSE <<p>>]
<1>1. part \in [Pages -> Seq(Pages)]
  <2>1. \A p \in Pages : Walk(s)[s.maxPages][p] \in Seq(Pages)
    BY SiteParts, WalkSteps
  <2> QED
    BY <2>1
<1>2. PagesOf(s, mode) = Gather(Pages, part, {})
  BY DEF PagesOf
<1>3. \A q \in Seq(Pages) : q # <<>> => Head(q) \in Pages
  BY HeadTailProperties
<1>4. \A p \in Pages : part[p] = IF mode = "html" THEN Walk(s)[s.maxPages][p] ELSE <<p>>
  OBVIOUS
<1> HIDE DEF part
<1>5. Gathers(Gather(Pages, part, {}), Pages, Pages, part, {})
  BY <1>1, Gathered
<1>6. PICK f : f = PagesOf(s, mode) /\ Gathers(f, Pages, Pages, part, {})
  BY <1>2, <1>5
<1>7. \A q \in Seq(Pages) : q # <<>> => f[q] = part[Head(q)] \o f[Tail(q)]
  BY <1>6 DEF Gathers
<1> QED
  BY <1>3, <1>4, <1>6, <1>7 DEF Gathers

\* An item is passed over, or comes first.
LEMMA TitledItems ==
  ASSUME NEW s \in Sites
  PROVE  /\ Titled(s) \in [Seq(Items) -> Seq(Items)]
         /\ Titled(s)[<<>>] = <<>>
         /\ \A q \in Seq(Items) : q # <<>> =>
              Titled(s)[q] = (IF Head(q) \in s.titled THEN <<Head(q)>> ELSE <<>>)
                               \o Titled(s)[Tail(q)]
<1> DEFINE part == [i \in Items |-> IF i \in s.titled THEN <<i>> ELSE <<>>]
<1>1. part \in [Items -> Seq(Items)]
  OBVIOUS
<1>2. Titled(s) = Gather(Items, part, {})
  BY DEF Titled
<1>3. \A q \in Seq(Items) : q # <<>> => Head(q) \in Items
  BY HeadTailProperties
<1>4. \A i \in Items : part[i] = IF i \in s.titled THEN <<i>> ELSE <<>>
  OBVIOUS
<1> HIDE DEF part
<1>5. Gathers(Gather(Items, part, {}), Items, Items, part, {})
  BY <1>1, Gathered
<1>6. PICK f : f = Titled(s) /\ Gathers(f, Items, Items, part, {})
  BY <1>2, <1>5
<1>7. \A q \in Seq(Items) : q # <<>> => f[q] = part[Head(q)] \o f[Tail(q)]
  BY <1>6 DEF Gathers
<1> QED
  BY <1>3, <1>4, <1>6, <1>7 DEF Gathers

\* The items of a page come before those of the next, unless it cannot be read.
LEMMA PageItems ==
  ASSUME NEW s \in Sites, NEW mode
  PROVE  /\ ItemsOf(s, mode) \in [Seq(Pages) -> Seq(Items)]
         /\ ItemsOf(s, mode)[<<>>] = <<>>
         /\ \A p \in Pages, q \in Seq(Pages) :
              ItemsOf(s, mode)[<<p>> \o q] =
                IF Reads(s, mode, p) = "error" THEN <<>>
                ELSE (IF Reads(s, mode, p) = "all" THEN Titled(s)[s.lists[p]] ELSE <<>>)
                       \o ItemsOf(s, mode)[q]
<1> DEFINE part == [p \in Pages |-> IF Reads(s, mode, p) = "all" THEN Titled(s)[s.lists[p]]
                                    ELSE <<>>]
           stop == {p \in Pages : Reads(s, mode, p) = "error"}
<1>1. part \in [Pages -> Seq(Items)]
  <2>1. \A p \in Pages : Titled(s)[s.lists[p]] \in Seq(Items)
    BY SiteParts, TitledItems
  <2> QED
    BY <2>1, EmptySeq
<1>2. ItemsOf(s, mode) = Gather(Pages, part, stop)
  BY DEF ItemsOf
<1>3. \A p \in Pages : /\ part[p] = IF Reads(s, mode, p) = "all" THEN Titled(s)[s.lists[p]] ELSE <<>>
                       /\ p \in stop <=> Reads(s, mode, p) = "error"
  OBVIOUS
<1> HIDE DEF part, stop
<1>4. Gathers(Gather(Pages, part, stop), Pages, Items, part, stop)
  BY <1>1, Gathered
<1>5. PICK f : f = ItemsOf(s, mode) /\ Gathers(f, Pages, Items, part, stop)
  BY <1>2, <1>4
<1>6. ASSUME NEW p \in Pages, NEW q \in Seq(Pages)
      PROVE  f[<<p>> \o q] = IF p \in stop THEN <<>> ELSE part[p] \o f[q]
  <2>1. PICK r \in Seq(Pages) : r = <<p>> \o q /\ r # <<>> /\ Head(r) = p /\ Tail(r) = q
    BY ConsProperties
  <2>2. f[r] = IF Head(r) \in stop THEN <<>> ELSE part[Head(r)] \o f[Tail(r)]
    BY <1>5, <2>1 DEF Gathers
  <2> QED
    BY <2>1, <2>2
<1>7. ASSUME NEW p \in Pages, NEW q \in Seq(Pages)
      PROVE  f[<<p>> \o q] =
               IF Reads(s, mode, p) = "error" THEN <<>>
               ELSE (IF Reads(s, mode, p) = "all" THEN Titled(s)[s.lists[p]] ELSE <<>>) \o f[q]
  <2>1. f[<<p>> \o q] = IF p \in stop THEN <<>> ELSE part[p] \o f[q]
    BY <1>6
  <2>2. CASE p \in stop
    BY <1>3, <2>1, <2>2
  <2>3. CASE p \notin stop
    BY <1>3, <2>1, <2>3
  <2> QED
    BY <2>2, <2>3
<1>8. f \in [Seq(Pages) -> Seq(Items)] /\ f[<<>>] = <<>>
  BY <1>5 DEF Gathers
<1> QED
  BY <1>5, <1>7, <1>8

\* What a site's listings hold are items, and what a crawl has to give.
LEMMA PromisedItems ==
  ASSUME NEW s \in Sites
  PROVE  /\ ByApi(s) \in Seq(Items) /\ ByHtml(s) \in Seq(Items)
         /\ \A mode : \A items \in Promised(s, mode) : items \in Seq(Items)
<1>1. ByApi(s) \in Seq(Items) /\ ByHtml(s) \in Seq(Items)
  <2>1. \A mode : \A q \in Seq(Pages) : ItemsOf(s, mode)[PagesOf(s, mode)[q]] \in Seq(Items)
    <3> SUFFICES ASSUME NEW mode, NEW q \in Seq(Pages)
                 PROVE  ItemsOf(s, mode)[PagesOf(s, mode)[q]] \in Seq(Items)
      OBVIOUS
    <3>1. PagesOf(s, mode)[q] \in Seq(Pages)
      BY TargetPages
    <3>2. ItemsOf(s, mode) \in [Seq(Pages) -> Seq(Items)]
      BY PageItems
    <3> QED
      BY <3>1, <3>2
  <2> QED
    BY <2>1, SiteParts DEF ByApi, ByHtml
<1>2. \A k \in 0 .. Len(ByApi(s)) : SubSeq(ByApi(s), 1, k) \in Seq(Items)
  <2> SUFFICES ASSUME NEW k \in 0 .. Len(ByApi(s))
               PROVE  SubSeq(ByApi(s), 1, k) \in Seq(Items)
    OBVIOUS
  <2>1. \A i \in 1 .. k : ByApi(s)[i] \in Items
    BY <1>1, ElementOfSeq, LenProperties
  <2> QED
    BY <2>1, SubSeqProperties
<1>3. \A k \in 0 .. Len(ByApi(s)) : SubSeq(ByApi(s), 1, k) \o ByHtml(s) \in Seq(Items)
  BY <1>1, <1>2, ConcatProperties
<1> QED
  BY <1>1, <1>3 DEF Promised

\* What was given is the beginning of what was given and is still to be.
LEMMA GivenIsPrefix ==
  ASSUME NEW g \in Seq(Items), NEW d \in Seq(Items)
  PROVE  /\ IsPrefix(g, g \o d)
         /\ Len(g) \in 0 .. Len(g \o d) /\ SubSeq(g \o d, 1, Len(g)) = g
<1>1. /\ g \o d \in Seq(Items) /\ Len(g \o d) = Len(g) + Len(d)
      /\ Len(g) \in Nat /\ Len(d) \in Nat
  BY ConcatProperties, LenProperties
<1>2. SubSeq(g, 1, Len(g)) = g
  BY SubSeqFull
<1>3. SubSeq(g \o d, 1, Len(g)) = g
  <2>1. CASE Len(g) = 0
    <3>1. SubSeq(g \o d, 1, Len(g)) = <<>>
      BY <2>1, SubSeqEmpty
    <3>2. g = <<>>
      BY <2>1, EmptySeq
    <3> QED
      BY <3>1, <3>2
  <2>2. CASE Len(g) # 0
    <3>1. 1 \in 1 .. Len(g) /\ Len(g) \in 1 .. Len(g)
      BY <1>1, <2>2
    <3> QED
      BY <1>2, <3>1, SubSeqOfConcat1
  <2> QED
    BY <2>1, <2>2
<1> QED
  BY <1>1, <1>2, <1>3 DEF IsPrefix

-----------------------------------------------------------------------------
(* The invariant                                                           *)

\* What the generator has at hand where it stands.
RunPlaced(s, r) ==
  /\ r.at \in {"listing", "items", "detail"} => r.page \in Pages
  /\ r.at \in {"idle", "targets", "listing", "done"} => r.batch = <<>>
  /\ r.at = "detail" => r.batch # <<>> /\ Head(r.batch) \in s.titled
  /\ r.mode = "api" => Mode(s) = "api"
  /\ r.mode = "html" /\ r.at = "listing" => r.pages < s.maxPages
  /\ r.mode = "html" /\ r.at \in {"items", "detail"} => r.pages <= s.maxPages

\* The pages of the present target that are still to be read.
Onwards(s, r) ==
  IF r.at = "listing"
  THEN IF r.mode = "html" THEN Walk(s)[s.maxPages - r.pages][r.page] ELSE <<r.page>>
  ELSE IF r.at \in {"items", "detail"} /\ r.mode = "html"
       THEN Walk(s)[s.maxPages - r.pages][Onward(s, r.page)] ELSE <<>>

\* The pages that are still to be read.
Ahead(s, r) == Onwards(s, r) \o PagesOf(s, r.mode)[r.targets]

\* What is still to be given: the items at hand, and those of the pages ahead.
Due(s, r) == Titled(s)[r.batch] \o ItemsOf(s, r.mode)[Ahead(s, r)]

\* What was given and what is still to be given are what was promised; at the end, what
\* was given is, or begins it if there was an error.
OnCourse(s, r, g, e) ==
  /\ s \in Sites /\ r \in Runs /\ RunPlaced(s, r)
  /\ g \in Seq(Items) /\ Len(g) <= MaxItems /\ e \in Errors \cup {Nothing}
  /\ r.at # "done" => g \o Due(s, r) \in Promised(s, r.mode)
  /\ r.at = "done" => \E items \in Promised(s, r.mode) :
                        IF e = Nothing THEN g = items ELSE IsPrefix(g, items)

\* Since the host was last contacted, and until it may be again.
KeepsDistance == limiter.wait + limiter.since >= Min(Spacing)

CrawlInv ==
  /\ FetcherTypeOK /\ KeepsDistance
  /\ request # Idle => run.at \in {"listing", "detail"}
  /\ OnCourse(site, run, given, error)

-----------------------------------------------------------------------------
(* What is still to be given                                               *)

\* The pages ahead are pages; where one is read, it is the first of them.
LEMMA PagesAhead ==
  ASSUME NEW s \in Sites, NEW r \in Runs, RunPlaced(s, r)
  PROVE  /\ Onwards(s, r) \in Seq(Pages) /\ Ahead(s, r) \in Seq(Pages)
         /\ PagesOf(s, r.mode)[r.targets] \in Seq(Pages)
<1>1. s.maxPages \in Nat /\ \A p \in Pages : Onward(s, p) \in Pages \cup {Nothing}
  BY SiteParts
<1>2. r.targets \in Seq(Pages) /\ r.pages \in Nat
  BY DEF Runs
<1>3. PagesOf(s, r.mode)[r.targets] \in Seq(Pages)
  BY <1>2, TargetPages
<1>4. Onwards(s, r) \in Seq(Pages)
  <2>1. CASE r.mode = "html" /\ r.at \in {"listing", "items", "detail"}
    <3>1. r.page \in Pages /\ s.maxPages - r.pages \in Nat
      BY <1>1, <1>2, <2>1 DEF RunPlaced
    <3>2. \A p \in Pages \cup {Nothing} : Walk(s)[s.maxPages - r.pages][p] \in Seq(Pages)
      BY <3>1, WalkSteps
    <3> QED
      BY <1>1, <2>1, <3>1, <3>2 DEF Onwards
  <2>2. CASE ~(r.mode = "html" /\ r.at \in {"listing", "items", "detail"})
    <3>1. Onwards(s, r) = IF r.at = "listing" THEN <<r.page>> ELSE <<>>
      BY <2>2 DEF Onwards
    <3>2. r.at = "listing" => r.page \in Pages
      BY DEF RunPlaced
    <3> QED
      BY <3>1, <3>2, EmptySeq
  <2> QED
    BY <2>1, <2>2
<1>5. Ahead(s, r) \in Seq(Pages)
  BY <1>3, <1>4, ConcatProperties DEF Ahead
<1> QED
  BY <1>3, <1>4, <1>5

\* What a run still owes is made of items.
LEMMA DueItems ==
  ASSUME NEW s \in Sites, NEW r \in Runs, RunPlaced(s, r)
  PROVE  /\ Titled(s)[r.batch] \in Seq(Items) /\ ItemsOf(s, r.mode)[Ahead(s, r)] \in Seq(Items)
         /\ Due(s, r) \in Seq(Items)
<1>1. r.batch \in Seq(Items)
  BY DEF Runs
<1>2. Titled(s)[r.batch] \in Seq(Items)
  BY <1>1, TitledItems
<1>3. ItemsOf(s, r.mode)[Ahead(s, r)] \in Seq(Items)
  BY PagesAhead, PageItems
<1> QED
  BY <1>2, <1>3, ConcatProperties DEF Due

\* With nothing at hand, what is due is what the pages ahead hold.
LEMMA DueOfPages ==
  ASSUME NEW s \in Sites, NEW r \in Runs, RunPlaced(s, r), r.batch = <<>>
  PROVE  Due(s, r) = ItemsOf(s, r.mode)[Ahead(s, r)]
<1>1. Titled(s)[<<>>] = <<>>
  BY TitledItems
<1> QED
  BY <1>1, DueItems, ConcatEmptySeq DEF Due

\* Before the end, what was given is the beginning of what was promised.
LEMMA GivenBegins ==
  ASSUME NEW s, NEW r, NEW g, NEW e, OnCourse(s, r, g, e), r.at # "done"
  PROVE  \E items \in Promised(s, r.mode) :
           IsPrefix(g, items) /\ Len(g) \in 0 .. Len(items) /\ SubSeq(items, 1, Len(g)) = g
<1>1. g \in Seq(Items) /\ Due(s, r) \in Seq(Items) /\ g \o Due(s, r) \in Promised(s, r.mode)
  BY DueItems DEF OnCourse
<1> QED
  BY <1>1, GivenIsPrefix

-----------------------------------------------------------------------------
(* The steps of the generator                                              *)

\* Where a crawl stops, and where it begins.
LEMMA StoppedRun ==
  ASSUME NEW r \in Runs
  PROVE  \E q \in Runs : /\ q = [r EXCEPT !.at = "done", !.batch = <<>>, !.page = Nothing]
                         /\ q.at = "done" /\ q.batch = <<>> /\ q.mode = r.mode
<1>1. PICK none \in Seq(Items) : none = <<>>
  BY EmptySeq
<1>2. PICK nowhere \in Pages \cup {Nothing} : nowhere = Nothing
  OBVIOUS
<1> DEFINE q == [r EXCEPT !.at = "done", !.batch = none, !.page = nowhere]
<1>3. q \in Runs /\ q.at = "done" /\ q.batch = none /\ q.mode = r.mode
  BY DEF Runs
<1> QED
  BY <1>1, <1>2, <1>3

\* A run that is over, or has its targets still to read, is one of Runs.
LEMMA RunOverTargets ==
  ASSUME NEW at \in {"targets", "idle"}, NEW mode \in {"api", "html"}, NEW targets \in Seq(Pages),
         NEW r, r = [at |-> at, mode |-> mode, targets |-> targets, page |-> Nothing,
                     pages |-> 0, batch |-> <<>>, produced |-> FALSE]
  PROVE  r \in Runs /\ r.at = at /\ r.mode = mode /\ r.targets = targets /\ r.batch = <<>>
<1>1. <<>> \in Seq(Items)
  BY EmptySeq
<1> QED
  BY <1>1 DEF Runs

\* A crawl begins with everything ahead.
LEMMA StartedOnCourse ==
  ASSUME NEW s \in Sites, NEW r \in {Started(s), [Started(s) EXCEPT !.at = "idle"]}
  PROVE  OnCourse(s, r, <<>>, Nothing)
<1>1. /\ r \in Runs /\ r.at \in {"targets", "idle"} /\ r.batch = <<>>
      /\ r.mode = Mode(s) /\ r.targets = Targets(s)
  <2>1. PICK at \in {"targets", "idle"} :
          r = [at |-> at, mode |-> Mode(s), targets |-> Targets(s), page |-> Nothing,
               pages |-> 0, batch |-> <<>>, produced |-> FALSE]
    BY DEF Started
  <2> QED
    BY <2>1, SiteParts, RunOverTargets
<1>2. RunPlaced(s, r)
  BY <1>1, SiteParts DEF RunPlaced
<1>3. Onwards(s, r) = <<>>
  BY <1>1 DEF Onwards
<1>4. Ahead(s, r) = PagesOf(s, Mode(s))[Targets(s)]
  BY <1>1, <1>2, <1>3, PagesAhead, ConcatEmptySeq DEF Ahead
<1>5. Due(s, r) = ItemsOf(s, Mode(s))[PagesOf(s, Mode(s))[Targets(s)]]
  BY <1>1, <1>2, <1>4, DueOfPages
<1>6. Due(s, r) \in Promised(s, Mode(s))
  <2>1. CASE Mode(s) = "api"
    BY <1>5, <2>1 DEF Promised, ByApi
  <2>2. CASE Mode(s) # "api"
    <3>1. Mode(s) = "html" /\ Targets(s) = ListingTargets(s)
      BY <2>2 DEF Mode, Targets
    <3> QED
      BY <1>5, <2>2, <3>1 DEF Promised, ByHtml
  <2> QED
    BY <2>1, <2>2
<1>7. <<>> \o Due(s, r) = Due(s, r)
  BY <1>1, <1>2, DueItems, ConcatEmptySeq
<1>8. <<>> \in Seq(Items) /\ Len(<<>>) <= MaxItems
  BY EmptySeq, SitesAssumption
<1> QED
  BY <1>1, <1>2, <1>6, <1>7, <1>8 DEF OnCourse

\* It may stop at any time, with an error.
LEMMA StoppedOnCourse ==
  ASSUME NEW s, NEW r, NEW g, NEW e, OnCourse(s, r, g, e), r.at # "done", NEW f \in Errors
  PROVE  OnCourse(s, [r EXCEPT !.at = "done", !.batch = <<>>, !.page = Nothing], g, f)
<1>1. PICK q \in Runs : /\ q = [r EXCEPT !.at = "done", !.batch = <<>>, !.page = Nothing]
                        /\ q.at = "done" /\ q.batch = <<>> /\ q.mode = r.mode
  BY StoppedRun DEF OnCourse
<1>2. RunPlaced(s, q)
  BY <1>1 DEF RunPlaced, OnCourse
<1>3. f # Nothing
  BY SitesAssumption
<1>4. PICK items \in Promised(s, q.mode) : IsPrefix(g, items)
  BY <1>1, GivenBegins
<1> QED
  BY <1>1, <1>2, <1>3, <1>4 DEF OnCourse

\* It ends without one when nothing is due.
LEMMA FinishedOnCourse ==
  ASSUME NEW s, NEW r, NEW g, NEW e, OnCourse(s, r, g, e), r.at # "done", Due(s, r) = <<>>
  PROVE  OnCourse(s, [r EXCEPT !.at = "done", !.batch = <<>>, !.page = Nothing], g, e)
<1>1. PICK q \in Runs : /\ q = [r EXCEPT !.at = "done", !.batch = <<>>, !.page = Nothing]
                        /\ q.at = "done" /\ q.batch = <<>> /\ q.mode = r.mode
  BY StoppedRun DEF OnCourse
<1>2. RunPlaced(s, q)
  BY <1>1 DEF RunPlaced, OnCourse
<1>3. g \in Promised(s, q.mode)
  <2>1. g \o <<>> = g
    BY ConcatEmptySeq DEF OnCourse
  <2> QED
    BY <1>1, <2>1 DEF OnCourse
<1>4. IsPrefix(g, g)
  <2>1. Len(g) \in Nat
    BY LenProperties DEF OnCourse
  <2> QED
    BY <2>1 DEF IsPrefix
<1> QED
  BY <1>1, <1>2, <1>3, <1>4 DEF OnCourse

\* An API is given up for the HTML listing.
LEMMA FallenBackOnCourse ==
  ASSUME NEW s, NEW r, NEW g, NEW e, OnCourse(s, r, g, e), r.at # "done", r.mode = "api",
         NEW q, q = [at |-> "targets", mode |-> "html", targets |-> ListingTargets(s),
                     page |-> Nothing, pages |-> 0, batch |-> <<>>, produced |-> FALSE]
  PROVE  OnCourse(s, q, g, e)
<1>1. s \in Sites /\ Mode(s) = "api"
  BY DEF OnCourse, RunPlaced
<1>2. /\ q \in Runs /\ q.at = "targets" /\ q.batch = <<>>
      /\ q.mode = "html" /\ q.targets = ListingTargets(s)
  <2>1. ListingTargets(s) \in Seq(Pages)
    BY <1>1, SiteParts
  <2> QED
    BY <2>1, RunOverTargets
<1>3. RunPlaced(s, q)
  BY <1>1, <1>2 DEF RunPlaced
<1>4. Onwards(s, q) = <<>>
  BY <1>2 DEF Onwards
<1>5. Ahead(s, q) = PagesOf(s, "html")[ListingTargets(s)]
  BY <1>1, <1>2, <1>3, <1>4, PagesAhead, ConcatEmptySeq DEF Ahead
<1>6. Due(s, q) = ByHtml(s)
  BY <1>1, <1>2, <1>3, <1>5, DueOfPages DEF ByHtml
<1>7. Len(g) \in 0 .. Len(ByApi(s)) /\ SubSeq(ByApi(s), 1, Len(g)) = g
  <2>1. PICK items \in Promised(s, "api") : Len(g) \in 0 .. Len(items) /\ SubSeq(items, 1, Len(g)) = g
    BY GivenBegins
  <2> QED
    BY <2>1 DEF Promised
<1>8. g \o Due(s, q) \in Promised(s, "html")
  BY <1>1, <1>6, <1>7 DEF Promised
<1> QED
  BY <1>1, <1>2, <1>3, <1>8 DEF OnCourse

\* A step that leaves what is due as it was.
LEMMA MovedOnCourse ==
  ASSUME NEW s, NEW r, NEW g, NEW e, OnCourse(s, r, g, e), r.at # "done",
         NEW q \in Runs, q.at # "done", q.mode = r.mode, RunPlaced(s, q), Due(s, q) = Due(s, r)
  PROVE  OnCourse(s, q, g, e)
BY DEF OnCourse

\* The next target: its first page is asked for, or it has none.
LEMMA TargetOnCourse ==
  ASSUME NEW s, NEW r, NEW g, NEW e, OnCourse(s, r, g, e), r.at = "targets", r.targets # <<>>,
         NEW q \in Runs, q.mode = r.mode, q.targets = Tail(r.targets), q.pages = 0,
         q.batch = r.batch,
         \/ /\ q.at = "listing" /\ q.page = Head(r.targets)
            /\ r.mode = "api" \/ 0 < s.maxPages
         \/ q.at = "targets" /\ ~(r.mode = "api" \/ 0 < s.maxPages)
  PROVE  OnCourse(s, q, g, e)
<1>1. /\ s \in Sites /\ r \in Runs /\ RunPlaced(s, r) /\ r.targets \in Seq(Pages)
      /\ r.batch = <<>> /\ s.maxPages \in Nat /\ r.mode \in {"api", "html"}
  BY SiteParts DEF OnCourse, Runs, RunPlaced
<1>2. PICK p \in Pages, rest \in Seq(Pages) : p = Head(r.targets) /\ rest = Tail(r.targets)
  BY <1>1, HeadTailProperties
<1>3. RunPlaced(s, q)
  BY <1>1, <1>2 DEF RunPlaced
<1>4. Ahead(s, r) = (IF r.mode = "html" THEN Walk(s)[s.maxPages][p] ELSE <<p>>)
                      \o PagesOf(s, r.mode)[rest]
  <2>1. Ahead(s, r) = PagesOf(s, r.mode)[r.targets]
    BY <1>1, PagesAhead, ConcatEmptySeq DEF Ahead, Onwards
  <2> QED
    BY <1>1, <1>2, <2>1, TargetPages
<1>5. Ahead(s, q) = Ahead(s, r)
  <2>1. CASE q.at = "listing"
    <3>1. Onwards(s, q) = IF r.mode = "html" THEN Walk(s)[s.maxPages - 0][p] ELSE <<p>>
      BY <1>2, <2>1 DEF Onwards
    <3>2. s.maxPages - 0 = s.maxPages
      BY <1>1
    <3>3. Ahead(s, q) = Onwards(s, q) \o PagesOf(s, r.mode)[rest]
      BY <1>2 DEF Ahead
    <3> QED
      BY <1>4, <3>1, <3>2, <3>3
  <2>2. CASE q.at = "targets"
    <3>1. r.mode = "html" /\ s.maxPages = 0
      BY <1>1, <2>2
    <3>2. Walk(s)[s.maxPages][p] = <<>>
      BY <1>1, <3>1, WalkSteps
    <3>3. Onwards(s, q) = <<>>
      BY <2>2 DEF Onwards
    <3> QED
      BY <1>2, <1>4, <3>1, <3>2, <3>3 DEF Ahead
  <2> QED
    BY <2>1, <2>2
<1>6. Due(s, q) = Due(s, r)
  BY <1>5 DEF Due
<1> QED
  BY <1>3, <1>6, MovedOnCourse

\* After the items of a page: the next page of the target is asked for, or it has none.
LEMMA TurnOnCourse ==
  ASSUME NEW s, NEW r, NEW g, NEW e, OnCourse(s, r, g, e), r.at = "items", r.batch = <<>>,
         NEW next, next = IF r.mode = "html" THEN Onward(s, r.page) ELSE Nothing,
         NEW q \in Runs, q.mode = r.mode, q.targets = r.targets, q.pages = r.pages,
         q.batch = r.batch,
         \/ /\ q.at = "listing" /\ q.page = next /\ next # Nothing
            /\ r.mode = "api" \/ r.pages < s.maxPages
         \/ q.at = "targets" /\ ~(next # Nothing /\ (r.mode = "api" \/ r.pages < s.maxPages))
  PROVE  OnCourse(s, q, g, e)
<1>1. /\ s \in Sites /\ r \in Runs /\ RunPlaced(s, r) /\ r.pages \in Nat
      /\ s.maxPages \in Nat /\ r.mode \in {"api", "html"} /\ r.page \in Pages
  BY SiteParts DEF OnCourse, Runs, RunPlaced
<1>2. next \in Pages \cup {Nothing}
  BY <1>1, SiteParts
<1>3. RunPlaced(s, q)
  BY <1>1, <1>2 DEF RunPlaced
<1>4. Onwards(s, q) = Onwards(s, r)
  <2>1. CASE q.at = "listing"
    <3>1. r.mode = "html"
      BY <1>1, <2>1
    <3> QED
      BY <2>1, <3>1 DEF Onwards
  <2>2. CASE q.at = "targets"
    <3>1. Onwards(s, q) = <<>>
      BY <2>2 DEF Onwards
    <3>2. CASE r.mode = "api"
      BY <3>1, <3>2 DEF Onwards
    <3>3. CASE r.mode = "html"
      <4>1. r.pages <= s.maxPages
        BY <1>1, <3>3 DEF RunPlaced
      <4>2. next = Nothing \/ s.maxPages - r.pages = 0
        BY <1>1, <2>2, <4>1
      <4>3. Onwards(s, r) = Walk(s)[s.maxPages - r.pages][next]
        BY <3>3 DEF Onwards
      <4>4. s.maxPages - r.pages \in Nat
        BY <1>1, <4>1
      <4> QED
        BY <1>1, <1>2, <3>1, <4>2, <4>3, <4>4, WalkSteps
    <3> QED
      BY <1>1, <3>2, <3>3
  <2> QED
    BY <2>1, <2>2
<1>5. Due(s, q) = Due(s, r)
  BY <1>4 DEF Due, Ahead
<1> QED
  BY <1>3, <1>5, MovedOnCourse

\* The items of a page are at hand: they were the first that were due.
LEMMA ParsedOnCourse ==
  ASSUME NEW s, NEW r, NEW g, NEW e, OnCourse(s, r, g, e), r.at = "listing",
         Reads(s, r.mode, r.page) # "error",
         NEW q \in Runs, q.at = "items", q.mode = r.mode, q.targets = r.targets,
         q.page = r.page, q.pages = r.pages + 1,
         q.batch = IF Reads(s, r.mode, r.page) = "all" THEN s.lists[r.page] ELSE <<>>
  PROVE  OnCourse(s, q, g, e)
<1>1. /\ s \in Sites /\ r \in Runs /\ RunPlaced(s, r) /\ r.pages \in Nat
      /\ s.maxPages \in Nat /\ r.mode \in {"api", "html"} /\ r.page \in Pages
      /\ r.batch = <<>>
  BY SiteParts DEF OnCourse, Runs, RunPlaced
<1>2. RunPlaced(s, q)
  BY <1>1 DEF RunPlaced
<1>3. PICK rest \in Seq(Pages) : rest = PagesOf(s, r.mode)[r.targets]
  BY <1>1, PagesAhead
<1>4. PICK on \in Seq(Pages) : on = Onwards(s, q)
  BY <1>1, <1>2, PagesAhead
<1>5. Onwards(s, r) = <<r.page>> \o on
  <2>1. CASE r.mode = "html"
    <3>1. PICK n \in Nat : n = s.maxPages - (r.pages + 1) /\ s.maxPages - r.pages = n + 1
      <4>1. r.pages < s.maxPages
        BY <1>1, <2>1 DEF RunPlaced
      <4>2. PICK a \in Nat, b \in Nat : a = s.maxPages /\ b = r.pages /\ b < a
        BY <1>1, <4>1
      <4>3. a - (b + 1) \in Nat /\ a - b = (a - (b + 1)) + 1
        BY <4>2
      <4> QED
        BY <4>2, <4>3
    <3>2. Onwards(s, r) = Walk(s)[n + 1][r.page] /\ on = Walk(s)[n][Onward(s, r.page)]
      BY <1>4, <2>1, <3>1 DEF Onwards
    <3> QED
      BY <1>1, <3>1, <3>2, WalkSteps
  <2>2. CASE r.mode = "api"
    <3>1. on = <<>> /\ Onwards(s, r) = <<r.page>>
      BY <1>4, <2>2 DEF Onwards
    <3>2. <<r.page>> \in Seq(Pages)
      BY <1>1
    <3> QED
      BY <3>1, <3>2, ConcatEmptySeq
  <2> QED
    BY <1>1, <2>1, <2>2
<1>6. Ahead(s, q) = on \o rest /\ Ahead(s, r) = <<r.page>> \o (on \o rest)
  <2>1. <<r.page>> \in Seq(Pages)
    BY <1>1
  <2>2. (<<r.page>> \o on) \o rest = <<r.page>> \o (on \o rest)
    BY <2>1, ConcatAssociative
  <2> QED
    BY <1>3, <1>4, <1>5, <2>2 DEF Ahead
<1>7. PICK pages \in Seq(Pages) : pages = on \o rest
  BY ConcatProperties
<1>8. ItemsOf(s, r.mode)[<<r.page>> \o pages] =
        (IF Reads(s, r.mode, r.page) = "all" THEN Titled(s)[s.lists[r.page]] ELSE <<>>)
          \o ItemsOf(s, r.mode)[pages]
  BY <1>1, PageItems
<1>9. Titled(s)[q.batch] =
        IF Reads(s, r.mode, r.page) = "all" THEN Titled(s)[s.lists[r.page]] ELSE <<>>
  BY <1>1, TitledItems
<1>10. Due(s, r) = ItemsOf(s, r.mode)[Ahead(s, r)]
  BY <1>1, DueOfPages
<1>11. Due(s, q) = Due(s, r)
  BY <1>6, <1>7, <1>8, <1>9, <1>10 DEF Due
<1> QED
  BY <1>2, <1>11, MovedOnCourse

\* An item at hand is passed over, or its own page is asked for.
LEMMA ItemOnCourse ==
  ASSUME NEW s, NEW r, NEW g, NEW e, OnCourse(s, r, g, e), r.at = "items", r.batch # <<>>,
         NEW q \in Runs, q.mode = r.mode, q.targets = r.targets,
         q.page = r.page, q.pages = r.pages,
         \/ q.at = "items" /\ q.batch = Tail(r.batch) /\ Head(r.batch) \notin s.titled
         \/ q.at = "detail" /\ q.batch = r.batch /\ Head(r.batch) \in s.titled
  PROVE  OnCourse(s, q, g, e)
<1>1. /\ s \in Sites /\ r \in Runs /\ RunPlaced(s, r) /\ r.batch \in Seq(Items)
  BY DEF OnCourse, Runs
<1>2. RunPlaced(s, q)
  BY <1>1 DEF RunPlaced
<1>3. Ahead(s, q) = Ahead(s, r)
  BY DEF Ahead, Onwards
<1>4. Titled(s)[q.batch] = Titled(s)[r.batch]
  <2>1. CASE q.batch = Tail(r.batch) /\ Head(r.batch) \notin s.titled
    <3>1. Titled(s)[r.batch] = <<>> \o Titled(s)[q.batch]
      BY <1>1, <2>1, TitledItems
    <3>2. Titled(s)[q.batch] \in Seq(Items)
      BY <1>1, <1>2, DueItems
    <3> QED
      BY <3>1, <3>2, ConcatEmptySeq
  <2>2. CASE q.batch = r.batch
    BY <2>2
  <2> QED
    BY <2>1, <2>2
<1>5. Due(s, q) = Due(s, r)
  BY <1>3, <1>4 DEF Due
<1> QED
  BY <1>2, <1>5, MovedOnCourse

\* The item at hand is given: it was the first that was due.
LEMMA YieldedOnCourse ==
  ASSUME NEW s, NEW r, NEW g, NEW e, OnCourse(s, r, g, e), r.at \in {"items", "detail"},
         r.batch # <<>>, Head(r.batch) \in s.titled, Len(g) # MaxItems,
         NEW q \in Runs, q.at = "items", q.mode = r.mode, q.targets = r.targets,
         q.page = r.page, q.pages = r.pages, q.batch = Tail(r.batch)
  PROVE  OnCourse(s, q, Append(g, Head(r.batch)), e)
<1>1. /\ s \in Sites /\ r \in Runs /\ RunPlaced(s, r) /\ r.batch \in Seq(Items)
      /\ g \in Seq(Items) /\ Len(g) <= MaxItems
      /\ g \o Due(s, r) \in Promised(s, r.mode) /\ e \in Errors \cup {Nothing}
  BY DEF OnCourse, Runs
<1>2. RunPlaced(s, q)
  BY <1>1 DEF RunPlaced
<1>3. PICK i \in Items : i = Head(r.batch)
  BY <1>1, HeadTailProperties
<1>4. PICK ahead \in Seq(Items) : ahead = ItemsOf(s, r.mode)[Ahead(s, r)]
  BY <1>1, DueItems
<1>5. PICK rest \in Seq(Items) : rest = Titled(s)[q.batch]
  BY <1>1, <1>2, DueItems
<1>6. Ahead(s, q) = Ahead(s, r)
  BY DEF Ahead, Onwards
<1>7. Due(s, q) = rest \o ahead
  BY <1>4, <1>5, <1>6 DEF Due
<1>8. Due(s, r) = (<<i>> \o rest) \o ahead
  <2>1. Titled(s)[r.batch] = <<i>> \o rest
    BY <1>1, <1>3, <1>5, TitledItems
  <2> QED
    BY <1>4, <2>1 DEF Due
<1>9. <<i>> \in Seq(Items) /\ rest \o ahead \in Seq(Items)
  BY ConcatProperties
<1>10. Append(g, i) \o Due(s, q) = g \o Due(s, r)
  <2>1. Append(g, i) = g \o <<i>>
    BY <1>1, AppendIsConcat
  <2>2. (g \o <<i>>) \o (rest \o ahead) = g \o (<<i>> \o (rest \o ahead))
    <3>1. PICK one \in Seq(Items), more \in Seq(Items), h \in Seq(Items) :
            one = <<i>> /\ more = rest \o ahead /\ h = g
      BY <1>1, <1>9
    <3>2. (h \o one) \o more = h \o (one \o more)
      BY ConcatAssociative, SMTT(30)
    <3> QED
      BY <3>1, <3>2
  <2>3. <<i>> \o (rest \o ahead) = (<<i>> \o rest) \o ahead
    <3>1. PICK one \in Seq(Items) : one = <<i>>
      BY <1>9
    <3>2. one \o (rest \o ahead) = (one \o rest) \o ahead
      BY ConcatAssociative, SMTT(30)
    <3> QED
      BY <3>1, <3>2
  <2>4. Append(g, i) \o Due(s, q) = (g \o <<i>>) \o (rest \o ahead)
    BY <1>7, <2>1
  <2>5. g \o Due(s, r) = g \o (<<i>> \o (rest \o ahead))
    BY <1>8, <2>3
  <2> QED
    BY <2>2, <2>4, <2>5
<1>11. Append(g, i) \in Seq(Items) /\ Len(Append(g, i)) <= MaxItems
  <2>1. Len(g) \in Nat /\ Len(Append(g, i)) = Len(g) + 1
    BY <1>1, AppendProperties, LenProperties
  <2> QED
    BY <1>1, <2>1, AppendProperties, SitesAssumption
<1> QED
  BY <1>1, <1>2, <1>3, <1>10, <1>11 DEF OnCourse

-----------------------------------------------------------------------------
(* The fetcher                                                             *)

\* Finitely many numbers are bounded.
LEMMA FiniteIsBounded ==
  ASSUME NEW S, S \subseteq Nat, IsFiniteSet(S)
  PROVE  \E b \in Nat : \A x \in S : x <= b
<1> DEFINE B(n) == \A f \in [1 .. n -> Nat] : \E b \in Nat : \A i \in 1 .. n : f[i] <= b
           T == {n \in Nat : B(n)}
<1>1. 0 \in T
  OBVIOUS
<1>2. ASSUME NEW n \in Nat, n \in T
      PROVE  n + 1 \in T
  <2> SUFFICES B(n + 1)
    <3> HIDE DEF B
    <3> QED
      OBVIOUS
  <2> SUFFICES ASSUME NEW f \in [1 .. n + 1 -> Nat]
               PROVE  \E b \in Nat : \A i \in 1 .. n + 1 : f[i] <= b
    OBVIOUS
  <2> DEFINE g == [i \in 1 .. n |-> f[i]]
  <2>1. g \in [1 .. n -> Nat]
    OBVIOUS
  <2>2. PICK b \in Nat : \A i \in 1 .. n : g[i] <= b
    BY <1>2, <2>1
  <2>3. PICK l \in Nat : l = f[n + 1]
    OBVIOUS
  <2>4. \A i \in 1 .. n + 1 : f[i] <= b + l
    <3> SUFFICES ASSUME NEW i \in 1 .. n + 1 PROVE f[i] <= b + l
      OBVIOUS
    <3>1. CASE i = n + 1
      BY <2>3, <3>1
    <3>2. CASE i # n + 1
      <4>1. i \in 1 .. n /\ f[i] = g[i] /\ f[i] \in Nat
        BY <3>2
      <4> QED
        BY <2>2, <4>1
    <3> QED
      BY <3>1, <3>2
  <2>5. b + l \in Nat
    OBVIOUS
  <2> WITNESS b + l \in Nat
  <2> QED
    BY <2>4
<1>3. Nat \subseteq T
  <2> HIDE DEF T
  <2> QED
    BY <1>1, <1>2, Induction
<1>4. PICK n \in Nat : ExistsBijection(1 .. n, S)
  BY FS_NatBijection
<1>5. PICK f \in [1 .. n -> S] : \A x \in S : \E i \in 1 .. n : f[i] = x
  BY <1>4 DEF ExistsBijection, Bijection, Surjection, Injection
<1>6. PICK b \in Nat : \A i \in 1 .. n : f[i] <= b
  <2>1. f \in [1 .. n -> Nat]
    BY <1>5
  <2> QED
    BY <1>3, <2>1
<1> QED
  BY <1>5, <1>6

\* The shortest and the longest wait.
LEMMA SpacingBounds ==
  /\ MaxSpacing \in Nat /\ Min(Spacing) \in Nat
  /\ \A w \in Spacing : Min(Spacing) <= w /\ w <= MaxSpacing
  /\ Min(Spacing) <= MaxSpacing
<1>1. Spacing \subseteq Nat /\ Spacing # {} /\ IsFiniteSet(Spacing) /\ 0 \notin Spacing
  BY FetcherAssumption
<1>2. PICK l \in Spacing : \A w \in Spacing : l <= w
  BY <1>1, LeastOf
<1>3. Min(Spacing) \in Spacing /\ \A w \in Spacing : Min(Spacing) <= w
  BY <1>2 DEF Min
<1> DEFINE U == {b \in Nat : \A w \in Spacing : w <= b}
<1>4. PICK m \in U : \A b \in U : m <= b
  <2>1. U # {}
    BY <1>1, FiniteIsBounded
  <2>2. U \subseteq Nat
    OBVIOUS
  <2> HIDE DEF U
  <2> QED
    BY <2>1, <2>2, LeastOf
<1>5. m \in Spacing
  <2> SUFFICES ASSUME m \notin Spacing
               PROVE  FALSE
    OBVIOUS
  <2>1. m # 0
    BY <1>1
  <2>2. m - 1 \in Nat /\ \A w \in Spacing : w <= m - 1
    BY <1>1, <1>4, <2>1
  <2> QED
    BY <1>4, <2>2
<1>6. MaxSpacing \in Spacing /\ \A w \in Spacing : MaxSpacing >= w
  BY <1>4, <1>5 DEF MaxSpacing, Max
<1>7. \A w \in Spacing : w <= MaxSpacing
  BY <1>1, <1>6
<1> QED
  BY <1>1, <1>3, <1>6, <1>7

\* The smaller of two numbers.
LEMMA MinOfTwo ==
  ASSUME NEW a \in Nat, NEW b \in Nat
  PROVE  Min({a, b}) = IF a <= b THEN a ELSE b
BY DEF Min

\* A page is asked for.
LEMMA AskTyped ==
  ASSUME FetcherTypeOK, NEW page \in Pages, Ask(page)
  PROVE  request' \in Requests /\ robots' \in {Unread} \cup RobotsFiles
<1>1. request' = [page |-> page, attempt |-> 0, sleep |-> 0]
  BY DEF Ask, Idle
<1>2. request' \in Requests
  BY <1>1, FetcherAssumption DEF Requests
<1>3. robots' \in {Unread} \cup RobotsFiles
  BY DEF Ask, FetcherTypeOK
<1> QED
  BY <1>2, <1>3

\* One attempt: the fetch is over, or there is an attempt left; the limiter starts again.
LEMMA SendTyped ==
  ASSUME FetcherTypeOK, KeepsDistance, NEW answer \in Answers, NEW outcome, Send(answer, outcome)
  PROVE  /\ FetcherTypeOK' /\ KeepsDistance'
         /\ request # Idle
         /\ \/ outcome = "again"
            \/ outcome = answer /\ outcome # "again" /\ request' = Idle
<1>1. PICK w \in Spacing : limiter' = [wait |-> w, since |-> 0]
  BY DEF Send
<1>2. limiter' \in Limiters /\ KeepsDistance'
  <2>1. w \in 0 .. MaxSpacing /\ 0 \in 0 .. MaxSpacing /\ w + 0 >= Min(Spacing)
    BY SpacingBounds, FetcherAssumption
  <2> QED
    BY <1>1, <2>1 DEF Limiters, KeepsDistance
<1>3. request # Idle /\ request \in [page : Pages, attempt : 0 .. MaxRetries, sleep : 0 .. BackoffCap]
  BY DEF Send, Ready, FetcherTypeOK, Requests
<1>4. request' \in Requests
  <2>1. CASE outcome = "again"
    <3>1. request.attempt < MaxRetries
      BY <2>1 DEF Send, Answers
    <3>2. PICK s \in 0 .. BackoffCap : request' = [request EXCEPT !.attempt = @ + 1, !.sleep = s]
      BY <2>1 DEF Send, Sleeps
    <3>3. PICK a \in 0 .. MaxRetries : a = request.attempt + 1
      BY <1>3, <3>1, FetcherAssumption
    <3>4. request' = [request EXCEPT !.attempt = a, !.sleep = s]
      BY <3>2, <3>3
    <3> QED
      BY <1>3, <3>4 DEF Requests
  <2>2. CASE outcome # "again"
    BY <2>2 DEF Send, Requests
  <2> QED
    BY <2>1, <2>2
<1>5. robots' \in {Unread} \cup RobotsFiles
  BY DEF Send, FetcherTypeOK
<1>6. \/ outcome = "again"
      \/ outcome = answer /\ outcome # "again" /\ request' = Idle
  BY DEF Send
<1> QED
  BY <1>2, <1>3, <1>4, <1>5, <1>6 DEF FetcherTypeOK

\* Time passes: what the wait loses, the time since the last contact wins.
LEMMA TickTyped ==
  ASSUME FetcherTypeOK, KeepsDistance, Tick
  PROVE  FetcherTypeOK' /\ KeepsDistance' /\ request # Idle
<1>1. request # Idle /\ request \in [page : Pages, attempt : 0 .. MaxRetries, sleep : 0 .. BackoffCap]
  BY DEF Tick, FetcherTypeOK, Requests
<1>2. request' \in Requests
  <2>1. PICK t \in 0 .. BackoffCap : t = Down(request.sleep)
    BY <1>1, FetcherAssumption DEF Down
  <2>2. request' = [request EXCEPT !.sleep = t]
    BY <2>1 DEF Tick
  <2> QED
    BY <1>1, <2>2 DEF Requests
<1>3. PICK m \in Nat, n \in Nat, w \in Nat, s \in Nat :
        /\ m = MaxSpacing /\ n = Min(Spacing) /\ n <= m
        /\ w = limiter.wait /\ s = limiter.since /\ w <= m /\ s <= m /\ w + s >= n
  BY SpacingBounds DEF FetcherTypeOK, Limiters, KeepsDistance
<1>4. /\ limiter' = [wait |-> IF w = 0 THEN 0 ELSE w - 1,
                     since |-> IF m <= s + 1 THEN m ELSE s + 1]
  <2>1. Min({m, s + 1}) = IF m <= s + 1 THEN m ELSE s + 1
    BY <1>3, MinOfTwo
  <2> QED
    BY <1>3, <2>1 DEF Tick, Down
<1>5. limiter' \in Limiters /\ KeepsDistance'
  <2>1. PICK v \in 0 .. m, r \in 0 .. m : /\ v = IF w = 0 THEN 0 ELSE w - 1
                                          /\ r = IF m <= s + 1 THEN m ELSE s + 1
                                          /\ v + r >= n
    <3>1. (IF w = 0 THEN 0 ELSE w - 1) \in 0 .. m /\ (IF m <= s + 1 THEN m ELSE s + 1) \in 0 .. m
      BY <1>3
    <3>2. (IF w = 0 THEN 0 ELSE w - 1) + (IF m <= s + 1 THEN m ELSE s + 1) >= n
      BY <1>3
    <3> QED
      BY <3>1, <3>2
  <2>2. limiter' = [wait |-> v, since |-> r]
    BY <1>4, <2>1
  <2> QED
    BY <1>3, <2>1, <2>2 DEF Limiters, KeepsDistance
<1>6. robots' \in {Unread} \cup RobotsFiles
  BY DEF Tick, FetcherTypeOK
<1> QED
  BY <1>1, <1>2, <1>5, <1>6 DEF FetcherTypeOK

-----------------------------------------------------------------------------
(* The steps                                                               *)

CourseKept == OnCourse(site', run', given', error')

\* Where a fallback begins.
LEMMA FallBackRun ==
  ASSUME NEW s, NEW q, q = [Started(s) EXCEPT !.mode = "html", !.targets = ListingTargets(s)]
  PROVE  q = [at |-> "targets", mode |-> "html", targets |-> ListingTargets(s),
              page |-> Nothing, pages |-> 0, batch |-> <<>>, produced |-> FALSE]
BY DEF Started

\* An exception ends the crawl or makes it fall back.
LEMMA RaiseKeeps ==
  ASSUME OnCourse(site, run, given, error), run.at # "done", NEW e \in Errors, Raise(e),
         UNCHANGED <<site, given>>
  PROVE  CourseKept
<1>1. CASE FallsBack
  <2>1. /\ run' = FallenBack /\ error' = error /\ site' = site /\ given' = given
        /\ run.mode = "api"
    BY <1>1 DEF Raise, FallsBack
  <2>2. FallenBack = [at |-> "targets", mode |-> "html", targets |-> ListingTargets(site),
                      page |-> Nothing, pages |-> 0, batch |-> <<>>, produced |-> FALSE]
    BY FallBackRun DEF FallenBack
  <2>3. OnCourse(site, FallenBack, given, error)
    BY <2>1, <2>2, FallenBackOnCourse
  <2> QED
    BY <2>1, <2>3 DEF CourseKept
<1>2. CASE ~FallsBack
  <2>1. run' = Stop /\ error' = e /\ site' = site /\ given' = given
    BY <1>2 DEF Raise
  <2>2. OnCourse(site, Stop, given, e)
    BY StoppedOnCourse DEF Stop
  <2> QED
    BY <2>1, <2>2 DEF CourseKept
<1> QED
  BY <1>1, <1>2

\* The generator is exhausted: nothing is due.
LEMMA ExhaustedKeeps ==
  ASSUME OnCourse(site, run, given, error), run.at = "targets", run.targets = <<>>, Exhausted,
         UNCHANGED <<site, given>>
  PROVE  CourseKept
<1>1. error' = error /\ site' = site /\ given' = given
  BY DEF Exhausted
<1>2. CASE run' = FallenBack /\ FallsBack
  <2>1. run.mode = "api"
    BY <1>2 DEF FallsBack
  <2>2. FallenBack = [at |-> "targets", mode |-> "html", targets |-> ListingTargets(site),
                      page |-> Nothing, pages |-> 0, batch |-> <<>>, produced |-> FALSE]
    BY FallBackRun DEF FallenBack
  <2>3. OnCourse(site, FallenBack, given, error)
    BY <2>1, <2>2, FallenBackOnCourse
  <2> QED
    BY <1>1, <1>2, <2>3 DEF CourseKept
<1>3. CASE run' = Stop
  <2>1. site \in Sites /\ run \in Runs /\ RunPlaced(site, run) /\ run.batch = <<>>
    BY DEF OnCourse, RunPlaced
  <2>2. Ahead(site, run) = <<>>
    <3>1. Onwards(site, run) = <<>>
      BY DEF Onwards
    <3>2. PagesOf(site, run.mode)[<<>>] = <<>> /\ <<>> \in Seq(Pages)
      BY <2>1, TargetPages, EmptySeq
    <3> QED
      BY <3>1, <3>2, ConcatEmptySeq DEF Ahead
  <2>3. Due(site, run) = <<>>
    BY <2>1, <2>2, DueOfPages, PageItems
  <2>4. OnCourse(site, Stop, given, error)
    BY <2>3, FinishedOnCourse DEF Stop
  <2> QED
    BY <1>1, <1>3, <2>4 DEF CourseKept
<1> QED
  BY <1>2, <1>3 DEF Exhausted

\* An item is given, or is one too many.
LEMMA YieldKeeps ==
  ASSUME OnCourse(site, run, given, error), run.at \in {"items", "detail"},
         run.batch # <<>>, Head(run.batch) \in site.titled,
         Yield(Head(run.batch), Tail(run.batch)), site' = site
  PROVE  CourseKept /\ run'.at \in {"items", "done"}
<1>1. run \in Runs
  BY DEF OnCourse
<1>2. CASE Len(given) = MaxItems
  <2>1. run' = Stop /\ error' = "max_items" /\ given' = given
    BY <1>2 DEF Yield
  <2>2. OnCourse(site, Stop, given, "max_items")
    BY StoppedOnCourse DEF Stop, Errors
  <2>3. Stop.at = "done"
    BY <1>1, StoppedRun DEF Stop
  <2> QED
    BY <2>1, <2>2, <2>3 DEF CourseKept
<1>3. CASE Len(given) # MaxItems
  <2>1. /\ given' = Append(given, Head(run.batch)) /\ error' = error
        /\ run' = [run EXCEPT !.at = "items", !.batch = Tail(run.batch), !.produced = TRUE]
    BY <1>3 DEF Yield
  <2>2. PICK rest \in Seq(Items) : rest = Tail(run.batch)
    BY <1>1, HeadTailProperties DEF Runs
  <2> DEFINE q == [run EXCEPT !.at = "items", !.batch = rest, !.produced = TRUE]
  <2>3. /\ q \in Runs /\ q.at = "items" /\ q.mode = run.mode
        /\ q.targets = run.targets /\ q.page = run.page
        /\ q.pages = run.pages /\ q.batch = rest
    BY <1>1 DEF Runs
  <2> HIDE DEF q
  <2>4. OnCourse(site, q, Append(given, Head(run.batch)), error)
    BY <1>3, <2>2, <2>3, YieldedOnCourse
  <2>5. run' = q
    BY <2>1, <2>2 DEF q
  <2> QED
    BY <2>1, <2>3, <2>4, <2>5 DEF CourseKept
<1> QED
  BY <1>2, <1>3

\* A page is parsed.
LEMMA ParseKeeps ==
  ASSUME OnCourse(site, run, given, error), run.at = "listing", Parse(run.page),
         UNCHANGED <<site, given>>
  PROVE  CourseKept
<1>1. run \in Runs /\ run.page \in Pages /\ site \in Sites /\ run.pages \in Nat
  BY DEF OnCourse, RunPlaced, Runs
<1>2. CASE Reads(site, run.mode, run.page) = "error"
  <2>1. Raise("parse")
    BY <1>2 DEF Parse
  <2> QED
    BY <2>1, RaiseKeeps DEF Errors
<1>3. CASE Reads(site, run.mode, run.page) # "error"
  <2>1. PICK batch \in Seq(Items) :
          batch = IF Reads(site, run.mode, run.page) = "all" THEN site.lists[run.page] ELSE <<>>
    BY <1>1, SiteParts, EmptySeq
  <2>2. /\ run' = [run EXCEPT !.at = "items", !.pages = run.pages + 1, !.batch = batch]
        /\ error' = error
    BY <1>3, <2>1 DEF Parse, PagesRead
  <2>3. PICK n \in Nat : n = run.pages + 1
    BY <1>1
  <2> DEFINE q == [run EXCEPT !.at = "items", !.pages = n, !.batch = batch]
  <2>4. /\ q \in Runs /\ q.at = "items" /\ q.mode = run.mode
        /\ q.targets = run.targets /\ q.page = run.page
        /\ q.pages = n /\ q.batch = batch
    BY <1>1 DEF Runs
  <2> HIDE DEF q
  <2>5. OnCourse(site, q, given, error)
    BY <1>3, <2>1, <2>3, <2>4, ParsedOnCourse
  <2>6. run' = q
    BY <2>2, <2>3 DEF q
  <2> QED
    BY <2>2, <2>5, <2>6 DEF CourseKept
<1> QED
  BY <1>2, <1>3

\* The crawl begins its work, or another one does.
LEMMA InitCrawlInv == Init => CrawlInv
<1> SUFFICES ASSUME Init
             PROVE  CrawlInv
  OBVIOUS
<1>1. FetcherTypeOK /\ KeepsDistance
  <2>1. 0 \in 0 .. MaxSpacing /\ MaxSpacing \in 0 .. MaxSpacing /\ 0 + MaxSpacing >= Min(Spacing)
    BY SpacingBounds
  <2>2. limiter \in Limiters /\ KeepsDistance
    BY <2>1 DEF Init, Unused, Limiters, KeepsDistance
  <2> QED
    BY <2>2 DEF Init, FetcherTypeOK, Requests
<1>2. OnCourse(site, run, given, error)
  BY StartedOnCourse DEF Init
<1> QED
  BY <1>1, <1>2 DEF CrawlInv, Init

\* A crawl starts with a fetcher of its own and everything still to give.
LEMMA BeginKeeps ==
  ASSUME CrawlInv, NEW s \in Sites, Begin(s)
  PROVE  CrawlInv'
<1>1. FetcherTypeOK' /\ KeepsDistance'
  <2>1. 0 \in 0 .. MaxSpacing /\ MaxSpacing \in 0 .. MaxSpacing /\ 0 + MaxSpacing >= Min(Spacing)
    BY SpacingBounds
  <2>2. limiter' \in Limiters /\ KeepsDistance'
    BY <2>1 DEF Begin, Unused, Limiters, KeepsDistance
  <2> QED
    BY <2>2 DEF Begin, FetcherTypeOK, Requests
<1>2. OnCourse(s, Started(s), <<>>, Nothing)
  BY StartedOnCourse
<1>3. OnCourse(site', run', given', error') /\ request' = Idle
  BY <1>2 DEF Begin
<1> QED
  BY <1>1, <1>3 DEF CrawlInv

\* Where the fetcher rests, or is asked for a page, the invariant is about the run.
LEMMA FetcherRests ==
  ASSUME CrawlInv, CourseKept, limiter' = limiter,
         \/ UNCHANGED <<request, robots>> /\ request = Idle
         \/ /\ run'.at \in {"listing", "detail"}
            /\ \E page \in Pages : Ask(page)
  PROVE  CrawlInv'
<1>1. request' \in Requests /\ robots' \in {Unread} \cup RobotsFiles
  BY AskTyped DEF CrawlInv, FetcherTypeOK
<1>2. FetcherTypeOK' /\ KeepsDistance'
  BY <1>1 DEF CrawlInv, FetcherTypeOK, KeepsDistance
<1>3. request' # Idle => run'.at \in {"listing", "detail"}
  OBVIOUS
<1> QED
  BY <1>2, <1>3 DEF CrawlInv, CourseKept

\* Taking the next target, or coming to the end of them, keeps the crawl on course.
LEMMA NextTargetKeeps ==
  ASSUME CrawlInv, NextTarget
  PROVE  CrawlInv'
<1>1. /\ run.at = "targets" /\ request = Idle /\ OnCourse(site, run, given, error)
      /\ site' = site /\ given' = given /\ limiter' = limiter
      /\ run \in Runs /\ site \in Sites /\ run.targets \in Seq(Pages)
  BY DEF CrawlInv, NextTarget, OnCourse, Runs
<1>2. CASE site.connector = "custom.etender_ocds" /\ Targets(site) = <<>>
  <2>1. Raise("parse") /\ UNCHANGED <<request, robots>>
    BY <1>2 DEF NextTarget
  <2>2. CourseKept
    BY <1>1, <2>1, RaiseKeeps DEF Errors
  <2> QED
    BY <1>1, <2>1, <2>2, FetcherRests
<1>3. CASE ~(site.connector = "custom.etender_ocds" /\ Targets(site) = <<>>) /\ run.targets = <<>>
  <2>1. Exhausted /\ UNCHANGED <<request, robots>>
    BY <1>3 DEF NextTarget
  <2>2. CourseKept
    BY <1>1, <1>3, <2>1, ExhaustedKeeps
  <2> QED
    BY <1>1, <2>1, <2>2, FetcherRests
<1>4. CASE ~(site.connector = "custom.etender_ocds" /\ Targets(site) = <<>>) /\ run.targets # <<>>
  <2>1. PICK page \in Pages, rest \in Seq(Pages) :
          page = Head(run.targets) /\ rest = Tail(run.targets)
    BY <1>1, <1>4, HeadTailProperties
  <2> DEFINE taken == [run EXCEPT !.targets = rest, !.pages = 0]
             asked == [taken EXCEPT !.at = "listing", !.page = page]
  <2>2. /\ taken \in Runs /\ taken.at = "targets" /\ taken.mode = run.mode
        /\ taken.targets = rest /\ taken.pages = 0 /\ taken.batch = run.batch
    BY <1>1 DEF Runs
  <2>3. /\ asked \in Runs /\ asked.at = "listing" /\ asked.mode = run.mode
        /\ asked.targets = rest /\ asked.pages = 0 /\ asked.batch = run.batch
        /\ asked.page = page
    <3> HIDE DEF taken
    <3> QED
      BY <2>2 DEF Runs
  <2>4. IF Within(0)
        THEN Ask(page) /\ run' = asked /\ error' = error
        ELSE run' = taken /\ UNCHANGED <<request, robots, error>>
    BY <1>3, <1>4, <2>1 DEF NextTarget
  <2> HIDE DEF taken, asked
  <2>5. CASE Within(0)
    <3>1. OnCourse(site, asked, given, error)
      BY <1>1, <1>4, <2>1, <2>3, <2>5, TargetOnCourse DEF Within
    <3>2. CourseKept
      BY <1>1, <2>4, <2>5, <3>1 DEF CourseKept
    <3> QED
      BY <1>1, <2>3, <2>4, <2>5, <3>2, FetcherRests
  <2>6. CASE ~Within(0)
    <3>1. OnCourse(site, taken, given, error)
      BY <1>1, <1>4, <2>1, <2>2, <2>6, TargetOnCourse DEF Within
    <3>2. CourseKept
      BY <1>1, <2>4, <2>6, <3>1 DEF CourseKept
    <3> QED
      BY <1>1, <2>4, <2>6, <3>2, FetcherRests
  <2> QED
    BY <2>5, <2>6
<1> QED
  BY <1>2, <1>3, <1>4

\* A page read, and the link to the next one followed, is no longer due.
LEMMA TurnPageKeeps ==
  ASSUME CrawlInv, TurnPage
  PROVE  CrawlInv'
<1>1. /\ run.at = "items" /\ run.batch = <<>> /\ request = Idle
      /\ OnCourse(site, run, given, error)
      /\ site' = site /\ given' = given /\ limiter' = limiter /\ error' = error
      /\ run \in Runs /\ site \in Sites /\ run.page \in Pages
  BY DEF CrawlInv, TurnPage, OnCourse, RunPlaced
<1>2. PICK next \in Pages \cup {Nothing} :
        next = IF run.mode = "html" THEN Onward(site, run.page) ELSE Nothing
  BY <1>1, SiteParts
<1>3. IF next # Nothing /\ Within(run.pages)
      THEN Ask(next) /\ run' = [run EXCEPT !.at = "listing", !.page = next]
      ELSE run' = [run EXCEPT !.at = "targets", !.page = Nothing] /\ UNCHANGED <<request, robots>>
  BY <1>2 DEF TurnPage
<1>4. CASE next # Nothing /\ Within(run.pages)
  <2> DEFINE q == [run EXCEPT !.at = "listing", !.page = next]
  <2>1. /\ q \in Runs /\ q.at = "listing" /\ q.mode = run.mode /\ q.targets = run.targets
        /\ q.pages = run.pages /\ q.batch = run.batch /\ q.page = next
    BY <1>1 DEF Runs
  <2>2. Ask(next) /\ run' = q
    BY <1>3, <1>4
  <2> HIDE DEF q
  <2>3. OnCourse(site, q, given, error)
    BY <1>1, <1>2, <1>4, <2>1, TurnOnCourse DEF Within
  <2>4. CourseKept
    BY <1>1, <2>2, <2>3 DEF CourseKept
  <2> QED
    BY <1>1, <1>4, <2>1, <2>2, <2>4, FetcherRests
<1>5. CASE ~(next # Nothing /\ Within(run.pages))
  <2> DEFINE q == [run EXCEPT !.at = "targets", !.page = Nothing]
  <2>1. /\ q \in Runs /\ q.at = "targets" /\ q.mode = run.mode /\ q.targets = run.targets
        /\ q.pages = run.pages /\ q.batch = run.batch
    BY <1>1 DEF Runs
  <2>2. UNCHANGED <<request, robots>> /\ run' = q
    BY <1>3, <1>5
  <2> HIDE DEF q
  <2>3. OnCourse(site, q, given, error)
    BY <1>1, <1>2, <1>5, <2>1, TurnOnCourse DEF Within
  <2>4. CourseKept
    BY <1>1, <2>2, <2>3 DEF CourseKept
  <2> QED
    BY <1>1, <2>2, <2>4, FetcherRests
<1> QED
  BY <1>4, <1>5

\* An item is handed on, passed over without a title, or its page is asked for.
LEMMA TakeItemKeeps ==
  ASSUME CrawlInv, TakeItem
  PROVE  CrawlInv'
<1>1. /\ run.at = "items" /\ run.batch # <<>> /\ request = Idle
      /\ OnCourse(site, run, given, error)
      /\ site' = site /\ limiter' = limiter
      /\ run \in Runs /\ site \in Sites /\ run.batch \in Seq(Items)
  BY DEF CrawlInv, TakeItem, OnCourse, Runs
<1>2. PICK item \in Items, rest \in Seq(Items) : item = Head(run.batch) /\ rest = Tail(run.batch)
  BY <1>1, HeadTailProperties
<1>3. CASE item \notin site.titled
  <2> DEFINE q == [run EXCEPT !.batch = rest]
  <2>1. /\ q \in Runs /\ q.at = "items" /\ q.mode = run.mode /\ q.targets = run.targets
        /\ q.pages = run.pages /\ q.page = run.page /\ q.batch = rest
    BY <1>1 DEF Runs
  <2>2. run' = q /\ UNCHANGED <<given, error, request, robots>>
    BY <1>2, <1>3 DEF TakeItem
  <2> HIDE DEF q
  <2>3. OnCourse(site, q, given, error)
    BY <1>1, <1>2, <1>3, <2>1, ItemOnCourse
  <2>4. CourseKept
    BY <1>1, <2>2, <2>3 DEF CourseKept
  <2> QED
    BY <1>1, <2>2, <2>4, FetcherRests
<1>4. CASE item \in site.titled /\ HasDetail(item)
  <2> DEFINE q == [run EXCEPT !.at = "detail"]
  <2>1. /\ q \in Runs /\ q.at = "detail" /\ q.mode = run.mode /\ q.targets = run.targets
        /\ q.pages = run.pages /\ q.page = run.page /\ q.batch = run.batch
    BY <1>1 DEF Runs
  <2>2. run' = q /\ Ask(site.own[item]) /\ UNCHANGED <<given, error>>
    BY <1>2, <1>4 DEF TakeItem
  <2> HIDE DEF q
  <2>3. OnCourse(site, q, given, error)
    BY <1>1, <1>2, <1>4, <2>1, ItemOnCourse
  <2>4. CourseKept
    BY <1>1, <2>2, <2>3 DEF CourseKept
  <2>5. site.own[item] \in Pages
    BY <1>1, <1>4, SitesAssumption DEF HasDetail, Site
  <2> QED
    BY <1>1, <2>1, <2>2, <2>4, <2>5, FetcherRests
<1>5. CASE item \in site.titled /\ ~HasDetail(item)
  <2>1. Yield(Head(run.batch), Tail(run.batch)) /\ UNCHANGED <<request, robots>>
    BY <1>2, <1>5 DEF TakeItem
  <2>2. CourseKept
    BY <1>1, <1>2, <1>5, <2>1, YieldKeeps
  <2> QED
    BY <1>1, <2>1, <2>2, FetcherRests
<1> QED
  BY <1>3, <1>4, <1>5

\* The end of a fetch, with a page or without.
LEMMA AnsweredKeeps ==
  ASSUME OnCourse(site, run, given, error), run.at \in {"listing", "detail"},
         NEW outcome \in FetchErrors \cup {"page"}, Answered(outcome), site' = site
  PROVE  CourseKept
<1>1. CASE run.at = "detail"
  <2>1. Yield(Head(run.batch), Tail(run.batch))
    BY <1>1 DEF Answered, Detail, FetchErrors
  <2>2. run.batch # <<>> /\ Head(run.batch) \in site.titled
    BY <1>1 DEF OnCourse, RunPlaced
  <2> QED
    BY <1>1, <2>1, <2>2, YieldKeeps
<1>2. CASE run.at = "listing" /\ outcome = "page"
  <2>1. Parse(run.page) /\ given' = given
    BY <1>2 DEF Answered
  <2> QED
    BY <1>2, <2>1, ParseKeeps
<1>3. CASE run.at = "listing" /\ outcome # "page"
  <2>1. Raise(outcome) /\ given' = given /\ outcome \in Errors
    BY <1>3 DEF Answered, FetchErrors, Errors
  <2> QED
    BY <1>3, <2>1, RaiseKeeps
<1> QED
  BY <1>1, <1>2, <1>3

\* An attempt is repeated, or its answer is read or raised.
LEMMA AttemptKeeps ==
  ASSUME CrawlInv, NEW answer \in Answers, Attempt(answer)
  PROVE  CrawlInv'
<1>1. PICK outcome \in {"again", answer} : Send(answer, outcome) /\ Answered(outcome)
  BY DEF Attempt
<1>2. site' = site /\ OnCourse(site, run, given, error)
  BY DEF Attempt, CrawlInv
<1>3. /\ FetcherTypeOK' /\ KeepsDistance' /\ request # Idle
      /\ outcome = "again" \/ (outcome = answer /\ outcome # "again" /\ request' = Idle)
  BY <1>1, SendTyped DEF CrawlInv
<1>4. run.at \in {"listing", "detail"}
  BY <1>3 DEF CrawlInv
<1>5. CASE outcome = "again"
  <2>1. run' = run /\ given' = given /\ error' = error
    BY <1>1, <1>5 DEF Answered
  <2> QED
    BY <1>2, <1>3, <1>4, <2>1 DEF CrawlInv
<1>6. CASE outcome # "again"
  <2>1. outcome \in FetchErrors \cup {"page"} /\ request' = Idle
    BY <1>3, <1>6 DEF Answers, FetchErrors
  <2>2. CourseKept
    BY <1>1, <1>2, <1>4, <2>1, AnsweredKeeps
  <2> QED
    BY <1>3, <2>1, <2>2 DEF CrawlInv, CourseKept
<1> QED
  BY <1>5, <1>6

\* A page robots.txt disallows raises like any other error.
LEMMA TurnedAwayKeeps ==
  ASSUME CrawlInv, TurnedAway
  PROVE  CrawlInv'
<1>1. /\ request # Idle /\ request' = Idle /\ limiter' = limiter /\ robots' = robots
      /\ Answered("disallowed") /\ site' = site /\ OnCourse(site, run, given, error)
  BY DEF TurnedAway, Refuse, Disallowed, CrawlInv
<1>2. CourseKept
  BY <1>1, AnsweredKeeps DEF CrawlInv, FetchErrors
<1>3. FetcherTypeOK' /\ KeepsDistance'
  BY <1>1 DEF CrawlInv, FetcherTypeOK, KeepsDistance, Requests
<1> QED
  BY <1>1, <1>2, <1>3 DEF CrawlInv, CourseKept

\* Waiting changes the limiter and the request's sleep alone.
LEMMA WaitKeeps ==
  ASSUME CrawlInv, Wait
  PROVE  CrawlInv'
<1>1. FetcherTypeOK' /\ KeepsDistance' /\ request # Idle
  BY TickTyped DEF CrawlInv, Wait
<1>2. site' = site /\ run' = run /\ given' = given /\ error' = error
  BY DEF Wait
<1> QED
  BY <1>1, <1>2 DEF CrawlInv

\* No step breaks the invariant.
LEMMA NextKeepsCrawlInv == CrawlInv /\ [Next]_vars => CrawlInv'
<1> SUFFICES ASSUME CrawlInv, [Next]_vars
             PROVE  CrawlInv'
  OBVIOUS
<1>1. CASE NextTarget
  BY <1>1, NextTargetKeeps
<1>2. CASE TurnPage
  BY <1>2, TurnPageKeeps
<1>3. CASE TakeItem
  BY <1>3, TakeItemKeeps
<1>4. CASE TurnedAway
  BY <1>4, TurnedAwayKeeps
<1>5. CASE Wait
  BY <1>5, WaitKeeps
<1>6. ASSUME NEW a \in Answers, Attempt(a)
      PROVE  CrawlInv'
  BY <1>6, AttemptKeeps
<1>7. ASSUME NEW s \in Sites, Begin(s)
      PROVE  CrawlInv'
  BY <1>7, BeginKeeps
<1>8. CASE UNCHANGED vars
  BY <1>8 DEF vars, CrawlInv, FetcherTypeOK, KeepsDistance
<1> QED
  BY <1>1, <1>2, <1>3, <1>4, <1>5, <1>6, <1>7, <1>8 DEF Next, Step

-----------------------------------------------------------------------------
(* The theorems                                                            *)

\* What the fetcher, the generator and the pipeline keep is of its kind, and the pipeline is
\* never handed more than MAX_ITEMS_PER_RUN items (parser.py).
THEOREM CrawlIsTyped == Spec => []CrawlTypeOK
<1>1. CrawlInv => CrawlTypeOK
  BY DEF CrawlInv, OnCourse, CrawlTypeOK
<1> QED
  BY <1>1, InitCrawlInv, NextKeepsCrawlInv, PTL DEF Spec

\* Whatever fails, and whatever the listings are, the pipeline has been given what they hold,
\* in order, up to the failure; a crawl without an error has given everything
\* (parse_source in parser.py; run() of the connectors).
THEOREM CrawlGivesInOrder == Spec => []GivenInOrder
<1>1. CrawlInv => GivenInOrder
  <2> SUFFICES ASSUME CrawlInv
               PROVE  GivenInOrder
    OBVIOUS
  <2>1. OnCourse(site, run, given, error)
    BY DEF CrawlInv
  <2>2. CASE run.at = "done"
    BY <2>1, <2>2 DEF OnCourse, GivenInOrder
  <2>3. CASE run.at # "done"
    BY <2>1, <2>3, GivenBegins DEF GivenInOrder
  <2> QED
    BY <2>2, <2>3
<1> QED
  BY <1>1, InitCrawlInv, NextKeepsCrawlInv, PTL DEF Spec

\* Two requests of a fetcher to its host are at least the shortest of its intervals apart,
\* retries and the pages of single items included (RateLimiter.acquire in fetcher.py).
THEOREM CrawlIsPolite == Spec => Polite
<1>1. ASSUME CrawlInv, NEW a \in Answers, Attempt(a)
      PROVE  limiter.since >= Min(Spacing)
  <2>1. limiter.wait = 0
    BY <1>1 DEF Attempt, Send, Ready, Acquired
  <2>2. limiter.since \in Nat /\ 0 + limiter.since >= Min(Spacing)
    BY <1>1, <2>1 DEF CrawlInv, FetcherTypeOK, Limiters, KeepsDistance
  <2> QED
    BY <2>2
<1>2. CrawlInv => [(\E a \in Answers : Attempt(a)) => limiter.since >= Min(Spacing)]_vars
  BY <1>1
<1> QED
  BY <1>2, InitCrawlInv, NextKeepsCrawlInv, PTL DEF Spec, Polite

-----------------------------------------------------------------------------
(* The end of a crawl                                                      *)

\* What differs first decides.
LEMMA LessAt ==
  ASSUME NEW a1, NEW a2, NEW a3, NEW a4, NEW a5, NEW a6,
         NEW b1, NEW b2, NEW b3, NEW b4, NEW b5, NEW b6,
         \/ a1 < b1
         \/ a1 = b1 /\ a2 < b2
         \/ a1 = b1 /\ a2 = b2 /\ a3 < b3
         \/ a1 = b1 /\ a2 = b2 /\ a3 = b3 /\ a4 < b4
         \/ a1 = b1 /\ a2 = b2 /\ a3 = b3 /\ a4 = b4 /\ a5 < b5
         \/ a1 = b1 /\ a2 = b2 /\ a3 = b3 /\ a4 = b4 /\ a5 = b5 /\ a6 < b6
  PROVE  Less(<<a1, a2, a3, a4, a5, a6>>, <<b1, b2, b3, b4, b5, b6>>)
<1> DEFINE a == <<a1, a2, a3, a4, a5, a6>>
           b == <<b1, b2, b3, b4, b5, b6>>
<1>1. /\ a[1] = a1 /\ a[2] = a2 /\ a[3] = a3 /\ a[4] = a4 /\ a[5] = a5 /\ a[6] = a6
      /\ b[1] = b1 /\ b[2] = b2 /\ b[3] = b3 /\ b[4] = b4 /\ b[5] = b5 /\ b[6] = b6
  OBVIOUS
<1> HIDE DEF a, b
<1>2. \E k \in 1 .. 6 : a[k] < b[k] /\ \A j \in 1 .. k - 1 : a[j] = b[j]
  <2>1. CASE a1 < b1
    <3> WITNESS 1 \in 1 .. 6
    <3> QED
      BY <1>1, <2>1
  <2>2. CASE a1 = b1 /\ a2 < b2
    <3> WITNESS 2 \in 1 .. 6
    <3> QED
      BY <1>1, <2>2
  <2>3. CASE a1 = b1 /\ a2 = b2 /\ a3 < b3
    <3> WITNESS 3 \in 1 .. 6
    <3> QED
      BY <1>1, <2>3
  <2>4. CASE a1 = b1 /\ a2 = b2 /\ a3 = b3 /\ a4 < b4
    <3> WITNESS 4 \in 1 .. 6
    <3> QED
      BY <1>1, <2>4
  <2>5. CASE a1 = b1 /\ a2 = b2 /\ a3 = b3 /\ a4 = b4 /\ a5 < b5
    <3> WITNESS 5 \in 1 .. 6
    <3> QED
      BY <1>1, <2>5
  <2>6. CASE a1 = b1 /\ a2 = b2 /\ a3 = b3 /\ a4 = b4 /\ a5 = b5 /\ a6 < b6
    <3> WITNESS 6 \in 1 .. 6
    <3> QED
      BY <1>1, <2>6
  <2> QED
    BY <2>1, <2>2, <2>3, <2>4, <2>5, <2>6
<1> QED
  BY <1>2 DEF Less, a, b

\* The members of a set of amounts whose k-th is least.
Least(T, k) == {a \in T : \A b \in T : a[k] \in Nat /\ b[k] \in Nat /\ a[k] <= b[k]}

\* There are some.
LEMMA LeastAmounts ==
  ASSUME NEW k \in 1 .. 6, NEW T, T \subseteq Amounts, T # {}
  PROVE  Least(T, k) # {} /\ Least(T, k) \subseteq Amounts /\ Least(T, k) \subseteq T
<1>1. \A a \in T : a[k] \in Nat
  BY DEF Amounts
<1>2. {a[k] : a \in T} \subseteq Nat /\ {a[k] : a \in T} # {}
  BY <1>1
<1>3. PICK m \in {a[k] : a \in T} : \A n \in {a[k] : a \in T} : m <= n
  BY <1>2, LeastOf
<1>4. PICK a \in T : a[k] = m
  BY <1>3
<1>5. a \in Least(T, k)
  BY <1>1, <1>3, <1>4 DEF Least
<1> QED
  BY <1>5 DEF Least

\* Amounts do not get less for ever: a crawl takes finitely many steps.
THEOREM LessIsWellFounded ==
  IsWellFoundedOn({ss \in Amounts \X Amounts : Less(ss[1], ss[2])}, Amounts)
<1> DEFINE R == {ss \in Amounts \X Amounts : Less(ss[1], ss[2])}
<1>1. ASSUME NEW T \in SUBSET Amounts, T # {}
      PROVE  \E x \in T : \A y \in T : ~(<<y, x>> \in R)
  <2> DEFINE T1 == Least(T, 1)
             T2 == Least(T1, 2)
             T3 == Least(T2, 3)
             T4 == Least(T3, 4)
             T5 == Least(T4, 5)
             T6 == Least(T5, 6)
  <2>1. T1 # {} /\ T1 \subseteq Amounts /\ T1 \subseteq T
    BY <1>1, LeastAmounts
  <2>2. T2 # {} /\ T2 \subseteq Amounts /\ T2 \subseteq T1
    <3> HIDE DEF T1
    <3> QED
      BY <2>1, LeastAmounts
  <2>3. T3 # {} /\ T3 \subseteq Amounts /\ T3 \subseteq T2
    <3> HIDE DEF T2
    <3> QED
      BY <2>2, LeastAmounts
  <2>4. T4 # {} /\ T4 \subseteq Amounts /\ T4 \subseteq T3
    <3> HIDE DEF T3
    <3> QED
      BY <2>3, LeastAmounts
  <2>5. T5 # {} /\ T5 \subseteq Amounts /\ T5 \subseteq T4
    <3> HIDE DEF T4
    <3> QED
      BY <2>4, LeastAmounts
  <2>6. T6 # {} /\ T6 \subseteq Amounts /\ T6 \subseteq T5
    <3> HIDE DEF T5
    <3> QED
      BY <2>5, LeastAmounts
  <2>7. PICK x \in T6 : TRUE
    BY <2>6
  <2>8. ASSUME NEW y \in T, NEW k \in 1 .. 6, y[k] < x[k], \A j \in 1 .. k - 1 : y[j] = x[j]
        PROVE  FALSE
    <3>1. k # 1
      <4> HIDE DEF T2, T3, T4, T5, T6
      <4> QED
        BY <2>2, <2>3, <2>4, <2>5, <2>6, <2>7, <2>8 DEF Least
    <3>2. y[1] = x[1] /\ y \in T1
      <4> HIDE DEF T2, T3, T4, T5, T6
      <4> QED
        BY <2>2, <2>3, <2>4, <2>5, <2>6, <2>7, <2>8, <3>1 DEF Least
    <3>3. k # 2
      <4> HIDE DEF T1, T3, T4, T5, T6
      <4> QED
        BY <2>3, <2>4, <2>5, <2>6, <2>7, <2>8, <3>2 DEF Least
    <3>4. y \in T2
      <4> HIDE DEF T1, T3, T4, T5, T6
      <4> QED
        BY <2>3, <2>4, <2>5, <2>6, <2>7, <2>8, <3>1, <3>2, <3>3 DEF Least
    <3>5. k # 3
      <4> HIDE DEF T1, T2, T4, T5, T6
      <4> QED
        BY <2>4, <2>5, <2>6, <2>7, <2>8, <3>4 DEF Least
    <3>6. y \in T3
      <4> HIDE DEF T1, T2, T4, T5, T6
      <4> QED
        BY <2>4, <2>5, <2>6, <2>7, <2>8, <3>1, <3>3, <3>4, <3>5 DEF Least
    <3>7. k # 4
      <4> HIDE DEF T1, T2, T3, T5, T6
      <4> QED
        BY <2>5, <2>6, <2>7, <2>8, <3>6 DEF Least
    <3>8. y \in T4
      <4> HIDE DEF T1, T2, T3, T5, T6
      <4> QED
        BY <2>5, <2>6, <2>7, <2>8, <3>1, <3>3, <3>5, <3>6, <3>7 DEF Least
    <3>9. k # 5
      <4> HIDE DEF T1, T2, T3, T4, T6
      <4> QED
        BY <2>6, <2>7, <2>8, <3>8 DEF Least
    <3>10. y \in T5 /\ k = 6
      <4> HIDE DEF T1, T2, T3, T4, T6
      <4> QED
        BY <2>6, <2>7, <2>8, <3>1, <3>3, <3>5, <3>7, <3>8, <3>9 DEF Least
    <3> HIDE DEF T1, T2, T3, T4, T5
    <3> QED
      BY <2>7, <2>8, <3>10 DEF Least
  <2>9. x \in T
    <3> HIDE DEF T1, T2, T3, T4, T5, T6
    <3> QED
      BY <2>1, <2>2, <2>3, <2>4, <2>5, <2>6, <2>7
  <2>10. \A y \in T : ~Less(y, x)
    <3> HIDE DEF T1, T2, T3, T4, T5, T6
    <3> QED
      BY <2>8 DEF Less
  <2> HIDE DEF T1, T2, T3, T4, T5, T6
  <2> QED
    BY <2>9, <2>10
<1> HIDE DEF R
<1>2. IsWellFoundedOn(R, Amounts)
  BY <1>1, MinWF
<1> QED
  BY <1>2 DEF R

\* What remains is an amount.
LEMMA RemainingTyped ==
  ASSUME CrawlInv
  PROVE  Remaining \in Amounts
<1>1. run \in Runs /\ RunPlaced(site, run) /\ site.maxPages \in Nat
  BY SiteParts DEF CrawlInv, OnCourse
<1>2. DriversLeft \in Nat
  BY DEF DriversLeft
<1>3. run.targets \in Seq(Pages) /\ run.batch \in Seq(Items) /\ run.pages \in Nat
  BY <1>1 DEF Runs
<1>4. Len(run.targets) \in Nat /\ Len(run.batch) \in Nat
  BY <1>3, LenProperties
<1>5. PagesLeft \in Nat
  <2>1. run.mode = "html" /\ run.at \in {"listing", "items", "detail"} => run.pages <= site.maxPages
    BY <1>1, <1>3 DEF RunPlaced
  <2> QED
    BY <1>1, <1>3, <2>1 DEF PagesLeft
<1>6. ItemsLeft \in Nat
  BY <1>4 DEF ItemsLeft
<1>7. AttemptsLeft \in Nat /\ request.sleep + limiter.wait \in Nat
  <2>1. request \in Requests /\ limiter \in Limiters /\ MaxRetries \in Nat
    BY FetcherAssumption DEF CrawlInv, FetcherTypeOK
  <2>2. request.sleep \in Nat /\ limiter.wait \in Nat
    BY <2>1 DEF Requests, Limiters, Idle
  <2>3. request # Idle => request.attempt \in Nat /\ request.attempt <= MaxRetries
    BY <2>1 DEF Requests
  <2> QED
    BY <2>1, <2>2, <2>3 DEF AttemptsLeft
<1> QED
  BY <1>2, <1>4, <1>5, <1>6, <1>7 DEF Remaining, Amounts

\* It gets less.
Nearer == Less(Remaining', Remaining)

\* A crawl ends, or another driver takes over.
LEMMA FewerDrivers ==
  ASSUME run \in Runs, run.at # "done",
         run'.at = "done" \/ (run.mode = "api" /\ run'.mode = "html")
  PROVE  Nearer
<1>1. DriversLeft' < DriversLeft
  BY DEF DriversLeft, Runs
<1> QED
  BY <1>1, LessAt DEF Nearer, Remaining

\* As long as the driver is at work, what it has left decides.
LEMMA SameDriver ==
  ASSUME run.at # "done", run'.at # "done", run'.mode = run.mode,
         \/ Len(run'.targets) < Len(run.targets)
         \/ Len(run'.targets) = Len(run.targets) /\ PagesLeft' < PagesLeft
         \/ Len(run'.targets) = Len(run.targets) /\ PagesLeft' = PagesLeft /\ ItemsLeft' < ItemsLeft
  PROVE  Nearer
<1>1. DriversLeft' = DriversLeft
  BY DEF DriversLeft
<1> QED
  BY <1>1, LessAt DEF Nearer, Remaining

\* The fall-back is the HTML listing.
LEMMA FallenBackMode == FallenBack.mode = "html"
<1>1. FallenBack = [at |-> "targets", mode |-> "html", targets |-> ListingTargets(site),
                    page |-> Nothing, pages |-> 0, batch |-> <<>>, produced |-> FALSE]
  BY FallBackRun DEF FallenBack
<1> QED
  BY <1>1

\* An exception.
LEMMA RaiseNearer ==
  ASSUME run \in Runs, run.at # "done", NEW e, Raise(e)
  PROVE  Nearer
<1>1. CASE FallsBack
  <2>1. run' = FallenBack /\ run.mode = "api"
    BY <1>1 DEF Raise, FallsBack
  <2>2. FallenBack.mode = "html"
    BY FallenBackMode
  <2> QED
    BY <2>1, <2>2, FewerDrivers
<1>2. CASE ~FallsBack
  <2>1. run' = Stop
    BY <1>2 DEF Raise
  <2>2. Stop.at = "done"
    BY StoppedRun DEF Stop
  <2> QED
    BY <2>1, <2>2, FewerDrivers
<1> QED
  BY <1>1, <1>2

\* The generator is exhausted.
LEMMA ExhaustedNearer ==
  ASSUME run \in Runs, run.at # "done", Exhausted
  PROVE  Nearer
<1>1. CASE run' = FallenBack /\ FallsBack
  <2>1. FallenBack.mode = "html" /\ run.mode = "api"
    BY <1>1, FallenBackMode DEF FallsBack
  <2> QED
    BY <1>1, <2>1, FewerDrivers
<1>2. CASE run' = Stop
  <2>1. Stop.at = "done"
    BY StoppedRun DEF Stop
  <2> QED
    BY <1>2, <2>1, FewerDrivers
<1> QED
  BY <1>1, <1>2 DEF Exhausted

\* An item is given, or is one too many.
LEMMA YieldNearer ==
  ASSUME run \in Runs, run.at \in {"items", "detail"}, run.batch # <<>>, site' = site,
         Yield(Head(run.batch), Tail(run.batch))
  PROVE  Nearer
<1>1. CASE Len(given) = MaxItems
  <2>1. run' = Stop
    BY <1>1 DEF Yield
  <2>2. Stop.at = "done"
    BY StoppedRun DEF Stop
  <2> QED
    BY <2>1, <2>2, FewerDrivers
<1>2. CASE Len(given) # MaxItems
  <2>1. PICK n \in Nat : Len(run.batch) = n + 1 /\ Len(Tail(run.batch)) = n
    <3>1. run.batch \in Seq(Items)
      BY DEF Runs
    <3>2. /\ Len(run.batch) \in Nat /\ Len(run.batch) # 0
          /\ Len(Tail(run.batch)) = Len(run.batch) - 1
      BY <3>1, LenProperties, EmptySeq, HeadTailProperties
    <3> WITNESS Len(run.batch) - 1 \in Nat
    <3> QED
      BY <3>2
  <2>2. run' = [run EXCEPT !.at = "items", !.batch = Tail(run.batch), !.produced = TRUE]
    BY <1>2 DEF Yield
  <2>3. /\ run'.at = "items" /\ run'.mode = run.mode /\ run'.targets = run.targets
        /\ run'.pages = run.pages /\ run'.batch = Tail(run.batch)
    BY <2>2 DEF Runs
  <2>4. PagesLeft' = PagesLeft
    BY <2>3 DEF PagesLeft
  <2>5. ItemsLeft' < ItemsLeft
    BY <2>1, <2>3 DEF ItemsLeft
  <2> QED
    BY <2>3, <2>4, <2>5, SameDriver
<1> QED
  BY <1>1, <1>2

\* A page is parsed.
LEMMA ParseNearer ==
  ASSUME OnCourse(site, run, given, error), run.at = "listing", Parse(run.page), site' = site
  PROVE  Nearer
<1>1. run \in Runs /\ site \in Sites /\ run.pages \in Nat /\ site.maxPages \in Nat
  BY SiteParts DEF OnCourse, Runs
<1>2. CASE Reads(site, run.mode, run.page) = "error"
  BY <1>1, <1>2, RaiseNearer DEF Parse
<1>3. CASE Reads(site, run.mode, run.page) # "error"
  <2>1. PICK batch : run' = [run EXCEPT !.at = "items", !.pages = run.pages + 1, !.batch = batch]
    BY <1>3 DEF Parse, PagesRead
  <2>2. /\ run'.at = "items" /\ run'.mode = run.mode /\ run'.targets = run.targets
        /\ run'.pages = run.pages + 1
    BY <1>1, <2>1 DEF Runs
  <2>3. PagesLeft' < PagesLeft
    BY <1>1, <2>2 DEF PagesLeft
  <2> QED
    BY <2>2, <2>3, SameDriver
<1> QED
  BY <1>2, <1>3

\* The end of a fetch.
LEMMA AnsweredNearer ==
  ASSUME OnCourse(site, run, given, error), run.at \in {"listing", "detail"},
         NEW outcome \in FetchErrors \cup {"page"}, Answered(outcome), site' = site
  PROVE  Nearer
<1>1. run \in Runs
  BY DEF OnCourse
<1>2. CASE run.at = "detail"
  <2>1. Yield(Head(run.batch), Tail(run.batch))
    BY <1>2 DEF Answered, Detail, FetchErrors
  <2>2. run.batch # <<>>
    BY <1>2 DEF OnCourse, RunPlaced
  <2> QED
    BY <1>1, <1>2, <2>1, <2>2, YieldNearer
<1>3. CASE run.at = "listing" /\ outcome = "page"
  <2>1. Parse(run.page)
    BY <1>3 DEF Answered
  <2> QED
    BY <1>3, <2>1, ParseNearer
<1>4. CASE run.at = "listing" /\ outcome # "page"
  <2>1. Raise(outcome)
    BY <1>4 DEF Answered, FetchErrors
  <2> QED
    BY <1>1, <1>4, <2>1, RaiseNearer
<1> QED
  BY <1>2, <1>3, <1>4

\* The next target.
LEMMA NextTargetNearer ==
  ASSUME CrawlInv, NextTarget
  PROVE  Nearer
<1>1. /\ run.at = "targets" /\ run \in Runs /\ run.targets \in Seq(Pages)
  BY DEF CrawlInv, NextTarget, OnCourse, Runs
<1>2. CASE Raise("parse")
  BY <1>1, <1>2, RaiseNearer
<1>3. CASE Exhausted
  BY <1>1, <1>3, ExhaustedNearer
<1>4. CASE ~Raise("parse") /\ ~Exhausted
  <2>1. PICK q : /\ q = [run EXCEPT !.targets = Tail(@), !.pages = 0]
                 /\ run' = q \/ run' = [q EXCEPT !.at = "listing", !.page = Head(run.targets)]
                 /\ run.targets # <<>>
    BY <1>4 DEF NextTarget
  <2>2. /\ q.at = "targets" /\ q.mode = run.mode /\ q.targets = Tail(run.targets)
        /\ DOMAIN q = DOMAIN run
    BY <1>1, <2>1 DEF Runs
  <2>3. run'.at # "done" /\ run'.mode = run.mode /\ run'.targets = Tail(run.targets)
    BY <1>1, <2>1, <2>2 DEF Runs
  <2>4. Len(Tail(run.targets)) < Len(run.targets)
    <3>1. Len(run.targets) \in Nat /\ Len(Tail(run.targets)) = Len(run.targets) - 1
      BY <1>1, <2>1, LenProperties, HeadTailProperties
    <3> QED
      BY <3>1
  <2> QED
    BY <1>1, <2>3, <2>4, SameDriver
<1> QED
  BY <1>2, <1>3, <1>4

\* The end of a page.
LEMMA TurnPageNearer ==
  ASSUME CrawlInv, TurnPage
  PROVE  Nearer
<1>1. /\ run.at = "items" /\ run.batch = <<>> /\ run \in Runs /\ site' = site
      /\ run.pages \in Nat /\ site.maxPages \in Nat
      /\ run.mode = "html" => run.pages <= site.maxPages
  BY SiteParts DEF CrawlInv, TurnPage, OnCourse, RunPlaced, Runs
<1>2. CASE run.mode = "html" /\ \E next : run' = [run EXCEPT !.at = "listing", !.page = next]
  <2>1. /\ run'.at = "listing" /\ run'.mode = run.mode /\ run'.targets = run.targets
        /\ run'.pages = run.pages
    BY <1>1, <1>2 DEF Runs
  <2>2. PagesLeft' = PagesLeft
    BY <1>1, <1>2, <2>1 DEF PagesLeft
  <2>3. ItemsLeft' < ItemsLeft
    <3>1. ItemsLeft = 2 * Len(run.batch) + 1 /\ Len(run.batch) = 0
      BY <1>1, EmptySeq DEF ItemsLeft
    <3>2. ItemsLeft' = 0
      BY <2>1 DEF ItemsLeft
    <3> QED
      BY <3>1, <3>2
  <2> QED
    BY <1>1, <2>1, <2>2, <2>3, SameDriver
<1>3. CASE run' = [run EXCEPT !.at = "targets", !.page = Nothing]
  <2>1. run'.at = "targets" /\ run'.mode = run.mode /\ run'.targets = run.targets
    BY <1>1, <1>3 DEF Runs
  <2>2. PagesLeft' < PagesLeft
    BY <1>1, <2>1 DEF PagesLeft
  <2> QED
    BY <1>1, <2>1, <2>2, SameDriver
<1> QED
  BY <1>2, <1>3 DEF TurnPage

\* An item.
LEMMA TakeItemNearer ==
  ASSUME CrawlInv, TakeItem
  PROVE  Nearer
<1>1. /\ run.at = "items" /\ run.batch # <<>> /\ run \in Runs /\ site' = site
      /\ run.batch \in Seq(Items)
  BY DEF CrawlInv, TakeItem, OnCourse, Runs
<1>2. PICK n \in Nat : Len(run.batch) = n + 1 /\ Len(Tail(run.batch)) = n
  <2>1. /\ Len(run.batch) \in Nat /\ Len(run.batch) # 0
        /\ Len(Tail(run.batch)) = Len(run.batch) - 1
    BY <1>1, LenProperties, EmptySeq, HeadTailProperties
  <2> WITNESS Len(run.batch) - 1 \in Nat
  <2> QED
    BY <2>1
<1>3. CASE Yield(Head(run.batch), Tail(run.batch))
  BY <1>1, <1>3, YieldNearer
<1>4. CASE run' = [run EXCEPT !.batch = Tail(@)]
  <2>1. /\ run'.at = "items" /\ run'.mode = run.mode /\ run'.targets = run.targets
        /\ run'.pages = run.pages /\ run'.batch = Tail(run.batch)
    BY <1>1, <1>4 DEF Runs
  <2>2. PagesLeft' = PagesLeft
    BY <1>1, <2>1 DEF PagesLeft
  <2>3. ItemsLeft' < ItemsLeft
    BY <1>1, <1>2, <2>1 DEF ItemsLeft
  <2> QED
    BY <1>1, <2>1, <2>2, <2>3, SameDriver
<1>5. CASE run' = [run EXCEPT !.at = "detail"]
  <2>1. /\ run'.at = "detail" /\ run'.mode = run.mode /\ run'.targets = run.targets
        /\ run'.pages = run.pages /\ run'.batch = run.batch
    BY <1>1, <1>5 DEF Runs
  <2>2. PagesLeft' = PagesLeft
    BY <1>1, <2>1 DEF PagesLeft
  <2>3. ItemsLeft' < ItemsLeft
    BY <1>1, <1>2, <2>1 DEF ItemsLeft
  <2> QED
    BY <1>1, <2>1, <2>2, <2>3, SameDriver
<1> QED
  BY <1>3, <1>4, <1>5 DEF TakeItem

\* While only the fetcher works, its attempts and waits decide.
LEMMA SameCrawl ==
  ASSUME site' = site, run' = run,
         \/ AttemptsLeft' < AttemptsLeft
         \/ /\ AttemptsLeft' = AttemptsLeft
            /\ request'.sleep + limiter'.wait < request.sleep + limiter.wait
  PROVE  Nearer
<1>1. DriversLeft' = DriversLeft /\ PagesLeft' = PagesLeft /\ ItemsLeft' = ItemsLeft
  BY DEF DriversLeft, PagesLeft, ItemsLeft
<1> QED
  BY <1>1, LessAt DEF Nearer, Remaining

\* A failed attempt is one less.
LEMMA AttemptNearer ==
  ASSUME CrawlInv, NEW answer \in Answers, Attempt(answer)
  PROVE  Nearer
<1>1. PICK outcome \in {"again", answer} : Send(answer, outcome) /\ Answered(outcome)
  BY DEF Attempt
<1>2. /\ site' = site /\ OnCourse(site, run, given, error)
      /\ request # Idle /\ run.at \in {"listing", "detail"}
  BY <1>1 DEF Attempt, CrawlInv, Send, Ready
<1>3. CASE outcome = "again"
  <2>1. run' = run
    BY <1>1, <1>3 DEF Answered
  <2>2. PICK s : request' = [request EXCEPT !.attempt = @ + 1, !.sleep = s]
    BY <1>1, <1>3 DEF Send
  <2>3. request \in [page : Pages, attempt : 0 .. MaxRetries, sleep : 0 .. BackoffCap]
    BY <1>2 DEF CrawlInv, FetcherTypeOK, Requests
  <2>4. request'.attempt = request.attempt + 1 /\ request'.page = request.page
        /\ request.page \in Pages /\ request.attempt \in Nat
    BY <2>2, <2>3
  <2>5. request' # Idle
    BY <2>4, FetcherAssumption DEF Idle
  <2>6. AttemptsLeft' < AttemptsLeft
    BY <1>2, <2>4, <2>5, FetcherAssumption DEF AttemptsLeft
  <2> QED
    BY <1>2, <2>1, <2>6, SameCrawl
<1>4. CASE outcome # "again"
  <2>1. outcome \in FetchErrors \cup {"page"}
    BY <1>1, <1>4 DEF Answers, FetchErrors
  <2> QED
    BY <1>1, <1>2, <2>1, AnsweredNearer
<1> QED
  BY <1>3, <1>4

\* A tick is one less of a sleep or of the limiter's wait.
LEMMA WaitNearer ==
  ASSUME CrawlInv, Wait
  PROVE  Nearer
<1>1. /\ site' = site /\ run' = run /\ request # Idle
      /\ request' = [request EXCEPT !.sleep = Down(@)]
      /\ limiter'.wait = Down(limiter.wait)
      /\ ~(request.sleep = 0 /\ limiter.wait = 0)
  BY DEF Wait, Tick, Acquired
<1>2. /\ request \in [page : Pages, attempt : 0 .. MaxRetries, sleep : 0 .. BackoffCap]
      /\ limiter.wait \in Nat
  BY <1>1 DEF CrawlInv, FetcherTypeOK, Requests, Limiters
<1>3. /\ request'.attempt = request.attempt /\ request'.page = request.page
      /\ request'.sleep = Down(request.sleep)
      /\ request.page \in Pages /\ request.sleep \in Nat
  BY <1>1, <1>2
<1>4. request' # Idle
  BY <1>3, FetcherAssumption DEF Idle
<1>5. AttemptsLeft' = AttemptsLeft
  BY <1>1, <1>3, <1>4 DEF AttemptsLeft
<1>6. request'.sleep + limiter'.wait < request.sleep + limiter.wait
  BY <1>1, <1>2, <1>3 DEF Down
<1> QED
  BY <1>1, <1>5, <1>6, SameCrawl

\* Whatever a crawl meets, each of its steps leaves less to do (with LessIsWellFounded, no
\* crawl goes on for ever): next-page links in a circle are cut by max_pages, retries by
\* max_retries, and a source falls back once (html.py: run; fetcher.py: fetch;
\* wordpress.py: run).
THEOREM CrawlRunsOut == Spec => RunsOut
<1>1. CrawlInv => Remaining \in Amounts
  BY RemainingTyped
<1>2. ASSUME CrawlInv, Step
      PROVE  Nearer
  <2>1. CASE NextTarget
    BY <1>2, <2>1, NextTargetNearer
  <2>2. CASE TurnPage
    BY <1>2, <2>2, TurnPageNearer
  <2>3. CASE TakeItem
    BY <1>2, <2>3, TakeItemNearer
  <2>4. CASE TurnedAway
    <3>1. /\ OnCourse(site, run, given, error) /\ run.at \in {"listing", "detail"}
          /\ Answered("disallowed") /\ site' = site
      BY <1>2, <2>4 DEF CrawlInv, TurnedAway, Refuse, Disallowed
    <3> QED
      BY <3>1, AnsweredNearer DEF FetchErrors
  <2>5. CASE Wait
    BY <1>2, <2>5, WaitNearer
  <2>6. ASSUME NEW a \in Answers, Attempt(a)
        PROVE  Nearer
    BY <1>2, <2>6, AttemptNearer
  <2> QED
    BY <1>2, <2>1, <2>2, <2>3, <2>4, <2>5, <2>6 DEF Step
<1>3. CrawlInv /\ [Next]_vars => CrawlInv'
  BY NextKeepsCrawlInv
<1>4. CrawlInv /\ (Remaining \in Amounts)' /\ [Next]_vars =>
        [Step => Remaining' \in Amounts /\ Less(Remaining', Remaining)]_vars
  BY <1>2 DEF Nearer
<1> QED
  BY <1>1, <1>3, <1>4, InitCrawlInv, PTL DEF Spec, RunsOut

=============================================================================

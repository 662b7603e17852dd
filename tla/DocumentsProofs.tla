--------------------------- MODULE DocumentsProofs ---------------------------
(***************************************************************************)
(* Theorems about Documents, for every number of documents, overlapping    *)
(* batches, files and sites.                                               *)
(*                                                                         *)
(* RecordsAgree says nothing of what batches hold back until they commit,  *)
(* nor of the copies they loaded.  DocumentsInv adds, per batch, what it   *)
(* has Done to the documents behind it and what is known of the one AtHand:*)
(* copies are of pending rows; a row it has flushed is locked, and will    *)
(* agree with the versions there are when it commits; a version number was *)
(* counted when the ones below it existed.                                 *)
(***************************************************************************)
EXTENDS Documents, TLAPS, WellFoundedInduction

-----------------------------------------------------------------------------
(* Types                                                                   *)

Table(S) == UNION {[D -> S] : D \in SUBSET Docs}

DocSets  == SUBSET Docs
DocOrNone == Docs \cup {None}
FileOrNone == Contents \cup {None}
TextOrNone == TextRow \cup {None}
Times    == 0 .. JobTimeout
Insertions == SUBSET (Docs \X DocVersion)

BatchState ==
  [phase : Phases, todo : DocSets, doc : DocOrNone, copy : Table(DocRow),
   got : FileOrNone, waited : Nat, spent : Times, new : BOOLEAN,
   number : Nat, words : TextOrNone, present : BOOLEAN, dirty : Table(DocRow),
   mine : Table(DocRow), added : Insertions, texts : Table(TextRow)]

\* What the fields of a batch are.
LEMMA BatchFields ==
  ASSUME NEW r \in BatchState
  PROVE  /\ r.todo \subseteq Docs /\ r.doc \in Docs \cup {None} /\ r.got \in Contents \cup {None}
         /\ r.waited \in Nat /\ r.spent \in 0 .. JobTimeout /\ r.new \in BOOLEAN /\ r.number \in Nat
         /\ r.words \in TextRow \cup {None}
         /\ r.copy \in Table(DocRow) /\ r.dirty \in Table(DocRow) /\ r.mine \in Table(DocRow)
         /\ r.texts \in Table(TextRow) /\ r.added \subseteq Docs \X DocVersion
BY DEF BatchState, DocSets, DocOrNone, FileOrNone, TextOrNone, Times, Insertions

Typed ==
  /\ backend \in Backends /\ faults \in 0 .. MaxFaults
  /\ row \in [Docs -> DocRow] /\ versions \in [Docs -> SUBSET DocVersion]
  /\ text \in [Docs -> TextRow \cup {None}] /\ blob \in [Keys -> Object]
  /\ batch \in [Batches -> BatchState]

-----------------------------------------------------------------------------
(* Tables                                                                  *)

LEMMA TableFacts ==
  ASSUME NEW S, NEW f
  PROVE  f \in Table(S) <=> /\ DOMAIN f \subseteq Docs /\ f = [x \in DOMAIN f |-> f[x]]
                            /\ \A x \in DOMAIN f : f[x] \in S
<1>1. ASSUME f \in Table(S)
      PROVE  DOMAIN f \subseteq Docs /\ f = [x \in DOMAIN f |-> f[x]] /\ \A x \in DOMAIN f : f[x] \in S
  <2>1. PICK D \in SUBSET Docs : f \in [D -> S]
    BY <1>1 DEF Table
  <2> QED
    BY <2>1
<1>2. ASSUME DOMAIN f \subseteq Docs, f = [x \in DOMAIN f |-> f[x]], \A x \in DOMAIN f : f[x] \in S
      PROVE  f \in Table(S)
  <2>1. f \in [DOMAIN f -> S]
    BY <1>2
  <2> QED
    BY <1>2, <2>1 DEF Table
<1> QED
  BY <1>1, <1>2

LEMMA EmptyTable == ASSUME NEW S PROVE <<>> \in Table(S) /\ DOMAIN <<>> = {}
<1>1. DOMAIN <<>> = {}
  OBVIOUS
<1>2. <<>> = [x \in {} |-> x]
  OBVIOUS
<1>3. <<>> \in [{} -> S]
  BY <1>2
<1> QED
  BY <1>1, <1>3 DEF Table

LEMMA PutTable ==
  ASSUME NEW S, NEW f \in Table(S), NEW x \in Docs, NEW v \in S
  PROVE  /\ Put(f, x, v) \in Table(S) /\ DOMAIN Put(f, x, v) = DOMAIN f \cup {x}
         /\ \A y \in DOMAIN Put(f, x, v) : Put(f, x, v)[y] = IF y = x THEN v ELSE f[y]
<1>1. DOMAIN f \subseteq Docs /\ \A y \in DOMAIN f : f[y] \in S
  BY TableFacts
<1>2. Put(f, x, v) \in [DOMAIN f \cup {x} -> S]
  BY <1>1 DEF Put
<1> QED
  BY <1>1, <1>2 DEF Put, Table

LEMMA DropTable ==
  ASSUME NEW S, NEW f \in Table(S), NEW x
  PROVE  /\ Drop(f, x) \in Table(S) /\ DOMAIN Drop(f, x) = DOMAIN f \ {x}
         /\ \A y \in DOMAIN Drop(f, x) : Drop(f, x)[y] = f[y]
<1>1. DOMAIN f \subseteq Docs /\ \A y \in DOMAIN f : f[y] \in S
  BY TableFacts
<1>2. Drop(f, x) \in [DOMAIN f \ {x} -> S]
  BY <1>1 DEF Drop
<1> QED
  BY <1>1, <1>2 DEF Drop, Table

LEMMA LeastFound ==
  ASSUME NEW S, S \subseteq Docs, S # {}
  PROVE  Least(S) \in S
<1> DEFINE R == {ss \in Nat \X Nat : ss[1] < ss[2]}
<1>1. IsWellFoundedOn(R, Nat) /\ S \subseteq Nat
  BY NatLessThanWellFounded, DocumentAssumption DEF OpToRel
<1>2. PICK x \in S : \A y \in S : ~(<<y, x>> \in R)
  BY <1>1, WFMin
<1>3. ASSUME NEW y \in S PROVE x <= y
  <2>1. x \in Nat /\ y \in Nat /\ ~(<<y, x>> \in R)
    BY <1>1, <1>2
  <2>2. ~(y < x)
    BY <2>1
  <2> QED
    BY <2>1, <2>2
<1> QED
  BY <1>3 DEF Least

\* What a flushed UPDATE leaves in each column.
LEMMA WrittenRow ==
  ASSUME NEW old \in DocRow, NEW new \in DocRow, NEW now \in DocRow
  PROVE  LET after == Written(old, new, now) IN
         /\ after \in DocRow
         /\ after.downloaded = IF new.downloaded # old.downloaded THEN new.downloaded ELSE now.downloaded
         /\ after.error = IF new.error # old.error THEN new.error ELSE now.error
         /\ after.sha = IF new.sha # old.sha THEN new.sha ELSE now.sha
         /\ after.version = IF new.version # old.version THEN new.version ELSE now.version
BY DEF Written, DocRow

-----------------------------------------------------------------------------
(* The invariant                                                           *)

Numbers(d) == {v.number : v \in versions[d]}

\* A row and the versions of its document.
Consistent(m, vs) ==
  /\ m.downloaded <=> vs # {}
  /\ m.downloaded => (\E v \in vs : v.sha = m.sha) /\ (\E v \in vs : v.number = m.version)
  /\ ~m.downloaded => m.sha = None /\ m.version = 1
  /\ \E n \in Nat : {v.number : v \in vs} = 1 .. n
  /\ \A v, w \in vs : v.sha = w.sha => v = w

Present(d, c) == c \in Contents /\ blob[Key(d, c)].data # "absent"

RowsOK == \A d \in Docs :
  /\ Consistent(row[d], versions[d])
  /\ text[d] # None => Known(d, text[d].of) /\ (backend = "s3" => text[d].whole)
  /\ row[d].downloaded => Present(d, row[d].sha)

NoneCut == backend = "s3" => \A k \in Keys : blob[k].data # "cut"

\* The versions of d a batch has inserted.
Adding(r, d) == {a[2] : a \in {x \in r.added : x[1] = d}}

\* A row that was flushed as m, over the committed row.
Settles(m, d) ==
  /\ m.downloaded \/ m.error # None
  /\ row[d].downloaded => m.downloaded
  /\ row[d].error # None => m.error # None

\* The documents a batch loaded: pending ones, each still to do, waiting to be flushed,
\* flushed, or at hand.
Behind(r) ==
  /\ r.todo \subseteq DOMAIN r.copy
  /\ DOMAIN r.dirty \subseteq DOMAIN r.copy /\ DOMAIN r.mine \subseteq DOMAIN r.copy
  /\ \A d \in DOMAIN r.dirty : d \notin r.todo /\ d \notin DOMAIN r.mine
  /\ \A d \in DOMAIN r.mine : d \notin r.todo
  /\ \A d \in DOMAIN r.copy : /\ ~r.copy[d].downloaded /\ r.copy[d].error = None
                              /\ r.copy[d].sha = None /\ r.copy[d].version = 1

\* Those it has not flushed yet have failed.
Failures(r, at) == \A d \in DOMAIN r.dirty \ {at} :
  /\ ~r.dirty[d].downloaded /\ r.dirty[d].error # None
  /\ r.dirty[d].sha = None /\ r.dirty[d].version = 1

\* Those it has flushed are right as soon as it commits.
Writes(r, at) ==
  /\ \A d \in DOMAIN r.mine : Settles(r.mine[d], d)
  /\ \A d \in DOMAIN r.mine \ {at} :
       /\ Consistent(r.mine[d], versions[d] \cup Adding(r, d))
       /\ r.mine[d].downloaded => Present(d, r.mine[d].sha)

Inserts(r) ==
  /\ \A a \in r.added : a[1] \in DOMAIN r.mine
  /\ \A d \in DOMAIN r.texts : /\ \E v \in Adding(r, d) : v.sha = r.texts[d].of
                               /\ backend = "s3" => r.texts[d].whole

\* What a batch has done, to all documents it loaded but "at".
Done(r, at) == Behind(r) /\ Failures(r, at) /\ Writes(r, at) /\ Inserts(r)

\* Where the document at hand is, by phase.
Stored(r) == r.phase = "resolve" \/ r.phase = "extract" \/ (r.phase = "flush" /\ r.doc # None)
Fetching(r) == r.phase \in {"fetch", "store", "open", "upload", "resolve"}

Place(r) ==
  /\ r.doc # None => /\ r.doc \in DOMAIN r.copy /\ r.doc \notin r.todo
                     /\ \A a \in r.added : a[1] # r.doc
  /\ Fetching(r) => r.doc # None /\ r.doc \notin DOMAIN r.dirty /\ r.doc \notin DOMAIN r.mine
  /\ r.phase = "extract" => r.doc \in DOMAIN r.dirty
  /\ r.phase = "flush" /\ r.doc # None => r.doc \in DOMAIN r.dirty \/ r.doc \in DOMAIN r.mine

Bytes(r) ==
  /\ r.phase \in {"store", "open", "upload"} => r.got \in Contents
  /\ r.phase = "upload" => r.spent < JobTimeout /\ (backend = "local" => Present(r.doc, r.got))
  /\ Stored(r) => Present(r.doc, r.got)

\* The version that was found or is to be made, and what is written of it.
Verdict(r) ==
  /\ Stored(r) /\ r.phase # "resolve" =>
       IF r.new THEN r.number # 0 /\ \A i \in 1 .. r.number - 1 : i \in Numbers(r.doc)
                ELSE Known(r.doc, r.got)
  /\ r.doc \in DOMAIN r.dirty =>
       /\ r.dirty[r.doc].downloaded /\ r.dirty[r.doc].sha = r.got
       /\ r.dirty[r.doc].version = IF r.new THEN r.number ELSE 1
  /\ r.doc \in DOMAIN r.mine =>
       /\ r.mine[r.doc].downloaded /\ r.mine[r.doc].sha = r.got
       /\ r.mine[r.doc].version \in Numbers(r.doc) \/ (r.new /\ r.mine[r.doc].version = r.number)
  /\ r.phase = "flush" /\ r.words # None =>
       r.new /\ r.words.of = r.got /\ (backend = "s3" => r.words.whole)

AtHand(r) == Place(r) /\ Bytes(r) /\ Verdict(r)

BatchOK(r) == Done(r, r.doc) /\ AtHand(r)

LocksApart ==
  \A b, x \in Batches : b # x => DOMAIN batch[b].mine \cap DOMAIN batch[x].mine = {}

DocumentsInv ==
  Typed /\ RowsOK /\ NoneCut /\ LocksApart /\ \A b \in Batches : BatchOK(batch[b])

-----------------------------------------------------------------------------
(* The loop                                                                *)

LEMMA OnwardFacts ==
  ASSUME NEW r \in BatchState
  PROVE  LET o == Onward(r) IN
         /\ o \in BatchState
         /\ o.copy = r.copy /\ o.dirty = r.dirty /\ o.mine = r.mine
         /\ o.added = r.added /\ o.texts = r.texts /\ o.spent = r.spent
         /\ o.words = None
         /\ \/ r.todo = {} /\ o.todo = {} /\ o.doc = None /\ o.phase = "flush"
            \/ o.doc \in r.todo /\ o.todo = r.todo \ {o.doc} /\ o.phase = "fetch"
<1> DEFINE done == [r EXCEPT !.got = None, !.waited = 0, !.new = FALSE, !.number = 0,
                             !.words = None, !.present = FALSE]
<1>1. /\ done \in BatchState
      /\ done.copy = r.copy /\ done.dirty = r.dirty /\ done.mine = r.mine
      /\ done.added = r.added /\ done.texts = r.texts /\ done.spent = r.spent
      /\ done.words = None /\ done.todo = r.todo
  <2>1. None \in FileOrNone /\ None \in TextOrNone /\ FALSE \in BOOLEAN /\ 0 \in Nat
    BY DEF FileOrNone, TextOrNone
  <2> QED
    BY <2>1 DEF BatchState
<1>2. Onward(r) = IF r.todo = {} THEN [done EXCEPT !.doc = None, !.phase = "flush"]
                  ELSE [done EXCEPT !.doc = Least(r.todo), !.todo = @ \ {Least(r.todo)}, !.phase = "fetch"]
  BY DEF Onward
<1>3. "flush" \in Phases /\ "fetch" \in Phases
  BY DEF Phases
<1>4. r.todo \subseteq Docs
  BY BatchFields
<1> HIDE DEF done
<1>5. CASE r.todo = {}
  <2>1. Onward(r) = [done EXCEPT !.doc = None, !.phase = "flush"]
    BY <1>2, <1>5
  <2>2. None \in DocOrNone
    BY DEF DocOrNone
  <2> QED
    BY <1>1, <1>3, <1>5, <2>1, <2>2 DEF BatchState
<1>6. CASE r.todo # {}
  <2>1. PICK d : d = Least(r.todo) /\ d \in r.todo
    BY <1>4, <1>6, LeastFound
  <2>2. Onward(r) = [done EXCEPT !.doc = d, !.todo = r.todo \ {d}, !.phase = "fetch"]
    BY <1>1, <1>2, <1>6, <2>1
  <2>3. PICK T : T = r.todo \ {d} /\ T \in DocSets
    BY <1>4 DEF DocSets
  <2>4. PICK o : o = [done EXCEPT !.doc = d, !.todo = T, !.phase = "fetch"]
    OBVIOUS
  <2>5. d \in DocOrNone
    BY <1>4, <2>1 DEF DocOrNone
  <2>6. o \in BatchState
    BY <1>1, <1>3, <2>3, <2>4, <2>5 DEF BatchState
  <2>7. /\ o.copy = done.copy /\ o.dirty = done.dirty /\ o.mine = done.mine
        /\ o.added = done.added /\ o.texts = done.texts /\ o.spent = done.spent
        /\ o.words = done.words /\ o.doc = d /\ o.todo = T /\ o.phase = "fetch"
    BY <1>1, <2>4 DEF BatchState
  <2>8. Onward(r) = o
    BY <2>2, <2>3, <2>4
  <2> HIDE DEF done
  <2> QED
    BY <1>1, <2>1, <2>3, <2>6, <2>7, <2>8
<1> QED
  BY <1>5, <1>6

LEMMA OnwardOK ==
  ASSUME NEW r \in BatchState, Done(r, None)
  PROVE  Onward(r) \in BatchState /\ BatchOK(Onward(r)) /\ Onward(r).mine = r.mine
<1>1. PICK o : o = Onward(r)
  OBVIOUS
<1>2. /\ o \in BatchState
      /\ o.copy = r.copy /\ o.dirty = r.dirty /\ o.mine = r.mine
      /\ o.added = r.added /\ o.texts = r.texts
      /\ o.words = None
      /\ \/ r.todo = {} /\ o.todo = {} /\ o.doc = None /\ o.phase = "flush"
         \/ o.doc \in r.todo /\ o.todo = r.todo \ {o.doc} /\ o.phase = "fetch"
  BY <1>1, OnwardFacts
<1>3. /\ r.todo \subseteq Docs /\ DOMAIN r.dirty \subseteq Docs /\ DOMAIN r.mine \subseteq Docs
  <2>1. r.todo \subseteq Docs /\ r.dirty \in Table(DocRow) /\ r.mine \in Table(DocRow)
    BY BatchFields
  <2> QED
    BY <2>1, TableFacts
<1>4. None \notin Docs
  BY DocumentAssumption
<1>5. \A d : Adding(o, d) = Adding(r, d)
  BY <1>2 DEF Adding
<1>6. /\ \A d \in DOMAIN r.dirty \ {o.doc} : d \in DOMAIN r.dirty \ {None}
      /\ \A d \in DOMAIN r.mine \ {o.doc} : d \in DOMAIN r.mine \ {None}
  BY <1>3, <1>4
<1>7. Behind(o)
  BY <1>2 DEF Behind, Done
<1>8. Failures(o, o.doc)
  BY <1>2, <1>6 DEF Failures, Done
<1>9. Writes(o, o.doc)
  BY <1>2, <1>5, <1>6 DEF Writes, Done
<1>10. Inserts(o)
  BY <1>2, <1>5 DEF Inserts, Done
<1>11. o.doc # None => o.doc \in r.todo /\ o.doc \notin DOMAIN r.dirty /\ o.doc \notin DOMAIN r.mine
  BY <1>2 DEF Done, Behind
<1>12. o.doc \notin DOMAIN o.dirty /\ o.doc \notin DOMAIN o.mine
  BY <1>2, <1>3, <1>4, <1>11
<1>13. \A a \in o.added : a[1] # o.doc
  BY <1>2, <1>12 DEF Done, Inserts
<1>14. (o.phase = "flush" /\ o.doc = None) \/ (o.phase = "fetch" /\ o.doc \in r.todo /\ o.doc # None)
  BY <1>2, <1>3, <1>4
<1>15. Place(o)
  BY <1>2, <1>11, <1>12, <1>13, <1>14 DEF Place, Fetching, Done, Behind
<1>16. Bytes(o) /\ Verdict(o)
  BY <1>2, <1>12, <1>14 DEF Bytes, Verdict, Stored
<1> QED
  BY <1>1, <1>2, <1>7, <1>8, <1>9, <1>10, <1>15, <1>16 DEF BatchOK, Done, AtHand

\* What the rest of the program does to what a batch knows.
Grows(r) ==
  /\ backend' = backend
  /\ \A k \in Keys : blob[k].data # "absent" => blob'[k].data # "absent"
  /\ \A d \in Docs : versions[d] \subseteq versions'[d]
  /\ \A d \in DOMAIN r.mine : row'[d] = row[d] /\ versions'[d] = versions[d]

LEMMA DoneStays ==
  ASSUME NEW r \in BatchState, NEW at, Done(r, at), Grows(r)
  PROVE  Done(r, at)'
<1>1. DOMAIN r.mine \subseteq Docs /\ \A d \in DOMAIN r.mine : r.mine[d] \in DocRow
  BY BatchFields, TableFacts
<1>2. \A d \in Docs, c \in Contents : Present(d, c) => Present(d, c)'
  BY DEF Grows, Present, Keys
<1>3. \A d : Adding(r, d)' = Adding(r, d)
  BY DEF Adding
<1>4. \A d \in DOMAIN r.mine : versions'[d] = versions[d] /\ row'[d] = row[d]
  BY DEF Grows
<1>5. Behind(r)' /\ Failures(r, at)' /\ Inserts(r)'
  BY <1>3 DEF Done, Behind, Failures, Inserts, Grows
<1>6. \A d \in DOMAIN r.mine : Settles(r.mine[d], d)'
  BY <1>4 DEF Done, Writes, Settles
<1>7. ASSUME NEW d \in DOMAIN r.mine \ {at}
      PROVE  Consistent(r.mine[d], versions[d] \cup Adding(r, d))'
  <2>1. Consistent(r.mine[d], versions[d] \cup Adding(r, d))
    BY DEF Done, Writes
  <2> QED
    BY <1>3, <1>4, <2>1 DEF Consistent
<1>8. Writes(r, at)'
  BY <1>1, <1>2, <1>6, <1>7 DEF Done, Writes, Present
<1> QED
  BY <1>5, <1>8 DEF Done

LEMMA StaysOK ==
  ASSUME NEW r \in BatchState, BatchOK(r), Grows(r)
  PROVE  BatchOK(r)'
<1>1. r.doc \in Docs \cup {None} /\ DOMAIN r.dirty \subseteq Docs /\ DOMAIN r.mine \subseteq Docs
  BY BatchFields, TableFacts
<1>2. \A d \in Docs : Numbers(d) \subseteq Numbers(d)' /\ \A c : Known(d, c) => Known(d, c)'
  BY DEF Grows, Numbers, Known
<1>3. \A d \in Docs, c \in Contents : Present(d, c) => Present(d, c)'
  BY DEF Grows, Present, Keys
<1>4. Done(r, r.doc)'
  BY DoneStays DEF BatchOK
<1>5. Place(r)'
  BY DEF BatchOK, AtHand, Place, Fetching
<1>6. r.doc \in DOMAIN r.mine \/ r.doc \in DOMAIN r.dirty \/ Fetching(r) \/ Stored(r) => r.doc \in Docs
  BY <1>1 DEF BatchOK, AtHand, Place, Stored, Fetching
<1>7. Bytes(r)'
  <2>1. \A c : Present(r.doc, c) => c \in Contents
    BY DEF Present
  <2> QED
    BY <1>3, <1>6, <2>1 DEF BatchOK, AtHand, Bytes, Stored, Fetching, Grows
<1>8. Verdict(r)'
  BY <1>2, <1>6 DEF BatchOK, AtHand, Verdict, Stored, Grows
<1> QED
  BY <1>4, <1>5, <1>7, <1>8 DEF BatchOK, AtHand

-----------------------------------------------------------------------------
(* Steps that show nowhere but in the batch                                *)

LEMMA InvFacts ==
  ASSUME DocumentsInv, NEW b \in Batches
  PROVE  batch[b] \in BatchState /\ BatchOK(batch[b])
BY DEF DocumentsInv, Typed

LEMMA PrivateStep ==
  ASSUME DocumentsInv, NEW b \in Batches, NEW r \in BatchState, BatchOK(r),
         \A x \in Batches \ {b} : \A d \in DOMAIN r.mine : d \notin DOMAIN batch[x].mine,
         Becomes(b, r), faults' \in 0 .. MaxFaults,
         UNCHANGED <<backend, row, versions, text, blob>>
  PROVE  DocumentsInv'
<1>1. /\ batch' \in [Batches -> BatchState] /\ batch'[b] = r
      /\ \A x \in Batches \ {b} : batch'[x] = batch[x]
  BY DEF Becomes, DocumentsInv, Typed
<1>2. Typed'
  BY <1>1 DEF DocumentsInv, Typed
<1>3. RowsOK' /\ NoneCut'
  BY DEF DocumentsInv, RowsOK, NoneCut, Consistent, Known, Present
<1>4. LocksApart'
  BY <1>1 DEF DocumentsInv, LocksApart
<1>5. ASSUME NEW x \in Batches
      PROVE  BatchOK(batch[x])'
  <2>1. PICK y : y = batch'[x]
    OBVIOUS
  <2>2. y \in BatchState /\ BatchOK(y)
    BY <1>1, <2>1, InvFacts
  <2>3. Grows(y)
    BY DEF Grows
  <2>4. BatchOK(y)'
    BY <2>2, <2>3, StaysOK
  <2> QED
    BY <2>1, <2>4
<1> QED
  BY <1>2, <1>3, <1>4, <1>5 DEF DocumentsInv

\* A batch that has flushed nothing more, in a private step.
LEMMA PrivateWork ==
  ASSUME DocumentsInv, NEW b \in Batches, NEW r \in BatchState, BatchOK(r),
         DOMAIN r.mine \subseteq DOMAIN batch[b].mine,
         Becomes(b, r), faults' \in 0 .. MaxFaults,
         UNCHANGED <<backend, row, versions, text, blob>>
  PROVE  DocumentsInv'
<1>1. \A x \in Batches \ {b} : \A d \in DOMAIN r.mine : d \notin DOMAIN batch[x].mine
  BY DEF DocumentsInv, LocksApart
<1> QED
  BY <1>1, PrivateStep

LEMMA IdleOK == Idle \in BatchState /\ BatchOK(Idle) /\ DOMAIN Idle.mine = {}
<1>1. /\ "idle" \in Phases /\ {} \in DocSets /\ None \in DocOrNone /\ None \in FileOrNone
      /\ None \in TextOrNone /\ 0 \in Times /\ {} \in Insertions
  BY DocumentAssumption DEF Phases, DocSets, DocOrNone, FileOrNone, TextOrNone, Times, Insertions
<1>2. PICK e : e = <<>> /\ DOMAIN e = {} /\ e \in Table(DocRow) /\ e \in Table(TextRow)
  BY EmptyTable
<1>3. /\ Idle.phase = "idle" /\ Idle.todo = {} /\ Idle.doc = None /\ Idle.copy = e
      /\ Idle.dirty = e /\ Idle.mine = e /\ Idle.added = {} /\ Idle.texts = e
  BY <1>2 DEF Idle
<1>4. Idle \in BatchState
  BY <1>1, <1>2 DEF Idle, BatchState
<1>5. Done(Idle, None)
  BY <1>2, <1>3 DEF Done, Behind, Failures, Writes, Inserts
<1>6. AtHand(Idle)
  BY <1>2, <1>3 DEF AtHand, Place, Bytes, Verdict, Stored, Fetching
<1> QED
  BY <1>2, <1>3, <1>4, <1>5, <1>6 DEF BatchOK

\* What a batch has done does not depend on what it is at.
LEMMA SameWork ==
  ASSUME NEW r, NEW q, NEW at, Done(r, at),
         q.todo = r.todo, q.copy = r.copy, q.dirty = r.dirty, q.mine = r.mine,
         q.added = r.added, q.texts = r.texts
  PROVE  Done(q, at)
<1>1. \A d : Adding(q, d) = Adding(r, d)
  BY DEF Adding
<1> QED
  BY <1>1 DEF Done, Behind, Failures, Writes, Inserts

LEMMA TrickleKeeps ==
  ASSUME DocumentsInv, NEW b \in Batches, Trickle(b) \/ Stall(b)
  PROVE  DocumentsInv'
<1>1. PICK r : r = batch[b] /\ r \in BatchState /\ BatchOK(r)
  BY InvFacts
<1>2. /\ r.phase = "fetch" /\ r.spent < JobTimeout /\ faults' \in 0 .. MaxFaults
      /\ UNCHANGED <<backend, row, versions, text, blob>>
  BY <1>1, DocumentAssumption DEF Trickle, Stall, At, DocumentsInv, Typed
<1>3. r.waited + 1 \in Nat /\ r.spent + 1 \in Times /\ JobTimeout \in Times
  BY <1>1, <1>2, BatchFields, DocumentAssumption DEF Times
<1>4. PICK w \in Nat, s \in Times : Becomes(b, [r EXCEPT !.waited = w, !.spent = s])
  <2>1. CASE Trickle(b)
    BY <1>1, <1>3, <2>1 DEF Trickle
  <2>2. CASE Stall(b)
    <3>1. r.waited \in Nat /\ [r EXCEPT !.spent = JobTimeout]
                              = [r EXCEPT !.waited = r.waited, !.spent = JobTimeout]
      BY <1>1 DEF BatchState
    <3> QED
      BY <1>1, <1>3, <2>2, <3>1 DEF Stall
  <2> QED
    BY <2>1, <2>2
<1>5. PICK q : q = [r EXCEPT !.waited = w, !.spent = s]
  OBVIOUS
<1>6. /\ q \in BatchState /\ q.phase = "fetch" /\ q.todo = r.todo /\ q.doc = r.doc /\ q.copy = r.copy
      /\ q.got = r.got /\ q.new = r.new /\ q.number = r.number /\ q.words = r.words
      /\ q.dirty = r.dirty /\ q.mine = r.mine /\ q.added = r.added /\ q.texts = r.texts
  BY <1>1, <1>2, <1>5 DEF BatchState
<1>7. Done(q, q.doc)
  BY <1>1, <1>6, SameWork DEF BatchOK
<1>8. AtHand(q)
  BY <1>1, <1>2, <1>6 DEF BatchOK, AtHand, Place, Bytes, Verdict, Stored, Fetching
<1>9. BatchOK(q) /\ DOMAIN q.mine \subseteq DOMAIN batch[b].mine
  BY <1>1, <1>6, <1>7, <1>8 DEF BatchOK
<1> QED
  BY <1>2, <1>4, <1>5, <1>6, <1>9, PrivateWork

\* A failure is noted on the document at hand, and the loop goes on.
LEMMA FailedOK ==
  ASSUME NEW r \in BatchState, BatchOK(r), Fetching(r), NEW error \in Errors
  PROVE  Failed(r, error) \in BatchState /\ BatchOK(Failed(r, error)) /\ Failed(r, error).mine = r.mine
<1>1. /\ r.doc # None /\ r.doc \in DOMAIN r.copy /\ r.doc \notin r.todo
      /\ r.doc \notin DOMAIN r.dirty /\ r.doc \notin DOMAIN r.mine
  BY DEF BatchOK, AtHand, Place
<1>2. r.doc \in Docs /\ r.copy[r.doc] \in DocRow /\ error # None /\ r.dirty \in Table(DocRow)
  BY <1>1, BatchFields, TableFacts, DocumentAssumption DEF Errors
<1>3. PICK failed : failed = [r.copy[r.doc] EXCEPT !.error = error]
  OBVIOUS
<1>4. /\ failed \in DocRow /\ ~failed.downloaded /\ failed.error # None
      /\ failed.sha = None /\ failed.version = 1
  <2>1. PICK m : m = r.copy[r.doc] /\ m \in DocRow
    BY <1>2
  <2>2. ~m.downloaded /\ m.sha = None /\ m.version = 1
    BY <1>1, <2>1 DEF BatchOK, Done, Behind
  <2>3. failed = [m EXCEPT !.error = error]
    BY <1>3, <2>1
  <2> QED
    BY <1>2, <2>1, <2>2, <2>3 DEF DocRow
<1>5. PICK dirty : dirty = Put(r.dirty, r.doc, failed)
  OBVIOUS
<1>6. /\ dirty \in Table(DocRow) /\ DOMAIN dirty = DOMAIN r.dirty \cup {r.doc}
      /\ \A d \in DOMAIN dirty : dirty[d] = IF d = r.doc THEN failed ELSE r.dirty[d]
  <2>1. r.dirty \in Table(DocRow) /\ r.doc \in Docs /\ failed \in DocRow
    BY <1>2, <1>4
  <2>2. PICK was, at : was = r.dirty /\ at = r.doc
    OBVIOUS
  <2>3. dirty = Put(was, at, failed) /\ was \in Table(DocRow) /\ at \in Docs
    BY <1>5, <2>1, <2>2
  <2>4. /\ dirty \in Table(DocRow) /\ DOMAIN dirty = DOMAIN was \cup {at}
        /\ \A d \in DOMAIN dirty : dirty[d] = IF d = at THEN failed ELSE was[d]
    <3>1. dirty \in Table(DocRow)
      BY <2>1, <2>3, PutTable
    <3> QED
      BY <2>3, <3>1 DEF Put
  <2> QED
    BY <2>2, <2>4
<1>7. PICK q : q = [r EXCEPT !.dirty = dirty]
  OBVIOUS
<1>8. /\ q \in BatchState /\ q.todo = r.todo /\ q.copy = r.copy /\ q.dirty = dirty
      /\ q.mine = r.mine /\ q.added = r.added /\ q.texts = r.texts
  BY <1>6, <1>7 DEF BatchState
<1>9. Failed(r, error) = Onward(q)
  <2>1. Held(r) = r.copy[r.doc]
    BY <1>1 DEF Held
  <2> QED
    BY <1>3, <1>5, <1>7, <2>1 DEF Failed
<1>10. \A d : Adding(q, d) = Adding(r, d)
  BY <1>8 DEF Adding
<1>11. Behind(q)
  BY <1>1, <1>6, <1>8 DEF BatchOK, Done, Behind
<1>12. Failures(q, None)
  <2> SUFFICES ASSUME NEW d \in DOMAIN dirty
               PROVE  /\ ~dirty[d].downloaded /\ dirty[d].error # None
                      /\ dirty[d].sha = None /\ dirty[d].version = 1
    BY <1>8 DEF Failures
  <2>1. CASE d = r.doc
    BY <1>4, <1>6, <2>1
  <2>2. CASE d # r.doc
    BY <1>6, <2>2 DEF BatchOK, Done, Failures
  <2> QED
    BY <2>1, <2>2
<1>13. Writes(q, None)
  BY <1>1, <1>8, <1>10 DEF BatchOK, Done, Writes
<1>14. Inserts(q)
  BY <1>8, <1>10 DEF BatchOK, Done, Inserts
<1> QED
  BY <1>8, <1>9, <1>11, <1>12, <1>13, <1>14, OnwardOK DEF Done

\* A batch that only moves on to another phase before the version is decided.
LEMMA MovesOn ==
  ASSUME NEW r \in BatchState, BatchOK(r), Fetching(r), NEW q \in BatchState,
         q.phase \in {"store", "open", "upload", "resolve"},
         q.todo = r.todo, q.doc = r.doc, q.copy = r.copy, q.dirty = r.dirty, q.mine = r.mine,
         q.added = r.added, q.texts = r.texts, Bytes(q)
  PROVE  BatchOK(q)
<1>1. Done(q, q.doc)
  BY SameWork DEF BatchOK
<1>2. /\ r.doc # None /\ r.doc \notin DOMAIN r.dirty /\ r.doc \notin DOMAIN r.mine
      /\ r.doc \in DOMAIN r.copy /\ r.doc \notin r.todo /\ \A a \in r.added : a[1] # r.doc
  BY DEF BatchOK, AtHand, Place
<1>3. Place(q) /\ Verdict(q)
  BY <1>2 DEF Place, Verdict, Fetching, Stored
<1> QED
  BY <1>1, <1>3 DEF BatchOK, AtHand

LEMMA FetchKeeps ==
  ASSUME DocumentsInv, NEW b \in Batches,
         \/ \E c \in Contents : Fetched(b, c)
         \/ \E e \in FetchErrors : FetchFails(b, e)
  PROVE  DocumentsInv'
<1>1. PICK r : r = batch[b] /\ r \in BatchState /\ BatchOK(r)
  BY InvFacts
<1>2. /\ r.phase = "fetch" /\ Fetching(r) /\ faults' \in 0 .. MaxFaults
      /\ UNCHANGED <<backend, row, versions, text, blob>>
  BY <1>1 DEF Fetched, FetchFails, At, DocumentsInv, Typed, Fetching
<1>3. ASSUME NEW e \in Errors, Becomes(b, Failed(r, e))
      PROVE  DocumentsInv'
  <2>1. PICK q : q = Failed(r, e) /\ q \in BatchState /\ BatchOK(q) /\ q.mine = r.mine
    BY <1>1, <1>2, FailedOK
  <2> QED
    BY <1>1, <1>2, <1>3, <2>1, PrivateWork
<1>4. ASSUME NEW c \in Contents, Becomes(b, [r EXCEPT !.phase = "store", !.got = c])
      PROVE  DocumentsInv'
  <2>1. PICK q : q = [r EXCEPT !.phase = "store", !.got = c]
    OBVIOUS
  <2>2. "store" \in Phases /\ c \in FileOrNone
    BY DEF Phases, FileOrNone
  <2>3. /\ q \in BatchState /\ q.phase = "store" /\ q.got = c /\ q.todo = r.todo /\ q.doc = r.doc
        /\ q.copy = r.copy /\ q.dirty = r.dirty /\ q.mine = r.mine /\ q.added = r.added
        /\ q.texts = r.texts
    BY <1>1, <2>1, <2>2 DEF BatchState
  <2>4. Bytes(q)
    BY <2>3 DEF Bytes, Stored
  <2>5. BatchOK(q)
    BY <1>1, <1>2, <2>3, <2>4, MovesOn
  <2> QED
    BY <1>1, <1>2, <1>4, <2>1, <2>3, <2>5, PrivateWork
<1>5. \A e \in FetchErrors : e \in Errors
  BY DocumentAssumption DEF Errors
<1>6. "permanent" \in Errors
  BY DEF Errors
<1> QED
  BY <1>1, <1>3, <1>4, <1>5, <1>6 DEF Fetched, FetchFails

LEMMA ExistsKeeps ==
  ASSUME DocumentsInv, NEW b \in Batches, Exists(b)
  PROVE  DocumentsInv'
<1>1. PICK r : r = batch[b] /\ r \in BatchState /\ BatchOK(r)
  BY InvFacts
<1>2. /\ r.phase = "store" /\ Fetching(r) /\ faults' \in 0 .. MaxFaults
      /\ UNCHANGED <<backend, row, versions, text, blob>> /\ r.got \in Contents
  BY <1>1 DEF Exists, At, DocumentsInv, Typed, Fetching, BatchOK, AtHand, Bytes
<1>3. PICK phase : /\ phase = IF blob[Key(r.doc, r.got)].data = "absent" THEN "open" ELSE "resolve"
                   /\ phase \in Phases /\ phase \in {"open", "resolve"}
  BY DEF Phases
<1>4. PICK q : q = [r EXCEPT !.phase = phase]
  OBVIOUS
<1>5. /\ q \in BatchState /\ q.phase = phase /\ q.got = r.got /\ q.todo = r.todo /\ q.doc = r.doc
      /\ q.copy = r.copy /\ q.dirty = r.dirty /\ q.mine = r.mine /\ q.added = r.added
      /\ q.texts = r.texts
  BY <1>1, <1>3, <1>4 DEF BatchState
<1>6. Bytes(q)
  BY <1>2, <1>3, <1>5 DEF Bytes, Stored, Present
<1>7. BatchOK(q)
  BY <1>1, <1>2, <1>3, <1>5, <1>6, MovesOn
<1>8. Becomes(b, q)
  BY <1>1, <1>3, <1>4 DEF Exists
<1> QED
  BY <1>1, <1>2, <1>5, <1>7, <1>8, PrivateWork

-----------------------------------------------------------------------------
(* Steps that write to the store                                           *)

LEMMA StoreStep ==
  ASSUME DocumentsInv, NEW b \in Batches, NEW r \in BatchState, BatchOK(r)',
         DOMAIN r.mine \subseteq DOMAIN batch[b].mine,
         Becomes(b, r), faults' \in 0 .. MaxFaults,
         UNCHANGED <<backend, row, versions, text>>,
         NEW k \in Keys, NEW o \in Object, blob' = [blob EXCEPT ![k] = o],
         blob[k].data # "absent" => o.data # "absent", backend = "s3" => o.data # "cut"
  PROVE  DocumentsInv'
<1>1. /\ batch' \in [Batches -> BatchState] /\ batch'[b] = r
      /\ \A x \in Batches \ {b} : batch'[x] = batch[x]
  BY DEF Becomes, DocumentsInv, Typed
<1>2. /\ blob' \in [Keys -> Object]
      /\ \A j \in Keys : blob[j].data # "absent" => blob'[j].data # "absent"
      /\ \A j \in Keys : backend = "s3" => blob'[j].data # "cut"
  BY DEF DocumentsInv, Typed, NoneCut
<1>3. Typed' /\ NoneCut'
  BY <1>1, <1>2 DEF DocumentsInv, Typed, NoneCut
<1>4. \A d \in Docs, c \in Contents : Present(d, c) => Present(d, c)'
  BY <1>2 DEF Present, Keys
<1>5. RowsOK'
  <2> SUFFICES ASSUME NEW d \in Docs
               PROVE  /\ Consistent(row[d], versions[d])'
                      /\ (text[d] # None => Known(d, text[d].of) /\ (backend = "s3" => text[d].whole))'
                      /\ (row[d].downloaded => Present(d, row[d].sha))'
    BY DEF RowsOK
  <2>1. row[d].downloaded => Present(d, row[d].sha) /\ row[d].sha \in Contents
    BY DEF DocumentsInv, RowsOK, Present
  <2> QED
    BY <1>4, <2>1 DEF DocumentsInv, RowsOK, Consistent, Known
<1>6. LocksApart'
  BY <1>1 DEF DocumentsInv, LocksApart
<1>7. ASSUME NEW x \in Batches
      PROVE  BatchOK(batch[x])'
  <2>1. CASE x = b
    <3>1. PICK y : y = batch'[x]
      OBVIOUS
    <3>2. y = r
      BY <1>1, <2>1, <3>1
    <3>3. BatchOK(y)'
      BY <3>2
    <3> QED
      BY <3>1, <3>3
  <2>2. CASE x # b
    <3>1. PICK y : y = batch'[x]
      OBVIOUS
    <3>2. y \in BatchState /\ BatchOK(y)
      BY <1>1, <2>2, <3>1, InvFacts
    <3>3. Grows(y)
      BY <1>2 DEF Grows
    <3>4. BatchOK(y)'
      BY <3>2, <3>3, StaysOK
    <3> QED
      BY <3>1, <3>4
  <2> QED
    BY <2>1, <2>2
<1> QED
  BY <1>3, <1>5, <1>6, <1>7 DEF DocumentsInv

LEMMA OpenKeeps ==
  ASSUME DocumentsInv, NEW b \in Batches, Open(b)
  PROVE  DocumentsInv'
<1>1. PICK r : r = batch[b] /\ r \in BatchState /\ BatchOK(r)
  BY InvFacts
<1>2. /\ r.phase = "open" /\ r.spent < JobTimeout /\ Fetching(r) /\ faults' \in 0 .. MaxFaults
      /\ UNCHANGED <<backend, row, versions, text>> /\ r.got \in Contents
  BY <1>1 DEF Open, At, DocumentsInv, Typed, Fetching, BatchOK, AtHand, Bytes
<1>3. /\ r.doc # None /\ r.doc \notin DOMAIN r.dirty /\ r.doc \notin DOMAIN r.mine /\ r.doc \in Docs
      /\ r.doc \in DOMAIN r.copy /\ r.doc \notin r.todo /\ \A a \in r.added : a[1] # r.doc
  BY <1>1, <1>2, BatchFields DEF BatchOK, AtHand, Place
<1>4. PICK k \in Keys : k = Key(r.doc, r.got)
  BY <1>2, <1>3 DEF Keys
<1>5. PICK o : o = Opened(blob[k], b)
  OBVIOUS
<1>6. /\ o \in Object /\ blob' = [blob EXCEPT ![k] = o]
      /\ blob[k].data # "absent" => o.data # "absent"
      /\ backend = "s3" => o.data # "cut"
      /\ backend = "local" => o.data # "absent"
  <2>1. blob \in [Keys -> Object] /\ (backend = "s3" => blob[k].data # "cut")
    BY DEF DocumentsInv, Typed, NoneCut
  <2>2. o \in Object /\ o = IF backend = "local" THEN [data |-> "cut", by |-> b] ELSE blob[k]
    BY <1>5, <2>1 DEF Opened, Object
  <2> QED
    BY <1>1, <1>4, <1>5, <2>1, <2>2 DEF Open
<1>7. PICK q : q = [r EXCEPT !.phase = "upload"]
  OBVIOUS
<1>8. /\ q \in BatchState /\ q.phase = "upload" /\ q.got = r.got /\ q.todo = r.todo /\ q.doc = r.doc
      /\ q.copy = r.copy /\ q.dirty = r.dirty /\ q.mine = r.mine /\ q.added = r.added
      /\ q.texts = r.texts /\ q.spent = r.spent
  <2>1. "upload" \in Phases
    BY DEF Phases
  <2> QED
    BY <1>1, <1>7, <2>1 DEF BatchState
<1>9. Done(q, q.doc)'
  <2>1. Grows(q)
    BY <1>2, <1>6 DEF Grows, DocumentsInv, Typed
  <2>2. Done(q, q.doc)
    BY <1>1, <1>8, SameWork DEF BatchOK
  <2> QED
    BY <1>8, <2>1, <2>2, DoneStays
<1>10. Place(q)' /\ Verdict(q)'
  BY <1>3, <1>8 DEF Place, Verdict, Fetching, Stored
<1>11. Bytes(q)'
  <2>1. backend = "local" => blob'[Key(q.doc, q.got)].data # "absent"
    BY <1>4, <1>6, <1>8 DEF DocumentsInv, Typed
  <2> QED
    BY <1>2, <1>8, <2>1 DEF Bytes, Stored, Present, Key
<1>12. BatchOK(q)' /\ Becomes(b, q)
  BY <1>1, <1>7, <1>9, <1>10, <1>11 DEF BatchOK, AtHand, Open
<1> QED
  BY <1>1, <1>2, <1>6, <1>8, <1>12, StoreStep

LEMMA UploadKeeps ==
  ASSUME DocumentsInv, NEW b \in Batches, Upload(b)
  PROVE  DocumentsInv'
<1>1. PICK r : r = batch[b] /\ r \in BatchState /\ BatchOK(r)
  BY InvFacts
<1>2. /\ r.phase = "upload" /\ Fetching(r) /\ faults' \in 0 .. MaxFaults
      /\ UNCHANGED <<backend, row, versions, text>> /\ r.got \in Contents
      /\ backend = "local" => Present(r.doc, r.got)
  BY <1>1 DEF Upload, At, DocumentsInv, Typed, Fetching, BatchOK, AtHand, Bytes
<1>3. /\ r.doc # None /\ r.doc \notin DOMAIN r.dirty /\ r.doc \notin DOMAIN r.mine /\ r.doc \in Docs
      /\ r.doc \in DOMAIN r.copy /\ r.doc \notin r.todo /\ \A a \in r.added : a[1] # r.doc
  BY <1>1, <1>2, BatchFields DEF BatchOK, AtHand, Place
<1>4. PICK k \in Keys : k = Key(r.doc, r.got)
  BY <1>2, <1>3 DEF Keys
<1>5. PICK o \in Closed(blob[k], b) : blob' = [blob EXCEPT ![k] = o]
  BY <1>1, <1>4 DEF Upload
<1>6. /\ o \in Object /\ o.data # "absent"
      /\ backend = "s3" => o.data # "cut"
  <2>1. PICK was \in Object : was = blob[k]
    BY DEF DocumentsInv, Typed
  <2>2. [was EXCEPT !.data = "whole"] \in Object /\ [was EXCEPT !.data = "whole"].data = "whole"
    BY <2>1 DEF Object
  <2>3. backend \in {"local", "s3"} /\ (backend = "local" => was.data # "absent")
    BY <1>2, <1>4, <2>1, DocumentAssumption DEF DocumentsInv, Typed, Present
  <2> QED
    BY <1>5, <2>1, <2>2, <2>3 DEF Closed
<1>7. PICK q : q = [r EXCEPT !.phase = "resolve"]
  OBVIOUS
<1>8. /\ q \in BatchState /\ q.phase = "resolve" /\ q.got = r.got /\ q.todo = r.todo /\ q.doc = r.doc
      /\ q.copy = r.copy /\ q.dirty = r.dirty /\ q.mine = r.mine /\ q.added = r.added
      /\ q.texts = r.texts
  <2>1. "resolve" \in Phases
    BY DEF Phases
  <2> QED
    BY <1>1, <1>7, <2>1 DEF BatchState
<1>9. Done(q, q.doc)'
  <2>1. Grows(q)
    BY <1>2, <1>5, <1>6 DEF Grows, DocumentsInv, Typed
  <2>2. Done(q, q.doc)
    BY <1>1, <1>8, SameWork DEF BatchOK
  <2> QED
    BY <1>8, <2>1, <2>2, DoneStays
<1>10. Place(q)' /\ Verdict(q)'
  BY <1>3, <1>8 DEF Place, Verdict, Fetching, Stored
<1>11. Bytes(q)'
  <2>1. blob'[Key(q.doc, q.got)].data # "absent"
    BY <1>4, <1>5, <1>6, <1>8 DEF DocumentsInv, Typed
  <2> QED
    BY <1>2, <1>8, <2>1 DEF Bytes, Stored, Present, Key
<1>12. BatchOK(q)' /\ Becomes(b, q)
  BY <1>1, <1>7, <1>9, <1>10, <1>11 DEF BatchOK, AtHand, Upload
<1> QED
  BY <1>1, <1>2, <1>5, <1>6, <1>8, <1>12, StoreStep

LEMMA StoreFailsKeeps ==
  ASSUME DocumentsInv, NEW b \in Batches, StoreFails(b)
  PROVE  DocumentsInv'
<1>1. PICK r : r = batch[b] /\ r \in BatchState /\ BatchOK(r)
  BY InvFacts
<1>2. /\ r.phase \in {"store", "upload"} /\ Fetching(r) /\ faults' \in 0 .. MaxFaults
      /\ UNCHANGED <<backend, row, versions, text>> /\ Becomes(b, Failed(r, "storage"))
  BY <1>1, DocumentAssumption DEF StoreFails, At, DocumentsInv, Typed, Fetching
<1>3. blob' = blob
  BY DEF StoreFails, Aborted, DocumentsInv, Typed
<1>4. PICK q : q = Failed(r, "storage") /\ q \in BatchState /\ BatchOK(q) /\ q.mine = r.mine
  <2>1. "storage" \in Errors
    BY DEF Errors
  <2> QED
    BY <1>1, <1>2, <2>1, FailedOK
<1> QED
  BY <1>1, <1>2, <1>3, <1>4, PrivateWork

-----------------------------------------------------------------------------
(* Versions and text                                                       *)

LEMMA LatestFound ==
  ASSUME NEW d \in Docs, NEW n \in Nat, Numbers(d) = 1 .. n
  PROVE  Latest(d) = n
<1>1. CASE versions[d] = {}
  <2>1. n = 0
    <3>1. Numbers(d) = {}
      BY <1>1 DEF Numbers
    <3>2. 1 \notin 1 .. n
      BY <3>1
    <3> QED
      BY <3>2
  <2> QED
    BY <1>1, <2>1 DEF Latest
<1>2. CASE versions[d] # {}
  <2>1. n \in Numbers(d)
    <3>1. PICK v \in versions[d] : TRUE
      BY <1>2
    <3>2. v.number \in 1 .. n
      BY <3>1 DEF Numbers
    <3> QED
      BY <3>2
  <2>2. \A v \in versions[d] : v.number \in 1 .. n
    BY DEF Numbers
  <2>3. PICK w \in versions[d] : w.number = n
    BY <2>1 DEF Numbers
  <2>4. \A m \in Numbers(d) : (\A v \in versions[d] : v.number <= m) <=> m = n
    BY <2>2, <2>3
  <2>5. (CHOOSE m \in Numbers(d) : \A v \in versions[d] : v.number <= m) = n
    BY <2>1, <2>4
  <2> QED
    BY <1>2, <2>5 DEF Latest, Numbers
<1> QED
  BY <1>1, <1>2

LEMMA ResolveKeeps ==
  ASSUME DocumentsInv, NEW b \in Batches, Resolve(b)
  PROVE  DocumentsInv'
<1>1. PICK r : r = batch[b] /\ r \in BatchState /\ BatchOK(r)
  BY InvFacts
<1>2. /\ r.phase = "resolve" /\ Fetching(r) /\ faults' \in 0 .. MaxFaults
      /\ UNCHANGED <<backend, row, versions, text, blob>> /\ Present(r.doc, r.got) /\ r.got \in Contents
  BY <1>1 DEF Resolve, At, DocumentsInv, Typed, Fetching, BatchOK, AtHand, Bytes, Stored, Present
<1>3. /\ r.doc # None /\ r.doc \in DOMAIN r.copy /\ r.doc \notin r.todo /\ r.doc \in Docs
      /\ r.doc \notin DOMAIN r.dirty /\ r.doc \notin DOMAIN r.mine /\ \A a \in r.added : a[1] # r.doc
  BY <1>1, <1>2, BatchFields DEF BatchOK, AtHand, Place
<1>4. PICK d \in Docs : d = r.doc
  BY <1>3
<1>5. PICK new \in BOOLEAN : new <=> ~Known(d, r.got)
  OBVIOUS
<1>6. PICK number \in Nat : /\ number = Latest(d) + 1 /\ number # 0
                           /\ \A i \in 1 .. number - 1 : i \in Numbers(d)
  <2>1. PICK n \in Nat : Numbers(d) = 1 .. n
    BY <1>4 DEF DocumentsInv, RowsOK, Consistent, Numbers
  <2>2. Latest(d) = n
    BY <2>1, LatestFound
  <2>3. n + 1 \in Nat /\ n + 1 # 0 /\ (n + 1) - 1 = n
    BY <2>1
  <2> QED
    BY <2>1, <2>2, <2>3
<1>7. PICK m : m = [r.copy[d] EXCEPT !.downloaded = TRUE, !.error = None, !.sha = r.got,
                                     !.version = IF new THEN number ELSE @]
  OBVIOUS
<1>8. m \in DocRow /\ m.downloaded /\ m.sha = r.got /\ m.version = IF new THEN number ELSE 1
  <2>1. PICK c : c = r.copy[d] /\ c \in DocRow /\ c.version = 1
    <3>1. r.copy \in Table(DocRow)
      BY <1>1, BatchFields
    <3> QED
      BY <1>1, <1>3, <1>4, <3>1, TableFacts DEF BatchOK, Done, Behind
  <2>2. m = [c EXCEPT !.downloaded = TRUE, !.error = None, !.sha = r.got,
                      !.version = IF new THEN number ELSE 1]
    BY <1>7, <2>1
  <2>3. TRUE \in BOOLEAN /\ None \in Errors \cup {None} /\ r.got \in Contents \cup {None}
    BY <1>2
  <2>4. (IF new THEN number ELSE 1) \in Nat
    BY <1>5, <1>6
  <2> QED
    BY <2>1, <2>2, <2>3, <2>4 DEF DocRow
<1>9. PICK dirty : dirty = Put(r.dirty, d, m)
  OBVIOUS
<1>10. /\ dirty \in Table(DocRow) /\ DOMAIN dirty = DOMAIN r.dirty \cup {d} /\ dirty[d] = m
       /\ \A e \in DOMAIN dirty \ {d} : dirty[e] = r.dirty[e]
  <2>1. r.dirty \in Table(DocRow)
    BY <1>1, BatchFields
  <2>2. dirty \in Table(DocRow)
    BY <1>8, <1>9, <2>1, PutTable
  <2> QED
    BY <1>9, <2>2 DEF Put
<1>11. PICK q : q = [r EXCEPT !.phase = "extract", !.new = new, !.number = number, !.dirty = dirty]
  OBVIOUS
<1>12. /\ q \in BatchState /\ q.phase = "extract" /\ q.new = new /\ q.number = number /\ q.dirty = dirty
       /\ q.got = r.got /\ q.todo = r.todo /\ q.doc = d
       /\ q.copy = r.copy /\ q.mine = r.mine /\ q.added = r.added /\ q.texts = r.texts
  <2>1. "extract" \in Phases
    BY DEF Phases
  <2> QED
    BY <1>1, <1>4, <1>5, <1>6, <1>10, <1>11, <2>1 DEF BatchState
<1>13. Becomes(b, q)
  <2>1. Held(r) = r.copy[d]
    BY <1>3, <1>4 DEF Held
  <2>2. Becomes(b, [r EXCEPT !.phase = "extract", !.new = new, !.number = number,
          !.dirty = Put(r.dirty, d, [r.copy[d] EXCEPT
             !.downloaded = TRUE, !.error = None, !.sha = r.got,
             !.version = IF new THEN number ELSE r.copy[d].version])])
    BY <1>1, <1>4, <1>5, <1>6, <2>1 DEF Resolve
  <2>3. m = [r.copy[d] EXCEPT !.downloaded = TRUE, !.error = None, !.sha = r.got,
                              !.version = IF new THEN number ELSE r.copy[d].version]
    BY <1>7
  <2> QED
    BY <1>9, <1>11, <2>2, <2>3
<1>14. Done(q, d)
  <2>1. \A e : Adding(q, e) = Adding(r, e)
    BY <1>12 DEF Adding
  <2>2. Behind(q)
    BY <1>1, <1>3, <1>4, <1>10, <1>12 DEF BatchOK, Done, Behind
  <2>3. Failures(q, d)
    BY <1>1, <1>4, <1>10, <1>12 DEF BatchOK, Done, Failures
  <2>4. Writes(q, d)
    BY <1>1, <1>4, <1>12, <2>1 DEF BatchOK, Done, Writes
  <2>5. Inserts(q)
    BY <1>1, <1>12, <2>1 DEF BatchOK, Done, Inserts
  <2> QED
    BY <2>2, <2>3, <2>4, <2>5 DEF Done
<1>15. Place(q) /\ Bytes(q)
  BY <1>2, <1>3, <1>4, <1>10, <1>12 DEF Place, Bytes, Stored, Fetching
<1>16. Verdict(q)
  BY <1>3, <1>4, <1>5, <1>6, <1>8, <1>10, <1>12 DEF Verdict, Stored
<1>17. BatchOK(q) /\ DOMAIN q.mine \subseteq DOMAIN batch[b].mine
  BY <1>1, <1>12, <1>14, <1>15, <1>16 DEF BatchOK, AtHand
<1> QED
  BY <1>2, <1>12, <1>13, <1>17, PrivateWork

\* What comes out of a file, unless its handler throws.
LEMMA TextOutcome ==
  ASSUME NEW file, NEW format, NEW enabled, NEW available
  PROVE  LET outcome == ExtractText(file, format, enabled, available) IN
         \/ outcome = Raises
         \/ /\ outcome.method \in {"NATIVE_PDF", "OCR", "HTML_PARSE", "PLAIN_TEXT", "SPREADSHEET", "NONE"}
            /\ outcome.empty \in BOOLEAN
<1> DEFINE Good(o) == \/ o = Raises
                      \/ /\ o.method \in {"NATIVE_PDF", "OCR", "HTML_PARSE", "PLAIN_TEXT", "SPREADSHEET", "NONE"}
                         /\ o.empty \in BOOLEAN
<1>1. \A method \in {"NATIVE_PDF", "OCR", "HTML_PARSE", "PLAIN_TEXT", "SPREADSHEET", "NONE"},
         empty \in BOOLEAN : \A confidence : Good(Extracted(method, empty, confidence))
  BY DEF Extracted
<1>2. PICK blank \in BOOLEAN : blank = (file.native \in {"unreadable", "blank"})
  <2>1. CASE file.native \in {"unreadable", "blank"}
    <3>1. TRUE = (file.native \in {"unreadable", "blank"}) /\ TRUE \in BOOLEAN
      BY <2>1
    <3> QED
      BY <3>1, Zenon
  <2>2. CASE ~(file.native \in {"unreadable", "blank"})
    <3>1. FALSE = (file.native \in {"unreadable", "blank"}) /\ FALSE \in BOOLEAN
      BY <2>2
    <3> QED
      BY <3>1, Zenon
  <2> QED
    BY <2>1, <2>2
<1>3. Good(Raises)
  OBVIOUS
<1> HIDE DEF Good
<1>4. Good(ExtractPdf(file, enabled, available))
  <2>1. \A confidence : Good(Extracted("OCR", FALSE, confidence))
    BY <1>1
  <2>3. \A confidence : Good(Extracted("NATIVE_PDF", blank, confidence))
    BY <1>1
  <2>2. ExtractPdf(file, enabled, available) =
          IF file.native = "unreadable" /\ ~enabled THEN Raises
          ELSE IF OcrReads(file, enabled, available) THEN Extracted("OCR", FALSE, 80)
          ELSE Extracted("NATIVE_PDF", blank, IF file.native = "rich" THEN 100 ELSE 40)
    BY <1>2 DEF ExtractPdf
  <2> QED
    BY <1>3, <2>1, <2>2, <2>3
<1>5. PICK fmt : fmt = IF format = "UNKNOWN" THEN StoredFormat(file, [declared |-> Absent, ext |-> Absent])
                       ELSE format
  OBVIOUS
<1>6. ExtractText(file, format, enabled, available) =
        CASE fmt = "PDF"  -> ExtractPdf(file, enabled, available)
          [] fmt = "TXT"  -> Extracted("PLAIN_TEXT", blank, 100)
          [] fmt = "CSV"  -> IF file.native = "unreadable" THEN Raises
                             ELSE Extracted("SPREADSHEET", blank, 100)
          [] fmt = "HTML" -> Extracted("HTML_PARSE", blank, 90)
          [] fmt = "DOCX" -> IF file.native = "unreadable" THEN Raises
                             ELSE Extracted("PLAIN_TEXT", blank, 90)
          [] OTHER        -> Extracted("NONE", TRUE, 0)
  BY <1>2, <1>5 DEF ExtractText
<1>7. /\ Good(Extracted("PLAIN_TEXT", blank, 100)) /\ Good(Extracted("SPREADSHEET", blank, 100))
      /\ Good(Extracted("HTML_PARSE", blank, 90)) /\ Good(Extracted("PLAIN_TEXT", blank, 90))
      /\ Good(Extracted("NONE", TRUE, 0))
  <2>1. \A confidence : Good(Extracted("PLAIN_TEXT", blank, confidence))
    BY <1>1
  <2>2. \A confidence : Good(Extracted("SPREADSHEET", blank, confidence))
    BY <1>1
  <2>3. \A confidence : Good(Extracted("HTML_PARSE", blank, confidence))
    BY <1>1
  <2>4. \A confidence : Good(Extracted("NONE", TRUE, confidence))
    BY <1>1
  <2> QED
    BY <2>1, <2>2, <2>3, <2>4
<1>8. Good(ExtractText(file, format, enabled, available))
  BY <1>3, <1>4, <1>6, <1>7
<1> QED
  BY <1>8 DEF Good

LEMMA TypeRuled ==
  ASSUME NEW says
  PROVE  Classify(says) \in TypesRuled \cup {"UNKNOWN"}
<1> DEFINE Score(i, place) == IF TypeRules[i][1] \in says[place]
                              THEN TypeRules[i][2] * PlaceWeight[place] ELSE 0
           best(i)  == CHOOSE n \in {Score(i, p) : p \in DOMAIN PlaceWeight} :
                         \A p \in DOMAIN PlaceWeight : n >= Score(i, p)
           winners  == {i \in DOMAIN TypeRules :
                          best(i) > 0 /\ \A k \in DOMAIN TypeRules :
                                           best(k) < best(i) \/ (best(k) = best(i) /\ k >= i)}
<1>1. Classify(says) = IF winners = {} THEN "UNKNOWN" ELSE TypeRules[CHOOSE i \in winners : TRUE][1]
  BY DEF Classify
<1>2. winners \subseteq DOMAIN TypeRules
  OBVIOUS
<1> HIDE DEF winners
<1>3. winners # {} => (CHOOSE i \in winners : TRUE) \in winners
  OBVIOUS
<1> QED
  BY <1>1, <1>2, <1>3 DEF TypesRuled

LEMMA ExtractKeeps ==
  ASSUME DocumentsInv, NEW b \in Batches, Extract(b)
  PROVE  DocumentsInv'
<1>1. PICK r : r = batch[b] /\ r \in BatchState /\ BatchOK(r)
  BY InvFacts
<1>2. /\ r.phase = "extract" /\ Stored(r) /\ faults' \in 0 .. MaxFaults
      /\ UNCHANGED <<backend, row, versions, text, blob>> /\ Present(r.doc, r.got) /\ r.got \in Contents
  BY <1>1 DEF Extract, At, DocumentsInv, Typed, BatchOK, AtHand, Bytes, Stored, Present
<1>3. /\ r.doc \in DOMAIN r.dirty /\ r.dirty \in Table(DocRow) /\ DOMAIN r.dirty \subseteq Docs
      /\ r.doc \in Docs /\ r.doc # None
  BY <1>1, <1>2, BatchFields, TableFacts, DocumentAssumption DEF BatchOK, AtHand, Place
<1>4. PICK d \in Docs : d = r.doc
  BY <1>3
<1>5. PICK words : /\ words \in (IF r.new THEN Extractions(d, r.got) ELSE {None})
                   /\ Becomes(b, [r EXCEPT !.phase = "flush", !.words = words, !.present = text[d] # None,
                                           !.dirty[d].type = TypeFor(d, words, @)])
  BY <1>1, <1>4 DEF Extract
<1>6. /\ words \in TextRow \cup {None}
      /\ words # None => r.new /\ words.of = r.got /\ (backend = "s3" => words.whole)
  <2>1. PICK format : format = StoredFormat(File[r.got], Hint[d])
    OBVIOUS
  <2>2. PICK outcome : /\ outcome = ExtractText(File[r.got], format, OcrEnabled, OcrAvailable)
                       /\ \/ outcome = Raises
                          \/ /\ outcome.method \in {"NATIVE_PDF", "OCR", "HTML_PARSE", "PLAIN_TEXT", "SPREADSHEET", "NONE"}
                             /\ outcome.empty \in BOOLEAN
    BY TextOutcome
  <2>3. PICK o \in Object : o = blob[Key(d, r.got)] /\ (backend = "s3" => o.data # "cut")
    <3>1. Key(d, r.got) \in Keys
      BY <1>2 DEF Keys
    <3> QED
      BY <3>1 DEF DocumentsInv, Typed, NoneCut
  <2>4. PICK whole \in BOOLEAN : whole <=> o.data = "whole"
    OBVIOUS
  <2>5. PICK read : read = IF outcome = Raises THEN None ELSE Words(r.got, whole, outcome)
    OBVIOUS
  <2>6. read = None \/ (read \in TextRow /\ read.of = r.got /\ (read.whole <=> o.data = "whole"))
    <3>1. CASE outcome = Raises
      BY <2>5, <3>1
    <3>2. CASE outcome # Raises
      <4>1. read = [of |-> r.got, whole |-> whole, method |-> outcome.method, empty |-> outcome.empty]
        BY <2>5, <3>2 DEF Words
      <4> QED
        BY <1>2, <2>2, <2>4, <3>2, <4>1 DEF TextRow
    <3> QED
      BY <3>1, <3>2
  <2>7. ASSUME words \in Extractions(d, r.got)
        PROVE  words = None \/ (words = read /\ o.data # "absent")
    <3>1. (o.data = "whole") = whole
      BY <2>4
    <3>2. read = (IF outcome = Raises THEN None ELSE Words(r.got, o.data = "whole", outcome))
      BY <2>5, <3>1
    <3>3. Extractions(d, r.got) = CASE o.data = "whole" -> {read} [] o.data = "cut" -> {None, read}
                                    [] o.data = "absent" -> {None}
      BY <2>1, <2>2, <2>3, <3>2 DEF Extractions
    <3>4. o.data \in {"absent", "cut", "whole"}
      BY DEF Object
    <3> QED
      BY <2>7, <3>3, <3>4
  <2>8. CASE r.new
    BY <1>5, <2>3, <2>4, <2>6, <2>7, <2>8 DEF Object
  <2>9. CASE ~r.new
    BY <1>5, <2>9
  <2> QED
    BY <2>8, <2>9
<1>7. PICK type : /\ type = TypeFor(d, words, r.dirty[d].type) /\ type \in TypesRuled \cup {"UNKNOWN"}
  <2>1. r.dirty[d].type \in TypesRuled \cup {"UNKNOWN"}
    <3>1. r.dirty[d] \in DocRow
      BY <1>3, <1>4, TableFacts
    <3> QED
      BY <3>1 DEF DocRow
  <2> QED
    BY <2>1, TypeRuled DEF TypeFor
<1>8. PICK m : m = [r.dirty[d] EXCEPT !.type = type]
  OBVIOUS
<1>9. /\ m \in DocRow /\ m.downloaded = r.dirty[d].downloaded /\ m.sha = r.dirty[d].sha
      /\ m.version = r.dirty[d].version
  <2>1. PICK old \in DocRow : old = r.dirty[d]
    BY <1>3, <1>4, TableFacts
  <2>2. m = [old EXCEPT !.type = type]
    BY <1>8, <2>1
  <2> QED
    BY <1>7, <2>1, <2>2 DEF DocRow
<1>10. PICK dirty : dirty = [r.dirty EXCEPT ![d] = m]
  OBVIOUS
<1>11. /\ dirty \in Table(DocRow) /\ DOMAIN dirty = DOMAIN r.dirty /\ dirty[d] = m
       /\ \A e \in DOMAIN dirty \ {d} : dirty[e] = r.dirty[e]
  <2>1. PICK was : was = r.dirty /\ was \in Table(DocRow) /\ d \in DOMAIN was
    BY <1>3, <1>4
  <2>2. was \in [DOMAIN was -> DocRow] /\ DOMAIN was \subseteq Docs
    BY <2>1, TableFacts
  <2>3. dirty \in [DOMAIN was -> DocRow]
    BY <1>9, <1>10, <2>1, <2>2
  <2>4. dirty \in Table(DocRow)
    BY <2>2, <2>3 DEF Table
  <2> QED
    BY <1>10, <2>1, <2>2, <2>4
<1>12. PICK present \in BOOLEAN : present <=> text[d] # None
  OBVIOUS
<1>13. PICK q : q = [r EXCEPT !.phase = "flush", !.words = words, !.present = present, !.dirty = dirty]
  OBVIOUS
<1>14. /\ q \in BatchState /\ q.phase = "flush" /\ q.new = r.new /\ q.number = r.number /\ q.dirty = dirty
       /\ q.got = r.got /\ q.todo = r.todo /\ q.doc = d /\ q.words = words
       /\ q.copy = r.copy /\ q.mine = r.mine /\ q.added = r.added /\ q.texts = r.texts
  <2>1. "flush" \in Phases /\ words \in TextOrNone
    BY <1>6 DEF Phases, TextOrNone
  <2> QED
    BY <1>1, <1>4, <1>11, <1>12, <1>13, <2>1 DEF BatchState
<1>15. Becomes(b, q)
  <2>1. [r EXCEPT !.phase = "flush", !.words = words, !.present = text[d] # None,
                  !.dirty[d].type = TypeFor(d, words, @)]
        = [r EXCEPT !.phase = "flush", !.words = words, !.present = present,
                    !.dirty = [r.dirty EXCEPT ![d] = [r.dirty[d] EXCEPT !.type = type]]]
    BY <1>1, <1>7, <1>12 DEF BatchState
  <2> QED
    BY <1>5, <1>8, <1>10, <1>13, <2>1
<1>16. Done(q, d)
  <2>1. \A e : Adding(q, e) = Adding(r, e)
    BY <1>14 DEF Adding
  <2>2. Behind(q)
    BY <1>1, <1>11, <1>14 DEF BatchOK, Done, Behind
  <2>3. Failures(q, d)
    BY <1>1, <1>4, <1>11, <1>14 DEF BatchOK, Done, Failures
  <2>4. Writes(q, d)
    BY <1>1, <1>4, <1>14, <2>1 DEF BatchOK, Done, Writes
  <2>5. Inserts(q)
    BY <1>1, <1>14, <2>1 DEF BatchOK, Done, Inserts
  <2> QED
    BY <2>2, <2>3, <2>4, <2>5 DEF Done
<1>17. Place(q) /\ Bytes(q)
  BY <1>1, <1>2, <1>3, <1>4, <1>11, <1>14 DEF BatchOK, AtHand, Place, Bytes, Stored, Fetching
<1>18. Verdict(q)
  <2>1. d \notin DOMAIN r.mine
    BY <1>1, <1>3, <1>4 DEF BatchOK, Done, Behind
  <2> QED
    BY <1>1, <1>2, <1>3, <1>4, <1>6, <1>9, <1>11, <1>14, <2>1 DEF BatchOK, AtHand, Verdict, Stored
<1>19. BatchOK(q) /\ DOMAIN q.mine \subseteq DOMAIN batch[b].mine
  BY <1>1, <1>14, <1>16, <1>17, <1>18 DEF BatchOK, AtHand
<1> QED
  BY <1>2, <1>14, <1>15, <1>19, PrivateWork

-----------------------------------------------------------------------------
(* Flushes                                                                 *)

\* Whatever the row was made of since it was loaded, a flushed UPDATE leaves it right.
LEMMA FlushedOK ==
  ASSUME DocumentsInv, NEW r \in BatchState, BatchOK(r), NEW d \in DOMAIN r.dirty, r.phase = "flush"
  PROVE  /\ Flushed(r, d) \in BatchState /\ BatchOK(Flushed(r, d))
         /\ DOMAIN Flushed(r, d).mine = DOMAIN r.mine \cup {d}
<1>1. /\ r.copy \in Table(DocRow) /\ r.dirty \in Table(DocRow) /\ r.mine \in Table(DocRow)
      /\ r.doc \in Docs \cup {None}
  BY BatchFields
<1>2. d \in Docs /\ d \in DOMAIN r.copy /\ d \notin r.todo /\ d \notin DOMAIN r.mine
  BY <1>1, TableFacts DEF BatchOK, Done, Behind
<1>3. PICK old \in DocRow, new \in DocRow, now \in DocRow :
        old = r.copy[d] /\ new = r.dirty[d] /\ now = row[d]
  BY <1>1, <1>2, TableFacts DEF DocumentsInv, Typed
<1>4. ~old.downloaded /\ old.error = None /\ old.sha = None /\ old.version = 1
  BY <1>2, <1>3 DEF BatchOK, Done, Behind
<1>5. PICK m \in DocRow :
        /\ m = Written(old, new, now)
        /\ m.downloaded <=> new.downloaded \/ now.downloaded
        /\ m.error = IF new.error # None THEN new.error ELSE now.error
        /\ m.sha = IF new.sha # None THEN new.sha ELSE now.sha
        /\ m.version = IF new.version # 1 THEN new.version ELSE now.version
  <2>1. PICK m : m = Written(old, new, now)
    OBVIOUS
  <2>2. /\ m \in DocRow
        /\ m.downloaded = IF new.downloaded # old.downloaded THEN new.downloaded ELSE now.downloaded
        /\ m.error = IF new.error # old.error THEN new.error ELSE now.error
        /\ m.sha = IF new.sha # old.sha THEN new.sha ELSE now.sha
        /\ m.version = IF new.version # old.version THEN new.version ELSE now.version
    BY <2>1, WrittenRow
  <2>3. old.downloaded = FALSE /\ new.downloaded \in BOOLEAN /\ now.downloaded \in BOOLEAN
    BY <1>4 DEF DocRow
  <2>4. m.downloaded <=> new.downloaded \/ now.downloaded
    BY <2>2, <2>3
  <2> QED
    BY <1>4, <2>1, <2>2, <2>4
<1>6. PICK dirty, mine : dirty = Drop(r.dirty, d) /\ mine = Put(r.mine, d, m)
  OBVIOUS
<1>7. /\ dirty \in Table(DocRow) /\ DOMAIN dirty = DOMAIN r.dirty \ {d}
      /\ \A e \in DOMAIN dirty : dirty[e] = r.dirty[e]
      /\ mine \in Table(DocRow) /\ DOMAIN mine = DOMAIN r.mine \cup {d} /\ mine[d] = m
      /\ \A e \in DOMAIN mine \ {d} : mine[e] = r.mine[e]
  <2>1. dirty \in Table(DocRow)
    BY <1>1, <1>6, DropTable
  <2>2. mine \in Table(DocRow)
    BY <1>1, <1>2, <1>6, PutTable
  <2> QED
    BY <1>6, <2>1, <2>2 DEF Drop, Put
<1>8. PICK q : q = [r EXCEPT !.dirty = dirty, !.mine = mine]
  OBVIOUS
<1>9. /\ q \in BatchState /\ q.phase = "flush" /\ q.new = r.new /\ q.number = r.number
      /\ q.dirty = dirty /\ q.mine = mine /\ q.words = r.words
      /\ q.got = r.got /\ q.todo = r.todo /\ q.doc = r.doc
      /\ q.copy = r.copy /\ q.added = r.added /\ q.texts = r.texts
  BY <1>7, <1>8 DEF BatchState
<1>10. q = Flushed(r, d)
  BY <1>3, <1>5, <1>6, <1>8 DEF Flushed
<1>11. \A e : Adding(q, e) = Adding(r, e)
  BY <1>9 DEF Adding
<1>12. Behind(q)
  BY <1>2, <1>7, <1>9 DEF BatchOK, Done, Behind
<1>13. Failures(q, q.doc)
  BY <1>7, <1>9 DEF BatchOK, Done, Failures
<1>14. Inserts(q)
  BY <1>7, <1>9, <1>11 DEF BatchOK, Done, Inserts
<1>15. /\ Consistent(now, versions[d]) /\ (now.downloaded => Present(d, now.sha))
  BY <1>2, <1>3 DEF DocumentsInv, RowsOK
<1>16. CASE d = r.doc
  <2>1. /\ new.downloaded /\ new.sha = r.got /\ new.version = IF r.new THEN r.number ELSE 1
    BY <1>3, <1>16 DEF BatchOK, AtHand, Verdict
  <2>2. Stored(r) /\ r.phase # "resolve" /\ d # None
    BY <1>2, <1>16, DocumentAssumption DEF Stored
  <2>3. r.got \in Contents /\ r.got # None
    BY <2>2, DocumentAssumption DEF BatchOK, AtHand, Bytes, Present
  <2>4. m.downloaded /\ m.sha = r.got
    BY <1>5, <2>1, <2>3
  <2>5. Settles(m, d)
    BY <1>3, <1>5, <2>4 DEF Settles
  <2>6. Writes(q, q.doc)
    BY <1>7, <1>9, <1>11, <1>16, <2>5 DEF BatchOK, Done, Writes
  <2>7. m.version \in Numbers(d) \/ (r.new /\ m.version = r.number)
    <3>1. now.downloaded => now.version \in Numbers(d)
      BY <1>15 DEF Consistent, Numbers
    <3>2. ~now.downloaded => now.version = 1
      BY <1>15 DEF Consistent
    <3>3. CASE r.new
      BY <1>5, <2>1, <3>1, <3>2, <3>3
    <3>4. CASE ~r.new
      <4>1. Known(d, r.got)
        BY <1>16, <2>2, <3>4 DEF BatchOK, AtHand, Verdict
      <4>2. now.downloaded
        BY <1>15, <4>1 DEF Consistent, Known
      <4> QED
        BY <1>5, <2>1, <3>1, <3>4, <4>2
    <3> QED
      BY <3>3, <3>4
  <2>8. Place(q) /\ Bytes(q)
    BY <1>7, <1>9, <1>16 DEF BatchOK, AtHand, Place, Bytes, Stored, Fetching
  <2>9. Verdict(q)
    BY <1>7, <1>9, <1>16, <2>4, <2>7 DEF BatchOK, AtHand, Verdict, Stored
  <2> QED
    BY <1>7, <1>9, <1>10, <1>12, <1>13, <1>14, <2>6, <2>8, <2>9 DEF BatchOK, Done, AtHand
<1>17. CASE d # r.doc
  <2>1. ~new.downloaded /\ new.error # None /\ new.sha = None /\ new.version = 1
    BY <1>3, <1>17 DEF BatchOK, Done, Failures
  <2>2. /\ m.downloaded <=> now.downloaded
        /\ m.error # None /\ m.sha = now.sha /\ m.version = now.version
    BY <1>5, <2>1
  <2>3. Settles(m, d)
    BY <1>3, <2>2 DEF Settles
  <2>4. Adding(r, d) = {}
    BY <1>2 DEF Adding, BatchOK, Done, Inserts
  <2>5. Consistent(m, versions[d] \cup Adding(q, d))
    <3>1. versions[d] \cup Adding(q, d) = versions[d]
      BY <1>11, <2>4
    <3> QED
      BY <1>15, <2>2, <3>1 DEF Consistent
  <2>6. m.downloaded => Present(d, m.sha)
    BY <1>15, <2>2
  <2>7. Writes(q, q.doc)
    <3>1. \A e \in DOMAIN r.mine \ {r.doc} :
            /\ Consistent(r.mine[e], versions[e] \cup Adding(r, e))
            /\ r.mine[e].downloaded => Present(e, r.mine[e].sha)
      BY DEF BatchOK, Done, Writes
    <3>2. ASSUME NEW e \in DOMAIN q.mine
          PROVE  Settles(q.mine[e], e)
      BY <1>7, <1>9, <2>3 DEF BatchOK, Done, Writes
    <3>3. ASSUME NEW e \in DOMAIN q.mine \ {q.doc}
          PROVE  /\ Consistent(q.mine[e], versions[e] \cup Adding(q, e))
                 /\ q.mine[e].downloaded => Present(e, q.mine[e].sha)
      <4>1. CASE e = d
        BY <1>7, <1>9, <2>5, <2>6, <4>1
      <4>2. CASE e # d
        <5>1. e \in DOMAIN r.mine \ {r.doc} /\ q.mine[e] = r.mine[e] /\ Adding(q, e) = Adding(r, e)
          BY <1>7, <1>9, <1>11, <4>2
        <5> QED
          BY <3>1, <5>1
      <4> QED
        BY <4>1, <4>2
    <3> QED
      BY <3>2, <3>3 DEF Writes
  <2>8. Place(q) /\ Bytes(q)
    BY <1>7, <1>9, <1>17 DEF BatchOK, AtHand, Place, Bytes, Stored, Fetching
  <2>9. Verdict(q)
    BY <1>7, <1>9, <1>17 DEF BatchOK, AtHand, Verdict, Stored
  <2> QED
    BY <1>7, <1>9, <1>10, <1>12, <1>13, <1>14, <2>7, <2>8, <2>9 DEF BatchOK, Done, AtHand
<1> QED
  BY <1>16, <1>17

LEMMA FlushRowKeeps ==
  ASSUME DocumentsInv, NEW b \in Batches, NEW d \in Docs, FlushRow(b, d)
  PROVE  DocumentsInv'
<1>1. PICK r : r = batch[b] /\ r \in BatchState /\ BatchOK(r)
  BY InvFacts
<1>2. /\ r.phase = "flush" /\ d \in DOMAIN r.dirty /\ faults' \in 0 .. MaxFaults
      /\ UNCHANGED <<backend, row, versions, text, blob>> /\ Becomes(b, Flushed(r, d))
      /\ \A x \in Batches \ {b} : d \notin DOMAIN batch[x].mine
  BY <1>1 DEF FlushRow, At, Locked, DocumentsInv, Typed
<1>3. PICK q : q = Flushed(r, d) /\ q \in BatchState /\ BatchOK(q) /\ DOMAIN q.mine = DOMAIN r.mine \cup {d}
  BY <1>1, <1>2, FlushedOK
<1>4. \A x \in Batches \ {b} : \A e \in DOMAIN q.mine : e \notin DOMAIN batch[x].mine
  BY <1>1, <1>2, <1>3 DEF DocumentsInv, LocksApart
<1> QED
  BY <1>2, <1>3, <1>4, PrivateStep

LEMMA FlushInsertsKeeps ==
  ASSUME DocumentsInv, NEW b \in Batches, FlushInserts(b)
  PROVE  DocumentsInv'
<1>1. PICK r : r = batch[b] /\ r \in BatchState /\ BatchOK(r)
  BY InvFacts
<1>2. /\ r.phase = "flush" /\ r.dirty = <<>> /\ r.doc # None /\ ~Collides(r) /\ faults' \in 0 .. MaxFaults
      /\ UNCHANGED <<backend, row, versions, text, blob>>
      /\ Becomes(b, Onward([r EXCEPT
           !.added = IF r.new THEN @ \cup {<<r.doc, [number |-> r.number, sha |-> r.got, by |-> b]>>} ELSE @,
           !.texts = IF r.words # None THEN Put(@, r.doc, r.words) ELSE @]))
  BY <1>1 DEF FlushInserts, Flushing, At, DocumentsInv, Typed
<1>3. /\ DOMAIN r.dirty = {} /\ r.doc \in DOMAIN r.mine /\ Stored(r) /\ Present(r.doc, r.got)
      /\ r.got \in Contents /\ \A a \in r.added : a[1] # r.doc
  <2>1. DOMAIN r.dirty = {}
    BY <1>2, EmptyTable
  <2> QED
    BY <1>1, <1>2, <2>1 DEF BatchOK, AtHand, Place, Bytes, Stored, Present
<1>4. PICK d \in Docs : d = r.doc
  BY <1>1, <1>2, BatchFields
<1>5. PICK v \in DocVersion : v = [number |-> r.number, sha |-> r.got, by |-> b]
  <2>1. r.number \in Nat
    BY <1>1, BatchFields
  <2> QED
    BY <1>3, <2>1 DEF DocVersion
<1>6. PICK added : added = IF r.new THEN r.added \cup {<<d, v>>} ELSE r.added
  OBVIOUS
<1>7. PICK texts : texts = IF r.words # None THEN Put(r.texts, d, r.words) ELSE r.texts
  OBVIOUS
<1>8. added \in Insertions
  BY <1>1, <1>6, BatchFields DEF Insertions
<1>9. /\ r.words # None => r.new /\ r.words.of = r.got /\ (backend = "s3" => r.words.whole)
      /\ r.mine[d].downloaded /\ r.mine[d].sha = r.got
      /\ r.mine[d].version \in Numbers(d) \/ (r.new /\ r.mine[d].version = r.number)
      /\ IF r.new THEN r.number # 0 /\ \A i \in 1 .. r.number - 1 : i \in Numbers(d) ELSE Known(d, r.got)
  BY <1>1, <1>2, <1>3, <1>4 DEF BatchOK, AtHand, Verdict
<1>10. /\ texts \in Table(TextRow)
       /\ \A e \in DOMAIN texts : \/ e \in DOMAIN r.texts /\ texts[e] = r.texts[e]
                                  \/ e = d /\ texts[e] = r.words /\ r.words # None
  <2>1. r.texts \in Table(TextRow) /\ (r.words # None => r.words \in TextRow)
    BY <1>1, BatchFields
  <2>2. CASE r.words # None
    <3>1. texts \in Table(TextRow)
      BY <1>7, <2>1, <2>2, PutTable
    <3> QED
      BY <1>7, <2>2, <3>1 DEF Put
  <2>3. CASE r.words = None
    BY <1>7, <2>1, <2>3
  <2> QED
    BY <2>2, <2>3
<1>11. PICK q : q = [r EXCEPT !.added = added, !.texts = texts]
  OBVIOUS
<1>12. /\ q \in BatchState /\ q.dirty = r.dirty /\ q.mine = r.mine /\ q.todo = r.todo
       /\ q.copy = r.copy /\ q.added = added /\ q.texts = texts
  BY <1>1, <1>8, <1>10, <1>11 DEF BatchState
<1>13. Becomes(b, Onward(q))
  BY <1>2, <1>4, <1>5, <1>6, <1>7, <1>11
<1>14. /\ \A e : Adding(r, e) \subseteq Adding(q, e)
       /\ \A e : e # d => Adding(q, e) = Adding(r, e)
       /\ Adding(r, d) = {}
       /\ Adding(q, d) = IF r.new THEN {v} ELSE {}
  <2>1. Adding(r, d) = {}
    BY <1>3, <1>4 DEF Adding
  <2>2. \A e : Adding(q, e) = IF r.new /\ e = d THEN Adding(r, e) \cup {v} ELSE Adding(r, e)
    <3>1. CASE r.new
      <4>1. added = r.added \cup {<<d, v>>}
        BY <1>6, <3>1
      <4>2. \A e : {x \in added : x[1] = e}
                   = {x \in r.added : x[1] = e} \cup (IF e = d THEN {<<d, v>>} ELSE {})
        BY <4>1
      <4>3. \A e : e # d => Adding(q, e) = Adding(r, e)
        BY <1>12, <4>2 DEF Adding
      <4>4. Adding(q, d) = Adding(r, d) \cup {v}
        <5>1. {x \in added : x[1] = d} = {x \in r.added : x[1] = d} \cup {<<d, v>>}
          BY <4>2
        <5>2. <<d, v>>[2] = v
          OBVIOUS
        <5>3. {a[2] : a \in {x \in r.added : x[1] = d} \cup {<<d, v>>}}
              = {a[2] : a \in {x \in r.added : x[1] = d}} \cup {v}
          BY <5>2
        <5> QED
          BY <1>12, <5>1, <5>3 DEF Adding
      <4> QED
        BY <3>1, <4>3, <4>4
    <3>2. CASE ~r.new
      BY <1>6, <1>12, <3>2 DEF Adding
    <3> QED
      BY <3>1, <3>2
  <2> QED
    BY <2>1, <2>2
<1>15. Consistent(r.mine[d], versions[d] \cup Adding(q, d))
  <2>1. /\ Consistent(row[d], versions[d]) /\ versions[d] \subseteq DocVersion
    BY DEF DocumentsInv, RowsOK, Typed
  <2>2. PICK n \in Nat : Numbers(d) = 1 .. n
    BY <2>1 DEF Consistent, Numbers
  <2>3. PICK m : m = r.mine[d] /\ m.downloaded /\ m.sha = r.got
                 /\ (m.version \in Numbers(d) \/ (r.new /\ m.version = r.number))
    BY <1>9
  <2>4. PICK vs : vs = versions[d] \cup Adding(q, d)
    OBVIOUS
  <2>5. CASE r.new
    <3>1. vs = versions[d] \cup {v} /\ v.sha = r.got /\ v.number = r.number
      BY <1>5, <1>14, <2>4, <2>5
    <3>2. \A w \in versions[d] : w.sha # r.got
      BY <1>2, <1>4, <2>5 DEF Collides, Known
    <3>3. \A w, x \in vs : w.sha = x.sha => w = x
      BY <2>1, <3>1, <3>2 DEF Consistent
    <3>4. {w.number : w \in vs} = 1 .. n \cup {r.number}
      BY <2>2, <3>1 DEF Numbers
    <3>5. r.number \in Nat /\ r.number # 0 /\ r.number <= n + 1
      <4>1. r.number \in Nat /\ r.number # 0 /\ \A i \in 1 .. r.number - 1 : i \in 1 .. n
        BY <1>1, <1>9, <2>2, <2>5, BatchFields
      <4>2. CASE r.number = 1
        BY <4>2
      <4>3. CASE r.number # 1
        <5>1. r.number - 1 \in 1 .. r.number - 1
          BY <4>1, <4>3
        <5>2. r.number - 1 \in 1 .. n
          BY <4>1, <5>1
        <5> QED
          BY <4>1, <5>2
      <4> QED
        BY <4>1, <4>2, <4>3
    <3>6. \E k \in Nat : {w.number : w \in vs} = 1 .. k
      <4>1. CASE r.number = n + 1
        <5>1. n + 1 \in Nat /\ {w.number : w \in vs} = 1 .. n + 1
          BY <3>4, <4>1
        <5> QED
          BY <5>1
      <4>2. CASE r.number # n + 1
        <5>1. {w.number : w \in vs} = 1 .. n
          BY <3>4, <3>5, <4>2
        <5> QED
          BY <5>1
      <4> QED
        BY <4>1, <4>2
    <3>7. \E w \in vs : w.number = m.version
      BY <2>3, <3>1 DEF Numbers
    <3>8. Consistent(m, vs)
      BY <2>3, <3>1, <3>3, <3>6, <3>7 DEF Consistent
    <3> QED
      BY <2>3, <2>4, <3>8
  <2>6. CASE ~r.new
    <3>1. vs = versions[d]
      BY <1>14, <2>4, <2>6
    <3>2. Known(d, r.got) /\ m.version \in Numbers(d)
      BY <1>9, <2>3, <2>6
    <3>3. Consistent(m, vs)
      BY <2>1, <2>3, <3>1, <3>2 DEF Consistent, Known, Numbers
    <3> QED
      BY <2>3, <2>4, <3>3
  <2> QED
    BY <2>5, <2>6
<1>16. Behind(q) /\ Failures(q, None)
  BY <1>1, <1>3, <1>12 DEF BatchOK, Done, Behind, Failures
<1>17. Writes(q, None)
  <2>1. /\ \A e \in DOMAIN r.mine : Settles(r.mine[e], e)
        /\ \A e \in DOMAIN r.mine \ {d} : /\ Consistent(r.mine[e], versions[e] \cup Adding(r, e))
                                          /\ r.mine[e].downloaded => Present(e, r.mine[e].sha)
    BY <1>1, <1>4 DEF BatchOK, Done, Writes
  <2>2. \A e \in DOMAIN r.mine : e # d => Adding(q, e) = Adding(r, e)
    BY <1>14
  <2>3. Present(d, r.mine[d].sha)
    BY <1>3, <1>4, <1>9
  <2>4. ASSUME NEW e \in DOMAIN r.mine
        PROVE  /\ Consistent(r.mine[e], versions[e] \cup Adding(q, e))
               /\ r.mine[e].downloaded => Present(e, r.mine[e].sha)
    <3>1. CASE e = d
      BY <1>15, <2>3, <3>1
    <3>2. CASE e # d
      BY <2>1, <2>2, <3>2
    <3> QED
      BY <3>1, <3>2
  <2> QED
    BY <1>12, <2>1, <2>4 DEF Writes
<1>18. Inserts(q)
  <2>1. \A a \in added : a[1] \in DOMAIN r.mine
    BY <1>1, <1>3, <1>4, <1>6 DEF BatchOK, Done, Inserts
  <2>2. ASSUME NEW e \in DOMAIN texts
        PROVE  /\ \E w \in Adding(q, e) : w.sha = texts[e].of
               /\ backend = "s3" => texts[e].whole
    <3>1. CASE e \in DOMAIN r.texts /\ texts[e] = r.texts[e]
      BY <1>1, <1>14, <3>1 DEF BatchOK, Done, Inserts
    <3>2. CASE e = d /\ texts[e] = r.words /\ r.words # None
      <4>1. v \in Adding(q, d) /\ v.sha = r.got
        BY <1>5, <1>9, <1>14, <3>2
      <4> QED
        BY <1>9, <3>2, <4>1
    <3> QED
      BY <1>10, <3>1, <3>2
  <2> QED
    BY <1>12, <2>1, <2>2 DEF Inserts
<1>19. PICK o : o = Onward(q) /\ o \in BatchState /\ BatchOK(o) /\ o.mine = q.mine
  BY <1>12, <1>16, <1>17, <1>18, OnwardOK DEF Done
<1> QED
  BY <1>1, <1>2, <1>12, <1>13, <1>19, PrivateWork

LEMMA SelectKeeps ==
  ASSUME DocumentsInv, NEW b \in Batches, Select(b)
  PROVE  DocumentsInv'
<1>1. PICK chosen \in SUBSET Pending : chosen = Oldest(Pending, BatchLimit)
  BY DEF Oldest
<1>2. chosen \subseteq Docs
  BY <1>1 DEF Pending
<1>3. PICK copy : copy = [d \in chosen |-> row[d]]
  OBVIOUS
<1>4. copy \in Table(DocRow) /\ DOMAIN copy = chosen /\ \A d \in chosen : copy[d] = row[d]
  <2>1. copy \in [chosen -> DocRow]
    BY <1>2, <1>3 DEF DocumentsInv, Typed
  <2> QED
    BY <1>2, <1>3, <2>1 DEF Table
<1>5. PICK q : q = [Idle EXCEPT !.todo = chosen, !.copy = copy]
  OBVIOUS
<1>6. /\ q \in BatchState /\ q.todo = chosen /\ q.copy = copy /\ q.dirty = <<>> /\ q.mine = <<>>
      /\ q.added = {} /\ q.texts = <<>>
  <2>1. chosen \in DocSets
    BY <1>2 DEF DocSets
  <2>2. Idle \in BatchState
    BY IdleOK
  <2>3. q \in BatchState /\ q.todo = chosen /\ q.copy = copy
    BY <1>4, <1>5, <2>1, <2>2 DEF BatchState
  <2> QED
    BY <1>5, <2>3 DEF Idle
<1>7. DOMAIN q.dirty = {} /\ DOMAIN q.mine = {} /\ DOMAIN q.texts = {}
  BY <1>6, EmptyTable
<1>8. ASSUME NEW d \in chosen
      PROVE  ~copy[d].downloaded /\ copy[d].error = None /\ copy[d].sha = None /\ copy[d].version = 1
  <2>1. d \in Docs /\ ~row[d].downloaded /\ row[d].error = None
    BY <1>1 DEF Pending
  <2> QED
    BY <1>4, <2>1 DEF DocumentsInv, RowsOK, Consistent
<1>9. Done(q, None)
  BY <1>4, <1>6, <1>7, <1>8 DEF Done, Behind, Failures, Writes, Inserts
<1>10. PICK o : o = Onward(q) /\ o \in BatchState /\ BatchOK(o) /\ o.mine = q.mine
  BY <1>6, <1>9, OnwardOK
<1>11. Becomes(b, o) /\ faults' \in 0 .. MaxFaults /\ UNCHANGED <<backend, row, versions, text, blob>>
  BY <1>1, <1>3, <1>5, <1>10 DEF Select, DocumentsInv, Typed
<1> QED
  BY <1>7, <1>10, <1>11, PrivateWork

-----------------------------------------------------------------------------
(* The commit, and batches that end without one                            *)

\* What a commit makes of the row and the versions of a document.
LEMMA Committed ==
  ASSUME DocumentsInv, NEW b \in Batches, Commit(b), NEW d \in Docs
  PROVE  /\ d \in DOMAIN batch[b].mine =>
              /\ row'[d] = batch[b].mine[d] /\ Settles(batch[b].mine[d], d)
              /\ Consistent(batch[b].mine[d], versions'[d])
              /\ batch[b].mine[d].downloaded => Present(d, batch[b].mine[d].sha)
         /\ d \notin DOMAIN batch[b].mine => row'[d] = row[d] /\ versions'[d] = versions[d]
         /\ versions'[d] = versions[d] \cup Adding(batch[b], d)
<1>1. PICK r : r = batch[b] /\ r \in BatchState /\ BatchOK(r)
  BY InvFacts
<1>2. r.doc = None /\ None \notin Docs
  BY <1>1, DocumentAssumption DEF Commit
<1>3. /\ row'[d] = IF d \in DOMAIN r.mine THEN r.mine[d] ELSE row[d]
      /\ versions'[d] = versions[d] \cup Adding(r, d)
  BY <1>1 DEF Commit, Adding
<1>4. CASE d \in DOMAIN r.mine
  <2>1. /\ Settles(r.mine[d], d) /\ Consistent(r.mine[d], versions[d] \cup Adding(r, d))
        /\ r.mine[d].downloaded => Present(d, r.mine[d].sha)
    BY <1>1, <1>2, <1>4 DEF BatchOK, Done, Writes
  <2>2. Consistent(r.mine[d], versions'[d])
    BY <1>3, <2>1
  <2> QED
    BY <1>1, <1>3, <1>4, <2>1, <2>2
<1>5. CASE d \notin DOMAIN r.mine
  <2>1. Adding(r, d) = {}
    BY <1>1, <1>5 DEF Adding, BatchOK, Done, Inserts
  <2> QED
    BY <1>1, <1>3, <1>5, <2>1
<1> QED
  BY <1>4, <1>5

LEMMA CommitKeeps ==
  ASSUME DocumentsInv, NEW b \in Batches, Commit(b)
  PROVE  DocumentsInv'
<1>1. PICK r : r = batch[b] /\ r \in BatchState /\ BatchOK(r)
  BY InvFacts
<1>2. /\ UNCHANGED <<backend, blob, faults>> /\ Becomes(b, Idle)
      /\ row' = [d \in Docs |-> IF d \in DOMAIN r.mine THEN r.mine[d] ELSE row[d]]
      /\ versions' = [d \in Docs |-> versions[d] \cup Adding(r, d)]
      /\ text' = [d \in Docs |-> IF d \in DOMAIN r.texts THEN r.texts[d] ELSE text[d]]
  BY <1>1 DEF Commit, Adding
<1>3. Idle \in BatchState /\ BatchOK(Idle) /\ DOMAIN Idle.mine = {}
  BY IdleOK
<1>4. /\ batch' \in [Batches -> BatchState] /\ batch'[b] = Idle
      /\ \A x \in Batches \ {b} : batch'[x] = batch[x]
  BY <1>2, <1>3 DEF Becomes, DocumentsInv, Typed
<1>5. Typed'
  <2>1. r.mine \in Table(DocRow) /\ r.texts \in Table(TextRow) /\ r.added \subseteq Docs \X DocVersion
    BY <1>1, BatchFields
  <2>2. /\ \A d \in DOMAIN r.mine : r.mine[d] \in DocRow
        /\ \A d \in DOMAIN r.texts : r.texts[d] \in TextRow
    BY <2>1, TableFacts
  <2>3. \A d \in Docs : Adding(r, d) \subseteq DocVersion
    BY <2>1 DEF Adding
  <2>4. row' \in [Docs -> DocRow]
    BY <1>2, <2>2 DEF DocumentsInv, Typed
  <2>5. versions' \in [Docs -> SUBSET DocVersion]
    BY <1>2, <2>3 DEF DocumentsInv, Typed
  <2>6. text' \in [Docs -> TextRow \cup {None}]
    BY <1>2, <2>2 DEF DocumentsInv, Typed
  <2> QED
    BY <1>2, <1>4, <2>4, <2>5, <2>6 DEF DocumentsInv, Typed
<1>6. RowsOK'
  <2> SUFFICES ASSUME NEW d \in Docs
               PROVE  /\ Consistent(row[d], versions[d])'
                      /\ (text[d] # None => Known(d, text[d].of) /\ (backend = "s3" => text[d].whole))'
                      /\ (row[d].downloaded => Present(d, row[d].sha))'
    BY DEF RowsOK
  <2>1. /\ Consistent(row[d], versions[d]) /\ (row[d].downloaded => Present(d, row[d].sha))
        /\ text[d] # None => Known(d, text[d].of) /\ (backend = "s3" => text[d].whole)
    BY DEF DocumentsInv, RowsOK
  <2>2. /\ d \in DOMAIN r.mine => /\ row'[d] = r.mine[d] /\ Consistent(r.mine[d], versions'[d])
                                  /\ r.mine[d].downloaded => Present(d, r.mine[d].sha)
        /\ d \notin DOMAIN r.mine => row'[d] = row[d] /\ versions'[d] = versions[d]
        /\ versions'[d] = versions[d] \cup Adding(r, d)
    BY <1>1, Committed
  <2>3. Consistent(row'[d], versions'[d]) /\ (row'[d].downloaded => Present(d, row'[d].sha))
    BY <2>1, <2>2
  <2>4. (row[d].downloaded => Present(d, row[d].sha))'
    BY <1>2, <2>3 DEF Present
  <2>5. Consistent(row[d], versions[d])'
    BY <2>3
  <2>6. (text[d] # None => Known(d, text[d].of) /\ (backend = "s3" => text[d].whole))'
    <3>1. CASE d \in DOMAIN r.texts
      <4>1. text'[d] = r.texts[d] /\ (\E v \in Adding(r, d) : v.sha = r.texts[d].of)
            /\ (backend = "s3" => r.texts[d].whole)
        BY <1>1, <1>2, <3>1 DEF BatchOK, Done, Inserts
      <4> QED
        BY <1>2, <2>2, <4>1 DEF Known
    <3>2. CASE d \notin DOMAIN r.texts
      <4>1. text'[d] = text[d]
        BY <1>2, <3>2
      <4> QED
        BY <1>2, <2>1, <2>2, <4>1 DEF Known
    <3> QED
      BY <3>1, <3>2
  <2> QED
    BY <2>4, <2>5, <2>6
<1>7. NoneCut' /\ LocksApart'
  BY <1>2, <1>3, <1>4 DEF DocumentsInv, NoneCut, LocksApart
<1>8. ASSUME NEW x \in Batches
      PROVE  BatchOK(batch[x])'
  <2>1. PICK y : y = batch'[x]
    OBVIOUS
  <2>2. /\ y \in BatchState /\ BatchOK(y)
        /\ \A d \in DOMAIN y.mine : d \in Docs /\ d \notin DOMAIN r.mine
    <3>1. CASE x = b
      BY <1>3, <1>4, <2>1, <3>1
    <3>2. CASE x # b
      <4>1. y = batch[x] /\ y \in BatchState /\ BatchOK(y)
        BY <1>4, <2>1, <3>2, InvFacts
      <4>2. DOMAIN y.mine \subseteq Docs
        BY <4>1, BatchFields, TableFacts
      <4> QED
        BY <1>1, <3>2, <4>1, <4>2 DEF DocumentsInv, LocksApart
    <3> QED
      BY <3>1, <3>2
  <2>3. Grows(y)
    <3>1. \A d \in DOMAIN y.mine : row'[d] = row[d] /\ versions'[d] = versions[d]
      BY <1>1, <2>2, Committed
    <3> QED
      BY <1>2, <3>1 DEF Grows
  <2>4. BatchOK(y)'
    BY <2>2, <2>3, StaysOK
  <2> QED
    BY <2>1, <2>4
<1> QED
  BY <1>5, <1>6, <1>7, <1>8 DEF DocumentsInv

LEMMA EndKeeps ==
  ASSUME DocumentsInv, NEW b \in Batches, Refused(b) \/ TimesOut(b) \/ Dies(b)
  PROVE  DocumentsInv'
<1>1. /\ Becomes(b, Idle) /\ faults' \in 0 .. MaxFaults
      /\ UNCHANGED <<backend, row, versions, text, blob>>
  BY DocumentAssumption DEF Refused, TimesOut, Dies, RolledBack, DocumentsInv, Typed
<1> QED
  BY <1>1, IdleOK, PrivateWork

LEMMA DeadlockVictimKeeps ==
  ASSUME DocumentsInv, NEW b \in Batches, DeadlockVictim(b)
  PROVE  DocumentsInv'
<1>1. PICK x \in Batches \ {b}, d \in Docs :
        /\ Waits(x, d, b) /\ batch' = [batch EXCEPT ![b] = Idle, ![x] = Flushed(@, d)]
        /\ UNCHANGED <<backend, row, versions, text, blob, faults>>
  BY DEF DeadlockVictim
<1>2. PICK r : r = batch[x] /\ r \in BatchState /\ BatchOK(r)
  BY InvFacts
<1>3. r.phase = "flush" /\ d \in DOMAIN r.dirty /\ d \in DOMAIN batch[b].mine
  BY <1>1, <1>2 DEF Waits, At, Locked
<1>4. PICK q : q = Flushed(r, d) /\ q \in BatchState /\ BatchOK(q) /\ DOMAIN q.mine = DOMAIN r.mine \cup {d}
  BY <1>2, <1>3, FlushedOK
<1>5. Idle \in BatchState /\ BatchOK(Idle) /\ DOMAIN Idle.mine = {}
  BY IdleOK
<1>6. /\ batch' \in [Batches -> BatchState] /\ batch'[b] = Idle /\ batch'[x] = q
      /\ \A y \in Batches \ {b, x} : batch'[y] = batch[y]
  BY <1>1, <1>2, <1>4, <1>5 DEF DocumentsInv, Typed
<1>7. Typed'
  BY <1>1, <1>6 DEF DocumentsInv, Typed
<1>8. RowsOK' /\ NoneCut'
  BY <1>1 DEF DocumentsInv, RowsOK, NoneCut, Consistent, Known, Present
<1>9. LocksApart'
  <2>1. \A y \in Batches \ {b, x} : \A e \in DOMAIN q.mine : e \notin DOMAIN batch[y].mine
    BY <1>2, <1>3, <1>4 DEF DocumentsInv, LocksApart
  <2> SUFFICES ASSUME NEW y \in Batches, NEW z \in Batches, y # z
               PROVE  DOMAIN batch'[y].mine \cap DOMAIN batch'[z].mine = {}
    BY DEF LocksApart
  <2>2. CASE y = b \/ z = b
    BY <1>5, <1>6, <2>2
  <2>3. CASE y # b /\ z # b
    <3>1. CASE y = x
      BY <1>6, <2>1, <2>3, <3>1
    <3>2. CASE z = x
      BY <1>6, <2>1, <2>3, <3>2
    <3>3. CASE y # x /\ z # x
      BY <1>6, <2>3, <3>3 DEF DocumentsInv, LocksApart
    <3> QED
      BY <3>1, <3>2, <3>3
  <2> QED
    BY <2>2, <2>3
<1>10. ASSUME NEW z \in Batches
       PROVE  BatchOK(batch[z])'
  <2>1. PICK y : y = batch'[z]
    OBVIOUS
  <2>2. y \in BatchState /\ BatchOK(y)
    <3>1. CASE z \in {b, x}
      BY <1>4, <1>5, <1>6, <2>1, <3>1
    <3>2. CASE z \notin {b, x}
      BY <1>6, <2>1, <3>2, InvFacts
    <3> QED
      BY <3>1, <3>2
  <2>3. Grows(y)
    BY <1>1 DEF Grows
  <2>4. BatchOK(y)'
    BY <2>2, <2>3, StaysOK
  <2> QED
    BY <2>1, <2>4
<1> QED
  BY <1>7, <1>8, <1>9, <1>10 DEF DocumentsInv

-----------------------------------------------------------------------------
(* The invariant is inductive                                              *)

LEMMA DocumentsStart == Init => DocumentsInv
<1> SUFFICES ASSUME Init
             PROVE  DocumentsInv
  OBVIOUS
<1>1. NewRow \in DocRow /\ ~NewRow.downloaded /\ NewRow.sha = None /\ NewRow.version = 1
  BY DEF NewRow, DocRow
<1>2. NoObject \in Object /\ NoObject.data = "absent"
  BY DEF NoObject, Object
<1>3. Idle \in BatchState /\ BatchOK(Idle) /\ DOMAIN Idle.mine = {}
  BY IdleOK
<1>4. Typed
  <2>1. row \in [Docs -> DocRow] /\ blob \in [Keys -> Object] /\ batch \in [Batches -> BatchState]
    BY <1>1, <1>2, <1>3 DEF Init
  <2> QED
    BY <2>1, DocumentAssumption DEF Init, Typed
<1>5. RowsOK
  <2> SUFFICES ASSUME NEW d \in Docs
               PROVE  /\ Consistent(row[d], versions[d])
                      /\ text[d] # None => Known(d, text[d].of) /\ (backend = "s3" => text[d].whole)
                      /\ row[d].downloaded => Present(d, row[d].sha)
    BY DEF RowsOK
  <2>1. row[d] = NewRow /\ versions[d] = {} /\ text[d] = None
    BY DEF Init
  <2>2. {v.number : v \in {}} = 1 .. 0 /\ 0 \in Nat
    OBVIOUS
  <2> QED
    BY <1>1, <2>1, <2>2 DEF Consistent
<1>6. NoneCut /\ LocksApart
  BY <1>2, <1>3 DEF Init, NoneCut, LocksApart
<1>7. \A b \in Batches : BatchOK(batch[b])
  <2>1. \A b \in Batches : batch[b] = Idle
    BY DEF Init
  <2> QED
    BY <1>3, <2>1
<1> QED
  BY <1>4, <1>5, <1>6, <1>7 DEF DocumentsInv

LEMMA DocumentsStep == DocumentsInv /\ [Next]_vars => DocumentsInv'
<1> SUFFICES ASSUME DocumentsInv, [Next]_vars
             PROVE  DocumentsInv'
  OBVIOUS
<1>1. CASE UNCHANGED vars
  <2>1. UNCHANGED <<backend, row, versions, text, blob, batch, faults>>
    BY <1>1 DEF vars
  <2>2. Typed' /\ RowsOK' /\ NoneCut' /\ LocksApart'
    <3>1. Typed' /\ NoneCut' /\ LocksApart'
      BY <2>1 DEF DocumentsInv, Typed, NoneCut, LocksApart
    <3>2. RowsOK'
      BY <2>1 DEF DocumentsInv, RowsOK, Consistent, Known, Present
    <3> QED
      BY <3>1, <3>2
  <2>3. ASSUME NEW b \in Batches
        PROVE  BatchOK(batch[b])'
    <3>1. PICK r : r = batch'[b] /\ r = batch[b] /\ r \in BatchState /\ BatchOK(r)
      BY <2>1, InvFacts
    <3>2. Grows(r)
      BY <2>1 DEF Grows
    <3>3. BatchOK(r)'
      BY <3>1, <3>2, StaysOK
    <3> QED
      BY <3>1, <3>3
  <2> QED
    BY <2>2, <2>3 DEF DocumentsInv
<1>2. ASSUME NEW b \in Batches, Step(b)
      PROVE  DocumentsInv'
  <2>1. CASE Select(b)
    BY <2>1, SelectKeeps
  <2>2. CASE Trickle(b) \/ Stall(b)
    BY <2>2, TrickleKeeps
  <2>3. CASE (\E c \in Contents : Fetched(b, c)) \/ (\E e \in FetchErrors : FetchFails(b, e))
    BY <2>3, FetchKeeps
  <2>4. CASE Exists(b)
    BY <2>4, ExistsKeeps
  <2>5. CASE Open(b)
    BY <2>5, OpenKeeps
  <2>6. CASE Upload(b)
    BY <2>6, UploadKeeps
  <2>7. CASE StoreFails(b)
    BY <2>7, StoreFailsKeeps
  <2>8. CASE Resolve(b)
    BY <2>8, ResolveKeeps
  <2>9. CASE Extract(b)
    BY <2>9, ExtractKeeps
  <2>10. CASE \E d \in Docs : FlushRow(b, d)
    BY <2>10, FlushRowKeeps
  <2>11. CASE FlushInserts(b)
    BY <2>11, FlushInsertsKeeps
  <2>12. CASE Commit(b)
    BY <2>12, CommitKeeps
  <2>13. CASE Refused(b) \/ TimesOut(b) \/ Dies(b)
    BY <2>13, EndKeeps
  <2>14. CASE DeadlockVictim(b)
    BY <2>14, DeadlockVictimKeeps
  <2> QED
    BY <1>2, <2>1, <2>2, <2>3, <2>4, <2>5, <2>6, <2>7, <2>8, <2>9, <2>10, <2>11, <2>12, <2>13, <2>14
       DEF Step, Works
<1> QED
  BY <1>1, <1>2 DEF Next

THEOREM DocumentsInvariant == Spec => []DocumentsInv
  BY DocumentsStart, DocumentsStep, PTL DEF Spec


-----------------------------------------------------------------------------
(* Theorems                                                                *)

LEMMA InvTypes == DocumentsInv => DocumentsTypeOK
<1> SUFFICES ASSUME DocumentsInv
             PROVE  DocumentsTypeOK
  OBVIOUS
<1>1. ASSUME NEW b \in Batches
      PROVE  /\ batch[b].phase \in Phases /\ batch[b].spent \in 0 .. JobTimeout
             /\ DOMAIN batch[b].dirty \cup DOMAIN batch[b].mine \cup DOMAIN batch[b].texts
                  \subseteq DOMAIN batch[b].copy
             /\ \A d \in DOMAIN batch[b].mine : batch[b].mine[d] \in DocRow
  <2>1. PICK r : r = batch[b] /\ r \in BatchState /\ BatchOK(r)
    BY InvFacts
  <2>2. r.phase \in Phases /\ r.spent \in 0 .. JobTimeout /\ r.mine \in Table(DocRow)
    BY <2>1 DEF BatchState, Times
  <2>3. \A d \in DOMAIN r.mine : r.mine[d] \in DocRow
    BY <2>2, TableFacts
  <2>4. \A d \in DOMAIN r.texts : d \in DOMAIN r.mine
    BY <2>1 DEF BatchOK, Done, Inserts, Adding
  <2> QED
    BY <2>1, <2>2, <2>3, <2>4 DEF BatchOK, Done, Behind
<1>2. \A d \in Docs : versions[d] \subseteq DocVersion /\ text[d] \in TextRow \cup {None}
  BY DEF DocumentsInv, Typed
<1> QED
  BY <1>1, <1>2 DEF DocumentsTypeOK, DocumentsInv, Typed

\* The program's variables stay in their ranges, and what a batch has flushed or is
\* about to flush is of documents it loaded (process_documents, tasks.py:226).
THEOREM DocumentTypeSafe == Spec => []DocumentsTypeOK
  BY DocumentsInvariant, InvTypes, PTL

LEMMA InvAgrees == DocumentsInv => RecordsAgree
<1> SUFFICES ASSUME DocumentsInv, NEW d \in Docs
             PROVE  /\ row[d].downloaded <=> versions[d] # {}
                    /\ row[d].downloaded => Known(d, row[d].sha) /\ row[d].version \in Numbers(d)
                    /\ Numbers(d) = 1 .. Latest(d)
                    /\ \A v, w \in versions[d] : v.sha = w.sha => v = w
                    /\ text[d] # None => Known(d, text[d].of)
  BY DEF RecordsAgree, Numbers
<1>1. Consistent(row[d], versions[d]) /\ (text[d] # None => Known(d, text[d].of))
  BY DEF DocumentsInv, RowsOK
<1>2. PICK n \in Nat : Numbers(d) = 1 .. n
  BY <1>1 DEF Consistent, Numbers
<1>3. Numbers(d) = 1 .. Latest(d)
  BY <1>2, LatestFound
<1> QED
  BY <1>1, <1>3 DEF Consistent, Known, Numbers

\* The row, the versions and the text of a document agree whatever batches overlap on it:
\* the partial UPDATE, the row locks and the unique key are enough (models/document.py).
THEOREM DocumentRecordsAgree == Spec => []RecordsAgree
  BY DocumentsInvariant, InvAgrees, PTL

LEMMA InvStored == DocumentsInv => DownloadedIsStored
<1> SUFFICES ASSUME DocumentsInv, NEW d \in Docs, row[d].downloaded
             PROVE  LET k == Key(d, row[d].sha) IN
                    /\ blob[k].data # "absent"
                    /\ blob[k].data = "cut" => backend = "local"
                    /\ text[d] # None /\ ~text[d].whole => backend = "local"
  BY DEF DownloadedIsStored
<1>1. Present(d, row[d].sha) /\ (text[d] # None => (backend = "s3" => text[d].whole))
  BY DEF DocumentsInv, RowsOK
<1>2. Key(d, row[d].sha) \in Keys
  BY <1>1 DEF Present, Keys
<1>3. backend \in {"local", "s3"}
  BY DocumentAssumption DEF DocumentsInv, Typed
<1> QED
  BY <1>1, <1>2, <1>3 DEF DocumentsInv, NoneCut, Present

\* A downloaded row names an object of the store, on S3 a complete one, though the
\* store takes no part in the transaction (downloader.py:133).
THEOREM DocumentsAreStored == Spec => []DownloadedIsStored
  BY DocumentsInvariant, InvStored, PTL

\* Only a commit touches what is committed.
LEMMA OnlyCommits ==
  ASSUME NEW b \in Batches, Step(b), ~Commit(b)
  PROVE  UNCHANGED <<row, versions>>
BY DEF Step, Works, Select, Trickle, Stall, Fetched, FetchFails, Exists, Open, Upload, StoreFails, Resolve,
       Extract, FlushRow, FlushInserts, Refused, DeadlockVictim, TimesOut, Dies, RolledBack

LEMMA StepSettles ==
  ASSUME DocumentsInv, [Next]_vars, NEW d \in Docs
  PROVE  /\ versions[d] \subseteq versions'[d]
         /\ d \notin Pending => d \notin Pending'
         /\ row[d].downloaded => row'[d].downloaded
<1>1. CASE UNCHANGED <<row, versions>>
  BY <1>1 DEF Pending
<1>2. ASSUME NEW b \in Batches, Commit(b)
      PROVE  /\ versions[d] \subseteq versions'[d]
             /\ d \notin Pending => d \notin Pending'
             /\ row[d].downloaded => row'[d].downloaded
  <2>1. PICK r : r = batch[b]
    OBVIOUS
  <2>2. /\ d \in DOMAIN r.mine => row'[d] = r.mine[d] /\ Settles(r.mine[d], d)
        /\ d \notin DOMAIN r.mine => row'[d] = row[d]
        /\ versions'[d] = versions[d] \cup Adding(r, d)
    BY <1>2, <2>1, Committed
  <2>3. /\ row'[d].downloaded \/ row'[d].error # None \/ row'[d] = row[d]
        /\ row[d].downloaded => row'[d].downloaded
    BY <2>2 DEF Settles
  <2> QED
    BY <2>2, <2>3 DEF Pending
<1> QED
  BY <1>1, <1>2, OnlyCommits DEF Next, vars

\* No stale copy that a batch writes back un-downloads a document, returns it to the
\* pending ones or takes a version away.
THEOREM SettledDocumentsStay == Spec => SettledStays
<1>1. DocumentsInv /\ [Next]_vars =>
        [\A d \in Docs : /\ versions[d] \subseteq versions'[d]
                         /\ d \notin Pending => d \notin Pending'
                         /\ row[d].downloaded => row'[d].downloaded]_vars
  BY StepSettles
<1> QED
  BY <1>1, DocumentsInvariant, PTL DEF Spec, SettledStays

-----------------------------------------------------------------------------
(* Writes to the local store                                               *)

\* An object that is not complete is being written by who opened it last.
WritersOpen == faults = 0 => \A k \in Keys : blob[k].data = "cut" =>
  LET r == batch[blob[k].by] IN
  blob[k].by \in Batches /\ r.phase = "upload" /\ Key(r.doc, r.got) = k

LEMMA WritersStep == DocumentsInv /\ WritersOpen /\ [Next]_vars => WritersOpen'
<1> SUFFICES ASSUME DocumentsInv, WritersOpen, [Next]_vars, faults' = 0,
                    NEW k \in Keys, blob'[k].data = "cut"
             PROVE  LET r == batch'[blob'[k].by] IN
                    blob'[k].by \in Batches /\ r.phase = "upload" /\ Key(r.doc, r.got) = k
  BY DEF WritersOpen
<1>1. faults \in Nat /\ batch \in [Batches -> BatchState] /\ blob \in [Keys -> Object]
  BY DocumentAssumption DEF DocumentsInv, Typed
<1> DEFINE w == blob[k].by
\* Who does not write goes on, and the object stays as it is.
<1>2. ASSUME NEW b \in Batches, batch[b].phase # "upload", NEW r, batch' = [batch EXCEPT ![b] = r],
             UNCHANGED <<blob, faults>>
      PROVE  w \in Batches /\ batch'[w].phase = "upload" /\ Key(batch'[w].doc, batch'[w].got) = k
  BY <1>1, <1>2 DEF WritersOpen
<1>3. CASE UNCHANGED vars
  BY <1>1, <1>3 DEF WritersOpen, vars
<1>4. ASSUME NEW b \in Batches, Step(b)
      PROVE  LET r == batch'[blob'[k].by] IN
             blob'[k].by \in Batches /\ r.phase = "upload" /\ Key(r.doc, r.got) = k
  <2>1. CASE Open(b)
    <3>1. PICK j \in Keys : j = Key(batch[b].doc, batch[b].got)
      <4>1. batch[b].got \in Contents /\ batch[b].doc \in Docs
        <5>1. PICK r : r = batch[b] /\ r \in BatchState /\ BatchOK(r)
          BY InvFacts
        <5> QED
          BY <2>1, <5>1, BatchFields DEF Open, At, BatchOK, AtHand, Place, Bytes, Fetching
      <4> QED
        BY <4>1 DEF Keys
    <3>2. /\ batch' = [batch EXCEPT ![b] = [batch[b] EXCEPT !.phase = "upload"]] /\ faults = 0
          /\ blob' = [blob EXCEPT ![j] = Opened(blob[j], b)] /\ batch[b].phase = "open"
      BY <2>1, <3>1 DEF Open, Becomes, At
    <3>3. /\ batch'[b].phase = "upload" /\ batch'[b].doc = batch[b].doc /\ batch'[b].got = batch[b].got
          /\ \A x \in Batches \ {b} : batch'[x] = batch[x]
      <4>1. PICK r : r = batch[b] /\ r \in BatchState
        BY <1>1
      <4>2. batch'[b] = [r EXCEPT !.phase = "upload"]
        BY <1>1, <3>2, <4>1
      <4> QED
        BY <1>1, <3>2, <4>1, <4>2 DEF BatchState
    <3>4. CASE j = k /\ backend = "local"
      <4>1. blob'[k].by = b
        BY <1>1, <3>2, <3>4 DEF Opened
      <4> QED
        BY <3>1, <3>3, <3>4, <4>1 DEF Key
    <3>5. CASE ~(j = k /\ backend = "local")
      <4>1. blob'[k] = blob[k]
        BY <1>1, <3>2, <3>5 DEF Opened
      <4>2. w \in Batches /\ batch[w].phase = "upload" /\ Key(batch[w].doc, batch[w].got) = k
        BY <3>2, <4>1 DEF WritersOpen
      <4> QED
        BY <3>2, <3>3, <4>1, <4>2
    <3> QED
      BY <3>4, <3>5
  <2>2. CASE Upload(b)
    <3>1. PICK j, o : /\ j = Key(batch[b].doc, batch[b].got) /\ o \in Closed(blob[j], b)
                      /\ blob' = [blob EXCEPT ![j] = o] /\ faults = 0
                      /\ \A x \in Batches \ {b} : batch'[x] = batch[x]
      BY <1>1, <2>2 DEF Upload, Becomes
    <3>2. blob'[k] = blob[k] /\ (j = k => w # b)
      <4>1. CASE j = k
        <5>1. blob'[k] = o /\ o.data = "cut" /\ o \in Closed(blob[k], b)
          BY <1>1, <3>1, <4>1
        <5>2. [blob[k] EXCEPT !.data = "whole"].data # "cut"
          BY <1>1 DEF Object
        <5> QED
          BY <5>1, <5>2 DEF Closed
      <4>2. CASE j # k
        BY <1>1, <3>1, <4>2
      <4> QED
        BY <4>1, <4>2
    <3>3. w \in Batches /\ batch[w].phase = "upload" /\ Key(batch[w].doc, batch[w].got) = k
      BY <3>1, <3>2 DEF WritersOpen
    <3>4. w # b
      BY <3>1, <3>2, <3>3
    <3> QED
      BY <3>1, <3>2, <3>3, <3>4
  <2>3. CASE TimesOut(b)
    <3>1. batch[b].phase # "upload"
      <4>1. PICK r : r = batch[b] /\ r \in BatchState /\ BatchOK(r)
        BY InvFacts
      <4>2. r.spent = JobTimeout /\ JobTimeout \in Nat
        BY <2>3, <4>1, DocumentAssumption DEF TimesOut
      <4> QED
        BY <4>1, <4>2 DEF BatchOK, AtHand, Bytes
    <3> QED
      BY <1>2, <2>3, <3>1 DEF TimesOut, RolledBack, Becomes
  <2>4. CASE StoreFails(b) \/ Stall(b) \/ Dies(b)
    <3>1. faults' = faults + 1
      BY <2>4 DEF StoreFails, Stall, Dies
    <3> QED
      BY <1>1, <3>1
  <2>5. CASE DeadlockVictim(b)
    <3>1. PICK x \in Batches, d \in Docs, e \in Docs : /\ Waits(b, e, x) /\ Waits(x, d, b) /\ x # b
                                     /\ batch' = [batch EXCEPT ![b] = Idle, ![x] = Flushed(@, d)]
                                     /\ UNCHANGED <<blob, faults>>
      BY <2>5 DEF DeadlockVictim
    <3>2. batch[b].phase = "flush" /\ batch[x].phase = "flush"
      BY <3>1 DEF Waits, At
    <3> QED
      BY <1>1, <3>1, <3>2 DEF WritersOpen
  <2>6. CASE Select(b) \/ Trickle(b) \/ Exists(b) \/ Resolve(b) \/ Extract(b)
    BY <1>2, <2>6 DEF Select, Trickle, Exists, Resolve, Extract, At, Becomes
  <2>7. CASE \/ \E d \in Docs : FlushRow(b, d)
             \/ FlushInserts(b) \/ Commit(b) \/ Refused(b)
    BY <1>2, <2>7 DEF FlushRow, FlushInserts, Commit, Refused, RolledBack, Flushing, At, Becomes
  <2>8. CASE (\E c \in Contents : Fetched(b, c)) \/ (\E e \in FetchErrors : FetchFails(b, e))
    BY <1>2, <2>8 DEF Fetched, FetchFails, At, Becomes
  <2> QED
    BY <1>4, <2>1, <2>2, <2>3, <2>4, <2>5, <2>6, <2>7, <2>8 DEF Step, Works
<1> QED
  BY <1>3, <1>4 DEF Next

\* While no worker dies and no write fails, whatever is incomplete in the local store is
\* being written: processes that open one path at a time leave a whole object behind.
THEOREM LocalObjectsGetWhole == Spec => []LocalWritesEnd
<1>1. Init => WritersOpen
  BY DEF Init, WritersOpen, NoObject
<1>2. WritersOpen => LocalWritesEnd
  BY DEF WritersOpen, LocalWritesEnd
<1> QED
  BY <1>1, <1>2, WritersStep, DocumentsInvariant, PTL DEF Spec
==============================================================================

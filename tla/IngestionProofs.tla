--------------------------- MODULE IngestionProofs ---------------------------
(***************************************************************************)
(* Theorems about Ingestion, for every number of crawls, sources and       *)
(* tenders, whatever the sources publish and however alike titles are.     *)
(***************************************************************************)
EXTENDS Ingestion, Sequences, TLAPS

-----------------------------------------------------------------------------
(* Values                                                                  *)

\* What a record says is what a row and a version may hold.
LEMMA ContentTyped ==
  ASSUME NEW rec \in Record
  PROVE  /\ CompareRef(rec.ref) \in Optional({Comparable[r] : r \in Refs})
         /\ Content(rec) \in Contents
         /\ Fingerprint(rec) \in Titles \X Optional(Dates)
         /\ Content(rec).ref = CompareRef(rec.ref) /\ Content(rec).title = rec.title
         /\ Content(rec).closing = rec.closing /\ Content(rec).docs = rec.docs
<1>1. CompareRef(rec.ref) \in Optional({Comparable[r] : r \in Refs})
  BY DEF CompareRef, Record, Optional
<1>2. Content(rec) \in Contents
  BY <1>1 DEF Content, Contents, Record
<1>3. Fingerprint(rec) \in Titles \X Optional(Dates)
  BY DEF Fingerprint, Record
<1> QED
  BY <1>1, <1>2, <1>3 DEF Content

LEMMA VersionTyped ==
  ASSUME NEW n \in 1 .. MaxVersion, NEW s \in Sources, NEW rec \in Record
  PROVE  /\ NewVersion(n, s, rec) \in Version
         /\ NewVersion(n, s, rec).number = n /\ NewVersion(n, s, rec).source = s
         /\ NewVersion(n, s, rec).ref = rec.ref
         /\ NewVersion(n, s, rec).content = Content(rec)
<1>1. NewVersion(n, s, rec) \in Version
  BY ContentTyped DEF NewVersion, Version, Record
<1> QED
  BY <1>1 DEF NewVersion

LEMMA NewRowTyped ==
  ASSUME NEW s \in Sources, NEW rec \in Record
  PROVE  NewRow(s, rec) \in Row
<1>1. 1 \in 1 .. MaxVersion
  BY CatalogueAssumption
<1>2. NewVersion(1, s, rec) \in Version
  BY <1>1, VersionTyped
<1> QED
  BY <1>1, <1>2, ContentTyped DEF NewRow, Row, Record

\* The columns of an updated row, one by one.
LEMMA UpdatedColumns ==
  ASSUME NEW row \in Row, NEW loaded \in Row, NEW s \in Sources, NEW rec \in Record,
         Changed(loaded, rec), loaded.version < MaxVersion
  PROVE  LET new == Updated(row, loaded, s, rec) IN
         /\ new \in Row
         /\ new.source = row.source /\ new.refn = row.refn /\ new.ext = row.ext
         /\ new.ref = Known(row.ref, loaded.ref, rec.ref)
         /\ new.title = Written(row.title, loaded.title, rec.title)
         /\ new.closing = Known(row.closing, loaded.closing, rec.closing)
         /\ new.docs = row.docs \cup rec.docs
         /\ new.fingerprint = Written(row.fingerprint, loaded.fingerprint, Fingerprint(rec))
         /\ new.version = loaded.version + 1
         /\ new.history = row.history \cup {NewVersion(loaded.version + 1, s, rec)}
<1> DEFINE ref     == Known(row.ref, loaded.ref, rec.ref)
           title   == Written(row.title, loaded.title, rec.title)
           closing == Known(row.closing, loaded.closing, rec.closing)
           docs    == row.docs \cup rec.docs
           hash    == Written(row.hash, loaded.hash, Content(rec))
           print   == Written(row.fingerprint, loaded.fingerprint, Fingerprint(rec))
           n       == loaded.version + 1
           history == row.history \cup {NewVersion(n, s, rec)}
           new     == [row EXCEPT !.ref = ref, !.title = title, !.closing = closing,
                                  !.docs = docs, !.hash = hash, !.fingerprint = print,
                                  !.version = n, !.history = history]
<1>1. Updated(row, loaded, s, rec) = new
  BY DEF Updated, Row
<1>2. ref \in Optional(Refs) /\ closing \in Optional(Dates)
  BY DEF Known, Written, Row, Record
<1>3. title \in Titles /\ docs \in SUBSET Urls
  BY DEF Written, Row, Record
<1>4. hash \in Contents /\ print \in Titles \X Optional(Dates)
  BY ContentTyped DEF Written, Row
<1>5. n \in 1 .. MaxVersion
  BY CatalogueAssumption DEF Row
<1>6. history \in SUBSET Version
  BY <1>5, VersionTyped DEF Row
<1> HIDE DEF ref, title, closing, docs, hash, print, n, history
<1>7. new \in Row
  BY <1>2, <1>3, <1>4, <1>5, <1>6 DEF Row
<1>8. /\ new.source = row.source /\ new.refn = row.refn /\ new.ext = row.ext
      /\ new.ref = ref /\ new.title = title /\ new.closing = closing /\ new.docs = docs
      /\ new.fingerprint = print /\ new.version = n /\ new.history = history
  BY DEF Row
<1> USE DEF ref, title, closing, docs, hash, print, n, history
<1> QED
  BY <1>1, <1>7, <1>8

\* A cosmetic change renews the hash only.
LEMMA CosmeticColumns ==
  ASSUME NEW row \in Row, NEW loaded \in Row, NEW s \in Sources, NEW rec \in Record,
         ~Changed(loaded, rec)
  PROVE  LET new == Updated(row, loaded, s, rec) IN
         /\ new \in Row
         /\ new.source = row.source /\ new.refn = row.refn
         /\ new.ref = row.ref /\ new.title = row.title
         /\ new.closing = row.closing /\ new.docs = row.docs
         /\ new.fingerprint = row.fingerprint /\ new.version = row.version
         /\ new.history = row.history
<1> DEFINE hash == Written(row.hash, loaded.hash, Content(rec))
           new  == [row EXCEPT !.hash = hash]
<1>1. Updated(row, loaded, s, rec) = new
  BY DEF Updated, Row
<1>2. hash \in Contents
  BY ContentTyped DEF Written, Row
<1> HIDE DEF hash
<1>3. /\ new \in Row
      /\ new.source = row.source /\ new.refn = row.refn
      /\ new.ref = row.ref /\ new.title = row.title
      /\ new.closing = row.closing /\ new.docs = row.docs
      /\ new.fingerprint = row.fingerprint /\ new.version = row.version
      /\ new.history = row.history
  BY <1>2 DEF Row
<1> QED
  BY <1>1, <1>3

-----------------------------------------------------------------------------
(* The deduplicator                                                        *)

\* A duplicate is a row that was looked at, of the record's issuer.
LEMMA FoundInScope ==
  ASSUME NEW db, NEW s, NEW rec, NEW result \in FindDuplicate(db, s, rec)
  PROVE  /\ result.decision \in {"NEW", "EXACT_MATCH", "PROBABLE_MATCH", "UNCERTAIN"}
         /\ IsDuplicate(result) => result.opp \in DOMAIN db /\ InScope(db[result.opp], s)
<1> DEFINE Fits(r) ==
      /\ r.decision \in {"NEW", "EXACT_MATCH", "PROBABLE_MATCH", "UNCERTAIN"}
      /\ IsDuplicate(r) => r.opp \in DOMAIN db /\ InScope(db[r.opp], s)
<1>1. ASSUME NEW r \in Layer4(db, s, rec) PROVE Fits(r)
  <2>1. \A o \in Fuzzy(db, s, rec, "probable") : o \in DOMAIN db /\ InScope(db[o], s)
    BY DEF Fuzzy, InScope
  <2> QED
    BY <2>1 DEF Layer4, Result, NewTender, IsDuplicate
<1>2. ASSUME NEW r \in Layer3(db, s, rec) PROVE Fits(r)
  <2>1. CASE r \in Layer4(db, s, rec)
    BY <1>1, <2>1
  <2>2. CASE \E o \in ByFingerprint(db, rec) :
               r = Result(IF InScope(db[o], s) THEN "PROBABLE_MATCH" ELSE "UNCERTAIN", o)
    BY <2>2 DEF ByFingerprint, Result, IsDuplicate
  <2> QED
    BY <2>1, <2>2 DEF Layer3
<1>3. ASSUME NEW r \in Layer2(db, s, rec) PROVE Fits(r)
  <2>1. CASE r \in Layer3(db, s, rec)
    BY <1>2, <2>1
  <2>2. CASE \E o \in ByContent(db, s, rec) : r = Result("EXACT_MATCH", o)
    BY <2>2 DEF ByContent, Result, InScope
  <2> QED
    BY <2>1, <2>2 DEF Layer2
<1>4. CASE result \in Layer2(db, s, rec)
  BY <1>3, <1>4
<1>5. CASE \E o \in ByReference(db, s, rec) : result = Result("EXACT_MATCH", o)
  BY <1>5 DEF ByReference, Result, SameIssuer, InScope
<1> QED
  BY <1>4, <1>5 DEF FindDuplicate

-----------------------------------------------------------------------------
(* The invariant                                                           *)

\* Version v tells the present of a row.
Agrees(row, v) ==
  /\ v.number = row.version /\ v.ref \in {None, row.ref}
  /\ v.content.ref = CompareRef(v.ref) /\ v.content.title = row.title
  /\ v.content.closing \in {None, row.closing} /\ v.content.docs \subseteq row.docs
  /\ row.fingerprint = <<v.content.title, v.content.closing>>

\* The versions of a row: of its issuer, numbered 1 to its version, each with news.
Numbered(row) ==
  /\ \A v \in row.history : v.number \in 1 .. row.version /\ InScope(row, v.source)
  /\ \A n \in 1 .. row.version : \E v \in row.history : v.number = n
  /\ \A v, w \in row.history : v.number = w.number => v = w
  /\ \A v, w \in row.history :
       w.number = v.number + 1 => <<v.ref, v.content>> # <<w.ref, w.content>>

\* The normalised reference, where a row has one, is that of its reference.
Normalised(row) == row.refn # None => row.refn = CompareRef(row.ref)

Sound(row) ==
  Numbered(row) /\ Normalised(row) /\ \E v \in row.history : Agrees(row, v)

\* A record's reference is none that a row refutes.
Refers(row, rec) == rec.ref # None => row.refn \in {None, CompareRef(rec.ref)}

\* new is what old was or has become.
Later(old, new) ==
  /\ new.source = old.source /\ new.refn = old.refn /\ old.version <= new.version
  /\ old.ref # None => new.ref # None
  /\ old.closing # None => new.closing # None
  /\ old.docs \subseteq new.docs /\ old.history \subseteq new.history
  /\ old.version = new.version =>
       /\ new.ref = old.ref /\ new.title = old.title /\ new.closing = old.closing
       /\ new.docs = old.docs /\ new.fingerprint = old.fingerprint

\* A session has these fields, well formed.
Session(cr) ==
  /\ DOMAIN cr = {"pc", "source", "rows", "rec", "result", "loaded"}
  /\ CrawlOK(cr)

Typed ==
  /\ IsTable(opp) /\ crawl = [c \in Crawls |-> crawl[c]]
  /\ \A c \in Crawls : Session(crawl[c])

\* No two open transactions have written one row.
Apart ==
  \A c, d \in Crawls : c # d => DOMAIN crawl[c].rows \cap DOMAIN crawl[d].rows = {}

\* Committed and uncommitted rows are sound, and a transaction's are no older.
RowsSound ==
  /\ \A o \in DOMAIN opp : Sound(opp[o])
  /\ \A c \in Crawls : \A o \in DOMAIN crawl[c].rows :
       /\ Sound(crawl[c].rows[o])
       /\ o \in DOMAIN opp => Later(opp[o], crawl[c].rows[o])

\* The copy a decision was taken on is of the row as it is or was, and in scope.
CopiesAreOld ==
  \A c \in Crawls :
    crawl[c].pc = "persisting" /\ IsDuplicate(crawl[c].result) =>
      /\ crawl[c].result.opp \in DOMAIN Seen(c)
      /\ Later(crawl[c].loaded, Seen(c)[crawl[c].result.opp])
      /\ InScope(crawl[c].loaded, crawl[c].source)
      /\ Refers(crawl[c].loaded, crawl[c].rec)

CatalogueInv == Typed /\ Apart /\ RowsSound /\ CopiesAreOld

-----------------------------------------------------------------------------
(* Rows over time                                                          *)

\* Among rows with normalised references, a duplicate does not refute the record's.
LEMMA FoundRefers ==
  ASSUME NEW db, NEW s, NEW rec, NEW result \in FindDuplicate(db, s, rec),
         \A o \in DOMAIN db : Normalised(db[o]), IsDuplicate(result)
  PROVE  Refers(db[result.opp], rec)
<1>1. \A o \in DOMAIN db : ~Conflicts(db[o], rec) => Refers(db[o], rec)
  BY DEF Conflicts, Refers
<1>2. ASSUME NEW r \in Layer4(db, s, rec), IsDuplicate(r) PROVE Refers(db[r.opp], rec)
  <2>1. \A o \in Fuzzy(db, s, rec, "probable") : Refers(db[o], rec)
    BY DEF Fuzzy, Refers
  <2> QED
    BY <1>2, <2>1 DEF Layer4, Result, NewTender, IsDuplicate
<1>3. ASSUME NEW r \in Layer3(db, s, rec), IsDuplicate(r) PROVE Refers(db[r.opp], rec)
  <2>1. CASE r \in Layer4(db, s, rec)
    BY <1>2, <1>3, <2>1
  <2>2. CASE \E o \in ByFingerprint(db, rec) : r.opp = o /\ ~Conflicts(db[o], rec)
    BY <1>1, <2>2 DEF ByFingerprint
  <2> QED
    BY <2>1, <2>2 DEF Layer3, Result
<1>4. ASSUME NEW r \in Layer2(db, s, rec), IsDuplicate(r) PROVE Refers(db[r.opp], rec)
  <2>1. CASE r \in Layer3(db, s, rec)
    BY <1>3, <1>4, <2>1
  <2>2. CASE \E o \in ByContent(db, s, rec) : r.opp = o /\ ~Conflicts(db[o], rec)
    BY <1>1, <2>2 DEF ByContent
  <2> QED
    BY <2>1, <2>2 DEF Layer2, Result
<1>5. CASE result \in Layer2(db, s, rec)
  BY <1>4, <1>5
<1>6. CASE \E o \in ByReference(db, s, rec) : result.opp = o
  <2>1. \A o \in ByReference(db, s, rec) : Refers(db[o], rec)
    BY DEF ByReference, Refers, Normalised
  <2> QED
    BY <1>6, <2>1
<1> QED
  BY <1>5, <1>6 DEF FindDuplicate, Result

LEMMA LaterReflexive == \A row \in Row : Later(row, row)
BY DEF Later, Row

LEMMA LaterTransitive ==
  ASSUME NEW a \in Row, NEW b \in Row, NEW c \in Row, Later(a, b), Later(b, c)
  PROVE  Later(a, c)
<1>1. a.version \in Nat /\ b.version \in Nat /\ c.version \in Nat
  BY CatalogueAssumption DEF Row
<1>2. a.version <= c.version
  BY <1>1 DEF Later
<1>3. a.version = c.version => a.version = b.version /\ b.version = c.version
  BY <1>1 DEF Later
<1> QED
  BY <1>2, <1>3 DEF Later

\* A row that is inserted has one version, which tells its present.
LEMMA NewRowSound ==
  ASSUME NEW s \in Sources, NEW rec \in Record
  PROVE  Sound(NewRow(s, rec))
<1> DEFINE row == NewRow(s, rec)
           v   == NewVersion(1, s, rec)
<1>1. /\ row.source = s /\ row.ref = rec.ref /\ row.refn = CompareRef(rec.ref)
      /\ row.title = rec.title /\ row.closing = rec.closing /\ row.docs = rec.docs
      /\ row.fingerprint = Fingerprint(rec) /\ row.version = 1 /\ row.history = {v}
  BY DEF NewRow
<1>2. /\ v.number = 1 /\ v.source = s /\ v.ref = rec.ref /\ v.content = Content(rec)
  BY DEF NewVersion
<1> HIDE DEF row, v
<1>3. Numbered(row)
  BY <1>1, <1>2 DEF Numbered, InScope
<1>4. Agrees(row, v)
  BY <1>1, <1>2, ContentTyped DEF Agrees, Fingerprint
<1>5. Sound(row)
  BY <1>1, <1>3, <1>4 DEF Sound, Normalised
<1> USE DEF row
<1> QED
  BY <1>5

\* An update whose version number is free was decided on the row as it is: numbers have no
\* gap, so a copy that is older finds the number after its own taken.
LEMMA CopyIsCurrent ==
  ASSUME NEW row \in Row, NEW loaded \in Row, Sound(row), Later(loaded, row),
         \A v \in row.history : v.number # loaded.version + 1
  PROVE  loaded.version = row.version
<1>1. loaded.version \in Nat \ {0} /\ row.version \in Nat \ {0} /\ loaded.version <= row.version
  BY CatalogueAssumption DEF Row, Later
<1>2. loaded.version < row.version => loaded.version + 1 \in 1 .. row.version
  BY <1>1
<1> QED
  BY <1>1, <1>2 DEF Sound, Numbered

\* Such an update is sound, and forgets nothing.
LEMMA UpdateSound ==
  ASSUME NEW row \in Row, NEW loaded \in Row, NEW s \in Sources, NEW rec \in Record,
         Sound(row), Later(loaded, row), InScope(row, s), Refers(loaded, rec),
         Changed(loaded, rec), loaded.version < MaxVersion,
         \A v \in row.history : v.number # loaded.version + 1
  PROVE  LET new == Updated(row, loaded, s, rec) IN Sound(new) /\ Later(row, new)
<1> DEFINE new == Updated(row, loaded, s, rec)
           n == row.version
           fresh == NewVersion(n + 1, s, rec)
<1>1. loaded.version = n
  BY CopyIsCurrent
<1>2. /\ loaded.ref = row.ref /\ loaded.title = row.title /\ loaded.closing = row.closing
      /\ loaded.docs = row.docs /\ loaded.fingerprint = row.fingerprint
  BY <1>1 DEF Later
<1>3. /\ new.source = row.source /\ new.refn = row.refn
      /\ new.ref = (IF rec.ref = None THEN row.ref ELSE rec.ref)
      /\ new.title = rec.title
      /\ new.closing = (IF rec.closing = None THEN row.closing ELSE rec.closing)
      /\ new.docs = row.docs \cup rec.docs
      /\ new.fingerprint = Fingerprint(rec)
      /\ new.version = n + 1 /\ new.history = row.history \cup {fresh}
  BY <1>1, <1>2, UpdatedColumns DEF Known, Written
<1>4. n \in Nat \ {0} /\ \A v \in row.history : v.number \in 1 .. n
  BY CatalogueAssumption DEF Row, Sound, Numbered
<1>5. /\ fresh.number = n + 1 /\ fresh.source = s /\ fresh.ref = rec.ref
      /\ fresh.content = Content(rec)
  BY DEF NewVersion
<1>6. PICK last \in row.history : Agrees(row, last)
  BY DEF Sound
<1>7. <<last.ref, last.content>> # <<fresh.ref, fresh.content>>
  <2>1. \/ rec.ref # None /\ rec.ref # row.ref
        \/ rec.title # row.title
        \/ rec.closing # None /\ rec.closing # row.closing
        \/ ~(rec.docs \subseteq row.docs)
    BY <1>2 DEF Changed
  <2>2. CASE rec.ref # None /\ rec.ref # row.ref
    BY <1>5, <1>6, <2>2 DEF Agrees
  <2>3. CASE rec.title # row.title
    BY <1>5, <1>6, <2>3, ContentTyped DEF Agrees
  <2>4. CASE rec.closing # None /\ rec.closing # row.closing
    BY <1>5, <1>6, <2>4, ContentTyped DEF Agrees
  <2>5. CASE ~(rec.docs \subseteq row.docs)
    <3>1. last.content.docs \subseteq row.docs /\ Content(rec).docs = rec.docs
      BY <1>6, ContentTyped DEF Agrees
    <3>2. last.content # Content(rec)
      BY <2>5, <3>1
    <3> QED
      BY <1>5, <3>2
  <2> QED
    BY <2>1, <2>2, <2>3, <2>4, <2>5
<1> HIDE DEF new, fresh
<1>8. \A v \in new.history : v = fresh \/ v \in row.history
  BY <1>3
<1>9. \A v \in new.history : v.number \in 1 .. n + 1 /\ InScope(new, v.source)
  <2>1. \A v \in row.history : InScope(new, v.source)
    BY <1>3 DEF Sound, Numbered, InScope
  <2>2. InScope(new, fresh.source)
    BY <1>3, <1>5 DEF InScope
  <2> QED
    BY <1>4, <1>5, <1>8, <2>1, <2>2
<1>10. \A m \in 1 .. n + 1 : \E v \in new.history : v.number = m
  <2>1. \A m \in 1 .. n : \E v \in row.history : v.number = m
    BY DEF Sound, Numbered
  <2>2. \A m \in 1 .. n + 1 : m \in 1 .. n \/ m = n + 1
    BY <1>4
  <2> QED
    BY <1>3, <1>5, <2>1, <2>2
<1>11. \A v, w \in new.history : v.number = w.number => v = w
  <2>1. \A v \in row.history : v.number # fresh.number
    BY <1>4, <1>5
  <2> QED
    BY <1>8, <2>1 DEF Sound, Numbered
<1>12. \A v, w \in new.history :
         w.number = v.number + 1 => <<v.ref, v.content>> # <<w.ref, w.content>>
  <2> SUFFICES ASSUME NEW v \in new.history, NEW w \in new.history, w.number = v.number + 1
               PROVE  <<v.ref, v.content>> # <<w.ref, w.content>>
    OBVIOUS
  <2>1. CASE v \in row.history /\ w \in row.history
    BY <2>1 DEF Sound, Numbered
  <2>2. CASE v \in row.history /\ w = fresh
    <3>1. v.number = n /\ last.number = n
      BY <1>4, <1>5, <1>6, <2>2 DEF Agrees
    <3>2. v = last
      BY <1>6, <2>2, <3>1 DEF Sound, Numbered
    <3> QED
      BY <1>7, <2>2, <3>2
  <2>3. CASE v = fresh
    <3>1. w.number = n + 2
      BY <1>4, <1>5, <2>3
    <3> QED
      BY <1>4, <1>5, <1>8, <3>1
  <2> QED
    BY <1>8, <2>1, <2>2, <2>3
<1>13. Agrees(new, fresh)
  BY <1>3, <1>5, ContentTyped DEF Agrees, Fingerprint
<1>14. Sound(new)
  <2>1. Normalised(new)
    <3>1. Normalised(row)
      BY DEF Sound
    <3>2. rec.ref # None => row.refn \in {None, CompareRef(rec.ref)}
      BY DEF Later, Refers
    <3> QED
      BY <1>3, <3>1, <3>2 DEF Normalised
  <2> QED
    BY <1>3, <1>9, <1>10, <1>11, <1>12, <1>13, <2>1 DEF Sound, Numbered
<1>15. Later(row, new)
  BY <1>3, <1>4 DEF Later
<1> USE DEF new
<1> QED
  BY <1>14, <1>15

LEMMA CosmeticSound ==
  ASSUME NEW row \in Row, NEW loaded \in Row, NEW s \in Sources, NEW rec \in Record,
         Sound(row), ~Changed(loaded, rec)
  PROVE  LET new == Updated(row, loaded, s, rec) IN Sound(new) /\ Later(row, new)
<1> DEFINE new == Updated(row, loaded, s, rec)
<1>1. /\ new \in Row
      /\ new.source = row.source /\ new.refn = row.refn
      /\ new.ref = row.ref /\ new.title = row.title
      /\ new.closing = row.closing /\ new.docs = row.docs
      /\ new.fingerprint = row.fingerprint /\ new.version = row.version
      /\ new.history = row.history
  BY CosmeticColumns
<1> HIDE DEF new
<1>2. Numbered(new)
  BY <1>1 DEF Sound, Numbered, InScope
<1>3. \A v : Agrees(row, v) => Agrees(new, v)
  BY <1>1 DEF Agrees
<1>4. Sound(new)
  BY <1>1, <1>2, <1>3 DEF Sound, Normalised
<1>5. Later(row, new)
  BY <1>1 DEF Later, Row
<1> USE DEF new
<1> QED
  BY <1>4, <1>5

-----------------------------------------------------------------------------
(* The steps                                                               *)

LEMMA OverRows ==
  \A new, old :
    /\ DOMAIN Over(new, old) = DOMAIN new \cup DOMAIN old
    /\ \A o \in DOMAIN new : Over(new, old)[o] = new[o]
    /\ \A o \in DOMAIN old \ DOMAIN new : Over(new, old)[o] = old[o]
BY DEF Over

\* What a session sees are sound rows, no older than the committed ones.
LEMMA SeenRows ==
  ASSUME CatalogueInv, NEW c \in Crawls
  PROVE  /\ IsTable(Seen(c)) /\ DOMAIN Seen(c) = DOMAIN crawl[c].rows \cup DOMAIN opp
         /\ \A o \in DOMAIN Seen(c) :
              /\ Seen(c)[o] \in Row /\ Sound(Seen(c)[o])
              /\ Seen(c)[o] = IF o \in DOMAIN crawl[c].rows THEN crawl[c].rows[o] ELSE opp[o]
              /\ o \in DOMAIN opp => Later(opp[o], Seen(c)[o])
<1>1. IsTable(opp) /\ IsTable(crawl[c].rows)
  BY DEF CatalogueInv, Typed, Session, CrawlOK
<1>2. /\ DOMAIN Seen(c) = DOMAIN crawl[c].rows \cup DOMAIN opp
      /\ \A o \in DOMAIN Seen(c) :
           Seen(c)[o] = IF o \in DOMAIN crawl[c].rows THEN crawl[c].rows[o] ELSE opp[o]
  BY DEF Seen, Over
<1>3. \A o \in DOMAIN Seen(c) : o \in Opps /\ Seen(c)[o] \in Row /\ Sound(Seen(c)[o])
  BY <1>1, <1>2 DEF IsTable, CatalogueInv, RowsSound
<1>4. \A o \in DOMAIN opp : Later(opp[o], Seen(c)[o])
  BY <1>1, <1>2, LaterReflexive DEF IsTable, CatalogueInv, RowsSound
<1> QED
  BY <1>2, <1>3, <1>4 DEF IsTable

LEMMA IdleSession ==
  Session(Idle) /\ DOMAIN Idle.rows = {} /\ Idle.pc = "idle"
<1>1. None \notin Sources /\ None \notin Record
  BY CatalogueAssumption
<1> QED
  BY <1>1 DEF Session, CrawlOK, Idle, EmptyTable, IsTable, NewTender, Result, IsDuplicate

LEMMA InitCatalogue == Init => CatalogueInv
<1> SUFFICES ASSUME Init PROVE CatalogueInv
  OBVIOUS
<1>1. DOMAIN opp = {}
  BY DEF Init, EmptyTable
<1>2. crawl = [c \in Crawls |-> crawl[c]] /\ \A c \in Crawls : crawl[c] = Idle
  BY DEF Init
<1>3. Typed
  BY <1>1, <1>2, IdleSession DEF Typed, IsTable
<1>4. Apart /\ RowsSound /\ CopiesAreOld
  BY <1>1, <1>2, IdleSession DEF Apart, RowsSound, CopiesAreOld
<1> QED
  BY <1>3, <1>4 DEF CatalogueInv

\* A session may become what keeps off other sessions' rows and is sound.
LEMMA SessionMoves ==
  ASSUME CatalogueInv, NEW c \in Crawls, NEW new, Session(new),
         crawl' = [crawl EXCEPT ![c] = new], UNCHANGED opp,
         \A o \in DOMAIN new.rows :
           /\ \A d \in Crawls \ {c} : o \notin DOMAIN crawl[d].rows
           /\ Sound(new.rows[o])
           /\ o \in DOMAIN opp => Later(opp[o], new.rows[o]),
         new.pc = "persisting" /\ IsDuplicate(new.result) =>
           /\ new.result.opp \in DOMAIN Over(new.rows, opp)
           /\ Later(new.loaded, Over(new.rows, opp)[new.result.opp])
           /\ InScope(new.loaded, new.source) /\ Refers(new.loaded, new.rec)
  PROVE  CatalogueInv'
<1>1. \A d \in Crawls : crawl'[d] = IF d = c THEN new ELSE crawl[d]
  BY DEF CatalogueInv, Typed
<1>2. crawl' = [d \in Crawls |-> crawl'[d]]
  BY DEF CatalogueInv, Typed
<1>3. Typed'
  BY <1>1, <1>2 DEF CatalogueInv, Typed, IsTable
<1>4. Apart'
  BY <1>1 DEF CatalogueInv, Apart
<1>5. RowsSound'
  BY <1>1 DEF CatalogueInv, RowsSound
<1>6. CopiesAreOld'
  <2>1. \A d \in Crawls \ {c} : Seen(d)' = Seen(d)
    BY <1>1 DEF Seen
  <2>2. Seen(c)' = Over(new.rows, opp)
    BY <1>1 DEF Seen
  <2> QED
    BY <1>1, <2>1, <2>2 DEF CatalogueInv, CopiesAreOld
<1> QED
  BY <1>3, <1>4, <1>5, <1>6 DEF CatalogueInv

LEMMA SessionEnds ==
  ASSUME CatalogueInv, NEW c \in Crawls, crawl' = [crawl EXCEPT ![c] = Idle], UNCHANGED opp
  PROVE  CatalogueInv'
BY IdleSession, SessionMoves

LEMMA StartKeeps ==
  ASSUME CatalogueInv, NEW c \in Crawls, NEW s \in Sources, Start(c, s)
  PROVE  CatalogueInv'
<1> DEFINE cr  == crawl[c]
           new == [cr EXCEPT !.pc = "crawling", !.source = s]
<1>1. /\ cr.pc = "idle" /\ UNCHANGED opp
      /\ crawl' = [crawl EXCEPT ![c].pc = "crawling", ![c].source = s]
  BY DEF Start
<1>2. Session(cr)
  BY DEF CatalogueInv, Typed
<1>3. /\ DOMAIN new = DOMAIN cr
      /\ new.pc = "crawling" /\ new.source = s /\ new.rows = cr.rows /\ new.rec = cr.rec
      /\ new.result = cr.result /\ new.loaded = cr.loaded
  BY <1>2 DEF Session
<1>4. crawl' = [crawl EXCEPT ![c] = new]
  BY <1>1 DEF CatalogueInv, Typed
<1> HIDE DEF new
<1>5. cr.rec \notin Record
  BY <1>1, <1>2 DEF Session, CrawlOK
<1>6. Session(new)
  BY <1>1, <1>2, <1>3, <1>5 DEF Session, CrawlOK
<1>7. \A o \in DOMAIN new.rows :
        /\ \A d \in Crawls \ {c} : o \notin DOMAIN crawl[d].rows
        /\ Sound(new.rows[o])
        /\ o \in DOMAIN opp => Later(opp[o], new.rows[o])
  BY <1>3 DEF CatalogueInv, Apart, RowsSound
<1> QED
  BY <1>1, <1>3, <1>4, <1>6, <1>7, SessionMoves

LEMMA DecideKeeps ==
  ASSUME CatalogueInv, NEW c \in Crawls, NEW rec \in Record, Decide(c, rec)
  PROVE  CatalogueInv'
<1> DEFINE cr == crawl[c]
<1>1. PICK result \in FindDuplicate(Seen(c), cr.source, rec) :
        crawl' = [crawl EXCEPT ![c] =
          [pc |-> "persisting", source |-> @.source, rows |-> @.rows, rec |-> rec,
           result |-> result,
           loaded |-> IF IsDuplicate(result) THEN Seen(c)[result.opp] ELSE None]]
  BY DEF Decide
<1> DEFINE loaded == IF IsDuplicate(result) THEN Seen(c)[result.opp] ELSE None
           new == [pc |-> "persisting", source |-> cr.source, rows |-> cr.rows, rec |-> rec,
                   result |-> result, loaded |-> loaded]
<1>2. crawl' = [crawl EXCEPT ![c] = new] /\ UNCHANGED opp /\ cr.pc = "crawling"
  BY <1>1 DEF Decide, CatalogueInv, Typed
<1>3. Session(cr)
  BY DEF CatalogueInv, Typed
<1>4. /\ result.decision \in {"NEW", "EXACT_MATCH", "PROBABLE_MATCH", "UNCERTAIN"}
      /\ IsDuplicate(result) =>
           /\ result.opp \in DOMAIN Seen(c) /\ InScope(Seen(c)[result.opp], cr.source)
  BY FoundInScope
<1>5. IsDuplicate(result) => result.opp \in Opps /\ loaded \in Row
  BY <1>4, SeenRows DEF IsTable
<1>6. /\ new.pc = "persisting" /\ new.source = cr.source /\ new.rows = cr.rows
      /\ new.rec = rec /\ new.result = result /\ new.loaded = loaded
  OBVIOUS
<1>7. Session(new)
  BY <1>2, <1>3, <1>4, <1>5 DEF Session, CrawlOK
<1>8. \A o \in DOMAIN cr.rows :
        /\ \A d \in Crawls \ {c} : o \notin DOMAIN crawl[d].rows
        /\ Sound(cr.rows[o])
        /\ o \in DOMAIN opp => Later(opp[o], cr.rows[o])
  BY DEF CatalogueInv, Apart, RowsSound
<1>9. IsDuplicate(result) =>
        /\ result.opp \in DOMAIN Over(cr.rows, opp)
        /\ Later(loaded, Over(cr.rows, opp)[result.opp])
        /\ InScope(loaded, cr.source)
  BY <1>4, SeenRows, LaterReflexive DEF Seen
<1>10. IsDuplicate(result) => Refers(loaded, rec)
  <2>1. \A o \in DOMAIN Seen(c) : Normalised(Seen(c)[o])
    BY SeenRows DEF Sound
  <2> QED
    BY <2>1, FoundRefers
<1> HIDE DEF new, loaded
<1> QED
  BY <1>2, <1>6, <1>7, <1>8, <1>9, <1>10, SessionMoves

\* The row a flush writes: sound, and later than the one it writes over.
LEMMA TargetSound ==
  ASSUME CatalogueInv, NEW c \in Crawls, NEW o, Persist(c, o)
  PROVE  /\ o \in Opps /\ Target(c, o) \in Row /\ Sound(Target(c, o))
         /\ o \in DOMAIN opp => Later(opp[o], Target(c, o))
<1> DEFINE cr == crawl[c]
<1>1. /\ cr.pc = "persisting" /\ o \in Destination(c) /\ WithinBound(c) /\ VersionIsFree(c, o)
  BY DEF Persist
<1>2. cr.source \in Sources /\ cr.rec \in Record
  BY <1>1 DEF CatalogueInv, Typed, Session, CrawlOK
<1>3. CASE ~IsDuplicate(cr.result)
  <2>1. o \in Opps \ DOMAIN opp
    BY <1>1, <1>3 DEF Destination
  <2>2. Target(c, o) = NewRow(cr.source, cr.rec)
    BY <1>3 DEF Target
  <2> QED
    BY <1>2, <2>1, <2>2, NewRowTyped, NewRowSound
<1>4. CASE IsDuplicate(cr.result)
  <2> DEFINE row == Seen(c)[o]
             loaded == cr.loaded
  <2>1. o = cr.result.opp
    BY <1>1, <1>4 DEF Destination
  <2>2. /\ o \in DOMAIN Seen(c) /\ Later(loaded, row) /\ InScope(loaded, cr.source)
        /\ loaded \in Row /\ Refers(loaded, cr.rec)
    BY <1>1, <1>4, <2>1 DEF CatalogueInv, CopiesAreOld, Typed, Session, CrawlOK
  <2>3. /\ row \in Row /\ Sound(row) /\ o \in Opps
        /\ o \in DOMAIN opp => opp[o] \in Row /\ Later(opp[o], row)
    BY <2>2, SeenRows DEF IsTable, CatalogueInv, Typed
  <2>4. Target(c, o) = Updated(row, loaded, cr.source, cr.rec)
    BY <1>4 DEF Target
  <2>5. InScope(row, cr.source)
    BY <2>2 DEF InScope, Later
  <2> HIDE DEF row, loaded
  <2>6. CASE Changed(loaded, cr.rec)
    <3>1. /\ loaded.version < MaxVersion
          /\ \A v \in row.history : v.number # loaded.version + 1
      BY <1>1, <1>4, <2>6 DEF WithinBound, VersionIsFree, row, loaded
    <3>2. /\ Sound(Updated(row, loaded, cr.source, cr.rec))
          /\ Later(row, Updated(row, loaded, cr.source, cr.rec))
      BY <1>2, <2>2, <2>3, <2>5, <2>6, <3>1, UpdateSound
    <3>3. Updated(row, loaded, cr.source, cr.rec) \in Row
      BY <1>2, <2>2, <2>3, <2>6, <3>1, UpdatedColumns
    <3> QED
      BY <2>3, <2>4, <3>2, <3>3, LaterTransitive
  <2>7. CASE ~Changed(loaded, cr.rec)
    <3>1. /\ Sound(Updated(row, loaded, cr.source, cr.rec))
          /\ Later(row, Updated(row, loaded, cr.source, cr.rec))
      BY <1>2, <2>2, <2>3, <2>7, CosmeticSound
    <3>2. Updated(row, loaded, cr.source, cr.rec) \in Row
      BY <1>2, <2>2, <2>3, <2>7, CosmeticColumns
    <3> QED
      BY <2>3, <2>4, <3>1, <3>2, LaterTransitive
  <2> QED
    BY <2>6, <2>7
<1> QED
  BY <1>3, <1>4

LEMMA PersistKeeps ==
  ASSUME CatalogueInv, NEW c \in Crawls, NEW o, Persist(c, o)
  PROVE  CatalogueInv'
<1> DEFINE cr   == crawl[c]
           one  == [p \in {o} |-> Target(c, o)]
           rows == Over(one, cr.rows)
           new  == [pc |-> "crawling", source |-> cr.source, rec |-> None, result |-> NewTender,
                    loaded |-> None, rows |-> rows]
<1>1. /\ crawl' = [crawl EXCEPT ![c] = new] /\ UNCHANGED opp
      /\ cr.pc = "persisting" /\ ~Waits(c, o)
  BY DEF Persist, CatalogueInv, Typed
<1>2. Session(cr)
  BY DEF CatalogueInv, Typed
<1>3. /\ DOMAIN rows = {o} \cup DOMAIN cr.rows
      /\ rows[o] = Target(c, o)
      /\ \A p \in DOMAIN cr.rows \ {o} : rows[p] = cr.rows[p]
  BY DEF Over
<1> HIDE DEF one, rows
<1>4. IsTable(rows)
  BY <1>2, <1>3, TargetSound DEF IsTable, Session, CrawlOK
<1>5. Session(new)
  BY <1>1, <1>2, <1>4, CatalogueAssumption
  DEF Session, CrawlOK, NewTender, Result, IsDuplicate
<1>6. \A d \in Crawls \ {c} : o \notin DOMAIN crawl[d].rows
  BY <1>1 DEF Waits
<1>7. \A p \in DOMAIN new.rows :
        /\ \A d \in Crawls \ {c} : p \notin DOMAIN crawl[d].rows
        /\ Sound(new.rows[p])
        /\ p \in DOMAIN opp => Later(opp[p], new.rows[p])
  <2>1. \A p \in DOMAIN cr.rows :
          /\ \A d \in Crawls \ {c} : p \notin DOMAIN crawl[d].rows
          /\ Sound(cr.rows[p])
          /\ p \in DOMAIN opp => Later(opp[p], cr.rows[p])
    BY DEF CatalogueInv, Apart, RowsSound
  <2> QED
    BY <1>3, <1>6, <2>1, TargetSound
<1>8. new.pc # "persisting"
  OBVIOUS
<1> HIDE DEF new
<1> QED
  BY <1>1, <1>5, <1>7, <1>8, SessionMoves

\* A commit publishes a transaction's rows; the copies others hold are older then, too.
LEMMA FinishKeeps ==
  ASSUME CatalogueInv, NEW c \in Crawls, Finish(c)
  PROVE  CatalogueInv'
<1>1. opp' = Seen(c) /\ crawl' = [crawl EXCEPT ![c] = Idle]
  BY DEF Finish
<1>2. \A d \in Crawls : crawl'[d] = IF d = c THEN Idle ELSE crawl[d]
  BY <1>1 DEF CatalogueInv, Typed
<1>3. crawl' = [d \in Crawls |-> crawl'[d]]
  BY <1>1 DEF CatalogueInv, Typed
<1>4. Typed'
  BY <1>1, <1>2, <1>3, SeenRows, IdleSession DEF CatalogueInv, Typed, IsTable
<1>5. Apart'
  BY <1>2, IdleSession DEF CatalogueInv, Apart
<1>6. \A d \in Crawls \ {c} : \A o \in DOMAIN crawl[d].rows :
        o \in DOMAIN Seen(c) => o \in DOMAIN opp /\ Seen(c)[o] = opp[o]
  BY SeenRows DEF CatalogueInv, Apart
<1>7. RowsSound'
  <2>1. \A o \in DOMAIN opp' : Sound(opp'[o])
    BY <1>1, SeenRows
  <2>2. ASSUME NEW d \in Crawls, NEW o \in DOMAIN crawl'[d].rows
        PROVE  /\ Sound(crawl'[d].rows[o])
               /\ o \in DOMAIN opp' => Later(opp'[o], crawl'[d].rows[o])
    <3>1. d # c /\ crawl'[d] = crawl[d]
      BY <1>2, <2>2, IdleSession
    <3>2. /\ Sound(crawl[d].rows[o])
          /\ o \in DOMAIN opp => Later(opp[o], crawl[d].rows[o])
      BY <2>2, <3>1 DEF CatalogueInv, RowsSound
    <3> QED
      BY <1>1, <1>6, <2>2, <3>1, <3>2
  <2> QED
    BY <2>1, <2>2 DEF RowsSound
<1>8. ASSUME NEW d \in Crawls \ {c}, NEW o \in DOMAIN Seen(d)
      PROVE  o \in DOMAIN Seen(d)' /\ Later(Seen(d)[o], Seen(d)'[o])
  <2>1. Seen(d)' = Over(crawl[d].rows, Seen(c))
    BY <1>1, <1>2 DEF Seen
  <2>2. o \in DOMAIN crawl[d].rows \cup DOMAIN Seen(c) /\ Seen(d)[o] \in Row
    BY <1>8, SeenRows
  <2>3. CASE o \in DOMAIN crawl[d].rows
    <3>1. Seen(d)[o] = crawl[d].rows[o] /\ Seen(d)'[o] = crawl[d].rows[o] /\ o \in DOMAIN Seen(d)'
      BY <2>1, <2>2, <2>3, SeenRows DEF Over
    <3> QED
      BY <2>2, <3>1, LaterReflexive
  <2>4. CASE o \notin DOMAIN crawl[d].rows
    <3>1. o \in DOMAIN opp /\ Seen(d)[o] = opp[o]
      BY <2>4, SeenRows
    <3>2. Later(opp[o], Seen(c)[o])
      BY <3>1, SeenRows
    <3>3. Seen(d)'[o] = Seen(c)[o] /\ o \in DOMAIN Seen(d)'
      BY <2>1, <2>4, <3>1, SeenRows DEF Over
    <3> QED
      BY <3>1, <3>2, <3>3
  <2> QED
    BY <2>3, <2>4
<1>9. \A d \in Crawls \ {c} : \A o \in DOMAIN Seen(d) : Seen(d)[o] \in Row
  BY SeenRows
<1>10. \A d \in Crawls \ {c} : \A o : o \in DOMAIN Seen(d)' => Seen(d)'[o] \in Row
  <2> SUFFICES ASSUME NEW d \in Crawls \ {c}, NEW o, o \in DOMAIN Seen(d)'
               PROVE  Seen(d)'[o] \in Row
    OBVIOUS
  <2>1. Seen(d)' = Over(crawl[d].rows, Seen(c))
    BY <1>1, <1>2 DEF Seen
  <2>2. IsTable(crawl[d].rows) /\ IsTable(Seen(c))
    BY SeenRows DEF CatalogueInv, Typed, Session, CrawlOK
  <2> QED
    BY <2>1, <2>2 DEF IsTable, Over
<1>11. CopiesAreOld'
  <2> SUFFICES ASSUME NEW d \in Crawls,
                      crawl'[d].pc = "persisting", IsDuplicate(crawl'[d].result)
               PROVE  /\ crawl'[d].result.opp \in DOMAIN Seen(d)'
                      /\ Later(crawl'[d].loaded, Seen(d)'[crawl'[d].result.opp])
                      /\ InScope(crawl'[d].loaded, crawl'[d].source)
                      /\ Refers(crawl'[d].loaded, crawl'[d].rec)
    BY DEF CopiesAreOld
  <2>1. d # c /\ crawl'[d] = crawl[d]
    BY <1>2, IdleSession
  <2>2. /\ crawl[d].result.opp \in DOMAIN Seen(d)
        /\ Later(crawl[d].loaded, Seen(d)[crawl[d].result.opp])
        /\ InScope(crawl[d].loaded, crawl[d].source)
        /\ Refers(crawl[d].loaded, crawl[d].rec) /\ crawl[d].loaded \in Row
    BY <2>1 DEF CatalogueInv, CopiesAreOld, Typed, Session, CrawlOK
  <2> QED
    BY <1>8, <1>9, <1>10, <2>1, <2>2, LaterTransitive
<1> QED
  BY <1>4, <1>5, <1>7, <1>11 DEF CatalogueInv

\* CatalogueInv is inductive: one step per action.
LEMMA CatalogueInductive == CatalogueInv /\ [Next]_vars => CatalogueInv'
<1> SUFFICES ASSUME CatalogueInv, [Next]_vars PROVE CatalogueInv'
  OBVIOUS
<1>1. ASSUME NEW c \in Crawls, NEW s \in Sources, Start(c, s) PROVE CatalogueInv'
  BY <1>1, StartKeeps
<1>2. ASSUME NEW c \in Crawls, NEW rec \in Record, Decide(c, rec) PROVE CatalogueInv'
  BY <1>2, DecideKeeps
<1>3. ASSUME NEW c \in Crawls, NEW o \in Opps, Persist(c, o) PROVE CatalogueInv'
  BY <1>3, PersistKeeps
<1>4. ASSUME NEW c \in Crawls, NEW o \in Opps, Refused(c, o) PROVE CatalogueInv'
  BY <1>4, SessionEnds DEF Refused
<1>5. ASSUME NEW c \in Crawls, CrawlLost(c) PROVE CatalogueInv'
  BY <1>5, SessionEnds DEF CrawlLost
<1>6. ASSUME NEW c \in Crawls, Finish(c) PROVE CatalogueInv'
  BY <1>6, FinishKeeps
<1>7. CASE UNCHANGED vars
  <2>1. \A c \in Crawls : Seen(c)' = Seen(c)
    BY <1>7 DEF vars, Seen
  <2> QED
    BY <1>7, <2>1 DEF vars, CatalogueInv, Typed, Apart, RowsSound, CopiesAreOld, IsTable
<1> QED
  BY <1>1, <1>2, <1>3, <1>4, <1>5, <1>6, <1>7 DEF Next

\* The catalogue keeps its shape: typed, sound rows, whatever crawls interleave.
THEOREM CatalogueInvHolds == Spec => []CatalogueInv
BY InitCatalogue, CatalogueInductive, PTL DEF Spec

-----------------------------------------------------------------------------
(* Theorems                                                                *)

\* Rows, transactions and the items at hand are well formed.
THEOREM IngestionTypeSafe == Spec => []IngestionTypeOK
<1>1. CatalogueInv => IngestionTypeOK
  BY DEF CatalogueInv, Typed, Session, IngestionTypeOK
<1> QED
  BY <1>1, CatalogueInvHolds, PTL

LEMMA NewestAgrees ==
  ASSUME NEW row, Sound(row)
  PROVE  Newest(row) \in row.history /\ Agrees(row, Newest(row))
<1>1. PICK v \in row.history : Agrees(row, v)
  BY DEF Sound
<1>2. \A w \in row.history : w.number = row.version => w = v
  BY <1>1 DEF Sound, Numbered, Agrees
<1>3. Newest(row) \in row.history /\ Newest(row).number = row.version
  BY <1>1 DEF Newest, Agrees
<1> QED
  BY <1>1, <1>2, <1>3

\* The newest version tells a row's present, and a history is one issuer's: an update that
\* was decided on a stale copy of the row fails on its version number.
THEOREM HistoriesAgree == Spec => []HistoryAgrees
<1>1. CatalogueInv => HistoryAgrees
  <2> SUFFICES ASSUME CatalogueInv, NEW o \in DOMAIN opp
               PROVE  LET row == opp[o]  now == Newest(row).content IN
                      /\ \E v \in row.history : v.number = row.version
                      /\ now.ref \in {None, CompareRef(row.ref)}
                      /\ now.title = row.title
                      /\ now.closing \in {None, row.closing}
                      /\ now.docs \subseteq row.docs
                      /\ row.fingerprint = <<now.title, now.closing>>
                      /\ \A v \in row.history :
                           \/ v.source = row.source
                           \/ Issuer[v.source] # None /\ Issuer[v.source] = Issuer[row.source]
    BY DEF HistoryAgrees
  <2> DEFINE row == opp[o]
  <2>1. Sound(row)
    BY DEF CatalogueInv, RowsSound
  <2> HIDE DEF row
  <2>2. Newest(row) \in row.history /\ Agrees(row, Newest(row))
    BY <2>1, NewestAgrees
  <2>3. \A v \in row.history : InScope(row, v.source)
    BY <2>1 DEF Sound, Numbered
  <2>4. CompareRef(None) = None
    BY DEF CompareRef
  <2>5. \E v \in row.history : v.number = row.version
    BY <2>2 DEF Agrees
  <2>6. LET now == Newest(row).content IN
        /\ now.ref \in {None, CompareRef(row.ref)}
        /\ now.title = row.title
        /\ now.closing \in {None, row.closing}
        /\ now.docs \subseteq row.docs
        /\ row.fingerprint = <<now.title, now.closing>>
    BY <2>2, <2>4 DEF Agrees
  <2>7. \A v \in row.history :
          \/ v.source = row.source
          \/ Issuer[v.source] # None /\ Issuer[v.source] = Issuer[row.source]
    BY <2>3 DEF InScope
  <2> USE DEF row
  <2> QED
    BY <2>5, <2>6, <2>7
<1> QED
  BY <1>1, CatalogueInvHolds, PTL

\* Only a commit changes the catalogue.
LEMMA RowsGrow ==
  ASSUME CatalogueInv, [Next]_vars
  PROVE  \A o \in DOMAIN opp : o \in DOMAIN opp' /\ Later(opp[o], opp'[o])
<1>1. CASE UNCHANGED opp
  BY <1>1, LaterReflexive DEF CatalogueInv, Typed, IsTable
<1>2. ASSUME NEW c \in Crawls, Finish(c)
      PROVE  \A o \in DOMAIN opp : o \in DOMAIN opp' /\ Later(opp[o], opp'[o])
  BY <1>2, SeenRows DEF Finish
<1>3. UNCHANGED opp \/ \E c \in Crawls : Finish(c)
  BY DEF Next, vars, Start, Decide, Persist, Refused, CrawlLost
<1> QED
  BY <1>1, <1>2, <1>3

\* A reference, a closing date or a document that is known stays known.
THEOREM NothingForgotten == Spec => NeverForgets
<1> DEFINE Kept == \A o \in DOMAIN opp :
             /\ o \in DOMAIN opp'
             /\ opp[o].ref # None => opp'[o].ref # None
             /\ opp[o].closing # None => opp'[o].closing # None
             /\ opp[o].docs \subseteq opp'[o].docs
<1>1. CatalogueInv /\ [Next]_vars => [Kept]_vars
  BY RowsGrow DEF Later
<1> HIDE DEF Kept
<1>2. Spec => [][Kept]_vars
  BY <1>1, CatalogueInvHolds, PTL DEF Spec
<1> USE DEF Kept
<1> QED
  BY <1>2 DEF NeverForgets

-----------------------------------------------------------------------------
(* The versions of a tender are a log                                      *)

Entries == Optional(Refs) \X Contents

\* The log of a row has its versions in order.
LEMMA LogOfRow ==
  ASSUME NEW row \in Row, Sound(row)
  PROVE  /\ Log(row) \in Seq(Entries) /\ Len(Log(row)) = row.version
         /\ \A v \in row.history :
              v.number \in 1 .. row.version /\ Log(row)[v.number] = <<v.ref, v.content>>
         /\ \A n \in 1 .. row.version : \E v \in row.history : v.number = n
<1> DEFINE At(n) == CHOOSE v \in row.history : v.number = n
<1>1. row.version \in Nat /\ row.history \subseteq Version
  BY CatalogueAssumption DEF Row
<1>2. Log(row) = [n \in 1 .. row.version |-> <<At(n).ref, At(n).content>>]
  BY DEF Log
<1>3. \A n \in 1 .. row.version : At(n) \in row.history /\ At(n).number = n
  BY DEF Sound, Numbered
<1> HIDE DEF At
<1>4. \A n \in 1 .. row.version : <<At(n).ref, At(n).content>> \in Entries
  BY <1>1, <1>3 DEF Version, Entries
<1>5. Log(row) \in [1 .. row.version -> Entries]
  BY <1>2, <1>4
<1>6. Log(row) \in Seq(Entries) /\ Len(Log(row)) = row.version
  BY <1>1, <1>5
<1>7. \A v \in row.history : v.number \in 1 .. row.version /\ At(v.number) = v
  BY <1>3 DEF Sound, Numbered
<1>8. \A v \in row.history : Log(row)[v.number] = <<v.ref, v.content>>
  BY <1>2, <1>7
<1>9. \A n \in 1 .. row.version : \E v \in row.history : v.number = n
  BY <1>3
<1> QED
  BY <1>6, <1>7, <1>8, <1>9

LEMMA LogGrows ==
  ASSUME NEW old \in Row, NEW new \in Row, Sound(old), Sound(new), Later(old, new)
  PROVE  Histories!GrowsFrom(Log(old), Log(new))
<1>1. old.version \in Nat /\ new.version \in Nat /\ old.version <= new.version
  BY CatalogueAssumption DEF Row, Later
<1>2. Len(Log(old)) = old.version /\ Len(Log(new)) = new.version
  BY LogOfRow
<1>3. \A n \in 1 .. old.version : Log(new)[n] = Log(old)[n]
  <2> TAKE n \in 1 .. old.version
  <2>1. PICK v \in old.history : v.number = n
    BY LogOfRow
  <2>2. Log(old)[n] = <<v.ref, v.content>>
    BY <2>1, LogOfRow
  <2>3. v \in new.history
    BY DEF Later
  <2>4. Log(new)[n] = <<v.ref, v.content>>
    BY <2>1, <2>3, LogOfRow
  <2> QED
    BY <2>2, <2>4
<1> QED
  BY <1>1, <1>2, <1>3 DEF Histories!GrowsFrom

LEMMA LogHasNews ==
  ASSUME NEW row \in Row, Sound(row)
  PROVE  Histories!AlwaysNews(Log(row))
<1>1. row.version \in Nat /\ Len(Log(row)) = row.version
  BY LogOfRow, CatalogueAssumption DEF Row
<1>2. \A n \in 1 .. row.version - 1 : Log(row)[n] # Log(row)[n + 1]
  <2> TAKE n \in 1 .. row.version - 1
  <2>1. n \in 1 .. row.version /\ n + 1 \in 1 .. row.version
    BY <1>1
  <2>2. PICK v \in row.history : v.number = n
    BY <2>1, LogOfRow
  <2>3. PICK w \in row.history : w.number = n + 1
    BY <2>1, LogOfRow
  <2>4. Log(row)[n] = <<v.ref, v.content>> /\ Log(row)[n + 1] = <<w.ref, w.content>>
    BY <2>2, <2>3, LogOfRow
  <2>5. <<v.ref, v.content>> # <<w.ref, w.content>>
    BY <2>2, <2>3 DEF Sound, Numbered
  <2> QED
    BY <2>4, <2>5
<1> QED
  BY <1>1, <1>2 DEF Histories!AlwaysNews

\* The versions of every tender implement the log of TenderHistory: versions are numbered
\* without a gap, never rewritten, and each has something new in it.
THEOREM IngestionImplementsHistory == Spec => ImplementsHistory
<1> DEFINE LogOf(o) == IF o \in DOMAIN opp THEN Log(opp[o]) ELSE <<>>
           log == [o \in Opps |-> LogOf(o)]
<1>1. Init => Histories!Init
  BY DEF Init, EmptyTable, Histories!Init
<1>2. ASSUME CatalogueInv, CatalogueInv', [Next]_vars
      PROVE  \A o \in Opps : /\ Histories!GrowsFrom(LogOf(o), LogOf(o)')
                             /\ Histories!AlwaysNews(LogOf(o)')
  <2> SUFFICES ASSUME NEW o \in Opps
               PROVE  /\ Histories!GrowsFrom(LogOf(o), LogOf(o)')
                      /\ Histories!AlwaysNews(LogOf(o)')
    OBVIOUS
  <2>1. \A p \in DOMAIN opp' : opp'[p] \in Row /\ Sound(opp'[p])
    BY <1>2 DEF CatalogueInv, Typed, IsTable, RowsSound
  <2>2. CASE o \in DOMAIN opp
    <3>1. opp[o] \in Row /\ Sound(opp[o])
      BY <1>2, <2>2 DEF CatalogueInv, Typed, IsTable, RowsSound
    <3>2. o \in DOMAIN opp' /\ Later(opp[o], opp'[o])
      BY <1>2, <2>2, RowsGrow
    <3>3. LogOf(o) = Log(opp[o]) /\ LogOf(o)' = Log(opp'[o])
      BY <2>2, <3>2 DEF Log
    <3> QED
      BY <2>1, <3>1, <3>2, <3>3, LogGrows, LogHasNews
  <2>3. CASE o \notin DOMAIN opp /\ o \in DOMAIN opp'
    <3>1. LogOf(o) = <<>> /\ LogOf(o)' = Log(opp'[o])
      BY <2>3 DEF Log
    <3>2. Len(Log(opp'[o])) \in Nat
      BY <2>1, <2>3, LogOfRow, CatalogueAssumption DEF Row
    <3>3. Histories!GrowsFrom(<<>>, Log(opp'[o]))
      BY <3>2 DEF Histories!GrowsFrom
    <3> QED
      BY <2>1, <2>3, <3>1, <3>3, LogHasNews
  <2>4. CASE o \notin DOMAIN opp /\ o \notin DOMAIN opp'
    <3>1. LogOf(o) = <<>> /\ LogOf(o)' = <<>>
      BY <2>4
    <3> QED
      BY <3>1 DEF Histories!GrowsFrom, Histories!AlwaysNews
  <2> QED
    BY <2>2, <2>3, <2>4
<1>3. CatalogueInv /\ CatalogueInv' /\ [Next]_vars => [Histories!Publish]_log
  BY <1>2 DEF Histories!Publish
<1> QED
  BY <1>1, <1>3, CatalogueInvHolds, PTL DEF Spec, ImplementsHistory, Histories!Spec

-----------------------------------------------------------------------------
(* The unique keys, and what they are good for                             *)

\* No two rows that a session sees, nor two that open transactions hold, share a unique
\* key: a statement waits for the keys that other transactions have taken.
KeysUnique ==
  /\ \A o, p \in DOMAIN opp : o # p => Keys(opp[o]) \cap Keys(opp[p]) = {}
  /\ \A c \in Crawls : \A o, p \in DOMAIN Seen(c) :
       o # p => Keys(Seen(c)[o]) \cap Keys(Seen(c)[p]) = {}
  /\ \A c, d \in Crawls : c # d =>
       \A o \in DOMAIN crawl[c].rows : \A p \in DOMAIN crawl[d].rows :
         Keys(crawl[c].rows[o]) \cap Keys(crawl[d].rows[p]) = {}

\* A flush that neither waits nor is refused takes no key of a row another transaction holds.
LEMMA HeldKeysWait ==
  ASSUME CatalogueInv, KeysUnique, NEW c \in Crawls, NEW o, Persist(c, o),
         NEW d \in Crawls \ {c}, NEW p \in DOMAIN crawl[d].rows
  PROVE  Keys(Target(c, o)) \cap Keys(crawl[d].rows[p]) = {}
<1> SUFFICES ASSUME NEW k, k \in Keys(Target(c, o)), k \in Keys(crawl[d].rows[p])
             PROVE  FALSE
  OBVIOUS
<1>1. o \in Opps /\ ~Waits(c, o) /\ KeysAreFree(c, o)
  BY TargetSound DEF Persist
<1>2. o \notin DOMAIN crawl[d].rows /\ o # p
  BY <1>1 DEF Waits
<1>3. p \in Opps /\ p \notin DOMAIN crawl[c].rows
  BY DEF CatalogueInv, Typed, Session, CrawlOK, IsTable, Apart
<1>4. CASE k \in KeysIn(Seen(c), o)
  <2>1. o \in DOMAIN Seen(c) /\ k \in Keys(Seen(c)[o])
    BY <1>4 DEF KeysIn
  <2>2. CASE o \in DOMAIN crawl[c].rows
    BY <2>1, <2>2, SeenRows DEF KeysUnique
  <2>3. CASE o \notin DOMAIN crawl[c].rows
    <3>1. o \in DOMAIN opp /\ k \in Keys(opp[o])
      BY <2>1, <2>3, SeenRows
    <3>2. /\ o \in DOMAIN Seen(d) /\ Seen(d)[o] = opp[o]
          /\ p \in DOMAIN Seen(d) /\ Seen(d)[p] = crawl[d].rows[p]
      BY <1>2, <3>1, SeenRows
    <3> QED
      BY <1>2, <3>1, <3>2 DEF KeysUnique
  <2> QED
    BY <2>2, <2>3
<1>5. CASE k \notin KeysIn(Seen(c), o)
  <2>1. k \notin TakenOrGivenUp(d, p)
    BY <1>1, <1>3, <1>5 DEF Waits, Undecided
  <2>2. k \in KeysIn(opp, p)
    BY <2>1 DEF TakenOrGivenUp, KeysIn
  <2>3. p \in DOMAIN opp /\ k \in Keys(opp[p])
    BY <2>2 DEF KeysIn
  <2>4. p \in DOMAIN Seen(c) /\ Seen(c)[p] = opp[p]
    BY <1>3, <2>3, SeenRows
  <2> QED
    BY <1>1, <1>2, <2>3, <2>4 DEF KeysAreFree
<1> QED
  BY <1>4, <1>5

\* A step that leaves every transaction's rows alone, or drops one's, keeps the keys unique.
LEMMA RowsStay ==
  ASSUME CatalogueInv, CatalogueInv', KeysUnique, UNCHANGED opp,
         \A c \in Crawls : crawl'[c].rows = crawl[c].rows \/ DOMAIN crawl'[c].rows = {}
  PROVE  KeysUnique'
<1>1. ASSUME NEW c \in Crawls, NEW o \in DOMAIN Seen(c)', NEW p \in DOMAIN Seen(c)', o # p
      PROVE  Keys(Seen(c)'[o]) \cap Keys(Seen(c)'[p]) = {}
  <2>1. CASE crawl'[c].rows = crawl[c].rows
    <3>1. Seen(c)' = Seen(c)
      BY <2>1 DEF Seen
    <3> QED
      BY <1>1, <3>1 DEF KeysUnique
  <2>2. CASE DOMAIN crawl'[c].rows = {}
    <3>1. DOMAIN Seen(c)' = DOMAIN opp /\ \A q \in DOMAIN opp : Seen(c)'[q] = opp[q]
      BY <2>2 DEF Seen, Over
    <3> QED
      BY <1>1, <3>1 DEF KeysUnique
  <2> QED
    BY <2>1, <2>2
<1>2. \A c, d \in Crawls : c # d =>
        \A o \in DOMAIN crawl'[c].rows : \A p \in DOMAIN crawl'[d].rows :
          Keys(crawl'[c].rows[o]) \cap Keys(crawl'[d].rows[p]) = {}
  BY DEF KeysUnique
<1> QED
  BY <1>1, <1>2 DEF KeysUnique

LEMMA PersistKeepsKeys ==
  ASSUME CatalogueInv, KeysUnique, NEW c \in Crawls, NEW o, Persist(c, o)
  PROVE  KeysUnique'
<1> DEFINE new == Target(c, o)
<1>1. /\ UNCHANGED opp /\ KeysAreFree(c, o)
      /\ \A d \in Crawls \ {c} : crawl'[d] = crawl[d]
      /\ crawl'[c].rows = Over([p \in {o} |-> new], crawl[c].rows)
  BY DEF Persist, CatalogueInv, Typed
<1>2. /\ DOMAIN crawl'[c].rows = {o} \cup DOMAIN crawl[c].rows
      /\ crawl'[c].rows[o] = new
      /\ \A p \in DOMAIN crawl[c].rows \ {o} : crawl'[c].rows[p] = crawl[c].rows[p]
  BY <1>1 DEF Over
<1>3. /\ DOMAIN Seen(c)' = {o} \cup DOMAIN Seen(c) /\ Seen(c)'[o] = new
      /\ \A p \in DOMAIN Seen(c) \ {o} : Seen(c)'[p] = Seen(c)[p]
  <2>1. Seen(c)' = Over(crawl'[c].rows, opp)
    BY <1>1 DEF Seen
  <2>2. DOMAIN Seen(c)' = {o} \cup DOMAIN crawl[c].rows \cup DOMAIN opp
    BY <1>2, <2>1 DEF Over
  <2>3. \A p \in DOMAIN Seen(c)' :
          Seen(c)'[p] = IF p \in DOMAIN crawl'[c].rows THEN crawl'[c].rows[p] ELSE opp[p]
    BY <2>1 DEF Over
  <2> QED
    BY <1>2, <2>2, <2>3, SeenRows
<1> HIDE DEF new
<1>4. \A p \in DOMAIN Seen(c) \ {o} : Keys(Seen(c)[p]) \cap Keys(new) = {}
  BY <1>1 DEF KeysAreFree, new
<1>5. \A p, q \in DOMAIN Seen(c)' : p # q => Keys(Seen(c)'[p]) \cap Keys(Seen(c)'[q]) = {}
  <2> SUFFICES ASSUME NEW p \in DOMAIN Seen(c)', NEW q \in DOMAIN Seen(c)', p # q
               PROVE  Keys(Seen(c)'[p]) \cap Keys(Seen(c)'[q]) = {}
    OBVIOUS
  <2>1. CASE p = o
    BY <1>3, <1>4, <2>1
  <2>2. CASE q = o
    BY <1>3, <1>4, <2>2
  <2>3. CASE p # o /\ q # o
    BY <1>3, <2>3 DEF KeysUnique
  <2> QED
    BY <2>1, <2>2, <2>3
<1>6. \A d \in Crawls \ {c} : Seen(d)' = Seen(d)
  BY <1>1 DEF Seen
<1>7. \A d \in Crawls \ {c} : \A p \in DOMAIN crawl[d].rows : \A q \in DOMAIN crawl'[c].rows :
        Keys(crawl'[c].rows[q]) \cap Keys(crawl[d].rows[p]) = {}
  <2> SUFFICES ASSUME NEW d \in Crawls \ {c}, NEW p \in DOMAIN crawl[d].rows,
                      NEW q \in DOMAIN crawl'[c].rows
               PROVE  Keys(crawl'[c].rows[q]) \cap Keys(crawl[d].rows[p]) = {}
    OBVIOUS
  <2>1. CASE q = o
    BY <1>2, <2>1, HeldKeysWait DEF new
  <2>2. CASE q # o
    BY <1>2, <2>2 DEF KeysUnique
  <2> QED
    BY <2>1, <2>2
<1>8. \A d, e \in Crawls : d # e =>
        \A p \in DOMAIN crawl'[d].rows : \A q \in DOMAIN crawl'[e].rows :
          Keys(crawl'[d].rows[p]) \cap Keys(crawl'[e].rows[q]) = {}
  <2> SUFFICES ASSUME NEW d \in Crawls, NEW e \in Crawls, d # e,
                      NEW p \in DOMAIN crawl'[d].rows, NEW q \in DOMAIN crawl'[e].rows
               PROVE  Keys(crawl'[d].rows[p]) \cap Keys(crawl'[e].rows[q]) = {}
    OBVIOUS
  <2>1. CASE d = c
    BY <1>1, <1>7, <2>1
  <2>2. CASE e = c
    BY <1>1, <1>7, <2>2
  <2>3. CASE d # c /\ e # c
    BY <1>1, <2>3 DEF KeysUnique
  <2> QED
    BY <2>1, <2>2, <2>3
<1> QED
  BY <1>1, <1>5, <1>6, <1>8 DEF KeysUnique

LEMMA FinishKeepsKeys ==
  ASSUME CatalogueInv, KeysUnique, NEW c \in Crawls, Finish(c)
  PROVE  KeysUnique'
<1>1. /\ opp' = Seen(c) /\ DOMAIN crawl'[c].rows = {}
      /\ \A d \in Crawls \ {c} : crawl'[d] = crawl[d]
  BY IdleSession DEF Finish, CatalogueInv, Typed
<1>2. \A o, p \in DOMAIN opp' : o # p => Keys(opp'[o]) \cap Keys(opp'[p]) = {}
  BY <1>1 DEF KeysUnique
<1>3. ASSUME NEW d \in Crawls, NEW o \in DOMAIN Seen(d)', NEW p \in DOMAIN Seen(d)', o # p
      PROVE  Keys(Seen(d)'[o]) \cap Keys(Seen(d)'[p]) = {}
  <2>1. CASE d = c
    <3>1. DOMAIN Seen(d)' = DOMAIN opp' /\ \A q \in DOMAIN opp' : Seen(d)'[q] = opp'[q]
      BY <1>1, <2>1 DEF Seen, Over
    <3> QED
      BY <1>2, <1>3, <3>1
  <2>2. CASE d # c
    <3> DEFINE rows == crawl[d].rows
    <3>1. /\ DOMAIN Seen(d)' = DOMAIN rows \cup DOMAIN Seen(c)
          /\ \A q \in DOMAIN Seen(d)' :
               Seen(d)'[q] = IF q \in DOMAIN rows THEN rows[q] ELSE Seen(c)[q]
      BY <1>1, <2>2 DEF Seen, Over
    <3>2. ASSUME NEW q \in DOMAIN rows, NEW r \in DOMAIN Seen(c) \ DOMAIN rows
          PROVE  Keys(rows[q]) \cap Keys(Seen(c)[r]) = {}
      <4>1. CASE r \in DOMAIN crawl[c].rows
        BY <2>2, <3>2, <4>1, SeenRows DEF KeysUnique
      <4>2. CASE r \notin DOMAIN crawl[c].rows
        <5>1. r \in DOMAIN opp /\ Seen(c)[r] = opp[r]
          BY <3>2, <4>2, SeenRows
        <5>2. /\ r \in DOMAIN Seen(d) /\ Seen(d)[r] = opp[r]
              /\ q \in DOMAIN Seen(d) /\ Seen(d)[q] = rows[q] /\ q # r
          BY <3>2, <5>1, SeenRows
        <5> QED
          BY <5>1, <5>2 DEF KeysUnique
      <4> QED
        BY <4>1, <4>2
    <3>3. CASE o \in DOMAIN rows /\ p \in DOMAIN rows
      <4>1. /\ o \in DOMAIN Seen(d) /\ Seen(d)[o] = rows[o]
            /\ p \in DOMAIN Seen(d) /\ Seen(d)[p] = rows[p]
        BY <3>3, SeenRows
      <4> QED
        BY <1>3, <3>1, <3>3, <4>1 DEF KeysUnique
    <3>4. CASE o \in DOMAIN rows /\ p \notin DOMAIN rows
      BY <3>1, <3>2, <3>4
    <3>5. CASE o \notin DOMAIN rows /\ p \in DOMAIN rows
      BY <3>1, <3>2, <3>5
    <3>6. CASE o \notin DOMAIN rows /\ p \notin DOMAIN rows
      BY <1>3, <3>1, <3>6 DEF KeysUnique
    <3> QED
      BY <3>3, <3>4, <3>5, <3>6
  <2> QED
    BY <2>1, <2>2
<1>4. \A d, e \in Crawls : d # e =>
        \A o \in DOMAIN crawl'[d].rows : \A p \in DOMAIN crawl'[e].rows :
          Keys(crawl'[d].rows[o]) \cap Keys(crawl'[e].rows[p]) = {}
  BY <1>1 DEF KeysUnique
<1> QED
  BY <1>2, <1>3, <1>4 DEF KeysUnique

LEMMA KeysInductive == CatalogueInv /\ CatalogueInv' /\ KeysUnique /\ [Next]_vars => KeysUnique'
<1> SUFFICES ASSUME CatalogueInv, CatalogueInv', KeysUnique, [Next]_vars PROVE KeysUnique'
  OBVIOUS
<1>1. ASSUME NEW c \in Crawls, NEW s \in Sources, Start(c, s) PROVE KeysUnique'
  <2>1. \A d \in Crawls \ {c} : crawl'[d] = crawl[d]
    BY <1>1 DEF Start, CatalogueInv, Typed
  <2>2. crawl'[c].rows = crawl[c].rows
    BY <1>1 DEF Start, CatalogueInv, Typed, Session
  <2> QED
    BY <1>1, <2>1, <2>2, RowsStay DEF Start
<1>2. ASSUME NEW c \in Crawls, NEW rec \in Record, Decide(c, rec) PROVE KeysUnique'
  <2>1. \A d \in Crawls : crawl'[d].rows = crawl[d].rows
    BY <1>2 DEF Decide, CatalogueInv, Typed
  <2> QED
    BY <1>2, <2>1, RowsStay DEF Decide
<1>3. ASSUME NEW c \in Crawls, NEW o \in Opps, Persist(c, o) PROVE KeysUnique'
  BY <1>3, PersistKeepsKeys
<1>4. ASSUME NEW c \in Crawls, crawl' = [crawl EXCEPT ![c] = Idle], UNCHANGED opp
      PROVE  KeysUnique'
  <2>1. \A d \in Crawls : crawl'[d] = IF d = c THEN Idle ELSE crawl[d]
    BY <1>4 DEF CatalogueInv, Typed
  <2>2. \A d \in Crawls : crawl'[d].rows = crawl[d].rows \/ DOMAIN crawl'[d].rows = {}
    BY <2>1, IdleSession
  <2> QED
    BY <1>4, <2>2, RowsStay
<1>5. ASSUME NEW c \in Crawls, NEW o \in Opps, Refused(c, o) PROVE KeysUnique'
  BY <1>4, <1>5 DEF Refused
<1>6. ASSUME NEW c \in Crawls, CrawlLost(c) PROVE KeysUnique'
  BY <1>4, <1>6 DEF CrawlLost
<1>7. ASSUME NEW c \in Crawls, Finish(c) PROVE KeysUnique'
  BY <1>7, FinishKeepsKeys
<1>8. CASE UNCHANGED vars
  BY <1>8, RowsStay DEF vars
<1> QED
  BY <1>1, <1>2, <1>3, <1>5, <1>6, <1>7, <1>8 DEF Next

LEMMA KeysHold == Spec => []KeysUnique
<1>1. Init => KeysUnique
  <2>1. Init => DOMAIN opp = {} /\ \A c \in Crawls : DOMAIN crawl[c].rows = {}
    BY DEF Init, EmptyTable, Idle
  <2> QED
    BY <2>1 DEF KeysUnique, Seen, Over
<1> QED
  BY <1>1, KeysInductive, CatalogueInvHolds, PTL DEF Spec

\* A record with the content of a row's newest version: the fingerprint finds that row and
\* no other, in scope and without a conflict, if no earlier layer has found one.
LEMMA SeenAgain ==
  ASSUME CatalogueInv, KeysUnique, NEW o \in DOMAIN opp,
         NEW rec \in Published[Newest(opp[o]).source], Content(rec) = Newest(opp[o]).content,
         NEW result \in FindDuplicate(opp, Newest(opp[o]).source, rec)
  PROVE  IsDuplicate(result)
<1> DEFINE row == opp[o]
           v   == Newest(row)
           s   == v.source
<1>1. row \in Row /\ Sound(row)
  BY DEF CatalogueInv, Typed, IsTable, RowsSound
<1>2. v \in row.history /\ Agrees(row, v) /\ InScope(row, s)
  BY <1>1, NewestAgrees DEF Sound, Numbered
<1>3. s \in Sources
  BY <1>1, <1>2 DEF Row, Version
<1>4. rec \in Record
  BY <1>3, CatalogueAssumption
<1>5. row.fingerprint = Fingerprint(rec)
  BY <1>2, <1>4, ContentTyped DEF Agrees, Fingerprint
<1>6. ~Conflicts(row, rec)
  <2> SUFFICES ASSUME rec.ref # None
               PROVE  /\ row.refn # None => row.refn = CompareRef(rec.ref)
                      /\ row.ref # None => CompareRef(row.ref) = CompareRef(rec.ref)
    BY DEF Conflicts
  <2>1. CompareRef(rec.ref) = CompareRef(v.ref)
    BY <1>2, <1>4, ContentTyped DEF Agrees
  <2>2. CompareRef(rec.ref) # None
    BY <1>4, CatalogueAssumption DEF CompareRef, Record, Optional
  <2>3. v.ref # None
    BY <2>1, <2>2 DEF CompareRef
  <2>4. v.ref = row.ref
    BY <1>2, <2>3 DEF Agrees
  <2> QED
    BY <1>1, <2>1, <2>4 DEF Sound, Normalised
<1>7. \A p \in DOMAIN opp : opp[p].fingerprint = Fingerprint(rec) => p = o
  BY <1>5 DEF KeysUnique, Keys
<1> HIDE DEF row, v, s
<1>8. ByFingerprint(opp, rec) = {o}
  BY <1>5, <1>7 DEF ByFingerprint, row
<1>9. ~Conflicts(opp[o], rec) /\ InScope(opp[o], s)
  BY <1>2, <1>6 DEF row
<1>10. \A r \in Layer3(opp, s, rec) : IsDuplicate(r)
  BY <1>8, <1>9 DEF Layer3, Result, IsDuplicate
<1>11. \A r \in Layer2(opp, s, rec) : IsDuplicate(r)
  BY <1>10 DEF Layer2, Result, IsDuplicate
<1>12. \A r \in FindDuplicate(opp, s, rec) : IsDuplicate(r)
  BY <1>11 DEF FindDuplicate, Result, IsDuplicate
<1> USE DEF row, v, s
<1> QED
  BY <1>12

\* A tender that is listed again as it was last seen is recognised, however its row came
\* about and whatever else is in the catalogue.
THEOREM SeenTendersAreRecognised == Spec => []Recognised
<1>1. CatalogueInv /\ KeysUnique => Recognised
  <2> SUFFICES ASSUME CatalogueInv, KeysUnique, NEW o \in DOMAIN opp,
                      NEW rec \in Published[Newest(opp[o]).source],
                      Content(rec) = Newest(opp[o]).content,
                      NEW result \in FindDuplicate(opp, Newest(opp[o]).source, rec)
               PROVE  IsDuplicate(result)
    BY DEF Recognised
  <2> QED
    BY SeenAgain
<1> QED
  BY <1>1, CatalogueInvHolds, KeysHold, PTL

=============================================================================

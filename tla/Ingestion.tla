------------------------------- MODULE Ingestion -------------------------------
(***************************************************************************)
(* The ingestion pipeline (app/ingestion/pipeline.py): a crawl resolves    *)
(* every record a source publishes against the catalogue (deduplicator.py) *)
(* and inserts it, or brings the tender it belongs to up to date and       *)
(* writes a version (versioning.py).  A crawl is one transaction: its      *)
(* items become visible together, or none does.                            *)
(*                                                                         *)
(* Several crawls run at once, of different sources or of one source that  *)
(* was retried and claimed again.  PostgreSQL at READ COMMITTED: a crawl   *)
(* reads committed rows and its own; an UPDATE waits for the row's lock,   *)
(* an INSERT or UPDATE for an undecided row with the same unique key.      *)
(*                                                                         *)
(* A record keeps the fields that decide something: two tracked fields     *)
(* (title, which stands for organization and type too, and closing date),  *)
(* the reference, the site's own id and the document links.  Hashes are    *)
(* the values they are taken of.                                           *)
(***************************************************************************)
EXTENDS Integers

CONSTANTS
  Opps,        \* identities of opportunity rows
  Crawls,      \* sessions that may be crawling
  Sources,
  Issuer,      \* [Sources -> municipalities \cup {None}]: municipality_id
  Refs,        \* reference numbers as published
  Comparable,  \* [Refs -> ...]: normalize_reference_number
  Exts,        \* the sites' own ids
  Titles, Dates, Urls,
  None,        \* NULL, of any column
  Similar,     \* [Titles \X Titles -> {"no", "review", "probable"}]: trigram score
  Near,        \* pairs of dates within FUZZY_CLOSING_WINDOW
  Published,   \* [Sources -> SUBSET Record]: what a source may list
  MaxVersion   \* bound on the versions of a tender

Optional(S) == S \cup {None}

\* NormalizedOpportunity, validated: a record without a title never gets here.
Record ==
  [ref : Optional(Refs), ext : Optional(Exts), title : Titles,
   closing : Optional(Dates), docs : SUBSET Urls]

Scores == {"no", "review", "probable"}

ASSUME CatalogueAssumption ==
  /\ None \notin Refs \cup Exts \cup Titles \cup Dates \cup Crawls \cup Sources \cup Opps
  /\ None \notin Record
  /\ DOMAIN Issuer = Sources /\ DOMAIN Comparable = Refs
  /\ \A r \in Refs : Comparable[r] # None
  /\ Similar \in [Titles \X Titles -> Scores]
  /\ Near \subseteq Dates \X Dates
  /\ Published \in [Sources -> SUBSET Record]
  /\ MaxVersion \in Nat \ {0}

VARIABLES
  opp,    \* procurement_opportunities with their versions and documents, committed
  crawl   \* per session: the transaction it has open

vars == <<opp, crawl>>

-----------------------------------------------------------------------------
(* Rows                                                                    *)

CompareRef(r) == IF r = None THEN None ELSE Comparable[r]

\* hashable_payload, also what a version's snapshot records; and the fingerprint.
Content(rec) == [ref |-> CompareRef(rec.ref), title |-> rec.title,
                 closing |-> rec.closing, docs |-> rec.docs]
Fingerprint(rec) == <<rec.title, rec.closing>>

Contents == [ref : Optional({Comparable[r] : r \in Refs}), title : Titles,
             closing : Optional(Dates), docs : SUBSET Urls]

\* A version has the snapshot and, in changed_fields, the reference as published.
Version == [number : 1 .. MaxVersion, source : Sources, ref : Optional(Refs), content : Contents]

Row ==
  [source : Sources, ref : Optional(Refs),
   refn : Optional({Comparable[r] : r \in Refs}),   \* reference_number_normalized
   ext : Optional(Exts), title : Titles, closing : Optional(Dates),
   docs : SUBSET Urls, hash : Contents, fingerprint : Titles \X Optional(Dates),
   version : 1 .. MaxVersion,
   history : SUBSET Version]                        \* opportunity_versions

\* Rows by identity: the committed ones, or those a transaction has written.
IsTable(table) == DOMAIN table \subseteq Opps /\ \A o \in DOMAIN table : table[o] \in Row

Over(new, old) ==
  [o \in DOMAIN new \cup DOMAIN old |-> IF o \in DOMAIN new THEN new[o] ELSE old[o]]

\* UNIQUE columns; NULL is equal to nothing.
Keys(row) ==
  {<<"fingerprint", row.fingerprint>>}
    \cup (IF row.ext = None THEN {} ELSE {<<"external", row.source, row.ext>>})
    \cup (IF row.ref = None \/ Issuer[row.source] = None THEN {}
          ELSE {<<"reference", Issuer[row.source], row.ref>>})

-----------------------------------------------------------------------------
(* Deduplication                                                           *)

Result(decision, o) == [decision |-> decision, opp |-> o]
NewTender == Result("NEW", None)

SameIssuer(row, s) ==
  IF Issuer[s] # None THEN Issuer[row.source] = Issuer[s] ELSE row.source = s

\* Mutant: a text match is followed wherever it leads.
InAnyScope(row, s) == TRUE

\* The municipality of a record is that of its source.
InScope(row, s) ==
  row.source = s \/ (Issuer[s] # None /\ Issuer[row.source] = Issuer[s])

\* Two published references that differ.
Conflicts(row, rec) ==
  /\ rec.ref # None
  /\ IF row.refn # None THEN row.refn # CompareRef(rec.ref)
     ELSE row.ref # None /\ CompareRef(row.ref) # CompareRef(rec.ref)

ByReference(db, s, rec) == {o \in DOMAIN db :
  /\ rec.ref # None
  /\ db[o].refn = CompareRef(rec.ref) \/ db[o].ref = rec.ref
  /\ SameIssuer(db[o], s)}

ByContent(db, s, rec) == {o \in DOMAIN db :
  db[o].hash = Content(rec) /\ db[o].source = s}

ByFingerprint(db, rec) == {o \in DOMAIN db : db[o].fingerprint = Fingerprint(rec)}

Fuzzy(db, s, rec, score) == {o \in DOMAIN db :
  /\ db[o].source = s
  /\ Similar[<<db[o].title, rec.title>>] = score
  /\ Issuer[s] # None => Issuer[db[o].source] = Issuer[s]
  /\ rec.ref # None => db[o].refn \in {None, CompareRef(rec.ref)}
  /\ rec.closing # None => db[o].closing = None \/ <<db[o].closing, rec.closing>> \in Near}

\* The layers return the first row they find, in no particular order; a match in
\* layer 2 or 3 that conflicts is passed over, and with it the layer.
Layer4(db, s, rec) ==
  LET probable == Fuzzy(db, s, rec, "probable")
      review   == Fuzzy(db, s, rec, "review")
  IN  IF probable # {} THEN {Result("PROBABLE_MATCH", o) : o \in probable}
      ELSE IF review # {} THEN {Result("UNCERTAIN", o) : o \in review}
      ELSE {NewTender}

Layer3(db, s, rec) ==
  LET found == ByFingerprint(db, rec) IN
  {Result(IF InScope(db[o], s) THEN "PROBABLE_MATCH" ELSE "UNCERTAIN", o) :
     o \in {f \in found : ~Conflicts(db[f], rec)}}
  \cup (IF found = {} \/ \E o \in found : Conflicts(db[o], rec)
        THEN Layer4(db, s, rec) ELSE {})

Layer2(db, s, rec) ==
  LET found == ByContent(db, s, rec) IN
  {Result("EXACT_MATCH", o) : o \in {f \in found : ~Conflicts(db[f], rec)}}
  \cup (IF found = {} \/ \E o \in found : Conflicts(db[o], rec)
        THEN Layer3(db, s, rec) ELSE {})

FindDuplicate(db, s, rec) ==
  LET found == ByReference(db, s, rec) IN
  IF found # {} THEN {Result("EXACT_MATCH", o) : o \in found} ELSE Layer2(db, s, rec)

IsDuplicate(result) == result.decision \in {"EXACT_MATCH", "PROBABLE_MATCH"}
-----------------------------------------------------------------------------
(* The diff and what it writes                                             *)

\* Mutant: a value the scrape missed counts as a change.
ChangedToNull(row, rec) ==
  \/ rec.ref # row.ref \/ rec.title # row.title \/ rec.closing # row.closing
  \/ ~(rec.docs \subseteq row.docs)

\* documents_removed alone is no change.
Changed(row, rec) ==
  \/ rec.ref # None /\ rec.ref # row.ref
  \/ rec.title # row.title
  \/ rec.closing # None /\ rec.closing # row.closing
  \/ ~(rec.docs \subseteq row.docs)

NewVersion(n, s, rec) ==
  [number |-> n, source |-> s, ref |-> rec.ref, content |-> Content(rec)]

\* Mutant: the first version is number 0.
NewRowFromZero(s, rec) ==
  [source |-> s, ref |-> rec.ref, refn |-> CompareRef(rec.ref), ext |-> rec.ext,
   title |-> rec.title, closing |-> rec.closing, docs |-> rec.docs,
   hash |-> Content(rec), fingerprint |-> Fingerprint(rec), version |-> 0,
   history |-> {NewVersion(0, s, rec)}]

NewRow(s, rec) ==
  [source |-> s, ref |-> rec.ref, refn |-> CompareRef(rec.ref), ext |-> rec.ext,
   title |-> rec.title, closing |-> rec.closing, docs |-> rec.docs,
   hash |-> Content(rec), fingerprint |-> Fingerprint(rec), version |-> 1,
   history |-> {NewVersion(1, s, rec)}]

\* The ORM writes a column whose new value is not the one it had loaded.
Written(now, loaded, new) == IF new = loaded THEN now ELSE new

\* Mutant: NULL is written over a known value.
KnownOrNot(now, loaded, new) == Written(now, loaded, new)

\* A value the record does not have leaves the column alone.
Known(now, loaded, new) == IF new = None THEN now ELSE Written(now, loaded, new)

\* Mutant: the fingerprint is not renewed.
UpdatedKeepingFingerprint(row, loaded, s, rec) ==
  IF ~Changed(loaded, rec) THEN row
  ELSE [row EXCEPT !.title = rec.title, !.closing = Known(@, loaded.closing, rec.closing),
                   !.ref = Known(@, loaded.ref, rec.ref), !.docs = @ \cup rec.docs,
                   !.version = loaded.version + 1,
                   !.history = @ \cup {NewVersion(loaded.version + 1, s, rec)}]

\* _update_existing: "loaded" is the copy the decision was taken on.  A change
\* that is only cosmetic renews the hash.
Updated(row, loaded, s, rec) ==
  IF ~Changed(loaded, rec)
  THEN [row EXCEPT !.hash = Written(@, loaded.hash, Content(rec))]
  ELSE [row EXCEPT
          !.ref         = Known(@, loaded.ref, rec.ref),
          !.title       = Written(@, loaded.title, rec.title),
          !.closing     = Known(@, loaded.closing, rec.closing),
          !.docs        = @ \cup rec.docs,
          !.hash        = Written(@, loaded.hash, Content(rec)),
          !.fingerprint = Written(@, loaded.fingerprint, Fingerprint(rec)),
          !.version     = loaded.version + 1,
          !.history     = @ \cup {NewVersion(loaded.version + 1, s, rec)}]

-----------------------------------------------------------------------------
(* Crawls                                                                  *)

\* A session: what it crawls, the rows its open transaction has written, the
\* item at hand with its decision, and the duplicate as it was loaded.
CrawlOK(cr) ==
  /\ cr.pc \in {"idle", "crawling", "persisting"}
  /\ cr.source \in Sources <=> cr.pc # "idle"
  /\ IsTable(cr.rows)
  /\ cr.rec \in Record <=> cr.pc = "persisting"
  /\ cr.result.decision \in {"NEW", "EXACT_MATCH", "PROBABLE_MATCH", "UNCERTAIN"}
  /\ IsDuplicate(cr.result) => cr.result.opp \in Opps /\ cr.loaded \in Row

EmptyTable == [o \in {} |-> None]

Idle == [pc |-> "idle", source |-> None, rows |-> EmptyTable, rec |-> None,
         result |-> NewTender, loaded |-> None]

\* Rows, transactions and the items at hand are well formed, versions bounded.
IngestionTypeOK ==
  IsTable(opp) /\ DOMAIN crawl = Crawls /\ \A c \in Crawls : CrawlOK(crawl[c])

Init == opp = EmptyTable /\ crawl = [c \in Crawls |-> Idle]

Seen(c) == Over(crawl[c].rows, opp)

\* What the statement at hand is going to make of row o.
Target(c, o) ==
  IF IsDuplicate(crawl[c].result)
  THEN Updated(Seen(c)[o], crawl[c].loaded, crawl[c].source, crawl[c].rec)
  ELSE NewRow(crawl[c].source, crawl[c].rec)

KeysIn(table, o) == IF o \in DOMAIN table THEN Keys(table[o]) ELSE {}

\* Unique keys that transaction d has taken or given up with row o.
TakenOrGivenUp(d, o) ==
  LET taken == KeysIn(crawl[d].rows, o)
      had   == KeysIn(opp, o)
  IN  IF o \in DOMAIN crawl[d].rows THEN (taken \ had) \cup (had \ taken) ELSE {}

\* The same of all other open transactions.
Undecided(c) == UNION {TakenOrGivenUp(d, o) : d \in Crawls \ {c}, o \in Opps}

\* PostgreSQL makes the statement wait for the other transaction to end.
Waits(c, o) ==
  \/ \E d \in Crawls \ {c} : o \in DOMAIN crawl[d].rows
  \/ (Keys(Target(c, o)) \ KeysIn(Seen(c), o)) \cap Undecided(c) # {}

KeysAreFree(c, o) ==
  \A p \in DOMAIN Seen(c) \ {o} : Keys(Seen(c)[p]) \cap Keys(Target(c, o)) = {}

\* Mutant: no UNIQUE (opportunity_id, version).
AnyVersion(c, o) == TRUE

\* A version that is written has a number of its own.
VersionIsFree(c, o) ==
  /\ IsDuplicate(crawl[c].result)
  /\ Changed(crawl[c].loaded, crawl[c].rec)
  => \A v \in Seen(c)[o].history : v.number # crawl[c].loaded.version + 1

\* A version number past the bound is not modelled.
WithinBound(c) ==
  IsDuplicate(crawl[c].result) /\ Changed(crawl[c].loaded, crawl[c].rec)
  => crawl[c].loaded.version < MaxVersion

\* The row the item at hand goes to: its duplicate, or an identity nobody has.
Destination(c) ==
  IF IsDuplicate(crawl[c].result) THEN {crawl[c].result.opp}
  ELSE Opps \ (DOMAIN opp \cup UNION {DOMAIN crawl[d].rows : d \in Crawls})

Start(c, s) ==
  /\ crawl[c].pc = "idle"
  /\ crawl' = [crawl EXCEPT ![c].pc = "crawling", ![c].source = s]
  /\ UNCHANGED opp

\* The next record, and the queries that decide what it is.
Decide(c, rec) ==
  /\ crawl[c].pc = "crawling"
  /\ rec \in Published[crawl[c].source]
  /\ \E result \in FindDuplicate(Seen(c), crawl[c].source, rec) :
       crawl' = [crawl EXCEPT ![c] =
         [pc |-> "persisting", source |-> @.source, rows |-> @.rows, rec |-> rec,
          result |-> result,
          loaded |-> IF IsDuplicate(result) THEN Seen(c)[result.opp] ELSE None]]
  /\ UNCHANGED opp

\* _create_opportunity or _update_existing is flushed.
Persist(c, o) ==
  /\ crawl[c].pc = "persisting" /\ o \in Destination(c)
  /\ ~Waits(c, o) /\ WithinBound(c)
  /\ KeysAreFree(c, o) /\ VersionIsFree(c, o)
  /\ crawl' = [crawl EXCEPT ![c] =
       [pc |-> "crawling", source |-> @.source, rec |-> None, result |-> NewTender,
        loaded |-> None, rows |-> Over([p \in {o} |-> Target(c, o)], @.rows)]]
  /\ UNCHANGED opp

\* A unique key is taken: the flush fails, and with it the whole transaction.
\* The handler around the item reads the source, which the rollback has expired,
\* and raises again (pipeline.py, run_source).
Refused(c, o) ==
  /\ crawl[c].pc = "persisting" /\ o \in Destination(c)
  /\ ~Waits(c, o) /\ WithinBound(c)
  /\ ~(KeysAreFree(c, o) /\ VersionIsFree(c, o))
  /\ crawl' = [crawl EXCEPT ![c] = Idle]
  /\ UNCHANGED opp

\* The crawl dies, is the victim of a deadlock, or is cancelled.
CrawlLost(c) ==
  /\ crawl[c].pc # "idle"
  /\ crawl' = [crawl EXCEPT ![c] = Idle]
  /\ UNCHANGED opp

\* _finalise, and the commit of ingest_source: also of a crawl whose connector
\* failed half-way.
Finish(c) ==
  /\ crawl[c].pc = "crawling"
  /\ opp' = Seen(c)
  /\ crawl' = [crawl EXCEPT ![c] = Idle]

Next ==
  \E c \in Crawls :
    \/ \E s \in Sources : Start(c, s)
    \/ \E rec \in Record : Decide(c, rec)
    \/ \E o \in Opps : Persist(c, o)
    \/ \E o \in Opps : Refused(c, o)
    \/ CrawlLost(c)
    \/ Finish(c)

Spec == Init /\ [][Next]_vars

-----------------------------------------------------------------------------
(* Properties                                                              *)

Newest(row) == CHOOSE v \in row.history : v.number = row.version

\* The newest version tells the row's present: every value it records is the
\* row's, and the fingerprint is its own, whichever crawls interleaved and
\* whatever copy of the row they had decided on.  And a history is one issuer's:
\* its versions come from the row's source or from a source of its municipality.
HistoryAgrees ==
  \A o \in DOMAIN opp :
    LET row == opp[o]  now == Newest(row).content IN
    /\ \E v \in row.history : v.number = row.version
    /\ now.ref \in {None, CompareRef(row.ref)}
    /\ now.title = row.title
    /\ now.closing \in {None, row.closing}
    /\ now.docs \subseteq row.docs
    /\ row.fingerprint = <<now.title, now.closing>>
    /\ \A v \in row.history :
         \/ v.source = row.source
         \/ Issuer[v.source] # None /\ Issuer[v.source] = Issuer[row.source]

\* A tender that is listed again as it was last seen is recognised: it is never
\* inserted a second time nor held for review, however its row came about.
Recognised ==
  \A o \in DOMAIN opp : LET v == Newest(opp[o]) IN
    \A rec \in Published[v.source] : Content(rec) = v.content =>
      \A result \in FindDuplicate(opp, v.source, rec) : IsDuplicate(result)

\* A value that is known stays known, though a later scrape, or a crawl working
\* on an older copy of the row, did not see it.
NeverForgets ==
  [][\A o \in DOMAIN opp :
       /\ o \in DOMAIN opp'
       /\ opp[o].ref # None => opp'[o].ref # None
       /\ opp[o].closing # None => opp'[o].closing # None
       /\ opp[o].docs \subseteq opp'[o].docs]_vars

\* The versions of a tender implement the log of TenderHistory: numbered without
\* a gap, never rewritten, each with something new in it.
Log(row) == [n \in 1 .. row.version |->
  LET v == CHOOSE v \in row.history : v.number = n IN <<v.ref, v.content>>]

Histories == INSTANCE TenderHistory WITH
  log <- [o \in Opps |-> IF o \in DOMAIN opp THEN Log(opp[o]) ELSE <<>>]

ImplementsHistory == Histories!Spec

\* A tender keeps the reference it was published under (deduplicator.py: "a
\* fingerprint or trigram match is rejected when both records carry conflicting
\* reference numbers").
ReferencesAreNotMerged ==
  [][\A o \in DOMAIN opp :
       opp[o].ref # None => CompareRef(opp'[o].ref) = CompareRef(opp[o].ref)]_vars

\* A record that is held for review is stored (docs/INGESTION.md: "UNCERTAIN ->
\* insert as a separate record"): no unique key of it is taken.
UncertainFits ==
  \A c \in Crawls : \A o \in Destination(c) :
    crawl[c].pc = "persisting" /\ crawl[c].result.decision = "UNCERTAIN" => KeysAreFree(c, o)
=============================================================================

------------------------------- MODULE Documents -------------------------------
(***************************************************************************)
(* The document worker: process_documents (app/workers/tasks.py:226),      *)
(* DocumentService, DocumentDownloader, and the blob store they write to.  *)
(*                                                                         *)
(* A batch is one transaction over up to BatchLimit documents: it loads    *)
(* the pending ones, downloads each, stores the bytes, decides whether     *)
(* they are a new version, extracts text, and flushes; it commits at the   *)
(* end.  The cron fires every five minutes and a batch may take fifteen,   *)
(* so batches overlap, in different worker processes.                      *)
(*                                                                         *)
(* PostgreSQL at READ COMMITTED: a flushed UPDATE holds the row until the  *)
(* batch ends, and writes the columns that differ from the loaded copy.    *)
(* The blob store is outside the transaction.  The local store writes a    *)
(* download straight into its final path; S3 uploads when the stream is    *)
(* closed without an error.                                                *)
(***************************************************************************)
EXTENDS Integers, FiniteSets, DocumentFormats

CONSTANTS
  Docs,          \* document rows, numbered in the order of created_at
  Batches,       \* executions of process_documents that may overlap
  Contents,      \* the bytes a file may have; equal bytes have equal digests
  File,          \* [Contents -> description of the file, see DocumentFormats]
  Hint,          \* [Docs -> declared type, extension, and what its names speak of]
  Serves,        \* [Docs -> SUBSET Contents]: what the site may answer
  Takes,         \* [Docs -> Nat]: how long a download takes
  FetchErrors,   \* how a request may fail: "transient", "permanent"
  JobTimeout,    \* worker_job_timeout_seconds, in the units of Takes
  BatchLimit,    \* DEFAULT_DOCUMENT_BATCH
  Backends,      \* configured stores: "local", "s3"
  OcrEnabled, OcrAvailable,
  MaxFaults,     \* bound on the deaths, hung sites and failing writes of a history
  None

ASSUME DocumentAssumption ==
  /\ Docs \subseteq Nat
  /\ None \notin Docs \cup Batches \cup Contents
  /\ None \notin {"transient", "permanent", "storage"}
  /\ DOMAIN File = Contents /\ DOMAIN Hint = Docs
  /\ Serves \in [Docs -> SUBSET Contents] /\ Takes \in [Docs -> Nat]
  /\ JobTimeout \in Nat \ {0} /\ BatchLimit \in Nat \ {0} /\ MaxFaults \in Nat
  /\ Backends \subseteq {"local", "s3"} /\ FetchErrors \subseteq {"transient", "permanent"}

VARIABLES
  backend,   \* document_storage_backend
  row,       \* documents, committed
  versions,  \* document_versions, committed, per document
  text,      \* document_text, committed, per document
  blob,      \* objects of the store, by key
  batch,     \* what each execution of process_documents is at
  faults     \* deaths of workers, hung sites, failing writes so far

vars == <<backend, row, versions, text, blob, batch, faults>>

-----------------------------------------------------------------------------
(* Rows, objects, batches                                                  *)

Errors == {"transient", "permanent", "storage"}

DocRow ==
  [downloaded : BOOLEAN, error : Errors \cup {None}, sha : Contents \cup {None},
   version : Nat, type : TypesRuled \cup {"UNKNOWN"}]

NewRow == [downloaded |-> FALSE, error |-> None, sha |-> None, version |-> 1, type |-> "UNKNOWN"]

\* by stands for the identity of the row.
DocVersion == [number : Nat, sha : Contents, by : Batches]

\* The content a text was extracted from, and whether from all of it.
TextRow == [of : Contents, whole : BOOLEAN, method : {"NATIVE_PDF", "OCR", "HTML_PARSE",
            "PLAIN_TEXT", "SPREADSHEET", "NONE"}, empty : BOOLEAN]

\* build_storage_key: content-addressed, with the format as extension.
Key(d, c) == <<c, StoredFormat(File[c], Hint[d])>>
Keys == {Key(d, c) : d \in Docs, c \in Contents}

\* An object, and the last process that opened it for writing.
Object == [data : {"absent", "cut", "whole"}, by : Batches \cup {None}]
NoObject == [data |-> "absent", by |-> None]

Idle ==
  [phase |-> "idle", todo |-> {}, doc |-> None, copy |-> <<>>, got |-> None, waited |-> 0,
   spent |-> 0, new |-> FALSE, number |-> 0, words |-> None, present |-> FALSE,
   dirty |-> <<>>, mine |-> <<>>, added |-> {}, texts |-> <<>>]

Phases == {"idle", "fetch", "store", "open", "upload", "resolve", "extract", "flush"}

Put(f, x, v) == [y \in DOMAIN f \cup {x} |-> IF y = x THEN v ELSE f[y]]
Drop(f, x)   == [y \in DOMAIN f \ {x} |-> f[y]]

Least(S) == CHOOSE d \in S : \A e \in S : d <= e
Oldest(S, n) == {d \in S : Cardinality({e \in S : e < d}) < n}

\* pending_downloads
Pending == {d \in Docs : ~row[d].downloaded /\ row[d].error = None}

Init ==
  /\ backend \in Backends
  /\ row = [d \in Docs |-> NewRow]
  /\ versions = [d \in Docs |-> {}]
  /\ text = [d \in Docs |-> None]
  /\ blob = [k \in Keys |-> NoObject]
  /\ batch = [b \in Batches |-> Idle]
  /\ faults = 0

-----------------------------------------------------------------------------
(* The batch                                                               *)

\* The loop of process_documents goes on to the next document, or to its commit.
Onward(r) ==
  LET done == [r EXCEPT !.got = None, !.waited = 0, !.new = FALSE, !.number = 0,
                        !.words = None, !.present = FALSE]
  IN  IF r.todo = {} THEN [done EXCEPT !.doc = None, !.phase = "flush"]
      ELSE [done EXCEPT !.doc = Least(r.todo), !.todo = @ \ {Least(r.todo)}, !.phase = "fetch"]

\* The ORM's object: as loaded, with what was assigned since.
Held(r) == IF r.doc \in DOMAIN r.dirty THEN r.dirty[r.doc] ELSE r.copy[r.doc]

\* Mutant: nothing limits how long a batch may work.
AtAnyTime(b, phase) == batch[b].phase = phase

\* Within the job's time-out.
At(b, phase) == batch[b].phase = phase /\ batch[b].spent < JobTimeout

Becomes(b, r) == batch' = [batch EXCEPT ![b] = r]

Select(b) ==
  LET chosen == Oldest(Pending, BatchLimit) IN
  /\ batch[b].phase = "idle" /\ chosen # {}
  /\ Becomes(b, Onward([Idle EXCEPT !.todo = chosen, !.copy = [d \in chosen |-> row[d]]]))
  /\ UNCHANGED <<backend, row, versions, text, blob, faults>>

\* The site sends slowly.
Trickle(b) ==
  /\ At(b, "fetch") /\ batch[b].waited < Takes[batch[b].doc]
  /\ Becomes(b, [batch[b] EXCEPT !.waited = @ + 1, !.spent = @ + 1])
  /\ UNCHANGED <<backend, row, versions, text, blob, faults>>

\* Mutant: the failure is logged only.
FailedUnrecorded(r, error) == Onward(r)

\* The site hangs, a byte at a time, until the job's time is over.
Stall(b) ==
  /\ At(b, "fetch") /\ faults < MaxFaults
  /\ Becomes(b, [batch[b] EXCEPT !.spent = JobTimeout])
  /\ faults' = faults + 1
  /\ UNCHANGED <<backend, row, versions, text, blob>>

\* download_document: any exception is noted on the document, and that is the end of it.
Failed(r, error) == Onward([r EXCEPT !.dirty = Put(@, r.doc, [Held(r) EXCEPT !.error = error])])

\* stream_to: a status of RETRYABLE_STATUS or a network error, another status, a file too large.
FetchFails(b, error) ==
  /\ At(b, "fetch")
  /\ Becomes(b, Failed(batch[b], error))
  /\ UNCHANGED <<backend, row, versions, text, blob, faults>>

\* The bytes are complete, hashed and sniffed; an unsupported type is refused.
Fetched(b, c) ==
  LET r == batch[b] IN
  /\ At(b, "fetch") /\ r.waited = Takes[r.doc] /\ c \in Serves[r.doc]
  /\ Becomes(b, IF Storable(File[c], Hint[r.doc])
                THEN [r EXCEPT !.phase = "store", !.got = c]
                ELSE Failed(r, "permanent"))
  /\ UNCHANGED <<backend, row, versions, text, blob, faults>>

\* open_write: the local store truncates the final path; S3 spools.
Opened(o, b) == IF backend = "local" THEN [data |-> "cut", by |-> b] ELSE o

\* Mutant: a second writer appends to what the first has written.
ClosedAppended(o, b) == {[o EXCEPT !.data = IF backend = "s3" \/ o.by = b THEN "whole" ELSE "cut"]}

\* The stream is closed.  Who opened the path last has truncated what others wrote:
\* whether their bytes end up complete depends on how far a writer that died had come.
Closed(o, b) ==
  IF backend = "s3" \/ o.by = b \/ o.data = "whole" THEN {[o EXCEPT !.data = "whole"]}
  ELSE {o, [o EXCEPT !.data = "whole"]}

\* Mutant: a stream left with an exception is closed like any other.
AbortedIsClosed(o, b) == [o EXCEPT !.data = IF backend = "s3" THEN "cut" ELSE @]

\* The stream is left with an exception: abort() on S3, a shorter file on disk.
Aborted(o, b) == o

\* An object that exists is taken for the content its key names.
Exists(b) ==
  LET r == batch[b] IN
  /\ At(b, "store")
  /\ Becomes(b, [r EXCEPT !.phase = IF blob[Key(r.doc, r.got)].data = "absent"
                                   THEN "open" ELSE "resolve"])
  /\ UNCHANGED <<backend, row, versions, text, blob, faults>>

Open(b) ==
  /\ At(b, "open")
  /\ Becomes(b, [batch[b] EXCEPT !.phase = "upload"])
  /\ blob' = [blob EXCEPT ![Key(batch[b].doc, batch[b].got)] = Opened(@, b)]
  /\ UNCHANGED <<backend, row, versions, text, faults>>

Upload(b) ==
  LET r == batch[b] k == Key(r.doc, r.got) IN
  /\ At(b, "upload")
  /\ Becomes(b, [r EXCEPT !.phase = "resolve"])
  /\ \E o \in Closed(blob[k], b) : blob' = [blob EXCEPT ![k] = o]
  /\ UNCHANGED <<backend, row, versions, text, faults>>

\* exists() that cannot tell raises (S3); a write fails half-way (disk full, outage).
StoreFails(b) ==
  LET r == batch[b] k == Key(r.doc, r.got) IN
  /\ (At(b, "store") /\ backend = "s3") \/ At(b, "upload")
  /\ faults < MaxFaults /\ faults' = faults + 1
  /\ Becomes(b, Failed(r, "storage"))
  /\ blob' = IF r.phase = "upload" THEN [blob EXCEPT ![k] = Aborted(@, b)] ELSE blob
  /\ UNCHANGED <<backend, row, versions, text>>

-----------------------------------------------------------------------------
(* Versions, text, flush                                                   *)

Known(d, c) == \E v \in versions[d] : v.sha = c
Latest(d)   == IF versions[d] = {} THEN 0
               ELSE CHOOSE n \in {v.number : v \in versions[d]} :
                      \A v \in versions[d] : v.number <= n

\* download_document after a download: is it a version already, and if not, which number?
Resolve(b) ==
  LET r == batch[b]
      new == ~Known(r.doc, r.got)
      number == Latest(r.doc) + 1
  IN
  /\ At(b, "resolve")
  /\ Becomes(b, [r EXCEPT !.phase = "extract", !.new = new, !.number = number,
       !.dirty = Put(@, r.doc, [Held(r) EXCEPT
          !.downloaded = TRUE, !.error = None, !.sha = r.got,
          !.version = IF new THEN number ELSE @])])
  /\ UNCHANGED <<backend, row, versions, text, blob, faults>>

Words(c, whole, outcome) ==
  [of |-> c, whole |-> whole, method |-> outcome.method, empty |-> outcome.empty]

\* _extract_text: nothing for known content; an object cut short may read as a
\* shorter text or not at all; an exception leaves things as they are.
Extractions(d, c) ==
  LET outcome == ExtractText(File[c], StoredFormat(File[c], Hint[d]), OcrEnabled, OcrAvailable)
      read    == IF outcome = Raises THEN None ELSE Words(c, blob[Key(d, c)].data = "whole", outcome)
  IN  CASE blob[Key(d, c)].data = "whole"  -> {read}
        [] blob[Key(d, c)].data = "cut"    -> {None, read}
        [] blob[Key(d, c)].data = "absent" -> {None}

\* What the classifier is given as text: the session does not flush before the query,
\* so a text row that is only pending is not found.
SpokenText(d, words) ==
  IF text[d] = None THEN {} ELSE File[IF words = None THEN text[d].of ELSE words.of].speaks

TypeFor(d, words, old) ==
  LET type == Classify([filename |-> Hint[d].filename, title |-> Hint[d].title,
                        text |-> SpokenText(d, words)])
  IN  IF type = "UNKNOWN" THEN old ELSE type

Extract(b) ==
  LET r == batch[b] d == r.doc IN
  /\ At(b, "extract")
  /\ \E words \in IF r.new THEN Extractions(d, r.got) ELSE {None} :
       Becomes(b, [r EXCEPT !.phase = "flush", !.words = words, !.present = text[d] # None,
                            !.dirty[d].type = TypeFor(d, words, @)])
  /\ UNCHANGED <<backend, row, versions, text, blob, faults>>

\* Mutant: every column is written, as loaded if it was not assigned.
WrittenWhole(old, new, now) == new

\* An UPDATE sets the columns that differ from the loaded copy.
Written(old, new, now) == [c \in DOMAIN now |-> IF new[c] # old[c] THEN new[c] ELSE now[c]]

Locked(b, d) == d \in DOMAIN batch[b].mine

Flushed(r, d) ==
  [r EXCEPT !.dirty = Drop(@, d), !.mine = Put(@, d, Written(r.copy[d], r.dirty[d], row[d]))]

FlushRow(b, d) ==
  /\ At(b, "flush") /\ d \in DOMAIN batch[b].dirty
  /\ \A x \in Batches \ {b} : ~Locked(x, d)
  /\ Becomes(b, Flushed(batch[b], d))
  /\ UNCHANGED <<backend, row, versions, text, blob, faults>>

\* Mutant: the table of versions has no unique key.
CollidesOnText(r) == r.words # None /\ ~r.present /\ text[r.doc] # None

\* UNIQUE (document_id, sha256) of versions, UNIQUE (document_id) of texts.
Collides(r) ==
  \/ r.new /\ Known(r.doc, r.got)
  \/ r.words # None /\ ~r.present /\ text[r.doc] # None

Flushing(b) == At(b, "flush") /\ batch[b].dirty = <<>>

FlushInserts(b) ==
  LET r == batch[b] IN
  /\ Flushing(b) /\ r.doc # None /\ ~Collides(r)
  /\ Becomes(b, Onward([r EXCEPT
       !.added = IF r.new THEN @ \cup {<<r.doc, [number |-> r.number, sha |-> r.got, by |-> b]>>} ELSE @,
       !.texts = IF r.words # None THEN Put(@, r.doc, r.words) ELSE @]))
  /\ UNCHANGED <<backend, row, versions, text, blob, faults>>

Commit(b) ==
  LET r == batch[b] IN
  /\ Flushing(b) /\ r.doc = None
  /\ row' = [d \in Docs |-> IF d \in DOMAIN r.mine THEN r.mine[d] ELSE row[d]]
  /\ versions' = [d \in Docs |-> versions[d] \cup {a[2] : a \in {x \in r.added : x[1] = d}}]
  /\ text' = [d \in Docs |-> IF d \in DOMAIN r.texts THEN r.texts[d] ELSE text[d]]
  /\ Becomes(b, Idle)
  /\ UNCHANGED <<backend, blob, faults>>

-----------------------------------------------------------------------------
(* Batches that end without a commit                                       *)

\* session_scope rolls back; the store is not part of the transaction.
RolledBack(b) == Becomes(b, Idle) /\ UNCHANGED <<backend, row, versions, text, blob>>

\* A refused flush makes the session unusable: the handler that isolates documents
\* reads document.id, which raises again.
Refused(b) ==
  /\ Flushing(b) /\ batch[b].doc # None /\ Collides(batch[b])
  /\ RolledBack(b) /\ UNCHANGED faults

\* Two batches wait for a row of each other's: PostgreSQL aborts one, and the row it
\* held goes to the one that waits.
Waits(b, d, x) == At(b, "flush") /\ d \in DOMAIN batch[b].dirty /\ Locked(x, d)

DeadlockVictim(b) == \E x \in Batches \ {b} : \E d, e \in Docs :
  /\ Waits(b, e, x) /\ Waits(x, d, b)
  /\ batch' = [batch EXCEPT ![b] = Idle, ![x] = Flushed(@, d)]
  /\ UNCHANGED <<backend, row, versions, text, blob, faults>>

\* ARQ cancels the job: a CancelledError is no Exception, no handler records it.
TimesOut(b) ==
  /\ batch[b].phase # "idle" /\ batch[b].spent = JobTimeout
  /\ RolledBack(b) /\ UNCHANGED faults

Dies(b) ==
  /\ batch[b].phase # "idle" /\ faults < MaxFaults
  /\ RolledBack(b) /\ faults' = faults + 1

Works(b) ==
  \/ Trickle(b) \/ Exists(b) \/ Open(b) \/ Upload(b) \/ Resolve(b) \/ Extract(b)
  \/ \E d \in Docs : FlushRow(b, d)
  \/ FlushInserts(b) \/ Commit(b)

Step(b) ==
  \/ Select(b) \/ Works(b)
  \/ \E c \in Contents : Fetched(b, c)
  \/ \E e \in FetchErrors : FetchFails(b, e)
  \/ Stall(b) \/ StoreFails(b) \/ Refused(b) \/ DeadlockVictim(b) \/ TimesOut(b) \/ Dies(b)

Next == \E b \in Batches : Step(b)

Spec == Init /\ [][Next]_vars

-----------------------------------------------------------------------------
(* Properties                                                              *)

\* Every variable is in its range; a batch works on documents it selected.
DocumentsTypeOK ==
  /\ backend \in Backends /\ faults \in 0 .. MaxFaults
  /\ row \in [Docs -> DocRow]
  /\ \A d \in Docs : versions[d] \subseteq DocVersion /\ text[d] \in TextRow \cup {None}
  /\ blob \in [Keys -> Object]
  /\ \A b \in Batches :
       /\ batch[b].phase \in Phases /\ batch[b].spent \in 0 .. JobTimeout
       /\ DOMAIN batch[b].dirty \cup DOMAIN batch[b].mine \cup DOMAIN batch[b].texts
            \subseteq DOMAIN batch[b].copy
       /\ \A d \in DOMAIN batch[b].mine : batch[b].mine[d] \in DocRow

\* However batches overlap and stale copies are written back: a downloaded document's
\* digest is that of one of its versions, a version exists once per digest, the numbers
\* have no gap and reach the row's, and the extracted text is of one of the versions.
RecordsAgree == \A d \in Docs :
  LET numbers == {v.number : v \in versions[d]} IN
  /\ row[d].downloaded <=> versions[d] # {}
  /\ row[d].downloaded => Known(d, row[d].sha) /\ row[d].version \in numbers
  /\ numbers = 1 .. Latest(d)
  /\ \A v, w \in versions[d] : v.sha = w.sha => v = w
  /\ text[d] # None => Known(d, text[d].of)

\* A row names an object that exists, and whose bytes are complete unless a local
\* write was cut off or still goes on: on S3 never in part (downloader.py:133).
DownloadedIsStored == \A d \in Docs : row[d].downloaded =>
  LET k == Key(d, row[d].sha) IN
  /\ blob[k].data # "absent"
  /\ blob[k].data = "cut" => backend = "local"
  /\ text[d] # None /\ ~text[d].whole => backend = "local"

\* Without a death or a failing write the local store, too, has only whole objects and
\* objects being written, however many processes write one path at once.
LocalWritesEnd ==
  faults = 0 => \A k \in Keys : blob[k].data = "cut" =>
    \E b \in Batches : batch[b].phase = "upload" /\ Key(batch[b].doc, batch[b].got) = k

\* A version once recorded stays, and a document that was settled stays settled: no
\* stale copy brings it back among the pending ones or takes its bytes away.
SettledStays == [][\A d \in Docs :
  /\ versions[d] \subseteq versions'[d]
  /\ d \notin Pending => d \notin Pending'
  /\ row[d].downloaded => row'[d].downloaded]_vars

\* The cron fires, a batch goes on, ARQ cancels, PostgreSQL breaks deadlocks and
\* grants a row's lock to who waits for it.
DocumentFairness ==
  /\ WF_vars(\E b \in Batches : Select(b))
  /\ \A b \in Batches :
       /\ WF_vars(Works(b) \/ Refused(b) \/ DeadlockVictim(b) \/ TimesOut(b))
       /\ SF_vars(\E d \in Docs : FlushRow(b, d))
       /\ WF_vars(At(b, "fetch") /\ batch[b].waited = Takes[batch[b].doc] /\ Step(b))

FairDocuments == Spec /\ DocumentFairness

\* Every document is downloaded or its failure is recorded, whatever happens to the
\* other documents of its batch.
EveryDocumentSettles == <>(Pending = {})
================================================================================

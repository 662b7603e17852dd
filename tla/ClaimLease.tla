----------------------------- MODULE ClaimLease -----------------------------
(***************************************************************************)
(* What claiming a source promises, with schedulers, workers and the queue *)
(* left out.  A source is granted to one job at a time under a lease; it   *)
(* can be granted again only when it carries no lease or when the lease    *)
(* has run out; and a job is granted at most one source, once in its life. *)
(* Who may extend or drop a lease is not part of the promise.              *)
(***************************************************************************)
EXTENDS Integers

CONSTANTS Sources,  \* the crawlable sources
          Jobs,     \* the job rows that can ever be created
          NoJob,    \* "claim_job_id IS NULL"
          Lease     \* ticks a fresh lease lasts

VARIABLES holder,   \* [Sources -> Jobs \cup {NoJob}]
          lease,    \* [Sources -> Int]: ticks left, see below
          granted   \* the jobs that have been granted a source

leaseVars == <<holder, lease, granted>>

Unleased == -2      \* no lease at all
Lapsed(s) == lease[s] <= 0

Init ==
  /\ holder  = [s \in Sources |-> NoJob]
  /\ lease   = [s \in Sources |-> Unleased]
  /\ granted = {}

\* One claim transaction grants each source of "to" a job of its own.
Grant ==
  \E claimed \in SUBSET Sources : \E to \in [claimed -> Jobs \ granted] :
    /\ \A s, t \in claimed : to[s] = to[t] => s = t
    /\ \A s \in claimed : Lapsed(s)
    /\ holder'  = [s \in Sources |-> IF s \in claimed THEN to[s] ELSE holder[s]]
    /\ lease'   = [s \in Sources |-> IF s \in claimed THEN Lease ELSE lease[s]]
    /\ granted' = granted \cup {to[s] : s \in claimed}

\* Leases are extended, dropped or run down; the holder stays or is forgotten,
\* and is never somebody else.
Change ==
  /\ holder' \in [Sources -> Jobs \cup {NoJob}]
  /\ \A s \in Sources : holder'[s] \in {holder[s], NoJob}
  /\ lease' \in [Sources -> Unleased .. Lease]
  /\ UNCHANGED granted

Next == Grant \/ Change

Spec == Init /\ [][Next]_leaseVars
=============================================================================

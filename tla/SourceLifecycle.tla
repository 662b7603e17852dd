---------------------------- MODULE SourceLifecycle ----------------------------
(***************************************************************************)
(* The life of a source in the registry: imported from a file, verified    *)
(* against its web site, activated, paused and retired by operators        *)
(* (app/services/verification_service.py, scripts/verify_source.py,        *)
(* scripts/import_sources.py).                                             *)
(*                                                                         *)
(* Every script is one session and one transaction: it loads its rows at   *)
(* the start, keeps them (a later SELECT of the same row does not refresh  *)
(* the loaded object), writes on a flush only the columns that differ from *)
(* what it loaded, holds the locks of the rows it wrote and commits at its *)
(* end.  A verification waits for the web site between load and write.     *)
(***************************************************************************)
EXTENDS SourceVerifier

CONSTANTS
  Sources,
  Scripts,   \* processes: verify_source, or a caller of set_lifecycle
  Sites,     \* what a probe may meet
  Targets    \* lifecycle states an operator sets

ASSUME SitesAssumption == Sites \subseteq Probes

Lifecycles  == {"DISCOVERED", "PENDING_VERIFICATION", "VERIFIED", "ACTIVE", "DEGRADED",
                "PAUSED", "DISABLED"}
Unverified  == {"DISCOVERED", "PENDING_VERIFICATION"}
Schedulable == {"ACTIVE", "DEGRADED", "VERIFIED"}

ASSUME TargetsAssumption == Targets \subseteq Lifecycles

VARIABLES
  source,   \* municipality_sources, as committed
  script,   \* per process
  checked,  \* history: sources that a committed verification could collect from
  held      \* history: sources an operator paused and no operator resumed

vars == <<source, script, checked, held>>

-----------------------------------------------------------------------------
(* Rows                                                                    *)

\* paused is paused_at and its reason; found is the verdict in verification_result,
\* which is written with verification_at and the other evidence columns.
Row ==
  [lifecycle    : Lifecycles \cup {"NONE"},   \* NONE: not imported yet
   active       : BOOLEAN,
   paused       : BOOLEAN,
   verification : Verdicts \cup {"UNVERIFIED"},
   found        : Verdicts \cup {"none"}]
Columns == {"lifecycle", "active", "paused", "verification", "found"}

NoRow == [lifecycle |-> "NONE", active |-> FALSE, paused |-> FALSE,
          verification |-> "UNVERIFIED", found |-> "none"]
Imported(enabled) == [NoRow EXCEPT !.lifecycle = "DISCOVERED", !.active = enabled]

\* Mutant: as if a pause showed in the lifecycle alone.
ByLifecycle(row) == row.active /\ row.lifecycle \in Schedulable

\* claim_conditions, without the schedule and the lease of SourceClaims.
Claimable(row) == row.active /\ ~row.paused /\ row.lifecycle \in Schedulable

\* Mutant: a flush sends every column.
Everything(before, after, stamped) == Columns

\* What a flush sends: the columns that are not as they were, and those assigned the
\* time, which never is.
Sent(before, after, stamped) == {c \in Columns : after[c] # before[c]} \cup stamped

Idle ==
  [pc     |-> "idle",
   todo   |-> {},        \* sources still to verify, or to set
   object |-> [s \in Sources |-> NoRow],  \* rows it loaded, as its session has changed them
   sent   |-> [s \in Sources |-> {}],     \* columns it flushed, of rows hence locked
   target |-> "NONE",    \* the state to set: ACTIVE with --activate
   saw    |-> {},        \* sources that were held when loaded
   good   |-> {},        \* sources it could collect from
   set    |-> {}]        \* sources whose state an operator set

ScriptState ==
  [pc     : {"idle", "verifying", "deciding", "ending"},
   todo   : SUBSET Sources,
   object : [Sources -> Row],
   sent   : [Sources -> SUBSET Columns],
   target : Lifecycles \cup {"NONE"},
   saw    : SUBSET Sources,
   good   : SUBSET Sources,
   set    : SUBSET Sources]

\* Every row and every script has its form, and two scripts never lock one row.
LifecycleTypeOK ==
  /\ source \in [Sources -> Row]
  /\ script \in [Scripts -> ScriptState]
  /\ \A p, q \in Scripts, s \in Sources :
       script[p].sent[s] # {} /\ script[q].sent[s] # {} => p = q
  /\ checked \subseteq Sources /\ held \subseteq Sources

Init ==
  /\ source = [s \in Sources |-> NoRow]
  /\ script = [p \in Scripts |-> Idle]
  /\ checked = {} /\ held = {}

\* Mutant: an UPDATE does not wait for a row.
Unlocked(s) == TRUE

Free(s) == \A p \in Scripts : script[p].sent[s] = {}

-----------------------------------------------------------------------------
(* import_sources: one transaction without a wait, applied in one step.    *)

\* An existing row keeps its lifecycle and its evidence.
ImportSources(file) ==
  /\ \A s \in DOMAIN file : Free(s)
  /\ source' = [s \in Sources |->
       IF s \notin DOMAIN file THEN source[s]
       ELSE IF source[s].lifecycle = "NONE" THEN Imported(file[s])
       ELSE [source[s] EXCEPT !.active = file[s]]]
  /\ UNCHANGED <<script, checked, held>>

-----------------------------------------------------------------------------
(* Scripts                                                                 *)

Open(p, S, pc, target) ==
  /\ script[p].pc = "idle"
  /\ \A s \in S : source[s].lifecycle # "NONE"
  /\ script' = [script EXCEPT ![p] =
       [Idle EXCEPT !.pc     = pc,
                    !.todo   = S,
                    !.object = [s \in Sources |-> IF s \in S THEN source[s] ELSE NoRow],
                    !.target = target,
                    !.saw    = S \cap held]]
  /\ UNCHANGED <<source, checked, held>>

Pending(s) == source[s].verification = "UNVERIFIED" /\ source[s].lifecycle \in Unverified

\* verify_source <source> and verify_source --discover, each with or without --activate.
StartOne(p, s, target) == Open(p, {s}, "verifying", target)
StartDiscover(p, target) ==
  LET S == {s \in Sources : Pending(s)} IN S # {} /\ Open(p, S, "verifying", target)

StartSet(p, s, target) == Open(p, {s}, "deciding", target)

\* Mutant: a failed verification takes an active source out of the schedule.
Withdrawn(object, verdict) ==
  [object EXCEPT
    !.verification = verdict, !.found = verdict,
    !.lifecycle = CASE verdict \in Passing /\ @ \in Unverified -> "VERIFIED"
                    [] verdict = "FAILED" /\ @ = "ACTIVE"       -> "PENDING_VERIFICATION"
                    [] OTHER -> @]

\* _record, on the object the session holds.
Recorded(object, verdict) ==
  [object EXCEPT
    !.verification = verdict, !.found = verdict,
    !.lifecycle = CASE verdict \in Passing /\ @ \in Unverified -> "VERIFIED"
                    [] verdict = "FAILED" /\ @ = "ACTIVE"       -> "DEGRADED"
                    [] OTHER -> @]

\* Mutant: only a verification that failed stands in the way.
NotFailed(object, target, reason) ==
  /\ target = "ACTIVE" => object.verification # "FAILED"
  /\ target = "PAUSED" => reason

\* set_lifecycle: what it refuses, and what it assigns.
Accepted(object, target, reason) ==
  /\ target = "ACTIVE" => object.verification \in Passing
  /\ target = "PAUSED" => reason
SetTo(object, target) ==
  [object EXCEPT !.lifecycle = target,
                 !.active = target \in Schedulable,
                 !.paused = target = "PAUSED"]

\* verify for the next source, which may be the whole network away from Open, and the
\* flush of what it found; with --activate a passing source is set ACTIVE.
Verify(p, s, probe) ==
  LET me      == script[p]
      verdict == Verdict(Report(probe))
      found   == Recorded(me.object[s], verdict)
      activates == me.target = "ACTIVE" /\ verdict \in Passing
      active  == SetTo(found, "ACTIVE")
      columns == Sent(me.object[s], found, {"found"})
                   \cup (IF activates THEN Sent(found, active, {}) ELSE {})
  IN /\ me.pc = "verifying" /\ s \in me.todo /\ Free(s)
     /\ script' = [script EXCEPT ![p] =
          [me EXCEPT !.todo   = @ \ {s},
                     !.object = [@ EXCEPT ![s] = IF activates THEN active ELSE found],
                     !.sent   = [@ EXCEPT ![s] = columns],
                     !.good   = IF Collectable(probe) THEN @ \cup {s} ELSE @,
                     !.set    = IF activates THEN @ \cup {s} ELSE @,
                     !.pc     = IF me.todo = {s} THEN "ending" ELSE "verifying"]]
     /\ UNCHANGED <<source, checked, held>>

SetLifecycle(p, s, reason) ==
  LET me      == script[p]
      new     == SetTo(me.object[s], me.target)
      columns == Sent(me.object[s], new, IF me.target = "PAUSED" THEN {"paused"} ELSE {})
  IN /\ me.pc = "deciding" /\ s \in me.todo
     /\ \/ /\ Accepted(me.object[s], me.target, reason)
           /\ columns # {} => Free(s)
           /\ script' = [script EXCEPT ![p] =
                [me EXCEPT !.todo   = {},
                           !.object = [@ EXCEPT ![s] = new],
                           !.sent   = [@ EXCEPT ![s] = columns],
                           !.set    = {s},
                           !.pc     = "ending"]]
        \/ /\ ~Accepted(me.object[s], me.target, reason)
           /\ script' = [script EXCEPT ![p] = Idle]
     /\ UNCHANGED <<source, checked, held>>

Commit(p) ==
  LET me == script[p] IN
  /\ me.pc = "ending"
  /\ source' = [s \in Sources |->
       [c \in Columns |-> IF c \in me.sent[s] THEN me.object[s][c] ELSE source[s][c]]]
  /\ checked' = checked \cup me.good
  /\ held' = IF me.target = "PAUSED" THEN held \cup me.set ELSE held \ (me.set \cap me.saw)
  /\ script' = [script EXCEPT ![p] = Idle]

\* The process ends, or an exception rolls its session back.
Abort(p) ==
  /\ script[p].pc # "idle"
  /\ script' = [script EXCEPT ![p] = Idle]
  /\ UNCHANGED <<source, checked, held>>

ScriptStep(p) ==
  \/ \E s \in Sources, target \in {"NONE", "ACTIVE"} : StartOne(p, s, target)
  \/ \E target \in {"NONE", "ACTIVE"} : StartDiscover(p, target)
  \/ \E s \in Sources, target \in Targets : StartSet(p, s, target)
  \/ \E s \in Sources, probe \in Sites : Verify(p, s, probe)
  \/ \E s \in Sources, reason \in BOOLEAN : SetLifecycle(p, s, reason)
  \/ Commit(p)
  \/ Abort(p)

Next ==
  \/ \E S \in SUBSET Sources : \E file \in [S -> BOOLEAN] : ImportSources(file)
  \/ \E p \in Scripts : ScriptStep(p)

Spec == Init /\ [][Next]_vars

-----------------------------------------------------------------------------
(* Properties                                                              *)

\* A source the scheduler may claim was collected from, by a verification that is on
\* record: a page was fetched and a record of it was accepted.  Nobody else looks at a
\* source before it is crawled (verification_service.py:171-195).
ClaimableWasCollected == \A s \in Sources : Claimable(source[s]) => s \in checked

\* A pause holds until an operator who saw it ends it, whatever verifications, activations
\* and imports commit in between, those that loaded the row before the pause included.
PauseHolds == \A s \in held : ~Claimable(source[s])

\* Verification never takes a source out of the schedule: one that was claimable and is
\* not was set to another state by an operator, or switched off by an import.
CoverageIsKept ==
  [][\A s \in Sources : Claimable(source[s]) /\ ~Claimable(source'[s]) =>
        \/ \E p \in Scripts : s \in script[p].set /\ script'[p] = Idle
        \/ script' = script]_vars
=============================================================================

------------------------ MODULE SourceLifecycleProofs ------------------------
(***************************************************************************)
(* Theorems about SourceLifecycle, for every number of sources and of      *)
(* scripts that overlap, every probe of a site and every set of targets.   *)
(***************************************************************************)
EXTENDS SourceLifecycle, TLAPS

-----------------------------------------------------------------------------
(* The procedure                                                           *)

\* A verdict is one of three.
LEMMA VerdictIsOne == \A r : Verdict(r) \in Verdicts
BY DEF Verdict, Verdicts

\* A check that was performed and that the verdict requires has not failed, if the
\* verdict is not FAILED.
LEMMA RequiredHeld ==
  ASSUME NEW p, Verdict(Report(p)) \in Passing, NEW c \in Required \cap Performed(p)
  PROVE  Outcome(p, c) # "FAILED"
<1>1. Required \cap With(Report(p), "FAILED") = {}
  BY DEF Verdict, Passing
<1>2. c \in DOMAIN Report(p) /\ Report(p)[c] = Outcome(p, c)
  BY DEF Report
<1> QED
  BY <1>1, <1>2 DEF With

\* A verdict that passes is evidence: the site can be collected from.  The checks that are
\* skipped because an earlier one failed do not make a report pass.
THEOREM PassedIsCollectable ==
  ASSUME NEW p \in Probes, Verdict(Report(p)) \in Passing
  PROVE  Collectable(p)
<1>1. /\ p.connector \in {"accepts", "undeclared", "needs_browser", "unknown"}
      /\ p.resolves \in BOOLEAN
      /\ p.listing \in {"raises", "none", "one", "many"}
      /\ p.answer \in {"raises", "denied", "missing", "unwell", "empty", "page"}
      /\ p.rows \in {"unparsable", "unusable", "refused", "accepted"}
  BY DEF Probes
<1>2. p.connector \in {"accepts", "undeclared"}
  <2>1. "connector" \in Required \cap Performed(p)
    BY DEF Required, Performed
  <2>2. ConnectorCheck(p) # "FAILED"
    BY <2>1, RequiredHeld DEF Outcome
  <2> QED
    BY <1>1, <2>2 DEF ConnectorCheck
<1>3. p.resolves
  <2>1. "url" \in Required \cap Performed(p)
    BY DEF Required, Performed
  <2>2. UrlCheck(p) # "FAILED"
    BY <2>1, RequiredHeld DEF Outcome
  <2> QED
    BY <2>2 DEF UrlCheck
<1>4. p.listing \in {"one", "many"}
  <2>1. "listing" \in Required \cap Performed(p)
    BY <1>2, <1>3 DEF Required, Performed, Built
  <2>2. ListingCheck(p) # "FAILED"
    BY <2>1, RequiredHeld DEF Outcome
  <2> QED
    BY <1>1, <2>2 DEF ListingCheck
<1>5. Planned(p)
  BY <1>2, <1>3, <1>4 DEF Planned, Built
<1>6. p.answer \in {"page", "unwell"}
  <2>1. "access" \in Required \cap Performed(p)
    BY <1>5 DEF Required, Performed
  <2>2. AccessCheck(p) # "FAILED"
    BY <2>1, RequiredHeld DEF Outcome
  <2> QED
    BY <1>1, <2>2 DEF AccessCheck
<1>7. Itemised(p)
  <2>1. "parse" \in Required \cap Performed(p)
    BY <1>5, <1>6 DEF Required, Performed, Responded
  <2>2. ParseCheck(p) # "FAILED"
    BY <2>1, RequiredHeld DEF Outcome
  <2> QED
    BY <2>2 DEF ParseCheck
<1>8. p.rows = "accepted"
  <2>1. "parser" \in Required \cap Performed(p)
    BY <1>7 DEF Required, Performed
  <2>2. ParserCheck(p) # "FAILED"
    BY <2>1, RequiredHeld DEF Outcome
  <2> QED
    BY <2>2 DEF ParserCheck
<1> QED
  BY <1>2, <1>3, <1>4, <1>6, <1>8 DEF Collectable

-----------------------------------------------------------------------------
(* Rows                                                                    *)

\* What a verification and an operator make of a row is a row.
LEMMA RowsStayRows ==
  ASSUME NEW row \in Row
  PROVE  /\ \A verdict \in Verdicts : Recorded(row, verdict) \in Row
         /\ \A target \in Lifecycles : SetTo(row, target) \in Row
         /\ \A on \in BOOLEAN : Imported(on) \in Row /\ [row EXCEPT !.active = on] \in Row
<1>1. ASSUME NEW verdict \in Verdicts
      PROVE  Recorded(row, verdict) \in Row
  <2>1. /\ row.lifecycle \in Lifecycles \cup {"NONE"}
        /\ "VERIFIED" \in Lifecycles /\ "DEGRADED" \in Lifecycles
    BY DEF Row, Lifecycles
  <2> DEFINE next == CASE verdict \in Passing /\ row.lifecycle \in Unverified -> "VERIFIED"
                       [] verdict = "FAILED" /\ row.lifecycle = "ACTIVE"       -> "DEGRADED"
                       [] OTHER -> row.lifecycle
  <2>2. next \in Lifecycles \cup {"NONE"}
    BY <2>1
  <2>3. Recorded(row, verdict) =
          [row EXCEPT !.verification = verdict, !.found = verdict, !.lifecycle = next]
    BY DEF Recorded, Row
  <2> HIDE DEF next
  <2> QED
    BY <2>2, <2>3 DEF Row
<1>2. ASSUME NEW target \in Lifecycles
      PROVE  SetTo(row, target) \in Row
  <2> DEFINE on  == target \in Schedulable
             off == target = "PAUSED"
  <2>1. SetTo(row, target) = [row EXCEPT !.lifecycle = target, !.active = on, !.paused = off]
    BY DEF SetTo
  <2>2. on \in BOOLEAN /\ off \in BOOLEAN
    OBVIOUS
  <2> HIDE DEF on, off
  <2> QED
    BY <2>1, <2>2 DEF Row
<1>3. ASSUME NEW on \in BOOLEAN
      PROVE  Imported(on) \in Row /\ [row EXCEPT !.active = on] \in Row
  <2>1. NoRow \in Row
    BY DEF NoRow, Row
  <2> QED
    BY <2>1 DEF Imported, NoRow, Row, Lifecycles
<1> QED
  BY <1>1, <1>2, <1>3

\* A commit takes each column from the script or from the table: the row is a row again.
LEMMA MergedIsRow ==
  ASSUME NEW mine \in Row, NEW theirs \in Row, NEW sent
  PROVE  [c \in Columns |-> IF c \in sent THEN mine[c] ELSE theirs[c]] \in Row
BY DEF Row, Columns

-----------------------------------------------------------------------------
(* The invariant                                                           *)

Shaped ==
  /\ source \in [Sources -> Row]
  /\ script \in [Scripts -> ScriptState]
  /\ checked \subseteq Sources /\ held \subseteq Sources

OneLocks ==
  \A p, q \in Scripts, s \in Sources :
    script[p].sent[s] # {} /\ script[q].sent[s] # {} => p = q

\* What a script that has not dealt with a source remembers of it.
Fresh(me, s) ==
  s \in me.todo =>
    me.sent[s] = {} /\ s \notin me.set /\ (me.object[s].paused <=> s \in me.saw)

\* What a script that no operator's decision went into would write.
Recording(me, s) ==
  s \notin me.set =>
    /\ me.sent[s] \subseteq {"verification", "found", "lifecycle"}
    /\ "lifecycle" \in me.sent[s] => me.object[s].lifecycle \in Schedulable

\* What one with a decision would: a pause always, the end of one if it was seen.
Deciding(me, s) ==
  s \in me.set =>
    /\ me.object[s].lifecycle # "NONE"
    /\ IF me.target = "PAUSED" THEN "paused" \in me.sent[s] /\ me.object[s].paused
       ELSE ~me.object[s].paused /\ ("paused" \in me.sent[s] <=> s \in me.saw)

Phases(me) ==
  /\ me.pc = "verifying" => me.target # "PAUSED"
  /\ me.pc = "deciding"  => me.set = {} /\ me.target \in Targets

Knows(me) ==
  /\ Phases(me)
  /\ \A s \in Sources : Fresh(me, s) /\ Recording(me, s) /\ Deciding(me, s)

\* The columns of a pause are those of a source that is held.
HeldIsPaused ==
  \A s \in Sources : /\ source[s].paused <=> s \in held
                     /\ source[s].lifecycle = "NONE" => ~source[s].paused

ScriptsKnow == \A p \in Scripts : Knows(script[p])

\* A script has to do with imported sources only.
Existing ==
  \A p \in Scripts : \A s \in script[p].todo \cup script[p].set : source[s].lifecycle # "NONE"

LifeInv == Shaped /\ OneLocks /\ HeldIsPaused /\ ScriptsKnow /\ Existing

\* A row that is schedulable, or passed, was collected from.
Evident(row, s, seen) ==
  row.lifecycle \in Schedulable \/ row.verification \in Passing => s \in seen

EvidenceInv ==
  /\ LifeInv
  /\ \A s \in Sources : Evident(source[s], s, checked)
  /\ \A p \in Scripts, s \in Sources :
       Evident(script[p].object[s], s, checked \cup script[p].good)

-----------------------------------------------------------------------------
(* The steps                                                               *)

\* What holds of a script that does nothing.
LEMMA IdleKnows ==
  /\ Idle \in ScriptState /\ Knows(Idle)
  /\ Idle.todo = {} /\ Idle.set = {}
  /\ \A s \in Sources : Idle.sent[s] = {} /\ Idle.object[s] = NoRow
<1>1. NoRow \in Row
  BY DEF NoRow, Row
<1>2. /\ [s \in Sources |-> NoRow] \in [Sources -> Row]
      /\ [s \in Sources |-> {}] \in [Sources -> SUBSET Columns]
  BY <1>1
<1>3. Idle \in ScriptState
  BY <1>2 DEF Idle, ScriptState
<1>4. Knows(Idle)
  BY DEF Idle, NoRow, Knows, Phases, Fresh, Recording, Deciding
<1> QED
  BY <1>3, <1>4 DEF Idle

LEMMA InitLife == Init => LifeInv
<1> SUFFICES ASSUME Init PROVE LifeInv
  OBVIOUS
<1>1. NoRow \in Row
  BY DEF NoRow, Row
<1>2. \A p \in Scripts : script[p] = Idle
  BY DEF Init
<1>3. Shaped
  BY <1>1, IdleKnows DEF Init, Shaped
<1>4. OneLocks
  BY <1>2, IdleKnows DEF OneLocks
<1>5. HeldIsPaused
  BY DEF Init, HeldIsPaused, NoRow
<1>6. ScriptsKnow
  BY <1>2, IdleKnows DEF ScriptsKnow
<1>7. Existing
  BY <1>2, IdleKnows DEF Existing
<1> QED
  BY <1>3, <1>4, <1>5, <1>6, <1>7 DEF LifeInv

\* A script may take any value that knows what it must, and that locks no row of another.
LEMMA ScriptMoves ==
  ASSUME LifeInv, NEW p \in Scripts, NEW new \in ScriptState, Knows(new),
         \A s \in Sources : new.sent[s] # {} => \A q \in Scripts \ {p} : script[q].sent[s] = {},
         \A s \in new.todo \cup new.set : source[s].lifecycle # "NONE",
         script' = [script EXCEPT ![p] = new],
         UNCHANGED <<source, checked, held>>
  PROVE  LifeInv'
<1>1. \A q \in Scripts : script'[q] = IF q = p THEN new ELSE script[q]
  BY DEF LifeInv, Shaped
<1>2. Shaped'
  BY DEF LifeInv, Shaped
<1>3. OneLocks'
  BY <1>1 DEF LifeInv, OneLocks
<1>4. HeldIsPaused'
  BY DEF LifeInv, HeldIsPaused
<1>5. ScriptsKnow'
  BY <1>1 DEF LifeInv, ScriptsKnow
<1>6. Existing'
  BY <1>1 DEF LifeInv, Existing
<1> QED
  BY <1>2, <1>3, <1>4, <1>5, <1>6 DEF LifeInv

\* A script that ends leaves nothing behind but what it committed.
LEMMA ScriptIdles ==
  ASSUME LifeInv, NEW p \in Scripts, script' = [script EXCEPT ![p] = Idle],
         UNCHANGED <<source, checked, held>>
  PROVE  LifeInv'
BY IdleKnows, ScriptMoves

LEMMA OpenKeeps ==
  ASSUME LifeInv, NEW p \in Scripts, NEW S \in SUBSET Sources,
         NEW pc \in {"verifying", "deciding"}, NEW target \in Lifecycles \cup {"NONE"},
         pc = "verifying" => target # "PAUSED", pc = "deciding" => target \in Targets,
         Open(p, S, pc, target)
  PROVE  LifeInv'
<1> DEFINE object == [s \in Sources |-> IF s \in S THEN source[s] ELSE NoRow]
           new == [Idle EXCEPT !.pc     = pc,
                               !.todo   = S,
                               !.object = object,
                               !.target = target,
                               !.saw    = S \cap held]
<1>1. script' = [script EXCEPT ![p] = new] /\ UNCHANGED <<source, checked, held>>
  BY DEF Open
<1>2. object \in [Sources -> Row]
  BY DEF LifeInv, Shaped, NoRow, Row
<1>3. /\ new.pc = pc /\ new.todo = S /\ new.object = object /\ new.target = target
      /\ new.saw = S \cap held /\ new.set = {} /\ new.good = {}
      /\ new.sent = [s \in Sources |-> {}]
  BY DEF Idle
<1>4. new \in ScriptState
  BY <1>2, held \subseteq Sources DEF Idle, ScriptState, LifeInv, Shaped
<1>5. \A s \in S : object[s].paused <=> s \in held
  BY DEF LifeInv, HeldIsPaused
<1> HIDE DEF new, object
<1>6. Knows(new)
  BY <1>3, <1>5 DEF Knows, Phases, Fresh, Recording, Deciding
<1>7. \A s \in Sources : new.sent[s] = {}
  BY <1>3
<1>8. \A s \in new.todo \cup new.set : source[s].lifecycle # "NONE"
  BY <1>3 DEF Open
<1> QED
  BY <1>1, <1>4, <1>6, <1>7, <1>8, ScriptMoves

\* What a verification sends of a row it made of another.
LEMMA RecordedIsSent ==
  ASSUME NEW row \in Row, NEW verdict \in Verdicts
  PROVE  /\ Recorded(row, verdict).paused = row.paused
         /\ Recorded(row, verdict).verification = verdict
         /\ Sent(row, Recorded(row, verdict), {"found"}) \subseteq
              {"verification", "found", "lifecycle"}
         /\ "lifecycle" \in Sent(row, Recorded(row, verdict), {"found"}) =>
              Recorded(row, verdict).lifecycle \in {"VERIFIED", "DEGRADED"}
         /\ Recorded(row, verdict).lifecycle \in
              {row.lifecycle} \cup (IF verdict \in Passing THEN {"VERIFIED"} ELSE {})
                \cup (IF row.lifecycle = "ACTIVE" THEN {"DEGRADED"} ELSE {})
<1> DEFINE new == Recorded(row, verdict)
<1>1. /\ new.active = row.active /\ new.paused = row.paused
      /\ new.verification = verdict /\ new.found = verdict
  BY DEF Recorded, Row
<1>2. new.lifecycle = CASE verdict \in Passing /\ row.lifecycle \in Unverified -> "VERIFIED"
                        [] verdict = "FAILED" /\ row.lifecycle = "ACTIVE"       -> "DEGRADED"
                        [] OTHER -> row.lifecycle
  BY DEF Recorded, Row
<1>3. ~(verdict \in Passing /\ verdict = "FAILED")
  BY DEF Passing
<1>4. new.lifecycle \in {row.lifecycle} \cup (IF verdict \in Passing THEN {"VERIFIED"} ELSE {})
                          \cup (IF row.lifecycle = "ACTIVE" THEN {"DEGRADED"} ELSE {})
  BY <1>2, <1>3
<1>5. Sent(row, new, {"found"}) \subseteq {"verification", "found", "lifecycle"}
  BY <1>1 DEF Sent, Columns
<1>6. "lifecycle" \in Sent(row, new, {"found"}) => new.lifecycle \in {"VERIFIED", "DEGRADED"}
  BY <1>4 DEF Sent, Columns
<1> QED
  BY <1>1, <1>4, <1>5, <1>6

\* What an operator's decision sends.
LEMMA SetIsSent ==
  ASSUME NEW row \in Row, NEW target \in Lifecycles
  PROVE  /\ SetTo(row, target).paused = (target = "PAUSED")
         /\ SetTo(row, target).lifecycle = target
         /\ SetTo(row, target).verification = row.verification
         /\ target # "PAUSED" =>
              ("paused" \in Sent(row, SetTo(row, target), {}) <=> row.paused)
<1>1. /\ SetTo(row, target).lifecycle = target
      /\ SetTo(row, target).verification = row.verification
  BY DEF SetTo, Row
<1>2. SetTo(row, target).paused = (target = "PAUSED")
  BY DEF SetTo, Row
<1>3. row.paused \in BOOLEAN
  BY DEF Row
<1>4. target # "PAUSED" => SetTo(row, target).paused = FALSE
  BY <1>2
<1>5. "paused" \in Sent(row, SetTo(row, target), {}) <=> SetTo(row, target).paused # row.paused
  BY DEF Sent, Columns
<1> QED
  BY <1>1, <1>2, <1>3, <1>4, <1>5

\* A source that was verified: recorded, or recorded and activated.
LEMMA VerifyKeeps ==
  ASSUME LifeInv, NEW p \in Scripts, NEW s \in Sources, NEW probe, Verify(p, s, probe)
  PROVE  LifeInv'
<1> DEFINE me      == script[p]
           verdict == Verdict(Report(probe))
           row     == me.object[s]
           found   == Recorded(row, verdict)
           activates == me.target = "ACTIVE" /\ verdict \in Passing
           active  == SetTo(found, "ACTIVE")
           after   == IF activates THEN active ELSE found
           columns == Sent(row, found, {"found"})
                        \cup (IF activates THEN Sent(found, active, {}) ELSE {})
           good    == IF Collectable(probe) THEN me.good \cup {s} ELSE me.good
           set     == IF activates THEN me.set \cup {s} ELSE me.set
           pc      == IF me.todo = {s} THEN "ending" ELSE "verifying"
           new     == [me EXCEPT !.todo   = @ \ {s},
                                 !.object = [@ EXCEPT ![s] = after],
                                 !.sent   = [@ EXCEPT ![s] = columns],
                                 !.good   = good,
                                 !.set    = set,
                                 !.pc     = pc]
<1>1. /\ me.pc = "verifying" /\ s \in me.todo /\ Free(s)
      /\ script' = [script EXCEPT ![p] = new] /\ UNCHANGED <<source, checked, held>>
  BY DEF Verify
<1>2. me \in ScriptState /\ Knows(me)
  BY DEF LifeInv, Shaped, ScriptsKnow
<1>3. row \in Row /\ verdict \in Verdicts
  BY <1>2, VerdictIsOne DEF ScriptState
<1>4. found \in Row /\ active \in Row
  BY <1>3, RowsStayRows DEF Lifecycles
<1>5. after \in Row /\ columns \in SUBSET Columns /\ good \in SUBSET Sources
      /\ set \in SUBSET Sources /\ pc \in {"verifying", "ending"}
  BY <1>2, <1>4 DEF Sent, Columns, ScriptState
<1>6. /\ new.todo = me.todo \ {s} /\ new.object = [me.object EXCEPT ![s] = after]
      /\ new.sent = [me.sent EXCEPT ![s] = columns] /\ new.set = set /\ new.pc = pc
      /\ new.target = me.target /\ new.saw = me.saw
  BY <1>2 DEF ScriptState
<1>7. new \in ScriptState
  <2> HIDE DEF after, columns, good, set, pc
  <2>1. /\ [me.object EXCEPT ![s] = after] \in [Sources -> Row]
        /\ [me.sent EXCEPT ![s] = columns] \in [Sources -> SUBSET Columns]
    BY <1>2, <1>5 DEF ScriptState
  <2> QED
    BY <1>2, <1>5, <2>1 DEF ScriptState
<1>8. me.target # "PAUSED" /\ s \notin me.set /\ (row.paused <=> s \in me.saw)
  BY <1>1, <1>2 DEF Knows, Phases, Fresh
<1>9. \A t \in Sources \ {s} :
        /\ new.object[t] = me.object[t] /\ new.sent[t] = me.sent[t]
        /\ t \in new.set <=> t \in me.set
        /\ t \in new.todo <=> t \in me.todo
  BY <1>2, <1>6 DEF ScriptState
<1>10. /\ new.object[s] = after /\ new.sent[s] = columns
       /\ s \in new.set <=> activates
       /\ s \notin new.todo
  BY <1>2, <1>6, <1>8 DEF ScriptState
<1>11. Recording(new, s)
  <2> SUFFICES ASSUME ~activates
               PROVE  /\ columns \subseteq {"verification", "found", "lifecycle"}
                      /\ "lifecycle" \in columns => after.lifecycle \in Schedulable
    BY <1>10 DEF Recording
  <2> QED
    BY <1>3, RecordedIsSent DEF Schedulable
<1>12. Deciding(new, s)
  <2> SUFFICES ASSUME activates
               PROVE  /\ after.lifecycle # "NONE"
                      /\ ~after.paused /\ ("paused" \in columns <=> s \in me.saw)
    BY <1>6, <1>8, <1>10 DEF Deciding
  <2>1. found.paused = row.paused /\ "paused" \notin Sent(row, found, {"found"})
    BY <1>3, RecordedIsSent
  <2>2. active.lifecycle = "ACTIVE" /\ active.paused = ("ACTIVE" = "PAUSED")
        /\ ("paused" \in Sent(found, active, {}) <=> found.paused)
    BY <1>4, SetIsSent DEF Lifecycles
  <2> QED
    BY <1>8, <2>1, <2>2
<1>13. Knows(new)
  <2>1. Phases(new)
    BY <1>6, <1>8 DEF Phases
  <2>2. \A t \in Sources \ {s} : Fresh(new, t) /\ Recording(new, t) /\ Deciding(new, t)
    BY <1>2, <1>6, <1>9 DEF Knows, Fresh, Recording, Deciding
  <2>3. Fresh(new, s)
    BY <1>10 DEF Fresh
  <2> QED
    BY <1>11, <1>12, <2>1, <2>2, <2>3 DEF Knows
<1>14. \A t \in Sources : new.sent[t] # {} => \A q \in Scripts \ {p} : script[q].sent[t] = {}
  BY <1>1, <1>9 DEF Free, LifeInv, OneLocks
<1>15. \A t \in new.todo \cup new.set : source[t].lifecycle # "NONE"
  <2>1. new.todo \cup new.set \subseteq me.todo \cup me.set
    BY <1>1, <1>6
  <2> QED
    BY <2>1 DEF LifeInv, Existing
<1> HIDE DEF new
<1> QED
  BY <1>1, <1>7, <1>13, <1>14, <1>15, ScriptMoves

\* A decision of an operator: written, or refused.
LEMMA SetKeeps ==
  ASSUME LifeInv, NEW p \in Scripts, NEW s \in Sources, NEW reason, SetLifecycle(p, s, reason)
  PROVE  LifeInv'
<1> DEFINE me      == script[p]
           row     == me.object[s]
           after   == SetTo(row, me.target)
           columns == Sent(row, after, IF me.target = "PAUSED" THEN {"paused"} ELSE {})
           new     == [me EXCEPT !.todo   = {},
                                 !.object = [@ EXCEPT ![s] = after],
                                 !.sent   = [@ EXCEPT ![s] = columns],
                                 !.set    = {s},
                                 !.pc     = "ending"]
<1>1. me \in ScriptState /\ Knows(me) /\ me.pc = "deciding" /\ s \in me.todo
  BY DEF LifeInv, Shaped, ScriptsKnow, SetLifecycle
<1>2. CASE script' = [script EXCEPT ![p] = Idle] /\ UNCHANGED <<source, checked, held>>
  BY <1>2, ScriptIdles
<1>3. CASE /\ columns # {} => Free(s)
           /\ script' = [script EXCEPT ![p] = new] /\ UNCHANGED <<source, checked, held>>
  <2>1. row \in Row /\ me.target \in Lifecycles /\ me.set = {}
    BY <1>1, TargetsAssumption DEF ScriptState, Knows, Phases
  <2>2. after \in Row /\ columns \in SUBSET Columns
    BY <2>1, RowsStayRows DEF Sent, Columns
  <2>3. /\ new.todo = {} /\ new.object = [me.object EXCEPT ![s] = after]
        /\ new.sent = [me.sent EXCEPT ![s] = columns] /\ new.set = {s} /\ new.pc = "ending"
        /\ new.target = me.target /\ new.saw = me.saw
    BY <1>1 DEF ScriptState
  <2>4. new \in ScriptState
    <3> HIDE DEF after, columns
    <3>1. /\ [me.object EXCEPT ![s] = after] \in [Sources -> Row]
          /\ [me.sent EXCEPT ![s] = columns] \in [Sources -> SUBSET Columns]
      BY <1>1, <2>2 DEF ScriptState
    <3> QED
      BY <1>1, <3>1 DEF ScriptState
  <2>5. \A t \in Sources \ {s} : new.object[t] = me.object[t] /\ new.sent[t] = me.sent[t]
    BY <1>1, <2>3 DEF ScriptState
  <2>6. new.object[s] = after /\ new.sent[s] = columns
    BY <1>1, <2>3 DEF ScriptState
  <2>7. Deciding(new, s)
    <3>0. after.lifecycle # "NONE"
      BY <2>1, SetIsSent DEF Lifecycles
    <3>1. CASE me.target = "PAUSED"
      <4>1. "paused" \in columns
        BY <3>1 DEF Sent, Columns
      <4>2. after.paused
        BY <2>1, <3>1, SetIsSent
      <4> QED
        BY <2>3, <2>6, <3>0, <3>1, <4>1, <4>2 DEF Deciding
    <3>2. CASE me.target # "PAUSED"
      <4>1. ~after.paused /\ ("paused" \in columns <=> row.paused)
        BY <2>1, <3>2, SetIsSent
      <4>2. row.paused <=> s \in me.saw
        BY <1>1 DEF Knows, Fresh
      <4> QED
        BY <2>3, <2>6, <3>0, <3>2, <4>1, <4>2 DEF Deciding
    <3> QED
      BY <3>1, <3>2
  <2>8. \A t \in Sources \ {s} : Recording(new, t)
    BY <1>1, <2>1, <2>5 DEF Knows, Recording
  <2>9. Knows(new)
    BY <2>3, <2>7, <2>8 DEF Knows, Phases, Fresh, Recording, Deciding
  <2>10. \A t \in Sources : new.sent[t] # {} => \A q \in Scripts \ {p} : script[q].sent[t] = {}
    BY <1>3, <2>5, <2>6 DEF Free, LifeInv, OneLocks
  <2>11. \A t \in new.todo \cup new.set : source[t].lifecycle # "NONE"
    BY <1>1, <2>3 DEF LifeInv, Existing
  <2> HIDE DEF new
  <2> QED
    BY <1>3, <2>4, <2>9, <2>10, <2>11, ScriptMoves
<1> QED
  BY <1>2, <1>3 DEF SetLifecycle

\* What a commit makes of a row, column by column.
LEMMA CommitRow ==
  ASSUME LifeInv, NEW p \in Scripts, Commit(p)
  PROVE  /\ source' \in [Sources -> Row]
         /\ \A s \in Sources, c \in Columns :
              source'[s][c] = IF c \in script[p].sent[s] THEN script[p].object[s][c]
                              ELSE source[s][c]
<1>1. script[p] \in ScriptState /\ source \in [Sources -> Row]
  BY DEF LifeInv, Shaped
<1>2. \A s \in Sources : script[p].object[s] \in Row /\ source[s] \in Row
  BY <1>1 DEF ScriptState
<1>3. \A s \in Sources :
        [c \in Columns |-> IF c \in script[p].sent[s] THEN script[p].object[s][c]
                           ELSE source[s][c]] \in Row
  BY <1>2, MergedIsRow
<1> QED
  BY <1>3 DEF Commit

\* A commit does not take a row away.
LEMMA NeverUnimported ==
  ASSUME LifeInv, NEW p \in Scripts, Commit(p), NEW s \in Sources,
         source[s].lifecycle # "NONE"
  PROVE  source'[s].lifecycle # "NONE"
<1>1. "lifecycle" \in script[p].sent[s] => script[p].object[s].lifecycle # "NONE"
  BY DEF LifeInv, ScriptsKnow, Knows, Recording, Deciding, Schedulable
<1> QED
  BY <1>1, CommitRow DEF Columns

LEMMA CommitKeeps ==
  ASSUME LifeInv, NEW p \in Scripts, Commit(p)
  PROVE  LifeInv'
<1> DEFINE me == script[p]
<1>1. /\ me \in ScriptState /\ Knows(me) /\ source \in [Sources -> Row]
      /\ checked \subseteq Sources /\ held \subseteq Sources
  BY DEF LifeInv, Shaped, ScriptsKnow
<1>2. script' = [script EXCEPT ![p] = Idle]
  BY DEF Commit
<1>3. \A q \in Scripts : script'[q] = IF q = p THEN Idle ELSE script[q]
  BY <1>2 DEF LifeInv, Shaped
<1>4. Shaped'
  <2>1. source' \in [Sources -> Row]
    BY CommitRow
  <2>2. script' \in [Scripts -> ScriptState]
    BY <1>2, IdleKnows DEF LifeInv, Shaped
  <2>3. checked' \subseteq Sources /\ held' \subseteq Sources
    BY <1>1 DEF Commit, ScriptState
  <2> QED
    BY <2>1, <2>2, <2>3 DEF Shaped
<1>5. OneLocks'
  BY <1>3, IdleKnows DEF LifeInv, OneLocks
<1>6. HeldIsPaused'
  <2> SUFFICES ASSUME NEW s \in Sources
               PROVE  /\ source'[s].paused <=> s \in held'
                      /\ source'[s].lifecycle = "NONE" => ~source'[s].paused
    BY DEF HeldIsPaused
  <2>1. source'[s].paused = IF "paused" \in me.sent[s] THEN me.object[s].paused
                            ELSE source[s].paused
    BY CommitRow DEF Columns
  <2>2. /\ source[s].paused <=> s \in held
        /\ source[s].lifecycle = "NONE" => ~source[s].paused
    BY DEF LifeInv, HeldIsPaused
  <2>3. held' = IF me.target = "PAUSED" THEN held \cup me.set ELSE held \ (me.set \cap me.saw)
    BY DEF Commit
  <2>4. source'[s].lifecycle = "NONE" => source[s].lifecycle = "NONE"
    BY NeverUnimported
  <2>5. s \in me.set => source'[s].lifecycle # "NONE"
    BY NeverUnimported DEF LifeInv, Existing
  <2>6. CASE s \notin me.set
    <3>1. "paused" \notin me.sent[s]
      BY <1>1, <2>6 DEF Knows, Recording
    <3> QED
      BY <2>1, <2>2, <2>3, <2>4, <2>6, <3>1
  <2>7. CASE s \in me.set /\ me.target = "PAUSED"
    <3>1. "paused" \in me.sent[s] /\ me.object[s].paused
      BY <1>1, <2>7 DEF Knows, Deciding
    <3> QED
      BY <2>1, <2>3, <2>5, <2>7, <3>1
  <2>8. CASE s \in me.set /\ me.target # "PAUSED"
    <3>1. ~me.object[s].paused /\ ("paused" \in me.sent[s] <=> s \in me.saw)
      BY <1>1, <2>8 DEF Knows, Deciding
    <3> QED
      BY <2>1, <2>2, <2>3, <2>5, <2>8, <3>1
  <2> QED
    BY <2>6, <2>7, <2>8
<1>7. ScriptsKnow'
  BY <1>3, IdleKnows DEF LifeInv, ScriptsKnow
<1>8. Existing'
  BY <1>3, IdleKnows, NeverUnimported DEF LifeInv, Existing, Shaped, ScriptState
<1> QED
  BY <1>4, <1>5, <1>6, <1>7, <1>8 DEF LifeInv

\* What an import makes of a row.
LEMMA ImportRow ==
  ASSUME LifeInv, NEW S \in SUBSET Sources, NEW file \in [S -> BOOLEAN], ImportSources(file)
  PROVE  /\ source' \in [Sources -> Row]
         /\ \A s \in Sources :
              \/ source'[s].lifecycle = source[s].lifecycle
                   /\ source'[s].verification = source[s].verification
                   /\ source'[s].paused = source[s].paused
              \/ source[s].lifecycle = "NONE" /\ source'[s].lifecycle = "DISCOVERED"
                   /\ source'[s].verification = "UNVERIFIED" /\ ~source'[s].paused
<1>1. source \in [Sources -> Row]
  BY DEF LifeInv, Shaped
<1>2. \A s \in Sources :
        source'[s] = IF s \notin S THEN source[s]
                     ELSE IF source[s].lifecycle = "NONE" THEN Imported(file[s])
                     ELSE [source[s] EXCEPT !.active = file[s]]
  BY DEF ImportSources
<1>3. \A s \in Sources : source'[s] \in Row
  <2>1. \A s \in S : file[s] \in BOOLEAN
    OBVIOUS
  <2>2. \A row \in Row, on \in BOOLEAN : Imported(on) \in Row /\ [row EXCEPT !.active = on] \in Row
    BY RowsStayRows
  <2>3. ASSUME NEW s \in S
        PROVE  Imported(file[s]) \in Row /\ [source[s] EXCEPT !.active = file[s]] \in Row
    BY <1>1, <2>1, <2>2
  <2> QED
    BY <1>1, <1>2, <2>3
<1>4. source' \in [Sources -> Row]
  BY <1>3 DEF ImportSources
<1>5. \A on \in BOOLEAN : /\ Imported(on).lifecycle = "DISCOVERED"
                          /\ Imported(on).verification = "UNVERIFIED"
                          /\ ~Imported(on).paused
  BY DEF Imported, NoRow
<1>6. ASSUME NEW s \in Sources, NEW on \in BOOLEAN
      PROVE  /\ [source[s] EXCEPT !.active = on].lifecycle = source[s].lifecycle
             /\ [source[s] EXCEPT !.active = on].verification = source[s].verification
             /\ [source[s] EXCEPT !.active = on].paused = source[s].paused
  BY <1>1 DEF Row
<1>7. ASSUME NEW s \in Sources
      PROVE  \/ /\ source'[s].lifecycle = source[s].lifecycle
                /\ source'[s].verification = source[s].verification
                /\ source'[s].paused = source[s].paused
             \/ /\ source[s].lifecycle = "NONE" /\ source'[s].lifecycle = "DISCOVERED"
                /\ source'[s].verification = "UNVERIFIED" /\ ~source'[s].paused
  <2>1. CASE s \notin S
    BY <1>2, <2>1
  <2>2. CASE s \in S /\ source[s].lifecycle = "NONE"
    <3>1. file[s] \in BOOLEAN
      BY <2>2
    <3>2. source'[s] = Imported(file[s])
      BY <1>2, <2>2
    <3> QED
      BY <1>5, <2>2, <3>1, <3>2
  <2>3. CASE s \in S /\ source[s].lifecycle # "NONE"
    <3>1. file[s] \in BOOLEAN
      BY <2>3
    <3>2. source'[s] = [source[s] EXCEPT !.active = file[s]]
      BY <1>2, <2>3
    <3> QED
      BY <1>6, <3>1, <3>2
  <2> QED
    BY <2>1, <2>2, <2>3
<1> QED
  BY <1>4, <1>7

LEMMA ImportKeeps ==
  ASSUME LifeInv, NEW S \in SUBSET Sources, NEW file \in [S -> BOOLEAN], ImportSources(file)
  PROVE  LifeInv'
<1>1. UNCHANGED <<script, checked, held>>
  BY DEF ImportSources
<1>2. Shaped'
  BY <1>1, ImportRow DEF LifeInv, Shaped
<1>3. OneLocks' /\ ScriptsKnow'
  BY <1>1 DEF LifeInv, OneLocks, ScriptsKnow
<1>4. HeldIsPaused'
  BY <1>1, ImportRow DEF LifeInv, HeldIsPaused
<1>5. Existing'
  <2>1. \A p \in Scripts : script[p].todo \cup script[p].set \subseteq Sources
    BY DEF LifeInv, Shaped, ScriptState
  <2> QED
    BY <1>1, <2>1, ImportRow DEF LifeInv, Existing
<1> QED
  BY <1>2, <1>3, <1>4, <1>5 DEF LifeInv

\* LifeInv is inductive: one step per action.
LEMMA LifeInductive == LifeInv /\ [Next]_vars => LifeInv'
<1> SUFFICES ASSUME LifeInv, [Next]_vars PROVE LifeInv'
  OBVIOUS
<1>1. ASSUME NEW S \in SUBSET Sources, NEW file \in [S -> BOOLEAN], ImportSources(file)
      PROVE  LifeInv'
  BY <1>1, ImportKeeps
<1>2. ASSUME NEW p \in Scripts, NEW s \in Sources, NEW target \in {"NONE", "ACTIVE"},
             StartOne(p, s, target)
      PROVE  LifeInv'
  BY <1>2, OpenKeeps DEF StartOne, Lifecycles
<1>3. ASSUME NEW p \in Scripts, NEW target \in {"NONE", "ACTIVE"}, StartDiscover(p, target)
      PROVE  LifeInv'
  <2>1. {s \in Sources : Pending(s)} \in SUBSET Sources
    OBVIOUS
  <2> QED
    BY <1>3, <2>1, OpenKeeps DEF StartDiscover, Lifecycles
<1>4. ASSUME NEW p \in Scripts, NEW s \in Sources, NEW target \in Targets,
             StartSet(p, s, target)
      PROVE  LifeInv'
  BY <1>4, OpenKeeps, TargetsAssumption DEF StartSet
<1>5. ASSUME NEW p \in Scripts, NEW s \in Sources, NEW probe \in Sites, Verify(p, s, probe)
      PROVE  LifeInv'
  BY <1>5, VerifyKeeps
<1>6. ASSUME NEW p \in Scripts, NEW s \in Sources, NEW reason \in BOOLEAN,
             SetLifecycle(p, s, reason)
      PROVE  LifeInv'
  BY <1>6, SetKeeps
<1>7. ASSUME NEW p \in Scripts, Commit(p)
      PROVE  LifeInv'
  BY <1>7, CommitKeeps
<1>8. ASSUME NEW p \in Scripts, Abort(p)
      PROVE  LifeInv'
  BY <1>8, ScriptIdles DEF Abort
<1>9. CASE UNCHANGED vars
  BY <1>9 DEF vars, LifeInv, Shaped, OneLocks, HeldIsPaused, ScriptsKnow, Existing
<1> QED
  BY <1>1, <1>2, <1>3, <1>4, <1>5, <1>6, <1>7, <1>8, <1>9 DEF Next, ScriptStep

THEOREM LifeInvHolds == Spec => []LifeInv
BY InitLife, LifeInductive, PTL DEF Spec

\* Every reachable row and script has its form, and no two scripts hold the lock of one row,
\* for any number of scripts that wait for web sites at once.
THEOREM LifecycleTypeSafe == Spec => []LifecycleTypeOK
<1>1. LifeInv => LifecycleTypeOK
  BY DEF LifeInv, Shaped, OneLocks, LifecycleTypeOK
<1> QED
  BY <1>1, LifeInvHolds, PTL

\* A pause holds until an operator who saw it ends it: a session that loaded the row
\* before the pause does not write the pause's columns, because they did not change.
THEOREM PauseIsKept == Spec => []PauseHolds
<1>1. LifeInv => PauseHolds
  BY DEF LifeInv, Shaped, HeldIsPaused, PauseHolds, Claimable
<1> QED
  BY <1>1, LifeInvHolds, PTL

-----------------------------------------------------------------------------
(* Coverage                                                                *)

Kept(s) ==
  Claimable(source[s]) /\ ~Claimable(source'[s]) =>
    \/ \E p \in Scripts : s \in script[p].set /\ script'[p] = Idle
    \/ script' = script

\* What no operator decided stays claimable through a commit.
LEMMA CommitKeepsCoverage ==
  ASSUME LifeInv, NEW p \in Scripts, Commit(p), NEW s \in Sources
  PROVE  Kept(s)
<1>1. script'[p] = Idle
  BY DEF Commit, LifeInv, Shaped
<1>2. CASE s \in script[p].set
  BY <1>1, <1>2 DEF Kept
<1>3. CASE s \notin script[p].set
  <2>1. /\ script[p].sent[s] \subseteq {"verification", "found", "lifecycle"}
        /\ "lifecycle" \in script[p].sent[s] => script[p].object[s].lifecycle \in Schedulable
    BY <1>3 DEF LifeInv, ScriptsKnow, Knows, Recording
  <2>2. source'[s].active = source[s].active /\ source'[s].paused = source[s].paused
    BY <2>1, CommitRow DEF Columns
  <2>3. source[s].lifecycle \in Schedulable => source'[s].lifecycle \in Schedulable
    BY <2>1, CommitRow DEF Columns
  <2> QED
    BY <2>2, <2>3 DEF Kept, Claimable
<1> QED
  BY <1>2, <1>3

\* Verification never takes a source out of the schedule: whichever sessions overlap, a
\* source stops being claimable by an operator's decision or by an import only.
THEOREM CoverageHolds == Spec => CoverageIsKept
<1>1. ASSUME LifeInv, [Next]_vars
      PROVE  [\A s \in Sources : Kept(s)]_vars
  <2>1. ASSUME UNCHANGED source, NEW s \in Sources
        PROVE  Kept(s)
    BY <2>1 DEF Kept
  <2>2. ASSUME NEW S \in SUBSET Sources, NEW file \in [S -> BOOLEAN], ImportSources(file),
               NEW s \in Sources
        PROVE  Kept(s)
    BY <2>2 DEF ImportSources, Kept
  <2>3. ASSUME NEW p \in Scripts, ScriptStep(p), NEW s \in Sources
        PROVE  Kept(s)
    <3>1. CASE Commit(p)
      BY <1>1, <3>1, CommitKeepsCoverage
    <3>2. CASE ~Commit(p)
      <4>1. UNCHANGED source
        BY <2>3, <3>2 DEF ScriptStep, StartOne, StartDiscover, StartSet, Open, Verify,
                          SetLifecycle, Abort
      <4> QED
        BY <2>1, <4>1
    <3> QED
      BY <3>1, <3>2
  <2>4. CASE UNCHANGED vars
    BY <2>4
  <2>5. CASE Next
    <3>1. \A s \in Sources : Kept(s)
      BY <2>2, <2>3, <2>5 DEF Next
    <3> QED
      BY <3>1
  <2> QED
    BY <1>1, <2>4, <2>5
<1>2. LifeInv /\ [Next]_vars =>
        [\A s \in Sources : Claimable(source[s]) /\ ~Claimable(source'[s]) =>
            \/ \E p \in Scripts : s \in script[p].set /\ script'[p] = Idle
            \/ script' = script]_vars
  BY <1>1 DEF Kept
<1> QED
  BY <1>2, LifeInvHolds, PTL DEF Spec, CoverageIsKept

-----------------------------------------------------------------------------
(* Evidence                                                                *)

\* Evidence is about the lifecycle and the verification of a row, and only grows.
LEMMA EvidentGrows ==
  ASSUME NEW a, NEW b, NEW s, NEW seen, NEW more, Evident(a, s, seen), seen \subseteq more,
         b.lifecycle = a.lifecycle, b.verification = a.verification
  PROVE  Evident(b, s, more)
BY DEF Evident

LEMMA IdleEvident == \A s \in Sources : \A seen : Evident(Idle.object[s], s, seen)
BY DEF Evident, Idle, NoRow, Schedulable, Passing

\* A script moves, and what it holds now is evident.
LEMMA EvidenceMoves ==
  ASSUME EvidenceInv, LifeInv', NEW p \in Scripts, NEW new,
         script' = [script EXCEPT ![p] = new], UNCHANGED <<source, checked, held>>,
         \A s \in Sources : Evident(new.object[s], s, checked \cup new.good)
  PROVE  EvidenceInv'
<1>1. \A q \in Scripts : script'[q] = IF q = p THEN new ELSE script[q]
  BY DEF EvidenceInv, LifeInv, Shaped
<1>2. \A q \in Scripts, s \in Sources :
        Evident(script'[q].object[s], s, checked \cup script'[q].good)
  BY <1>1 DEF EvidenceInv
<1> QED
  BY <1>2 DEF EvidenceInv

LEMMA EvidenceIdles ==
  ASSUME EvidenceInv, LifeInv', NEW p \in Scripts, script' = [script EXCEPT ![p] = Idle],
         UNCHANGED <<source, checked, held>>
  PROVE  EvidenceInv'
BY IdleEvident, EvidenceMoves

LEMMA EvidenceOpen ==
  ASSUME EvidenceInv, LifeInv', NEW p \in Scripts, NEW S \in SUBSET Sources, NEW pc, NEW target,
         Open(p, S, pc, target)
  PROVE  EvidenceInv'
<1> DEFINE object == [s \in Sources |-> IF s \in S THEN source[s] ELSE NoRow]
           new == [Idle EXCEPT !.pc     = pc,
                               !.todo   = S,
                               !.object = object,
                               !.target = target,
                               !.saw    = S \cap held]
<1>1. script' = [script EXCEPT ![p] = new] /\ UNCHANGED <<source, checked, held>>
  BY DEF Open
<1>2. new.object = object /\ new.good = {}
  BY DEF Idle
<1>3. \A s \in Sources : Evident(object[s], s, checked)
  BY DEF EvidenceInv, Evident, NoRow, Schedulable, Passing
<1> HIDE DEF new, object
<1> QED
  BY <1>1, <1>2, <1>3, EvidenceMoves

LEMMA EvidenceVerify ==
  ASSUME EvidenceInv, LifeInv', NEW p \in Scripts, NEW s \in Sources, NEW probe \in Probes,
         Verify(p, s, probe)
  PROVE  EvidenceInv'
<1> DEFINE me      == script[p]
           verdict == Verdict(Report(probe))
           row     == me.object[s]
           found   == Recorded(row, verdict)
           activates == me.target = "ACTIVE" /\ verdict \in Passing
           active  == SetTo(found, "ACTIVE")
           after   == IF activates THEN active ELSE found
           columns == Sent(row, found, {"found"})
                        \cup (IF activates THEN Sent(found, active, {}) ELSE {})
           good    == IF Collectable(probe) THEN me.good \cup {s} ELSE me.good
           set     == IF activates THEN me.set \cup {s} ELSE me.set
           pc      == IF me.todo = {s} THEN "ending" ELSE "verifying"
           new     == [me EXCEPT !.todo   = @ \ {s},
                                 !.object = [@ EXCEPT ![s] = after],
                                 !.sent   = [@ EXCEPT ![s] = columns],
                                 !.good   = good,
                                 !.set    = set,
                                 !.pc     = pc]
<1>1. script' = [script EXCEPT ![p] = new] /\ UNCHANGED <<source, checked, held>>
  BY DEF Verify
<1>2. me \in ScriptState
  BY DEF EvidenceInv, LifeInv, Shaped
<1>3. row \in Row /\ verdict \in Verdicts
  BY <1>2, VerdictIsOne DEF ScriptState
<1>4. found \in Row
  BY <1>3, RowsStayRows
<1>5. new.object = [me.object EXCEPT ![s] = after] /\ new.good = good
  BY <1>2 DEF ScriptState
<1>6. verdict \in Passing => s \in good
  BY PassedIsCollectable
<1>7. me.good \subseteq good
  OBVIOUS
<1>8. Evident(row, s, checked \cup me.good)
  BY DEF EvidenceInv
<1>9. Evident(found, s, checked \cup good)
  <2>1. found.verification = verdict
    BY <1>3, RecordedIsSent
  <2>2. found.lifecycle \in {row.lifecycle} \cup (IF verdict \in Passing THEN {"VERIFIED"} ELSE {})
                              \cup (IF row.lifecycle = "ACTIVE" THEN {"DEGRADED"} ELSE {})
    BY <1>3, RecordedIsSent
  <2> HIDE DEF found, verdict, row, good
  <2> QED
    BY <1>6, <1>7, <1>8, <2>1, <2>2 DEF Evident, Schedulable
<1>10. Evident(after, s, checked \cup good)
  <2>1. CASE activates
    <3>1. after.verification = found.verification
      BY <1>4, <2>1, SetIsSent DEF Lifecycles
    <3>2. s \in good
      BY <1>6, <2>1
    <3> QED
      BY <3>2 DEF Evident
  <2>2. CASE ~activates
    BY <1>9, <2>2
  <2> QED
    BY <2>1, <2>2
<1>11. \A t \in Sources : Evident(new.object[t], t, checked \cup new.good)
  <2> HIDE DEF after, good
  <2>1. new.object[s] = after
    BY <1>2, <1>5 DEF ScriptState
  <2>2. ASSUME NEW t \in Sources \ {s}
        PROVE  new.object[t] = me.object[t] /\ Evident(me.object[t], t, checked \cup me.good)
    BY <1>2, <1>5 DEF ScriptState, EvidenceInv
  <2> HIDE DEF new
  <2> QED
    BY <1>5, <1>7, <1>10, <2>1, <2>2 DEF Evident
<1> HIDE DEF new
<1> QED
  BY <1>1, <1>11, EvidenceMoves

\* An operator who only activates, pauses and retires needs a verification that passed.
LEMMA EvidenceSet ==
  ASSUME Targets \cap {"VERIFIED", "DEGRADED"} = {},
         EvidenceInv, LifeInv', NEW p \in Scripts, NEW s \in Sources, NEW reason,
         SetLifecycle(p, s, reason)
  PROVE  EvidenceInv'
<1> DEFINE me      == script[p]
           row     == me.object[s]
           after   == SetTo(row, me.target)
           columns == Sent(row, after, IF me.target = "PAUSED" THEN {"paused"} ELSE {})
           new     == [me EXCEPT !.todo   = {},
                                 !.object = [@ EXCEPT ![s] = after],
                                 !.sent   = [@ EXCEPT ![s] = columns],
                                 !.set    = {s},
                                 !.pc     = "ending"]
<1>1. me \in ScriptState /\ Knows(me) /\ me.pc = "deciding"
  BY DEF EvidenceInv, LifeInv, Shaped, ScriptsKnow, SetLifecycle
<1>2. CASE script' = [script EXCEPT ![p] = Idle] /\ UNCHANGED <<source, checked, held>>
  BY <1>2, EvidenceIdles
<1>3. CASE /\ Accepted(row, me.target, reason)
           /\ script' = [script EXCEPT ![p] = new] /\ UNCHANGED <<source, checked, held>>
  <2>1. row \in Row /\ me.target \in Targets /\ me.target \in Lifecycles
    BY <1>1, TargetsAssumption DEF ScriptState, Knows, Phases
  <2>2. after.lifecycle = me.target /\ after.verification = row.verification
    BY <2>1, SetIsSent
  <2>3. Evident(row, s, checked \cup me.good)
    BY DEF EvidenceInv
  <2>4. me.target \in Schedulable => row.verification \in Passing
    BY <1>3, <2>1 DEF Schedulable, Accepted
  <2>5. Evident(after, s, checked \cup me.good)
    <3> HIDE DEF after, row
    <3> QED
      BY <2>2, <2>3, <2>4 DEF Evident
  <2>6. new.object = [me.object EXCEPT ![s] = after] /\ new.good = me.good
    BY <1>1 DEF ScriptState
  <2>7. \A t \in Sources : Evident(new.object[t], t, checked \cup new.good)
    <3> HIDE DEF after
    <3>1. new.object[s] = after
      BY <1>1, <2>6 DEF ScriptState
    <3>2. ASSUME NEW t \in Sources \ {s}
          PROVE  new.object[t] = me.object[t] /\ Evident(me.object[t], t, checked \cup me.good)
      BY <1>1, <2>6 DEF ScriptState, EvidenceInv
    <3> HIDE DEF new
    <3> QED
      BY <2>5, <2>6, <3>1, <3>2
  <2> HIDE DEF new
  <2> QED
    BY <1>3, <2>7, EvidenceMoves
<1> QED
  BY <1>2, <1>3 DEF SetLifecycle

LEMMA EvidenceCommit ==
  ASSUME EvidenceInv, LifeInv', NEW p \in Scripts, Commit(p)
  PROVE  EvidenceInv'
<1>1. \A q \in Scripts : script'[q] = IF q = p THEN Idle ELSE script[q]
  BY DEF Commit, EvidenceInv, LifeInv, Shaped
<1>2. checked' = checked \cup script[p].good
  BY DEF Commit
<1>3. \A s \in Sources : Evident(source'[s], s, checked')
  <2>1. ASSUME NEW s \in Sources
        PROVE  /\ source'[s].lifecycle \in {source[s].lifecycle, script[p].object[s].lifecycle}
               /\ source'[s].verification \in
                    {source[s].verification, script[p].object[s].verification}
    BY CommitRow DEF Columns, EvidenceInv
  <2> QED
    BY <1>2, <2>1 DEF EvidenceInv, Evident
<1>4. \A q \in Scripts, s \in Sources :
        Evident(script'[q].object[s], s, checked' \cup script'[q].good)
  BY <1>1, <1>2, IdleEvident DEF EvidenceInv, Evident
<1> QED
  BY <1>3, <1>4 DEF EvidenceInv

LEMMA EvidenceImport ==
  ASSUME EvidenceInv, LifeInv', NEW S \in SUBSET Sources, NEW file \in [S -> BOOLEAN],
         ImportSources(file)
  PROVE  EvidenceInv'
<1>1. UNCHANGED <<script, checked, held>>
  BY DEF ImportSources
<1>2. \A s \in Sources : Evident(source'[s], s, checked)
  BY ImportRow DEF EvidenceInv, Evident, Schedulable, Passing
<1> QED
  BY <1>1, <1>2 DEF EvidenceInv

\* If operators activate, pause, disable and send back, but do not set VERIFIED or DEGRADED by
\* hand, then a source the scheduler may claim was collected from by a verification on record:
\* ACTIVE asks for a passing record, and the record of a stale session is evidence too.
THEOREM ClaimableIsCollected ==
  ASSUME Targets \cap {"VERIFIED", "DEGRADED"} = {}
  PROVE  Spec => []ClaimableWasCollected
<1>1. Init => EvidenceInv
  <2> SUFFICES ASSUME Init PROVE EvidenceInv
    OBVIOUS
  <2>1. LifeInv
    BY InitLife
  <2>2. \A s \in Sources : Evident(source[s], s, checked)
    BY DEF Init, Evident, NoRow, Schedulable, Passing
  <2>3. \A p \in Scripts : script[p] = Idle
    BY DEF Init
  <2> QED
    BY <2>1, <2>2, <2>3, IdleEvident DEF EvidenceInv
<1>2. EvidenceInv /\ [Next]_vars => EvidenceInv'
  <2> SUFFICES ASSUME EvidenceInv, [Next]_vars PROVE EvidenceInv'
    OBVIOUS
  <2>1. LifeInv'
    BY LifeInductive DEF EvidenceInv
  <2>2. ASSUME NEW S \in SUBSET Sources, NEW file \in [S -> BOOLEAN], ImportSources(file)
        PROVE  EvidenceInv'
    BY <2>1, <2>2, EvidenceImport
  <2>3. ASSUME NEW p \in Scripts, NEW S \in SUBSET Sources, NEW pc, NEW target,
               Open(p, S, pc, target)
        PROVE  EvidenceInv'
    BY <2>1, <2>3, EvidenceOpen
  <2>4. ASSUME NEW p \in Scripts, NEW s \in Sources, NEW probe \in Sites, Verify(p, s, probe)
        PROVE  EvidenceInv'
    BY <2>1, <2>4, EvidenceVerify, SitesAssumption
  <2>5. ASSUME NEW p \in Scripts, NEW s \in Sources, NEW reason \in BOOLEAN,
               SetLifecycle(p, s, reason)
        PROVE  EvidenceInv'
    BY <2>1, <2>5, EvidenceSet
  <2>6. ASSUME NEW p \in Scripts, Commit(p)
        PROVE  EvidenceInv'
    BY <2>1, <2>6, EvidenceCommit
  <2>7. ASSUME NEW p \in Scripts, Abort(p)
        PROVE  EvidenceInv'
    BY <2>1, <2>7, EvidenceIdles DEF Abort
  <2>8. CASE UNCHANGED vars
    BY <2>1, <2>8 DEF vars, EvidenceInv
  <2>9. ASSUME NEW p \in Scripts, ScriptStep(p)
        PROVE  EvidenceInv'
    <3>1. {s \in Sources : Pending(s)} \in SUBSET Sources
      OBVIOUS
    <3> QED
      BY <2>3, <2>4, <2>5, <2>6, <2>7, <2>9, <3>1
      DEF ScriptStep, StartOne, StartDiscover, StartSet
  <2> QED
    BY <2>2, <2>8, <2>9 DEF Next
<1>3. EvidenceInv => ClaimableWasCollected
  BY DEF EvidenceInv, Evident, ClaimableWasCollected, Claimable
<1> QED
  BY <1>1, <1>2, <1>3, PTL DEF Spec

=============================================================================

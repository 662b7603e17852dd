------------------------------ MODULE MCDocuments ------------------------------
(* Instances of Documents: two files that both documents may serve.  One is a PDF *)
(* that speaks of an addendum; the other has no signature, and document 11 declares *)
(* it as a type that is refused. *)
EXTENDS Documents

MCDocs == {10, 11}
MCFiles == [c \in {1, 2} |->
  IF c = 1 THEN [signature |-> "PDF", native |-> "thin", scan |-> "reads", speaks |-> {"ADDENDUM"}]
  ELSE [signature |-> Absent, native |-> "rich", scan |-> "fails", speaks |-> {}]]
MCHints == [d \in MCDocs |->
  [declared |-> IF d = 10 THEN "text/plain" ELSE "application/json", ext |-> "txt",
   filename |-> {}, title |-> {}]]
MCServes == [d \in MCDocs |-> {1, 2}]

\* Document 10 takes some time, less than a job may take.
MCTakes == [d \in MCDocs |-> IF d = 10 THEN 1 ELSE 0]
================================================================================

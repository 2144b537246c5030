------------------------------- MODULE Critique -------------------------------
(***************************************************************************)
(* The critic (application/critic.py, worker/dispatch.py): once aggregate  *)
(* has returned, persist_critique_for_job reads the published report,      *)
(* looks for a stored critique of that very document, and otherwise calls  *)
(* the model and inserts one.  Celery may deliver the command twice, and   *)
(* two local workers may both get here: several critics run.               *)
(***************************************************************************)
EXTENDS Documents, Sequences, FiniteSetsExt

CONSTANT Critic

VARIABLES critic,    \* the frame of each critic
          critiques  \* critique_runs, in the order of created_at

criticVars == << critic, critiques >>

\* An answer of the model: an error or a timeout, text that is not the document
\* asked for or that audit_critique rejects, or text it accepts.
Answer == {"error", "rejected", "accepted"}

\* A critique of no report in particular, which is returned and not stored.
NoCritique == [of |-> None, status |-> "FAILED"]

\* A row; "since" is the number of rows when its critic looked for one.
CritiqueRow == [of : Nat, status : {"OK", "FAILED"}, since : Nat]
NoCritic == [pc |-> "waiting", of |-> None, since |-> 0, answer |-> NoCritique]

CriticInit ==
  /\ critic = [c \in Critic |-> NoCritic]
  /\ critiques = << >>

\* Deviation: the digest of the report is not compared.
get_critique_by_model(of) == 1..Len(critiques)
\* Deviation: a critique that failed does not count.
get_accepted_critique(of) ==
  {i \in 1..Len(critiques) : critiques[i].of = of /\ critiques[i].status = "OK"}

\* get_critique_by_identity: the newest row of the same prompt, model and report.
get_critique_by_identity(of) == {i \in 1..Len(critiques) : critiques[i].of = of}

Ends(c, answer) ==
  critic' = [critic EXCEPT ![c].pc = "ended", ![c].answer = answer]

\* The job, its summary, the artifact the summary names, and the file: one that is
\* missing, or being replaced, ends the critic.  The ids never change once they
\* are there, so that only the moment of the file matters.
ReadReport(c) ==
  /\ critic[c].pc = "waiting"
  /\ aggregated
  /\ IF summary = NoSummary \/ summary.report # artifacts["report"] \/ files["report"] = None
     THEN Ends(c, NoCritique)
     ELSE critic' = [critic EXCEPT ![c].pc = "lookup", ![c].of = files["report"]]
  /\ UNCHANGED critiques

LookUp(c) ==
  /\ critic[c].pc = "lookup"
  /\ LET known == get_critique_by_identity(critic[c].of)
     IN  IF known # {}
         THEN LET row == critiques[Max(known)]
              IN  Ends(c, [of |-> row.of, status |-> row.status])
         ELSE critic' = [critic EXCEPT ![c].pc = "model", ![c].since = Len(critiques)]
  /\ UNCHANGED critiques

\* run_critique: a second attempt when the first answer is of no use.
run_critique(answers) == IF "accepted" \in {answers[1], answers[2]} THEN "OK" ELSE "FAILED"

\* save_critique.  No index of the table forbids a second row.
SaveCritique(c) ==
  /\ critic[c].pc = "model"
  /\ \E first, second \in Answer :
       LET row == [of |-> critic[c].of, status |-> run_critique(<< first, second >>),
                   since |-> critic[c].since]
       IN  /\ critiques' = Append(critiques, row)
           /\ Ends(c, [of |-> row.of, status |-> row.status])

CriticStep(c) ==
  /\ ReadReport(c) \/ LookUp(c) \/ SaveCritique(c)
  /\ UNCHANGED docVars

\* The process dies, or has answered, and the command is delivered again.
Redeliver(c) ==
  /\ critic[c].pc # "waiting"
  /\ critic' = [critic EXCEPT ![c] = NoCritic]
  /\ Fault
  /\ UNCHANGED << critiques, analysis, rowVars, storeVars, pc, local >>

=============================================================================

---------------------------- MODULE Reproduction ----------------------------
(***************************************************************************)
(* From candidate findings to the sections of the comment: the commands    *)
(* plan, reproduce (with its one repair round), verify, finalize, and the  *)
(* loading of the final review by comment.  They run one after another in  *)
(* one job and hand each other JSON files; a command that fails stops the  *)
(* job and nothing is posted.                                              *)
(*                                                                         *)
(* Codex (the plan, the repaired scripts, the second review) and the pull  *)
(* request's own code, which the scripts execute, may answer anything.     *)
(***************************************************************************)
EXTENDS Integers, FiniteSets

CONSTANTS
  MaxFindings,  \* a review holds at most five findings
  NoCase,       \* the plan has no case for the finding
  NoResult      \* no result (yet) for the finding

ASSUME FindingsAssumption == MaxFindings \in Nat
ASSUME NoCaseAssumption == NoCase \notin [mode : {"assert", "differential"}, fits : BOOLEAN]
ASSUME NoResultAssumption ==
  NoResult \notin [status : {"confirmed", "refuted", "inconclusive"}, cleanup : BOOLEAN,
                   reached : BOOLEAN, observed : {"empty", "blank", "short", "long"}]

VARIABLES
  step,       \* the command that runs, or how the job ended
  findings,   \* indices of the candidate findings
  cites,      \* those that cite a line of a Python file
  blocked,    \* base and head cannot share one venv and database
  plan,       \* ReproductionPlan: a case for some findings
  pending,    \* cases the current run_reproductions has not executed
  evidence,   \* ReproductionEvidence: a result per executed finding
  decision,   \* VerificationDecision
  review,     \* the final review
  shown,      \* history: what the last execution of each case showed, if its process did not fail
  tries       \* history: executions of each case

vars == <<step, findings, cites, blocked, plan, pending, evidence, decision, review, shown, tries>>

Indices == 0 .. MaxFindings - 1

(* Texts, by the lengths the loaders tell apart: "", only white space, at
   most 500 characters, 501 to 1000 characters. *)
Texts == {"empty", "blank", "short", "long"}

\* `fits`: condition and oracle have at most 500 characters (the plan allows 1000).
Case == [mode : {"assert", "differential"}, fits : BOOLEAN]

Result == [status : {"confirmed", "refuted", "inconclusive"}, cleanup : BOOLEAN,
           reached : BOOLEAN, observed : Texts]

(* What the processes of one case did.  For a differential case this sums up
   the four runs of DifferentialRun: `judged` is that the entry point exists
   on base, `differs` a difference at a predicted place.  For an assert case
   `judged` is that both values were returned, `differs` that they differ. *)
Execution == [exited : BOOLEAN, reached : BOOLEAN, restored : BOOLEAN,
              judged : BOOLEAN, differs : BOOLEAN]

(* Values are compared when they are there.  A process that fails may have
   written any payload before, or none. *)
Executions == {x \in Execution : x.differs => x.judged}

\* The value a case observed matters when the runner got as far as its verdict.
TextsOf(x) == IF x.reached /\ x.judged THEN Texts ELSE {"short"}

\* Nothing was shown: no process, or one that failed.
NotRun == [exited |-> FALSE, reached |-> FALSE, restored |-> FALSE, judged |-> FALSE, differs |-> FALSE]

Statuses == {"unplanned", "inconclusive", "not_reproduced", "verification_rejected"}

(* Type invariant: a case runs at most twice. *)
TypeOK ==
  /\ step \in {"plan", "reproduce", "repair", "rerun", "verify", "finalize", "comment",
               "published", "stopped"}
  /\ findings \subseteq Indices /\ cites \subseteq findings /\ blocked \in BOOLEAN
  /\ plan \in [Indices -> Case \cup {NoCase}]
  /\ pending \subseteq findings
  /\ evidence \in [Indices -> Result \cup {NoResult}]
  /\ decision \in [accepted : SUBSET Indices, rejected : SUBSET Indices]
  /\ review \in [reproduced : SUBSET Indices, static : [Indices -> Statuses \cup {"none"}]]
  /\ shown \in [Indices -> Execution]
  /\ tries \in [Indices -> 0 .. 2]

-----------------------------------------------------------------------------
(* How an execution becomes a result. *)

\* Mutant: what the runner wrote counts although its process failed.
AssertResultAnyExit(x, text) ==
  [status |-> IF ~(x.reached /\ x.judged /\ x.restored) THEN "inconclusive"
              ELSE IF x.differs THEN "confirmed" ELSE "refuted",
   cleanup |-> x.restored, reached |-> x.reached,
   observed |-> text]

(* The fixed runner decides; _execute_case overrides the verdict of a process
   that failed, run_reproductions that of a case not verified as rolled back.
   The observed value is kept even then. *)
AssertResult(x, text) ==
  [status |-> IF ~(x.exited /\ x.reached /\ x.judged /\ x.restored) THEN "inconclusive"
              ELSE IF x.differs THEN "confirmed" ELSE "refuted",
   cleanup |-> x.restored, reached |-> x.reached,
   observed |-> text]

(* _differential_result; its summaries are sentences, never empty. *)
DifferentialResult(x, text) ==
  [status |-> IF ~(x.exited /\ x.reached /\ x.restored /\ x.judged) THEN "inconclusive"
              ELSE IF x.differs THEN "confirmed" ELSE "refuted",
   cleanup |-> x.exited /\ x.reached /\ x.restored, reached |-> x.reached,
   observed |-> IF text \in {"empty", "blank"} THEN "short" ELSE text]

\* Whether the processes of a case are started at all.
Runs(case) == case.mode = "assert" \/ ~blocked

ResultOf(case, x, text) ==
  IF ~Runs(case) THEN [status |-> "inconclusive", cleanup |-> FALSE, reached |-> FALSE, observed |-> "short"]
  ELSE IF case.mode = "assert" THEN AssertResult(x, text) ELSE DifferentialResult(x, text)

Inconclusive == {f \in findings : evidence[f] # NoResult /\ evidence[f].status = "inconclusive"}

(* The results VerificationDecision and finalize_review call confirmed. *)
Confirmed == {f \in findings : /\ evidence[f] # NoResult /\ evidence[f].status = "confirmed"
                               /\ evidence[f].cleanup /\ evidence[f].reached}

-----------------------------------------------------------------------------
Init ==
  /\ step = "plan"
  /\ findings \in {0 .. n - 1 : n \in 0 .. MaxFindings}
  /\ cites \in SUBSET findings
  /\ blocked \in BOOLEAN
  /\ plan = [f \in Indices |-> NoCase]
  /\ pending = {}
  /\ evidence = [f \in Indices |-> NoResult]
  /\ decision = [accepted |-> {}, rejected |-> {}]
  /\ review = [reproduced |-> {}, static |-> [f \in Indices |-> "none"]]
  /\ shown = [f \in Indices |-> NotRun]
  /\ tries = [f \in Indices |-> 0]

(* plan: Codex plans any of the findings, once each; indices out of range and
   repeated ones are skipped, and so are findings without Python evidence. *)
PlanReproductions ==
  /\ step = "plan"
  /\ plan' \in {p \in [Indices -> Case \cup {NoCase}] : \A f \in Indices : p[f] # NoCase => f \in cites}
  /\ pending' = {f \in findings : plan'[f] # NoCase}
  /\ step' = "reproduce"
  /\ UNCHANGED <<findings, cites, blocked, evidence, decision, review, shown, tries>>

(* The result of a second execution replaces the first; when it is again
   inconclusive its text says so. *)
Record(old, new) ==
  IF old # NoResult /\ new.status = "inconclusive" THEN [new EXCEPT !.observed = "short"] ELSE new

(* run_reproductions executes one case; the results of the repair round
   replace those of the first. *)
Execute(f) ==
  /\ step \in {"reproduce", "rerun"} /\ f \in pending
  /\ \E x \in Executions : \E text \in TextsOf(x) :
       /\ evidence' = [evidence EXCEPT ![f] = Record(@, ResultOf(plan[f], x, text))]
       /\ shown' = [shown EXCEPT ![f] = IF Runs(plan[f]) /\ x.exited THEN x ELSE NotRun]
  /\ pending' = pending \ {f}
  /\ tries' = [tries EXCEPT ![f] = @ + 1]
  /\ UNCHANGED <<step, findings, cites, blocked, plan, decision, review>>

\* Mutant: the repair round starts again after each rerun.
RepairAgain(from) == "repair"

\* "This is the only retry."
NextCommand(from) == IF from = "reproduce" THEN "repair" ELSE "verify"

Executed ==
  /\ step \in {"reproduce", "rerun"} /\ pending = {}
  /\ step' = NextCommand(step)
  /\ UNCHANGED <<findings, cites, blocked, plan, pending, evidence, decision, review, shown, tries>>

\* Mutant: without any result the command waits for one.
NothingOfSomeToRepair ==
  /\ step = "repair" /\ Inconclusive = {} /\ (\E f \in findings : evidence[f] # NoResult)
  /\ step' = "verify"
  /\ UNCHANGED <<findings, cites, blocked, plan, pending, evidence, decision, review, shown, tries>>

\* Every case has a verdict.
NothingToRepair ==
  /\ step = "repair" /\ Inconclusive = {}
  /\ step' = "verify"
  /\ UNCHANGED <<findings, cites, blocked, plan, pending, evidence, decision, review, shown, tries>>

(* Codex fails, or repairs none of the failed cases: the results say so. *)
NotRepaired ==
  /\ step = "repair" /\ Inconclusive # {}
  /\ evidence' = [f \in Indices |-> IF f \in Inconclusive THEN [evidence[f] EXCEPT !.observed = "short"]
                                    ELSE evidence[f]]
  /\ step' = "verify"
  /\ UNCHANGED <<findings, cites, blocked, plan, pending, decision, review, shown, tries>>

\* Mutant: every case Codex returns is run again.
RepairableAny == {f \in findings : plan[f] # NoCase}

\* Cases Codex may repair: only those that failed before a verdict.
Repairable == Inconclusive

(* Codex returns new scripts for some of them; everything else of the case
   stays as planned. *)
Repair ==
  /\ step = "repair" /\ Inconclusive # {}
  /\ \E cases \in SUBSET Repairable \ {{}} : pending' = cases
  /\ step' = "rerun"
  /\ UNCHANGED <<findings, cites, blocked, plan, evidence, decision, review, shown, tries>>

(* VerificationDecision.from_json. *)
ValidDecision(accepted, rejected) ==
  accepted \subseteq Confirmed /\ accepted \cap rejected = {} /\ accepted \cup rejected = Confirmed

\* Without confirmed findings Codex is not asked.
Answers == IF Confirmed = {} THEN {{}} ELSE SUBSET findings

(* verify: the second review answers anything; only a partition of the
   confirmed findings is a decision. *)
Verify ==
  /\ step = "verify"
  /\ \E accepted, rejected \in Answers :
       IF ValidDecision(accepted, rejected)
       THEN /\ decision' = [accepted |-> accepted, rejected |-> rejected]
            /\ step' = "finalize"
       ELSE /\ decision' = decision
            /\ step' = "stopped"
  /\ UNCHANGED <<findings, cites, blocked, plan, pending, evidence, review, shown, tries>>

\* Mutant: the status is looked up before the second review's decision.
StatusIgnoringDecision(f) ==
  IF evidence[f] = NoResult THEN "unplanned"
  ELSE IF evidence[f].status = "refuted" THEN "not_reproduced" ELSE "inconclusive"

\* The section of a finding that is not published as reproduced.
StaticStatus(f) ==
  IF evidence[f] = NoResult THEN "unplanned"
  ELSE IF evidence[f].status = "confirmed" /\ evidence[f].reached THEN "verification_rejected"
  ELSE IF evidence[f].status = "refuted" THEN "not_reproduced"
  ELSE "inconclusive"

\* finalize_review
FinalReview ==
  LET reproduced == Confirmed \cap decision.accepted
  IN [reproduced |-> reproduced,
      static |-> [f \in Indices |-> IF f \in findings \ reproduced THEN StaticStatus(f) ELSE "none"]]

FinalizeReview ==
  /\ step = "finalize"
  /\ review' = FinalReview
  /\ step' = "comment"
  /\ UNCHANGED <<findings, cites, blocked, plan, pending, evidence, decision, shown, tries>>

(* Review.from_json of the comment command: condition, oracle and observed
   value of a reproduced finding are checked by _text, the detail of another
   finding (its observed value, when there is one) by _short_text. *)
Loads(f) ==
  /\ f \in review.reproduced => plan[f].fits /\ evidence[f].observed = "short"
  /\ review.static[f] \in {"not_reproduced", "inconclusive"} => evidence[f].observed # "blank"

LoadReview ==
  /\ step = "comment"
  /\ step' = IF \A f \in findings : Loads(f) THEN "published" ELSE "stopped"
  /\ UNCHANGED <<findings, cites, blocked, plan, pending, evidence, decision, review, shown, tries>>

(* A command fails (Codex, git, invalid JSON, another PR head) or the job is
   cancelled or times out: the later steps do not run. *)
Stop ==
  /\ step \notin {"published", "stopped"}
  /\ step' = "stopped"
  /\ UNCHANGED <<findings, cites, blocked, plan, pending, evidence, decision, review, shown, tries>>

Advance ==
  \/ PlanReproductions \/ (\E f \in Indices : Execute(f)) \/ Executed
  \/ NothingToRepair \/ NotRepaired \/ Repair \/ Verify \/ FinalizeReview \/ LoadReview

Next == Advance \/ Stop

Spec == Init /\ [][Next]_vars
(* Every process and every Codex call has a timeout, and the runner starts
   the next step of the job when one has ended. *)
FairSpec == Spec /\ WF_vars(Advance)

-----------------------------------------------------------------------------
Final == step \in {"comment", "published"}

(* A finding under "Reproduced problems" was shown by the very last execution
   of its case: the processes ended well, cited code ran, the database was
   found restored, and the difference was there; and the second review
   accepted it.  (README "Reproduced problems: reached the changed code,
   showed the difference, passed rollback and the second review".) *)
ReproducedWasShown ==
  Final => \A f \in review.reproduced :
    /\ shown[f].exited /\ shown[f].reached /\ shown[f].restored /\ shown[f].differs
    /\ f \in decision.accepted /\ f \notin decision.rejected

(* Every candidate finding is in exactly one section, and the section tells
   what happened to it: never executed; executed to the end without the
   difference; shown but rejected; or without a verdict.  (finalize_review.) *)
SectionsTellWhatHappened ==
  Final => \A f \in Indices :
    LET status == review.static[f]
    IN /\ f \in findings => (f \in review.reproduced) # (status # "none")
       /\ f \notin findings => f \notin review.reproduced /\ status = "none"
       /\ status = "unplanned" => tries[f] = 0
       /\ status = "not_reproduced" =>
            shown[f].exited /\ shown[f].reached /\ shown[f].restored /\ ~shown[f].differs
       /\ status = "verification_rejected" => f \in decision.rejected /\ shown[f].differs
       /\ status = "inconclusive" =>
            tries[f] > 0 /\ ~(shown[f].exited /\ shown[f].reached /\ shown[f].restored /\ shown[f].judged)

Conclusive(f) == evidence[f] # NoResult /\ evidence[f].status \in {"confirmed", "refuted"}

(* A verdict, once reached, stands: no later step changes it, and a case runs
   a second time only after an inconclusive first one, never a third time.
   (retry_inconclusive_reproductions.) *)
VerdictsStand ==
  [][\A f \in Indices :
       /\ Conclusive(f) => evidence'[f] = evidence[f] /\ tries'[f] = tries[f]
       /\ tries'[f] > 1 /\ tries'[f] # tries[f] => tries[f] = 1 /\ evidence[f].status = "inconclusive"]_vars

(* The job ends. *)
JobEnds == <>(step \in {"published", "stopped"})

(* README "Findings from static analysis are never dropped just because
   reproduction failed"; and the plan and review schemas allow texts of 1000
   characters: the review that finalize writes is one that comment can load. *)
FinalReviewLoads == step = "comment" => \A f \in findings : Loads(f)
=============================================================================

-------------------------- MODULE ReproductionProofs --------------------------
(***************************************************************************)
(* Proofs about Reproduction for any number of findings and whatever       *)
(* Codex and the executed code answer.                                     *)
(***************************************************************************)
EXTENDS Reproduction, TLAPS

Full(x) == x.exited /\ x.reached /\ x.restored /\ x.judged

(* A result agrees with what the last execution of the case showed. *)
ResultsAgree ==
  \A f \in Indices : evidence[f] # NoResult =>
    /\ evidence[f].status = "confirmed" => Full(shown[f]) /\ shown[f].differs
    /\ evidence[f].status = "refuted" => Full(shown[f]) /\ ~shown[f].differs
    /\ evidence[f].status = "inconclusive" => ~Full(shown[f])
    /\ evidence[f].status # "inconclusive" => evidence[f].cleanup /\ evidence[f].reached

(* Which cases are still to be run, and how often cases have run. *)
Bookkeeping ==
  /\ \A f \in Indices : evidence[f] = NoResult <=> tries[f] = 0
  /\ \A f \in Indices : evidence[f] # NoResult => f \in findings /\ plan[f] # NoCase
  /\ \A f \in pending : plan[f] # NoCase
  /\ step = "plan" => \A f \in Indices : tries[f] = 0
  /\ step \in {"reproduce", "repair"} => \A f \in Indices : tries[f] <= 1
  /\ step = "reproduce" => \A f \in pending : tries[f] = 0
  /\ step = "rerun" => \A f \in pending : tries[f] = 1 /\ evidence[f].status = "inconclusive"

Decided ==
  step \in {"finalize", "comment", "published"} =>
    ValidDecision(decision.accepted, decision.rejected)

Sectioned == Final => review = FinalReview

Inv == TypeOK /\ ResultsAgree /\ Bookkeeping /\ Decided /\ Sectioned

-----------------------------------------------------------------------------
(* An execution always becomes a well-formed result. *)
LEMMA ResultType ==
  ASSUME NEW case \in Case, NEW x \in Executions, NEW text \in Texts
  PROVE  ResultOf(case, x, text) \in Result
BY DEF ResultOf, Runs, AssertResult, DifferentialResult, Case, Result, Texts, Executions, Execution

(* The verdict of an execution is the one its facts call for. *)
LEMMA ResultAgrees ==
  ASSUME NEW case \in Case, NEW x \in Executions, NEW text \in Texts,
         NEW seen, seen = IF Runs(case) /\ x.exited THEN x ELSE NotRun,
         NEW r, r = ResultOf(case, x, text)
  PROVE  /\ r.status = "confirmed" => Full(seen) /\ seen.differs
         /\ r.status = "refuted" => Full(seen) /\ ~seen.differs
         /\ r.status = "inconclusive" => ~Full(seen)
         /\ r.status # "inconclusive" => r.cleanup /\ r.reached
<1>1. CASE ~Runs(case)
  BY <1>1 DEF ResultOf, NotRun, Full
<1>2. CASE Runs(case) /\ case.mode = "assert"
  <2>1. r = AssertResult(x, text) /\ seen = IF x.exited THEN x ELSE NotRun
    BY <1>2 DEF ResultOf
  <2> QED
    BY <2>1 DEF AssertResult, Full, Executions, Execution, NotRun
<1>3. CASE Runs(case) /\ case.mode # "assert"
  <2>1. r = DifferentialResult(x, text) /\ seen = IF x.exited THEN x ELSE NotRun
    BY <1>3 DEF ResultOf
  <2> QED
    BY <2>1 DEF DifferentialResult, Full, Executions, Execution, NotRun
<1> QED
  BY <1>1, <1>2, <1>3

(* Recording a result changes at most its text. *)
LEMMA RecordType ==
  ASSUME NEW old \in Result \cup {NoResult}, NEW new \in Result
  PROVE  /\ Record(old, new) \in Result
         /\ Record(old, new).status = new.status
         /\ Record(old, new).cleanup = new.cleanup /\ Record(old, new).reached = new.reached
BY DEF Record, Result, Texts

(* No result is mistaken for a missing one. *)
LEMMA NoResultIsNone == NoResult \notin Result
BY NoResultAssumption DEF Result, Texts

-----------------------------------------------------------------------------
(* The initial states satisfy the inductive invariant. *)
THEOREM InitInv == Init => Inv
<1> SUFFICES ASSUME Init PROVE Inv
  OBVIOUS
<1>1. PICK n \in 0 .. MaxFindings : findings = 0 .. n - 1
  BY DEF Init
<1>2. findings \subseteq Indices
  BY <1>1, FindingsAssumption DEF Indices
<1>3. TypeOK
  BY <1>2 DEF Init, TypeOK, NotRun, Execution
<1>4. ResultsAgree /\ Bookkeeping /\ Decided /\ Sectioned
  BY DEF Init, ResultsAgree, Bookkeeping, Decided, Sectioned, Final
<1> QED
  BY <1>3, <1>4 DEF Inv

(* Planning keeps the invariant. *)
LEMMA PlanStep == Inv /\ PlanReproductions => Inv'
<1> SUFFICES ASSUME Inv, PlanReproductions PROVE Inv'
  OBVIOUS
<1>1. TypeOK'
  BY DEF Inv, TypeOK, PlanReproductions
<1>2. ResultsAgree' /\ Decided' /\ Sectioned'
  BY DEF Inv, PlanReproductions, ResultsAgree, Decided, Sectioned, Final
<1>3. Bookkeeping'
  BY DEF Inv, TypeOK, PlanReproductions, Bookkeeping
<1> QED
  BY <1>1, <1>2, <1>3 DEF Inv

(* Executing a case keeps the invariant. *)
LEMMA ExecuteStep == ASSUME NEW f \in Indices PROVE Inv /\ Execute(f) => Inv'
<1> SUFFICES ASSUME Inv, Execute(f) PROVE Inv'
  OBVIOUS
<1>1. PICK x \in Executions, text \in Texts :
        /\ evidence' = [evidence EXCEPT ![f] = Record(evidence[f], ResultOf(plan[f], x, text))]
        /\ shown' = [shown EXCEPT ![f] = IF Runs(plan[f]) /\ x.exited THEN x ELSE NotRun]
  BY DEF Execute, TextsOf, Texts
<1> DEFINE r == ResultOf(plan[f], x, text)
<1>2. plan[f] \in Case /\ f \in findings /\ f \in pending
  BY DEF Inv, TypeOK, Bookkeeping, Execute
<1>3. r \in Result
  BY <1>2, ResultType
<1>4. /\ Record(evidence[f], r) \in Result /\ Record(evidence[f], r).status = r.status
      /\ Record(evidence[f], r).cleanup = r.cleanup /\ Record(evidence[f], r).reached = r.reached
  BY <1>3, RecordType DEF Inv, TypeOK
<1>5. /\ evidence' \in [Indices -> Result \cup {NoResult}]
      /\ evidence'[f] = Record(evidence[f], r) /\ evidence'[f] # NoResult
      /\ \A g \in Indices \ {f} : evidence'[g] = evidence[g] /\ shown'[g] = shown[g] /\ tries'[g] = tries[g]
      /\ shown'[f] = IF Runs(plan[f]) /\ x.exited THEN x ELSE NotRun
      /\ tries'[f] = tries[f] + 1
  BY <1>1, <1>4, NoResultIsNone DEF Inv, TypeOK, Execute
<1>6. tries[f] \in {0, 1}
  BY DEF Inv, TypeOK, Bookkeeping, Execute
<1>7. TypeOK'
  <2>1. shown' \in [Indices -> Execution]
    BY <1>1 DEF Inv, TypeOK, NotRun, Execution, Executions
  <2>2. tries' \in [Indices -> 0 .. 2]
    BY <1>6 DEF Inv, TypeOK, Execute
  <2> QED
    BY <1>5, <2>1, <2>2 DEF Inv, TypeOK, Execute
<1>8. ResultsAgree'
  <2> SUFFICES ASSUME NEW g \in Indices, evidence'[g] # NoResult
               PROVE  /\ evidence'[g].status = "confirmed" => Full(shown'[g]) /\ shown'[g].differs
                      /\ evidence'[g].status = "refuted" => Full(shown'[g]) /\ ~shown'[g].differs
                      /\ evidence'[g].status = "inconclusive" => ~Full(shown'[g])
                      /\ evidence'[g].status # "inconclusive" => evidence'[g].cleanup /\ evidence'[g].reached
    BY DEF ResultsAgree, Full
  <2>1. CASE g = f
    BY <2>1, <1>2, <1>4, <1>5, ResultAgrees
  <2>2. CASE g # f
    BY <2>2, <1>5 DEF Inv, ResultsAgree
  <2> QED
    BY <2>1, <2>2
<1>9. Bookkeeping'
  BY <1>2, <1>5, <1>6 DEF Inv, TypeOK, Bookkeeping, Execute
<1>10. Decided' /\ Sectioned'
  BY DEF Inv, Execute, Decided, Sectioned, Final
<1> QED
  BY <1>7, <1>8, <1>9, <1>10 DEF Inv

(* Steps between two commands: only `step` and the pending cases change. *)
LEMMA HandOver ==
  ASSUME Inv,
         UNCHANGED <<findings, cites, blocked, plan, evidence, decision, review, shown, tries>>,
         pending' = pending \/ pending' \subseteq Inconclusive,
         step' \in {"repair", "rerun", "verify", "stopped"},
         step' = "repair" => step = "reproduce",
         step' = "rerun" => step = "repair" /\ pending' \subseteq Inconclusive
  PROVE  Inv'
<1>1. TypeOK'
  BY DEF Inv, TypeOK, Inconclusive
<1>2. ResultsAgree' /\ Decided' /\ Sectioned'
  BY DEF Inv, ResultsAgree, Decided, Sectioned, Final, Full
<1>3. Bookkeeping'
  <2>1. step' = "rerun" => \A f \in pending' : tries[f] = 1 /\ evidence[f].status = "inconclusive"
    <3> SUFFICES ASSUME step' = "rerun", NEW f \in pending'
                 PROVE  tries[f] = 1 /\ evidence[f].status = "inconclusive"
      OBVIOUS
    <3>1. f \in Indices /\ evidence[f] # NoResult /\ evidence[f].status = "inconclusive"
      BY DEF Inconclusive, Inv, TypeOK
    <3> QED
      BY <3>1 DEF Inv, TypeOK, Bookkeeping
  <2>2. \A f \in pending' : plan[f] # NoCase
    BY DEF Inv, TypeOK, Bookkeeping, Inconclusive
  <2>3. step' = "repair" => \A f \in Indices : tries[f] <= 1
    BY DEF Inv, Bookkeeping
  <2> QED
    BY <2>1, <2>2, <2>3 DEF Inv, Bookkeeping
<1> QED
  BY <1>1, <1>2, <1>3 DEF Inv

(* Going on to the next command, or stopping, keeps the invariant. *)
LEMMA ExecutedStep == Inv /\ (Executed \/ NothingToRepair \/ Stop) => Inv'
BY HandOver DEF Executed, NextCommand, NothingToRepair, Stop

(* Starting the repair round keeps the invariant: only inconclusive cases run again. *)
LEMMA RepairStep == Inv /\ Repair => Inv'
<1> SUFFICES ASSUME Inv, Repair PROVE Inv'
  OBVIOUS
<1>1. pending' \subseteq Inconclusive
  BY DEF Repair, Repairable
<1> QED
  BY <1>1, HandOver DEF Repair

(* A failed repair changes texts only. *)
LEMMA NotRepairedStep == Inv /\ NotRepaired => Inv'
<1> SUFFICES ASSUME Inv, NotRepaired PROVE Inv'
  OBVIOUS
<1>1. evidence' = [f \in Indices |-> IF f \in Inconclusive THEN [evidence[f] EXCEPT !.observed = "short"]
                                    ELSE evidence[f]]
  BY DEF NotRepaired
<1>2. \A f \in Inconclusive : f \in Indices /\ evidence[f] \in Result
  BY DEF Inconclusive, Inv, TypeOK
<1>3. ASSUME NEW f \in Indices
      PROVE  /\ evidence'[f] \in Result \cup {NoResult}
             /\ evidence'[f] = NoResult <=> evidence[f] = NoResult
             /\ evidence[f] # NoResult =>
                  /\ evidence'[f].status = evidence[f].status
                  /\ evidence'[f].cleanup = evidence[f].cleanup
                  /\ evidence'[f].reached = evidence[f].reached
  <2>1. CASE f \in Inconclusive
    <3>1. /\ [evidence[f] EXCEPT !.observed = "short"] \in Result
          /\ [evidence[f] EXCEPT !.observed = "short"].status = evidence[f].status
          /\ [evidence[f] EXCEPT !.observed = "short"].cleanup = evidence[f].cleanup
          /\ [evidence[f] EXCEPT !.observed = "short"].reached = evidence[f].reached
      BY <1>2, <2>1 DEF Result, Texts
    <3> QED
      BY <1>1, <1>2, <2>1, <3>1, NoResultIsNone
  <2>2. CASE f \notin Inconclusive
    BY <1>1, <2>2 DEF Inv, TypeOK
  <2> QED
    BY <2>1, <2>2
<1>4. TypeOK'
  <2>1. evidence' \in [Indices -> Result \cup {NoResult}]
    BY <1>1, <1>3
  <2> QED
    BY <2>1 DEF Inv, TypeOK, NotRepaired
<1>5. ResultsAgree'
  BY <1>3 DEF Inv, ResultsAgree, NotRepaired, Full
<1>6. Bookkeeping'
  BY <1>3 DEF Inv, TypeOK, Bookkeeping, NotRepaired
<1>7. Decided' /\ Sectioned'
  BY DEF NotRepaired, Decided, Sectioned, Final
<1> QED
  BY <1>4, <1>5, <1>6, <1>7 DEF Inv

(* The second review keeps the invariant. *)
LEMMA VerifyStep == Inv /\ Verify => Inv'
<1> SUFFICES ASSUME Inv, Verify PROVE Inv'
  OBVIOUS
<1>1. PICK accepted, rejected \in Answers :
        IF ValidDecision(accepted, rejected)
        THEN decision' = [accepted |-> accepted, rejected |-> rejected] /\ step' = "finalize"
        ELSE decision' = decision /\ step' = "stopped"
  BY DEF Verify
<1>2. accepted \subseteq findings /\ rejected \subseteq findings /\ findings \subseteq Indices
  BY DEF Answers, Inv, TypeOK
<1>3. TypeOK'
  BY <1>1, <1>2 DEF Inv, TypeOK, Verify
<1>4. ResultsAgree' /\ Bookkeeping'
  BY <1>1 DEF Inv, ResultsAgree, Bookkeeping, Verify, Full
<1>5. Decided'
  BY <1>1 DEF Decided, ValidDecision, Confirmed, Verify
<1>6. Sectioned'
  BY <1>1 DEF Sectioned, Final
<1> QED
  BY <1>3, <1>4, <1>5, <1>6 DEF Inv

(* Splitting the findings into sections keeps the invariant. *)
LEMMA FinalizeStep == Inv /\ FinalizeReview => Inv'
<1> SUFFICES ASSUME Inv, FinalizeReview PROVE Inv'
  OBVIOUS
<1>1. FinalReview \in [reproduced : SUBSET Indices, static : [Indices -> Statuses \cup {"none"}]]
  <2>1. Confirmed \cap decision.accepted \subseteq Indices
    BY DEF Confirmed, Inv, TypeOK
  <2>2. \A f \in Indices : StaticStatus(f) \in Statuses
    BY DEF StaticStatus, Statuses
  <2> QED
    BY <2>1, <2>2 DEF FinalReview
<1>2. TypeOK'
  BY <1>1 DEF Inv, TypeOK, FinalizeReview
<1>3. ResultsAgree' /\ Bookkeeping' /\ Decided'
  BY DEF Inv, ResultsAgree, Bookkeeping, Decided, ValidDecision, Confirmed, FinalizeReview, Full
<1>4. Sectioned'
  BY DEF FinalizeReview, Sectioned, FinalReview, Confirmed, StaticStatus
<1> QED
  BY <1>2, <1>3, <1>4 DEF Inv

(* Loading the final review keeps the invariant. *)
LEMMA LoadStep == Inv /\ LoadReview => Inv'
<1> SUFFICES ASSUME Inv, LoadReview PROVE Inv'
  OBVIOUS
<1>1. step' \in {"published", "stopped"} /\ step = "comment"
  BY DEF LoadReview
<1>2. TypeOK' /\ ResultsAgree' /\ Bookkeeping'
  BY <1>1 DEF Inv, TypeOK, ResultsAgree, Bookkeeping, LoadReview, Full
<1>3. Decided' /\ Sectioned'
  BY <1>1 DEF Inv, Decided, ValidDecision, Confirmed, Sectioned, Final, FinalReview, StaticStatus, LoadReview
<1> QED
  BY <1>2, <1>3 DEF Inv

(* Every step preserves the inductive invariant. *)
THEOREM NextInv == Inv /\ [Next]_vars => Inv'
<1> SUFFICES ASSUME Inv, [Next]_vars PROVE Inv'
  OBVIOUS
<1>1. CASE UNCHANGED vars
  BY <1>1 DEF vars, Inv, TypeOK, ResultsAgree, Bookkeeping, Decided, ValidDecision, Confirmed,
              Sectioned, Final, FinalReview, StaticStatus, Full
<1>2. CASE Next
  BY <1>2, PlanStep, ExecuteStep, ExecutedStep, RepairStep, NotRepairedStep, VerifyStep,
     FinalizeStep, LoadStep DEF Next, Advance
<1> QED
  BY <1>1, <1>2

-----------------------------------------------------------------------------
(* What the sections call reproduced was shown and accepted. *)
LEMMA InvImpliesShown == Inv => ReproducedWasShown
<1> SUFFICES ASSUME Inv, Final, NEW f \in review.reproduced
             PROVE  /\ shown[f].exited /\ shown[f].reached /\ shown[f].restored /\ shown[f].differs
                    /\ f \in decision.accepted /\ f \notin decision.rejected
  BY DEF ReproducedWasShown
<1>1. f \in Confirmed /\ f \in decision.accepted
  BY DEF Inv, Sectioned, FinalReview
<1>2. f \in Indices /\ evidence[f] # NoResult /\ evidence[f].status = "confirmed"
  BY <1>1 DEF Confirmed, Inv, TypeOK
<1>3. f \notin decision.rejected
  BY <1>1 DEF Inv, Decided, Final, ValidDecision
<1> QED
  BY <1>1, <1>2, <1>3 DEF Inv, ResultsAgree, Full

(* The section of a finding is the one its last execution calls for. *)
LEMMA InvImpliesSections == Inv => SectionsTellWhatHappened
<1> SUFFICES ASSUME Inv, Final, NEW f \in Indices
             PROVE  LET status == review.static[f]
                    IN /\ f \in findings => (f \in review.reproduced) # (status # "none")
                       /\ f \notin findings => f \notin review.reproduced /\ status = "none"
                       /\ status = "unplanned" => tries[f] = 0
                       /\ status = "not_reproduced" =>
                            shown[f].exited /\ shown[f].reached /\ shown[f].restored /\ ~shown[f].differs
                       /\ status = "verification_rejected" => f \in decision.rejected /\ shown[f].differs
                       /\ status = "inconclusive" =>
                            tries[f] > 0 /\ ~(shown[f].exited /\ shown[f].reached /\ shown[f].restored /\ shown[f].judged)
  BY DEF SectionsTellWhatHappened
<1> DEFINE reproduced == Confirmed \cap decision.accepted
<1>1. /\ review.reproduced = reproduced
      /\ review.static[f] = IF f \in findings \ reproduced THEN StaticStatus(f) ELSE "none"
  BY DEF Inv, Sectioned, FinalReview
<1>2. reproduced \subseteq findings
  BY DEF Confirmed
<1>3. evidence[f] \in Result \cup {NoResult}
  BY DEF Inv, TypeOK
<1>4. ValidDecision(decision.accepted, decision.rejected)
  BY DEF Inv, Decided, Final
<1>5. CASE f \notin findings \/ f \in reproduced
  BY <1>1, <1>2, <1>5
<1>6. CASE f \in findings \ reproduced /\ evidence[f] = NoResult
  BY <1>1, <1>6 DEF StaticStatus, Inv, Bookkeeping
<1>7. CASE f \in findings \ reproduced /\ evidence[f] # NoResult
  <2>1. evidence[f] \in Result /\ tries[f] > 0
    BY <1>3, <1>7 DEF Inv, TypeOK, Bookkeeping
  <2>2. CASE evidence[f].status = "confirmed"
    <3>1. f \in Confirmed /\ f \in decision.rejected
      BY <1>4, <1>7, <2>2 DEF Confirmed, ValidDecision, Inv, ResultsAgree
    <3>2. review.static[f] = "verification_rejected"
      BY <1>1, <1>7, <2>2, <3>1 DEF StaticStatus, Confirmed
    <3> QED
      BY <1>1, <1>7, <2>2, <3>1, <3>2 DEF Inv, ResultsAgree
  <2>3. CASE evidence[f].status = "refuted"
    <3>1. review.static[f] = "not_reproduced"
      BY <1>1, <1>7, <2>3 DEF StaticStatus
    <3> QED
      BY <1>1, <1>7, <2>3, <3>1 DEF Inv, ResultsAgree, Full
  <2>4. CASE evidence[f].status = "inconclusive"
    <3>1. review.static[f] = "inconclusive"
      BY <1>1, <1>7, <2>4 DEF StaticStatus
    <3> QED
      BY <1>1, <1>7, <2>1, <2>4, <3>1 DEF Inv, ResultsAgree, Full
  <2> QED
    BY <2>1, <2>2, <2>3, <2>4 DEF Result
<1> QED
  BY <1>5, <1>6, <1>7

(* A step never touches a case that has its verdict. *)
LEMMA StepKeepsVerdicts ==
  ASSUME Inv, [Next]_vars, NEW f \in Indices
  PROVE  /\ Conclusive(f) => evidence'[f] = evidence[f] /\ tries'[f] = tries[f]
         /\ tries'[f] > 1 /\ tries'[f] # tries[f] => tries[f] = 1 /\ evidence[f].status = "inconclusive"
<1>1. CASE UNCHANGED <<evidence, tries>>
  BY <1>1 DEF Inv, TypeOK
<1>2. CASE NotRepaired
  <2>1. tries' = tries
    BY <1>2 DEF NotRepaired
  <2>2. Conclusive(f) => f \notin Inconclusive
    BY DEF Conclusive, Inconclusive
  <2> QED
    BY <1>2, <2>1, <2>2 DEF NotRepaired
<1>3. ASSUME NEW g \in Indices, Execute(g)
      PROVE  /\ Conclusive(f) => evidence'[f] = evidence[f] /\ tries'[f] = tries[f]
             /\ tries'[f] > 1 /\ tries'[f] # tries[f] => tries[f] = 1 /\ evidence[f].status = "inconclusive"
  <2>1. f # g => evidence'[f] = evidence[f] /\ tries'[f] = tries[f]
    BY <1>3 DEF Execute, Inv, TypeOK
  <2>2. g \in pending /\ (step = "reproduce" \/ step = "rerun") /\ tries'[g] = tries[g] + 1
    BY <1>3 DEF Execute, Inv, TypeOK
  <2>3. CASE step = "reproduce"
    <3>1. tries[g] = 0 /\ evidence[g] = NoResult
      BY <2>2, <2>3 DEF Inv, Bookkeeping
    <3> QED
      BY <2>1, <2>2, <3>1 DEF Conclusive
  <2>4. CASE step = "rerun"
    <3>1. tries[g] = 1 /\ evidence[g].status = "inconclusive"
      BY <2>2, <2>4 DEF Inv, Bookkeeping
    <3> QED
      BY <2>1, <2>2, <3>1 DEF Conclusive
  <2> QED
    BY <2>2, <2>3, <2>4
<1> QED
  BY <1>1, <1>2, <1>3
     DEF Next, Advance, vars, PlanReproductions, Executed, NothingToRepair, Repair, Verify,
         FinalizeReview, LoadReview, Stop

(* Type correctness, for any number of findings. *)
THEOREM TypeCorrect == Spec => []TypeOK
<1>1. Inv => TypeOK
  BY DEF Inv
<1> QED
  BY InitInv, NextInv, <1>1, PTL DEF Spec

(* What is published as reproduced was shown by the last execution of its
   case and accepted by the second review. *)
THEOREM ReproducedCorrect == Spec => []ReproducedWasShown
BY InitInv, NextInv, InvImpliesShown, PTL DEF Spec

(* Every finding is in one section, which tells what happened to it. *)
THEOREM SectionsCorrect == Spec => []SectionsTellWhatHappened
BY InitInv, NextInv, InvImpliesSections, PTL DEF Spec

(* Verdicts stand. *)
THEOREM VerdictsCorrect == Spec => VerdictsStand
<1>1. Inv /\ [Next]_vars =>
        [\A f \in Indices :
          /\ Conclusive(f) => evidence'[f] = evidence[f] /\ tries'[f] = tries[f]
          /\ tries'[f] > 1 /\ tries'[f] # tries[f] => tries[f] = 1 /\ evidence[f].status = "inconclusive"]_vars
  BY StepKeepsVerdicts
<1> QED
  BY InitInv, NextInv, <1>1, PTL DEF Spec, VerdictsStand
=============================================================================

-------------------------- MODULE StaticComparison --------------------------
(***************************************************************************)
(* What the comparison with the static graph promises, without the         *)
(* conversation: every question is answered by what the graph holds for    *)
(* that very question, or by an empty set when GitNexus does not know the  *)
(* symbol, and either all questions are answered or the comparison is      *)
(* given up as a whole.                                                    *)
(***************************************************************************)
VARIABLES
  truth,     \* question -> what the graph holds
  answers,   \* question -> what was answered
  verdict    \* "open", "compared", "unavailable"

cvars == <<truth, answers, verdict>>

Init ==
  /\ answers = [q \in {} |-> {}]
  /\ verdict = "open"

Learn(q) ==
  /\ verdict = "open"
  /\ \E reply \in {truth[q], {}} :
       answers' = [k \in DOMAIN answers \cup {q} |-> IF k = q THEN reply ELSE answers[k]]
  /\ UNCHANGED <<truth, verdict>>

Compare ==
  /\ verdict = "open" /\ DOMAIN answers = DOMAIN truth
  /\ verdict' = "compared"
  /\ UNCHANGED <<truth, answers>>

GiveUp ==
  /\ verdict = "open"
  /\ verdict' = "unavailable"
  /\ UNCHANGED <<truth, answers>>

Next == (\E q \in DOMAIN truth : Learn(q)) \/ Compare \/ GiveUp

Spec == Init /\ [][Next]_cvars
=============================================================================

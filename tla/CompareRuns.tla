----------------------------- MODULE CompareRuns -----------------------------
(***************************************************************************)
(* differential.compare_runs: the fixed comparison that turns two captured *)
(* runs of a scenario on the merge base and two on the PR head into a      *)
(* verdict.  Nothing here has state.                                       *)
(***************************************************************************)
EXTENDS OutcomeFacts

CONSTANTS MissingErrors   \* ImportError, ModuleNotFoundError

ASSUME MissingErrorsAssumption == MissingErrors \subseteq Errors

\* The fact at a place, if there is one.
At(facts, p) == IF p \in DOMAIN facts THEN {facts[p]} ELSE {}

(* _noisy_keys over the two runs of one side. *)
NoisyPlaces(runs) ==
  LET first == OutcomeFacts(runs[1])
      other == OutcomeFacts(runs[2])
  IN {p \in DOMAIN first \cup DOMAIN other : At(first, p) # At(other, p)}

\* Mutant: only the base runs are compared with each other.
NoisyOnBase(bases, heads) == NoisyPlaces(bases)

Noisy(bases, heads) == NoisyPlaces(bases) \cup NoisyPlaces(heads)

(* _side: a table only the other side wrote counts as zero created rows. *)
Side(facts, p) == IF p.kind = "count" /\ p \notin DOMAIN facts THEN {0} ELSE At(facts, p)

(* A row created on one side only is described by its count alone.  Both
   sides have the same fields (differential_blocker), hence the same places
   of a row they both have. *)
OneSidedRow(base, head, p) == p.kind = "created" /\ (p \in DOMAIN base) # (p \in DOMAIN head)

\* Mutant: a place one side did not write is not compared.
DifferencesInBoth(bases, heads) ==
  LET base == OutcomeFacts(bases[1])
      head == OutcomeFacts(heads[1])
  IN {p \in (DOMAIN base \cap DOMAIN head) \ Noisy(bases, heads) : base[p] # head[p]}

Differences(bases, heads) ==
  LET base == OutcomeFacts(bases[1])
      head == OutcomeFacts(heads[1])
  IN {p \in (DOMAIN base \cup DOMAIN head) \ Noisy(bases, heads) :
        ~OneSidedRow(base, head, p) /\ Side(base, p) # Side(head, p)}

(* _matches: a prediction names the result, the exception, a model (of any
   app that has one of that name) or one of its fields; where the place has
   no field, as a count and a deleted row, the model decides. *)
Prediction == [kind : {"result", "exception", "model"}, tables : SUBSET Tables, field : Fields \cup {NoField}]

Matches(p, prediction) ==
  IF prediction.kind # "model" THEN p.kind = prediction.kind
  ELSE /\ p.table \in prediction.tables
       /\ prediction.field = NoField \/ p.field \in {NoField, prediction.field}

Predicted(p, predictions) == \E prediction \in predictions : Matches(p, prediction)

(* compare_runs: the verdict, given the predictions of the plan. *)
CompareRunsOf(bases, heads, predictions) ==
  IF \E i \in 1 .. 2 : bases[i].error \in MissingErrors THEN "inconclusive"
  ELSE IF \E p \in Differences(bases, heads) : Predicted(p, predictions) THEN "confirmed"
  ELSE "refuted"
=============================================================================

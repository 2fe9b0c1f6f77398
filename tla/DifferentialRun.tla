--------------------------- MODULE DifferentialRun ---------------------------
(***************************************************************************)
(* One differential reproduction: the script of a finding runs twice on    *)
(* the PR head, then twice on the merge base, each time in a process of    *)
(* its own against the configured test database, and compare_runs decides. *)
(*                                                                         *)
(* What a scenario does is a function of the checkout and of the world it  *)
(* runs in: the rows of the shared test database, the date.  That world is *)
(* not under the control of the runner and may move between two runs.      *)
(***************************************************************************)
EXTENDS CompareRuns, ScriptEffects

CONSTANTS
  Worlds,       \* states of the test database and the clock
  Database,     \* the tables in each world
  Supplies,     \* how the database may hand out keys, see Supply
  Scenarios,    \* records: what the script does on head and on base, by world
  Predictions,  \* sets of predictions a plan may make
  MaxMoves      \* bound: times the world moves during the reproduction

Runs == 1 .. 4   \* head, head, base, base

(* keys[n][w][t][i] is the key of the ith row that the nth run creates in
   table t, in world w.  They grow with the rows in the tables of `ordered`
   (not those with random keys), and come again in the tables of `reused`
   after a rollback (SQLite); a sequence never gives a key twice. *)
Supply == [keys : [Runs -> [Worlds -> [Tables -> [1 .. MaxNew -> Nat]]]],
           ordered : SUBSET Tables, reused : SUBSET Tables]

SupplyIsSound(s) ==
  \A n \in Runs, w \in Worlds :
    /\ AreFresh(s.keys[n][w])
    /\ \A t \in s.ordered, i, j \in 1 .. MaxNew : i < j => s.keys[n][w][t][i] < s.keys[n][w][t][j]
    /\ \A t \in s.reused, m \in Runs : s.keys[m][w][t] = s.keys[n][w][t]
    /\ \A t \in Tables \ s.reused, m \in Runs \ {n}, v \in Worlds :
         \A i, j \in 1 .. MaxNew : s.keys[m][v][t][j] # s.keys[n][w][t][i]

ASSUME WorldsAssumption == Worlds # {} /\ \A w \in Worlds : IsDatabase(Database[w])
ASSUME SuppliesAssumption == \A s \in Supplies : s \in Supply /\ SupplyIsSound(s)
ASSUME ScenariosAssumption ==
  \A s \in Scenarios, w \in Worlds :
    IsEffect(s.head[w], Database[w]) /\ IsEffect(s.base[w], Database[w])
ASSUME PredictionsAssumption == \A plan \in Predictions : plan \subseteq Prediction
ASSUME MovesAssumption == MaxMoves \in Nat

VARIABLES
  scenario, predicted,  \* the case, fixed by the plan; never change
  supply,               \* how keys are handed out; never changes
  blocked,              \* differential_blocker found a reason; never changes
  world,
  moves,
  heads, bases,         \* payloads of the finished runs
  verdict,              \* "none" until the comparator or a failure decides
  movedBetween          \* history: the world moved after head-1, before base-0

given == <<scenario, predicted, supply, blocked>>
vars == <<given, world, moves, heads, bases, verdict, movedBetween>>

(* `world` in a payload is a history field. *)
Outcome == {Capture(side[w], Database[w], s.keys[n][w], n) :
              side \in {x.head : x \in Scenarios} \cup {x.base : x \in Scenarios},
              w \in Worlds, s \in Supplies, n \in Runs}
Payload == [status : {"captured", "inconclusive"}, cleanup : BOOLEAN, outcome : Outcome, world : Worlds]

(* What the nth run captures: of the script `side` in a world. *)
Captures(side, n, w) == Capture(side[w], Database[w], supply.keys[n][w], n)

(* Type invariant: each side runs at most twice, and a run is a payload. *)
TypeOK ==
  /\ scenario \in Scenarios /\ predicted \in Predictions /\ blocked \in BOOLEAN /\ supply \in Supplies
  /\ world \in Worlds /\ moves \in 0 .. MaxMoves
  /\ heads \in Seq(Payload) /\ Len(heads) \in 0 .. 2
  /\ bases \in Seq(Payload) /\ Len(bases) \in 0 .. 2
  /\ verdict \in {"none", "confirmed", "refuted", "inconclusive"}
  /\ movedBetween \in BOOLEAN

Captured(runs) == \A i \in 1 .. Len(runs) : runs[i].status = "captured"
RolledBack(runs) == \A i \in 1 .. Len(runs) : runs[i].cleanup
Outcomes(runs) == [i \in 1 .. 2 |-> runs[i].outcome]

-----------------------------------------------------------------------------
Init ==
  /\ scenario \in Scenarios /\ predicted \in Predictions /\ blocked \in BOOLEAN /\ supply \in Supplies
  /\ world \in Worlds /\ moves = 0
  /\ heads = <<>> /\ bases = <<>> /\ verdict = "none" /\ movedBetween = FALSE

(* Somebody else commits to the test database, or the day changes. *)
Move ==
  /\ verdict = "none" /\ ~blocked /\ moves < MaxMoves
  /\ \E w \in Worlds \ {world} : world' = w
  /\ moves' = moves + 1
  /\ movedBetween' = (movedBetween \/ (Len(heads) = 2 /\ Len(bases) = 0))
  /\ UNCHANGED <<given, heads, bases, verdict>>

(* _execute_case: the runner captures the scenario and rolls it back, with
   or without every written table found restored; or it dies, times out, or
   (head only) never reaches the cited lines, and only says so. *)
RunnerPayload(outcome) ==
  [status : {"captured"}, cleanup : BOOLEAN, outcome : {outcome}, world : {world}]
  \cup [status : {"inconclusive"}, cleanup : {FALSE}, outcome : {outcome}, world : {world}]

\* No base checkout: the case is not run at all.
Unavailable ==
  /\ verdict = "none" /\ blocked
  /\ verdict' = "inconclusive"
  /\ UNCHANGED <<given, world, moves, heads, bases, movedBetween>>

\* Mutant: one run too many.
RunHeadOnceMore ==
  /\ verdict = "none" /\ ~blocked /\ Len(heads) < 3
  /\ \E payload \in RunnerPayload(Captures(scenario.head, Len(heads) + 1, world)) : heads' = Append(heads, payload)
  /\ UNCHANGED <<given, world, moves, bases, verdict, movedBetween>>

\* Both head runs are made, whatever the first one returned.
RunHead ==
  /\ verdict = "none" /\ ~blocked /\ Len(heads) < 2
  /\ \E payload \in RunnerPayload(Captures(scenario.head, Len(heads) + 1, world)) : heads' = Append(heads, payload)
  /\ UNCHANGED <<given, world, moves, bases, verdict, movedBetween>>

\* Mutant: only two failed runs are a failure.
BothHeadsFailed ==
  /\ verdict = "none" /\ Len(heads) = 2 /\ bases = <<>>
  /\ \A i \in 1 .. 2 : heads[i].status # "captured"
  /\ verdict' = "inconclusive"
  /\ UNCHANGED <<given, world, moves, heads, bases, movedBetween>>

\* One failed head run is enough, and base is not run.
HeadFailed ==
  /\ verdict = "none" /\ Len(heads) = 2 /\ bases = <<>> /\ ~Captured(heads)
  /\ verdict' = "inconclusive"
  /\ UNCHANGED <<given, world, moves, heads, bases, movedBetween>>

\* The two base runs, on a worktree of the merge base.
RunBase ==
  /\ verdict = "none" /\ Len(heads) = 2 /\ Captured(heads) /\ Len(bases) < 2
  /\ \E payload \in RunnerPayload(Captures(scenario.base, Len(bases) + 3, world)) : bases' = Append(bases, payload)
  /\ UNCHANGED <<given, world, moves, heads, verdict, movedBetween>>

\* Mutant: the comparison ignores whether the written tables were restored.
VerdictUnrestored ==
  IF Captured(bases) THEN CompareRunsOf(Outcomes(bases), Outcomes(heads), predicted)
  ELSE "inconclusive"

(* _differential_result after the fourth run. *)
Verdict ==
  IF Captured(bases) /\ RolledBack(heads) /\ RolledBack(bases)
  THEN CompareRunsOf(Outcomes(bases), Outcomes(heads), predicted)
  ELSE "inconclusive"

Decide ==
  /\ verdict = "none" /\ Len(bases) = 2
  /\ verdict' = Verdict
  /\ UNCHANGED <<given, world, moves, heads, bases, movedBetween>>

Next == Move \/ Unavailable \/ RunHead \/ HeadFailed \/ RunBase \/ Decide
Spec == Init /\ [][Next]_vars
(* Every run has a timeout and the job runs the steps one after another. *)
FairSpec == Spec /\ WF_vars(Unavailable \/ RunHead \/ HeadFailed \/ RunBase \/ Decide)

-----------------------------------------------------------------------------
(* What the script does on a side in a world, told without keys. *)
Does(side, w) == ScriptFacts(side[w], Database[w])

(* The PR changes what the script does at a predicted place, in one and the
   same world. *)
CausedByChange ==
  \E w \in Worlds :
    LET head == Does(scenario.head, w)
        base == Does(scenario.base, w)
    IN \E p \in DOMAIN head \cup DOMAIN base : Predicted(p, predicted) /\ At(head, p) # At(base, p)

(* No table with random keys gets two new rows. *)
RowsAreInOrder ==
  \A side \in {scenario.head, scenario.base}, w \in Worlds :
    \A t \in DOMAIN side[w].writes \ supply.ordered : Len(Done(side[w], t).new) <= 1

(* `confirmed` blames the pull request only for what it changed: when the
   world did not move between the head runs and the base runs, and no table
   with random keys got two new rows (see SameBehaviourIsNotConfirmed), the
   script really behaves differently on head at a predicted place.  A move
   within either pair of runs is absorbed by the noise filter, and so are keys
   that get into other values.  (outcome_facts, _noisy_keys, compare_runs, the
   order of the runs in _differential_result.) *)
ConfirmedIsCausedByChange ==
  verdict = "confirmed" /\ ~movedBetween /\ RowsAreInOrder => CausedByChange

(* Each side always shows one value at the place, no key of a new row, and
   the two differ. *)
ShowsAlways(p) ==
  /\ \A side \in {scenario.head, scenario.base}, v, w \in Worlds :
       /\ At(Does(side, v), p) = At(Does(side, w), p)
       /\ p \in DOMAIN Does(side, w) => ~ShowsKey(p, Does(side, w)[p])
  /\ \A w \in Worlds : Side(Does(scenario.head, w), p) # Side(Does(scenario.base, w), p)

IsOneSided(p) == \E w \in Worlds : OneSidedRow(Does(scenario.base, w), Does(scenario.head, w), p)

Shows(w) == DOMAIN Does(scenario.head, w) \cup DOMAIN Does(scenario.base, w)

(* A regression every run shows where the plan predicted it.  A row created
   on one side only changes the number of rows created. *)
PlainRegression ==
  \E w \in Worlds : \E p \in Shows(w) :
    Predicted(p, predicted) /\ ShowsAlways(p) /\ (IsOneSided(p) => ShowsAlways(Count(p.table)))

(* If no table with random keys gets two new rows (see PlainRegressionIsSeen),
   `refuted` never hides a difference that every run would show where the
   plan predicted it, however the world moves: neither the noise filter, nor
   the rule that folds one-sided rows into their count, nor the zero count of
   an unwritten table, nor keys that come in order drop it.  (compare_runs,
   _side, outcome_facts.) *)
PlainRegressionIsNotRefuted == verdict = "refuted" /\ RowsAreInOrder => ~PlainRegression

(* If no table with random keys gets two new rows (in swapped order they are
   noise), two runs of one script in one world differ at most where the script
   lets the key of a row it has created be seen outside a foreign key: a
   sequence that does not roll back, and the clock, make no noise of their own.
   (outcome_facts: the keys of new rows, foreign keys and auto_now.) *)
KeysAreNoNoise ==
  RowsAreInOrder =>
    \A side \in {"head", "base"} :
      LET runs == IF side = "head" THEN heads ELSE bases
          facts == Does(scenario[side], runs[1].world)
      IN Len(runs) = 2 /\ runs[1].world = runs[2].world =>
           \A p \in NoisyPlaces(Outcomes(runs)) : p \in DOMAIN facts /\ ShowsKey(p, facts[p])

(* README.md, "base and head DB changes, return values, and exceptions are
   identical" is `refuted`; README.md, "creation-order placeholders". *)
SameBehaviourIsNotConfirmed == verdict = "confirmed" /\ ~movedBetween => CausedByChange

(* README.md, "differences only elsewhere" is `refuted`, and "a difference
   where the finding predicted" is not; README.md, "creation-order
   placeholders": a regression that every run shows, told in the order of
   creation, is seen.  It does not hold, since outcome_facts numbers new rows
   by their keys. *)
PlainRegressionIsSeen == verdict = "refuted" => ~PlainRegression

(* A verdict about the finding rests on four runs that were all rolled back
   with the written tables found restored.  (cleanup in _differential_result.) *)
VerdictIsRolledBack ==
  verdict \in {"confirmed", "refuted"} =>
    /\ Len(heads) = 2 /\ Captured(heads) /\ RolledBack(heads)
    /\ Len(bases) = 2 /\ Captured(bases) /\ RolledBack(bases)

(* Every case comes to a verdict. *)
CaseIsDecided == <>(verdict # "none")
=============================================================================

---------------------------- MODULE TestSelection ----------------------------
(***************************************************************************)
(* The tests of a review: the base branch records a test map (the record   *)
(* section of _trace_plugin.py in one or more pytest processes, merged by  *)
(* selection.py), test-select compares its commit with a pull request's    *)
(* head, the evidence command runs the kept tests in parallel shards, and  *)
(* the comment reports the result.                                         *)
(*                                                                         *)
(* A process runs code in waves: everything the last wave called runs in   *)
(* the next one.  A module is run once per process, when it is imported.   *)
(***************************************************************************)
EXTENDS ChangeSelection, TestShards

CONSTANTS
  Base,          \* the commit of the map
  Heads,         \* commits a pull request may have as head, by name
  AutoLoaded,    \* files every test loads: conftest.py, installed apps
  Fixtures,      \* fixtures of class, module or session scope
  Closure,       \* the fixture closure of each test
  Requests,      \* fixtures a test asks for while it runs (getfixturevalue)
  Threads,       \* functions that run in a thread of their own
  MayFail,       \* tests that may fail while the map is recorded
  Durations,     \* the durations a recording may measure
  NoTest, NoFixture, NoHead, NoMap, NoSelection, NoReport

PresentTests(c) == {t \in Tests : c[t] # Absent}
TestModulesOf(c) == {FileOf[t] : t \in PresentTests(c)}

\* What pytest loads before it runs a test.
Collection(c) == AutoLoaded \cup TestModulesOf(c)

ASSUME CommitsAssumption == Base \in Commit /\ \A h \in DOMAIN Heads : Heads[h] \in Commit

ASSUME RecordingAssumption ==
  /\ IsFiniteSet(Tests) /\ AutoLoaded \subseteq PythonFiles
  /\ Fixtures \subseteq Definitions /\ Closure \in [Tests -> SUBSET Fixtures]
  /\ Requests \in [Tests -> SUBSET Fixtures] /\ Threads \subseteq Definitions \ (Tests \cup Fixtures)
  /\ Roots = [t \in Tests |-> {t, FileOf[t]} \cup AutoLoaded \cup Closure[t] \cup Requests[t]]
  /\ Durations \subseteq [Tests -> Nat] /\ UnitOf \in [Tests -> Nat]

(* A receiver of a signal is loaded before the signal is sent. *)
ASSUME ReceiversAssumption == \A d \in Definitions : Base[d].on # {} => FileOf[d] \in Collection(Base)

ASSUME NobodyAssumption == NoTest \notin Tests /\ NoFixture \notin Fixtures

VARIABLES
  recorder,    \* the recording processes
  testMap,     \* the merged map, saved by the base branch's workflow
  durations,   \* its durations
  head,        \* head of the pull request
  selection,   \* the file test-select writes
  shards,      \* the pytest processes of the evidence run
  evidence,    \* the combined pytest check
  report       \* the test line of the comment

vars == <<recorder, testMap, durations, head, selection, shards, evidence, report>>
Review == <<head, selection, shards, evidence, report>>

NoDurations == [t \in {} |-> 0]

------------------------------------------------------------------------------
(* Recording (Tracer and the pytest hooks) *)

NewRecorder ==
  [stage |-> "collect", mine |-> {}, loaded |-> {}, pending |-> Collection(Base), ran |-> {},
   current |-> NoTest, fixture |-> NoFixture, ready |-> {}, broken |-> {}, threads |-> {},
   executed |-> [t \in Tests |-> {}], fixtureCode |-> [x \in Fixtures |-> {}],
   outside |-> {}, outcome |-> [t \in Tests |-> "none"], unseen |-> [t \in Tests |-> {}]]

\* No selection: every process takes its part of all tests.
RecordedBy(p) ==
  LET placement == AssignShards(Estimates(PresentTests(Base), NoDurations))
  IN {t \in PresentTests(Base) : placement[t] = p}

Described(wave) == {SymbolOf[d] : d \in {n \in wave \cap Definitions : Base[n] # Absent}}

(* Tracer.cover: first for the fixture that is being set up, then for the
   test, whichever thread calls. *)
CoverFixture(r, called) ==
  IF r.fixture = NoFixture THEN r ELSE [r EXCEPT !.fixtureCode[r.fixture] = @ \cup called]
CoverTest(r, called) ==
  IF r.current = NoTest THEN [r EXCEPT !.outside = @ \cup called]
  ELSE [r EXCEPT !.executed[r.current] = @ \cup called]

\* Mutant: fixture code counts only for the test during which it ran.
CoverCurrent(r, called) == CoverTest(r, called)

Cover(r, called) == CoverTest(CoverFixture(r, called), called)

(* A thread belongs to the test and the fixture that started it. *)
Started(test, fixture, calls) ==
  IF calls \cap Threads = {} THEN {}
  ELSE {[test |-> test, fixture |-> fixture, runs |-> calls \cap Threads,
         todo |-> calls \cap Threads, ran |-> {}, calling |-> {}]}
ThreadsOf(r, test) == {th \in r.threads : th.test = test}

(* History: threads that go on, and fixtures set up before, whose code some
   tests are not seen to run. *)
Miss(r, tests, definitions) ==
  [r EXCEPT !.unseen = [t \in Tests |-> IF t \in tests THEN @[t] \cup definitions ELSE @[t]]]
Leave(r, tests, threads) == Miss(r, tests, UNION {th.runs : th \in threads})

Moves(p, r) == recorder' = [recorder EXCEPT ![p] = r] /\ UNCHANGED <<testMap, durations, Review>>

(* sys.setprofile: the calls of one wave are described and covered; module
   bodies are not. *)
Profile(p) ==
  /\ recorder[p].stage \notin {"written", "crashed"} /\ recorder[p].pending # {}
  /\ \E wave \in {recorder[p].pending} :
       \E loaded \in {recorder[p].loaded \cup (wave \cap Files)}, ran \in {recorder[p].ran \cup wave} :
         \E calls \in {(Uses(Base, wave) \cup Receivers(Base, wave, loaded)) \ (ran \cup loaded)} :
           Moves(p, [Cover(recorder[p], Described(wave)) EXCEPT
                       !.loaded = loaded, !.ran = ran, !.pending = calls \ Threads,
                       !.threads = @ \cup Started(recorder[p].current, recorder[p].fixture, calls)])

(* threading.setprofile: a thread calls the same cover while the main thread
   goes on, which may start and finish tests and fixtures between the two
   halves of it.  That a symbol gets its number in one step is assumed. *)
ThreadCalls(p) ==
  /\ recorder[p].stage \notin {"written", "crashed"}
  /\ \E th \in recorder[p].threads :
       /\ th.calling = {}
       /\ \E n \in th.todo :
            Moves(p, [CoverFixture(recorder[p], Described({n})) EXCEPT
                        !.threads = (@ \ {th}) \cup {[th EXCEPT !.todo = @ \ {n}, !.ran = @ \cup {n},
                                                                !.calling = {n}]}])

ThreadCovers(p) ==
  /\ recorder[p].stage \notin {"written", "crashed"}
  /\ \E th \in recorder[p].threads :
       /\ th.calling # {}
       /\ \E loaded \in {recorder[p].loaded \cup (th.calling \cap Files)} :
            \E todo \in {th.todo \cup ((Uses(Base, th.calling) \cup Receivers(Base, th.calling, loaded))
                                         \ (th.ran \cup loaded))} :
              Moves(p, [CoverTest(recorder[p], Described(th.calling)) EXCEPT
                          !.loaded = loaded,
                          !.threads = (@ \ {th}) \cup
                             (IF todo = {} THEN {} ELSE {[th EXCEPT !.todo = todo, !.calling = {}]})])

Idle(p, stage) == recorder[p].stage = stage /\ recorder[p].pending = {}

\* pytest_collection_modifyitems
Collected(p) ==
  Idle(p, "collect") /\ Moves(p, [recorder[p] EXCEPT !.stage = "idle", !.mine = RecordedBy(p)])

\* pytest_runtest_logstart, pytest_runtest_setup
StartTest(p, t) ==
  /\ Idle(p, "idle") /\ t \in recorder[p].mine /\ recorder[p].outcome[t] = "none"
  /\ Moves(p, [Leave(recorder[p], Tests, ThreadsOf(recorder[p], NoTest)) EXCEPT
                 !.stage = "setup", !.current = t, !.ran = {}])

(* pytest_fixture_setup, before and after the fixture function: the fixtures
   of the closure before the test is called, the others when it asks. *)
SetUpFixture(p, x) ==
  /\ recorder[p].fixture = NoFixture
  /\ \/ Idle(p, "setup") /\ x \in Closure[recorder[p].current]
     \/ Idle(p, "call") /\ x \in Requests[recorder[p].current]
  /\ x \notin recorder[p].ready \cup recorder[p].broken
  /\ Moves(p, [recorder[p] EXCEPT !.fixture = x, !.pending = {x}, !.ran = {}])
FixtureReady(p) ==
  /\ Idle(p, "setup") \/ Idle(p, "call")
  /\ recorder[p].fixture # NoFixture
  /\ LET x == recorder[p].fixture
     IN Moves(p, [Leave(recorder[p], {t \in Tests : x \in Closure[t]} \ {recorder[p].current},
                        {th \in recorder[p].threads : th.fixture = x}) EXCEPT
                    !.ready = @ \cup {x}, !.fixture = NoFixture])

(* What a test asks for and another one has set up is not seen by it: its
   fixture closure was taken before (Tracer.fixtures). *)
CallTest(p) ==
  /\ Idle(p, "setup") /\ recorder[p].fixture = NoFixture
  /\ LET t == recorder[p].current
     IN /\ Closure[t] \subseteq recorder[p].ready
        /\ Moves(p, [Miss(recorder[p], {t}, (Requests[t] \ Closure[t]) \cap recorder[p].ready) EXCEPT
                       !.stage = "call", !.pending = {t}, !.ran = {}])

\* pytest_runtest_logreport, pytest_runtest_logfinish
FinishTest(p, result) ==
  LET t == recorder[p].current
  IN Moves(p, [Leave(recorder[p], {t}, ThreadsOf(recorder[p], t)) EXCEPT
                 !.stage = "idle", !.pending = {}, !.fixture = NoFixture,
                 !.broken = @ \cup ({recorder[p].fixture} \cap Fixtures),
                 !.outcome[t] = result, !.current = NoTest])
PassTest(p) ==
  /\ Idle(p, "call") /\ recorder[p].fixture = NoFixture
  /\ Requests[recorder[p].current] \subseteq recorder[p].ready
  /\ FinishTest(p, "passed")
(* A test fails where it is; pytest does not set up a broken fixture again,
   and the other tests that need it fail too. *)
FailTest(p) ==
  /\ recorder[p].stage \in {"setup", "call"}
  /\ LET t == recorder[p].current
     IN t \in MayFail \/ (Closure[t] \cup Requests[t]) \cap recorder[p].broken # {}
  /\ FinishTest(p, "failed")

\* pytest_unconfigure
Write(p) ==
  /\ Idle(p, "idle") /\ \A t \in recorder[p].mine : recorder[p].outcome[t] # "none"
  /\ Moves(p, [recorder[p] EXCEPT !.stage = "written"])

(* The time limit, or the death of a process before it has written; the
   others go on. *)
Crash(p) ==
  /\ recorder[p].stage \notin {"written", "crashed"}
  /\ Moves(p, [NewRecorder EXCEPT !.stage = "crashed"])

Covers(r, t) == r.executed[t] \cup UNION {r.fixtureCode[x] : x \in Closure[t]}

(* TestMap.merge, and Tracer.write for every part. *)
MergedMap ==
  LET tests == UNION {recorder[p].mine : p \in Shards}
      of(t) == recorder[CHOOSE p \in Shards : t \in recorder[p].mine]
  IN [tests |-> tests,
      failed |-> {t \in tests : of(t).outcome[t] = "failed"},
      covers |-> [t \in tests |-> Covers(of(t), t)],
      outside |-> UNION {recorder[p].outside : p \in Shards},
      unseen |-> [t \in tests |-> of(t).unseen[t]]]   \* history

Recording == testMap = NoMap /\ selection = NoSelection
\* Mutant: a process that died is left out of the map.
MergeWritten ==
  /\ Recording /\ \A p \in Shards : recorder[p].stage \in {"written", "crashed"}
  /\ \E p \in Shards : recorder[p].stage = "written"
  /\ testMap' = MergedMap
  /\ durations' \in Durations
  /\ recorder' = [p \in Shards |-> NewRecorder]
  /\ UNCHANGED Review

Merge ==
  /\ Recording /\ \A p \in Shards : recorder[p].stage = "written"
  /\ testMap' = MergedMap
  /\ durations' \in Durations
  /\ recorder' = [p \in Shards |-> NewRecorder]     \* the processes are gone
  /\ UNCHANGED Review

(* _write_test_map without the record of one process: the command fails and
   what the others recorded is deleted. *)
RecordingFails ==
  /\ Recording /\ \A p \in Shards : recorder[p].stage \in {"written", "crashed"}
  /\ \E p \in Shards : recorder[p].stage = "crashed"
  /\ recorder' = [p \in Shards |-> [NewRecorder EXCEPT !.stage = "crashed"]]
  /\ UNCHANGED <<testMap, durations, Review>>

------------------------------------------------------------------------------
(* test-select (test_select_command, select_tests) *)

(* The file names the tests of the map, its durations and the tests to keep.
   A full run reads no more of the map than the durations. *)
Selects(mode, reason, mapped) ==
  /\ selection' = [mode |-> mode, reason |-> reason, mapped |-> mapped]
  /\ testMap' = IF mode = "impact" THEN testMap ELSE NoMap
  /\ durations' = IF mapped THEN durations ELSE NoDurations
  /\ UNCHANGED <<recorder, shards, evidence, report>>

Given ==
  /\ selection = NoSelection
  /\ testMap # NoMap \/ \A p \in Shards : recorder[p].stage = "crashed"
  /\ \E h \in DOMAIN Heads : head' = h

\* The configuration has selection turned off: no file is left for evidence.
SelectionOff == Given /\ Selects("off", "none", FALSE)

(* No map was restored, or it is not valid, is tracked in the checkout, or is
   of a commit that is not an ancestor of the head. *)
WithoutMap ==
  \/ Given /\ Selects("full", "no_map", FALSE)
  \/ Given /\ testMap # NoMap /\ Selects("full", "invalid_map", FALSE)
  \/ Given /\ testMap # NoMap /\ Selects("full", "map_not_ancestor", TRUE)

\* analyze_changes; the tests of the map are those of its commit.
Changes == [h \in DOMAIN Heads |-> AnalyzeChanges(Base, Heads[h], TestModulesOf(Base))]

SelectTests ==
  /\ Given /\ testMap # NoMap
  /\ LET reasons == FullRunReasons(testMap, Changes[head'])
     IN \/ \E reason \in reasons : Selects("full", reason, TRUE)
        \/ reasons = {} /\ Selects("impact", "none", TRUE)

------------------------------------------------------------------------------
(* The evidence run (Selector.apply, _run_test_suite) *)

HeadCommit == Heads[head]

Kept ==
  IF selection.mode = "impact" THEN Keep(testMap, Changes[head], PresentTests(HeadCommit))
  ELSE PresentTests(HeadCommit)

KnownDurations ==
  IF selection.mapped THEN [t \in PresentTests(Base) |-> durations[t]] ELSE NoDurations

MyTests(p) ==
  LET kept == Kept
      placement == AssignShards(Estimates(kept, KnownDurations))
  IN {t \in kept : placement[t] = p}

\* No selection and one shard: pytest runs without the plugin.
Selecting == selection.mode # "off" \/ ShardCount > 1

Pending == [status |-> "pending", passed |-> 0, total |-> 0, wrote |-> FALSE, ran |-> {}]
Runs(p) ==
  /\ selection # NoSelection /\ shards[p] = Pending
  /\ \A q \in 0 .. p - 1 : shards[q] # Pending     \* in turn, as above
Returns(p, check) ==
  shards' = [shards EXCEPT ![p] = check]
  /\ UNCHANGED <<recorder, testMap, durations, head, selection, evidence, report>>

CanCollect(c) == \A f \in Collection(c) : c[f] # Broken

(* A total of zero stands for the counts None: pytest's summary then counts
   no test, and its exit code says that none was collected. *)
RunShard(p) ==
  /\ Runs(p) /\ CanCollect(HeadCommit)
  /\ \E mine \in {MyTests(p)} : \E failed \in SUBSET mine :
       Returns(p, [status |-> IF failed # {} \/ (mine = {} /\ ~ Selecting) THEN "fail" ELSE "pass",
                   passed |-> Cardinality(mine \ failed), total |-> Cardinality(mine),
                   wrote |-> Selecting, ran |-> mine])

\* An error in a module or conftest.py, with or without the plugin's report.
FailCollection(p) ==
  /\ Runs(p) /\ ~ CanCollect(HeadCommit)
  /\ \E wrote \in {FALSE, Selecting} :
       Returns(p, [status |-> "fail", passed |-> 0, total |-> 1, wrote |-> wrote, ran |-> {}])

\* pytest does not start or does not end in time.
GiveUp(p) ==
  /\ Runs(p)
  /\ \E wrote \in {FALSE, Selecting} :
       Returns(p, [status |-> "error", passed |-> 0, total |-> 0, wrote |-> wrote, ran |-> {}])

Statuses == {shards[p].status : p \in Shards}

\* Mutant: a shard that gave up is left out of the combination.
CombineCounted ==
  [status |-> IF "fail" \in Statuses THEN "fail" ELSE IF "pass" \in Statuses THEN "pass" ELSE "error",
   passed |-> SumFunctionOnSet([p \in Shards |-> shards[p].passed], Shards),
   total |-> SumFunctionOnSet([p \in Shards |-> shards[p].total], Shards)]

CombineChecks ==
  [status |-> IF "error" \in Statuses THEN "error" ELSE IF "fail" \in Statuses THEN "fail" ELSE "pass",
   passed |-> SumFunctionOnSet([p \in Shards |-> shards[p].passed], Shards),
   total |-> SumFunctionOnSet([p \in Shards |-> shards[p].total], Shards)]

NoScope == [selected |-> 0, collected |-> 0]
\* Mutant: the first process is taken to have written its report.
CombineReported ==
  /\ evidence = NoReport /\ "pending" \notin Statuses
  /\ selection.mode # "off" => shards[0].wrote
  /\ evidence' = [check |-> CombineChecks,
                  scope |-> IF selection.mode = "off" THEN NoScope
                            ELSE [selected |-> Cardinality(Kept),
                                  collected |-> Cardinality(PresentTests(HeadCommit))]]
  /\ UNCHANGED <<recorder, testMap, durations, head, selection, shards, report>>

Combine ==
  /\ evidence = NoReport /\ "pending" \notin Statuses
  /\ evidence' = [check |-> CombineChecks,
                  scope |-> IF selection.mode = "off" \/ ~ shards[0].wrote THEN NoScope
                            ELSE [selected |-> Cardinality(Kept),
                                  collected |-> Cardinality(PresentTests(HeadCommit))]]
  /\ UNCHANGED <<recorder, testMap, durations, head, selection, shards, report>>

\* _evidence_tests
Report ==
  /\ evidence # NoReport /\ report = NoReport
  /\ report' = IF evidence.check.status \in {"pass", "fail"} /\ evidence.check.total > 0
               THEN [status |-> evidence.check.status, passed |-> evidence.check.passed,
                     total |-> evidence.check.total, scope |-> evidence.scope]
               ELSE [status |-> "error", passed |-> 0, total |-> 0, scope |-> NoScope]
  /\ UNCHANGED <<recorder, testMap, durations, head, selection, shards, evidence>>

------------------------------------------------------------------------------
Init ==
  /\ recorder = [p \in Shards |-> NewRecorder]
  /\ testMap = NoMap /\ durations = NoDurations
  /\ head = NoHead /\ selection = NoSelection
  /\ shards = [p \in Shards |-> Pending]
  /\ evidence = NoReport /\ report = NoReport

(* The processes share nothing, so that it is enough to let one after the
   other run; each computes its part of the tests for itself. *)
InTurn(p) == \A q \in 0 .. p - 1 : recorder[q].stage \in {"written", "crashed"}

Record(p) ==
  /\ Recording /\ InTurn(p)
  /\ \/ Crash(p) \/ Profile(p) \/ ThreadCalls(p) \/ ThreadCovers(p) \/ Collected(p) \/ FixtureReady(p)
     \/ CallTest(p) \/ PassTest(p) \/ FailTest(p) \/ Write(p)
     \/ \E t \in Tests : StartTest(p, t)
     \/ \E x \in Fixtures : SetUpFixture(p, x)

Next ==
  \/ \E p \in Shards : GiveUp(p) \/ FailCollection(p) \/ RunShard(p)
  \/ Report \/ Combine
  \/ \E p \in Shards : Record(p)
  \/ Merge \/ RecordingFails \/ SelectionOff \/ WithoutMap \/ SelectTests

Spec == Init /\ [][Next]_vars
(* Every command has a time limit, and the next one starts when it ends. *)
FairSpec == Spec /\ WF_vars(Next)

------------------------------------------------------------------------------
(* Properties *)

RecorderState ==
  [stage : {"collect", "idle", "setup", "call", "written", "crashed"},
   mine : SUBSET Tests, loaded : SUBSET Files, pending : SUBSET Nodes, ran : SUBSET Nodes,
   current : Tests \cup {NoTest}, fixture : Fixtures \cup {NoFixture},
   ready : SUBSET Fixtures, broken : SUBSET Fixtures,
   executed : [Tests -> SUBSET Symbols], fixtureCode : [Fixtures -> SUBSET Symbols],
   outside : SUBSET Symbols, outcome : [Tests -> {"none", "passed", "failed"}],
   threads : SUBSET [test : Tests \cup {NoTest}, fixture : Fixtures \cup {NoFixture}, runs : SUBSET Threads,
                     todo : SUBSET Nodes, ran : SUBSET Nodes, calling : SUBSET Nodes],
   unseen : [Tests -> SUBSET (Threads \cup Fixtures)]]

TypeOK ==
  /\ recorder \in [Shards -> RecorderState]
  /\ testMap = NoMap \/ testMap \in [tests : {PresentTests(Base)}, failed : SUBSET PresentTests(Base),
                                    covers : [PresentTests(Base) -> SUBSET Symbols],
                                    outside : SUBSET Symbols,
                                    unseen : [PresentTests(Base) -> SUBSET (Threads \cup Fixtures)]]
  /\ head \in DOMAIN Heads \cup {NoHead}
  /\ \A p \in Shards : shards[p].passed <= shards[p].total /\ shards[p].ran \subseteq Tests
  /\ report = NoReport \/ report.status \in {"pass", "fail", "error"}

ReachedAtBase == [t \in Tests |-> Reach(Base, Roots[t])]

(* Code that a module imported during a test runs: only the first test that
   imports it in its process is seen to run it. *)
LateCode ==
  LET early == Reach(Base, Collection(Base))
  IN [t \in Tests |-> ReachIn(Base, (ReachedAtBase[t] \cap Files) \ early, Collection(Base))]

(* Code that a test is not seen to run: a thread went on without it, or it
   asked for a fixture that another test had set up. *)
Beyond == [d \in Threads \cup Fixtures |-> ReachIn(Base, {d}, Collection(Base)) \cap Definitions]
Unseen(t) == UNION {Beyond[d] : d \in testMap.unseen[t]}

(* The map of a recording, whatever the order of the tests, their shards and
   their failures and whichever process dies, holds all tests of the commit,
   and every function that a test which passed would run on its own, though shared fixtures and modules ran only once and threads ran
   beside other fixtures; except what it did not wait for or asked for by name:
   fixture_stack, closures and thread_profile, _trace_plugin.py:103-187. *)
MapCoversEveryTest ==
  testMap # NoMap =>
    /\ testMap.tests = PresentTests(Base)
    /\ \A t \in testMap.tests \ testMap.failed :
         \A d \in (ReachedAtBase[t] \cap Definitions) \ (LateCode[t] \cup Unseen(t)) :
           Base[d] # Absent => SymbolOf[d] \in testMap.covers[t] \cup testMap.outside

(* Tests a head leaves alone, as far as the comparison can know. *)
Unaffected ==
  [h \in DOMAIN Heads |->
    {t \in Tests :
       /\ Traceable(Base, Heads[h], t, TestModulesOf(Base))
       /\ \A d \in LateCode[t] \cap Definitions : Base[d] = Heads[h][d]
       => Behaviour(Heads[h], t) = Behaviour(Base, t)}]

Ran == UNION {shards[p].ran : p \in Shards}

(* When the comment says that the tests pass, every test of the head either
   ran in this review, or passed when the map was recorded and runs exactly the
   code it ran then (select_tests, selection.py:226-242). *)
PassIsJustified ==
  report # NoReport /\ report.status = "pass" =>
    \A t \in PresentTests(HeadCommit) \ Ran :
      /\ testMap # NoMap /\ t \in testMap.tests \ testMap.failed
      /\ t \in Unaffected[head] \/ \E d \in Unseen(t) : Base[d] # HeadCommit[d]

(* Passing counts are the counts of all kept tests: no shard is lost on the
   way to the comment (_combine_checks, evidence.py:231-242). *)
CountsAreComplete ==
  report # NoReport /\ report.status = "pass" =>
    /\ report.passed = report.total /\ report.total = Cardinality(Kept)
    /\ report.scope # NoScope => report.scope.selected = report.total

(* Longest processing time first: before the shards run, the longest of them is
   estimated to take at most 4/3 - 1/(3n) times as long as the longest of the
   best packing (assign_shards). *)
ShardsAreBalanced ==
  selection # NoSelection /\ (\A p \in Shards : shards[p] = Pending) /\ Kept # {} =>
    LET estimates == Estimates(Kept, KnownDurations)
        placement == AssignShards(estimates)
        shardOf == [u \in {UnitOf[t] : t \in Kept} |-> placement[CHOOSE t \in Kept : UnitOf[t] = u]]
    IN 3 * ShardCount * Makespan(shardOf, estimates)
         <= (4 * ShardCount - 1) * BestMakespan(estimates)

(* Whatever fails, crashes or is missing, the comment gets a test line. *)
ReviewGetsTests == <>(report # NoReport)

(* README.md:205: tests that executed a changed function run. *)
ChangedFunctionsAreTested ==
  selection # NoSelection =>
    \A t \in PresentTests(HeadCommit) \ Kept :
      \A d \in (ReachedAtBase[t] \cap Definitions) \ (LateCode[t] \cup Unseen(t)) : Base[d] = HeadCommit[d]

(* selection.py:10: what function coverage cannot bound runs the whole suite,
   so that a test that does not run behaves as it did. *)
TestsLeftOutBehaveTheSame ==
  selection # NoSelection =>
    \A t \in PresentTests(HeadCommit) \ Kept : Behaviour(HeadCommit, t) = Behaviour(Base, t)
=============================================================================

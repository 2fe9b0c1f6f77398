--------------------------- MODULE RecordingProofs ---------------------------
(*****************************************************************************)
(* What a recording process has on record, for every project, number of      *)
(* processes, order of tests and interleaving of threads. The invariant      *)
(* RecorderInv accounts for all code that has run: each set of nodes that    *)
(* ran for a test, for a fixture or before the tests is named on record, and *)
(* what it leads to has run too, is about to run, or is left to threads and  *)
(* fixtures that the test is not seen to run.                                *)
(*****************************************************************************)
EXTENDS TestSelection, FiniteSetTheorems, TLAPS

------------------------------------------------------------------------------
(* What a commit leads to *)

(* A commit gives every node a content, and calls lead to nodes. *)
LEMMA ContentsType ==
  ASSUME NEW c \in Commit, NEW n \in Nodes
  PROVE  c[n] \in Contents /\ c[n].uses \subseteq Nodes
<1>1. n \in Files \cup Definitions
  BY DEF Nodes
<1> QED BY <1>1, ContentsAssumption DEF Commit

(* The set of everything that can run is one of the sets that ReachIn intersects. *)
LEMMA TargetsClosed ==
  ASSUME NEW c \in Commit, NEW roots \in SUBSET Nodes, NEW loaded
  PROVE  /\ roots \cup (Targets(c) \ roots) \subseteq Nodes
         /\ Closed(c, roots \cup (Targets(c) \ roots), loaded)
<1> DEFINE All == roots \cup (Targets(c) \ roots)
<1>1. Targets(c) \subseteq Nodes
  BY ContentsType DEF Targets, Uses, Nodes
<1>2. All \subseteq Nodes /\ Targets(c) \subseteq All
  BY <1>1
<1>3. Uses(c, All) \subseteq Uses(c, Nodes)
  BY <1>2 DEF Uses
<1>4. Receivers(c, All, All \cup loaded) \subseteq Targets(c)
  BY DEF Receivers, Targets
<1> QED BY <1>2, <1>3, <1>4 DEF Closed, Targets

(* What runs is closed: the code it calls and the functions connected to what
   it sends run too. *)
LEMMA ReachInClosed ==
  ASSUME NEW c \in Commit, NEW roots \in SUBSET Nodes, NEW loaded
  PROVE  /\ roots \subseteq ReachIn(c, roots, loaded) /\ ReachIn(c, roots, loaded) \subseteq Nodes
         /\ ReachIn(c, roots, loaded) \subseteq roots \cup Targets(c)
         /\ Closed(c, ReachIn(c, roots, loaded), loaded)
<1> DEFINE R == ReachIn(c, roots, loaded)
           family == {X \in {roots \cup Y : Y \in SUBSET (Targets(c) \ roots)} : Closed(c, X, loaded)}
<1>1. R = {n \in Nodes : \A X \in family : n \in X}
  BY DEF ReachIn
<1>2. \A X \in family : roots \subseteq X /\ Closed(c, X, loaded)
  OBVIOUS
<1>3. roots \cup (Targets(c) \ roots) \in family
  BY TargetsClosed
<1> HIDE DEF R, family
<1>4. roots \subseteq R /\ R \subseteq Nodes /\ R \subseteq roots \cup Targets(c)
  BY <1>1, <1>2, <1>3
<1>5. Uses(c, R) \subseteq R
  <2> SUFFICES ASSUME NEW n \in R, NEW u \in c[n].uses PROVE u \in R
    BY DEF Uses
  <2>1. u \in Nodes
    BY <1>4, ContentsType
  <2>2. \A X \in family : n \in X /\ Uses(c, X) \subseteq X
    BY <1>1, <1>2 DEF Closed
  <2>3. \A X \in family : u \in X
    BY <2>2 DEF Uses
  <2> QED BY <1>1, <2>1, <2>3
<1>6. Receivers(c, R, R \cup loaded) \subseteq R
  <2> SUFFICES ASSUME NEW d \in Definitions, FileOf[d] \in R \cup loaded,
                      NEW n \in R, c[n].sends \cap c[d].on # {}
               PROVE  d \in R
    BY DEF Receivers
  <2>1. d \in Nodes
    BY DEF Nodes
  <2>2. \A X \in family : d \in X
    BY <1>1, <1>2 DEF Closed, Receivers
  <2> QED BY <1>1, <2>1, <2>2
<1> QED BY <1>4, <1>5, <1>6 DEF R, Closed

(* It is the least closed set with its roots. *)
LEMMA ReachInLeast ==
  ASSUME NEW c \in Commit, NEW roots \in SUBSET Nodes, NEW loaded,
         NEW X \in SUBSET ReachIn(c, roots, loaded),
         roots \subseteq X, Closed(c, X, loaded)
  PROVE  X = ReachIn(c, roots, loaded)
<1>1. X = roots \cup (X \ roots) /\ X \ roots \subseteq Targets(c) \ roots
  BY ReachInClosed
<1>2. X \in {Z \in {roots \cup Y : Y \in SUBSET (Targets(c) \ roots)} : Closed(c, Z, loaded)}
  BY <1>1
<1> QED BY <1>2 DEF ReachIn

(* The same of a test, which starts in a fresh process. *)
LEMMA ReachClosed ==
  ASSUME NEW c \in Commit, NEW roots \in SUBSET Nodes
  PROVE  /\ roots \subseteq Reach(c, roots) /\ Reach(c, roots) \subseteq Nodes
         /\ Uses(c, Reach(c, roots)) \subseteq Reach(c, roots)
         /\ Receivers(c, Reach(c, roots), Reach(c, roots)) \subseteq Reach(c, roots)
BY ReachInClosed DEF Reach, Closed

(* It is the least such set. *)
LEMMA ReachLeast ==
  ASSUME NEW c \in Commit, NEW roots \in SUBSET Nodes, NEW X \in SUBSET Reach(c, roots),
         roots \subseteq X, Uses(c, X) \subseteq X, Receivers(c, X, X) \subseteq X
  PROVE  X = Reach(c, roots)
<1>1. X \cup {} = X
  OBVIOUS
<1>2. Closed(c, X, {})
  BY <1>1 DEF Closed
<1> QED BY <1>2, ReachInLeast DEF Reach

------------------------------------------------------------------------------
(* What runs and what it leads to *)

(* What a set of nodes leads to once the receivers are loaded. *)
Succ(X) == Uses(Base, X) \cup Receivers(Base, X, Files)

(* Everything that some threads and fixtures can run. *)
RunBy(D) == UNION {ReachIn(Base, {d}, Collection(Base)) : d \in D}

(* The base commit is one. *)
LEMMA BaseIsCommit == Base \in Commit
BY CommitsAssumption

(* Definitions and Python files are nodes. *)
LEMMA DefinitionsAreNodes == Definitions \subseteq Nodes /\ PythonFiles \subseteq Nodes \cap Files
BY DEF Nodes, PythonFiles

(* What pytest loads before it runs a test are files. *)
LEMMA CollectionType == Collection(Base) \subseteq Nodes \cap Files
<1>1. \A t \in Tests : FileOf[t] \in PythonFiles
  BY NodesAssumption
<1>2. TestModulesOf(Base) \subseteq PythonFiles
  BY <1>1 DEF TestModulesOf, PresentTests
<1> QED BY <1>2, RecordingAssumption, DefinitionsAreNodes DEF Collection

(* The receivers are found when what pytest collects is loaded. *)
LEMMA ReceiversAreLoaded ==
  ASSUME NEW X, NEW loaded, Collection(Base) \subseteq loaded, loaded \subseteq Files
  PROVE  Receivers(Base, X, loaded) = Receivers(Base, X, Files)
<1>1. ASSUME NEW d \in Definitions, NEW n \in X, Base[n].sends \cap Base[d].on # {}
      PROVE  FileOf[d] \in loaded /\ FileOf[d] \in Files
  <2>1. Base[d].on # {}
    BY <1>1
  <2> QED BY <2>1, ReceiversAssumption
<1> QED BY <1>1 DEF Receivers

(* What a wave calls once everything collected is loaded. *)
LEMMA CallsAreSucc ==
  ASSUME NEW X, NEW loaded, Collection(Base) \subseteq loaded, loaded \subseteq Files
  PROVE  Uses(Base, X) \cup Receivers(Base, X, loaded) = Succ(X)
BY ReceiversAreLoaded DEF Succ

(* Nodes lead to nodes. *)
LEMMA SuccType ==
  ASSUME NEW X \in SUBSET Nodes
  PROVE  Succ(X) \subseteq Nodes
<1>1. Uses(Base, X) \subseteq Nodes
  BY BaseIsCommit, ContentsType DEF Uses
<1> QED BY <1>1, DefinitionsAreNodes DEF Succ, Receivers

(* What two sets lead to together. *)
LEMMA SuccUnion ==
  ASSUME NEW X, NEW Y
  PROVE  Succ(X \cup Y) = Succ(X) \cup Succ(Y)
<1>1. Uses(Base, X \cup Y) = Uses(Base, X) \cup Uses(Base, Y)
  BY DEF Uses
<1>2. Receivers(Base, X \cup Y, Files) = Receivers(Base, X, Files) \cup Receivers(Base, Y, Files)
  BY DEF Receivers
<1> QED BY <1>1, <1>2 DEF Succ

(* More nodes lead to more. *)
LEMMA SuccGrows ==
  ASSUME NEW X, NEW Y, X \subseteq Y
  PROVE  Succ(X) \subseteq Succ(Y)
<1>1. Y = X \cup Y
  OBVIOUS
<1> QED BY <1>1, SuccUnion

(* What all sets of a family lead to. *)
LEMMA SuccOfMany ==
  ASSUME NEW F, NEW Z, \A X \in F : Succ(X) \subseteq Z
  PROVE  Succ(UNION F) \subseteq Z
<1>1. Uses(Base, UNION F) \subseteq Z
  <2> SUFFICES ASSUME NEW X \in F, NEW n \in X, NEW u \in Base[n].uses PROVE u \in Z
    BY DEF Uses
  <2> QED BY DEF Succ, Uses
<1>2. Receivers(Base, UNION F, Files) \subseteq Z
  <2> SUFFICES ASSUME NEW X \in F, NEW n \in X, NEW d \in Definitions, FileOf[d] \in Files,
                      Base[n].sends \cap Base[d].on # {}
               PROVE  d \in Z
    BY DEF Receivers
  <2> QED BY DEF Succ, Receivers
<1> QED BY <1>1, <1>2 DEF Succ

(* The names of the functions in a set of nodes. *)
LEMMA DescribedUnion ==
  /\ \A X, Y : Described(X \cup Y) = Described(X) \cup Described(Y)
  /\ \A X, Y : X \subseteq Y => Described(X) \subseteq Described(Y)
  /\ \A X : Described(X) \subseteq Symbols
  /\ Described({}) = {}
BY DEF Described, Symbols

(* What a thread or a fixture can run is closed under calls. *)
LEMMA RunByOne ==
  ASSUME NEW d \in Nodes, NEW R, R = ReachIn(Base, {d}, Collection(Base))
  PROVE  d \in R /\ R \subseteq Nodes /\ Succ(R) \subseteq R
<1>1. d \in R /\ R \subseteq Nodes /\ Closed(Base, R, Collection(Base))
  BY ReachInClosed, BaseIsCommit
<1>2. Receivers(Base, R, Files) \subseteq Receivers(Base, R, R \cup Collection(Base))
  <2> SUFFICES ASSUME NEW e \in Definitions, NEW n \in R, Base[n].sends \cap Base[e].on # {}
               PROVE  FileOf[e] \in Collection(Base)
    BY DEF Receivers
  <2>1. Base[e].on # {}
    OBVIOUS
  <2> QED BY <2>1, ReceiversAssumption
<1> QED BY <1>1, <1>2 DEF Closed, Succ

(* The same of several of them. *)
LEMMA RunByClosed ==
  ASSUME NEW D \in SUBSET (Threads \cup Fixtures)
  PROVE  D \subseteq RunBy(D) /\ RunBy(D) \subseteq Nodes /\ Succ(RunBy(D)) \subseteq RunBy(D)
<1>1. D \subseteq Nodes
  BY RecordingAssumption, DefinitionsAreNodes
<1> DEFINE F == {ReachIn(Base, {d}, Collection(Base)) : d \in D}
<1>2. \A R \in F : R \subseteq RunBy(D)
  BY DEF RunBy
<1>3. \A R \in F : \E d \in D : R = ReachIn(Base, {d}, Collection(Base))
  OBVIOUS
<1>4. \A R \in F : R \subseteq Nodes /\ Succ(R) \subseteq R
  BY <1>1, <1>3, RunByOne
<1>5. D \subseteq RunBy(D)
  BY <1>1, RunByOne DEF RunBy
<1>6. RunBy(D) = UNION F
  BY DEF RunBy
<1> HIDE DEF F
<1>7. Succ(UNION F) \subseteq RunBy(D)
  BY <1>2, <1>4, SuccOfMany
<1> QED BY <1>4, <1>5, <1>6, <1>7

(* More threads run more. *)
LEMMA RunByGrows ==
  ASSUME NEW C, NEW D, C \subseteq D
  PROVE  RunBy(C) \subseteq RunBy(D)
BY DEF RunBy

(* What is called by what has run is again run by the same threads. *)
LEMMA RunByCalls ==
  ASSUME NEW D \in SUBSET (Threads \cup Fixtures), NEW X, X \subseteq RunBy(D)
  PROVE  Succ(X) \subseteq RunBy(D)
BY RunByClosed, SuccGrows

------------------------------------------------------------------------------
(* The invariant of a recording process *)

(* X has run, `symbols` name its functions, and what it leads to has run, is
   free (a module, which may have been loaded before) or is open. *)
Accounted(X, symbols, free, open) ==
  /\ X \subseteq Nodes /\ Described(X) \subseteq symbols
  /\ Succ(X) \subseteq X \cup free \cup open

(* What some threads have begun and what they have left to do. *)
Open(threads) == UNION {th.todo \cup th.calling : th \in threads}
RanIn(r, threads, X) == r.ran \subseteq X /\ \A th \in threads : th.ran \ th.calling \subseteq X
OfFixture(r, x) == {th \in r.threads : th.fixture = x}

StageInv(p, r) ==
  /\ r.stage \in {"setup", "call"} => r.current \in Tests /\ r.outcome[r.current] = "none"
  /\ r.stage \notin {"setup", "call"} => r.current = NoTest /\ r.fixture = NoFixture
  /\ r.fixture # NoFixture => r.fixture \notin r.ready \cup r.broken
  /\ r.stage = "call" => Closure[r.current] \subseteq r.ready
  /\ r.stage \notin {"collect", "crashed"} => r.mine = RecordedBy(p)
  /\ r.stage = "written" => \A t \in r.mine : r.outcome[t] # "none"

LoadedInv(r) ==
  \/ Collection(Base) \subseteq r.loaded
  \/ r.stage \in {"collect", "crashed"} /\ r.threads = {} /\ r.pending = Collection(Base)

ThreadInv(r, th) ==
  /\ th.calling \subseteq th.ran
  /\ th.todo \cup th.calling \subseteq RunBy(th.runs)
  /\ th.test \in {NoTest, r.current} \/ r.outcome[th.test] # "none"
  /\ th.fixture \in {NoFixture, r.fixture} \cup r.ready \cup r.broken
  /\ th.fixture = r.fixture /\ r.fixture # NoFixture =>
       Described(th.calling) \subseteq r.fixtureCode[r.fixture]

ThreadsInv(r) == \A th \in r.threads : ThreadInv(r, th)

(* Before the first test: all that has run is on record outside the tests. *)
FreshWith(r, O) ==
  /\ Accounted(O, r.outside, {}, r.pending \cup Open(r.threads))
  /\ RanIn(r, r.threads, O)
  /\ r.loaded \subseteq O /\ Collection(Base) \subseteq O \cup r.pending
Fresh(r) ==
  /\ \A t \in Tests : r.outcome[t] = "none"
  /\ r.current = NoTest /\ \A th \in r.threads : th.test = NoTest
  /\ \E O \in SUBSET Nodes : FreshWith(r, O)

(* Later: what was left open then is what threads go on with. *)
DoneWith(r, O) ==
  /\ Collection(Base) \subseteq O /\ Described(O) \subseteq r.outside
  /\ \A t \in Tests : Succ(O) \subseteq O \cup RunBy(r.unseen[t])
Done(r) == \E O \in SUBSET Nodes : DoneWith(r, O)

(* A fixture that a test finds ready: its code is accounted for. *)
SharedWith(r, x, t, Y) == x \in Y /\ Accounted(Y, r.fixtureCode[x], Files, RunBy(r.unseen[t]))
Shared(r, x, t) == \E Y \in SUBSET Nodes : SharedWith(r, x, t, Y)
SharedInv(r) ==
  \A t \in Tests : r.outcome[t] = "none" /\ t # r.current =>
    \A x \in r.ready \cap Closure[t] : Shared(r, x, t)

(* The test that runs. *)
RunsWith(r, t, E) ==
  /\ Accounted(E, r.executed[t], Files, r.pending \cup Open(ThreadsOf(r, t)))
  /\ RanIn(r, ThreadsOf(r, t), E)
  /\ \A x \in r.ready \cap Closure[t] : x \in E \/ Shared(r, x, t)
  /\ r.fixture # NoFixture => r.fixture \in E \cup r.pending
  /\ r.stage = "call" => t \in E \cup r.pending
  /\ r.stage = "call" => r.ready \cap Requests[t] \subseteq E \cup r.unseen[t] \cup Closure[t]
RunningInv(r) ==
  r.stage \in {"setup", "call"} => \E E \in SUBSET Nodes : RunsWith(r, r.current, E)

(* The fixture that is being set up. *)
SetsUpWith(r, x, Y) ==
  /\ Accounted(Y, r.fixtureCode[x], Files, r.pending \cup Open(OfFixture(r, x)))
  /\ RanIn(r, OfFixture(r, x), Y) /\ x \in Y \cup r.pending
SettingUpInv(r) ==
  r.fixture # NoFixture => \E Y \in SUBSET Nodes : SetsUpWith(r, r.fixture, Y)

(* A test that passed. *)
PassedWith(r, t, X) ==
  /\ Accounted(X, Covers(r, t), Files, RunBy(r.unseen[t]))
  /\ {t} \cup Closure[t] \cup Requests[t] \subseteq X \cup RunBy(r.unseen[t])
PassedInv(r) ==
  \A t \in Tests : r.outcome[t] = "passed" => \E X \in SUBSET Nodes : PassedWith(r, t, X)

RecorderInv(p, r) ==
  /\ StageInv(p, r) /\ LoadedInv(r) /\ ThreadsInv(r) /\ (Fresh(r) \/ Done(r))
  /\ SharedInv(r) /\ RunningInv(r) /\ SettingUpInv(r) /\ PassedInv(r)

------------------------------------------------------------------------------
(* What each action does to the process that takes it *)

Recorders == recorder \in [Shards -> RecorderState]

(* A new process and a crashed one have their type. *)
LEMMA NewRecorderType ==
  /\ NewRecorder \in RecorderState
  /\ [NewRecorder EXCEPT !.stage = "crashed"] \in RecorderState
<1>1. Collection(Base) \subseteq Nodes
  BY CollectionType
<1> QED BY <1>1 DEF NewRecorder, RecorderState

ThreadRecords ==
  [test : Tests \cup {NoTest}, fixture : Fixtures \cup {NoFixture}, runs : SUBSET Threads,
   todo : SUBSET Nodes, ran : SUBSET Nodes, calling : SUBSET Nodes]

(* The thread that a wave starts, if it calls a function that has its own. *)
LEMMA StartedType ==
  ASSUME NEW test \in Tests \cup {NoTest}, NEW fixture \in Fixtures \cup {NoFixture}, NEW calls
  PROVE  /\ calls \cap Threads = {} => Started(test, fixture, calls) = {}
         /\ calls \cap Threads # {} =>
              Started(test, fixture, calls) =
                {[test |-> test, fixture |-> fixture, runs |-> calls \cap Threads,
                  todo |-> calls \cap Threads, ran |-> {}, calling |-> {}]}
         /\ Started(test, fixture, calls) \subseteq ThreadRecords
<1>1. calls \cap Threads \subseteq Nodes /\ calls \cap Threads \subseteq Threads
  BY RecordingAssumption, DefinitionsAreNodes
<1>2. [test |-> test, fixture |-> fixture, runs |-> calls \cap Threads,
       todo |-> calls \cap Threads, ran |-> {}, calling |-> {}] \in ThreadRecords
  BY <1>1 DEF ThreadRecords
<1> QED BY <1>2 DEF Started

(* cover writes to the fixture that is set up and to the test or beside it. *)
FixtureCodeAfter(r, called) ==
  IF r.fixture = NoFixture THEN r.fixtureCode ELSE [r.fixtureCode EXCEPT ![r.fixture] = @ \cup called]
ExecutedAfter(r, called) ==
  IF r.current = NoTest THEN r.executed ELSE [r.executed EXCEPT ![r.current] = @ \cup called]
OutsideAfter(r, called) == IF r.current = NoTest THEN r.outside \cup called ELSE r.outside
Covered(r, called) ==
  [r EXCEPT !.fixtureCode = FixtureCodeAfter(r, called), !.executed = ExecutedAfter(r, called),
            !.outside = OutsideAfter(r, called)]

(* What is on record stays there, and the called functions are added. *)
LEMMA AfterGrows ==
  ASSUME NEW r \in RecorderState, NEW called \in SUBSET Symbols
  PROVE  /\ FixtureCodeAfter(r, called) \in [Fixtures -> SUBSET Symbols]
         /\ ExecutedAfter(r, called) \in [Tests -> SUBSET Symbols]
         /\ OutsideAfter(r, called) \in SUBSET Symbols
         /\ \A x \in Fixtures : r.fixtureCode[x] \subseteq FixtureCodeAfter(r, called)[x]
         /\ \A t \in Tests : r.executed[t] \subseteq ExecutedAfter(r, called)[t]
         /\ r.outside \subseteq OutsideAfter(r, called)
         /\ r.fixture # NoFixture => called \subseteq FixtureCodeAfter(r, called)[r.fixture]
         /\ r.current # NoTest => called \subseteq ExecutedAfter(r, called)[r.current]
         /\ r.current = NoTest => called \subseteq OutsideAfter(r, called)
<1>1. /\ r.fixtureCode \in [Fixtures -> SUBSET Symbols] /\ r.executed \in [Tests -> SUBSET Symbols]
      /\ r.outside \in SUBSET Symbols /\ r.fixture \in Fixtures \cup {NoFixture}
      /\ r.current \in Tests \cup {NoTest}
  BY DEF RecorderState
<1>2. /\ FixtureCodeAfter(r, called) \in [Fixtures -> SUBSET Symbols]
      /\ \A x \in Fixtures : r.fixtureCode[x] \subseteq FixtureCodeAfter(r, called)[x]
      /\ r.fixture # NoFixture => called \subseteq FixtureCodeAfter(r, called)[r.fixture]
  BY <1>1 DEF FixtureCodeAfter
<1>3. /\ ExecutedAfter(r, called) \in [Tests -> SUBSET Symbols]
      /\ \A t \in Tests : r.executed[t] \subseteq ExecutedAfter(r, called)[t]
      /\ r.current # NoTest => called \subseteq ExecutedAfter(r, called)[r.current]
  BY <1>1 DEF ExecutedAfter
<1> QED BY <1>1, <1>2, <1>3 DEF OutsideAfter

(* The fields of a recorder after code was covered. *)
LEMMA CoverFields ==
  ASSUME NEW r \in RecorderState, NEW called
  PROVE  /\ Cover(r, called) = Covered(r, called)
         /\ CoverFixture(r, called) = [r EXCEPT !.fixtureCode = FixtureCodeAfter(r, called)]
         /\ CoverTest(r, called) = [r EXCEPT !.executed = ExecutedAfter(r, called),
                                             !.outside = OutsideAfter(r, called)]
<1>1. CoverFixture(r, called) = [r EXCEPT !.fixtureCode = FixtureCodeAfter(r, called)]
  BY DEF CoverFixture, FixtureCodeAfter, RecorderState
<1>2. CoverTest(r, called) = [r EXCEPT !.executed = ExecutedAfter(r, called),
                                       !.outside = OutsideAfter(r, called)]
  BY DEF CoverTest, ExecutedAfter, OutsideAfter, RecorderState
<1>3. Cover(r, called) = [r EXCEPT !.fixtureCode = FixtureCodeAfter(r, called),
                                   !.executed = ExecutedAfter(r, called),
                                   !.outside = OutsideAfter(r, called)]
  <2> DEFINE f == CoverFixture(r, called)
  <2>1. f.current = r.current /\ f.executed = r.executed /\ f.outside = r.outside
    BY <1>1 DEF RecorderState
  <2>2. CoverTest(f, called) = [f EXCEPT !.executed = ExecutedAfter(r, called),
                                         !.outside = OutsideAfter(r, called)]
    BY <1>1, <2>1 DEF CoverTest, ExecutedAfter, OutsideAfter, RecorderState
  <2> QED BY <1>1, <2>2 DEF Cover, RecorderState
<1> QED BY <1>1, <1>2, <1>3 DEF Covered

(* A wave of the main thread. *)
ProfileStep(r, s, calls) ==
  /\ r.pending # {} /\ r.stage \notin {"written", "crashed"}
  /\ s.loaded = r.loaded \cup (r.pending \cap Files) /\ s.ran = r.ran \cup r.pending
  /\ calls = (Uses(Base, r.pending) \cup Receivers(Base, r.pending, s.loaded)) \ (s.ran \cup s.loaded)
  /\ s.pending = calls \ Threads
  /\ s.threads = r.threads \cup Started(r.current, r.fixture, calls)
  /\ s.stage = r.stage /\ s.mine = r.mine /\ s.current = r.current /\ s.fixture = r.fixture
  /\ s.ready = r.ready /\ s.broken = r.broken /\ s.outcome = r.outcome /\ s.unseen = r.unseen
  /\ s.executed = ExecutedAfter(r, Described(r.pending))
  /\ s.fixtureCode = FixtureCodeAfter(r, Described(r.pending))
  /\ s.outside = OutsideAfter(r, Described(r.pending))

\* One process moves.
Only(p) == recorder' = [recorder EXCEPT ![p] = recorder'[p]] /\ recorder'[p] \in RecorderState

(* Profile: the fields of the process after it. *)
LEMMA ProfileFields ==
  ASSUME NEW p \in Shards, Recorders, Profile(p)
  PROVE  Only(p) /\ \E calls \in SUBSET Nodes : ProfileStep(recorder[p], recorder'[p], calls)
<1> DEFINE r == recorder[p]
           s == recorder'[p]
<1>1. r \in RecorderState
  BY DEF Recorders
<1> DEFINE loaded == r.loaded \cup (r.pending \cap Files)
           ran == r.ran \cup r.pending
           calls == (Uses(Base, r.pending) \cup Receivers(Base, r.pending, loaded)) \ (ran \cup loaded)
           c == Cover(r, Described(r.pending))
<1>2. /\ r.pending # {} /\ r.stage \notin {"written", "crashed"}
      /\ recorder' = [recorder EXCEPT ![p] =
                        [c EXCEPT !.loaded = loaded, !.ran = ran, !.pending = calls \ Threads,
                                  !.threads = @ \cup Started(r.current, r.fixture, calls)]]
  <2>1. recorder[p].pending # {} /\ recorder[p].stage \notin {"written", "crashed"}
    BY DEF Profile
  <2>2. PICK wave \in {r.pending} : \E l \in {r.loaded \cup (wave \cap Files)}, n \in {r.ran \cup wave} :
             \E a \in {(Uses(Base, wave) \cup Receivers(Base, wave, l)) \ (n \cup l)} :
               Moves(p, [Cover(r, Described(wave)) EXCEPT
                           !.loaded = l, !.ran = n, !.pending = a \ Threads,
                           !.threads = @ \cup Started(r.current, r.fixture, a)])
    BY DEF Profile
  <2>3. wave = r.pending
    OBVIOUS
  <2>4. PICK l \in {r.loaded \cup (wave \cap Files)}, n \in {r.ran \cup wave} :
             \E a \in {(Uses(Base, wave) \cup Receivers(Base, wave, l)) \ (n \cup l)} :
               Moves(p, [Cover(r, Described(wave)) EXCEPT
                           !.loaded = l, !.ran = n, !.pending = a \ Threads,
                           !.threads = @ \cup Started(r.current, r.fixture, a)])
    BY <2>2
  <2>5. l = loaded /\ n = ran
    BY <2>3
  <2>6. PICK a \in {(Uses(Base, wave) \cup Receivers(Base, wave, l)) \ (n \cup l)} :
               Moves(p, [Cover(r, Described(wave)) EXCEPT
                           !.loaded = l, !.ran = n, !.pending = a \ Threads,
                           !.threads = @ \cup Started(r.current, r.fixture, a)])
    BY <2>4
  <2>7. a = calls
    BY <2>3, <2>5
  <2> QED BY <2>1, <2>3, <2>5, <2>6, <2>7 DEF Moves
<1> HIDE DEF loaded, ran, calls
<1>3. c = [r EXCEPT !.fixtureCode = FixtureCodeAfter(r, Described(r.pending)),
                    !.executed = ExecutedAfter(r, Described(r.pending)),
                    !.outside = OutsideAfter(r, Described(r.pending))]
  <2>1. c = Covered(r, Described(r.pending))
    BY <1>1, CoverFields, Zenon
  <2> QED BY <2>1, Zenon DEF Covered
<1> HIDE DEF c
<1>4. s = [c EXCEPT !.loaded = loaded, !.ran = ran, !.pending = calls \ Threads,
                    !.threads = @ \cup Started(r.current, r.fixture, calls)]
  BY <1>2 DEF Recorders
<1>5. /\ s.loaded = loaded /\ s.ran = ran /\ s.pending = calls \ Threads
      /\ s.threads = r.threads \cup Started(r.current, r.fixture, calls)
      /\ s.stage = r.stage /\ s.mine = r.mine /\ s.current = r.current /\ s.fixture = r.fixture
      /\ s.ready = r.ready /\ s.broken = r.broken /\ s.outcome = r.outcome /\ s.unseen = r.unseen
      /\ s.executed = ExecutedAfter(r, Described(r.pending))
      /\ s.fixtureCode = FixtureCodeAfter(r, Described(r.pending))
      /\ s.outside = OutsideAfter(r, Described(r.pending))
  BY <1>1, <1>3, <1>4 DEF RecorderState
<1>6. r.pending \subseteq Nodes /\ r.loaded \subseteq Files /\ r.ran \subseteq Nodes
      /\ r.current \in Tests \cup {NoTest} /\ r.fixture \in Fixtures \cup {NoFixture}
      /\ r.threads \subseteq ThreadRecords
  BY <1>1 DEF RecorderState, ThreadRecords
<1>7. calls \subseteq Nodes /\ loaded \subseteq Files /\ ran \subseteq Nodes
  <2>1. Uses(Base, r.pending) \subseteq Nodes
    BY <1>6, BaseIsCommit, ContentsType DEF Uses
  <2>2. Receivers(Base, r.pending, loaded) \subseteq Nodes
    BY DefinitionsAreNodes DEF Receivers
  <2> QED BY <1>6, <2>1, <2>2 DEF calls, loaded, ran
<1>8. r.threads \cup Started(r.current, r.fixture, calls) \subseteq ThreadRecords
  BY <1>6, StartedType
<1>9. Described(r.pending) \subseteq Symbols
  BY DescribedUnion
<1>10. s \in RecorderState
  <2>1. /\ FixtureCodeAfter(r, Described(r.pending)) \in [Fixtures -> SUBSET Symbols]
        /\ ExecutedAfter(r, Described(r.pending)) \in [Tests -> SUBSET Symbols]
        /\ OutsideAfter(r, Described(r.pending)) \in SUBSET Symbols
    BY <1>1, <1>9, AfterGrows
  <2>2. /\ s.loaded \in SUBSET Files /\ s.ran \in SUBSET Nodes /\ s.pending \in SUBSET Nodes
        /\ s.threads \in SUBSET ThreadRecords
        /\ s.fixtureCode \in [Fixtures -> SUBSET Symbols]
        /\ s.executed \in [Tests -> SUBSET Symbols] /\ s.outside \in SUBSET Symbols
    BY <1>5, <1>7, <1>8, <2>1
  <2>3. s = [r EXCEPT !.fixtureCode = s.fixtureCode, !.executed = s.executed, !.outside = s.outside,
                      !.loaded = s.loaded, !.ran = s.ran, !.pending = s.pending, !.threads = s.threads]
    BY <1>1, <1>3, <1>4, <1>5 DEF RecorderState
  <2> QED BY <1>1, <2>2, <2>3 DEF RecorderState, ThreadRecords
<1>11. recorder' = [recorder EXCEPT ![p] = s]
  BY <1>2, <1>4
<1> HIDE DEF r, s
<1>12. ProfileStep(r, s, calls)
  BY <1>2, <1>5 DEF loaded, ran, calls, ProfileStep
<1> QED BY <1>7, <1>10, <1>11, <1>12 DEF Only, r, s

(* A thread begins a call. *)
CallsStep(r, s, th, n, new) ==
  /\ r.stage \notin {"written", "crashed"}
  /\ th \in r.threads /\ th.calling = {} /\ n \in th.todo
  /\ new = [th EXCEPT !.todo = @ \ {n}, !.ran = @ \cup {n}, !.calling = {n}]
  /\ s.threads = (r.threads \ {th}) \cup {new}
  /\ s.fixtureCode = FixtureCodeAfter(r, Described({n}))
  /\ s.stage = r.stage /\ s.mine = r.mine /\ s.loaded = r.loaded /\ s.pending = r.pending /\ s.ran = r.ran
  /\ s.current = r.current /\ s.fixture = r.fixture /\ s.ready = r.ready /\ s.broken = r.broken
  /\ s.executed = r.executed /\ s.outside = r.outside /\ s.outcome = r.outcome /\ s.unseen = r.unseen

(* ThreadCalls: the fields after it. *)
LEMMA CallsFields ==
  ASSUME NEW p \in Shards, Recorders, ThreadCalls(p)
  PROVE  Only(p) /\ \E th, n, new : CallsStep(recorder[p], recorder'[p], th, n, new)
<1> DEFINE r == recorder[p]
           s == recorder'[p]
<1>1. r \in RecorderState
  BY DEF Recorders
<1>2. PICK th \in r.threads :
        /\ th.calling = {}
        /\ \E n \in th.todo :
             Moves(p, [CoverFixture(r, Described({n})) EXCEPT
                         !.threads = (@ \ {th}) \cup {[th EXCEPT !.todo = @ \ {n}, !.ran = @ \cup {n},
                                                                 !.calling = {n}]}])
  BY DEF ThreadCalls
<1>3. PICK n \in th.todo :
        Moves(p, [CoverFixture(r, Described({n})) EXCEPT
                    !.threads = (@ \ {th}) \cup {[th EXCEPT !.todo = @ \ {n}, !.ran = @ \cup {n},
                                                            !.calling = {n}]}])
  BY <1>2
<1> DEFINE new == [th EXCEPT !.todo = @ \ {n}, !.ran = @ \cup {n}, !.calling = {n}]
           c == CoverFixture(r, Described({n}))
           code == FixtureCodeAfter(r, Described({n}))
<1>4. c = [r EXCEPT !.fixtureCode = code]
  BY <1>1, CoverFields, Zenon
<1>5. recorder' = [recorder EXCEPT ![p] = [c EXCEPT !.threads = (@ \ {th}) \cup {new}]]
  BY <1>3 DEF Moves
<1>6. th \in ThreadRecords
  BY <1>1, <1>2 DEF RecorderState, ThreadRecords
<1>7. new \in ThreadRecords
  BY <1>3, <1>6 DEF ThreadRecords
<1>8. code \in [Fixtures -> SUBSET Symbols]
  <2>1. Described({n}) \in SUBSET Symbols
    BY DescribedUnion
  <2> QED BY <1>1, <2>1, AfterGrows
<1> HIDE DEF c, new, code
<1>9. s = [c EXCEPT !.threads = (@ \ {th}) \cup {new}]
  BY <1>5 DEF Recorders
<1>10. s = [r EXCEPT !.fixtureCode = code, !.threads = (r.threads \ {th}) \cup {new}]
  BY <1>1, <1>4, <1>9 DEF RecorderState
<1>11. s \in RecorderState
  <2> DEFINE threads == (r.threads \ {th}) \cup {new}
  <2>1. threads \in SUBSET ThreadRecords
    BY <1>1, <1>7 DEF RecorderState, ThreadRecords
  <2>2. s = [r EXCEPT !.fixtureCode = code, !.threads = threads]
    BY <1>10
  <2> HIDE DEF threads, r, s
  <2> QED BY <1>1, <1>8, <2>1, <2>2 DEF RecorderState, ThreadRecords
<1>12. recorder' = [recorder EXCEPT ![p] = s]
  BY <1>5, <1>9
<1>13. r.stage \notin {"written", "crashed"}
  BY DEF ThreadCalls
<1> HIDE DEF r, s
<1>14. CallsStep(r, s, th, n, new)
  BY <1>1, <1>2, <1>10, <1>13 DEF CallsStep, new, code, RecorderState
<1> QED BY <1>11, <1>12, <1>14 DEF Only, r, s

(* The call of a thread is covered. *)
CoversStep(r, s, th, todo, rest) ==
  /\ r.stage \notin {"written", "crashed"}
  /\ th \in r.threads /\ th.calling # {}
  /\ s.loaded = r.loaded \cup (th.calling \cap Files)
  /\ todo = th.todo \cup ((Uses(Base, th.calling) \cup Receivers(Base, th.calling, s.loaded)) \ (th.ran \cup s.loaded))
  /\ rest = IF todo = {} THEN {} ELSE {[th EXCEPT !.todo = todo, !.calling = {}]}
  /\ s.threads = (r.threads \ {th}) \cup rest
  /\ s.executed = ExecutedAfter(r, Described(th.calling))
  /\ s.outside = OutsideAfter(r, Described(th.calling))
  /\ s.stage = r.stage /\ s.mine = r.mine /\ s.pending = r.pending /\ s.ran = r.ran
  /\ s.current = r.current /\ s.fixture = r.fixture /\ s.ready = r.ready /\ s.broken = r.broken
  /\ s.fixtureCode = r.fixtureCode /\ s.outcome = r.outcome /\ s.unseen = r.unseen

(* ThreadCovers: the fields after it. *)
LEMMA CoversFields ==
  ASSUME NEW p \in Shards, Recorders, ThreadCovers(p)
  PROVE  Only(p) /\ \E th, todo, rest : CoversStep(recorder[p], recorder'[p], th, todo, rest)
<1> DEFINE r == recorder[p]
           s == recorder'[p]
<1>1. r \in RecorderState
  BY DEF Recorders
<1>2. PICK th \in r.threads :
        /\ th.calling # {}
        /\ \E loaded \in {r.loaded \cup (th.calling \cap Files)} :
             \E todo \in {th.todo \cup ((Uses(Base, th.calling) \cup Receivers(Base, th.calling, loaded))
                                          \ (th.ran \cup loaded))} :
               Moves(p, [CoverTest(r, Described(th.calling)) EXCEPT
                           !.loaded = loaded,
                           !.threads = (@ \ {th}) \cup
                              (IF todo = {} THEN {} ELSE {[th EXCEPT !.todo = todo, !.calling = {}]})])
  BY DEF ThreadCovers
<1>3. PICK loaded \in {r.loaded \cup (th.calling \cap Files)} :
             \E todo \in {th.todo \cup ((Uses(Base, th.calling) \cup Receivers(Base, th.calling, loaded))
                                          \ (th.ran \cup loaded))} :
               Moves(p, [CoverTest(r, Described(th.calling)) EXCEPT
                           !.loaded = loaded,
                           !.threads = (@ \ {th}) \cup
                              (IF todo = {} THEN {} ELSE {[th EXCEPT !.todo = todo, !.calling = {}]})])
  BY <1>2
<1>4. PICK todo \in {th.todo \cup ((Uses(Base, th.calling) \cup Receivers(Base, th.calling, loaded))
                                          \ (th.ran \cup loaded))} :
               Moves(p, [CoverTest(r, Described(th.calling)) EXCEPT
                           !.loaded = loaded,
                           !.threads = (@ \ {th}) \cup
                              (IF todo = {} THEN {} ELSE {[th EXCEPT !.todo = todo, !.calling = {}]})])
  BY <1>3
<1> DEFINE rest == IF todo = {} THEN {} ELSE {[th EXCEPT !.todo = todo, !.calling = {}]}
           called == Described(th.calling)
           c == CoverTest(r, called)
           executed == ExecutedAfter(r, called)
           outside == OutsideAfter(r, called)
<1>5. c = [r EXCEPT !.executed = executed, !.outside = outside]
  BY <1>1, CoverFields, Zenon
<1>6. recorder' = [recorder EXCEPT ![p] = [c EXCEPT !.loaded = loaded, !.threads = (@ \ {th}) \cup rest]]
  BY <1>4 DEF Moves
<1>7. th \in ThreadRecords /\ r.loaded \subseteq Files
  BY <1>1, <1>2 DEF RecorderState, ThreadRecords
<1>8. loaded \subseteq Files
  BY <1>7
<1>9. todo \subseteq Nodes
  <2>1. th.calling \subseteq Nodes /\ th.todo \subseteq Nodes
    BY <1>7 DEF ThreadRecords
  <2>2. Uses(Base, th.calling) \subseteq Nodes
    BY <2>1, BaseIsCommit, ContentsType DEF Uses
  <2>3. Receivers(Base, th.calling, loaded) \subseteq Nodes
    BY DefinitionsAreNodes DEF Receivers
  <2> QED BY <2>1, <2>2, <2>3
<1>10. rest \subseteq ThreadRecords
  <2>1. [th EXCEPT !.todo = todo, !.calling = {}] \in ThreadRecords
    BY <1>7, <1>9 DEF ThreadRecords
  <2> QED BY <2>1
<1>11. executed \in [Tests -> SUBSET Symbols] /\ outside \in SUBSET Symbols
  <2>1. called \in SUBSET Symbols
    BY DescribedUnion
  <2> QED BY <1>1, <2>1, AfterGrows
<1> HIDE DEF c, rest, executed, outside, called
<1>12. s = [c EXCEPT !.loaded = loaded, !.threads = (@ \ {th}) \cup rest]
  BY <1>6 DEF Recorders
<1>13. s = [r EXCEPT !.executed = executed, !.outside = outside, !.loaded = loaded,
                     !.threads = (r.threads \ {th}) \cup rest]
  BY <1>1, <1>5, <1>12 DEF RecorderState
<1>14. s \in RecorderState
  <2> DEFINE threads == (r.threads \ {th}) \cup rest
  <2>1. threads \in SUBSET ThreadRecords
    BY <1>1, <1>10 DEF RecorderState, ThreadRecords
  <2>2. s = [r EXCEPT !.executed = executed, !.outside = outside, !.loaded = loaded, !.threads = threads]
    BY <1>13
  <2> HIDE DEF threads, r, s
  <2> QED BY <1>1, <1>8, <1>11, <2>1, <2>2 DEF RecorderState, ThreadRecords
<1>15. recorder' = [recorder EXCEPT ![p] = s]
  BY <1>6, <1>12
<1>16. r.stage \notin {"written", "crashed"}
  BY DEF ThreadCovers
<1>17. s.loaded = loaded /\ loaded = r.loaded \cup (th.calling \cap Files)
  BY <1>1, <1>13 DEF RecorderState
<1> HIDE DEF r, s
<1>18. CoversStep(r, s, th, todo, rest)
  <2>1. todo = th.todo \cup ((Uses(Base, th.calling) \cup Receivers(Base, th.calling, s.loaded))
                               \ (th.ran \cup s.loaded))
    BY <1>4, <1>17
  <2>2. /\ s.threads = (r.threads \ {th}) \cup rest
        /\ s.executed = executed /\ s.outside = outside
        /\ s.stage = r.stage /\ s.mine = r.mine /\ s.pending = r.pending /\ s.ran = r.ran
        /\ s.current = r.current /\ s.fixture = r.fixture /\ s.ready = r.ready /\ s.broken = r.broken
        /\ s.fixtureCode = r.fixtureCode /\ s.outcome = r.outcome /\ s.unseen = r.unseen
    BY <1>1, <1>13 DEF RecorderState
  <2> QED BY <1>2, <1>16, <1>17, <2>1, <2>2 DEF CoversStep, rest, executed, outside, called
<1> QED BY <1>14, <1>15, <1>18 DEF Only, r, s

------------------------------------------------------------------------------
(* What is accounted for stays so *)

(* What is accounted for stays so when more is on record and more is open. *)
LEMMA AccountedGrows ==
  ASSUME NEW X, NEW symbols, NEW free, NEW open, Accounted(X, symbols, free, open),
         NEW after, symbols \subseteq after, NEW later, open \subseteq later
  PROVE  Accounted(X, after, free, later)
BY DEF Accounted

(* So does a fixture that is ready, *)
LEMMA SharedGrows ==
  ASSUME NEW r, NEW s, NEW x, NEW t, Shared(r, x, t),
         r.fixtureCode[x] \subseteq s.fixtureCode[x], r.unseen[t] \subseteq s.unseen[t]
  PROVE  Shared(s, x, t)
<1>1. PICK Y \in SUBSET Nodes : SharedWith(r, x, t, Y)
  BY DEF Shared
<1>2. RunBy(r.unseen[t]) \subseteq RunBy(s.unseen[t])
  BY RunByGrows
<1>3. SharedWith(s, x, t, Y)
  BY <1>1, <1>2 DEF SharedWith, Accounted
<1> QED BY <1>3 DEF Shared

(* what ran before the first test, *)
LEMMA DoneGrows ==
  ASSUME NEW r, NEW s, Done(r), r.outside \subseteq s.outside,
         \A t \in Tests : r.unseen[t] \subseteq s.unseen[t]
  PROVE  Done(s)
<1>1. PICK O \in SUBSET Nodes : DoneWith(r, O)
  BY DEF Done
<1>2. \A t \in Tests : RunBy(r.unseen[t]) \subseteq RunBy(s.unseen[t])
  BY RunByGrows
<1>3. DoneWith(s, O)
  BY <1>1, <1>2 DEF DoneWith
<1> QED BY <1>3 DEF Done

(* and a test that passed. *)
LEMMA PassedGrows ==
  ASSUME NEW r, NEW s, PassedInv(r), NEW t \in Tests, r.outcome[t] = "passed",
         r.executed[t] \subseteq s.executed[t], r.unseen[t] \subseteq s.unseen[t],
         \A x \in Fixtures : r.fixtureCode[x] \subseteq s.fixtureCode[x]
  PROVE  \E X \in SUBSET Nodes : PassedWith(s, t, X)
<1>1. PICK X \in SUBSET Nodes : PassedWith(r, t, X)
  BY DEF PassedInv
<1>2. RunBy(r.unseen[t]) \subseteq RunBy(s.unseen[t])
  BY RunByGrows
<1>3. Covers(r, t) \subseteq Covers(s, t)
  BY RecordingAssumption DEF Covers
<1>4. PassedWith(s, t, X)
  BY <1>1, <1>2, <1>3 DEF PassedWith, Accounted
<1> QED BY <1>4

------------------------------------------------------------------------------
(* A wave *)

(* A wave is accounted for after it: what it calls is pending, open in a thread, or has run. *)
LEMMA WaveIsAccounted ==
  ASSUME NEW r \in RecorderState, NEW s \in RecorderState, NEW calls \in SUBSET Nodes,
         ProfileStep(r, s, calls), LoadedInv(r),
         NEW X \in SUBSET Nodes, NEW free, NEW symbols, NEW threads,
         Accounted(X, symbols, free, r.pending \cup Open(threads)), RanIn(r, threads, X),
         r.loaded \subseteq X \cup free
  PROVE  /\ Accounted(X \cup r.pending, symbols \cup Described(r.pending), free,
                      s.pending \cup Open(threads \cup Started(r.current, r.fixture, calls)))
         /\ RanIn(s, threads \cup Started(r.current, r.fixture, calls), X \cup r.pending)
         /\ s.loaded \subseteq X \cup r.pending \cup free
<1> DEFINE St == Started(r.current, r.fixture, calls)
           W == r.pending
           more == threads \cup St
           after == symbols \cup Described(W)
<1>1. /\ W \subseteq Nodes /\ r.current \in Tests \cup {NoTest} /\ r.fixture \in Fixtures \cup {NoFixture}
      /\ r.loaded \subseteq Files
  BY DEF RecorderState
<1>2. s.loaded = r.loaded \cup (W \cap Files) /\ s.ran = r.ran \cup W /\ s.pending = calls \ Threads
  BY DEF ProfileStep
<1>3. Collection(Base) \subseteq s.loaded /\ s.loaded \subseteq Files
  BY <1>1, <1>2, CollectionType DEF LoadedInv
<1>4. calls = Succ(W) \ (s.ran \cup s.loaded)
  BY <1>3, CallsAreSucc DEF ProfileStep
<1>5. \A th \in St : th.ran = {}
  BY <1>1, StartedType
<1>6. calls \cap Threads \subseteq Open(St)
  <2>1. CASE calls \cap Threads = {}
    BY <2>1
  <2>2. CASE calls \cap Threads # {}
    <3>1. St = {[test |-> r.current, fixture |-> r.fixture, runs |-> calls \cap Threads,
                 todo |-> calls \cap Threads, ran |-> {}, calling |-> {}]}
      BY <1>1, <2>2, StartedType, Zenon
    <3> QED BY <3>1 DEF Open
  <2> QED BY <2>1, <2>2
<1>7. Open(more) = Open(threads) \cup Open(St)
  BY DEF Open
<1> HIDE DEF St
<1>8. r.ran \subseteq X /\ \A th \in threads : th.ran \ th.calling \subseteq X
  BY DEF RanIn
<1>9. s.loaded \subseteq X \cup W \cup free
  BY <1>2
<1>10. Succ(X \cup W) = Succ(X) \cup Succ(W)
  BY SuccUnion
<1>11. Succ(X) \subseteq X \cup free \cup W \cup Open(threads)
  BY DEF Accounted
<1>12. Succ(W) \subseteq X \cup W \cup free \cup s.pending \cup Open(St)
  BY <1>2, <1>4, <1>6, <1>8, <1>9
<1>13. Described(X \cup W) \subseteq after
  BY DescribedUnion DEF Accounted
<1>14. Accounted(X \cup W, after, free, s.pending \cup Open(more))
  BY <1>1, <1>7, <1>10, <1>11, <1>12, <1>13 DEF Accounted
<1>15. RanIn(s, more, X \cup W)
  BY <1>2, <1>5, <1>8 DEF RanIn, St
<1> QED BY <1>9, <1>14, <1>15, Zenon DEF St

(* Profile keeps the invariant of its process. *)
LEMMA ProfileKeeps ==
  ASSUME NEW p, NEW r \in RecorderState, NEW s \in RecorderState, NEW calls \in SUBSET Nodes,
         ProfileStep(r, s, calls), RecorderInv(p, r)
  PROVE  RecorderInv(p, s)
<1> DEFINE St == Started(r.current, r.fixture, calls)
           W == r.pending
           called == Described(W)
<1>1. /\ s.stage = r.stage /\ s.mine = r.mine /\ s.current = r.current /\ s.fixture = r.fixture
      /\ s.ready = r.ready /\ s.broken = r.broken /\ s.outcome = r.outcome /\ s.unseen = r.unseen
      /\ s.threads = r.threads \cup St /\ s.loaded = r.loaded \cup (W \cap Files)
      /\ r.stage \notin {"written", "crashed"}
  BY DEF ProfileStep
<1>2. /\ r.current \in Tests \cup {NoTest} /\ r.fixture \in Fixtures \cup {NoFixture}
      /\ r.loaded \subseteq Files /\ W \subseteq Nodes
  BY DEF RecorderState
<1>3. /\ \A x \in Fixtures : r.fixtureCode[x] \subseteq s.fixtureCode[x]
      /\ \A t \in Tests : r.executed[t] \subseteq s.executed[t]
      /\ r.outside \subseteq s.outside
      /\ r.fixture # NoFixture => called \subseteq s.fixtureCode[r.fixture]
      /\ r.current # NoTest => called \subseteq s.executed[r.current]
      /\ r.current = NoTest => called \subseteq s.outside
  <2>1. called \in SUBSET Symbols
    BY DescribedUnion
  <2>2. /\ s.executed = ExecutedAfter(r, called) /\ s.fixtureCode = FixtureCodeAfter(r, called)
        /\ s.outside = OutsideAfter(r, called)
    BY DEF ProfileStep
  <2> HIDE DEF called
  <2> QED BY <2>1, <2>2, AfterGrows
<1>4. \A th \in St : /\ th.test = r.current /\ th.fixture = r.fixture /\ th.ran = {} /\ th.calling = {}
                     /\ th.runs = calls \cap Threads /\ th.todo = calls \cap Threads
  <2>1. \/ St = {}
        \/ St = {[test |-> r.current, fixture |-> r.fixture, runs |-> calls \cap Threads,
                  todo |-> calls \cap Threads, ran |-> {}, calling |-> {}]}
    BY <1>2, StartedType, Zenon
  <2> HIDE DEF St
  <2> QED BY <2>1
<1> HIDE DEF St, called
<1>5. StageInv(p, s)
  BY <1>1 DEF RecorderInv, StageInv
<1>6. LoadedInv(s)
  BY <1>1, CollectionType DEF RecorderInv, LoadedInv
<1>7. ThreadsInv(s)
  <2> SUFFICES ASSUME NEW th \in s.threads PROVE ThreadInv(s, th)
    BY DEF ThreadsInv
  <2>1. CASE th \in r.threads
    <3>1. ThreadInv(r, th)
      BY <2>1 DEF RecorderInv, ThreadsInv
    <3>2. r.fixture # NoFixture => r.fixtureCode[r.fixture] \subseteq s.fixtureCode[r.fixture]
      BY <1>2, <1>3
    <3> QED BY <1>1, <3>1, <3>2 DEF ThreadInv
  <2>2. CASE th \in St
    <3>1. calls \cap Threads \subseteq RunBy(calls \cap Threads)
      BY RunByClosed
    <3>2. Described({}) = {}
      BY DescribedUnion
    <3> QED BY <1>1, <1>4, <2>2, <3>1, <3>2 DEF ThreadInv
  <2> QED BY <1>1, <2>1, <2>2
<1>8. Fresh(s) \/ Done(s)
  <2>1. CASE Done(r)
    BY <1>1, <1>3, <2>1, DoneGrows
  <2>2. CASE Fresh(r)
    <3>1. PICK O \in SUBSET Nodes : FreshWith(r, O)
      BY <2>2 DEF Fresh
    <3>2. r.current = NoTest
      BY <2>2 DEF Fresh
    <3> DEFINE P == O \cup W
    <3>3. /\ Accounted(P, s.outside, {}, s.pending \cup Open(s.threads)) /\ RanIn(s, s.threads, P)
          /\ s.loaded \subseteq P \cup {}
      <4>1. r.outside \cup called \subseteq s.outside
        BY <1>3, <3>2
      <4>2. /\ Accounted(O, r.outside, {}, r.pending \cup Open(r.threads)) /\ RanIn(r, r.threads, O)
            /\ r.loaded \subseteq O \cup {}
        BY <3>1 DEF FreshWith
      <4>3. s.threads = r.threads \cup Started(r.current, r.fixture, calls)
        BY <1>1 DEF St
      <4>4. LoadedInv(r)
        BY DEF RecorderInv
      <4>6. /\ Accounted(O \cup r.pending, r.outside \cup Described(r.pending), {},
                         s.pending \cup Open(r.threads \cup Started(r.current, r.fixture, calls)))
            /\ RanIn(s, r.threads \cup Started(r.current, r.fixture, calls), O \cup r.pending)
            /\ s.loaded \subseteq O \cup r.pending \cup {}
        BY <4>2, <4>4, WaveIsAccounted
      <4>5. /\ Accounted(P, r.outside \cup called, {}, s.pending \cup Open(s.threads))
            /\ RanIn(s, s.threads, P) /\ s.loaded \subseteq P \cup {}
        BY <4>3, <4>6, Zenon DEF called
      <4> QED BY <4>1, <4>5, AccountedGrows, Zenon
    <3>4. FreshWith(s, P)
      BY <3>1, <3>3 DEF FreshWith
    <3>5. P \in SUBSET Nodes
      BY <1>2
    <3>6. /\ \A t \in Tests : s.outcome[t] = "none"
          /\ s.current = NoTest /\ \A th \in s.threads : th.test = NoTest
      BY <1>1, <1>4, <2>2 DEF Fresh
    <3> QED BY <3>4, <3>5, <3>6 DEF Fresh
  <2> QED BY <2>1, <2>2 DEF RecorderInv
<1>9. SharedInv(s)
  <2> SUFFICES ASSUME NEW t \in Tests, s.outcome[t] = "none", t # s.current, NEW x \in s.ready \cap Closure[t]
               PROVE  Shared(s, x, t)
    BY DEF SharedInv
  <2>1. Shared(r, x, t)
    BY <1>1 DEF RecorderInv, SharedInv
  <2>2. x \in Fixtures
    BY RecordingAssumption
  <2> QED BY <1>1, <1>3, <2>1, <2>2, SharedGrows
<1>10. RunningInv(s)
  <2> SUFFICES ASSUME s.stage \in {"setup", "call"}
               PROVE  \E E \in SUBSET Nodes : RunsWith(s, s.current, E)
    BY DEF RunningInv
  <2> DEFINE t == r.current
  <2>1. PICK E \in SUBSET Nodes : RunsWith(r, t, E)
    BY <1>1 DEF RecorderInv, RunningInv
  <2>2. t \in Tests /\ t # NoTest
    BY <1>1, NobodyAssumption DEF RecorderInv, StageInv
  <2> DEFINE F == E \cup W
  <2> HIDE DEF t
  <2>3. /\ Accounted(F, s.executed[t], Files, s.pending \cup Open(ThreadsOf(s, t)))
        /\ RanIn(s, ThreadsOf(s, t), F)
    <3>1. r.executed[t] \cup called \subseteq s.executed[t]
      BY <1>3, <2>2 DEF t
    <3>2. /\ Accounted(E, r.executed[t], Files, r.pending \cup Open(ThreadsOf(r, t)))
          /\ RanIn(r, ThreadsOf(r, t), E) /\ r.loaded \subseteq E \cup Files
      BY <1>2, <2>1 DEF RunsWith
    <3>3. ThreadsOf(s, t) = ThreadsOf(r, t) \cup Started(r.current, r.fixture, calls)
      BY <1>1, <1>4 DEF ThreadsOf, St, t
    <3>4. LoadedInv(r)
      BY DEF RecorderInv
    <3>6. /\ Accounted(E \cup r.pending, r.executed[t] \cup Described(r.pending), Files,
                         s.pending \cup Open(ThreadsOf(r, t) \cup Started(r.current, r.fixture, calls)))
          /\ RanIn(s, ThreadsOf(r, t) \cup Started(r.current, r.fixture, calls), E \cup r.pending)
      <4> DEFINE symbols == r.executed[t]
                 threads == ThreadsOf(r, t)
      <4>1. /\ Accounted(E, symbols, Files, r.pending \cup Open(threads)) /\ RanIn(r, threads, E)
            /\ r.loaded \subseteq E \cup Files
        BY <3>2
      <4> HIDE DEF symbols, threads
      <4>2. /\ Accounted(E \cup r.pending, symbols \cup Described(r.pending), Files,
                         s.pending \cup Open(threads \cup Started(r.current, r.fixture, calls)))
            /\ RanIn(s, threads \cup Started(r.current, r.fixture, calls), E \cup r.pending)
        BY <3>4, <4>1, WaveIsAccounted
      <4> QED BY <4>2 DEF symbols, threads
    <3>5. /\ Accounted(F, r.executed[t] \cup called, Files, s.pending \cup Open(ThreadsOf(s, t)))
          /\ RanIn(s, ThreadsOf(s, t), F)
      BY <3>3, <3>6, Zenon DEF called
    <3> QED BY <3>1, <3>5, AccountedGrows, Zenon
  <2>4. \A x \in s.ready \cap Closure[t] : x \in F \/ Shared(s, x, t)
    <3> SUFFICES ASSUME NEW x \in s.ready \cap Closure[t], x \notin E PROVE Shared(s, x, t)
      OBVIOUS
    <3>1. Shared(r, x, t)
      BY <1>1, <2>1 DEF RunsWith
    <3>2. x \in Fixtures
      BY <2>2, RecordingAssumption
    <3> QED BY <1>1, <1>3, <2>2, <3>1, <3>2, SharedGrows
  <2>5. RunsWith(s, t, F)
    BY <1>1, <2>1, <2>3, <2>4 DEF RunsWith
  <2> QED BY <1>1, <1>2, <2>5 DEF t
<1>11. SettingUpInv(s)
  <2> SUFFICES ASSUME s.fixture # NoFixture
               PROVE  \E Y \in SUBSET Nodes : SetsUpWith(s, s.fixture, Y)
    BY DEF SettingUpInv
  <2> DEFINE x == r.fixture
  <2>1. PICK Y \in SUBSET Nodes : SetsUpWith(r, x, Y)
    BY <1>1 DEF RecorderInv, SettingUpInv
  <2>2. x \in Fixtures
    BY <1>1, <1>2
  <2> DEFINE Z == Y \cup W
  <2> HIDE DEF x
  <2>3. /\ Accounted(Z, s.fixtureCode[x], Files, s.pending \cup Open(OfFixture(s, x)))
        /\ RanIn(s, OfFixture(s, x), Z)
    <3>1. r.fixtureCode[x] \cup called \subseteq s.fixtureCode[x]
      BY <1>1, <1>3, <2>2 DEF x
    <3>2. /\ Accounted(Y, r.fixtureCode[x], Files, r.pending \cup Open(OfFixture(r, x)))
          /\ RanIn(r, OfFixture(r, x), Y) /\ r.loaded \subseteq Y \cup Files
      BY <1>2, <2>1 DEF SetsUpWith
    <3>3. OfFixture(s, x) = OfFixture(r, x) \cup Started(r.current, r.fixture, calls)
      BY <1>1, <1>4 DEF OfFixture, St, x
    <3>4. LoadedInv(r)
      BY DEF RecorderInv
    <3>6. /\ Accounted(Y \cup r.pending, r.fixtureCode[x] \cup Described(r.pending), Files,
                         s.pending \cup Open(OfFixture(r, x) \cup Started(r.current, r.fixture, calls)))
          /\ RanIn(s, OfFixture(r, x) \cup Started(r.current, r.fixture, calls), Y \cup r.pending)
      BY <3>2, <3>4, WaveIsAccounted
    <3>5. /\ Accounted(Z, r.fixtureCode[x] \cup called, Files, s.pending \cup Open(OfFixture(s, x)))
          /\ RanIn(s, OfFixture(s, x), Z)
      BY <3>3, <3>6, Zenon DEF called
    <3> QED BY <3>1, <3>5, AccountedGrows, Zenon
  <2>4. SetsUpWith(s, x, Z)
    BY <1>1, <2>1, <2>3 DEF SetsUpWith
  <2> QED BY <1>1, <1>2, <2>4 DEF x
<1>12. PassedInv(s)
  <2> SUFFICES ASSUME NEW t \in Tests, s.outcome[t] = "passed"
               PROVE  \E X \in SUBSET Nodes : PassedWith(s, t, X)
    BY DEF PassedInv
  <2> QED BY <1>1, <1>3, PassedGrows DEF RecorderInv
<1> QED BY <1>5, <1>6, <1>7, <1>8, <1>9, <1>10, <1>11, <1>12 DEF RecorderInv

------------------------------------------------------------------------------
(* A call of a thread *)

\* Thread th of A becomes `rest` in B, or was not in A.
Replaced(A, B, th, rest) == \/ th \in A /\ B = (A \ {th}) \cup rest
                            \/ th \notin A /\ B = A

(* What is open stays open when a thread begins a call. *)
LEMMA CallStaysOpen ==
  ASSUME NEW th, NEW new, NEW A, NEW B, Replaced(A, B, th, {new}),
         th.todo \cup th.calling \subseteq new.todo \cup new.calling,
         new.ran \ new.calling \subseteq th.ran \ th.calling
  PROVE  /\ Open(A) \subseteq Open(B)
         /\ \A r, X : RanIn(r, A, X) => RanIn(r, B, X)
<1>1. CASE th \notin A /\ B = A
  BY <1>1
<1>2. CASE th \in A /\ B = (A \ {th}) \cup {new}
  <2>1. Open(A) \subseteq Open(B)
    <3> SUFFICES ASSUME NEW other \in A, NEW m \in other.todo \cup other.calling PROVE m \in Open(B)
      BY DEF Open
    <3>1. CASE other = th
      BY <1>2, <3>1 DEF Open
    <3>2. CASE other # th
      BY <1>2, <3>2 DEF Open
    <3> QED BY <3>1, <3>2
  <2>2. ASSUME NEW r, NEW X, RanIn(r, A, X) PROVE RanIn(r, B, X)
    BY <1>2, <2>2 DEF RanIn
  <2> QED BY <2>1, <2>2
<1> QED BY <1>1, <1>2 DEF Replaced

(* ThreadCalls keeps the invariant: the half of cover for the fixture. *)
LEMMA CallsKeep ==
  ASSUME NEW p, NEW r \in RecorderState, NEW s \in RecorderState, NEW th, NEW n, NEW new,
         CallsStep(r, s, th, n, new), RecorderInv(p, r)
  PROVE  RecorderInv(p, s)
<1>1. /\ s.stage = r.stage /\ s.mine = r.mine /\ s.loaded = r.loaded /\ s.pending = r.pending /\ s.ran = r.ran
      /\ s.current = r.current /\ s.fixture = r.fixture /\ s.ready = r.ready /\ s.broken = r.broken
      /\ s.executed = r.executed /\ s.outside = r.outside /\ s.outcome = r.outcome /\ s.unseen = r.unseen
      /\ s.threads = (r.threads \ {th}) \cup {new}
      /\ r.stage \notin {"written", "crashed"}
  BY DEF CallsStep
<1>2. r.threads \subseteq ThreadRecords /\ r.fixture \in Fixtures \cup {NoFixture}
  BY DEF RecorderState, ThreadRecords
<1>3. /\ th \in ThreadRecords /\ th \in r.threads /\ n \in th.todo /\ th.calling = {}
      /\ new = [th EXCEPT !.todo = @ \ {n}, !.ran = @ \cup {n}, !.calling = {n}]
  BY <1>2 DEF CallsStep
<1>4. /\ new.test = th.test /\ new.fixture = th.fixture /\ new.runs = th.runs
      /\ new.todo = th.todo \ {n} /\ new.calling = {n} /\ new.ran = th.ran \cup {n}
  BY <1>3 DEF ThreadRecords
<1>5. /\ \A x \in Fixtures : r.fixtureCode[x] \subseteq s.fixtureCode[x]
      /\ r.fixture # NoFixture => Described({n}) \subseteq s.fixtureCode[r.fixture]
  <2>1. Described({n}) \in SUBSET Symbols
    BY DescribedUnion
  <2>2. s.fixtureCode = FixtureCodeAfter(r, Described({n}))
    BY DEF CallsStep
  <2> QED BY <2>1, <2>2, AfterGrows
<1>6. ASSUME NEW A, NEW B, Replaced(A, B, th, {new})
      PROVE  /\ Open(A) \subseteq Open(B)
             /\ \A X : RanIn(r, A, X) => RanIn(s, B, X)
  <2>1. /\ th.todo \cup th.calling \subseteq new.todo \cup new.calling
        /\ new.ran \ new.calling \subseteq th.ran \ th.calling
    BY <1>3, <1>4
  <2>2. Open(A) \subseteq Open(B) /\ \A X : RanIn(r, A, X) => RanIn(r, B, X)
    BY <1>6, <2>1, CallStaysOpen, Zenon
  <2> QED BY <1>1, <2>2 DEF RanIn
<1>7. StageInv(p, s)
  BY <1>1 DEF RecorderInv, StageInv
<1>8. LoadedInv(s)
  BY <1>1, <1>3 DEF RecorderInv, LoadedInv
<1>9. ThreadsInv(s)
  <2> SUFFICES ASSUME NEW other \in s.threads PROVE ThreadInv(s, other)
    BY DEF ThreadsInv
  <2>1. CASE other \in r.threads
    <3>1. ThreadInv(r, other)
      BY <2>1 DEF RecorderInv, ThreadsInv
    <3>2. r.fixture # NoFixture => r.fixtureCode[r.fixture] \subseteq s.fixtureCode[r.fixture]
      BY <1>2, <1>5
    <3> QED BY <1>1, <3>1, <3>2 DEF ThreadInv
  <2>2. CASE other = new
    <3>1. ThreadInv(r, th)
      BY <1>3 DEF RecorderInv, ThreadsInv
    <3> QED BY <1>1, <1>3, <1>4, <1>5, <2>2, <3>1 DEF ThreadInv
  <2> QED BY <1>1, <2>1, <2>2
<1>10. Fresh(s) \/ Done(s)
  <2>1. CASE Done(r)
    BY <1>1, <2>1, DoneGrows
  <2>2. CASE Fresh(r)
    <3>1. PICK O \in SUBSET Nodes : FreshWith(r, O)
      BY <2>2 DEF Fresh
    <3>2. Open(r.threads) \subseteq Open(s.threads) /\ (RanIn(r, r.threads, O) => RanIn(s, s.threads, O))
      BY <1>1, <1>3, <1>6 DEF Replaced
    <3>3. FreshWith(s, O)
      BY <1>1, <3>1, <3>2 DEF FreshWith, Accounted
    <3>4. /\ \A t \in Tests : s.outcome[t] = "none"
          /\ s.current = NoTest /\ \A other \in s.threads : other.test = NoTest
      BY <1>1, <1>3, <1>4, <2>2 DEF Fresh
    <3> QED BY <3>3, <3>4 DEF Fresh
  <2> QED BY <2>1, <2>2 DEF RecorderInv
<1>11. ASSUME NEW t \in Tests, NEW x \in Closure[t], Shared(r, x, t) PROVE Shared(s, x, t)
  <2>1. x \in Fixtures
    BY RecordingAssumption
  <2> QED BY <1>1, <1>5, <1>11, <2>1, SharedGrows
<1>12. SharedInv(s)
  BY <1>1, <1>11 DEF RecorderInv, SharedInv
<1>13. RunningInv(s)
  <2> SUFFICES ASSUME s.stage \in {"setup", "call"}
               PROVE  \E E \in SUBSET Nodes : RunsWith(s, s.current, E)
    BY DEF RunningInv
  <2>1. PICK t : t = r.current
    OBVIOUS
  <2>2. PICK E \in SUBSET Nodes : RunsWith(r, t, E)
    BY <1>1, <2>1 DEF RecorderInv, RunningInv
  <2>3. t \in Tests
    BY <1>1, <2>1 DEF RecorderInv, StageInv
  <2>4. Replaced(ThreadsOf(r, t), ThreadsOf(s, t), th, {new})
    <3>1. CASE th.test = t
      BY <1>1, <1>3, <1>4, <3>1 DEF ThreadsOf, Replaced
    <3>2. CASE th.test # t
      <4>1. th \notin ThreadsOf(r, t) /\ new.test # t
        BY <1>4, <3>2 DEF ThreadsOf
      <4>2. ThreadsOf(s, t) = ThreadsOf(r, t)
        BY <1>1, <3>2, <4>1, Zenon DEF ThreadsOf
      <4> QED BY <4>1, <4>2 DEF Replaced
    <3> QED BY <3>1, <3>2
  <2>5. /\ Open(ThreadsOf(r, t)) \subseteq Open(ThreadsOf(s, t))
        /\ RanIn(r, ThreadsOf(r, t), E) => RanIn(s, ThreadsOf(s, t), E)
    BY <1>6, <2>4
  <2>6. \A x \in s.ready \cap Closure[t] : x \in E \/ Shared(s, x, t)
    BY <1>1, <1>11, <2>2, <2>3 DEF RunsWith
  <2>7. RunsWith(s, t, E)
    BY <1>1, <2>2, <2>5, <2>6 DEF RunsWith, Accounted
  <2> QED BY <1>1, <2>1, <2>7
<1>14. SettingUpInv(s)
  <2> SUFFICES ASSUME s.fixture # NoFixture
               PROVE  \E Y \in SUBSET Nodes : SetsUpWith(s, s.fixture, Y)
    BY DEF SettingUpInv
  <2>1. PICK x : x = r.fixture
    OBVIOUS
  <2>2. PICK Y \in SUBSET Nodes : SetsUpWith(r, x, Y)
    BY <1>1, <2>1 DEF RecorderInv, SettingUpInv
  <2>3. Replaced(OfFixture(r, x), OfFixture(s, x), th, {new})
    <3>1. CASE th.fixture = x
      BY <1>1, <1>3, <1>4, <3>1 DEF OfFixture, Replaced
    <3>2. CASE th.fixture # x
      <4>1. th \notin OfFixture(r, x) /\ new.fixture # x
        BY <1>4, <3>2 DEF OfFixture
      <4>2. OfFixture(s, x) = OfFixture(r, x)
        BY <1>1, <3>2, <4>1, Zenon DEF OfFixture
      <4> QED BY <4>1, <4>2 DEF Replaced
    <3> QED BY <3>1, <3>2
  <2>4. /\ Open(OfFixture(r, x)) \subseteq Open(OfFixture(s, x))
        /\ RanIn(r, OfFixture(r, x), Y) => RanIn(s, OfFixture(s, x), Y)
    BY <1>6, <2>3
  <2>5. r.fixtureCode[x] \subseteq s.fixtureCode[x]
    BY <1>1, <1>2, <1>5, <2>1
  <2>6. SetsUpWith(s, x, Y)
    BY <1>1, <2>2, <2>4, <2>5 DEF SetsUpWith, Accounted
  <2> QED BY <1>1, <2>1, <2>6
<1>15. PassedInv(s)
  <2> SUFFICES ASSUME NEW t \in Tests, s.outcome[t] = "passed"
               PROVE  \E X \in SUBSET Nodes : PassedWith(s, t, X)
    BY DEF PassedInv
  <2> QED BY <1>1, <1>5, PassedGrows DEF RecorderInv
<1> QED BY <1>7, <1>8, <1>9, <1>10, <1>12, <1>13, <1>14, <1>15 DEF RecorderInv

(* What a thread has called is accounted for when it is covered. *)
LEMMA CoverIsAccounted ==
  ASSUME NEW r \in RecorderState, NEW s \in RecorderState, NEW th, NEW todo, NEW rest,
         CoversStep(r, s, th, todo, rest), LoadedInv(r), ThreadsInv(r),
         NEW X \in SUBSET Nodes, NEW free, NEW symbols, NEW A, NEW B, th \in A, Replaced(A, B, th, rest),
         Accounted(X, symbols, free, r.pending \cup Open(A)), RanIn(r, A, X),
         r.loaded \subseteq X \cup free
  PROVE  /\ Accounted(X \cup th.calling, symbols \cup Described(th.calling), free, s.pending \cup Open(B))
         /\ RanIn(s, B, X \cup th.calling)
         /\ s.loaded \subseteq X \cup th.calling \cup free
<1> DEFINE C == th.calling
<1>0. B = (A \ {th}) \cup rest
  BY DEF Replaced
<1>1. /\ th \in r.threads /\ r.threads \subseteq ThreadRecords /\ r.loaded \subseteq Files
  BY DEF CoversStep, RecorderState, ThreadRecords
<1>2. th \in ThreadRecords /\ C \subseteq Nodes /\ C \subseteq th.ran
  BY <1>1 DEF ThreadRecords, RecorderInv, ThreadsInv, ThreadInv
<1>3. s.loaded = r.loaded \cup (C \cap Files) /\ s.ran = r.ran /\ s.pending = r.pending
  BY DEF CoversStep
<1>4. Collection(Base) \subseteq s.loaded /\ s.loaded \subseteq Files
  BY <1>1, <1>3 DEF RecorderInv, LoadedInv
<1>5. todo = th.todo \cup (Succ(C) \ (th.ran \cup s.loaded))
  BY <1>4, CallsAreSucc DEF CoversStep
<1>6. \A new \in rest : new.todo = todo /\ new.calling = {} /\ new.ran = th.ran
  BY <1>2 DEF CoversStep, ThreadRecords
<1>7. todo \subseteq Open(rest)
  <2>1. CASE todo = {}
    BY <2>1
  <2>2. CASE todo # {}
    <3>1. PICK new : new \in rest
      BY <2>2 DEF CoversStep
    <3>2. new.todo = todo
      BY <1>6, <3>1
    <3> QED BY <3>1, <3>2 DEF Open
  <2> QED BY <2>1, <2>2
<1> HIDE DEF C
<1>8. Open(A) \subseteq Open(B) \cup C
  <2> SUFFICES ASSUME NEW other \in A, NEW m \in other.todo \cup other.calling, m \notin C PROVE m \in Open(B)
    BY DEF Open
  <2>1. CASE other = th
    BY <1>0, <1>5, <1>7, <2>1 DEF Open, C
  <2>2. CASE other # th
    BY <1>0, <2>2 DEF Open
  <2> QED BY <2>1, <2>2
<1>9. todo \subseteq Open(B)
  BY <1>0, <1>7 DEF Open
<1>10. r.ran \subseteq X /\ (\A other \in A : other.ran \ other.calling \subseteq X) /\ th.ran \subseteq X \cup C
  BY DEF RanIn, C
<1>11. s.loaded \subseteq X \cup C \cup free
  BY <1>3
<1>12. Succ(X) \subseteq X \cup free \cup r.pending \cup Open(B) \cup C
  BY <1>8 DEF Accounted
<1>13. Succ(C) \subseteq X \cup C \cup free \cup Open(B)
  BY <1>5, <1>9, <1>10, <1>11
<1>14. Succ(X \cup C) = Succ(X) \cup Succ(C) /\ Described(X \cup C) = Described(X) \cup Described(C)
  BY SuccUnion, DescribedUnion
<1>15. Accounted(X \cup C, symbols \cup Described(C), free, s.pending \cup Open(B))
  BY <1>2, <1>3, <1>12, <1>13, <1>14 DEF Accounted
<1>16. RanIn(s, B, X \cup C)
  BY <1>0, <1>3, <1>6, <1>10 DEF RanIn
<1> QED BY <1>11, <1>15, <1>16 DEF C

(* ThreadCovers keeps it: the half for the test, which may be another one by now. *)
LEMMA CoversKeep ==
  ASSUME NEW p, NEW r \in RecorderState, NEW s \in RecorderState, NEW th, NEW todo, NEW rest,
         CoversStep(r, s, th, todo, rest), RecorderInv(p, r)
  PROVE  RecorderInv(p, s)
<1> DEFINE C == th.calling
           called == Described(C)
<1>1. /\ s.stage = r.stage /\ s.mine = r.mine /\ s.pending = r.pending /\ s.ran = r.ran
      /\ s.current = r.current /\ s.fixture = r.fixture /\ s.ready = r.ready /\ s.broken = r.broken
      /\ s.fixtureCode = r.fixtureCode /\ s.outcome = r.outcome /\ s.unseen = r.unseen
      /\ s.threads = (r.threads \ {th}) \cup rest /\ s.loaded = r.loaded \cup (C \cap Files)
      /\ r.stage \notin {"written", "crashed"} /\ th \in r.threads
  BY DEF CoversStep
<1>2. /\ r.threads \subseteq ThreadRecords /\ r.current \in Tests \cup {NoTest}
      /\ r.loaded \subseteq Files /\ th \in ThreadRecords
  BY <1>1 DEF RecorderState, ThreadRecords
<1>3. /\ ThreadInv(r, th) /\ LoadedInv(r) /\ ThreadsInv(r)
  BY <1>1 DEF RecorderInv, ThreadsInv
<1>4. \A new \in rest :
        /\ new.test = th.test /\ new.fixture = th.fixture /\ new.runs = th.runs
        /\ new.todo = todo /\ new.calling = {} /\ new.ran = th.ran
  BY <1>2 DEF CoversStep, ThreadRecords
<1>5. /\ \A t \in Tests : r.executed[t] \subseteq s.executed[t]
      /\ r.outside \subseteq s.outside
      /\ r.current # NoTest => called \subseteq s.executed[r.current]
      /\ r.current = NoTest => called \subseteq s.outside
  <2>1. called \in SUBSET Symbols
    BY DescribedUnion
  <2>2. s.executed = ExecutedAfter(r, called) /\ s.outside = OutsideAfter(r, called)
    BY DEF CoversStep
  <2> HIDE DEF called
  <2> QED BY <2>1, <2>2, AfterGrows
<1>6. Collection(Base) \subseteq r.loaded
  BY <1>1, <1>3 DEF LoadedInv
<1> HIDE DEF called, C
<1>7. StageInv(p, s)
  BY <1>1 DEF RecorderInv, StageInv
<1>8. LoadedInv(s)
  BY <1>1, <1>6 DEF LoadedInv
<1>9. ThreadsInv(s)
  <2> SUFFICES ASSUME NEW other \in s.threads PROVE ThreadInv(s, other)
    BY DEF ThreadsInv
  <2>1. CASE other \in r.threads
    <3>1. ThreadInv(r, other)
      BY <1>3, <2>1 DEF ThreadsInv
    <3> QED BY <1>1, <3>1 DEF ThreadInv
  <2>2. CASE other \in rest
    <3>1. todo \subseteq RunBy(th.runs)
      <4>1. todo = th.todo \cup (Succ(C) \ (th.ran \cup s.loaded))
        <5>1. Collection(Base) \subseteq s.loaded /\ s.loaded \subseteq Files
          BY <1>1, <1>2, <1>6
        <5> QED BY <5>1, CallsAreSucc DEF CoversStep, C
      <4>2. th.runs \in SUBSET (Threads \cup Fixtures)
        BY <1>2 DEF ThreadRecords
      <4>3. C \subseteq RunBy(th.runs) /\ th.todo \subseteq RunBy(th.runs)
        BY <1>3 DEF ThreadInv, C
      <4>4. Succ(C) \subseteq RunBy(th.runs)
        BY <4>2, <4>3, RunByCalls
      <4> QED BY <4>1, <4>3, <4>4
    <3>2. Described({}) = {}
      BY DescribedUnion
    <3> QED BY <1>1, <1>3, <1>4, <2>2, <3>1, <3>2 DEF ThreadInv
  <2> QED BY <1>1, <2>1, <2>2
<1>10. ASSUME NEW X \in SUBSET Nodes, NEW free, NEW symbols, NEW A, NEW B, th \in A, Replaced(A, B, th, rest),
              Accounted(X, symbols, free, r.pending \cup Open(A)), RanIn(r, A, X), r.loaded \subseteq X \cup free
       PROVE  /\ Accounted(X \cup C, symbols \cup called, free, s.pending \cup Open(B))
              /\ RanIn(s, B, X \cup C)
              /\ s.loaded \subseteq X \cup C \cup free
  <2>1. /\ Accounted(X \cup th.calling, symbols \cup Described(th.calling), free, s.pending \cup Open(B))
        /\ RanIn(s, B, X \cup th.calling)
        /\ s.loaded \subseteq X \cup th.calling \cup free
    BY <1>3, <1>10, CoverIsAccounted
  <2> QED BY <2>1, Zenon DEF C, called
<1>11. C \in SUBSET Nodes
  BY <1>2 DEF C, ThreadRecords
<1>12. Fresh(s) \/ Done(s)
  <2>1. CASE Done(r)
    BY <1>1, <1>5, <2>1, DoneGrows
  <2>2. CASE Fresh(r)
    <3>1. PICK O \in SUBSET Nodes : FreshWith(r, O)
      BY <2>2 DEF Fresh
    <3>2. r.current = NoTest
      BY <2>2 DEF Fresh
    <3>3. /\ Accounted(O, r.outside, {}, r.pending \cup Open(r.threads)) /\ RanIn(r, r.threads, O)
          /\ r.loaded \subseteq O \cup {}
      BY <3>1 DEF FreshWith
    <3>9. th \in r.threads /\ Replaced(r.threads, s.threads, th, rest)
      BY <1>1 DEF Replaced
    <3>4. /\ Accounted(O \cup C, r.outside \cup called, {}, s.pending \cup Open(s.threads))
          /\ RanIn(s, s.threads, O \cup C) /\ s.loaded \subseteq O \cup C \cup {}
      BY <1>1, <1>10, <3>3, <3>9
    <3>5. Accounted(O \cup C, s.outside, {}, s.pending \cup Open(s.threads))
      BY <1>5, <3>2, <3>4 DEF Accounted
    <3>6. FreshWith(s, O \cup C)
      BY <1>1, <3>1, <3>4, <3>5 DEF FreshWith
    <3>7. /\ \A t \in Tests : s.outcome[t] = "none"
          /\ s.current = NoTest /\ \A other \in s.threads : other.test = NoTest
      BY <1>1, <1>4, <2>2 DEF Fresh
    <3> QED BY <1>11, <3>6, <3>7 DEF Fresh
  <2> QED BY <2>1, <2>2 DEF RecorderInv
<1>13. ASSUME NEW t \in Tests, NEW x \in Closure[t], Shared(r, x, t) PROVE Shared(s, x, t)
  BY <1>1, <1>13, SharedGrows
<1>14. SharedInv(s)
  BY <1>1, <1>13 DEF RecorderInv, SharedInv
<1>15. RunningInv(s)
  <2> SUFFICES ASSUME s.stage \in {"setup", "call"}
               PROVE  \E E \in SUBSET Nodes : RunsWith(s, s.current, E)
    BY DEF RunningInv
  <2>1. PICK t : t = r.current
    OBVIOUS
  <2>2. PICK E \in SUBSET Nodes : RunsWith(r, t, E)
    BY <1>1, <2>1 DEF RecorderInv, RunningInv
  <2>3. t \in Tests /\ t # NoTest
    BY <1>1, <2>1, NobodyAssumption DEF RecorderInv, StageInv
  <2>4. \E F \in SUBSET Nodes :
          /\ E \subseteq F
          /\ Accounted(F, s.executed[t], Files, s.pending \cup Open(ThreadsOf(s, t)))
          /\ RanIn(s, ThreadsOf(s, t), F)
    <3>1. CASE th.test = t
      <4>1. th \in ThreadsOf(r, t) /\ ThreadsOf(s, t) = (ThreadsOf(r, t) \ {th}) \cup rest
        BY <1>1, <1>4, <3>1 DEF ThreadsOf
      <4>2. /\ Accounted(E, r.executed[t], Files, r.pending \cup Open(ThreadsOf(r, t)))
            /\ RanIn(r, ThreadsOf(r, t), E) /\ r.loaded \subseteq E \cup Files
        BY <1>2, <2>2 DEF RunsWith
      <4>3. /\ Accounted(E \cup C, r.executed[t] \cup called, Files, s.pending \cup Open(ThreadsOf(s, t)))
            /\ RanIn(s, ThreadsOf(s, t), E \cup C)
        <5> DEFINE symbols == r.executed[t]
                   A == ThreadsOf(r, t)
                   B == ThreadsOf(s, t)
        <5>1. /\ th \in A /\ Replaced(A, B, th, rest)
              /\ Accounted(E, symbols, Files, r.pending \cup Open(A)) /\ RanIn(r, A, E)
              /\ r.loaded \subseteq E \cup Files
          BY <4>1, <4>2 DEF Replaced
        <5> HIDE DEF symbols, A, B
        <5>2. /\ Accounted(E \cup C, symbols \cup called, Files, s.pending \cup Open(B))
              /\ RanIn(s, B, E \cup C)
          BY <1>10, <5>1
        <5> QED BY <5>2 DEF symbols, A, B
      <4>4. r.executed[t] \cup called \subseteq s.executed[t]
        BY <1>5, <2>1, <2>3
      <4>5. Accounted(E \cup C, s.executed[t], Files, s.pending \cup Open(ThreadsOf(s, t)))
        BY <4>3, <4>4, AccountedGrows, Zenon
      <4> QED BY <1>11, <4>3, <4>5
    <3>2. CASE th.test # t
      <4>1. ThreadsOf(s, t) = ThreadsOf(r, t)
        BY <1>1, <1>4, <3>2, Zenon DEF ThreadsOf
      <4>2. Accounted(E, s.executed[t], Files, s.pending \cup Open(ThreadsOf(s, t)))
        BY <1>1, <1>5, <2>2, <2>3, <4>1 DEF RunsWith, Accounted
      <4>3. RanIn(s, ThreadsOf(s, t), E)
        BY <1>1, <2>2, <4>1 DEF RunsWith, RanIn
      <4> QED BY <4>2, <4>3
    <3> QED BY <3>1, <3>2
  <2>5. PICK F \in SUBSET Nodes :
          /\ E \subseteq F
          /\ Accounted(F, s.executed[t], Files, s.pending \cup Open(ThreadsOf(s, t)))
          /\ RanIn(s, ThreadsOf(s, t), F)
    BY <2>4
  <2>6. \A x \in s.ready \cap Closure[t] : x \in F \/ Shared(s, x, t)
    BY <1>1, <1>13, <2>2, <2>3, <2>5 DEF RunsWith
  <2>7. RunsWith(s, t, F)
    BY <1>1, <2>2, <2>5, <2>6 DEF RunsWith
  <2> QED BY <1>1, <2>1, <2>7
<1>16. SettingUpInv(s)
  <2> SUFFICES ASSUME s.fixture # NoFixture
               PROVE  \E Y \in SUBSET Nodes : SetsUpWith(s, s.fixture, Y)
    BY DEF SettingUpInv
  <2>1. PICK x : x = r.fixture
    OBVIOUS
  <2>2. PICK Y \in SUBSET Nodes : SetsUpWith(r, x, Y)
    BY <1>1, <2>1 DEF RecorderInv, SettingUpInv
  <2>3. CASE th.fixture = x
    <3>1. th \in OfFixture(r, x) /\ OfFixture(s, x) = (OfFixture(r, x) \ {th}) \cup rest
      BY <1>1, <1>4, <2>3 DEF OfFixture
    <3>2. /\ Accounted(Y, r.fixtureCode[x], Files, r.pending \cup Open(OfFixture(r, x)))
          /\ RanIn(r, OfFixture(r, x), Y) /\ r.loaded \subseteq Y \cup Files
      BY <1>2, <2>2 DEF SetsUpWith
    <3>3. /\ Accounted(Y \cup C, r.fixtureCode[x] \cup called, Files, s.pending \cup Open(OfFixture(s, x)))
          /\ RanIn(s, OfFixture(s, x), Y \cup C)
      <4> DEFINE symbols == r.fixtureCode[x]
                 A == OfFixture(r, x)
                 B == OfFixture(s, x)
      <4>1. /\ th \in A /\ Replaced(A, B, th, rest)
            /\ Accounted(Y, symbols, Files, r.pending \cup Open(A)) /\ RanIn(r, A, Y)
            /\ r.loaded \subseteq Y \cup Files
        BY <3>1, <3>2 DEF Replaced
      <4> HIDE DEF symbols, A, B
      <4>2. /\ Accounted(Y \cup C, symbols \cup called, Files, s.pending \cup Open(B))
            /\ RanIn(s, B, Y \cup C)
        BY <1>10, <4>1
      <4> QED BY <4>2 DEF symbols, A, B
    <3>4. r.fixtureCode[x] \cup called \subseteq s.fixtureCode[x]
      BY <1>1, <1>3, <2>1, <2>3 DEF ThreadInv, called, C
    <3>5. Accounted(Y \cup C, s.fixtureCode[x], Files, s.pending \cup Open(OfFixture(s, x)))
      BY <3>3, <3>4, AccountedGrows, Zenon
    <3>6. SetsUpWith(s, x, Y \cup C)
      BY <1>1, <2>2, <3>3, <3>5 DEF SetsUpWith
    <3> QED BY <1>1, <1>11, <2>1, <3>6
  <2>4. CASE th.fixture # x
    <3>1. OfFixture(s, x) = OfFixture(r, x)
      BY <1>1, <1>4, <2>4, Zenon DEF OfFixture
    <3>2. SetsUpWith(s, x, Y)
      BY <1>1, <2>2, <3>1 DEF SetsUpWith, RanIn
    <3> QED BY <1>1, <2>1, <3>2
  <2> QED BY <2>3, <2>4
<1>17. PassedInv(s)
  <2> SUFFICES ASSUME NEW t \in Tests, s.outcome[t] = "passed"
               PROVE  \E X \in SUBSET Nodes : PassedWith(s, t, X)
    BY DEF PassedInv
  <2> QED BY <1>1, <1>5, PassedGrows DEF RecorderInv
<1> QED BY <1>7, <1>8, <1>9, <1>12, <1>14, <1>15, <1>16, <1>17 DEF RecorderInv

------------------------------------------------------------------------------
(* The other steps of a process: no code runs in them *)

RunsOf(threads) == UNION {th.runs : th \in threads}
UnseenAfter(r, tests, D) == [t \in Tests |-> IF t \in tests THEN r.unseen[t] \cup D ELSE r.unseen[t]]

SameCode(r, s) ==
  /\ s.executed = r.executed /\ s.fixtureCode = r.fixtureCode /\ s.outside = r.outside
  /\ s.loaded = r.loaded /\ s.threads = r.threads

(* Miss adds to what some tests are not seen to run. *)
LEMMA UnseenType ==
  ASSUME NEW r \in RecorderState, NEW tests, NEW D \in SUBSET (Threads \cup Fixtures)
  PROVE  /\ UnseenAfter(r, tests, D) \in [Tests -> SUBSET (Threads \cup Fixtures)]
         /\ \A t \in Tests : r.unseen[t] \subseteq UnseenAfter(r, tests, D)[t]
         /\ \A t \in Tests \cap tests : D \subseteq UnseenAfter(r, tests, D)[t]
         /\ Miss(r, tests, D) = [r EXCEPT !.unseen = UnseenAfter(r, tests, D)]
<1>1. r.unseen \in [Tests -> SUBSET (Threads \cup Fixtures)]
  BY DEF RecorderState
<1>2. Miss(r, tests, D) = [r EXCEPT !.unseen = UnseenAfter(r, tests, D)]
  BY DEF Miss, UnseenAfter, RecorderState
<1> QED BY <1>1, <1>2 DEF UnseenAfter

(* What some threads run are functions with a thread of their own. *)
LEMMA RunsOfType ==
  ASSUME NEW r \in RecorderState, NEW threads \in SUBSET r.threads
  PROVE  RunsOf(threads) \in SUBSET (Threads \cup Fixtures)
<1>1. \A th \in threads : th.runs \subseteq Threads
  BY DEF RecorderState
<1> QED BY <1>1 DEF RunsOf

(* A step that names the new state of its process. *)
LEMMA MoveFields ==
  ASSUME NEW p \in Shards, Recorders, NEW v \in RecorderState, Moves(p, v)
  PROVE  Only(p) /\ recorder'[p] = v
<1>1. recorder' = [recorder EXCEPT ![p] = v]
  BY DEF Moves
<1> HIDE DEF Moves
<1>2. recorder'[p] = v
  BY <1>1 DEF Recorders
<1> QED BY <1>1, <1>2 DEF Only

CollectedStep(p, r, s) ==
  /\ r.stage = "collect" /\ r.pending = {} /\ s.stage = "idle" /\ s.mine = RecordedBy(p)
  /\ SameCode(r, s) /\ s.pending = r.pending /\ s.ran = r.ran
  /\ s.current = r.current /\ s.fixture = r.fixture /\ s.ready = r.ready /\ s.broken = r.broken
  /\ s.outcome = r.outcome /\ s.unseen = r.unseen

(* Collected: the fields after it. *)
LEMMA CollectedFields ==
  ASSUME NEW p \in Shards, Recorders, Collected(p)
  PROVE  Only(p) /\ CollectedStep(p, recorder[p], recorder'[p])
<1> DEFINE r == recorder[p]
           s == recorder'[p]
           mine == RecordedBy(p)
           v == [r EXCEPT !.stage = "idle", !.mine = mine]
<1>1. r \in RecorderState /\ r.stage = "collect" /\ r.pending = {}
  BY DEF Recorders, Collected, Idle
<1>2. mine \subseteq Tests
  BY DEF RecordedBy, PresentTests
<1>3. Moves(p, v)
  BY DEF Collected
<1> HIDE DEF mine, r
<1>4. v \in RecorderState
  BY <1>1, <1>2 DEF RecorderState
<1>5. Only(p) /\ s = v
  BY <1>3, <1>4, MoveFields DEF r
<1> HIDE DEF s
<1>6. CollectedStep(p, r, s)
  BY <1>1, <1>5 DEF CollectedStep, SameCode, RecorderState, mine
<1> QED BY <1>5, <1>6 DEF r, s

StartStep(r, s, t) ==
  /\ r.stage = "idle" /\ r.pending = {} /\ t \in Tests /\ r.outcome[t] = "none"
  /\ s.stage = "setup" /\ s.current = t /\ s.ran = {}
  /\ s.unseen = UnseenAfter(r, Tests, RunsOf(ThreadsOf(r, NoTest)))
  /\ SameCode(r, s) /\ s.mine = r.mine /\ s.pending = r.pending
  /\ s.fixture = r.fixture /\ s.ready = r.ready /\ s.broken = r.broken /\ s.outcome = r.outcome

(* StartTest: the fields after it. *)
LEMMA StartFields ==
  ASSUME NEW p \in Shards, Recorders, NEW t \in Tests, StartTest(p, t)
  PROVE  Only(p) /\ StartStep(recorder[p], recorder'[p], t)
<1> DEFINE r == recorder[p]
           s == recorder'[p]
           unseen == UnseenAfter(r, Tests, RunsOf(ThreadsOf(r, NoTest)))
           v == [r EXCEPT !.unseen = unseen, !.stage = "setup", !.current = t, !.ran = {}]
<1>1. r \in RecorderState /\ r.stage = "idle" /\ r.pending = {} /\ r.outcome[t] = "none"
  BY DEF Recorders, StartTest, Idle
<1>2. RunsOf(ThreadsOf(r, NoTest)) \in SUBSET (Threads \cup Fixtures)
  BY <1>1, RunsOfType DEF ThreadsOf
<1>3. /\ unseen \in [Tests -> SUBSET (Threads \cup Fixtures)]
      /\ Leave(r, Tests, ThreadsOf(r, NoTest)) = [r EXCEPT !.unseen = unseen]
  <2> DEFINE threads == ThreadsOf(r, NoTest)
  <2>1. RunsOf(threads) \in SUBSET (Threads \cup Fixtures)
    BY <1>2
  <2> HIDE DEF r, threads
  <2>2. /\ UnseenAfter(r, Tests, RunsOf(threads)) \in [Tests -> SUBSET (Threads \cup Fixtures)]
        /\ Leave(r, Tests, threads) = [r EXCEPT !.unseen = UnseenAfter(r, Tests, RunsOf(threads))]
    BY <1>1, <2>1, UnseenType DEF Leave, RunsOf
  <2> QED BY <2>2 DEF threads
<1>4. Moves(p, [Leave(r, Tests, ThreadsOf(r, NoTest)) EXCEPT !.stage = "setup", !.current = t, !.ran = {}])
  BY DEF StartTest
<1> HIDE DEF unseen, r
<1>5. [Leave(r, Tests, ThreadsOf(r, NoTest)) EXCEPT !.stage = "setup", !.current = t, !.ran = {}] = v
  BY <1>1, <1>3 DEF RecorderState
<1>6. v \in RecorderState
  BY <1>1, <1>3 DEF RecorderState
<1>7. Only(p) /\ s = v
  BY <1>4, <1>5, <1>6, MoveFields DEF r
<1> HIDE DEF s
<1>8. StartStep(r, s, t)
  BY <1>1, <1>7 DEF StartStep, SameCode, RecorderState, unseen
<1> QED BY <1>7, <1>8 DEF r, s

SetUpStep(r, s, x) ==
  /\ r.fixture = NoFixture /\ r.pending = {} /\ x \in Fixtures
  /\ r.stage \in {"setup", "call"} /\ x \notin r.ready \cup r.broken
  /\ s.fixture = x /\ s.pending = {x} /\ s.ran = {}
  /\ SameCode(r, s) /\ s.stage = r.stage /\ s.mine = r.mine /\ s.current = r.current
  /\ s.ready = r.ready /\ s.broken = r.broken /\ s.outcome = r.outcome /\ s.unseen = r.unseen

(* SetUpFixture: the fields after it. *)
LEMMA SetUpFields ==
  ASSUME NEW p \in Shards, Recorders, NEW x \in Fixtures, SetUpFixture(p, x)
  PROVE  Only(p) /\ SetUpStep(recorder[p], recorder'[p], x)
<1> DEFINE r == recorder[p]
           s == recorder'[p]
           v == [r EXCEPT !.fixture = x, !.pending = {x}, !.ran = {}]
<1>1. /\ r \in RecorderState /\ r.fixture = NoFixture /\ r.pending = {} /\ r.stage \in {"setup", "call"}
      /\ x \notin r.ready \cup r.broken
  BY DEF Recorders, SetUpFixture, Idle
<1>2. x \in Nodes
  BY RecordingAssumption, DefinitionsAreNodes
<1>3. Moves(p, v)
  BY DEF SetUpFixture
<1> HIDE DEF r
<1>4. v \in RecorderState
  BY <1>1, <1>2 DEF RecorderState
<1>5. Only(p) /\ s = v
  BY <1>3, <1>4, MoveFields DEF r
<1> HIDE DEF s
<1>6. SetUpStep(r, s, x)
  BY <1>1, <1>5 DEF SetUpStep, SameCode, RecorderState
<1> QED BY <1>5, <1>6 DEF r, s

ReadyStep(r, s) ==
  /\ r.stage \in {"setup", "call"} /\ r.pending = {} /\ r.fixture # NoFixture
  /\ s.fixture = NoFixture /\ s.ready = r.ready \cup {r.fixture}
  /\ s.unseen = UnseenAfter(r, {t \in Tests : r.fixture \in Closure[t]} \ {r.current},
                            RunsOf(OfFixture(r, r.fixture)))
  /\ SameCode(r, s) /\ s.stage = r.stage /\ s.mine = r.mine /\ s.pending = r.pending /\ s.ran = r.ran
  /\ s.current = r.current /\ s.broken = r.broken /\ s.outcome = r.outcome

(* FixtureReady: the fields after it. *)
LEMMA ReadyFields ==
  ASSUME NEW p \in Shards, Recorders, FixtureReady(p)
  PROVE  Only(p) /\ ReadyStep(recorder[p], recorder'[p])
<1> DEFINE r == recorder[p]
           s == recorder'[p]
           x == r.fixture
           tests == {t \in Tests : x \in Closure[t]} \ {r.current}
           unseen == UnseenAfter(r, tests, RunsOf(OfFixture(r, x)))
           v == [r EXCEPT !.unseen = unseen, !.ready = r.ready \cup {x}, !.fixture = NoFixture]
<1>1. /\ r \in RecorderState /\ r.pending = {} /\ r.fixture # NoFixture /\ r.stage \in {"setup", "call"}
  BY DEF Recorders, FixtureReady, Idle
<1>2. RunsOf(OfFixture(r, x)) \in SUBSET (Threads \cup Fixtures)
  BY <1>1, RunsOfType DEF OfFixture
<1>3. /\ unseen \in [Tests -> SUBSET (Threads \cup Fixtures)]
      /\ Leave(r, tests, OfFixture(r, x)) = [r EXCEPT !.unseen = unseen]
  <2> HIDE DEF tests, r, x
  <2> QED BY <1>1, <1>2, UnseenType DEF Leave, RunsOf
<1>4. Moves(p, [Leave(r, tests, OfFixture(r, x)) EXCEPT !.ready = @ \cup {x}, !.fixture = NoFixture])
  BY DEF FixtureReady, OfFixture
<1> HIDE DEF unseen, tests, r
<1>5. [Leave(r, tests, OfFixture(r, x)) EXCEPT !.ready = @ \cup {x}, !.fixture = NoFixture] = v
  BY <1>1, <1>3 DEF RecorderState
<1>6. v \in RecorderState
  BY <1>1, <1>3 DEF RecorderState
<1>7. Only(p) /\ s = v
  BY <1>4, <1>5, <1>6, MoveFields DEF r
<1> HIDE DEF s
<1>8. ReadyStep(r, s)
  BY <1>1, <1>7 DEF ReadyStep, SameCode, RecorderState, unseen, tests
<1> QED BY <1>7, <1>8 DEF r, s

CallStep(r, s) ==
  /\ r.stage = "setup" /\ r.pending = {} /\ r.fixture = NoFixture /\ Closure[r.current] \subseteq r.ready
  /\ s.stage = "call" /\ s.pending = {r.current} /\ s.ran = {}
  /\ s.unseen = UnseenAfter(r, {r.current}, (Requests[r.current] \ Closure[r.current]) \cap r.ready)
  /\ SameCode(r, s) /\ s.mine = r.mine /\ s.current = r.current /\ s.fixture = r.fixture
  /\ s.ready = r.ready /\ s.broken = r.broken /\ s.outcome = r.outcome

(* CallTest: the fields after it. *)
LEMMA CallFields ==
  ASSUME NEW p \in Shards, Recorders, recorder[p].current \in Tests, CallTest(p)
  PROVE  Only(p) /\ CallStep(recorder[p], recorder'[p])
<1> DEFINE r == recorder[p]
           s == recorder'[p]
           t == r.current
           D == (Requests[t] \ Closure[t]) \cap r.ready
           unseen == UnseenAfter(r, {t}, D)
           v == [r EXCEPT !.unseen = unseen, !.stage = "call", !.pending = {t}, !.ran = {}]
<1>1. /\ r \in RecorderState /\ r.pending = {} /\ r.fixture = NoFixture /\ r.stage = "setup"
      /\ Closure[t] \subseteq r.ready
  BY DEF Recorders, CallTest, Idle
<1>2. D \in SUBSET (Threads \cup Fixtures) /\ t \in Nodes
  <2>1. r.ready \subseteq Fixtures
    BY <1>1 DEF RecorderState
  <2>2. Tests \subseteq Nodes
    BY NodesAssumption, DefinitionsAreNodes
  <2> QED BY <2>1, <2>2
<1>3. /\ unseen \in [Tests -> SUBSET (Threads \cup Fixtures)]
      /\ Miss(r, {t}, D) = [r EXCEPT !.unseen = unseen]
  <2> HIDE DEF D, r, t
  <2> QED BY <1>1, <1>2, UnseenType
<1>4. Moves(p, [Miss(r, {t}, D) EXCEPT !.stage = "call", !.pending = {t}, !.ran = {}])
  BY DEF CallTest
<1> HIDE DEF unseen, D, r
<1>5. [Miss(r, {t}, D) EXCEPT !.stage = "call", !.pending = {t}, !.ran = {}] = v
  BY <1>1, <1>3 DEF RecorderState
<1>6. v \in RecorderState
  BY <1>1, <1>2, <1>3 DEF RecorderState
<1>7. Only(p) /\ s = v
  BY <1>4, <1>5, <1>6, MoveFields DEF r
<1> HIDE DEF s
<1>8. CallStep(r, s)
  BY <1>1, <1>7 DEF CallStep, SameCode, RecorderState, unseen, D
<1> QED BY <1>7, <1>8 DEF r, s

FinishStep(r, s, result) ==
  /\ r.stage \in {"setup", "call"} /\ result \in {"passed", "failed"}
  /\ s.stage = "idle" /\ s.pending = {} /\ s.fixture = NoFixture
  /\ s.broken = r.broken \cup ({r.fixture} \cap Fixtures)
  /\ s.outcome = [r.outcome EXCEPT ![r.current] = result] /\ s.current = NoTest
  /\ s.unseen = UnseenAfter(r, {r.current}, RunsOf(ThreadsOf(r, r.current)))
  /\ SameCode(r, s) /\ s.mine = r.mine /\ s.ran = r.ran /\ s.ready = r.ready

(* PassTest and FailTest: the fields after them. *)
LEMMA FinishFields ==
  ASSUME NEW p \in Shards, Recorders, recorder[p].current \in Tests, NEW result \in {"passed", "failed"},
         recorder[p].stage \in {"setup", "call"}, FinishTest(p, result)
  PROVE  Only(p) /\ FinishStep(recorder[p], recorder'[p], result)
<1> DEFINE r == recorder[p]
           s == recorder'[p]
           t == r.current
           unseen == UnseenAfter(r, {t}, RunsOf(ThreadsOf(r, t)))
           broken == r.broken \cup ({r.fixture} \cap Fixtures)
           outcome == [r.outcome EXCEPT ![t] = result]
           v == [r EXCEPT !.unseen = unseen, !.stage = "idle", !.pending = {}, !.fixture = NoFixture,
                          !.broken = broken, !.outcome = outcome, !.current = NoTest]
<1>1. r \in RecorderState /\ r.stage \in {"setup", "call"} /\ t \in Tests
  BY DEF Recorders
<1>2. RunsOf(ThreadsOf(r, t)) \in SUBSET (Threads \cup Fixtures)
  BY <1>1, RunsOfType DEF ThreadsOf
<1>3. /\ unseen \in [Tests -> SUBSET (Threads \cup Fixtures)]
      /\ Leave(r, {t}, ThreadsOf(r, t)) = [r EXCEPT !.unseen = unseen]
  <2> HIDE DEF r, t
  <2> QED BY <1>1, <1>2, UnseenType DEF Leave, RunsOf
<1>4. Moves(p, [Leave(r, {t}, ThreadsOf(r, t)) EXCEPT
                  !.stage = "idle", !.pending = {}, !.fixture = NoFixture,
                  !.broken = @ \cup ({r.fixture} \cap Fixtures),
                  !.outcome[t] = result, !.current = NoTest])
  BY DEF FinishTest
<1>5. broken \subseteq Fixtures /\ outcome \in [Tests -> {"none", "passed", "failed"}]
  BY <1>1 DEF RecorderState
<1> HIDE DEF unseen, r
<1>6. [Leave(r, {t}, ThreadsOf(r, t)) EXCEPT
                  !.stage = "idle", !.pending = {}, !.fixture = NoFixture,
                  !.broken = @ \cup ({r.fixture} \cap Fixtures),
                  !.outcome[t] = result, !.current = NoTest] = v
  BY <1>1, <1>3 DEF RecorderState
<1> HIDE DEF broken, outcome
<1>7. v \in RecorderState
  BY <1>1, <1>3, <1>5 DEF RecorderState
<1>8. Only(p) /\ s = v
  BY <1>4, <1>6, <1>7, MoveFields DEF r
<1> HIDE DEF s
<1>9. FinishStep(r, s, result)
  BY <1>1, <1>8 DEF FinishStep, SameCode, RecorderState, unseen, broken, outcome
<1> QED BY <1>8, <1>9 DEF r, s

WriteStep(r, s) ==
  /\ r.stage = "idle" /\ r.pending = {} /\ \A t \in r.mine : r.outcome[t] # "none"
  /\ s.stage = "written"
  /\ SameCode(r, s) /\ s.mine = r.mine /\ s.pending = r.pending /\ s.ran = r.ran
  /\ s.current = r.current /\ s.fixture = r.fixture /\ s.ready = r.ready /\ s.broken = r.broken
  /\ s.outcome = r.outcome /\ s.unseen = r.unseen

(* Write: the fields after it. *)
LEMMA WriteFields ==
  ASSUME NEW p \in Shards, Recorders, Write(p)
  PROVE  Only(p) /\ WriteStep(recorder[p], recorder'[p])
<1> DEFINE r == recorder[p]
           s == recorder'[p]
           v == [r EXCEPT !.stage = "written"]
<1>1. /\ r \in RecorderState /\ r.stage = "idle" /\ r.pending = {}
      /\ \A t \in r.mine : r.outcome[t] # "none"
  BY DEF Recorders, Write, Idle
<1>2. Moves(p, v)
  BY DEF Write
<1> HIDE DEF r
<1>3. v \in RecorderState
  BY <1>1 DEF RecorderState
<1>4. Only(p) /\ s = v
  BY <1>2, <1>3, MoveFields DEF r
<1> HIDE DEF s
<1>5. WriteStep(r, s)
  BY <1>1, <1>4 DEF WriteStep, SameCode, RecorderState
<1> QED BY <1>4, <1>5 DEF r, s

------------------------------------------------------------------------------
(* They keep the invariant *)

(* What threads have left open can be run by the functions they run. *)
LEMMA OpenIsRunBy ==
  ASSUME NEW r, ThreadsInv(r), NEW A \in SUBSET r.threads, NEW D, RunsOf(A) \subseteq D
  PROVE  Open(A) \subseteq RunBy(D)
<1> SUFFICES ASSUME NEW th \in A PROVE th.todo \cup th.calling \subseteq RunBy(D)
  BY DEF Open
<1>1. th.todo \cup th.calling \subseteq RunBy(th.runs)
  BY DEF ThreadsInv, ThreadInv
<1>2. th.runs \subseteq D
  BY DEF RunsOf
<1> QED BY <1>1, <1>2, RunByGrows

(* Steps that record no code leave a ready fixture accounted for, *)
LEMMA SharedStays ==
  ASSUME NEW r, NEW s, SameCode(r, s), NEW x, NEW t, Shared(r, x, t), r.unseen[t] \subseteq s.unseen[t]
  PROVE  Shared(s, x, t)
BY SharedGrows DEF SameCode

(* what ran before the first test, *)
LEMMA DoneStays ==
  ASSUME NEW r, NEW s, SameCode(r, s), Done(r), \A t \in Tests : r.unseen[t] \subseteq s.unseen[t]
  PROVE  Done(s)
BY DoneGrows DEF SameCode

(* and a test that passed. *)
LEMMA PassedStays ==
  ASSUME NEW r, NEW s, SameCode(r, s), PassedInv(r), NEW t \in Tests, r.outcome[t] = "passed",
         r.unseen[t] \subseteq s.unseen[t]
  PROVE  \E X \in SUBSET Nodes : PassedWith(s, t, X)
BY PassedGrows DEF SameCode

(* After the first test has started, what ran before it is done. *)
LEMMA RunningIsDone ==
  ASSUME NEW p, NEW r, RecorderInv(p, r), r.stage \in {"setup", "call"}
  PROVE  /\ r.current \in Tests /\ r.current # NoTest /\ r.outcome[r.current] = "none"
         /\ Done(r) /\ Collection(Base) \subseteq r.loaded
<1>1. r.current \in Tests /\ r.current # NoTest /\ r.outcome[r.current] = "none"
  BY NobodyAssumption DEF RecorderInv, StageInv
<1>2. Done(r)
  BY <1>1 DEF RecorderInv, Fresh
<1> QED BY <1>1, <1>2 DEF RecorderInv, LoadedInv

(* Collected keeps the invariant. *)
LEMMA CollectedKeeps ==
  ASSUME NEW p, NEW r \in RecorderState, NEW s \in RecorderState, CollectedStep(p, r, s), RecorderInv(p, r)
  PROVE  RecorderInv(p, s)
<1>1. /\ r.stage = "collect" /\ r.pending = {} /\ s.stage = "idle" /\ s.mine = RecordedBy(p)
      /\ s.pending = r.pending /\ s.ran = r.ran /\ s.loaded = r.loaded /\ s.threads = r.threads
      /\ s.current = r.current /\ s.fixture = r.fixture /\ s.ready = r.ready /\ s.broken = r.broken
      /\ s.outcome = r.outcome /\ s.unseen = r.unseen /\ s.outside = r.outside
      /\ s.fixtureCode = r.fixtureCode /\ SameCode(r, s)
  BY DEF CollectedStep, SameCode
<1>2. StageInv(p, s)
  BY <1>1 DEF RecorderInv, StageInv
<1>3. LoadedInv(s)
  BY <1>1 DEF RecorderInv, LoadedInv
<1>4. ThreadsInv(s)
  BY <1>1 DEF RecorderInv, ThreadsInv, ThreadInv
<1>5. Fresh(s) \/ Done(s)
  BY <1>1, DoneStays DEF RecorderInv, Fresh, FreshWith, RanIn
<1>6. SharedInv(s)
  BY <1>1, SharedStays DEF RecorderInv, SharedInv
<1>7. RunningInv(s)
  BY <1>1 DEF RunningInv
<1>8. SettingUpInv(s)
  BY <1>1 DEF RecorderInv, StageInv, SettingUpInv
<1>9. PassedInv(s)
  <2> SUFFICES ASSUME NEW t \in Tests, s.outcome[t] = "passed"
               PROVE  \E X \in SUBSET Nodes : PassedWith(s, t, X)
    BY DEF PassedInv
  <2> QED BY <1>1, PassedStays DEF RecorderInv
<1> QED BY <1>2, <1>3, <1>4, <1>5, <1>6, <1>7, <1>8, <1>9 DEF RecorderInv

(* Write keeps the invariant. *)
LEMMA WriteKeeps ==
  ASSUME NEW p, NEW r \in RecorderState, NEW s \in RecorderState, WriteStep(r, s), RecorderInv(p, r)
  PROVE  RecorderInv(p, s)
<1>1. /\ r.stage = "idle" /\ r.pending = {} /\ s.stage = "written" /\ s.mine = r.mine
      /\ \A t \in r.mine : r.outcome[t] # "none"
      /\ s.pending = r.pending /\ s.ran = r.ran /\ s.loaded = r.loaded /\ s.threads = r.threads
      /\ s.current = r.current /\ s.fixture = r.fixture /\ s.ready = r.ready /\ s.broken = r.broken
      /\ s.outcome = r.outcome /\ s.unseen = r.unseen /\ s.outside = r.outside
      /\ s.fixtureCode = r.fixtureCode /\ SameCode(r, s)
  BY DEF WriteStep, SameCode
<1>2. StageInv(p, s)
  BY <1>1 DEF RecorderInv, StageInv
<1>3. LoadedInv(s)
  BY <1>1 DEF RecorderInv, LoadedInv
<1>4. ThreadsInv(s)
  BY <1>1 DEF RecorderInv, ThreadsInv, ThreadInv
<1>5. Fresh(s) \/ Done(s)
  BY <1>1, DoneStays DEF RecorderInv, Fresh, FreshWith, RanIn
<1>6. SharedInv(s)
  BY <1>1, SharedStays DEF RecorderInv, SharedInv
<1>7. RunningInv(s)
  BY <1>1 DEF RunningInv
<1>8. SettingUpInv(s)
  BY <1>1 DEF RecorderInv, StageInv, SettingUpInv
<1>9. PassedInv(s)
  <2> SUFFICES ASSUME NEW t \in Tests, s.outcome[t] = "passed"
               PROVE  \E X \in SUBSET Nodes : PassedWith(s, t, X)
    BY DEF PassedInv
  <2> QED BY <1>1, PassedStays DEF RecorderInv
<1> QED BY <1>2, <1>3, <1>4, <1>5, <1>6, <1>7, <1>8, <1>9 DEF RecorderInv

(* Nothing has run, and nothing is missing. *)
LEMMA NothingIsAccounted ==
  ASSUME NEW symbols, NEW free, NEW open
  PROVE  Accounted({}, symbols, free, open)
<1>1. Succ({}) = {}
  BY DEF Succ, Uses, Receivers
<1> QED BY <1>1, DescribedUnion DEF Accounted

(* StartTest keeps it: threads from before the tests are unseen by all of them. *)
LEMMA StartKeeps ==
  ASSUME NEW p, NEW r \in RecorderState, NEW s \in RecorderState, NEW t, StartStep(r, s, t), RecorderInv(p, r)
  PROVE  RecorderInv(p, s)
<1>1. /\ r.stage = "idle" /\ r.pending = {} /\ t \in Tests /\ r.outcome[t] = "none"
      /\ s.stage = "setup" /\ s.current = t /\ s.ran = {} /\ s.mine = r.mine
      /\ s.pending = r.pending /\ s.loaded = r.loaded /\ s.threads = r.threads
      /\ s.fixture = r.fixture /\ s.ready = r.ready /\ s.broken = r.broken
      /\ s.outcome = r.outcome /\ s.outside = r.outside /\ s.executed = r.executed
      /\ s.fixtureCode = r.fixtureCode /\ SameCode(r, s)
  BY DEF StartStep, SameCode
<1>2. /\ r.current = NoTest /\ r.fixture = NoFixture /\ t # NoTest
  BY <1>1, NobodyAssumption DEF RecorderInv, StageInv
<1> DEFINE D == RunsOf(ThreadsOf(r, NoTest))
<1>3. \A u \in Tests : r.unseen[u] \subseteq s.unseen[u] /\ D \subseteq s.unseen[u]
  <2>1. D \in SUBSET (Threads \cup Fixtures)
    BY RunsOfType DEF ThreadsOf
  <2>2. s.unseen = UnseenAfter(r, Tests, D)
    BY DEF StartStep
  <2> HIDE DEF D
  <2> QED BY <2>1, <2>2, UnseenType
<1>4. StageInv(p, s)
  BY <1>1, <1>2 DEF RecorderInv, StageInv
<1>5. LoadedInv(s)
  BY <1>1 DEF RecorderInv, LoadedInv
<1>6. ThreadsInv(s)
  BY <1>1, <1>2 DEF RecorderInv, ThreadsInv, ThreadInv
<1>7. Done(s)
  <2>1. CASE Done(r)
    BY <1>1, <1>3, <2>1, DoneStays
  <2>2. CASE Fresh(r)
    <3>1. PICK O \in SUBSET Nodes : FreshWith(r, O)
      BY <2>2 DEF Fresh
    <3>2. ThreadsOf(r, NoTest) = r.threads
      BY <2>2 DEF Fresh, ThreadsOf
    <3>3. \A u \in Tests : Open(r.threads) \subseteq RunBy(s.unseen[u])
      <4>1. ThreadsInv(r)
        BY DEF RecorderInv
      <4> QED BY <1>3, <3>2, <4>1, OpenIsRunBy
    <3>4. DoneWith(s, O)
      BY <1>1, <3>1, <3>3 DEF FreshWith, Accounted, DoneWith
    <3> QED BY <3>4 DEF Done
  <2> QED BY <2>1, <2>2 DEF RecorderInv
<1>8. \A u \in Tests : s.outcome[u] = "none" => \A x \in s.ready \cap Closure[u] : Shared(s, x, u)
  <2> SUFFICES ASSUME NEW u \in Tests, s.outcome[u] = "none", NEW x \in s.ready \cap Closure[u]
               PROVE  Shared(s, x, u)
    OBVIOUS
  <2>1. Shared(r, x, u)
    BY <1>1, <1>2, NobodyAssumption DEF RecorderInv, SharedInv
  <2> QED BY <1>1, <1>3, <2>1, SharedStays
<1>9. SharedInv(s)
  BY <1>8 DEF SharedInv
<1>10. RunningInv(s)
  <2>1. ThreadsOf(s, t) = {}
    <3> SUFFICES ASSUME NEW th \in r.threads, th.test = t PROVE FALSE
      BY <1>1 DEF ThreadsOf
    <3> QED BY <1>1, <1>2 DEF RecorderInv, ThreadsInv, ThreadInv
  <2>2. RunsWith(s, t, {})
    BY <1>1, <1>2, <1>8, <2>1, NothingIsAccounted DEF RunsWith, RanIn
  <2>3. {} \in SUBSET Nodes
    OBVIOUS
  <2> QED BY <1>1, <2>2, <2>3 DEF RunningInv
<1>11. SettingUpInv(s)
  BY <1>1, <1>2 DEF SettingUpInv
<1>12. PassedInv(s)
  <2> SUFFICES ASSUME NEW u \in Tests, s.outcome[u] = "passed"
               PROVE  \E X \in SUBSET Nodes : PassedWith(s, u, X)
    BY DEF PassedInv
  <2> QED BY <1>1, <1>3, PassedStays DEF RecorderInv
<1> QED BY <1>4, <1>5, <1>6, <1>7, <1>9, <1>10, <1>11, <1>12 DEF RecorderInv

(* SetUpFixture keeps it: the fixture is pending for itself and for the test. *)
LEMMA SetUpKeeps ==
  ASSUME NEW p, NEW r \in RecorderState, NEW s \in RecorderState, NEW x, SetUpStep(r, s, x), RecorderInv(p, r)
  PROVE  RecorderInv(p, s)
<1>1. /\ r.fixture = NoFixture /\ r.pending = {} /\ x \in Fixtures
      /\ r.stage \in {"setup", "call"} /\ x \notin r.ready \cup r.broken
      /\ s.fixture = x /\ s.pending = {x} /\ s.ran = {}
      /\ s.stage = r.stage /\ s.mine = r.mine /\ s.loaded = r.loaded /\ s.threads = r.threads
      /\ s.current = r.current /\ s.ready = r.ready /\ s.broken = r.broken /\ s.outcome = r.outcome
      /\ s.unseen = r.unseen /\ s.executed = r.executed /\ s.fixtureCode = r.fixtureCode /\ SameCode(r, s)
  BY DEF SetUpStep, SameCode
<1>2. /\ r.current \in Tests /\ r.current # NoTest /\ r.outcome[r.current] = "none"
      /\ Done(r) /\ Collection(Base) \subseteq r.loaded
  BY <1>1, RunningIsDone
<1>3. x # NoFixture
  BY <1>1, NobodyAssumption
<1>4. OfFixture(r, x) = {}
  <2> SUFFICES ASSUME NEW th \in r.threads, th.fixture = x PROVE FALSE
    BY DEF OfFixture
  <2> QED BY <1>1, <1>3 DEF RecorderInv, ThreadsInv, ThreadInv
<1>5. StageInv(p, s)
  BY <1>1 DEF RecorderInv, StageInv
<1>6. LoadedInv(s)
  BY <1>1, <1>2 DEF LoadedInv
<1>7. ThreadsInv(s)
  <2> SUFFICES ASSUME NEW th \in r.threads PROVE ThreadInv(s, th)
    BY <1>1 DEF ThreadsInv
  <2>1. th.fixture # x
    BY <1>4 DEF OfFixture
  <2>2. ThreadInv(r, th)
    BY DEF RecorderInv, ThreadsInv
  <2> QED BY <1>1, <2>1, <2>2 DEF ThreadInv
<1>8. Done(s)
  BY <1>1, <1>2, DoneStays
<1>9. SharedInv(s)
  BY <1>1, SharedStays DEF RecorderInv, SharedInv
<1>10. RunningInv(s)
  <2>1. PICK t : t = r.current
    OBVIOUS
  <2>2. PICK E \in SUBSET Nodes : RunsWith(r, t, E)
    BY <1>1, <2>1 DEF RecorderInv, RunningInv
  <2>3. ThreadsOf(s, t) = ThreadsOf(r, t)
    BY <1>1 DEF ThreadsOf
  <2>4. \A y \in s.ready \cap Closure[t] : y \in E \/ Shared(s, y, t)
    BY <1>1, <2>2, SharedStays DEF RunsWith
  <2>5. RunsWith(s, t, E)
    BY <1>1, <2>2, <2>3, <2>4 DEF RunsWith, Accounted, RanIn
  <2> QED BY <1>1, <2>1, <2>5 DEF RunningInv
<1>11. SettingUpInv(s)
  <2>1. OfFixture(s, x) = {}
    BY <1>1, <1>4 DEF OfFixture
  <2>2. SetsUpWith(s, x, {})
    BY <1>1, <2>1, NothingIsAccounted DEF SetsUpWith, RanIn
  <2>3. {} \in SUBSET Nodes
    OBVIOUS
  <2> QED BY <1>1, <2>2, <2>3 DEF SettingUpInv
<1>12. PassedInv(s)
  <2> SUFFICES ASSUME NEW u \in Tests, s.outcome[u] = "passed"
               PROVE  \E X \in SUBSET Nodes : PassedWith(s, u, X)
    BY DEF PassedInv
  <2> QED BY <1>1, PassedStays DEF RecorderInv
<1> QED BY <1>5, <1>6, <1>7, <1>8, <1>9, <1>10, <1>11, <1>12 DEF RecorderInv

(* FixtureReady keeps it: what threads go on with is unseen by the tests that share the fixture. *)
LEMMA ReadyKeeps ==
  ASSUME NEW p, NEW r \in RecorderState, NEW s \in RecorderState, ReadyStep(r, s), RecorderInv(p, r)
  PROVE  RecorderInv(p, s)
<1>0. PICK x : x = r.fixture
  OBVIOUS
<1>1. /\ r.stage \in {"setup", "call"} /\ r.pending = {} /\ x # NoFixture
      /\ s.fixture = NoFixture /\ s.ready = r.ready \cup {x} /\ s.pending = r.pending /\ s.ran = r.ran
      /\ s.stage = r.stage /\ s.mine = r.mine /\ s.loaded = r.loaded /\ s.threads = r.threads
      /\ s.current = r.current /\ s.broken = r.broken /\ s.outcome = r.outcome
      /\ s.executed = r.executed /\ s.fixtureCode = r.fixtureCode /\ SameCode(r, s)
  BY <1>0 DEF ReadyStep, SameCode
<1>2. /\ r.current \in Tests /\ r.current # NoTest /\ r.outcome[r.current] = "none"
      /\ Done(r) /\ Collection(Base) \subseteq r.loaded
  BY <1>1, RunningIsDone
<1> DEFINE D == RunsOf(OfFixture(r, x))
           tests == {t \in Tests : x \in Closure[t]} \ {r.current}
<1>3. /\ \A u \in Tests : r.unseen[u] \subseteq s.unseen[u]
      /\ \A u \in tests : D \subseteq s.unseen[u]
  <2>1. D \in SUBSET (Threads \cup Fixtures)
    BY RunsOfType DEF OfFixture
  <2>2. s.unseen = UnseenAfter(r, tests, D)
    BY <1>0 DEF ReadyStep
  <2>3. tests \subseteq Tests
    OBVIOUS
  <2> HIDE DEF D, tests
  <2> QED BY <2>1, <2>2, <2>3, UnseenType
<1>4. StageInv(p, s)
  BY <1>1 DEF RecorderInv, StageInv
<1>5. LoadedInv(s)
  BY <1>1, <1>2 DEF LoadedInv
<1>6. ThreadsInv(s)
  BY <1>0, <1>1 DEF RecorderInv, ThreadsInv, ThreadInv
<1>7. Done(s)
  BY <1>1, <1>2, <1>3, DoneStays
<1>8. PICK Y \in SUBSET Nodes : SetsUpWith(r, x, Y)
  BY <1>0, <1>1 DEF RecorderInv, SettingUpInv
<1>9. SharedInv(s)
  <2> SUFFICES ASSUME NEW u \in Tests, s.outcome[u] = "none", u # s.current, NEW y \in s.ready \cap Closure[u]
               PROVE  Shared(s, y, u)
    BY DEF SharedInv
  <2>1. CASE y \in r.ready
    <3>1. Shared(r, y, u)
      BY <1>1, <2>1 DEF RecorderInv, SharedInv
    <3> QED BY <1>1, <1>3, <3>1, SharedStays
  <2>2. CASE y = x
    <3>1. u \in tests
      BY <1>1, <2>2
    <3>2. Open(OfFixture(r, x)) \subseteq RunBy(s.unseen[u])
      <4>1. ThreadsInv(r) /\ OfFixture(r, x) \in SUBSET r.threads
        BY DEF RecorderInv, OfFixture
      <4> QED BY <1>3, <3>1, <4>1, OpenIsRunBy
    <3>3. SharedWith(s, x, u, Y)
      BY <1>1, <1>8, <3>2 DEF SetsUpWith, SharedWith, Accounted
    <3> QED BY <2>2, <3>3 DEF Shared
  <2> QED BY <1>1, <2>1, <2>2
<1>10. RunningInv(s)
  <2>1. PICK t : t = r.current
    OBVIOUS
  <2>2. PICK E \in SUBSET Nodes : RunsWith(r, t, E)
    BY <1>1, <2>1 DEF RecorderInv, RunningInv
  <2>3. ThreadsOf(s, t) = ThreadsOf(r, t)
    BY <1>1 DEF ThreadsOf
  <2>4. x \in E
    BY <1>0, <1>1, <2>2 DEF RunsWith
  <2>5. \A y \in s.ready \cap Closure[t] : y \in E \/ Shared(s, y, t)
    BY <1>1, <1>2, <1>3, <2>1, <2>2, <2>4, SharedStays DEF RunsWith
  <2>6. s.ready \cap Requests[t] \subseteq E \cup (r.ready \cap Requests[t])
    BY <1>1, <2>4
  <2>7. s.stage = "call" => s.ready \cap Requests[t] \subseteq E \cup s.unseen[t] \cup Closure[t]
    BY <1>1, <1>2, <1>3, <2>1, <2>2, <2>6 DEF RunsWith
  <2>8. RunsWith(s, t, E)
    BY <1>1, <2>2, <2>3, <2>5, <2>7 DEF RunsWith, Accounted, RanIn
  <2> QED BY <1>1, <2>1, <2>8 DEF RunningInv
<1>11. SettingUpInv(s)
  BY <1>1 DEF SettingUpInv
<1>12. PassedInv(s)
  <2> SUFFICES ASSUME NEW u \in Tests, s.outcome[u] = "passed"
               PROVE  \E X \in SUBSET Nodes : PassedWith(s, u, X)
    BY DEF PassedInv
  <2> QED BY <1>1, <1>3, PassedStays DEF RecorderInv
<1> QED BY <1>4, <1>5, <1>6, <1>7, <1>9, <1>10, <1>11, <1>12 DEF RecorderInv

(* CallTest keeps it: requested fixtures that are ready already are unseen by the test. *)
LEMMA CallKeeps ==
  ASSUME NEW p, NEW r \in RecorderState, NEW s \in RecorderState, CallStep(r, s), RecorderInv(p, r)
  PROVE  RecorderInv(p, s)
<1>0. PICK t : t = r.current
  OBVIOUS
<1>1. /\ r.stage = "setup" /\ r.pending = {} /\ r.fixture = NoFixture /\ Closure[t] \subseteq r.ready
      /\ s.stage = "call" /\ s.pending = {t} /\ s.ran = {} /\ s.ready = r.ready
      /\ s.mine = r.mine /\ s.loaded = r.loaded /\ s.threads = r.threads
      /\ s.current = t /\ s.fixture = r.fixture /\ s.broken = r.broken /\ s.outcome = r.outcome
      /\ s.executed = r.executed /\ s.fixtureCode = r.fixtureCode /\ SameCode(r, s)
  BY <1>0 DEF CallStep, SameCode
<1>2. /\ t \in Tests /\ t # NoTest /\ r.outcome[t] = "none"
      /\ Done(r) /\ Collection(Base) \subseteq r.loaded
  BY <1>0, <1>1, RunningIsDone
<1> DEFINE D == (Requests[t] \ Closure[t]) \cap r.ready
           tests == {t}
<1>3. /\ \A u \in Tests : r.unseen[u] \subseteq s.unseen[u]
      /\ D \subseteq s.unseen[t]
  <2>1. D \in SUBSET (Threads \cup Fixtures)
    BY DEF RecorderState
  <2>2. s.unseen = UnseenAfter(r, tests, D)
    BY <1>0 DEF CallStep
  <2>3. t \in Tests \cap tests
    BY <1>2
  <2> HIDE DEF D, tests
  <2> QED BY <2>1, <2>2, <2>3, UnseenType
<1>4. StageInv(p, s)
  BY <1>0, <1>1, <1>2 DEF RecorderInv, StageInv
<1>5. LoadedInv(s)
  BY <1>1, <1>2 DEF LoadedInv
<1>6. ThreadsInv(s)
  BY <1>0, <1>1 DEF RecorderInv, ThreadsInv, ThreadInv
<1>7. Done(s)
  BY <1>1, <1>2, <1>3, DoneStays
<1>9. SharedInv(s)
  <2> SUFFICES ASSUME NEW u \in Tests, s.outcome[u] = "none", u # s.current, NEW y \in s.ready \cap Closure[u]
               PROVE  Shared(s, y, u)
    BY DEF SharedInv
  <2>1. Shared(r, y, u)
    BY <1>0, <1>1 DEF RecorderInv, SharedInv
  <2> QED BY <1>1, <1>3, <2>1, SharedStays
<1>10. RunningInv(s)
  <2>2. PICK E \in SUBSET Nodes : RunsWith(r, t, E)
    BY <1>0, <1>1 DEF RecorderInv, RunningInv
  <2>3. ThreadsOf(s, t) = ThreadsOf(r, t)
    BY <1>1 DEF ThreadsOf
  <2>5. \A y \in s.ready \cap Closure[t] : y \in E \/ Shared(s, y, t)
    BY <1>1, <1>2, <1>3, <2>2, SharedStays DEF RunsWith
  <2>7. s.ready \cap Requests[t] \subseteq E \cup s.unseen[t] \cup Closure[t]
    BY <1>1, <1>3
  <2>8. RunsWith(s, t, E)
    BY <1>1, <2>2, <2>3, <2>5, <2>7 DEF RunsWith, Accounted, RanIn
  <2> QED BY <1>1, <2>8 DEF RunningInv
<1>11. SettingUpInv(s)
  BY <1>1 DEF SettingUpInv
<1>12. PassedInv(s)
  <2> SUFFICES ASSUME NEW u \in Tests, s.outcome[u] = "passed"
               PROVE  \E X \in SUBSET Nodes : PassedWith(s, u, X)
    BY DEF PassedInv
  <2> QED BY <1>1, <1>3, PassedStays DEF RecorderInv
<1> QED BY <1>4, <1>5, <1>6, <1>7, <1>9, <1>10, <1>11, <1>12 DEF RecorderInv

(* What a test that passes has run: its own code, and the code of the fixtures
   it found ready. *)
LEMMA TestIsAccounted ==
  ASSUME NEW p, NEW r \in RecorderState, RecorderInv(p, r), r.stage = "call", r.pending = {}, r.fixture = NoFixture,
         NEW t, t = r.current, Requests[t] \subseteq r.ready,
         NEW s, SameCode(r, s), r.unseen[t] \subseteq s.unseen[t], RunsOf(ThreadsOf(r, t)) \subseteq s.unseen[t],
         s.unseen[t] \subseteq Threads \cup Fixtures
  PROVE  \E X \in SUBSET Nodes : PassedWith(s, t, X)
<1>1. PICK E \in SUBSET Nodes : RunsWith(r, t, E)
  BY DEF RecorderInv, RunningInv
<1>2. t \in Tests /\ Closure[t] \subseteq r.ready
  BY DEF RecorderInv, StageInv
<1> DEFINE D == s.unseen[t]
           F == {Y \in SUBSET Nodes : \E x \in Closure[t] : SharedWith(r, x, t, Y)}
           U == UNION F
           X == E \cup U
<1>3. RunBy(r.unseen[t]) \subseteq RunBy(D)
  BY RunByGrows
<1>4. Open(ThreadsOf(r, t)) \subseteq RunBy(D)
  <2>1. ThreadsInv(r) /\ ThreadsOf(r, t) \in SUBSET r.threads
    BY DEF RecorderInv, ThreadsOf
  <2> QED BY <2>1, OpenIsRunBy
<1>5. D \subseteq RunBy(D)
  BY RunByClosed
<1> HIDE DEF D
<1>6. \A Y \in F : /\ Y \subseteq U /\ Described(Y) \subseteq Covers(s, t)
                   /\ Succ(Y) \subseteq U \cup Files \cup RunBy(D)
  <2> SUFFICES ASSUME NEW Y \in F
               PROVE  /\ Y \subseteq U /\ Described(Y) \subseteq Covers(s, t)
                      /\ Succ(Y) \subseteq U \cup Files \cup RunBy(D)
    OBVIOUS
  <2>1. PICK x \in Closure[t] : SharedWith(r, x, t, Y)
    OBVIOUS
  <2>2. s.fixtureCode[x] \subseteq Covers(s, t)
    BY DEF Covers
  <2>3. Y \subseteq U
    OBVIOUS
  <2> HIDE DEF F, U
  <2> QED BY <1>3, <2>1, <2>2, <2>3 DEF SharedWith, Accounted, SameCode
<1>7. \A x \in Closure[t] : x \in X
  <2> SUFFICES ASSUME NEW x \in Closure[t], x \notin E PROVE x \in U
    OBVIOUS
  <2>1. Shared(r, x, t)
    BY <1>1, <1>2 DEF RunsWith
  <2>2. PICK Y \in SUBSET Nodes : SharedWith(r, x, t, Y)
    BY <2>1 DEF Shared
  <2> QED BY <2>2 DEF SharedWith
<1>8. X \in SUBSET Nodes
  BY <1>1
<1>9. Described(U) \subseteq Covers(s, t)
  <2> SUFFICES ASSUME NEW Y \in F, NEW d \in Y \cap Definitions, Base[d] # Absent
               PROVE  SymbolOf[d] \in Covers(s, t)
    BY DEF Described
  <2>1. SymbolOf[d] \in Described(Y)
    BY DEF Described
  <2> QED BY <1>6, <2>1
<1>10. Succ(U) \subseteq U \cup Files \cup RunBy(D)
  <2>1. \A Y \in F : Succ(Y) \subseteq U \cup Files \cup RunBy(D)
    BY <1>6
  <2> HIDE DEF F
  <2> QED BY <2>1, SuccOfMany
<1> HIDE DEF F, U
<1>11. Described(E) \subseteq Covers(s, t)
  BY <1>1 DEF RunsWith, Accounted, Covers, SameCode
<1>12. Succ(E) \subseteq E \cup Files \cup RunBy(D)
  BY <1>1, <1>4 DEF RunsWith, Accounted
<1>13. Accounted(X, Covers(s, t), Files, RunBy(D))
  <2>1. Succ(X) = Succ(E) \cup Succ(U) /\ Described(X) = Described(E) \cup Described(U)
    BY SuccUnion, DescribedUnion
  <2> QED BY <1>8, <1>9, <1>10, <1>11, <1>12, <2>1 DEF Accounted
<1>14. {t} \cup Closure[t] \cup Requests[t] \subseteq X \cup RunBy(D)
  <2>1. t \in E
    BY <1>1 DEF RunsWith
  <2>2. Requests[t] \subseteq E \cup r.unseen[t] \cup Closure[t]
    BY <1>1 DEF RunsWith
  <2>3. r.unseen[t] \subseteq RunBy(D)
    BY <1>5 DEF D
  <2> QED BY <1>7, <2>1, <2>2, <2>3
<1>15. PassedWith(s, t, X)
  BY <1>13, <1>14 DEF PassedWith, D
<1> QED BY <1>8, <1>15

(* PassTest and FailTest keep it. *)
LEMMA FinishKeeps ==
  ASSUME NEW p, NEW r \in RecorderState, NEW s \in RecorderState, NEW result, FinishStep(r, s, result),
         RecorderInv(p, r),
         result = "passed" => /\ r.stage = "call" /\ r.pending = {} /\ r.fixture = NoFixture
                              /\ Requests[r.current] \subseteq r.ready
  PROVE  RecorderInv(p, s)
<1>0. PICK t : t = r.current
  OBVIOUS
<1>1. /\ r.stage \in {"setup", "call"} /\ result \in {"passed", "failed"}
      /\ s.stage = "idle" /\ s.pending = {} /\ s.fixture = NoFixture
      /\ s.broken = r.broken \cup ({r.fixture} \cap Fixtures) /\ s.ready = r.ready
      /\ s.mine = r.mine /\ s.loaded = r.loaded /\ s.threads = r.threads /\ s.current = NoTest
      /\ s.executed = r.executed /\ s.fixtureCode = r.fixtureCode /\ SameCode(r, s)
  BY <1>0 DEF FinishStep, SameCode
<1>2. /\ t \in Tests /\ t # NoTest /\ r.outcome[t] = "none"
      /\ Done(r) /\ Collection(Base) \subseteq r.loaded
  BY <1>0, <1>1, RunningIsDone
<1> DEFINE D == RunsOf(ThreadsOf(r, t))
           tests == {t}
<1>3. /\ \A u \in Tests : r.unseen[u] \subseteq s.unseen[u] /\ s.unseen[u] \subseteq Threads \cup Fixtures
      /\ D \subseteq s.unseen[t]
  <2>1. D \in SUBSET (Threads \cup Fixtures)
    BY RunsOfType DEF ThreadsOf
  <2>2. s.unseen = UnseenAfter(r, tests, D)
    BY <1>0 DEF FinishStep
  <2>3. t \in Tests \cap tests
    BY <1>2
  <2>4. \A u \in Tests : s.unseen[u] \subseteq Threads \cup Fixtures
    BY DEF RecorderState
  <2> HIDE DEF D, tests
  <2> QED BY <2>1, <2>2, <2>3, <2>4, UnseenType
<1>4. s.outcome[t] = result /\ \A u \in Tests : u # t => s.outcome[u] = r.outcome[u]
  <2>1. r.outcome \in [Tests -> {"none", "passed", "failed"}] /\ s.outcome = [r.outcome EXCEPT ![t] = result]
    BY <1>0 DEF FinishStep, RecorderState
  <2> QED BY <1>2, <2>1
<1>5. StageInv(p, s)
  BY <1>1 DEF RecorderInv, StageInv
<1>6. LoadedInv(s)
  BY <1>1, <1>2 DEF LoadedInv
<1>7. ThreadsInv(s)
  <2> SUFFICES ASSUME NEW th \in r.threads PROVE ThreadInv(s, th)
    BY <1>1 DEF ThreadsInv
  <2>1. ThreadInv(r, th)
    BY DEF RecorderInv, ThreadsInv
  <2>2. th.test \in Tests \cup {NoTest} /\ th.fixture \in Fixtures \cup {NoFixture}
    BY DEF RecorderState
  <2>3. th.test = NoTest \/ s.outcome[th.test] # "none"
    BY <1>0, <1>1, <1>4, <2>1, <2>2 DEF ThreadInv
  <2>4. th.fixture \in {NoFixture} \cup s.ready \cup s.broken
    BY <1>1, <2>1, <2>2 DEF ThreadInv
  <2> QED BY <1>1, <2>1, <2>3, <2>4 DEF ThreadInv
<1>8. Done(s)
  BY <1>1, <1>2, <1>3, DoneStays
<1>9. SharedInv(s)
  <2> SUFFICES ASSUME NEW u \in Tests, s.outcome[u] = "none", NEW y \in s.ready \cap Closure[u]
               PROVE  Shared(s, y, u)
    BY DEF SharedInv
  <2>1. u # t
    BY <1>1, <1>4
  <2>2. Shared(r, y, u)
    BY <1>0, <1>1, <1>4, <2>1 DEF RecorderInv, SharedInv
  <2> QED BY <1>1, <1>3, <2>2, SharedStays
<1>10. RunningInv(s)
  BY <1>1 DEF RunningInv
<1>11. SettingUpInv(s)
  BY <1>1 DEF SettingUpInv
<1>12. PassedInv(s)
  <2> SUFFICES ASSUME NEW u \in Tests, s.outcome[u] = "passed"
               PROVE  \E X \in SUBSET Nodes : PassedWith(s, u, X)
    BY DEF PassedInv
  <2>1. CASE u = t
    <3>1. result = "passed"
      BY <1>4, <2>1
    <3>2. /\ r.stage = "call" /\ r.pending = {} /\ r.fixture = NoFixture
          /\ Requests[t] \subseteq r.ready
      BY <1>0, <3>1
    <3>3. /\ r.unseen[t] \subseteq s.unseen[t] /\ RunsOf(ThreadsOf(r, t)) \subseteq s.unseen[t]
          /\ s.unseen[t] \subseteq Threads \cup Fixtures
      BY <1>2, <1>3
    <3> QED BY <1>0, <1>1, <2>1, <3>2, <3>3, TestIsAccounted
  <2>2. CASE u # t
    <3>1. r.outcome[u] = "passed" /\ r.unseen[u] \subseteq s.unseen[u]
      BY <1>3, <1>4, <2>2
    <3> QED BY <1>1, <3>1, PassedStays DEF RecorderInv
  <2> QED BY <2>1, <2>2
<1> QED BY <1>5, <1>6, <1>7, <1>8, <1>9, <1>10, <1>11, <1>12 DEF RecorderInv

(* A new process, and one that the time limit has ended. *)
LEMMA NewRecorderInv ==
  ASSUME NEW p, NEW stage \in {"collect", "crashed"}
  PROVE  RecorderInv(p, [NewRecorder EXCEPT !.stage = stage])
<1> DEFINE r == [NewRecorder EXCEPT !.stage = stage]
<1>1. /\ r.stage = stage /\ r.loaded = {} /\ r.pending = Collection(Base) /\ r.ran = {}
      /\ r.current = NoTest /\ r.fixture = NoFixture /\ r.ready = {} /\ r.threads = {}
      /\ \A t \in Tests : r.outcome[t] = "none"
  BY DEF NewRecorder
<1> HIDE DEF r
<1>2. FreshWith(r, {})
  BY <1>1, NothingIsAccounted DEF FreshWith, RanIn
<1>3. {} \in SUBSET Nodes
  OBVIOUS
<1>4. Fresh(r)
  BY <1>1, <1>2, <1>3 DEF Fresh
<1>5. StageInv(p, r) /\ LoadedInv(r) /\ ThreadsInv(r)
  BY <1>1 DEF StageInv, LoadedInv, ThreadsInv
<1>6. SharedInv(r) /\ RunningInv(r) /\ SettingUpInv(r) /\ PassedInv(r)
  BY <1>1 DEF SharedInv, RunningInv, SettingUpInv, PassedInv
<1>7. RecorderInv(p, r)
  BY <1>4, <1>5, <1>6 DEF RecorderInv
<1> QED BY <1>7 DEF r

------------------------------------------------------------------------------
(* What a map misses *)

(* Reach is the only set between its roots and itself that leads nowhere else
   in it. *)
LEMMA ReachBySucc ==
  ASSUME NEW roots \in SUBSET Nodes, NEW Z, Z \subseteq Reach(Base, roots), roots \subseteq Z,
         Succ(Z) \cap Reach(Base, roots) \subseteq Z
  PROVE  Z = Reach(Base, roots)
<1> DEFINE R == Reach(Base, roots)
<1>1. R \subseteq Nodes /\ Uses(Base, R) \subseteq R /\ Receivers(Base, R, R) \subseteq R
  BY BaseIsCommit, ReachClosed
<1> HIDE DEF R
<1>2. Uses(Base, Z) \subseteq Z
  <2>1. Uses(Base, Z) \subseteq Uses(Base, R)
    BY DEF Uses, R
  <2> QED BY <1>1, <2>1 DEF Succ, R
<1>3. Receivers(Base, Z, Z) \subseteq Z
  <2>1. Receivers(Base, Z, Z) \subseteq Receivers(Base, R, R)
    BY DEF Receivers, R
  <2>2. Receivers(Base, Z, Z) \subseteq Receivers(Base, Z, Files)
    BY NodesAssumption DEF Receivers, PythonFiles
  <2> QED BY <1>1, <2>1, <2>2 DEF Succ, R
<1>4. Z \in SUBSET Reach(Base, roots)
  OBVIOUS
<1> QED BY <1>2, <1>3, <1>4, BaseIsCommit, ReachLeast

(* What some nodes lead to when everything is collected. *)
LEMMA ReachInSucc ==
  ASSUME NEW roots \in SUBSET Nodes, NEW R, R = ReachIn(Base, roots, Collection(Base))
  PROVE  roots \subseteq R /\ R \subseteq Nodes /\ Succ(R) \subseteq R
<1>1. roots \subseteq R /\ R \subseteq Nodes /\ Closed(Base, R, Collection(Base))
  BY ReachInClosed, BaseIsCommit
<1>2. Receivers(Base, R, Files) \subseteq Receivers(Base, R, R \cup Collection(Base))
  <2> SUFFICES ASSUME NEW e \in Definitions, NEW n \in R, Base[n].sends \cap Base[e].on # {}
               PROVE  FileOf[e] \in Collection(Base)
    BY DEF Receivers
  <2>1. Base[e].on # {}
    OBVIOUS
  <2> QED BY <2>1, ReceiversAssumption
<1> QED BY <1>1, <1>2 DEF Closed, Succ

(* Everything the test reaches has run in its process, or is called by a
   thread, a fixture or a module that it did not start itself. *)
LEMMA ReachIsAccounted ==
  ASSUME NEW t \in PresentTests(Base), NEW D, Succ(D) \subseteq D,
         NEW O, Collection(Base) \subseteq O, Succ(O) \subseteq O \cup D,
         NEW X, Succ(X) \subseteq X \cup Files \cup D,
         {t} \cup Closure[t] \cup Requests[t] \subseteq X \cup D
  PROVE  Reach(Base, Roots[t]) \subseteq X \cup O \cup D \cup LateCode[t]
<1> DEFINE R == Reach(Base, Roots[t])
           Early == Reach(Base, Collection(Base))
           Late == ReachIn(Base, (R \cap Files) \ Early, Collection(Base))
           E == Early \cap (O \cup D)
           Z == R \cap (X \cup O \cup D \cup Late)
<1>1. t \in Tests /\ Roots[t] \in SUBSET Nodes /\ Collection(Base) \in SUBSET Nodes
  BY ContentsAssumption, CollectionType DEF PresentTests
<1>2. LateCode[t] = Late
  BY <1>1 DEF LateCode, ReachedAtBase
<1>3. /\ Roots[t] \subseteq R /\ R \subseteq Nodes
      /\ Collection(Base) \subseteq Early /\ Early \subseteq Nodes
  BY <1>1, BaseIsCommit, ReachClosed
<1>4. (R \cap Files) \ Early \subseteq Late /\ Succ(Late) \subseteq Late
  <2>1. (R \cap Files) \ Early \in SUBSET Nodes
    BY <1>3
  <2> QED BY <2>1, ReachInSucc
<1>5. Early \subseteq O \cup D
  <2>1. E \subseteq Early /\ Collection(Base) \subseteq E
    BY <1>3
  <2>2. Succ(E) \subseteq Succ(O) \cup Succ(D)
    <3>1. E \subseteq O \cup D
      OBVIOUS
    <3> HIDE DEF E
    <3> QED BY <3>1, SuccGrows, SuccUnion
  <2>3. Succ(E) \cap Early \subseteq E
    BY <2>2
  <2> HIDE DEF E
  <2>4. E = Early
    BY <1>1, <2>1, <2>3, ReachBySucc
  <2> QED BY <2>4 DEF E
<1>6. R \cap Files \subseteq O \cup D \cup Late
  BY <1>4, <1>5
<1>7. Z = R
  <2> HIDE DEF Late, Early
  <2>1. Succ(Z) \subseteq Succ(X) \cup Succ(O) \cup Succ(D) \cup Succ(Late)
    <3>1. Z \subseteq ((X \cup O) \cup D) \cup Late
      OBVIOUS
    <3>2. Succ(((X \cup O) \cup D) \cup Late) = Succ(X) \cup Succ(O) \cup Succ(D) \cup Succ(Late)
      <4>1. /\ Succ(((X \cup O) \cup D) \cup Late) = Succ((X \cup O) \cup D) \cup Succ(Late)
            /\ Succ((X \cup O) \cup D) = Succ(X \cup O) \cup Succ(D)
            /\ Succ(X \cup O) = Succ(X) \cup Succ(O)
        BY SuccUnion
      <4> QED BY <4>1
    <3> HIDE DEF Z
    <3>3. Succ(Z) \subseteq Succ(((X \cup O) \cup D) \cup Late)
      BY <3>1, SuccGrows
    <3> QED BY <3>2, <3>3
  <2>2. Succ(Z) \cap R \subseteq Z
    BY <1>4, <1>6, <2>1
  <2>3. Roots[t] \subseteq Z
    <3>1. Roots[t] = {t, FileOf[t]} \cup AutoLoaded \cup Closure[t] \cup Requests[t]
      BY <1>1, RecordingAssumption
    <3>2. FileOf[t] \in Collection(Base) /\ AutoLoaded \subseteq Collection(Base)
      BY DEF Collection, TestModulesOf
    <3> QED BY <1>3, <3>1, <3>2
  <2>4. Z \subseteq Reach(Base, Roots[t]) /\ Succ(Z) \cap Reach(Base, Roots[t]) \subseteq Z
    BY <2>2
  <2> HIDE DEF Z, R
  <2>5. Z = Reach(Base, Roots[t])
    BY <1>1, <2>3, <2>4, ReachBySucc
  <2> QED BY <2>5 DEF R
<1> QED BY <1>2, <1>7

(* A test that passed has on record every function it reaches at the base, but for late code and
   what is unseen. *)
LEMMA PassedIsCovered ==
  ASSUME NEW p, NEW r \in RecorderState, RecorderInv(p, r), NEW t \in PresentTests(Base), r.outcome[t] = "passed",
         NEW d \in (ReachedAtBase[t] \cap Definitions) \ (LateCode[t] \cup RunBy(r.unseen[t])), Base[d] # Absent
  PROVE  SymbolOf[d] \in Covers(r, t) \cup r.outside
<1>1. t \in Tests
  BY DEF PresentTests
<1>2. PICK X \in SUBSET Nodes : PassedWith(r, t, X)
  BY <1>1 DEF RecorderInv, PassedInv
<1>3. PICK O \in SUBSET Nodes : DoneWith(r, O)
  BY <1>1 DEF RecorderInv, Fresh, Done
<1> DEFINE D == RunBy(r.unseen[t])
<1>4. Succ(D) \subseteq D
  <2>1. r.unseen[t] \in SUBSET (Threads \cup Fixtures)
    BY <1>1 DEF RecorderState
  <2> QED BY <2>1, RunByClosed
<1>5. Collection(Base) \subseteq O /\ Described(O) \subseteq r.outside /\ Succ(O) \subseteq O \cup D
  BY <1>1, <1>3 DEF DoneWith
<1>6. /\ Described(X) \subseteq Covers(r, t) /\ Succ(X) \subseteq X \cup Files \cup D
      /\ {t} \cup Closure[t] \cup Requests[t] \subseteq X \cup D
  BY <1>2 DEF PassedWith, Accounted
<1> HIDE DEF D
<1>7. Reach(Base, Roots[t]) \subseteq X \cup O \cup D \cup LateCode[t]
  BY <1>4, <1>5, <1>6, ReachIsAccounted
<1>8. d \in Reach(Base, Roots[t]) /\ d \in Definitions /\ d \notin D /\ d \notin LateCode[t]
  BY <1>1 DEF ReachedAtBase, D
<1>9. \A Y : d \in Y => SymbolOf[d] \in Described(Y)
  BY <1>8 DEF Described
<1> QED BY <1>5, <1>6, <1>7, <1>8, <1>9

------------------------------------------------------------------------------
(* The processes of a recording *)

RecordersInv == Recorders /\ \A p \in Shards : RecorderInv(p, recorder[p])

(* Setting a field to the value it has. *)
LEMMA SameRecord ==
  ASSUME NEW r \in RecorderState, r.stage = "collect"
  PROVE  [r EXCEPT !.stage = "collect"] = r
BY DEF RecorderState

(* The invariant holds of a new process. *)
LEMMA FreshRecorderInv ==
  ASSUME NEW p
  PROVE  NewRecorder \in RecorderState /\ RecorderInv(p, NewRecorder)
<1>1. NewRecorder.stage = "collect" /\ NewRecorder \in RecorderState
  <2>1. NewRecorder.stage = "collect"
    BY DEF NewRecorder
  <2> QED BY <2>1, NewRecorderType
<1>2. [NewRecorder EXCEPT !.stage = "collect"] = NewRecorder
  BY <1>1, SameRecord
<1>3. RecorderInv(p, [NewRecorder EXCEPT !.stage = "collect"])
  BY NewRecorderInv
<1> QED BY <1>1, <1>2, <1>3

(* It holds of all of them at the start. *)
LEMMA InitRecorders ==
  ASSUME Init
  PROVE  RecordersInv
<1>1. recorder = [p \in Shards |-> NewRecorder]
  BY DEF Init
<1>2. Recorders /\ \A p \in Shards : RecorderInv(p, recorder[p])
  BY <1>1, FreshRecorderInv DEF Recorders
<1> QED BY <1>2 DEF RecordersInv

(* A step of one process leaves the others alone. *)
LEMMA OneMoves ==
  ASSUME NEW p \in Shards, RecordersInv, Only(p), RecorderInv(p, recorder'[p])
  PROVE  RecordersInv'
<1>1. \A q \in Shards : recorder'[q] = IF q = p THEN recorder'[p] ELSE recorder[q]
  BY DEF Only, RecordersInv, Recorders
<1>2. Recorders'
  BY DEF Only, RecordersInv, Recorders
<1>3. \A q \in Shards : RecorderInv(q, recorder'[q])
  BY <1>1 DEF RecordersInv
<1> QED BY <1>2, <1>3 DEF RecordersInv

(* Every step of a recording keeps the invariant of all processes. *)
LEMMA RecordStep ==
  ASSUME NEW p \in Shards, RecordersInv, Record(p)
  PROVE  RecordersInv'
<1> DEFINE r == recorder[p]
           s == recorder'[p]
<1>1. Recorders /\ r \in RecorderState /\ RecorderInv(p, r)
  BY DEF RecordersInv, Recorders
<1>2. r.stage \in {"setup", "call"} => r.current \in Tests
  BY <1>1 DEF RecorderInv, StageInv
<1>3. ASSUME Only(p) PROVE s \in RecorderState
  BY <1>3 DEF Only
<1>4. CASE Crash(p)
  <2> DEFINE v == [NewRecorder EXCEPT !.stage = "crashed"]
  <2>1. recorder' = [recorder EXCEPT ![p] = v]
    BY <1>4 DEF Crash, Moves
  <2>2. v \in RecorderState /\ RecorderInv(p, v)
    BY NewRecorderType, NewRecorderInv
  <2> HIDE DEF v
  <2>3. Only(p) /\ recorder'[p] = v
    BY <1>1, <2>1, <2>2 DEF Only, Recorders
  <2> QED BY <2>2, <2>3, OneMoves
<1>5. CASE Profile(p)
  <2>1. Only(p) /\ \E calls \in SUBSET Nodes : ProfileStep(r, s, calls)
    BY <1>1, <1>5, ProfileFields
  <2> HIDE DEF r, s
  <2>2. RecorderInv(p, s)
    BY <1>1, <1>3, <2>1, ProfileKeeps
  <2> QED BY <2>1, <2>2, OneMoves DEF s
<1>6. CASE ThreadCalls(p)
  <2>1. Only(p) /\ \E th, n, new : CallsStep(r, s, th, n, new)
    BY <1>1, <1>6, CallsFields
  <2> HIDE DEF r, s
  <2>2. RecorderInv(p, s)
    BY <1>1, <1>3, <2>1, CallsKeep
  <2> QED BY <2>1, <2>2, OneMoves DEF s
<1>7. CASE ThreadCovers(p)
  <2>1. Only(p) /\ \E th, todo, rest : CoversStep(r, s, th, todo, rest)
    BY <1>1, <1>7, CoversFields
  <2> HIDE DEF r, s
  <2>2. RecorderInv(p, s)
    BY <1>1, <1>3, <2>1, CoversKeep
  <2> QED BY <2>1, <2>2, OneMoves DEF s
<1>8. CASE Collected(p)
  <2>1. Only(p) /\ CollectedStep(p, r, s)
    BY <1>1, <1>8, CollectedFields
  <2> HIDE DEF r, s
  <2>2. RecorderInv(p, s)
    BY <1>1, <1>3, <2>1, CollectedKeeps
  <2> QED BY <2>1, <2>2, OneMoves DEF s
<1>9. CASE FixtureReady(p)
  <2>1. Only(p) /\ ReadyStep(r, s)
    BY <1>1, <1>9, ReadyFields
  <2> HIDE DEF r, s
  <2>2. RecorderInv(p, s)
    BY <1>1, <1>3, <2>1, ReadyKeeps
  <2> QED BY <2>1, <2>2, OneMoves DEF s
<1>10. CASE CallTest(p)
  <2>0. r.current \in Tests
    BY <1>2, <1>10 DEF CallTest, Idle
  <2>1. Only(p) /\ CallStep(r, s)
    BY <1>1, <1>10, <2>0, CallFields
  <2> HIDE DEF r, s
  <2>2. RecorderInv(p, s)
    BY <1>1, <1>3, <2>1, CallKeeps
  <2> QED BY <2>1, <2>2, OneMoves DEF s
<1>11. CASE PassTest(p)
  <2>0. /\ r.stage = "call" /\ r.pending = {} /\ r.fixture = NoFixture
        /\ Requests[r.current] \subseteq r.ready /\ FinishTest(p, "passed")
    BY <1>11 DEF PassTest, Idle
  <2>1. Only(p) /\ FinishStep(r, s, "passed")
    BY <1>1, <1>2, <2>0, FinishFields
  <2> HIDE DEF r, s
  <2>2. RecorderInv(p, s)
    BY <1>1, <1>3, <2>0, <2>1, FinishKeeps
  <2> QED BY <2>1, <2>2, OneMoves DEF s
<1>12. CASE FailTest(p)
  <2>0. r.stage \in {"setup", "call"} /\ FinishTest(p, "failed")
    BY <1>12 DEF FailTest
  <2>1. Only(p) /\ FinishStep(r, s, "failed")
    BY <1>1, <1>2, <2>0, FinishFields
  <2> HIDE DEF r, s
  <2>2. RecorderInv(p, s)
    BY <1>1, <1>3, <2>0, <2>1, FinishKeeps
  <2> QED BY <2>1, <2>2, OneMoves DEF s
<1>13. CASE Write(p)
  <2>1. Only(p) /\ WriteStep(r, s)
    BY <1>1, <1>13, WriteFields
  <2> HIDE DEF r, s
  <2>2. RecorderInv(p, s)
    BY <1>1, <1>3, <2>1, WriteKeeps
  <2> QED BY <2>1, <2>2, OneMoves DEF s
<1>14. CASE \E t \in Tests : StartTest(p, t)
  <2>1. PICK t \in Tests : StartTest(p, t)
    BY <1>14
  <2>2. Only(p) /\ StartStep(r, s, t)
    BY <1>1, <2>1, StartFields
  <2> HIDE DEF r, s
  <2>3. RecorderInv(p, s)
    BY <1>1, <1>3, <2>2, StartKeeps
  <2> QED BY <2>2, <2>3, OneMoves DEF s
<1>15. CASE \E x \in Fixtures : SetUpFixture(p, x)
  <2>1. PICK x \in Fixtures : SetUpFixture(p, x)
    BY <1>15
  <2>2. Only(p) /\ SetUpStep(r, s, x)
    BY <1>1, <2>1, SetUpFields
  <2> HIDE DEF r, s
  <2>3. RecorderInv(p, s)
    BY <1>1, <1>3, <2>2, SetUpKeeps
  <2> QED BY <2>2, <2>3, OneMoves DEF s
<1> QED BY <1>4, <1>5, <1>6, <1>7, <1>8, <1>9, <1>10, <1>11, <1>12, <1>13, <1>14, <1>15 DEF Record
=============================================================================

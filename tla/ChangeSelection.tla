--------------------------- MODULE ChangeSelection ---------------------------
(***************************************************************************)
(* The choice of tests from the difference between two commits             *)
(* (selection.py): what counts as a change of a module and of a function,  *)
(* when the whole suite runs, and which tests run otherwise.               *)
(*                                                                         *)
(* A commit gives every node a content.  A node is a file (its module- or  *)
(* class-level code, or the whole file when it is not Python) or one       *)
(* definition of a function.  A content is what the program text says, as  *)
(* far as it decides which other code runs: the nodes it uses, the signals *)
(* it sends, and, for a function, the signals its decorators connect it    *)
(* to; @pytest.fixture(autouse=True) connects to the start of a test.      *)
(*                                                                         *)
(* Behaviour, at the end, is the reference: what a test really runs.       *)
(***************************************************************************)
EXTENDS Integers, FiniteSets

CONSTANTS
  Files, Definitions,
  Tests,        \* the definitions pytest collects
  Kind,         \* "python", "data", "documentation" (or ignored), "full_run_path"
  FileOf,       \* the file of a definition
  SymbolOf,     \* path:qualname, which two definitions may share
  Order,        \* the order of definitions in a file
  Methods,      \* the definitions in a class body
  Contents, Absent, Broken,
  Roots         \* what pytest runs for a test: itself, its module, its fixtures, ...

Nodes == {f \in Files : Kind[f] # "documentation"} \cup Definitions
Symbols == {SymbolOf[d] : d \in Definitions}
PythonFiles == {f \in Files : Kind[f] = "python"}
Commit == [Files \cup Definitions -> Contents]

ASSUME NodesAssumption ==
  /\ Files \cap Definitions = {}
  /\ FileOf \in [Definitions -> PythonFiles]
  /\ Tests \subseteq Definitions /\ Methods \subseteq Definitions
  /\ DOMAIN Kind = Files /\ DOMAIN SymbolOf = Definitions
  /\ \A d, e \in Definitions : SymbolOf[d] = SymbolOf[e] => FileOf[d] = FileOf[e]
  /\ Order \in [Definitions -> Nat]

(* An absent node does nothing; no code reads a file the project declares to
   be documentation or ignored. *)
ASSUME ContentsAssumption ==
  /\ {Absent, Broken} \subseteq Contents
  /\ \A c \in Contents : c.uses \subseteq Nodes
  /\ \A c \in {Absent, Broken} : c.uses = {} /\ c.sends = {} /\ c.on = {}
  /\ Roots \in [Tests -> SUBSET Nodes]

------------------------------------------------------------------------------
(* _shape *)

Present(c, f) == {d \in Definitions : FileOf[d] = f /\ c[d] # Absent}

\* The dictionary keeps the last definition of a qualified name.
Dump(c, s) ==
  LET named == {d \in Definitions : SymbolOf[d] = s /\ c[d] # Absent}
  IN IF named = {} THEN Absent
     ELSE c[CHOOSE d \in named : \A e \in named : Order[e] <= Order[d]]

(* Functions are left out with their decorators; a class keeps the names of
   its methods. *)
Skeleton(c, f) == <<c[f], Present(c, f) \cap Methods>>

------------------------------------------------------------------------------
(* analyze_changes, from the map commit b to the head h *)

ChangedPaths(b, h) ==
  {f \in Files : b[f] # h[f] \/ \E d \in Definitions : FileOf[d] = f /\ b[d] # h[d]}
Added(b, h, f) == b[f] = Absent /\ h[f] # Absent
Removed(b, h, f) == b[f] # Absent /\ h[f] = Absent    \* or the source of a rename

ChangedSymbols(b, h) == {s \in Symbols : Dump(b, s) # Dump(h, s)}

ModuleLevel(b, h, f, testModules) ==
  \/ Broken \in {b[f], h[f]}
  \/ f \notin testModules /\ ~ Added(b, h, f) /\ Skeleton(b, f) # Skeleton(h, f)

(* The code reports the reason of the first path that has one. *)
BoundlessReasons(b, h, testModules) ==
  UNION { CASE Kind[f] = "full_run_path" -> {"full_run_path"}
            [] Kind[f] = "data" -> {"non_python"}
            [] Kind[f] = "documentation" -> {}
            [] Kind[f] = "python" /\ Removed(b, h, f) -> {"removed_file"}
            [] OTHER -> IF ModuleLevel(b, h, f, testModules) THEN {"module_level"} ELSE {}
          : f \in ChangedPaths(b, h) }

(* The ChangeSet. *)
AnalyzeChanges(b, h, testModules) ==
  [reasons |-> BoundlessReasons(b, h, testModules), symbols |-> ChangedSymbols(b, h),
   testFiles |-> ChangedPaths(b, h) \cap testModules]

------------------------------------------------------------------------------
(* select_tests, with a test map m and the changes since its commit *)

TestModules(m) == {FileOf[t] : t \in m.tests}

FullRunReasons(m, changes) ==
  IF changes.reasons # {} THEN changes.reasons
  ELSE IF changes.symbols \cap m.outside # {} THEN {"outside_test"} ELSE {}

\* Mutant: tests that failed when the map was recorded are trusted like the others.
AffectedByChange(m, changes) == {t \in m.tests : changes.symbols \cap m.covers[t] # {}}

Affected(m, changes) == {t \in m.tests : t \in m.failed \/ changes.symbols \cap m.covers[t] # {}}

(* Selector.keep for the collected tests of an impact selection: a test the
   map does not know is new or renamed. *)
Keep(m, changes, collected) ==
  {t \in collected : \/ t \in Affected(m, changes) \/ t \notin m.tests
                     \/ FileOf[t] \in changes.testFiles}

------------------------------------------------------------------------------
(* The reference: what a test runs *)

Uses(c, X) == UNION {c[n].uses : n \in X}

\* Functions connected to a signal that X sends, in files that are loaded.
Receivers(c, X, loaded) ==
  {d \in Definitions : FileOf[d] \in loaded /\ \E n \in X : c[n].sends \cap c[d].on # {}}

Closed(c, X, loaded) == Uses(c, X) \subseteq X /\ Receivers(c, X, X \cup loaded) \subseteq X

\* Nodes that something leads to.
Targets(c) == Uses(c, Nodes) \cup {d \in Definitions : c[d].on # {}}

(* What runs when some nodes start in a process that has loaded some files:
   the least closed set that holds them. *)
ReachIn(c, roots, loaded) ==
  LET closed == {X \in {roots \cup Y : Y \in SUBSET (Targets(c) \ roots)} : Closed(c, X, loaded)}
  IN {n \in Nodes : \A X \in closed : n \in X}

\* What runs when pytest starts from some nodes in a fresh process.
Reach(c, roots) == ReachIn(c, roots, {})

(* Everything the result of a test can depend on. *)
Behaviour(c, t) == [n \in Reach(c, Roots[t]) |-> c[n]]

(* A method that joins an existing class changes the skeleton of its module. *)
JoinsClass(b, n, testModules) ==
  n \in Methods /\ b[FileOf[n]] # Absent /\ FileOf[n] \notin testModules

(* A head the comparison can bound for test t: at the head t reaches nothing
   new except methods of existing classes, and no function with a new
   connection; it reaches no other test module, and no two definitions of one
   name. *)
Traceable(b, h, t, testModules) ==
  /\ \A n \in Reach(h, Roots[t]) :
       /\ b[n] # Absent \/ JoinsClass(b, n, testModules)
       /\ n \in Definitions /\ b[n] # Absent => h[n].on \subseteq b[n].on
  /\ Reach(b, Roots[t]) \cap testModules \subseteq {FileOf[t]}
  /\ \A d \in Reach(b, Roots[t]) \cap Definitions, e \in Definitions :
       SymbolOf[d] = SymbolOf[e] => d = e
=============================================================================

------------------------- MODULE TestSelectionProofs -------------------------
(*****************************************************************************)
(* The tests of a review, for every project, map, head, number of shards and *)
(* result of a process: the map covers every test that passed, an impact     *)
(* selection leaves out only tests that behave as they did, the counts of    *)
(* the comment are those of all kept tests, and no packing of the shards is  *)
(* much better than theirs.                                                  *)
(*****************************************************************************)
EXTENDS RecordingProofs, WellFoundedInduction

------------------------------------------------------------------------------
(* An impact selection is sound.  The code a test runs at both commits has
   one content in both, so it is closed under calls in both, and nothing else
   can run. *)

(* The dump of a definition that shares its name with no other is its content. *)
LEMMA DumpOfUnique ==
  ASSUME NEW c \in Commit, NEW d \in Definitions,
         \A e \in Definitions : SymbolOf[d] = SymbolOf[e] => d = e
  PROVE  Dump(c, SymbolOf[d]) = c[d]
<1> DEFINE named == {e \in Definitions : SymbolOf[e] = SymbolOf[d] /\ c[e] # Absent}
<1>1. CASE c[d] = Absent
  <2>1. named = {}
    BY <1>1
  <2> QED BY <1>1, <2>1 DEF Dump
<1>2. CASE c[d] # Absent
  <2>1. named = {d}
    BY <1>2
  <2>2. Order[d] <= Order[d]
    BY NodesAssumption
  <2>3. (CHOOSE e \in named : \A f \in named : Order[f] <= Order[e]) = d
    BY <2>1, <2>2
  <2> QED BY <2>1, <2>3 DEF Dump
<1> QED BY <1>1, <1>2

(* Without a reason for a full run, a changed file that a test can read is a
   module of the map's tests or a new module. *)
LEMMA ChangedFile ==
  ASSUME NEW b \in Commit, NEW h \in Commit, NEW testModules,
         BoundlessReasons(b, h, testModules) = {},
         NEW f \in Files \cap Nodes, f \in ChangedPaths(b, h)
  PROVE  /\ ~ ModuleLevel(b, h, f, testModules)
         /\ f \in testModules \/ b[f] = Absent \/ Skeleton(b, f) = Skeleton(h, f)
<1>1. Kind[f] # "documentation"
  BY NodesAssumption DEF Nodes
<1> DEFINE reasons == CASE Kind[f] = "full_run_path" -> {"full_run_path"}
                        [] Kind[f] = "data" -> {"non_python"}
                        [] Kind[f] = "documentation" -> {}
                        [] Kind[f] = "python" /\ Removed(b, h, f) -> {"removed_file"}
                        [] OTHER -> IF ModuleLevel(b, h, f, testModules) THEN {"module_level"} ELSE {}
<1>2. reasons \subseteq BoundlessReasons(b, h, testModules)
  BY DEF BoundlessReasons
<1> HIDE DEF reasons
<1>3. reasons = {}
  BY <1>2
<1>4. ~ ModuleLevel(b, h, f, testModules)
  BY <1>1, <1>3 DEF reasons
<1> QED BY <1>4 DEF ModuleLevel, Added

(* A method that joins a class of an existing module is a reason. *)
LEMMA NoMethodJoins ==
  ASSUME NEW b \in Commit, NEW h \in Commit, NEW testModules,
         BoundlessReasons(b, h, testModules) = {},
         NEW d \in Definitions, b[d] = Absent, JoinsClass(b, d, testModules)
  PROVE  h[d] = Absent
<1> SUFFICES ASSUME h[d] # Absent PROVE FALSE
  OBVIOUS
<1> DEFINE f == FileOf[d]
<1>1. f \in Files \cap Nodes /\ f \in ChangedPaths(b, h)
  BY NodesAssumption DEF ChangedPaths, Nodes, PythonFiles
<1>2. Skeleton(b, f) = Skeleton(h, f)
  BY <1>1, ChangedFile DEF JoinsClass
<1>3. Present(b, f) \cap Methods = Present(h, f) \cap Methods
  BY <1>2 DEF Skeleton
<1>4. d \in Present(h, f) \cap Methods /\ d \notin Present(b, f)
  BY DEF Present, JoinsClass
<1> QED BY <1>3, <1>4

------------------------------------------------------------------------------
(* selection.py:226-242: a test that an impact selection leaves out behaves at
   the head as it did when the map was recorded. *)
THEOREM SelectionIsSound ==
  ASSUME NEW b \in Commit, NEW h \in Commit, NEW m, NEW t \in Tests, t \in m.tests,
         NEW changes, changes = AnalyzeChanges(b, h, TestModules(m)),
         FullRunReasons(m, changes) = {},
         NEW collected, t \in collected \ Keep(m, changes, collected),
         Traceable(b, h, t, TestModules(m)),
         \A d \in Reach(b, Roots[t]) \cap Definitions :
           b[d] # Absent => SymbolOf[d] \in m.covers[t] \cup m.outside \/ h[d] = b[d]
  PROVE  Behaviour(h, t) = Behaviour(b, t)
<1> DEFINE roots == Roots[t]
           RB == Reach(b, roots)
           RH == Reach(h, roots)
           Both == RB \cap RH
<1>1. BoundlessReasons(b, h, TestModules(m)) = {} /\ ChangedSymbols(b, h) \cap m.outside = {}
  BY DEF FullRunReasons, AnalyzeChanges
<1>2. ChangedSymbols(b, h) \cap m.covers[t] = {} /\ FileOf[t] \notin ChangedPaths(b, h) \cap TestModules(m)
  BY DEF Keep, Affected, AnalyzeChanges
<1>3. roots \in SUBSET Nodes
  BY ContentsAssumption
<1>4. /\ roots \subseteq RB /\ RB \subseteq Nodes /\ Uses(b, RB) \subseteq RB /\ Receivers(b, RB, RB) \subseteq RB
      /\ roots \subseteq RH /\ RH \subseteq Nodes /\ Uses(h, RH) \subseteq RH /\ Receivers(h, RH, RH) \subseteq RH
  BY <1>3, ReachClosed
<1>5. ASSUME NEW d \in RB \cap Definitions, b[d] # Absent
      PROVE  h[d] = b[d]
  <2>1. Dump(b, SymbolOf[d]) = b[d] /\ Dump(h, SymbolOf[d]) = h[d]
    BY DumpOfUnique DEF Traceable
  <2>2. CASE SymbolOf[d] \in m.covers[t] \cup m.outside
    <3>1. SymbolOf[d] \notin ChangedSymbols(b, h)
      BY <1>1, <1>2, <2>2
    <3> QED BY <2>1, <3>1 DEF ChangedSymbols, Symbols
  <2> QED BY <1>5, <2>2
<1>6. ASSUME NEW d \in RH \cap Definitions, b[d] = Absent
      PROVE  h[d] = Absent
  BY <1>1, <1>4, <1>6, NoMethodJoins DEF Traceable
<1>7. ASSUME NEW f \in Both \cap Files
      PROVE  h[f] = b[f]
  <2> SUFFICES ASSUME h[f] # b[f] PROVE FALSE
    OBVIOUS
  <2>1. f \in Files \cap Nodes /\ f \in ChangedPaths(b, h)
    BY <1>4 DEF ChangedPaths
  <2>2. b[f] # Absent
    BY NodesAssumption DEF Traceable, JoinsClass
  <2>3. f \notin TestModules(m)
    <3>1. f \in TestModules(m) => f = FileOf[t]
      BY DEF Traceable
    <3> QED BY <1>2, <2>1, <3>1
  <2>4. Skeleton(b, f) = Skeleton(h, f)
    BY <1>1, <2>1, <2>2, <2>3, ChangedFile
  <2> QED BY <2>4 DEF Skeleton
<1>8. \A n \in Both : h[n] = b[n]
  <2> SUFFICES ASSUME NEW n \in Both PROVE h[n] = b[n]
    OBVIOUS
  <2>1. n \in Files \/ n \in Definitions
    BY <1>4 DEF Nodes
  <2> QED BY <1>5, <1>6, <1>7, <2>1
<1> HIDE DEF RB, RH
<1>9. Uses(b, Both) \subseteq Both /\ Receivers(b, Both, Both) \subseteq Both
  <2>1. Uses(b, Both) \subseteq Both
    BY <1>4, <1>8 DEF Uses
  <2>2. Receivers(b, Both, Both) \subseteq Both
    <3> SUFFICES ASSUME NEW d \in Definitions, FileOf[d] \in Both,
                        NEW n \in Both, b[n].sends \cap b[d].on # {}
                 PROVE  d \in Both
      BY DEF Receivers
    <3>1. d \in RB
      BY <1>4 DEF Receivers
    <3>2. h[d] = b[d] /\ h[n] = b[n]
      BY <1>5, <1>8, <3>1, ContentsAssumption
    <3>3. d \in RH
      BY <1>4, <3>2 DEF Receivers
    <3> QED BY <3>1, <3>3
  <2> QED BY <2>1, <2>2
<1>10. Both = RB
  <2>1. Both \in SUBSET Reach(b, roots) /\ roots \subseteq Both
    BY <1>4 DEF RB
  <2> QED BY <1>3, <1>9, <2>1, ReachLeast DEF RB
<1>11. Uses(h, Both) \subseteq Both /\ Receivers(h, Both, Both) \subseteq Both
  <2>1. Uses(h, Both) \subseteq Both
    BY <1>4, <1>8 DEF Uses
  <2>2. Receivers(h, Both, Both) \subseteq Both
    <3> SUFFICES ASSUME NEW d \in Definitions, FileOf[d] \in Both,
                        NEW n \in Both, h[n].sends \cap h[d].on # {}
                 PROVE  d \in Both
      BY DEF Receivers
    <3>1. d \in RH
      BY <1>4 DEF Receivers
    <3>2. b[d] # Absent
      BY <1>6, <3>1, ContentsAssumption
    <3>3. h[d].on \subseteq b[d].on
      BY <3>1, <3>2 DEF Traceable, RH
    <3>4. b[n].sends \cap b[d].on # {}
      BY <1>8, <3>3
    <3> QED BY <1>4, <3>1, <3>4 DEF Receivers
  <2> QED BY <2>1, <2>2
<1>12. Both = RH
  <2>1. Both \in SUBSET Reach(h, roots) /\ roots \subseteq Both
    BY <1>4 DEF RH
  <2> QED BY <1>3, <1>11, <2>1, ReachLeast DEF RH
<1> QED BY <1>8, <1>10, <1>12 DEF Behaviour, RB, RH

------------------------------------------------------------------------------
(* Folds over finite sets *)

(* A nonempty family of subsets of a finite set has a least member. *)
LEMMA LeastSubset ==
  ASSUME NEW S, IsFiniteSet(S), NEW T \in SUBSET (SUBSET S), T # {}
  PROVE  \E X \in T : \A Y \in T : Y \subseteq X => Y = X
<1>1. T \subseteq FiniteSubsetsOf(S)
  BY FS_FiniteSubsetsOfFinite
<1>2. PICK X \in T : \A Y \in T : <<Y, X>> \notin StrictSubsetOrdering(S)
  BY <1>1, FS_StrictSubsetOrderingWellFounded, WFMin
<1>3. ASSUME NEW Y \in T, Y \subseteq X PROVE Y = X
  BY <1>2, <1>3 DEF StrictSubsetOrdering
<1> QED BY <1>3

(* Total and transitive. *)
Orders(before, S) ==
  /\ \A x, y \in S : x # y => <<x, y>> \in before \/ <<y, x>> \in before
  /\ \A x, y, z \in S : <<x, y>> \in before /\ <<y, z>> \in before => <<x, z>> \in before

IsLast(x, A, before) == x \in A /\ \A y \in A \ {x} : <<y, x>> \in before

(* A finite set has a member that an order puts last. *)
LEMMA LastExists ==
  ASSUME NEW S, IsFiniteSet(S), NEW before, Orders(before, S), NEW A, A \subseteq S, A # {}
  PROVE  \E x : IsLast(x, A, before)
<1> DEFINE Bad == {B \in SUBSET A : B # {} /\ ~ \E x \in B : \A y \in B \ {x} : <<y, x>> \in before}
<1> SUFFICES ASSUME Bad # {} PROVE FALSE
  BY DEF IsLast
<1>1. IsFiniteSet(A) /\ Bad \in SUBSET (SUBSET A)
  BY FS_Subset
<1> HIDE DEF Bad
<1>2. PICK B \in Bad : \A C \in Bad : C \subseteq B => C = B
  BY <1>1, LeastSubset
<1>9. /\ B \subseteq A /\ B # {}
      /\ ~ \E x \in B : \A y \in B \ {x} : <<y, x>> \in before
  BY DEF Bad
<1>3. PICK b : b \in B
  BY <1>9
<1> DEFINE C == B \ {b}
<1>4. C # {} /\ C \subseteq A
  BY <1>3, <1>9
<1>5. C \notin Bad
  BY <1>2, <1>3
<1>6. PICK x \in C : \A y \in C \ {x} : <<y, x>> \in before
  BY <1>4, <1>5 DEF Bad
<1>7. CASE <<b, x>> \in before
  <2>1. \A y \in B \ {x} : <<y, x>> \in before
    BY <1>6, <1>7
  <2> QED BY <1>6, <1>9, <2>1
<1>8. CASE <<x, b>> \in before
  <2>1. \A y \in B \ {b} : <<y, b>> \in before
    <3> SUFFICES ASSUME NEW y \in B \ {b}, y # x PROVE <<y, b>> \in before
      BY <1>8
    <3>1. <<y, x>> \in before /\ y \in S /\ x \in S /\ b \in S
      BY <1>3, <1>4, <1>6, <1>9
    <3> QED BY <1>8, <3>1 DEF Orders
  <2> QED BY <1>3, <1>9, <2>1
<1>10. b # x /\ b \in S /\ x \in S
  BY <1>3, <1>4, <1>6, <1>9
<1> QED BY <1>7, <1>8, <1>10 DEF Orders

(* What holds of nothing, and of s when it holds of s without its c[s]. *)
Climbs(Good, S, c) ==
  {} \in Good /\ \A s \in SUBSET S : s # {} => c[s] \in s /\ (s \ {c[s]} \in Good => s \in Good)

(* Then it holds of all subsets. *)
LEMMA FoldInduction ==
  ASSUME NEW S, IsFiniteSet(S), NEW Good, NEW c, Climbs(Good, S, c)
  PROVE  SUBSET S \subseteq Good
<1> DEFINE Bad == (SUBSET S) \ Good
<1> SUFFICES ASSUME Bad # {} PROVE FALSE
  OBVIOUS
<1>1. Bad \in SUBSET (SUBSET S)
  OBVIOUS
<1> HIDE DEF Bad
<1>2. PICK s \in Bad : \A u \in Bad : u \subseteq s => u = s
  BY <1>1, LeastSubset
<1>3. s \in SUBSET S /\ s \notin Good
  BY DEF Bad
<1>4. c[s] \in s /\ s \ {c[s]} \notin Good
  BY <1>3 DEF Climbs
<1>5. s \ {c[s]} \in Bad
  BY <1>3, <1>4 DEF Bad
<1> QED BY <1>2, <1>4, <1>5

(* iter folds S by taking c[s] from every s. *)
FoldsBy(iter, S, base, step, c) ==
  iter = [s \in SUBSET S |-> IF s = {} THEN base ELSE step[<<c[s], iter[s \ {c[s]}]>>]]

(* A fold whose steps stay in V has its result there. *)
LEMMA FoldType ==
  ASSUME NEW S, IsFiniteSet(S), NEW V, NEW base \in V, NEW step \in [S \X V -> V],
         NEW c, \A s \in SUBSET S : s # {} => c[s] \in s,
         NEW iter, FoldsBy(iter, S, base, step, c)
  PROVE  iter \in [SUBSET S -> V]
<1> DEFINE Good == {s \in SUBSET S : iter[s] \in V}
<1>1. \A s \in SUBSET S : iter[s] = IF s = {} THEN base ELSE step[<<c[s], iter[s \ {c[s]}]>>]
  BY DEF FoldsBy
<1>2. iter = [s \in SUBSET S |-> iter[s]]
  BY DEF FoldsBy
<1>3. {} \in Good
  BY <1>1
<1>4. ASSUME NEW s \in SUBSET S, s # {}, s \ {c[s]} \in Good
      PROVE  s \in Good
  <2>1. c[s] \in S /\ iter[s \ {c[s]}] \in V
    BY <1>4
  <2>2. iter[s] = step[<<c[s], iter[s \ {c[s]}]>>]
    BY <1>1, <1>4
  <2>3. step[<<c[s], iter[s \ {c[s]}]>>] \in V
    BY <2>1
  <2> QED BY <2>2, <2>3
<1> HIDE DEF Good
<1>5. Climbs(Good, S, c)
  BY <1>3, <1>4 DEF Climbs
<1>6. SUBSET S \subseteq Good
  BY <1>5, FoldInduction
<1> QED BY <1>2, <1>6 DEF Good

(* Two folds that take the members in one order agree where both are defined. *)
LEMMA FoldUnique ==
  ASSUME NEW A, IsFiniteSet(A), NEW B, NEW C, C \subseteq A, C \subseteq B, NEW base, NEW step,
         NEW c, \A s \in SUBSET A : s # {} => c[s] \in s,
         NEW g, FoldsBy(g, A, base, step, c), NEW h, FoldsBy(h, B, base, step, c)
  PROVE  g[C] = h[C]
<1> DEFINE Good == {s \in SUBSET C : g[s] = h[s]}
<1>1. /\ \A u \in SUBSET C : g[u] = IF u = {} THEN base ELSE step[<<c[u], g[u \ {c[u]}]>>]
      /\ \A u \in SUBSET C : h[u] = IF u = {} THEN base ELSE step[<<c[u], h[u \ {c[u]}]>>]
  BY DEF FoldsBy
<1>2. {} \in Good
  BY <1>1
<1>3. \A s \in SUBSET C : s # {} /\ s \ {c[s]} \in Good => s \in Good
  BY <1>1
<1> HIDE DEF Good
<1>4. Climbs(Good, C, c)
  BY <1>2, <1>3 DEF Climbs
<1>5. IsFiniteSet(C)
  BY FS_Subset
<1>6. SUBSET C \subseteq Good
  BY <1>4, <1>5, FoldInduction
<1> QED BY <1>6 DEF Good

(* There is a fold: the least set without one would get it from its parts. *)
LEMMA FoldExists ==
  ASSUME NEW S, IsFiniteSet(S), NEW base, NEW step,
         NEW c, \A s \in SUBSET S : s # {} => c[s] \in s
  PROVE  \E iter : FoldsBy(iter, S, base, step, c)
<1> DEFINE Bad == {T \in SUBSET S : ~ \E g : FoldsBy(g, T, base, step, c)}
<1> SUFFICES ASSUME Bad # {} PROVE FALSE
  OBVIOUS
<1>0. Bad \in SUBSET (SUBSET S)
  OBVIOUS
<1> HIDE DEF Bad
<1>6. PICK T \in Bad : \A U \in Bad : U \subseteq T => U = T
  BY <1>0, LeastSubset
<1>1. /\ T \in SUBSET S /\ ~ \E g : FoldsBy(g, T, base, step, c)
      /\ \A U \in SUBSET T : U # T => \E g : FoldsBy(g, U, base, step, c)
  BY <1>6 DEF Bad
<1> DEFINE Part(U) == CHOOSE g : FoldsBy(g, U, base, step, c)
           Value(s) == IF s = {} THEN base ELSE step[<<c[s], Part(s \ {c[s]})[s \ {c[s]}]>>]
           iter == [s \in SUBSET T |-> Value(s)]
<1>2. \A U \in SUBSET T : U # T => FoldsBy(Part(U), U, base, step, c)
  <2> SUFFICES ASSUME NEW U \in SUBSET T, U # T PROVE FoldsBy(Part(U), U, base, step, c)
    OBVIOUS
  <2>1. \E g : FoldsBy(g, U, base, step, c)
    BY <1>1
  <2> QED BY <2>1
<1> HIDE DEF Part
<1>3. ASSUME NEW s \in SUBSET T, s # T
      PROVE  Value(s) = Part(s)[s]
  <2>1. FoldsBy(Part(s), s, base, step, c)
    BY <1>2, <1>3
  <2>2. CASE s = {}
    BY <2>1, <2>2 DEF FoldsBy
  <2>3. CASE s # {}
    <3> DEFINE u == s \ {c[s]}
    <3>1. c[s] \in s
      BY <1>1, <2>3
    <3>2. Part(s)[s] = step[<<c[s], Part(s)[u]>>]
      BY <2>1, <2>3 DEF FoldsBy
    <3>3. Part(s)[u] = Part(u)[u]
      <4>1. IsFiniteSet(s) /\ u \subseteq s /\ u \in SUBSET T /\ u # T
        BY <1>1, <3>1, FS_Subset
      <4>2. FoldsBy(Part(u), u, base, step, c)
        BY <1>2, <4>1
      <4>3. \A v \in SUBSET s : v # {} => c[v] \in v
        BY <1>1
      <4> HIDE DEF u
      <4> QED BY <2>1, <4>1, <4>2, <4>3, FoldUnique
    <3> QED BY <2>3, <3>2, <3>3
  <2> QED BY <2>2, <2>3
<1>4. \A s \in SUBSET T : iter[s] = IF s = {} THEN base ELSE step[<<c[s], iter[s \ {c[s]}]>>]
  <2> SUFFICES ASSUME NEW s \in SUBSET T, s # {} PROVE iter[s] = step[<<c[s], iter[s \ {c[s]}]>>]
    OBVIOUS
  <2> DEFINE u == s \ {c[s]}
  <2>1. u \in SUBSET T /\ u # T
    BY <1>1
  <2>2. iter[u] = Part(u)[u]
    BY <1>3, <2>1
  <2> QED BY <2>2
<1>5. FoldsBy(iter, T, base, step, c)
  <2>1. iter = [s \in SUBSET T |-> iter[s]]
    OBVIOUS
  <2> HIDE DEF iter
  <2> QED BY <1>4, <2>1 DEF FoldsBy
<1> QED BY <1>1, <1>5

(* A sum over a finite set, one member after the other. *)
SumsBy(fun, S, iter, c) ==
  /\ SumFunctionOnSet(fun, S) = iter[S] /\ iter[{}] = 0
  /\ \A s \in SUBSET S : s # {} =>
       c[s] \in s /\ c[s] = (CHOOSE x \in s : TRUE) /\ iter[s] = fun[c[s]] + iter[s \ {c[s]}]

(* A sum of numbers is a number, and folds. *)
LEMMA SumFolds ==
  ASSUME NEW S, IsFiniteSet(S), NEW fun, \A x \in S : fun[x] \in Nat
  PROVE  /\ SumFunctionOnSet(fun, S) \in Nat
         /\ \E iter \in [SUBSET S -> Nat] : \E c : SumsBy(fun, S, iter, c)
<1> DEFINE c == [s \in SUBSET S |-> CHOOSE x \in s : TRUE]
           step == [xv \in S \X Nat |-> fun[xv[1]] + xv[2]]
           Eq(g) == g = [s \in SUBSET S |->
                           IF s = {} THEN 0 ELSE fun[CHOOSE x \in s : TRUE] + g[s \ {CHOOSE x \in s : TRUE}]]
           iter == CHOOSE g : Eq(g)
<1>1. SumFunctionOnSet(fun, S) = iter[S]
  BY DEF SumFunctionOnSet, FoldFunctionOnSet, MapThenFoldSet
<1>2. \A s \in SUBSET S : s # {} => c[s] \in s /\ c[s] = CHOOSE x \in s : TRUE
  OBVIOUS
<1>3. step \in [S \X Nat -> Nat]
  OBVIOUS
<1>4. \E g : Eq(g)
  <2>1. PICK g : FoldsBy(g, S, 0, step, c)
    <3> HIDE DEF c, step
    <3> QED BY <1>2, FoldExists
  <2>2. g \in [SUBSET S -> Nat]
    <3> HIDE DEF c, step
    <3> QED BY <1>2, <1>3, <2>1, FoldType
  <2>3. \A s \in SUBSET S : s # {} => g[s] = fun[c[s]] + g[s \ {c[s]}]
    <3> SUFFICES ASSUME NEW s \in SUBSET S, s # {} PROVE g[s] = fun[c[s]] + g[s \ {c[s]}]
      OBVIOUS
    <3>1. c[s] \in S /\ g[s \ {c[s]}] \in Nat
      BY <1>2, <2>2
    <3>2. g[s] = step[<<c[s], g[s \ {c[s]}]>>]
      BY <2>1 DEF FoldsBy
    <3> HIDE DEF c
    <3> QED BY <3>1, <3>2
  <2>4. g[{}] = 0
    BY <2>1 DEF FoldsBy
  <2>5. g = [s \in SUBSET S |-> g[s]]
    BY <2>2
  <2>6. \A s \in SUBSET S :
          g[s] = IF s = {} THEN 0 ELSE fun[CHOOSE x \in s : TRUE] + g[s \ {CHOOSE x \in s : TRUE}]
    BY <1>2, <2>3, <2>4
  <2>7. Eq(g)
    BY <2>5, <2>6
  <2> QED BY <2>7
<1>5. Eq(iter)
  BY <1>4
<1> HIDE DEF iter
<1>6. \A s \in SUBSET S : s # {} => iter[s] = fun[c[s]] + iter[s \ {c[s]}]
  BY <1>2, <1>5
<1>9. iter[{}] = 0
  BY <1>5
<1> HIDE DEF c
<1>7. iter \in [SUBSET S -> Nat]
  <2> DEFINE Good == {s \in SUBSET S : iter[s] \in Nat}
  <2>1. {} \in Good
    BY <1>9
  <2>2. ASSUME NEW s \in SUBSET S, s # {}, s \ {c[s]} \in Good PROVE s \in Good
    <3>1. iter[s] = fun[c[s]] + iter[s \ {c[s]}]
      BY <1>6, <2>2, Zenon
    <3>2. c[s] \in s
      BY <1>2, <2>2, Zenon
    <3> QED BY <2>2, <3>1, <3>2
  <2>3. \A s \in SUBSET S : s # {} => c[s] \in s
    BY <1>2, Zenon
  <2> HIDE DEF Good
  <2>4. Climbs(Good, S, c)
    BY <2>1, <2>2, <2>3 DEF Climbs
  <2>5. SUBSET S \subseteq Good
    BY <2>4, FoldInduction
  <2>6. iter = [s \in SUBSET S |-> iter[s]]
    BY <1>5
  <2> QED BY <2>5, <2>6 DEF Good
<1>8. iter[S] \in Nat
  BY <1>7
<1>10. SumsBy(fun, S, iter, c)
  <2> HIDE DEF c
  <2> QED BY <1>1, <1>2, <1>6, <1>9 DEF SumsBy
<1> QED BY <1>1, <1>7, <1>8, <1>10

(* Some member of a sum can be taken out. *)
LEMMA SumOfSome ==
  ASSUME NEW S, IsFiniteSet(S), S # {}, NEW fun, \A x \in S : fun[x] \in Nat
  PROVE  \E y \in S : SumFunctionOnSet(fun, S) = fun[y] + SumFunctionOnSet(fun, S \ {y})
<1> DEFINE y == CHOOSE x \in S : TRUE
           R == S \ {y}
<1>1. y \in S /\ IsFiniteSet(R) /\ R \in SUBSET S /\ \A x \in R : fun[x] \in Nat
  BY FS_Subset
<1>2. PICK f, c : SumsBy(fun, S, f, c)
  BY SumFolds
<1>3. PICK g, d : SumsBy(fun, R, g, d)
  BY <1>1, SumFolds
<1> DEFINE Good == {s \in SUBSET R : f[s] = g[s]}
<1>4. {} \in Good
  BY <1>2, <1>3 DEF SumsBy
<1>5. \A s \in SUBSET R : s # {} => d[s] \in s /\ (s \ {d[s]} \in Good => s \in Good)
  <2> SUFFICES ASSUME NEW s \in SUBSET R, s # {}
               PROVE  d[s] \in s /\ (s \ {d[s]} \in Good => s \in Good)
    OBVIOUS
  <2>1. d[s] \in s /\ d[s] = (CHOOSE x \in s : TRUE) /\ g[s] = fun[d[s]] + g[s \ {d[s]}]
    BY <1>3 DEF SumsBy
  <2>2. c[s] = (CHOOSE x \in s : TRUE) /\ f[s] = fun[c[s]] + f[s \ {c[s]}]
    BY <1>1, <1>2 DEF SumsBy
  <2> QED BY <2>1, <2>2
<1> HIDE DEF Good
<1>6. Climbs(Good, R, d)
  BY <1>4, <1>5 DEF Climbs
<1>7. SUBSET R \subseteq Good
  BY <1>1, <1>6, FoldInduction
<1>8. f[R] = g[R]
  BY <1>7 DEF Good
<1>9. f[S] = fun[y] + f[R] /\ f[S] = SumFunctionOnSet(fun, S) /\ g[R] = SumFunctionOnSet(fun, R)
  BY <1>2, <1>3 DEF SumsBy
<1> QED BY <1>1, <1>8, <1>9

(* So can any. *)
LEMMA SumOfOne ==
  ASSUME NEW S, IsFiniteSet(S), NEW fun, \A x \in S : fun[x] \in Nat, NEW y \in S
  PROVE  SumFunctionOnSet(fun, S) = fun[y] + SumFunctionOnSet(fun, S \ {y})
<1> DEFINE Sum(s) == SumFunctionOnSet(fun, s)
           Bad == {s \in SUBSET S : \E x \in s : Sum(s) # fun[x] + Sum(s \ {x})}
<1> SUFFICES ASSUME Bad # {} PROVE FALSE
  OBVIOUS
<1>1. Bad \in SUBSET (SUBSET S)
  OBVIOUS
<1>0. \A s \in SUBSET S : s \in Bad <=> \E x \in s : Sum(s) # fun[x] + Sum(s \ {x})
  OBVIOUS
<1> HIDE DEF Bad
<1>2. PICK s \in Bad : \A r \in Bad : r \subseteq s => r = s
  BY <1>1, LeastSubset
<1>3. PICK x \in s : Sum(s) # fun[x] + Sum(s \ {x})
  BY <1>0, <1>1, <1>2
<1>4. s \in SUBSET S /\ s # {}
  BY <1>1, <1>3
<1>5. \A r \in SUBSET S : IsFiniteSet(r) /\ Sum(r) \in Nat
  <2> SUFFICES ASSUME NEW r \in SUBSET S PROVE IsFiniteSet(r) /\ Sum(r) \in Nat
    OBVIOUS
  <2>1. IsFiniteSet(r) /\ \A q \in r : fun[q] \in Nat
    BY FS_Subset
  <2> QED BY <2>1, SumFolds
<1>6. PICK z \in s : Sum(s) = fun[z] + Sum(s \ {z})
  <2>1. IsFiniteSet(s) /\ \A q \in s : fun[q] \in Nat
    BY <1>4, <1>5
  <2> QED BY <1>4, <2>1, SumOfSome
<1> HIDE DEF Sum
<1>7. z # x
  BY <1>3, <1>6
<1>8. Sum(s \ {z}) = fun[x] + Sum((s \ {z}) \ {x})
  <2>1. s \ {z} \in SUBSET S /\ s \ {z} # s /\ s \ {z} \subseteq s /\ x \in s \ {z}
    BY <1>4, <1>6, <1>7
  <2> QED BY <1>0, <1>2, <2>1
<1>9. Sum(s \ {x}) = fun[z] + Sum((s \ {x}) \ {z})
  <2>1. s \ {x} \in SUBSET S /\ s \ {x} # s /\ s \ {x} \subseteq s /\ z \in s \ {x}
    BY <1>3, <1>4, <1>6, <1>7
  <2> QED BY <1>0, <1>2, <2>1
<1>10. (s \ {x}) \ {z} = (s \ {z}) \ {x} /\ (s \ {x}) \ {z} \in SUBSET S /\ x \in S /\ z \in S
  BY <1>3, <1>4, <1>6
<1>11. fun[x] \in Nat /\ fun[z] \in Nat /\ Sum((s \ {x}) \ {z}) \in Nat
  BY <1>5, <1>10
<1>12. Sum(s \ {x}) = fun[z] + Sum((s \ {z}) \ {x})
  BY <1>9, <1>10
<1>13. Sum((s \ {z}) \ {x}) \in Nat
  BY <1>10, <1>11
<1> QED BY <1>3, <1>6, <1>8, <1>11, <1>12, <1>13

(* The sum of two sets that share nothing. *)
LEMMA SumOfUnion ==
  ASSUME NEW S, IsFiniteSet(S), NEW fun, \A x \in S : fun[x] \in Nat,
         NEW A \in SUBSET S, NEW B \in SUBSET S, A \cap B = {}
  PROVE  SumFunctionOnSet(fun, A \cup B) = SumFunctionOnSet(fun, A) + SumFunctionOnSet(fun, B)
<1> DEFINE Sum(s) == SumFunctionOnSet(fun, s)
           Good == {s \in SUBSET B : Sum(A \cup s) = Sum(A) + Sum(s)}
           c == [s \in SUBSET B |-> CHOOSE q \in s : TRUE]
<1>5. \A r \in SUBSET S : IsFiniteSet(r) /\ Sum(r) \in Nat /\ \A x \in r : Sum(r) = fun[x] + Sum(r \ {x})
  <2> SUFFICES ASSUME NEW r \in SUBSET S
               PROVE  IsFiniteSet(r) /\ Sum(r) \in Nat /\ \A x \in r : Sum(r) = fun[x] + Sum(r \ {x})
    OBVIOUS
  <2>1. IsFiniteSet(r) /\ \A q \in r : fun[q] \in Nat
    BY FS_Subset
  <2> QED BY <2>1, SumFolds, SumOfOne
<1>1. Sum({}) = 0
  <2>1. IsFiniteSet({}) /\ \A x \in {} : fun[x] \in Nat
    BY FS_EmptySet
  <2> QED BY <2>1, SumFolds DEF SumsBy
<1>6. \A s \in SUBSET B : s \in Good <=> Sum(A \cup s) = Sum(A) + Sum(s)
  OBVIOUS
<1>7. \A s \in SUBSET B : s # {} => c[s] \in s
  OBVIOUS
<1> HIDE DEF Sum, Good, c
<1>2. {} \in Good
  <2>1. Sum(A) \in Nat /\ A \cup {} = A
    BY <1>5
  <2> QED BY <1>1, <1>6, <2>1
<1>3. \A s \in SUBSET B : s # {} => c[s] \in s /\ (s \ {c[s]} \in Good => s \in Good)
  <2> SUFFICES ASSUME NEW s \in SUBSET B, s # {}, s \ {c[s]} \in Good PROVE s \in Good
    BY <1>7
  <2> DEFINE x == c[s]
             r == s \ {x}
  <2>1. x \in s /\ x \in S /\ x \notin A /\ r \in SUBSET B /\ r \in SUBSET S /\ s \in SUBSET S /\ A \cup s \in SUBSET S
    BY <1>7
  <2>2. (A \cup s) \ {x} = A \cup r
    BY <2>1
  <2>3. Sum(A \cup s) = fun[x] + Sum(A \cup r) /\ Sum(s) = fun[x] + Sum(r)
    BY <1>5, <2>1, <2>2
  <2>4. Sum(A \cup r) = Sum(A) + Sum(r)
    BY <1>6, <2>1
  <2>5. Sum(A) \in Nat /\ Sum(r) \in Nat /\ fun[x] \in Nat
    BY <1>5, <2>1
  <2> HIDE DEF x, r
  <2>6. Sum(A \cup s) = Sum(A) + Sum(s)
    BY <2>3, <2>4, <2>5
  <2> QED BY <1>6, <2>6
<1>4. Climbs(Good, B, c)
  BY <1>2, <1>3 DEF Climbs
<1>8. IsFiniteSet(B)
  BY <1>5
<1>9. B \in Good
  BY <1>4, <1>8, FoldInduction
<1> QED BY <1>6, <1>9 DEF Sum

------------------------------------------------------------------------------
(* The packing *)

(* Shards are finitely many, and there is one. *)
LEMMA ShardsFinite == IsFiniteSet(Shards) /\ Shards # {} /\ Shards \subseteq Nat /\ 0 \in Shards
<1>1. ShardCount - 1 \in Nat /\ 0 \in Int /\ ShardCount - 1 \in Int
  BY ShardsAssumption
<1>2. IsFiniteSet(0 .. ShardCount - 1)
  BY <1>1, FS_Interval, Zenon
<1> QED BY <1>1, <1>2 DEF Shards

(* The time of some tests is a number. *)
LEMMA SecondsType ==
  ASSUME NEW D, IsFiniteSet(D), NEW estimates \in [D -> Nat], NEW tests \in SUBSET D
  PROVE  Seconds(estimates, tests) \in Nat
<1>1. IsFiniteSet(tests) /\ \A t \in tests : estimates[t] \in Nat
  BY FS_Subset
<1> QED BY <1>1, SumFolds DEF Seconds

(* Some shard has the least load. *)
LEMMA LeastLoadedIsLeast ==
  ASSUME NEW loads \in [Shards -> Nat]
  PROVE  LeastLoaded(loads) \in Shards /\ \A q \in Shards : loads[LeastLoaded(loads)] <= loads[q]
<1> DEFINE before == {pq \in Shards \X Shards :
                        loads[pq[2]] < loads[pq[1]] \/ (loads[pq[2]] = loads[pq[1]] /\ pq[2] <= pq[1])}
<1>1. \A p \in Shards : p \in Nat /\ loads[p] \in Nat
  BY ShardsFinite
<1>2. \A p, q \in Shards : <<p, q>> \in before <=> loads[q] < loads[p] \/ (loads[q] = loads[p] /\ q <= p)
  OBVIOUS
<1> HIDE DEF before
<1>3. \A p, q \in Shards : p # q => <<p, q>> \in before \/ <<q, p>> \in before
  BY <1>1, <1>2
<1>4. \A p, q, o \in Shards : <<p, q>> \in before /\ <<q, o>> \in before => <<p, o>> \in before
  BY <1>1, <1>2
<1>5. PICK p \in Shards : \A q \in Shards \ {p} : <<q, p>> \in before
  <2>1. Orders(before, Shards)
    BY <1>3, <1>4 DEF Orders
  <2>2. IsFiniteSet(Shards) /\ Shards \subseteq Shards /\ Shards # {}
    BY ShardsFinite
  <2>3. PICK p : IsLast(p, Shards, before)
    BY <2>1, <2>2, LastExists
  <2> QED BY <2>3 DEF IsLast
<1>6. \A q \in Shards : loads[p] < loads[q] \/ (loads[p] = loads[q] /\ p <= q)
  <2> SUFFICES ASSUME NEW q \in Shards PROVE loads[p] < loads[q] \/ (loads[p] = loads[q] /\ p <= q)
    OBVIOUS
  <2>1. CASE q = p
    BY <1>1, <2>1
  <2>2. CASE q # p
    BY <1>2, <1>5, <2>2
  <2> QED BY <2>1, <2>2
<1> DEFINE o == LeastLoaded(loads)
<1>7. o \in Shards /\ \A q \in Shards : loads[o] < loads[q] \/ (loads[o] = loads[q] /\ o <= q)
  BY <1>6 DEF LeastLoaded
<1> HIDE DEF o
<1>8. \A q \in Shards : loads[o] <= loads[q]
  BY <1>1, <1>7
<1> QED BY <1>7, <1>8 DEF o

(* The units of some tests, and the time of each. *)
Units(estimates) == {UnitOf[t] : t \in DOMAIN estimates}
TimeOf(unit, estimates) == Seconds(estimates, TestsOf(unit, estimates))

Packings(estimates) == [loads : [Shards -> Nat], shard : [Units(estimates) -> Shards]]
NothingPacked(estimates) == [loads |-> [p \in Shards |-> 0], shard |-> [u \in Units(estimates) |-> 0]]

\* What one unit adds to a packing.
PackedWith(unit, packing, estimates) ==
  [loads |-> [packing.loads EXCEPT ![LeastLoaded(packing.loads)] = @ + TimeOf(unit, estimates)],
   shard |-> [packing.shard EXCEPT ![unit] = LeastLoaded(packing.loads)]]

(* assign_shards one unit at a time: stage[s] is the packing of the units in s,
   of which c[s] came last, as it takes the least time. *)
PackedInOrder(stage, c, estimates) ==
  /\ stage[{}] = NothingPacked(estimates)
  /\ \A s \in SUBSET Units(estimates) : s # {} =>
       /\ c[s] \in s /\ \A u \in s \ {c[s]} : LongestFirst(estimates, u, c[s])
       /\ stage[s] = PackedWith(c[s], stage[s \ {c[s]}], estimates)

(* The packing is the last of such stages. *)
LEMMA PackingFolds ==
  ASSUME NEW D \in SUBSET Tests, NEW estimates \in [D -> Nat]
  PROVE  /\ IsFiniteSet(Units(estimates)) /\ Units(estimates) \subseteq Nat
         /\ \A u : TimeOf(u, estimates) \in Nat
         /\ \E stage \in [SUBSET Units(estimates) -> Packings(estimates)] : \E c :
              /\ PackedInOrder(stage, c, estimates)
              /\ AssignShards(estimates) = [t \in D |-> stage[Units(estimates)].shard[UnitOf[t]]]
<1> DEFINE units == Units(estimates)
           V == Packings(estimates)
           start == NothingPacked(estimates)
           place(unit, packing) == PackedWith(unit, packing, estimates)
           last(some) == CHOOSE u \in some : \A v \in some \ {u} : LongestFirst(estimates, v, u)
           step == [uv \in units \X V |-> place(uv[1], uv[2])]
           c == [some \in SUBSET units |-> last(some)]
           Eq(g) == g = [s \in SUBSET units |->
                           IF s = {} THEN start ELSE place(last(s), g[s \ {last(s)}])]
           iter == CHOOSE g : Eq(g)
<1>1. IsFiniteSet(D) /\ DOMAIN estimates = D /\ \A t \in D : UnitOf[t] \in Nat
  BY RecordingAssumption, FS_Subset
<1>2. IsFiniteSet(units) /\ units \subseteq Nat
  <2> DEFINE f == [t \in D |-> UnitOf[t]]
  <2>1. f \in Surjection(D, units)
    BY <1>1 DEF Surjection, Units
  <2>2. units \subseteq Nat
    BY <1>1 DEF Units
  <2> HIDE DEF f, units
  <2> QED BY <1>1, <2>1, <2>2, FS_Surjection
<1>3. \A u : TimeOf(u, estimates) \in Nat
  <2> SUFFICES ASSUME NEW u PROVE Seconds(estimates, TestsOf(u, estimates)) \in Nat
    BY DEF TimeOf
  <2>1. TestsOf(u, estimates) \in SUBSET D
    BY <1>1 DEF TestsOf
  <2> QED BY <1>1, <2>1, SecondsType
<1>4. start \in V
  BY ShardsFinite DEF NothingPacked, Packings
<1>5. \A u \in units, v \in V : place(u, v) \in V
  <2> SUFFICES ASSUME NEW u \in units, NEW v \in V PROVE place(u, v) \in V
    OBVIOUS
  <2>1. v.loads \in [Shards -> Nat] /\ v.shard \in [units -> Shards]
    BY DEF Packings
  <2>2. LeastLoaded(v.loads) \in Shards /\ TimeOf(u, estimates) \in Nat
    BY <1>3, <2>1, LeastLoadedIsLeast
  <2> QED BY <2>1, <2>2 DEF Packings, PackedWith
<1>6. step \in [units \X V -> V]
  BY <1>5
<1>7. \A s \in SUBSET units : s # {} => last(s) \in s /\ \A u \in s \ {last(s)} : LongestFirst(estimates, u, last(s))
  <2> DEFINE before == {uv \in units \X units : LongestFirst(estimates, uv[1], uv[2])}
             seconds == [u \in units |-> TimeOf(u, estimates)]
  <2> SUFFICES ASSUME NEW s \in SUBSET units, s # {}
               PROVE  last(s) \in s /\ \A u \in s \ {last(s)} : LongestFirst(estimates, u, last(s))
    OBVIOUS
  <2>1. \A u, v \in units : <<u, v>> \in before <=> (seconds[u] > seconds[v] \/ (seconds[u] = seconds[v] /\ u < v))
    BY DEF LongestFirst, TimeOf
  <2>2. \A u \in units : seconds[u] \in Nat /\ u \in Nat
    BY <1>2, <1>3
  <2>3. \A u, v \in units : <<u, v>> \in before <=> LongestFirst(estimates, u, v)
    OBVIOUS
  <2> HIDE DEF before, seconds, units
  <2>4. \A u, v \in units : u # v => <<u, v>> \in before \/ <<v, u>> \in before
    BY <2>1, <2>2
  <2>5. \A u, v, w \in units : <<u, v>> \in before /\ <<v, w>> \in before => <<u, w>> \in before
    BY <2>1, <2>2
  <2>8. Orders(before, units)
    BY <2>4, <2>5 DEF Orders
  <2>6. PICK u \in s : \A v \in s \ {u} : <<v, u>> \in before
    <3>1. IsFiniteSet(units) /\ s \subseteq units /\ s # {}
      BY <1>2
    <3>2. PICK u : IsLast(u, s, before)
      BY <2>8, <3>1, LastExists
    <3> QED BY <3>2 DEF IsLast
  <2>7. \A v \in s \ {u} : LongestFirst(estimates, v, u)
    BY <2>3, <2>6
  <2> QED BY <2>7
<1>8. \A s \in SUBSET units : s # {} => c[s] = last(s) /\ c[s] \in s
  BY <1>7
<1>9. AssignShards(estimates) = [t \in D |-> iter[units].shard[UnitOf[t]]]
  BY <1>1 DEF AssignShards, MapThenFoldSet, Units, NothingPacked, PackedWith, TimeOf
<1> HIDE DEF units, V, start, last, place
<1>10. \E g : Eq(g) /\ g \in [SUBSET units -> V]
  <2>1. PICK g : FoldsBy(g, units, start, step, c)
    <3> HIDE DEF c, step
    <3> QED BY <1>2, <1>8, FoldExists
  <2>2. g \in [SUBSET units -> V]
    <3> HIDE DEF c, step
    <3> QED BY <1>2, <1>4, <1>6, <1>8, <2>1, FoldType
  <2>3. \A s \in SUBSET units : s # {} => g[s] = place(last(s), g[s \ {last(s)}])
    <3> SUFFICES ASSUME NEW s \in SUBSET units, s # {} PROVE g[s] = place(last(s), g[s \ {last(s)}])
      OBVIOUS
    <3>1. last(s) \in units /\ s \ {last(s)} \in SUBSET units /\ c[s] = last(s)
      BY <1>8
    <3>2. g[s \ {last(s)}] \in V
      BY <2>2, <3>1
    <3>3. g[s] = step[<<last(s), g[s \ {last(s)}]>>]
      BY <2>1, <3>1 DEF FoldsBy
    <3> QED BY <3>1, <3>2, <3>3
  <2>4. g[{}] = start
    BY <2>1 DEF FoldsBy
  <2>5. g = [s \in SUBSET units |-> g[s]]
    BY <2>2
  <2>6. \A s \in SUBSET units : g[s] = IF s = {} THEN start ELSE place(last(s), g[s \ {last(s)}])
    BY <2>3, <2>4
  <2>7. Eq(g)
    BY <2>5, <2>6
  <2> QED BY <2>2, <2>7
<1>11. Eq(iter)
  BY <1>10
<1> HIDE DEF iter
<1>12. \A s \in SUBSET units : iter[s] = IF s = {} THEN start ELSE place(c[s], iter[s \ {c[s]}])
  BY <1>8, <1>11
<1>13. iter = [s \in SUBSET units |-> iter[s]]
  BY <1>11
<1>17. \A s \in SUBSET units : s # {} => c[s] \in s /\ \A u \in s \ {c[s]} : LongestFirst(estimates, u, c[s])
  BY <1>7, <1>8
<1> HIDE DEF c
<1>14. iter \in [SUBSET units -> V]
  <2> DEFINE Good == {s \in SUBSET units : iter[s] \in V}
  <2>1. {} \in Good
    BY <1>4, <1>12
  <2>2. ASSUME NEW s \in SUBSET units, s # {}, s \ {c[s]} \in Good
        PROVE  s \in Good
    <3>1. c[s] \in units /\ iter[s] = place(c[s], iter[s \ {c[s]}]) /\ iter[s \ {c[s]}] \in V
      BY <1>12, <1>17, <2>2
    <3> QED BY <1>5, <3>1
  <2> HIDE DEF Good
  <2>3. Climbs(Good, units, c)
    BY <1>17, <2>1, <2>2 DEF Climbs
  <2>4. SUBSET units \subseteq Good
    BY <1>2, <2>3, FoldInduction
  <2> QED BY <1>13, <2>4 DEF Good
<1>15. PackedInOrder(iter, c, estimates)
  <2>1. iter[{}] = start
    BY <1>12
  <2>2. \A s \in SUBSET units : s # {} => iter[s] = place(c[s], iter[s \ {c[s]}])
    BY <1>12
  <2> QED BY <1>17, <2>1, <2>2 DEF PackedInOrder, units, start, place
<1>16. units = Units(estimates) /\ V = Packings(estimates)
  BY DEF units, V
<1> QED BY <1>2, <1>3, <1>9, <1>14, <1>15, <1>16

(* Every test has its shard. *)
LEMMA AssignShardsType ==
  ASSUME NEW D \in SUBSET Tests, NEW estimates \in [D -> Nat]
  PROVE  AssignShards(estimates) \in [D -> Shards]
<1>1. PICK stage \in [SUBSET Units(estimates) -> Packings(estimates)] :
        AssignShards(estimates) = [t \in D |-> stage[Units(estimates)].shard[UnitOf[t]]]
  BY PackingFolds
<1>2. stage[Units(estimates)].shard \in [Units(estimates) -> Shards]
  BY DEF Packings
<1>3. \A t \in D : UnitOf[t] \in Units(estimates)
  BY DEF Units
<1> QED BY <1>1, <1>2, <1>3

------------------------------------------------------------------------------
(* The merged map *)

(* A finite set of numbers has a least and a greatest one. *)
LEMMA NumbersHaveBounds ==
  ASSUME NEW S \in SUBSET Nat, IsFiniteSet(S), S # {}
  PROVE  (\E d \in S : \A e \in S : d <= e) /\ (\E d \in S : \A e \in S : e <= d)
<1> DEFINE up == {de \in S \X S : de[1] <= de[2]}
           down == {de \in S \X S : de[2] <= de[1]}
<1>1. \A d, e \in S : (<<d, e>> \in up <=> d <= e) /\ (<<d, e>> \in down <=> e <= d)
  OBVIOUS
<1> HIDE DEF up, down
<1>2. \A d, e \in S : d \in Nat /\ e \in Nat
  OBVIOUS
<1>3. Orders(up, S) /\ Orders(down, S)
  BY <1>1, <1>2 DEF Orders
<1>4. PICK d : IsLast(d, S, up)
  BY <1>3, LastExists
<1>5. PICK e : IsLast(e, S, down)
  BY <1>3, LastExists
<1>8. d \in S /\ (\A o \in S \ {d} : <<o, d>> \in up) /\ e \in S /\ \A o \in S \ {e} : <<o, e>> \in down
  BY <1>4, <1>5, Zenon DEF IsLast
<1>6. d \in S /\ \A o \in S : o <= d
  <2> SUFFICES ASSUME NEW o \in S PROVE o <= d
    BY <1>8
  <2>1. CASE o = d
    BY <1>2, <2>1
  <2>2. CASE o # d
    BY <1>1, <1>8, <2>2, Zenon
  <2> QED BY <2>1, <2>2
<1>7. e \in S /\ \A o \in S : e <= o
  <2> SUFFICES ASSUME NEW o \in S PROVE e <= o
    BY <1>8
  <2>1. CASE o = e
    BY <1>2, <2>1
  <2>2. CASE o # e
    BY <1>1, <1>8, <2>2, Zenon
  <2> QED BY <2>1, <2>2
<1> QED BY <1>6, <1>7

(* Without known durations every test is estimated at the default. *)
LEMMA NoneKnownType ==
  ASSUME NEW tests \in SUBSET Tests
  PROVE  Estimates(tests, NoDurations) \in [tests -> Nat]
<1>1. DOMAIN NoDurations = {}
  BY DEF NoDurations
<1>2. Estimates(tests, NoDurations) = [t \in tests |-> DefaultDuration]
  BY <1>1 DEF Estimates
<1> QED BY <1>2, ShardsAssumption

(* Each test of the base commit is in the part of some process. *)
LEMMA RecordedByAll ==
  ASSUME NEW t \in PresentTests(Base)
  PROVE  \E p \in Shards : t \in RecordedBy(p)
<1> DEFINE estimates == Estimates(PresentTests(Base), NoDurations)
<1>1. PresentTests(Base) \in SUBSET Tests
  BY DEF PresentTests
<1>2. estimates \in [PresentTests(Base) -> Nat]
  BY <1>1, NoneKnownType
<1>3. AssignShards(estimates) \in [PresentTests(Base) -> Shards]
  <2> HIDE DEF estimates
  <2> QED BY <1>1, <1>2, AssignShardsType
<1> QED BY <1>3 DEF RecordedBy

(* The process that a merged map takes a test from. *)
Of(t) == recorder[CHOOSE p \in Shards : t \in recorder[p].mine]

(* When all processes have written, that process has an outcome for it. *)
LEMMA OfRecorded ==
  ASSUME RecordersInv, \A p \in Shards : recorder[p].stage = "written", NEW t \in PresentTests(Base)
  PROVE  \E p \in Shards : /\ Of(t) = recorder[p] /\ Of(t) \in RecorderState
                           /\ RecorderInv(p, Of(t)) /\ Of(t).outcome[t] # "none"
<1>1. \A p \in Shards : recorder[p].mine = RecordedBy(p)
  BY DEF RecordersInv, RecorderInv, StageInv
<1>2. \E p \in Shards : t \in recorder[p].mine
  BY <1>1, RecordedByAll
<1>3. PICK p \in Shards : t \in recorder[p].mine /\ Of(t) = recorder[p]
  BY <1>2 DEF Of
<1>4. recorder[p].outcome[t] # "none"
  BY <1>3 DEF RecordersInv, RecorderInv, StageInv
<1> QED BY <1>3, <1>4 DEF RecordersInv, Recorders

MapRecords ==
  [tests : {PresentTests(Base)}, failed : SUBSET PresentTests(Base), covers : [PresentTests(Base) -> SUBSET Symbols],
   outside : SUBSET Symbols, unseen : [PresentTests(Base) -> SUBSET (Threads \cup Fixtures)]]

(* What a process holds of a test are symbols, threads and fixtures. *)
LEMMA CoversType ==
  ASSUME NEW r \in RecorderState, NEW t \in Tests
  PROVE  Covers(r, t) \subseteq Symbols /\ r.unseen[t] \subseteq Threads \cup Fixtures /\ r.outside \subseteq Symbols
<1>1. Closure[t] \subseteq Fixtures
  BY RecordingAssumption
<1> QED BY <1>1 DEF Covers, RecorderState

(* The fields of the merged map. *)
LEMMA MergedMapFields ==
  ASSUME RecordersInv, \A p \in Shards : recorder[p].stage = "written"
  PROVE
  /\ MergedMap.tests = PresentTests(Base)
  /\ MergedMap.failed = {t \in PresentTests(Base) : Of(t).outcome[t] = "failed"}
  /\ MergedMap.covers = [t \in PresentTests(Base) |-> Covers(Of(t), t)]
  /\ MergedMap.outside = UNION {recorder[p].outside : p \in Shards}
  /\ MergedMap.unseen = [t \in PresentTests(Base) |-> Of(t).unseen[t]]
  /\ MergedMap = [tests |-> MergedMap.tests, failed |-> MergedMap.failed, covers |-> MergedMap.covers,
                  outside |-> MergedMap.outside, unseen |-> MergedMap.unseen]
<1>1. \A p \in Shards : recorder[p].mine = RecordedBy(p)
  BY DEF RecordersInv, RecorderInv, StageInv
<1>2. UNION {recorder[p].mine : p \in Shards} = PresentTests(Base)
  BY <1>1, RecordedByAll DEF RecordedBy
<1> QED BY <1>2 DEF MergedMap, Of

(* The merged map has its type. *)
LEMMA MergedMapType ==
  ASSUME RecordersInv, \A p \in Shards : recorder[p].stage = "written"
  PROVE  MergedMap \in MapRecords
<1> DEFINE m == MergedMap
<1>1. \A t \in PresentTests(Base) : Covers(Of(t), t) \subseteq Symbols /\ Of(t).unseen[t] \subseteq Threads \cup Fixtures
  <2> SUFFICES ASSUME NEW t \in PresentTests(Base)
               PROVE  Covers(Of(t), t) \subseteq Symbols /\ Of(t).unseen[t] \subseteq Threads \cup Fixtures
    OBVIOUS
  <2>1. Of(t) \in RecorderState /\ t \in Tests
    BY OfRecorded DEF PresentTests
  <2> QED BY <2>1, CoversType
<1>2. \A p \in Shards : recorder[p].outside \subseteq Symbols
  BY DEF RecordersInv, Recorders, RecorderState
<1>3. m.covers \in [PresentTests(Base) -> SUBSET Symbols]
  BY <1>1, MergedMapFields
<1>4. m.unseen \in [PresentTests(Base) -> SUBSET (Threads \cup Fixtures)]
  BY <1>1, MergedMapFields
<1>5. m.tests = PresentTests(Base) /\ m.failed \subseteq PresentTests(Base) /\ m.outside \subseteq Symbols
  BY <1>2, MergedMapFields
<1>6. m = [tests |-> m.tests, failed |-> m.failed, covers |-> m.covers, outside |-> m.outside, unseen |-> m.unseen]
  BY MergedMapFields
<1> HIDE DEF m
<1>7. m \in MapRecords
  BY <1>3, <1>4, <1>5, <1>6 DEF MapRecords
<1> QED BY <1>7 DEF m

(* The definitions that threads and fixtures run without a test that is seen
   to run them. *)
UnseenIn(m, t) == UNION {Beyond[d] : d \in m.unseen[t]}

(* What the threads and fixtures run that a test is not seen to run. *)
LEMMA BeyondIsRunBy ==
  ASSUME NEW D \in SUBSET (Threads \cup Fixtures)
  PROVE  UNION {Beyond[d] : d \in D} = RunBy(D) \cap Definitions
<1>1. \A d \in D : Beyond[d] = ReachIn(Base, {d}, Collection(Base)) \cap Definitions
  BY DEF Beyond
<1>2. \A x : x \in RunBy(D) <=> \E d \in D : x \in ReachIn(Base, {d}, Collection(Base))
  BY DEF RunBy
<1>3. \A x : x \in UNION {Beyond[d] : d \in D} <=> \E d \in D : x \in Beyond[d]
  OBVIOUS
<1>4. \A x : x \in UNION {Beyond[d] : d \in D} <=> x \in RunBy(D) /\ x \in Definitions
  BY <1>1, <1>2, <1>3
<1> QED BY <1>4

MapCovers(m) ==
  \A t \in m.tests \ m.failed :
    \A d \in (ReachedAtBase[t] \cap Definitions) \ (LateCode[t] \cup UnseenIn(m, t)) :
      Base[d] # Absent => SymbolOf[d] \in m.covers[t] \cup m.outside

(* The merged map covers every test that passed. *)
LEMMA MergedMapCovers ==
  ASSUME RecordersInv, \A p \in Shards : recorder[p].stage = "written"
  PROVE  MapCovers(MergedMap)
<1> DEFINE m == MergedMap
<1> SUFFICES ASSUME NEW t \in m.tests \ m.failed,
                    NEW d \in (ReachedAtBase[t] \cap Definitions) \ (LateCode[t] \cup UnseenIn(m, t)),
                    Base[d] # Absent
             PROVE  SymbolOf[d] \in m.covers[t] \cup m.outside
  BY DEF MapCovers
<1> DEFINE r == Of(t)
<1>1. t \in PresentTests(Base) /\ t \in Tests /\ r.outcome[t] # "failed"
  BY MergedMapFields DEF PresentTests
<1>2. PICK p \in Shards : r = recorder[p] /\ r \in RecorderState /\ RecorderInv(p, r) /\ r.outcome[t] # "none"
  BY <1>1, OfRecorded
<1>3. r.outcome[t] = "passed"
  BY <1>1, <1>2 DEF RecorderState
<1>4. m.unseen[t] = r.unseen[t] /\ m.covers[t] = Covers(r, t) /\ r.outside \subseteq m.outside
  BY <1>1, <1>2, MergedMapFields
<1> HIDE DEF r, m
<1>5. UnseenIn(m, t) = RunBy(r.unseen[t]) \cap Definitions
  <2>1. r.unseen[t] \in SUBSET (Threads \cup Fixtures)
    BY <1>1, <1>2 DEF RecorderState
  <2> QED BY <1>4, <2>1, BeyondIsRunBy DEF UnseenIn
<1>6. d \in (ReachedAtBase[t] \cap Definitions) \ (LateCode[t] \cup RunBy(r.unseen[t]))
  BY <1>5
<1>7. SymbolOf[d] \in Covers(r, t) \cup r.outside
  BY <1>1, <1>2, <1>3, <1>6, PassedIsCovered
<1> QED BY <1>4, <1>7

------------------------------------------------------------------------------
(* The invariant *)

CheckRecords ==
  [status : {"pending", "pass", "fail", "error"}, passed : Nat, total : Nat, wrote : BOOLEAN, ran : SUBSET Tests]

MapInv == testMap = NoMap \/ (testMap \in MapRecords /\ MapCovers(testMap) /\ durations \in Durations)

SelectedInv ==
  /\ head \in DOMAIN Heads \cup {NoHead}
  /\ selection # NoSelection =>
       /\ head \in DOMAIN Heads
       /\ selection.mapped => durations \in Durations
       /\ selection.mode = "impact" => testMap # NoMap /\ FullRunReasons(testMap, Changes[head]) = {}

(* A shard that passed has run its part. *)
ShardPassed(p) ==
  shards[p].ran = MyTests(p) /\ shards[p].passed = Cardinality(MyTests(p)) /\ shards[p].total = Cardinality(MyTests(p))
ShardsInv ==
  /\ shards \in [Shards -> CheckRecords]
  /\ \A p \in Shards : shards[p].passed <= shards[p].total
  /\ selection = NoSelection => \A p \in Shards : shards[p].status = "pending"
  /\ \A p \in Shards : shards[p].status = "pass" => ShardPassed(p)

Passing == \A p \in Shards : shards[p].status = "pass"
ScopeFits(scope) == scope = NoScope \/ scope.selected = Cardinality(Kept)
SumOf(counts) == SumFunctionOnSet(counts, Shards)
Complete(check) ==
  /\ check.passed = SumOf([p \in Shards |-> shards[p].passed])
  /\ check.total = SumOf([p \in Shards |-> shards[p].total])
EvidenceInv ==
  evidence # NoReport =>
    /\ \A p \in Shards : shards[p].status # "pending"
    /\ evidence.check.status = "pass" => Passing /\ Complete(evidence.check) /\ ScopeFits(evidence.scope)
ReportInv ==
  report # NoReport =>
    /\ evidence # NoReport /\ report.status \in {"pass", "fail", "error"}
    /\ report.status = "pass" => Passing /\ Complete(report) /\ ScopeFits(report.scope)

SelectionInv == RecordersInv /\ MapInv /\ SelectedInv /\ ShardsInv /\ EvidenceInv /\ ReportInv

(* The invariant holds at the start. *)
LEMMA InitSelection ==
  ASSUME Init
  PROVE  SelectionInv
<1>1. RecordersInv
  BY InitRecorders
<1>2. shards \in [Shards -> CheckRecords] /\ \A p \in Shards : shards[p] = Pending
  <2>1. Pending \in CheckRecords
    BY DEF Pending, CheckRecords
  <2> QED BY <2>1 DEF Init
<1>3. ShardsInv
  <2>1. Pending.status = "pending" /\ Pending.passed <= Pending.total
    BY DEF Pending
  <2> QED BY <1>2, <2>1 DEF ShardsInv
<1>4. MapInv /\ SelectedInv /\ EvidenceInv /\ ReportInv
  BY DEF Init, MapInv, SelectedInv, EvidenceInv, ReportInv
<1> QED BY <1>1, <1>3, <1>4 DEF SelectionInv

------------------------------------------------------------------------------
(* The steps *)

(* A recording touches neither the map of an earlier one nor the review. *)
LEMMA RecordLeaves ==
  ASSUME NEW p \in Shards, Record(p)
  PROVE  UNCHANGED <<testMap, durations, Review>>
<1>1. ASSUME NEW r, Moves(p, r) PROVE UNCHANGED <<testMap, durations, Review>>
  BY <1>1 DEF Moves
<1>2. CASE Crash(p)
  BY <1>1, <1>2 DEF Crash
<1>3. CASE Profile(p) \/ ThreadCalls(p) \/ ThreadCovers(p)
  BY <1>1, <1>3 DEF Profile, ThreadCalls, ThreadCovers
<1>4. CASE Collected(p) \/ FixtureReady(p) \/ CallTest(p) \/ Write(p)
  BY <1>1, <1>4 DEF Collected, FixtureReady, CallTest, Write
<1>5. CASE PassTest(p) \/ FailTest(p)
  BY <1>1, <1>5 DEF PassTest, FailTest, FinishTest
<1>6. CASE \E t \in Tests : StartTest(p, t)
  BY <1>1, <1>6 DEF StartTest
<1>7. CASE \E x \in Fixtures : SetUpFixture(p, x)
  BY <1>1, <1>7 DEF SetUpFixture
<1> QED BY <1>2, <1>3, <1>4, <1>5, <1>6, <1>7 DEF Record

(* After the merge the processes are gone. *)
LEMMA MergeRecorders ==
  ASSUME Merge
  PROVE  RecordersInv'
<1>1. recorder' = [p \in Shards |-> NewRecorder]
  BY DEF Merge
<1>2. Recorders' /\ \A p \in Shards : RecorderInv(p, recorder'[p])
  BY <1>1, FreshRecorderInv DEF Recorders
<1> QED BY <1>2 DEF RecordersInv

(* When the recording fails, all processes end. *)
LEMMA FailedRecorders ==
  ASSUME RecordingFails
  PROVE  RecordersInv'
<1> DEFINE v == [NewRecorder EXCEPT !.stage = "crashed"]
<1>1. recorder' = [p \in Shards |-> v]
  BY DEF RecordingFails
<1>2. v \in RecorderState /\ \A p : RecorderInv(p, v)
  BY NewRecorderType, NewRecorderInv
<1> HIDE DEF v
<1>3. Recorders' /\ \A p \in Shards : RecorderInv(p, recorder'[p])
  BY <1>1, <1>2 DEF Recorders
<1> QED BY <1>3 DEF RecordersInv

(* Nothing recorded, nothing changed. *)
LEMMA SameRecorders ==
  ASSUME RecordersInv, UNCHANGED recorder
  PROVE  RecordersInv'
BY DEF RecordersInv, Recorders

(* A selection is final: what it is computed from does not change any more. *)
Final == UNCHANGED <<testMap, durations, head, selection>>

(* Then the kept tests and their parts stay the same. *)
LEMMA FinalMeans ==
  ASSUME Final
  PROVE  /\ Kept' = Kept
         /\ \A p \in Shards : MyTests(p)' = MyTests(p)
         /\ MapInv => MapInv'
         /\ SelectedInv => SelectedInv'
<1>1. Kept' = Kept /\ KnownDurations' = KnownDurations
  BY DEF Final, Kept, HeadCommit, KnownDurations
<1>2. \A p \in Shards : MyTests(p)' = MyTests(p)
  BY <1>1 DEF MyTests
<1>3. MapInv => MapInv'
  BY DEF Final, MapInv
<1>4. SelectedInv => SelectedInv'
  BY DEF Final, SelectedInv
<1> QED BY <1>1, <1>2, <1>3, <1>4

(* Steps that leave the evidence run alone. *)
LEMMA SameRun ==
  ASSUME ShardsInv, EvidenceInv, ReportInv, Final, UNCHANGED <<shards, evidence, report>>
  PROVE  ShardsInv' /\ EvidenceInv' /\ ReportInv'
<1>1. Kept' = Kept /\ \A p \in Shards : MyTests(p)' = MyTests(p)
  BY FinalMeans
<1>2. \A p \in Shards : ShardPassed(p) => ShardPassed(p)'
  BY <1>1 DEF ShardPassed
<1>3. ShardsInv'
  BY <1>2 DEF ShardsInv, Final
<1>4. (Passing => Passing') /\ \A scope : ScopeFits(scope) => ScopeFits(scope)'
  BY <1>1 DEF Passing, ScopeFits
<1>5. \A check : Complete(check) => Complete(check)'
  BY DEF Complete
<1>6. EvidenceInv'
  BY <1>4, <1>5 DEF EvidenceInv
<1>7. ReportInv'
  BY <1>4, <1>5 DEF ReportInv
<1> QED BY <1>3, <1>6, <1>7

(* A step before the selection: no shard has run. *)
LEMMA BeforeRun ==
  ASSUME ShardsInv, EvidenceInv, ReportInv, selection = NoSelection, UNCHANGED <<shards, evidence, report>>
  PROVE  ShardsInv' /\ EvidenceInv' /\ ReportInv'
<1>1. \A p \in Shards : shards[p].status = "pending"
  BY DEF ShardsInv
<1>2. ShardsInv'
  BY <1>1 DEF ShardsInv
<1>3. evidence = NoReport
  <2>1. \E p : p \in Shards
    BY ShardsFinite
  <2> QED BY <1>1, <2>1 DEF EvidenceInv
<1>4. report = NoReport
  BY <1>3 DEF ReportInv
<1> QED BY <1>2, <1>3, <1>4 DEF EvidenceInv, ReportInv

(* Record keeps the invariant. *)
LEMMA RecordKeeps ==
  ASSUME SelectionInv, NEW p \in Shards, Record(p)
  PROVE  SelectionInv'
<1>1. RecordersInv'
  BY RecordStep DEF SelectionInv
<1>2. UNCHANGED <<testMap, durations, head, selection, shards, evidence, report>>
  BY RecordLeaves DEF Review
<1>3. Final
  BY <1>2 DEF Final
<1>4. MapInv' /\ SelectedInv'
  BY <1>3, FinalMeans DEF SelectionInv
<1>5. ShardsInv' /\ EvidenceInv' /\ ReportInv'
  BY <1>2, <1>3, SameRun DEF SelectionInv
<1> QED BY <1>1, <1>4, <1>5 DEF SelectionInv

(* A recording that fails keeps it: there is no map. *)
LEMMA FailureKeeps ==
  ASSUME SelectionInv, RecordingFails
  PROVE  SelectionInv'
<1>1. RecordersInv'
  BY FailedRecorders
<1>2. UNCHANGED <<testMap, durations, head, selection, shards, evidence, report>>
  BY DEF RecordingFails, Review
<1>3. Final
  BY <1>2 DEF Final
<1>4. MapInv' /\ SelectedInv'
  BY <1>3, FinalMeans DEF SelectionInv
<1>5. ShardsInv' /\ EvidenceInv' /\ ReportInv'
  BY <1>2, <1>3, SameRun DEF SelectionInv
<1> QED BY <1>1, <1>4, <1>5 DEF SelectionInv

(* Merge keeps it: the new map covers every test that passed. *)
LEMMA MergeKeeps ==
  ASSUME SelectionInv, Merge
  PROVE  SelectionInv'
<1>1. RecordersInv'
  BY MergeRecorders
<1>2. /\ selection = NoSelection /\ UNCHANGED <<head, selection, shards, evidence, report>>
      /\ testMap' = MergedMap /\ durations' \in Durations /\ \A p \in Shards : recorder[p].stage = "written"
  BY DEF Merge, Recording, Review
<1>3. MergedMap \in MapRecords /\ MapCovers(MergedMap)
  BY <1>2, MergedMapType, MergedMapCovers DEF SelectionInv
<1>4. testMap' \in MapRecords /\ MapCovers(testMap') /\ durations' \in Durations
  BY <1>2, <1>3
<1>5. MapInv'
  BY <1>4 DEF MapInv
<1>6. SelectedInv'
  BY <1>2 DEF SelectionInv, SelectedInv
<1>7. ShardsInv' /\ EvidenceInv' /\ ReportInv'
  BY <1>2, BeforeRun DEF SelectionInv
<1> QED BY <1>1, <1>5, <1>6, <1>7 DEF SelectionInv

(* test-select. *)
SelectionStep ==
  /\ selection = NoSelection /\ UNCHANGED <<recorder, shards, evidence, report>>
  /\ (testMap' = testMap /\ durations' = durations) \/ testMap' = NoMap
SelectedNow ==
  /\ head' \in DOMAIN Heads
  /\ selection'.mapped => testMap # NoMap /\ durations' = durations
  /\ selection'.mode = "impact" => testMap # NoMap /\ testMap' = testMap /\ FullRunReasons(testMap, Changes[head']) = {}

(* What Selects leaves for the evidence run. *)
LEMMA SelectsStep ==
  ASSUME NEW mode \in {"off", "full", "impact"}, NEW reason, NEW mapped \in BOOLEAN, Given, Selects(mode, reason, mapped),
         mapped => testMap # NoMap,
         mode = "impact" => mapped /\ FullRunReasons(testMap, Changes[head']) = {}
  PROVE  SelectionStep /\ SelectedNow
<1>1. selection'.mapped = mapped /\ selection'.mode = mode
  BY DEF Selects
<1>2. /\ selection = NoSelection /\ head' \in DOMAIN Heads
      /\ UNCHANGED <<recorder, shards, evidence, report>>
      /\ testMap' = IF mode = "impact" THEN testMap ELSE NoMap
      /\ durations' = IF mapped THEN durations ELSE NoDurations
  BY DEF Given, Selects
<1>3. SelectionStep
  BY <1>2 DEF SelectionStep
<1>4. SelectedNow
  BY <1>1, <1>2 DEF SelectedNow
<1> QED BY <1>3, <1>4

(* All three ways to select end in it. *)
LEMMA SelectsOne ==
  ASSUME SelectionOff \/ WithoutMap \/ SelectTests
  PROVE  SelectionStep /\ SelectedNow
<1>1. CASE SelectionOff
  BY <1>1, SelectsStep DEF SelectionOff
<1>2. CASE WithoutMap
  <2>1. CASE Given /\ Selects("full", "no_map", FALSE)
    BY <2>1, SelectsStep
  <2>2. CASE Given /\ Selects("full", "invalid_map", FALSE)
    BY <2>2, SelectsStep
  <2>3. CASE Given /\ testMap # NoMap /\ Selects("full", "map_not_ancestor", TRUE)
    BY <2>3, SelectsStep
  <2> QED BY <1>2, <2>1, <2>2, <2>3 DEF WithoutMap
<1>3. CASE SelectTests
  <2> DEFINE reasons == FullRunReasons(testMap, Changes[head'])
  <2>1. Given /\ testMap # NoMap
    BY <1>3 DEF SelectTests
  <2>2. (\E reason \in reasons : Selects("full", reason, TRUE)) \/ (reasons = {} /\ Selects("impact", "none", TRUE))
    BY <1>3 DEF SelectTests
  <2>3. CASE \E reason \in reasons : Selects("full", reason, TRUE)
    <3>1. PICK reason \in reasons : Selects("full", reason, TRUE)
      BY <2>3
    <3> HIDE DEF reasons
    <3> QED BY <2>1, <3>1, SelectsStep
  <2>4. CASE reasons = {} /\ Selects("impact", "none", TRUE)
    BY <2>1, <2>4, SelectsStep
  <2> QED BY <2>2, <2>3, <2>4
<1> QED BY <1>1, <1>2, <1>3

(* test-select keeps the invariant: an impact selection rests on a map without a reason for a full run. *)
LEMMA SelectKeeps ==
  ASSUME SelectionInv, SelectionOff \/ WithoutMap \/ SelectTests
  PROVE  SelectionInv'
<1>1. SelectionStep /\ SelectedNow
  BY SelectsOne
<1>2. RecordersInv'
  BY <1>1, SameRecorders DEF SelectionInv, SelectionStep
<1>3. MapInv'
  BY <1>1 DEF SelectionInv, MapInv, SelectionStep
<1>4. SelectedInv'
  <2>1. head' \in DOMAIN Heads
    BY <1>1 DEF SelectedNow
  <2>2. selection'.mapped => durations' \in Durations
    BY <1>1 DEF SelectedNow, SelectionInv, MapInv
  <2>3. selection'.mode = "impact" => testMap' # NoMap /\ FullRunReasons(testMap', Changes[head']) = {}
    BY <1>1 DEF SelectedNow
  <2> QED BY <2>1, <2>2, <2>3 DEF SelectedInv
<1>5. ShardsInv' /\ EvidenceInv' /\ ReportInv'
  BY <1>1, BeforeRun DEF SelectionInv, SelectionStep
<1> QED BY <1>2, <1>3, <1>4, <1>5 DEF SelectionInv

(* One shard returns. *)
LEMMA MyTestsAreFinite ==
  ASSUME NEW p
  PROVE  /\ MyTests(p) \subseteq Kept /\ Kept \subseteq PresentTests(HeadCommit) /\ Kept \subseteq Tests
         /\ IsFiniteSet(Kept) /\ IsFiniteSet(MyTests(p)) /\ Cardinality(MyTests(p)) \in Nat
<1>1. MyTests(p) \subseteq Kept
  BY DEF MyTests
<1>2. Kept \subseteq PresentTests(HeadCommit)
  BY DEF Kept, Keep
<1>3. Kept \subseteq Tests
  BY <1>2 DEF PresentTests
<1>4. IsFiniteSet(Kept)
  BY <1>3, RecordingAssumption, FS_Subset
<1>5. IsFiniteSet(MyTests(p))
  BY <1>1, <1>4, FS_Subset
<1>6. Cardinality(MyTests(p)) \in Nat
  BY <1>5, FS_CardinalityType
<1> QED BY <1>1, <1>2, <1>3, <1>4, <1>5, <1>6

Returned(p, check) ==
  check \in CheckRecords /\ check.status # "pending" /\ check.passed <= check.total
  /\ (check.status = "pass" => check.ran = MyTests(p) /\ check.passed = Cardinality(MyTests(p))
                                /\ check.total = Cardinality(MyTests(p)))

(* A shard returns a check, and has run its part when it passes. *)
LEMMA ShardReturns ==
  ASSUME NEW p \in Shards, GiveUp(p) \/ FailCollection(p) \/ RunShard(p)
  PROVE  Runs(p) /\ \E check : Returns(p, check) /\ Returned(p, check)
<1>1. Selecting \in BOOLEAN
  BY DEF Selecting
<1>2. CASE GiveUp(p)
  <2>1. PICK wrote \in {FALSE, Selecting} :
          Returns(p, [status |-> "error", passed |-> 0, total |-> 0, wrote |-> wrote, ran |-> {}])
    BY <1>2 DEF GiveUp
  <2> DEFINE check == [status |-> "error", passed |-> 0, total |-> 0, wrote |-> wrote, ran |-> {}]
  <2>3. wrote \in BOOLEAN
    BY <1>1, <2>1
  <2>4. check \in CheckRecords
    BY <2>3 DEF CheckRecords
  <2>5. check.status = "error" /\ check.passed = 0 /\ check.total = 0
    OBVIOUS
  <2>6. check.status # "pending" /\ check.status # "pass" /\ check.passed <= check.total
    BY <2>5
  <2> HIDE DEF check
  <2>2. Returned(p, check)
    BY <2>4, <2>6 DEF Returned
  <2> USE DEF check
  <2> QED BY <1>2, <2>1, <2>2 DEF GiveUp
<1>3. CASE FailCollection(p)
  <2>1. PICK wrote \in {FALSE, Selecting} :
          Returns(p, [status |-> "fail", passed |-> 0, total |-> 1, wrote |-> wrote, ran |-> {}])
    BY <1>3 DEF FailCollection
  <2> DEFINE check == [status |-> "fail", passed |-> 0, total |-> 1, wrote |-> wrote, ran |-> {}]
  <2>3. wrote \in BOOLEAN
    BY <1>1, <2>1
  <2>4. check \in CheckRecords
    BY <2>3 DEF CheckRecords
  <2>5. check.status = "fail" /\ check.passed = 0 /\ check.total = 1
    OBVIOUS
  <2>6. check.status # "pending" /\ check.status # "pass" /\ check.passed <= check.total
    BY <2>5
  <2> HIDE DEF check
  <2>2. Returned(p, check)
    BY <2>4, <2>6 DEF Returned
  <2> USE DEF check
  <2> QED BY <1>3, <2>1, <2>2 DEF FailCollection
<1>4. CASE RunShard(p)
  <2> DEFINE mine == MyTests(p)
             Check(failed) ==
               [status |-> IF failed # {} \/ (mine = {} /\ ~ Selecting) THEN "fail" ELSE "pass",
                passed |-> Cardinality(mine \ failed), total |-> Cardinality(mine),
                wrote |-> Selecting, ran |-> mine]
  <2>1. PICK failed \in SUBSET mine : Returns(p, Check(failed))
    BY <1>4 DEF RunShard
  <2>2. IsFiniteSet(mine) /\ mine \subseteq Tests /\ Cardinality(mine) \in Nat
    BY MyTestsAreFinite
  <2>3. Cardinality(mine \ failed) \in Nat /\ Cardinality(mine \ failed) <= Cardinality(mine)
    <3>1. mine \ failed \subseteq mine
      OBVIOUS
    <3> HIDE DEF mine
    <3> QED BY <2>2, <3>1, FS_Subset, FS_CardinalityType
  <2>4. failed = {} => mine \ failed = mine
    OBVIOUS
  <2>5. Check(failed) \in CheckRecords
    BY <1>1, <2>2, <2>3 DEF CheckRecords
  <2>6. Returned(p, Check(failed))
    BY <2>3, <2>4, <2>5 DEF Returned
  <2> QED BY <1>4, <2>1, <2>6 DEF RunShard
<1> QED BY <1>2, <1>3, <1>4

(* GiveUp, FailCollection and RunShard keep the invariant. *)
LEMMA RunKeeps ==
  ASSUME SelectionInv, NEW p \in Shards, GiveUp(p) \/ FailCollection(p) \/ RunShard(p)
  PROVE  SelectionInv'
<1>1. PICK check : Returns(p, check) /\ Returned(p, check)
  BY ShardReturns
<1>2. /\ shards' = [shards EXCEPT ![p] = check]
      /\ UNCHANGED <<recorder, testMap, durations, head, selection, evidence, report>>
  BY <1>1 DEF Returns
<1>3. selection # NoSelection /\ shards[p].status = "pending"
  BY ShardReturns DEF Runs, Pending
<1>4. RecordersInv'
  BY <1>2, SameRecorders DEF SelectionInv
<1>5. Final
  BY <1>2 DEF Final
<1>6. MapInv' /\ SelectedInv' /\ \A q \in Shards : MyTests(q)' = MyTests(q)
  BY <1>5, FinalMeans DEF SelectionInv
<1>7. shards \in [Shards -> CheckRecords] /\ \A q \in Shards : shards'[q] = IF q = p THEN check ELSE shards[q]
  BY <1>2 DEF SelectionInv, ShardsInv
<1>8. ShardsInv'
  <2>1. shards' \in [Shards -> CheckRecords]
    BY <1>1, <1>2, <1>7 DEF Returned
  <2>2. \A q \in Shards : shards'[q].passed <= shards'[q].total
    BY <1>1, <1>7 DEF Returned, SelectionInv, ShardsInv
  <2>3. \A q \in Shards : shards'[q].status = "pass" => ShardPassed(q)'
    <3> SUFFICES ASSUME NEW q \in Shards, shards'[q].status = "pass" PROVE ShardPassed(q)'
      OBVIOUS
    <3>1. CASE q = p
      BY <1>1, <1>6, <1>7, <3>1 DEF Returned, ShardPassed
    <3>2. CASE q # p
      BY <1>6, <1>7, <3>2 DEF SelectionInv, ShardsInv, ShardPassed
    <3> QED BY <3>1, <3>2
  <2> QED BY <1>2, <1>3, <2>1, <2>2, <2>3 DEF ShardsInv
<1>9. evidence = NoReport
  BY <1>3 DEF SelectionInv, EvidenceInv
<1>10. report = NoReport
  BY <1>9 DEF SelectionInv, ReportInv
<1>11. EvidenceInv' /\ ReportInv'
  BY <1>2, <1>9, <1>10 DEF EvidenceInv, ReportInv
<1> QED BY <1>4, <1>6, <1>8, <1>11 DEF SelectionInv

(* The checks of the shards are combined. *)
LEMMA PassedTogether ==
  ASSUME CombineChecks.status = "pass", "pending" \notin Statuses, ShardsInv
  PROVE  Passing
<1>1. "error" \notin Statuses /\ "fail" \notin Statuses
  BY DEF CombineChecks
<1> SUFFICES ASSUME NEW p \in Shards PROVE shards[p].status = "pass"
  BY DEF Passing
<1>2. shards[p].status \in Statuses
  BY DEF Statuses
<1>3. shards[p].status \in {"pending", "pass", "fail", "error"}
  BY DEF ShardsInv, CheckRecords
<1> QED BY <1>1, <1>2, <1>3

(* Combine keeps it. *)
LEMMA CombineKeeps ==
  ASSUME SelectionInv, Combine
  PROVE  SelectionInv'
<1>1. /\ evidence = NoReport /\ "pending" \notin Statuses
      /\ UNCHANGED <<recorder, testMap, durations, head, selection, shards, report>>
  BY DEF Combine
<1>2. evidence'.check = CombineChecks /\ ScopeFits(evidence'.scope)
  BY DEF Combine, ScopeFits
<1>3. RecordersInv'
  BY <1>1, SameRecorders DEF SelectionInv
<1>4. Final
  BY <1>1 DEF Final
<1>5. MapInv' /\ SelectedInv' /\ Kept' = Kept /\ \A q \in Shards : MyTests(q)' = MyTests(q)
  BY <1>4, FinalMeans DEF SelectionInv
<1>6. \A p \in Shards : ShardPassed(p) => ShardPassed(p)'
  BY <1>1, <1>5 DEF ShardPassed
<1>7. ShardsInv'
  BY <1>1, <1>6 DEF SelectionInv, ShardsInv
<1>8. \A p \in Shards : shards[p].status # "pending"
  BY <1>1 DEF Statuses
<1>9. Complete(CombineChecks)
  BY DEF CombineChecks, Complete, SumOf
<1>10. CombineChecks.status = "pass" => Passing
  BY <1>1, PassedTogether DEF SelectionInv
<1>11. /\ evidence'.check = CombineChecks
       /\ Passing => Passing'
       /\ evidence'.scope = NoScope \/ evidence'.scope.selected = Cardinality(Kept')
  BY <1>1, <1>2, <1>5 DEF ScopeFits, Passing, Complete, CombineChecks
<1>12. (evidence.check.status = "pass" => Passing /\ Complete(evidence.check) /\ ScopeFits(evidence.scope))'
  <2>1. SUFFICES ASSUME evidence'.check.status = "pass"
                 PROVE  Passing' /\ Complete(evidence.check)' /\ ScopeFits(evidence.scope)'
    OBVIOUS
  <2>2. Passing'
    BY <1>2, <1>10, <1>11, <2>1
  <2>3. Complete(evidence.check)'
    BY <1>1, <1>2, <1>9 DEF Complete
  <2>4. ScopeFits(evidence.scope)'
    BY <1>11 DEF ScopeFits
  <2> QED BY <2>2, <2>3, <2>4
<1>13. EvidenceInv'
  BY <1>1, <1>8, <1>12 DEF EvidenceInv
<1>14. report = NoReport
  BY <1>1 DEF SelectionInv, ReportInv
<1>15. ReportInv'
  BY <1>1, <1>14 DEF ReportInv
<1> QED BY <1>3, <1>5, <1>7, <1>13, <1>15 DEF SelectionInv

(* Report keeps it. *)
LEMMA ReportKeeps ==
  ASSUME SelectionInv, Report
  PROVE  SelectionInv'
<1>1. /\ evidence # NoReport /\ report = NoReport
      /\ UNCHANGED <<recorder, testMap, durations, head, selection, shards, evidence>>
  BY DEF Report
<1>2. /\ report'.status \in {"pass", "fail", "error"}
      /\ report'.status = "pass" =>
           /\ evidence.check.status = "pass" /\ report'.scope = evidence.scope
           /\ report'.passed = evidence.check.passed /\ report'.total = evidence.check.total
  <2>1. CASE evidence.check.status \in {"pass", "fail"} /\ evidence.check.total > 0
    <3>1. report' = [status |-> evidence.check.status, passed |-> evidence.check.passed,
                     total |-> evidence.check.total, scope |-> evidence.scope]
      BY <2>1 DEF Report
    <3> QED BY <2>1, <3>1
  <2>2. CASE ~ (evidence.check.status \in {"pass", "fail"} /\ evidence.check.total > 0)
    <3>1. report' = [status |-> "error", passed |-> 0, total |-> 0, scope |-> NoScope]
      BY <2>2 DEF Report
    <3> QED BY <3>1
  <2> QED BY <2>1, <2>2
<1>3. RecordersInv'
  BY <1>1, SameRecorders DEF SelectionInv
<1>4. Final
  BY <1>1 DEF Final
<1>5. MapInv' /\ SelectedInv' /\ Kept' = Kept /\ \A q \in Shards : MyTests(q)' = MyTests(q)
  BY <1>4, FinalMeans DEF SelectionInv
<1>6. \A p \in Shards : ShardPassed(p) => ShardPassed(p)'
  BY <1>1, <1>5 DEF ShardPassed
<1>7. ShardsInv'
  BY <1>1, <1>6 DEF SelectionInv, ShardsInv
<1>8. /\ Passing => Passing'
      /\ \A scope : ScopeFits(scope) => ScopeFits(scope)'
      /\ \A check : Complete(check) => Complete(check)'
  BY <1>1, <1>5 DEF ScopeFits, Passing, Complete
<1>9. EvidenceInv'
  BY <1>1, <1>8 DEF SelectionInv, EvidenceInv
<1>10. (report.status = "pass" => Passing /\ Complete(report) /\ ScopeFits(report.scope))'
  <2>1. SUFFICES ASSUME report'.status = "pass"
                 PROVE  Passing' /\ Complete(report)' /\ ScopeFits(report.scope)'
    OBVIOUS
  <2>2. Passing /\ Complete(evidence.check) /\ ScopeFits(evidence.scope)
    BY <1>1, <1>2, <2>1 DEF SelectionInv, EvidenceInv
  <2>3. Complete(report)'
    BY <1>1, <1>2, <2>1, <2>2 DEF Complete
  <2>4. ScopeFits(report.scope)'
    BY <1>2, <1>5, <2>1, <2>2 DEF ScopeFits
  <2> QED BY <1>8, <2>2, <2>3, <2>4
<1>11. ReportInv'
  BY <1>1, <1>2, <1>10 DEF ReportInv
<1> QED BY <1>3, <1>5, <1>7, <1>9, <1>11 DEF SelectionInv

------------------------------------------------------------------------------
(* The packing of the kept tests *)

MedianOf(known, durations_, d) ==
  LET half == Cardinality(known) \div 2
  IN /\ Cardinality({t \in known : durations_[t] < d}) <= half
     /\ Cardinality({t \in known : durations_[t] <= d}) > half

(* Durations have a median: the least value that more than half of them do not exceed. *)
LEMMA MedianExists ==
  ASSUME NEW known, IsFiniteSet(known), known # {}, NEW times \in [known -> Nat]
  PROVE  \E d \in {times[t] : t \in known} : MedianOf(known, times, d)
<1> DEFINE half == Cardinality(known) \div 2
           values == {times[t] : t \in known}
           Below(d) == {t \in known : times[t] < d}
           UpTo(d) == {t \in known : times[t] <= d}
           Most == {d \in values : Cardinality(UpTo(d)) > half}
<1>1. Cardinality(known) \in Nat \ {0} /\ half \in Nat /\ half < Cardinality(known)
  <2>1. Cardinality(known) \in Nat /\ Cardinality(known) # 0
    BY FS_CardinalityType, FS_EmptySet
  <2> QED BY <2>1
<1>2. IsFiniteSet(values) /\ values \subseteq Nat /\ values # {}
  <2>1. times \in Surjection(known, values)
    BY DEF Surjection
  <2>2. IsFiniteSet(values)
    BY <2>1, FS_Surjection
  <2> QED BY <2>2
<1>3. \A d : /\ IsFiniteSet(Below(d)) /\ Cardinality(Below(d)) \in Nat
             /\ IsFiniteSet(UpTo(d)) /\ Cardinality(UpTo(d)) \in Nat
  <2> SUFFICES ASSUME NEW d
               PROVE  /\ IsFiniteSet(Below(d)) /\ Cardinality(Below(d)) \in Nat
                      /\ IsFiniteSet(UpTo(d)) /\ Cardinality(UpTo(d)) \in Nat
    OBVIOUS
  <2>1. Below(d) \subseteq known /\ UpTo(d) \subseteq known
    OBVIOUS
  <2> HIDE DEF Below, UpTo
  <2> QED BY <2>1, FS_Subset, FS_CardinalityType
<1>4. \A t \in known : times[t] \in values /\ times[t] \in Nat
  OBVIOUS
<1>5. Most # {}
  <2>1. PICK d \in values : \A e \in values : e <= d
    BY <1>2, NumbersHaveBounds
  <2>2. UpTo(d) = known
    BY <1>4, <2>1
  <2>3. d \in Most
    BY <1>1, <2>1, <2>2
  <2> QED BY <2>3
<1>6. Most \subseteq Nat /\ IsFiniteSet(Most)
  <2>1. Most \subseteq values
    OBVIOUS
  <2> HIDE DEF Most, values
  <2> QED BY <1>2, <2>1, FS_Subset
<1>7. PICK d \in Most : \A e \in Most : d <= e
  <2> HIDE DEF Most
  <2> QED BY <1>5, <1>6, NumbersHaveBounds
<1>8. d \in values /\ d \in Nat /\ Cardinality(UpTo(d)) > half
  BY <1>2
<1>9. Cardinality(Below(d)) <= half
  <2>0. Cardinality(Below(d)) \in Nat /\ half \in Nat
    BY <1>1, <1>3
  <2> SUFFICES ASSUME Cardinality(Below(d)) > half PROVE FALSE
    <3> HIDE DEF half, Below
    <3> QED BY <2>0
  <2> DEFINE lower == {e \in values : e < d}
  <2>1. lower \in SUBSET Nat /\ IsFiniteSet(lower) /\ lower \subseteq values
    <3>1. lower \subseteq values
      OBVIOUS
    <3> HIDE DEF lower, values
    <3> QED BY <1>2, <3>1, FS_Subset
  <2>2. lower # {}
    <3>1. Below(d) # {}
      <4>1. Cardinality(Below(d)) # 0
        BY <1>1, <1>3
      <4> HIDE DEF Below
      <4> QED BY <4>1, FS_EmptySet
    <3> QED BY <1>4, <3>1
  <2>3. PICK e \in lower : \A o \in lower : o <= e
    <3> HIDE DEF lower
    <3> QED BY <2>1, <2>2, NumbersHaveBounds
  <2>4. UpTo(e) = Below(d)
    <3>1. e \in Nat /\ e < d
      BY <2>1, <2>3
    <3>2. \A t \in known : times[t] < d <=> times[t] <= e
      BY <1>4, <1>8, <2>3, <3>1
    <3> QED BY <3>2
  <2>5. e \in Most
    BY <2>1, <2>3, <2>4
  <2> QED BY <1>7, <1>8, <2>1, <2>3, <2>5
<1>10. MedianOf(known, times, d)
  BY <1>8, <1>9 DEF MedianOf
<1> QED BY <1>8, <1>10

(* Every test is estimated at a number of seconds. *)
LEMMA EstimatesType ==
  ASSUME NEW tests \in SUBSET Tests, NEW known, IsFiniteSet(known), NEW times \in [known -> Nat]
  PROVE  Estimates(tests, times) \in [tests -> Nat]
<1> DEFINE median == CHOOSE d \in {times[t] : t \in known} : MedianOf(known, times, d)
           fallback == IF known = {} THEN DefaultDuration ELSE median
<1>1. DOMAIN times = known
  OBVIOUS
<1>2. known # {} => median \in Nat
  <2> SUFFICES ASSUME known # {} PROVE median \in Nat
    OBVIOUS
  <2>1. \E d \in {times[t] : t \in known} : MedianOf(known, times, d)
    BY MedianExists
  <2>2. median \in {times[t] : t \in known}
    BY <2>1
  <2> QED BY <2>2
<1>3. fallback \in Nat
  BY <1>2, ShardsAssumption
<1>4. Estimates(tests, times) = [t \in tests |-> IF t \in known THEN times[t] ELSE fallback]
  BY <1>1 DEF Estimates, MedianOf
<1> HIDE DEF fallback
<1> QED BY <1>3, <1>4

(* Every kept test is in one part. *)
Placement == AssignShards(Estimates(Kept, KnownDurations))

(* The durations it goes by are numbers. *)
LEMMA KeptEstimates ==
  ASSUME SelectionInv, selection # NoSelection
  PROVE  Estimates(Kept, KnownDurations) \in [Kept -> Nat]
<1> DEFINE known == DOMAIN KnownDurations
<1>1. Kept \in SUBSET Tests
  BY MyTestsAreFinite
<1>2. IsFiniteSet(known) /\ KnownDurations \in [known -> Nat]
  <2>1. CASE selection.mapped
    <3>1. durations \in [Tests -> Nat]
      BY <2>1, RecordingAssumption DEF SelectionInv, SelectedInv
    <3>2. KnownDurations = [t \in PresentTests(Base) |-> durations[t]] /\ PresentTests(Base) \subseteq Tests
      BY <2>1 DEF KnownDurations, PresentTests
    <3>3. IsFiniteSet(PresentTests(Base))
      BY <3>2, RecordingAssumption, FS_Subset
    <3> QED BY <3>1, <3>2, <3>3
  <2>2. CASE ~ selection.mapped
    <3>1. KnownDurations = NoDurations
      BY <2>2 DEF KnownDurations
    <3>2. DOMAIN KnownDurations = {} /\ KnownDurations \in [known -> Nat]
      BY <3>1 DEF NoDurations
    <3> QED BY <3>2, FS_EmptySet
  <2> QED BY <2>1, <2>2
<1> HIDE DEF known
<1> QED BY <1>1, <1>2, EstimatesType

(* So each kept test has its shard, *)
LEMMA PlacementType ==
  ASSUME SelectionInv, selection # NoSelection
  PROVE  Placement \in [Kept -> Shards]
<1> DEFINE estimates == Estimates(Kept, KnownDurations)
<1>1. Kept \in SUBSET Tests
  BY MyTestsAreFinite
<1>2. estimates \in [Kept -> Nat]
  BY KeptEstimates
<1>3. AssignShards(estimates) \in [Kept -> Shards]
  <2> HIDE DEF estimates
  <2> QED BY <1>1, <1>2, AssignShardsType
<1> QED BY <1>3 DEF Placement

(* and the parts together are the kept tests. *)
LEMMA KeptIsPlaced ==
  ASSUME SelectionInv, selection # NoSelection
  PROVE  UNION {MyTests(p) : p \in Shards} = Kept
<1>1. Placement \in [Kept -> Shards]
  BY PlacementType
<1>2. \A p : MyTests(p) = {t \in Kept : Placement[t] = p}
  BY DEF MyTests, Placement
<1> QED BY <1>1, <1>2

------------------------------------------------------------------------------
(* The theorems *)

(* Every step keeps the invariant. *)
LEMMA SelectionInvIsInductive == SelectionInv /\ [Next]_vars => SelectionInv'
<1> SUFFICES ASSUME SelectionInv, [Next]_vars PROVE SelectionInv'
  OBVIOUS
<1>1. CASE \E p \in Shards : GiveUp(p) \/ FailCollection(p) \/ RunShard(p)
  BY <1>1, RunKeeps
<1>2. CASE Report
  BY <1>2, ReportKeeps
<1>3. CASE Combine
  BY <1>3, CombineKeeps
<1>4. CASE \E p \in Shards : Record(p)
  BY <1>4, RecordKeeps
<1>5. CASE Merge \/ RecordingFails
  BY <1>5, MergeKeeps, FailureKeeps
<1>6. CASE SelectionOff \/ WithoutMap \/ SelectTests
  BY <1>6, SelectKeeps
<1>7. CASE UNCHANGED vars
  <2>1. Final /\ UNCHANGED <<recorder, shards, evidence, report>>
    BY <1>7 DEF vars, Final
  <2>2. RecordersInv' /\ MapInv' /\ SelectedInv'
    BY <2>1, SameRecorders, FinalMeans DEF SelectionInv
  <2>3. ShardsInv' /\ EvidenceInv' /\ ReportInv'
    BY <2>1, SameRun DEF SelectionInv
  <2> QED BY <2>2, <2>3 DEF SelectionInv
<1> QED BY <1>1, <1>2, <1>3, <1>4, <1>5, <1>6, <1>7 DEF Next

(* The inductive invariant of TestSelection holds in every state. *)
THEOREM SelectionInvariant == Spec => []SelectionInv
<1>1. Init => SelectionInv
  BY InitSelection
<1> QED BY <1>1, SelectionInvIsInductive, PTL DEF Spec

(* Every variable has its type, for any number of files, tests, fixtures, threads, heads and shards. *)
THEOREM TypeCorrect == Spec => []TypeOK
<1>1. SelectionInv => TypeOK
  <2> SUFFICES ASSUME SelectionInv PROVE TypeOK
    OBVIOUS
  <2>1. recorder \in [Shards -> RecorderState]
    BY DEF SelectionInv, RecordersInv, Recorders
  <2>2. testMap = NoMap \/ testMap \in MapRecords
    BY DEF SelectionInv, MapInv
  <2>3. head \in DOMAIN Heads \cup {NoHead}
    BY DEF SelectionInv, SelectedInv
  <2>4. \A p \in Shards : shards[p].passed <= shards[p].total /\ shards[p].ran \subseteq Tests
    BY DEF SelectionInv, ShardsInv, CheckRecords
  <2>5. report = NoReport \/ report.status \in {"pass", "fail", "error"}
    BY DEF SelectionInv, ReportInv
  <2> QED BY <2>1, <2>2, <2>3, <2>4, <2>5 DEF TypeOK, MapRecords
<1> QED BY <1>1, SelectionInvariant, PTL

(* _trace_plugin.py:103-187: the map holds every function that a test which passed would run on
   its own, whatever the order of tests, the shards, the failures and the interleaving of threads. *)
THEOREM MapCoversEveryTestHolds == Spec => []MapCoversEveryTest
<1>1. SelectionInv => MapCoversEveryTest
  <2> SUFFICES ASSUME SelectionInv, testMap # NoMap PROVE MapCoversEveryTest
    BY DEF MapCoversEveryTest
  <2>1. testMap \in MapRecords /\ MapCovers(testMap)
    BY DEF SelectionInv, MapInv
  <2>2. testMap.tests = PresentTests(Base)
    BY <2>1 DEF MapRecords
  <2> QED BY <2>1, <2>2 DEF MapCovers, UnseenIn, MapCoversEveryTest, Unseen
<1> QED BY <1>1, SelectionInvariant, PTL

(* A test that did not run in a review that passed. *)
LEMMA PassedRuns ==
  ASSUME SelectionInv, report # NoReport, report.status = "pass"
  PROVE  /\ selection # NoSelection /\ head \in DOMAIN Heads /\ Passing /\ Ran = Kept
         /\ \A p \in Shards : ShardPassed(p)
<1>1. Passing
  BY DEF SelectionInv, ReportInv
<1>2. selection # NoSelection
  <2>1. \E p : p \in Shards
    BY ShardsFinite
  <2> QED BY <1>1, <2>1 DEF Passing, SelectionInv, ShardsInv
<1>3. \A p \in Shards : ShardPassed(p)
  BY <1>1 DEF Passing, SelectionInv, ShardsInv
<1>4. Ran = UNION {MyTests(p) : p \in Shards}
  BY <1>3 DEF Ran, ShardPassed
<1>5. Ran = Kept
  BY <1>2, <1>4, KeptIsPlaced
<1> QED BY <1>1, <1>2, <1>3, <1>5 DEF SelectionInv, SelectedInv

(* A test that an impact selection leaves out passed when the map was recorded, and behaves as then. *)
LEMMA LeftOutBehaves ==
  ASSUME SelectionInv, selection # NoSelection, selection.mode = "impact",
         NEW t \in PresentTests(HeadCommit) \ Kept
  PROVE  /\ testMap # NoMap /\ t \in testMap.tests \ testMap.failed
         /\ t \in Unaffected[head] \/ \E d \in Unseen(t) : Base[d] # HeadCommit[d]
<1>1. /\ head \in DOMAIN Heads /\ testMap # NoMap /\ FullRunReasons(testMap, Changes[head]) = {}
      /\ testMap \in MapRecords /\ MapCovers(testMap)
  BY DEF SelectionInv, SelectedInv, MapInv
<1>2. /\ testMap.tests = PresentTests(Base) /\ TestModules(testMap) = TestModulesOf(Base)
      /\ Kept = Keep(testMap, Changes[head], PresentTests(HeadCommit))
  BY <1>1 DEF MapRecords, TestModules, TestModulesOf, Kept
<1>3. t \in testMap.tests \ testMap.failed /\ t \in Tests
  BY <1>2 DEF Keep, Affected, PresentTests
<1>4. ASSUME \A d \in Unseen(t) : Base[d] = HeadCommit[d]
      PROVE  t \in Unaffected[head]
  <2> DEFINE h == Heads[head]
             changes == AnalyzeChanges(Base, h, TestModulesOf(Base))
  <2>1. h \in Commit /\ Base \in Commit /\ HeadCommit = h /\ Changes[head] = changes
    BY <1>1, CommitsAssumption DEF HeadCommit, Changes
  <2> SUFFICES ASSUME Traceable(Base, h, t, TestModulesOf(Base)),
                      \A d \in LateCode[t] \cap Definitions : Base[d] = h[d]
               PROVE  Behaviour(h, t) = Behaviour(Base, t)
    BY <1>1, <1>3 DEF Unaffected
  <2>2. \A d \in Reach(Base, Roots[t]) \cap Definitions :
          Base[d] # Absent => SymbolOf[d] \in testMap.covers[t] \cup testMap.outside \/ h[d] = Base[d]
    <3> SUFFICES ASSUME NEW d \in Reach(Base, Roots[t]) \cap Definitions, Base[d] # Absent, h[d] # Base[d]
                 PROVE  SymbolOf[d] \in testMap.covers[t] \cup testMap.outside
      OBVIOUS
    <3>1. d \notin LateCode[t]
      OBVIOUS
    <3>2. d \notin UnseenIn(testMap, t)
      BY <1>4, <2>1 DEF Unseen, UnseenIn
    <3>3. d \in ReachedAtBase[t]
      BY <1>3 DEF ReachedAtBase
    <3> QED BY <1>1, <1>3, <3>1, <3>2, <3>3 DEF MapCovers
  <2>3. /\ FullRunReasons(testMap, changes) = {} /\ changes = AnalyzeChanges(Base, h, TestModules(testMap))
        /\ Traceable(Base, h, t, TestModules(testMap))
        /\ t \in PresentTests(HeadCommit) \ Keep(testMap, changes, PresentTests(HeadCommit))
    BY <1>1, <1>2, <2>1
  <2> HIDE DEF changes, h
  <2> QED BY <1>3, <2>1, <2>2, <2>3, SelectionIsSound
<1> QED BY <1>1, <1>3, <1>4

(* selection.py:226-242, evidence.py:231-242: when the comment says that the tests pass, each test of
   the head ran in this review or runs exactly the code with which it passed before. *)
THEOREM PassIsJustifiedHolds == Spec => []PassIsJustified
<1>1. SelectionInv => PassIsJustified
  <2> SUFFICES ASSUME SelectionInv, report # NoReport, report.status = "pass",
                      NEW t \in PresentTests(HeadCommit) \ Ran
               PROVE  /\ testMap # NoMap /\ t \in testMap.tests \ testMap.failed
                      /\ t \in Unaffected[head] \/ \E d \in Unseen(t) : Base[d] # HeadCommit[d]
    BY DEF PassIsJustified
  <2>1. selection # NoSelection /\ Ran = Kept
    BY PassedRuns
  <2>2. selection.mode = "impact"
    BY <2>1 DEF Kept
  <2> QED BY <2>1, <2>2, LeftOutBehaves
<1> QED BY <1>1, SelectionInvariant, PTL

(* The parts are disjoint: together they have as many tests as are kept. *)
LEMMA PartsAddUp ==
  ASSUME SelectionInv, selection # NoSelection, NEW counts,
         \A p \in Shards : counts[p] = Cardinality(MyTests(p))
  PROVE  SumFunctionOnSet(counts, Shards) = Cardinality(Kept)
<1> DEFINE Part(s) == {t \in Kept : Placement[t] \in s}
<1>1. \A p \in Shards : counts[p] \in Nat
  BY MyTestsAreFinite
<1>10. PICK iter \in [SUBSET Shards -> Nat] : \E c : SumsBy(counts, Shards, iter, c)
  BY <1>1, ShardsFinite, SumFolds
<1>11. PICK c : SumsBy(counts, Shards, iter, c)
  BY <1>10
<1>2. /\ SumFunctionOnSet(counts, Shards) = iter[Shards] /\ iter[{}] = 0
      /\ \A s \in SUBSET Shards : s # {} => c[s] \in s /\ iter[s] = counts[c[s]] + iter[s \ {c[s]}]
  BY <1>11 DEF SumsBy
<1>3. Placement \in [Kept -> Shards] /\ IsFiniteSet(Kept)
  BY PlacementType, MyTestsAreFinite
<1> DEFINE Good == {s \in SUBSET Shards : iter[s] = Cardinality(Part(s))}
<1>4. {} \in Good
  <2>1. Part({}) = {}
    OBVIOUS
  <2> QED BY <1>2, <2>1, FS_EmptySet
<1>5. ASSUME NEW s \in SUBSET Shards, s # {}, s \ {c[s]} \in Good
      PROVE  s \in Good
  <2> DEFINE rest == s \ {c[s]}
             one == MyTests(c[s])
  <2>1. c[s] \in s /\ c[s] \in Shards /\ iter[s] = counts[c[s]] + iter[rest]
    BY <1>2, <1>5
  <2>2. counts[c[s]] = Cardinality(one)
    BY <2>1
  <2>3. iter[rest] = Cardinality(Part(rest))
    BY <1>5
  <2>4. Part(s) = Part(rest) \cup one /\ Part(rest) \cap one = {}
    <3>1. one = {t \in Kept : Placement[t] = c[s]}
      BY DEF MyTests, Placement
    <3> QED BY <2>1, <3>1
  <2>5. IsFiniteSet(Part(rest)) /\ IsFiniteSet(one) /\ Cardinality(one) \in Nat
    <3>1. Part(rest) \subseteq Kept
      OBVIOUS
    <3>2. IsFiniteSet(Part(rest))
      <4> HIDE DEF Part
      <4> QED BY <1>3, <3>1, FS_Subset
    <3> QED BY <3>2, MyTestsAreFinite
  <2>6. Cardinality(Part(s)) = Cardinality(Part(rest)) + Cardinality(one)
    <3> HIDE DEF Part, one, rest
    <3>1. Cardinality(Part(rest) \cap one) = 0
      BY <2>4, FS_EmptySet
    <3>2. /\ Cardinality(Part(rest) \cup one) = Cardinality(Part(rest)) + Cardinality(one) - Cardinality(Part(rest) \cap one)
          /\ Cardinality(Part(rest)) \in Nat
      BY <2>5, FS_Union, FS_CardinalityType
    <3> QED BY <2>4, <2>5, <3>1, <3>2
  <2>7. Cardinality(Part(rest)) \in Nat
    <3> HIDE DEF Part, rest
    <3> QED BY <2>5, FS_CardinalityType
  <2>8. iter[s] = Cardinality(Part(s))
    <3> HIDE DEF Part, one, rest
    <3> QED BY <2>1, <2>2, <2>3, <2>5, <2>6, <2>7
  <2> QED BY <2>8
<1> HIDE DEF Good
<1>6. Climbs(Good, Shards, c)
  BY <1>2, <1>4, <1>5 DEF Climbs
<1>7. SUBSET Shards \subseteq Good
  BY <1>6, ShardsFinite, FoldInduction
<1>8. iter[Shards] = Cardinality(Part(Shards))
  BY <1>7 DEF Good
<1>9. Part(Shards) = Kept
  BY <1>3
<1> QED BY <1>2, <1>8, <1>9

(* _combine_checks: the counts of a comment that says pass are those of all kept tests. *)
THEOREM CountsAreCompleteHolds == Spec => []CountsAreComplete
<1>1. SelectionInv => CountsAreComplete
  <2> SUFFICES ASSUME SelectionInv, report # NoReport, report.status = "pass"
               PROVE  /\ report.passed = report.total /\ report.total = Cardinality(Kept)
                      /\ report.scope # NoScope => report.scope.selected = report.total
    BY DEF CountsAreComplete
  <2> DEFINE passed == [p \in Shards |-> shards[p].passed]
             total == [p \in Shards |-> shards[p].total]
  <2>1. selection # NoSelection /\ \A p \in Shards : ShardPassed(p)
    BY PassedRuns
  <2>2. /\ \A p \in Shards : passed[p] = Cardinality(MyTests(p))
        /\ \A p \in Shards : total[p] = Cardinality(MyTests(p))
    BY <2>1 DEF ShardPassed
  <2>3. report.passed = SumFunctionOnSet(passed, Shards) /\ report.total = SumFunctionOnSet(total, Shards)
    BY DEF SelectionInv, ReportInv, Complete, SumOf
  <2>4. ScopeFits(report.scope)
    BY DEF SelectionInv, ReportInv
  <2> HIDE DEF passed, total
  <2>5. SumFunctionOnSet(passed, Shards) = Cardinality(Kept) /\ SumFunctionOnSet(total, Shards) = Cardinality(Kept)
    BY <2>1, <2>2, PartsAddUp
  <2> QED BY <2>3, <2>4, <2>5 DEF ScopeFits
<1> QED BY <1>1, SelectionInvariant, PTL

------------------------------------------------------------------------------
(* The balance of the shards *)

(* A size of the sets of units that adds up. *)
Additive(size, U) ==
  /\ size \in [SUBSET U -> Nat] /\ size[{}] = 0
  /\ \A A, B \in SUBSET U : A \cap B = {} => size[A \cup B] = size[A] + size[B]

(* What part of A goes to p. *)
PartOf(A, to, p) == {u \in A : to[u] = p}

(* A part is no larger than the whole. *)
LEMMA PartsAreSmaller ==
  ASSUME NEW U, NEW size, Additive(size, U), NEW A \in SUBSET U, NEW B \in SUBSET A
  PROVE  size[B] <= size[A]
<1>1. B \in SUBSET U /\ A \ B \in SUBSET U /\ B \cap (A \ B) = {} /\ B \cup (A \ B) = A
  OBVIOUS
<1>2. size[A] = size[B] + size[A \ B] /\ size[B] \in Nat /\ size[A \ B] \in Nat
  BY <1>1 DEF Additive
<1> QED BY <1>2

(* If each part has a size between `low` and `high`, so has the whole on average. *)
LEMMA SizeByParts ==
  ASSUME NEW U, NEW size, Additive(size, U), NEW A \in SUBSET U, NEW P, IsFiniteSet(P),
         NEW to, \A u \in A : to[u] \in P, NEW low \in Nat, NEW high \in Nat,
         \A p \in P : low <= size[PartOf(A, to, p)] /\ size[PartOf(A, to, p)] <= high
  PROVE  Cardinality(P) * low <= size[A] /\ size[A] <= Cardinality(P) * high
<1> DEFINE Within(s) == {u \in A : to[u] \in s}
           Good == {s \in SUBSET P : Cardinality(s) * low <= size[Within(s)] /\ size[Within(s)] <= Cardinality(s) * high}
           c == [s \in SUBSET P |-> CHOOSE p \in s : TRUE]
<1>1. \A s \in SUBSET P : s # {} => c[s] \in s
  OBVIOUS
<1>2. \A s \in SUBSET P :
        s \in Good <=> Cardinality(s) * low <= size[Within(s)] /\ size[Within(s)] <= Cardinality(s) * high
  OBVIOUS
<1> HIDE DEF Good, c
<1>3. {} \in Good
  <2>1. Within({}) = {} /\ size[{}] = 0 /\ Cardinality({}) = 0
    BY FS_EmptySet DEF Additive
  <2> QED BY <1>2, <2>1
<1>4. ASSUME NEW s \in SUBSET P, s # {}, s \ {c[s]} \in Good
      PROVE  s \in Good
  <2> DEFINE p == c[s]
             r == s \ {p}
             n == Cardinality(r)
  <2>1. p \in s /\ p \in P /\ r \in SUBSET P
    BY <1>1, <1>4
  <2>2. IsFiniteSet(s) /\ n \in Nat /\ Cardinality(s) = n + 1
    <3>1. IsFiniteSet(s) /\ IsFiniteSet(r)
      BY <1>4, FS_Subset
    <3>2. s = r \cup {p} /\ p \notin r
      BY <2>1
    <3> HIDE DEF p, r
    <3> QED BY <3>1, <3>2, FS_AddElement, FS_CardinalityType
  <2>3. /\ Within(s) = Within(r) \cup PartOf(A, to, p) /\ Within(r) \cap PartOf(A, to, p) = {}
        /\ Within(r) \in SUBSET U /\ PartOf(A, to, p) \in SUBSET U
    BY <2>1 DEF PartOf
  <2>4. n * low <= size[Within(r)] /\ size[Within(r)] <= n * high
    BY <1>2, <1>4, <2>1
  <2> HIDE DEF n, r, p, Within
  <2>5. size[Within(s)] = size[Within(r)] + size[PartOf(A, to, p)] /\ size[Within(r)] \in Nat /\ size[PartOf(A, to, p)] \in Nat
    BY <2>3 DEF Additive
  <2>6. low <= size[PartOf(A, to, p)] /\ size[PartOf(A, to, p)] <= high
    BY <2>1
  <2>7. n * low \in Nat /\ n * high \in Nat /\ (n + 1) * low = n * low + low /\ (n + 1) * high = n * high + high
    BY <2>2
  <2>8. (n + 1) * low <= size[Within(s)] /\ size[Within(s)] <= (n + 1) * high
    BY <2>4, <2>5, <2>6, <2>7
  <2> QED BY <1>2, <2>2, <2>8
<1>5. Climbs(Good, P, c)
  BY <1>1, <1>3, <1>4 DEF Climbs
<1>6. P \in Good
  BY <1>5, FoldInduction
<1>7. Within(P) = A
  OBVIOUS
<1> QED BY <1>2, <1>6, <1>7

(* The number of units is such a size. *)
LEMMA NumberIsAdditive ==
  ASSUME NEW U, IsFiniteSet(U)
  PROVE  Additive([A \in SUBSET U |-> Cardinality(A)], U)
<1> DEFINE number == [A \in SUBSET U |-> Cardinality(A)]
<1>1. number \in [SUBSET U -> Nat]
  BY FS_Subset, FS_CardinalityType
<1>2. number[{}] = 0
  BY FS_EmptySet
<1>3. ASSUME NEW A \in SUBSET U, NEW B \in SUBSET U, A \cap B = {}
      PROVE  number[A \cup B] = number[A] + number[B]
  <2>1. IsFiniteSet(A) /\ IsFiniteSet(B) /\ A \cup B \in SUBSET U
    BY FS_Subset
  <2>2. Cardinality(A \cap B) = 0
    BY <1>3, FS_EmptySet
  <2>3. Cardinality(A) \in Nat /\ Cardinality(B) \in Nat
    BY <2>1, FS_CardinalityType
  <2>4. Cardinality(A \cup B) = Cardinality(A) + Cardinality(B) - Cardinality(A \cap B)
    BY <2>1, FS_Union
  <2> QED BY <2>1, <2>2, <2>3, <2>4
<1> HIDE DEF number
<1>4. Additive(number, U)
  BY <1>1, <1>2, <1>3 DEF Additive
<1> QED BY <1>4 DEF number

(* Two members. *)
LEMMA PairHasTwo ==
  ASSUME NEW x, NEW y, x # y
  PROVE  Cardinality({x, y}) = 2
<1> DEFINE one == {x}
<1>1. IsFiniteSet(one) /\ Cardinality(one) = 1 /\ y \notin one /\ {x, y} = one \cup {y}
  BY FS_Singleton
<1> HIDE DEF one
<1>2. Cardinality(one \cup {y}) = Cardinality(one) + 1
  BY <1>1, FS_AddElement
<1> QED BY <1>1, <1>2

(* Three members of a set that has more than two. *)
LEMMA ThreeAreThere ==
  ASSUME NEW Q, IsFiniteSet(Q), Cardinality(Q) > 2
  PROVE  \E x, y, z \in Q : x # y /\ x # z /\ y # z
<1>1. \A S : IsFiniteSet(S) => Cardinality(S) \in Nat /\ (S = {} <=> Cardinality(S) = 0)
  BY FS_CardinalityType, FS_EmptySet
<1>2. PICK x : x \in Q
  BY <1>1
<1> DEFINE R == Q \ {x}
<1>3. IsFiniteSet(R) /\ Cardinality(R) = Cardinality(Q) - 1
  BY <1>2, FS_RemoveElement
<1>4. PICK y : y \in R
  <2> HIDE DEF R
  <2> QED BY <1>1, <1>3
<1> DEFINE O == R \ {y}
<1>5. IsFiniteSet(O) /\ Cardinality(O) = Cardinality(R) - 1
  <2> HIDE DEF R
  <2> QED BY <1>3, <1>4, FS_RemoveElement
<1>6. PICK z : z \in O
  <2> HIDE DEF R, O
  <2> QED BY <1>1, <1>3, <1>5
<1> QED BY <1>2, <1>4, <1>6

(* A packing of A in which every shard of P has a unit.  If u weighs no more
   than any of A, and each shard of the packing is so full that u makes it
   longer than `best`, then no packing of A and u keeps within `best`, which is
   less than three times u.  A unit that is alone in its shard is alone with
   `best`, too, as it cannot even be with u; the other shards have two or more,
   and there are not more than two to a shard with `best`. *)
LEMMA NoBetterPacking ==
  ASSUME NEW U, IsFiniteSet(U), NEW size, Additive(size, U),
         NEW A \in SUBSET U, NEW u \in U \ A, \A v \in A : size[{u}] <= size[{v}],
         NEW P, IsFiniteSet(P),
         NEW to, \A v \in A : to[v] \in P, NEW other, \A v \in A \cup {u} : other[v] \in P,
         NEW best \in Nat, best < 3 * size[{u}],
         \A p \in P : PartOf(A, to, p) # {} /\ best < size[PartOf(A, to, p)] + size[{u}],
         \A p \in P : size[PartOf(A \cup {u}, other, p)] <= best
  PROVE  FALSE
<1> DEFINE C == A \cup {u}
           w == size[{u}]
           number == [B \in SUBSET U |-> Cardinality(B)]
           Single == {p \in P : \E v \in A : PartOf(A, to, p) = {v}}
           K == {v \in A : to[v] \in Single}
           B == {other[v] : v \in K}
<1>1. C \in SUBSET U /\ w \in Nat /\ \A v \in C : w <= size[{v}] /\ size[{v}] \in Nat
  BY DEF Additive
<1>2. \A v \in K, x \in C : x # v => other[x] # other[v]
  <2> SUFFICES ASSUME NEW v \in K, NEW x \in C, x # v, other[x] = other[v] PROVE FALSE
    OBVIOUS
  <2>1. to[v] \in P /\ PartOf(A, to, to[v]) = {v} /\ v \in A
    BY DEF PartOf
  <2>2. best < size[{v}] + w
    BY <2>1
  <2>3. size[{v, x}] = size[{v}] + size[{x}]
    <3>1. {v} \in SUBSET U /\ {x} \in SUBSET U /\ {v} \cap {x} = {} /\ {v, x} = {v} \cup {x}
      BY <1>1
    <3> QED BY <3>1 DEF Additive
  <2>4. size[{v, x}] <= size[PartOf(C, other, other[v])]
    <3>1. {v, x} \in SUBSET PartOf(C, other, other[v]) /\ PartOf(C, other, other[v]) \in SUBSET U
      BY <1>1 DEF PartOf
    <3> QED BY <3>1, PartsAreSmaller
  <2>5. size[PartOf(C, other, other[v])] <= best
    BY <2>1
  <2>6. size[{v, x}] \in Nat /\ size[PartOf(C, other, other[v])] \in Nat
    BY <1>1 DEF Additive, PartOf
  <2>7. w <= size[{x}] /\ size[{x}] \in Nat /\ size[{v}] \in Nat
    BY <1>1, <2>1
  <2> HIDE DEF w, C
  <2> QED BY <1>1, <2>2, <2>3, <2>4, <2>5, <2>6, <2>7
<1>3. IsFiniteSet(Single) /\ IsFiniteSet(B) /\ Single \in SUBSET P /\ B \in SUBSET P
  <2>1. Single \in SUBSET P /\ B \in SUBSET P
    OBVIOUS
  <2> QED BY <2>1, FS_Subset
<1>4. Cardinality(Single) <= Cardinality(B)
  <2> DEFINE one == [p \in Single |-> CHOOSE v \in A : PartOf(A, to, p) = {v}]
             f == [p \in Single |-> other[one[p]]]
  <2>1. \A p \in Single : one[p] \in A /\ to[one[p]] = p /\ one[p] \in K
    <3> SUFFICES ASSUME NEW p \in Single PROVE one[p] \in A /\ to[one[p]] = p
      OBVIOUS
    <3>1. one[p] \in A /\ PartOf(A, to, p) = {one[p]}
      OBVIOUS
    <3> QED BY <3>1 DEF PartOf
  <2> HIDE DEF one
  <2>2. f \in Injection(Single, B)
    <3>1. f \in [Single -> B]
      BY <2>1
    <3>2. ASSUME NEW p \in Single, NEW q \in Single, f[p] = f[q] PROVE p = q
      <4>1. one[p] \in K /\ one[q] \in C /\ other[one[p]] = other[one[q]]
        BY <2>1, <3>2
      <4> QED BY <1>2, <2>1, <4>1
    <3> QED BY <3>1, <3>2 DEF Injection, IsInjective
  <2> QED BY <1>3, <2>2, FS_Injection
<1>5. Additive(number, U)
  BY NumberIsAdditive
<1>6. 2 * Cardinality(P \ Single) <= Cardinality(A \ K)
  <2>1. \A p \in P \ Single : 2 <= number[PartOf(A \ K, to, p)]
    <3> SUFFICES ASSUME NEW p \in P \ Single PROVE 2 <= number[PartOf(A \ K, to, p)]
      OBVIOUS
    <3>1. PartOf(A \ K, to, p) = PartOf(A, to, p)
      BY DEF PartOf
    <3>2. PICK v : v \in PartOf(A, to, p)
      OBVIOUS
    <3>3. PICK x : x \in PartOf(A, to, p) /\ x # v
      <4>1. v \in A /\ PartOf(A, to, p) # {v}
        BY <3>2 DEF PartOf
      <4> QED BY <3>2, <4>1
    <3>4. {v, x} \in SUBSET PartOf(A, to, p) /\ PartOf(A, to, p) \in SUBSET U
      BY <3>2, <3>3 DEF PartOf
    <3>5. number[{v, x}] <= number[PartOf(A, to, p)]
      <4> HIDE DEF number
      <4> QED BY <1>5, <3>4, PartsAreSmaller
    <3>6. number[{v, x}] = 2
      BY <3>3, <3>4, PairHasTwo
    <3> HIDE DEF number
    <3>7. number[PartOf(A, to, p)] \in Nat
      BY <1>5, <3>4 DEF Additive
    <3> QED BY <3>1, <3>5, <3>6, <3>7
  <2> DEFINE most == Cardinality(U)
  <2>2. most \in Nat /\ \A p \in P \ Single : number[PartOf(A \ K, to, p)] <= most
    <3>1. \A p : PartOf(A \ K, to, p) \in SUBSET U
      BY DEF PartOf
    <3> QED BY <3>1, FS_Subset, FS_CardinalityType
  <2>3. IsFiniteSet(P \ Single) /\ A \ K \in SUBSET U /\ \A v \in A \ K : to[v] \in P \ Single
    BY FS_Difference
  <2>4. number[A \ K] = Cardinality(A \ K)
    OBVIOUS
  <2> HIDE DEF most, number, K, Single
  <2>5. Cardinality(P \ Single) * 2 <= number[A \ K]
    BY <1>5, <2>1, <2>2, <2>3, SizeByParts
  <2>6. Cardinality(P \ Single) \in Nat
    BY <2>3, FS_CardinalityType
  <2> QED BY <2>4, <2>5, <2>6
<1>7. Cardinality(C \ K) <= 2 * Cardinality(P \ B)
  <2>1. \A p \in P \ B : number[PartOf(C \ K, other, p)] <= 2
    <3> SUFFICES ASSUME NEW p \in P \ B, ~ (number[PartOf(C \ K, other, p)] <= 2) PROVE FALSE
      OBVIOUS
    <3> DEFINE Q == PartOf(C \ K, other, p)
    <3>1. Q \in SUBSET U /\ IsFiniteSet(Q) /\ number[Q] = Cardinality(Q) /\ Cardinality(Q) \in Nat
      <4>1. Q \in SUBSET U
        BY <1>1 DEF PartOf
      <4> QED BY <4>1, FS_Subset, FS_CardinalityType
    <3>11. ~ (number[Q] <= 2)
      OBVIOUS
    <3> HIDE DEF number
    <3>12. \A x \in Q : x \in C \ K /\ other[x] = p
      BY DEF PartOf
    <3>13. C \ K \in SUBSET U
      BY <1>1
    <3>14. Q = PartOf(C \ K, other, p)
      OBVIOUS
    <3> HIDE DEF Q
    <3>2. Cardinality(Q) > 2
      BY <3>1, <3>11
    <3>3. PICK x, y, z \in Q : x # y /\ x # z /\ y # z
      BY <3>1, <3>2, ThreeAreThere
    <3>4. {x} \in SUBSET U /\ {y} \in SUBSET U /\ {z} \in SUBSET U /\ {x, y} \in SUBSET U /\ {x, y, z} \in SUBSET U
      BY <3>1
    <3>5. size[{x, y}] = size[{x}] + size[{y}]
      <4>1. {x} \cap {y} = {} /\ {x} \cup {y} = {x, y}
        BY <3>3
      <4> QED BY <3>4, <4>1 DEF Additive
    <3>6. size[{x, y, z}] = size[{x, y}] + size[{z}]
      <4>1. {x, y} \cap {z} = {} /\ {x, y} \cup {z} = {x, y, z}
        BY <3>3
      <4> QED BY <3>4, <4>1 DEF Additive
    <3>7. size[{x, y, z}] <= size[PartOf(C, other, p)]
      <4>1. {x, y, z} \in SUBSET PartOf(C, other, p) /\ PartOf(C, other, p) \in SUBSET U
        BY <1>1, <3>3, <3>12 DEF PartOf
      <4> QED BY <4>1, PartsAreSmaller
    <3>8. size[PartOf(C, other, p)] <= best /\ size[PartOf(C, other, p)] \in Nat
      <4>1. PartOf(C, other, p) \in SUBSET U
        BY <1>1 DEF PartOf
      <4> QED BY <4>1 DEF Additive
    <3>9. /\ size[{x}] \in Nat /\ size[{y}] \in Nat /\ size[{z}] \in Nat
          /\ w <= size[{x}] /\ w <= size[{y}] /\ w <= size[{z}]
      <4>1. x \in C /\ y \in C /\ z \in C
        BY <3>3, <3>12
      <4> QED BY <1>1, <4>1
    <3>10. best < 3 * w
      OBVIOUS
    <3> HIDE DEF w, C
    <3> QED BY <1>1, <3>5, <3>6, <3>7, <3>8, <3>9, <3>10
  <2>3. IsFiniteSet(P \ B) /\ C \ K \in SUBSET U /\ \A v \in C \ K : other[v] \in P \ B
    <3>1. \A v \in C \ K : other[v] \notin B
      BY <1>2
    <3> QED BY <1>1, <3>1, FS_Difference
  <2>2. \A p \in P \ B : 0 <= number[PartOf(C \ K, other, p)]
    <3> SUFFICES ASSUME NEW p \in P \ B PROVE 0 <= number[PartOf(C \ K, other, p)]
      OBVIOUS
    <3> DEFINE Q == PartOf(C \ K, other, p)
    <3>1. Q \in SUBSET U
      BY <1>1 DEF PartOf
    <3> HIDE DEF number, Q
    <3>2. number[Q] \in Nat
      BY <1>5, <3>1 DEF Additive
    <3>3. 0 <= number[Q]
      BY <3>2
    <3> QED BY <3>3 DEF Q
  <2>4. number[C \ K] = Cardinality(C \ K)
    BY <2>3
  <2> HIDE DEF number, K, B, C
  <2>5. number[C \ K] <= Cardinality(P \ B) * 2
    BY <1>5, <2>1, <2>2, <2>3, SizeByParts
  <2>6. Cardinality(P \ B) \in Nat
    BY <2>3, FS_CardinalityType
  <2> QED BY <2>4, <2>5, <2>6
<1>8. Cardinality(C \ K) = Cardinality(A \ K) + 1 /\ Cardinality(A \ K) \in Nat
  <2>1. C \ K = (A \ K) \cup {u} /\ u \notin A \ K /\ A \ K \in SUBSET U
    OBVIOUS
  <2>2. IsFiniteSet(A \ K)
    BY <2>1, FS_Subset
  <2> HIDE DEF C, K
  <2> QED BY <2>1, <2>2, FS_AddElement, FS_CardinalityType
<1>9. /\ Cardinality(P \ B) = Cardinality(P) - Cardinality(B)
      /\ Cardinality(P \ Single) = Cardinality(P) - Cardinality(Single)
  <2>1. P \cap B = B /\ P \cap Single = Single
    BY <1>3
  <2> HIDE DEF B, Single
  <2> QED BY <2>1, FS_Difference
<1>10. Cardinality(B) \in Nat /\ Cardinality(Single) \in Nat /\ Cardinality(P) \in Nat
  BY <1>3, FS_CardinalityType
<1> HIDE DEF B, Single, C, K
<1> QED BY <1>4, <1>6, <1>7, <1>8, <1>9, <1>10

(* Longest processing time first: u weighs no more than any unit of A, which
   are packed as `to` says.  Put on the shard q with the least load it makes
   that at most 4/3 - 1/(3n) times as long as any packing of all the units. *)
LEMMA LeastLoadedIsBounded ==
  ASSUME NEW U, IsFiniteSet(U), NEW size, Additive(size, U),
         NEW A \in SUBSET U, NEW u \in U \ A, \A v \in A : size[{u}] <= size[{v}],
         NEW P, IsFiniteSet(P), NEW n \in Nat \ {0}, n = Cardinality(P),
         NEW to, \A v \in A : to[v] \in P,
         NEW q \in P, \A p \in P : size[PartOf(A, to, q)] <= size[PartOf(A, to, p)],
         NEW other, \A v \in U : other[v] \in P,
         NEW best \in Nat, \A p \in P : size[PartOf(U, other, p)] <= best
  PROVE  3 * n * (size[PartOf(A, to, q)] + size[{u}]) <= (4 * n - 1) * best
<1> DEFINE C == A \cup {u}
           w == size[{u}]
           L == size[PartOf(A, to, q)]
<1>0. \A B \in SUBSET U : size[B] \in Nat
  BY DEF Additive
<1>1. \A p : /\ PartOf(A, to, p) \in SUBSET U /\ PartOf(U, other, p) \in SUBSET U
            /\ PartOf(C, other, p) \in SUBSET PartOf(U, other, p)
  BY DEF PartOf
<1>2. w \in Nat /\ L \in Nat /\ {u} \in SUBSET U /\ C \in SUBSET U
  <2>1. {u} \in SUBSET U /\ C \in SUBSET U
    OBVIOUS
  <2> QED BY <1>0, <1>1, <2>1
<1>3. \A p \in P : size[PartOf(C, other, p)] <= best
  <2> SUFFICES ASSUME NEW p \in P PROVE size[PartOf(C, other, p)] <= best
    OBVIOUS
  <2>1. PartOf(C, other, p) \in SUBSET U
    BY <1>1
  <2>2. size[PartOf(C, other, p)] <= size[PartOf(U, other, p)]
    BY <1>1, PartsAreSmaller
  <2>3. size[PartOf(C, other, p)] \in Nat /\ size[PartOf(U, other, p)] \in Nat
    BY <1>0, <1>1, <2>1
  <2> QED BY <2>2, <2>3
<1>4. w <= best
  <2>1. other[u] \in P /\ {u} \in SUBSET PartOf(U, other, other[u])
    BY DEF PartOf
  <2>2. w <= size[PartOf(U, other, other[u])]
    BY <1>1, <2>1, PartsAreSmaller
  <2>3. size[PartOf(U, other, other[u])] \in Nat /\ size[PartOf(U, other, other[u])] <= best
    BY <1>0, <1>1, <2>1
  <2> QED BY <1>2, <2>2, <2>3
<1>5. CASE 3 * w <= best
  <2>1. n * L <= size[A]
    <3>1. \A p \in P : L <= size[PartOf(A, to, p)] /\ size[PartOf(A, to, p)] <= size[A]
      <4> SUFFICES ASSUME NEW p \in P PROVE size[PartOf(A, to, p)] <= size[A]
        OBVIOUS
      <4>1. PartOf(A, to, p) \in SUBSET A
        BY DEF PartOf
      <4> QED BY <4>1, PartsAreSmaller
    <3>2. size[A] \in Nat
      BY <1>0
    <3> HIDE DEF L
    <3> QED BY <1>2, <3>1, <3>2, SizeByParts
  <2>2. size[C] <= n * best
    <3>1. \A p \in P : 0 <= size[PartOf(C, other, p)]
      <4> SUFFICES ASSUME NEW p \in P PROVE 0 <= size[PartOf(C, other, p)]
        OBVIOUS
      <4>1. PartOf(C, other, p) \in SUBSET U
        BY <1>1
      <4>2. size[PartOf(C, other, p)] \in Nat
        BY <1>0, <4>1
      <4> QED BY <4>2
    <3>2. C \in SUBSET U /\ \A v \in C : other[v] \in P
      BY <1>2
    <3> HIDE DEF C
    <3> QED BY <1>3, <3>1, <3>2, SizeByParts
  <2>3. size[C] = size[A] + w /\ size[A] \in Nat /\ size[C] \in Nat
    <3>1. A \cap {u} = {} /\ A \in SUBSET U /\ C = A \cup {u}
      OBVIOUS
    <3> QED BY <1>0, <1>2, <3>1 DEF Additive
  <2> HIDE DEF C, w, L
  <2>4. n * L + w <= n * best /\ n * L \in Nat /\ n * best \in Nat
    BY <1>2, <2>1, <2>2, <2>3
  <2>5. (n - 1) * (3 * w) <= (n - 1) * best
    <3>1. n - 1 \in Nat /\ 3 * w \in Nat
      BY <1>2
    <3> QED BY <1>5, <3>1
  <2>6. 3 * n * (L + w) = 3 * (n * L + w) + (n - 1) * (3 * w)
    BY <1>2
  <2>7. (4 * n - 1) * best = 3 * (n * best) + (n - 1) * best
    BY <1>2
  <2>8. (n - 1) * (3 * w) \in Int /\ (n - 1) * best \in Int
    BY <1>2
  <2>9. 3 * n * (L + w) <= (4 * n - 1) * best
    BY <1>2, <2>4, <2>5, <2>6, <2>7, <2>8
  <2> QED BY <2>9 DEF L, w
<1>6. CASE best < 3 * w
  <2>1. L + w <= best
    <3> SUFFICES ASSUME ~ (L + w <= best) PROVE FALSE
      OBVIOUS
    <3>1. best < L + w
      <4> HIDE DEF L, w
      <4> QED BY <1>2
    <3>2. \A p \in P : PartOf(A, to, p) # {} /\ best < size[PartOf(A, to, p)] + w
      <4> SUFFICES ASSUME NEW p \in P
                   PROVE  PartOf(A, to, p) # {} /\ best < size[PartOf(A, to, p)] + w
        OBVIOUS
      <4>1. size[PartOf(A, to, p)] \in Nat /\ L <= size[PartOf(A, to, p)]
        BY <1>0, <1>1
      <4>2. best < size[PartOf(A, to, p)] + w
        <5> HIDE DEF w, L
        <5> QED BY <1>2, <3>1, <4>1
      <4>3. ASSUME PartOf(A, to, p) = {} PROVE FALSE
        <5>1. size[PartOf(A, to, p)] = 0
          BY <4>3 DEF Additive
        <5> HIDE DEF w, L
        <5> QED BY <1>2, <1>4, <4>2, <5>1
      <4> QED BY <4>2, <4>3
    <3>3. \A v \in C : other[v] \in P
      OBVIOUS
    <3> QED BY <1>3, <1>6, <3>2, <3>3, NoBetterPacking
  <2> HIDE DEF w, L
  <2>2. 3 * n \in Nat /\ L + w \in Nat /\ (n - 1) * best \in Nat
    BY <1>2
  <2>3. 3 * n * (L + w) <= 3 * n * best
    BY <2>1, <2>2
  <2>4. (4 * n - 1) * best = 3 * n * best + (n - 1) * best /\ 3 * n * best \in Nat /\ 3 * n * (L + w) \in Nat
    BY <2>2
  <2>5. 3 * n * (L + w) <= (4 * n - 1) * best
    BY <2>2, <2>3, <2>4
  <2> QED BY <2>5 DEF L, w
<1>7. 3 * w <= best \/ best < 3 * w
  <2> HIDE DEF w
  <2> QED BY <1>2
<1> QED BY <1>5, <1>6, <1>7

(* The time of several units. *)
SizeOf(estimates) ==
  [A \in SUBSET Units(estimates) |-> Seconds(estimates, {t \in DOMAIN estimates : UnitOf[t] \in A})]

(* It adds up, and it is what the packing and its reference count. *)
LEMMA SizeIsAdditive ==
  ASSUME NEW D \in SUBSET Tests, NEW estimates \in [D -> Nat]
  PROVE  /\ Additive(SizeOf(estimates), Units(estimates))
         /\ \A u \in Units(estimates) : TimeOf(u, estimates) = SizeOf(estimates)[{u}]
         /\ \A to, p : Seconds(estimates, {t \in DOMAIN estimates : to[UnitOf[t]] = p})
                         = SizeOf(estimates)[PartOf(Units(estimates), to, p)]
<1> DEFINE U == Units(estimates)
           TestsIn(A) == {t \in D : UnitOf[t] \in A}
           size == SizeOf(estimates)
<1>1. IsFiniteSet(D) /\ DOMAIN estimates = D /\ \A t \in D : estimates[t] \in Nat /\ UnitOf[t] \in U
  BY RecordingAssumption, FS_Subset DEF Units
<1>2. size = [A \in SUBSET U |-> Seconds(estimates, TestsIn(A))]
  BY <1>1 DEF SizeOf
<1>3. \A A : TestsIn(A) \in SUBSET D
  OBVIOUS
<1>4. size \in [SUBSET U -> Nat]
  <2>1. \A A \in SUBSET U : Seconds(estimates, TestsIn(A)) \in Nat
    BY <1>1, <1>3, SecondsType
  <2> HIDE DEF TestsIn, size, U
  <2> QED BY <1>2, <2>1
<1>5. size[{}] = 0
  <2>1. TestsIn({}) = {} /\ {} \in SUBSET U
    OBVIOUS
  <2>2. SumFunctionOnSet(estimates, {}) = 0
    <3>1. IsFiniteSet({}) /\ \A x \in {} : estimates[x] \in Nat
      BY FS_EmptySet
    <3> QED BY <3>1, SumFolds DEF SumsBy
  <2> QED BY <1>2, <2>1, <2>2 DEF Seconds
<1>6. ASSUME NEW A \in SUBSET U, NEW B \in SUBSET U, A \cap B = {}
      PROVE  size[A \cup B] = size[A] + size[B]
  <2>1. TestsIn(A \cup B) = TestsIn(A) \cup TestsIn(B) /\ TestsIn(A) \cap TestsIn(B) = {} /\ A \cup B \in SUBSET U
    BY <1>6
  <2> HIDE DEF TestsIn
  <2>2. SumFunctionOnSet(estimates, TestsIn(A) \cup TestsIn(B)) = SumFunctionOnSet(estimates, TestsIn(A)) + SumFunctionOnSet(estimates, TestsIn(B))
    BY <1>1, <1>3, <2>1, SumOfUnion
  <2> QED BY <1>2, <2>1, <2>2 DEF Seconds
<1>7. Additive(size, U)
  <2> HIDE DEF size, U
  <2> QED BY <1>4, <1>5, <1>6 DEF Additive
<1>8. \A u \in U : TimeOf(u, estimates) = size[{u}]
  <2> SUFFICES ASSUME NEW u \in U PROVE TimeOf(u, estimates) = size[{u}]
    OBVIOUS
  <2>1. TestsOf(u, estimates) = TestsIn({u}) /\ {u} \in SUBSET U
    BY <1>1 DEF TestsOf
  <2> QED BY <1>2, <2>1 DEF TimeOf
<1>9. \A to, p : Seconds(estimates, {t \in DOMAIN estimates : to[UnitOf[t]] = p}) = size[PartOf(U, to, p)]
  <2> SUFFICES ASSUME NEW to, NEW p
               PROVE  Seconds(estimates, {t \in DOMAIN estimates : to[UnitOf[t]] = p}) = size[PartOf(U, to, p)]
    OBVIOUS
  <2>1. {t \in DOMAIN estimates : to[UnitOf[t]] = p} = TestsIn(PartOf(U, to, p)) /\ PartOf(U, to, p) \in SUBSET U
    BY <1>1 DEF PartOf
  <2> QED BY <1>2, <2>1
<1> QED BY <1>7, <1>8, <1>9

(* The makespan is the time of the longest shard. *)
LEMMA MakespanIsLongest ==
  ASSUME NEW D \in SUBSET Tests, NEW estimates \in [D -> Nat], NEW to
  PROVE  /\ Makespan(to, estimates) \in Nat
         /\ \A p \in Shards : SizeOf(estimates)[PartOf(Units(estimates), to, p)] <= Makespan(to, estimates)
         /\ \E p \in Shards : SizeOf(estimates)[PartOf(Units(estimates), to, p)] = Makespan(to, estimates)
<1> DEFINE time == [p \in Shards |-> SizeOf(estimates)[PartOf(Units(estimates), to, p)]]
           Times == {time[p] : p \in Shards}
<1>1. \A p \in Shards : time[p] \in Nat
  <2> SUFFICES ASSUME NEW p \in Shards PROVE time[p] \in Nat
    OBVIOUS
  <2>1. PartOf(Units(estimates), to, p) \in SUBSET Units(estimates)
    BY DEF PartOf
  <2> QED BY <2>1, SizeIsAdditive DEF Additive
<1>2. Makespan(to, estimates) = Max(Times)
  <2>1. \A p \in Shards : Seconds(estimates, {t \in DOMAIN estimates : to[UnitOf[t]] = p}) = time[p]
    BY SizeIsAdditive
  <2> HIDE DEF time
  <2> QED BY <2>1 DEF Makespan
<1> HIDE DEF time
<1>3. IsFiniteSet(Times) /\ Times \in SUBSET Nat /\ Times # {}
  <2>1. [p \in Shards |-> time[p]] \in Surjection(Shards, Times)
    BY DEF Surjection
  <2>2. IsFiniteSet(Times)
    <3> HIDE DEF Times
    <3> QED BY <2>1, ShardsFinite, FS_Surjection
  <2> QED BY <1>1, <2>2, ShardsFinite
<1>4. PICK e \in Times : \A x \in Times : x <= e
  <2> HIDE DEF Times
  <2> QED BY <1>3, NumbersHaveBounds
<1>5. Max(Times) \in Times /\ \A x \in Times : Max(Times) >= x
  <2> HIDE DEF Times
  <2>1. \A x \in Times : x \in Nat
    BY <1>3
  <2>2. \A x \in Times : e >= x
    BY <1>4, <2>1
  <2> QED BY <2>2 DEF Max
<1> QED BY <1>1, <1>2, <1>5 DEF time

(* The reference is a packing, too. *)
LEMMA BestIsAPacking ==
  ASSUME NEW D \in SUBSET Tests, NEW estimates \in [D -> Nat]
  PROVE  /\ BestMakespan(estimates) \in Nat
         /\ \E other \in [Units(estimates) -> Shards] :
              \A p \in Shards : SizeOf(estimates)[PartOf(Units(estimates), other, p)] <= BestMakespan(estimates)
<1> DEFINE all == [Units(estimates) -> Shards]
           Spans == {Makespan(other, estimates) : other \in all}
<1>1. Spans \in SUBSET Nat /\ BestMakespan(estimates) = Min(Spans)
  <2>1. Spans \in SUBSET Nat
    BY MakespanIsLongest
  <2> QED BY <2>1 DEF BestMakespan, Units
<1>2. [u \in Units(estimates) |-> 0] \in all
  BY ShardsFinite
<1>3. PICK m \in Spans : TRUE
  BY <1>2
<1> DEFINE low == {x \in Spans : x <= m}
<1>4. IsFiniteSet(low) /\ low \in SUBSET Nat /\ low # {}
  <2>1. m \in Nat /\ m <= m /\ low \in SUBSET Nat /\ m \in low
    BY <1>1
  <2>2. \A x \in low : x <= m
    OBVIOUS
  <2> HIDE DEF low, Spans
  <2> QED BY <2>1, <2>2, FS_BoundedSetOfNaturals
<1>5. PICK d \in low : \A x \in low : d <= x
  <2> HIDE DEF low
  <2> QED BY <1>4, NumbersHaveBounds
<1>6. d \in Spans /\ \A x \in Spans : d <= x
  <2>1. d \in Spans /\ d \in Nat /\ m \in Nat /\ d <= m
    BY <1>1
  <2>2. \A x \in Spans : x \in Nat /\ (x <= m => d <= x)
    BY <1>1, <1>5
  <2> HIDE DEF Spans, low
  <2> QED BY <2>1, <2>2
<1>7. Min(Spans) \in Spans
  <2> HIDE DEF Spans
  <2> QED BY <1>6 DEF Min
<1>8. PICK other \in all : BestMakespan(estimates) = Makespan(other, estimates)
  BY <1>1, <1>7
<1> QED BY <1>8, MakespanIsLongest

(* assign_shards: no shard is estimated to take more than 4/3 - 1/(3n) times as
   long as the longest of the best packing on n shards. *)
LEMMA PackingIsBalanced ==
  ASSUME NEW D \in SUBSET Tests, NEW estimates \in [D -> Nat],
         NEW to, \A t \in D : to[UnitOf[t]] = AssignShards(estimates)[t]
  PROVE  3 * ShardCount * Makespan(to, estimates) <= (4 * ShardCount - 1) * BestMakespan(estimates)
<1> DEFINE U == Units(estimates)
           size == SizeOf(estimates)
           best == BestMakespan(estimates)
           Bounded(x) == 3 * ShardCount * x <= (4 * ShardCount - 1) * best
<1>1. Additive(size, U) /\ \A u \in U : TimeOf(u, estimates) = size[{u}]
  BY SizeIsAdditive
<1>2. IsFiniteSet(U) /\ U \subseteq Nat /\ \A u : TimeOf(u, estimates) \in Nat
  BY PackingFolds
<1>3. PICK stage \in [SUBSET U -> Packings(estimates)] : \E c :
        /\ PackedInOrder(stage, c, estimates)
        /\ AssignShards(estimates) = [t \in D |-> stage[U].shard[UnitOf[t]]]
  BY PackingFolds
<1>4. PICK c : /\ PackedInOrder(stage, c, estimates)
               /\ AssignShards(estimates) = [t \in D |-> stage[U].shard[UnitOf[t]]]
  BY <1>3
<1>5. best \in Nat
  BY BestIsAPacking
<1>6. PICK other \in [U -> Shards] : \A p \in Shards : size[PartOf(U, other, p)] <= best
  BY BestIsAPacking
<1>7. IsFiniteSet(Shards) /\ ShardCount \in Nat \ {0} /\ ShardCount = Cardinality(Shards)
  <2>1. Cardinality(0 .. ShardCount - 1) = ShardCount
    BY ShardsAssumption, FS_Interval
  <2> QED BY <2>1, ShardsFinite, ShardsAssumption DEF Shards
<1> DEFINE Fits(s, p) == stage[s].loads[p] = size[PartOf(s, stage[s].shard, p)] /\ Bounded(stage[s].loads[p])
           Good == {s \in SUBSET U : \A p \in Shards : Fits(s, p)}
<1> HIDE DEF U, size, best
<1>8. {} \in Good
  <2> SUFFICES ASSUME NEW p \in Shards PROVE Fits({}, p)
    OBVIOUS
  <2>1. stage[{}].loads[p] = 0
    BY <1>4 DEF PackedInOrder, NothingPacked
  <2>2. PartOf({}, stage[{}].shard, p) = {} /\ size[{}] = 0
    BY <1>1 DEF PartOf, Additive
  <2>3. (4 * ShardCount - 1) * best \in Nat /\ 3 * ShardCount * 0 = 0
    <3>1. 4 * ShardCount - 1 \in Nat
      BY <1>7
    <3> QED BY <1>5, <1>7, <3>1
  <2>4. Bounded(0)
    BY <2>3
  <2> HIDE DEF Bounded
  <2> QED BY <2>1, <2>2, <2>4
<1>9. ASSUME NEW s \in SUBSET U, s # {}, s \ {c[s]} \in Good
      PROVE  s \in Good
  <2> DEFINE u == c[s]
             A == s \ {u}
             to1 == stage[A].shard
             q == LeastLoaded(stage[A].loads)
  <2>1. u \in s /\ stage[s] = PackedWith(u, stage[A], estimates) /\ \A v \in A : LongestFirst(estimates, v, u)
    BY <1>4, <1>9 DEF PackedInOrder, U
  <2>2. A \in SUBSET U /\ u \in U \ A /\ A \cup {u} = s
    BY <2>1
  <2>3. \A v \in A : size[{u}] <= size[{v}]
    <3> SUFFICES ASSUME NEW v \in A PROVE size[{u}] <= size[{v}]
      OBVIOUS
    <3>1. v \in U /\ u \in U /\ LongestFirst(estimates, v, u)
      BY <2>1, <2>2
    <3>2. TimeOf(v, estimates) = size[{v}] /\ TimeOf(u, estimates) = size[{u}]
      BY <1>1, <3>1
    <3>3. TimeOf(v, estimates) > TimeOf(u, estimates) \/ TimeOf(v, estimates) = TimeOf(u, estimates)
      BY <3>1 DEF LongestFirst, TimeOf
    <3>4. TimeOf(v, estimates) \in Nat /\ TimeOf(u, estimates) \in Nat
      BY <1>2
    <3> HIDE DEF u, A
    <3> QED BY <3>2, <3>3, <3>4
  <2>4. to1 \in [U -> Shards] /\ stage[A].loads \in [Shards -> Nat]
    BY <2>2 DEF Packings, U
  <2>5. q \in Shards /\ \A p \in Shards : stage[A].loads[q] <= stage[A].loads[p]
    BY <2>4, LeastLoadedIsLeast
  <2>6. \A p \in Shards : stage[A].loads[p] = size[PartOf(A, to1, p)] /\ Bounded(stage[A].loads[p])
    BY <1>9
  <2>7. /\ stage[s].loads = [stage[A].loads EXCEPT ![q] = @ + size[{u}]]
        /\ stage[s].shard = [to1 EXCEPT ![u] = q]
    <3>1. TimeOf(u, estimates) = size[{u}]
      BY <1>1, <2>2
    <3> HIDE DEF u, A
    <3> QED BY <2>1, <3>1 DEF PackedWith
  <2>8. 3 * ShardCount * (size[PartOf(A, to1, q)] + size[{u}]) <= (4 * ShardCount - 1) * best
    <3>1. \A v \in A : to1[v] \in Shards
      BY <2>2, <2>4
    <3>2. \A p \in Shards : size[PartOf(A, to1, q)] <= size[PartOf(A, to1, p)]
      BY <2>5, <2>6
    <3> HIDE DEF A, u, q, to1
    <3> QED BY <1>1, <1>2, <1>5, <1>6, <1>7, <2>2, <2>3, <2>5, <3>1, <3>2, LeastLoadedIsBounded
  <2>9. \A p \in Shards : PartOf(s, stage[s].shard, p) = IF p = q THEN PartOf(A, to1, p) \cup {u} ELSE PartOf(A, to1, p)
    <3>1. \A v \in U : stage[s].shard[v] = IF v = u THEN q ELSE to1[v]
      BY <2>4, <2>7
    <3>2. \A v \in s : v \in U /\ (v \in A <=> v # u)
      BY <2>2
    <3>3. \A v \in A : v \in s
      OBVIOUS
    <3> HIDE DEF q, to1, A, u
    <3> SUFFICES ASSUME NEW p \in Shards
                 PROVE  PartOf(s, stage[s].shard, p) = IF p = q THEN PartOf(A, to1, p) \cup {u} ELSE PartOf(A, to1, p)
      OBVIOUS
    <3>4. CASE p = q
      BY <2>1, <3>1, <3>2, <3>3, <3>4 DEF PartOf
    <3>5. CASE p # q
      BY <2>1, <3>1, <3>2, <3>3, <3>5 DEF PartOf
    <3> QED BY <3>4, <3>5
  <2>10. size[PartOf(A, to1, q) \cup {u}] = size[PartOf(A, to1, q)] + size[{u}]
    <3>1. PartOf(A, to1, q) \in SUBSET U /\ {u} \in SUBSET U /\ PartOf(A, to1, q) \cap {u} = {}
      BY <2>2 DEF PartOf
    <3> HIDE DEF A, u, q, to1
    <3> QED BY <1>1, <3>1 DEF Additive
  <2> SUFFICES ASSUME NEW p \in Shards PROVE Fits(s, p)
    OBVIOUS
  <2> HIDE DEF A, u, q, to1
  <2>11. CASE p = q
    <3>1. stage[s].loads[p] = size[PartOf(A, to1, q)] + size[{u}]
      BY <2>4, <2>5, <2>6, <2>7, <2>11
    <3>2. PartOf(s, stage[s].shard, p) = PartOf(A, to1, q) \cup {u}
      BY <2>9, <2>11
    <3> QED BY <2>8, <2>10, <3>1, <3>2
  <2>12. CASE p # q
    <3>1. stage[s].loads[p] = stage[A].loads[p] /\ PartOf(s, stage[s].shard, p) = PartOf(A, to1, p)
      BY <2>4, <2>7, <2>9, <2>12
    <3> QED BY <2>6, <3>1
  <2> QED BY <2>11, <2>12
<1>10. U \in Good
  <2>1. \A s \in SUBSET U : s # {} => c[s] \in s
    BY <1>4 DEF PackedInOrder, U
  <2> HIDE DEF Good
  <2>2. Climbs(Good, U, c)
    BY <1>8, <1>9, <2>1 DEF Climbs
  <2> QED BY <1>2, <2>2, FoldInduction
<1>11. \A p : PartOf(U, to, p) = PartOf(U, stage[U].shard, p)
  <2>1. \A u \in U : to[u] = stage[U].shard[u]
    <3> SUFFICES ASSUME NEW u \in U PROVE to[u] = stage[U].shard[u]
      OBVIOUS
    <3>1. PICK t \in D : u = UnitOf[t]
      BY DEF U, Units
    <3> QED BY <1>4, <3>1
  <2> QED BY <2>1 DEF PartOf
<1>12. PICK p \in Shards : size[PartOf(U, to, p)] = Makespan(to, estimates)
  BY MakespanIsLongest DEF U, size
<1>13. Fits(U, p)
  BY <1>10
<1>14. Makespan(to, estimates) = stage[U].loads[p]
  BY <1>11, <1>12, <1>13
<1> QED BY <1>13, <1>14 DEF best

(* assign_shards, before the shards run: the longest of them is estimated to take at most
   4/3 - 1/(3n) times as long as the longest of the best packing of the kept tests. *)
THEOREM ShardsAreBalancedHolds == Spec => []ShardsAreBalanced
<1>1. SelectionInv => ShardsAreBalanced
  <2> DEFINE estimates == Estimates(Kept, KnownDurations)
             placement == AssignShards(estimates)
             first(u) == CHOOSE t \in Kept : UnitOf[t] = u
             shardOf == [u \in {UnitOf[t] : t \in Kept} |-> placement[first(u)]]
  <2> SUFFICES ASSUME SelectionInv, selection # NoSelection
               PROVE  3 * ShardCount * Makespan(shardOf, estimates) <= (4 * ShardCount - 1) * BestMakespan(estimates)
    BY DEF ShardsAreBalanced
  <2>1. Kept \in SUBSET Tests
    BY MyTestsAreFinite
  <2>2. estimates \in [Kept -> Nat]
    BY KeptEstimates
  <2> HIDE DEF estimates
  <2>3. PICK stage \in [SUBSET Units(estimates) -> Packings(estimates)] :
          placement = [t \in Kept |-> stage[Units(estimates)].shard[UnitOf[t]]]
    BY <2>1, <2>2, PackingFolds
  <2>4. \A t \in Kept : shardOf[UnitOf[t]] = placement[t]
    <3> SUFFICES ASSUME NEW t \in Kept PROVE placement[first(UnitOf[t])] = placement[t]
      OBVIOUS
    <3>1. first(UnitOf[t]) \in Kept /\ UnitOf[first(UnitOf[t])] = UnitOf[t]
      OBVIOUS
    <3> HIDE DEF first, placement
    <3> QED BY <2>3, <3>1
  <2> HIDE DEF shardOf
  <2> QED BY <2>1, <2>2, <2>4, PackingIsBalanced
<1> QED BY <1>1, SelectionInvariant, PTL
=============================================================================

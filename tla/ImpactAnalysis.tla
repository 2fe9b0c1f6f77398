--------------------------- MODULE ImpactAnalysis ---------------------------
(***************************************************************************)
(* The command `impact`: it starts GitNexus, builds the impact paths, asks *)
(* GitNexus about the changed functions one question at a time, marks the  *)
(* paths that GitNexus does not know, ends the child and writes the        *)
(* document.  The child takes its steps (ServerStep) in between.           *)
(*                                                                         *)
(* A RuntimeError of the conversation never fails the command: the         *)
(* comparison is left out.  Other exceptions end it without a document.    *)
(***************************************************************************)
EXTENDS GitNexusClient, ImpactPaths

CONSTANTS
  Projects,    \* pull requests, see ImpactPaths
  Keys,        \* keys of symbols
  Graphs,      \* what GitNexus may hold: functions from Keys \X Directions to sets of keys
  QueryLimit   \* changed functions that are asked about, 20

ASSUME QueryLimitAssumption == QueryLimit \in Nat
ASSUME KeyAssumption == \A s \in DOMAIN Key : Key[s] \in Keys
ASSUME GraphsAssumption == Graphs \subseteq [Keys \X Directions -> SUBSET Keys]
(* What a project lists was read from files. *)
ASSUME ProjectsAssumption ==
  \A p \in Projects :
    /\ {"changed", "references", "signals", "urls", "fields", "traces"} \subseteq DOMAIN p
    /\ p.changed \in Seq(DOMAIN Key)
    /\ \A items \in {p.references, p.signals, p.urls, p.fields, Range(p.traces)} : IsFiniteSet(items)
    /\ \A t \in Range(p.traces) : IsFiniteSet(t.callers) /\ IsFiniteSet(t.callees)

VARIABLES
  pc,          \* where the command is
  project, graph,
  paths,       \* the paths listed so far
  static,      \* answers: <<changed function, direction>> -> keys
  status,      \* sources["gitnexus"]
  adopted,     \* stack.callback(gitnexus.close) was reached
  failed,      \* an exception unwinds the stack
  document     \* the document is written

commandVars == <<pc, project, graph, paths, static, status, adopted, failed, document>>
vars == <<clientVars, commandVars>>

(* changed[:20], asked upstream first.  Request 1 is `initialize`, request
   i + 1 the i-th question. *)
AskedFunctions == IF Len(project.changed) <= QueryLimit THEN Len(project.changed) ELSE QueryLimit
QuestionCount == 2 * AskedFunctions
Question(i) ==
  <<project.changed[(i + 1) \div 2], IF i % 2 = 1 THEN "upstream" ELSE "downstream">>
Questions == {Question(i) : i \in 1 .. QuestionCount}

(* What the graph holds: GitNexus is asked for a file and a bare name. *)
Truth(q) == graph[<<Key[q[1]], q[2]>>]

Init ==
  /\ ClientInit
  /\ pc = "launch" /\ project \in Projects /\ graph \in Graphs
  /\ paths = {} /\ static = [q \in {} |-> {}] /\ status = "not_requested"
  /\ adopted = FALSE /\ failed = FALSE /\ document = FALSE

Goto(place) ==
  /\ pc' = place
  /\ UNCHANGED <<project, graph, paths, static, status, adopted, failed, document>>

(* An exception that is no RuntimeError: the stack is unwound. *)
Raise ==
  /\ pc' = "close" /\ failed' = TRUE
  /\ UNCHANGED <<project, graph, paths, static, status, adopted, document>>

-----------------------------------------------------------------------------
(* GitNexusImpact(...) *)

(* --skip-gitnexus, or no such program. *)
WithoutGitNexus ==
  /\ pc = "launch" /\ Goto("analyse")
  /\ UNCHANGED clientVars

Launch ==
  /\ pc = "launch" /\ Spawn /\ Goto("connect")
  /\ UNCHANGED <<unanswered, lines, nextId>>

(* Popen raises another OSError than FileNotFoundError, or the traces of the
   tests are no JSON. *)
LaunchFails ==
  /\ pc = "launch" /\ Raise
  /\ UNCHANGED clientVars

SendInitialize ==
  /\ pc = "connect" /\ Send /\ Goto("initialize")
  /\ UNCHANGED <<server, lines>>

(* The answer's content does not matter.  The notification that follows is
   written to a child that lives. *)
Initialized ==
  /\ pc = "initialize" /\ ~NoLine /\ Matches(Head(lines))
  /\ Head(lines).form # "rpcerror" /\ server = "alive"
  /\ lines' = Tail(lines)
  /\ pc' = "analyse" /\ adopted' = TRUE
  /\ UNCHANGED <<server, unanswered, nextId>>
  /\ UNCHANGED <<project, graph, paths, static, status, failed, document>>

\* Mutant: `initialize` is waited for without a deadline.
NotInitializedWaits ==
  /\ \/ pc = "connect" /\ server = "dead" /\ UNCHANGED lines
     \/ pc = "initialize" /\ NoLine /\ server = "dead" /\ UNCHANGED lines
     \/ /\ pc = "initialize" /\ ~NoLine /\ Matches(Head(lines))
        /\ Head(lines).form = "rpcerror" \/ server = "dead"
        /\ lines' = Tail(lines)
  /\ Goto("analyse")
  /\ UNCHANGED <<server, unanswered, nextId>>

(* RuntimeError in the constructor: the comparison is left out.  Nobody owns
   the child, which is not ended. *)
NotInitialized ==
  /\ \/ pc = "connect" /\ server = "dead" /\ UNCHANGED lines
     \/ pc = "initialize" /\ NoLine /\ UNCHANGED lines   \* the time is up, or the child gone
     \/ /\ pc = "initialize" /\ ~NoLine /\ Matches(Head(lines))
        /\ Head(lines).form = "rpcerror" \/ server = "dead"
        /\ lines' = Tail(lines)
  /\ Goto("analyse")
  /\ UNCHANGED <<server, unanswered, nextId>>

(* A line that is skipped, in the constructor or later. *)
SkipLine ==
  /\ pc \in {"initialize", "answer"} /\ ~NoLine /\ Skipped(Head(lines))
  /\ lines' = Tail(lines)
  /\ UNCHANGED <<server, unanswered, nextId, commandVars>>

(* A line that raises AttributeError. *)
BreakOnLine ==
  /\ pc \in {"initialize", "answer"} /\ ~NoLine /\ Breaks(Head(lines))
  /\ lines' = Tail(lines)
  /\ Raise
  /\ UNCHANGED <<server, unanswered, nextId>>

-----------------------------------------------------------------------------
(* analyze_impact *)

(* Another commit is checked out, or the configuration is not valid. *)
Refuse ==
  /\ pc = "analyse" /\ Raise
  /\ UNCHANGED clientVars

\* Without the Django structure there are no models, hence no ORM references.
Extracted(django) ==
  IF django THEN project
  ELSE [project EXCEPT !.references = {}, !.signals = {}, !.urls = {}, !.fields = {}]

(* A failed extraction is noted among the sources and goes unnoticed here. *)
BuildList ==
  /\ pc = "analyse"
  /\ \E django \in BOOLEAN : paths' \in BuildPaths(Extracted(django))
  /\ pc' = IF adopted /\ paths' # {} THEN "ask" ELSE "close"
  /\ UNCHANGED <<project, graph, static, status, adopted, failed, document, clientVars>>

\* Mutant: the loop runs over one function too many.
AskBeyond ==
  /\ pc = "ask" /\ nextId <= QuestionCount + 1
  /\ Send /\ Goto("answer")
  /\ UNCHANGED <<server, lines>>

Ask ==
  /\ pc = "ask" /\ nextId <= QuestionCount
  /\ Send /\ Goto("answer")
  /\ UNCHANGED <<server, lines>>

(* The reply to a question holds what the graph says to the question of the
   line's own id. *)
Learn ==
  /\ pc = "answer" /\ ~NoLine /\ Matches(Head(lines))
  /\ LET line == Head(lines)
         Asked == Question(nextId - 1)
         reply == IF line.form = "impact" THEN Truth(Question(line.id - 1)) ELSE {}
     IN /\ line.kind = "answer" /\ line.form \in {"impact", "toolerror"}
        /\ static' = [q \in DOMAIN static \cup {Asked} |-> IF q = Asked THEN reply ELSE static[q]]
  /\ lines' = Tail(lines) /\ pc' = "ask"
  /\ UNCHANGED <<server, unanswered, nextId>>
  /\ UNCHANGED <<project, graph, paths, status, adopted, failed, document>>

(* A matching line without a readable report: an error of the server, text
   that is no JSON, or a request of its own, which has no result. *)
Unreadable(line) ==
  Matches(line) /\ (line.kind = "request" \/ line.form \in {"rpcerror", "text"})

\* Mutant: what was answered before is used.
UnavailableMarks ==
  /\ \/ pc = "ask" /\ nextId <= QuestionCount /\ server = "dead" /\ UNCHANGED lines
     \/ pc = "answer" /\ NoLine /\ UNCHANGED lines
     \/ pc = "answer" /\ ~NoLine /\ Unreadable(Head(lines)) /\ lines' = Tail(lines)
  /\ paths' = MarkStaticMisses(paths, static)
  /\ status' = "unavailable" /\ pc' = "close"
  /\ UNCHANGED <<server, unanswered, nextId>>
  /\ UNCHANGED <<project, graph, static, adopted, failed, document>>

\* Mutant: a question without an answer is passed over.
UnavailableGoesOn ==
  /\ pc = "answer" /\ NoLine /\ Goto("ask")
  /\ UNCHANGED clientVars

(* RuntimeError during a question: the child is gone, the time is up, or the
   answer is of no use.  No path is marked. *)
Unavailable ==
  /\ \/ pc = "ask" /\ nextId <= QuestionCount /\ server = "dead" /\ UNCHANGED lines
     \/ pc = "answer" /\ NoLine /\ UNCHANGED lines
     \/ pc = "answer" /\ ~NoLine /\ Unreadable(Head(lines)) /\ lines' = Tail(lines)
  /\ status' = "unavailable" /\ pc' = "close"
  /\ UNCHANGED <<server, unanswered, nextId>>
  /\ UNCHANGED <<project, graph, paths, static, adopted, failed, document>>

(* An answer of another shape raises AttributeError or TypeError. *)
BreakOnAnswer ==
  /\ pc = "answer" /\ ~NoLine /\ Matches(Head(lines))
  /\ Head(lines).kind = "answer" /\ Head(lines).form = "shape"
  /\ lines' = Tail(lines)
  /\ Raise
  /\ UNCHANGED <<server, unanswered, nextId>>

Mark ==
  /\ pc = "ask" /\ nextId > QuestionCount
  /\ paths' = MarkStaticMisses(paths, static)
  /\ status' = "compared" /\ pc' = "close"
  /\ UNCHANGED <<project, graph, static, adopted, failed, document, clientVars>>

-----------------------------------------------------------------------------
(* The end of the `with` block. *)

\* Mutant: the child is closed after a comparison only.
CloseAfterwards ==
  /\ pc = "close"
  /\ IF adopted /\ ~failed THEN Kill ELSE UNCHANGED <<server, unanswered>>
  /\ pc' = IF failed THEN "ended" ELSE "write"
  /\ UNCHANGED <<lines, nextId>>
  /\ UNCHANGED <<project, graph, paths, static, status, adopted, failed, document>>

(* close() waits for the killed child and raises if it is not gone in time. *)
Close ==
  /\ pc = "close"
  /\ \/ adopted /\ Kill /\ UNCHANGED failed
     \/ adopted /\ KillLate /\ failed' = TRUE
     \/ ~adopted /\ UNCHANGED <<server, unanswered, failed>>
  /\ pc' = IF failed' THEN "ended" ELSE "write"
  /\ UNCHANGED <<lines, nextId>>
  /\ UNCHANGED <<project, graph, paths, static, status, adopted, document>>

WriteDocument ==
  /\ pc = "write" /\ pc' = "ended" /\ document' = TRUE
  /\ UNCHANGED <<project, graph, paths, static, status, adopted, failed, clientVars>>

Command ==
  \/ WithoutGitNexus \/ Launch \/ LaunchFails \/ SendInitialize \/ Initialized \/ NotInitialized
  \/ SkipLine \/ BreakOnLine
  \/ Refuse \/ BuildList \/ Ask \/ Learn \/ Unavailable \/ BreakOnAnswer \/ Mark
  \/ Close \/ WriteDocument

(* The child lives on after the command at most as long as its pipes; what
   it writes then is read by nobody. *)
Server == pc # "ended" /\ ServerStep(QuestionCount + 1) /\ UNCHANGED commandVars

Next == Command \/ Server

Spec == Init /\ [][Next]_vars

(* The command takes its next step; a wait is a step that is enabled when a
   line is there or, by the deadline, when none is. *)
FairSpec == Spec /\ WF_vars(Command)

-----------------------------------------------------------------------------
(* Properties *)

(* Type invariant: there are no more requests than `initialize` and two for each
   of the first QueryLimit changed functions, and answers about no others. *)
TypeOK ==
  /\ pc \in {"launch", "connect", "initialize", "analyse", "ask", "answer", "close", "write", "ended"}
  /\ project \in Projects /\ graph \in Graphs
  /\ server \in {"none", "alive", "killed", "dead"} /\ nextId \in 0 .. QuestionCount + 1
  /\ unanswered \subseteq 1 .. nextId
  /\ lines \in Seq(Line(QuestionCount + 1)) /\ Len(lines) <= MaxLines
  /\ static \in [DOMAIN static -> SUBSET Keys] /\ DOMAIN static \subseteq Questions
  /\ status \in {"not_requested", "compared", "unavailable"}
  /\ adopted \in BOOLEAN /\ failed \in BOOLEAN /\ document \in BOOLEAN

(* The mark of a path tells what the graph holds for its changed function in
   the path's direction: "missed" that no symbol of the far end's name is
   reached, or that GitNexus does not know the changed function; "known" that
   one is.  Whatever lines the child writes, in whatever order. *)
MarksTellTheGraph ==
  \A q \in paths :
    LET asked == <<Changed(q), q.direction>>
    IN /\ q.mark = "known" => Key[Other(q)] \in Truth(asked)
       /\ q.mark = "missed" => Key[Other(q)] \notin Truth(asked) \/ static[asked] = {}

(* The comparison is all or nothing: after an incomplete conversation no path
   is marked, after a complete one every path of a function that was asked
   about, entry routes excepted. *)
ComparedAsAWhole ==
  /\ status # "compared" => \A q \in paths : q.mark = "none"
  /\ status = "compared" =>
       \A q \in paths : q.kind # "url" /\ <<Changed(q), q.direction>> \in Questions => q.mark # "none"

(* What the traced tests showed is not lost and not told twice: a call between
   two functions in any shard is a path of its own, or it confirms a Django or
   ORM path of the same ends, never both; neither only when the list is full,
   or the list of chains to the function. *)
Observed ==
  {<<c.chain[1], c.of>> : c \in {x \in AllCallers(project) : x.chain # <<>> /\ x.of \in Range(project.changed)}}
  \cup {<<c.of, c.callee>> : c \in {x \in AllCallees(project) : x.of \in Range(project.changed)}}

ObservedOnce ==
  /\ pc \in {"ask", "answer", "write"} =>
       \A call \in {c \in Observed : c[1] # c[2]} :
         LET Between == {q \in paths : <<q.source, q.target>> = call}
             Own == {q \in Between : q.origin = "runtime"}
             Confirmed == {q \in Between : q.confirmed}
         IN /\ Own = {} \/ Confirmed = {}
            /\ Own \cup Confirmed = {} =>
                 Cardinality(paths) = MaxPaths \/ Cardinality(ChainsOf(project, call[2])) > MaxChains
  /\ \A q \in paths : q.confirmed => <<q.source, q.target>> \in Observed

(* A child whose conversation was accepted does not survive the command,
   however the command ends; if it was killed but not seen to be gone, the
   command has failed and written nothing.  (A child that answers `initialize`
   with an error, or too late, is never ended.) *)
AdoptedChildEnds ==
  pc = "ended" /\ adopted => server = "dead" \/ (server = "killed" /\ failed /\ ~document)

(* Refinement: see StaticComparison. *)
Comparison == INSTANCE StaticComparison WITH
  truth <- [q \in Questions |-> Truth(q)],
  answers <- static,
  verdict <- IF status = "not_requested" THEN "open" ELSE status

ImplementsComparison == Comparison!Spec

(* The command ends, unless the child writes lines for ever: the deadline is
   one for each line, so that a talkative child can hold it. *)
AnalysisEnds == []<><<Chatter(QuestionCount + 1)>>_vars \/ <>(pc = "ended")
=============================================================================

------------------------ MODULE ImpactAnalysisProofs ------------------------
(***************************************************************************)
(* For every project, every graph and everything the child may write: the  *)
(* conversation with GitNexus implements StaticComparison, the marks tell  *)
(* the graph, the comparison is all or nothing, and what the traced tests  *)
(* showed is listed once.                                                  *)
(***************************************************************************)
EXTENDS ImpactAnalysis, SequenceTheorems, FiniteSetTheorems, TLAPS

(* The conversation follows the command: which request is out. *)
Stages ==
  /\ pc = "launch" => server = "none"
  /\ pc \in {"launch", "connect"} => nextId = 0
  /\ pc = "initialize" => nextId = 1
  /\ pc = "analyse" => nextId \in {0, 1} /\ (adopted => nextId = 1)
  /\ pc = "ask" => nextId >= 1
  /\ pc = "answer" => nextId >= 2
  /\ pc \in {"launch", "connect", "initialize"} => ~adopted
  /\ pc \in {"launch", "connect", "initialize", "analyse", "ask", "answer"} => status = "not_requested"
  /\ pc = "write" => ~failed
  /\ pc # "ended" => ~document
  /\ pc \in {"write", "ended"} /\ adopted => server = "dead" \/ (server = "killed" /\ failed /\ ~document)

(* The answers so far are those of the questions before the one that is out. *)
Answered ==
  /\ pc \in {"launch", "connect", "initialize", "analyse"} => DOMAIN static = {}
  /\ pc = "ask" => DOMAIN static = {Question(i) : i \in 1 .. nextId - 1}
  /\ pc = "answer" => DOMAIN static = {Question(i) : i \in 1 .. nextId - 2}

(* An answer is the graph's answer to that question, or the empty one. *)
Truthful == \A q \in DOMAIN static : static[q] \in {Truth(q), {}}

(* A path is a record of these fields, whatever their values. *)
IsPath(q) ==
  q = [kind |-> q.kind, source |-> q.source, target |-> q.target, detail |-> q.detail, origin |-> q.origin,
       direction |-> q.direction, confirmed |-> q.confirmed, mark |-> q.mark]

(* A path's mark is what the answers say of its ends. *)
MarkedByAnswers ==
  \A q \in paths :
    LET asked == <<Changed(q), q.direction>>
    IN /\ IsPath(q)
       /\ q.mark = "known" => asked \in DOMAIN static /\ Key[Other(q)] \in static[asked]
       /\ q.mark = "missed" => asked \in DOMAIN static /\ Key[Other(q)] \notin static[asked]

IInv == TypeOK /\ Stages /\ Answered /\ Truthful /\ MarkedByAnswers /\ ComparedAsAWhole

-----------------------------------------------------------------------------
(* The operators. *)

(* A path that was not compared yet. *)
Fresh(q) == IsPath(q) /\ q.mark = "none"

(* What Path makes is fresh. *)
LEMMA PathFresh ==
  ASSUME NEW kind, NEW source, NEW target, NEW detail, NEW origin, NEW direction
  PROVE  Fresh(Path(kind, source, target, detail, origin, direction))
  BY DEF Fresh, IsPath, Path

(* What the changed functions add is fresh. *)
LEMMA AddsFresh ==
  ASSUME NEW p, NEW callers, NEW i, NEW q \in Adds(p, callers, i)
  PROVE  Fresh(q)
<1>. DEFINE f == p.changed[i]
<1>1. q \in SignalPaths(p, f) \cup FieldPaths(p, f) \cup TriggerPaths(p, f) \cup UrlPaths(p, f)
            \cup CallerPaths(callers, f) \cup CalleePaths(p, f)
  BY DEF Adds
<1>2. CASE q \in SignalPaths(p, f)
  <2>1. PICK w \in Writes(p, f) : q \in
          {Path("signal", f, s.receiver, <<w.model, s.signal>>, "django", "downstream") :
             s \in {x \in p.signals : x.sender \in {w.model, NoSender} /\ x.ofModels}}
    BY <1>2 DEF SignalPaths
  <2>2. QED
    BY <2>1, PathFresh
<1>3. CASE q \in FieldPaths(p, f)
  BY <1>3, PathFresh DEF FieldPaths
<1>4. CASE q \in TriggerPaths(p, f)
  <2>1. PICK s \in {x \in p.signals : x.receiver = f} : q \in
          {Path("signal", w.function, f, <<w.model, s.signal>>, "django", "upstream") :
             w \in {x \in p.references : x.model = s.sender /\ x.access = "write"}}
    BY <1>4 DEF TriggerPaths
  <2>2. QED
    BY <2>1, PathFresh
<1>5. CASE q \in UrlPaths(p, f)
  BY <1>5, PathFresh DEF UrlPaths
<1>6. CASE q \in CallerPaths(callers, f)
  BY <1>6, PathFresh DEF CallerPaths
<1>7. CASE q \in CalleePaths(p, f)
  BY <1>7, PathFresh DEF CalleePaths
<1>8. QED
  BY <1>1, <1>2, <1>3, <1>4, <1>5, <1>6, <1>7

(* So are the paths of changed definitions, hence all that are collected. *)
LEMMA CollectedFresh ==
  ASSUME NEW p, NEW callers, NEW q \in Collected(p, callers)
  PROVE  Fresh(q)
<1>1. q \in DefinitionPaths(p) \/ \E i \in DOMAIN p.changed : q \in Adds(p, callers, i)
  <2>1. CASE q \notin DefinitionPaths(p)
    <3>1. PICK i \in DOMAIN p.changed : q \in
            {x \in Adds(p, callers, i) :
               \A j \in 1 .. i - 1 : \A r \in Adds(p, callers, j) : ~SameEntry(x, r)}
      BY <2>1 DEF Collected
    <3>2. QED
      BY <3>1
  <2>2. QED
    BY <2>1
<1>2. CASE \E i \in DOMAIN p.changed : q \in Adds(p, callers, i)
  BY <1>2, AddsFresh
<1>3. CASE q \in DefinitionPaths(p)
  <2>1. PICK d \in p.fields : q \in
          {Path("orm_field", d.symbol, r.function, <<d.symbol, r.access>>, "orm", "downstream") :
             r \in {x \in p.references : x.model = d.model /\ x.field = d.field}}
    BY <1>3 DEF DefinitionPaths
  <2>2. QED
    BY <2>1, PathFresh
<1>4. QED
  BY <1>1, <1>2, <1>3

(* Confirming a path leaves its mark. *)
LEMMA ConfirmedFresh ==
  ASSUME NEW q, Fresh(q)
  PROVE  Fresh([q EXCEPT !.confirmed = TRUE])
<1>1. \A v : LET r == [q EXCEPT !.confirmed = v]
             IN r = [kind |-> q.kind, source |-> q.source, target |-> q.target, detail |-> q.detail,
                     origin |-> q.origin, direction |-> q.direction, confirmed |-> v, mark |-> "none"]
  BY DEF Fresh, IsPath
<1>2. QED
  BY <1>1 DEF Fresh, IsPath

(* Folding the runtime edges into the others leaves the marks. *)
LEMMA MergedFresh ==
  ASSUME NEW ps, \A x \in ps : Fresh(x), NEW q \in Merged(ps)
  PROVE  Fresh(q)
<1>. DEFINE Structural == {x \in ps : x.origin # "runtime"}
            Repeats(r) == {x \in Structural : SameEnds(x, r)}
            Confirmed == {(CHOOSE x \in Repeats(r) : TRUE) :
                            r \in {x \in ps \ Structural : Repeats(x) # {}}}
<1>1. Confirmed \subseteq ps
  OBVIOUS
<1>2. q \in ps \/ \E x \in Confirmed : q = [x EXCEPT !.confirmed = TRUE]
  BY DEF Merged
<1>3. QED
  BY <1>1, <1>2, ConfirmedFresh

(* The list is fresh until it is compared. *)
LEMMA BuildPathsFresh ==
  ASSUME NEW p, NEW ps \in BuildPaths(p), NEW q \in ps
  PROVE  Fresh(q)
<1>1. PICK callers \in MergedCallers(p) :
        ps \in First(Merged(Collected(p, callers)), MaxPaths, LAMBDA x : KindRank(x.kind))
  BY DEF BuildPaths
<1>2. q \in Merged(Collected(p, callers))
  BY <1>1 DEF First
<1>3. QED
  BY <1>2, CollectedFresh, MergedFresh

(* Marking changes the mark alone, and it sets it to what was answered. *)
LEMMA MarkedByAnswer ==
  ASSUME NEW q, Fresh(q), NEW known
  PROVE  LET r == Marked(q, known)
             asked == <<Changed(r), r.direction>>
         IN /\ IsPath(r)
            /\ r.mark = "known" => asked \in DOMAIN known /\ Key[Other(r)] \in known[asked]
            /\ r.mark = "missed" => asked \in DOMAIN known /\ Key[Other(r)] \notin known[asked]
            /\ r.kind # "url" /\ asked \in DOMAIN known => r.mark # "none"
<1>1. CASE <<Changed(q), q.direction>> \notin DOMAIN known \/ q.kind = "url"
  BY <1>1 DEF Marked, Fresh
<1>2. CASE ~(<<Changed(q), q.direction>> \notin DOMAIN known \/ q.kind = "url")
  <2>. DEFINE verdict == IF Key[Other(q)] \in known[<<Changed(q), q.direction>>] THEN "known" ELSE "missed"
              r == [q EXCEPT !.mark = verdict]
  <2>1. Marked(q, known) = r
    BY <1>2 DEF Marked
  <2>a. q = [kind |-> q.kind, source |-> q.source, target |-> q.target, detail |-> q.detail, origin |-> q.origin,
             direction |-> q.direction, confirmed |-> q.confirmed, mark |-> "none"]
    BY DEF Fresh, IsPath
  <2>b. r = [kind |-> q.kind, source |-> q.source, target |-> q.target, detail |-> q.detail, origin |-> q.origin,
             direction |-> q.direction, confirmed |-> q.confirmed, mark |-> verdict]
    BY <2>a
  <2>2. IsPath(r) /\ r.mark = verdict
    BY <2>b DEF IsPath
  <2>3. r.source = q.source /\ r.target = q.target /\ r.direction = q.direction
    BY <2>b
  <2>4. Changed(r) = Changed(q) /\ Other(r) = Other(q)
    BY <2>3 DEF Changed, Other
  <2>5. QED
    BY <1>2, <2>1, <2>2, <2>3, <2>4
<1>3. QED
  BY <1>1, <1>2

(* Marking a fresh list makes its marks those of the answers. *)
LEMMA MarkedList ==
  ASSUME NEW known, \A q \in paths : Fresh(q), paths' = MarkStaticMisses(paths, known)
  PROVE  \A r \in paths' :
           LET asked == <<Changed(r), r.direction>>
           IN /\ IsPath(r)
              /\ r.mark = "known" => asked \in DOMAIN known /\ Key[Other(r)] \in known[asked]
              /\ r.mark = "missed" => asked \in DOMAIN known /\ Key[Other(r)] \notin known[asked]
              /\ r.kind # "url" /\ asked \in DOMAIN known => r.mark # "none"
<1>. SUFFICES ASSUME NEW r \in paths'
     PROVE  LET asked == <<Changed(r), r.direction>>
            IN /\ IsPath(r)
               /\ r.mark = "known" => asked \in DOMAIN known /\ Key[Other(r)] \in known[asked]
               /\ r.mark = "missed" => asked \in DOMAIN known /\ Key[Other(r)] \notin known[asked]
               /\ r.kind # "url" /\ asked \in DOMAIN known => r.mark # "none"
  OBVIOUS
<1>1. PICK q \in paths : r = Marked(q, known)
  BY DEF MarkStaticMisses
<1>2. QED
  BY <1>1, MarkedByAnswer

(* The questions are about changed functions, and the graph answers with keys. *)
LEMMA QuestionType ==
  ASSUME project \in Projects, graph \in Graphs
  PROVE  /\ QuestionCount \in Nat
         /\ \A i \in 1 .. QuestionCount : Question(i) \in Questions /\ Truth(Question(i)) \in SUBSET Keys
<1>. USE QueryLimitAssumption, KeyAssumption, GraphsAssumption, ProjectsAssumption
<1>1. project.changed \in Seq(DOMAIN Key)
  OBVIOUS
<1>2. Len(project.changed) \in Nat /\ \A k \in 1 .. Len(project.changed) : project.changed[k] \in DOMAIN Key
  BY <1>1
<1>3. AskedFunctions \in Nat /\ AskedFunctions <= Len(project.changed)
  BY <1>2 DEF AskedFunctions
<1>4. QuestionCount \in Nat
  BY <1>3 DEF QuestionCount
<1>5. ASSUME NEW i \in 1 .. QuestionCount
      PROVE  Question(i) \in Questions /\ Truth(Question(i)) \in SUBSET Keys
  <2>1. (i + 1) \div 2 \in 1 .. Len(project.changed)
    BY <1>2, <1>3 DEF QuestionCount
  <2>2. PICK f \in DOMAIN Key, d \in Directions : Question(i) = <<f, d>>
    BY <2>1, <1>2 DEF Question, Directions
  <2>3. Truth(Question(i)) = graph[<<Key[f], d>>]
    BY <2>2 DEF Truth
  <2>4. graph[<<Key[f], d>>] \in SUBSET Keys
    OBVIOUS
  <2>5. QED
    BY <2>3, <2>4 DEF Questions
<1>6. QED
  BY <1>4, <1>5

(* Of what the invariant says, only the project and the graph matter to these. *)
LEMMA SameQuestions ==
  ASSUME UNCHANGED <<project, graph>>
  PROVE  /\ AskedFunctions' = AskedFunctions /\ QuestionCount' = QuestionCount
         /\ \A i : Question(i)' = Question(i)
         /\ Questions' = Questions
         /\ \A q : Truth(q)' = Truth(q)
  BY DEF AskedFunctions, QuestionCount, Question, Questions, Truth

-----------------------------------------------------------------------------
(* The invariant *)

Places == {"launch", "connect", "initialize", "analyse", "ask", "answer", "close", "write", "ended"}

(* A step that leaves the list, the answers and the verdict alone keeps what
   is said of them. *)
LEMMA Kept ==
  ASSUME IInv, UNCHANGED <<project, graph, paths, static, status>>
  PROVE  Truthful' /\ MarkedByAnswers' /\ ComparedAsAWhole'
<1>1. Truthful'
  BY DEF IInv, Truthful, Truth
<1>2. MarkedByAnswers'
  BY DEF IInv, MarkedByAnswers, IsPath, Changed, Other
<1>3. ComparedAsAWhole'
  BY SameQuestions DEF IInv, ComparedAsAWhole, Changed
<1>4. QED
  BY <1>1, <1>2, <1>3

(* The types that such a step has to care about. *)
LEMMA KeptType ==
  ASSUME TypeOK, UNCHANGED <<project, graph, static, status>>,
         pc' \in Places, server' \in {"none", "alive", "killed", "dead"},
         nextId' \in 0 .. QuestionCount + 1, unanswered' \subseteq 1 .. nextId',
         lines' \in Seq(Line(QuestionCount + 1)), Len(lines') <= MaxLines,
         adopted' \in BOOLEAN, failed' \in BOOLEAN, document' \in BOOLEAN
  PROVE  TypeOK'
  BY SameQuestions DEF TypeOK, Places

(* A line is read. *)
LEMMA TailType ==
  ASSUME TypeOK, ~NoLine
  PROVE  Tail(lines) \in Seq(Line(QuestionCount + 1)) /\ Len(Tail(lines)) <= MaxLines
<1>1. lines \in Seq(Line(QuestionCount + 1)) /\ lines # <<>> /\ Len(lines) <= MaxLines
  BY DEF TypeOK, NoLine
<1>2. Tail(lines) \in Seq(Line(QuestionCount + 1)) /\ Len(Tail(lines)) = Len(lines) - 1 /\ Len(lines) \in Nat
  BY <1>1, HeadTailProperties
<1>3. MaxLines \in Nat
  BY MaxLinesAssumption
<1>4. QED
  BY <1>1, <1>2, <1>3

LEMMA InitInv == Init => IInv
<1>. SUFFICES ASSUME Init PROVE IInv
  OBVIOUS
<1>. USE DEF Init, ClientInit
<1>1. QuestionCount \in Nat
  BY QuestionType
<1>2. TypeOK
  <2>1. lines \in Seq(Line(QuestionCount + 1)) /\ Len(lines) <= MaxLines
    BY MaxLinesAssumption
  <2>2. static \in [DOMAIN static -> SUBSET Keys] /\ DOMAIN static \subseteq Questions
    OBVIOUS
  <2>3. nextId \in 0 .. QuestionCount + 1 /\ unanswered \subseteq 1 .. nextId
    BY <1>1
  <2>4. QED
    BY <2>1, <2>2, <2>3 DEF TypeOK
<1>3. Stages
  BY DEF Stages
<1>4. Answered /\ Truthful
  BY DEF Answered, Truthful
<1>5. MarkedByAnswers /\ ComparedAsAWhole
  BY DEF MarkedByAnswers, ComparedAsAWhole
<1>6. QED
  BY <1>2, <1>3, <1>4, <1>5 DEF IInv

LEMMA StepWithoutGitNexus == IInv /\ WithoutGitNexus => IInv'
<1>. SUFFICES ASSUME IInv, WithoutGitNexus PROVE IInv'
  OBVIOUS
<1>. USE DEF WithoutGitNexus, Goto, clientVars
<1>1. Truthful' /\ MarkedByAnswers' /\ ComparedAsAWhole'
  BY Kept
<1>2. TypeOK'
  BY KeptType DEF IInv, TypeOK, Places
<1>3. Stages'
  BY DEF IInv, Stages, TypeOK
<1>4. Answered'
  BY DEF IInv, Answered
<1>5. QED
  BY <1>1, <1>2, <1>3, <1>4 DEF IInv

LEMMA StepLaunch == IInv /\ Launch => IInv'
<1>. SUFFICES ASSUME IInv, Launch PROVE IInv'
  OBVIOUS
<1>. USE DEF Launch, Goto, Spawn
<1>1. Truthful' /\ MarkedByAnswers' /\ ComparedAsAWhole'
  BY Kept
<1>2. TypeOK'
  BY KeptType DEF IInv, TypeOK, Places
<1>3. Stages'
  BY DEF IInv, Stages
<1>4. Answered'
  BY DEF IInv, Answered
<1>5. QED
  BY <1>1, <1>2, <1>3, <1>4 DEF IInv

(* A request is written: its number is among those of TypeOK. *)
LEMMA SendType ==
  ASSUME TypeOK, nextId <= QuestionCount, QuestionCount \in Nat, Send
  PROVE  nextId' \in 1 .. QuestionCount + 1 /\ unanswered' \subseteq 1 .. nextId'
  BY DEF TypeOK, Send

LEMMA StepSendInitialize == IInv /\ SendInitialize => IInv'
<1>. SUFFICES ASSUME IInv, SendInitialize PROVE IInv'
  OBVIOUS
<1>. USE DEF SendInitialize, Goto
<1>0. QuestionCount \in Nat
  BY QuestionType DEF IInv, TypeOK
<1>1. Truthful' /\ MarkedByAnswers' /\ ComparedAsAWhole'
  BY Kept
<1>a. nextId = 0 /\ nextId' = 1
  BY DEF IInv, Stages, Send
<1>2. TypeOK'
  <2>1. nextId' \in 1 .. QuestionCount + 1 /\ unanswered' \subseteq 1 .. nextId'
    BY <1>0, <1>a, SendType DEF IInv
  <2>2. QED
    BY <1>0, <2>1, KeptType DEF IInv, TypeOK, Places
<1>3. Stages'
  BY <1>a DEF IInv, Stages
<1>4. Answered'
  BY DEF IInv, Answered
<1>5. QED
  BY <1>1, <1>2, <1>3, <1>4 DEF IInv

LEMMA StepInitialized == IInv /\ Initialized => IInv'
<1>. SUFFICES ASSUME IInv, Initialized PROVE IInv'
  OBVIOUS
<1>. USE DEF Initialized
<1>1. Truthful' /\ MarkedByAnswers' /\ ComparedAsAWhole'
  BY Kept
<1>2. TypeOK'
  BY KeptType, TailType DEF IInv, TypeOK, Places
<1>3. Stages'
  BY DEF IInv, Stages
<1>4. Answered'
  BY DEF IInv, Answered
<1>5. QED
  BY <1>1, <1>2, <1>3, <1>4 DEF IInv

LEMMA StepNotInitialized == IInv /\ NotInitialized => IInv'
<1>. SUFFICES ASSUME IInv, NotInitialized PROVE IInv'
  OBVIOUS
<1>. USE DEF NotInitialized, Goto
<1>1. Truthful' /\ MarkedByAnswers' /\ ComparedAsAWhole'
  BY Kept
<1>a. lines' \in Seq(Line(QuestionCount + 1)) /\ Len(lines') <= MaxLines
  BY TailType DEF IInv, TypeOK
<1>2. TypeOK'
  BY <1>a, KeptType DEF IInv, TypeOK, Places
<1>3. Stages'
  BY DEF IInv, Stages
<1>4. Answered'
  BY DEF IInv, Answered
<1>5. QED
  BY <1>1, <1>2, <1>3, <1>4 DEF IInv

LEMMA StepSkipLine == IInv /\ SkipLine => IInv'
<1>. SUFFICES ASSUME IInv, SkipLine PROVE IInv'
  OBVIOUS
<1>. USE DEF SkipLine, commandVars
<1>1. Truthful' /\ MarkedByAnswers' /\ ComparedAsAWhole'
  BY Kept
<1>2. TypeOK'
  BY KeptType, TailType DEF IInv, TypeOK, Places
<1>3. Stages'
  BY DEF IInv, Stages
<1>4. Answered'
  BY SameQuestions DEF IInv, Answered
<1>5. QED
  BY <1>1, <1>2, <1>3, <1>4 DEF IInv

(* An exception ends the command from wherever it is. *)
LEMMA RaiseInv ==
  ASSUME IInv, Raise, pc # "ended", UNCHANGED <<server, unanswered, nextId>>,
         lines' \in Seq(Line(QuestionCount + 1)), Len(lines') <= MaxLines
  PROVE  IInv'
<1>. USE DEF Raise
<1>1. Truthful' /\ MarkedByAnswers' /\ ComparedAsAWhole'
  BY Kept
<1>2. TypeOK'
  BY KeptType DEF IInv, TypeOK, Places
<1>3. Stages' /\ Answered'
  BY DEF IInv, Stages, Answered
<1>4. QED
  BY <1>1, <1>2, <1>3 DEF IInv

LEMMA StepBreak == IInv /\ (BreakOnLine \/ BreakOnAnswer) => IInv'
  BY RaiseInv, TailType DEF IInv, BreakOnLine, BreakOnAnswer

LEMMA StepRefuse == IInv /\ Refuse => IInv'
<1>1. IInv => lines \in Seq(Line(QuestionCount + 1)) /\ Len(lines) <= MaxLines
  BY DEF IInv, TypeOK
<1>2. QED
  BY <1>1, RaiseInv DEF Refuse, clientVars

LEMMA StepLaunchFails == IInv /\ LaunchFails => IInv'
<1>1. IInv => lines \in Seq(Line(QuestionCount + 1)) /\ Len(lines) <= MaxLines
  BY DEF IInv, TypeOK
<1>2. QED
  BY <1>1, RaiseInv DEF LaunchFails, clientVars

LEMMA StepBuildList == IInv /\ BuildList => IInv'
<1>. SUFFICES ASSUME IInv, BuildList PROVE IInv'
  OBVIOUS
<1>. USE DEF BuildList, clientVars
<1>1. \A q \in paths' : Fresh(q)
  BY BuildPathsFresh
<1>2. status = "not_requested" /\ status' = "not_requested" /\ DOMAIN static = {}
  BY DEF IInv, Stages, Answered
<1>3. TypeOK'
  BY KeptType DEF IInv, TypeOK, Places
<1>4. Stages'
  BY DEF IInv, Stages
<1>5. Answered'
  <2>1. DOMAIN static' = {}
    BY <1>2
  <2>2. pc' = "ask" => nextId' = 1
    BY DEF IInv, Stages
  <2>3. {Question(i)' : i \in 1 .. 0} = {}
    OBVIOUS
  <2>4. QED
    BY <2>1, <2>2, <2>3 DEF Answered
<1>6. Truthful'
  BY DEF IInv, Truthful, Truth
<1>7. MarkedByAnswers'
  BY <1>1 DEF MarkedByAnswers, Fresh
<1>8. ComparedAsAWhole'
  BY <1>1, <1>2 DEF ComparedAsAWhole, Fresh
<1>9. QED
  BY <1>3, <1>4, <1>5, <1>6, <1>7, <1>8 DEF IInv

LEMMA StepAsk == IInv /\ Ask => IInv'
<1>. SUFFICES ASSUME IInv, Ask PROVE IInv'
  OBVIOUS
<1>. USE DEF Ask, Goto
<1>0. QuestionCount \in Nat /\ nextId \in Nat /\ nextId' = nextId + 1
  BY QuestionType DEF IInv, TypeOK, Send
<1>1. Truthful' /\ MarkedByAnswers' /\ ComparedAsAWhole'
  BY Kept
<1>2. TypeOK'
  <2>1. nextId' \in 1 .. QuestionCount + 1 /\ unanswered' \subseteq 1 .. nextId'
    BY <1>0, SendType DEF IInv
  <2>2. QED
    BY <1>0, <2>1, KeptType DEF IInv, TypeOK, Places
<1>3. Stages'
  BY <1>0 DEF IInv, Stages
<1>4. Answered'
  <2>1. DOMAIN static = {Question(i) : i \in 1 .. nextId - 1}
    BY DEF IInv, Answered
  <2>2. {Question(i) : i \in 1 .. nextId - 1} = {Question(i)' : i \in 1 .. nextId' - 2}
    BY <1>0, SameQuestions
  <2>3. QED
    BY <2>1, <2>2 DEF Answered
<1>5. QED
  BY <1>1, <1>2, <1>3, <1>4 DEF IInv

(* The line that matches answers the question that is out. *)
LEMMA StepLearn == IInv /\ Learn => IInv'
<1>. SUFFICES ASSUME IInv, Learn PROVE IInv'
  OBVIOUS
<1>. DEFINE Asked == Question(nextId - 1)
<1>0. /\ QuestionCount \in Nat /\ nextId \in Nat /\ nextId - 1 \in 1 .. QuestionCount
      /\ status = "not_requested" /\ status' = "not_requested" /\ pc' = "ask" /\ nextId' = nextId
  BY QuestionType DEF IInv, TypeOK, Stages, Learn
<1>1. Asked \in Questions /\ Truth(Asked) \in SUBSET Keys
  BY <1>0, QuestionType DEF IInv, TypeOK
<1>2. PICK reply \in {Truth(Asked), {}} :
        static' = [q \in DOMAIN static \cup {Asked} |-> IF q = Asked THEN reply ELSE static[q]]
  BY DEF Learn, Matches
<1>3. TypeOK'
  <2>1. static' \in [DOMAIN static' -> SUBSET Keys]
    BY <1>1, <1>2 DEF IInv, TypeOK
  <2>2. DOMAIN static' \subseteq Questions
    BY <1>1, <1>2 DEF IInv, TypeOK
  <2>3. lines' \in Seq(Line(QuestionCount + 1)) /\ Len(lines') <= MaxLines
    BY TailType DEF IInv, Learn
  <2>4. UNCHANGED <<server, unanswered, nextId, project, graph, paths, status, adopted, failed, document>>
    BY DEF Learn
  <2>5. QED
    BY <1>0, <2>1, <2>2, <2>3, <2>4, SameQuestions DEF IInv, TypeOK
<1>4. Stages'
  BY <1>0 DEF IInv, Stages, Learn
<1>5. Answered'
  <2>1. DOMAIN static' = {Question(i) : i \in 1 .. nextId - 2} \cup {Asked}
    BY <1>2 DEF IInv, Answered, Learn
  <2>2. DOMAIN static' = {Question(i) : i \in 1 .. nextId - 1}
    <3>1. 1 .. nextId - 1 = 1 .. nextId - 2 \cup {nextId - 1}
      BY <1>0
    <3>2. QED
      BY <2>1, <3>1
  <2>3. \A i : Question(i)' = Question(i)
    BY SameQuestions DEF Learn
  <2>4. QED
    BY <1>0, <2>2, <2>3 DEF Answered
<1>6. Truthful'
  BY <1>2 DEF IInv, Truthful, Truth, Learn
<1>7. paths' = paths /\ (\A q \in paths : q.mark = "none") /\ status' # "compared"
  BY <1>0 DEF IInv, ComparedAsAWhole, Learn
<1>8. MarkedByAnswers' /\ ComparedAsAWhole'
  BY <1>7 DEF IInv, MarkedByAnswers, ComparedAsAWhole, IsPath
<1>9. QED
  BY <1>3, <1>4, <1>5, <1>6, <1>8 DEF IInv

LEMMA StepUnavailable == IInv /\ Unavailable => IInv'
<1>. SUFFICES ASSUME IInv, Unavailable PROVE IInv'
  OBVIOUS
<1>. USE DEF Unavailable
<1>1. status = "not_requested" /\ \A q \in paths : q.mark = "none"
  BY DEF IInv, Stages, ComparedAsAWhole
<1>2. TypeOK'
  <2>1. lines' \in Seq(Line(QuestionCount + 1)) /\ Len(lines') <= MaxLines
    BY TailType DEF IInv, TypeOK
  <2>2. QED
    BY <2>1, SameQuestions DEF IInv, TypeOK
<1>3. Stages' /\ Answered'
  BY DEF IInv, Stages, Answered
<1>4. Truthful' /\ MarkedByAnswers'
  BY DEF IInv, Truthful, Truth, MarkedByAnswers, IsPath, Changed, Other
<1>5. ComparedAsAWhole'
  BY <1>1 DEF ComparedAsAWhole
<1>6. QED
  BY <1>2, <1>3, <1>4, <1>5 DEF IInv

LEMMA StepMark == IInv /\ Mark => IInv'
<1>. SUFFICES ASSUME IInv, Mark PROVE IInv'
  OBVIOUS
<1>. USE DEF Mark, clientVars
<1>1. \A q \in paths : Fresh(q)
  BY DEF IInv, Stages, ComparedAsAWhole, MarkedByAnswers, Fresh
<1>2. DOMAIN static = Questions
  <2>1. nextId = QuestionCount + 1 /\ QuestionCount \in Nat
    BY QuestionType DEF IInv, TypeOK
  <2>2. QED
    BY <2>1 DEF IInv, Answered, Questions
<1>3. \A r \in paths' :
        LET asked == <<Changed(r), r.direction>>
        IN /\ IsPath(r)
           /\ r.mark = "known" => asked \in DOMAIN static /\ Key[Other(r)] \in static[asked]
           /\ r.mark = "missed" => asked \in DOMAIN static /\ Key[Other(r)] \notin static[asked]
           /\ r.kind # "url" /\ asked \in DOMAIN static => r.mark # "none"
  BY <1>1, MarkedList
<1>4. TypeOK'
  BY SameQuestions DEF IInv, TypeOK
<1>5. Stages' /\ Answered'
  BY DEF IInv, Stages, Answered
<1>6. Truthful'
  BY DEF IInv, Truthful, Truth
<1>7. MarkedByAnswers'
  BY <1>3 DEF MarkedByAnswers, IsPath, Changed, Other
<1>8. ComparedAsAWhole'
  BY <1>2, <1>3, SameQuestions DEF ComparedAsAWhole, Changed
<1>9. QED
  BY <1>4, <1>5, <1>6, <1>7, <1>8 DEF IInv

LEMMA StepClose == IInv /\ Close => IInv'
<1>. SUFFICES ASSUME IInv, Close PROVE IInv'
  OBVIOUS
<1>. USE DEF Close, Kill, KillLate
<1>1. Truthful' /\ MarkedByAnswers' /\ ComparedAsAWhole'
  BY Kept
<1>2. TypeOK'
  <2>1. /\ server' \in {"none", "alive", "killed", "dead"} /\ unanswered' \subseteq 1 .. nextId'
        /\ failed' \in BOOLEAN /\ pc' \in Places
    BY DEF IInv, TypeOK, Places
  <2>2. QED
    BY <2>1, KeptType DEF IInv, TypeOK
<1>3. Stages' /\ Answered'
  BY DEF IInv, Stages, Answered
<1>4. QED
  BY <1>1, <1>2, <1>3 DEF IInv

LEMMA StepWriteDocument == IInv /\ WriteDocument => IInv'
<1>. SUFFICES ASSUME IInv, WriteDocument PROVE IInv'
  OBVIOUS
<1>. USE DEF WriteDocument, clientVars
<1>1. Truthful' /\ MarkedByAnswers' /\ ComparedAsAWhole'
  BY Kept
<1>2. TypeOK'
  BY KeptType DEF IInv, TypeOK, Places
<1>3. Stages' /\ Answered'
  BY DEF IInv, Stages, Answered
<1>4. QED
  BY <1>1, <1>2, <1>3 DEF IInv

(* A line that is written is one that may be read. *)
LEMMA WriteType ==
  ASSUME TypeOK, NEW line \in Line(QuestionCount + 1), Write(line)
  PROVE  lines' \in Seq(Line(QuestionCount + 1)) /\ Len(lines') <= MaxLines
<1>1. lines \in Seq(Line(QuestionCount + 1)) /\ Len(lines) < MaxLines /\ lines' = Append(lines, line)
  BY DEF TypeOK, Write
<1>2. lines' \in Seq(Line(QuestionCount + 1)) /\ Len(lines') = Len(lines) + 1 /\ Len(lines) \in Nat
  BY <1>1
<1>3. QED
  BY <1>1, <1>2, MaxLinesAssumption

(* The child lives when it takes a step, and its step is no step of the
   command. *)
LEMMA StepServer == IInv /\ Server => IInv'
<1>. SUFFICES ASSUME IInv, Server PROVE IInv'
  OBVIOUS
<1>0. QuestionCount \in Nat /\ nextId \in 0 .. QuestionCount + 1 /\ unanswered \subseteq 1 .. nextId
  BY QuestionType DEF IInv, TypeOK
<1>1. UNCHANGED commandVars
  BY DEF Server
<1>. DEFINE ChildStep == /\ server = "alive" /\ server' \in {"alive", "dead"} /\ nextId' = nextId
                         /\ unanswered' \subseteq unanswered
                         /\ lines' \in Seq(Line(QuestionCount + 1)) /\ Len(lines') <= MaxLines
<1>2. ChildStep
  <2>1. ASSUME NEW id \in unanswered, NEW form \in Forms, Answers(id, form)
        PROVE  ChildStep
    <3>1. Answer(id, form) \in Line(QuestionCount + 1)
      BY <1>0 DEF Answer, Line
    <3>2. QED
      BY <2>1, <3>1, WriteType DEF IInv, Answers, Write
  <2>2. ASSUME NEW kind \in NoiseKinds, NEW id \in 0 .. QuestionCount + 1, Chatters(kind, id)
        PROVE  ChildStep
    <3>1. Noise(kind, id) \in Line(QuestionCount + 1)
      BY DEF Noise, Line, Forms
    <3>2. QED
      BY <2>2, <3>1, WriteType DEF IInv, Chatters, Write
  <2>3. CASE Dies
    BY <2>3 DEF IInv, TypeOK, Dies, Kill
  <2>4. QED
    BY <2>1, <2>2, <2>3 DEF Server, ServerStep, Chatter
<1>3. Truthful' /\ MarkedByAnswers' /\ ComparedAsAWhole'
  BY <1>1, Kept DEF commandVars
<1>4. TypeOK'
  BY <1>0, <1>1, <1>2, KeptType DEF IInv, TypeOK, commandVars, Places
<1>5. Stages'
  BY <1>1, <1>2 DEF IInv, Stages, commandVars
<1>6. Answered'
  BY <1>1, <1>2, SameQuestions DEF IInv, Answered, commandVars
<1>7. QED
  BY <1>3, <1>4, <1>5, <1>6 DEF IInv

LEMMA StutterInv == IInv /\ UNCHANGED vars => IInv'
<1>. SUFFICES ASSUME IInv, UNCHANGED vars PROVE IInv'
  OBVIOUS
<1>. USE DEF vars, clientVars, commandVars
<1>1. Truthful' /\ MarkedByAnswers' /\ ComparedAsAWhole'
  BY Kept
<1>2. TypeOK'
  BY KeptType DEF IInv, TypeOK, Places
<1>3. Stages'
  BY DEF IInv, Stages
<1>4. Answered'
  BY SameQuestions DEF IInv, Answered
<1>5. QED
  BY <1>1, <1>2, <1>3, <1>4 DEF IInv

(* The invariant is inductive. *)
LEMMA Invariance == Spec => []IInv
<1>1. IInv /\ [Next]_vars => IInv'
  BY StepWithoutGitNexus, StepLaunch, StepLaunchFails, StepSendInitialize, StepInitialized, StepNotInitialized, StepSkipLine,
     StepBreak, StepRefuse, StepBuildList, StepAsk, StepLearn, StepUnavailable, StepMark, StepClose,
     StepWriteDocument, StepServer, StutterInv DEF Next, Command
<1>2. QED
  BY <1>1, InitInv, PTL DEF Spec

-----------------------------------------------------------------------------
(* Theorems *)

(* Whatever the child writes and whenever it dies, the command asks no
   question twice and none beyond the limit, and counts its requests right. *)
THEOREM TypeCorrect == Spec => []TypeOK
<1>1. IInv => TypeOK
  BY DEF IInv
<1>2. QED
  BY <1>1, Invariance, PTL

(* No path is marked unless every question was answered, and then every path
   of a function that was asked about is. *)
THEOREM ComparisonIsWhole == Spec => []ComparedAsAWhole
<1>1. IInv => ComparedAsAWhole
  BY DEF IInv
<1>2. QED
  BY <1>1, Invariance, PTL

(* A path's mark is what the graph holds: no line is taken for the answer to
   another question. *)
THEOREM MarksAreRight == Spec => []MarksTellTheGraph
<1>1. IInv => MarksTellTheGraph
  <2>. SUFFICES ASSUME IInv, NEW q \in paths
       PROVE  LET asked == <<Changed(q), q.direction>>
              IN /\ q.mark = "known" => Key[Other(q)] \in Truth(asked)
                 /\ q.mark = "missed" => Key[Other(q)] \notin Truth(asked) \/ static[asked] = {}
    BY DEF MarksTellTheGraph
  <2>. DEFINE asked == <<Changed(q), q.direction>>
  <2>1. /\ q.mark = "known" => asked \in DOMAIN static /\ Key[Other(q)] \in static[asked]
        /\ q.mark = "missed" => asked \in DOMAIN static /\ Key[Other(q)] \notin static[asked]
    BY DEF IInv, MarkedByAnswers
  <2>2. asked \in DOMAIN static => static[asked] \in {Truth(asked), {}}
    BY DEF IInv, Truthful
  <2>3. QED
    BY <2>1, <2>2
<1>2. QED
  BY <1>1, Invariance, PTL

(* The child of an accepted conversation is dead when the command has ended, or
   killed and the command has failed. *)
THEOREM ChildIsEnded == Spec => []AdoptedChildEnds
<1>1. IInv => AdoptedChildEnds
  BY DEF IInv, Stages, AdoptedChildEnds
<1>2. QED
  BY <1>1, Invariance, PTL

-----------------------------------------------------------------------------
(* Refinement *)

Verdict == IF status = "not_requested" THEN "open" ELSE status
Answers0 == [q \in Questions |-> Truth(q)]

(* The answer to a question is an abstract answer to that question. *)
LEMMA LearnLearns == IInv /\ Learn => Comparison!Learn(Question(nextId - 1)) /\ Question(nextId - 1) \in Questions
<1>. SUFFICES ASSUME IInv, Learn
     PROVE  Comparison!Learn(Question(nextId - 1)) /\ Question(nextId - 1) \in Questions
  OBVIOUS
<1>. DEFINE Asked == Question(nextId - 1)
<1>1. nextId - 1 \in 1 .. QuestionCount /\ status = "not_requested"
  BY QuestionType DEF IInv, TypeOK, Stages, Learn
<1>2. Asked \in Questions
  BY <1>1 DEF Questions
<1>3. PICK reply \in {Truth(Asked), {}} :
        static' = [q \in DOMAIN static \cup {Asked} |-> IF q = Asked THEN reply ELSE static[q]]
  BY DEF Learn, Matches
<1>4. Answers0' = Answers0
  BY SameQuestions DEF Learn, Answers0
<1>5. Verdict = "open" /\ Verdict' = Verdict
  BY <1>1 DEF Verdict, Learn
<1>6. QED
  BY <1>2, <1>3, <1>4, <1>5 DEF Comparison!Learn, Answers0, Verdict

(* Every other step of the command compares, gives up, or tells nothing of
   the comparison. *)
LEMMA StepRefines == IInv /\ [Next]_vars => [Comparison!Next]_(Comparison!cvars)
<1>. SUFFICES ASSUME IInv, [Next]_vars PROVE [Comparison!Next]_(Comparison!cvars)
  OBVIOUS
<1>1. CASE Learn
  <2>1. DOMAIN Answers0 = Questions
    BY DEF Answers0
  <2>2. QED
    BY <1>1, <2>1, LearnLearns DEF Comparison!Next, Answers0
<1>2. CASE Mark
  <2>1. DOMAIN static = Questions
    <3>1. nextId = QuestionCount + 1 /\ QuestionCount \in Nat
      BY <1>2, QuestionType DEF IInv, TypeOK, Mark
    <3>2. QED
      BY <1>2, <3>1 DEF IInv, Answered, Questions, Mark
  <2>2. Answers0' = Answers0
    BY <1>2, SameQuestions DEF Mark, Answers0
  <2>3. status = "not_requested"
    BY <1>2 DEF IInv, Stages, Mark
  <2>4. QED
    BY <1>2, <2>1, <2>2, <2>3 DEF Comparison!Next, Comparison!Compare, Answers0, Mark
<1>3. CASE Unavailable
  <2>1. Answers0' = Answers0
    BY <1>3, SameQuestions DEF Unavailable, Answers0
  <2>2. status = "not_requested"
    BY <1>3 DEF IInv, Stages, Unavailable
  <2>3. QED
    BY <1>3, <2>1, <2>2 DEF Comparison!Next, Comparison!GiveUp, Answers0, Unavailable
<1>4. CASE UNCHANGED <<project, graph, static, status>>
  <2>1. Answers0' = Answers0
    BY <1>4, SameQuestions DEF Answers0
  <2>2. QED
    BY <1>4, <2>1 DEF Comparison!cvars, Answers0
<1>5. Learn \/ Mark \/ Unavailable \/ UNCHANGED <<project, graph, static, status>>
  BY DEF Next, Command, Server, vars, commandVars, WithoutGitNexus, Launch, LaunchFails, SendInitialize, Initialized,
         NotInitialized, SkipLine, BreakOnLine, Refuse, BuildList, Ask, BreakOnAnswer, Close, WriteDocument,
         Goto, Raise
<1>6. QED
  BY <1>1, <1>2, <1>3, <1>4, <1>5

(* The conversation implements the comparison: late, refused, foreign and
   broken lines included. *)
THEOREM Refines == Spec => ImplementsComparison
<1>1. Init => Comparison!Init
  BY DEF Init, Comparison!Init
<1>2. QED
  BY <1>1, StepRefines, Invariance, PTL DEF Spec, ImplementsComparison, Comparison!Spec

-----------------------------------------------------------------------------
(* What the traced tests showed *)

RuntimeKinds == {"runtime_caller", "runtime_callee"}

(* A path as it is collected. *)
Made(q) == q.confirmed = FALSE /\ (q.origin = "runtime" <=> q.kind \in RuntimeKinds)

\* Items that the files of a project list.
HasFiniteLists(p) ==
  /\ p.changed \in Seq(DOMAIN Key)
  /\ IsFiniteSet(p.references) /\ IsFiniteSet(p.signals) /\ IsFiniteSet(p.urls) /\ IsFiniteSet(p.fields)
  /\ IsFiniteSet(AllCallers(p)) /\ IsFiniteSet(AllCallees(p))

(* A function of finitely many arguments has finitely many values. *)
LEMMA ValuesAreFinite ==
  ASSUME NEW f, IsFiniteSet(DOMAIN f)
  PROVE  IsFiniteSet(Range(f))
<1> DEFINE g == [x \in DOMAIN f |-> f[x]]
<1>1. g \in Surjection(DOMAIN f, Range(f))
  BY DEF Surjection, Range
<1> QED BY <1>1, FS_Surjection

(* The traces of all shards together are finitely many. *)
LEMMA TracesAreFinite ==
  ASSUME project \in Projects
  PROVE  IsFiniteSet(AllCallers(project)) /\ IsFiniteSet(AllCallees(project))
<1> DEFINE T == Range(project.traces)
           callers == [t \in T |-> t.callers]
           callees == [t \in T |-> t.callees]
<1>1. IsFiniteSet(T) /\ \A t \in T : IsFiniteSet(t.callers) /\ IsFiniteSet(t.callees)
  BY ProjectsAssumption
<1> HIDE DEF T
<1>2. Range(callers) = {t.callers : t \in T} /\ Range(callees) = {t.callees : t \in T}
  BY DEF Range
<1>3. IsFiniteSet(Range(callers)) /\ IsFiniteSet(Range(callees))
  BY <1>1, ValuesAreFinite
<1>4. /\ \A s \in Range(callers) : IsFiniteSet(s)
      /\ \A s \in Range(callees) : IsFiniteSet(s)
  BY <1>1, <1>2
<1> HIDE DEF callers, callees
<1>5. IsFiniteSet(UNION Range(callers)) /\ IsFiniteSet(UNION Range(callees))
  BY <1>3, <1>4, FS_UNION
<1> QED BY <1>2, <1>5 DEF AllCallers, AllCallees, T

(* Without the Django structure a project keeps its functions and its traces. *)
LEMMA ExtractedProject ==
  ASSUME project \in Projects, NEW django \in BOOLEAN
  PROVE  /\ HasFiniteLists(Extracted(django))
         /\ Extracted(django).changed = project.changed /\ Extracted(django).traces = project.traces
<1>1. /\ {"changed", "references", "signals", "urls", "fields", "traces"} \subseteq DOMAIN project
      /\ project.changed \in Seq(DOMAIN Key)
      /\ IsFiniteSet(project.references) /\ IsFiniteSet(project.signals) /\ IsFiniteSet(project.urls)
      /\ IsFiniteSet(project.fields)
  BY ProjectsAssumption
<1>2. IsFiniteSet({})
  BY FS_EmptySet
<1>3. CASE django
  BY <1>1, <1>3, TracesAreFinite DEF Extracted, HasFiniteLists
<1>4. CASE ~django
  <2> DEFINE p == Extracted(django)
  <2>1. /\ p.changed = project.changed /\ p.traces = project.traces
        /\ p.references = {} /\ p.signals = {} /\ p.urls = {} /\ p.fields = {}
    BY <1>1, <1>4 DEF Extracted
  <2> HIDE DEF p
  <2>2. AllCallers(p) = AllCallers(project) /\ AllCallees(p) = AllCallees(project)
    BY <2>1 DEF AllCallers, AllCallees
  <2>3. HasFiniteLists(p)
    BY <1>1, <1>2, <2>1, <2>2, TracesAreFinite DEF HasFiniteLists
  <2> QED BY <2>1, <2>3 DEF p
<1> QED BY <1>3, <1>4

(* What a changed function adds: made by Path, finitely many, and the runtime
   edges are those of the traces. *)
LEMMA AddsMade ==
  ASSUME NEW p, NEW callers, NEW i, NEW q \in Adds(p, callers, i)
  PROVE  Made(q) /\ (q.origin = "runtime" => q \in CallerPaths(callers, p.changed[i]) \cup CalleePaths(p, p.changed[i]))
<1> DEFINE f == p.changed[i]
<1>1. q \in SignalPaths(p, f) \cup FieldPaths(p, f) \cup TriggerPaths(p, f) \cup UrlPaths(p, f)
            \cup CallerPaths(callers, f) \cup CalleePaths(p, f)
  BY DEF Adds
<1>2. CASE q \in SignalPaths(p, f)
  <2>1. PICK w \in Writes(p, f) : q \in
          {Path("signal", f, s.receiver, <<w.model, s.signal>>, "django", "downstream") :
             s \in {x \in p.signals : x.sender \in {w.model, NoSender} /\ x.ofModels}}
    BY <1>2 DEF SignalPaths
  <2> QED BY <2>1 DEF Path, Made, RuntimeKinds
<1>3. CASE q \in FieldPaths(p, f)
  BY <1>3 DEF FieldPaths, Path, Made, RuntimeKinds
<1>4. CASE q \in TriggerPaths(p, f)
  <2>1. PICK s \in {x \in p.signals : x.receiver = f} : q \in
          {Path("signal", w.function, f, <<w.model, s.signal>>, "django", "upstream") :
             w \in {x \in p.references : x.model = s.sender /\ x.access = "write"}}
    BY <1>4 DEF TriggerPaths
  <2> QED BY <2>1 DEF Path, Made, RuntimeKinds
<1>5. CASE q \in UrlPaths(p, f)
  BY <1>5 DEF UrlPaths, Path, Made, RuntimeKinds
<1>6. CASE q \in CallerPaths(callers, f) \cup CalleePaths(p, f)
  BY <1>6 DEF CallerPaths, CalleePaths, Path, Made, RuntimeKinds
<1> QED BY <1>1, <1>2, <1>3, <1>4, <1>5, <1>6

(* What changed definitions add is no runtime edge. *)
LEMMA DefinitionsMade ==
  ASSUME NEW p, NEW q \in DefinitionPaths(p)
  PROVE  Made(q) /\ q.origin # "runtime"
<1>1. PICK d \in p.fields : q \in
        {Path("orm_field", d.symbol, r.function, <<d.symbol, r.access>>, "orm", "downstream") :
           r \in {x \in p.references : x.model = d.model /\ x.field = d.field}}
  BY DEF DefinitionPaths
<1> QED BY <1>1 DEF Path, Made, RuntimeKinds

(* A changed function adds finitely many paths. *)
LEMMA AddsFinite ==
  ASSUME NEW p, HasFiniteLists(p), NEW callers \in SUBSET AllCallers(p), NEW i
  PROVE  IsFiniteSet(Adds(p, callers, i))
<1> DEFINE f == p.changed[i]
           pairs == p.references \X p.signals
           viaSignal == [x \in pairs |-> Path("signal", f, x[2].receiver, <<x[1].model, x[2].signal>>, "django", "downstream")]
           viaField == [r \in p.references |-> Path("orm_field", f, r.function, <<r.model, r.field, r.access>>, "orm", "downstream")]
           viaTrigger == [x \in pairs |-> Path("signal", x[1].function, f, <<x[1].model, x[2].signal>>, "django", "upstream")]
           viaUrl == [u \in p.urls |-> Path("url", u.route, f, <<>>, "django", "upstream")]
           viaCaller == [c \in AllCallers(p) |-> Path("runtime_caller", c.chain[1], f, <<c.chain[Len(c.chain)]>>, "runtime", "upstream")]
           viaCallee == [c \in AllCallees(p) |-> Path("runtime_callee", f, c.callee, <<>>, "runtime", "downstream")]
<1>1. IsFiniteSet(pairs)
  BY FS_Product DEF HasFiniteLists
<1>2. IsFiniteSet(Range(viaSignal)) /\ IsFiniteSet(Range(viaTrigger))
  <2> HIDE DEF pairs
  <2> QED BY <1>1, ValuesAreFinite
<1>3. IsFiniteSet(Range(viaField)) /\ IsFiniteSet(Range(viaUrl)) /\ IsFiniteSet(Range(viaCaller)) /\ IsFiniteSet(Range(viaCallee))
  BY ValuesAreFinite DEF HasFiniteLists
<1>4. SignalPaths(p, f) \subseteq Range(viaSignal)
  <2> SUFFICES ASSUME NEW q \in SignalPaths(p, f) PROVE q \in Range(viaSignal)
    OBVIOUS
  <2>1. PICK w \in Writes(p, f) : q \in
          {Path("signal", f, s.receiver, <<w.model, s.signal>>, "django", "downstream") :
             s \in {x \in p.signals : x.sender \in {w.model, NoSender} /\ x.ofModels}}
    BY DEF SignalPaths
  <2>2. PICK s \in p.signals : q = Path("signal", f, s.receiver, <<w.model, s.signal>>, "django", "downstream")
    BY <2>1
  <2>3. <<w, s>> \in pairs /\ viaSignal[<<w, s>>] = q
    BY <2>2 DEF Writes
  <2> QED BY <2>3 DEF Range
<1>5. TriggerPaths(p, f) \subseteq Range(viaTrigger)
  <2> SUFFICES ASSUME NEW q \in TriggerPaths(p, f) PROVE q \in Range(viaTrigger)
    OBVIOUS
  <2>1. PICK s \in {x \in p.signals : x.receiver = f} : q \in
          {Path("signal", w.function, f, <<w.model, s.signal>>, "django", "upstream") :
             w \in {x \in p.references : x.model = s.sender /\ x.access = "write"}}
    BY DEF TriggerPaths
  <2>2. PICK w \in p.references : q = Path("signal", w.function, f, <<w.model, s.signal>>, "django", "upstream")
    BY <2>1
  <2>3. <<w, s>> \in pairs /\ viaTrigger[<<w, s>>] = q
    BY <2>2
  <2> QED BY <2>3 DEF Range
<1>6. FieldPaths(p, f) \subseteq Range(viaField) /\ UrlPaths(p, f) \subseteq Range(viaUrl)
  BY DEF FieldPaths, UrlPaths, Range
<1>7. CallerPaths(callers, f) \subseteq Range(viaCaller) /\ CalleePaths(p, f) \subseteq Range(viaCallee)
  BY DEF CallerPaths, CalleePaths, Range
<1> DEFINE all == Range(viaSignal) \cup Range(viaField) \cup Range(viaTrigger) \cup Range(viaUrl)
                    \cup Range(viaCaller) \cup Range(viaCallee)
<1>8. Adds(p, callers, i) \subseteq all
  <2> HIDE DEF viaSignal, viaField, viaTrigger, viaUrl, viaCaller, viaCallee
  <2> QED BY <1>4, <1>5, <1>6, <1>7 DEF Adds
<1>9. IsFiniteSet(all)
  <2> HIDE DEF viaSignal, viaField, viaTrigger, viaUrl, viaCaller, viaCallee
  <2> QED BY <1>2, <1>3, FS_Union
<1> HIDE DEF all
<1> QED BY <1>8, <1>9, FS_Subset


(* Everything that is collected. *)
LEMMA CollectedMade ==
  ASSUME NEW p, NEW callers, NEW q \in Collected(p, callers)
  PROVE  /\ Made(q)
         /\ q.origin = "runtime" => \E f \in Range(p.changed) : q \in CallerPaths(callers, f) \cup CalleePaths(p, f)
<1>1. CASE q \in DefinitionPaths(p)
  BY <1>1, DefinitionsMade
<1>2. CASE q \notin DefinitionPaths(p)
  <2>1. PICK i \in DOMAIN p.changed : q \in
          {x \in Adds(p, callers, i) : \A j \in 1 .. i - 1 : \A r \in Adds(p, callers, j) : ~SameEntry(x, r)}
    BY <1>2 DEF Collected
  <2>2. q \in Adds(p, callers, i)
    BY <2>1
  <2>3. Made(q)
    BY <2>2, AddsMade
  <2>4. q.origin = "runtime" => q \in CallerPaths(callers, p.changed[i]) \cup CalleePaths(p, p.changed[i])
    BY <2>2, AddsMade
  <2>5. p.changed[i] \in Range(p.changed)
    BY <2>1 DEF Range
  <2> QED BY <2>3, <2>4, <2>5
<1> QED BY <1>1, <1>2

(* All functions and definitions together do. *)
LEMMA CollectedFinite ==
  ASSUME NEW p, HasFiniteLists(p), NEW callers \in SUBSET AllCallers(p)
  PROVE  IsFiniteSet(Collected(p, callers))
<1> DEFINE I == DOMAIN p.changed
           adds == [i \in I |-> Adds(p, callers, i)]
           pairs == p.references \X p.fields
           viaDefinition ==
             [x \in pairs |-> Path("orm_field", x[2].symbol, x[1].function, <<x[2].symbol, x[1].access>>, "orm", "downstream")]
<1>1. IsFiniteSet(I)
  <2>1. I = 1 .. Len(p.changed) /\ Len(p.changed) \in Nat
    BY LenProperties DEF HasFiniteLists
  <2>2. 1 \in Int /\ Len(p.changed) \in Int
    BY <2>1
  <2>3. IsFiniteSet(1 .. Len(p.changed))
    BY <2>2, FS_Interval, Zenon
  <2> QED BY <2>1, <2>3
<1>2. IsFiniteSet(Range(adds))
  <2> HIDE DEF I
  <2> QED BY <1>1, ValuesAreFinite
<1>3. \A s \in Range(adds) : IsFiniteSet(s)
  BY AddsFinite DEF Range
<1>4. IsFiniteSet(UNION Range(adds))
  <2> HIDE DEF adds
  <2> QED BY <1>2, <1>3, FS_UNION
<1>5. IsFiniteSet(pairs)
  BY FS_Product DEF HasFiniteLists
<1>6. IsFiniteSet(Range(viaDefinition))
  <2> HIDE DEF pairs
  <2> QED BY <1>5, ValuesAreFinite
<1>7. DefinitionPaths(p) \subseteq Range(viaDefinition)
  <2> SUFFICES ASSUME NEW q \in DefinitionPaths(p) PROVE q \in Range(viaDefinition)
    OBVIOUS
  <2>1. PICK d \in p.fields : q \in
          {Path("orm_field", d.symbol, r.function, <<d.symbol, r.access>>, "orm", "downstream") :
             r \in {x \in p.references : x.model = d.model /\ x.field = d.field}}
    BY DEF DefinitionPaths
  <2>2. PICK r \in p.references : q = Path("orm_field", d.symbol, r.function, <<d.symbol, r.access>>, "orm", "downstream")
    BY <2>1
  <2>3. <<r, d>> \in pairs /\ viaDefinition[<<r, d>>] = q
    BY <2>2
  <2> QED BY <2>3 DEF Range
<1>8. Collected(p, callers) \subseteq (UNION Range(adds)) \cup Range(viaDefinition)
  <2> HIDE DEF viaDefinition
  <2> SUFFICES ASSUME NEW q \in Collected(p, callers), q \notin DefinitionPaths(p) PROVE q \in UNION Range(adds)
    BY <1>7
  <2>1. PICK i \in I : q \in
          {x \in Adds(p, callers, i) : \A j \in 1 .. i - 1 : \A r \in Adds(p, callers, j) : ~SameEntry(x, r)}
    BY DEF Collected
  <2>2. q \in adds[i] /\ adds[i] \in Range(adds)
    BY <2>1 DEF Range
  <2> QED BY <2>2
<1> HIDE DEF adds, viaDefinition
<1>9. IsFiniteSet((UNION Range(adds)) \cup Range(viaDefinition))
  BY <1>4, <1>6, FS_Union
<1> QED BY <1>8, <1>9, FS_Subset

(* Of the changed functions that add one entry, the first one's stays. *)
LEMMA FirstAdderStays ==
  ASSUME NEW p, p.changed \in Seq(DOMAIN Key), NEW callers, NEW k \in DOMAIN p.changed, NEW q \in Adds(p, callers, k)
  PROVE  \E r \in Collected(p, callers) : SameEntry(r, q)
<1> DEFINE N == 1 .. Len(p.changed)
           adders == {i \in N : \E r \in Adds(p, callers, i) : SameEntry(r, q)}
           T == {1 .. i : i \in adders}
<1>1. N = DOMAIN p.changed /\ Len(p.changed) \in Nat
  BY LenProperties
<1>2. IsFiniteSet(N)
  <2>1. 1 \in Int /\ Len(p.changed) \in Int
    BY <1>1
  <2> QED BY <2>1, FS_Interval, Zenon
<1>3. k \in adders
  BY <1>1 DEF SameEntry
<1>4. T \subseteq FiniteSubsetsOf(N)
  <2>1. T \subseteq SUBSET N
    BY <1>1
  <2>2. SUBSET N = FiniteSubsetsOf(N)
    BY <1>2, FS_FiniteSubsetsOfFinite
  <2> QED BY <2>1, <2>2
<1>5. T # {}
  BY <1>3
<1>6. PICK X \in T : \A Y \in T : <<Y, X>> \notin StrictSubsetOrdering(N)
  <2> HIDE DEF T, N
  <2> QED BY <1>4, <1>5, FS_StrictSubsetOrderingWellFounded, WFMin
<1>7. PICK i \in adders : X = 1 .. i
  OBVIOUS
<1>8. \A j \in 1 .. i - 1 : j \notin adders
  <2> SUFFICES ASSUME NEW j \in 1 .. i - 1, j \in adders PROVE FALSE
    OBVIOUS
  <2>1. 1 .. j \in T /\ 1 .. j \subseteq N /\ 1 .. i \subseteq N
    BY <1>1
  <2>2. 1 .. j \subseteq 1 .. i /\ i \in 1 .. i /\ i \notin 1 .. j
    BY <1>1
  <2>3. 1 .. j # 1 .. i
    BY <2>2
  <2>4. <<1 .. j, 1 .. i>> \in StrictSubsetOrdering(N)
    BY <2>1, <2>2, <2>3 DEF StrictSubsetOrdering
  <2> QED BY <1>6, <1>7, <2>1, <2>4
<1>9. PICK r \in Adds(p, callers, i) : SameEntry(r, q)
  OBVIOUS
<1>10. \A j \in 1 .. i - 1 : \A s \in Adds(p, callers, j) : ~SameEntry(r, s)
  <2> SUFFICES ASSUME NEW j \in 1 .. i - 1, NEW s \in Adds(p, callers, j), SameEntry(r, s) PROVE FALSE
    OBVIOUS
  <2>1. SameEntry(s, q) /\ j \in N
    BY <1>1, <1>9 DEF SameEntry
  <2> QED BY <1>8, <2>1
<1>11. r \in Collected(p, callers)
  <2>1. r \in {x \in Adds(p, callers, i) : \A j \in 1 .. i - 1 : \A s \in Adds(p, callers, j) : ~SameEntry(x, s)}
    BY <1>9, <1>10
  <2>2. i \in DOMAIN p.changed
    BY <1>1
  <2> QED BY <2>1, <2>2 DEF Collected
<1> QED BY <1>9, <1>11

(* Confirming a path leaves its ends and its origin. *)
LEMMA ConfirmedPath ==
  ASSUME NEW q, Fresh(q)
  PROVE  LET c == [q EXCEPT !.confirmed = TRUE]
         IN c.confirmed = TRUE /\ SameEnds(c, q) /\ c.origin = q.origin
<1>1. \A v : LET c == [q EXCEPT !.confirmed = v]
             IN c = [kind |-> q.kind, source |-> q.source, target |-> q.target, detail |-> q.detail,
                     origin |-> q.origin, direction |-> q.direction, confirmed |-> v, mark |-> "none"]
  BY DEF Fresh, IsPath
<1>2. \A v : LET c == [q EXCEPT !.confirmed = v]
             IN c.confirmed = v /\ c.source = q.source /\ c.target = q.target /\ c.origin = q.origin
  BY <1>1
<1> QED BY <1>2 DEF SameEnds

(* Folding the runtime edges into the others: a runtime edge that is left has
   no other with its ends, a confirmed path has a runtime edge with its ends,
   and each runtime edge is left or confirms one. *)
LEMMA MergedOnce ==
  ASSUME NEW ps, \A x \in ps : Fresh(x) /\ Made(x)
  PROVE  /\ \A q \in Merged(ps) : q.origin = "runtime" =>
                ~q.confirmed /\ \A s \in ps : s.origin # "runtime" => ~SameEnds(s, q)
         /\ \A q \in Merged(ps) : q.confirmed =>
                /\ \E s \in ps : s.origin # "runtime" /\ SameEnds(s, q)
                /\ \E r \in ps : r.origin = "runtime" /\ SameEnds(r, q)
         /\ \A r \in ps : r.origin = "runtime" =>
                \E q \in Merged(ps) : SameEnds(q, r) /\ (q.origin = "runtime" \/ q.confirmed)
         /\ IsFiniteSet(ps) => IsFiniteSet(Merged(ps))
<1> DEFINE Structural == {q \in ps : q.origin # "runtime"}
           Repeats(r) == {q \in Structural : SameEnds(q, r)}
           Runtime == ps \ Structural
           Confirmed == {(CHOOSE q \in Repeats(r) : TRUE) : r \in {x \in Runtime : Repeats(x) # {}}}
           mark == [q \in Confirmed |-> [q EXCEPT !.confirmed = TRUE]]
           Alone == {r \in Runtime : Repeats(r) = {}}
<1>1. Merged(ps) = (Structural \ Confirmed) \cup {[q EXCEPT !.confirmed = TRUE] : q \in Confirmed} \cup Alone
  BY DEF Merged
<1>2. \A q \in Confirmed : q \in Structural /\ \E r \in Runtime : SameEnds(r, q)
  BY DEF SameEnds
<1>3. \A q \in ps : LET c == [q EXCEPT !.confirmed = TRUE]
                    IN c.confirmed = TRUE /\ SameEnds(c, q) /\ c.origin = q.origin
  BY ConfirmedPath
<1>4. \A q \in ps : ~q.confirmed
  BY DEF Made
<1>5. \A r \in Runtime : Repeats(r) # {} => (CHOOSE q \in Repeats(r) : TRUE) \in Repeats(r) /\ (CHOOSE q \in Repeats(r) : TRUE) \in Confirmed
  OBVIOUS
<1>6. \A q \in Merged(ps) : q.origin = "runtime" => q \in Alone
  <2> SUFFICES ASSUME NEW q \in Merged(ps), q.origin = "runtime", q \notin Alone PROVE FALSE
    OBVIOUS
  <2>1. q \notin Structural
    OBVIOUS
  <2>2. PICK x \in Confirmed : q = [x EXCEPT !.confirmed = TRUE]
    BY <1>1, <2>1
  <2>3. x \in Structural /\ q.origin = x.origin
    BY <1>2, <1>3, <2>2
  <2> QED BY <2>3
<1>7. \A q \in Merged(ps) : q.confirmed => \E s \in Confirmed : SameEnds(q, s)
  BY <1>1, <1>2, <1>3, <1>4
<1>8. \A q \in Merged(ps) : q.origin = "runtime" =>
         ~q.confirmed /\ \A s \in ps : s.origin # "runtime" => ~SameEnds(s, q)
  BY <1>4, <1>6
<1>9. \A q \in Merged(ps) : q.confirmed =>
         /\ \E s \in ps : s.origin # "runtime" /\ SameEnds(s, q)
         /\ \E r \in ps : r.origin = "runtime" /\ SameEnds(r, q)
  BY <1>2, <1>7 DEF SameEnds
<1>10. ASSUME NEW r \in ps, r.origin = "runtime"
       PROVE  \E q \in Merged(ps) : SameEnds(q, r) /\ (q.origin = "runtime" \/ q.confirmed)
  <2>1. CASE Repeats(r) = {}
    <3>1. r \in Merged(ps)
      BY <1>1, <1>10, <2>1
    <3> QED BY <1>10, <3>1 DEF SameEnds
  <2>2. CASE Repeats(r) # {}
    <3>1. PICK q \in Confirmed : SameEnds(q, r)
      BY <1>5, <1>10, <2>2
    <3>2. [q EXCEPT !.confirmed = TRUE] \in Merged(ps)
      BY <1>1
    <3>3. q \in ps
      BY <1>2
    <3> QED BY <1>3, <3>1, <3>2, <3>3 DEF SameEnds
  <2> QED BY <2>1, <2>2
<1>11. ASSUME IsFiniteSet(ps) PROVE IsFiniteSet(Merged(ps))
  <2>1. Confirmed \subseteq ps /\ Structural \ Confirmed \subseteq ps /\ Alone \subseteq ps
    BY <1>2
  <2>2. Range(mark) = {[q EXCEPT !.confirmed = TRUE] : q \in Confirmed} /\ DOMAIN mark = Confirmed
    BY DEF Range
  <2> HIDE DEF Structural, Confirmed, Alone, mark
  <2>3. IsFiniteSet(Confirmed) /\ IsFiniteSet(Structural \ Confirmed) /\ IsFiniteSet(Alone)
    BY <1>11, <2>1, FS_Subset
  <2>4. IsFiniteSet(Range(mark))
    BY <2>2, <2>3, ValuesAreFinite
  <2>5. IsFiniteSet((Structural \ Confirmed) \cup Range(mark) \cup Alone)
    BY <2>3, <2>4, FS_Union
  <2> QED BY <1>1, <2>2, <2>5
<1> QED BY <1>8, <1>9, <1>10, <1>11


\* The runtime edges and the confirmed paths of a list that tell an observed call.
OwnPaths(ps, call) == {q \in ps : <<q.source, q.target>> = call /\ q.origin = "runtime"}
ConfirmedPaths(ps, call) == {q \in ps : <<q.source, q.target>> = call /\ q.confirmed}

LeftOut(ps, call) == Cardinality(ps) = MaxPaths \/ Cardinality(ChainsOf(project, call[2])) > MaxChains

ToldOnce(ps) ==
  /\ IsFiniteSet(ps)
  /\ \A call \in Observed : call[1] # call[2] =>
       /\ OwnPaths(ps, call) = {} \/ ConfirmedPaths(ps, call) = {}
       /\ OwnPaths(ps, call) = {} /\ ConfirmedPaths(ps, call) = {} => LeftOut(ps, call)

OnlyObserved(ps) == \A q \in ps : q.confirmed => <<q.source, q.target>> \in Observed

(* An observed call of a changed function is collected, unless its chain is one
   of too many. *)
LEMMA ObservedCollected ==
  ASSUME NEW p, HasFiniteLists(p), p.changed = project.changed, p.traces = project.traces, MaxChains \in Nat,
         NEW callers \in MergedCallers(p), NEW call \in Observed, call[1] # call[2],
         ~(Cardinality(ChainsOf(project, call[2])) > MaxChains)
  PROVE  \E q \in Collected(p, callers) : q.origin = "runtime" /\ <<q.source, q.target>> = call
<1>1. AllCallers(p) = AllCallers(project) /\ AllCallees(p) = AllCallees(project)
  BY DEF AllCallers, AllCallees
<1>2. ASSUME NEW f \in Range(p.changed), NEW q \in CallerPaths(callers, f) \cup CalleePaths(p, f),
             <<q.source, q.target>> = call
      PROVE  \E r \in Collected(p, callers) : r.origin = "runtime" /\ <<r.source, r.target>> = call
  <2>1. PICK k \in DOMAIN p.changed : f = p.changed[k]
    BY DEF Range
  <2>2. q.source # q.target
    BY <1>2
  <2>3. q \in Adds(p, callers, k)
    BY <1>2, <2>1, <2>2 DEF Adds
  <2>4. q.kind \in RuntimeKinds
    BY <1>2 DEF CallerPaths, CalleePaths, Path, RuntimeKinds
  <2>5. p.changed \in Seq(DOMAIN Key)
    BY DEF HasFiniteLists
  <2>6. PICK r \in Collected(p, callers) : SameEntry(r, q)
    BY <2>1, <2>3, <2>5, FirstAdderStays
  <2>7. r.origin = "runtime"
    BY <2>4, <2>6, CollectedMade DEF SameEntry, Made
  <2> QED BY <1>2, <2>6, <2>7 DEF SameEntry
<1>3. CASE call \in {<<c.of, c.callee>> : c \in {x \in AllCallees(project) : x.of \in Range(project.changed)}}
  <2>1. PICK c \in AllCallees(project) : c.of \in Range(project.changed) /\ call = <<c.of, c.callee>>
    BY <1>3
  <2> DEFINE q == Path("runtime_callee", c.of, c.callee, <<>>, "runtime", "downstream")
  <2>2. q \in CalleePaths(p, c.of)
    BY <1>1, <2>1 DEF CalleePaths
  <2>3. <<q.source, q.target>> = call
    BY <2>1 DEF Path
  <2> HIDE DEF q
  <2> QED BY <1>2, <2>1, <2>2, <2>3
<1>4. CASE call \in {<<c.chain[1], c.of>> : c \in {x \in AllCallers(project) : x.chain # <<>> /\ x.of \in Range(project.changed)}}
  <2>1. PICK c \in AllCallers(project) : c.chain # <<>> /\ c.of \in Range(project.changed) /\ call = <<c.chain[1], c.of>>
    BY <1>4
  <2>2. ChainsOf(project, call[2]) = ChainsOf(p, c.of)
    BY <1>1, <2>1 DEF ChainsOf
  <2>3. Cardinality(ChainsOf(p, c.of)) \in Nat
    <3>1. ChainsOf(p, c.of) \subseteq AllCallers(p) /\ IsFiniteSet(AllCallers(p))
      BY DEF ChainsOf, HasFiniteLists
    <3> QED BY <3>1, FS_Subset, FS_CardinalityType
  <2>4. Cardinality(ChainsOf(p, c.of)) <= MaxChains
    BY <2>2, <2>3
  <2>5. {x \in callers : x.of = c.of} \in First(ChainsOf(p, c.of), MaxChains, LAMBDA x : FirstShard(p, x))
    BY <2>1 DEF MergedCallers
  <2>6. {x \in callers : x.of = c.of} = ChainsOf(p, c.of)
    BY <2>4, <2>5 DEF First
  <2>7. c \in callers
    BY <1>1, <2>1, <2>6 DEF ChainsOf
  <2> DEFINE q == Path("runtime_caller", c.chain[1], c.of, <<c.chain[Len(c.chain)]>>, "runtime", "upstream")
  <2>8. q \in CallerPaths(callers, c.of)
    BY <2>1, <2>7 DEF CallerPaths
  <2>9. <<q.source, q.target>> = call
    BY <2>1 DEF Path
  <2> HIDE DEF q
  <2> QED BY <1>2, <2>1, <2>8, <2>9
<1> QED BY <1>3, <1>4 DEF Observed

(* A runtime edge is an observed call. *)
LEMMA RuntimeIsObserved ==
  ASSUME NEW p, p.changed = project.changed, p.traces = project.traces,
         NEW callers \in SUBSET AllCallers(p), NEW q \in Collected(p, callers), q.origin = "runtime"
  PROVE  <<q.source, q.target>> \in Observed
<1>1. PICK f \in Range(p.changed) : q \in CallerPaths(callers, f) \cup CalleePaths(p, f)
  BY CollectedMade
<1>2. AllCallers(p) = AllCallers(project) /\ AllCallees(p) = AllCallees(project)
  BY DEF AllCallers, AllCallees
<1>3. CASE q \in CallerPaths(callers, f)
  <2>1. PICK c \in callers : c.of = f /\ c.chain # <<>> /\ q.source = c.chain[1] /\ q.target = f
    BY <1>3 DEF CallerPaths, Path
  <2> QED BY <1>1, <1>2, <2>1 DEF Observed
<1>4. CASE q \in CalleePaths(p, f)
  <2>1. PICK c \in AllCallees(p) : c.of = f /\ q.source = f /\ q.target = c.callee
    BY <1>4 DEF CalleePaths, Path
  <2> QED BY <1>1, <1>2, <2>1 DEF Observed
<1> QED BY <1>1, <1>3, <1>4

(* The list that is built tells each observed call once. *)
LEMMA BuiltOnce ==
  ASSUME project \in Projects, NEW django \in BOOLEAN, NEW ps \in BuildPaths(Extracted(django))
  PROVE  ToldOnce(ps) /\ OnlyObserved(ps)
<1> DEFINE p == Extracted(django)
<1>1. HasFiniteLists(p) /\ p.changed = project.changed /\ p.traces = project.traces
  BY ExtractedProject
<1>2. PICK callers \in MergedCallers(p) : ps \in First(Merged(Collected(p, callers)), MaxPaths, LAMBDA x : KindRank(x.kind))
  BY DEF BuildPaths
<1>3. callers \in SUBSET AllCallers(p) /\ MaxChains \in Nat
  BY MaxPathsAssumption DEF MergedCallers
<1> HIDE DEF p
<1> DEFINE C == Collected(p, callers)
           M == Merged(C)
<1>4. ps \subseteq M /\ (ps = M \/ Cardinality(ps) = MaxPaths)
  BY <1>2 DEF First
<1>5. \A q \in C : Fresh(q) /\ Made(q)
  BY CollectedFresh, CollectedMade
<1>6. IsFiniteSet(C)
  BY <1>1, <1>3, CollectedFinite
<1>7. \A r \in C : r.origin = "runtime" => <<r.source, r.target>> \in Observed
  BY <1>1, <1>3, RuntimeIsObserved
<1>8. ASSUME NEW call \in Observed, call[1] # call[2], ~(Cardinality(ChainsOf(project, call[2])) > MaxChains)
      PROVE  \E q \in C : q.origin = "runtime" /\ <<q.source, q.target>> = call
  BY <1>1, <1>3, <1>8, ObservedCollected
<1> HIDE DEF C
<1>9. \A q \in M : q.origin = "runtime" => ~q.confirmed /\ \A s \in C : s.origin # "runtime" => ~SameEnds(s, q)
  BY <1>5, MergedOnce
<1>10. \A q \in M : q.confirmed =>
                /\ \E s \in C : s.origin # "runtime" /\ SameEnds(s, q)
                /\ \E r \in C : r.origin = "runtime" /\ SameEnds(r, q)
  BY <1>5, MergedOnce
<1>11. \A r \in C : r.origin = "runtime" => \E q \in M : SameEnds(q, r) /\ (q.origin = "runtime" \/ q.confirmed)
  BY <1>5, MergedOnce
<1>12. IsFiniteSet(M)
  BY <1>5, <1>6, MergedOnce
<1> HIDE DEF M
<1>13. IsFiniteSet(ps)
  BY <1>4, <1>12, FS_Subset
<1>14. OnlyObserved(ps)
  BY <1>4, <1>7, <1>10 DEF OnlyObserved, SameEnds
<1>15. ASSUME NEW call \in Observed, call[1] # call[2]
       PROVE  /\ OwnPaths(ps, call) = {} \/ ConfirmedPaths(ps, call) = {}
              /\ OwnPaths(ps, call) = {} /\ ConfirmedPaths(ps, call) = {} => LeftOut(ps, call)
  <2>1. OwnPaths(ps, call) = {} \/ ConfirmedPaths(ps, call) = {}
    <3> SUFFICES ASSUME NEW q \in OwnPaths(ps, call), NEW r \in ConfirmedPaths(ps, call) PROVE FALSE
      OBVIOUS
    <3>1. q \in M /\ q.origin = "runtime" /\ r \in M /\ r.confirmed /\ q.source = r.source /\ q.target = r.target
      BY <1>4 DEF OwnPaths, ConfirmedPaths
    <3>2. PICK s \in C : s.origin # "runtime" /\ SameEnds(s, r)
      BY <1>10, <3>1
    <3> QED BY <1>9, <3>1, <3>2 DEF SameEnds
  <2>2. ASSUME OwnPaths(ps, call) = {}, ConfirmedPaths(ps, call) = {}, ~LeftOut(ps, call) PROVE FALSE
    <3>1. ps = M /\ ~(Cardinality(ChainsOf(project, call[2])) > MaxChains)
      BY <1>4, <2>2 DEF LeftOut
    <3>2. PICK r \in C : r.origin = "runtime" /\ <<r.source, r.target>> = call
      BY <1>8, <1>15, <3>1
    <3>3. PICK q \in M : SameEnds(q, r) /\ (q.origin = "runtime" \/ q.confirmed)
      BY <1>11, <3>2
    <3> QED BY <2>2, <3>1, <3>2, <3>3 DEF OwnPaths, ConfirmedPaths, SameEnds
  <2> QED BY <2>1, <2>2
<1> QED BY <1>13, <1>14, <1>15 DEF ToldOnce

(* Marking keeps everything but the mark. *)
LEMMA MarkedKeeps ==
  ASSUME NEW q, Fresh(q), NEW known
  PROVE  LET r == Marked(q, known)
         IN /\ r.kind = q.kind /\ r.source = q.source /\ r.target = q.target /\ r.detail = q.detail
            /\ r.origin = q.origin /\ r.direction = q.direction /\ r.confirmed = q.confirmed
<1>1. CASE <<Changed(q), q.direction>> \notin DOMAIN known \/ q.kind = "url"
  BY <1>1 DEF Marked
<1>2. CASE ~(<<Changed(q), q.direction>> \notin DOMAIN known \/ q.kind = "url")
  <2>. DEFINE verdict == IF Key[Other(q)] \in known[<<Changed(q), q.direction>>] THEN "known" ELSE "missed"
              r == [q EXCEPT !.mark = verdict]
  <2>1. Marked(q, known) = r
    BY <1>2 DEF Marked
  <2>2. q = [kind |-> q.kind, source |-> q.source, target |-> q.target, detail |-> q.detail, origin |-> q.origin,
             direction |-> q.direction, confirmed |-> q.confirmed, mark |-> "none"]
    BY DEF Fresh, IsPath
  <2>3. r = [kind |-> q.kind, source |-> q.source, target |-> q.target, detail |-> q.detail, origin |-> q.origin,
             direction |-> q.direction, confirmed |-> q.confirmed, mark |-> verdict]
    BY <2>2
  <2> HIDE DEF r
  <2> QED BY <2>1, <2>3
<1> QED BY <1>1, <1>2

(* Two fresh paths that agree in all fields but the mark are one. *)
LEMMA FreshIsOne ==
  ASSUME NEW q, NEW r, Fresh(q), Fresh(r), q.kind = r.kind, q.source = r.source, q.target = r.target, q.detail = r.detail,
         q.origin = r.origin, q.direction = r.direction, q.confirmed = r.confirmed
  PROVE  q = r
<1>1. q = [kind |-> q.kind, source |-> q.source, target |-> q.target, detail |-> q.detail, origin |-> q.origin,
           direction |-> q.direction, confirmed |-> q.confirmed, mark |-> "none"]
  BY DEF Fresh, IsPath
<1>2. r = [kind |-> r.kind, source |-> r.source, target |-> r.target, detail |-> r.detail, origin |-> r.origin,
           direction |-> r.direction, confirmed |-> r.confirmed, mark |-> "none"]
  BY DEF Fresh, IsPath
<1> QED BY <1>1, <1>2, Zenon

(* Marking a list changes nothing of what it tells. *)
LEMMA MarkedOnce ==
  ASSUME NEW ps, \A q \in ps : Fresh(q), NEW known
  PROVE  /\ ToldOnce(ps) => ToldOnce(MarkStaticMisses(ps, known))
         /\ OnlyObserved(ps) => OnlyObserved(MarkStaticMisses(ps, known))
<1> DEFINE f == [q \in ps |-> Marked(q, known)]
           new == MarkStaticMisses(ps, known)
<1>1. \A q \in ps : /\ f[q].kind = q.kind /\ f[q].source = q.source /\ f[q].target = q.target /\ f[q].detail = q.detail
                    /\ f[q].origin = q.origin /\ f[q].direction = q.direction /\ f[q].confirmed = q.confirmed
  BY MarkedKeeps
<1>2. new = {f[q] : q \in ps}
  BY DEF MarkStaticMisses
<1> HIDE DEF new
<1>3. \A q, r \in ps : f[q] = f[r] => q = r
  <2> SUFFICES ASSUME NEW q \in ps, NEW r \in ps, f[q] = f[r] PROVE q = r
    OBVIOUS
  <2> HIDE DEF f
  <2>1. /\ q.kind = r.kind /\ q.source = r.source /\ q.target = r.target /\ q.detail = r.detail
        /\ q.origin = r.origin /\ q.direction = r.direction /\ q.confirmed = r.confirmed
    BY <1>1
  <2> QED BY <2>1, FreshIsOne
<1>4. f \in Surjection(ps, new) /\ f \in Injection(ps, new)
  BY <1>2, <1>3 DEF Surjection, Injection, IsInjective
<1> HIDE DEF f
<1>5. ASSUME OnlyObserved(ps) PROVE OnlyObserved(new)
  BY <1>1, <1>2, <1>5 DEF OnlyObserved
<1>6. ASSUME ToldOnce(ps) PROVE ToldOnce(new)
  <2>1. IsFiniteSet(ps)
    BY <1>6 DEF ToldOnce
  <2>2. IsFiniteSet(new) /\ Cardinality(new) = Cardinality(ps)
    BY <1>4, <2>1, FS_Surjection
  <2>3. \A call : /\ OwnPaths(new, call) = {} <=> OwnPaths(ps, call) = {}
                  /\ ConfirmedPaths(new, call) = {} <=> ConfirmedPaths(ps, call) = {}
    BY <1>1, <1>2 DEF OwnPaths, ConfirmedPaths
  <2>4. \A call : LeftOut(ps, call) => LeftOut(new, call)
    BY <2>2 DEF LeftOut
  <2> QED BY <1>6, <2>2, <2>3, <2>4 DEF ToldOnce
<1> QED BY <1>5, <1>6 DEF new

\* The list is built, and no exception has passed over it.
Listed == pc \in {"ask", "answer", "write"} \/ (pc = "close" /\ failed = FALSE)

ObservedInv == (Listed => ToldOnce(paths)) /\ OnlyObserved(paths)

(* At the beginning there is no list. *)
LEMMA ObservedInit == Init => ObservedInv
  BY DEF Init, ObservedInv, Listed, OnlyObserved

(* The list is built once, and marked at most once; nothing else changes it. *)
LEMMA ObservedStep ==
  ASSUME IInv, ObservedInv, [Next]_vars
  PROVE  ObservedInv'
<1>1. CASE BuildList
  <2>1. PICK django \in BOOLEAN : paths' \in BuildPaths(Extracted(django))
    BY <1>1 DEF BuildList
  <2>2. ToldOnce(paths') /\ OnlyObserved(paths')
    BY <2>1, BuiltOnce DEF IInv, TypeOK
  <2>3. project' = project
    BY <1>1 DEF BuildList
  <2> QED BY <2>2, <2>3 DEF ObservedInv, ToldOnce, OnlyObserved, OwnPaths, ConfirmedPaths, LeftOut, Observed
<1>2. CASE Mark
  <2>1. paths' = MarkStaticMisses(paths, static) /\ project' = project /\ Listed
    BY <1>2 DEF Mark, Listed
  <2>2. \A q \in paths : Fresh(q)
    BY <1>2 DEF IInv, Mark, Stages, ComparedAsAWhole, MarkedByAnswers, Fresh
  <2>3. ToldOnce(MarkStaticMisses(paths, static)) /\ OnlyObserved(MarkStaticMisses(paths, static))
    BY <2>1, <2>2, MarkedOnce DEF ObservedInv
  <2> QED BY <2>1, <2>3 DEF ObservedInv, ToldOnce, OnlyObserved, OwnPaths, ConfirmedPaths, LeftOut, Observed
<1>3. CASE UNCHANGED <<project, paths>> /\ (Listed' => Listed)
  BY <1>3 DEF ObservedInv, ToldOnce, OnlyObserved, OwnPaths, ConfirmedPaths, LeftOut, Observed
<1>4. BuildList \/ Mark \/ (UNCHANGED <<project, paths>> /\ (Listed' => Listed))
  <2>1. failed \in BOOLEAN
    BY DEF IInv, TypeOK
  <2>2. CASE WithoutGitNexus \/ Launch \/ SendInitialize \/ Initialized \/ NotInitialized
    BY <2>2 DEF WithoutGitNexus, Launch, SendInitialize, Initialized, NotInitialized, Goto, Listed
  <2>3. CASE SkipLine \/ BreakOnLine \/ LaunchFails \/ Refuse \/ BreakOnAnswer
    BY <2>3 DEF SkipLine, BreakOnLine, LaunchFails, Refuse, BreakOnAnswer, Raise, Listed, commandVars
  <2>4. CASE Ask \/ Learn \/ Unavailable
    BY <2>4 DEF Ask, Learn, Unavailable, Goto, Listed
  <2>5. CASE Close
    BY <2>1, <2>5 DEF Close, Listed
  <2>6. CASE WriteDocument
    BY <2>6 DEF WriteDocument, Listed
  <2>7. CASE Server \/ UNCHANGED vars
    BY <2>7 DEF Server, vars, commandVars, Listed
  <2> QED BY <2>2, <2>3, <2>4, <2>5, <2>6, <2>7 DEF Next, Command
<1> QED BY <1>1, <1>2, <1>3, <1>4

(* A call the tests showed is a runtime edge of its own or it confirms a Django
   or ORM path, never both, and it is left out only when the list or the list
   of chains to the function is full; nothing is confirmed that was not shown. *)
THEOREM ObservedOnceHolds == Spec => []ObservedOnce
<1>1. ObservedInv => ObservedOnce
  <2> SUFFICES ASSUME ObservedInv PROVE ObservedOnce
    OBVIOUS
  <2>1. \A q \in paths : q.confirmed => <<q.source, q.target>> \in Observed
    BY DEF ObservedInv, OnlyObserved
  <2>2. ASSUME pc \in {"ask", "answer", "write"}, NEW call \in Observed, call[1] # call[2]
        PROVE  /\ OwnPaths(paths, call) = {} \/ ConfirmedPaths(paths, call) = {}
               /\ OwnPaths(paths, call) \cup ConfirmedPaths(paths, call) = {} => LeftOut(paths, call)
    BY <2>2 DEF ObservedInv, Listed, ToldOnce
  <2>3. \A call : LET Between == {q \in paths : <<q.source, q.target>> = call}
                  IN /\ {q \in Between : q.origin = "runtime"} = OwnPaths(paths, call)
                     /\ {q \in Between : q.confirmed} = ConfirmedPaths(paths, call)
    BY DEF OwnPaths, ConfirmedPaths
  <2> QED BY <2>1, <2>2, <2>3 DEF ObservedOnce, LeftOut
<1>2. Spec => []ObservedInv
  <2>1. IInv /\ ObservedInv /\ [Next]_vars => ObservedInv'
    BY ObservedStep
  <2> QED BY ObservedInit, <2>1, Invariance, PTL DEF Spec
<1> QED BY <1>1, <1>2, PTL
=============================================================================

--------------------------- MODULE GitNexusClient ---------------------------
(***************************************************************************)
(* GitNexusImpact: a JSON-RPC conversation with a child process over its   *)
(* stdin and stdout.  A reader thread moves the child's lines into an      *)
(* unbounded queue; pipe and queue are one sequence here.  That it is      *)
(* empty the client learns from its deadline, or from the None that the    *)
(* reader puts after the last line; both raise RuntimeError.               *)
(*                                                                         *)
(* The child is external.  It may answer late, in any order or not at all, *)
(* die at any moment, and write other lines than answers: log text,        *)
(* notifications, requests of its own (their ids are numbers too), JSON    *)
(* that is no object.  It answers a request at most once.                  *)
(***************************************************************************)
EXTENDS Integers, Sequences

CONSTANTS
  MaxLines    \* bound: lines the child has written and the client has not read

ASSUME MaxLinesAssumption == MaxLines \in Nat

VARIABLES
  server,     \* the child: "none", "alive", "killed" (it runs no more, but is not gone), "dead"
  unanswered, \* ids of the requests the child has not answered
  lines,      \* what the child wrote and the client has not read
  nextId      \* _next_id

clientVars == <<server, unanswered, lines, nextId>>

(* An answer carries an error, or a result whose text is an impact report,
   an error of the tool, no JSON, or has an unexpected shape. *)
Forms == {"impact", "toolerror", "rpcerror", "text", "shape"}
Answer(id, form) == [kind |-> "answer", id |-> id, form |-> form]
Noise(kind, id) == [kind |-> kind, id |-> id, form |-> "text"]
\* A remark is a line without an id: log text or a notification.
NoiseKinds == {"remark", "array", "request"}
Line(maxId) == [kind : NoiseKinds \cup {"answer"}, id : 0 .. maxId, form : Forms]

ClientInit ==
  /\ server = "none" /\ unanswered = {} /\ lines = <<>> /\ nextId = 0

(* Popen. *)
Spawn ==
  /\ server = "none" /\ server' = "alive"

(* _send of a request: it raises once the child is gone. *)
Send ==
  /\ server = "alive"
  /\ nextId' = nextId + 1
  /\ unanswered' = unanswered \cup {nextId + 1}

(* message.get("id") == request_id, of a line that is a JSON object.  A
   request of the server matches too when it has the number. *)
Matches(line) == line.kind \in {"answer", "request"} /\ line.id = nextId

(* The loop of _request goes on after such a line. *)
Skipped(line) == line.kind # "array" /\ ~Matches(line)

(* AttributeError: a JSON line that is no object has no get(). *)
Breaks(line) == line.kind = "array"

(* queue.get waits `timeout` seconds for a line, however many came before. *)
NoLine == lines = <<>>

(* The child is gone, it answers nothing more. *)
Kill == server' = "dead" /\ unanswered' = {}

(* close() has sent the signal, but the child is not gone after ten seconds:
   subprocess.TimeoutExpired. *)
KillLate == server = "alive" /\ server' = "killed" /\ unanswered' = {}

-----------------------------------------------------------------------------
(* The child. *)

Write(line) == server = "alive" /\ Len(lines) < MaxLines /\ lines' = Append(lines, line)

Answers(id, form) ==
  /\ id \in unanswered
  /\ Write(Answer(id, form))
  /\ unanswered' = unanswered \ {id}
  /\ UNCHANGED <<server, nextId>>

Chatters(kind, id) ==
  /\ Write(Noise(kind, id))
  /\ UNCHANGED <<server, unanswered, nextId>>

Dies ==
  /\ server = "alive" /\ Kill
  /\ UNCHANGED <<lines, nextId>>

(* The ids a server uses for its own requests: small numbers like ours. *)
Chatter(maxId) ==
  \E kind \in NoiseKinds, id \in 0 .. maxId : (kind # "request" => id = 0) /\ Chatters(kind, id)

ServerStep(maxId) ==
  \/ \E id \in unanswered, form \in Forms : Answers(id, form)
  \/ Chatter(maxId)
  \/ Dies
=============================================================================

---------------------------- MODULE ImpactPaths ----------------------------
(***************************************************************************)
(* The impact paths of a pull request as operators: what build_paths lists *)
(* for the changed functions, and how mark_static_misses compares it with  *)
(* the answers of GitNexus.                                                *)
(*                                                                         *)
(* A project is a record: `changed`, the changed functions in the order of *)
(* changed_functions; `references`, the ORM calls inside functions;        *)
(* `signals`, `urls` and `fields` (model fields whose definition changed)  *)
(* of the Django extractor; `traces`, what each shard of the traced tests  *)
(* has written: `callers` (chains of calls to a changed function) and      *)
(* `callees`.                                                              *)
(* The wording of a detail is reduced to what it is made of, line numbers  *)
(* are left out.                                                           *)
(***************************************************************************)
EXTENDS Integers, Sequences, FiniteSets, Functions

CONSTANTS
  NoSender,   \* of a receiver connected for every model
  MaxPaths,   \* MAX_PATHS
  MaxChains,  \* MAX_TRACE_CHAINS
  Key         \* file and bare name of each symbol, by which GitNexus knows it

ASSUME MaxPathsAssumption == MaxPaths \in Nat /\ MaxChains \in Nat

Directions == {"upstream", "downstream"}
Marks == {"none", "known", "missed"}   \* static_missed: None, False, True

Path(kind, source, target, detail, origin, direction) ==
  [kind |-> kind, source |-> source, target |-> target, detail |-> detail, origin |-> origin,
   direction |-> direction, confirmed |-> FALSE, mark |-> "none"]

(* The possible choices of the first `limit` items by rank: among items of
   one rank their names decide. *)
First(items, limit, Rank(_)) ==
  IF Cardinality(items) <= limit THEN {items}
  ELSE {some \in SUBSET items :
          /\ Cardinality(some) = limit
          /\ \A q \in some, r \in items \ some : Rank(q) <= Rank(r)}

-----------------------------------------------------------------------------
(* _merge_traces: the shards in their order. *)

AllCallers(p) == UNION {t.callers : t \in Range(p.traces)}
AllCallees(p) == UNION {t.callees : t \in Range(p.traces)}

ChainsOf(p, f) == {c \in AllCallers(p) : c.of = f}
FirstShard(p, c) == CHOOSE i \in DOMAIN p.traces : /\ c \in p.traces[i].callers
                                                  /\ \A j \in 1 .. i - 1 : c \notin p.traces[j].callers

(* The first MAX_TRACE_CHAINS chains of each function. *)
MergedCallers(p) ==
  {callers \in SUBSET AllCallers(p) :
     \A f \in Range(p.changed) :
       {c \in callers : c.of = f} \in First(ChainsOf(p, f), MaxChains, LAMBDA c : FirstShard(p, c))}

-----------------------------------------------------------------------------
(* build_paths *)

Writes(p, f) == {r \in p.references : r.function = f /\ r.access = "write"}

(* Receivers of the models the function writes, those of every model included. *)
SignalPaths(p, f) ==
  UNION {{Path("signal", f, s.receiver, <<w.model, s.signal>>, "django", "downstream") :
            s \in {x \in p.signals : x.sender \in {w.model, NoSender} /\ x.ofModels}} :
         w \in Writes(p, f)}

(* Functions that use the fields it writes. *)
FieldPaths(p, f) ==
  {Path("orm_field", f, r.function, <<r.model, r.field, r.access>>, "orm", "downstream") :
     r \in {x \in p.references : \E w \in Writes(p, f) : w.model = x.model /\ w.field = x.field}}

(* Writes that trigger it; a receiver of every model is left out here. *)
TriggerPaths(p, f) ==
  UNION {{Path("signal", w.function, f, <<w.model, s.signal>>, "django", "upstream") :
            w \in {x \in p.references : x.model = s.sender /\ x.access = "write"}} :
         s \in {x \in p.signals : x.receiver = f}}

UrlPaths(p, f) ==
  {Path("url", u.route, f, <<>>, "django", "upstream") : u \in {x \in p.urls : x.view = f}}

CallerPaths(callers, f) ==
  {Path("runtime_caller", c.chain[1], f, <<c.chain[Len(c.chain)]>>, "runtime", "upstream") :
     c \in {x \in callers : x.of = f /\ x.chain # <<>>}}

CalleePaths(p, f) ==
  {Path("runtime_callee", f, c.callee, <<>>, "runtime", "downstream") : c \in {x \in AllCallees(p) : x.of = f}}

(* Functions that use a field whose definition changed. *)
DefinitionPaths(p) ==
  UNION {{Path("orm_field", d.symbol, r.function, <<d.symbol, r.access>>, "orm", "downstream") :
            r \in {x \in p.references : x.model = d.model /\ x.field = d.field}} :
         d \in p.fields}

(* What the i-th changed function adds. *)
Adds(p, callers, i) ==
  LET f == p.changed[i]
  IN {q \in SignalPaths(p, f) \cup FieldPaths(p, f) \cup TriggerPaths(p, f) \cup UrlPaths(p, f)
             \cup CallerPaths(callers, f) \cup CalleePaths(p, f) : q.source # q.target}

SameEntry(q, r) == q.kind = r.kind /\ q.source = r.source /\ q.target = r.target /\ q.detail = r.detail
SameEnds(q, r) == q.source = r.source /\ q.target = r.target

(* setdefault: of two paths with one key, the one added first stays. *)
Collected(p, callers) ==
  (UNION {{q \in Adds(p, callers, i) : \A j \in 1 .. i - 1 : \A r \in Adds(p, callers, j) : ~SameEntry(q, r)} :
          i \in DOMAIN p.changed})
  \cup DefinitionPaths(p)

\* Mutant: a runtime edge is dropped for any other path between its ends' files.
MergedTooFar(paths) ==
  LET Structural == {q \in paths : q.origin # "runtime"}
      Runtime == paths \ Structural
  IN {q \in Structural : TRUE} \cup {r \in Runtime : \A q \in Structural : q.source # r.source}

(* A runtime edge that repeats a Django or ORM edge confirms one of them
   instead of being listed twice. *)
Merged(paths) ==
  LET Structural == {q \in paths : q.origin # "runtime"}
      Repeats(r) == {q \in Structural : SameEnds(q, r)}
      Runtime == paths \ Structural
      Confirmed == {(CHOOSE q \in Repeats(r) : TRUE) : r \in {x \in Runtime : Repeats(x) # {}}}
  IN (Structural \ Confirmed) \cup {[q EXCEPT !.confirmed = TRUE] : q \in Confirmed}
     \cup {r \in Runtime : Repeats(r) = {}}

KindRank(kind) ==
  CASE kind = "orm_field" -> 1 [] kind = "runtime_callee" -> 2 [] kind = "runtime_caller" -> 3
    [] kind = "signal" -> 4 [] kind = "url" -> 5

(* The first MAX_PATHS in the order of the kinds. *)
BuildPaths(p) ==
  UNION {First(Merged(Collected(p, callers)), MaxPaths, LAMBDA q : KindRank(q.kind)) : callers \in MergedCallers(p)}

-----------------------------------------------------------------------------
(* `static` maps the questions that were answered, pairs of a changed
   function and a direction, to the keys GitNexus reported. *)

Changed(q) == IF q.direction = "downstream" THEN q.source ELSE q.target
Other(q) == IF q.direction = "downstream" THEN q.target ELSE q.source

\* Mutant: source and target are not exchanged for upstream paths.
MarkedBySource(q, static) ==
  LET asked == <<q.source, q.direction>>
  IN IF asked \notin DOMAIN static \/ q.kind = "url" THEN q
     ELSE [q EXCEPT !.mark = IF Key[q.target] \in static[asked] THEN "known" ELSE "missed"]

Marked(q, static) ==
  LET asked == <<Changed(q), q.direction>>
  IN IF asked \notin DOMAIN static \/ q.kind = "url" THEN q
     ELSE [q EXCEPT !.mark = IF Key[Other(q)] \in static[asked] THEN "known" ELSE "missed"]

MarkStaticMisses(paths, static) == {Marked(q, static) : q \in paths}
=============================================================================

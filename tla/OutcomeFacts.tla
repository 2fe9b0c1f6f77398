---------------------------- MODULE OutcomeFacts ----------------------------
(***************************************************************************)
(* ChangeRecorder.collect and differential.outcome_facts: from the copies  *)
(* of the written tables before and after a scenario to the facts of the   *)
(* run, keyed by place.                                                    *)
(*                                                                         *)
(* A copy of a table is a function from primary keys to rows; of a table   *)
(* too large to copy, `before` is empty and `after` has the rows above the *)
(* highest key.  Keys are numbers in the order in which `sorted` puts them *)
(* (_order): for random keys an order without meaning.                     *)
(***************************************************************************)
EXTENDS Integers, FiniteSets

CONSTANTS
  Tables, Fields,
  NoTable, NoField,
  FieldsOf,   \* fields of each table without its primary key
  Volatile,   \* those with auto_now or auto_now_add
  Target,     \* Target[t][f]: table the foreign key f points to, else NoTable
  Texts, Blank,
  Errors,     \* exceptions a scenario may end with
  NoError, Gone

ASSUME SchemaAssumption ==
  /\ NoTable \notin Tables /\ NoField \notin Fields
  /\ FieldsOf \in [Tables -> SUBSET Fields] /\ Volatile \in [Tables -> SUBSET Fields]
  /\ Target \in [Tables -> [Fields -> Tables \cup {NoTable}]]
ASSUME TextsAssumption == Blank \in Texts /\ NoError \notin Errors

(* A value as far as the comparison tells values apart: a text and, where it
   is or contains a number that is a key, the table and that key (0: none).
   With `nth` it is the place holder for the nth row the script has created. *)
Value == [text : Texts, of : Tables \cup {NoTable}, key : Nat, nth : Nat]
PlaceHolder(t, i) == [text |-> Blank, of |-> t, key |-> 0, nth |-> i]

Compared(t) == FieldsOf[t] \ Volatile[t]

Before(o, t) == o.changes[t].before
After(o, t) == o.changes[t].after
Created(o, t) == DOMAIN After(o, t) \ DOMAIN Before(o, t)
Deleted(o, t) == DOMAIN Before(o, t) \ DOMAIN After(o, t)
Kept(o, t) == DOMAIN Before(o, t) \cap DOMAIN After(o, t)

(* The position of a key among the created ones, from 1. *)
Index(keys, k) == Cardinality({j \in keys : j <= k})

-----------------------------------------------------------------------------
Place(kind, table, row, field) == [kind |-> kind, table |-> table, row |-> row, field |-> field]
Exception == Place("exception", NoTable, 0, NoField)
Result == Place("result", NoTable, 0, NoField)
Count(t) == Place("count", t, 0, NoField)

TablePlaces(o, t) ==
  {Count(t)}
  \cup {Place("created", t, i, f) : i \in 1 .. Cardinality(Created(o, t)), f \in Compared(t)}
  \cup {Place("deleted", t, k, NoField) : k \in Deleted(o, t)}
  \cup UNION {{Place("updated", t, k, f) : f \in {g \in Compared(t) : After(o, t)[k][g] # Before(o, t)[k][g]}} :
              k \in Kept(o, t)}

FactPlaces(o) ==
  {Exception} \cup (IF o.error = NoError THEN {Result} ELSE {})
  \cup UNION {TablePlaces(o, t) : t \in DOMAIN o.changes}

\* Mutant: foreign keys are compared as they are.
RawKeys(o, t, f, v) == v

(* Foreign keys to rows created in the same run are compared by the position
   of the row, not by its key. *)
Normalised(o, t, f, v) ==
  LET target == Target[t][f]
  IN IF target \in DOMAIN o.changes /\ v.key \in Created(o, target)
     THEN PlaceHolder(target, Index(Created(o, target), v.key))
     ELSE v

RowAt(o, t, i) == CHOOSE k \in Created(o, t) : Index(Created(o, t), k) = i

FactAt(o, p) ==
  CASE p.kind = "exception" -> o.error
    [] p.kind = "result" -> o.result
    [] p.kind = "count" -> Cardinality(Created(o, p.table))
    [] p.kind = "created" -> Normalised(o, p.table, p.field, After(o, p.table)[RowAt(o, p.table, p.row)][p.field])
    [] p.kind = "updated" -> Normalised(o, p.table, p.field, After(o, p.table)[p.row][p.field])
    [] p.kind = "deleted" -> Gone

OutcomeFacts(o) == [p \in FactPlaces(o) |-> FactAt(o, p)]
=============================================================================

---------------------------- MODULE ScriptEffects ----------------------------
(***************************************************************************)
(* What a script does to a database, told without primary keys, and what   *)
(* the runner captures of it when the database hands out certain keys.     *)
(* The first is the reference for outcome_facts, see Shown.                *)
(*                                                                         *)
(* An effect is a record: `error` and `result`, and for each table that    *)
(* the recorder saw written the rows created, in the order of creation,    *)
(* the rows changed and the rows deleted.  A value with `nth` stands for   *)
(* the nth row the script creates in a table.                              *)
(***************************************************************************)
EXTENDS OutcomeFacts, Sequences

CONSTANTS
  MaxNew,    \* rows a script may create in a table
  MaxKnown   \* the highest key that a database or a script knows beforehand

ASSUME KeysAssumption == MaxNew \in Nat /\ MaxKnown \in Nat

(* A scenario that raises is rolled back to its savepoint before the tables
   are collected. *)
Nothing == [new |-> <<>>, set |-> [k \in {} |-> k], gone |-> {}]
Done(e, t) == IF e.error = NoError THEN e.writes[t] ELSE Nothing

(* A value a script writes or returns: known beforehand, or a row it creates. *)
IsKnown(v) == v \in Value /\ v.nth = 0 /\ v.key <= MaxKnown
IsNew(e, v) ==
  /\ v \in Value /\ v.key = 0 /\ v.of \in DOMAIN e.writes
  /\ v.nth \in 1 .. Len(Done(e, v.of).new)
IsWritten(e, t, f, v) ==
  /\ IsKnown(v) \/ IsNew(e, v)
  /\ Target[t][f] # NoTable => v.of = Target[t][f] /\ (v.nth # 0 => v.text = Blank)

IsEffect(e, db) ==
  /\ e.error \in Errors \cup {NoError} /\ (IsKnown(e.result) \/ IsNew(e, e.result))
  /\ DOMAIN e.writes \subseteq Tables
  /\ \A t \in DOMAIN e.writes :
       LET d == Done(e, t)
       IN /\ Len(d.new) \in 0 .. MaxNew /\ d.gone \subseteq DOMAIN db[t]
          /\ DOMAIN d.set \subseteq DOMAIN db[t] \ d.gone
          /\ \A f \in Compared(t) :
               /\ \A i \in 1 .. Len(d.new) : IsWritten(e, t, f, d.new[i][f])
               /\ \A k \in DOMAIN d.set : IsWritten(e, t, f, d.set[k][f])

IsDatabase(db) ==
  \A t \in Tables : \A k \in DOMAIN db[t] :
    k \in 1 .. MaxKnown /\ \A f \in Compared(t) : IsKnown(db[t][k][f])

-----------------------------------------------------------------------------
(* Reference: the facts of an effect. *)

ScriptTablePlaces(e, db, t) ==
  {Count(t)}
  \cup {Place("created", t, i, f) : i \in 1 .. Len(Done(e, t).new), f \in Compared(t)}
  \cup {Place("deleted", t, k, NoField) : k \in Done(e, t).gone}
  \cup UNION {{Place("updated", t, k, f) : f \in {g \in Compared(t) : Done(e, t).set[k][g] # db[t][k][g]}} :
              k \in DOMAIN Done(e, t).set}

ScriptPlaces(e, db) ==
  {Exception} \cup (IF e.error = NoError THEN {Result} ELSE {})
  \cup UNION {ScriptTablePlaces(e, db, t) : t \in DOMAIN e.writes}

ScriptFactAt(e, p) ==
  CASE p.kind = "exception" -> e.error
    [] p.kind = "result" -> e.result
    [] p.kind = "count" -> Len(Done(e, p.table).new)
    [] p.kind = "created" -> Done(e, p.table).new[p.row][p.field]
    [] p.kind = "updated" -> Done(e, p.table).set[p.row][p.field]
    [] p.kind = "deleted" -> Gone

ScriptFacts(e, db) == [p \in ScriptPlaces(e, db) |-> ScriptFactAt(e, p)]

-----------------------------------------------------------------------------
(* One run: keys[t][i] is the key of the ith row created in t, `moment` what
   the clock puts into auto_now fields. *)

AreFresh(keys) ==
  \A t \in Tables : \A i \in 1 .. MaxNew :
    /\ keys[t][i] \in Nat /\ keys[t][i] > MaxKnown
    /\ \A j \in 1 .. MaxNew : i # j => keys[t][i] # keys[t][j]

Concrete(v, keys) ==
  IF v.nth = 0 THEN v ELSE [text |-> v.text, of |-> v.of, key |-> keys[v.of][v.nth], nth |-> 0]

Moment(n) == [text |-> Blank, of |-> NoTable, key |-> n, nth |-> 0]

Saved(t, row, keys, moment) ==
  [f \in FieldsOf[t] |-> IF f \in Volatile[t] THEN Moment(moment) ELSE Concrete(row[f], keys)]

NewKeys(e, t, keys) == {keys[t][i] : i \in 1 .. Len(Done(e, t).new)}
Nth(e, t, keys, k) == CHOOSE i \in 1 .. Len(Done(e, t).new) : keys[t][i] = k

TableAfter(e, db, keys, moment, t) ==
  [k \in (DOMAIN db[t] \ Done(e, t).gone) \cup NewKeys(e, t, keys) |->
     IF k \in NewKeys(e, t, keys) THEN Saved(t, Done(e, t).new[Nth(e, t, keys, k)], keys, moment)
     ELSE IF k \in DOMAIN Done(e, t).set THEN Saved(t, Done(e, t).set[k], keys, moment)
     ELSE db[t][k]]

Capture(e, db, keys, moment) ==
  [error |-> e.error, result |-> Concrete(e.result, keys),
   changes |-> [t \in DOMAIN e.writes |-> [before |-> db[t], after |-> TableAfter(e, db, keys, moment, t)]]]

(* A place where a run shows the key of a row it has created: anywhere but in
   a foreign key. *)
ShowsKey(p, v) ==
  /\ p.kind \in {"result", "created", "updated"} /\ v.nth # 0
  /\ p.kind # "result" => Target[p.table][p.field] = NoTable

(* What the facts of a run should be. *)
Shown(p, v, keys) == IF ShowsKey(p, v) THEN Concrete(v, keys) ELSE v
=============================================================================

------------------------ MODULE DifferentialRunProofs ------------------------
(***************************************************************************)
(* Proofs about DifferentialRun for every schema, scenario, world, way to  *)
(* hand out keys and number of moves of the world.  First, what            *)
(* outcome_facts makes of a captured run: the facts of the run are what    *)
(* the script has done, told without keys, except where the script lets a  *)
(* new key be seen.                                                        *)
(***************************************************************************)
EXTENDS DifferentialRun, FiniteSetTheorems, TLAPS

(* The keys of the rows of each table grow in the order of creation. *)
AreInOrder(e, keys) ==
  \A t \in DOMAIN e.writes : \A i, j \in 1 .. Len(Done(e, t).new) : i < j => keys[t][i] < keys[t][j]

-----------------------------------------------------------------------------
(* The keys of an increasing sequence, and the position of one of them. *)
LEMMA IncreasingKeys ==
  ASSUME NEW k, NEW n \in Nat,
         \A i \in 1 .. n : k[i] \in Nat,
         \A i, j \in 1 .. n : i < j => k[i] < k[j]
  PROVE  Cardinality({k[i] : i \in 1 .. n}) = n
<1> DEFINE f == [i \in 1 .. n |-> k[i]]
           S == {k[i] : i \in 1 .. n}
<1>1. f \in [1 .. n -> S] /\ \A i \in 1 .. n : f[i] = k[i]
  OBVIOUS
<1>2. \A i, j \in 1 .. n : f[i] = f[j] => i = j
  <2> SUFFICES ASSUME NEW i \in 1 .. n, NEW j \in 1 .. n, i # j PROVE k[i] # k[j]
    BY <1>1
  <2>1. i < j \/ j < i
    OBVIOUS
  <2> QED
    BY <2>1
<1>3. \A x \in S : \E i \in 1 .. n : f[i] = x
  BY <1>1
<1>4. f \in Bijection(1 .. n, S)
  BY <1>1, <1>2, <1>3 DEF Bijection, Injection, Surjection, IsInjective
<1>5. IsFiniteSet(1 .. n) /\ Cardinality(1 .. n) = n
  BY FS_Interval
<1>6. ExistsBijection(1 .. n, S)
  BY <1>4 DEF ExistsBijection
<1>7. Cardinality(S) = Cardinality(1 .. n)
  BY <1>5, <1>6, FS_Bijection
<1> QED
  BY <1>5, <1>7

(* The position of the ith key is i. *)
LEMMA IncreasingIndex ==
  ASSUME NEW k, NEW n \in Nat, NEW i \in 1 .. n,
         \A j \in 1 .. n : k[j] \in Nat,
         \A j, l \in 1 .. n : j < l => k[j] < k[l]
  PROVE  Index({k[j] : j \in 1 .. n}, k[i]) = i
<1>1. {x \in {k[j] : j \in 1 .. n} : x <= k[i]} = {k[j] : j \in 1 .. i}
  <2>1. ASSUME NEW j \in 1 .. n, k[j] <= k[i] PROVE j \in 1 .. i
    <3>1. ~(i < j)
      BY <2>1
    <3> QED
      BY <3>1
  <2>2. ASSUME NEW j \in 1 .. i PROVE j \in 1 .. n /\ k[j] <= k[i]
    <3>1. j = i \/ j < i
      BY <2>2
    <3> QED
      BY <2>2, <3>1
  <2> QED
    BY <2>1, <2>2
<1>2. Cardinality({k[j] : j \in 1 .. i}) = i
  <2>1. i \in Nat /\ \A j \in 1 .. i : j \in 1 .. n
    OBVIOUS
  <2> QED
    BY <2>1, IncreasingKeys
<1> QED
  BY <1>1, <1>2 DEF Index

-----------------------------------------------------------------------------
(* A run of a script that does what it may, with fresh keys in order. *)
IsRun(e, db, keys) == IsDatabase(db) /\ IsEffect(e, db) /\ AreFresh(keys) /\ AreInOrder(e, keys)

(* The tables of a captured run, and what the effect says of them. *)
LEMMA EffectFacts ==
  ASSUME NEW e, NEW db, NEW keys, IsRun(e, db, keys), NEW t \in DOMAIN e.writes
  PROVE  /\ t \in Tables
         /\ Len(Done(e, t).new) \in Nat /\ Len(Done(e, t).new) <= MaxNew
         /\ \A i \in 1 .. Len(Done(e, t).new) : keys[t][i] \in Nat /\ keys[t][i] > MaxKnown
         /\ \A i, j \in 1 .. Len(Done(e, t).new) : keys[t][i] = keys[t][j] => i = j
         /\ Done(e, t).gone \subseteq DOMAIN db[t]
         /\ DOMAIN Done(e, t).set \subseteq DOMAIN db[t] \ Done(e, t).gone
         /\ \A k \in DOMAIN db[t] : k \in Nat /\ k <= MaxKnown
<1>1. t \in Tables
  BY DEF IsRun, IsEffect
<1>2. Len(Done(e, t).new) \in Nat /\ Len(Done(e, t).new) <= MaxNew
  BY KeysAssumption DEF IsRun, IsEffect
<1>3. \A i \in 1 .. Len(Done(e, t).new) : i \in 1 .. MaxNew
  BY <1>2, KeysAssumption
<1>4. /\ \A i \in 1 .. Len(Done(e, t).new) : keys[t][i] \in Nat /\ keys[t][i] > MaxKnown
      /\ \A i, j \in 1 .. Len(Done(e, t).new) : keys[t][i] = keys[t][j] => i = j
  BY <1>1, <1>3 DEF IsRun, AreFresh
<1>5. /\ Done(e, t).gone \subseteq DOMAIN db[t]
      /\ DOMAIN Done(e, t).set \subseteq DOMAIN db[t] \ Done(e, t).gone
  BY DEF IsRun, IsEffect
<1>6. \A k \in DOMAIN db[t] : k \in Nat /\ k <= MaxKnown
  BY <1>1, KeysAssumption DEF IsRun, IsDatabase
<1> QED
  BY <1>1, <1>2, <1>4, <1>5, <1>6

(* The tables before and after. *)
LEMMA CaptureShape ==
  ASSUME NEW e, NEW db, NEW keys, NEW m
  PROVE  /\ Capture(e, db, keys, m).error = e.error
         /\ Capture(e, db, keys, m).result = Concrete(e.result, keys)
         /\ DOMAIN Capture(e, db, keys, m).changes = DOMAIN e.writes
         /\ \A t \in DOMAIN e.writes :
              /\ Before(Capture(e, db, keys, m), t) = db[t]
              /\ After(Capture(e, db, keys, m), t) = TableAfter(e, db, keys, m, t)
              /\ DOMAIN After(Capture(e, db, keys, m), t) = (DOMAIN db[t] \ Done(e, t).gone) \cup NewKeys(e, t, keys)
BY DEF Capture, Before, After, TableAfter

(* Which rows are new, gone and kept. *)
LEMMA CaptureKeys ==
  ASSUME NEW e, NEW db, NEW keys, NEW m, IsRun(e, db, keys), NEW t \in DOMAIN e.writes
  PROVE  /\ Created(Capture(e, db, keys, m), t) = NewKeys(e, t, keys)
         /\ Deleted(Capture(e, db, keys, m), t) = Done(e, t).gone
         /\ Kept(Capture(e, db, keys, m), t) = DOMAIN db[t] \ Done(e, t).gone
         /\ NewKeys(e, t, keys) \cap DOMAIN db[t] = {}
<1>1. NewKeys(e, t, keys) \cap DOMAIN db[t] = {}
  <2>1. ASSUME NEW i \in 1 .. Len(Done(e, t).new), keys[t][i] \in DOMAIN db[t] PROVE FALSE
    BY <2>1, EffectFacts, KeysAssumption
  <2> QED
    BY <2>1 DEF NewKeys
<1>2. Done(e, t).gone \subseteq DOMAIN db[t]
  BY EffectFacts
<1>3. /\ Before(Capture(e, db, keys, m), t) = db[t]
      /\ DOMAIN After(Capture(e, db, keys, m), t) = (DOMAIN db[t] \ Done(e, t).gone) \cup NewKeys(e, t, keys)
  BY DEF Capture, Before, After, TableAfter
<1> QED
  BY <1>1, <1>2, <1>3 DEF Created, Deleted, Kept

(* Which row a new key is the key of. *)
LEMMA NthKey ==
  ASSUME NEW e, NEW db, NEW keys, IsRun(e, db, keys), NEW t \in DOMAIN e.writes,
         NEW i \in 1 .. Len(Done(e, t).new)
  PROVE  Nth(e, t, keys, keys[t][i]) = i
<1>1. \A j \in 1 .. Len(Done(e, t).new) : keys[t][j] = keys[t][i] => j = i
  BY EffectFacts
<1> QED
  BY <1>1 DEF Nth

(* Positions among the new rows are the order of creation. *)
LEMMA CaptureOrder ==
  ASSUME NEW e, NEW db, NEW keys, NEW m, IsRun(e, db, keys), NEW t \in DOMAIN e.writes
  PROVE  LET o == Capture(e, db, keys, m)
             n == Len(Done(e, t).new)
         IN /\ Cardinality(Created(o, t)) = n
            /\ \A i \in 1 .. n :
                 /\ keys[t][i] \in Created(o, t)
                 /\ Index(Created(o, t), keys[t][i]) = i
                 /\ RowAt(o, t, i) = keys[t][i]
<1> DEFINE o == Capture(e, db, keys, m)
           n == Len(Done(e, t).new)
           k == keys[t]
<1>1. Created(o, t) = {k[i] : i \in 1 .. n}
  BY CaptureKeys DEF NewKeys
<1>2. n \in Nat /\ \A i \in 1 .. n : k[i] \in Nat
  BY EffectFacts
<1>3. \A i, j \in 1 .. n : i < j => k[i] < k[j]
  BY DEF IsRun, AreInOrder
<1>4. Cardinality(Created(o, t)) = n
  <2> HIDE DEF n, k
  <2> QED
    BY <1>1, <1>2, <1>3, IncreasingKeys
<1>5. ASSUME NEW i \in 1 .. n PROVE Index(Created(o, t), k[i]) = i
  <2> HIDE DEF n, k
  <2>1. Index({k[j] : j \in 1 .. n}, k[i]) = i
    BY <1>2, <1>3, IncreasingIndex
  <2> QED
    BY <1>1, <2>1
<1>6. ASSUME NEW i \in 1 .. n PROVE RowAt(o, t, i) = k[i]
  <2>1. \A x \in Created(o, t) : Index(Created(o, t), x) = i => x = k[i]
    BY <1>1, <1>5
  <2>2. k[i] \in Created(o, t) /\ Index(Created(o, t), k[i]) = i
    BY <1>1, <1>5
  <2> QED
    BY <2>1, <2>2 DEF RowAt
<1> QED
  BY <1>1, <1>4, <1>5, <1>6

-----------------------------------------------------------------------------
(* What a run writes. *)
LEMMA WrittenValue ==
  ASSUME NEW e, NEW db, NEW keys, IsRun(e, db, keys), NEW v, IsKnown(v) \/ IsNew(e, v)
  PROVE  /\ v.nth = 0 => Concrete(v, keys) = v /\ v.key <= MaxKnown /\ v.key \in Nat
         /\ v.nth # 0 =>
              /\ v.of \in DOMAIN e.writes /\ v.nth \in 1 .. Len(Done(e, v.of).new) /\ v.key = 0
              /\ Concrete(v, keys).text = v.text /\ Concrete(v, keys).of = v.of
              /\ Concrete(v, keys).nth = 0 /\ Concrete(v, keys).key = keys[v.of][v.nth]
              /\ Concrete(v, keys).key > MaxKnown /\ Concrete(v, keys).key \in Nat
<1>1. CASE v.nth = 0
  <2>1. IsKnown(v)
    BY <1>1 DEF IsNew
  <2> QED
    BY <1>1, <2>1 DEF IsKnown, Concrete, Value
<1>2. CASE v.nth # 0
  <2>1. v.of \in DOMAIN e.writes /\ v.nth \in 1 .. Len(Done(e, v.of).new) /\ v.key = 0
    BY <1>2 DEF IsKnown, IsNew
  <2>2. keys[v.of][v.nth] \in Nat /\ keys[v.of][v.nth] > MaxKnown
    BY <2>1, EffectFacts
  <2> QED
    BY <1>2, <2>1, <2>2 DEF Concrete
<1> QED
  BY <1>1, <1>2

(* A written value differs from what was there in the run if and only if it
   does in the script. *)
LEMMA ChangeIsSeen ==
  ASSUME NEW e, NEW db, NEW keys, IsRun(e, db, keys),
         NEW v, IsKnown(v) \/ IsNew(e, v), NEW old, IsKnown(old)
  PROVE  Concrete(v, keys) # old <=> v # old
<1>1. old.key <= MaxKnown /\ old.key \in Nat /\ old.nth = 0
  BY DEF IsKnown, Value
<1> QED
  BY <1>1, WrittenValue, KeysAssumption

(* A foreign key to a new row is compared by its position, any other value as
   it is. *)
LEMMA NormalisedIsShown ==
  ASSUME NEW e, NEW db, NEW keys, NEW m, IsRun(e, db, keys),
         NEW t \in DOMAIN e.writes, NEW f \in Compared(t), NEW v, IsWritten(e, t, f, v),
         NEW p, p.kind \in {"created", "updated"}, p.table = t, p.field = f
  PROVE  Normalised(Capture(e, db, keys, m), t, f, Concrete(v, keys)) = Shown(p, v, keys)
<1> DEFINE o == Capture(e, db, keys, m)
           target == Target[t][f]
<1>1. IsKnown(v) \/ IsNew(e, v)
  BY DEF IsWritten
<1>2. DOMAIN o.changes = DOMAIN e.writes
  BY CaptureShape
<1>3. CASE v.nth = 0
  <2>1. Concrete(v, keys) = v /\ v.key <= MaxKnown /\ v.key \in Nat
    BY <1>1, <1>3, WrittenValue
  <2>2. ASSUME target \in DOMAIN o.changes, v.key \in Created(o, target) PROVE FALSE
    <3>1. v.key \in NewKeys(e, target, keys)
      BY <1>2, <2>2, CaptureKeys
    <3>2. PICK i \in 1 .. Len(Done(e, target).new) : v.key = keys[target][i]
      BY <3>1 DEF NewKeys
    <3>3. v.key > MaxKnown
      BY <1>2, <2>2, <3>2, EffectFacts
    <3> QED
      BY <2>1, <3>3, KeysAssumption
  <2>3. Normalised(o, t, f, v) = v
    BY <2>2 DEF Normalised
  <2> QED
    BY <1>3, <2>1, <2>3 DEF Shown, ShowsKey
<1>4. CASE v.nth # 0 /\ target = NoTable
  <2>1. target \notin DOMAIN o.changes
    BY <1>2, <1>4, SchemaAssumption DEF IsRun, IsEffect
  <2>2. ShowsKey(p, v)
    BY <1>4 DEF ShowsKey
  <2> QED
    BY <2>1, <2>2 DEF Normalised, Shown
<1>5. CASE v.nth # 0 /\ target # NoTable
  <2>1. v.of = target /\ v.text = Blank /\ v \in Value
    BY <1>5 DEF IsWritten, IsKnown, IsNew
  <2>2. /\ v.of \in DOMAIN e.writes /\ v.nth \in 1 .. Len(Done(e, v.of).new) /\ v.key = 0
        /\ Concrete(v, keys).key = keys[v.of][v.nth]
    BY <1>1, <1>5, WrittenValue
  <2>3. Concrete(v, keys).key \in Created(o, target) /\ Index(Created(o, target), Concrete(v, keys).key) = v.nth
    BY <2>1, <2>2, CaptureOrder
  <2>4. Normalised(o, t, f, Concrete(v, keys)) = PlaceHolder(target, v.nth)
    BY <1>2, <2>1, <2>2, <2>3 DEF Normalised
  <2>5. PlaceHolder(target, v.nth) = v
    BY <2>1, <2>2 DEF PlaceHolder, Value
  <2>6. ~ShowsKey(p, v)
    BY <1>5 DEF ShowsKey
  <2> QED
    BY <2>4, <2>5, <2>6 DEF Shown
<1> QED
  BY <1>3, <1>4, <1>5

-----------------------------------------------------------------------------
(* The fields of a new row, and of a row that was there. *)
LEMMA CaptureFields ==
  ASSUME NEW e, NEW db, NEW keys, NEW m, IsRun(e, db, keys), NEW t \in DOMAIN e.writes, NEW f \in Compared(t)
  PROVE  LET o == Capture(e, db, keys, m)
         IN /\ \A i \in 1 .. Len(Done(e, t).new) :
                 After(o, t)[keys[t][i]][f] = Concrete(Done(e, t).new[i][f], keys)
            /\ \A k \in DOMAIN db[t] \ Done(e, t).gone :
                 After(o, t)[k][f] = IF k \in DOMAIN Done(e, t).set THEN Concrete(Done(e, t).set[k][f], keys)
                                     ELSE db[t][k][f]
<1> DEFINE o == Capture(e, db, keys, m)
<1>1. After(o, t) = TableAfter(e, db, keys, m, t)
  BY DEF Capture, After
<1>2. f \in FieldsOf[t] /\ f \notin Volatile[t]
  BY DEF Compared
<1>3. ASSUME NEW row PROVE Saved(t, row, keys, m)[f] = Concrete(row[f], keys)
  BY <1>2 DEF Saved
<1>4. ASSUME NEW i \in 1 .. Len(Done(e, t).new)
      PROVE  After(o, t)[keys[t][i]][f] = Concrete(Done(e, t).new[i][f], keys)
  <2>1. keys[t][i] \in NewKeys(e, t, keys)
    BY DEF NewKeys
  <2>2. Nth(e, t, keys, keys[t][i]) = i
    BY NthKey
  <2>3. After(o, t)[keys[t][i]] = Saved(t, Done(e, t).new[i], keys, m)
    BY <1>1, <2>1, <2>2 DEF TableAfter
  <2> QED
    BY <1>3, <2>3
<1>5. ASSUME NEW k \in DOMAIN db[t] \ Done(e, t).gone
      PROVE  After(o, t)[k][f] = IF k \in DOMAIN Done(e, t).set THEN Concrete(Done(e, t).set[k][f], keys)
                                 ELSE db[t][k][f]
  <2>1. k \notin NewKeys(e, t, keys)
    BY CaptureKeys
  <2>2. After(o, t)[k] = IF k \in DOMAIN Done(e, t).set THEN Saved(t, Done(e, t).set[k], keys, m) ELSE db[t][k]
    BY <1>1, <2>1 DEF TableAfter
  <2> QED
    BY <1>3, <2>2
<1> QED
  BY <1>4, <1>5

(* The rows and fields seen changed are the ones the script has changed. *)
LEMMA CaptureChanges ==
  ASSUME NEW e, NEW db, NEW keys, NEW m, IsRun(e, db, keys), NEW t \in DOMAIN e.writes, NEW f \in Compared(t),
         NEW k \in DOMAIN db[t] \ Done(e, t).gone
  PROVE  LET o == Capture(e, db, keys, m)
         IN After(o, t)[k][f] # Before(o, t)[k][f] <=>
              k \in DOMAIN Done(e, t).set /\ Done(e, t).set[k][f] # db[t][k][f]
<1> DEFINE o == Capture(e, db, keys, m)
<1>1. Before(o, t) = db[t]
  BY DEF Capture, Before
<1>2. After(o, t)[k][f] = IF k \in DOMAIN Done(e, t).set THEN Concrete(Done(e, t).set[k][f], keys) ELSE db[t][k][f]
  BY CaptureFields
<1>3. CASE k \in DOMAIN Done(e, t).set
  <2>1. IsKnown(Done(e, t).set[k][f]) \/ IsNew(e, Done(e, t).set[k][f])
    BY <1>3 DEF IsRun, IsEffect, IsWritten
  <2>2. IsKnown(db[t][k][f])
    BY EffectFacts DEF IsRun, IsDatabase
  <2>3. Concrete(Done(e, t).set[k][f], keys) # db[t][k][f] <=> Done(e, t).set[k][f] # db[t][k][f]
    BY <2>1, <2>2, ChangeIsSeen
  <2> QED
    BY <1>1, <1>2, <1>3, <2>3
<1>4. CASE k \notin DOMAIN Done(e, t).set
  BY <1>1, <1>2, <1>4
<1> QED
  BY <1>3, <1>4

(* A run has a fact at the places of the effect in a table, and no other. *)
LEMMA CapturedPlaces ==
  ASSUME NEW e, NEW db, NEW keys, NEW m, IsRun(e, db, keys), NEW t \in DOMAIN e.writes
  PROVE  TablePlaces(Capture(e, db, keys, m), t) = ScriptTablePlaces(e, db, t)
<1> DEFINE o == Capture(e, db, keys, m)
           Changed(k) == {g \in Compared(t) : After(o, t)[k][g] # Before(o, t)[k][g]}
           Set(k) == {g \in Compared(t) : Done(e, t).set[k][g] # db[t][k][g]}
           Seen == UNION {{Place("updated", t, k, f) : f \in {g \in Compared(t) : After(o, t)[k][g] # Before(o, t)[k][g]}} :
                          k \in Kept(o, t)}
           Meant == UNION {{Place("updated", t, k, f) : f \in {g \in Compared(t) : Done(e, t).set[k][g] # db[t][k][g]}} :
                           k \in DOMAIN Done(e, t).set}
<1>1. Cardinality(Created(o, t)) = Len(Done(e, t).new) /\ Deleted(o, t) = Done(e, t).gone
      /\ Kept(o, t) = DOMAIN db[t] \ Done(e, t).gone
  BY CaptureOrder, CaptureKeys
<1>2. DOMAIN Done(e, t).set \subseteq Kept(o, t)
  BY <1>1, EffectFacts
<1>3. \A k \in Kept(o, t) : \A f \in Compared(t) :
        f \in Changed(k) <=> k \in DOMAIN Done(e, t).set /\ f \in Set(k)
  BY <1>1, CaptureChanges
<1>4. Seen = Meant
  <2>1. ASSUME NEW k \in Kept(o, t), NEW f \in Changed(k)
        PROVE  k \in DOMAIN Done(e, t).set /\ f \in Set(k)
    BY <1>3
  <2>2. ASSUME NEW k \in DOMAIN Done(e, t).set, NEW f \in Set(k)
        PROVE  k \in Kept(o, t) /\ f \in Changed(k)
    BY <1>2, <1>3
  <2>3. Seen = UNION {{Place("updated", t, k, f) : f \in Changed(k)} : k \in Kept(o, t)}
    OBVIOUS
  <2>4. Meant = UNION {{Place("updated", t, k, f) : f \in Set(k)} : k \in DOMAIN Done(e, t).set}
    OBVIOUS
  <2> HIDE DEF o, Seen, Meant, Changed, Set
  <2> QED
    BY <2>1, <2>2, <2>3, <2>4
<1>5. TablePlaces(o, t) =
        {Count(t)}
        \cup {Place("created", t, i, f) : i \in 1 .. Cardinality(Created(o, t)), f \in Compared(t)}
        \cup {Place("deleted", t, k, NoField) : k \in Deleted(o, t)} \cup Seen
  BY DEF TablePlaces
<1>6. ScriptTablePlaces(e, db, t) =
        {Count(t)}
        \cup {Place("created", t, i, f) : i \in 1 .. Len(Done(e, t).new), f \in Compared(t)}
        \cup {Place("deleted", t, k, NoField) : k \in Done(e, t).gone} \cup Meant
  BY DEF ScriptTablePlaces
<1> DEFINE New(n) == {Place("created", t, i, f) : i \in 1 .. n, f \in Compared(t)}
           Lost(S) == {Place("deleted", t, k, NoField) : k \in S}
<1>7. TablePlaces(o, t) = {Count(t)} \cup New(Cardinality(Created(o, t))) \cup Lost(Deleted(o, t)) \cup Seen
  BY <1>5
<1>8. ScriptTablePlaces(e, db, t) = {Count(t)} \cup New(Len(Done(e, t).new)) \cup Lost(Done(e, t).gone) \cup Meant
  BY <1>6
<1>9. New(Cardinality(Created(o, t))) = New(Len(Done(e, t).new)) /\ Lost(Deleted(o, t)) = Lost(Done(e, t).gone)
  BY <1>1
<1> HIDE DEF Seen, Meant, New, Lost
<1> QED
  BY <1>4, <1>7, <1>8, <1>9

(* What a place of an effect stands for. *)
LEMMA PlaceCases ==
  ASSUME NEW e, NEW db, NEW p \in ScriptPlaces(e, db)
  PROVE  \/ p.kind = "exception"
         \/ p.kind = "result" /\ e.error = NoError
         \/ /\ p.table \in DOMAIN e.writes
            /\ \/ p.kind = "count"
               \/ p.kind = "created" /\ p.row \in 1 .. Len(Done(e, p.table).new) /\ p.field \in Compared(p.table)
               \/ p.kind = "deleted"
               \/ p.kind = "updated" /\ p.row \in DOMAIN Done(e, p.table).set /\ p.field \in Compared(p.table)
<1>1. CASE p = Exception
  BY <1>1 DEF Exception, Place
<1>2. CASE p = Result /\ e.error = NoError
  BY <1>2 DEF Result, Place
<1>3. ASSUME NEW t \in DOMAIN e.writes, p \in ScriptTablePlaces(e, db, t)
      PROVE  /\ p.table = t
             /\ \/ p.kind = "count"
                \/ p.kind = "created" /\ p.row \in 1 .. Len(Done(e, t).new) /\ p.field \in Compared(t)
                \/ p.kind = "deleted"
                \/ p.kind = "updated" /\ p.row \in DOMAIN Done(e, t).set /\ p.field \in Compared(t)
  <2>1. CASE p = Count(t)
    BY <2>1 DEF Count, Place
  <2>2. ASSUME NEW i \in 1 .. Len(Done(e, t).new), NEW f \in Compared(t), p = Place("created", t, i, f)
        PROVE  p.table = t /\ p.kind = "created" /\ p.row = i /\ p.field = f
    BY <2>2 DEF Place
  <2>3. ASSUME NEW k \in Done(e, t).gone, p = Place("deleted", t, k, NoField)
        PROVE  p.table = t /\ p.kind = "deleted"
    BY <2>3 DEF Place
  <2>4. ASSUME NEW k \in DOMAIN Done(e, t).set, NEW f \in Compared(t), p = Place("updated", t, k, f)
        PROVE  p.table = t /\ p.kind = "updated" /\ p.row = k /\ p.field = f
    BY <2>4 DEF Place
  <2>5. CASE p \in UNION {{Place("updated", t, k, f) : f \in {g \in Compared(t) : Done(e, t).set[k][g] # db[t][k][g]}} :
                          k \in DOMAIN Done(e, t).set}
    <3>1. PICK k \in DOMAIN Done(e, t).set :
            p \in {Place("updated", t, k, f) : f \in {g \in Compared(t) : Done(e, t).set[k][g] # db[t][k][g]}}
      BY <2>5
    <3>2. PICK f \in Compared(t) : p = Place("updated", t, k, f)
      BY <3>1
    <3> QED
      BY <2>4, <3>2
  <2>6. CASE p \in {Place("created", t, i, f) : i \in 1 .. Len(Done(e, t).new), f \in Compared(t)}
    <3>1. PICK i \in 1 .. Len(Done(e, t).new), f \in Compared(t) : p = Place("created", t, i, f)
      BY <2>6
    <3> QED
      BY <2>2, <3>1
  <2>7. CASE p \in {Place("deleted", t, k, NoField) : k \in Done(e, t).gone}
    BY <2>3, <2>7
  <2> QED
    BY <1>3, <2>1, <2>5, <2>6, <2>7 DEF ScriptTablePlaces
<1>4. p = Exception \/ (p = Result /\ e.error = NoError) \/ \E t \in DOMAIN e.writes : p \in ScriptTablePlaces(e, db, t)
  BY DEF ScriptPlaces
<1> QED
  BY <1>1, <1>2, <1>3, <1>4

(* The facts of a run are what the script has done, told without keys: at the
   same places, the same values, but for the keys of new rows that the script
   lets be seen outside foreign keys.  (outcome_facts.) *)
THEOREM FactsOfCapture ==
  ASSUME NEW e, NEW db, NEW keys, NEW m, IsRun(e, db, keys)
  PROVE  LET facts == OutcomeFacts(Capture(e, db, keys, m))
             does == ScriptFacts(e, db)
         IN /\ DOMAIN facts = DOMAIN does
            /\ \A p \in DOMAIN does : facts[p] = Shown(p, does[p], keys)
<1> DEFINE o == Capture(e, db, keys, m)
<1>1. /\ o.error = e.error /\ o.result = Concrete(e.result, keys) /\ DOMAIN o.changes = DOMAIN e.writes
  BY CaptureShape
<1>2. \A t \in DOMAIN e.writes : TablePlaces(o, t) = ScriptTablePlaces(e, db, t)
  BY CapturedPlaces
<1>3. FactPlaces(o) = ScriptPlaces(e, db)
  <2>1. UNION {TablePlaces(o, t) : t \in DOMAIN o.changes} = UNION {ScriptTablePlaces(e, db, t) : t \in DOMAIN e.writes}
    <3> HIDE DEF o
    <3> QED
      BY <1>1, <1>2
  <2> QED
    BY <1>1, <2>1 DEF FactPlaces, ScriptPlaces
<1>4. ASSUME NEW p \in ScriptPlaces(e, db) PROVE FactAt(o, p) = Shown(p, ScriptFactAt(e, p), keys)
  <2>1. CASE p.kind = "exception"
    BY <1>1, <2>1 DEF FactAt, ScriptFactAt, Shown, ShowsKey
  <2>2. CASE p.kind = "result"
    <3>1. FactAt(o, p) = Concrete(e.result, keys) /\ ScriptFactAt(e, p) = e.result
      BY <1>1, <2>2 DEF FactAt, ScriptFactAt
    <3> QED
      BY <2>2, <3>1 DEF Shown, ShowsKey, Concrete
  <2>3. CASE p.kind = "count" /\ p.table \in DOMAIN e.writes
    <3>1. Cardinality(Created(o, p.table)) = Len(Done(e, p.table).new)
      BY <2>3, CaptureOrder
    <3> QED
      BY <2>3, <3>1 DEF FactAt, ScriptFactAt, Shown, ShowsKey
  <2>4. CASE p.kind = "deleted"
    BY <2>4 DEF FactAt, ScriptFactAt, Shown, ShowsKey
  <2>5. CASE /\ p.kind = "created" /\ p.table \in DOMAIN e.writes
             /\ p.row \in 1 .. Len(Done(e, p.table).new) /\ p.field \in Compared(p.table)
    <3> DEFINE t == p.table
               v == Done(e, t).new[p.row][p.field]
    <3>1. RowAt(o, t, p.row) = keys[t][p.row]
      BY <2>5, CaptureOrder
    <3>2. After(o, t)[keys[t][p.row]][p.field] = Concrete(v, keys)
      BY <2>5, CaptureFields
    <3>3. IsWritten(e, t, p.field, v)
      BY <2>5 DEF IsRun, IsEffect
    <3>4. Normalised(o, t, p.field, Concrete(v, keys)) = Shown(p, v, keys)
      BY <2>5, <3>3, NormalisedIsShown
    <3> QED
      BY <2>5, <3>1, <3>2, <3>4 DEF FactAt, ScriptFactAt
  <2>6. CASE /\ p.kind = "updated" /\ p.table \in DOMAIN e.writes
             /\ p.row \in DOMAIN Done(e, p.table).set /\ p.field \in Compared(p.table)
    <3> DEFINE t == p.table
               v == Done(e, t).set[p.row][p.field]
    <3>1. p.row \in DOMAIN db[t] \ Done(e, t).gone
      BY <2>6, EffectFacts
    <3>2. After(o, t)[p.row][p.field] = Concrete(v, keys)
      BY <2>6, <3>1, CaptureFields
    <3>3. IsWritten(e, t, p.field, v)
      BY <2>6 DEF IsRun, IsEffect
    <3>4. Normalised(o, t, p.field, Concrete(v, keys)) = Shown(p, v, keys)
      BY <2>6, <3>3, NormalisedIsShown
    <3> QED
      BY <2>6, <3>2, <3>4 DEF FactAt, ScriptFactAt
  <2> QED
    BY <2>1, <2>2, <2>3, <2>4, <2>5, <2>6, PlaceCases
<1> QED
  BY <1>3, <1>4 DEF OutcomeFacts, ScriptFacts

-----------------------------------------------------------------------------
(* The four runs of a case *)

(* A payload carries what its run, the nth of the case, captures in the world
   it names. *)
Honest(runs, side, before) ==
  \A i \in 1 .. Len(runs) :
    runs[i].world \in Worlds /\ runs[i].outcome = Captures(side, before + i, runs[i].world)

(* The world the first base run sees is the one the second head run saw,
   unless it moved in between. *)
SameWorldAcross ==
  ~movedBetween =>
    /\ Len(heads) = 2 /\ Len(bases) = 0 => world = heads[2].world
    /\ Len(heads) = 2 /\ Len(bases) # 0 => bases[1].world = heads[2].world

(* A conclusive verdict is the comparator's, on four clean captures. *)
DecidedByComparison ==
  verdict \in {"confirmed", "refuted"} =>
    /\ Len(heads) = 2 /\ Len(bases) = 2
    /\ Captured(heads) /\ Captured(bases) /\ RolledBack(heads) /\ RolledBack(bases)
    /\ verdict = CompareRunsOf(Outcomes(bases), Outcomes(heads), predicted)

HeadsFirst == Len(bases) # 0 => Len(heads) = 2 /\ Captured(heads)

Inv == TypeOK /\ HeadsFirst /\ Honest(heads, scenario.head, 0) /\ Honest(bases, scenario.base, 2)
       /\ SameWorldAcross /\ DecidedByComparison

-----------------------------------------------------------------------------
(* A verdict of the comparator is one of three words. *)
LEMMA CompareRunsType ==
  ASSUME NEW b, NEW h, NEW P
  PROVE  CompareRunsOf(b, h, P) \in {"confirmed", "refuted", "inconclusive"}
BY DEF CompareRunsOf

(* The initial states satisfy the inductive invariant. *)
THEOREM InitInv == Init => Inv
<1> SUFFICES ASSUME Init PROVE Inv
  OBVIOUS
<1>1. heads \in Seq(Payload) /\ bases \in Seq(Payload) /\ Len(heads) = 0 /\ Len(bases) = 0
  BY DEF Init
<1>2. TypeOK
  <2>1. moves \in 0 .. MaxMoves
    BY MovesAssumption DEF Init
  <2>2. Len(heads) \in 0 .. 2 /\ Len(bases) \in 0 .. 2
    BY <1>1
  <2>3. movedBetween \in BOOLEAN
    BY DEF Init
  <2> QED
    BY <1>1, <2>1, <2>2, <2>3 DEF Init, TypeOK
<1>3. HeadsFirst /\ Honest(heads, scenario.head, 0) /\ Honest(bases, scenario.base, 2)
      /\ SameWorldAcross /\ DecidedByComparison
  BY <1>1 DEF Init, HeadsFirst, Honest, SameWorldAcross, DecidedByComparison
<1> QED
  BY <1>2, <1>3 DEF Inv

(* What a run of either side captures is an outcome. *)
LEMMA CapturesType ==
  ASSUME Inv, NEW n \in Runs
  PROVE  Captures(scenario.head, n, world) \in Outcome /\ Captures(scenario.base, n, world) \in Outcome
<1>1. scenario \in Scenarios /\ world \in Worlds /\ supply \in Supplies
  BY DEF Inv, TypeOK
<1>2. ASSUME NEW side \in {x.head : x \in Scenarios} \cup {x.base : x \in Scenarios}
      PROVE  Capture(side[world], Database[world], supply.keys[n][world], n) \in Outcome
  BY <1>1 DEF Outcome
<1> QED
  BY <1>1, <1>2 DEF Captures

(* A payload of the runner names the world and the outcome of its run. *)
LEMMA PayloadType ==
  ASSUME NEW o \in Outcome, world \in Worlds, NEW payload \in RunnerPayload(o)
  PROVE  payload \in Payload /\ payload.world = world /\ payload.outcome = o
BY DEF RunnerPayload, Payload

(* A move of the world keeps the invariant. *)
LEMMA MoveStep == Inv /\ Move => Inv'
<1> SUFFICES ASSUME Inv, Move PROVE Inv'
  OBVIOUS
<1>1. TypeOK'
  BY MovesAssumption DEF Inv, TypeOK, Move, given
<1>2. HeadsFirst' /\ Honest(heads, scenario.head, 0)' /\ Honest(bases, scenario.base, 2)' /\ DecidedByComparison'
  BY DEF Inv, Move, given, HeadsFirst, Honest, Captures, DecidedByComparison, Captured
<1>3. SameWorldAcross'
  BY DEF Inv, Move, SameWorldAcross, TypeOK
<1> QED
  BY <1>1, <1>2, <1>3 DEF Inv

(* A head run keeps the invariant. *)
LEMMA RunHeadStep == Inv /\ RunHead => Inv'
<1> SUFFICES ASSUME Inv, RunHead PROVE Inv'
  OBVIOUS
<1> DEFINE n == Len(heads) + 1
<1>1. PICK payload \in RunnerPayload(Captures(scenario.head, n, world)) : heads' = Append(heads, payload)
  BY DEF RunHead
<1>2. payload \in Payload /\ payload.world = world /\ payload.outcome = Captures(scenario.head, n, world)
  <2>1. n \in Runs
    BY DEF Inv, TypeOK, RunHead, Runs
  <2>2. Captures(scenario.head, n, world) \in Outcome /\ world \in Worlds
    BY <2>1, CapturesType DEF Inv, TypeOK
  <2> QED
    BY <1>1, <2>2, PayloadType
<1>3. /\ heads' \in Seq(Payload) /\ Len(heads') = Len(heads) + 1
      /\ heads'[Len(heads')] = payload
      /\ \A i \in 1 .. Len(heads) : heads'[i] = heads[i]
  BY <1>1, <1>2 DEF Inv, TypeOK
<1>4. bases = <<>> /\ Len(bases) = 0
  BY DEF Inv, TypeOK, HeadsFirst, RunHead
<1>5. TypeOK'
  BY <1>3 DEF Inv, TypeOK, RunHead, given
<1>6. Honest(heads, scenario.head, 0)'
  <2>1. scenario' = scenario /\ supply' = supply
    BY DEF RunHead, given
  <2>2. ASSUME NEW i \in 1 .. Len(heads')
        PROVE  heads'[i].world \in Worlds /\ heads'[i].outcome = Captures(scenario.head, 0 + i, heads'[i].world)
    <3>1. CASE i = n
      BY <1>2, <1>3, <3>1 DEF Inv, TypeOK
    <3>2. CASE i # n
      <4>1. i \in 1 .. Len(heads)
        BY <1>3, <3>2 DEF Inv, TypeOK
      <4>2. heads'[i] = heads[i]
        BY <1>3, <4>1
      <4>3. Honest(heads, scenario.head, 0)
        BY DEF Inv
      <4> QED
        BY <4>1, <4>2, <4>3 DEF Honest
    <3> QED
      BY <3>1, <3>2
  <2> QED
    BY <2>1, <2>2 DEF Honest, Captures
<1>7. SameWorldAcross'
  BY <1>2, <1>3, <1>4 DEF Inv, TypeOK, RunHead, SameWorldAcross
<1>8. HeadsFirst' /\ Honest(bases, scenario.base, 2)' /\ DecidedByComparison'
  BY <1>4 DEF Inv, TypeOK, RunHead, HeadsFirst, Honest, DecidedByComparison
<1> QED
  BY <1>5, <1>6, <1>7, <1>8 DEF Inv

(* A base run keeps the invariant; the first one sees the world the head runs left. *)
LEMMA RunBaseStep == Inv /\ RunBase => Inv'
<1> SUFFICES ASSUME Inv, RunBase PROVE Inv'
  OBVIOUS
<1> DEFINE n == Len(bases) + 3
<1>1. PICK payload \in RunnerPayload(Captures(scenario.base, n, world)) : bases' = Append(bases, payload)
  BY DEF RunBase
<1>2. payload \in Payload /\ payload.world = world /\ payload.outcome = Captures(scenario.base, n, world)
  <2>1. n \in Runs
    BY DEF Inv, TypeOK, RunBase, Runs
  <2>2. Captures(scenario.base, n, world) \in Outcome /\ world \in Worlds
    BY <2>1, CapturesType DEF Inv, TypeOK
  <2> QED
    BY <1>1, <2>2, PayloadType
<1>3. /\ bases' \in Seq(Payload) /\ Len(bases') = Len(bases) + 1
      /\ bases'[Len(bases')] = payload
      /\ \A i \in 1 .. Len(bases) : bases'[i] = bases[i]
  BY <1>1, <1>2 DEF Inv, TypeOK
<1>4. TypeOK'
  BY <1>3 DEF Inv, TypeOK, RunBase, given
<1>5. Honest(bases, scenario.base, 2)'
  <2>1. scenario' = scenario /\ supply' = supply
    BY DEF RunBase, given
  <2>2. ASSUME NEW i \in 1 .. Len(bases')
        PROVE  bases'[i].world \in Worlds /\ bases'[i].outcome = Captures(scenario.base, 2 + i, bases'[i].world)
    <3>1. CASE i = Len(bases')
      <4>1. 2 + i = n
        BY <1>3, <3>1 DEF Inv, TypeOK
      <4> QED
        BY <1>2, <1>3, <3>1, <4>1 DEF Inv, TypeOK
    <3>2. CASE i # Len(bases')
      <4>1. i \in 1 .. Len(bases)
        BY <1>3, <3>2 DEF Inv, TypeOK
      <4>2. bases'[i] = bases[i]
        BY <1>3, <4>1
      <4>3. Honest(bases, scenario.base, 2)
        BY DEF Inv
      <4> QED
        BY <4>1, <4>2, <4>3 DEF Honest
    <3> QED
      BY <3>1, <3>2
  <2> QED
    BY <2>1, <2>2 DEF Honest, Captures
<1>6. SameWorldAcross'
  BY <1>2, <1>3 DEF Inv, TypeOK, RunBase, SameWorldAcross
<1>7. HeadsFirst' /\ Honest(heads, scenario.head, 0)' /\ DecidedByComparison'
  BY DEF Inv, TypeOK, RunBase, given, HeadsFirst, Honest, Captures, DecidedByComparison, Captured
<1> QED
  BY <1>4, <1>5, <1>6, <1>7 DEF Inv

(* The comparison keeps the invariant. *)
LEMMA DecideStep == Inv /\ Decide => Inv'
<1> SUFFICES ASSUME Inv, Decide PROVE Inv'
  OBVIOUS
<1>1. verdict' \in {"confirmed", "refuted", "inconclusive"}
  BY CompareRunsType DEF Decide, Verdict
<1>2. TypeOK'
  BY <1>1 DEF Inv, TypeOK, Decide, given
<1>3. Honest(heads, scenario.head, 0)' /\ Honest(bases, scenario.base, 2)' /\ SameWorldAcross' /\ HeadsFirst'
  BY DEF Inv, Decide, given, Honest, Captures, SameWorldAcross, HeadsFirst, Captured
<1>4. DecidedByComparison'
  <2> SUFFICES ASSUME verdict' \in {"confirmed", "refuted"} PROVE DecidedByComparison'
    BY DEF DecidedByComparison
  <2>1. Captured(bases) /\ RolledBack(heads) /\ RolledBack(bases)
        /\ verdict' = CompareRunsOf(Outcomes(bases), Outcomes(heads), predicted)
    BY DEF Decide, Verdict
  <2>2. Len(bases) = 2 /\ Len(heads) = 2 /\ Captured(heads)
    BY DEF Inv, Decide, HeadsFirst
  <2>3. heads' = heads /\ bases' = bases /\ predicted' = predicted
    BY DEF Decide, given
  <2> QED
    BY <2>1, <2>2, <2>3 DEF DecidedByComparison, Captured, RolledBack, Outcomes
<1> QED
  BY <1>2, <1>3, <1>4 DEF Inv

(* Cases that end without a comparison. *)
LEMMA GiveUpStep == Inv /\ (Unavailable \/ HeadFailed) => Inv'
<1> SUFFICES ASSUME Inv, Unavailable \/ HeadFailed PROVE Inv'
  OBVIOUS
<1>1. verdict' = "inconclusive" /\ UNCHANGED <<given, world, moves, heads, bases, movedBetween>>
  BY DEF Unavailable, HeadFailed
<1> QED
  BY <1>1 DEF given, Inv, TypeOK, HeadsFirst, Honest, Captures, SameWorldAcross, DecidedByComparison, Captured

(* Every step preserves the inductive invariant. *)
THEOREM NextInv == Inv /\ [Next]_vars => Inv'
<1> SUFFICES ASSUME Inv, [Next]_vars PROVE Inv'
  OBVIOUS
<1>1. CASE UNCHANGED vars
  BY <1>1 DEF vars, given, Inv, TypeOK, HeadsFirst, Honest, Captures, SameWorldAcross, DecidedByComparison,
              Captured, RolledBack, Outcomes
<1>2. CASE Next
  BY <1>2, MoveStep, RunHeadStep, RunBaseStep, DecideStep, GiveUpStep DEF Next
<1> QED
  BY <1>1, <1>2

-----------------------------------------------------------------------------
(* Two facts at a place are equal if both runs have it with one value, or
   neither has it. *)
LEMMA AtEqual ==
  ASSUME NEW f, NEW g, NEW p
  PROVE  At(f, p) = At(g, p) <=>
           /\ p \in DOMAIN f <=> p \in DOMAIN g
           /\ p \in DOMAIN f => f[p] = g[p]
<1>1. CASE p \in DOMAIN f /\ p \in DOMAIN g
  <2>1. At(f, p) = {f[p]} /\ At(g, p) = {g[p]}
    BY <1>1 DEF At
  <2> QED
    BY <1>1, <2>1
<1>2. CASE ~(p \in DOMAIN f /\ p \in DOMAIN g)
  BY <1>2 DEF At
<1> QED
  BY <1>1, <1>2

(* The same facts count as the same on both sides. *)
LEMMA SideEqual ==
  ASSUME NEW f, NEW g, NEW p, At(f, p) = At(g, p)
  PROVE  Side(f, p) = Side(g, p)
BY AtEqual DEF Side

(* The sides of the case, and what the nth run shows of one. *)
Sides == {scenario.head, scenario.base}
Facts(side, n, w) == OutcomeFacts(Captures(side, n, w))

(* Every run is one of a script that does what it may, with fresh keys. *)
LEMMA EveryRun ==
  ASSUME TypeOK, RowsAreInOrder, NEW side \in Sides, NEW n \in Runs, NEW w \in Worlds
  PROVE  IsRun(side[w], Database[w], supply.keys[n][w])
<1>1. IsDatabase(Database[w])
  BY WorldsAssumption
<1>2. IsEffect(side[w], Database[w])
  BY ScenariosAssumption DEF TypeOK, Sides
<1>3. SupplyIsSound(supply)
  BY SuppliesAssumption DEF TypeOK
<1>4. AreFresh(supply.keys[n][w])
  BY <1>3 DEF SupplyIsSound
<1>5. AreInOrder(side[w], supply.keys[n][w])
  <2> SUFFICES ASSUME NEW t \in DOMAIN side[w].writes, NEW i \in 1 .. Len(Done(side[w], t).new),
                      NEW j \in 1 .. Len(Done(side[w], t).new), i < j
               PROVE  supply.keys[n][w][t][i] < supply.keys[n][w][t][j]
    BY DEF AreInOrder
  <2>1. Len(Done(side[w], t).new) \in 0 .. MaxNew
    BY <1>2 DEF IsEffect
  <2>2. i \in 1 .. MaxNew /\ j \in 1 .. MaxNew
    BY <2>1, KeysAssumption
  <2>3. CASE t \in supply.ordered
    BY <1>3, <2>2, <2>3 DEF SupplyIsSound
  <2>4. CASE t \notin supply.ordered
    <3>1. Len(Done(side[w], t).new) <= 1
      BY <2>4 DEF RowsAreInOrder, Sides
    <3> QED
      BY <2>1, <3>1
  <2> QED
    BY <2>3, <2>4
<1> QED
  BY <1>1, <1>2, <1>4, <1>5 DEF IsRun

(* What a run shows is what its script does. *)
LEMMA FactsTold ==
  ASSUME TypeOK, RowsAreInOrder, NEW side \in Sides, NEW n \in Runs, NEW w \in Worlds
  PROVE  /\ DOMAIN Facts(side, n, w) = DOMAIN Does(side, w)
         /\ \A p \in DOMAIN Does(side, w) :
              Facts(side, n, w)[p] = Shown(p, Does(side, w)[p], supply.keys[n][w])
BY EveryRun, FactsOfCapture DEF Facts, Captures, Does

(* Where a script lets no key be seen, every run shows what it does. *)
LEMMA PlainFacts ==
  ASSUME TypeOK, RowsAreInOrder, NEW side \in Sides, NEW n \in Runs, NEW w \in Worlds, NEW p,
         p \in DOMAIN Does(side, w) => ~ShowsKey(p, Does(side, w)[p])
  PROVE  At(Facts(side, n, w), p) = At(Does(side, w), p)
BY FactsTold, AtEqual DEF Shown

(* A value shown with a key is known beforehand, or a row of the script. *)
LEMMA PlaceValue ==
  ASSUME TypeOK, NEW side \in Sides, NEW w \in Worlds, NEW p \in DOMAIN Does(side, w),
         p.kind \in {"result", "created", "updated"}
  PROVE  IsKnown(Does(side, w)[p]) \/ IsNew(side[w], Does(side, w)[p])
<1> DEFINE e == side[w]
           db == Database[w]
<1>1. IsEffect(e, db)
  BY ScenariosAssumption DEF TypeOK, Sides
<1>2. p \in ScriptPlaces(e, db) /\ Does(side, w)[p] = ScriptFactAt(e, p)
  BY DEF Does, ScriptFacts
<1>3. CASE p.kind = "result"
  BY <1>1, <1>2, <1>3 DEF ScriptFactAt, IsEffect
<1>4. CASE p.kind = "created"
  <2>1. /\ p.table \in DOMAIN e.writes /\ p.row \in 1 .. Len(Done(e, p.table).new)
        /\ p.field \in Compared(p.table)
    BY <1>2, <1>4, PlaceCases
  <2>2. IsWritten(e, p.table, p.field, Done(e, p.table).new[p.row][p.field])
    BY <1>1, <2>1 DEF IsEffect
  <2> QED
    BY <1>2, <1>4, <2>2 DEF ScriptFactAt, IsWritten
<1>5. CASE p.kind = "updated"
  <2>1. /\ p.table \in DOMAIN e.writes /\ p.row \in DOMAIN Done(e, p.table).set
        /\ p.field \in Compared(p.table)
    BY <1>2, <1>5, PlaceCases
  <2>2. IsWritten(e, p.table, p.field, Done(e, p.table).set[p.row][p.field])
    BY <1>1, <2>1 DEF IsEffect
  <2> QED
    BY <1>2, <1>5, <2>2 DEF ScriptFactAt, IsWritten
<1> QED
  BY <1>3, <1>4, <1>5

(* Finished runs are what the nth run shows of a side. *)
LEMMA RunsTold ==
  ASSUME Inv
  PROVE  /\ \A i \in 1 .. Len(heads) : heads[i].world \in Worlds
              /\ OutcomeFacts(heads[i].outcome) = Facts(scenario.head, i, heads[i].world)
         /\ \A i \in 1 .. Len(bases) : bases[i].world \in Worlds
              /\ OutcomeFacts(bases[i].outcome) = Facts(scenario.base, 2 + i, bases[i].world)
         /\ \A i \in 1 .. 2 : Outcomes(heads)[i] = heads[i].outcome /\ Outcomes(bases)[i] = bases[i].outcome
BY DEF Inv, TypeOK, Honest, Facts, Outcomes

-----------------------------------------------------------------------------
(* The invariant makes two runs of one script in one world agree, but where it
   shows a key. *)
LEMMA InvImpliesNoNoise == Inv => KeysAreNoNoise
<1>1. ASSUME Inv, RowsAreInOrder, NEW side \in Sides, NEW n \in Runs, NEW m \in Runs, NEW w \in Worlds, NEW p,
             At(Facts(side, n, w), p) # At(Facts(side, m, w), p)
      PROVE  p \in DOMAIN Does(side, w) /\ ShowsKey(p, Does(side, w)[p])
  BY <1>1, PlainFacts DEF Inv
<1> SUFFICES ASSUME Inv, RowsAreInOrder, NEW side \in {"head", "base"},
                    NEW runs, runs = IF side = "head" THEN heads ELSE bases,
                    Len(runs) = 2, runs[1].world = runs[2].world,
                    NEW p \in NoisyPlaces(Outcomes(runs))
             PROVE  LET facts == Does(scenario[side], runs[1].world)
                    IN p \in DOMAIN facts /\ ShowsKey(p, facts[p])
  BY DEF KeysAreNoNoise
<1>2. At(OutcomeFacts(runs[1].outcome), p) # At(OutcomeFacts(runs[2].outcome), p)
  BY RunsTold DEF NoisyPlaces, Outcomes
<1>3. CASE side = "head"
  <2>1. /\ OutcomeFacts(runs[1].outcome) = Facts(scenario.head, 1, runs[1].world)
        /\ OutcomeFacts(runs[2].outcome) = Facts(scenario.head, 2, runs[1].world)
        /\ runs[1].world \in Worlds
    <3>1. runs = heads /\ 1 \in 1 .. Len(heads) /\ 2 \in 1 .. Len(heads)
      BY <1>3
    <3> QED
      BY <3>1, RunsTold
  <2> QED
    BY <1>1, <1>2, <1>3, <2>1 DEF Sides, Runs
<1>4. CASE side = "base"
  <2>1. /\ OutcomeFacts(runs[1].outcome) = Facts(scenario.base, 3, runs[1].world)
        /\ OutcomeFacts(runs[2].outcome) = Facts(scenario.base, 4, runs[1].world)
        /\ runs[1].world \in Worlds
    <3>1. runs = bases
      BY <1>4
    <3>2. 1 \in 1 .. Len(bases) /\ 2 \in 1 .. Len(bases)
      BY <3>1
    <3>3. 2 + 1 = 3 /\ 2 + 2 = 4
      OBVIOUS
    <3> QED
      BY <3>1, <3>2, <3>3, RunsTold
  <2> QED
    BY <1>1, <1>2, <1>4, <2>1 DEF Sides, Runs
<1> QED
  BY <1>3, <1>4

(* Two runs of a side that show one value at a place where the other side,
   doing the same there in the world of the second, shows another, cannot
   both be right: the key they share would have been handed out twice. *)
LEMMA SameDoesSameShows ==
  ASSUME TypeOK, RowsAreInOrder, NEW u \in Worlds, NEW w \in Worlds, NEW p,
         At(Facts(scenario.head, 1, u), p) = At(Facts(scenario.head, 2, w), p),
         At(Does(scenario.head, w), p) = At(Does(scenario.base, w), p)
  PROVE  At(Facts(scenario.head, 2, w), p) = At(Facts(scenario.base, 3, w), p)
<1> DEFINE head == Does(scenario.head, w)
           base == Does(scenario.base, w)
           before == Does(scenario.head, u)
           v == head[p]
           x == before[p]
<1>1. /\ scenario.head \in Sides /\ scenario.base \in Sides
      /\ 1 \in Runs /\ 2 \in Runs /\ 3 \in Runs
  BY DEF Sides, Runs
<1>2. CASE p \notin DOMAIN head
  <2>1. p \notin DOMAIN base
    BY <1>2, AtEqual
  <2>2. p \notin DOMAIN Facts(scenario.head, 2, w) /\ p \notin DOMAIN Facts(scenario.base, 3, w)
    BY <1>1, <1>2, <2>1, FactsTold
  <2> QED
    BY <2>2, AtEqual
<1>3. CASE p \in DOMAIN head
  <2>1. p \in DOMAIN base /\ base[p] = v
    BY <1>3, AtEqual
  <2>2. /\ Facts(scenario.head, 2, w)[p] = Shown(p, v, supply.keys[2][w])
        /\ Facts(scenario.base, 3, w)[p] = Shown(p, v, supply.keys[3][w])
        /\ p \in DOMAIN Facts(scenario.head, 2, w) /\ p \in DOMAIN Facts(scenario.base, 3, w)
    BY <1>1, <1>3, <2>1, FactsTold
  <2>3. SUFFICES ASSUME Shown(p, v, supply.keys[2][w]) # Shown(p, v, supply.keys[3][w]) PROVE FALSE
    BY <2>2, AtEqual
  <2>4. /\ ShowsKey(p, v) /\ v.nth # 0
        /\ Shown(p, v, supply.keys[2][w]) = Concrete(v, supply.keys[2][w])
        /\ Shown(p, v, supply.keys[3][w]) = Concrete(v, supply.keys[3][w])
    BY <2>3 DEF Shown, ShowsKey
  <2>5. IsKnown(v) \/ IsNew(scenario.head[w], v)
    BY <1>1, <1>3, <2>4, PlaceValue DEF ShowsKey
  <2>6. /\ v.of \in DOMAIN scenario.head[w].writes /\ v.nth \in 1 .. Len(Done(scenario.head[w], v.of).new)
        /\ Concrete(v, supply.keys[2][w]).of = v.of /\ Concrete(v, supply.keys[2][w]).nth = 0
        /\ Concrete(v, supply.keys[2][w]).key = supply.keys[2][w][v.of][v.nth]
        /\ Concrete(v, supply.keys[2][w]).key > MaxKnown
    BY <1>1, <2>4, <2>5, EveryRun, WrittenValue
  <2>7. v.of \in Tables /\ v.nth \in 1 .. MaxNew
    BY <1>1, <2>6, EveryRun, EffectFacts, KeysAssumption
  <2>8. SupplyIsSound(supply)
    BY SuppliesAssumption DEF TypeOK
  <2>9. v.of \notin supply.reused
    <3>1. SUFFICES ASSUME v.of \in supply.reused PROVE FALSE
      OBVIOUS
    <3>2. supply.keys[2][w][v.of] = supply.keys[3][w][v.of]
      BY <1>1, <2>8, <3>1 DEF SupplyIsSound
    <3>3. Concrete(v, supply.keys[2][w]) = Concrete(v, supply.keys[3][w])
      BY <3>2 DEF Concrete
    <3> QED
      BY <2>3, <2>4, <3>3
  <2>10. p \in DOMAIN before /\ Shown(p, x, supply.keys[1][u]) = Concrete(v, supply.keys[2][w])
    <3>1. p \in DOMAIN Facts(scenario.head, 1, u)
          /\ Facts(scenario.head, 1, u)[p] = Facts(scenario.head, 2, w)[p]
      BY <2>2, AtEqual
    <3>2. p \in DOMAIN before /\ Facts(scenario.head, 1, u)[p] = Shown(p, x, supply.keys[1][u])
      BY <1>1, <3>1, FactsTold
    <3> QED
      BY <2>2, <2>4, <3>1, <3>2
  <2>11. IsKnown(x) \/ IsNew(scenario.head[u], x)
    BY <1>1, <2>4, <2>10, PlaceValue DEF ShowsKey
  <2>12. CASE x.nth = 0
    <3>1. Concrete(x, supply.keys[1][u]) = x /\ x.key <= MaxKnown /\ x.key \in Nat
      BY <1>1, <2>11, <2>12, EveryRun, WrittenValue
    <3>2. x = Concrete(v, supply.keys[2][w])
      BY <2>10, <3>1 DEF Shown
    <3> QED
      BY <2>6, <3>1, <3>2, KeysAssumption
  <2>13. CASE x.nth # 0
    <3>1. /\ x.of \in DOMAIN scenario.head[u].writes /\ x.nth \in 1 .. Len(Done(scenario.head[u], x.of).new)
          /\ Concrete(x, supply.keys[1][u]).of = x.of
          /\ Concrete(x, supply.keys[1][u]).key = supply.keys[1][u][x.of][x.nth]
      BY <1>1, <2>11, <2>13, EveryRun, WrittenValue
    <3>2. Concrete(x, supply.keys[1][u]) = Concrete(v, supply.keys[2][w])
      BY <2>6, <2>10, <2>13 DEF Shown
    <3>3. x.of = v.of /\ supply.keys[1][u][v.of][x.nth] = supply.keys[2][w][v.of][v.nth]
      BY <2>6, <3>1, <3>2
    <3>4. x.nth \in 1 .. MaxNew
      BY <1>1, <3>1, EveryRun, EffectFacts, KeysAssumption
    <3>5. supply.keys[1][u][v.of][x.nth] # supply.keys[2][w][v.of][v.nth]
      <4>1. 1 \in Runs \ {2} /\ 2 \in Runs /\ v.of \in Tables \ supply.reused
        BY <2>7, <2>9 DEF Runs
      <4>2. \A i, j \in 1 .. MaxNew : supply.keys[1][u][v.of][j] # supply.keys[2][w][v.of][i]
        BY <2>8, <4>1 DEF SupplyIsSound
      <4> QED
        BY <2>7, <3>4, <4>2
    <3> QED
      BY <3>3, <3>5
  <2> QED
    BY <2>12, <2>13
<1> QED
  BY <1>2, <1>3

-----------------------------------------------------------------------------
(* The invariant rules out that a confirmed verdict blames what did not change. *)
LEMMA InvImpliesCaused == Inv => ConfirmedIsCausedByChange
<1> SUFFICES ASSUME Inv, verdict = "confirmed", ~movedBetween, RowsAreInOrder PROVE CausedByChange
  BY DEF ConfirmedIsCausedByChange
<1> DEFINE u == heads[1].world
           w == heads[2].world
           v == bases[2].world
           h1 == Facts(scenario.head, 1, u)
           h2 == Facts(scenario.head, 2, w)
           b1 == Facts(scenario.base, 3, w)
           b2 == Facts(scenario.base, 4, v)
<1>1. /\ Len(heads) = 2 /\ Len(bases) = 2
      /\ CompareRunsOf(Outcomes(bases), Outcomes(heads), predicted) = "confirmed"
  BY DEF Inv, DecidedByComparison
<1>2. bases[1].world = w
  BY <1>1 DEF Inv, SameWorldAcross
<1>3. /\ u \in Worlds /\ w \in Worlds /\ v \in Worlds
      /\ OutcomeFacts(Outcomes(heads)[1]) = h1 /\ OutcomeFacts(Outcomes(heads)[2]) = h2
      /\ OutcomeFacts(Outcomes(bases)[1]) = b1 /\ OutcomeFacts(Outcomes(bases)[2]) = b2
  <2>1. 1 \in 1 .. Len(heads) /\ 2 \in 1 .. Len(heads) /\ 1 \in 1 .. Len(bases) /\ 2 \in 1 .. Len(bases)
    BY <1>1
  <2>2. 1 \in 1 .. 2 /\ 2 \in 1 .. 2 /\ 2 + 1 = 3 /\ 2 + 2 = 4
    OBVIOUS
  <2> QED
    BY <1>2, <2>1, <2>2, RunsTold
<1>4. PICK p \in Differences(Outcomes(bases), Outcomes(heads)) : Predicted(p, predicted)
  BY <1>1 DEF CompareRunsOf
<1>5. /\ p \in DOMAIN b1 \cup DOMAIN h1 /\ p \notin Noisy(Outcomes(bases), Outcomes(heads))
      /\ Side(b1, p) # Side(h1, p)
  BY <1>3, <1>4 DEF Differences
<1>6. At(h1, p) = At(h2, p)
  <2>1. p \notin NoisyPlaces(Outcomes(heads))
    BY <1>5 DEF Noisy
  <2>2. p \notin {q \in DOMAIN h1 \cup DOMAIN h2 : At(h1, q) # At(h2, q)}
    BY <1>3, <2>1 DEF NoisyPlaces
  <2>3. CASE p \in DOMAIN h1 \cup DOMAIN h2
    BY <2>2, <2>3
  <2>4. CASE p \notin DOMAIN h1 \cup DOMAIN h2
    BY <2>4, AtEqual
  <2> QED
    BY <2>3, <2>4
<1>7. At(h2, p) # At(b1, p)
  BY <1>5, <1>6, SideEqual
<1>8. p \in DOMAIN h2 \cup DOMAIN b1
  <2> HIDE DEF h1, h2, b1
  <2>1. p \in DOMAIN h1 <=> p \in DOMAIN h2
    BY <1>6, AtEqual
  <2> QED
    BY <1>5, <2>1
<1>9. DOMAIN h2 = DOMAIN Does(scenario.head, w) /\ DOMAIN b1 = DOMAIN Does(scenario.base, w)
  <2>1. scenario.head \in Sides /\ scenario.base \in Sides /\ 2 \in Runs /\ 3 \in Runs
    BY DEF Sides, Runs
  <2> QED
    BY <1>3, <2>1, FactsTold DEF Inv
<1>10. At(Does(scenario.head, w), p) # At(Does(scenario.base, w), p)
  BY <1>3, <1>6, <1>7, SameDoesSameShows DEF Inv
<1> QED
  BY <1>3, <1>4, <1>8, <1>9, <1>10 DEF CausedByChange

(* A place where each side always shows one value, the two differing, is a
   difference of the comparison, unless it is a field of a one-sided row. *)
LEMMA SteadyPlaceDiffers ==
  ASSUME NEW b, NEW h, NEW p,
         At(OutcomeFacts(b[1]), p) = At(OutcomeFacts(b[2]), p),
         At(OutcomeFacts(h[1]), p) = At(OutcomeFacts(h[2]), p),
         Side(OutcomeFacts(b[1]), p) # Side(OutcomeFacts(h[1]), p),
         ~OneSidedRow(OutcomeFacts(b[1]), OutcomeFacts(h[1]), p)
  PROVE  p \in Differences(b, h)
<1>1. p \notin Noisy(b, h)
  BY DEF Noisy, NoisyPlaces
<1>2. p \in DOMAIN OutcomeFacts(b[1]) \cup DOMAIN OutcomeFacts(h[1])
  <2>1. CASE p \notin DOMAIN OutcomeFacts(b[1]) \cup DOMAIN OutcomeFacts(h[1])
    BY <2>1, AtEqual, SideEqual
  <2> QED
    BY <2>1
<1> QED
  BY <1>1, <1>2 DEF Differences

(* Whoever predicts a field of a new row predicts the number of rows. *)
LEMMA PredictsCount ==
  ASSUME predicted \subseteq Prediction, NEW p, p.kind = "created", Predicted(p, predicted)
  PROVE  Predicted(Count(p.table), predicted) /\ Count(p.table).kind = "count"
<1>1. PICK prediction \in predicted : Matches(p, prediction)
  BY DEF Predicted
<1>2. prediction.kind = "model"
  BY <1>1 DEF Matches, Prediction
<1>3. Matches(Count(p.table), prediction)
  BY <1>1, <1>2 DEF Matches, Count, Place
<1> QED
  BY <1>3 DEF Predicted, Count, Place

(* A difference that every run shows is among the differences compared. *)
LEMMA InvImpliesNotRefuted == Inv => PlainRegressionIsNotRefuted
<1> SUFFICES ASSUME Inv, verdict = "refuted", RowsAreInOrder, PlainRegression PROVE FALSE
  BY DEF PlainRegressionIsNotRefuted
<1> DEFINE b == Outcomes(bases)
           h == Outcomes(heads)
           u == heads[1].world
           v == bases[1].world
<1>1. Len(heads) = 2 /\ Len(bases) = 2 /\ CompareRunsOf(b, h, predicted) = "refuted"
  BY DEF Inv, DecidedByComparison
<1>2. \A p \in Differences(b, h) : ~Predicted(p, predicted)
  BY <1>1 DEF CompareRunsOf
<1>3. ASSUME NEW q, ShowsAlways(q)
      PROVE  /\ At(OutcomeFacts(b[1]), q) = At(OutcomeFacts(b[2]), q)
             /\ At(OutcomeFacts(h[1]), q) = At(OutcomeFacts(h[2]), q)
             /\ At(OutcomeFacts(b[1]), q) = At(Does(scenario.base, u), q)
             /\ At(OutcomeFacts(h[1]), q) = At(Does(scenario.head, u), q)
             /\ u \in Worlds
  <2>1. /\ scenario.head \in Sides /\ scenario.base \in Sides
        /\ 1 \in Runs /\ 2 \in Runs /\ 3 \in Runs /\ 4 \in Runs
    BY DEF Sides, Runs
  <2>2. ASSUME NEW side \in Sides, NEW n \in Runs, NEW w \in Worlds
        PROVE  u \in Worlds => At(Facts(side, n, w), q) = At(Does(side, u), q)
    <3>1. q \in DOMAIN Does(side, w) => ~ShowsKey(q, Does(side, w)[q])
      BY <1>3 DEF ShowsAlways, Sides
    <3>2. At(Facts(side, n, w), q) = At(Does(side, w), q)
      BY <3>1, PlainFacts DEF Inv
    <3> QED
      BY <1>3, <3>2 DEF ShowsAlways, Sides
  <2>3. /\ heads[1].world \in Worlds /\ heads[2].world \in Worlds
        /\ bases[1].world \in Worlds /\ bases[2].world \in Worlds
        /\ OutcomeFacts(h[1]) = Facts(scenario.head, 1, heads[1].world)
        /\ OutcomeFacts(h[2]) = Facts(scenario.head, 2, heads[2].world)
        /\ OutcomeFacts(b[1]) = Facts(scenario.base, 3, bases[1].world)
        /\ OutcomeFacts(b[2]) = Facts(scenario.base, 4, bases[2].world)
    <3>1. 1 \in 1 .. Len(heads) /\ 2 \in 1 .. Len(heads) /\ 1 \in 1 .. Len(bases) /\ 2 \in 1 .. Len(bases)
      BY <1>1
    <3>2. 1 \in 1 .. 2 /\ 2 \in 1 .. 2 /\ 2 + 1 = 3 /\ 2 + 2 = 4
      OBVIOUS
    <3> QED
      BY <3>1, <3>2, RunsTold
  <2> QED
    BY <2>1, <2>2, <2>3
<1>4. ASSUME NEW q, ShowsAlways(q), Predicted(q, predicted),
             ~OneSidedRow(OutcomeFacts(b[1]), OutcomeFacts(h[1]), q)
      PROVE  FALSE
  <2>1. Side(Does(scenario.head, u), q) # Side(Does(scenario.base, u), q)
    BY <1>3, <1>4 DEF ShowsAlways
  <2>2. Side(OutcomeFacts(b[1]), q) # Side(OutcomeFacts(h[1]), q)
    BY <1>3, <1>4, <2>1, SideEqual
  <2>3. q \in Differences(b, h)
    BY <1>3, <1>4, <2>2, SteadyPlaceDiffers
  <2> QED
    BY <1>2, <1>4, <2>3
<1>5. PICK p : /\ Predicted(p, predicted) /\ ShowsAlways(p)
               /\ IsOneSided(p) => ShowsAlways(Count(p.table))
  BY DEF PlainRegression
<1>6. CASE OneSidedRow(OutcomeFacts(b[1]), OutcomeFacts(h[1]), p)
  <2>1. /\ p \in DOMAIN OutcomeFacts(b[1]) <=> p \in DOMAIN Does(scenario.base, u)
        /\ p \in DOMAIN OutcomeFacts(h[1]) <=> p \in DOMAIN Does(scenario.head, u)
    BY <1>3, <1>5, AtEqual
  <2>2. p.kind = "created" /\ OneSidedRow(Does(scenario.base, u), Does(scenario.head, u), p)
    BY <1>6, <2>1 DEF OneSidedRow
  <2>3. ShowsAlways(Count(p.table))
    BY <1>3, <1>5, <2>2 DEF IsOneSided
  <2>4. Predicted(Count(p.table), predicted) /\ Count(p.table).kind = "count"
    BY <1>5, <2>2, PredictsCount, PredictionsAssumption DEF Inv, TypeOK
  <2> QED
    BY <1>4, <2>3, <2>4 DEF OneSidedRow
<1> QED
  BY <1>4, <1>5, <1>6

(* Type correctness, for every scenario and bound. *)
THEOREM TypeCorrect == Spec => []TypeOK
<1>1. Inv => TypeOK
  BY DEF Inv
<1> QED
  BY InitInv, NextInv, <1>1, PTL DEF Spec

(* A confirmed verdict is caused by the pull request unless the world moved
   between the head runs and the base runs, or a table with random keys got
   two new rows. *)
THEOREM ConfirmedCorrect == Spec => []ConfirmedIsCausedByChange
BY InitInv, NextInv, InvImpliesCaused, PTL DEF Spec

(* If no table with random keys gets two new rows, a regression that every run
   shows at a predicted place is never refuted, however the world moves and
   whether the keys of the other tables are new or come again. *)
THEOREM NotRefutedCorrect == Spec => []PlainRegressionIsNotRefuted
BY InitInv, NextInv, InvImpliesNotRefuted, PTL DEF Spec

(* If no table with random keys gets two new rows, the keys of new rows and
   auto_now fields make no noise, but where the script shows a key. *)
THEOREM NoNoiseCorrect == Spec => []KeysAreNoNoise
BY InitInv, NextInv, InvImpliesNoNoise, PTL DEF Spec

(* Verdicts rest on four captured runs that were found rolled back. *)
THEOREM RolledBackCorrect == Spec => []VerdictIsRolledBack
<1>1. Inv => VerdictIsRolledBack
  BY DEF Inv, DecidedByComparison, VerdictIsRolledBack
<1> QED
  BY InitInv, NextInv, <1>1, PTL DEF Spec
=============================================================================

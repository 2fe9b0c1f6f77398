----------------------------- MODULE TestShards -----------------------------
(***************************************************************************)
(* The distribution of the kept tests over parallel pytest processes       *)
(* (assign_shards and Selector.apply in _trace_plugin.py).  Every process  *)
(* computes it for itself from the same tests and recorded durations.      *)
(* Units, the classes and modules that stay together, are numbers in the   *)
(* order of their names; shards are numbered from 0.                       *)
(***************************************************************************)
EXTENDS Integers, FiniteSets, SequencesExt

CONSTANTS UnitOf, ShardCount, DefaultDuration

ASSUME ShardsAssumption == ShardCount \in Nat \ {0} /\ DefaultDuration \in Nat

Shards == 0 .. ShardCount - 1

(* Durations of `tests` for the packing: a test without a recorded one is
   estimated at the median of those recorded. *)
Estimates(tests, durations) ==
  LET known == DOMAIN durations
      half == Cardinality(known) \div 2
      median == CHOOSE d \in {durations[t] : t \in known} :
                  /\ Cardinality({t \in known : durations[t] < d}) <= half
                  /\ Cardinality({t \in known : durations[t] <= d}) > half
      fallback == IF known = {} THEN DefaultDuration ELSE median
  IN [t \in tests |-> IF t \in known THEN durations[t] ELSE fallback]

Seconds(estimates, tests) == SumFunctionOnSet(estimates, tests)
TestsOf(unit, estimates) == {t \in DOMAIN estimates : UnitOf[t] = unit}

\* Mutant: the packing takes the units as they are collected.
InNameOrder(estimates, u, v) == u < v

\* Unit u is placed before unit v.
LongestFirst(estimates, u, v) ==
  LET seconds(w) == Seconds(estimates, TestsOf(w, estimates))
  IN seconds(u) > seconds(v) \/ (seconds(u) = seconds(v) /\ u < v)

LeastLoaded(loads) ==
  CHOOSE p \in Shards :
    \A q \in Shards : loads[p] < loads[q] \/ (loads[p] = loads[q] /\ p <= q)

(* Longest processing time first: each unit goes to the shard with the least
   load, the lowest index among equals. *)
AssignShards(estimates) ==
  LET units == {UnitOf[t] : t \in DOMAIN estimates}
      start == [loads |-> [p \in Shards |-> 0], shard |-> [u \in units |-> 0]]
      place(unit, packing) ==
        LET p == LeastLoaded(packing.loads)
        IN [loads |-> [packing.loads EXCEPT
                         ![p] = @ + Seconds(estimates, TestsOf(unit, estimates))],
            shard |-> [packing.shard EXCEPT ![unit] = p]]
      last(some) == CHOOSE u \in some : \A v \in some \ {u} : LongestFirst(estimates, v, u)
      packing == MapThenFoldSet(place, start, LAMBDA u : u, last, units)
  IN [t \in DOMAIN estimates |-> packing.shard[UnitOf[t]]]

(* The reference: the longest shard of the best possible packing. *)
Makespan(shard, estimates) ==
  Max({Seconds(estimates, {t \in DOMAIN estimates : shard[UnitOf[t]] = p}) : p \in Shards})

BestMakespan(estimates) ==
  Min({Makespan(shard, estimates) : shard \in [{UnitOf[t] : t \in DOMAIN estimates} -> Shards]})
=============================================================================

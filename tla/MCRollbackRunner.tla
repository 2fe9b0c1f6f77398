-------------------------- MODULE MCRollbackRunner --------------------------
(***************************************************************************)
(* Two tables, one of them too large to be copied, with two keys each.     *)
(***************************************************************************)
EXTENDS RollbackRunner

MCTables == {"orders", "log"}
MCDatabases ==
  {[t \in MCTables |-> IF t = "orders" THEN <<first, "none">> ELSE <<"one", "none">>] : first \in {"one", "none"}}
MCScriptChecks ==
  {{}, {[table |-> "orders", key |-> 2, row |-> "none"], [table |-> "orders", key |-> 1, row |-> "one"]}}
=============================================================================

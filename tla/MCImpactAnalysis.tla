-------------------------- MODULE MCImpactAnalysis --------------------------
(***************************************************************************)
(* A small Django project: `checkout` writes a model whose saving calls    *)
(* the receiver `log`; `report` and the method `audit report` (the same    *)
(* bare name in the same file) read the field; `view` serves a route and   *)
(* calls `checkout`, which calls `pay`.                                    *)
(***************************************************************************)
EXTENDS ImpactAnalysis

MCKey == [s \in {"checkout", "log", "report", "audit report", "view", "pay", "Order.total", "/orders"} |->
            IF s = "audit report" THEN "report" ELSE s]
MCKeys == {"checkout", "log", "report", "view", "pay", "Order.total", "/orders"}

Reference(f, access) == [model |-> "Order", field |-> "total", function |-> f, access |-> access]
Receiver(sender, receiver) == [signal |-> "saved", sender |-> sender, receiver |-> receiver, ofModels |-> TRUE]
Caller(of, chain) == [of |-> of, chain |-> chain]
Callee(of, callee) == [of |-> of, callee |-> callee]

Project(changed) ==
  [changed |-> changed,
   references |-> {Reference("checkout", "write"), Reference("report", "read"), Reference("audit report", "read")},
   signals |-> {Receiver("Order", "log")},
   urls |-> {[route |-> "/orders", view |-> "view"]},
   fields |-> {},
   traces |-> <<[callers |-> {Caller("checkout", <<"view">>), Caller("checkout", <<"report", "view">>)},
                 callees |-> {Callee("checkout", "pay"), Callee("checkout", "checkout")}],
                [callers |-> {Caller("checkout", <<"audit report">>), Caller("log", <<"checkout", "view">>)},
                 callees |-> {Callee("checkout", "log"), Callee("checkout", "pay")}]>>]

MCProjects ==
  {Project(<<"checkout">>),
   Project(<<"log", "checkout">>),
   Project(<<"view", "log", "checkout">>),   \* the third is not asked about
   [Project(<<"checkout">>) EXCEPT !.signals = {Receiver(NoSender, "log"), Receiver(NoSender, "report")},
                                   !.traces = <<>>],
   [Project(<<>>) EXCEPT !.fields = {[model |-> "Order", field |-> "total", symbol |-> "Order.total"]}],
   Project(<<"pay">>)}                       \* no path

(* GitNexus knows calls; it may miss the receiver, and know one of the two
   functions called `report`. *)
Calls(reports) ==
  [q \in MCKeys \X Directions |->
     CASE q = <<"checkout", "downstream">> -> {"pay"} \cup reports
       [] q = <<"checkout", "upstream">> -> {"view"}
       [] q = <<"view", "downstream">> -> {"checkout"}
       [] q = <<"pay", "upstream">> -> {"checkout", "view"}
       [] OTHER -> {}]

MCGraphs == {Calls({}), Calls({"report"}), [Calls({"log"}) EXCEPT ![<<"log", "upstream">>] = {"checkout"}]}
=============================================================================

--------------------------- MODULE MCTestSelection ---------------------------
(***************************************************************************)
(* A small project: an application module with a property, a function that *)
(* imports a module when it is called and a signal; a conftest.py with a   *)
(* fixture; two test modules; heads that change one or two of these.       *)
(***************************************************************************)
EXTENDS TestSelection

MCFiles == {"app", "conf", "late", "tA", "tB", "tC", "page", "notes", "settings"}
MCDefinitions ==
  {"total getter", "total setter", "price", "discount", "load", "build", "db", "client", "poll", "hook", "a1", "a2", "b", "c"}
MCTests == {"a1", "a2", "b", "c"}
MCKind == [f \in MCFiles |-> CASE f = "page" -> "data"
                               [] f = "notes" -> "documentation"
                               [] f = "settings" -> "full_run_path"
                               [] OTHER -> "python"]
MCFileOf == [d \in MCDefinitions |->
  CASE d \in {"db", "client"} -> "conf" [] d = "build" -> "late" [] d \in {"a1", "a2"} -> "tA"
    [] d = "b" -> "tB" [] d = "c" -> "tC" [] OTHER -> "app"]
MCSymbolOf == [d \in MCDefinitions |->
  "py:" \o IF d \in {"total getter", "total setter"} THEN "total" ELSE d]
MCOrder == [d \in MCDefinitions |-> IF d = "total getter" THEN 1 ELSE 2]
MCMethods == {"total getter", "total setter", "discount", "a1", "a2"}

Text(version, uses, sends, on) == [text |-> version, uses |-> uses, sends |-> sends, on |-> on]
Code(uses) == Text("one", uses, {}, {})
MCAbsent == Text("absent", {}, {}, {})
MCBroken == Text("broken", {}, {}, {})
Changed(content) == [content EXCEPT !.text = "two"]
Connected(content) == [content EXCEPT !.on = {"saved"}]

(* a1 and a2 share the fixture db and call price, which imports late when it is
   called; late and app call a function when they are imported; a1 and a2 save; a2
   calls a method that its class inherits; tB imports tA.  a2 asks for the fixture
   client of a1 while it runs; client and a2 start a thread that runs poll. *)
MCBase ==
  [n \in MCFiles \cup MCDefinitions |->
     CASE n \in {"hook", "discount", "c", "tC"} -> MCAbsent
       [] n = "a1" -> Text("one", {"total getter", "total setter", "price"}, {"saved"}, {})
       [] n = "a2" -> Text("one", {"price", "discount", "poll"}, {"saved"}, {})
       [] n = "b" -> Code({"price"})
       [] n = "tB" -> Code({"tA"})
       [] n = "price" -> Code({"late"})
       [] n = "late" -> Code({"build"})
       [] n = "app" -> Code({"load"})
       [] n = "db" -> Code({"page"})
       [] n = "client" -> Code({"poll"})
       [] OTHER -> Code({})]

MCAutoLoaded == {"app", "conf"}
MCFixtures == {"db", "client"}
MCClosure == [t \in MCTests |-> CASE t = "a1" -> {"db", "client"} [] t = "a2" -> {"db"} [] OTHER -> {}]
MCRequests == [t \in MCTests |-> IF t = "a2" THEN {"client"} ELSE {}]
MCThreads == {"poll"}
MCRoots == [t \in MCTests |-> {t, MCFileOf[t]} \cup MCAutoLoaded \cup MCClosure[t] \cup MCRequests[t]]

With(c, nodes, content) == [n \in DOMAIN c |-> IF n \in nodes THEN content ELSE c[n]]
Edit(c, n) == With(c, {n}, Changed(c[n]))

WithNewTest(c) == With(c, {"tC", "c"}, Code({"price"}))

Edited == <<"total getter", "price", "load", "build", "db", "client", "poll", "app", "tA", "page">>
Extended ==
  <<With(MCBase, {"discount"}, Code({})), With(MCBase, {"hook"}, Connected(Code({}))),
    With(MCBase, {"total setter"}, Connected(Code({}))),
    With(MCBase, {"tB", "b"}, MCAbsent), With(MCBase, {"total setter"}, MCAbsent)>>

MCHookHeads == <<With(MCBase, {"hook"}, Connected(Code({})))>>
MCHeads ==
  MCHookHeads
    \o <<Edit(MCBase, "notes"), Edit(MCBase, "total getter"), Edit(MCBase, "settings"),
         With(MCBase, {"tA"}, MCBroken)>>
    \o [i \in DOMAIN Extended |-> WithNewTest(Extended[i])]
    \o [i \in DOMAIN Edited |-> WithNewTest(Edit(MCBase, Edited[i]))]

MCContents == {MCHeads[h][n] : h \in DOMAIN MCHeads, n \in MCFiles \cup MCDefinitions}
                \cup {MCBase[n] : n \in MCFiles \cup MCDefinitions} \cup {MCAbsent, MCBroken}

(* Units in the order of names: tC, the class of a1 and a2, tB. *)
MCUnitOf == [t \in MCTests |-> CASE t = "c" -> 1 [] t = "b" -> 3 [] OTHER -> 2]
MCDurations == {[t \in MCTests |-> IF t = "b" THEN 4 ELSE 1], [t \in MCTests |-> IF t = "a1" THEN 3 ELSE 2]}
=============================================================================

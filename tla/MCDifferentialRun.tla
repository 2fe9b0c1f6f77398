-------------------------- MODULE MCDifferentialRun --------------------------
(***************************************************************************)
(* A small shop: products with a stock, orders, and lines with foreign     *)
(* keys to both.  An order has an auto_now field, and a reference in text  *)
(* that may contain the key of a line.                                     *)
(***************************************************************************)
EXTENDS DifferentialRun

CONSTANTS Product, Order, Line, stock, reference, saved, order, product

MCTables == {Product, Order, Line}
MCFields == {stock, reference, saved, order, product}
MCFieldsOf == [t \in MCTables |-> CASE t = Product -> {stock} [] t = Order -> {reference, saved}
                                    [] t = Line -> {order, product}]
MCVolatile == [t \in MCTables |-> IF t = Order THEN {saved} ELSE {}]
MCTarget == [t \in MCTables |-> [f \in MCFields |->
               CASE t = Line /\ f = order -> Order [] t = Line /\ f = product -> Product [] OTHER -> NoTable]]

Text(text) == [text |-> text, of |-> NoTable, key |-> 0, nth |-> 0]
Known(t, key) == [text |-> "", of |-> t, key |-> key, nth |-> 0]
Naming(text, t, i) == [text |-> text, of |-> t, key |-> 0, nth |-> i]

Item(value) == [f \in {stock} |-> Text(value)]
Bought(refers) == [f \in {reference} |-> refers]
Of(theOrder, theProduct) == [f \in {order, product} |-> IF f = order THEN theOrder ELSE theProduct]

MCWorlds == {"today", "tomorrow"}
MCDatabase ==
  [w \in MCWorlds |->
     [t \in MCTables |->
        CASE t = Product -> [k \in {1} |-> Item("one")]
          [] t = Order -> [k \in (IF w = "today" THEN {1} ELSE {1, 2}) |->
                             [f \in {reference, saved} |-> Text("")]]
          [] t = Line -> [k \in {1} |-> Of(Known(Order, 1), Known(Product, 1))]]]

-----------------------------------------------------------------------------
NoRows == [k \in {} |-> Item("")]
Creates(rows) == [new |-> rows, set |-> NoRows, gone |-> {}]
Sets(k, row) == [new |-> <<>>, set |-> [j \in {k} |-> row], gone |-> {}]
Removes(k) == [new |-> <<>>, set |-> NoRows, gone |-> {k}]

Effect(error, result, writes) == [error |-> error, result |-> result, writes |-> writes]
On(t, change) == [u \in {t} |-> change]
Returns(value) == Effect("none", value, On(Product, Nothing))
Raises(error, t) == Effect(error, Text(""), On(t, Creates(<<>>)))
Writes(t, change) == Effect("none", Text(""), On(t, change))
Stock(value) == Writes(Product, Sets(1, Item(value)))

(* Two orders, and a line for one of them, whose key may get into the order. *)
Orders(n, refers) == [i \in 1 .. n |-> Bought(refers)]
Purchase(n, which, refers) ==
  Effect("none", Text(""),
         [t \in {Order, Line} |-> IF t = Order THEN Creates(Orders(n, refers))
                                  ELSE Creates(<<Of(which, Known(Product, 1))>>)])
NewOrder(i) == Naming("", Order, i)

TwoOrders(first, second) == Writes(Order, Creates(<<Bought(Text(first)), Bought(Text(second))>>))

Always(effect) == [w \in MCWorlds |-> effect]
ByDay(first, second) == [w \in MCWorlds |-> IF w = "today" THEN first ELSE second]
Script(head, base) == [head |-> head, base |-> base]
OnlyOnHead(head, error) == Script(head, Always(Raises(error, Product)))

MCScenarios ==
  { \* a stock that changes, by the change or by day
    Script(Always(Stock("two")), Always(Stock("one"))),
    Script(ByDay(Stock("two"), Stock("one")), Always(Stock("one"))),
    Script(ByDay(Returns(Text("one")), Returns(Text("two"))), ByDay(Returns(Text("one")), Returns(Text("two")))),
    \* the line belongs to the second order, to the first, to an order that was there
    Script(Always(Purchase(2, NewOrder(2), Text(""))), Always(Purchase(2, NewOrder(2), Text("")))),
    Script(Always(Purchase(2, NewOrder(1), Text(""))), Always(Purchase(2, NewOrder(2), Text("")))),
    Script(Always(Purchase(1, NewOrder(1), Text(""))), Always(Purchase(1, Known(Order, 1), Text("")))),
    \* an order names the key of its line, the result that of an order
    Script(Always(Purchase(1, NewOrder(1), Naming("line", Line, 1))),
           Always(Purchase(1, NewOrder(1), Naming("line", Line, 1)))),
    Script(Always(Purchase(1, NewOrder(1), Naming("line", Line, 1))), Always(Purchase(1, NewOrder(1), Text("one")))),
    Script(Always(Effect("none", NewOrder(1), On(Order, Creates(Orders(1, Text("")))))),
           ByDay(Effect("none", Known(Order, 1), On(Order, Creates(Orders(1, Text(""))))),
                 Effect("none", NewOrder(1), On(Order, Creates(Orders(1, Text(""))))))),
    \* a value of one of two new rows
    Script(Always(TwoOrders("one", "two")), Always(TwoOrders("one", "one"))),
    \* rows on one side only, rows by day, rows deleted, a line that moves to a new order
    Script(Always(TwoOrders("one", "two")), Always(Writes(Order, Creates(<<Bought(Text("one"))>>)))),
    Script(Always(Writes(Order, Creates(<<>>))), Always(Returns(Text("")))),
    Script(ByDay(TwoOrders("one", "two"), Returns(Text(""))), ByDay(TwoOrders("one", "two"), Returns(Text("")))),
    Script(Always(Writes(Line, Removes(1))), Always(Writes(Line, Nothing))),
    Script(Always(Effect("none", Text(""),
                         [t \in {Order, Line} |-> IF t = Order THEN Creates(Orders(1, Text("one")))
                                                  ELSE Sets(1, Of(NewOrder(1), Known(Product, 1)))])),
           Always(Writes(Order, Creates(Orders(1, Text("one")))))),
    \* exceptions
    Script(Always(Raises("IntegrityError", Order)), Always(Raises("IntegrityError", Product))),
    Script(Always(Raises("IntegrityError", Order)), Always(TwoOrders("one", "two"))),
    OnlyOnHead(Always(Returns(Text("one"))), "ImportError"),
    OnlyOnHead(Always(Returns(Text("one"))), "AttributeError") }

-----------------------------------------------------------------------------
Keys(Of4(_, _, _, _)) ==
  [n \in Runs |-> [w \in MCWorlds |-> [t \in MCTables |-> [i \in 1 .. MaxNew |-> Of4(n, w, t, i)]]]]

(* Keys of sequences, which other sessions draw from too; keys that come again
   after a rollback, the next after those that are there. *)
Sequence == [keys |-> Keys(LAMBDA n, w, t, i : 10 * n + (IF n = 2 THEN 2 * i ELSE i)),
             ordered |-> MCTables, reused |-> {}]
Reused == [keys |-> Keys(LAMBDA n, w, t, i : (IF w = "today" THEN 3 ELSE 4) + i),
           ordered |-> MCTables, reused |-> MCTables]

(* Orders have random keys: the key of the first order is the greater one in
   the runs `swapped`, the smaller one in the others. *)
RandomKeys(swapped) ==
  [Sequence EXCEPT !.keys = Keys(LAMBDA n, w, t, i :
                              10 * n + (IF t = Order /\ n \in swapped THEN MaxNew - i ELSE i)),
                   !.ordered = MCTables \ {Order}]

(* Swapped in both base runs, or in one head run only. *)
MCSupplies == {Sequence, Reused, RandomKeys({3, 4}), RandomKeys({2})}

Names(kind) == [kind |-> kind, tables |-> {}, field |-> NoField]
Model(t, f) == [kind |-> "model", tables |-> {t}, field |-> f]

MCPredictions ==
  {{Names("result"), Names("exception"), Model(Line, order), Model(Order, reference)},
   {Model(Order, NoField), Model(Product, stock)}}
=============================================================================

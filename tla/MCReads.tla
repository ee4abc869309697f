------------------------------- MODULE MCReads -------------------------------
(***************************************************************************)
(* Small instances of the reads of a session: of QueryExecution (see       *)
(* MCQueryExecution) and of Projections.  They share no state, and a       *)
(* behaviour shows either queries or projections.                          *)
(***************************************************************************)
EXTENDS MCQueryExecution

CONSTANTS Contexts, Projection, Misused, Roots, MayFail, MaxChanges, MaxReads, NoValue, Undefined

VARIABLES db, proj, sql, queries, handlers, calls, objects, changes, reads

Rel(target, toMany, manyTo, foreignKey, targetField, joinTable) ==
  [target |-> target, toMany |-> toMany, manyTo |-> manyTo, foreignKey |-> foreignKey,
   targetField |-> targetField, joinTable |-> joinTable]

\* The shop of the tests of compositions: a customer has a cart of lines, and
\* discounts; a discount has carts, by a relationship that has no foreign key.
MCMapping ==
  "Customer" :> [table |-> "customer", fields |-> {"id", "name"}, key |-> <<"id">>,
    relationships |-> "cart" :> Rel("Cart", FALSE, FALSE, None, "customer", None)
                   @@ "discounts" :> Rel("Discount", TRUE, TRUE, None, "customers", None)]
  @@ "Cart" :> [table |-> "cart", fields |-> {"id"}, key |-> <<"id">>,
    relationships |-> "customer" :> Rel("Customer", FALSE, FALSE, "ofCustomer", None, None)
                   @@ "lines" :> Rel("Line", TRUE, FALSE, None, "inCart", None)
                   @@ "discount" :> Rel("Discount", FALSE, FALSE, None, "carts", None)]
  @@ "Line" :> [table |-> "line", fields |-> {"cart", "line"}, key |-> <<"cart", "line">>,
    relationships |-> "inCart" :> Rel("Cart", FALSE, FALSE, "ofCart", None, None)]
  @@ "Discount" :> [table |-> "discount", fields |-> {"id", "percent"}, key |-> <<"id">>,
    relationships |-> "customers" :> Rel("Customer", TRUE, TRUE, None, "discounts", "customerdiscount")
                   @@ "carts" :> Rel("Cart", TRUE, FALSE, None, "discount", None)]

Key(name, columns, target, targetColumns) ==
  [name |-> name, columns |-> columns, target |-> target, targetColumns |-> targetColumns]
MCForeignKeys ==
  "customer" :> <<>>
  @@ "cart" :> <<Key("ofCustomer", <<"customer">>, "customer", <<"id">>)>>
  @@ "line" :> <<Key("ofCart", <<"cart">>, "cart", <<"id">>)>>
  @@ "discount" :> <<>>
  @@ "customerdiscount" :> <<Key("toCustomer", <<"customer">>, "customer", <<"id">>),
                             Key("toDiscount", <<"discount">>, "discount", <<"id">>)>>

MCClassOf == [p \in Projection |->
  CASE p \in {"customer1", "customer2"} -> "Customer" [] p = "cart" -> "Cart" [] p = "line" -> "Line" [] p = "discount" -> "Discount"]

\* Customers with all, with no cart, and with no discount; carts with two lines,
\* with none and of nobody; a discount for nobody.
MCDatabases == {
  "customer" :> {[id |-> i, name |-> 5] : i \in 1..3}
  @@ "cart" :> {[id |-> 1, customer |-> 1], [id |-> 2, customer |-> NoValue], [id |-> 3, customer |-> 3]}
  @@ "line" :> {[cart |-> 1, line |-> 1], [cart |-> 1, line |-> 2], [cart |-> 2, line |-> 1]}
  @@ "discount" :> {[id |-> i, percent |-> 10] : i \in 1..3}
  @@ "customerdiscount" :> {[customer |-> 1, discount |-> 1], [customer |-> 1, discount |-> 2], [customer |-> 2, discount |-> 2]} }

MCNewFields == {<<"customer1", "name">>, <<"cart", "unmapped">>}
MCNewRelated == {
  <<"customer1", "cart", "cart">>, <<"customer1", "discounts", "discount">>,
  <<"cart", "customer", "customer2">>, <<"cart", "unmapped", "line">>, <<"discount", "carts", "cart">>}

Unrelated == [p \in Projection |-> <<>>]
MCPrepared == {
  Unrelated,
  [Unrelated EXCEPT !["customer1"] = <<<<"cart", "cart">>, <<"discounts", "discount">>>>,
                !["customer2"] = <<<<"cart", "cart">>>>, !["cart"] = <<<<"lines", "line">>>>],
  [Unrelated EXCEPT !["discount"] = <<<<"customers", "customer1">>>>, !["customer1"] = <<<<"cart", "cart">>>>] }

-----------------------------------------------------------------------------
graphs == <<db, proj, sql, queries, handlers, calls, objects, changes, reads>>

G == INSTANCE Projections WITH
  ClassOf <- MCClassOf, Mapping <- MCMapping, ForeignKeys <- MCForeignKeys, Databases <- MCDatabases,
  Prepared <- MCPrepared, NewFields <- MCNewFields, NewRelated <- MCNewRelated,
  Null <- NoValue, answer <- objects

\* Each specification runs from all of its initial states, and for one initial
\* state of the other.
ReadsInit == Init /\ G!Init
Queries ==
  /\ reads = 0 /\ changes = 0
  /\ proj = [p \in Projection |-> G!NewProjection(<<>>, <<>>)]
  /\ Next /\ UNCHANGED graphs
Graphs ==
  /\ executions = 0 /\ predicates = {}
  /\ adapter = "mysql" /\ table = CHOOSE t \in MCTable : TRUE
  /\ G!Next /\ UNCHANGED vars
ReadsSpec == ReadsInit /\ [][Queries \/ Graphs]_<<vars, graphs>>

Symmetry == Permutations(Contexts)

\* A read by a projection answers the graph of objects that the tables have, in the shape
\* of the projection (buildReadProjection, createResult of MySQLConnection.js; see
\* Projections).
AnswerIsTheGraph == G!AnswerIsTheGraph

\* A projection that is marked validated was checked as it is now, with all that it uses
\* (validateProjection of UserContext.js; see Projections).
ValidIsCurrent == G!ValidIsCurrent
=============================================================================

----------------------------- MODULE MCCleaning -----------------------------
(***************************************************************************)
(* Instances of Cleaning for TLC: a report over orders and a comparison    *)
(* of customers with orders.  "A" and "a" are one text up to case, "b"     *)
(* another.                                                                *)
(***************************************************************************)
EXTENDS Cleaning

CONSTANT NULL

LowerCase(v) == IF v = "A" THEN "a" ELSE v

ReportAndCompare == [report |-> <<"orders">>, compare |-> <<"customers", "orders">>]

OrderTypes == [region |-> "text", amount |-> "int"]

Order(r, v) == [region |-> r, amount |-> v]

Frame(types, rows) == [dtype |-> types, rows |-> rows]

SomeOrders ==
    {Frame(OrderTypes, rows) : rows \in
       {<<>>,
        <<Order("a", 1), Order("b", 1)>>,
        <<Order("a", 1), Order("a", 1), Order("a", 2)>>,
        <<Order("A", 1), Order("a", 1)>>,
        <<Order("a", 1), Order("A", 1), Order("a", 1)>>,
        <<Order("A", 1), Order("A", 1), Order("A", 1)>>,
        <<Order("a", NULL), Order("b", 2)>>,
        <<Order("a", NULL), Order(NULL, NULL)>>}}

NewColumn == [region |-> "text", amount |-> "int", day |-> "date"]

Priced(r, v, d) == [region |-> r, amount |-> v, day |-> d]

LaterOrders ==
    {Frame(OrderTypes, <<Order("b", 1), Order("b", 1), Order("A", 1)>>),
     Frame(NewColumn, <<Priced("a", 1, 1), Priced("a", 1, 2)>>),
     Frame([amount |-> "int"], <<[amount |-> 1], [amount |-> 1]>>)}

CustomerTypes(t) == [amount |-> t, day |-> "date"]

SomeCustomers == {Frame(CustomerTypes("int"), <<[amount |-> 1, day |-> 1],
                                                [amount |-> 1, day |-> 1]>>),
                  Frame([amount |-> "text"], <<[amount |-> "a"]>>)}

OrdersAndCustomers == [orders |-> SomeOrders, customers |-> SomeCustomers]

OnlyOrdersChange == [orders |-> LaterOrders, customers |-> {}]

(* What library callers bring.                                             *)
Metric(name, fields) == [name |-> name, status |-> "GOVERNED", fields |-> fields]

Missing(name) == [name |-> name, status |-> "MISSING", fields |-> {}]

Requirement(metrics, terms, policy, currency, range) ==
    Validated([metrics |-> metrics, terms |-> terms, policy |-> policy,
               currency |-> currency, range |-> range, timezone |-> FALSE,
               sources |-> <<"orders", "customers">>, open |-> {},
               status |-> "APPROVED"], "APPROVED")

NoPolicy == [c \in {} |-> "error"]

Revenue == Metric("revenue", {<<"orders", "amount">>})

SomeRequirements ==
    {Requirement({Revenue}, {"region"}, NoPolicy, TRUE, FALSE),
     Requirement({Revenue}, {"region"}, [amount |-> "error"], TRUE, TRUE),
     Requirement({Revenue}, {"region"}, [amount |-> "fill"], TRUE, FALSE),
     Requirement({Revenue}, {"market"}, [amount |-> "guess"], FALSE, FALSE),
     Requirement({Metric("revenue", {<<"amount">>})}, {}, [amount |-> "ignore"],
                 TRUE, FALSE),
     Requirement({Revenue, Missing("margin")}, {}, NoPolicy, TRUE, FALSE),
     Requirement({Revenue, Metric("orders", {<<"orders", "amount">>})},
                 {"segment"}, NoPolicy, FALSE, FALSE)}

(* What the model extracts for the API's callers: governed, ambiguous and  *)
(* material terms, a term two columns mention, a term named twice, date    *)
(* buckets with and without a timezone.                                    *)
Asked(term) == [term |-> term, formula |-> FALSE]

AskedAs(term) == [term |-> term, formula |-> TRUE]

Extraction(metrics, terms, timezone, range) ==
    [metrics |-> metrics, terms |-> terms, timezone |-> timezone, range |-> range]

SomeExtractions ==
    {Extraction(<<Asked("Revenue")>>, {"region"}, FALSE, TRUE),
     Extraction(<<Asked("units")>>, {"region"}, FALSE, FALSE),
     Extraction(<<Asked("sales")>>, {}, FALSE, FALSE),
     Extraction(<<AskedAs("Growth")>>, {}, FALSE, FALSE),
     Extraction(<<AskedAs("n")>>, {}, FALSE, FALSE),
     Extraction(<<Asked("margin"), AskedAs("margin")>>, {}, FALSE, FALSE),
     Extraction(<<AskedAs("margin"), Asked("margin")>>, {}, FALSE, FALSE),
     Extraction(<<AskedAs("margin")>>, {"day"}, TRUE, TRUE),
     Extraction(<<>>, {"day"}, FALSE, FALSE)}

SomeDefinitions ==
    [revenue |-> [names |-> {"revenue", "Sales"}, fields |-> {<<"orders", "amount">>}],
     units   |-> [names |-> {"units"}, fields |-> {<<"orders", "amount">>}],
     bookings |-> [names |-> {"bookings", "sales"}, fields |-> {<<"amount">>}]]

Material == {"growth"}

Buckets == {"day"}

Normalize(term) == CASE term = "Revenue" -> "revenue"
                     [] term = "Sales"   -> "sales"
                     [] term = "Growth"  -> "growth"
                     [] OTHER            -> term

(* "region" and "amount" have an n in them.                                *)
Meaning(column, term) == term = "n" /\ column \in {"region", "amount"}

Money == {"revenue"}

Governed == [market |-> {<<"orders", "region">>},
             segment |-> {<<"orders", "region">>, <<"customers", "day">>}]
=============================================================================

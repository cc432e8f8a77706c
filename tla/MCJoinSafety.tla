---------------------------- MODULE MCJoinSafety ----------------------------
(***************************************************************************)
(* Instances of JoinSafety for TLC: orders joined to customers on a number *)
(* (k), on a number and a text, or on columns that cannot be joined.       *)
(***************************************************************************)
EXTENDS JoinSafety

CONSTANT NULL

LowerCase(v) == v

OrderRow(k, v)    == [k |-> k, name |-> "a", amount |-> v]
CustomerRow(k, t) == [k |-> k, name |-> "a", seen |-> t]

OrderTypes    == [k |-> "int", name |-> "text", amount |-> "int"]
CustomerTypes == [k |-> "int", name |-> "text", seen |-> "int"]

Orders(rows)    == [dtype |-> OrderTypes, rows |-> rows]
Customers(rows) == [dtype |-> CustomerTypes, rows |-> rows]

UpTo(n, set) == UNION {[1 .. m -> set] : m \in 0 .. n}

(* Up to two orders, the second worth more; keys found, not found, null.   *)
SomeOrders == {Orders([i \in DOMAIN ks |-> OrderRow(ks[i], i)]) :
                   ks \in UpTo(2, {1, 2, NULL})}

SomeCustomers ==
    {Customers(rows) : rows \in UpTo(2, {CustomerRow(k, t) : k \in {1, NULL},
                                                             t \in {1, NULL}})}
      \cup {Customers(<<CustomerRow(1, 1), CustomerRow(1, 2), CustomerRow(1, 2)>>)}

NewOrders    == {Orders(<<OrderRow(1, 1), OrderRow(1, 2)>>)}
NewCustomers == {Customers(<<CustomerRow(1, 2), CustomerRow(1, 1)>>)}

JoinOn(l, r, how, expected, allow) ==
    [left |-> l, right |-> r, how |-> how, expected |-> expected, allow |-> allow]

Kinds == {"inner", "left", "right", "outer"}

KeyJoins ==
    {JoinOn(<<"k">>, <<"k">>, how, expected, FALSE) : how \in Kinds,
        expected \in {NULL, "one_to_one", "one_to_many", "many_to_one", "many_to_many"}}
      \cup {JoinOn(<<"k">>, <<"k">>, how, "many_to_many", TRUE) : how \in Kinds}

OddJoins ==
    {JoinOn(<<>>, <<>>, "left", "many_to_one", FALSE),
     JoinOn(<<"k">>, <<"k", "name">>, "left", "many_to_one", FALSE),
     JoinOn(<<"k", "name">>, <<"k", "name">>, "left", "many_to_one", FALSE),
     JoinOn(<<"k">>, <<"other">>, "left", "many_to_one", FALSE),
     JoinOn(<<"k">>, <<"name">>, "left", "many_to_many", TRUE)}

ByCustomer(control) == [groupBy |-> <<"seen">>, sum |-> "amount", control |-> control]

Keep(keys, keep, orderBy) == [keys |-> keys, keep |-> keep, orderBy |-> orderBy]

Workflow(join, dedup, total) == [join |-> join, dedup |-> dedup, total |-> total]

ReviewedJoins ==
    {Workflow(join, NULL, ByCustomer(NULL)) : join \in KeyJoins \cup OddJoins}
      \cup {Workflow(JoinOn(<<"k">>, <<"k">>, how, "many_to_many", TRUE), NULL,
                     ByCustomer(3)) : how \in {"inner", "left"}}
      \cup {Workflow(JoinOn(<<"k">>, <<"k">>, how, "many_to_one", FALSE), dedup,
                     ByCustomer(NULL)) :
              how \in {"left", "outer"},
              dedup \in {Keep(<<"k">>, "last", "seen"), Keep(<<"k">>, "first", NULL),
                         Keep(<<"k", "name">>, "first", "seen"),
                         Keep(<<>>, "first", NULL), Keep(<<"k">>, "last", "other")}}

Callers == {[evidence |-> "GOVERNED_MAPPING", given |-> {"left", "right"}],
            [evidence |-> "EXPLICIT_USER_MAPPING", given |-> {}],
            [evidence |-> "NAME_SIMILARITY_ONLY", given |-> {"right"}],
            [evidence |-> NULL, given |-> {}]}
=============================================================================

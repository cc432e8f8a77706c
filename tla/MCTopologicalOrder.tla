------------------------- MODULE MCTopologicalOrder -------------------------
(***************************************************************************)
(* Instances of TopologicalOrder for TLC: every list of up to two steps    *)
(* with at most two inputs each, dangling and duplicated ones included,    *)
(* every graph on three ids in two listings, and some four-step graphs.    *)
(***************************************************************************)
EXTENDS TopologicalOrder, FiniteSets

ThreeIds   == {"a", "b", "c"}
FourIds    == ThreeIds \cup {"d"}
OneSource  == {"source:x"}
SmallRefs  == FourIds \cup OneSource \cup {"nowhere"}

Alphabet == <<"a", "b", "c", "d">>
Position(s) == CHOOSE i \in 1..4 : Alphabet[i] = s
Alphabetical == {p \in FourIds \X FourIds : Position(p[1]) < Position(p[2])}

Inputs == {{"nowhere"}} \cup
          {r \in SUBSET (ThreeIds \cup OneSource) : Cardinality(r) \in {1, 2}}
SmallSteps == [id : ThreeIds, inputs : Inputs]

Step(s, ins) == [id |-> s, inputs |-> ins]
Diamonds ==
    { <<Step("d", {"b", "c"}), Step("c", {"a"}), Step("b", {"a"}),
        Step("a", OneSource)>>,
      <<Step("d", OneSource), Step("a", {"d"}), Step("b", {"a", "c"}),
        Step("c", {"d"})>>,
      <<Step("a", {"d"}), Step("b", {"a"}), Step("c", {"b"}),
        Step("d", {"c"})>> }

(* Three different ids, listed in alphabetical and in reverse order.       *)
Triples == {<<Step("a", x), Step("b", y), Step("c", z)>> :
               x \in Inputs, y \in Inputs, z \in Inputs}
Reversed == {<<w[3], w[2], w[1]>> : w \in Triples}

SmallWorkflows ==
    {<<>>} \cup {<<x>> : x \in SmallSteps}
           \cup {<<x, y>> : x \in SmallSteps, y \in SmallSteps}
           \cup Triples \cup Reversed \cup Diamonds
=============================================================================

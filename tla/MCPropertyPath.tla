--------------------------- MODULE MCPropertyPath ---------------------------
(***************************************************************************)
(* Two predicates over three nodes, and the paths of two levels that the   *)
(* parser leaves to lazy_path: it turns a sequence, a reverse or a single  *)
(* predicate at the top into triple patterns.                              *)
(***************************************************************************)
EXTENDS PropertyPathProperties

MCNodes      == 0 .. 2
MCPredicates == {"p", "q"}

\* Up to two edges of p; q none, one, or a loop and an edge.
MCGraphs == { g \in [MCPredicates -> SUBSET Cells] :
    /\ Cardinality(g["p"]) <= 2
    /\ g["q"] \in {{}, {<<1, 2>>}, {<<0, 0>>, <<2, 1>>}} }

Simple == { NamedNode(p) : p \in {"p", "q"} }
Inner  == Simple \union { Reverse(x) : x \in Simple } \union { ZeroOrOne(x) : x \in Simple }
          \union { OneOrMore(x) : x \in Simple } \union {ZeroOrMore(NamedNode("p"))}
          \union { Sequence(x, y) : x, y \in Simple } \union { Alternative(x, y) : x, y \in Simple }
          \union {Negated(<<"p">>), Alternative(Negated(<<"p">>), NamedNode("p")),
                 Sequence(OneOrMore(NamedNode("p")), NamedNode("q"))}

Outer == { ZeroOrMore(x) : x \in Inner } \union { OneOrMore(x) : x \in Inner }
           \union { ZeroOrOne(x) : x \in Inner } \union { Alternative(x, NamedNode("q")) : x \in Inner }
           \union { Negated(nns) : nns \in {<<>>, <<"q">>, <<"q", "p">>} }

MCQueries == { [subject |-> s, path |-> x, object |-> Variable] :
                 s \in {0, Variable}, x \in Outer }

\* A "?" over a "+", for the run that looks for panics.
PanicQueries == { [subject |-> Variable, path |-> ZeroOrOne(x), object |-> Variable] :
                    x \in {NamedNode("p"), OneOrMore(NamedNode("p"))} }

MCPaths == Outer \union Inner \union { Negated(nns) : nns \in {<<"p">>} }
MCDepth[x \in MCPaths] == IF IsLeaf(x) THEN 0 ELSE 1 + Max({ MCDepth[y] : y \in Parts(x) })
=============================================================================

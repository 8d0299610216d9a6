--------------------------- MODULE MCGraphPatterns ---------------------------
(***************************************************************************)
(* Two predicates with tables and one without; patterns of three basic     *)
(* graph patterns, as the parser leaves them: it merges those that would   *)
(* be joined, and makes a filter under OPTIONAL its expression.  No triple *)
(* pattern mentions a variable twice.                                      *)
(*                                                                         *)
(* Many stand in pairs: with a left side whose variables only one pattern  *)
(* mentions, which are strings, and with one in which those variables have *)
(* met, which are categories; only one of the two fits the other side.     *)
(***************************************************************************)
EXTENDS GraphPatternsProperties

CONSTANTS a, b

MCNodes      == {a, b}
MCVariables  == {"m", "n", "u", "v", "w", "x", "y", "z"}
MCPredicates == {"p", "q"}

Edges == MCNodes \X MCNodes
MCGraphs == { g \in [MCPredicates -> SUBSET Edges] :
    /\ g["p"] \in { {}, {<<a, a>>}, {<<a, b>>}, {<<a, b>>, <<b, a>>}, {<<a, a>>, <<a, b>>} }
    /\ Cardinality(g["q"]) <= 2 }

XpY == <<"x", "p", "y">>
YqZ == <<"y", "q", "z">>
XqZ == <<"x", "q", "z">>
ZqX == <<"z", "q", "x">>
XqB == <<"x", "q", b>>
ZpY == <<"z", "p", "y">>
XrZ == <<"x", "r", "z">>    \* no table
ApB == <<a, "p", b>>    \* no variable

One(tp) == Bgp(<<tp>>)
\* Patterns in which y has met, or x, or both.
MetY    == Bgp(<<XpY, <<"w", "p", "y">>>>)
MetX    == Bgp(<<XpY, <<"x", "p", "w">>>>)
MetXY   == Bgp(<<XpY, <<"x", "q", "y">>>>)
Joined(l, r) ==
    IF l.kind = "Bgp" /\ r.kind = "Bgp" THEN Bgp(l.patterns \o r.patterns) ELSE Join(l, r)

\* Two operators, nested on the left or on the right.
Pairs(ls, rs)  == UNION { { Joined(l, r), LeftJoin(l, r, <<>>), Union(l, r), Minus(l, r) } : l \in ls, r \in rs }
Compounds      == Pairs({One(XpY), MetY, MetXY}, { One(tp) : tp \in {XpY, YqZ, XqB, ZqX, <<"y", "q", "x">>} })
Thirds         == { One(tp) : tp \in {YqZ, XqZ, <<"v", "q", "y">>, <<"x", "q", "v">>} } \union {Bgp(<<<<"v", "q", "y">>, <<"u", "p", "y">>>>)}
Nested         == Pairs(Compounds, Thirds) \union Pairs(Thirds, Compounds)
                  \union { LeftJoin(MetY, Union(One(YqZ), One(tp)), <<>>) : tp \in {ZpY, <<"y", "p", "z">>} }
                  \union { Union(MetY, Bgp(<<<<"x", "q", "y">>, <<"w", "q", "y">>>>)) }

\* Conditions, with and without EXISTS.
Conditions     == { Bound("z"), Not(Bound("z")), Equal(Var("y"), Var("z")),
                    Or(Equal(Var("x"), NamedNode(a)), Equal(Var("x"), Var("z"))) }
ExistsOne      == Exists(One(XqZ))
ExistsMinus    == Exists(Minus(One(XqZ), One(<<"z", "q", "y">>)))
Conditioned    ==
    { LeftJoin(x, r, <<e>>) : x \in {One(XpY), MetY}, r \in { One(YqZ), One(XqZ), One(ZpY) }, e \in Conditions \union {ExistsOne} }
    \union { Filter(e, x) : e \in Conditions \union {ExistsOne, Not(ExistsOne), ExistsMinus}, x \in Compounds }
    \* a filter, an EXISTS and a MINUS that could see the mappings around them
    \union { LeftJoin(MetX, Joined(Filter(e, One(XqZ)), One(ZqX)), <<>>) :
                e \in Conditions \union {Exists(One(YqZ))} }
    \union { LeftJoin(x, Minus(One(l), One(r)), <<>>) : x \in {One(XpY), MetX, MetY},
                l \in {XqZ, ZpY}, r \in {YqZ, ZqX, <<"v", "q", b>>} }

Bindings == { << [x |-> a], [x |-> b] >>, << [x |-> a], [x |-> a] >> }
OfTwo    == { << [x |-> a, y |-> b], [x |-> b, y |-> Null] >>, << [x |-> b, y |-> a] >>,
              << [x |-> a, y |-> Null], [x |-> Null, y |-> b] >> }
Sub(x, vs)   == Distinct(Project(x, vs))
Valued       ==
    UNION { { Joined(One(XpY), v), Joined(MetY, v), Joined(One(YqZ), v), LeftJoin(One(XpY), v, <<>>), LeftJoin(MetY, v, <<>>), v } :
            v \in { Values({"x"}, bs) : bs \in Bindings } \union { Values({"x", "y"}, bs) : bs \in OfTwo } }
Subqueries   ==
    UNION { { Joined(One(XpY), s), Joined(MetX, s), LeftJoin(One(XpY), s, <<>>), LeftJoin(MetX, s, <<>>),
              LeftJoin(s, One(XpY), <<>>) } :
            s \in { Project(Bgp(<<XqZ, YqZ>>), vs) : vs \in {{"x", "z"}, {"x", "y"}, {"z"}} }
                  \union {Project(One(XqZ), {"x"})}
                  \union { Sub(Bgp(<<XqZ, ZqX>>), vs) : vs \in {{"x"}, {"z"}} } }
Extensions   ==
    UNION { { Extend(x, "v", Var("y")), Joined(Extend(One(XpY), "v", Var("y")), x) } : x \in Compounds }
\* Operators with a condition or several operands.
Chosen       ==
    { Operator("If", <<Equal(Var("x"), Var("y")), Var("x"), NamedNode(b)>>),
      Operator("If", <<Equal(Var("x"), Var("z")), Var("x"), NamedNode(b)>>),
      Operator("Coalesce", <<Var("z"), Var("x")>>), Operator("Coalesce", <<Var("v"), Var("x")>>) }
Several      ==
    { Operator("In", <<Var("z"), NamedNode(a), Var("x")>>), Operator("In", <<Var("y"), Var("z"), Var("x")>>),
      Operator("In", <<Var("x")>>), Operator("In", <<Var("z"), Var("x")>>), Operator("And", <<Equal(Var("x"), Var("y")), Not(Equal(Var("x"), Var("z")))>>),
      Operator("SameTerm", <<Var("x"), Var("y")>>) }
Optional     == LeftJoin(MetY, One(YqZ), <<>>)
Operators    ==
    { LeftJoin(One(XpY), One(YqZ), <<>>), Union(One(XpY), One(<<"y", "q", "x">>)) }
    \union { Extend(Optional, "v", e) : e \in Chosen } \union { Filter(e, Optional) : e \in Several }
    \union { Reduced(Union(One(XpY), One(YqZ))), Reduced(Project(Optional, {"x"})) }
    \union { OrderBy(Optional, es) : es \in { <<Var("z")>>, <<Var("y"), Var("w")>>, <<Var("y"), Var("v")>> } }
    \union { OrderBy(One(XpY), <<Exists(One(XqZ))>>), Filter(Exists(OrderBy(One(XqZ), <<Var("z")>>)), One(XpY)) }

\* Aggregates, as the parser leaves them: under a projection and an extension.
Grouped(x, vs, agg, e) == Project(Extend(Group(x, vs, << <<"m", agg>> >>), "n", e), vs \union {"n"})
IsOne      == Operator("If", <<Equal(Var("x"), Var("z")), Number(1), Number(2)>>)
Aggregated1 == { Aggregate("Count", Var("z"), d) : d \in BOOLEAN } \union { CountAll(d) : d \in BOOLEAN }
               \union { Aggregate("Sum", IsOne, d) : d \in BOOLEAN } \union { Aggregate("Min", IsOne, FALSE), Aggregate("Max", IsOne, FALSE) }
Groups     ==
    { Grouped(x, vs, agg, Var("m")) : x \in {Bgp(<<XpY, YqZ>>), Optional}, vs \in {{"x"}, {"x", "z"}}, agg \in Aggregated1 }
    \union { Grouped(x, {"x"}, CountAll(d), Var("m")) : x \in {Project(One(XpY), {"x"})}, d \in BOOLEAN }
    \union { Grouped(Bgp(<<XpY, YqZ>>), {"x"}, Aggregate("Count", Var("z"), FALSE), e) : e \in {
                 Operator("Add", <<Var("m"), Number(1)>>), Operator("Multiply", <<Var("m"), Var("m")>>),
                 Operator("Add", <<Var("x"), Number(1)>>), Operator("Subtract", <<Var("m"), Number(1)>>) } }
\* A difference of two counts.
Difference(l, r) ==
    Project(Extend(Group(Bgp(<<XpY, YqZ>>), {"x"}, << <<"m", Aggregate("Count", Var("z"), FALSE)>>,
                                                     <<"v", Aggregate("Count", Var("z"), TRUE)>> >>),
                   "n", Operator("Subtract", <<Var(l), Var(r)>>)), {"x", "n"})
Having(kind) == Filter(Operator(kind, <<Var("m"), Number(1)>>),
                       Group(Bgp(<<XpY, YqZ>>), {"x"}, << <<"m", Aggregate("Count", Var("z"), FALSE)>> >>))
OfGroups   ==
    UNION { { g, Joined(One(XqZ), g), LeftJoin(One(XqZ), g, <<>>), LeftJoin(g, One(XqZ), <<>>), Filter(Exists(g), One(XqZ)) } :
            g \in { Grouped(One(XpY), {"x"}, Aggregate("Count", Var("y"), FALSE), Var("m")),
                    Grouped(MetX, {"x"}, Aggregate("Count", Var("y"), FALSE), Var("m")),
                    Grouped(One(XpY), {}, Aggregate("Count", Var("y"), FALSE), Var("m")) } }
    \union { Difference("m", "v"), Difference("v", "m") }
    \union { Project(Having(kind), {"x"}) : kind \in {"Greater", "GreaterOrEqual", "Less", "LessOrEqual"} }
    \union { Grouped(Union(One(XpY), One(<<"x", "q", "y">>)), {"x"}, Aggregate("Count", Var("y"), d), Var("m")) : d \in BOOLEAN }
Sliced     == { Slice(Project(Union(One(XpY), One(<<"x", "q", "y">>)), {"x", "y"}), s, n) : s \in {0, 1, 3}, n \in {Null, 0, 1, 2, U32} }

Missing      ==
    { Bgp(<<XpY, XrZ>>), Bgp(<<XpY, <<"w", "r", "z">> >>) } \union Pairs({One(XpY)}, {One(XrZ)})
    \union Pairs(Pairs({One(XpY)}, {One(XrZ)}), {One(XqZ)})
Ground       == { One(ApB), Bgp(<<XpY, ApB>>), LeftJoin(One(XpY), One(ApB), <<>>), LeftJoin(Bgp(<<>>), One(XpY), <<>>) }

MCQueries == { Project(x, InScope(x)) :
    x \in Nested \union Conditioned \union Valued \union Subqueries \union Extensions \union Missing
            \union Ground \union Operators \union Groups \union OfGroups }
    \union Sliced
=============================================================================

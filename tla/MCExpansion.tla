---------------------------- MODULE MCExpansion -----------------------------
(***************************************************************************)
(* Datasets of a template A, whose body is one or two instances of a list, *)
(* and of a template B that A may call, with all bodies of another list;   *)
(* frames of at most two rows.                                             *)
(***************************************************************************)
EXTENDS ExpansionProperties

CONSTANTS ann, ben, knows, bn, lit

MCTerms == {ann, ben, knows, bn, lit}
MCTermType == [t \in MCTerms |-> IF t = lit THEN "string" ELSE IF t = bn THEN "blank" ELSE "anyURI"]
MCBasicTypes == {"anyURI", "string", "blank", "none", "Int8"}
MCUnknownTypes == {"Int8"}
MCDefaultPredicate ==
    [c \in {"x", "y", "l", "a b"} |-> IF c = "a b" THEN Null ELSE IF c = "x" THEN ann ELSE knows]
MCTriple == "ottr:Triple"

IRI == Basic("anyURI")

\* Arguments and instances.
Arg(term, expand) == [term |-> term, list_expand |-> expand]
Var(n)    == Arg([is |-> "Variable", name |-> n], FALSE)
VarX(n)   == Arg([is |-> "Variable", name |-> n], TRUE)
Const(v)  == Arg([is |-> "Constant", value |-> v], FALSE)
ConstX(v) == Arg([is |-> "Constant", value |-> v], TRUE)
ListArg   == Arg([is |-> "List"], FALSE)
Call(le, name, args) == [list_expander |-> le, template_name |-> name, argument_list |-> args]
Tr(s, v, o) == Call("none", MCTriple, <<s, v, o>>)
P == Const(knows)

Param(v, optional, non_blank, ptype) ==
    [variable |-> v, optional |-> optional, non_blank |-> non_blank, ptype |-> ptype]
TripleTemplate ==
    [parameters |-> << Param("subject", FALSE, FALSE, IRI), Param("verb", FALSE, FALSE, IRI),
                       Param("object", FALSE, FALSE, NoType) >>,
     pattern_list |-> <<>>]
Template(parameters, body) == [parameters |-> parameters, pattern_list |-> body]

\* Bodies of B(?u, ?w) with the types that follow from them.
TypedBody(body, u, w) == [body |-> body, u |-> u, w |-> w]
BodiesOfB ==
    { TypedBody(<<Tr(Var("u"), P, Var("w"))>>, IRI, NoType),
      TypedBody(<<Tr(Var("w"), P, Var("u"))>>, NoType, IRI),
      TypedBody(<<Tr(Var("u"), P, Const(ann))>>, IRI, NoType),
      TypedBody(<<Tr(Var("u"), Var("w"), Const(lit)), Tr(Const(ben), P, Var("w"))>>, IRI, IRI),
      TypedBody(<<Tr(Const(ann), P, Const(lit))>>, NoType, NoType),
      TypedBody(<<Call("none", "D", <<Var("w"), Var("u")>>)>>, NoType, IRI),
      TypedBody(<<Call("none", "D", <<Var("u"), Const(ben)>>)>>, IRI, NoType),
      TypedBody(<<Call("cross", "D", <<Var("u"), ConstX(<<ann, ben>>)>>)>>, IRI, NoType) }
ListBodiesOfB ==
    { TypedBody(<<Call("cross", MCTriple, <<Var("u"), P, VarX("w")>>)>>, IRI, NoType),
      TypedBody(<<Call("zipMin", "D", <<VarX("w"), Var("u")>>)>>, NoType, ListOf("NEList", IRI)) }
\* D swaps nothing, but names its parameters as B does, the other way round.
TemplateD == Template(<<Param("w", FALSE, FALSE, IRI), Param("u", FALSE, FALSE, NoType)>>,
                      <<Tr(Var("w"), P, Var("u"))>>)
TemplateB(bt, optional) ==
    Template(<<Param("u", FALSE, FALSE, bt.u), Param("w", optional, FALSE, bt.w)>>, bt.body)
NoB == TypedBody(<<>>, NoType, NoType)

\* Instances for A, by the columns of its frame.
TriplesOfA ==
    { Tr(Var("x"), P, Var("y")), Tr(Const(ann), P, Var("x")), Tr(Const(ann), P, Const(lit)),
      Tr(Const(lit), P, Var("x")), Tr(Var("x"), Const(lit), Var("y")), Tr(Var("x"), Const(bn), Var("y")),
      Tr(Var("y"), Var("x"), Const(bn)), Tr(Var("x"), P, Var("x")),
      Tr(Var("x"), P, ListArg), Tr(Var("x"), P, Var("z")),
      Call("cross", MCTriple, <<Var("x"), P, ConstX(<<ann, ben>>)>>),
      Call("cross", MCTriple, <<ConstX(<<ann, ben>>), P, Var("x")>>),
      Call("cross", MCTriple, <<Var("x"), P, ConstX(<<ann, lit>>)>>) }
CallsOfB ==
    { Call("none", "B", <<Var("x"), Var("y")>>), Call("none", "B", <<Var("y"), Var("x")>>),
      Call("none", "B", <<Var("x"), Const(ben)>>), Call("none", "B", <<Const(lit), Var("y")>>),
      Call("cross", "B", <<Var("x"), ConstX(<<ben, ben>>)>>) }
ListTriplesOfA ==
    { Call(le, MCTriple, <<Var("x"), P, VarX("l")>>) : le \in {"cross", "zipMin"} } \union
    { Call("cross", MCTriple, <<VarX("l"), P, Var("x")>>),
      Call("zipMax", MCTriple, <<VarX("l"), P, ConstX(<<ben, ann>>)>>),
      Call("cross", MCTriple, <<VarX("l"), P, ConstX(<<ben, ann>>)>>) }
ListCallsOfB ==
    { Call("cross", "B", <<Var("x"), VarX("l")>>), Call("zipMin", "B", <<VarX("l"), Var("x")>>) }
ZipsOfA ==
    UNION { { Call(le, MCTriple, <<VarX("k"), P, VarX("l")>>), Call(le, "B", <<VarX("l"), VarX("k")>>) } :
                le \in {"cross", "zipMin", "zipMax"} }

\* The type of a parameter of A: what the instances that use it ask for.
Asked(body, templates, v) ==
    UNION { { IF body[i].argument_list[n].list_expand
              THEN ListOf(IF templates[body[i].template_name].parameters[n].optional THEN "List" ELSE "NEList",
                          templates[body[i].template_name].parameters[n].ptype)
              ELSE templates[body[i].template_name].parameters[n].ptype :
                n \in { k \in VariablesOf(body[i]) :
                          /\ NameOf(body[i].argument_list[k]) = v
                          /\ templates[body[i].template_name].parameters[k].ptype # NoType } } :
            i \in DOMAIN body }
IsTyped(body, templates, vs) == \A v \in vs : Cardinality(Asked(body, templates, v)) <= 1
TypeFor(body, templates, v) ==
    IF Asked(body, templates, v) = {} THEN NoType ELSE CHOOSE t \in Asked(body, templates, v) : TRUE

\* A dataset for a body of A with two parameters; flags are those of the second.
Callees0(bt, optional) ==
    [n \in {MCTriple, "D", "B"} |->
        CASE n = MCTriple -> TripleTemplate [] n = "D" -> TemplateD [] OTHER -> TemplateB(bt, optional)]
Dataset(body, bt, optional_b, v1, v2, optional, non_blank) ==
    LET callees == Callees0(bt, optional_b)
    IN  [n \in DOMAIN callees \union {"A"} |->
            IF n # "A" THEN callees[n]
            ELSE Template(<<Param(v1, optional, FALSE, TypeFor(body, callees, v1)),
                            Param(v2, optional, non_blank, TypeFor(body, callees, v2))>>, body)]

Text == Basic("string")
ListText == ListOf("List", Text)
Int8 == Basic("Int8")
Frame(v1, d1, v2, d2, rows) ==
    [dtypes |-> [c \in {v1, v2} |-> IF c = v1 THEN d1 ELSE d2],
     rows |-> [m \in DOMAIN rows |-> [c \in {v1, v2} |-> IF c = v1 THEN rows[m][1] ELSE rows[m][2]]]]

Rows(cells) == UNION { [1 .. n -> cells] : n \in 0 .. 2 }
TextRows == Rows({<<ann, ben>>, <<ann, ann>>, <<ben, Null>>, <<bn, ben>>})
ListRows == Rows({<<ann, <<>> >>, <<ann, <<ann, ben>> >>, <<ben, <<ben, Null>> >>, <<ben, Null>>})
ZipRows  == Rows({<< <<ann>>, <<ben>> >>, << <<ann, ben>>, <<ben, ann>> >>, << <<ann, ben>>, <<ann>> >>,
                  << <<ben>>, <<ann, ben>> >>,
                  << <<>>, <<>> >>, << <<>>, <<ben>> >>})

\* Lists of lists; and zips of constants, which need no row.
NestedRows ==
    Rows({<< <<>>, <<ann>> >>, << << <<ann>>, <<ben, ann>> >>, Null >>, << << <<ann, ben>> >>, <<ben>> >>})
ConstantZips ==
    { Call(le, MCTriple, <<ConstX(<<ann, ben>>), P, ConstX(c)>>) :
        le \in {"zipMin", "zipMax"}, c \in {<<ann>>, <<ben, ann>>} }

Case(name, templates, frames, subsets) ==
    [name |-> name, templates |-> templates, frames |-> frames, subsets |-> subsets,
     pk_col |-> Null, fk_cols |-> {}]

TextCases(bodies, bts, optionals, non_blanks, subsets) ==
    { Case("A", Dataset(x.body, x.bt, TRUE, "x", "y", x.o, x.n),
           { Frame("x", Text, "y", Text, rows) : rows \in TextRows }, subsets) :
        x \in { z \in [body : bodies, bt : bts, o : optionals, n : non_blanks] :
                    IsTyped(z.body, Callees0(z.bt, TRUE), {"x", "y"}) } }
ListCases(bodies, bts, v1, d1, rowss) ==
    { Case("A", Dataset(x.body, x.bt, x.ob, v1, "l", TRUE, FALSE),
           { Frame(v1, d1, "l", ListText, rows) : rows \in rowss }, {{{"l"}}}) :
        x \in { z \in [body : bodies, bt : bts, ob : BOOLEAN] :
                    IsTyped(z.body, Callees0(z.bt, z.ob), {v1, "l"}) } }

NestedBodiesOfB ==
    { TypedBody(<<Call(le, MCTriple, <<VarX("u"), P, o>>)>>, ListOf("NEList", IRI), NoType) :
        le \in {"cross", "zipMin", "zipMax"}, o \in {ConstX(<<ann, ben>>), VarX("w")} }
Nested ==
    { Case("A", Dataset(<<Call("cross", "B", <<VarX("k"), Var("l")>>)>>, bt, ob, "k", "l", TRUE, FALSE),
           { Frame("k", ListOf("List", ListText), "l", ListText, rows) : rows \in NestedRows }, {{{"l"}}}) :
        bt \in NestedBodiesOfB, ob \in BOOLEAN }

Single(S) == { <<i>> : i \in S }
Subsets == {{}, {{"x"}}, {{"y"}, {"x", "y"}}}

\* Names and frames that do not fit.
Odd ==
    LET ds == Dataset(<<Tr(Var("x"), P, Var("y"))>>, NoB, FALSE, "x", "y", FALSE, TRUE)
        good == Frame("x", Text, "y", Text, << <<ann, ben>> >>)
        same(cs) == [dtypes |-> [c \in cs |-> Text], rows |-> << [c \in cs |-> ann] >>]
    IN  { Case(n, ds, {good}, {{}}) : n \in {"o:A", "o:E", "E"} }
        \union { Case("A", ds, { Frame("x", Text, "z", Text, << <<ann, ben>> >>),
                                 Frame("x", ListText, "y", Text, << <<Null, ben>> >>),
                                 Frame("x", Text, "y", ListText, << <<ann, <<ben>> >> >>),
                                 Frame("x", Int8, "y", Text, << <<lit, ben>> >>),
                                 same({"x", "y", "z"}) }, {{}}),
                 Case(MCTriple, ds, {same({"subject", "verb", "object"})}, {{{"subject"}}}) }
\* Parameters of one name, of A and of the template it calls.
Repeated ==
    LET twice(v, body) == Template(<<Param(v, FALSE, FALSE, IRI), Param(v, FALSE, FALSE, IRI)>>, body)
        ds == Callees0(NoB, FALSE)
        a(body) == Template(<<Param("x", FALSE, FALSE, NoType), Param("y", FALSE, FALSE, NoType)>>, body)
        frame == Frame("x", Text, "y", Text, << <<ann, ben>>, <<ann, ann>> >>)
    IN  { Case("A", ("A" :> twice("x", <<Tr(Var("x"), P, Var("x"))>>)) @@ ds,
               {[dtypes |-> [c \in {"x"} |-> Text], rows |-> << [c \in {"x"} |-> ann] >>]}, {{{"x"}}}) }
        \union { Case("A", ("A" :> a(<<Call("none", "B", args)>>)) @@ ("B" :> twice("u", <<Tr(Const(ann), P, Var("u"))>>)) @@ ds,
                      {frame}, {{{"y"}}}) :
                args \in {<<Var("x"), Var("y")>>, <<Var("y"), Const(ben)>>, <<Const(ben), Var("y")>>,
                          <<Const(ann), Const(ben)>>} }

\* A calls B, B calls A.
Cyclic ==
    { Case("A", Dataset(body, TypedBody(<<Call("none", "A", <<Var("u"), Var("w")>>)>>, IRI, NoType),
                        FALSE, "x", "y", FALSE, FALSE),
           {Frame("x", Text, "y", Text, << <<ann, ben>> >>)}, {{}}) :
        body \in {<<Call("none", "B", <<Var("x"), Var("y")>>), Tr(Var("x"), P, Var("y"))>>,
                  <<Tr(Const(lit), P, Var("x")), Call("none", "B", <<Var("x"), Var("y")>>),
                    Tr(Var("x"), P, Const(ann))>>} }

\* Calls of expand_default, with all frames of two columns.
Default ==
    { [Case("default", "ottr:Triple" :> TripleTemplate, { Frame("x", Text, "y", Text, rows) : rows \in TextRows }
            \union { Frame("x", Text, "l", ListText, rows) : rows \in ListRows }
            \union { Frame("x", Text, "a b", Text, << <<ann, ben>> >>),
                     Frame("x", Text, "y", Int8, << <<ann, lit>> >>),
                     Frame("x", Text, "l", ListOf("List", Int8), << <<ann, <<lit>> >> >>) }, {{}, {{"x"}}})
        EXCEPT !.pk_col = pk, !.fk_cols = fks] :
        pk \in {"x", "y", "l", "a b", "absent"}, fks \in {{}, {"y"}} }

Cases == UNION {
    TextCases(Single(TriplesOfA), {NoB}, BOOLEAN, BOOLEAN, Subsets),
    TextCases({ <<i, j>> : i \in TriplesOfA, j \in {Tr(Var("x"), P, Var("y")), Tr(Const(lit), P, Var("x"))} },
                      {NoB}, {TRUE}, {FALSE}, Subsets),
    TextCases(Single(CallsOfB), BodiesOfB, {TRUE}, {FALSE}, Subsets),
    TextCases({ <<i, Tr(Var("y"), P, Var("x"))>> : i \in CallsOfB }, BodiesOfB, {TRUE}, {FALSE}, {{}}),
    ListCases(Single(ListTriplesOfA), {NoB}, "x", Text, ListRows),
    ListCases(Single(ListCallsOfB), BodiesOfB, "x", Text, ListRows),
    ListCases({<<Call("none", "B", <<Var("x"), Var("l")>>)>>}, ListBodiesOfB, "x", Text, ListRows),
    ListCases(Single(ZipsOfA), BodiesOfB, "k", ListText, ZipRows),
    TextCases(Single(ConstantZips), {NoB}, {TRUE}, {FALSE}, {{}}),
    Nested, Odd, Repeated, Cyclic, Default }

Frames == UNION { c.frames : c \in Cases }
Flats == MCTerms \union {Null} \union UNION { [1 .. n -> MCTerms \union {Null}] : n \in 0 .. 2 }
Inner == UNION { [1 .. n -> {ann, ben}] : n \in 0 .. 2 }
MCCells == Flats \union { <<c>> : c \in Inner } \union { <<c, d>> : c, d \in Inner }
AllSubsets == UNION { c.subsets : c \in Cases }
MCExpansions ==
    { [name |-> x[1].name, prefixed |-> ("o:A" :> "A" @@ "o:E" :> "E"), templates |-> x[1].templates,
       df |-> x[2], unique_subsets |-> x[3], pk_col |-> x[1].pk_col, fk_cols |-> x[1].fk_cols] :
        x \in { y \in Cases \X Frames \X AllSubsets : y[2] \in y[1].frames /\ y[3] \in y[1].subsets } }
=============================================================================

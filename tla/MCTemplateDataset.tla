------------------------- MODULE MCTemplateDataset --------------------------
(***************************************************************************)
(* Sources with up to three templates of one parameter that call each      *)
(* other, in two orders, and lists of three small sources whose directives *)
(* define, repeat, redefine and contradict prefixes.                       *)
(***************************************************************************)
EXTENDS ResolverProperties

Ex == "ex#"  XSD == "xsd#"  OTTR == "ottr#"  Other == "other#"
Namespaces   == {Ex, XSD, OTTR, Other}
MCLocalNames == {"a", "b", "c", "int", "anyURI", "Triple", "<>"}
MCIRIs       == Namespaces \union { n \o l : n \in Namespaces, l \in MCLocalNames \ {"<>"} }
MCPrefixes   == {"", "ex", "xsd", "ottr"}
MCPredefined == [k \in MCPrefixes |->
                    CASE k = "xsd" -> XSD [] k = "ottr" -> OTTR [] OTHER -> Undefined]
MCComposite  == [x \in MCIRIs \X MCLocalNames |->
                    IF x[1] \in Namespaces /\ x[2] # "<>" THEN x[1] \o x[2] ELSE Undefined]
MCTriple     == "ottr#Triple"
MCVariables  == {"x", "subject", "verb", "object"}
MCBasicTypes == MCIRIs \X PrefixedName

Named(prefix, name) == [prefix |-> prefix, name |-> name]
Full(iri)           == [iri |-> iri]
Integer == Named("xsd", "int")
Uri == Named("xsd", "anyURI")
MCAnyURI == <<"xsd#anyURI", Uri>>

Lists(ls)     == [lists |-> ls, base |-> Integer]
IntLists(ls)  == [lists |-> ls, base |-> <<"xsd#int", Integer>>]
MCCandidates ==
    { IntLists(ls) : ls \in { <<>>, <<"List">>, <<"NEList">>, <<"List", "List">>,
                              <<"NEList", "List">>, <<"NEList", "NEList">> } }
    \union {NoType, Basic(MCAnyURI), Basic(<<"xsd#anyURI", Named("", "anyURI")>>)}

ATemplate(name, optional, ptype, patterns) ==
    [name |-> name,
     parameters |-> << [variable |-> "x", optional |-> optional, ptype |-> ptype] >>,
     pattern_list |-> patterns]
Calls(name, list_expand) ==
    [template_name |-> name, argument_list |-> << [term |-> "x", list_expand |-> list_expand] >>]
\* As the subject of a triple with constants.
InTriple == [template_name |-> Named("ottr", "Triple"),
             argument_list |-> << [term |-> "x", list_expand |-> FALSE] >>
                \o [n \in 1 .. 2 |-> [term |-> Constant, list_expand |-> FALSE]] ]

Declared == {NoType, Lists(<<>>), Lists(<<"List">>), Lists(<<"NEList">>)}
a == Named("ex", "a")
b == Named("ex", "b")
c == Full("ex#c")

\* a calls b, or b and c; b calls nothing, c, a (a cycle), itself (which panics),
\* or c and a triple; c calls nothing or a triple, with three or two arguments.
Outer  == { ATemplate(a, FALSE, NoType, ps) :
              ps \in { <<Calls(b, e)>> : e \in BOOLEAN } \union {<<Calls(b, FALSE), Calls(c, FALSE)>>} }
Middle == { ATemplate(b, optional, ptype, ps) : optional \in BOOLEAN, ptype \in Declared,
              ps \in { <<>> } \union { <<Calls(o, e)>> : o \in {a, b, c}, e \in BOOLEAN }
                     \union { <<Calls(c, FALSE), InTriple>> } }
Inner  == { ATemplate(c, optional, ptype, ps) : optional \in BOOLEAN,
              ptype \in {NoType, Lists(<<"List">>)},
              ps \in { <<>>, <<InTriple>>, <<[InTriple EXCEPT !.argument_list = Tail(@)]>> } }

At(prefix, iri) == [prefix |-> prefix, iri |-> iri]
Base(iri)       == [base |-> iri]
ASource(directives, ts) == [directives |-> directives, templates |-> ts, others |-> {}]

\* A template in one triple, and its parameter's type.
Small(name, ptype) == ATemplate(name, FALSE, ptype, <<InTriple>>)
SmallSources ==
    { Unparsed,
      ASource(<<>>, <<>>),
      ASource(<<At("ex", Ex)>>, <<Small(a, NoType)>>),
      ASource(<<At("ex", Ex), At("ex", Ex)>>, <<Small(b, Basic(Uri))>>),
      ASource(<<At("ex", Other)>>, <<Small(a, NoType)>>),
      ASource(<<At("ex", Ex), At("ex", Other)>>, <<>>),
      ASource(<<Base(XSD)>>, <<Small(c, Basic(Named("", "anyURI")))>>),
      ASource(<<Base(Ex), At("", Other)>>, <<>>),
      ASource(<<Base(Ex)>>, <<Small(Named("", "a"), NoType)>>),
      ASource(<<At("xsd", Other)>>, <<Small(c, Basic(Uri))>>),
      ASource(<<At("ottr", Other)>>, <<ATemplate(Named("ottr", "a"), FALSE, NoType, <<>>)>>),
      ASource(<<>>, <<Small(b, NoType)>>),
      [ASource(<<>>, <<>>) EXCEPT !.others = {Named("xsd", "<>")}] }

Start == <<At("ex", Ex)>>
MCSourceLists ==
    { IF inwards
      THEN <<ASource(Start, <<o, m>>), ASource(Start, <<n>>)>>
      ELSE <<ASource(Start, <<n, m>>), ASource(Start, <<o>>)>> :
      o \in Outer, m \in Middle, n \in Inner, inwards \in BOOLEAN }
    \union [1 .. 3 -> SmallSources]

\* The lists of documents that sources resolve to.
Resolves(source) ==
    LET m == [k \in Prefixes |-> LET iris == IrisOf(source, k) IN
                IF iris = {} THEN Predefined[k] ELSE CHOOSE v \in iris : TRUE]
    IN  resolve_document(source, m)
MCDocumentLists ==
    { [e \in 1 .. Len(ss) |-> Resolves(ss[e])] :
      ss \in { ss \in MCSourceLists : \A e \in 1 .. Len(ss) : Unambiguous(ss[e]) } }
=============================================================================

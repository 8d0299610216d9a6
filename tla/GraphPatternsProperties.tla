----------------------- MODULE GraphPatternsProperties -----------------------
(***************************************************************************)
(* The solutions that SPARQL gives a graph pattern, evaluated from the     *)
(* leaves up, and for which patterns the evaluation within the solution    *)
(* mappings of the surroundings gives the same.                            *)
(***************************************************************************)
EXTENDS GraphPatterns

\* A solution binds some variables; solutions form a bag.
Compatible(f, g) == AgreesOn(f, g, DOMAIN f \intersect DOMAIN g)

\* The pattern that the code reads: bound(?v) is evaluated as its negation, and
\* MINUS within EXISTS as a join.
RECURSIVE ExpressionAsRead(_), PatternAsRead(_)
ExpressionAsRead(e) ==
    CASE e.kind = "Bound" -> Not(e)
      [] e.kind = "Exists" ->
            Exists(PatternAsRead(IF e.pattern.kind = "Minus"
                                 THEN Join(e.pattern.left, e.pattern.right) ELSE e.pattern))
      [] OTHER -> [e EXCEPT !.operands = [n \in DOMAIN @ |-> ExpressionAsRead(@[n])]]
PatternAsRead(x) ==
    CASE x.kind \in {"Bgp", "Values"} -> x
      [] x.kind = "LeftJoin" ->
            LeftJoin(PatternAsRead(x.left), PatternAsRead(x.right),
                     [n \in DOMAIN x.expression |-> ExpressionAsRead(x.expression[n])])
      [] IsPair(x) -> [x EXCEPT !.left = PatternAsRead(@), !.right = PatternAsRead(@)]
      [] x.kind \in {"Filter", "Extend"} ->
            [x EXCEPT !.inner = PatternAsRead(@), !.expr = ExpressionAsRead(@)]
      [] OTHER -> [x EXCEPT !.inner = PatternAsRead(@)]

----------------------------------------------------------------------------
\* SPARQL 1.1 Query Language, section 18.

BgpVariables(x) == UNION { VariablesOf(x.patterns[n]) : n \in DOMAIN x.patterns }
NodeOf(f, end)  == IF end \in Variables THEN f[end] ELSE end
HoldsIn(f, tp)  == tp[2] \in Predicates /\ <<NodeOf(f, tp[1]), NodeOf(f, tp[3])>> \in graph[tp[2]]

BgpSolutions(x) ==
    SetToBag({ f \in [BgpVariables(x) -> Nodes] :
                 \A n \in DOMAIN x.patterns : HoldsIn(f, x.patterns[n]) })

RECURSIVE Truth(_, _), Solutions(_)

\* The value of an operator, of those of its operands; Null for an error.
ValueOf(kind, xs) ==
    CASE kind = "In" -> IF \E n \in 2 .. Len(xs) : EqualValue(xs[1], xs[n]) = TRUE THEN TRUE
                        ELSE IF Null \in Range(xs) THEN Null ELSE FALSE
      [] kind = "If" -> IF xs[1] = Null THEN Null ELSE IF xs[1] THEN xs[2] ELSE xs[3]
      [] kind = "Coalesce" ->
            IF Range(xs) = {Null} THEN Null
            ELSE xs[Min({ n \in DOMAIN xs : xs[n] # Null })]
      [] OTHER -> Applied(kind, xs)

Truth(e, f) ==
    CASE e.kind = "Variable"  -> IF e.variable \in DOMAIN f THEN f[e.variable] ELSE Null
      [] e.kind = "NamedNode" -> e.node
      [] e.kind = "Literal"   -> e.value
      [] e.kind = "Bound"     -> e.variable \in DOMAIN f
      [] e.kind = "Exists"    -> \E g \in DOMAIN Solutions(e.pattern) : Compatible(f, g)
      [] OTHER -> ValueOf(e.kind, [n \in DOMAIN e.operands |-> Truth(e.operands[n], f)])

JoinSolutions(l, r) == Products(l, r, Compatible)
Survives(f, r, es)  ==
    \A g \in DOMAIN r : ~(Compatible(f, g) /\ (es # <<>> => Truth(es[1], Merged(f, g)) = TRUE))
LeftJoinSolutions(l, r, es) ==
    Keep(JoinSolutions(l, r), LAMBDA f : es # <<>> => Truth(es[1], f) = TRUE)
        (+) Keep(l, LAMBDA f : Survives(f, r, es))
MinusSolutions(l, r) ==
    Keep(l, LAMBDA f : \A g \in DOMAIN r :
        Compatible(f, g) => DOMAIN f \intersect DOMAIN g = {})

Extended(f, v, value) == IF value = Null THEN f ELSE Merged([w \in {v} |-> value], f)
Binding(b) == Restrict(b, { v \in DOMAIN b : b[v] # Null })

\* COUNT counts the values; one without a value spoils the other aggregates.
Aggregated(a, members) ==
    LET all    == BagOfAll(LAMBDA f : Truth(a.expr, f), members)
        values == IF a.distinct THEN SetToBag(BagToSet(all)) ELSE all
    IN  CASE a.kind = "CountAll" ->
                IF a.distinct THEN Cardinality(DOMAIN members) ELSE BagCardinality(members)
          [] a.kind = "Count" -> BagCardinality(Keep(values, LAMBDA v : v # Null))
          [] OTHER ->
                IF Null \in DOMAIN values THEN Null
                ELSE CASE a.kind = "Sum" -> MapThenSumSet(LAMBDA v : v * values[v], DOMAIN values)
                       [] a.kind = "Min" ->
                            CHOOSE v \in DOMAIN values : \A w \in DOMAIN values : v <= w
                       [] a.kind = "Max" ->
                            CHOOSE v \in DOMAIN values : \A w \in DOMAIN values : v >= w

GroupSolutions(x, all) ==
    LET key(f)     == Restrict(f, DOMAIN f \intersect x.variables)
        members(k) == Keep(all, LAMBDA f : key(f) = k)
        add(f, a)  == Extended(f, a[1], Aggregated(a[2], members(key(f))))
    IN  SetToBag({ FoldLeft(add, k, x.aggregates) : k \in { key(f) : f \in DOMAIN all } })

Solutions(x) ==
    CASE x.kind = "Bgp"      -> BgpSolutions(x)
      [] x.kind = "Values"   ->
            BagOfAll(LAMBDA n : Binding(x.bindings[n]), SetToBag(DOMAIN x.bindings))
      [] x.kind = "Join"     -> JoinSolutions(Solutions(x.left), Solutions(x.right))
      [] x.kind = "LeftJoin" ->
            LeftJoinSolutions(Solutions(x.left), Solutions(x.right), x.expression)
      [] x.kind = "Union"    -> Solutions(x.left) (+) Solutions(x.right)
      [] x.kind = "Minus"    -> MinusSolutions(Solutions(x.left), Solutions(x.right))
      [] x.kind = "Filter"   -> Keep(Solutions(x.inner), LAMBDA f : Truth(x.expr, f) = TRUE)
      [] x.kind = "Extend"   ->
            BagOfAll(LAMBDA f : Extended(f, x.variable, Truth(x.expr, f)), Solutions(x.inner))
      [] x.kind = "Project"  ->
            BagOfAll(LAMBDA f : Restrict(f, DOMAIN f \intersect x.variables), Solutions(x.inner))
      [] x.kind = "Distinct" -> SetToBag(BagToSet(Solutions(x.inner)))
      [] x.kind = "Group"    -> GroupSolutions(x, Solutions(x.inner))
      [] x.kind \in {"Reduced", "OrderBy"} -> Solutions(x.inner)

----------------------------------------------------------------------------
\* Which variables a pattern has in scope, mentions, and always binds.

RECURSIVE ExpressionVariables(_), InScope(_), Mentioned(_), Certain(_)
ExpressionVariables(e) ==
    CASE e.kind \in {"Variable", "Bound"} -> {e.variable}
      [] OTHER -> UNION { ExpressionVariables(e.operands[n]) : n \in DOMAIN e.operands }
Aggregates(x) == { x.aggregates[n][1] : n \in DOMAIN x.aggregates }
InScope(x) ==
    CASE x.kind = "Bgp" -> BgpVariables(x)
      [] x.kind \in {"Values", "Project"} -> x.variables
      [] x.kind = "Minus" -> InScope(x.left)
      [] IsPair(x) -> InScope(x.left) \union InScope(x.right)
      [] x.kind = "Extend" -> InScope(x.inner) \union {x.variable}
      [] x.kind = "Group"  -> x.variables \union Aggregates(x)
      [] OTHER -> InScope(x.inner)
Mentioned(x) ==
    CASE x.kind \in {"Bgp", "Values"} -> InScope(x)
      [] IsPair(x) -> Mentioned(x.left) \union Mentioned(x.right)
      [] x.kind = "Extend" -> Mentioned(x.inner) \union {x.variable}
      [] x.kind = "Group"  -> Mentioned(x.inner) \union Aggregates(x)
      [] OTHER -> Mentioned(x.inner)
Certain(x) ==
    CASE x.kind = "Bgp" -> BgpVariables(x)
      [] x.kind = "Values" -> { v \in x.variables : \A n \in DOMAIN x.bindings : x.bindings[n][v] # Null }
      [] x.kind = "Join"  -> Certain(x.left) \union Certain(x.right)
      [] x.kind = "Union" -> Certain(x.left) \intersect Certain(x.right)
      [] IsPair(x) -> Certain(x.left)
      [] x.kind = "Project" -> Certain(x.inner) \intersect x.variables
      [] x.kind = "Group"   -> (Certain(x.inner) \intersect x.variables) \union Aggregates(x)
      [] OTHER -> Certain(x.inner)

Meet(l, r)       == InScope(l) \intersect InScope(r)
MeetSafely(l, r) == Meet(l, r) \subseteq Certain(l) \intersect Certain(r)
\* The empty solutions that VALUES adds are dropped by a join.
KeepsValues(l, r) == "Values" \in {l.kind, r.kind} => Meet(l, r) # {}

\* No solution of x comes twice.
RECURSIVE IsASet(_), CountsAgree(_, _)
IsASet(x) ==
    CASE x.kind \in {"Bgp", "Distinct", "Group"} -> TRUE
      [] x.kind \in {"Values", "Union", "Project"} -> FALSE
      [] x.kind = "Minus" -> IsASet(x.left)
      [] IsPair(x) -> IsASet(x.left) /\ IsASet(x.right)
      [] OTHER -> IsASet(x.inner)
\* The right side of a left join is evaluated within its left, and joined with it.
CountsAgree(x, outer) ==
    CASE x.kind \in {"Bgp", "Values"} -> TRUE
      [] x.kind = "LeftJoin" ->
            IsASet(x.left) /\ CountsAgree(x.left, outer) /\ CountsAgree(x.right, outer \union InScope(x.left))
      [] IsPair(x) -> CountsAgree(x.left, outer) /\ CountsAgree(x.right, outer)
      [] x.kind = "Project" -> outer = {} /\ CountsAgree(x.inner, outer)
      [] OTHER -> CountsAgree(x.inner, outer)

\* Pattern x, evaluated within solution mappings of the variables outer, gives
\* their join with its solutions.
RECURSIVE IsSafe(_, _)
ExistsIsSafe(inner, e, outer) ==
    LET x == e.pattern
    IN  /\ Mentioned(x) \intersect outer \subseteq InScope(inner)
        /\ Meet(inner, x) \subseteq Certain(inner)
        /\ IF x.kind = "Minus" THEN x.left.kind = "Bgp" /\ x.right.kind = "Bgp" ELSE x.kind = "Bgp"
\* A count less another may be below zero, which an unsigned number cannot be.
IsNumber(inner, e) ==
    \/ e.kind = "Literal"
    \/ e.kind = "Variable" /\ inner.kind = "Group" /\ e.variable \in Aggregates(inner)
RECURSIVE ExpressionIsSafe(_, _, _)
ExpressionIsSafe(inner, e, outer) ==
    CASE e.kind = "Exists" -> ExistsIsSafe(inner, e, outer)
      [] e.kind = "SameTerm" -> FALSE
      [] e.kind \in Arithmetic ->
            /\ \A n \in DOMAIN e.operands : IsNumber(inner, e.operands[n])
            /\ e.kind = "Subtract" => e.operands[2].kind = "Literal"
      [] OTHER -> /\ ExpressionVariables(e) \subseteq InScope(inner)
                  /\ \A n \in DOMAIN e.operands : ExpressionIsSafe(inner, e.operands[n], outer)
                  /\ e.kind = "If" => ExpressionVariables(e.operands[1]) \subseteq Certain(inner)
\* What is counted has a value in every solution; COUNT( * ) is not of a count.
AggregateIsSafe(inner, a, outer) ==
    IF a.kind = "CountAll" THEN a.distinct /\ Cardinality(InScope(inner)) = 1
    ELSE /\ ExpressionIsSafe(inner, a.expr, outer)
         /\ ExpressionVariables(a.expr) \subseteq Certain(inner)
IsSafe(x, outer) ==
    CASE x.kind = "Bgp" -> \A n \in DOMAIN x.patterns : VariablesOf(x.patterns[n]) # {}
      [] x.kind = "Values" -> outer # {}
      [] x.kind = "Join" ->
            /\ MeetSafely(x.left, x.right) /\ KeepsValues(x.left, x.right)
            /\ IsSafe(x.left, outer)
            /\ x.right.kind = "Values" \/ IsSafe(x.right, outer)
      [] x.kind = "LeftJoin" ->
            /\ MeetSafely(x.left, x.right) /\ Meet(x.left, x.right) # {}
            /\ IsSafe(x.left, outer) /\ IsSafe(x.right, outer \union InScope(x.left))
            /\ \A n \in DOMAIN x.expression :
                  ExpressionIsSafe(Join(x.left, x.right), x.expression[n], outer)
      [] x.kind = "Union" ->
            InScope(x.left) = InScope(x.right) /\ IsSafe(x.left, outer) /\ IsSafe(x.right, outer)
      [] x.kind = "Minus" ->
            /\ MeetSafely(x.left, x.right) /\ IsSafe(x.left, outer) /\ IsSafe(x.right, outer)
            /\ Mentioned(x.right) \intersect outer \subseteq InScope(x.left)
            /\ outer # {} => Meet(x.left, x.right) # {}
      [] x.kind \in {"Filter", "Extend"} ->
            IsSafe(x.inner, outer) /\ ExpressionIsSafe(x.inner, x.expr, outer)
      [] x.kind = "Project" ->
            /\ IsSafe(x.inner, outer) /\ x.variables \subseteq InScope(x.inner)
            /\ Mentioned(x.inner) \intersect outer \subseteq x.variables
      [] x.kind = "OrderBy" ->
            /\ IsSafe(x.inner, outer)
            /\ \A n \in DOMAIN x.expression : ExpressionIsSafe(x.inner, x.expression[n], outer)
      [] x.kind = "Group" ->
            /\ outer = {} /\ IsSafe(x.inner, {}) /\ CountsAgree(x.inner, {})
            /\ x.variables # {} /\ x.variables \subseteq InScope(x.inner)
            /\ \A n \in DOMAIN x.aggregates : AggregateIsSafe(x.inner, x.aggregates[n][2], {})
      [] OTHER -> IsSafe(x.inner, outer)

----------------------------------------------------------------------------
\* Which patterns can be put together.  A variable in which two triple patterns have
\* met is a column of categories, in every pattern that is evaluated within these
\* solution mappings; one that only one pattern mentions is a column of strings.

\* The columns of x in order, within solution mappings with the columns outer.
AddedTo(list, more) == FoldLeft(LAMBDA l, v : IF v \in Range(l) THEN l ELSE Append(l, v), list, more)
RECURSIVE Columns(_, _), IsMet(_, _), Met(_, _, _)
Columns(x, outer) ==
    CASE x.kind = "Bgp" ->
            LET ends(tp) == SelectSeq(<<tp[1], tp[3]>>, LAMBDA v : v \in Variables)
            IN  FoldLeft(LAMBDA l, tp : AddedTo(l, ends(tp)), outer, x.patterns)
      [] x.kind = "Values"   -> AddedTo(outer, Listed(x.variables))
      [] x.kind = "Minus"    -> Columns(x.left, outer)
      [] x.kind = "LeftJoin" -> LET l == Columns(x.left, outer) IN AddedTo(l, Columns(x.right, l))
      [] IsPair(x)           -> AddedTo(Columns(x.left, outer), Columns(x.right, outer))
      [] x.kind = "Extend"   -> Append(Columns(x.inner, outer), x.variable)
      [] x.kind = "Project"  -> Listed(x.variables)
      [] x.kind = "Group"    -> Listed(x.variables) \o [n \in DOMAIN x.aggregates |-> x.aggregates[n][1]]
      [] OTHER -> Columns(x.inner, outer)

\* Those in which patterns have met, within others of which met were so.
IsMet(e, met) ==
    CASE e.kind = "Variable" -> e.variable \in met
      [] e.kind = "If"       -> IsMet(e.operands[2], met)
      [] e.kind = "Coalesce" -> IsMet(e.operands[1], met)
      [] OTHER -> FALSE
Met(x, outer, met) ==
    CASE x.kind = "Bgp" ->
            LET mentioning(v) == { n \in DOMAIN x.patterns : v \in VariablesOf(x.patterns[n]) }
                several == { v \in BgpVariables(x) : Cardinality(mentioning(v)) > 1 }
            IN  met \union several \union (BgpVariables(x) \intersect Range(outer))
      [] x.kind = "Values"   -> met
      [] x.kind = "Minus"    -> Met(x.left, outer, met)
      [] x.kind = "LeftJoin" ->
            LET l == Met(x.left, outer, met) IN l \union Met(x.right, Columns(x.left, outer), l)
      [] IsPair(x)           -> Met(x.left, outer, met) \union Met(x.right, outer, met)
      [] x.kind \in {"Project", "Group"} -> Met(x.inner, outer, met) \intersect x.variables
      [] x.kind = "Extend"   ->
            LET inner == Met(x.inner, outer, met)
            IN  inner \union (IF IsMet(x.expr, inner) THEN {x.variable} ELSE {})
      [] OTHER -> Met(x.inner, outer, met)

\* Strings and categories are compared nowhere, and the sides of a union have the
\* same columns in the same order.
RECURSIVE Fits(_, _, _), ExpressionFits(_, _, _)
ExpressionFits(e, columns, met) ==
    LET alike == { n \in DOMAIN e.operands : e.kind = "If" => n > 1 }
    IN  CASE e.kind = "Exists" -> Fits(RewriteExists(e.pattern), columns, met)
          [] OTHER -> /\ \A n \in DOMAIN e.operands : ExpressionFits(e.operands[n], columns, met)
                      /\ \A m, n \in alike : IsMet(e.operands[m], met) <=> IsMet(e.operands[n], met)
ExpressionsOf(x) ==
    CASE x.kind \in {"Filter", "Extend"} -> {x.expr}
      [] x.kind = "OrderBy" -> Range(x.expression)
      [] x.kind = "Group"   ->
            { a.expr : a \in { x.aggregates[n][2] : n \in { k \in DOMAIN x.aggregates :
                                                          x.aggregates[k][2].kind # "CountAll" } } }
      [] OTHER -> {}
PairFits(x, outer, met) ==
    LET left   == Columns(x.left, outer)
        inLeft == Met(x.left, outer, met)
        around == IF x.kind = "LeftJoin" THEN [columns |-> left, met |-> inLeft]
                  ELSE [columns |-> outer, met |-> met]
        right   == Columns(x.right, around.columns)
        inRight == Met(x.right, around.columns, around.met)
    IN  /\ Fits(x.left, outer, met) /\ Fits(x.right, around.columns, around.met)
        /\ \A v \in Range(left) \intersect Range(right) : v \in inLeft <=> v \in inRight
        /\ x.kind = "Union" => left = right
        /\ x.kind = "LeftJoin" =>
              \A n \in DOMAIN x.expression : ExpressionFits(x.expression[n], right, inRight)
Fits(x, outer, met) ==
    CASE x.kind = "Bgp"    -> TRUE
      [] x.kind = "Values" -> x.variables \intersect met = {}
      [] IsPair(x)         -> PairFits(x, outer, met)
      [] OTHER ->
            /\ Fits(x.inner, outer, met)
            /\ \A e \in ExpressionsOf(x) :
                  ExpressionFits(e, Columns(x.inner, outer), Met(x.inner, outer, met))

----------------------------------------------------------------------------
Answers == BagOfAll(Binding, solutions)

\* A slice of as many solutions as are asked for, if there are so many.
SliceOf(all) ==
    LET left == BagCardinality(all) - pattern.start
        size == BagCardinality(Answers)
    IN  /\ Answers \sqsubseteq all
        /\ size = IF left < 0 THEN 0 ELSE IF pattern.length = Null THEN left ELSE Min({left, pattern.length})
\* Of a limit, 32 bits are read.
LimitFits == pattern.kind = "Slice" => pattern.length = Null \/ pattern.length < U32

\* Where patterns meet in variables that both always bind, evaluation within the
\* surroundings, if it is answered, gives the solutions of SPARQL: a null that stands
\* for an unbound variable joins with itself only, and no filter, MINUS, EXISTS,
\* subquery or aggregate sees more than it should.  They are those of the pattern as
\* the code reads it: of a bound(?v) that means its contrary, and of an EXISTS that
\* makes a join of a MINUS, it says nothing more.
AnswersAreExact ==
    stage = "answered" /\ IsSafe(Whole, {}) =>
        LET all == BagToSet(Solutions(PatternAsRead(Whole)))
        IN  IF pattern.kind = "Slice" THEN BagToSet(Answers) \subseteq all
            ELSE BagToSet(Answers) = all

\* They also come as often as they should, if the left side of no left join gives
\* a solution twice; else its solutions are counted again on the right.
MultiplicitiesAreExact ==
    stage = "answered" /\ IsSafe(Whole, {}) /\ CountsAgree(Whole, {}) /\ LimitFits =>
        LET all == Solutions(PatternAsRead(Whole))
        IN  IF pattern.kind = "Slice" THEN SliceOf(all) ELSE Answers = all

\* Such a query is answered, if its predicates have tables and the columns of its
\* parts fit, whatever the tables hold: no join is of strings with categories, though
\* the right side of an OPTIONAL has cast what its left may not have.
SafeQueriesAreAnswered ==
    stage = "failed" => ~(IsSafe(Whole, {}) /\ Fits(Whole, <<>>, {})) \/ HasMissing(Whole)

\* Row numbers of EXISTS and columns that are grouped do not come out, and every
\* row has all columns.
TypeOK ==
    /\ graph \in Graphs
    /\ stage \in {"parsed", "answered", "failed"}
    /\ IsABag(solutions)
    /\ \A a \in DOMAIN solutions : a \in [Whole.variables -> Nodes \union {Null, AList} \union Nat]
=============================================================================

---------------------------- MODULE GraphPatterns ----------------------------
(***************************************************************************)
(* The evaluation of a query's graph pattern: lazy_graph_pattern and       *)
(* lazy_expression, which call each other.  Solution mappings are passed   *)
(* down: a pattern is evaluated within those of its surroundings.          *)
(*                                                                         *)
(* The tables are deduplicated and hold IRIs only, as strings.  What is    *)
(* joined is cast to categories, so that how a column came about decides   *)
(* with which others it can be joined, or compared.                        *)
(***************************************************************************)
EXTENDS SolutionMappings, SequencesExt

CONSTANTS
    U32,         \* the number of values of a u32: smaller in a model
    Nodes,
    Variables,
    Predicates,  \* those with a table
    Graphs,      \* what the tables hold: functions from Predicates to edges
    Queries      \* graph patterns

ASSUME GraphsAssumption == Graphs \subseteq [Predicates -> SUBSET (Nodes \X Nodes)]
ASSUME NamesAssumption  == /\ Nodes \intersect Variables = {}
                           /\ Null \notin Nodes /\ RowNumber \notin Variables

VARIABLES
    graph,    \* the tables
    pattern,  \* of the query
    stage,    \* "parsed", "answered" or "failed"
    solutions

vars == <<graph, pattern, stage, solutions>>

----------------------------------------------------------------------------
\* Graph patterns and expressions (spargebra).  A triple pattern is a triple
\* <<subject, predicate, object>>.
Bgp(tps)              == [kind |-> "Bgp", patterns |-> tps]
Join(l, r)            == [kind |-> "Join", left |-> l, right |-> r]
LeftJoin(l, r, es)    == [kind |-> "LeftJoin", left |-> l, right |-> r, expression |-> es]
Filter(e, x)          == [kind |-> "Filter", expr |-> e, inner |-> x]
Union(l, r)           == [kind |-> "Union", left |-> l, right |-> r]
Minus(l, r)           == [kind |-> "Minus", left |-> l, right |-> r]
Extend(x, v, e)       == [kind |-> "Extend", inner |-> x, variable |-> v, expr |-> e]
Project(x, vs)        == [kind |-> "Project", inner |-> x, variables |-> vs]
Distinct(x)           == [kind |-> "Distinct", inner |-> x]
Values(vs, bindings)  == [kind |-> "Values", variables |-> vs, bindings |-> bindings]
Reduced(x)            == [kind |-> "Reduced", inner |-> x]
OrderBy(x, es)        == [kind |-> "OrderBy", inner |-> x, expression |-> es]
Group(x, vs, as)      == [kind |-> "Group", inner |-> x, variables |-> vs, aggregates |-> as]
Slice(x, from, limit) == [kind |-> "Slice", inner |-> x, start |-> from, length |-> limit]

\* Aggregates, in a sequence of pairs of a variable and an aggregate.
Aggregate(kind, e, unique) == [kind |-> kind, expr |-> e, distinct |-> unique]
CountAll(unique)           == [kind |-> "CountAll", distinct |-> unique]

Leaf(kind)          == [kind |-> kind, operands |-> <<>>]
Operator(kind, es)  == [kind |-> kind, operands |-> es]
Var(v)         == Leaf("Variable") @@ [variable |-> v]
NamedNode(n)   == Leaf("NamedNode") @@ [node |-> n]
Number(n)      == Leaf("Literal") @@ [value |-> n]
Bound(v)       == Leaf("Bound") @@ [variable |-> v]
Exists(x)      == Leaf("Exists") @@ [pattern |-> x]
Equal(l, r)    == Operator("Equal", <<l, r>>)
Greater(l, r)  == Operator("Greater", <<l, r>>)
Or(l, r)       == Operator("Or", <<l, r>>)
Not(e)         == Operator("Not", <<e>>)

IsPair(x) == x.kind \in {"Join", "LeftJoin", "Union", "Minus"}

----------------------------------------------------------------------------
\* lazy_triple_pattern

VariablesOf(tp) == {tp[1], tp[3]} \intersect Variables

\* The edges that agree with the nodes of the pattern.  A frame without columns
\* has no rows.
TripleFrame(tp) ==
    IF VariablesOf(tp) = {} THEN EmptyBag
    ELSE BagOfAll(LAMBDA x : [v \in VariablesOf(tp) |-> IF v = tp[1] THEN x[1] ELSE x[2]],
                  SetToBag({ x \in graph[tp[2]] : /\ tp[1] \in Variables \/ x[1] = tp[1]
                                                  /\ tp[3] \in Variables \/ x[2] = tp[3] }))

\* Its plan: the subject comes first, and IRIs are strings.
TriplePlan(tp) ==
    Lazy(SelectSeq(<<tp[1], tp[3]>>, LAMBDA v : v \in Variables),
         [v \in VariablesOf(tp) |-> "Utf8"], {TRUE})

\* These columns, cast to categories; what polars makes of others than strings is not
\* known.
Categorical(frame, columns) ==
    LET were == { frame.dtypes[c] : c \in columns }
        cast == IF were \subseteq {"Utf8", "Categorical"} THEN {TRUE} ELSE BOOLEAN
    IN  Lazy(frame.order, Merged([c \in columns |-> "Categorical"], frame.dtypes),
             Outcome({frame.collects, cast}))

\* The columns that a pattern is joined on are cast, in both frames.
LazyTriplePattern(sm, tp) ==
    LET types == [v \in VariablesOf(tp) |-> "IRI"]
        on    == VariablesOf(tp) \intersect sm.columns
    IN  IF sm = None THEN Mappings(TripleFrame(tp), VariablesOf(tp), types, TriplePlan(tp))
        ELSE Mappings(InnerJoin(sm.rows, TripleFrame(tp), on),
                      sm.columns \union VariablesOf(tp), Merged(types, sm.rdf_node_types),
                      Beside(Categorical(sm.frame, on), Categorical(TriplePlan(tp), on), on))

\* Of a predicate without a table: no rows, and the columns of the pattern only
\* if one of them is there already.
LazyMissingPattern(sm, tp) ==
    LET types == [v \in VariablesOf(tp) |-> "None"]
        plan  == Lazy(Listed(VariablesOf(tp)), [v \in VariablesOf(tp) |-> "Null"], {TRUE})
    IN  IF sm = None THEN Mappings(EmptyBag, VariablesOf(tp), types, plan)
        ELSE IF VariablesOf(tp) \intersect sm.columns = {} THEN [sm EXCEPT !.rows = EmptyBag]
        ELSE Mappings(EmptyBag, sm.columns \union VariablesOf(tp),
                      Merged(sm.rdf_node_types, types), Beside(sm.frame, plan, {}))

RECURSIVE LazyBgp(_, _)
LazyBgp(tps, sm) ==
    IF tps = <<>> THEN sm
    ELSE LazyBgp(Tail(tps), IF Head(tps)[2] \in Predicates
                            THEN LazyTriplePattern(sm, Head(tps))
                            ELSE LazyMissingPattern(sm, Head(tps)))

----------------------------------------------------------------------------
\* lazy_expression: the column of values, by row.

OrValue(l, r)    == IF TRUE \in {l, r} THEN TRUE ELSE IF Null \in {l, r} THEN Null ELSE FALSE
NotValue(x)      == IF x = Null THEN Null ELSE ~x
AndValue(l, r)   == NotValue(OrValue(NotValue(l), NotValue(r)))
EqualValue(l, r) == IF Null \in {l, r} THEN Null ELSE l = r
BoundValue(x)    == x = Null   \* is_null(), where bound(?v) asks for the contrary
InValue(l, rs)   == FoldLeft(LAMBDA found, r : OrValue(found, EqualValue(l, r)), FALSE, rs)
IfValue(c, m, r) == IF c = TRUE THEN m ELSE r
Coalesced(xs)    == FoldLeft(LAMBDA x, y : IF x # Null THEN x ELSE y, Head(xs), Tail(xs))

\* Of numbers.
Compared(kind, l, r) ==
    CASE kind = "Greater"        -> l > r
      [] kind = "GreaterOrEqual" -> l >= r
      [] kind = "Less"           -> l < r
      [] kind = "LessOrEqual"    -> l <= r
Computed(kind, l, r) ==
    CASE kind = "Add"      -> l + r
      [] kind = "Subtract" -> l - r
      [] kind = "Multiply" -> l * r

Arithmetic == {"Add", "Subtract", "Multiply"}

\* The value of an operator, of those of its operands.
Applied(kind, xs) ==
    CASE kind = "Not"      -> NotValue(xs[1])
      [] kind = "Equal"    -> EqualValue(xs[1], xs[2])
      [] kind = "And"      -> AndValue(xs[1], xs[2])
      [] kind = "Or"       -> OrValue(xs[1], xs[2])
      [] kind = "In"       -> InValue(xs[1], Tail(xs))
      [] kind = "If"       -> IfValue(xs[1], xs[2], xs[3])
      [] kind = "Coalesce" -> Coalesced(xs)
      [] OTHER -> IF Null \in Range(xs) THEN Null
                  ELSE IF kind \in Arithmetic THEN Computed(kind, xs[1], xs[2])
                  ELSE Compared(kind, xs[1], xs[2])

\* polars subtracts and adds columns of u32 in 32 bits.
InItsWidth(kind, types, x) ==
    IF kind \in Arithmetic /\ x # Null /\ types = <<"unsignedInt", "unsignedInt">>
    THEN x % U32 ELSE x

\* The type of the middle operand, of the first, and that of binop_type.
TypeOfOperator(kind, types) ==
    CASE kind = "If"         -> types[2]
      [] kind = "Coalesce"   -> types[1]
      [] kind \in Arithmetic -> "integer"
      [] OTHER               -> "boolean"

\* If and coalesce have the dtype of their values; the others say TRUE or FALSE, or
\* count.
DtypeOfOperator(kind, dtypes) ==
    CASE kind = "If"         -> dtypes[2]
      [] kind = "Coalesce"   -> dtypes[1]
      [] kind \in Arithmetic -> "Number"
      [] OTHER               -> "Boolean"

\* What polars makes of operands of unlike dtypes, strings and categories among
\* them, is not known.
OperandsMeet(kind, dtypes) ==
    LET alike == IF kind = "If" THEN Tail(dtypes) ELSE dtypes
    IN  IF Cardinality(Range(alike)) > 1 THEN BOOLEAN ELSE {TRUE}

\* todo!(), and the panic of binop_type.
OperatorPanics(kind, types) ==
    \/ kind = "SameTerm"
    \/ kind \in Arithmetic /\ {"IRI", "None"} \intersect Range(types) # {}

\* rewrite_exists_graph_pattern: the row numbers have to come through.
RECURSIVE RewriteExists(_)
RewriteExists(x) ==
    CASE x.kind = "Minus"    -> Join(RewriteExists(x.left), x.right)
      [] x.kind \in {"Join", "LeftJoin", "Union"} ->
            [x EXCEPT !.left = RewriteExists(@), !.right = RewriteExists(@)]
      [] x.kind = "Project"  ->
            [x EXCEPT !.inner = RewriteExists(@), !.variables = @ \union {RowNumber}]
      [] x.kind = "Group"    ->
            [x EXCEPT !.inner = RewriteExists(@),
                      !.aggregates = @ \o << <<RowNumber, Aggregate("Max", Var(RowNumber), FALSE)>> >>]
      [] x.kind \in {"Filter", "Extend", "Distinct", "Reduced", "OrderBy", "Slice"} ->
            [x EXCEPT !.inner = RewriteExists(@)]
      [] OTHER -> x

\* Equal rows get the same number: the answers to EXISTS are the same for them.
Numbered(sm) ==
    [sm EXCEPT !.rows = BagOfAll(LAMBDA a : Merged(a, [c \in {RowNumber} |-> a]), @),
               !.frame.order = Append(@, RowNumber),
               !.frame.dtypes = Merged(@, [c \in {RowNumber} |-> "Number"])]

RECURSIVE LazyExpression(_, _), LazyGraphPattern(_, _)

\* Both frames are collected at once, and must not fail.
ExistsColumn(e, sm) ==
    LET found    == LazyGraphPattern(RewriteExists(e.pattern), Numbered(sm))
        collects == Outcome({sm.frame.collects, found.frame.collects})
    IN  IF Failed(found) \/ collects = {FALSE} THEN NoColumn
        ELSE Column("boolean", "Boolean", collects, sm,
                    LAMBDA a : \E b \in DOMAIN found.rows : b[RowNumber] = a)

\* The operands are evaluated in turn, each with the columns of those before.
OperatorColumn(e, sm) ==
    LET columns == [n \in DOMAIN e.operands |-> LazyExpression(e.operands[n], sm)]
        types   == [n \in DOMAIN columns |-> columns[n].type]
        dtypes  == [n \in DOMAIN columns |-> columns[n].dtype]
        collects == Outcome({ columns[n].collects : n \in DOMAIN columns } \union {OperandsMeet(e.kind, dtypes)})
        value(a) == Applied(e.kind, [n \in DOMAIN columns |-> columns[n].value[a]])
    IN  IF (\E n \in DOMAIN columns : columns[n].failed) \/ OperatorPanics(e.kind, types) THEN NoColumn
        ELSE Column(TypeOfOperator(e.kind, types), DtypeOfOperator(e.kind, dtypes), collects, sm,
                    LAMBDA a : InItsWidth(e.kind, types, value(a)))

LazyExpression(e, sm) ==
    CASE e.kind = "Variable" ->
            \* VariableNotFound, or no type: rdf_node_types.get(..).unwrap()
            IF e.variable \notin sm.columns \intersect DOMAIN sm.rdf_node_types THEN NoColumn
            ELSE Column(sm.rdf_node_types[e.variable], sm.frame.dtypes[e.variable], {TRUE}, sm,
                        LAMBDA a : a[e.variable])
      [] e.kind = "NamedNode" -> Column("IRI", "Utf8", {TRUE}, sm, LAMBDA a : e.node)
      [] e.kind = "Literal"   -> Column("integer", "Number", {TRUE}, sm, LAMBDA a : e.value)
      [] e.kind = "Bound" ->
            IF e.variable \notin sm.columns THEN NoColumn
            ELSE Column("boolean", "Boolean", {TRUE}, sm, LAMBDA a : BoundValue(a[e.variable]))
      [] e.kind = "Exists" -> ExistsColumn(e, sm)
      [] OTHER -> OperatorColumn(e, sm)

----------------------------------------------------------------------------
\* lazy_graph_pattern

\* The solution mappings that the operands are evaluated within: those of the
\* operator, except that the right side of a left join gets those of its left.

\* Mutants of JoinInput and LeftJoinInput: the one of the other.
JoinInputOfLeft(sm, left)    == left
LeftJoinInputOfJoin(sm, left) == sm

JoinInput(sm, left)     == sm
LeftJoinInput(sm, left) == left

LazyFilter(es, sm) ==
    IF es = <<>> \/ Failed(sm) THEN sm
    ELSE LET column == LazyExpression(es[1], sm)
         IN  IF column.failed THEN Failure ELSE FilterMappings(sm, column)

LazyExtend(sm, v, e) ==
    LET column == LazyExpression(e, sm)
    IN  IF column.failed THEN Failure ELSE ExtendMappings(sm, v, column)

\* lazy_order_by, but for the order and its direction: the expressions are
\* evaluated in turn, and their columns dropped.
LazyOrderExpression(e, sm) == LazyExpression(e, sm)
LazyOrderBy(es, sm) ==
    LET columns == [n \in DOMAIN es |-> LazyOrderExpression(es[n], sm)]
    IN  IF \E n \in DOMAIN es : columns[n].failed THEN Failure ELSE [sm EXCEPT !.frame = WithColumns(columns, @)]

\* The column that an aggregate is of.  COUNT( * ) is of all of them, which get
\* one name.
AggregateColumn(a, sm) ==
    IF a.kind # "CountAll" THEN LazyExpression(a.expr, sm)
    ELSE IF Cardinality(sm.columns) # 1 THEN NoColumn
    ELSE Column("unsignedInt", "Number", {TRUE}, sm, LAMBDA row : row[CHOOSE v \in sm.columns : TRUE])

LazyGroup(x, sm) ==
    LET columns == [n \in DOMAIN x.aggregates |-> AggregateColumn(x.aggregates[n][2], sm)]
    IN  IF \E n \in DOMAIN columns : columns[n].failed THEN Failure
        ELSE GroupMappings(sm, x.variables, x.aggregates, columns)

LazyPair(x, sm) ==
    LET left  == LazyGraphPattern(x.left, sm)
        input == IF x.kind = "LeftJoin" THEN LeftJoinInput(sm, left) ELSE JoinInput(sm, left)
        right == LazyGraphPattern(x.right, input)
        kept  == IF x.kind = "LeftJoin" THEN LazyFilter(x.expression, right) ELSE right
    IN  IF Failed(left) \/ Failed(right) \/ Failed(kept) THEN Failure
        ELSE CASE x.kind = "Join"     -> JoinMappings(left, right)
               [] x.kind = "LeftJoin" -> LeftJoinMappings(left, kept)
               [] x.kind = "Union"    -> UnionMappings(left, right)
               [] x.kind = "Minus"    -> MinusMappings(left, right)

LazySingle(x, sm) ==
    LET inner == LazyGraphPattern(x.inner, sm)
    IN  IF Failed(inner) THEN Failure
        ELSE CASE x.kind = "Filter"   -> LazyFilter(<<x.expr>>, inner)
               [] x.kind = "Extend"   -> LazyExtend(inner, x.variable, x.expr)
               [] x.kind = "Project"  -> ProjectMappings(inner, x.variables)
               [] x.kind = "Distinct" -> DistinctMappings(inner)
               [] x.kind = "Reduced"  -> inner
               [] x.kind = "OrderBy"  -> LazyOrderBy(x.expression, inner)
               [] x.kind = "Group"    -> LazyGroup(x, inner)

LazyGraphPattern(x, sm) ==
    CASE x.kind = "Bgp" ->
            \* updated_solution_mappings.unwrap()
            IF x.patterns = <<>> /\ sm = None THEN Failure ELSE LazyBgp(x.patterns, sm)
      [] x.kind = "Values" -> ValuesMappings(sm, x.variables, x.bindings)
      [] IsPair(x) -> LazyPair(x, sm)
      [] OTHER     -> LazySingle(x, sm)

----------------------------------------------------------------------------
\* query_parsed, of a SELECT

Init ==
    /\ graph \in Graphs
    /\ pattern \in Queries
    /\ stage = "parsed"
    /\ solutions = EmptyBag

\* A slice is the outermost operator of a query, and of a subquery, which are
\* left out.  Which rows come first is not known.
Whole == IF pattern.kind = "Slice" THEN pattern.inner ELSE pattern

SliceHeight(rows, x) ==
    LET left == BagCardinality(rows) - x.start
        most == IF x.length = Null THEN U32 - 1 ELSE x.length % U32   \* as u32
    IN  IF left < 0 THEN 0 ELSE IF left < most THEN left ELSE most
Slices(rows) ==
    IF pattern.kind # "Slice" THEN {rows}
    ELSE { b \in SubBag(rows) : BagCardinality(b) = SliceHeight(rows, pattern) }

\* collect().unwrap().  The columns of categories are strings again in the answer.
QueryParsed ==
    /\ stage = "parsed"
    /\ LET sm == LazyGraphPattern(Whole, None)
       IN  \/ /\ ~Failed(sm) /\ TRUE \in sm.frame.collects
             /\ solutions' \in Slices(sm.rows)
             /\ stage' = "answered"
          \/ /\ Failed(sm) \/ FALSE \in sm.frame.collects
             /\ stage' = "failed"
             /\ UNCHANGED solutions
    /\ UNCHANGED <<graph, pattern>>

\* polars may refuse to join or to append the columns of a predicate without a
\* table, which have the type Null, and to group by no column.
RECURSIVE HasMissing(_), GroupsByNothing(_)
HasMissing(x) ==
    CASE x.kind = "Bgp" -> \E n \in DOMAIN x.patterns : x.patterns[n][2] \notin Predicates
      [] x.kind = "Values" -> FALSE
      [] IsPair(x) -> HasMissing(x.left) \/ HasMissing(x.right)
      [] OTHER -> HasMissing(x.inner)
GroupsByNothing(x) ==
    CASE x.kind \in {"Bgp", "Values"} -> FALSE
      [] IsPair(x) -> GroupsByNothing(x.left) \/ GroupsByNothing(x.right)
      [] x.kind = "Group" -> x.variables = {} \/ GroupsByNothing(x.inner)
      [] OTHER -> GroupsByNothing(x.inner)

CollectFails ==
    /\ stage = "parsed" /\ (HasMissing(pattern) \/ GroupsByNothing(pattern))
    /\ stage' = "failed"
    /\ UNCHANGED <<graph, pattern, solutions>>

Next == QueryParsed \/ CollectFails

Spec == Init /\ [][Next]_vars
=============================================================================

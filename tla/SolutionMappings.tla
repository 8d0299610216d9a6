-------------------------- MODULE SolutionMappings --------------------------
(***************************************************************************)
(* Solution mappings and what the operators of lazy_graph_patterns/ do to  *)
(* them once their operands have been evaluated.                           *)
(*                                                                         *)
(* A frame is a bag of rows; a row gives every column a value, or Null.    *)
(* The columns of a frame are those in "columns", and in the evaluation of *)
(* EXISTS the row numbers, which "columns" does not name.  They have an    *)
(* order and polars dtypes, which say what collect makes of the lazy plan. *)
(***************************************************************************)
EXTENDS BagsExt, Integers, SequencesExt

CONSTANTS
    Null,
    AList,      \* stands for a list of values, where a number is expected
    RowNumber   \* the column named after the context of an EXISTS

\* The plan of a frame: its columns in order, their dtypes, and how collect may end.
Lazy(order, dtypes, collects) == [order |-> order, dtypes |-> dtypes, collects |-> collects]

\* Of several steps, one that fails, or may fail, is enough.
Outcome(steps) == IF {FALSE} \in steps THEN {FALSE} ELSE UNION (steps \union {{TRUE}})

\* Option<SolutionMappings>, or a failure: an error, or a panic before collect.
Mappings(rows, columns, types, frame) ==
    [is |-> "Some", rows |-> IF TRUE \in frame.collects THEN rows ELSE EmptyBag,
     columns |-> columns, rdf_node_types |-> types, frame |-> frame]
Without(kind) ==
    [is |-> kind, rows |-> EmptyBag, columns |-> {}, rdf_node_types |-> <<>>,
     frame |-> Lazy(<<>>, <<>>, {TRUE})]
None    == Without("None")
Failure == Without("failure")
Failed(sm) == sm.is = "failure"

Merged(f, g) == [c \in DOMAIN f \union DOMAIN g |-> IF c \in DOMAIN f THEN f[c] ELSE g[c]]
\* A list of variables is a set here, with an order of its own.
Listed(variables)    == FoldSet(LAMBDA v, list : Append(list, v), <<>>, variables)
Keep(rows, Holds(_)) == Restrict(rows, { a \in DOMAIN rows : Holds(a) })

\* The pairs of rows that match, merged: the columns of the left come first.
Products(left, right, Matches(_, _)) ==
    LET pairs == { x \in BagToSet(left) \X BagToSet(right) : Matches(x[1], x[2]) }
    IN  BagOfAll(LAMBDA x : Merged(x[1], x[2]), [x \in pairs |-> left[x[1]] * right[x[2]]])

----------------------------------------------------------------------------
\* Joins of frames.  A cross join is one on no columns.

\* Mutant of AgreesOn: a null matches nothing.
AgreesAndIsBound(a, b, on) == \A c \in on : a[c] = b[c] /\ a[c] # Null

AgreesOn(a, b, on) == \A c \in on : a[c] = b[c]

InnerJoin(left, right, on) == Products(left, right, LAMBDA a, b : AgreesOn(a, b, on))
IsMatched(a, right, on)    == \E b \in DOMAIN right : AgreesOn(a, b, on)
AntiJoin(left, right, on)  == Keep(left, LAMBDA a : ~IsMatched(a, right, on))

Padded(rows, columns) == BagOfAll(LAMBDA a : Merged(a, [c \in columns |-> Null]), rows)

Shared(l, r)      == l.columns \intersect r.columns
AllTypes(l, r)    == Merged(l.rdf_node_types, r.rdf_node_types)
TypesDiffer(l, r) == \E c \in DOMAIN l.rdf_node_types \intersect DOMAIN r.rdf_node_types :
                        l.rdf_node_types[c] # r.rdf_node_types[c]

\* Strings do not meet categories: neither as the keys of a join, nor in one column.
\* What polars makes of other unlike dtypes is not known.
DtypesMeet(d, e) == IF d = e THEN {TRUE} ELSE IF {d, e} = {"Utf8", "Categorical"} THEN {FALSE} ELSE BOOLEAN

KeysMeet(f, g, on) == Outcome({ DtypesMeet(f.dtypes[c], g.dtypes[c]) : c \in on })

\* concat takes frames with the same columns in the same order.
ColumnsMeet(f, g) ==
    IF f.order # g.order THEN {FALSE} ELSE KeysMeet(f, g, Range(f.order))

\* The frame that a join on these columns makes: those of the left, then the others.
Beside(f, g, on) ==
    Lazy(f.order \o SelectSeq(g.order, LAMBDA c : c \notin Range(f.order)),
         Merged(f.dtypes, g.dtypes), Outcome({f.collects, g.collects, KeysMeet(f, g, on)}))

\* lazy_join: InconsistentDatatypes, or an inner join.
JoinMappings(l, r) ==
    IF TypesDiffer(l, r) THEN Failure
    ELSE Mappings(InnerJoin(l.rows, r.rows, Shared(l, r)), l.columns \union r.columns, AllTypes(l, r),
                  Beside(l.frame, r.frame, Shared(l, r)))

\* lazy_left_join: types are not compared; without a shared column the join is a
\* cross join, which keeps no row of the left when the right has none.
LeftJoinMappings(l, r) ==
    LET unmatched == IF Shared(l, r) = {} THEN EmptyBag
                     ELSE Padded(AntiJoin(l.rows, r.rows, Shared(l, r)), r.columns)
    IN  Mappings(InnerJoin(l.rows, r.rows, Shared(l, r)) (+) unmatched,
                 l.columns \union r.columns, AllTypes(l, r), Beside(l.frame, r.frame, Shared(l, r)))

\* lazy_minus: without a shared column the right side is dropped, unevaluated.
MinusMappings(l, r) ==
    IF Shared(l, r) = {} THEN l
    ELSE Mappings(AntiJoin(l.rows, r.rows, Shared(l, r)), l.columns, l.rdf_node_types,
                  [l.frame EXCEPT !.collects = Beside(l.frame, r.frame, Shared(l, r)).collects])

\* lazy_union: concat, and assert_eq!(&dt, left_dt).
UnionMappings(l, r) ==
    LET collects == Outcome({l.frame.collects, r.frame.collects, ColumnsMeet(l.frame, r.frame)})
    IN  IF TypesDiffer(l, r) THEN Failure
        ELSE Mappings(l.rows (+) r.rows, l.columns \union r.columns, AllTypes(l, r),
                      [Beside(l.frame, r.frame, {}) EXCEPT !.collects = collects])

----------------------------------------------------------------------------
\* lazy_project, lazy_distinct, lazy_filter, lazy_extend

\* A column: its types, how collect may end for it, and its value in every row; or
\* a failure.
Column(type, dtype, collects, sm, Value(_)) ==
    [failed |-> FALSE, type |-> type, dtype |-> dtype, collects |-> collects,
     value |-> [a \in DOMAIN sm.rows |-> Value(a)]]
NoColumn == [failed |-> TRUE, type |-> "none", dtype |-> "none", collects |-> {FALSE}, value |-> <<>>]

\* A frame that has had these columns.
WithColumns(columns, frame) ==
    [frame EXCEPT !.collects = Outcome({ columns[n].collects : n \in DOMAIN columns } \union {@})]

\* Mutant of ProjectMappings: the frame keeps its other columns.
ProjectKeepingColumns(sm, variables) == [sm EXCEPT !.columns = variables]

\* Of a column that is not there, collect finds out.
ProjectMappings(sm, variables) ==
    LET known  == variables \intersect Range(sm.frame.order)
        dtypes == Merged(Restrict(sm.frame.dtypes, known), [v \in variables |-> "none"])
    IN  Mappings(BagOfAll(LAMBDA a : Restrict(a, variables), sm.rows), variables,
                 Restrict(sm.rdf_node_types, variables \intersect DOMAIN sm.rdf_node_types),
                 Lazy(Listed(variables), dtypes, IF known = variables THEN sm.frame.collects ELSE {FALSE}))

DistinctMappings(sm) == [sm EXCEPT !.rows = SetToBag(BagToSet(@))]

\* The rows for which the column of the expression is true, not false or null.
FilterMappings(sm, column) ==
    Mappings(Keep(sm.rows, LAMBDA a : column.value[a] = TRUE), sm.columns, sm.rdf_node_types,
             WithColumns(<<column>>, sm.frame))

ExtendMappings(sm, variable, column) ==
    Mappings(BagOfAll(LAMBDA a : Merged([c \in {variable} |-> column.value[a]], a), sm.rows),
             sm.columns \union {variable},
             Merged([c \in {variable} |-> column.type], sm.rdf_node_types),
             Lazy(Append(sm.frame.order, variable),
                  Merged([c \in {variable} |-> column.dtype], sm.frame.dtypes),
                  WithColumns(<<column>>, sm.frame).collects))

\* lazy_group

\* polars counts nulls, too; its other aggregates skip them.
AggregateValue(a, values) ==
    LET defined == Keep(values, LAMBDA x : x # Null)
    IN  CASE a.kind = "CountAll" -> IF a.distinct THEN Cardinality(DOMAIN values) ELSE AList
          [] a.kind = "Count" ->
                IF a.distinct THEN Cardinality(DOMAIN values) ELSE BagCardinality(values)
          [] OTHER ->
                IF defined = EmptyBag THEN Null
                ELSE CASE a.kind = "Sum" ->
                            SumBag(IF a.distinct THEN SetToBag(DOMAIN defined) ELSE defined)
                       [] a.kind = "Min" -> Min(DOMAIN defined)
                       [] a.kind = "Max" -> Max(DOMAIN defined)

AggregateType(a, column) ==
    CASE a.kind \in {"Count", "CountAll"} -> "unsignedInt"
      [] a.kind = "Sum" /\ column.type = "boolean" -> "unsignedLong"
      [] OTHER -> column.type

\* A row for every group; the types of the columns that are gone stay.
GroupMappings(sm, variables, aggregates, columns) ==
    LET key(a)     == Restrict(a, variables)
        members(k) == Keep(sm.rows, LAMBDA a : key(a) = k)
        value(k, n) == AggregateValue(aggregates[n][2],
                                      BagOfAll(LAMBDA a : columns[n].value[a], members(k)))
        named      == { aggregates[n][1] : n \in DOMAIN aggregates }
        at(v)      == CHOOSE n \in DOMAIN aggregates : aggregates[n][1] = v
    IN  IF ~(variables \subseteq sm.columns) THEN Failure
        ELSE Mappings(SetToBag({ Merged(k, [v \in named |-> value(k, at(v))]) :
                                   k \in { key(a) : a \in DOMAIN sm.rows } }),
                      variables \union named,
                      Merged([v \in named |-> AggregateType(aggregates[at(v)][2], columns[at(v)])],
                             sm.rdf_node_types),
                      Lazy(Listed(variables) \o [n \in DOMAIN aggregates |-> aggregates[n][1]],
                           Merged(Restrict(sm.frame.dtypes, variables), [v \in named |-> "Number"]),
                           WithColumns(columns, sm.frame).collects))

----------------------------------------------------------------------------
\* lazy_values

\* The column of a variable: a null is pushed after every value, and nothing for
\* an undefined binding.
ValuesColumn(bindings, v) ==
    LET values == SelectSeq(bindings, LAMBDA b : b[v] # Null)
    IN  [n \in 1 .. 2 * Len(values) |-> IF n % 2 = 1 THEN values[(n + 1) \div 2][v] ELSE Null]

\* The unwraps of lazy_values: columns of one length, and a first binding that
\* defines every variable that a later one does.
ValuesFails(variables, bindings) ==
    \/ \E v, w \in variables : Len(ValuesColumn(bindings, v)) # Len(ValuesColumn(bindings, w))
    \/ \E v \in variables : bindings[1][v] = Null /\ ValuesColumn(bindings, v) # <<>>

ValuesRows(variables, bindings) ==
    LET height == Len(ValuesColumn(bindings, CHOOSE v \in variables : TRUE))
        row(n) == [v \in variables |-> ValuesColumn(bindings, v)[n]]
    IN  BagOfAll(row, SetToBag(1 .. height))

ValuesMappings(sm, variables, bindings) ==
    LET frame == ValuesRows(variables, bindings)
        types == [v \in { w \in variables : bindings[1][w] # Null } |-> "IRI"]
        plan  == Lazy(Listed(variables), [v \in variables |-> "Utf8"], {TRUE})
        on    == variables \intersect sm.columns
    IN  IF ValuesFails(variables, bindings) THEN Failure
        ELSE IF sm = None THEN Mappings(frame, variables, types, plan)
        ELSE Mappings(InnerJoin(sm.rows, frame, on), sm.columns \union variables,
                      Merged(types, sm.rdf_node_types), Beside(sm.frame, plan, on))
=============================================================================

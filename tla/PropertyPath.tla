---------------------------- MODULE PropertyPath ----------------------------
(***************************************************************************)
(* The evaluation of a property path: lazy_path and what it calls, in      *)
(* lazy_graph_patterns/path.rs.  A path with "*" or "+" is evaluated with  *)
(* sparse matrices, any other with data frames.                            *)
(*                                                                         *)
(* Nodes are the indices the string cache gives to the strings; the tables *)
(* are deduplicated and hold one object type each.                         *)
(***************************************************************************)
EXTENDS Matrices, FiniteSetsExt, Functions

CONSTANTS
    Predicates,  \* the predicates that have a table
    Graphs,      \* what the tables hold: functions from Predicates to edges
    Paths,       \* property path expressions, with the parts of each
    Depth,       \* how deep each is nested
    Queries,     \* records [subject, path, object]
    Variable     \* an end of the path that is a variable, not a node

Ends == Nodes \union {Variable}

ASSUME GraphsAssumption == Graphs \subseteq [Predicates -> SUBSET Cells]
ASSUME EndsAssumption   == Variable \notin Nodes /\
    \A q \in Queries : q.path \in Paths /\ {q.subject, q.object} \subseteq Ends

VARIABLES
    graph,       \* the tables
    query,
    cat_df_map,  \* the frames of the path's predicates, by name
    stage,       \* "frames", "evaluate", "answered" or "panicked"
    answer       \* the pairs of subject and object before the columns are named

vars == <<graph, query, cat_df_map, stage, answer>>

\* Property path expressions (spargebra).
NamedNode(p)      == [kind |-> "NamedNode", nn |-> p]
Reverse(x)        == [kind |-> "Reverse", inner |-> x]
Sequence(x, y)    == [kind |-> "Sequence", left |-> x, right |-> y]
Alternative(x, y) == [kind |-> "Alternative", left |-> x, right |-> y]
ZeroOrMore(x)     == [kind |-> "ZeroOrMore", inner |-> x]
OneOrMore(x)      == [kind |-> "OneOrMore", inner |-> x]
ZeroOrOne(x)      == [kind |-> "ZeroOrOne", inner |-> x]
Negated(nns)      == [kind |-> "NegatedPropertySet", nns |-> nns]   \* a sequence

IsLeaf(x) == x.kind \in {"NamedNode", "NegatedPropertySet"}
IsPair(x) == x.kind \in {"Sequence", "Alternative"}
IsSingle(x) == x.kind \in {"Reverse", "ZeroOrMore", "OneOrMore", "ZeroOrOne"}

\* The parts of an expression: it is a finite tree.
Parts(x) == IF IsLeaf(x) THEN {} ELSE IF IsPair(x) THEN {x.left, x.right} ELSE {x.inner}

ASSUME PathsAssumption == Depth \in [Paths -> Nat] /\
    \A x \in Paths : /\ IsLeaf(x) \/ IsPair(x) \/ IsSingle(x)
                    /\ \A y \in Parts(x) : y \in Paths /\ Depth[y] < Depth[x]

Subpaths[x \in Paths] == {x} \union UNION { Subpaths[y] : y \in Parts(x) }
QueryPaths == Subpaths[query.path]

\* The name of a leaf: that of its predicate, or nns_name of those it negates,
\* which for one predicate is the same.
Name(x) == IF x.kind = "NamedNode" THEN <<x.nn>> ELSE x.nns

Flip(edges)  == { <<x[2], x[1]>> : x \in edges }
Join(r, s)   == { x \in Cells : \E k \in Nodes : <<x[1], k>> \in r /\ <<k, x[2]>> \in s }
NodesOf(fs)  == { x[1] : x \in UNION fs } \union { x[2] : x \in UNION fs }

----------------------------------------------------------------------------
\* create_unique_cat_dfs: a frame for every predicate of the path

\* The edges of a table between the ends of the path, where these are nodes.
SingleNN(p, subject, object) ==
    { x \in graph[p] : /\ subject = Variable \/ x[1] = subject
                       /\ object  = Variable \/ x[2] = object }

\* left_df_map.extend(right_df_map): an entry of the right replaces one of the
\* left.
Extend(left, right) ==
    [k \in DOMAIN left \union DOMAIN right |->
        IF k \in DOMAIN right THEN right[k] ELSE left[k]]

UniqueCatDfs[x \in Paths] == [ends \in Ends \X Ends |->
    LET subject == ends[1]
        object  == ends[2]
    IN  CASE x.kind = "NamedNode" ->
                [k \in {Name(x)} |->
                    IF x.nn \in Predicates THEN SingleNN(x.nn, subject, object) ELSE {}]
          [] x.kind = "NegatedPropertySet" ->
                [k \in {Name(x)} |->
                    UNION { SingleNN(p, subject, object) : p \in Predicates \ Range(x.nns) }]
          [] x.kind = "Reverse" -> UniqueCatDfs[x.inner][<<object, subject>>]
          [] x.kind = "Sequence" ->
                Extend(UniqueCatDfs[x.left][<<subject, Variable>>],
                       UniqueCatDfs[x.right][<<Variable, object>>])
          [] x.kind = "Alternative" ->
                Extend(UniqueCatDfs[x.left][ends], UniqueCatDfs[x.right][ends])
          [] OTHER -> UniqueCatDfs[x.inner][ends]]

Frames    == { cat_df_map[k] : k \in DOMAIN cat_df_map }

\* Mutants of max_index: an exclusive bound, and the subjects only.
LastIndexExclusive == IF NodesOf(Frames) \ {0} = {} THEN 0 ELSE Max(NodesOf(Frames)) - 1
MaxSubject         == Max({ x[1] : x \in UNION Frames } \union {0})

max_index == Max(NodesOf(Frames) \union {0})

----------------------------------------------------------------------------
\* sparse_path: by matrices

\* Stored(m) is m: TLC evaluates the entries of m once, and not at every use.
Stored(m) == CHOOSE f \in {m} : f = m

\* The loops of module PathClosure, from a matrix on.  zero_or_more loops over
\* zeros and ones that relate every node they hold to itself.
Reflexive == { m \in [Cells -> {0, 1}] : \A x \in Pairs(m) : <<x[1], x[1]>> \in Pairs(m) }

ZeroOrMoreLoop[m \in Reflexive] ==
    LET next == Stored(ZeroOrMoreTurn(m))
    IN  IF Total(m) = Total(next) THEN next ELSE ZeroOrMoreLoop[next]
OneOrMoreLoop[m \in Matrix] ==
    LET next == Stored(OneOrMoreTurn(m))
    IN  IF Total(m) = Total(next) THEN next ELSE OneOrMoreLoop[next]

SparsePath[x \in QueryPaths] == Stored(
    CASE IsLeaf(x)              -> MatrixOf(cat_df_map[Name(x)])
      [] x.kind = "Reverse"     -> Transpose(SparsePath[x.inner])
      [] x.kind = "Sequence"    -> Product(SparsePath[x.left], SparsePath[x.right])
      [] x.kind = "Alternative" -> Ones(Plus(SparsePath[x.left], SparsePath[x.right]))
      [] x.kind = "ZeroOrOne"   -> Ones(Plus(SparsePath[x.inner], Eye(max_index)))
      [] x.kind = "ZeroOrMore"  ->
            ZeroOrMoreLoop[Ones(Plus(SparsePath[x.inner], Eye(max_index)))]
      [] OTHER                  -> OneOrMoreLoop[SparsePath[x.inner]])

NeedSparseMatrix[x \in Paths] ==
    CASE x.kind \in {"ZeroOrMore", "OneOrMore"} -> TRUE
      [] x.kind = "Reverse" -> NeedSparseMatrix[x.inner]
      [] IsPair(x) -> NeedSparseMatrix[x.left] \/ NeedSparseMatrix[x.right]
      [] OTHER -> FALSE
----------------------------------------------------------------------------
\* df_path: by data frames.  A frame is its rows of subject and object, whether
\* it has a third column, "on", left from a join, and whether the column "object"
\* stands before "subject"; or the evaluation panics.

Panic        == [panics |-> TRUE, rows |-> {}, on |-> FALSE, swapped |-> FALSE]
DF(rows, on) == [panics |-> FALSE, rows |-> rows, on |-> on, swapped |-> FALSE]

\* The columns get each other's names and stay where they are.
Flipped(inner) == [inner EXCEPT !.rows = Flip(@), !.swapped = ~@]

\* A sequence joins the left side to itself, not to the right one; a second "on"
\* is a duplicate column.
JoinTwice(left) ==
    IF left.panics \/ left.on THEN Panic ELSE DF(Join(left.rows, left.rows), TRUE)

\* 0..max_index leaves out the last node.  concat_df appends the frame of the
\* nodes column by column, and fails if they are not the same in the same order.
WithSmallerNodes(inner) ==
    IF inner.panics \/ inner.on \/ inner.swapped THEN Panic
    ELSE DF(inner.rows \union { <<n, n>> : n \in 0 .. max_index - 1 }, FALSE)

DfPath[x \in QueryPaths] ==
    CASE IsLeaf(x)              -> DF(cat_df_map[Name(x)], FALSE)
      [] x.kind = "Reverse"     -> Flipped(DfPath[x.inner])
      [] x.kind = "Sequence"    -> JoinTwice(DfPath[x.left])
      [] x.kind = "Alternative" -> DfPath[x.left]   \* likewise: the left side twice
      [] x.kind \in {"ZeroOrMore", "OneOrMore"} -> Panic   \* "Should never happen"
      [] OTHER                  -> WithSmallerNodes(DfPath[x.inner])

----------------------------------------------------------------------------
\* lazy_path

Init ==
    /\ graph \in Graphs
    /\ query \in Queries
    /\ cat_df_map = <<>>
    /\ stage = "frames"
    /\ answer = {}

CreateUniqueCatDfs ==
    /\ stage = "frames"
    /\ cat_df_map' = UniqueCatDfs[query.path][<<query.subject, query.object>>]
    /\ stage' = "evaluate"
    /\ UNCHANGED <<graph, query, answer>>

\* The positive entries of the matrix, where the lookup knows both nodes.
EvaluateSparse ==
    /\ stage = "evaluate" /\ NeedSparseMatrix[query.path]
    /\ answer' = Pairs(SparsePath[query.path]) \intersect (NodesOf(Frames) \X NodesOf(Frames))
    /\ stage' = "answered"
    /\ UNCHANGED <<graph, query, cat_df_map>>

EvaluateFrames ==
    /\ stage = "evaluate" /\ ~NeedSparseMatrix[query.path]
    /\ LET df == DfPath[query.path]
       IN  /\ answer' = df.rows
           /\ stage' = IF df.panics THEN "panicked" ELSE "answered"
    /\ UNCHANGED <<graph, query, cat_df_map>>

Next == CreateUniqueCatDfs \/ EvaluateSparse \/ EvaluateFrames

Spec == Init /\ [][Next]_vars
=============================================================================

----------------------- MODULE PropertyPathProperties -----------------------
(***************************************************************************)
(* The relation that SPARQL gives a property path, and how far the answers *)
(* of lazy_path are that relation.                                         *)
(***************************************************************************)
EXTENDS PropertyPath

Leaves(x) == { y \in Subpaths[x] : IsLeaf(y) }

LeafPredicates(y) == IF y.kind = "NamedNode" THEN {y.nn} \intersect Predicates
                     ELSE Predicates \ Range(y.nns)
PredicatesOf(x) == UNION { LeafPredicates(y) : y \in Leaves(x) }

\* The nodes a path of length zero relates to themselves: those of its tables.
\* (In SPARQL, those of the graph.)
Identity == { <<n, n>> : n \in NodesOf({ graph[p] : p \in PredicatesOf(query.path) }) }

Relation[x \in Paths] ==
    CASE IsLeaf(x)              -> UNION { graph[p] : p \in LeafPredicates(x) }
      [] x.kind = "Reverse"     -> Flip(Relation[x.inner])
      [] x.kind = "Sequence"    -> Join(Relation[x.left], Relation[x.right])
      [] x.kind = "Alternative" -> Relation[x.left] \union Relation[x.right]
      [] x.kind = "ZeroOrOne"   -> Relation[x.inner] \union Identity
      [] x.kind = "ZeroOrMore"  -> Closure(Relation[x.inner] \union Identity)
      [] OTHER                  -> Closure(Relation[x.inner])

\* A "+" over a sequence, whose matrix counts: see ClosureOfAll in PathClosure.
Counts[x \in Paths] == x.kind = "Sequence" \/ (x.kind = "Reverse" /\ Counts[x.inner])
PlusOfCounts(x) == \E y \in Subpaths[x] : y.kind = "OneOrMore" /\ Counts[y.inner]

JoinsOrUnites(x) == \E y \in Subpaths[x] : IsPair(y)

\* No predicate is named and negated: its two frames have one name.
NamedApart(x) == \A y, z \in Leaves(x) : Name(y) = Name(z) => y = z

BetweenVariables == query.subject = Variable /\ query.object = Variable
Answered(sparse) == stage = "answered" /\ (NeedSparseMatrix[query.path] <=> sparse)

\* Between two variables the matrices give the relation of the path, whatever is
\* nested in it and however often a predicate occurs; apart from "+" of a
\* sequence, and from p with !p, whose frames are kept under the same name.
SparseIsExact ==
    Answered(TRUE) /\ BetweenVariables /\ ~PlusOfCounts(query.path)
      /\ NamedApart(query.path) =>
        answer = Relation[query.path]

\* The matrices give no pair that the path does not relate: not with an end that
\* is a node, whose edges are filtered before the closure, nor when a loop stops
\* early.
SparseInventsNothing ==
    Answered(TRUE) /\ NamedApart(query.path) => answer \subseteq Relation[query.path]

\* When the data frames give an answer ("?" over an inverse gives none), it is the
\* relation of a path without sequence and alternative, except that "?" relates a node
\* to itself for every index below the greatest, whether the path touches it or not,
\* and not for the greatest.
FramesMissOnlyTheLast ==
    Answered(FALSE) /\ BetweenVariables /\ ~JoinsOrUnites(query.path) =>
        /\ Relation[query.path] \ answer \subseteq {<<max_index, max_index>>}
        /\ \A x \in answer \ Relation[query.path] : x[1] = x[2] /\ x[1] < max_index

\* The last case of df_path is never taken: "Should never happen".  (In a query
\* that inverts and joins nothing, it is the only one that panics.)
NeverPanics == stage # "panicked"
=============================================================================

------------------------------ MODULE Matrices ------------------------------
(***************************************************************************)
(* The sparse matrices of property paths (crate sprs, as path.rs uses it): *)
(* a matrix holds, for every pair of nodes, in how many ways a path leads  *)
(* from the one to the other.  Nodes are the category indices of path.rs.  *)
(***************************************************************************)
EXTENDS Integers, FiniteSets

CONSTANT Nodes

ASSUME NodesAssumption == IsFiniteSet(Nodes) /\ Nodes \subseteq Nat

Cells  == Nodes \X Nodes
Matrix == [Cells -> Nat]

\* The sum of the values of f, as the number of its units.
UnitsOf(f) == UNION { {x} \X (1 .. f[x]) : x \in DOMAIN f }
Total(f) == Cardinality(UnitsOf(f))

\* map(|x| (x > &0) as u32)
Ones(m) == [x \in Cells |-> IF m[x] > 0 THEN 1 ELSE 0]

Plus(a, b)    == [x \in Cells |-> a[x] + b[x]]
Product(a, b) == [x \in Cells |->
    Total([k \in Nodes |-> a[<<x[1], k>>] * b[<<k, x[2]>>]])]
NotTransposed(m) == m   \* mutant of Transpose
Transpose(m)  == [x \in Cells |-> m[<<x[2], x[1]>>]]

\* The identity up to a node.
Eye(max_index) == [x \in Cells |-> IF x[1] = x[2] /\ x[1] <= max_index THEN 1 ELSE 0]

\* The matrix of a set of edges, and the pairs that a matrix relates.
MatrixOf(edges) == [x \in Cells |-> IF x \in edges THEN 1 ELSE 0]
Pairs(m)        == { x \in Cells : m[x] > 0 }
ZeroOne(m)      == \A x \in Cells : m[x] <= 1

\* One turn of the loops of zero_or_more and of one_or_more.
ZeroOrMoreTurn(m) == Ones(Product(m, m))
OneOrMoreTurn(m)  == Ones(Plus(Product(m, m), m))

----------------------------------------------------------------------------
\* What the loops are to compute: the least transitive relation that holds the
\* given pairs and, for zero_or_more, the diagonal.
Transitive(R) == \A i, j, k \in Nodes : <<i, j>> \in R /\ <<j, k>> \in R => <<i, k>> \in R
TransitiveRelations == { R \in SUBSET Cells : Transitive(R) }
Closure(R) ==
    CHOOSE T \in TransitiveRelations :
        R \subseteq T /\ \A U \in TransitiveRelations : R \subseteq U => T \subseteq U
=============================================================================

------------------------- MODULE PropertyPathProofs -------------------------
(***************************************************************************)
(* Proofs about property paths, for every finite set of nodes, every graph *)
(* and every path expression.                                              *)
(*                                                                         *)
(* The loops of p* and p+ return the closure of a relation: equal sums     *)
(* mean that the matrix is a fixed point, as long as it holds zeros and    *)
(* ones only.  By induction over the expression the matrices of sparse_path*)
(* are then the relation of the path; and so, but for the last node, are   *)
(* the frames of df_path.                                                  *)
(*                                                                         *)
(* Each recursive function f is treated alike: fBody is its definition     *)
(* with the function as an argument, fBodyType and fBodyParts say that it  *)
(* needs f of the parts of an expression only, and fEquation, by lemma     *)
(* Recursion, that f satisfies its definition.                             *)
(***************************************************************************)
EXTENDS PathClosure, PropertyPathProperties, RecursionLemmas, FiniteSetTheorems, TLAPS

----------------------------------------------------------------------------
\* Sums

LEMMA UnitsFinite ==
    ASSUME NEW S, IsFiniteSet(S), NEW f \in [S -> Nat]
    PROVE  IsFiniteSet(UnitsOf(f))
<1> DEFINE T == { {x} \X (1 .. f[x]) : x \in S }
           g == [x \in S |-> {x} \X (1 .. f[x])]
<1>1. g \in Surjection(S, T)
    BY DEF Surjection
<1>2. IsFiniteSet(T)
    BY <1>1, FS_Surjection
<1>3. ASSUME NEW t \in T PROVE IsFiniteSet(t)
  <2>1. PICK x \in S : t = {x} \X (1 .. f[x])
      OBVIOUS
  <2>2. f[x] \in Int
      OBVIOUS
  <2>3. IsFiniteSet({x})
      BY FS_Singleton
  <2>4. IsFiniteSet(1 .. f[x])
      BY <2>2, FS_Interval
  <2> QED BY <2>1, <2>3, <2>4, FS_Product
<1>4. IsFiniteSet(UNION T)
    BY <1>2, <1>3, FS_UNION
<1> QED BY <1>4 DEF UnitsOf

LEMMA TotalType ==
    ASSUME NEW S, IsFiniteSet(S), NEW f \in [S -> Nat]
    PROVE  Total(f) \in Nat
BY UnitsFinite, FS_CardinalityType DEF Total

\* A sum is positive if a value is.
LEMMA TotalPositive ==
    ASSUME NEW S, IsFiniteSet(S), NEW f \in [S -> Nat]
    PROVE  Total(f) > 0 <=> \E x \in S : f[x] > 0
<1>1. Total(f) = 0 <=> UnitsOf(f) = {}
    BY UnitsFinite, FS_EmptySet DEF Total
<1>2. UnitsOf(f) = {} <=> \A x \in S : ~(f[x] > 0)
  <2>1. ASSUME NEW x \in S, f[x] > 0 PROVE UnitsOf(f) # {}
    <3>1. <<x, 1>> \in {x} \X (1 .. f[x])
        BY <2>1
    <3> QED BY <3>1 DEF UnitsOf
  <2>2. ASSUME UnitsOf(f) # {} PROVE \E x \in S : f[x] > 0
    <3>1. PICK x \in S : {x} \X (1 .. f[x]) # {}
        BY <2>2 DEF UnitsOf
    <3>2. PICK n \in 1 .. f[x] : TRUE
        BY <3>1
    <3> QED BY <3>2
  <2> QED BY <2>1, <2>2
<1> QED BY <1>1, <1>2, TotalType

\* Of two functions one of which is below the other, equal sums make one.
LEMMA TotalStrict ==
    ASSUME NEW S, IsFiniteSet(S), NEW f \in [S -> Nat], NEW g \in [S -> Nat],
           \A x \in S : f[x] <= g[x], Total(f) = Total(g)
    PROVE  f = g
<1>1. UnitsOf(f) \subseteq UnitsOf(g)
  <2> SUFFICES ASSUME NEW x \in S, NEW n \in 1 .. f[x]
               PROVE  <<x, n>> \in UnitsOf(g)
      BY DEF UnitsOf
  <2>1. n \in 1 .. g[x]
      OBVIOUS
  <2> QED BY <2>1 DEF UnitsOf
<1>2. UnitsOf(g) = UnitsOf(f)
    BY <1>1, UnitsFinite, FS_Subset DEF Total
<1>3. ASSUME NEW x \in S, g[x] > 0 PROVE g[x] <= f[x]
  <2>1. <<x, g[x]>> \in UnitsOf(g)
    <3>1. g[x] \in 1 .. g[x]
        BY <1>3
    <3> QED BY <3>1 DEF UnitsOf
  <2>2. PICK y \in S : <<x, g[x]>> \in {y} \X (1 .. f[y])
      BY <1>2, <2>1 DEF UnitsOf
  <2> QED BY <2>2
<1>4. \A x \in S : f[x] = g[x]
  <2> SUFFICES ASSUME NEW x \in S PROVE f[x] = g[x]
      OBVIOUS
  <2>1. CASE g[x] > 0
      BY <1>3, <2>1
  <2>2. CASE ~(g[x] > 0)
      BY <2>2
  <2> QED BY <2>1, <2>2
<1> QED BY <1>4

----------------------------------------------------------------------------
\* Matrices

LEMMA CellsFinite == IsFiniteSet(Cells)
BY NodesAssumption, FS_Product DEF Cells

LEMMA OnesPairs ==
    ASSUME NEW m \in Matrix
    PROVE  /\ Ones(m) \in Matrix
           /\ ZeroOne(Ones(m))
           /\ Pairs(Ones(m)) = Pairs(m)
BY DEF Ones, Matrix, ZeroOne, Pairs

LEMMA PlusPairs ==
    ASSUME NEW a \in Matrix, NEW b \in Matrix
    PROVE  /\ Plus(a, b) \in Matrix
           /\ Pairs(Plus(a, b)) = Pairs(a) \union Pairs(b)
BY DEF Plus, Matrix, Pairs

\* A product relates what the one matrix and then the other relate.
LEMMA ProductPairs ==
    ASSUME NEW a \in Matrix, NEW b \in Matrix
    PROVE  /\ Product(a, b) \in Matrix
           /\ \A i, j \in Nodes :
                 <<i, j>> \in Pairs(Product(a, b)) <=>
                     \E k \in Nodes : <<i, k>> \in Pairs(a) /\ <<k, j>> \in Pairs(b)
<1> DEFINE f(x) == [k \in Nodes |-> a[<<x[1], k>>] * b[<<k, x[2]>>]]
<1>1. ASSUME NEW x \in Cells
      PROVE  /\ f(x) \in [Nodes -> Nat]
             /\ Total(f(x)) \in Nat
             /\ Total(f(x)) > 0 <=> \E k \in Nodes : f(x)[k] > 0
  <2>1. \A k \in Nodes : a[<<x[1], k>>] \in Nat /\ b[<<k, x[2]>>] \in Nat
      BY DEF Matrix, Cells
  <2>2. f(x) \in [Nodes -> Nat]
      BY <2>1
  <2> HIDE DEF f
  <2> QED BY <2>2, NodesAssumption, TotalType, TotalPositive
<1>2. Product(a, b) = [x \in Cells |-> Total(f(x))]
    BY DEF Product
<1>3. Product(a, b) \in Matrix
    BY <1>1, <1>2 DEF Matrix
<1>4. ASSUME NEW i \in Nodes, NEW j \in Nodes
      PROVE  <<i, j>> \in Pairs(Product(a, b)) <=>
                 \E k \in Nodes : <<i, k>> \in Pairs(a) /\ <<k, j>> \in Pairs(b)
  <2>1. <<i, j>> \in Cells
      BY DEF Cells
  <2>2. <<i, j>> \in Pairs(Product(a, b)) <=> \E k \in Nodes : f(<<i, j>>)[k] > 0
      BY <1>1, <1>2, <2>1 DEF Pairs
  <2>3. ASSUME NEW k \in Nodes
        PROVE  f(<<i, j>>)[k] > 0 <=> <<i, k>> \in Pairs(a) /\ <<k, j>> \in Pairs(b)
    <3>1. a[<<i, k>>] \in Nat /\ b[<<k, j>>] \in Nat
        BY DEF Matrix, Cells
    <3>2. f(<<i, j>>)[k] = a[<<i, k>>] * b[<<k, j>>]
        OBVIOUS
    <3>3. ASSUME NEW m \in Nat, NEW n \in Nat PROVE m * n > 0 <=> m > 0 /\ n > 0
        OBVIOUS
    <3>4. f(<<i, j>>)[k] > 0 <=> a[<<i, k>>] > 0 /\ b[<<k, j>>] > 0
        BY <3>1, <3>2, <3>3
    <3> QED BY <3>4 DEF Pairs, Cells
  <2> QED BY <2>2, <2>3
<1> QED BY <1>3, <1>4

\* Two matrices of zeros and ones are as many pairs.
LEMMA ZeroOnePairs ==
    ASSUME NEW a \in Matrix, NEW b \in Matrix, ZeroOne(a), ZeroOne(b),
           Pairs(a) \subseteq Pairs(b)
    PROVE  \A x \in Cells : a[x] <= b[x]
<1> SUFFICES ASSUME NEW x \in Cells PROVE a[x] <= b[x]
    OBVIOUS
<1>1. a[x] \in Nat /\ b[x] \in Nat /\ a[x] <= 1
    BY DEF Matrix, ZeroOne
<1>2. a[x] > 0 => b[x] > 0
    BY DEF Pairs
<1> QED BY <1>1, <1>2

----------------------------------------------------------------------------
\* The closure

LEMMA ClosureLeast ==
    ASSUME NEW R \in SUBSET Cells
    PROVE  /\ Closure(R) \in SUBSET Cells
           /\ R \subseteq Closure(R)
           /\ Transitive(Closure(R))
           /\ \A T \in SUBSET Cells : Transitive(T) /\ R \subseteq T => Closure(R) \subseteq T
<1> DEFINE Above == { U \in TransitiveRelations : R \subseteq U }
           Least == { x \in Cells : \A U \in Above : x \in U }
<1>1. Least \in TransitiveRelations
  <2>1. ASSUME NEW i \in Nodes, NEW j \in Nodes, NEW k \in Nodes,
               <<i, j>> \in Least, <<j, k>> \in Least
        PROVE  <<i, k>> \in Least
    <3>1. \A U \in Above : <<i, k>> \in U
        BY <2>1 DEF TransitiveRelations, Transitive
    <3>2. <<i, k>> \in Cells
        BY DEF Cells
    <3> QED BY <3>1, <3>2
  <2> QED BY <2>1 DEF TransitiveRelations, Transitive
<1>2. R \subseteq Least /\ \A U \in TransitiveRelations : R \subseteq U => Least \subseteq U
    OBVIOUS
<1> HIDE DEF Least, Above
<1>3. /\ Closure(R) \in TransitiveRelations
      /\ R \subseteq Closure(R)
      /\ \A U \in TransitiveRelations : R \subseteq U => Closure(R) \subseteq U
    BY <1>1, <1>2 DEF Closure
<1> QED BY <1>3 DEF TransitiveRelations

----------------------------------------------------------------------------
\* A turn of a loop

\* A turn keeps what the matrix relates and adds what two steps relate.
IsTurn(m, next) ==
    /\ next \in Matrix
    /\ ZeroOne(next)
    /\ Pairs(m) \subseteq Pairs(next)
    /\ \A i, j \in Nodes :
          <<i, j>> \in Pairs(next) =>
              \/ <<i, j>> \in Pairs(m)
              \/ \E k \in Nodes : <<i, k>> \in Pairs(m) /\ <<k, j>> \in Pairs(m)
    /\ \A i, j, k \in Nodes :
          <<i, k>> \in Pairs(m) /\ <<k, j>> \in Pairs(m) => <<i, j>> \in Pairs(next)

LEMMA ZeroOrMoreTurns ==
    ASSUME NEW m \in Matrix, \A x \in Pairs(m) : <<x[1], x[1]>> \in Pairs(m)
    PROVE  IsTurn(m, ZeroOrMoreTurn(m))
<1> DEFINE square == Product(m, m)
           next == Ones(square)
<1>1. /\ square \in Matrix
      /\ \A i, j \in Nodes : <<i, j>> \in Pairs(square) <=>
            \E k \in Nodes : <<i, k>> \in Pairs(m) /\ <<k, j>> \in Pairs(m)
    BY ProductPairs
<1> HIDE DEF square
<1>2. next \in Matrix /\ ZeroOne(next) /\ Pairs(next) = Pairs(square)
    BY <1>1, OnesPairs
<1>3. Pairs(m) \subseteq Pairs(square)
  <2> SUFFICES ASSUME NEW i \in Nodes, NEW j \in Nodes, <<i, j>> \in Pairs(m)
               PROVE  <<i, j>> \in Pairs(square)
      BY DEF Pairs, Cells
  <2>1. <<i, i>> \in Pairs(m)
      OBVIOUS
  <2> QED BY <1>1, <2>1
<1>4. ZeroOrMoreTurn(m) = next
    BY DEF ZeroOrMoreTurn, square
<1> HIDE DEF next
<1> QED BY <1>1, <1>2, <1>3, <1>4 DEF IsTurn

LEMMA OneOrMoreTurns ==
    ASSUME NEW m \in Matrix PROVE IsTurn(m, OneOrMoreTurn(m))
<1> DEFINE square == Product(m, m)
           sum == Plus(square, m)
           next == Ones(sum)
<1>1. /\ square \in Matrix
      /\ \A i, j \in Nodes : <<i, j>> \in Pairs(square) <=>
            \E k \in Nodes : <<i, k>> \in Pairs(m) /\ <<k, j>> \in Pairs(m)
    BY ProductPairs
<1> HIDE DEF square
<1>2. sum \in Matrix /\ Pairs(sum) = Pairs(square) \union Pairs(m)
    BY <1>1, PlusPairs
<1> HIDE DEF sum
<1>3. next \in Matrix /\ ZeroOne(next) /\ Pairs(next) = Pairs(square) \union Pairs(m)
    BY <1>2, OnesPairs
<1>4. OneOrMoreTurn(m) = next
    BY DEF OneOrMoreTurn, square, sum
<1> HIDE DEF next
<1> QED BY <1>1, <1>3, <1>4 DEF IsTurn

\* A turn stays within every transitive relation.
LEMMA TurnWithin ==
    ASSUME NEW m, NEW next, IsTurn(m, next),
           NEW T \in SUBSET Cells, Transitive(T), Pairs(m) \subseteq T
    PROVE  Pairs(next) \subseteq T
<1> SUFFICES ASSUME NEW i \in Nodes, NEW j \in Nodes, <<i, j>> \in Pairs(next)
             PROVE  <<i, j>> \in T
    BY DEF Pairs, Cells
<1> QED BY DEF IsTurn, Transitive

\* Of zeros and ones, a turn that keeps the sum keeps the matrix.
LEMMA SameTotal ==
    ASSUME NEW m \in Matrix, NEW next, IsTurn(m, next), ZeroOne(m), Total(m) = Total(next)
    PROVE  next = m /\ Transitive(Pairs(m))
<1>1. \A x \in Cells : m[x] <= next[x]
    BY ZeroOnePairs DEF IsTurn
<1>2. next = m
    BY <1>1, CellsFinite, TotalStrict DEF IsTurn, Matrix
<1> QED BY <1>2 DEF IsTurn, Transitive

----------------------------------------------------------------------------
\* The loop

Base  == Pairs(input) \union IF loop = "zero_or_more" THEN Diagonal ELSE {}
Exact == loop = "zero_or_more" \/ ZeroOne(input)

\* The matrix lies between the inner path and its closure.  Where it holds zeros
\* and ones only the sum tells whether a turn has changed it, so what the loop
\* returns is transitive.
IInv ==
    /\ loop \in {"zero_or_more", "one_or_more"}
    /\ input \in Matrix
    /\ rel_mat \in Matrix
    /\ fixed_point \in BOOLEAN
    /\ last_sum = Total(rel_mat)
    /\ Base \subseteq Pairs(rel_mat)
    /\ Pairs(rel_mat) \subseteq Goal
    /\ Exact => ZeroOne(rel_mat)
    /\ Exact /\ fixed_point => Transitive(Pairs(rel_mat))

LEMMA BaseInCells == Base \in SUBSET Cells /\ Goal = Closure(Base)
BY DEF Base, Pairs, Diagonal, Goal

LEMMA InitIInv == LoopInit => IInv
<1> SUFFICES ASSUME LoopInit PROVE IInv
    OBVIOUS
<1>1. input \in Matrix /\ loop \in {"zero_or_more", "one_or_more"} /\ fixed_point = FALSE
    BY InputsAssumption DEF LoopInit
<1>2. rel_mat = StartMatrix /\ last_sum = Total(rel_mat)
    BY DEF LoopInit
<1>3. rel_mat \in Matrix /\ Pairs(rel_mat) = Base /\ (Exact => ZeroOne(rel_mat))
  <2>1. CASE loop = "zero_or_more"
    <3>1. eye \in Matrix /\ Pairs(eye) = Diagonal
        BY DEF eye, Matrix, Pairs, Diagonal
    <3>2. /\ Plus(input, eye) \in Matrix
          /\ Pairs(Plus(input, eye)) = Pairs(input) \union Diagonal
        BY <1>1, <3>1, PlusPairs
    <3>3. /\ Ones(Plus(input, eye)) \in Matrix
          /\ ZeroOne(Ones(Plus(input, eye)))
          /\ Pairs(Ones(Plus(input, eye))) = Pairs(input) \union Diagonal
        BY <3>2, OnesPairs
    <3> QED BY <1>2, <2>1, <3>3 DEF StartMatrix, Base
  <2>2. CASE loop = "one_or_more"
      BY <1>1, <1>2, <2>2 DEF StartMatrix, Base, Exact
  <2> QED BY <1>1, <2>1, <2>2
<1>4. Pairs(rel_mat) \subseteq Goal
    BY <1>3, BaseInCells, ClosureLeast
<1> QED BY <1>1, <1>2, <1>3, <1>4 DEF IInv

LEMMA NextIsTurn == ASSUME IInv PROVE IsTurn(rel_mat, NextMatrix)
<1>1. CASE loop = "zero_or_more"
  <2>1. \A x \in Pairs(rel_mat) : <<x[1], x[1]>> \in Pairs(rel_mat)
      BY <1>1 DEF IInv, Base, Diagonal, Cells, Pairs
  <2> QED BY <1>1, <2>1, ZeroOrMoreTurns DEF IInv, NextMatrix
<1>2. CASE loop # "zero_or_more"
    BY <1>2, OneOrMoreTurns DEF IInv, NextMatrix
<1> QED BY <1>1, <1>2

LEMMA TurnIInv == IInv /\ Turn => IInv'
<1> SUFFICES ASSUME IInv, Turn PROVE IInv'
    OBVIOUS
<1>1. /\ rel_mat' = NextMatrix /\ fixed_point = FALSE /\ UNCHANGED <<loop, input>>
      /\ fixed_point' \in BOOLEAN
    BY DEF Turn, IInv
<1>2. last_sum' = Total(rel_mat')
    BY DEF Turn
<1>3. PICK next : next = rel_mat' /\ IsTurn(rel_mat, next)
    BY <1>1, NextIsTurn
<1>4. Base' = Base /\ Goal' = Goal /\ Exact' = Exact
    BY <1>1 DEF Base, Goal, Exact
<1>5. Pairs(next) \subseteq Goal
    BY <1>3, BaseInCells, ClosureLeast, TurnWithin DEF IInv
<1>6. ASSUME Exact, fixed_point' PROVE Transitive(Pairs(next))
  <2>1. Total(rel_mat) = Total(next)
      BY <1>1, <1>3, <1>6 DEF Turn, IInv
  <2> QED BY <1>3, <1>6, <2>1, SameTotal DEF IInv
<1>7. /\ rel_mat' \in Matrix /\ ZeroOne(rel_mat')
      /\ Base \subseteq Pairs(rel_mat')
      /\ Pairs(rel_mat') \subseteq Goal
      /\ Exact /\ fixed_point' => Transitive(Pairs(rel_mat'))
    BY <1>3, <1>5, <1>6 DEF IsTurn, IInv
<1> QED BY <1>1, <1>2, <1>4, <1>7 DEF IInv

LEMMA LoopInvariant == LoopSpec => []IInv
<1>1. IInv /\ [Turn]_loop_vars => IInv'
  <2>1. IInv /\ UNCHANGED loop_vars => IInv'
      BY DEF loop_vars, IInv, Base, Goal, Exact
  <2> QED BY <2>1, TurnIInv
<1> QED BY <1>1, InitIInv, PTL DEF LoopSpec

\* For every set of nodes and every argument, the loops relate no pair that the
\* path does not.
THEOREM NothingIsInvented == LoopSpec => []NothingInvented
<1>1. IInv => NothingInvented
    BY DEF IInv, Base, NothingInvented
<1> QED BY <1>1, LoopInvariant, PTL

\* zero_or_more returns the reflexive and transitive closure of any argument, and
\* one_or_more the transitive closure of one of zeros and ones: where the sum
\* stays the same, so does the matrix.
THEOREM ReturnsTheClosure == LoopSpec => []ClosureOfOnes
<1>1. IInv => ClosureOfOnes
  <2> SUFFICES ASSUME IInv, fixed_point, Exact PROVE Goal \subseteq Pairs(rel_mat)
      BY DEF ClosureOfOnes, Exact, IInv
  <2>1. Transitive(Pairs(rel_mat)) /\ Base \subseteq Pairs(rel_mat)
      BY DEF IInv
  <2>2. Pairs(rel_mat) \in SUBSET Cells
      BY DEF Pairs
  <2> QED BY <2>1, <2>2, BaseInCells, ClosureLeast
<1> QED BY <1>1, LoopInvariant, PTL

----------------------------------------------------------------------------
\* The loops as functions

LEMMA StoredIs == \A m : Stored(m) = m
BY DEF Stored

\* What a loop returns of a matrix.
IsLooped(m, result) ==
    /\ result \in Matrix
    /\ ZeroOne(result)
    /\ Pairs(m) \subseteq Pairs(result)
    /\ \A T \in SUBSET Cells : Transitive(T) /\ Pairs(m) \subseteq T => Pairs(result) \subseteq T
    /\ ZeroOne(m) => Transitive(Pairs(result))

\* A function that turns until the sum stays the same.
IsLoop(f, turn) ==
    f = [m \in DOMAIN turn |-> IF Total(m) = Total(turn[m]) THEN turn[m] ELSE f[turn[m]]]

\* There is such a function, as every turn that changes the sum leaves fewer pairs
\* that are not related, or the first counts to be made ones.
LEMMA LoopFunction ==
    ASSUME NEW S, S \subseteq Matrix,
           NEW turn \in [S -> S], \A m \in S : IsTurn(m, turn[m])
    PROVE  /\ \E f : IsLoop(f, turn)
           /\ \A f : IsLoop(f, turn) => \A m \in S : f[m] \in S /\ IsLooped(m, f[m])
<1> DEFINE Zeros(m) == Cells \ Pairs(m)
           size == [m \in S |-> Cardinality(Zeros(m)) + IF ZeroOne(m) THEN 0 ELSE 1]
           parts == [m \in S |-> IF Total(m) = Total(turn[m]) THEN {} ELSE {turn[m]}]
           F == [m \in S |-> [g \in [parts[m] -> S] |->
                    IF Total(m) = Total(turn[m]) THEN turn[m] ELSE g[turn[m]]]]
<1>1. \A m \in S : IsFiniteSet(Zeros(m)) /\ Cardinality(Zeros(m)) \in Nat
  <2> SUFFICES ASSUME NEW m \in S PROVE IsFiniteSet(Zeros(m)) /\ Cardinality(Zeros(m)) \in Nat
      OBVIOUS
  <2>1. Zeros(m) \in SUBSET Cells
      OBVIOUS
  <2> HIDE DEF Zeros
  <2> QED BY <2>1, CellsFinite, FS_Subset, FS_CardinalityType
<1>2. \A m \in S : size[m] \in Nat
  <2> HIDE DEF Zeros
  <2> QED BY <1>1
<1>3. ASSUME NEW m \in S, Total(m) # Total(turn[m]) PROVE size[turn[m]] < size[m]
  <2> DEFINE next == turn[m]
  <2>1. next \in S /\ IsTurn(m, next) /\ m \in Matrix
      OBVIOUS
  <2>2. Zeros(next) \subseteq Zeros(m)
    <3> HIDE DEF next
    <3>1. Pairs(m) \subseteq Pairs(next)
        BY <2>1 DEF IsTurn
    <3> QED BY <3>1
  <2>3. Zeros(next) = Zeros(m) => Pairs(next) = Pairs(m)
      BY DEF Pairs
  <2>4. ZeroOne(m) => Pairs(next) # Pairs(m)
    <3> SUFFICES ASSUME ZeroOne(m), Pairs(next) = Pairs(m) PROVE FALSE
        OBVIOUS
    <3>1. next \in Matrix /\ ZeroOne(next)
        BY <2>1 DEF IsTurn
    <3>2. \A x \in Cells : m[x] <= next[x] /\ next[x] <= m[x]
        BY <2>1, <3>1, ZeroOnePairs
    <3>3. \A x \in Cells : m[x] \in Nat /\ next[x] \in Nat
        BY <2>1, <3>1 DEF Matrix
    <3>4. \A x \in Cells : m[x] = next[x]
        BY <3>2, <3>3
    <3>5. m = next
        BY <2>1, <3>1, <3>4 DEF Matrix
    <3> QED BY <1>3, <3>5
  <2>5. /\ size[next] = Cardinality(Zeros(next))
        /\ size[m] = Cardinality(Zeros(m)) + IF ZeroOne(m) THEN 0 ELSE 1
    <3> HIDE DEF Zeros, next
    <3>1. ZeroOne(next)
        BY <2>1 DEF IsTurn
    <3>2. Cardinality(Zeros(next)) \in Nat /\ Cardinality(Zeros(m)) \in Nat
        BY <1>1, <2>1
    <3> QED BY <2>1, <3>1, <3>2
  <2> HIDE DEF Zeros, size, next
  <2>6. Cardinality(Zeros(next)) <= Cardinality(Zeros(m))
        /\ (Cardinality(Zeros(m)) = Cardinality(Zeros(next)) => Zeros(m) = Zeros(next))
      BY <1>1, <2>1, <2>2, FS_Subset
  <2>7. Cardinality(Zeros(next)) \in Nat /\ Cardinality(Zeros(m)) \in Nat
      BY <1>1, <2>1
  <2>8. CASE ZeroOne(m)
    <3>1. Cardinality(Zeros(next)) # Cardinality(Zeros(m))
        BY <2>3, <2>4, <2>6, <2>8
    <3>2. size[m] = Cardinality(Zeros(m))
        BY <2>5, <2>7, <2>8
    <3> QED BY <2>5, <2>6, <2>7, <3>1, <3>2 DEF next
  <2>9. CASE ~ZeroOne(m)
    <3>1. size[m] = Cardinality(Zeros(m)) + 1
        BY <2>5, <2>9
    <3> QED BY <2>5, <2>6, <2>7, <3>1 DEF next
  <2> QED BY <2>8, <2>9
<1>4. \A m \in S : parts[m] \subseteq S /\ \A n \in parts[m] : size[n] < size[m]
  <2> HIDE DEF size
  <2> QED BY <1>3
<1>5. \A m \in S : F[m] \in [[parts[m] -> S] -> S]
  <2> HIDE DEF size
  <2> SUFFICES ASSUME NEW m \in S, NEW g \in [parts[m] -> S]
               PROVE  (IF Total(m) = Total(turn[m]) THEN turn[m] ELSE g[turn[m]]) \in S
      OBVIOUS
  <2> QED OBVIOUS
<1>6. PICK f \in [S -> S] : \A m \in S : f[m] = F[m][[n \in parts[m] |-> f[n]]]
  <2> HIDE DEF size, parts, F
  <2>1. IsRecursion(S, size, parts, S, F)
      BY <1>2, <1>4, <1>5 DEF IsRecursion
  <2>2. PICK f : IsSolution(f, S, parts, S, F)
      BY <2>1, Recursion
  <2> QED BY <2>2 DEF IsSolution
<1>7. \A m \in S : f[m] = IF Total(m) = Total(turn[m]) THEN turn[m] ELSE f[turn[m]]
  <2> SUFFICES ASSUME NEW m \in S
               PROVE  f[m] = IF Total(m) = Total(turn[m]) THEN turn[m] ELSE f[turn[m]]
      OBVIOUS
  <2>1. [n \in parts[m] |-> f[n]] \in [parts[m] -> S]
      BY <1>4
  <2> QED BY <1>6, <2>1
<1>8. IsLoop(f, turn)
  <2>1. f = [m \in S |-> f[m]]
      OBVIOUS
  <2> QED BY <1>7, <2>1 DEF IsLoop
<1>9. ASSUME NEW g, IsLoop(g, turn)
      PROVE  \A m \in S : g[m] \in S /\ IsLooped(m, g[m])
  <2> DEFINE T == { m \in S : g[m] \in S /\ IsLooped(m, g[m]) }
  <2>1. ASSUME NEW m \in S, \A n \in S : size[n] < size[m] => n \in T PROVE m \in T
    <3> DEFINE next == turn[m]
    <3>0. g[m] = IF Total(m) = Total(turn[m]) THEN turn[m] ELSE g[turn[m]]
        BY <1>9 DEF IsLoop
    <3>1. next \in S /\ IsTurn(m, next) /\ m \in Matrix
        OBVIOUS
    <3> HIDE DEF size
    <3>2. CASE Total(m) = Total(next)
      <4>1. g[m] = next
          BY <3>0, <3>2
      <4>2. ZeroOne(m) => Transitive(Pairs(next))
          BY <3>1, <3>2, SameTotal
      <4>3. \A U \in SUBSET Cells : Transitive(U) /\ Pairs(m) \subseteq U => Pairs(next) \subseteq U
          BY <3>1, TurnWithin
      <4> HIDE DEF next
      <4>4. IsLooped(m, next)
          BY <3>1, <4>2, <4>3 DEF IsLooped, IsTurn
      <4> QED BY <3>1, <4>1, <4>4
    <3>3. CASE Total(m) # Total(next)
      <4>1. g[m] = g[next]
          BY <3>0, <3>3
      <4>2. g[next] \in S /\ IsLooped(next, g[next])
          BY <1>3, <2>1, <3>1, <3>3
      <4>3. \A U \in SUBSET Cells : Transitive(U) /\ Pairs(m) \subseteq U => Pairs(next) \subseteq U
          BY <3>1, TurnWithin
      <4> HIDE DEF next
      <4>4. IsLooped(m, g[next])
          BY <3>1, <4>2, <4>3 DEF IsLooped, IsTurn
      <4> QED BY <4>1, <4>2, <4>4
    <3> QED BY <3>2, <3>3
  <2> HIDE DEF size, T
  <2>2. \A m \in S : (\A n \in S : size[n] < size[m] => n \in T) => m \in T
      BY <2>1
  <2>3. S \subseteq T
      BY ONLY <1>2, <2>2, Induction
  <2> QED BY <2>3 DEF T
<1> QED BY <1>8, <1>9

LEMMA OneOrMoreLoops ==
    \A m \in Matrix : IsLooped(m, OneOrMoreLoop[m])
<1> DEFINE turn == [m \in Matrix |-> OneOrMoreTurn(m)]
<1>1. turn \in [Matrix -> Matrix] /\ \A m \in Matrix : IsTurn(m, turn[m])
    BY OneOrMoreTurns DEF IsTurn
<1>2. OneOrMoreLoop = CHOOSE f : IsLoop(f, turn)
    BY StoredIs DEF OneOrMoreLoop, IsLoop
<1> HIDE DEF turn
<1>3. \E f : IsLoop(f, turn)
    BY <1>1, LoopFunction
<1>4. IsLoop(OneOrMoreLoop, turn)
    BY <1>2, <1>3
<1> QED BY <1>1, <1>4, LoopFunction

LEMMA ReflexiveMatrices == Reflexive \subseteq Matrix /\ \A m \in Reflexive : ZeroOne(m)
<1> SUFFICES ASSUME NEW m \in Reflexive PROVE m \in Matrix /\ ZeroOne(m)
    OBVIOUS
<1>1. m \in [Cells -> {0, 1}]
    BY DEF Reflexive
<1> QED BY <1>1 DEF Matrix, ZeroOne

LEMMA ZeroOrMoreLoops ==
    \A m \in Reflexive : ZeroOrMoreLoop[m] \in Reflexive /\ IsLooped(m, ZeroOrMoreLoop[m])
<1> DEFINE turn == [m \in Reflexive |-> ZeroOrMoreTurn(m)]
<1>1. ASSUME NEW m \in Reflexive
      PROVE  ZeroOrMoreTurn(m) \in Reflexive /\ IsTurn(m, ZeroOrMoreTurn(m))
  <2>1. PICK next : next = ZeroOrMoreTurn(m)
      OBVIOUS
  <2>2. IsTurn(m, next)
      BY <2>1, ReflexiveMatrices, ZeroOrMoreTurns DEF Reflexive
  <2>3. next \in [Cells -> {0, 1}]
    <3>1. \A x \in Cells : next[x] \in Nat /\ next[x] <= 1
        BY <2>2 DEF IsTurn, Matrix, ZeroOne
    <3>2. \A x \in Cells : next[x] \in {0, 1}
        BY <3>1
    <3> QED BY <2>2, <3>2 DEF IsTurn, Matrix
  <2>4. ASSUME NEW i \in Nodes, NEW j \in Nodes, <<i, j>> \in Pairs(next)
        PROVE  <<i, i>> \in Pairs(next)
    <3>1. \E k \in Nodes : <<i, k>> \in Pairs(m)
        BY <2>2, <2>4 DEF IsTurn
    <3>2. <<i, i>> \in Pairs(m)
        BY <3>1 DEF Reflexive
    <3> QED BY <2>2, <3>2 DEF IsTurn
  <2>5. \A x \in Pairs(next) : <<x[1], x[1]>> \in Pairs(next)
      BY <2>4 DEF Pairs, Cells
  <2> QED BY <2>1, <2>2, <2>3, <2>5 DEF Reflexive
<1>2. turn \in [Reflexive -> Reflexive] /\ \A m \in Reflexive : IsTurn(m, turn[m])
    BY <1>1
<1>3. ZeroOrMoreLoop = CHOOSE f : IsLoop(f, turn)
    BY StoredIs DEF ZeroOrMoreLoop, IsLoop
<1> HIDE DEF turn
<1>4. \E f : IsLoop(f, turn)
    BY <1>2, ReflexiveMatrices, LoopFunction
<1>5. IsLoop(ZeroOrMoreLoop, turn)
    BY <1>3, <1>4
<1> QED BY <1>2, <1>5, ReflexiveMatrices, LoopFunction

----------------------------------------------------------------------------
\* Path expressions

LEMMA PathInduction ==
    ASSUME NEW S, S \subseteq Paths,
           NEW T, \A x \in S : Parts(x) \intersect S \subseteq T => x \in T
    PROVE  S \subseteq T
<1>1. \A x \in S : Depth[x] \in Nat /\ \A y \in Parts(x) : Depth[y] < Depth[x]
    BY PathsAssumption
<1>2. \A x \in S : (\A y \in S : Depth[y] < Depth[x] => y \in T) => x \in T
    BY <1>1
<1> QED BY <1>1, <1>2, Induction

\* A function may be defined by recursion over the parts of an expression.
ArePathBodies(S, V, F) ==
    /\ S \subseteq Paths /\ \A x \in S : Parts(x) \subseteq S
    /\ \A x \in S : F[x] \in [[Parts(x) -> V] -> V]

IsPathFunction(f, S, V, F) ==
    f \in [S -> V] /\ \A x \in S : f[x] = F[x][[y \in Parts(x) |-> f[y]]]

LEMMA PathRecursion ==
    ASSUME NEW S, NEW V, NEW F, ArePathBodies(S, V, F)
    PROVE  \E f : IsPathFunction(f, S, V, F)
<1> DEFINE parts == [x \in S |-> Parts(x)]
<1>0. S \subseteq Paths /\ \A x \in S : Parts(x) \subseteq S
    BY DEF ArePathBodies
<1>1. \A x \in S : Depth[x] \in Nat
    BY <1>0, PathsAssumption
<1>2. \A x \in S : parts[x] \subseteq S /\ \A y \in parts[x] : Depth[y] < Depth[x]
    BY <1>0, PathsAssumption
<1>3. \A x \in S : parts[x] = Parts(x)
    OBVIOUS
<1> HIDE DEF parts
<1>4. \A x \in S : F[x] \in [[parts[x] -> V] -> V]
    BY <1>3 DEF ArePathBodies
<1>5. IsRecursion(S, Depth, parts, V, F)
    BY <1>1, <1>2, <1>4 DEF IsRecursion
<1>6. PICK f : IsSolution(f, S, parts, V, F)
    BY <1>5, Recursion
<1>7. \A x \in S : f[x] = F[x][[y \in Parts(x) |-> f[y]]]
  <2> SUFFICES ASSUME NEW x \in S PROVE f[x] = F[x][[y \in Parts(x) |-> f[y]]]
      OBVIOUS
  <2>1. f[x] = F[x][[y \in parts[x] |-> f[y]]]
      BY <1>6 DEF IsSolution
  <2> QED BY <1>3, <2>1, Zenon
<1>8. IsPathFunction(f, S, V, F)
    BY <1>6, <1>7 DEF IsSolution, IsPathFunction
<1> QED BY <1>8

LEMMA SubpathsEquation ==
    /\ Subpaths \in [Paths -> SUBSET Paths]
    /\ \A x \in Paths : Subpaths[x] = {x} \union UNION { Subpaths[y] : y \in Parts(x) }
<1> DEFINE Body(x, g) == {x} \union UNION { g[y] : y \in Parts(x) }
           F == [x \in Paths |-> [g \in [Parts(x) -> SUBSET Paths] |-> Body(x, g)]]
<1>1. \A x \in Paths : Parts(x) \subseteq Paths
    BY PathsAssumption
<1>2. \A x \in Paths : F[x] \in [[Parts(x) -> SUBSET Paths] -> SUBSET Paths]
    OBVIOUS
<1>3. PICK f \in [Paths -> SUBSET Paths] :
          \A x \in Paths : f[x] = F[x][[y \in Parts(x) |-> f[y]]]
  <2> HIDE DEF F
  <2>1. ArePathBodies(Paths, SUBSET Paths, F)
      BY <1>1, <1>2 DEF ArePathBodies
  <2>2. PICK f : IsPathFunction(f, Paths, SUBSET Paths, F)
      BY <2>1, PathRecursion
  <2> QED BY <2>2 DEF IsPathFunction
<1>4. \A x \in Paths : f[x] = Body(x, f)
  <2> SUFFICES ASSUME NEW x \in Paths PROVE f[x] = Body(x, f)
      OBVIOUS
  <2>1. [y \in Parts(x) |-> f[y]] \in [Parts(x) -> SUBSET Paths]
      BY <1>1
  <2>2. f[x] = Body(x, [y \in Parts(x) |-> f[y]])
      BY <1>3, <2>1
  <2> QED BY <2>2
<1>5. f = [x \in Paths |-> Body(x, f)]
    BY <1>4
<1>6. Subpaths = [x \in Paths |-> Body(x, Subpaths)]
    BY <1>5 DEF Subpaths
<1>7. \A x \in Paths : Subpaths[x] = Body(x, Subpaths)
    BY <1>6
<1> DEFINE T == { x \in Paths : Subpaths[x] \subseteq Paths }
<1>8. Paths \subseteq T
  <2>1. \A x \in Paths : Parts(x) \intersect Paths \subseteq T => x \in T
      BY <1>1, <1>7
  <2> HIDE DEF T
  <2> QED BY <2>1, PathInduction
<1> QED BY <1>6, <1>7, <1>8

LEMMA SubpathsClosed ==
    \A x \in Paths : x \in Subpaths[x] /\ \A y \in Subpaths[x] : Parts(y) \subseteq Subpaths[x]
<1> DEFINE T == { x \in Paths : x \in Subpaths[x]
                     /\ \A y \in Subpaths[x] : Parts(y) \subseteq Subpaths[x] }
<1>1. ASSUME NEW x \in Paths, Parts(x) \intersect Paths \subseteq T PROVE x \in T
  <2>1. Subpaths[x] = {x} \union UNION { Subpaths[z] : z \in Parts(x) }
      BY SubpathsEquation
  <2>2. \A z \in Parts(x) : z \in T
      BY <1>1, PathsAssumption
  <2>3. ASSUME NEW y \in Subpaths[x] PROVE Parts(y) \subseteq Subpaths[x]
    <3>1. CASE y = x
        BY <2>1, <2>2, <3>1
    <3>2. CASE y # x
      <4>1. PICK z \in Parts(x) : y \in Subpaths[z]
          BY <2>1, <3>2
      <4>2. Parts(y) \subseteq Subpaths[z]
          BY <2>2, <4>1
      <4> QED BY <2>1, <4>1, <4>2
    <3> QED BY <3>1, <3>2
  <2> QED BY <2>1, <2>3
<1> HIDE DEF T
<1>2. Paths \subseteq T
    BY <1>1, PathInduction
<1> QED BY <1>2 DEF T

\* The parts by their names.
LEMMA PartsOf ==
    ASSUME NEW x \in Paths
    PROVE  /\ IsLeaf(x) \/ IsPair(x) \/ IsSingle(x)
           /\ IsLeaf(x) => Parts(x) = {}
           /\ IsPair(x) => Parts(x) = {x.left, x.right}
           /\ IsSingle(x) => Parts(x) = {x.inner}
BY PathsAssumption DEF Parts, IsLeaf, IsPair, IsSingle

\* Counts satisfies its definition.
LEMMA Counting ==
    \A x \in Paths : /\ Counts[x] \in BOOLEAN
                     /\ Counts[x] <=> x.kind = "Sequence" \/ (x.kind = "Reverse" /\ Counts[x.inner])
<1> DEFINE Body(x, g) == x.kind = "Sequence" \/ (x.kind = "Reverse" /\ g[x.inner])
           F == [x \in Paths |-> [g \in [Parts(x) -> BOOLEAN] |-> Body(x, g)]]
<1>1. \A x \in Paths : Parts(x) \subseteq Paths
    BY PathsAssumption
<1>2. \A x \in Paths : F[x] \in [[Parts(x) -> BOOLEAN] -> BOOLEAN]
    OBVIOUS
<1>3. PICK f \in [Paths -> BOOLEAN] :
          \A x \in Paths : f[x] = F[x][[y \in Parts(x) |-> f[y]]]
  <2> HIDE DEF F
  <2>1. ArePathBodies(Paths, BOOLEAN, F)
      BY <1>1, <1>2 DEF ArePathBodies
  <2>2. PICK f : IsPathFunction(f, Paths, BOOLEAN, F)
      BY <2>1, PathRecursion
  <2> QED BY <2>2 DEF IsPathFunction
<1>4. \A x \in Paths : f[x] = Body(x, f)
  <2> SUFFICES ASSUME NEW x \in Paths PROVE f[x] = Body(x, f)
      OBVIOUS
  <2> DEFINE g == [y \in Parts(x) |-> f[y]]
  <2>1. g \in [Parts(x) -> BOOLEAN]
      BY <1>1
  <2>2. f[x] = Body(x, g)
      BY <1>3, <2>1
  <2>3. x.kind = "Reverse" => x.inner \in Parts(x)
      BY DEF Parts, IsLeaf, IsPair
  <2>4. x.kind = "Reverse" => g[x.inner] = f[x.inner]
      BY <2>3
  <2> QED BY <2>2, <2>4
<1>5. f = [x \in Paths |-> Body(x, f)]
    BY <1>4
<1>6. Counts = [x \in Paths |-> Body(x, Counts)]
    BY <1>5 DEF Counts
<1> QED BY <1>6

----------------------------------------------------------------------------
\* The frames

Edges(y) == UNION { graph[p] : p \in LeafPredicates(y) }

\* What create_unique_cat_dfs makes of the maps of the parts.
FramesBody(x, g) == [ends \in Ends \X Ends |->
    LET subject == ends[1]
        object  == ends[2]
    IN  CASE x.kind = "NamedNode" ->
                [k \in {Name(x)} |->
                    IF x.nn \in Predicates THEN SingleNN(x.nn, subject, object) ELSE {}]
          [] x.kind = "NegatedPropertySet" ->
                [k \in {Name(x)} |->
                    UNION { SingleNN(p, subject, object) : p \in Predicates \ Range(x.nns) }]
          [] x.kind = "Reverse" -> g[x.inner][<<object, subject>>]
          [] x.kind = "Sequence" ->
                Extend(g[x.left][<<subject, Variable>>], g[x.right][<<Variable, object>>])
          [] x.kind = "Alternative" -> Extend(g[x.left][ends], g[x.right][ends])
          [] OTHER -> g[x.inner][ends]]

Names     == { Name(y) : y \in Paths }
FrameMaps == UNION { [K -> SUBSET Cells] : K \in SUBSET Names }

LEMMA ExtendType ==
    ASSUME NEW l \in FrameMaps, NEW r \in FrameMaps PROVE Extend(l, r) \in FrameMaps
<1>1. PICK K \in SUBSET Names : l \in [K -> SUBSET Cells]
    BY DEF FrameMaps
<1>2. PICK M \in SUBSET Names : r \in [M -> SUBSET Cells]
    BY DEF FrameMaps
<1>3. Extend(l, r) \in [K \union M -> SUBSET Cells]
    BY <1>1, <1>2 DEF Extend
<1>4. K \union M \in SUBSET Names
    OBVIOUS
<1> QED BY <1>3, <1>4 DEF FrameMaps

LEMMA SingleNNEdges ==
    ASSUME graph \in [Predicates -> SUBSET Cells], NEW p \in Predicates,
           NEW s, NEW o
    PROVE  /\ SingleNN(p, s, o) \subseteq graph[p]
           /\ SingleNN(p, s, o) \in SUBSET Cells
           /\ s = Variable /\ o = Variable => SingleNN(p, s, o) = graph[p]
BY DEF SingleNN

LEMMA FramesBodyType ==
    ASSUME graph \in [Predicates -> SUBSET Cells], NEW x \in Paths,
           NEW g \in [Parts(x) -> [Ends \X Ends -> FrameMaps]]
    PROVE  FramesBody(x, g) \in [Ends \X Ends -> FrameMaps]
<1> SUFFICES ASSUME NEW s \in Ends, NEW o \in Ends PROVE FramesBody(x, g)[<<s, o>>] \in FrameMaps
  <2>1. PICK b : b = FramesBody(x, g)
      OBVIOUS
  <2>2. b = [ends \in Ends \X Ends |-> b[ends]]
      BY <2>1, Zenon DEF FramesBody
  <2>3. ASSUME \A s, o \in Ends : b[<<s, o>>] \in FrameMaps
        PROVE  b \in [Ends \X Ends -> FrameMaps]
    <3>1. \A ends \in Ends \X Ends : b[ends] \in FrameMaps
        BY <2>3
    <3> QED BY <2>2, <3>1
  <2> QED BY <2>1, <2>3
<1>0. Variable \in Ends
    BY DEF Ends
<1>1. CASE x.kind = "NamedNode"
  <2>1. FramesBody(x, g)[<<s, o>>] =
            [k \in {Name(x)} |-> IF x.nn \in Predicates THEN SingleNN(x.nn, s, o) ELSE {}]
      BY <1>1 DEF FramesBody
  <2>2. (IF x.nn \in Predicates THEN SingleNN(x.nn, s, o) ELSE {}) \in SUBSET Cells
      BY SingleNNEdges
  <2>3. FramesBody(x, g)[<<s, o>>] \in [{Name(x)} -> SUBSET Cells]
      BY <2>1, <2>2
  <2> QED BY <2>3 DEF FrameMaps, Names
<1>2. CASE x.kind = "NegatedPropertySet"
  <2>1. FramesBody(x, g)[<<s, o>>] =
            [k \in {Name(x)} |-> UNION { SingleNN(p, s, o) : p \in Predicates \ Range(x.nns) }]
      BY <1>2 DEF FramesBody
  <2>2. UNION { SingleNN(p, s, o) : p \in Predicates \ Range(x.nns) } \in SUBSET Cells
      BY SingleNNEdges
  <2>3. FramesBody(x, g)[<<s, o>>] \in [{Name(x)} -> SUBSET Cells]
      BY <2>1, <2>2
  <2> QED BY <2>3 DEF FrameMaps, Names
<1>3. CASE x.kind = "Reverse"
  <2>1. FramesBody(x, g)[<<s, o>>] = g[x.inner][<<o, s>>]
      BY <1>3 DEF FramesBody
  <2>2. x.inner \in Parts(x)
      BY <1>3, PartsOf DEF IsSingle
  <2> QED BY <2>1, <2>2
<1>4. CASE x.kind = "Sequence"
  <2>1. FramesBody(x, g)[<<s, o>>] =
            Extend(g[x.left][<<s, Variable>>], g[x.right][<<Variable, o>>])
      BY <1>4 DEF FramesBody
  <2>2. x.left \in Parts(x) /\ x.right \in Parts(x)
      BY <1>4, PartsOf DEF IsPair
  <2>3. g[x.left][<<s, Variable>>] \in FrameMaps /\ g[x.right][<<Variable, o>>] \in FrameMaps
      BY <1>0, <2>2
  <2> QED BY <2>1, <2>3, ExtendType
<1>5. CASE x.kind = "Alternative"
  <2>1. FramesBody(x, g)[<<s, o>>] = Extend(g[x.left][<<s, o>>], g[x.right][<<s, o>>])
      BY <1>5 DEF FramesBody
  <2>2. x.left \in Parts(x) /\ x.right \in Parts(x)
      BY <1>5, PartsOf DEF IsPair
  <2>3. g[x.left][<<s, o>>] \in FrameMaps /\ g[x.right][<<s, o>>] \in FrameMaps
      BY <2>2
  <2> QED BY <2>1, <2>3, ExtendType
<1>6. CASE x.kind \in {"ZeroOrMore", "OneOrMore", "ZeroOrOne"}
  <2>1. FramesBody(x, g)[<<s, o>>] = g[x.inner][<<s, o>>]
      BY <1>6 DEF FramesBody
  <2>2. x.inner \in Parts(x)
      BY <1>6, PartsOf DEF IsSingle
  <2> QED BY <2>1, <2>2
<1> QED BY <1>1, <1>2, <1>3, <1>4, <1>5, <1>6, PartsOf DEF IsLeaf, IsPair, IsSingle

\* The maps of an expression need only those of its parts.
LEMMA FramesBodyParts ==
    ASSUME NEW x \in Paths, NEW f, NEW g, \A y \in Parts(x) : f[y] = g[y]
    PROVE  FramesBody(x, f) = FramesBody(x, g)
<1>1. IsPair(x) => f[x.left] = g[x.left] /\ f[x.right] = g[x.right]
    BY PartsOf
<1>2. IsSingle(x) => f[x.inner] = g[x.inner]
    BY PartsOf
<1>3. IsLeaf(x) => FramesBody(x, f) = FramesBody(x, g)
    BY DEF IsLeaf, FramesBody
<1>4. IsPair(x) => FramesBody(x, f) = FramesBody(x, g)
    BY <1>1 DEF IsPair, FramesBody
<1>5. IsSingle(x) => FramesBody(x, f) = FramesBody(x, g)
    BY <1>2 DEF IsSingle, FramesBody
<1> QED BY <1>3, <1>4, <1>5, PartsOf

LEMMA FramesEquation ==
    ASSUME graph \in [Predicates -> SUBSET Cells]
    PROVE  \A x \in Paths : UniqueCatDfs[x] = FramesBody(x, UniqueCatDfs)
<1> DEFINE V == [Ends \X Ends -> FrameMaps]
           F == [x \in Paths |-> [g \in [Parts(x) -> V] |-> FramesBody(x, g)]]
<1>1. \A x \in Paths : Parts(x) \subseteq Paths
    BY PathsAssumption
<1>2. \A x \in Paths : F[x] \in [[Parts(x) -> V] -> V]
    BY FramesBodyType
<1>3. PICK f \in [Paths -> V] :
          \A x \in Paths : f[x] = F[x][[y \in Parts(x) |-> f[y]]]
  <2> HIDE DEF F, V
  <2>1. ArePathBodies(Paths, V, F)
      BY <1>1, <1>2 DEF ArePathBodies
  <2>2. PICK f : IsPathFunction(f, Paths, V, F)
      BY <2>1, PathRecursion
  <2> QED BY <2>2 DEF IsPathFunction
<1>4. \A x \in Paths : f[x] = FramesBody(x, f)
  <2> HIDE DEF V
  <2> SUFFICES ASSUME NEW x \in Paths PROVE f[x] = FramesBody(x, f)
      OBVIOUS
  <2> DEFINE g == [y \in Parts(x) |-> f[y]]
  <2>1. g \in [Parts(x) -> V]
      BY <1>1
  <2>2. f[x] = FramesBody(x, g)
      BY <1>3, <2>1
  <2>3. \A y \in Parts(x) : f[y] = g[y]
      OBVIOUS
  <2> HIDE DEF g
  <2> QED BY <2>2, <2>3, FramesBodyParts
<1>5. f = [x \in Paths |-> FramesBody(x, f)]
    BY <1>4
<1>6. UniqueCatDfs = CHOOSE g : g = [x \in Paths |-> FramesBody(x, g)]
    BY DEF UniqueCatDfs, FramesBody
<1>7. UniqueCatDfs = [x \in Paths |-> FramesBody(x, UniqueCatDfs)]
    BY <1>5, <1>6
<1> QED BY <1>7

LEMMA LeavesOf ==
    ASSUME NEW x \in Paths
    PROVE  /\ IsLeaf(x) => Leaves(x) = {x}
           /\ IsPair(x) => Leaves(x) = Leaves(x.left) \union Leaves(x.right)
           /\ IsSingle(x) => Leaves(x) = Leaves(x.inner)
<1>1. Subpaths[x] = {x} \union UNION { Subpaths[y] : y \in Parts(x) }
    BY SubpathsEquation
<1>2. IsPair(x) \/ IsSingle(x) => ~IsLeaf(x)
    BY DEF IsPair, IsSingle, IsLeaf
<1>3. IsLeaf(x) => Leaves(x) = {x}
    BY <1>1, PartsOf DEF Leaves
<1>4. ASSUME IsPair(x) PROVE Leaves(x) = Leaves(x.left) \union Leaves(x.right)
  <2>1. Subpaths[x] = {x} \union Subpaths[x.left] \union Subpaths[x.right]
      BY <1>1, <1>4, PartsOf
  <2> QED BY <1>2, <1>4, <2>1 DEF Leaves
<1>5. ASSUME IsSingle(x) PROVE Leaves(x) = Leaves(x.inner)
  <2>1. Subpaths[x] = {x} \union Subpaths[x.inner]
      BY <1>1, <1>5, PartsOf
  <2> QED BY <1>2, <1>5, <2>1 DEF Leaves
<1> QED BY <1>3, <1>4, <1>5

\* A map has one frame for every name of a leaf: edges of that leaf, and all of
\* them if the path is between two variables.
AreFrames(map, x, whole) ==
    /\ DOMAIN map = { Name(y) : y \in Leaves(x) }
    /\ \A k \in DOMAIN map : \E y \in Leaves(x) :
          /\ Name(y) = k
          /\ map[k] \subseteq Edges(y)
          /\ whole => map[k] = Edges(y)

LEMMA ExtendFrames ==
    ASSUME NEW x, NEW y, NEW z, Leaves(x) = Leaves(y) \union Leaves(z),
           NEW whole \in BOOLEAN, NEW left, NEW right,
           AreFrames(left, y, whole), AreFrames(right, z, whole)
    PROVE  AreFrames(Extend(left, right), x, whole)
<1> DEFINE map == Extend(left, right)
<1>1. DOMAIN map = DOMAIN left \union DOMAIN right
    BY DEF Extend
<1>2. \A k \in DOMAIN map : map[k] = IF k \in DOMAIN right THEN right[k] ELSE left[k]
    BY DEF Extend
<1> HIDE DEF map
<1>3. ASSUME NEW k \in DOMAIN map
      PROVE  \E l \in Leaves(x) : /\ Name(l) = k
                                  /\ map[k] \subseteq Edges(l)
                                  /\ whole => map[k] = Edges(l)
  <2>1. CASE k \in DOMAIN right
      BY <1>2, <2>1 DEF AreFrames
  <2>2. CASE k \notin DOMAIN right
      BY <1>1, <1>2, <2>2 DEF AreFrames
  <2> QED BY <2>1, <2>2
<1>4. DOMAIN map = { Name(l) : l \in Leaves(x) }
    BY <1>1 DEF AreFrames
<1>5. AreFrames(map, x, whole)
    BY <1>3, <1>4 DEF AreFrames
<1> QED BY <1>5 DEF map

LEMMA FramesAreEdges ==
    ASSUME graph \in [Predicates -> SUBSET Cells]
    PROVE  \A x \in Paths : \A s, o \in Ends :
              AreFrames(UniqueCatDfs[x][<<s, o>>], x, s = Variable /\ o = Variable)
<1> DEFINE T == { x \in Paths : \A s, o \in Ends :
                     AreFrames(UniqueCatDfs[x][<<s, o>>], x, s = Variable /\ o = Variable) }
<1>0. Variable \in Ends
    BY DEF Ends
<1>1. ASSUME NEW x \in Paths, Parts(x) \intersect Paths \subseteq T PROVE x \in T
  <2> SUFFICES ASSUME NEW s \in Ends, NEW o \in Ends
               PROVE  AreFrames(UniqueCatDfs[x][<<s, o>>], x, s = Variable /\ o = Variable)
      OBVIOUS
  <2>1. UniqueCatDfs[x][<<s, o>>] = FramesBody(x, UniqueCatDfs)[<<s, o>>]
      BY FramesEquation
  <2>2. \A y \in Parts(x) : \A a, b \in Ends :
           AreFrames(UniqueCatDfs[y][<<a, b>>], y, a = Variable /\ b = Variable)
      BY <1>1, PathsAssumption
  <2> HIDE DEF T
  <2>3. CASE IsLeaf(x)
    <3> DEFINE map == UniqueCatDfs[x][<<s, o>>]
    <3>1. DOMAIN map = {Name(x)}
        BY <2>1, <2>3 DEF FramesBody, IsLeaf
    <3>2. /\ map[Name(x)] \subseteq Edges(x)
          /\ s = Variable /\ o = Variable => map[Name(x)] = Edges(x)
      <4>1. CASE x.kind = "NamedNode"
        <5>1. map[Name(x)] = IF x.nn \in Predicates THEN SingleNN(x.nn, s, o) ELSE {}
            BY <2>1, <4>1 DEF FramesBody
        <5>2. Edges(x) = IF x.nn \in Predicates THEN graph[x.nn] ELSE {}
            BY <4>1 DEF Edges, LeafPredicates
        <5> HIDE DEF map
        <5> QED BY <5>1, <5>2, SingleNNEdges
      <4>2. CASE x.kind = "NegatedPropertySet"
        <5>1. map[Name(x)] = UNION { SingleNN(p, s, o) : p \in Predicates \ Range(x.nns) }
            BY <2>1, <4>2 DEF FramesBody
        <5>2. Edges(x) = UNION { graph[p] : p \in Predicates \ Range(x.nns) }
            BY <4>2 DEF Edges, LeafPredicates
        <5> HIDE DEF map
        <5> QED BY <5>1, <5>2, SingleNNEdges
      <4> QED BY <2>3, <4>1, <4>2 DEF IsLeaf
    <3>3. Leaves(x) = {x}
        BY <2>3, LeavesOf
    <3> HIDE DEF map
    <3>4. AreFrames(map, x, s = Variable /\ o = Variable)
        BY <3>1, <3>2, <3>3 DEF AreFrames
    <3> QED BY <3>4 DEF map
  <2>4. CASE x.kind = "Sequence"
    <3>1. UniqueCatDfs[x][<<s, o>>] =
             Extend(UniqueCatDfs[x.left][<<s, Variable>>], UniqueCatDfs[x.right][<<Variable, o>>])
        BY <2>1, <2>4 DEF FramesBody
    <3>2. x.left \in Parts(x) /\ x.right \in Parts(x)
        BY <2>4, PartsOf DEF IsPair
    <3>3. PICK whole \in BOOLEAN : whole <=> s = Variable /\ o = Variable
        OBVIOUS
    <3>4. /\ AreFrames(UniqueCatDfs[x.left][<<s, Variable>>], x.left, whole)
          /\ AreFrames(UniqueCatDfs[x.right][<<Variable, o>>], x.right, whole)
      <4>1. /\ AreFrames(UniqueCatDfs[x.left][<<s, Variable>>], x.left,
                         s = Variable /\ Variable = Variable)
            /\ AreFrames(UniqueCatDfs[x.right][<<Variable, o>>], x.right,
                         Variable = Variable /\ o = Variable)
          BY <1>0, <2>2, <3>2
      <4> QED BY <3>3, <4>1 DEF AreFrames
    <3>5. Leaves(x) = Leaves(x.left) \union Leaves(x.right)
        BY <2>4, LeavesOf DEF IsPair
    <3>6. AreFrames(UniqueCatDfs[x][<<s, o>>], x, whole)
        BY <3>1, <3>4, <3>5, ExtendFrames
    <3> QED BY <3>3, <3>6 DEF AreFrames
  <2>5. CASE x.kind = "Alternative"
    <3>1. UniqueCatDfs[x][<<s, o>>] =
             Extend(UniqueCatDfs[x.left][<<s, o>>], UniqueCatDfs[x.right][<<s, o>>])
        BY <2>1, <2>5 DEF FramesBody
    <3>2. x.left \in Parts(x) /\ x.right \in Parts(x)
        BY <2>5, PartsOf DEF IsPair
    <3>3. /\ AreFrames(UniqueCatDfs[x.left][<<s, o>>], x.left, s = Variable /\ o = Variable)
          /\ AreFrames(UniqueCatDfs[x.right][<<s, o>>], x.right, s = Variable /\ o = Variable)
        BY <2>2, <3>2
    <3>4. Leaves(x) = Leaves(x.left) \union Leaves(x.right)
        BY <2>5, LeavesOf DEF IsPair
    <3> QED BY <3>1, <3>3, <3>4, ExtendFrames
  <2>6. CASE IsSingle(x)
    <3>1. x.inner \in Parts(x) /\ Leaves(x) = Leaves(x.inner)
        BY <2>6, PartsOf, LeavesOf
    <3>2. UniqueCatDfs[x][<<s, o>>] = IF x.kind = "Reverse" THEN UniqueCatDfs[x.inner][<<o, s>>]
                                      ELSE UniqueCatDfs[x.inner][<<s, o>>]
        BY <2>1, <2>6 DEF FramesBody, IsSingle
    <3>3. /\ AreFrames(UniqueCatDfs[x.inner][<<o, s>>], x.inner, o = Variable /\ s = Variable)
          /\ AreFrames(UniqueCatDfs[x.inner][<<s, o>>], x.inner, s = Variable /\ o = Variable)
        BY <2>2, <3>1
    <3> QED BY <3>1, <3>2, <3>3 DEF AreFrames
  <2> QED BY <2>3, <2>4, <2>5, <2>6, PartsOf DEF IsPair
<1> HIDE DEF T
<1>2. Paths \subseteq T
    BY <1>1, PathInduction
<1> QED BY <1>2 DEF T

----------------------------------------------------------------------------
\* The greatest index

LEMMA Greatest ==
    ASSUME NEW S, IsFiniteSet(S), S \subseteq Nat, S # {}
    PROVE  Max(S) \in S /\ \A n \in S : n <= Max(S)
<1> DEFINE HasMax(U) == \E m \in U : \A n \in U : m >= n
           Bad == { c \in Nat : \E U \in SUBSET Nat :
                       IsFiniteSet(U) /\ U # {} /\ Cardinality(U) = c /\ ~HasMax(U) }
<1>1. Bad = {}
  <2> SUFFICES ASSUME Bad # {} PROVE FALSE
      OBVIOUS
  <2>1. PICK c \in Bad : \A e \in Bad : c <= e
      BY LeastNumber
  <2>2. PICK U \in SUBSET Nat :
            IsFiniteSet(U) /\ U # {} /\ Cardinality(U) = c /\ ~HasMax(U)
      OBVIOUS
  <2>3. PICK x \in U : TRUE
      BY <2>2
  <2>4. IsFiniteSet(U \ {x}) /\ Cardinality(U \ {x}) = c - 1 /\ c \in Nat
      BY <2>2, <2>3, FS_RemoveElement
  <2>5. Cardinality(U \ {x}) \in Nat
      BY <2>4, FS_CardinalityType
  <2>6. ~(c - 1 \in Bad)
      BY <2>1, <2>4, <2>5
  <2>7. U \ {x} = {} \/ HasMax(U \ {x})
      BY <2>4, <2>5, <2>6
  <2>8. HasMax(U)
    <3>1. CASE U \ {x} = {}
      <4>1. U = {x}
          BY <2>3, <3>1
      <4>2. x >= x
          BY <2>2, <2>3
      <4> QED BY <4>1, <4>2
    <3>2. CASE HasMax(U \ {x})
      <4>1. PICK m \in U \ {x} : \A n \in U \ {x} : m >= n
          BY <3>2
      <4>2. CASE m >= x
          BY <4>1, <4>2
      <4>3. CASE ~(m >= x)
        <5>1. m \in Nat /\ x \in Nat
            BY <2>2, <2>3, <4>1
        <5>2. \A n \in U : x >= n
          <6> SUFFICES ASSUME NEW n \in U PROVE x >= n
              OBVIOUS
          <6>1. n \in Nat /\ (n = x \/ m >= n)
              BY <2>2, <4>1
          <6> QED BY <4>3, <5>1, <6>1
        <5> QED BY <2>3, <5>2
      <4> QED BY <4>2, <4>3
    <3> QED BY <2>7, <3>1, <3>2
  <2> QED BY <2>2, <2>8
<1>2. HasMax(S)
  <2>1. Cardinality(S) \in Nat
      BY FS_CardinalityType
  <2> QED BY <1>1, <2>1
<1>3. Max(S) \in S /\ \A n \in S : Max(S) >= n
    BY <1>2 DEF Max
<1> QED BY <1>3

----------------------------------------------------------------------------
\* The evaluation, once the frames have been made

FramesHold ==
    /\ graph \in Graphs
    /\ query \in Queries
    /\ cat_df_map = UniqueCatDfs[query.path][<<query.subject, query.object>>]

Known == NodesOf(Frames)
Upto  == { n \in Nodes : n <= max_index }

LEMMA FrameFacts ==
    ASSUME FramesHold
    PROVE  /\ graph \in [Predicates -> SUBSET Cells]
           /\ query.path \in Paths
           /\ AreFrames(cat_df_map, query.path, BetweenVariables)
           /\ \A k \in DOMAIN cat_df_map : cat_df_map[k] \in SUBSET (Known \X Known)
           /\ Known \subseteq Upto
           /\ max_index \in Nat
<1>1. graph \in [Predicates -> SUBSET Cells]
    BY GraphsAssumption DEF FramesHold
<1>2. query.path \in Paths /\ query.subject \in Ends /\ query.object \in Ends
    BY EndsAssumption DEF FramesHold
<1>3. AreFrames(cat_df_map, query.path, BetweenVariables)
    BY <1>1, <1>2, FramesAreEdges DEF FramesHold, BetweenVariables
<1>4. \A k \in DOMAIN cat_df_map : cat_df_map[k] \in SUBSET Cells
    BY <1>1, <1>3 DEF AreFrames, Edges, LeafPredicates
<1>5. Known \subseteq Nodes /\ \A k \in DOMAIN cat_df_map : cat_df_map[k] \in SUBSET (Known \X Known)
    BY <1>4 DEF Known, NodesOf, Frames, Cells
<1>6. /\ IsFiniteSet(Known \union {0})
      /\ Known \union {0} \subseteq Nat
  <2>1. IsFiniteSet(Known)
      BY <1>5, NodesAssumption, FS_Subset
  <2>2. IsFiniteSet(Known \union {0})
      BY <2>1, FS_AddElement
  <2> QED BY <1>5, <2>2, NodesAssumption
<1>7. /\ Max(Known \union {0}) \in Nat
      /\ \A n \in Known : n <= Max(Known \union {0})
    BY <1>6, Greatest
<1>8. max_index = Max(Known \union {0})
    BY DEF max_index, Known
<1> QED BY <1>1, <1>2, <1>3, <1>5, <1>7, <1>8 DEF Upto

\* A leaf has its own frame, if no predicate is both named and negated.
LEMMA LeafFrames ==
    ASSUME FramesHold, NamedApart(query.path), NEW y \in Leaves(query.path)
    PROVE  /\ Name(y) \in DOMAIN cat_df_map
           /\ cat_df_map[Name(y)] \subseteq Edges(y)
           /\ BetweenVariables => cat_df_map[Name(y)] = Edges(y)
BY FrameFacts DEF NamedApart, AreFrames

----------------------------------------------------------------------------
\* The matrices

LEMMA SimpleMatrices ==
    /\ \A e : /\ MatrixOf(e) \in Matrix
              /\ ZeroOne(MatrixOf(e))
              /\ Pairs(MatrixOf(e)) = e \intersect Cells
    /\ \A m \in Matrix : /\ Transpose(m) \in Matrix
                         /\ ZeroOne(m) => ZeroOne(Transpose(m))
                         /\ \A i, j \in Nodes :
                               <<i, j>> \in Pairs(Transpose(m)) <=> <<j, i>> \in Pairs(m)
<1>1. ASSUME NEW e
      PROVE  /\ MatrixOf(e) \in Matrix
             /\ ZeroOne(MatrixOf(e))
             /\ Pairs(MatrixOf(e)) = e \intersect Cells
    BY DEF MatrixOf, Matrix, ZeroOne, Pairs
<1>2. ASSUME NEW m \in Matrix
      PROVE  /\ Transpose(m) \in Matrix
             /\ ZeroOne(m) => ZeroOne(Transpose(m))
             /\ \A i, j \in Nodes :
                   <<i, j>> \in Pairs(Transpose(m)) <=> <<j, i>> \in Pairs(m)
  <2>1. \A x \in Cells : <<x[2], x[1]>> \in Cells
      BY DEF Cells
  <2>2. Transpose(m) \in Matrix
      BY <2>1 DEF Transpose, Matrix
  <2>3. ZeroOne(m) => ZeroOne(Transpose(m))
      BY <2>1 DEF Transpose, ZeroOne
  <2>4. \A i, j \in Nodes : <<i, j>> \in Pairs(Transpose(m)) <=> <<j, i>> \in Pairs(m)
      BY DEF Transpose, Pairs, Cells
  <2> QED BY <2>2, <2>3, <2>4
<1> QED BY <1>1, <1>2

\* The identity up to the greatest index.
LEMMA EyePairs ==
    ASSUME NEW m \in Matrix
    PROVE  /\ Ones(Plus(m, Eye(max_index))) \in [Cells -> {0, 1}]
           /\ Ones(Plus(m, Eye(max_index))) \in Matrix
           /\ ZeroOne(Ones(Plus(m, Eye(max_index))))
           /\ Pairs(Ones(Plus(m, Eye(max_index)))) = Pairs(m) \union { <<n, n>> : n \in Upto }
<1> DEFINE E == Eye(max_index)
<1>1. E \in Matrix /\ Pairs(E) = { <<n, n>> : n \in Upto }
    BY DEF Eye, Matrix, Pairs, Upto, Cells
<1> HIDE DEF E
<1>2. Plus(m, E) \in Matrix /\ Pairs(Plus(m, E)) = Pairs(m) \union Pairs(E)
    BY <1>1, PlusPairs
<1>3. /\ Ones(Plus(m, E)) \in Matrix
      /\ ZeroOne(Ones(Plus(m, E)))
      /\ Pairs(Ones(Plus(m, E))) = Pairs(m) \union Pairs(E)
    BY <1>2, OnesPairs
<1>4. Ones(Plus(m, E)) \in [Cells -> {0, 1}]
    BY DEF Ones
<1> QED BY <1>1, <1>3, <1>4 DEF E

\* What sparse_path makes of the matrices of the parts.
SparseBody(x, g) == Stored(
    CASE IsLeaf(x)              -> MatrixOf(cat_df_map[Name(x)])
      [] x.kind = "Reverse"     -> Transpose(g[x.inner])
      [] x.kind = "Sequence"    -> Product(g[x.left], g[x.right])
      [] x.kind = "Alternative" -> Ones(Plus(g[x.left], g[x.right]))
      [] x.kind = "ZeroOrOne"   -> Ones(Plus(g[x.inner], Eye(max_index)))
      [] x.kind = "ZeroOrMore"  -> ZeroOrMoreLoop[Ones(Plus(g[x.inner], Eye(max_index)))]
      [] OTHER                  -> OneOrMoreLoop[g[x.inner]])

LEMMA SparseBodyIs ==
    ASSUME NEW x, NEW g
    PROVE  /\ IsLeaf(x) => SparseBody(x, g) = MatrixOf(cat_df_map[Name(x)])
           /\ x.kind = "Reverse" => SparseBody(x, g) = Transpose(g[x.inner])
           /\ x.kind = "Sequence" => SparseBody(x, g) = Product(g[x.left], g[x.right])
           /\ x.kind = "Alternative" => SparseBody(x, g) = Ones(Plus(g[x.left], g[x.right]))
           /\ x.kind = "ZeroOrOne" => SparseBody(x, g) = Ones(Plus(g[x.inner], Eye(max_index)))
           /\ x.kind = "ZeroOrMore" =>
                 SparseBody(x, g) = ZeroOrMoreLoop[Ones(Plus(g[x.inner], Eye(max_index)))]
           /\ x.kind = "OneOrMore" => SparseBody(x, g) = OneOrMoreLoop[g[x.inner]]
BY StoredIs DEF SparseBody, IsLeaf

\* The matrices of the code have the columns up to the greatest index only.
Bounded == { m \in Matrix : Pairs(m) \subseteq Upto \X Upto }

LEMMA StarArgument ==
    ASSUME NEW m \in Bounded
    PROVE  Ones(Plus(m, Eye(max_index))) \in Reflexive
<1>1. m \in Matrix /\ Pairs(m) \subseteq Upto \X Upto
    BY DEF Bounded
<1>2. PICK s : s = Ones(Plus(m, Eye(max_index)))
    OBVIOUS
<1>3. /\ s \in [Cells -> {0, 1}]
      /\ Pairs(s) = Pairs(m) \union { <<n, n>> : n \in Upto }
    BY <1>1, <1>2, EyePairs
<1>4. \A x \in Pairs(s) : <<x[1], x[1]>> \in Pairs(s)
    BY <1>1, <1>3
<1> QED BY <1>2, <1>3, <1>4 DEF Reflexive

LEMMA UptoTransitive == Upto \X Upto \in SUBSET Cells /\ Transitive(Upto \X Upto)
BY DEF Upto, Cells, Transitive

LEMMA SparseBodyType ==
    ASSUME FramesHold, NEW x \in Subpaths[query.path],
           NEW g \in [Parts(x) -> Bounded]
    PROVE  SparseBody(x, g) \in Bounded
<1>0. x \in Paths
    BY FrameFacts, SubpathsEquation
<1>1. CASE IsLeaf(x)
  <2>1. Name(x) \in DOMAIN cat_df_map
      BY <1>1, FrameFacts DEF AreFrames, Leaves
  <2>2. cat_df_map[Name(x)] \subseteq Upto \X Upto
      BY <2>1, FrameFacts
  <2>3. MatrixOf(cat_df_map[Name(x)]) \in Bounded
      BY <2>2, SimpleMatrices DEF Bounded
  <2> QED BY <1>1, <2>3, SparseBodyIs
<1>2. CASE x.kind = "Reverse"
  <2>1. g[x.inner] \in Bounded
      BY <1>0, <1>2, PartsOf DEF IsSingle
  <2>2. PICK m \in Bounded : m = g[x.inner]
      BY <2>1
  <2>3. m \in Matrix /\ Pairs(m) \subseteq Upto \X Upto
      BY DEF Bounded
  <2>4. Transpose(m) \in Matrix /\ Pairs(Transpose(m)) \subseteq Cells
      BY <2>3, SimpleMatrices DEF Pairs
  <2>5. \A i, j \in Nodes : <<i, j>> \in Pairs(Transpose(m)) => <<i, j>> \in Upto \X Upto
    <3> SUFFICES ASSUME NEW i \in Nodes, NEW j \in Nodes, <<i, j>> \in Pairs(Transpose(m))
                 PROVE  <<i, j>> \in Upto \X Upto
        OBVIOUS
    <3>1. <<j, i>> \in Pairs(m)
        BY <2>3, SimpleMatrices
    <3> QED BY <2>3, <3>1
  <2>6. Transpose(m) \in Bounded
      BY <2>4, <2>5 DEF Bounded, Cells
  <2> QED BY <1>2, <2>2, <2>6, SparseBodyIs
<1>3. CASE x.kind = "Sequence"
  <2>1. g[x.left] \in Bounded /\ g[x.right] \in Bounded
      BY <1>0, <1>3, PartsOf DEF IsPair
  <2>2. PICK l \in Bounded, r \in Bounded : l = g[x.left] /\ r = g[x.right]
      BY <2>1
  <2>3. /\ l \in Matrix /\ Pairs(l) \subseteq Upto \X Upto
        /\ r \in Matrix /\ Pairs(r) \subseteq Upto \X Upto
      BY DEF Bounded
  <2>4. Product(l, r) \in Matrix /\ Pairs(Product(l, r)) \subseteq Cells
      BY <2>3, ProductPairs DEF Pairs
  <2>5. \A i, j \in Nodes : <<i, j>> \in Pairs(Product(l, r)) => <<i, j>> \in Upto \X Upto
    <3> SUFFICES ASSUME NEW i \in Nodes, NEW j \in Nodes, <<i, j>> \in Pairs(Product(l, r))
                 PROVE  <<i, j>> \in Upto \X Upto
        OBVIOUS
    <3>1. PICK k \in Nodes : <<i, k>> \in Pairs(l) /\ <<k, j>> \in Pairs(r)
        BY <2>3, ProductPairs
    <3> QED BY <2>3, <3>1
  <2>6. Product(l, r) \in Bounded
      BY <2>4, <2>5 DEF Bounded, Cells
  <2> QED BY <1>3, <2>2, <2>6, SparseBodyIs
<1>4. CASE x.kind = "Alternative"
  <2>1. g[x.left] \in Bounded /\ g[x.right] \in Bounded
      BY <1>0, <1>4, PartsOf DEF IsPair
  <2>2. PICK l \in Bounded, r \in Bounded : l = g[x.left] /\ r = g[x.right]
      BY <2>1
  <2>3. Plus(l, r) \in Matrix /\ Pairs(Plus(l, r)) = Pairs(l) \union Pairs(r)
      BY PlusPairs DEF Bounded
  <2>4. Ones(Plus(l, r)) \in Bounded
      BY <2>3, OnesPairs DEF Bounded
  <2> QED BY <1>4, <2>2, <2>4, SparseBodyIs
<1>5. CASE x.kind \in {"ZeroOrOne", "ZeroOrMore", "OneOrMore"}
  <2>1. g[x.inner] \in Bounded
      BY <1>0, <1>5, PartsOf DEF IsSingle
  <2>2. PICK m \in Bounded : m = g[x.inner]
      BY <2>1
  <2>3. m \in Matrix /\ Pairs(m) \subseteq Upto \X Upto
      BY DEF Bounded
  <2>4. PICK s : s = Ones(Plus(m, Eye(max_index)))
      OBVIOUS
  <2>5. s \in Matrix /\ Pairs(s) \subseteq Upto \X Upto /\ s \in Reflexive
      BY <2>3, <2>4, EyePairs, StarArgument
  <2>6. ZeroOrMoreLoop[s] \in Bounded
    <3>1. IsLooped(s, ZeroOrMoreLoop[s])
        BY <2>5, ZeroOrMoreLoops
    <3> QED BY <2>5, <3>1, UptoTransitive DEF IsLooped, Bounded
  <2>7. OneOrMoreLoop[m] \in Bounded
    <3>1. IsLooped(m, OneOrMoreLoop[m])
        BY <2>3, OneOrMoreLoops
    <3> QED BY <2>3, <3>1, UptoTransitive DEF IsLooped, Bounded
  <2> QED BY <1>5, <2>2, <2>4, <2>5, <2>6, <2>7, SparseBodyIs DEF Bounded
<1> QED BY <1>0, <1>1, <1>2, <1>3, <1>4, <1>5, PartsOf DEF IsPair, IsSingle

LEMMA SparseBodyParts ==
    ASSUME NEW x \in Paths, NEW f, NEW g, \A y \in Parts(x) : f[y] = g[y]
    PROVE  SparseBody(x, f) = SparseBody(x, g)
<1>1. IsPair(x) => f[x.left] = g[x.left] /\ f[x.right] = g[x.right]
    BY PartsOf
<1>2. IsSingle(x) => f[x.inner] = g[x.inner]
    BY PartsOf
<1>3. IsLeaf(x) => SparseBody(x, f) = SparseBody(x, g)
    BY SparseBodyIs
<1>4. IsPair(x) => SparseBody(x, f) = SparseBody(x, g)
    BY <1>1, SparseBodyIs DEF IsPair
<1>5. IsSingle(x) => SparseBody(x, f) = SparseBody(x, g)
    BY <1>2, SparseBodyIs DEF IsSingle
<1> QED BY <1>3, <1>4, <1>5, PartsOf

LEMMA SparseEquation ==
    ASSUME FramesHold
    PROVE  \A x \in Subpaths[query.path] :
              SparsePath[x] \in Bounded /\ SparsePath[x] = SparseBody(x, SparsePath)
<1> DEFINE S == Subpaths[query.path]
           F == [x \in S |-> [g \in [Parts(x) -> Bounded] |-> SparseBody(x, g)]]
<1>1. S \subseteq Paths /\ \A x \in S : Parts(x) \subseteq S
    BY FrameFacts, SubpathsEquation, SubpathsClosed
<1>2. \A x \in S : F[x] \in [[Parts(x) -> Bounded] -> Bounded]
    BY SparseBodyType
<1>3. PICK f \in [S -> Bounded] : \A x \in S : f[x] = F[x][[y \in Parts(x) |-> f[y]]]
  <2> HIDE DEF F, S
  <2>1. ArePathBodies(S, Bounded, F)
      BY <1>1, <1>2 DEF ArePathBodies
  <2>2. PICK f : IsPathFunction(f, S, Bounded, F)
      BY <2>1, PathRecursion
  <2> QED BY <2>2 DEF IsPathFunction
<1>4. \A x \in S : f[x] = SparseBody(x, f)
  <2> SUFFICES ASSUME NEW x \in S PROVE f[x] = SparseBody(x, f)
      OBVIOUS
  <2> DEFINE g == [y \in Parts(x) |-> f[y]]
  <2>1. g \in [Parts(x) -> Bounded]
      BY <1>1
  <2>2. f[x] = SparseBody(x, g)
      BY <1>3, <2>1
  <2>3. \A y \in Parts(x) : f[y] = g[y]
      OBVIOUS
  <2> HIDE DEF g, S
  <2> QED BY <1>1, <2>2, <2>3, SparseBodyParts
<1>5. f = [x \in S |-> SparseBody(x, f)]
    BY <1>4
<1>6. SparsePath = CHOOSE g : g = [x \in S |-> SparseBody(x, g)]
    BY DEF SparsePath, SparseBody, QueryPaths
<1>7. SparsePath = [x \in S |-> SparseBody(x, SparsePath)]
    BY <1>5, <1>6
<1>8. \A x \in S : SparsePath[x] = SparseBody(x, SparsePath)
    BY <1>7
<1> DEFINE T == { x \in S : SparsePath[x] \in Bounded }
<1>9. ASSUME NEW x \in S, Parts(x) \intersect S \subseteq T PROVE x \in T
  <2> DEFINE g == [y \in Parts(x) |-> SparsePath[y]]
  <2>1. g \in [Parts(x) -> Bounded]
      BY <1>1, <1>9
  <2>2. \A y \in Parts(x) : SparsePath[y] = g[y]
      OBVIOUS
  <2> HIDE DEF g
  <2>3. SparseBody(x, SparsePath) = SparseBody(x, g)
      BY <1>1, <2>2, SparseBodyParts
  <2>4. SparseBody(x, g) \in Bounded
      BY <2>1, SparseBodyType
  <2> QED BY <1>8, <2>3, <2>4
<1>10. S \subseteq T
  <2> HIDE DEF S, T
  <2> QED BY <1>1, <1>9, PathInduction
<1> QED BY <1>8, <1>10

----------------------------------------------------------------------------
\* The relation of a path

RelationBody(x, g) ==
    CASE IsLeaf(x)              -> UNION { graph[p] : p \in LeafPredicates(x) }
      [] x.kind = "Reverse"     -> Flip(g[x.inner])
      [] x.kind = "Sequence"    -> Join(g[x.left], g[x.right])
      [] x.kind = "Alternative" -> g[x.left] \union g[x.right]
      [] x.kind = "ZeroOrOne"   -> g[x.inner] \union Identity
      [] x.kind = "ZeroOrMore"  -> Closure(g[x.inner] \union Identity)
      [] OTHER                  -> Closure(g[x.inner])

LEMMA RelationBodyIs ==
    ASSUME NEW x, NEW g
    PROVE  /\ IsLeaf(x) => RelationBody(x, g) = Edges(x)
           /\ x.kind = "Reverse" => RelationBody(x, g) = Flip(g[x.inner])
           /\ x.kind = "Sequence" => RelationBody(x, g) = Join(g[x.left], g[x.right])
           /\ x.kind = "Alternative" => RelationBody(x, g) = g[x.left] \union g[x.right]
           /\ x.kind = "ZeroOrOne" => RelationBody(x, g) = g[x.inner] \union Identity
           /\ x.kind = "ZeroOrMore" => RelationBody(x, g) = Closure(g[x.inner] \union Identity)
           /\ x.kind = "OneOrMore" => RelationBody(x, g) = Closure(g[x.inner])
BY DEF RelationBody, IsLeaf, Edges

LEMMA IdentityInCells ==
    ASSUME graph \in [Predicates -> SUBSET Cells] PROVE Identity \in SUBSET Cells
<1>1. \A p \in PredicatesOf(query.path) : p \in Predicates
    BY DEF PredicatesOf, LeafPredicates
<1>2. \A x \in UNION { graph[p] : p \in PredicatesOf(query.path) } : x \in Cells
    BY <1>1
<1>3. PICK N : N = NodesOf({ graph[p] : p \in PredicatesOf(query.path) })
    OBVIOUS
<1>4. N \subseteq Nodes
    BY <1>2, <1>3 DEF NodesOf, Cells
<1>5. Identity = { <<n, n>> : n \in N }
    BY <1>3, Zenon DEF Identity
<1> QED BY <1>4, <1>5 DEF Cells

LEMMA RelationBodyType ==
    ASSUME graph \in [Predicates -> SUBSET Cells], NEW x \in Paths,
           NEW g \in [Parts(x) -> SUBSET Cells]
    PROVE  RelationBody(x, g) \in SUBSET Cells
<1>1. CASE IsLeaf(x)
  <2>1. Edges(x) \in SUBSET Cells
      BY DEF Edges, LeafPredicates
  <2> QED BY <1>1, <2>1, RelationBodyIs
<1>2. CASE IsPair(x)
  <2>1. g[x.left] \in SUBSET Cells /\ g[x.right] \in SUBSET Cells
      BY <1>2, PartsOf
  <2>2. /\ g[x.left] \union g[x.right] \in SUBSET Cells
        /\ Join(g[x.left], g[x.right]) \in SUBSET Cells
      BY <2>1 DEF Join
  <2> QED BY <1>2, <2>2, RelationBodyIs DEF IsPair
<1>3. CASE IsSingle(x)
  <2>1. PICK R \in SUBSET Cells : R = g[x.inner]
      BY <1>3, PartsOf
  <2>2. Flip(R) \in SUBSET Cells
      BY DEF Flip, Cells
  <2>3. R \union Identity \in SUBSET Cells
      BY IdentityInCells
  <2>4. Closure(R \union Identity) \in SUBSET Cells /\ Closure(R) \in SUBSET Cells
      BY <2>3, ClosureLeast
  <2> QED BY <1>3, <2>1, <2>2, <2>3, <2>4, RelationBodyIs DEF IsSingle
<1> QED BY <1>1, <1>2, <1>3, PartsOf

LEMMA RelationBodyParts ==
    ASSUME NEW x \in Paths, NEW f, NEW g, \A y \in Parts(x) : f[y] = g[y]
    PROVE  RelationBody(x, f) = RelationBody(x, g)
<1>1. IsPair(x) => f[x.left] = g[x.left] /\ f[x.right] = g[x.right]
    BY PartsOf
<1>2. IsSingle(x) => f[x.inner] = g[x.inner]
    BY PartsOf
<1>3. IsLeaf(x) => RelationBody(x, f) = RelationBody(x, g)
    BY RelationBodyIs, Zenon
<1>4. ASSUME NEW kind, x.kind = kind, kind \in {"Sequence", "Alternative"}
      PROVE  RelationBody(x, f) = RelationBody(x, g)
  <2>1. f[x.left] = g[x.left] /\ f[x.right] = g[x.right]
      BY <1>1, <1>4 DEF IsPair
  <2>2. CASE x.kind = "Sequence"
    <3>1. RelationBody(x, f) = Join(f[x.left], f[x.right])
        BY <2>2, RelationBodyIs
    <3>2. RelationBody(x, g) = Join(g[x.left], g[x.right])
        BY <2>2, RelationBodyIs
    <3> QED BY <2>1, <3>1, <3>2, Zenon
  <2>3. CASE x.kind = "Alternative"
    <3>1. RelationBody(x, f) = f[x.left] \union f[x.right]
        BY <2>3, RelationBodyIs
    <3>2. RelationBody(x, g) = g[x.left] \union g[x.right]
        BY <2>3, RelationBodyIs
    <3> QED BY <2>1, <3>1, <3>2, Zenon
  <2> QED BY <1>4, <2>2, <2>3
<1>5. ASSUME NEW kind, x.kind = kind,
             kind \in {"Reverse", "ZeroOrMore", "OneOrMore", "ZeroOrOne"}
      PROVE  RelationBody(x, f) = RelationBody(x, g)
  <2>1. f[x.inner] = g[x.inner]
      BY <1>2, <1>5 DEF IsSingle
  <2>2. CASE x.kind = "Reverse"
    <3>1. RelationBody(x, f) = Flip(f[x.inner])
        BY <2>2, RelationBodyIs
    <3>2. RelationBody(x, g) = Flip(g[x.inner])
        BY <2>2, RelationBodyIs
    <3> QED BY <2>1, <3>1, <3>2, Zenon
  <2>3. CASE x.kind = "ZeroOrOne"
    <3>1. RelationBody(x, f) = f[x.inner] \union Identity
        BY <2>3, RelationBodyIs
    <3>2. RelationBody(x, g) = g[x.inner] \union Identity
        BY <2>3, RelationBodyIs
    <3> QED BY <2>1, <3>1, <3>2, Zenon
  <2>4. CASE x.kind = "ZeroOrMore"
    <3>1. RelationBody(x, f) = Closure(f[x.inner] \union Identity)
        BY <2>4, RelationBodyIs
    <3>2. RelationBody(x, g) = Closure(g[x.inner] \union Identity)
        BY <2>4, RelationBodyIs
    <3> QED BY <2>1, <3>1, <3>2, Zenon
  <2>5. CASE x.kind = "OneOrMore"
    <3>1. RelationBody(x, f) = Closure(f[x.inner])
        BY <2>5, RelationBodyIs
    <3>2. RelationBody(x, g) = Closure(g[x.inner])
        BY <2>5, RelationBodyIs
    <3> QED BY <2>1, <3>1, <3>2, Zenon
  <2> QED BY <1>5, <2>2, <2>3, <2>4, <2>5
<1> QED BY <1>3, <1>4, <1>5, PartsOf DEF IsPair, IsSingle

LEMMA RelationEquation ==
    ASSUME graph \in [Predicates -> SUBSET Cells]
    PROVE  \A x \in Paths : Relation[x] \in SUBSET Cells /\ Relation[x] = RelationBody(x, Relation)
<1> DEFINE V == SUBSET Cells
           F == [x \in Paths |-> [g \in [Parts(x) -> V] |-> RelationBody(x, g)]]
<1>1. \A x \in Paths : Parts(x) \subseteq Paths
    BY PathsAssumption
<1>2. \A x \in Paths : F[x] \in [[Parts(x) -> V] -> V]
    BY RelationBodyType
<1>3. PICK f \in [Paths -> V] : \A x \in Paths : f[x] = F[x][[y \in Parts(x) |-> f[y]]]
  <2> HIDE DEF F, V
  <2>1. ArePathBodies(Paths, V, F)
      BY <1>1, <1>2 DEF ArePathBodies
  <2>2. PICK f : IsPathFunction(f, Paths, V, F)
      BY <2>1, PathRecursion
  <2> QED BY <2>2 DEF IsPathFunction
<1>4. \A x \in Paths : f[x] = RelationBody(x, f)
  <2> SUFFICES ASSUME NEW x \in Paths PROVE f[x] = RelationBody(x, f)
      OBVIOUS
  <2> DEFINE g == [y \in Parts(x) |-> f[y]]
  <2>1. g \in [Parts(x) -> V]
      BY <1>1
  <2>2. f[x] = RelationBody(x, g)
      BY <1>3, <2>1
  <2>3. \A y \in Parts(x) : f[y] = g[y]
      OBVIOUS
  <2> HIDE DEF g
  <2> QED BY <2>2, <2>3, RelationBodyParts
<1>5. f = [x \in Paths |-> RelationBody(x, f)]
    BY <1>4
<1>6. Relation = CHOOSE g : g = [x \in Paths |-> RelationBody(x, g)]
    BY DEF Relation, RelationBody
<1>7. Relation = [x \in Paths |-> RelationBody(x, Relation)]
    BY <1>5, <1>6
<1>8. \A x \in Paths : Relation[x] = RelationBody(x, Relation)
    BY <1>7
<1> DEFINE T == { x \in Paths : Relation[x] \in V }
<1>9. ASSUME NEW x \in Paths, Parts(x) \intersect Paths \subseteq T PROVE x \in T
  <2> DEFINE g == [y \in Parts(x) |-> Relation[y]]
  <2>1. g \in [Parts(x) -> V]
      BY <1>1, <1>9
  <2>2. \A y \in Parts(x) : Relation[y] = g[y]
      OBVIOUS
  <2> HIDE DEF g
  <2>3. RelationBody(x, Relation) = RelationBody(x, g)
      BY <2>2, RelationBodyParts
  <2>4. RelationBody(x, g) \in V
      BY <2>1, RelationBodyType
  <2> QED BY <1>8, <2>3, <2>4
<1>10. Paths \subseteq T
  <2> HIDE DEF T
  <2> QED BY <1>9, PathInduction
<1> QED BY <1>8, <1>10

----------------------------------------------------------------------------
\* The matrices invent nothing

\* The matrices relate the nodes that no frame holds to themselves, at most.
Within(R) == (R \intersect (Known \X Known)) \union { <<n, n>> : n \in Nodes \ Known }

LEMMA KnownIdentity ==
    ASSUME FramesHold PROVE \A n \in Known : n \in Nodes /\ <<n, n>> \in Identity
<1> SUFFICES ASSUME NEW n \in Known PROVE n \in Nodes /\ <<n, n>> \in Identity
    OBVIOUS
<1>1. PICK k \in DOMAIN cat_df_map : \E x \in cat_df_map[k] : n \in {x[1], x[2]}
    BY DEF Known, NodesOf, Frames
<1>2. PICK x \in cat_df_map[k] : n \in {x[1], x[2]}
    BY <1>1
<1>3. PICK y \in Leaves(query.path) : cat_df_map[k] \subseteq Edges(y)
    BY FrameFacts DEF AreFrames
<1>4. PICK p \in LeafPredicates(y) : x \in graph[p]
    BY <1>2, <1>3 DEF Edges
<1>5. p \in PredicatesOf(query.path)
    BY <1>3, <1>4 DEF PredicatesOf
<1>6. n \in NodesOf({ graph[q] : q \in PredicatesOf(query.path) })
    BY <1>2, <1>4, <1>5 DEF NodesOf
<1>7. n \in Nodes
    BY FrameFacts DEF Upto
<1> QED BY <1>6, <1>7 DEF Identity

LEMMA WithinTransitive ==
    ASSUME FramesHold, NEW R \in SUBSET Cells, Transitive(R)
    PROVE  Within(R) \in SUBSET Cells /\ Transitive(Within(R))
<1>1. Within(R) \in SUBSET Cells
    BY DEF Within, Cells
<1>2. ASSUME NEW i \in Nodes, NEW j \in Nodes, NEW k \in Nodes,
             <<i, j>> \in Within(R), <<j, k>> \in Within(R)
      PROVE  <<i, k>> \in Within(R)
  <2>1. CASE j \in Known
    <3>1. /\ <<i, j>> \in R /\ i \in Known
          /\ <<j, k>> \in R /\ k \in Known
        BY <1>2, <2>1 DEF Within
    <3> QED BY <3>1 DEF Within, Transitive
  <2>2. CASE j \notin Known
    <3>1. i = j /\ j = k
        BY <1>2, <2>2 DEF Within
    <3> QED BY <1>2, <3>1
  <2> QED BY <2>1, <2>2
<1> QED BY <1>1, <1>2 DEF Transitive

LEMMA WithinMonotone ==
    ASSUME NEW R, NEW S, R \subseteq S PROVE Within(R) \subseteq Within(S)
BY DEF Within

LEMMA DiagonalWithin ==
    ASSUME FramesHold, NEW R, Identity \subseteq R
    PROVE  { <<n, n>> : n \in Upto } \subseteq Within(R)
BY KnownIdentity DEF Within, Upto

LEMMA MatricesWithin ==
    ASSUME FramesHold, NamedApart(query.path)
    PROVE  \A x \in Subpaths[query.path] : Pairs(SparsePath[x]) \subseteq Within(Relation[x])
<1> DEFINE S == Subpaths[query.path]
           T == { x \in S : Pairs(SparsePath[x]) \subseteq Within(Relation[x]) }
<1>0. graph \in [Predicates -> SUBSET Cells]
    BY FrameFacts
<1>1. S \subseteq Paths /\ \A x \in S : Parts(x) \subseteq S
    BY FrameFacts, SubpathsEquation, SubpathsClosed
<1>2. ASSUME NEW x \in S, Parts(x) \intersect S \subseteq T PROVE x \in T
  <2>0. x \in Paths
      BY <1>1
  <2>1. \A y \in Parts(x) : /\ y \in S /\ y \in Paths
                            /\ Pairs(SparsePath[y]) \subseteq Within(Relation[y])
      BY <1>1, <1>2
  <2>2. \A y \in S : SparsePath[y] \in Bounded /\ SparsePath[y] \in Matrix
      BY SparseEquation DEF Bounded
  <2>3. PICK m : m = SparsePath[x]
      OBVIOUS
  <2>4. m = SparseBody(x, SparsePath)
      BY <2>3, SparseEquation
  <2>5. PICK R \in SUBSET Cells : R = Relation[x] /\ R = RelationBody(x, Relation)
      BY <1>0, <2>0, RelationEquation
  <2> SUFFICES Pairs(m) \subseteq Within(R)
      BY <2>3, <2>5
  <2> HIDE DEF S, T
  <2>6. CASE IsLeaf(x)
    <3>1. x \in Leaves(query.path)
        BY <2>6 DEF Leaves, S
    <3>2. Pairs(m) = cat_df_map[Name(x)] \intersect Cells
        BY <2>4, <2>6, SparseBodyIs, SimpleMatrices
    <3>3. cat_df_map[Name(x)] \subseteq Edges(x) \intersect (Known \X Known)
        BY <3>1, LeafFrames, FrameFacts
    <3>4. R = Edges(x)
        BY <2>5, <2>6, RelationBodyIs
    <3> QED BY <3>2, <3>3, <3>4 DEF Within
  <2>7. CASE IsPair(x)
    <3>1. x.left \in Parts(x) /\ x.right \in Parts(x)
        BY <2>0, <2>7, PartsOf
    <3>2. PICK l \in Matrix, r \in Matrix : l = SparsePath[x.left] /\ r = SparsePath[x.right]
        BY <2>1, <2>2, <3>1
    <3>3. PICK L, Q : L = Relation[x.left] /\ Q = Relation[x.right]
        OBVIOUS
    <3>4. Pairs(l) \subseteq Within(L) /\ Pairs(r) \subseteq Within(Q)
        BY <2>1, <3>1, <3>2, <3>3
    <3>5. CASE x.kind = "Sequence"
      <4>1. m = Product(l, r)
          BY <2>4, <3>2, <3>5, SparseBodyIs
      <4>2. R = Join(L, Q)
          BY <2>5, <3>3, <3>5, RelationBodyIs
      <4>3. ASSUME NEW i \in Nodes, NEW j \in Nodes, <<i, j>> \in Pairs(m)
            PROVE  <<i, j>> \in Within(R)
        <5>1. PICK k \in Nodes : <<i, k>> \in Pairs(l) /\ <<k, j>> \in Pairs(r)
            BY <4>1, <4>3, ProductPairs
        <5>2. <<i, k>> \in Within(L) /\ <<k, j>> \in Within(Q)
            BY <3>4, <5>1
        <5>3. CASE k \in Known
          <6>1. /\ <<i, k>> \in L /\ i \in Known
                /\ <<k, j>> \in Q /\ j \in Known
              BY <5>2, <5>3 DEF Within
          <6>2. <<i, j>> \in Join(L, Q)
              BY <6>1 DEF Join, Cells
          <6> QED BY <4>2, <6>1, <6>2 DEF Within
        <5>4. CASE k \notin Known
            BY <5>2, <5>4 DEF Within
        <5> QED BY <5>3, <5>4
      <4> QED BY <4>3 DEF Pairs, Cells
    <3>6. CASE x.kind = "Alternative"
      <4>1. m = Ones(Plus(l, r))
          BY <2>4, <3>2, <3>6, SparseBodyIs
      <4>2. R = L \union Q
          BY <2>5, <3>3, <3>6, RelationBodyIs
      <4>3. Pairs(m) = Pairs(l) \union Pairs(r)
          BY <4>1, PlusPairs, OnesPairs
      <4>4. Within(L) \subseteq Within(R) /\ Within(Q) \subseteq Within(R)
          BY <4>2, WithinMonotone
      <4> QED BY <3>4, <4>3, <4>4
    <3> QED BY <2>7, <3>5, <3>6 DEF IsPair
  <2>8. CASE IsSingle(x)
    <3>1. x.inner \in Parts(x)
        BY <2>0, <2>8, PartsOf
    <3>2. PICK n \in Bounded : n = SparsePath[x.inner]
        BY <2>1, <2>2, <3>1
    <3>3. n \in Matrix
        BY DEF Bounded
    <3>4. PICK Q \in SUBSET Cells : Q = Relation[x.inner]
        BY <1>0, <2>1, <3>1, RelationEquation
    <3>5. Pairs(n) \subseteq Within(Q)
        BY <2>1, <3>1, <3>2, <3>4
    <3>6. PICK s : s = Ones(Plus(n, Eye(max_index)))
        OBVIOUS
    <3>7. s \in Matrix /\ Pairs(s) = Pairs(n) \union { <<i, i>> : i \in Upto }
        BY <3>3, <3>6, EyePairs
    <3>8. Pairs(s) \subseteq Within(Q \union Identity)
      <4>1. Within(Q) \subseteq Within(Q \union Identity)
          BY WithinMonotone
      <4>2. { <<i, i>> : i \in Upto } \subseteq Within(Q \union Identity)
          BY DiagonalWithin
      <4> QED BY <3>5, <3>7, <4>1, <4>2
    <3>9. CASE x.kind = "Reverse"
      <4>1. m = Transpose(n)
          BY <2>4, <3>2, <3>9, SparseBodyIs
      <4>2. R = Flip(Q)
          BY <2>5, <3>4, <3>9, RelationBodyIs
      <4>3. ASSUME NEW i \in Nodes, NEW j \in Nodes, <<i, j>> \in Pairs(m)
            PROVE  <<i, j>> \in Within(R)
        <5>1. <<j, i>> \in Within(Q)
            BY <3>3, <3>5, <4>1, <4>3, SimpleMatrices
        <5>2. <<j, i>> \in Q => <<i, j>> \in R
            BY <4>2 DEF Flip
        <5> QED BY <5>1, <5>2 DEF Within
      <4> QED BY <4>3 DEF Pairs, Cells
    <3>10. CASE x.kind = "ZeroOrOne"
        BY <2>4, <2>5, <3>2, <3>4, <3>6, <3>8, <3>10, SparseBodyIs, RelationBodyIs
    <3>11. CASE x.kind = "ZeroOrMore"
      <4>1. m = ZeroOrMoreLoop[s]
          BY <2>4, <3>2, <3>6, <3>11, SparseBodyIs
      <4>2. R = Closure(Q \union Identity)
          BY <2>5, <3>4, <3>11, RelationBodyIs
      <4>3. Q \union Identity \in SUBSET Cells
          BY <1>0, IdentityInCells
      <4>4. Q \union Identity \subseteq R /\ Transitive(R)
          BY <4>2, <4>3, ClosureLeast
      <4>5. Pairs(s) \subseteq Within(R)
          BY <3>8, <4>4, WithinMonotone
      <4>6. IsLooped(s, m)
          BY <3>2, <3>6, <4>1, StarArgument, ZeroOrMoreLoops
      <4>7. Within(R) \in SUBSET Cells /\ Transitive(Within(R))
          BY <4>4, WithinTransitive
      <4> QED BY <4>5, <4>6, <4>7 DEF IsLooped
    <3>12. CASE x.kind = "OneOrMore"
      <4>1. m = OneOrMoreLoop[n]
          BY <2>4, <3>2, <3>12, SparseBodyIs
      <4>2. R = Closure(Q)
          BY <2>5, <3>4, <3>12, RelationBodyIs
      <4>3. Q \subseteq R /\ Transitive(R)
          BY <4>2, ClosureLeast
      <4>4. Pairs(n) \subseteq Within(R)
          BY <3>5, <4>3, WithinMonotone
      <4>5. IsLooped(n, m)
          BY <3>3, <4>1, OneOrMoreLoops
      <4>6. Within(R) \in SUBSET Cells /\ Transitive(Within(R))
          BY <4>3, WithinTransitive
      <4> QED BY <4>4, <4>5, <4>6 DEF IsLooped
    <3> QED BY <2>8, <3>9, <3>10, <3>11, <3>12 DEF IsSingle
  <2> QED BY <2>0, <2>6, <2>7, <2>8, PartsOf
<1> HIDE DEF S, T
<1>3. S \subseteq T
    BY <1>1, <1>2, PathInduction
<1> QED BY <1>3 DEF S, T

----------------------------------------------------------------------------
\* Between variables the matrices miss nothing

\* Between variables every edge of the path is in a frame.
LEMMA EdgesKnown ==
    ASSUME FramesHold, NamedApart(query.path), BetweenVariables
    PROVE  /\ \A y \in Leaves(query.path) : Edges(y) \subseteq Known \X Known
           /\ Identity \subseteq { <<n, n>> : n \in Known }
<1>1. ASSUME NEW y \in Leaves(query.path) PROVE Edges(y) \subseteq Known \X Known
    BY LeafFrames, FrameFacts
<1>2. PICK N : N = NodesOf({ graph[p] : p \in PredicatesOf(query.path) })
    OBVIOUS
<1>3. ASSUME NEW n \in N PROVE n \in Known
  <2>1. PICK p \in PredicatesOf(query.path) : \E x \in graph[p] : n \in {x[1], x[2]}
      BY <1>2, <1>3 DEF NodesOf
  <2>2. PICK x \in graph[p] : n \in {x[1], x[2]}
      BY <2>1
  <2>3. PICK y \in Leaves(query.path) : p \in LeafPredicates(y)
      BY DEF PredicatesOf
  <2>4. x \in Edges(y)
      BY <2>2, <2>3 DEF Edges
  <2>5. x \in Known \X Known
      BY <1>1, <2>4
  <2> QED BY <2>2, <2>5
<1>4. Identity = { <<n, n>> : n \in N }
    BY <1>2, Zenon DEF Identity
<1> QED BY <1>1, <1>3, <1>4

\* The path relates only nodes that a frame holds.
LEMMA RelationKnown ==
    ASSUME FramesHold, NamedApart(query.path), BetweenVariables
    PROVE  \A x \in Subpaths[query.path] : Relation[x] \subseteq Known \X Known
<1> DEFINE S == Subpaths[query.path]
           T == { x \in S : Relation[x] \subseteq Known \X Known }
<1>0. graph \in [Predicates -> SUBSET Cells]
    BY FrameFacts
<1>1. S \subseteq Paths /\ \A x \in S : Parts(x) \subseteq S
    BY FrameFacts, SubpathsEquation, SubpathsClosed
<1>2. Known \X Known \in SUBSET Cells /\ Transitive(Known \X Known)
    BY FrameFacts DEF Upto, Cells, Transitive
<1>3. ASSUME NEW x \in S, Parts(x) \intersect S \subseteq T PROVE x \in T
  <2>0. x \in Paths
      BY <1>1
  <2>1. \A y \in Parts(x) : y \in Paths /\ Relation[y] \subseteq Known \X Known
      BY <1>1, <1>3
  <2>2. PICK R : R = Relation[x] /\ R = RelationBody(x, Relation)
      BY <1>0, <2>0, RelationEquation
  <2> SUFFICES R \subseteq Known \X Known
      BY <2>2
  <2>3. CASE IsLeaf(x)
    <3>1. x \in Leaves(query.path)
        BY <2>3 DEF Leaves
    <3> QED BY <2>2, <2>3, <3>1, EdgesKnown, RelationBodyIs
  <2> HIDE DEF S, T
  <2>4. CASE IsPair(x)
    <3>1. PICK L, Q : L = Relation[x.left] /\ Q = Relation[x.right]
        OBVIOUS
    <3>2. L \subseteq Known \X Known /\ Q \subseteq Known \X Known
        BY <2>0, <2>1, <2>4, <3>1, PartsOf
    <3>3. Join(L, Q) \subseteq Known \X Known
        BY <3>2 DEF Join, Cells
    <3> QED BY <2>2, <2>4, <3>1, <3>2, <3>3, RelationBodyIs DEF IsPair
  <2>5. CASE IsSingle(x)
    <3>1. PICK Q \in SUBSET Cells : Q = Relation[x.inner] /\ Q \subseteq Known \X Known
        BY <1>0, <2>0, <2>1, <2>5, PartsOf, RelationEquation
    <3>2. Flip(Q) \subseteq Known \X Known
        BY <3>1 DEF Flip
    <3>3. Q \union Identity \subseteq Known \X Known /\ Q \union Identity \in SUBSET Cells
      <4>1. Identity \subseteq Known \X Known
          BY EdgesKnown
      <4> QED BY <1>2, <3>1, <4>1
    <3>4. Closure(Q \union Identity) \subseteq Known \X Known /\ Closure(Q) \subseteq Known \X Known
        BY <1>2, <3>1, <3>3, ClosureLeast
    <3> QED BY <2>2, <2>5, <3>1, <3>2, <3>3, <3>4, RelationBodyIs DEF IsSingle
  <2> QED BY <2>0, <2>3, <2>4, <2>5, PartsOf
<1> HIDE DEF S, T
<1>4. S \subseteq T
    BY <1>1, <1>3, PathInduction
<1> QED BY <1>4 DEF S, T

\* The loops stop at a fixed point, as they are given zeros and ones.
LEMMA MatricesHold ==
    ASSUME FramesHold, NamedApart(query.path), BetweenVariables, ~PlusOfCounts(query.path)
    PROVE  \A x \in Subpaths[query.path] : /\ Relation[x] \subseteq Pairs(SparsePath[x])
                                           /\ ~Counts[x] => ZeroOne(SparsePath[x])
<1> DEFINE S == Subpaths[query.path]
           Holds(x) == /\ Relation[x] \subseteq Pairs(SparsePath[x])
                       /\ ~Counts[x] => ZeroOne(SparsePath[x])
           T == { x \in S : Holds(x) }
<1>0. graph \in [Predicates -> SUBSET Cells]
    BY FrameFacts
<1>1. S \subseteq Paths /\ \A x \in S : Parts(x) \subseteq S
    BY FrameFacts, SubpathsEquation, SubpathsClosed
<1>2. ASSUME NEW x \in S, Parts(x) \intersect S \subseteq T PROVE x \in T
  <2>0. x \in Paths
      BY <1>1
  <2>1. \A y \in Parts(x) : y \in S /\ y \in Paths /\ Holds(y)
      BY <1>1, <1>2
  <2>2. \A y \in S : SparsePath[y] \in Bounded /\ SparsePath[y] \in Matrix
      BY SparseEquation DEF Bounded
  <2>3. PICK m \in Matrix : m = SparsePath[x]
      BY <2>2
  <2>4. m = SparseBody(x, SparsePath)
      BY <2>3, SparseEquation
  <2>5. PICK R \in SUBSET Cells : R = Relation[x] /\ R = RelationBody(x, Relation)
      BY <1>0, <2>0, RelationEquation
  <2>6. Counts[x] <=> x.kind = "Sequence" \/ (x.kind = "Reverse" /\ Counts[x.inner])
      BY <2>0, Counting
  <2>7. x.kind = "OneOrMore" => ~Counts[x.inner]
      BY DEF PlusOfCounts
  <2> SUFFICES R \subseteq Pairs(m) /\ (~Counts[x] => ZeroOne(m))
      BY <2>3, <2>5
  <2>8. CASE IsLeaf(x)
    <3>1. x \in Leaves(query.path)
        BY <2>8 DEF Leaves
    <3>2. m = MatrixOf(cat_df_map[Name(x)])
        BY <2>4, <2>8, SparseBodyIs
    <3>3. cat_df_map[Name(x)] = Edges(x)
        BY <3>1, LeafFrames
    <3>4. R = Edges(x)
        BY <2>5, <2>8, RelationBodyIs
    <3> QED BY <3>2, <3>3, <3>4, SimpleMatrices
  <2> HIDE DEF S, T
  <2>9. CASE IsPair(x)
    <3>1. x.left \in Parts(x) /\ x.right \in Parts(x)
        BY <2>0, <2>9, PartsOf
    <3>2. PICK l \in Matrix, r \in Matrix : l = SparsePath[x.left] /\ r = SparsePath[x.right]
        BY <2>1, <2>2, <3>1
    <3>3. PICK L, Q : L = Relation[x.left] /\ Q = Relation[x.right]
        OBVIOUS
    <3>4. L \subseteq Pairs(l) /\ Q \subseteq Pairs(r)
        BY <2>1, <3>1, <3>2, <3>3
    <3>5. CASE x.kind = "Sequence"
      <4>1. m = Product(l, r)
          BY <2>4, <3>2, <3>5, SparseBodyIs
      <4>2. R = Join(L, Q)
          BY <2>5, <3>3, <3>5, RelationBodyIs
      <4>3. ASSUME NEW i \in Nodes, NEW j \in Nodes, <<i, j>> \in R
            PROVE  <<i, j>> \in Pairs(m)
        <5>1. PICK k \in Nodes : <<i, k>> \in L /\ <<k, j>> \in Q
            BY <4>2, <4>3 DEF Join
        <5> QED BY <3>4, <4>1, <5>1, ProductPairs
      <4>4. R \subseteq Pairs(m)
          BY <4>3 DEF Cells
      <4> QED BY <2>6, <3>5, <4>4
    <3>6. CASE x.kind = "Alternative"
      <4>1. m = Ones(Plus(l, r))
          BY <2>4, <3>2, <3>6, SparseBodyIs
      <4>2. R = L \union Q
          BY <2>5, <3>3, <3>6, RelationBodyIs
      <4>3. Pairs(m) = Pairs(l) \union Pairs(r) /\ ZeroOne(m)
          BY <4>1, PlusPairs, OnesPairs
      <4> QED BY <3>4, <4>2, <4>3
    <3> QED BY <2>9, <3>5, <3>6 DEF IsPair
  <2>10. CASE IsSingle(x)
    <3>1. x.inner \in Parts(x)
        BY <2>0, <2>10, PartsOf
    <3>2. PICK n \in Bounded : n = SparsePath[x.inner]
        BY <2>1, <2>2, <3>1
    <3>3. n \in Matrix
        BY DEF Bounded
    <3>4. PICK Q \in SUBSET Cells : Q = Relation[x.inner]
        BY <1>0, <2>1, <3>1, RelationEquation
    <3>5. Q \subseteq Pairs(n) /\ (~Counts[x.inner] => ZeroOne(n))
        BY <2>1, <3>1, <3>2, <3>4
    <3>6. PICK s : s = Ones(Plus(n, Eye(max_index)))
        OBVIOUS
    <3>7. /\ s \in Matrix /\ ZeroOne(s)
          /\ Pairs(s) = Pairs(n) \union { <<i, i>> : i \in Upto }
        BY <3>3, <3>6, EyePairs
    <3>8. Identity \subseteq { <<i, i>> : i \in Upto }
        BY EdgesKnown, FrameFacts
    <3>9. Q \union Identity \subseteq Pairs(s)
        BY <3>5, <3>7, <3>8
    <3>10. CASE x.kind = "Reverse"
      <4>1. m = Transpose(n)
          BY <2>4, <3>2, <3>10, SparseBodyIs
      <4>2. R = Flip(Q)
          BY <2>5, <3>4, <3>10, RelationBodyIs
      <4>3. ASSUME NEW i \in Nodes, NEW j \in Nodes, <<i, j>> \in R
            PROVE  <<i, j>> \in Pairs(m)
        <5>1. <<j, i>> \in Q
            BY <4>2, <4>3 DEF Flip, Cells
        <5> QED BY <3>3, <3>5, <4>1, <5>1, SimpleMatrices
      <4>4. R \subseteq Pairs(m)
          BY <4>3 DEF Cells
      <4>5. ~Counts[x] => ZeroOne(m)
          BY <2>6, <3>3, <3>5, <3>10, <4>1, SimpleMatrices
      <4> QED BY <4>4, <4>5
    <3>11. CASE x.kind = "ZeroOrOne"
        BY <2>4, <2>5, <3>2, <3>4, <3>6, <3>7, <3>9, <3>11, SparseBodyIs, RelationBodyIs
    <3>12. CASE x.kind = "ZeroOrMore"
      <4>1. m = ZeroOrMoreLoop[s]
          BY <2>4, <3>2, <3>6, <3>12, SparseBodyIs
      <4>2. R = Closure(Q \union Identity)
          BY <2>5, <3>4, <3>12, RelationBodyIs
      <4>3. Q \union Identity \in SUBSET Cells
          BY <1>0, IdentityInCells
      <4>4. IsLooped(s, m)
          BY <3>2, <3>6, <4>1, StarArgument, ZeroOrMoreLoops
      <4>5. ZeroOne(m) /\ Transitive(Pairs(m)) /\ Q \union Identity \subseteq Pairs(m)
          BY <3>7, <3>9, <4>4 DEF IsLooped
      <4>6. Pairs(m) \in SUBSET Cells
          BY DEF Pairs
      <4> QED BY <4>2, <4>3, <4>5, <4>6, ClosureLeast
    <3>13. CASE x.kind = "OneOrMore"
      <4>1. m = OneOrMoreLoop[n]
          BY <2>4, <3>2, <3>13, SparseBodyIs
      <4>2. R = Closure(Q)
          BY <2>5, <3>4, <3>13, RelationBodyIs
      <4>3. IsLooped(n, m)
          BY <3>3, <4>1, OneOrMoreLoops
      <4>4. ZeroOne(m) /\ Transitive(Pairs(m)) /\ Q \subseteq Pairs(m)
          BY <2>7, <3>5, <3>13, <4>3 DEF IsLooped
      <4>5. Pairs(m) \in SUBSET Cells
          BY DEF Pairs
      <4> QED BY <4>2, <4>4, <4>5, ClosureLeast
    <3> QED BY <2>10, <3>10, <3>11, <3>12, <3>13 DEF IsSingle
  <2> QED BY <2>0, <2>8, <2>9, <2>10, PartsOf
<1> HIDE DEF S, T
<1>3. S \subseteq T
    BY <1>1, <1>2, PathInduction
<1> QED BY <1>3 DEF S, T

----------------------------------------------------------------------------
\* The data frames

\* What df_path makes of the frames of the parts.
DfBody(x, g) ==
    CASE IsLeaf(x)              -> DF(cat_df_map[Name(x)], FALSE)
      [] x.kind = "Reverse"     -> Flipped(g[x.inner])
      [] x.kind = "Sequence"    -> JoinTwice(g[x.left])
      [] x.kind = "Alternative" -> g[x.left]
      [] x.kind \in {"ZeroOrMore", "OneOrMore"} -> Panic
      [] OTHER                  -> WithSmallerNodes(g[x.inner])

DataFrames == [panics : BOOLEAN, rows : SUBSET (Nat \X Nat), on : BOOLEAN, swapped : BOOLEAN]

LEMMA DfBodyIs ==
    ASSUME NEW x, NEW g
    PROVE  /\ IsLeaf(x) => DfBody(x, g) = DF(cat_df_map[Name(x)], FALSE)
           /\ x.kind = "Reverse" => DfBody(x, g) = Flipped(g[x.inner])
           /\ x.kind = "Sequence" => DfBody(x, g) = JoinTwice(g[x.left])
           /\ x.kind = "Alternative" => DfBody(x, g) = g[x.left]
           /\ x.kind = "ZeroOrOne" => DfBody(x, g) = WithSmallerNodes(g[x.inner])
           /\ x.kind \in {"ZeroOrMore", "OneOrMore"} => DfBody(x, g) = Panic
BY DEF DfBody, IsLeaf

LEMMA DfBodyType ==
    ASSUME FramesHold, NEW x \in Subpaths[query.path],
           NEW g \in [Parts(x) -> DataFrames]
    PROVE  DfBody(x, g) \in DataFrames
<1>0. x \in Paths
    BY FrameFacts, SubpathsEquation
<1>1. Panic \in DataFrames /\ \A rows \in SUBSET (Nat \X Nat), on \in BOOLEAN :
                                  DF(rows, on) \in DataFrames
    BY DEF Panic, DF, DataFrames
<1>2. CASE IsLeaf(x)
  <2>1. Name(x) \in DOMAIN cat_df_map
      BY <1>2, FrameFacts DEF AreFrames, Leaves
  <2>2. cat_df_map[Name(x)] \subseteq Nat \X Nat
      BY <2>1, FrameFacts, NodesAssumption DEF Upto
  <2> QED BY <1>1, <1>2, <2>2, DfBodyIs
<1>3. CASE IsPair(x)
  <2>1. PICK l \in DataFrames : l = g[x.left]
      BY <1>0, <1>3, PartsOf
  <2>2. Join(l.rows, l.rows) \in SUBSET (Nat \X Nat)
      BY NodesAssumption DEF Join, Cells
  <2>3. JoinTwice(l) \in DataFrames
      BY <1>1, <2>2 DEF JoinTwice
  <2> QED BY <1>3, <2>1, <2>3, DfBodyIs DEF IsPair
<1>4. CASE IsSingle(x)
  <2>1. PICK d \in DataFrames : d = g[x.inner]
      BY <1>0, <1>4, PartsOf
  <2>2. Flip(d.rows) \in SUBSET (Nat \X Nat)
      BY DEF Flip, DataFrames
  <2>3. Flipped(d) \in DataFrames
      BY <2>2 DEF DataFrames, Flipped
  <2>4. d.rows \union { <<n, n>> : n \in 0 .. max_index - 1 } \in SUBSET (Nat \X Nat)
      BY FrameFacts DEF DataFrames
  <2>5. WithSmallerNodes(d) \in DataFrames
      BY <1>1, <2>4 DEF WithSmallerNodes
  <2> QED BY <1>1, <1>4, <2>1, <2>3, <2>5, DfBodyIs DEF IsSingle
<1> QED BY <1>0, <1>2, <1>3, <1>4, PartsOf

LEMMA DfBodyParts ==
    ASSUME NEW x \in Paths, NEW f, NEW g, \A y \in Parts(x) : f[y] = g[y]
    PROVE  DfBody(x, f) = DfBody(x, g)
<1>1. IsPair(x) => f[x.left] = g[x.left] /\ f[x.right] = g[x.right]
    BY PartsOf
<1>2. IsSingle(x) => f[x.inner] = g[x.inner]
    BY PartsOf
<1>3. IsLeaf(x) => DfBody(x, f) = DfBody(x, g)
  <2>1. \A h : IsLeaf(x) => DfBody(x, h) = DF(cat_df_map[Name(x)], FALSE)
      BY DfBodyIs
  <2> QED BY <2>1
<1>4. ASSUME NEW kind, x.kind = kind, kind \in {"Sequence", "Alternative"}
      PROVE  DfBody(x, f) = DfBody(x, g)
  <2>1. f[x.left] = g[x.left] /\ f[x.right] = g[x.right]
      BY <1>1, <1>4 DEF IsPair
  <2>2. CASE x.kind = "Sequence"
    <3>1. DfBody(x, f) = JoinTwice(f[x.left])
        BY <2>2, DfBodyIs
    <3>2. DfBody(x, g) = JoinTwice(g[x.left])
        BY <2>2, DfBodyIs
    <3> QED BY <2>1, <3>1, <3>2, Zenon
  <2>3. CASE x.kind = "Alternative"
    <3>1. DfBody(x, f) = f[x.left]
        BY <2>3, DfBodyIs
    <3>2. DfBody(x, g) = g[x.left]
        BY <2>3, DfBodyIs
    <3> QED BY <2>1, <3>1, <3>2, Zenon
  <2> QED BY <1>4, <2>2, <2>3
<1>5. ASSUME NEW kind, x.kind = kind,
             kind \in {"Reverse", "ZeroOrMore", "OneOrMore", "ZeroOrOne"}
      PROVE  DfBody(x, f) = DfBody(x, g)
  <2>1. f[x.inner] = g[x.inner]
      BY <1>2, <1>5 DEF IsSingle
  <2>2. CASE x.kind = "Reverse"
    <3>1. DfBody(x, f) = Flipped(f[x.inner])
        BY <2>2, DfBodyIs
    <3>2. DfBody(x, g) = Flipped(g[x.inner])
        BY <2>2, DfBodyIs
    <3> QED BY <2>1, <3>1, <3>2, Zenon
  <2>3. CASE x.kind = "ZeroOrOne"
    <3>1. DfBody(x, f) = WithSmallerNodes(f[x.inner])
        BY <2>3, DfBodyIs
    <3>2. DfBody(x, g) = WithSmallerNodes(g[x.inner])
        BY <2>3, DfBodyIs
    <3> QED BY <2>1, <3>1, <3>2, Zenon
  <2>4. CASE x.kind = "ZeroOrMore"
    <3>1. DfBody(x, f) = Panic
        BY <2>4, DfBodyIs
    <3>2. DfBody(x, g) = Panic
        BY <2>4, DfBodyIs
    <3> QED BY <2>1, <3>1, <3>2, Zenon
  <2>5. CASE x.kind = "OneOrMore"
    <3>1. DfBody(x, f) = Panic
        BY <2>5, DfBodyIs
    <3>2. DfBody(x, g) = Panic
        BY <2>5, DfBodyIs
    <3> QED BY <2>1, <3>1, <3>2, Zenon
  <2> QED BY <1>5, <2>2, <2>3, <2>4, <2>5
<1> QED BY <1>3, <1>4, <1>5, PartsOf DEF IsPair, IsSingle

LEMMA DfEquation ==
    ASSUME FramesHold
    PROVE  \A x \in Subpaths[query.path] :
              DfPath[x] \in DataFrames /\ DfPath[x] = DfBody(x, DfPath)
<1> DEFINE S == Subpaths[query.path]
           F == [x \in S |-> [g \in [Parts(x) -> DataFrames] |-> DfBody(x, g)]]
<1>1. S \subseteq Paths /\ \A x \in S : Parts(x) \subseteq S
    BY FrameFacts, SubpathsEquation, SubpathsClosed
<1>2. \A x \in S : F[x] \in [[Parts(x) -> DataFrames] -> DataFrames]
    BY DfBodyType
<1>3. PICK f \in [S -> DataFrames] : \A x \in S : f[x] = F[x][[y \in Parts(x) |-> f[y]]]
  <2> HIDE DEF F, S
  <2>1. ArePathBodies(S, DataFrames, F)
      BY <1>1, <1>2 DEF ArePathBodies
  <2>2. PICK f : IsPathFunction(f, S, DataFrames, F)
      BY <2>1, PathRecursion
  <2> QED BY <2>2 DEF IsPathFunction
<1>4. \A x \in S : f[x] = DfBody(x, f)
  <2> SUFFICES ASSUME NEW x \in S PROVE f[x] = DfBody(x, f)
      OBVIOUS
  <2> DEFINE g == [y \in Parts(x) |-> f[y]]
  <2>1. g \in [Parts(x) -> DataFrames]
      BY <1>1
  <2>2. f[x] = DfBody(x, g)
      BY <1>3, <2>1
  <2>3. \A y \in Parts(x) : f[y] = g[y]
      OBVIOUS
  <2> HIDE DEF g, S
  <2> QED BY <1>1, <2>2, <2>3, DfBodyParts
<1>5. f = [x \in S |-> DfBody(x, f)]
    BY <1>4
<1>6. DfPath = CHOOSE g : g = [x \in S |-> DfBody(x, g)]
    BY DEF DfPath, DfBody, QueryPaths
<1>7. DfPath = [x \in S |-> DfBody(x, DfPath)]
    BY <1>5, <1>6
<1>8. \A x \in S : DfPath[x] = DfBody(x, DfPath)
    BY <1>7
<1> DEFINE T == { x \in S : DfPath[x] \in DataFrames }
<1>9. ASSUME NEW x \in S, Parts(x) \intersect S \subseteq T PROVE x \in T
  <2> DEFINE g == [y \in Parts(x) |-> DfPath[y]]
  <2>1. g \in [Parts(x) -> DataFrames]
      BY <1>1, <1>9
  <2>2. \A y \in Parts(x) : DfPath[y] = g[y]
      OBVIOUS
  <2> HIDE DEF g
  <2>3. DfBody(x, DfPath) = DfBody(x, g)
      BY <1>1, <2>2, DfBodyParts
  <2>4. DfBody(x, g) \in DataFrames
      BY <2>1, DfBodyType
  <2> QED BY <1>8, <2>3, <2>4
<1>10. S \subseteq T
  <2> HIDE DEF S, T
  <2> QED BY <1>1, <1>9, PathInduction
<1> QED BY <1>8, <1>10

\* A path without sequence and alternative has one leaf.
LEMMA OneLeaf ==
    \A x \in Paths : ~JoinsOrUnites(x) => \E y : Leaves(x) = {y}
<1> DEFINE T == { x \in Paths : ~JoinsOrUnites(x) => \E y : Leaves(x) = {y} }
<1>1. ASSUME NEW x \in Paths, Parts(x) \intersect Paths \subseteq T, ~JoinsOrUnites(x)
      PROVE  \E y : Leaves(x) = {y}
  <2>1. x \in Subpaths[x] /\ \A y \in Parts(x) : Subpaths[y] \subseteq Subpaths[x]
      BY SubpathsEquation
  <2>2. ~IsPair(x) /\ \A y \in Parts(x) : ~JoinsOrUnites(y)
      BY <1>1, <2>1 DEF JoinsOrUnites
  <2>3. \A y \in Parts(x) : \E z : Leaves(y) = {z}
      BY <1>1, <2>2, PathsAssumption
  <2>4. CASE IsLeaf(x)
      BY <2>4, LeavesOf
  <2>5. CASE IsSingle(x)
    <3>1. x.inner \in Parts(x)
        BY <2>5, PartsOf
    <3>2. PICK z : Leaves(x.inner) = {z}
        BY <2>3, <3>1
    <3> QED BY <2>5, <3>2, LeavesOf
  <2> QED BY <2>2, <2>4, <2>5, PartsOf
<1>2. \A x \in Paths : Parts(x) \intersect Paths \subseteq T => x \in T
    BY <1>1
<1> HIDE DEF T
<1>3. Paths \subseteq T
    BY <1>2, PathInduction
<1> QED BY <1>3 DEF T

\* What the rows of a frame leave out and add.
MissesTheLast(rows, R) ==
    /\ R \ rows \subseteq {<<max_index, max_index>>}
    /\ \A z \in rows \ R : z[1] = z[2] /\ z[1] < max_index

LEMMA FramesMiss ==
    ASSUME FramesHold, BetweenVariables, ~JoinsOrUnites(query.path)
    PROVE  \A x \in Subpaths[query.path] :
              ~DfPath[x].panics => MissesTheLast(DfPath[x].rows, Relation[x])
<1> DEFINE S == Subpaths[query.path]
           T == { x \in S : ~DfPath[x].panics => MissesTheLast(DfPath[x].rows, Relation[x]) }
<1>0. graph \in [Predicates -> SUBSET Cells]
    BY FrameFacts
<1>1. S \subseteq Paths /\ \A x \in S : Parts(x) \subseteq S
    BY FrameFacts, SubpathsEquation, SubpathsClosed
<1>2. NamedApart(query.path)
    BY FrameFacts, OneLeaf DEF NamedApart
<1>3. ASSUME NEW x \in S, Parts(x) \intersect S \subseteq T PROVE x \in T
  <2>0. x \in Paths
      BY <1>1
  <2>1. \A y \in Parts(x) : /\ y \in S /\ y \in Paths
                            /\ ~DfPath[y].panics => MissesTheLast(DfPath[y].rows, Relation[y])
      BY <1>1, <1>3
  <2>2. PICK d \in DataFrames : d = DfPath[x] /\ d = DfBody(x, DfPath)
      BY DfEquation
  <2>3. PICK R \in SUBSET Cells : R = Relation[x] /\ R = RelationBody(x, Relation)
      BY <1>0, <2>0, RelationEquation
  <2> SUFFICES ASSUME ~d.panics PROVE MissesTheLast(d.rows, R)
      BY <2>2, <2>3
  <2>4. CASE IsLeaf(x)
    <3>1. x \in Leaves(query.path)
        BY <2>4 DEF Leaves
    <3>2. d.rows = Edges(x)
        BY <1>2, <2>2, <2>4, <3>1, LeafFrames, DfBodyIs DEF DF
    <3>3. R = Edges(x)
        BY <2>3, <2>4, RelationBodyIs
    <3> QED BY <3>2, <3>3 DEF MissesTheLast
  <2>5. ~IsPair(x)
      BY DEF JoinsOrUnites
  <2>6. CASE IsSingle(x)
    <3>1. x.inner \in Parts(x)
        BY <2>0, <2>6, PartsOf
    <3> HIDE DEF S, T
    <3>2. PICK e \in DataFrames : e = DfPath[x.inner]
        BY <2>1, <3>1, DfEquation DEF S
    <3>3. PICK Q \in SUBSET Cells : Q = Relation[x.inner]
        BY <1>0, <2>1, <3>1, RelationEquation
    <3>4. ~e.panics => MissesTheLast(e.rows, Q)
        BY <2>1, <3>1, <3>2, <3>3
    <3>5. CASE x.kind = "Reverse"
      <4>1. d = [e EXCEPT !.rows = Flip(@), !.swapped = ~@]
          BY <2>2, <3>2, <3>5, DfBodyIs DEF Flipped
      <4>2. d.rows = Flip(e.rows) /\ d.panics = e.panics
          BY <4>1 DEF DataFrames
      <4>3. R = Flip(Q)
          BY <2>3, <3>3, <3>5, RelationBodyIs
      <4>4. MissesTheLast(e.rows, Q)
          BY <3>4, <4>2
      <4>5. e.rows \in SUBSET (Nat \X Nat)
          BY DEF DataFrames
      <4>6. R \ d.rows \subseteq {<<max_index, max_index>>}
        <5> SUFFICES ASSUME NEW z \in Q, <<z[2], z[1]>> \notin Flip(e.rows)
                     PROVE  <<z[2], z[1]>> = <<max_index, max_index>>
            BY <4>2, <4>3 DEF Flip
        <5>1. z \notin e.rows
            BY DEF Flip
        <5>2. z = <<max_index, max_index>>
            BY <4>4, <5>1 DEF MissesTheLast
        <5> QED BY <5>2
      <4>7. \A z \in d.rows \ R : z[1] = z[2] /\ z[1] < max_index
        <5> SUFFICES ASSUME NEW z \in e.rows, <<z[2], z[1]>> \notin Flip(Q)
                     PROVE  z[2] = z[1] /\ z[2] < max_index
            BY <4>2, <4>3 DEF Flip
        <5>1. z \notin Q
            BY DEF Flip
        <5>2. z[1] = z[2] /\ z[1] < max_index
            BY <4>4, <5>1 DEF MissesTheLast
        <5> QED BY <5>2
      <4> QED BY <4>6, <4>7 DEF MissesTheLast
    <3>6. CASE x.kind = "ZeroOrOne"
      <4>1. d = IF e.panics \/ e.on \/ e.swapped THEN Panic
                ELSE DF(e.rows \union { <<n, n>> : n \in 0 .. max_index - 1 }, FALSE)
          BY <2>2, <3>2, <3>6, DfBodyIs DEF WithSmallerNodes
      <4>2. ~e.panics /\ d.rows = e.rows \union { <<n, n>> : n \in 0 .. max_index - 1 }
          BY <4>1 DEF Panic, DF
      <4>3. R = Q \union Identity
          BY <2>3, <3>3, <3>6, RelationBodyIs
      <4>4. MissesTheLast(e.rows, Q)
          BY <3>4, <4>2
      <4>5. Identity \ { <<n, n>> : n \in 0 .. max_index - 1 } \subseteq {<<max_index, max_index>>}
        <5> SUFFICES ASSUME NEW n \in Known, n \notin 0 .. max_index - 1 PROVE n = max_index
            BY <1>2, EdgesKnown
        <5>1. n \in Nat /\ n <= max_index /\ max_index \in Nat
            BY FrameFacts, NodesAssumption DEF Upto
        <5> QED BY <5>1
      <4>6. \A n \in 0 .. max_index - 1 : n < max_index
          BY FrameFacts
      <4> QED BY <4>2, <4>3, <4>4, <4>5, <4>6 DEF MissesTheLast
    <3>7. CASE x.kind \in {"ZeroOrMore", "OneOrMore"}
      <4>1. d = Panic
          BY <2>2, <3>7, DfBodyIs, Zenon
      <4> QED BY <4>1 DEF Panic
    <3> QED BY <2>6, <3>5, <3>6, <3>7 DEF IsSingle
  <2> QED BY <2>0, <2>4, <2>5, <2>6, PartsOf
<1> HIDE DEF S, T
<1>4. S \subseteq T
    BY <1>1, <1>3, PathInduction
<1> QED BY <1>4 DEF S, T

----------------------------------------------------------------------------
\* lazy_path

\* What is known of the answer when there is one.
SparseAnswer == answer = Pairs(SparsePath[query.path]) \intersect (Known \X Known)
FrameAnswer  == ~DfPath[query.path].panics /\ answer = DfPath[query.path].rows

\* The frames are those of the path from its evaluation on, and the answer is
\* what the evaluation makes of them.
PathInv ==
    /\ graph \in Graphs
    /\ query \in Queries
    /\ stage # "frames" => FramesHold
    /\ Answered(TRUE) => SparseAnswer
    /\ Answered(FALSE) => FrameAnswer

LEMMA PathInvariant == Spec => []PathInv
<1>1. Init => PathInv
    BY DEF Init, PathInv, Answered
<1>2. PathInv /\ [Next]_vars => PathInv'
  <2> SUFFICES ASSUME PathInv, [Next]_vars PROVE PathInv'
      OBVIOUS
  <2>1. CASE CreateUniqueCatDfs
    <3>1. UniqueCatDfs' = UniqueCatDfs
      <4>1. graph' = graph
          BY <2>1 DEF CreateUniqueCatDfs
      <4> QED BY ONLY <4>1 DEF UniqueCatDfs, SingleNN
    <3>2. FramesHold'
        BY <2>1, <3>1 DEF CreateUniqueCatDfs, PathInv, FramesHold
    <3> QED BY <2>1, <3>2 DEF CreateUniqueCatDfs, PathInv, Answered
  <2>2. CASE UNCHANGED <<graph, query, cat_df_map>> /\ stage # "frames"
    <3>1. UniqueCatDfs' = UniqueCatDfs
      <4>1. graph' = graph
          BY <2>2
      <4> QED BY ONLY <4>1 DEF UniqueCatDfs, SingleNN
    <3>2. FramesHold'
        BY <2>2, <3>1 DEF PathInv, FramesHold
    <3>3. SparsePath' = SparsePath /\ DfPath' = DfPath /\ Known' = Known
        BY <2>2 DEF SparsePath, DfPath, QueryPaths, WithSmallerNodes, Known, max_index, Frames
    <3>4. CASE EvaluateSparse
      <4>1. SparseAnswer'
          BY <3>3, <3>4 DEF EvaluateSparse, SparseAnswer, Known
      <4> QED BY <3>2, <3>4, <4>1 DEF EvaluateSparse, PathInv, Answered, FramesHold
    <3>5. CASE EvaluateFrames
      <4>1. Answered(FALSE)' => FrameAnswer'
          BY <3>3, <3>5 DEF EvaluateFrames, FrameAnswer, Answered
      <4> QED BY <3>2, <3>5, <4>1 DEF EvaluateFrames, PathInv, Answered, FramesHold
    <3>6. CASE UNCHANGED vars
      <4>1. SparseAnswer' = SparseAnswer /\ FrameAnswer' = FrameAnswer
          BY <3>3, <3>6 DEF SparseAnswer, FrameAnswer, vars
      <4> QED BY <3>2, <3>6, <4>1 DEF vars, PathInv, Answered, FramesHold
    <3> QED BY <2>2, <3>4, <3>5, <3>6 DEF Next, CreateUniqueCatDfs
  <2>3. CASE EvaluateSparse
      BY <2>2, <2>3 DEF EvaluateSparse
  <2>4. CASE EvaluateFrames
      BY <2>2, <2>4 DEF EvaluateFrames
  <2>5. CASE UNCHANGED vars
    <3>1. CASE stage = "frames"
        BY <2>5, <3>1 DEF vars, PathInv, Answered
    <3>2. CASE stage # "frames"
        BY <2>2, <2>5, <3>2 DEF vars
    <3> QED BY <3>1, <3>2
  <2> QED BY <2>1, <2>3, <2>4, <2>5 DEF Next
<1> QED BY <1>1, <1>2, PTL DEF Spec

\* Between two variables, a path that is evaluated with matrices gets the relation
\* that SPARQL gives it: lazy_path, for every finite graph and every path, if no
\* "+" is of a sequence and no predicate is both named and negated.
THEOREM MatricesAreExact == Spec => []SparseIsExact
<1>1. PathInv => SparseIsExact
  <2> SUFFICES ASSUME PathInv, Answered(TRUE), BetweenVariables,
                      ~PlusOfCounts(query.path), NamedApart(query.path)
               PROVE  answer = Relation[query.path]
      BY DEF SparseIsExact
  <2>1. FramesHold /\ SparseAnswer
      BY DEF PathInv, Answered
  <2>2. query.path \in Subpaths[query.path]
      BY <2>1, FrameFacts, SubpathsClosed
  <2>3. /\ Pairs(SparsePath[query.path]) \subseteq Within(Relation[query.path])
        /\ Relation[query.path] \subseteq Pairs(SparsePath[query.path])
        /\ Relation[query.path] \subseteq Known \X Known
      BY <2>1, <2>2, MatricesWithin, MatricesHold, RelationKnown
  <2> QED BY <2>1, <2>3 DEF SparseAnswer, Within
<1> QED BY <1>1, PathInvariant, PTL

\* The matrices give no pair that the path does not relate, whatever its ends are
\* and wherever a loop stops.
THEOREM MatricesInventNothing == Spec => []SparseInventsNothing
<1>1. PathInv => SparseInventsNothing
  <2> SUFFICES ASSUME PathInv, Answered(TRUE), NamedApart(query.path)
               PROVE  answer \subseteq Relation[query.path]
      BY DEF SparseInventsNothing
  <2>1. FramesHold /\ SparseAnswer
      BY DEF PathInv, Answered
  <2>2. query.path \in Subpaths[query.path]
      BY <2>1, FrameFacts, SubpathsClosed
  <2>3. Pairs(SparsePath[query.path]) \subseteq Within(Relation[query.path])
      BY <2>1, <2>2, MatricesWithin
  <2> QED BY <2>1, <2>3 DEF SparseAnswer, Within
<1> QED BY <1>1, PathInvariant, PTL

\* The data frames of df_path leave out the greatest node of "?" at most, and add
\* nothing but smaller nodes related to themselves, if the path has neither
\* sequence nor alternative.
THEOREM FramesMissTheLast == Spec => []FramesMissOnlyTheLast
<1>1. PathInv => FramesMissOnlyTheLast
  <2> SUFFICES ASSUME PathInv, Answered(FALSE), BetweenVariables, ~JoinsOrUnites(query.path)
               PROVE  MissesTheLast(answer, Relation[query.path])
      BY DEF FramesMissOnlyTheLast, MissesTheLast
  <2>1. FramesHold /\ FrameAnswer
      BY DEF PathInv, Answered
  <2>2. query.path \in Subpaths[query.path]
      BY <2>1, FrameFacts, SubpathsClosed
  <2> QED BY <2>1, <2>2, FramesMiss DEF FrameAnswer
<1> QED BY <1>1, PathInvariant, PTL
=============================================================================

---------------------------- MODULE PathClosure ----------------------------
(***************************************************************************)
(* The loops of property paths p* and p+ (zero_or_more and one_or_more in  *)
(* lazy_graph_patterns/path.rs).  Both multiply a matrix with itself until *)
(* the sum of its entries stays the same.  One turn is one step.           *)
(***************************************************************************)
EXTENDS Matrices

CONSTANT Inputs   \* the matrices of the inner paths

ASSUME InputsAssumption == Inputs \subseteq Matrix

VARIABLES
    loop,        \* the function: "zero_or_more" or "one_or_more"
    input,       \* its argument
    rel_mat,
    last_sum,
    fixed_point  \* the function has returned, with the result in rel_mat

loop_vars == <<loop, input, rel_mat, last_sum, fixed_point>>

eye == [x \in Cells |-> IF x[1] = x[2] THEN 1 ELSE 0]

\* Mutant of StartMatrix: one_or_more adds the identity as well.
StartWithIdentity == Ones(Plus(input, eye))

\* zero_or_more adds the identity first and reduces the entries to 0 and 1;
\* one_or_more starts from its argument as it is.
StartMatrix ==
    IF loop = "zero_or_more" THEN Ones(Plus(input, eye)) ELSE input

LoopInit ==
    /\ loop \in {"zero_or_more", "one_or_more"}
    /\ input \in Inputs
    /\ rel_mat = StartMatrix
    /\ last_sum = Total(rel_mat)
    /\ fixed_point = FALSE

\* Mutant of NextMatrix: one_or_more does not add the matrix to its square.
ProductOnly == ZeroOrMoreTurn(rel_mat)

NextMatrix == IF loop = "zero_or_more" THEN ZeroOrMoreTurn(rel_mat)
              ELSE OneOrMoreTurn(rel_mat)

\* Mutant of Turn: last_sum stays that of the first matrix.
TurnKeepingSum ==
    /\ ~fixed_point
    /\ rel_mat' = NextMatrix
    /\ fixed_point' = (last_sum = Total(rel_mat'))
    /\ UNCHANGED <<loop, input, last_sum>>

Turn ==
    /\ ~fixed_point
    /\ rel_mat' = NextMatrix
    /\ IF last_sum = Total(rel_mat')
       THEN fixed_point' = TRUE /\ UNCHANGED last_sum
       ELSE last_sum' = Total(rel_mat') /\ UNCHANGED fixed_point
    /\ UNCHANGED <<loop, input>>

LoopSpec == LoopInit /\ [][Turn]_loop_vars /\ WF_loop_vars(Turn)

----------------------------------------------------------------------------
\* What the path relates: the transitive closure of the inner path, and with
\* "*" every node to itself.
Diagonal == { x \in Cells : x[1] = x[2] }
Goal == Closure(Pairs(input) \union IF loop = "zero_or_more" THEN Diagonal ELSE {})

\* At every turn the matrix holds the inner path, and no pair that the path does
\* not relate.
NothingInvented == Pairs(input) \subseteq Pairs(rel_mat) /\ Pairs(rel_mat) \subseteq Goal

\* The loop may stop when the sum stays the same, because it is then a fixed
\* point: p* always returns the closure, and p+ if its argument holds only zeros
\* and ones.
ClosureOfOnes ==
    fixed_point /\ (loop = "zero_or_more" \/ ZeroOne(input)) =>
        Pairs(rel_mat) = Goal

\* The same of every argument.  A sequence p/q counts the nodes between, and the
\* first sum is that of the counts, so (p/q)+ may stop at "fixed_point = true"
\* before it has reached one.
ClosureOfAll == fixed_point => Pairs(rel_mat) = Goal

\* The loop ends: the sums grow and cannot grow for ever.
LoopEnds == <>fixed_point
=============================================================================

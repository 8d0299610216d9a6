-------------------------- MODULE RecursionLemmas ---------------------------
(***************************************************************************)
(* Induction and recursion over a measure, for proofs about recursive      *)
(* functions.  Sets and functions take the place of predicates: what is to *)
(* be shown for all x of S is that S is a subset of those it holds of.     *)
(***************************************************************************)
EXTENDS Integers, WellFoundedInduction, TLAPS

----------------------------------------------------------------------------
LEMMA LeastNumber ==
    ASSUME NEW S, S \subseteq Nat, S # {} PROVE \E n \in S : \A m \in S : n <= m
<1>1. PICK n \in S : \A m \in S : ~(<<m, n>> \in OpToRel(<, Nat))
    BY NatLessThanWellFounded, WFMin
<1>2. ASSUME NEW m \in S PROVE n <= m
  <2>1. m \in Nat /\ n \in Nat /\ <<m, n>> \notin OpToRel(<, Nat)
      BY <1>1
  <2>2. ~(m < n)
      BY <2>1 DEF OpToRel
  <2>3. m \in Nat /\ n \in Nat
      BY <2>1
  <2> QED BY <2>2, <2>3
<1> QED BY <1>2

\* What holds of x whenever it holds of all that is smaller, holds.
LEMMA Induction ==
    ASSUME NEW S, NEW size, \A x \in S : size[x] \in Nat,
           NEW T, \A x \in S : (\A y \in S : size[y] < size[x] => y \in T) => x \in T
    PROVE  S \subseteq T
<1> SUFFICES ASSUME S \ T # {} PROVE FALSE
    OBVIOUS
<1> DEFINE sizes == { size[x] : x \in S \ T }
<1>1. sizes \subseteq Nat /\ sizes # {}
    OBVIOUS
<1>2. PICK n \in sizes : \A m \in sizes : n <= m
    BY <1>1, LeastNumber
<1>3. PICK x \in S \ T : n = size[x]
    BY <1>2
<1>4. ASSUME NEW y \in S, size[y] < size[x], y \notin T PROVE FALSE
  <2>1. size[y] \in sizes
      BY <1>4
  <2>2. size[x] <= size[y] /\ size[x] \in Nat /\ size[y] \in Nat
      BY <1>2, <1>3, <2>1
  <2> QED BY <1>4, <2>2
<1> QED BY <1>3, <1>4

\* A function may be defined by recursion over parts that are smaller.
IsRecursion(S, size, parts, V, F) ==
    /\ \A x \in S : size[x] \in Nat
    /\ \A x \in S : parts[x] \subseteq S /\ \A y \in parts[x] : size[y] < size[x]
    /\ \A x \in S : F[x] \in [[parts[x] -> V] -> V]

IsSolution(f, S, parts, V, F) ==
    f \in [S -> V] /\ \A x \in S : f[x] = F[x][[y \in parts[x] |-> f[y]]]

LEMMA Recursion ==
    ASSUME NEW S, NEW size, NEW parts, NEW V, NEW F, IsRecursion(S, size, parts, V, F)
    PROVE  \E f : IsSolution(f, S, parts, V, F)
<1> DEFINE Solves(f, D) == \A x \in D : /\ parts[x] \subseteq D
                                        /\ f[x] = F[x][[y \in parts[x] |-> f[y]]]
           Partial == { f \in UNION { [D -> V] : D \in SUBSET S } : Solves(f, DOMAIN f) }
           Solved  == UNION { DOMAIN f : f \in Partial }
           One(y)  == CHOOSE f \in Partial : y \in DOMAIN f
           u       == [y \in Solved |-> One(y)[y]]
<1>0. /\ \A x \in S : size[x] \in Nat
      /\ \A x \in S : parts[x] \subseteq S /\ \A y \in parts[x] : size[y] < size[x]
      /\ \A x \in S : F[x] \in [[parts[x] -> V] -> V]
    BY DEF IsRecursion
<1>1. ASSUME NEW f \in Partial
      PROVE  DOMAIN f \subseteq S /\ f \in [DOMAIN f -> V] /\ Solves(f, DOMAIN f)
    OBVIOUS
<1>2. ASSUME NEW f \in Partial, NEW g \in Partial
      PROVE  \A x \in S : x \in DOMAIN f /\ x \in DOMAIN g => f[x] = g[x]
  <2> DEFINE T == { x \in S : x \in DOMAIN f /\ x \in DOMAIN g => f[x] = g[x] }
  <2>1. ASSUME NEW x \in S, \A y \in S : size[y] < size[x] => y \in T PROVE x \in T
    <3> SUFFICES ASSUME x \in DOMAIN f, x \in DOMAIN g PROVE f[x] = g[x]
        OBVIOUS
    <3>1. \A y \in parts[x] : f[y] = g[y]
        BY <1>0, <1>1, <2>1
    <3>2. [y \in parts[x] |-> f[y]] = [y \in parts[x] |-> g[y]]
        BY <3>1
    <3>3. f[x] = F[x][[y \in parts[x] |-> f[y]]]
        BY <1>1
    <3>4. g[x] = F[x][[y \in parts[x] |-> g[y]]]
        BY <1>1
    <3> QED BY <3>2, <3>3, <3>4, Zenon
  <2> HIDE DEF T
  <2>2. S \subseteq T
      BY <1>0, <2>1, Induction
  <2> QED BY <2>2 DEF T
<1>3. ASSUME NEW f \in Partial PROVE \A y \in DOMAIN f : y \in Solved /\ u[y] = f[y]
  <2> SUFFICES ASSUME NEW y \in DOMAIN f PROVE y \in Solved /\ u[y] = f[y]
      OBVIOUS
  <2>1. y \in Solved /\ y \in S
      BY <1>1
  <2>2. One(y) \in Partial /\ y \in DOMAIN One(y)
      OBVIOUS
  <2>3. u[y] = One(y)[y]
      BY <2>1
  <2> HIDE DEF One, u, Solved, Partial
  <2> QED BY <1>2, <2>1, <2>2, <2>3
<1>4. \A y \in Solved : \E f \in Partial : y \in DOMAIN f
    OBVIOUS
<1>5. DOMAIN u = Solved /\ Solved \subseteq S
    BY <1>1
<1>6. \A y \in Solved : u[y] \in V /\ parts[y] \subseteq Solved
                        /\ u[y] = F[y][[z \in parts[y] |-> u[z]]]
  <2> HIDE DEF Partial, Solved, u
  <2> SUFFICES ASSUME NEW y \in Solved
               PROVE  /\ u[y] \in V
                      /\ parts[y] \subseteq Solved
                      /\ u[y] = F[y][[z \in parts[y] |-> u[z]]]
      OBVIOUS
  <2>1. PICK f \in Partial : y \in DOMAIN f
      BY <1>4
  <2>2. /\ f[y] \in V /\ parts[y] \subseteq DOMAIN f
        /\ f[y] = F[y][[z \in parts[y] |-> f[z]]]
      BY <1>1, <2>1
  <2>3. u[y] = f[y] /\ \A z \in parts[y] : z \in Solved /\ u[z] = f[z]
      BY <1>3, <2>1, <2>2
  <2>4. [z \in parts[y] |-> u[z]] = [z \in parts[y] |-> f[z]]
      BY <2>3
  <2> QED BY <2>2, <2>3, <2>4
<1>7. ASSUME NEW x \in S, parts[x] \subseteq Solved PROVE x \in Solved
  <2> SUFFICES ASSUME x \notin Solved PROVE FALSE
      OBVIOUS
  <2> DEFINE D == Solved \union {x}
             new == F[x][[y \in parts[x] |-> u[y]]]
             g == [y \in D |-> IF y = x THEN new ELSE u[y]]
  <2>1. [y \in parts[x] |-> u[y]] \in [parts[x] -> V]
      BY <1>6, <1>7
  <2>2. new \in V
      BY <1>0, <2>1
  <2>3. D \in SUBSET S /\ g \in [D -> V]
    <3>1. \A y \in Solved : u[y] \in V
        BY <1>6
    <3> HIDE DEF u, new, Solved
    <3> QED BY <1>5, <2>2, <3>1
  <2>4. ASSUME NEW y \in D
        PROVE  parts[y] \subseteq D /\ g[y] = F[y][[z \in parts[y] |-> g[z]]]
    <3>1. parts[y] \subseteq Solved
        BY <1>6, <1>7
    <3>2. \A z \in parts[y] : g[z] = u[z]
        BY <3>1
    <3>3. [z \in parts[y] |-> g[z]] = [z \in parts[y] |-> u[z]]
      <4> HIDE DEF g, u
      <4> QED BY <3>2
    <3>4. g[y] = F[y][[z \in parts[y] |-> u[z]]]
      <4>1. CASE y = x
          BY <4>1
      <4>2. CASE y # x
          BY <1>6, <4>2
      <4> QED BY <4>1, <4>2
    <3> QED BY <3>1, <3>3, <3>4
  <2>5. DOMAIN g = D
      OBVIOUS
  <2> HIDE DEF g, D
  <2>6. g \in Partial
      BY <2>3, <2>4, <2>5
  <2>7. x \in DOMAIN g
      BY <2>5 DEF D
  <2> QED BY <2>6, <2>7
<1>8. S \subseteq Solved
  <2> HIDE DEF Solved
  <2>1. \A x \in S : (\A y \in S : size[y] < size[x] => y \in Solved) => x \in Solved
      BY <1>0, <1>7
  <2> QED BY <1>0, <2>1, Induction
<1>9. Solved = S
    BY <1>5, <1>8
<1> HIDE DEF u, Solved
<1>10. u = [y \in S |-> u[y]]
    BY <1>9 DEF u
<1>11. u \in [S -> V]
    BY <1>6, <1>9, <1>10
<1> QED BY <1>6, <1>9, <1>11 DEF IsSolution
=============================================================================

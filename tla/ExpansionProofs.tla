-------------------------- MODULE ExpansionProofs ---------------------------
(***************************************************************************)
(* For any templates, frames, constants and depths of the stack, and       *)
(* whatever the order of the parallel branches: frames come out of the     *)
(* recursion with the columns of a triple, a unique subset that the caller *)
(* declares with reason is never passed on without reason, no frame lacks  *)
(* a cell, expand_default gives every cell its triple, expansions that are *)
(* safe succeed, and what they add are the triples of the rows.            *)
(*                                                                         *)
(* One invariant follows a subset through every call of _expand: it names  *)
(* columns of the frame of the call and is unique there.  Another follows  *)
(* the columns of a frame that is expanded by default.  Two more compare   *)
(* the calls with the levels of the definition: what they meet (SafeInv),  *)
(* and what they stand for (ExactInv).                                     *)
(***************************************************************************)
EXTENDS ExpansionProperties, RecursionLemmas, FiniteSetTheorems, TLAPS

----------------------------------------------------------------------------
\* Sequences: concatenation, flattening, choosing.

LEMMA ElementsOfConcat ==
    ASSUME NEW S, NEW s \in Seq(S), NEW t \in Seq(S)
    PROVE  s \o t \in Seq(S) /\ ToSet(s \o t) = ToSet(s) \union ToSet(t)
<1>1. s \o t \in Seq(S) /\ Len(s \o t) = Len(s) + Len(t) OBVIOUS
<1>2. \A i \in 1 .. Len(s) + Len(t) : (s \o t)[i] = IF i <= Len(s) THEN s[i] ELSE t[i - Len(s)]
  OBVIOUS
<1>3. DOMAIN s = 1 .. Len(s) /\ DOMAIN t = 1 .. Len(t) /\ DOMAIN (s \o t) = 1 .. Len(s) + Len(t)
  BY <1>1
<1>4. ASSUME NEW x \in ToSet(s \o t) PROVE x \in ToSet(s) \union ToSet(t)
  <2>1. PICK i \in 1 .. Len(s) + Len(t) : x = (s \o t)[i] BY <1>3 DEF ToSet
  <2>2. CASE i <= Len(s) BY <1>2, <1>3, <2>1, <2>2 DEF ToSet
  <2>3. CASE ~(i <= Len(s))
    <3>1. i - Len(s) \in 1 .. Len(t) BY <2>1, <2>3
    <3>. QED BY <1>2, <1>3, <2>1, <2>3, <3>1 DEF ToSet
  <2>. QED BY <2>2, <2>3
<1>5. ASSUME NEW x \in ToSet(s) PROVE x \in ToSet(s \o t)
  <2>1. PICK i \in 1 .. Len(s) : x = s[i] BY <1>3 DEF ToSet
  <2>2. i \in 1 .. Len(s) + Len(t) /\ (s \o t)[i] = x BY <1>2, <2>1
  <2>. QED BY <1>3, <2>2 DEF ToSet
<1>6. ASSUME NEW x \in ToSet(t) PROVE x \in ToSet(s \o t)
  <2>1. PICK i \in 1 .. Len(t) : x = t[i] BY <1>3 DEF ToSet
  <2>2. i + Len(s) \in 1 .. Len(s) + Len(t) /\ (s \o t)[i + Len(s)] = x BY <1>2, <2>1
  <2>. QED BY <1>3, <2>2 DEF ToSet
<1>. QED BY <1>1, <1>4, <1>5, <1>6

\* FlattenSeq as an equation.
FlattenBody(s, f, i) == IF i = 1 THEN s[i] ELSE f[i - 1] \o s[i]

LEMMA FlattenEquation ==
    ASSUME NEW S, NEW s \in Seq(Seq(S)), Len(s) # 0
    PROVE  \E f : /\ f = [i \in 1 .. Len(s) |-> FlattenBody(s, f, i)]
                  /\ FlattenSeq(s) = f[Len(s)]
<1>. DEFINE n == Len(s)
            V == Seq(S)
            size == [i \in 1 .. n |-> i]
            parts == [i \in 1 .. n |-> IF i = 1 THEN {} ELSE {i - 1}]
            F == [i \in 1 .. n |-> [h \in [parts[i] -> V] |-> FlattenBody(s, h, i)]]
<1>0. n \in Nat /\ \A i \in 1 .. n : s[i] \in V OBVIOUS
<1>1. \A i \in 1 .. n : size[i] \in Nat OBVIOUS
<1>2. \A i \in 1 .. n : parts[i] \subseteq 1 .. n /\ \A y \in parts[i] : size[y] < size[i]
  BY <1>0
<1>3. \A i \in 1 .. n : F[i] \in [[parts[i] -> V] -> V]
  <2>1. ASSUME NEW i \in 1 .. n, NEW h \in [parts[i] -> V] PROVE FlattenBody(s, h, i) \in V
    <3>1. CASE i = 1 BY <1>0, <3>1 DEF FlattenBody
    <3>2. CASE i # 1
      <4>1. h[i - 1] \in V BY <3>2
      <4>2. h[i - 1] \o s[i] \in V BY <1>0, <4>1
      <4>. QED BY <3>2, <4>2 DEF FlattenBody
    <3>. QED BY <3>1, <3>2
  <2>. QED BY <2>1
<1>4. PICK g : IsSolution(g, 1 .. n, parts, V, F)
  <2>. HIDE DEF size, parts, V, F
  <2>1. IsRecursion(1 .. n, size, parts, V, F) BY <1>1, <1>2, <1>3 DEF IsRecursion
  <2>. QED BY <2>1, Recursion
<1>5. g = [i \in 1 .. n |-> FlattenBody(s, g, i)]
  <2>1. ASSUME NEW i \in 1 .. n PROVE g[i] = FlattenBody(s, g, i)
    <3>1. g \in [1 .. n -> V] /\ g[i] = F[i][[y \in parts[i] |-> g[y]]]
      BY <1>4 DEF IsSolution
    <3>2. [y \in parts[i] |-> g[y]] \in [parts[i] -> V] BY <1>2, <3>1
    <3>3. g[i] = FlattenBody(s, [y \in parts[i] |-> g[y]], i) BY <3>1, <3>2
    <3>4. i # 1 => [y \in parts[i] |-> g[y]][i - 1] = g[i - 1] OBVIOUS
    <3>. QED BY <3>3, <3>4 DEF FlattenBody
  <2>2. g \in [1 .. n -> V] BY <1>4 DEF IsSolution
  <2>. QED BY <2>1, <2>2
<1>6. PICK f : f = CHOOSE e : e = [i \in 1 .. n |-> FlattenBody(s, e, i)] OBVIOUS
<1>7. f = [i \in 1 .. n |-> FlattenBody(s, f, i)] BY <1>5, <1>6
<1>8. FlattenSeq(s) = f[n] BY <1>6 DEF FlattenSeq, FlattenBody
<1>. QED BY <1>7, <1>8

\* Flattening puts the elements of all sequences in one.
LEMMA Flattened ==
    ASSUME NEW S, NEW s \in Seq(Seq(S))
    PROVE  /\ FlattenSeq(s) \in Seq(S)
           /\ ToSet(FlattenSeq(s)) = UNION { ToSet(s[i]) : i \in 1 .. Len(s) }
<1>. DEFINE n == Len(s)
<1>0. n \in Nat /\ \A i \in 1 .. n : s[i] \in Seq(S) OBVIOUS
<1>1. CASE n = 0
  <2>1. FlattenSeq(s) = s /\ s = <<>> BY <1>1 DEF FlattenSeq
  <2>2. ToSet(s) = {} /\ s \in Seq(S) BY <2>1 DEF ToSet
  <2>3. 1 .. n = {} BY <1>1
  <2>. QED BY <2>1, <2>2, <2>3
<1>2. CASE n # 0
  <2>1. PICK f : f = [i \in 1 .. n |-> FlattenBody(s, f, i)] /\ FlattenSeq(s) = f[n]
    BY <1>2, FlattenEquation
  <2>. DEFINE T == { i \in 1 .. n : f[i] \in Seq(S) /\ ToSet(f[i]) = UNION { ToSet(s[k]) : k \in 1 .. i } }
              size == [i \in 1 .. n |-> i]
  <2>2. ASSUME NEW i \in 1 .. n, \A k \in 1 .. n : size[k] < size[i] => k \in T PROVE i \in T
    <3>1. f[i] = FlattenBody(s, f, i) BY <2>1
    <3>2. CASE i = 1
      <4>1. f[i] = s[i] /\ 1 .. i = {i} BY <3>1, <3>2 DEF FlattenBody
      <4>2. UNION { ToSet(s[k]) : k \in {i} } = ToSet(s[i]) OBVIOUS
      <4>. QED BY <1>0, <4>1, <4>2
    <3>3. CASE i # 1
      <4>1. f[i] = f[i - 1] \o s[i] BY <3>1, <3>3 DEF FlattenBody
      <4>2. i - 1 \in T
        <5>1. i - 1 \in 1 .. n /\ size[i - 1] < size[i] BY <1>0, <3>3
        <5>. HIDE DEF T
        <5>. QED BY <2>2, <5>1
      <4>3. f[i] \in Seq(S) /\ ToSet(f[i]) = ToSet(f[i - 1]) \union ToSet(s[i])
        BY <1>0, <4>1, <4>2, ElementsOfConcat
      <4>4. 1 .. i = (1 .. i - 1) \union {i} BY <3>3
      <4>5. UNION { ToSet(s[k]) : k \in 1 .. i } = (UNION { ToSet(s[k]) : k \in 1 .. i - 1 }) \union ToSet(s[i])
        <5>1. PICK A, B : A = 1 .. i /\ B = 1 .. i - 1 /\ A = B \union {i} BY <4>4
        <5>2. UNION { ToSet(s[k]) : k \in B \union {i} } = (UNION { ToSet(s[k]) : k \in B }) \union ToSet(s[i])
          OBVIOUS
        <5>. QED BY <5>1, <5>2
      <4>6. f[i - 1] \in Seq(S) /\ ToSet(f[i - 1]) = UNION { ToSet(s[k]) : k \in 1 .. i - 1 }
        BY <4>2
      <4>7. ToSet(f[i]) = UNION { ToSet(s[k]) : k \in 1 .. i } BY <4>3, <4>5, <4>6, Zenon
      <4>. QED BY <4>3, <4>7
    <3>. QED BY <3>2, <3>3
  <2>3. \A i \in 1 .. n : size[i] \in Nat BY <1>0
  <2>. HIDE DEF T, size
  <2>4. \A i \in 1 .. n : (\A k \in 1 .. n : size[k] < size[i] => k \in T) => i \in T
    BY <2>2
  <2>5. n \in 1 .. n BY <1>0, <1>2
  <2>. HIDE DEF n
  <2>6. 1 .. n \subseteq T
    <3>1. PICK D : D = 1 .. n OBVIOUS
    <3>2. /\ \A i \in D : size[i] \in Nat
          /\ \A i \in D : (\A k \in D : size[k] < size[i] => k \in T) => i \in T
      BY <2>3, <2>4, <3>1, Zenon
    <3>3. D \subseteq T BY ONLY <3>2, Induction
    <3>. QED BY <3>1, <3>3
  <2>7. n \in T BY <2>5, <2>6
  <2>. QED BY <2>1, <2>7 DEF T, n
<1>. QED BY <1>1, <1>2

\* Picked keeps the elements at the given positions.
LEMMA PickedElements ==
    ASSUME NEW S, NEW s \in Seq(S), NEW ns
    PROVE  Picked(s, ns) \in Seq(S) /\ ToSet(Picked(s, ns)) = { s[n] : n \in ns \intersect DOMAIN s }
<1>. DEFINE parts == [n \in DOMAIN s |-> IF n \in ns THEN <<s[n]>> ELSE <<>>]
<1>1. DOMAIN s = 1 .. Len(s) /\ Len(s) \in Nat /\ \A n \in DOMAIN s : s[n] \in S OBVIOUS
<1>2. ASSUME NEW n \in DOMAIN s
      PROVE  parts[n] \in Seq(S) /\ ToSet(parts[n]) = IF n \in ns THEN {s[n]} ELSE {}
  <2>1. CASE n \in ns
    <3>1. parts[n] = <<s[n]>> BY <2>1
    <3>2. <<s[n]>> \in Seq(S) /\ ToSet(<<s[n]>>) = {s[n]} BY <1>1 DEF ToSet
    <3>. QED BY <2>1, <3>1, <3>2
  <2>2. CASE n \notin ns BY <2>2 DEF ToSet
  <2>. QED BY <2>1, <2>2
<1>3. parts \in Seq(Seq(S)) /\ Len(parts) = Len(s)
  <2>1. \A n \in 1 .. Len(s) : parts[n] \in Seq(S) BY <1>1, <1>2
  <2>2. parts = [n \in 1 .. Len(s) |-> parts[n]] BY <1>1
  <2>. HIDE DEF parts
  <2>. QED BY <1>1, <2>1, <2>2
<1>4. Picked(s, ns) = FlattenSeq(parts) BY DEF Picked
<1>. HIDE DEF parts
<1>5. FlattenSeq(parts) \in Seq(S) /\ ToSet(FlattenSeq(parts)) = UNION { ToSet(parts[n]) : n \in 1 .. Len(parts) }
  BY <1>3, Flattened
<1>6. UNION { ToSet(parts[n]) : n \in DOMAIN s } = { s[n] : n \in ns \intersect DOMAIN s }
  BY <1>2
<1>. QED BY <1>1, <1>3, <1>4, <1>5, <1>6

\* The greatest of finitely many numbers.
LEMMA Greatest ==
    ASSUME NEW k \in Nat, NEW s \in SUBSET (1 .. k), s # {}
    PROVE  Max(s) \in s /\ \A m \in s : m <= Max(s)
<1>. DEFINE gaps == { k - m : m \in s }
<1>1. gaps \subseteq Nat /\ gaps # {}
  <2>1. \A m \in s : k - m \in Nat OBVIOUS
  <2>. QED BY <2>1
<1>2. PICK g \in gaps : \A h \in gaps : g <= h BY <1>1, LeastNumber
<1>3. PICK n \in s : g = k - n BY <1>2
<1>4. \A m \in s : n >= m
  <2>1. ASSUME NEW m \in s PROVE n >= m
    <3>1. k - m \in gaps OBVIOUS
    <3>2. k - n <= k - m BY <1>2, <1>3, <3>1
    <3>. QED BY <3>2
  <2>. QED BY <2>1
<1>5. Max(s) \in s /\ \A m \in s : Max(s) >= m BY <1>4 DEF Max
<1>. QED BY <1>5

LEMMA Least ==
    ASSUME NEW k \in Nat, NEW s \in SUBSET (1 .. k), s # {} PROVE Min(s) \in s
<1>1. s \subseteq Nat OBVIOUS
<1>2. PICK n \in s : \A m \in s : n <= m BY <1>1, LeastNumber
<1>. QED BY <1>2 DEF Min

\* The columns in some order, each once, and those beside the key.
LEMMA OrderOfColumns ==
    ASSUME NEW df, IsFiniteSet(DOMAIN df.dtypes)
    PROVE  /\ Columns(df) \in Seq(DOMAIN df.dtypes) /\ ToSet(Columns(df)) = DOMAIN df.dtypes
           /\ \A m, n \in DOMAIN Columns(df) : Columns(df)[m] = Columns(df)[n] => m = n
           /\ OtherColumns(df) \in Seq(DOMAIN df.dtypes)
           /\ ToSet(OtherColumns(df)) = DOMAIN df.dtypes \ {input.pk_col}
<1>1. PICK S, k, C : S = DOMAIN df.dtypes /\ k = Cardinality(S) /\ C = Columns(df) OBVIOUS
<1>2. IsFiniteSet(S) /\ k \in Nat /\ ExistsBijection(1 .. k, S) BY <1>1, FS_CardinalityType
<1>3. C = CHOOSE f \in [1 .. k -> S] : IsInjective(f) BY <1>1 DEF Columns, SetToSeq
<1>4. C \in [1 .. k -> S] /\ IsInjective(C)
  <2>1. \E f \in [1 .. k -> S] : IsInjective(f) BY <1>2 DEF ExistsBijection, Bijection, Injection
  <2>. QED BY <1>3, <2>1
<1>5. C \in Surjection(1 .. k, S)
  <2>1. C \in Injection(1 .. k, S) BY <1>4 DEF Injection
  <2>2. IsFiniteSet(1 .. k) /\ Cardinality(1 .. k) = k BY <1>2, FS_Interval
  <2>3. PICK D : D = 1 .. k OBVIOUS
  <2>. QED BY <1>1, <1>2, <2>1, <2>2, <2>3, FS_Injection
<1>6. C \in Seq(S) /\ DOMAIN C = 1 .. k BY <1>2, <1>4
<1>7. ToSet(C) = S BY <1>5, <1>6 DEF Surjection, ToSet
<1>. DEFINE ns == { n \in DOMAIN C : C[n] # input.pk_col }
<1>8. OtherColumns(df) = Picked(C, ns) BY <1>1 DEF OtherColumns
<1>9. { C[n] : n \in ns \intersect DOMAIN C } = S \ {input.pk_col} BY <1>7 DEF ToSet
<1>10. OtherColumns(df) \in Seq(S) /\ ToSet(OtherColumns(df)) = S \ {input.pk_col}
  <2>1. PICK N : N = ns OBVIOUS
  <2>2. Picked(C, N) \in Seq(S) /\ ToSet(Picked(C, N)) = { C[n] : n \in N \intersect DOMAIN C }
    BY <1>6, PickedElements
  <2>. QED BY <1>8, <1>9, <2>1, <2>2
<1>. QED BY <1>1, <1>4, <1>6, <1>7, <1>10 DEF IsInjective

\* The items of a cell are cells again.
LEMMA ItemsAreCells ==
    ASSUME NEW cell \in Cells PROVE Items(cell) \in Seq(Cells)
<1>1. Null \in Cells BY CellsAssumption
<1>2. CASE cell = <<>> BY <1>1, <1>2 DEF Items
<1>3. CASE cell # <<>> /\ IsList(cell) BY <1>3, CellsAssumption DEF Items, IsList
<1>4. CASE cell # <<>> /\ ~IsList(cell) BY <1>4 DEF Items
<1>. QED BY <1>2, <1>3, <1>4

\* Exploding a column gives a row for every item.
Exploded(row, c) == { [row EXCEPT ![c] = t] : t \in ToSet(Items(row[c])) }
LEMMA ExplodedRows ==
    ASSUME NEW columns, NEW rows \in Seq([columns -> Cells]), NEW c \in columns
    PROVE  /\ ExplodeOne(rows, c) \in Seq([columns -> Cells])
           /\ \A x : x \in ToSet(ExplodeOne(rows, c)) <=> \E row \in ToSet(rows) : x \in Exploded(row, c)
<1>. DEFINE R == [columns -> Cells]
            parts == [m \in DOMAIN rows |->
                        [k \in DOMAIN Items(rows[m][c]) |-> [rows[m] EXCEPT ![c] = Items(@)[k]]]]
<1>1. DOMAIN rows = 1 .. Len(rows) /\ Len(rows) \in Nat /\ \A m \in DOMAIN rows : rows[m] \in R OBVIOUS
<1>2. ASSUME NEW m \in DOMAIN rows
      PROVE  /\ parts[m] \in Seq(R)
             /\ ToSet(parts[m]) = { [rows[m] EXCEPT ![c] = t] : t \in ToSet(Items(rows[m][c])) }
  <2>1. PICK row, items : row = rows[m] /\ items = Items(row[c]) OBVIOUS
  <2>2. row \in R /\ items \in Seq(Cells) BY <1>1, <2>1, ItemsAreCells
  <2>3. parts[m] = [k \in DOMAIN items |-> [row EXCEPT ![c] = items[k]]] BY <2>1
  <2>. HIDE DEF parts
  <2>4. ASSUME NEW k \in DOMAIN items PROVE [row EXCEPT ![c] = items[k]] \in R
    BY <2>2
  <2>5. DOMAIN items = 1 .. Len(items) /\ Len(items) \in Nat BY <2>2
  <2>6. parts[m] \in Seq(R)
    <3>. HIDE DEF R
    <3>. QED BY <2>3, <2>4, <2>5
  <2>7. ToSet(parts[m]) = { [row EXCEPT ![c] = t] : t \in ToSet(items) }
    <3>1. PICK new : new = [t \in ToSet(items) |-> [row EXCEPT ![c] = t]] OBVIOUS
    <3>2. PICK part : part = parts[m] OBVIOUS
    <3>3. DOMAIN part = DOMAIN items /\ \A k \in DOMAIN items : part[k] = new[items[k]]
      BY <2>3, <3>1, <3>2 DEF ToSet
    <3>4. { part[k] : k \in DOMAIN part } = { new[t] : t \in { items[k] : k \in DOMAIN items } }
      BY <3>3
    <3>5. { new[t] : t \in ToSet(items) } = { [row EXCEPT ![c] = t] : t \in ToSet(items) } BY <3>1
    <3>. QED BY <3>2, <3>4, <3>5 DEF ToSet
  <2>. QED BY <2>1, <2>6, <2>7
<1>3. parts \in Seq(Seq(R)) /\ Len(parts) = Len(rows)
  <2>1. parts = [m \in 1 .. Len(rows) |-> parts[m]] BY <1>1
  <2>2. \A m \in 1 .. Len(rows) : parts[m] \in Seq(R) BY <1>1, <1>2
  <2>. HIDE DEF parts, R
  <2>. QED BY <1>1, <2>1, <2>2
<1>4. ExplodeOne(rows, c) = FlattenSeq(parts) BY DEF ExplodeOne
<1>. HIDE DEF parts
<1>5. FlattenSeq(parts) \in Seq(R) /\ ToSet(FlattenSeq(parts)) = UNION { ToSet(parts[m]) : m \in 1 .. Len(parts) }
  <2>. HIDE DEF R
  <2>. QED BY <1>3, Flattened
<1>. DEFINE new(row) == { [row EXCEPT ![c] = t] : t \in ToSet(Items(row[c])) }
<1>6. UNION { ToSet(parts[m]) : m \in DOMAIN rows } = UNION { new(row) : row \in ToSet(rows) }
  <2>1. \A m \in DOMAIN rows : ToSet(parts[m]) = new(rows[m]) BY <1>2
  <2>. HIDE DEF new
  <2>2. UNION { ToSet(parts[m]) : m \in DOMAIN rows } = UNION { new(rows[m]) : m \in DOMAIN rows } BY <2>1
  <2>3. { new(rows[m]) : m \in DOMAIN rows } = { new(row) : row \in ToSet(rows) } BY DEF ToSet
  <2>. QED BY <2>2, <2>3
<1>. HIDE DEF R
<1>7. ToSet(ExplodeOne(rows, c)) = UNION { new(row) : row \in ToSet(rows) }
  BY <1>1, <1>3, <1>4, <1>5, <1>6
<1>8. \A row : new(row) = Exploded(row, c) BY DEF Exploded
<1>. HIDE DEF new
<1>. QED BY <1>4, <1>5, <1>7, <1>8 DEF R

\* Exploding one column after another: the fold as a recursive function.
EachBody(rows, cs, f, s) == IF s = {} THEN rows ELSE ExplodeOne(f[s \ {Max(s)}], cs[Max(s)])

LEMMA ExplodeEachEquation ==
    ASSUME NEW columns, NEW rows \in Seq([columns -> Cells]), NEW cs \in Seq(columns)
    PROVE  \E f : /\ f = [s \in SUBSET DOMAIN cs |-> EachBody(rows, cs, f, s)]
                  /\ ExplodeEach(rows, cs) = f[DOMAIN cs]
<1>. DEFINE D == DOMAIN cs
            V == Seq([columns -> Cells])
            size == [s \in SUBSET D |-> Cardinality(s)]
            parts == [s \in SUBSET D |-> IF s = {} THEN {} ELSE {s \ {Max(s)}}]
            F == [s \in SUBSET D |-> [h \in [parts[s] -> V] |-> EachBody(rows, cs, h, s)]]
<1>1. D = 1 .. Len(cs) /\ Len(cs) \in Nat OBVIOUS
<1>10. IsFiniteSet(D) BY <1>1, FS_Interval
<1>11. \A n \in D : cs[n] \in columns OBVIOUS
<1>2. ASSUME NEW s \in SUBSET D
      PROVE  /\ size[s] \in Nat
             /\ s # {} => Max(s) \in D /\ s \ {Max(s)} \in SUBSET D /\ size[s \ {Max(s)}] < size[s]
  <2>1. IsFiniteSet(s) BY <1>10, FS_Subset
  <2>2. Cardinality(s) \in Nat BY <2>1, FS_CardinalityType
  <2>3. s # {} => Max(s) \in s BY <1>1, Greatest
  <2>4. s # {} => Cardinality(s \ {Max(s)}) = Cardinality(s) - 1 BY <2>1, <2>3, FS_RemoveElement
  <2>. QED BY <2>2, <2>3, <2>4
<1>3. ASSUME NEW s \in SUBSET D
      PROVE  /\ size[s] \in Nat
             /\ parts[s] \subseteq SUBSET D /\ \A y \in parts[s] : size[y] < size[s]
  BY <1>2
<1>4. \A s \in SUBSET D : F[s] \in [[parts[s] -> V] -> V]
  <2>1. ASSUME NEW s \in SUBSET D, NEW h \in [parts[s] -> V] PROVE EachBody(rows, cs, h, s) \in V
    <3>1. CASE s = {} BY <3>1 DEF EachBody
    <3>2. CASE s # {}
      <4>1. h[s \ {Max(s)}] \in V BY <3>2
      <4>2. cs[Max(s)] \in columns BY <1>2, <1>11, <3>2
      <4>3. ExplodeOne(h[s \ {Max(s)}], cs[Max(s)]) \in V BY <4>1, <4>2, ExplodedRows
      <4>. QED BY <3>2, <4>3 DEF EachBody
    <3>. QED BY <3>1, <3>2
  <2>. QED BY <2>1
<1>5. PICK g : IsSolution(g, SUBSET D, parts, V, F)
  <2>. HIDE DEF size, parts, V, F, D
  <2>1. IsRecursion(SUBSET D, size, parts, V, F) BY <1>3, <1>4 DEF IsRecursion
  <2>2. PICK E : E = SUBSET D OBVIOUS
  <2>. QED BY <2>1, <2>2, Recursion
<1>6. g = [s \in SUBSET D |-> EachBody(rows, cs, g, s)]
  <2>1. ASSUME NEW s \in SUBSET D PROVE g[s] = EachBody(rows, cs, g, s)
    <3>1. g \in [SUBSET D -> V] /\ g[s] = F[s][[y \in parts[s] |-> g[y]]]
      BY <1>5 DEF IsSolution
    <3>2. [y \in parts[s] |-> g[y]] \in [parts[s] -> V] BY <1>3, <3>1
    <3>3. g[s] = EachBody(rows, cs, [y \in parts[s] |-> g[y]], s) BY <3>1, <3>2
    <3>4. s # {} => [y \in parts[s] |-> g[y]][s \ {Max(s)}] = g[s \ {Max(s)}] OBVIOUS
    <3>. HIDE DEF parts, V, F
    <3>. QED BY <3>3, <3>4 DEF EachBody
  <2>2. g \in [SUBSET D -> V] BY <1>5 DEF IsSolution
  <2>. HIDE DEF V, parts, F, D
  <2>. QED BY <2>1, <2>2
<1>7. PICK f : f = CHOOSE e : e = [s \in SUBSET D |-> EachBody(rows, cs, e, s)] OBVIOUS
<1>8. f = [s \in SUBSET D |-> EachBody(rows, cs, f, s)] BY <1>6, <1>7
<1>9. ExplodeEach(rows, cs) = f[D]
  BY <1>7 DEF ExplodeEach, FoldLeft, MapThenFoldSet, EachBody
<1>. QED BY <1>8, <1>9

LEMMA ExplodedEach ==
    ASSUME NEW columns, NEW rows \in Seq([columns -> Cells]), NEW cs \in Seq(columns)
    PROVE  ExplodeEach(rows, cs) \in Seq([columns -> Cells])
<1>. DEFINE D == DOMAIN cs
            V == Seq([columns -> Cells])
            size == [s \in SUBSET D |-> Cardinality(s)]
<1>1. PICK f : f = [s \in SUBSET D |-> EachBody(rows, cs, f, s)] /\ ExplodeEach(rows, cs) = f[D]
  BY ExplodeEachEquation
<1>2. D = 1 .. Len(cs) /\ Len(cs) \in Nat OBVIOUS
<1>7. IsFiniteSet(D) BY <1>2, FS_Interval
<1>. DEFINE T == { s \in SUBSET D : f[s] \in V }
<1>3. ASSUME NEW s \in SUBSET D, \A r \in SUBSET D : size[r] < size[s] => r \in T PROVE s \in T
  <2>1. f[s] = EachBody(rows, cs, f, s) BY <1>1
  <2>2. CASE s = {} BY <2>1, <2>2 DEF EachBody
  <2>3. CASE s # {}
    <3>1. IsFiniteSet(s) BY <1>7, FS_Subset
    <3>2. Max(s) \in s BY <1>2, <2>3, Greatest
    <3>3. Cardinality(s) \in Nat /\ Cardinality(s \ {Max(s)}) = Cardinality(s) - 1
      BY <3>1, <3>2, FS_CardinalityType, FS_RemoveElement
    <3>4. s \ {Max(s)} \in SUBSET D /\ size[s \ {Max(s)}] < size[s] BY <3>3
    <3>5. s \ {Max(s)} \in T
      <4>. HIDE DEF T, size
      <4>. QED BY <1>3, <3>4
    <3>6. f[s \ {Max(s)}] \in V /\ cs[Max(s)] \in columns BY <1>2, <3>2, <3>5
    <3>7. ExplodeOne(f[s \ {Max(s)}], cs[Max(s)]) \in V BY <3>6, ExplodedRows
    <3>8. f[s] \in V BY <2>1, <2>3, <3>7 DEF EachBody
    <3>. QED BY <3>8
  <2>. QED BY <2>2, <2>3
<1>4. \A s \in SUBSET D : size[s] \in Nat
  <2>1. ASSUME NEW s \in SUBSET D PROVE Cardinality(s) \in Nat
    BY <1>7, FS_Subset, FS_CardinalityType
  <2>. QED BY <2>1
<1>. HIDE DEF T, size
<1>5. SUBSET D \subseteq T
  <2>. HIDE DEF D
  <2>1. PICK E : E = SUBSET D OBVIOUS
  <2>2. /\ \A s \in E : size[s] \in Nat
        /\ \A s \in E : (\A r \in E : size[r] < size[s] => r \in T) => s \in T
    BY <1>3, <1>4, <2>1
  <2>3. E \subseteq T BY ONLY <2>2, Induction
  <2>. QED BY <2>1, <2>3
<1>6. D \in T BY <1>5
<1>. QED BY <1>1, <1>6 DEF T

LEMMA ExplodedOnce ==
    ASSUME NEW columns, NEW rows \in Seq([columns -> Cells]), NEW c \in columns
    PROVE  ExplodeEach(rows, <<c>>) = ExplodeOne(rows, c)
<1>1. PICK cs : cs = <<c>> OBVIOUS
<1>2. cs \in Seq(columns) /\ DOMAIN cs = {1} /\ cs[1] = c BY <1>1
<1>3. PICK f : f = [s \in SUBSET {1} |-> EachBody(rows, cs, f, s)] /\ ExplodeEach(rows, cs) = f[{1}]
  BY <1>2, ExplodeEachEquation, ZenonT(40)
<1>4. f[{1}] = EachBody(rows, cs, f, {1}) /\ f[{}] = EachBody(rows, cs, f, {}) BY <1>3
<1>5. Max({1}) = 1
  <2>1. {1} \in SUBSET (1 .. 1) /\ {1} # {} OBVIOUS
  <2>2. Max({1}) \in {1} BY <2>1, Greatest
  <2>. QED BY <2>2
<1>6. f[{}] = rows BY <1>4 DEF EachBody
<1>7. {1} \ {Max({1})} = {} BY <1>5
<1>8. f[{1}] = ExplodeOne(f[{1} \ {Max({1})}], cs[Max({1})]) BY <1>4 DEF EachBody
<1>9. f[{1}] = ExplodeOne(rows, c) BY <1>2, <1>5, <1>6, <1>7, <1>8
<1>. QED BY <1>1, <1>3, <1>9

\* Flattening sequences of the same lengths gives sequences of the same length.
LEMMA FlattenedLengths ==
    ASSUME NEW S, NEW s \in Seq(Seq(S)), NEW U, NEW u \in Seq(Seq(U)),
           Len(s) = Len(u), \A i \in 1 .. Len(s) : Len(s[i]) = Len(u[i])
    PROVE  Len(FlattenSeq(s)) = Len(FlattenSeq(u))
<1>. DEFINE n == Len(s)
<1>0. n \in Nat /\ \A i \in 1 .. n : s[i] \in Seq(S) /\ u[i] \in Seq(U) OBVIOUS
<1>1. CASE n = 0 BY <1>1 DEF FlattenSeq
<1>2. CASE n # 0
  <2>1. PICK f : f = [i \in 1 .. n |-> FlattenBody(s, f, i)] /\ FlattenSeq(s) = f[n]
    BY <1>2, FlattenEquation
  <2>2. PICK g : g = [i \in 1 .. n |-> FlattenBody(u, g, i)] /\ FlattenSeq(u) = g[n]
    BY <1>2, FlattenEquation
  <2>. DEFINE T == { i \in 1 .. n : f[i] \in Seq(S) /\ g[i] \in Seq(U) /\ Len(f[i]) = Len(g[i]) }
              size == [i \in 1 .. n |-> i]
  <2>3. ASSUME NEW i \in 1 .. n, \A k \in 1 .. n : size[k] < size[i] => k \in T PROVE i \in T
    <3>1. f[i] = FlattenBody(s, f, i) /\ g[i] = FlattenBody(u, g, i) BY <2>1, <2>2
    <3>2. CASE i = 1 BY <1>0, <3>1, <3>2 DEF FlattenBody
    <3>3. CASE i # 1
      <4>1. f[i] = f[i - 1] \o s[i] /\ g[i] = g[i - 1] \o u[i] BY <3>1, <3>3 DEF FlattenBody
      <4>2. i - 1 \in T
        <5>1. i - 1 \in 1 .. n /\ size[i - 1] < size[i] BY <1>0, <3>3
        <5>. HIDE DEF T
        <5>. QED BY <2>3, <5>1
      <4>3. f[i - 1] \in Seq(S) /\ g[i - 1] \in Seq(U) /\ Len(f[i - 1]) = Len(g[i - 1]) BY <4>2
      <4>4. \A V, a, b : a \in Seq(V) /\ b \in Seq(V) => a \o b \in Seq(V) /\ Len(a \o b) = Len(a) + Len(b)
        OBVIOUS
      <4>5. s[i] \in Seq(S) /\ u[i] \in Seq(U) /\ Len(s[i]) = Len(u[i]) BY <1>0
      <4>6. f[i] \in Seq(S) /\ Len(f[i]) = Len(f[i - 1]) + Len(s[i])
        <5>1. PICK a, b : a = f[i - 1] /\ b = s[i] OBVIOUS
        <5>3. a \in Seq(S) /\ b \in Seq(S) BY <4>3, <4>5, <5>1, Zenon
        <5>2. a \o b \in Seq(S) /\ Len(a \o b) = Len(a) + Len(b) BY ONLY <5>3
        <5>. QED BY <4>1, <5>1, <5>2, Zenon
      <4>7. g[i] \in Seq(U) /\ Len(g[i]) = Len(g[i - 1]) + Len(u[i]) BY ONLY <4>1, <4>3, <4>4, <4>5
      <4>8. Len(f[i]) = Len(g[i]) BY <4>3, <4>5, <4>6, <4>7
      <4>. QED BY <4>6, <4>7, <4>8
    <3>. QED BY <3>2, <3>3
  <2>4. \A i \in 1 .. n : size[i] \in Nat BY <1>0
  <2>. HIDE DEF T, size
  <2>5. n \in 1 .. n BY <1>0, <1>2
  <2>. HIDE DEF n
  <2>6. 1 .. n \subseteq T
    <3>1. PICK D : D = 1 .. n OBVIOUS
    <3>2. /\ \A i \in D : size[i] \in Nat
          /\ \A i \in D : (\A k \in D : size[k] < size[i] => k \in T) => i \in T
      BY <2>3, <2>4, <3>1, Zenon
    <3>3. D \subseteq T BY ONLY <3>2, Induction
    <3>. QED BY <3>1, <3>3
  <2>7. n \in T BY <2>5, <2>6
  <2>. QED BY <2>1, <2>2, <2>7 DEF T
<1>. QED BY <1>1, <1>2

LEMMA FlatCells ==
    ASSUME NEW columns, NEW rows \in Seq([columns -> Cells]), NEW c \in columns
    PROVE  Flat(rows, c) \in Seq(Cells) /\ Len(Flat(rows, c)) = Len(ExplodeOne(rows, c))
<1>. DEFINE R == [columns -> Cells]
            items == [m \in DOMAIN rows |-> Items(rows[m][c])]
            parts == [m \in DOMAIN rows |->
                        [k \in DOMAIN Items(rows[m][c]) |-> [rows[m] EXCEPT ![c] = Items(@)[k]]]]
<1>1. DOMAIN rows = 1 .. Len(rows) /\ Len(rows) \in Nat /\ \A m \in DOMAIN rows : rows[m] \in R OBVIOUS
<1>2. ASSUME NEW m \in DOMAIN rows
      PROVE  items[m] \in Seq(Cells) /\ parts[m] \in Seq(R) /\ Len(items[m]) = Len(parts[m])
  <2>1. PICK row, its : row = rows[m] /\ its = Items(row[c]) OBVIOUS
  <2>2. row \in R /\ its \in Seq(Cells) BY <1>1, <2>1, ItemsAreCells
  <2>3. items[m] = its /\ parts[m] = [k \in DOMAIN its |-> [row EXCEPT ![c] = its[k]]] BY <2>1
  <2>. HIDE DEF parts, items
  <2>4. \A k \in DOMAIN its : [row EXCEPT ![c] = its[k]] \in R
    BY <2>2
  <2>5. DOMAIN its = 1 .. Len(its) /\ Len(its) \in Nat BY <2>2
  <2>. HIDE DEF R
  <2>. QED BY <2>2, <2>3, <2>4, <2>5
<1>3. items \in Seq(Seq(Cells)) /\ parts \in Seq(Seq(R)) /\ Len(items) = Len(parts) /\ Len(items) = Len(rows)
  <2>1. parts = [m \in 1 .. Len(rows) |-> parts[m]] /\ items = [m \in 1 .. Len(rows) |-> items[m]] BY <1>1
  <2>2. \A m \in 1 .. Len(rows) : parts[m] \in Seq(R) /\ items[m] \in Seq(Cells) BY <1>1, <1>2
  <2>. HIDE DEF parts, items, R
  <2>. QED BY <1>1, <2>1, <2>2
<1>4. ExplodeOne(rows, c) = FlattenSeq(parts) /\ Flat(rows, c) = FlattenSeq(items) BY DEF ExplodeOne, Flat
<1>5. \A m \in 1 .. Len(items) : Len(items[m]) = Len(parts[m]) BY <1>1, <1>2, <1>3
<1>. HIDE DEF parts, items, R
<1>6. FlattenSeq(items) \in Seq(Cells) BY <1>3, Flattened
<1>7. Len(FlattenSeq(items)) = Len(FlattenSeq(parts)) BY <1>3, <1>5, FlattenedLengths
<1>. QED BY <1>4, <1>6, <1>7

\* A list expander leaves a frame with the columns it had.
LEMMA ListExpandedRows ==
    ASSUME NEW columns, NEW rows \in Seq([columns -> Cells]), NEW cs \in Seq(columns), NEW expander,
           expander \in {"zipMin", "zipMax"} => ~ExplodeFails(rows, cs)
    PROVE  ListExpanded(expander, rows, cs) \in Seq([columns -> Cells])
<1>. DEFINE R == [columns -> Cells]
<1>1. ASSUME cs # <<>>, ~ExplodeFails(rows, cs) PROVE Explode(rows, cs) \in Seq(R)
  <2>1. 1 \in DOMAIN cs /\ cs[1] \in columns BY <1>1
  <2>2. PICK first : first = ExplodeOne(rows, cs[1]) OBVIOUS
  <2>3. first \in Seq(R) BY <2>1, <2>2, ExplodedRows
  <2>4. ASSUME NEW c \in ToSet(cs) PROVE Flat(rows, c) \in Seq(Cells) /\ Len(Flat(rows, c)) = Len(first)
    <3>1. c \in columns BY DEF ToSet
    <3>2. Len(Flat(rows, c)) = Len(Flat(rows, cs[1])) BY <1>1 DEF ExplodeFails
    <3>. QED BY <2>1, <2>2, <3>1, <3>2, FlatCells
  <2>. DEFINE row(m) == [c \in DOMAIN first[m] |-> IF c \in ToSet(cs) THEN Flat(rows, c)[m] ELSE first[m][c]]
  <2>5. Explode(rows, cs) = [m \in DOMAIN first |-> row(m)] BY <2>2 DEF Explode
  <2>6. ASSUME NEW m \in DOMAIN first PROVE row(m) \in R
    <3>1. first[m] \in R /\ m \in 1 .. Len(first) BY <2>3
    <3>2. \A c \in ToSet(cs) : Flat(rows, c)[m] \in Cells BY <2>4, <3>1
    <3>3. DOMAIN first[m] = columns /\ \A c \in columns : first[m][c] \in Cells BY <3>1
    <3>. QED BY <3>2, <3>3
  <2>. HIDE DEF row, R
  <2>7. DOMAIN first = 1 .. Len(first) /\ Len(first) \in Nat BY <2>3
  <2>. QED BY <2>5, <2>6, <2>7
<1>. HIDE DEF R
<1>2. ASSUME cs # <<>>, ~ExplodeFails(rows, cs) PROVE WithoutNulls(Explode(rows, cs), cs) \in Seq(R)
  <2>1. PICK e, ns : e = Explode(rows, cs) /\ ns = { m \in DOMAIN e : \A c \in ToSet(cs) : e[m][c] # Null }
    OBVIOUS
  <2>2. e \in Seq(R) BY <1>1, <1>2, <2>1
  <2>3. WithoutNulls(Explode(rows, cs), cs) = Picked(e, ns) BY <2>1 DEF WithoutNulls
  <2>. QED BY <2>2, <2>3, PickedElements
<1>3. ExplodeEach(rows, cs) \in Seq(R) BY ExplodedEach DEF R
<1>4. rows \in Seq(R) BY DEF R
<1>5. CASE expander = "cross" BY <1>3, <1>4, <1>5 DEF ListExpanded, R
<1>6. CASE expander = "zipMin" BY <1>2, <1>4, <1>6 DEF ListExpanded, R
<1>7. CASE expander = "zipMax" BY <1>1, <1>4, <1>7 DEF ListExpanded, R
<1>8. CASE expander \notin {"cross", "zipMin", "zipMax"} BY <1>4, <1>8 DEF ListExpanded, R
<1>. QED BY <1>5, <1>6, <1>7, <1>8

----------------------------------------------------------------------------
\* Calls whose frames have the columns they are said to have.

HasTypedRows(x) == x.rows \in Seq([DOMAIN x.dynamic_columns -> Cells])

\* An instance with as many arguments as the template has parameters.
IsInstance(instance, template) ==
    /\ DOMAIN instance.argument_list = DOMAIN template.parameters
    /\ template.parameters \in Seq(Range(template.parameters))
    /\ \A n \in DOMAIN instance.argument_list :
          IsConstant(instance.argument_list[n]) => ValueOf(instance.argument_list[n]) \in Cells

\* Of the arguments for a parameter, one is given.
LEMMA GivenIsOne ==
    ASSUME NEW instance, NEW template, IsInstance(instance, template),
           NEW ns \in SUBSET DOMAIN instance.argument_list, NEW c \in FormalsAt(template, ns)
    PROVE  \E n \in ns : Formal(template, n) = c /\ Given(c, instance, template, ns) = instance.argument_list[n]
<1>. DEFINE s == { n \in ns : Formal(template, n) = c }
<1>1. DOMAIN instance.argument_list = 1 .. Len(template.parameters) /\ Len(template.parameters) \in Nat
  BY DEF IsInstance
<1>2. s # {} /\ s \in SUBSET (1 .. Len(template.parameters)) BY <1>1 DEF FormalsAt
<1>3. Given(c, instance, template, ns) = instance.argument_list[Max(s)] BY DEF Given
<1>. HIDE DEF s
<1>4. Max(s) \in s BY <1>1, <1>2, Greatest
<1>. QED BY <1>3, <1>4 DEF s

LEMMA UnrolledCells ==
    ASSUME NEW instance, NEW template, IsInstance(instance, template)
    PROVE  UnrolledColumns(instance, template) \in [FormalsAt(template, Unrolled(instance)) -> Cells]
<1>1. ASSUME NEW c \in FormalsAt(template, Unrolled(instance))
      PROVE  ValueOf(Given(c, instance, template, Unrolled(instance))) \in Cells
  <2>1. Unrolled(instance) \in SUBSET DOMAIN instance.argument_list BY DEF Unrolled, ConstantArgs
  <2>2. PICK n \in Unrolled(instance) : Given(c, instance, template, Unrolled(instance)) = instance.argument_list[n]
    BY <2>1, GivenIsOne
  <2>. QED BY <2>2 DEF IsInstance, Unrolled, ConstantArgs
<1>. QED BY <1>1 DEF UnrolledColumns

LEMMA RenamedColumns ==
    ASSUME NEW call, NEW instance, NEW template, IsInstance(instance, template)
    PROVE  \A c \in DOMAIN Renaming(call, instance, template) :
                Renaming(call, instance, template)[c] \in DOMAIN call.dynamic_columns
<1>1. ASSUME NEW c \in FormalsAt(template, Dynamic(call, instance))
      PROVE  NameOf(Given(c, instance, template, Dynamic(call, instance))) \in DOMAIN call.dynamic_columns
  <2>1. Dynamic(call, instance) \in SUBSET DOMAIN instance.argument_list BY DEF Dynamic, VariablesOf
  <2>2. PICK n \in Dynamic(call, instance) :
            Given(c, instance, template, Dynamic(call, instance)) = instance.argument_list[n]
    BY <2>1, GivenIsOne
  <2>. QED BY <2>2 DEF Dynamic
<1>. QED BY <1>1 DEF Renaming

\* Constants as columns beside typed columns.
LEMMA WithColumnsTyped ==
    ASSUME NEW columns, NEW rows \in Seq([columns -> Cells]), NEW names, NEW constants \in [names -> Cells]
    PROVE  WithColumns(rows, columns, constants) \in Seq([columns \union names -> Cells])
<1>1. CASE columns = {} /\ names = {} BY <1>1 DEF WithColumns
<1>2. CASE columns = {} /\ names # {}
  <2>1. WithColumns(rows, columns, constants) = <<constants>> BY <1>2 DEF WithColumns
  <2>2. columns \union names = names BY <1>2
  <2>. QED BY <2>1, <2>2
<1>3. CASE columns # {}
  <2>1. WithColumns(rows, columns, constants) = [m \in DOMAIN rows |-> Over(constants, rows[m])]
    BY <1>3 DEF WithColumns
  <2>2. DOMAIN rows = 1 .. Len(rows) /\ Len(rows) \in Nat OBVIOUS
  <2>3. ASSUME NEW m \in DOMAIN rows PROVE Over(constants, rows[m]) \in [columns \union names -> Cells]
    <3>1. PICK row : row = rows[m] OBVIOUS
    <3>2. row \in [columns -> Cells] BY <3>1
    <3>3. DOMAIN constants = names /\ DOMAIN row = columns BY <3>2
    <3>4. Over(constants, row)
            = [x \in names \union columns |-> IF x \in names THEN constants[x] ELSE row[x]]
      BY <3>3 DEF Over
    <3>5. \A x \in names \union columns : (IF x \in names THEN constants[x] ELSE row[x]) \in Cells BY <3>2
    <3>6. PICK over : over = Over(constants, row) OBVIOUS
    <3>7. over \in [names \union columns -> Cells] BY <3>4, <3>5, <3>6
    <3>8. names \union columns = columns \union names OBVIOUS
    <3>. QED BY <3>1, <3>6, <3>7, <3>8
  <2>4. PICK R, new : R = [columns \union names -> Cells] /\ new = [m \in DOMAIN rows |-> Over(constants, rows[m])]
    OBVIOUS
  <2>5. \A m \in DOMAIN rows : new[m] \in R BY <2>3, <2>4
  <2>6. new \in Seq(R)
    <3>1. PICK k \in Nat : k = Len(rows) BY <2>2
    <3>2. DOMAIN new = 1 .. k /\ new = [m \in 1 .. k |-> new[m]] /\ \A m \in 1 .. k : new[m] \in R
      BY <2>2, <2>4, <2>5, <3>1
    <3>. QED BY ONLY <3>1, <3>2
  <2>. QED BY <2>1, <2>4, <2>6
<1>. QED BY <1>1, <1>2, <1>3

LEMMA RowsForTyped ==
    ASSUME NEW call, HasTypedRows(call), NEW instance, NEW template, IsInstance(instance, template)
    PROVE  RowsFor(call, instance, template)
                \in Seq([DOMAIN DynamicFor(call, instance, template) -> Cells])
<1>1. PICK renaming : renaming = Renaming(call, instance, template) OBVIOUS
<1>2. \A c \in DOMAIN renaming : renaming[c] \in DOMAIN call.dynamic_columns BY <1>1, RenamedColumns
<1>3. PICK rows : rows = call.rows OBVIOUS
<1>4. DOMAIN rows = 1 .. Len(rows) /\ Len(rows) \in Nat
      /\ \A m \in DOMAIN rows : rows[m] \in [DOMAIN call.dynamic_columns -> Cells]
  BY <1>3 DEF HasTypedRows
<1>5. PICK renamed : renamed = [m \in DOMAIN rows |-> Renamed(rows[m], renaming)] OBVIOUS
<1>6. \A m \in DOMAIN rows : Renamed(rows[m], renaming) \in [DOMAIN renaming -> Cells]
  BY <1>2, <1>4 DEF Renamed
<1>7. renamed \in Seq([DOMAIN renaming -> Cells]) BY <1>4, <1>5, <1>6
<1>8. UnrolledColumns(instance, template) \in [FormalsAt(template, Unrolled(instance)) -> Cells]
  BY UnrolledCells
<1>9. RowsFor(call, instance, template) = WithColumns(renamed, DOMAIN renaming, UnrolledColumns(instance, template))
  BY <1>1, <1>3, <1>5 DEF RowsFor
<1>10. RowsFor(call, instance, template)
            \in Seq([DOMAIN renaming \union FormalsAt(template, Unrolled(instance)) -> Cells])
  <2>1. PICK columns, names, constants :
            /\ columns = DOMAIN renaming /\ names = FormalsAt(template, Unrolled(instance))
            /\ constants = UnrolledColumns(instance, template)
    OBVIOUS
  <2>2. renamed \in Seq([columns -> Cells]) /\ constants \in [names -> Cells] BY <1>7, <1>8, <2>1
  <2>3. WithColumns(renamed, columns, constants) \in Seq([columns \union names -> Cells])
    BY <2>2, WithColumnsTyped
  <2>. QED BY <1>9, <2>1, <2>3
<1>11. DOMAIN DynamicFor(call, instance, template)
            = DOMAIN renaming \union FormalsAt(template, Unrolled(instance))
  BY <1>1 DEF DynamicFor, Renaming
<1>. QED BY <1>10, <1>11

LEMMA ToExpandTyped ==
    ASSUME NEW call, NEW instance, NEW template, IsInstance(instance, template)
    PROVE  ToExpand(call, instance, template) \in Seq(DOMAIN DynamicFor(call, instance, template))
<1>. DEFINE dynamic == { n \in Dynamic(call, instance) : instance.argument_list[n].list_expand }
            ns == Ordered(instance, dynamic) \o Ordered(instance, Unrolled(instance))
            positions == [n \in DOMAIN instance.argument_list |-> n]
            T == Dynamic(call, instance) \union Unrolled(instance)
<1>1. DOMAIN instance.argument_list = 1 .. Len(template.parameters) /\ Len(template.parameters) \in Nat
  BY DEF IsInstance
<1>2. positions \in Seq(Nat) /\ DOMAIN positions = DOMAIN instance.argument_list BY <1>1
<1>3. ASSUME NEW part \in SUBSET T
      PROVE  Ordered(instance, part) \in Seq(Nat) /\ ToSet(Ordered(instance, part)) \subseteq T
  <2>1. Ordered(instance, part) = Picked(positions, part) BY DEF Ordered
  <2>2. \A n \in part \intersect DOMAIN positions : positions[n] = n OBVIOUS
  <2>. HIDE DEF positions, T
  <2>3. /\ Picked(positions, part) \in Seq(Nat)
        /\ ToSet(Picked(positions, part)) = { positions[n] : n \in part \intersect DOMAIN positions }
    BY <1>2, PickedElements
  <2>. QED BY <2>1, <2>2, <2>3
<1>4. dynamic \in SUBSET T /\ Unrolled(instance) \in SUBSET T OBVIOUS
<1>. HIDE DEF positions, dynamic, T
<1>5. /\ Ordered(instance, dynamic) \in Seq(Nat) /\ ToSet(Ordered(instance, dynamic)) \subseteq T
      /\ Ordered(instance, Unrolled(instance)) \in Seq(Nat) /\ ToSet(Ordered(instance, Unrolled(instance))) \subseteq T
  BY <1>3, <1>4
<1>6. ns \in Seq(Nat) /\ ToSet(ns) \subseteq T
  <2>1. ToSet(ns) = ToSet(Ordered(instance, dynamic)) \union ToSet(Ordered(instance, Unrolled(instance)))
        /\ ns \in Seq(Nat)
    BY <1>5, ElementsOfConcat
  <2>. QED BY <1>5, <2>1
<1>7. ToExpand(call, instance, template) = [k \in DOMAIN ns |-> Formal(template, ns[k])]
  BY DEF ToExpand, dynamic
<1>. HIDE DEF ns
<1>8. ASSUME NEW k \in DOMAIN ns PROVE Formal(template, ns[k]) \in DOMAIN DynamicFor(call, instance, template)
  <2>1. ns[k] \in T BY <1>6 DEF ToSet
  <2>2. DOMAIN DynamicFor(call, instance, template)
            = FormalsAt(template, Dynamic(call, instance)) \union FormalsAt(template, Unrolled(instance))
    BY DEF DynamicFor
  <2>. QED BY <2>1, <2>2 DEF FormalsAt, T
<1>9. DOMAIN ns = 1 .. Len(ns) /\ Len(ns) \in Nat BY <1>6
<1>. QED BY <1>7, <1>8, <1>9

\* What a call hands on is typed if it is.
LEMMA RemappedTyped ==
    ASSUME NEW call, HasTypedRows(call), NEW i, NEW instance, NEW template, IsInstance(instance, template),
           ~RemapFails(call, instance, template), ~RemapPanics(call, instance, template)
    PROVE  HasTypedRows(Remapped(call, i, instance, template))
<1>1. PICK columns, rows, cs, expander :
          /\ columns = DOMAIN DynamicFor(call, instance, template)
          /\ rows = RowsFor(call, instance, template)
          /\ cs = ToExpand(call, instance, template)
          /\ expander = instance.list_expander
  OBVIOUS
<1>2. rows \in Seq([columns -> Cells]) /\ cs \in Seq(columns) BY <1>1, RowsForTyped, ToExpandTyped
<1>3. expander \in {"zipMin", "zipMax"} => ~ExplodeFails(rows, cs) BY <1>1 DEF RemapPanics
<1>4. ListExpanded(expander, rows, cs) \in Seq([columns -> Cells]) BY <1>2, <1>3, ListExpandedRows
<1>5. /\ Remapped(call, i, instance, template).rows = ListExpanded(expander, rows, cs)
      /\ DOMAIN Remapped(call, i, instance, template).dynamic_columns = columns
  BY <1>1 DEF Remapped
<1>. QED BY <1>4, <1>5 DEF HasTypedRows

----------------------------------------------------------------------------
\* The invariant.

Fields == {"name", "prefixed", "templates", "df", "unique_subsets", "pk_col", "fk_cols"}

IsIRIOrNull(predicate) == predicate = Null \/ (predicate \in Terms /\ TermType[predicate] = IRIType)
InputOK ==
    /\ DOMAIN input = Fields
    /\ IsDataFrame(input.df)
    /\ IsDataset(input.templates)
    /\ input.pk_col # Null => \A c \in DOMAIN input.df.dtypes : IsIRIOrNull(DefaultPredicate[c])
    /\ stage = "default" => input.pk_col # Null /\ input.name \notin DOMAIN input.templates

\* A call or an instance of ottr:Triple has every parameter once.
HasParametersOnce(x) ==
    /\ DOMAIN x.dynamic_columns \union DOMAIN x.static_columns = {Subject, Verb, Object}
    /\ DOMAIN x.dynamic_columns \intersect DOMAIN x.static_columns = {}

CallsOK ==
    \A call \in calls :
        /\ call.name \in DOMAIN input.templates
        /\ call.name = OTTR_TRIPLE => HasParametersOnce(call)

\* The subsets of a call are columns of its frame, and unique there.
HoldsUnique(rows, s) == (\A m \in DOMAIN rows : s \subseteq DOMAIN rows[m]) /\ IsUnique(rows, s)
SubsetsOK(call) ==
    \A s \in call.unique_subsets : s \subseteq DOMAIN call.dynamic_columns /\ HoldsUnique(call.rows, s)
CallsUnique == DeclaredAsIs => \A call \in calls : SubsetsOK(call)
InstancesUnique ==
    DeclaredAsIs =>
        \A i \in instances :
            i.has_unique_subset => \E s \in SUBSET DOMAIN i.dynamic_columns : HoldsUnique(i.rows, s)

\* Nothing has happened before "expand" has looked at the columns.
NothingBefore == stage \in {"default", "called"} => calls = {} /\ instances = {} /\ added = {}

IInv ==
    /\ InputOK /\ NothingBefore
    /\ CallsOK /\ InstancesAreTriples
    /\ CallsUnique /\ InstancesUnique /\ UniqueSubsetsHold

----------------------------------------------------------------------------
\* Frames.

\* Constants that are added as columns leave a subset of other columns unique.
LEMMA ConstantsKeepUnique ==
    ASSUME NEW rows, NEW columns, NEW constants, NEW s \in SUBSET columns,
           HoldsUnique(rows, s), s \intersect DOMAIN constants = {}
    PROVE  HoldsUnique(WithColumns(rows, columns, constants), s)
<1>1. CASE columns = {}
  <2>1. s = {} BY <1>1
  <2>2. \A m, n \in DOMAIN WithColumns(rows, columns, constants) : m = n
    BY <1>1 DEF WithColumns
  <2>. QED BY <2>1, <2>2 DEF HoldsUnique, IsUnique
<1>2. CASE columns # {}
  <2>1. WithColumns(rows, columns, constants) = [m \in DOMAIN rows |-> Over(constants, rows[m])]
    BY <1>2 DEF WithColumns
  <2>2. ASSUME NEW m \in DOMAIN rows
        PROVE  /\ s \subseteq DOMAIN Over(constants, rows[m])
               /\ \A c \in s : Over(constants, rows[m])[c] = rows[m][c]
    <3>1. s \subseteq DOMAIN rows[m] BY DEF HoldsUnique
    <3>. QED BY <3>1 DEF Over
  <2>. QED BY <2>1, <2>2 DEF HoldsUnique, IsUnique
<1>. QED BY <1>1, <1>2

\* A subset whose columns are all handed on is unique under their new names, even
\* if a column is handed on under two.
LEMMA RenamingKeepsUnique ==
    ASSUME NEW rows, NEW renaming, NEW s, s \subseteq Range(renaming), HoldsUnique(rows, s)
    PROVE  HoldsUnique([m \in DOMAIN rows |-> Renamed(rows[m], renaming)],
                       { c \in DOMAIN renaming : renaming[c] \in s })
<1>. DEFINE t == { c \in DOMAIN renaming : renaming[c] \in s }
            renamed == [m \in DOMAIN rows |-> Renamed(rows[m], renaming)]
<1>1. ASSUME NEW m \in DOMAIN rows
      PROVE  t \subseteq DOMAIN renamed[m] /\ \A c \in t : renamed[m][c] = rows[m][renaming[c]]
  BY DEF Renamed
<1>2. ASSUME NEW m \in DOMAIN rows, NEW n \in DOMAIN rows, \A c \in t : renamed[m][c] = renamed[n][c]
      PROVE  m = n
  <2>1. ASSUME NEW x \in s PROVE rows[m][x] = rows[n][x]
    <3>1. PICK c \in t : renaming[c] = x BY DEF Range
    <3>. QED BY <1>1, <1>2, <3>1
  <2>. QED BY <2>1 DEF HoldsUnique, IsUnique
<1>. QED BY <1>1, <1>2 DEF HoldsUnique, IsUnique

----------------------------------------------------------------------------
\* What a call hands on.

\* No column of the new frame comes both from the old frame and from a constant.
LEMMA ColumnsAreApart ==
    ASSUME NEW call, NEW instance, NEW template,
           ~RemapFails(call, instance, template), ~RemapPanics(call, instance, template)
    PROVE  DOMAIN Renaming(call, instance, template)
                \intersect DOMAIN UnrolledColumns(instance, template) = {}
<1>1. SUFFICES ASSUME NEW n \in Dynamic(call, instance), NEW k \in Unrolled(instance),
                      Formal(template, n) = Formal(template, k)
               PROVE  FALSE
  BY DEF Renaming, UnrolledColumns, FormalsAt
<1>2. n # k BY DEF Dynamic, VariablesOf, Unrolled, ConstantArgs, IsVariable, IsConstant
<1>. QED BY <1>1, <1>2 DEF RemapPanics

LEMMA SubsetsAreHandedOn ==
    ASSUME NEW call, NEW i, NEW instance, NEW template, SubsetsOK(call),
           ~RemapFails(call, instance, template), ~RemapPanics(call, instance, template)
    PROVE  SubsetsOK(Remapped(call, i, instance, template))
<1>. DEFINE renaming == Renaming(call, instance, template)
            t(s) == { c \in DOMAIN renaming : renaming[c] \in s }
            rows == RowsFor(call, instance, template)
            next == Remapped(call, i, instance, template)
<1>1. SUFFICES ASSUME instance.list_expander = "none",
                      NEW s \in call.unique_subsets, s \subseteq Range(renaming)
               PROVE  t(s) \subseteq DOMAIN next.dynamic_columns /\ HoldsUnique(next.rows, t(s))
  <2>1. next.unique_subsets = SubsetsFor(call, instance, template) BY DEF Remapped
  <2>. QED BY <2>1, <1>1 DEF SubsetsOK, SubsetsFor, KeptSubsets
<1>2. next.rows = rows
  BY <1>1 DEF Remapped, ListExpanded
<1>3. DOMAIN renaming \subseteq DOMAIN next.dynamic_columns
  <2>1. DOMAIN next.dynamic_columns
            = FormalsAt(template, Dynamic(call, instance)) \union FormalsAt(template, Unrolled(instance))
    BY DEF Remapped, DynamicFor
  <2>. QED BY <2>1 DEF Renaming
<1>4. HoldsUnique([m \in DOMAIN call.rows |-> Renamed(call.rows[m], renaming)], t(s))
  BY <1>1, RenamingKeepsUnique DEF SubsetsOK
<1>5. t(s) \intersect DOMAIN UnrolledColumns(instance, template) = {}
  BY ColumnsAreApart
<1>6. HoldsUnique(rows, t(s))
  BY <1>4, <1>5, ConstantsKeepUnique DEF RowsFor
<1>. QED BY <1>2, <1>3, <1>6

\* The parameters of ottr:Triple.
LEMMA ParametersOfTriple ==
    ASSUME NEW templates, IsDataset(templates)
    PROVE  /\ DOMAIN templates[OTTR_TRIPLE].parameters = 1 .. 3
           /\ Formal(templates[OTTR_TRIPLE], 1) = Subject
           /\ Formal(templates[OTTR_TRIPLE], 2) = Verb
           /\ Formal(templates[OTTR_TRIPLE], 3) = Object
<1>. DEFINE f == [n \in 1 .. 3 |-> Formal(templates[OTTR_TRIPLE], n)]
<1>1. f = <<Subject, Verb, Object>> BY DEF IsDataset
<1>2. f[1] = Subject /\ f[2] = Verb /\ f[3] = Object BY ONLY <1>1
<1>3. DOMAIN templates[OTTR_TRIPLE].parameters = 1 .. 3 BY DEF IsDataset
<1>. QED BY <1>2, <1>3

LEMMA InstancesOfTriple ==
    ASSUME NEW call, NEW i, call.name \in DOMAIN input.templates, i \in DOMAIN InstancesOf(call),
           IsDataset(input.templates), ~CannotCount(call),
           InstancesOf(call)[i].template_name = OTTR_TRIPLE
    PROVE  HasParametersOnce(RemappedAt(call, i))
<1>. DEFINE instance == InstancesOf(call)[i]
            args == instance.argument_list
            template == CalleeOf(instance)
            columns == Dynamic(call, instance) \union Unrolled(instance)
            others == Static(call, instance) \union Fixed(instance)
            next == RemappedAt(call, i)
<1>1. /\ DOMAIN next.dynamic_columns = FormalsAt(template, columns)
      /\ DOMAIN next.static_columns = FormalsAt(template, others)
  BY DEF RemappedAt, Remapped, DynamicFor, StaticFor, FormalsAt
<1>2. /\ DOMAIN args = 1 .. 3
      /\ Formal(template, 1) = Subject /\ Formal(template, 2) = Verb /\ Formal(template, 3) = Object
  <2>1. DOMAIN args = DOMAIN template.parameters BY DEF IsDataset, InstancesOf, CalleeOf
  <2>. QED BY <2>1, ParametersOfTriple DEF CalleeOf
<1>3. columns \intersect others = {}
  BY DEF Dynamic, Static, Unrolled, Fixed, VariablesOf, ConstantArgs, IsVariable, IsConstant
<1>4. columns \union others = DOMAIN args
  <2>1. ASSUME NEW n \in DOMAIN args PROVE n \in columns \union others
    <3>1. args[n].term.is \in {"Variable", "Constant"}
      BY ZenonT(40) DEF IsDataset, InstancesOf, CannotCount
    <3>2. CASE args[n].term.is = "Variable"
      <4>1. NameOf(args[n]) \in DOMAIN call.dynamic_columns
        BY <3>2 DEF CannotCount, NamesOf, VariablesOf, IsVariable
      <4>. QED BY <3>2, <4>1 DEF Dynamic, VariablesOf, IsVariable
    <3>3. CASE args[n].term.is = "Constant"
      BY <3>3 DEF Unrolled, Fixed, ConstantArgs, IsConstant
    <3>. QED BY <3>1, <3>2, <3>3
  <2>. QED BY <2>1 DEF Dynamic, Static, Unrolled, Fixed, VariablesOf, ConstantArgs
<1>. HIDE DEF columns, others, template, args, next
<1>5. FormalsAt(template, columns) \union FormalsAt(template, others) = {Subject, Verb, Object}
  BY <1>2, <1>4 DEF FormalsAt
<1>6. FormalsAt(template, columns) \intersect FormalsAt(template, others) = {}
  <2>1. \A n, k \in 1 .. 3 : Formal(template, n) = Formal(template, k) => n = k
    BY <1>2 DEF Subject, Verb, Object
  <2>. QED BY <1>2, <1>3, <1>4, <2>1 DEF FormalsAt
<1>. QED BY <1>1, <1>5, <1>6 DEF HasParametersOnce, next

\* create_triples keeps all columns of a unique subset: a column that is left out
\* or comes from a constant is none of them.
LEMMA TriplesAreUnique ==
    ASSUME NEW i, HasParametersOnce(i),
           NEW s \in SUBSET DOMAIN i.dynamic_columns, HoldsUnique(i.rows, s)
    PROVE  \A m, n \in DOMAIN TriplesOf(i).rows : TriplesOf(i).rows[m] = TriplesOf(i).rows[n] => m = n
<1>. DEFINE constants == [c \in Added(i) |-> i.static_columns[c].value]
            rows == WithColumns(i.rows, DOMAIN i.dynamic_columns, constants)
            columns == {Subject, Object} \union (IF Verb \in DOMAIN i.static_columns THEN {} ELSE {Verb})
<1>1. TriplesOf(i).rows = [m \in DOMAIN rows |-> [c \in columns |-> rows[m][c]]]
  BY DEF TriplesOf
<1>2. s \intersect DOMAIN constants = {} BY DEF HasParametersOnce, Added
<1>3. s \subseteq columns BY DEF HasParametersOnce
<1>4. HoldsUnique(rows, s) BY <1>2, ConstantsKeepUnique
<1>. HIDE DEF rows, columns
<1>5. SUFFICES ASSUME NEW m \in DOMAIN rows, NEW n \in DOMAIN rows,
                      [c \in columns |-> rows[m][c]] = [c \in columns |-> rows[n][c]]
               PROVE  m = n
  BY <1>1
<1>6. ASSUME NEW x \in s PROVE rows[m][x] = rows[n][x]
  <2>1. [c \in columns |-> rows[m][c]][x] = [c \in columns |-> rows[n][c]][x] BY <1>5
  <2>. QED BY <2>1, <1>3
<1>. QED BY <1>4, <1>6 DEF HoldsUnique, IsUnique

----------------------------------------------------------------------------
\* Steps.

LEMMA InitIInv == Init => IInv
<1>. SUFFICES ASSUME Init PROVE IInv OBVIOUS
<1>1. InputOK
  <2>1. input \in Expansions /\ (stage = "default" => input.pk_col # Null) BY DEF Init
  <2>2. /\ DOMAIN input = Fields /\ IsDataFrame(input.df) /\ IsDataset(input.templates)
        /\ input.pk_col # Null =>
                /\ input.name \notin DOMAIN input.templates
                /\ \A c \in DOMAIN input.df.dtypes : IsIRIOrNull(DefaultPredicate[c])
    <3>1. PICK e : e = input OBVIOUS
    <3>2. e \in Expansions BY <2>1, <3>1
    <3>. QED BY <3>1, <3>2, ExpansionsAssumption DEF Fields, IsIRIOrNull
  <2>. QED BY <2>1, <2>2 DEF InputOK
<1>. QED BY <1>1 DEF Init, IInv, NothingBefore, CallsOK, InstancesAreTriples, CallsUnique,
            InstancesUnique, UniqueSubsetsHold

\* The template that expand_default makes fits in the dataset.
LEMMA DefaultTemplatesFit ==
    ASSUME NEW templates, NEW name, NEW df, IsDataset(templates), name \notin DOMAIN templates,
           IsFiniteSet(DOMAIN df.dtypes), \A c \in DOMAIN df.dtypes : IsIRIOrNull(DefaultPredicate[c])
    PROVE  IsDataset(Over([n \in {name} |-> DefaultTemplate(df)], templates))
<1>. DEFINE t == Over([n \in {name} |-> DefaultTemplate(df)], templates)
            IsArgument(argument) == /\ argument.term.is \in {"Variable", "Constant", "List"}
                                    /\ argument.term.is = "Constant" => argument.term.value \in Cells
<1>1. DOMAIN t = DOMAIN templates \union {name} BY DEF Over
<1>2. t[name] = DefaultTemplate(df) BY DEF Over
<1>3. \A m \in DOMAIN templates : t[m] = templates[m] BY DEF Over
<1>4. OTTR_TRIPLE \in DOMAIN templates BY DEF IsDataset
<1>. HIDE DEF t
<1>5. /\ DOMAIN t[OTTR_TRIPLE].parameters = 1 .. 3
      /\ [n \in 1 .. 3 |-> Formal(t[OTTR_TRIPLE], n)] = <<Subject, Verb, Object>>
  BY <1>3, <1>4 DEF IsDataset
<1>6. /\ t[OTTR_TRIPLE].pattern_list = <<>>
      /\ \A n \in 1 .. 3 : ~t[OTTR_TRIPLE].parameters[n].optional
  BY <1>3, <1>4 DEF IsDataset
<1>7. IsFiniteSet(DOMAIN t)
  BY <1>1, FS_AddElement DEF IsDataset
<1>8. ASSUME NEW m \in DOMAIN t
      PROVE  /\ t[m].parameters \in Seq(Range(t[m].parameters))
             /\ \A n \in DOMAIN t[m].parameters : t[m].parameters[n].ptype \in MaybeType
  <2>1. CASE m \in DOMAIN templates
    <3>1. /\ templates[m].parameters \in Seq(Range(templates[m].parameters))
          /\ \A n \in DOMAIN templates[m].parameters : templates[m].parameters[n].ptype \in MaybeType
      BY <2>1 DEF IsDataset
    <3>. QED BY <1>3, <2>1, <3>1
  <2>2. CASE m = name
    <3>1. PICK C : C = Columns(df) OBVIOUS
    <3>2. C \in Seq(DOMAIN df.dtypes) BY <3>1, OrderOfColumns
    <3>3. PICK parameters : parameters = [n \in DOMAIN C |-> DefaultParameter(df, C[n])] OBVIOUS
    <3>4. DOMAIN parameters = 1 .. Len(C) /\ Len(C) \in Nat BY <3>2, <3>3
    <3>5. parameters = [n \in 1 .. Len(C) |-> parameters[n]] BY <3>3, <3>4
    <3>6. \A n \in 1 .. Len(C) : parameters[n] \in Range(parameters) BY <3>4 DEF Range
    <3>7. parameters \in Seq(Range(parameters)) BY <3>4, <3>5, <3>6
    <3>8. t[m].parameters = parameters BY <1>2, <2>2, <3>1, <3>3 DEF DefaultTemplate
    <3>9. Basic(IRIType) \in PType BY NamedTypesAssumption DEF Basic, PType
    <3>10. \A n \in DOMAIN parameters : parameters[n].ptype \in MaybeType
      BY <3>3, <3>9 DEF DefaultParameter, MaybeType
    <3>. QED BY <3>7, <3>8, <3>10
  <2>. QED BY <1>1, <2>1, <2>2
<1>9. ASSUME NEW m \in DOMAIN t, NEW i \in DOMAIN t[m].pattern_list
      PROVE  /\ t[m].pattern_list[i].template_name \in DOMAIN t
             /\ DOMAIN t[m].pattern_list[i].argument_list
                    = DOMAIN t[t[m].pattern_list[i].template_name].parameters
             /\ \A n \in DOMAIN t[m].pattern_list[i].argument_list :
                    IsArgument(t[m].pattern_list[i].argument_list[n])
  <2>1. CASE m \in DOMAIN templates
    <3>1. t[m] = templates[m] BY <1>3, <2>1
    <3>2. /\ templates[m].pattern_list[i].template_name \in DOMAIN templates
          /\ DOMAIN templates[m].pattern_list[i].argument_list
                = DOMAIN templates[templates[m].pattern_list[i].template_name].parameters
          /\ \A n \in DOMAIN templates[m].pattern_list[i].argument_list :
                IsArgument(templates[m].pattern_list[i].argument_list[n])
      BY <2>1, <3>1, <1>9 DEF IsDataset
    <3>. HIDE DEF IsArgument
    <3>. QED BY <3>1, <3>2, <1>1, <1>3
  <2>2. CASE m = name
    <3>1. PICK c \in DOMAIN df.dtypes : t[m].pattern_list[i] = DefaultInstance(df, c)
      <4>1. PICK others : others = OtherColumns(df) OBVIOUS
      <4>2. DefaultTemplate(df).pattern_list = [n \in DOMAIN others |-> DefaultInstance(df, others[n])]
        BY <4>1 DEF DefaultTemplate
      <4>3. i \in DOMAIN others /\ t[m].pattern_list[i] = DefaultInstance(df, others[i])
        BY <1>2, <1>9, <2>2, <4>2
      <4>4. others \in Seq(DOMAIN df.dtypes) BY <4>1, OrderOfColumns
      <4>5. others[i] \in DOMAIN df.dtypes BY <4>3, <4>4
      <4>. QED BY <4>3, <4>5
    <3>2. DefaultPredicate[c] \in Cells BY CellsAssumption DEF IsIRIOrNull
    <3>3. PICK instance : instance = DefaultInstance(df, c) OBVIOUS
    <3>4. /\ instance.template_name = OTTR_TRIPLE
          /\ DOMAIN instance.argument_list = 1 .. 3
          /\ \A n \in 1 .. 3 : IsArgument(instance.argument_list[n])
      BY <3>2, <3>3 DEF DefaultInstance, Variable
    <3>. HIDE DEF IsArgument
    <3>. QED BY <3>1, <3>3, <3>4, <1>1, <1>4, <1>5
  <2>. QED BY <2>1, <2>2, <1>1
<1>. QED BY <1>1, <1>4, <1>5, <1>6, <1>7, <1>8, <1>9 DEF IsDataset, t

\* expand_default changes the dataset and the types of columns, no more.
LEMMA ExpandDefaultIInv == IInv /\ ExpandDefault => IInv'
<1>. SUFFICES ASSUME IInv, ExpandDefault PROVE IInv' OBVIOUS
<1>1. calls = {} /\ instances = {} /\ added = {}
  BY DEF IInv, NothingBefore, ExpandDefault
<1>2. calls' = {} /\ instances' = {} /\ added' = {}
  <2>1. added' = added /\ calls' = calls /\ instances' = instances BY DEF ExpandDefault
  <2>. QED BY <1>1, <2>1
<1>3. InputOK'
  <2>1. CASE UNCHANGED input /\ stage' = "panicked" BY <2>1 DEF IInv, InputOK
  <2>2. CASE /\ ~DefaultPanics /\ stage' = "called"
             /\ input' = [input EXCEPT
                  !.templates = Over([n \in {input.name} |-> DefaultTemplate(input.df)], @),
                  !.df.dtypes = [c \in DOMAIN @ |-> IF IsKey(c) THEN Basic(StringType) ELSE @[c]]]
    <3>. DEFINE dtypes == [c \in DOMAIN input.df.dtypes |->
                              IF IsKey(c) THEN Basic(StringType) ELSE input.df.dtypes[c]]
    <3>1. /\ DOMAIN input = Fields /\ IsDataFrame(input.df) /\ IsDataset(input.templates)
          /\ input.pk_col # Null /\ input.name \notin DOMAIN input.templates
          /\ \A c \in DOMAIN input.df.dtypes : IsIRIOrNull(DefaultPredicate[c])
      BY DEF IInv, InputOK, ExpandDefault
    <3>2. /\ DOMAIN input' = Fields /\ DOMAIN input.df' = {"dtypes", "rows"}
          /\ input.templates' = Over([n \in {input.name} |-> DefaultTemplate(input.df)], input.templates)
          /\ input.df.rows' = input.df.rows /\ input.df.dtypes' = dtypes
      BY <2>2, <3>1 DEF Fields, IsDataFrame
    <3>3. IsDataset(Over([n \in {input.name} |-> DefaultTemplate(input.df)], input.templates))
      BY <3>1, DefaultTemplatesFit DEF IsDataFrame
    <3>4. IsDataset(input.templates)'
      <4>1. PICK t : t = Over([n \in {input.name} |-> DefaultTemplate(input.df)], input.templates)
        OBVIOUS
      <4>2. input.templates' = t /\ IsDataset(t) BY <3>2, <3>3, <4>1
      <4>. QED BY ONLY <4>2, SMTT(20) DEF IsDataset
    <3>5. DOMAIN dtypes = DOMAIN input.df.dtypes OBVIOUS
    <3>6. ASSUME NEW c \in DOMAIN dtypes
          PROVE  dtypes[c] \in PType /\ (dtypes[c].lists = <<>> <=> input.df.dtypes[c].lists = <<>>)
      <4>1. CASE IsKey(c)
        <5>1. dtypes[c] = Basic(StringType) /\ input.df.dtypes[c].lists = <<>>
          BY <2>2, <4>1 DEF DefaultPanics, IsListColumn
        <5>2. <<>> \in Seq(Constructors) /\ StringType \in BasicTypes BY NamedTypesAssumption
        <5>3. Basic(StringType) \in PType /\ Basic(StringType).lists = <<>> BY <5>2 DEF Basic, PType
        <5>. QED BY <5>1, <5>3
      <4>2. CASE ~IsKey(c) BY <3>1, <4>2 DEF IsDataFrame
      <4>. QED BY <4>1, <4>2
    <3>. HIDE DEF dtypes
    <3>7. IsDataFrame(input.df)'
      <4>1. PICK rows : rows = input.df.rows OBVIOUS
      <4>2. /\ IsFiniteSet(DOMAIN dtypes) /\ rows \in Seq([DOMAIN dtypes -> Cells])
            /\ \A c \in DOMAIN dtypes : \A m \in DOMAIN rows :
                    rows[m][c] = Null \/ (rows[m][c] \in Terms <=> dtypes[c].lists = <<>>)
        BY <3>1, <3>5, <3>6, <4>1 DEF IsDataFrame
      <4>. QED BY <3>2, <3>6, <4>1, <4>2 DEF IsDataFrame
    <3>8. input.pk_col' = input.pk_col BY <2>2, <3>1 DEF Fields
    <3>. QED BY <2>2, <3>1, <3>2, <3>4, <3>5, <3>7, <3>8 DEF InputOK, IsIRIOrNull
  <2>. QED BY <2>1, <2>2 DEF ExpandDefault
<1>. QED BY <1>2, <1>3 DEF IInv, NothingBefore, CallsOK, InstancesAreTriples, CallsUnique,
            InstancesUnique, UniqueSubsetsHold

\* The first call has the columns of the frame, and the subsets of the caller.
LEMMA ExpandIInv == IInv /\ Expand => IInv'
<1>. SUFFICES ASSUME IInv, Expand PROVE IInv' OBVIOUS
<1>1. instances = {} /\ added = {} /\ calls = {}
  BY DEF IInv, NothingBefore, Expand
<1>2. UNCHANGED <<input, instances, added>> BY DEF Expand
<1>3. stage' \notin {"default", "called"}
  BY DEF Expand, Validation
<1>4. InputOK'
  BY <1>2, <1>3 DEF IInv, InputOK
<1>5. CASE stage' = "expanding"
  <2>1. /\ IsTemplate(Resolved(input.name)) /\ calls' = {FirstCall}
        /\ Validation(target, input.df) = "expanding"
    BY <1>5 DEF Expand
  <2>2. DOMAIN input.df.dtypes \subseteq Formals(target)
    BY <2>1 DEF Validation
  <2>3. DOMAIN FirstCall.dynamic_columns = Formals(target) /\ DOMAIN FirstCall.static_columns = {}
    BY DEF FirstCall, ColumnTypes
  <2>4. CallsOK'
    <3>1. FirstCall.name \in DOMAIN input.templates BY <2>1 DEF FirstCall, IsTemplate
    <3>2. ASSUME FirstCall.name = OTTR_TRIPLE PROVE HasParametersOnce(FirstCall)
      <4>1. target = input.templates[OTTR_TRIPLE] BY <3>2 DEF FirstCall, target
      <4>2. Formals(target) = {Subject, Verb, Object}
        BY <4>1, ParametersOfTriple DEF IInv, InputOK, Formals
      <4>. QED BY <4>2, <2>3 DEF HasParametersOnce
    <3>3. PICK first : first = FirstCall OBVIOUS
    <3>. QED BY <1>2, <2>1, <3>1, <3>2, <3>3 DEF CallsOK, HasParametersOnce
  <2>5. ASSUME DeclaredAsIs PROVE SubsetsOK(FirstCall)
    <3>1. ASSUME NEW s \in input.unique_subsets
          PROVE  s \subseteq DOMAIN FirstCall.dynamic_columns /\ HoldsUnique(input.df.rows, s)
      <4>1. \A m \in DOMAIN input.df.rows : DOMAIN input.df.rows[m] = DOMAIN input.df.dtypes
        BY DEF IInv, InputOK, IsDataFrame
      <4>. QED BY <2>2, <2>3, <2>5, <4>1 DEF DeclaredAsIs, HoldsUnique
    <3>. QED BY <3>1 DEF SubsetsOK, FirstCall
  <2>6. CallsUnique'
    <3>1. PICK first : first = FirstCall OBVIOUS
    <3>2. DeclaredAsIs' <=> DeclaredAsIs BY <1>2 DEF DeclaredAsIs, IsUnique
    <3>. QED BY <2>1, <2>5, <3>1, <3>2 DEF CallsUnique, SubsetsOK, HoldsUnique, IsUnique
  <2>. QED BY <1>1, <1>2, <1>3, <1>4, <2>4, <2>6 DEF IInv, NothingBefore, InstancesAreTriples,
              InstancesUnique, UniqueSubsetsHold
<1>6. CASE stage' # "expanding"
  <2>1. calls' = {} BY <1>6 DEF Expand
  <2>. QED BY <1>1, <1>2, <1>3, <1>4, <2>1 DEF IInv, NothingBefore, CallsOK, InstancesAreTriples, CallsUnique,
              InstancesUnique, UniqueSubsetsHold
<1>. QED BY <1>5, <1>6

\* What the invariant says of the input, of instances and of the result stays as
\* it is in a step of the recursion.
LEMMA RecursionKeeps ==
    ASSUME IInv, stage = "expanding", UNCHANGED <<input, added>>,
           stage' \in {"expanding", "panicked", "overflowed"},
           CallsOK', CallsUnique', InstancesAreTriples', InstancesUnique'
    PROVE  IInv'
<1>1. InputOK' BY DEF IInv, InputOK
<1>2. UniqueSubsetsHold' BY DEF IInv, UniqueSubsetsHold, DeclaredAsIs, IsUnique
<1>. QED BY <1>1, <1>2 DEF IInv, NothingBefore

LEMMA EmitIInv ==
    ASSUME IInv, stage = "expanding", NEW call \in calls, Emit(call)
    PROVE  IInv'
<1>. DEFINE instance == [path |-> call.path, rows |-> call.rows,
                         dynamic_columns |-> call.dynamic_columns, static_columns |-> call.static_columns,
                         has_unique_subset |-> call.unique_subsets # {}]
<1>1. /\ UNCHANGED <<input, stage, added>> /\ calls' \subseteq calls
      /\ instances' = instances \union {instance}
  BY DEF Emit
<1>2. CallsOK' /\ CallsUnique'
  BY <1>1 DEF IInv, CallsOK, CallsUnique, DeclaredAsIs, IsUnique
<1>3. HasParametersOnce(instance)
  BY DEF IInv, CallsOK, Emit, HasParametersOnce
<1>4. InstancesAreTriples'
  BY <1>1, <1>3 DEF IInv, InstancesAreTriples, HasParametersOnce
<1>5. ASSUME DeclaredAsIs, instance.has_unique_subset
      PROVE  \E s \in SUBSET DOMAIN instance.dynamic_columns : HoldsUnique(instance.rows, s)
  <2>1. PICK s : s \in call.unique_subsets BY <1>5
  <2>2. s \subseteq DOMAIN call.dynamic_columns /\ HoldsUnique(call.rows, s)
    BY <2>1, <1>5 DEF IInv, CallsUnique, SubsetsOK
  <2>. QED BY <2>2
<1>. HIDE DEF instance
<1>6. InstancesUnique'
  <2>1. DeclaredAsIs' <=> DeclaredAsIs BY <1>1 DEF DeclaredAsIs, IsUnique
  <2>2. InstancesUnique BY DEF IInv
  <2>. QED BY <1>1, <1>5, <2>1, <2>2 DEF InstancesUnique
<1>. QED BY <1>1, <1>2, <1>4, <1>6, RecursionKeeps

LEMMA InstantiateIInv ==
    ASSUME IInv, stage = "expanding", NEW call \in calls, Instantiate(call)
    PROVE  IInv'
<1>1. /\ UNCHANGED <<input, stage, instances, added>>
      /\ calls' = (calls \ {call}) \union { RemappedAt(call, i) : i \in Branches(call) }
      /\ ~Panics(call)
  BY DEF Instantiate
<1>2. call.name \in DOMAIN input.templates /\ IsDataset(input.templates)
  BY DEF IInv, CallsOK, InputOK
<1>3. ASSUME NEW i \in Branches(call)
      PROVE  /\ RemappedAt(call, i).name \in DOMAIN input.templates
             /\ RemappedAt(call, i).name = OTTR_TRIPLE => HasParametersOnce(RemappedAt(call, i))
             /\ DeclaredAsIs => SubsetsOK(RemappedAt(call, i))
  <2>. DEFINE instance == InstancesOf(call)[i]
  <2>1. i \in DOMAIN InstancesOf(call) /\ ~RemapFails(call, instance, CalleeOf(instance))
    BY DEF Branches
  <2>2. ~CannotCount(call) /\ ~RemapPanics(call, instance, CalleeOf(instance))
    BY <1>1, <2>1 DEF Panics
  <2>3. RemappedAt(call, i).name = instance.template_name BY DEF RemappedAt, Remapped
  <2>4. instance.template_name \in DOMAIN input.templates
    BY <1>2, <2>1 DEF IsDataset, InstancesOf
  <2>5. RemappedAt(call, i).name = OTTR_TRIPLE => HasParametersOnce(RemappedAt(call, i))
    BY <1>2, <2>1, <2>2, <2>3, InstancesOfTriple
  <2>6. DeclaredAsIs => SubsetsOK(RemappedAt(call, i))
    <3>1. DeclaredAsIs => SubsetsOK(call) BY DEF IInv, CallsUnique
    <3>. QED BY <2>1, <2>2, <3>1, SubsetsAreHandedOn DEF RemappedAt
  <2>. QED BY <2>3, <2>4, <2>5, <2>6
<1>4. PICK new : new = { RemappedAt(call, i) : i \in Branches(call) } OBVIOUS
<1>5. \A c \in new : /\ c.name \in DOMAIN input.templates
                     /\ c.name = OTTR_TRIPLE => HasParametersOnce(c)
                     /\ DeclaredAsIs => SubsetsOK(c)
  BY <1>3, <1>4
<1>6. calls' \subseteq calls \union new BY <1>1, <1>4
<1>7. CallsOK'
  <2>1. CallsOK BY DEF IInv
  <2>2. ASSUME NEW c \in calls'
        PROVE  c.name \in DOMAIN input.templates /\ (c.name = OTTR_TRIPLE => HasParametersOnce(c))
    BY <1>5, <1>6, <2>1 DEF CallsOK
  <2>. QED BY <1>1, <2>2 DEF CallsOK, HasParametersOnce
<1>8. CallsUnique'
  <2>1. DeclaredAsIs' <=> DeclaredAsIs BY <1>1 DEF DeclaredAsIs, IsUnique
  <2>2. CallsUnique BY DEF IInv
  <2>3. ASSUME DeclaredAsIs, NEW c \in calls' PROVE SubsetsOK(c)
    BY <1>5, <1>6, <2>2, <2>3 DEF CallsUnique
  <2>. QED BY <2>1, <2>3 DEF CallsUnique, SubsetsOK, HoldsUnique, IsUnique
<1>9. InstancesAreTriples' /\ InstancesUnique'
  BY <1>1 DEF IInv, InstancesAreTriples, InstancesUnique, DeclaredAsIs, HoldsUnique, IsUnique
<1>. QED BY <1>1, <1>7, <1>8, <1>9, RecursionKeeps

\* A branch that panics or overflows the stack changes nothing but the outcome.
LEMMA StopIInv ==
    ASSUME IInv, stage = "expanding", NEW call \in calls, InstantiatePanics(call) \/ StackOverflows(call)
    PROVE  IInv'
<1>1. UNCHANGED <<input, calls, instances, added>> /\ stage' \in {"panicked", "overflowed"}
  BY DEF InstantiatePanics, StackOverflows
<1>2. CallsOK' BY <1>1 DEF IInv, CallsOK, HasParametersOnce
<1>3. CallsUnique'
  BY <1>1 DEF IInv, CallsUnique, DeclaredAsIs, SubsetsOK, HoldsUnique, IsUnique
<1>4. InstancesAreTriples' /\ InstancesUnique'
  BY <1>1 DEF IInv, InstancesAreTriples, InstancesUnique, DeclaredAsIs, HoldsUnique, IsUnique
<1>. QED BY <1>1, <1>2, <1>3, <1>4, RecursionKeeps

LEMMA ProcessResultsIInv == IInv /\ ProcessResults => IInv'
<1>. SUFFICES ASSUME IInv, ProcessResults PROVE IInv' OBVIOUS
<1>1. /\ UNCHANGED <<input, calls, instances>> /\ stage' \in {"ok", "error", "panicked"}
      /\ added' \subseteq { TriplesOf(i) : i \in instances }
  BY DEF ProcessResults
<1>2. InputOK' BY <1>1 DEF IInv, InputOK
<1>3. CallsOK' BY <1>1 DEF IInv, CallsOK, HasParametersOnce
<1>4. CallsUnique'
  BY <1>1 DEF IInv, CallsUnique, DeclaredAsIs, SubsetsOK, HoldsUnique, IsUnique
<1>5. InstancesAreTriples' /\ InstancesUnique'
  BY <1>1 DEF IInv, InstancesAreTriples, InstancesUnique, DeclaredAsIs, HoldsUnique, IsUnique
<1>6. ASSUME DeclaredAsIs, NEW i \in instances, TriplesOf(i).has_unique_subset
      PROVE  \A m, n \in DOMAIN TriplesOf(i).rows : TriplesOf(i).rows[m] = TriplesOf(i).rows[n] => m = n
  <2>1. i.has_unique_subset BY <1>6 DEF TriplesOf
  <2>2. PICK s \in SUBSET DOMAIN i.dynamic_columns : HoldsUnique(i.rows, s)
    BY <1>6, <2>1 DEF IInv, InstancesUnique
  <2>3. HasParametersOnce(i) BY DEF IInv, InstancesAreTriples, HasParametersOnce
  <2>. QED BY <2>2, <2>3, TriplesAreUnique
<1>7. ASSUME DeclaredAsIs, NEW t \in added', t.has_unique_subset
      PROVE  \A m, n \in DOMAIN t.rows : t.rows[m] = t.rows[n] => m = n
  <2>1. PICK i \in instances : t = TriplesOf(i) BY <1>1
  <2>. QED BY <1>6, <1>7, <2>1
<1>8. UniqueSubsetsHold'
  <2>1. DeclaredAsIs' <=> DeclaredAsIs BY <1>1 DEF DeclaredAsIs, IsUnique
  <2>. QED BY <1>7, <2>1 DEF UniqueSubsetsHold
<1>. QED BY <1>1, <1>2, <1>3, <1>4, <1>5, <1>8 DEF IInv, NothingBefore

LEMMA NextIInv == IInv /\ [Next]_vars => IInv'
<1>. SUFFICES ASSUME IInv, [Next]_vars PROVE IInv' OBVIOUS
<1>1. CASE ExpandDefault BY <1>1, ExpandDefaultIInv
<1>2. CASE Expand BY <1>2, ExpandIInv
<1>3. ASSUME stage = "expanding", NEW call \in calls,
             Emit(call) \/ Instantiate(call) \/ InstantiatePanics(call) \/ StackOverflows(call)
      PROVE  IInv'
  BY <1>3, EmitIInv, InstantiateIInv, StopIInv
<1>4. CASE ProcessResults BY <1>4, ProcessResultsIInv
<1>5. CASE UNCHANGED vars
  BY <1>5 DEF vars, IInv, InputOK, NothingBefore, CallsOK, HasParametersOnce, InstancesAreTriples, CallsUnique,
     InstancesUnique, UniqueSubsetsHold, DeclaredAsIs, SubsetsOK, HoldsUnique, IsUnique
<1>. QED BY <1>1, <1>2, <1>3, <1>4, <1>5 DEF Next

----------------------------------------------------------------------------
\* However deep templates are nested, and whatever is renamed, left out, bound to
\* constants or expanded on the way: a frame that the store is told to take for
\* unique has no row twice, if the caller declared nothing but what is so.
THEOREM DeclaredSubsetsStayUnique == Spec => []UniqueSubsetsHold
<1>1. IInv => UniqueSubsetsHold BY DEF IInv
<1>. QED BY <1>1, InitIInv, NextIInv, PTL DEF Spec

\* What comes out of the recursion has subject, verb and object once each, as a
\* column or as a constant: create_triples finds what it looks up.
THEOREM RecursionEndsInTriples == Spec => []InstancesAreTriples
<1>1. IInv => InstancesAreTriples BY DEF IInv
<1>. QED BY <1>1, InitIInv, NextIInv, PTL DEF Spec

----------------------------------------------------------------------------
\* Cycles.  As long as no branch has failed, one of the calls can be gone on with
\* for ever; and the path of a call leads from one template to the next.

CycleGoesOn == stage = "expanding" /\ HasCycle /\ ~failed => \E call \in calls : IsEndless(call.name)

Positions == UNION { DOMAIN input.templates[n].pattern_list : n \in DOMAIN input.templates }
IsChain(f, length, name) ==
    /\ f \in [0 .. length -> DOMAIN input.templates]
    /\ f[0] = FirstCall.name /\ f[length] = name
    /\ \A k \in 0 .. length - 1 : f[k + 1] \in Callees(f[k])
PathsOK ==
    \A call \in calls : call.path \in Seq(Positions) /\ \E f : IsChain(f, Len(call.path), call.name)

CycleInv == CycleGoesOn /\ CyclesAddNothing /\ OnlyDeepTemplatesOverflow
         /\ (stage = "expanding" => PathsOK)

LEMMA EndlessGoesOn ==
    ASSUME NEW name, IsEndless(name)
    PROVE  \E i \in DOMAIN input.templates[name].pattern_list :
                IsEndless(input.templates[name].pattern_list[i].template_name)
<1>1. PICK names \in SUBSET DOMAIN input.templates :
            name \in names /\ \A n \in names : Callees(n) \intersect names # {}
  BY DEF IsEndless
<1>2. PICK n \in Callees(name) : n \in names BY <1>1
<1>3. IsEndless(n) BY <1>1, <1>2 DEF IsEndless
<1>4. PICK i \in DOMAIN input.templates[name].pattern_list :
            n = input.templates[name].pattern_list[i].template_name
  BY <1>2 DEF Callees
<1>. QED BY <1>3, <1>4

\* A chain with more links than there are templates comes back to one of them.
LEMMA LongChainsAreEndless ==
    ASSUME NEW f, NEW length \in Nat, NEW name, IsChain(f, length, name),
           IsFiniteSet(DOMAIN input.templates), Cardinality(DOMAIN input.templates) <= length
    PROVE  HasCycle
<1>. DEFINE T == DOMAIN input.templates
<1>1. Cardinality(T) \in Nat BY FS_CardinalityType
<1>2. IsFiniteSet(0 .. length) /\ Cardinality(0 .. length) = length + 1
  BY FS_Interval
<1>3. PICK x, y \in 0 .. length : x # y /\ f[x] = f[y]
  <2>1. Cardinality(T) < Cardinality(0 .. length) BY <1>1, <1>2
  <2>2. f \in [0 .. length -> T] /\ IsFiniteSet(T) BY DEF IsChain
  <2>. HIDE DEF T
  <2>. QED BY <1>2, <2>1, <2>2, FS_PigeonHole
<1>4. PICK a, b \in 0 .. length : a < b /\ f[a] = f[b]
  <2>1. x < y \/ y < x BY <1>3
  <2>. QED BY <1>3, <2>1
<1>. DEFINE names == { f[k] : k \in 0 .. b }
<1>5. names \in SUBSET T /\ f[0] \in names
  BY DEF IsChain
<1>6. ASSUME NEW k \in 0 .. b PROVE Callees(f[k]) \intersect names # {}
  <2>1. CASE k < b
    <3>1. k \in 0 .. length - 1 /\ k + 1 \in 0 .. b BY <2>1
    <3>. QED BY <3>1 DEF IsChain
  <2>2. CASE k = b
    <3>1. a \in 0 .. length - 1 /\ a + 1 \in 0 .. b BY <1>4
    <3>2. f[a + 1] \in Callees(f[a]) BY <3>1 DEF IsChain
    <3>. QED BY <1>4, <2>2, <3>1, <3>2
  <2>. QED BY <2>1, <2>2
<1>7. f[0] = FirstCall.name BY DEF IsChain
<1>8. \A n \in names : Callees(n) \intersect names # {} BY <1>6
<1>. HIDE DEF names
<1>9. IsEndless(f[0]) BY <1>5, <1>8 DEF IsEndless
<1>. QED BY <1>7, <1>9 DEF HasCycle

LEMMA SameInput ==
    ASSUME input' = input
    PROVE  /\ \A n : IsEndless(n)' <=> IsEndless(n)
           /\ HasCycle' <=> HasCycle
           /\ \A f, length, n : IsChain(f, length, n)' <=> IsChain(f, length, n)
           /\ Positions' = Positions
<1>1. \A n : Callees(n)' = Callees(n) BY DEF Callees
<1>2. \A n : IsEndless(n)' <=> IsEndless(n) BY <1>1 DEF IsEndless
<1>3. FirstCall.name' = FirstCall.name BY DEF FirstCall, Resolved, IsTemplate
<1>4. PICK first : first = FirstCall.name OBVIOUS
<1>5. HasCycle' <=> HasCycle
  <2>1. HasCycle <=> IsEndless(first) BY <1>4 DEF HasCycle
  <2>2. HasCycle' <=> IsEndless(first)' BY <1>3, <1>4 DEF HasCycle, IsEndless, Callees
  <2>. QED BY <1>2, <2>1, <2>2
<1>6. \A f, length, n : IsChain(f, length, n)' <=> IsChain(f, length, n)
  BY <1>1, <1>3 DEF IsChain
<1>. QED BY <1>2, <1>5, <1>6 DEF Positions

LEMMA InitCycleInv == Init => CycleInv
  BY DEF Init, CycleInv, CycleGoesOn, CyclesAddNothing, OnlyDeepTemplatesOverflow

LEMMA ExpandCycleInv ==
    ASSUME ExpandDefault \/ Expand
    PROVE  CycleInv'
<1>1. CASE stage' # "expanding"
  <2>1. stage' \notin {"ok", "overflowed"} BY DEF ExpandDefault, Expand, Validation
  <2>. QED BY <1>1, <2>1 DEF CycleInv, CycleGoesOn, CyclesAddNothing, OnlyDeepTemplatesOverflow
<1>2. CASE stage' = "expanding"
  <2>1. input' = input /\ calls' = {FirstCall} /\ FirstCall.name \in DOMAIN input.templates
    BY <1>2 DEF Expand, ExpandDefault, IsTemplate, FirstCall
  <2>2. PICK first : first = FirstCall OBVIOUS
  <2>3. CycleGoesOn'
    <3>1. HasCycle => IsEndless(first.name) BY <2>2 DEF HasCycle
    <3>. QED BY <2>1, <2>2, <3>1, SameInput DEF CycleGoesOn
  <2>4. first.path = <<>> BY <2>2 DEF FirstCall
  <2>5. IsChain([k \in 0 .. 0 |-> first.name], 0, first.name)
    BY <2>1, <2>2 DEF IsChain
  <2>6. first.path \in Seq(Positions) /\ Len(first.path) = 0 BY <2>4
  <2>7. PathsOK'
    BY <2>1, <2>2, <2>5, <2>6, SameInput DEF PathsOK
  <2>. QED BY <1>2, <2>3, <2>7 DEF CycleInv, CyclesAddNothing, OnlyDeepTemplatesOverflow
<1>. QED BY <1>1, <1>2

LEMMA EmitCycleInv ==
    ASSUME IInv, CycleInv, stage = "expanding", NEW call \in calls, Emit(call)
    PROVE  CycleInv'
<1>1. UNCHANGED <<input, stage, failed>> /\ calls' = calls \ {call} /\ call.name = OTTR_TRIPLE
  BY DEF Emit
<1>2. ~IsEndless(call.name)
  <2>1. input.templates[OTTR_TRIPLE].pattern_list = <<>> BY DEF IInv, InputOK, IsDataset
  <2>. QED BY <1>1, <2>1 DEF IsEndless, Callees
<1>3. CycleGoesOn'
  BY <1>1, <1>2, SameInput DEF CycleInv, CycleGoesOn
<1>4. PathsOK'
  BY <1>1, SameInput DEF CycleInv, PathsOK
<1>. QED BY <1>1, <1>3, <1>4 DEF CycleInv, CyclesAddNothing, OnlyDeepTemplatesOverflow

LEMMA InstantiateCycleInv ==
    ASSUME IInv, CycleInv, stage = "expanding", NEW call \in calls, Instantiate(call)
    PROVE  CycleInv'
<1>1. /\ UNCHANGED <<input, stage>>
      /\ calls' = (calls \ {call}) \union { RemappedAt(call, i) : i \in Branches(call) }
      /\ failed' = (failed \/ Branches(call) # DOMAIN InstancesOf(call))
  BY DEF Instantiate
<1>2. ASSUME NEW i \in DOMAIN InstancesOf(call)
      PROVE  /\ RemappedAt(call, i).name = InstancesOf(call)[i].template_name
             /\ RemappedAt(call, i).path = Append(call.path, i)
  BY DEF RemappedAt, Remapped
<1>3. Branches(call) \subseteq DOMAIN InstancesOf(call) BY DEF Branches
<1>4. PICK new : new = [i \in DOMAIN InstancesOf(call) |-> RemappedAt(call, i)] OBVIOUS
<1>5. calls' = (calls \ {call}) \union { new[i] : i \in Branches(call) }
  BY <1>1, <1>3, <1>4
<1>6. ASSUME NEW i \in DOMAIN InstancesOf(call)
      PROVE  new[i].name = InstancesOf(call)[i].template_name /\ new[i].path = Append(call.path, i)
  BY <1>2, <1>4
<1>7. CycleGoesOn'
  <2>1. SUFFICES ASSUME HasCycle, ~failed, Branches(call) = DOMAIN InstancesOf(call)
                 PROVE  \E c \in calls' : IsEndless(c.name)
    BY <1>1, SameInput DEF CycleGoesOn
  <2>2. PICK c \in calls : IsEndless(c.name)
    BY <2>1 DEF CycleInv, CycleGoesOn
  <2>3. CASE c # call BY <1>5, <2>2, <2>3
  <2>4. CASE c = call
    <3>1. PICK i \in DOMAIN InstancesOf(call) : IsEndless(InstancesOf(call)[i].template_name)
      BY <2>2, <2>4, EndlessGoesOn DEF InstancesOf
    <3>. QED BY <1>5, <1>6, <2>1, <3>1
  <2>. QED BY <2>3, <2>4
<1>8. ASSUME NEW i \in DOMAIN InstancesOf(call)
      PROVE  /\ new[i].path \in Seq(Positions)
             /\ \E f : IsChain(f, Len(new[i].path), new[i].name)
  <2>1. call.path \in Seq(Positions) BY DEF CycleInv, PathsOK
  <2>2. call.name \in DOMAIN input.templates /\ IsDataset(input.templates)
    BY DEF IInv, CallsOK, InputOK
  <2>3. i \in Positions BY <2>2 DEF InstancesOf, Positions
  <2>4. new[i].path \in Seq(Positions) /\ Len(new[i].path) = Len(call.path) + 1
    <3>1. \A S, path, e : path \in Seq(S) /\ e \in S =>
                Append(path, e) \in Seq(S) /\ Len(Append(path, e)) = Len(path) + 1
      OBVIOUS
    <3>2. new[i].path = Append(call.path, i) BY <1>6
    <3>. QED BY <2>1, <2>3, <3>1, <3>2
  <2>5. PICK f : IsChain(f, Len(call.path), call.name) BY DEF CycleInv, PathsOK
  <2>6. PICK length \in Nat : length = Len(call.path) BY <2>1
  <2>7. new[i].name \in Callees(call.name) /\ new[i].name \in DOMAIN input.templates
    <3>1. InstancesOf(call)[i].template_name \in DOMAIN input.templates
      BY <2>2 DEF IsDataset, InstancesOf
    <3>. QED BY <1>6, <3>1 DEF Callees, InstancesOf
  <2>. DEFINE g == [k \in 0 .. length + 1 |-> IF k <= length THEN f[k] ELSE new[i].name]
  <2>8. IsChain(g, length + 1, new[i].name)
    <3>1. g \in [0 .. length + 1 -> DOMAIN input.templates] BY <2>5, <2>6, <2>7 DEF IsChain
    <3>2. g[0] = FirstCall.name /\ g[length + 1] = new[i].name BY <2>5, <2>6 DEF IsChain
    <3>3. ASSUME NEW k \in 0 .. length PROVE g[k + 1] \in Callees(g[k])
      <4>1. CASE k < length
        <5>1. f[k + 1] \in Callees(f[k]) BY <2>5, <2>6, <4>1 DEF IsChain
        <5>2. g[k] = f[k] /\ g[k + 1] = f[k + 1] BY <4>1
        <5>. QED BY <5>1, <5>2
      <4>2. CASE k = length
        <5>1. g[k] = call.name /\ g[k + 1] = new[i].name BY <2>5, <2>6, <4>2 DEF IsChain
        <5>. QED BY <2>7, <5>1
      <4>. QED BY <4>1, <4>2
    <3>. HIDE DEF g
    <3>4. 0 .. (length + 1) - 1 = 0 .. length OBVIOUS
    <3>5. \A k \in 0 .. (length + 1) - 1 : g[k + 1] \in Callees(g[k]) BY <3>3, <3>4
    <3>. QED BY <3>1, <3>2, <3>5 DEF IsChain
  <2>. QED BY <2>4, <2>6, <2>8
<1>9. PathsOK'
  <2>1. \A c \in calls : c.path \in Seq(Positions) /\ \E f : IsChain(f, Len(c.path), c.name)
    BY DEF CycleInv, PathsOK
  <2>2. \A c \in calls' : c.path \in Seq(Positions) /\ \E f : IsChain(f, Len(c.path), c.name)
    BY <1>3, <1>5, <1>8, <2>1
  <2>. QED BY <1>1, <2>2, SameInput DEF PathsOK
<1>. QED BY <1>1, <1>7, <1>9 DEF CycleInv, CyclesAddNothing, OnlyDeepTemplatesOverflow

LEMMA StopCycleInv ==
    ASSUME IInv, CycleInv, stage = "expanding", NEW call \in calls,
           InstantiatePanics(call) \/ StackOverflows(call)
    PROVE  CycleInv'
<1>1. UNCHANGED input /\ stage' \in {"panicked", "overflowed"}
  BY DEF InstantiatePanics, StackOverflows
<1>2. OnlyDeepTemplatesOverflow'
  <2>1. SUFFICES ASSUME ~(Len(call.path) < StackDepth), ~(StackDepth < Cardinality(DOMAIN input.templates))
                 PROVE  HasCycle
    BY <1>1, SameInput DEF OnlyDeepTemplatesOverflow, InstantiatePanics, StackOverflows, Fits
  <2>2. call.path \in Seq(Positions) BY DEF CycleInv, PathsOK
  <2>3. PICK f : IsChain(f, Len(call.path), call.name) BY DEF CycleInv, PathsOK
  <2>4. IsFiniteSet(DOMAIN input.templates) BY DEF IInv, InputOK, IsDataset
  <2>5. Len(call.path) \in Nat /\ Cardinality(DOMAIN input.templates) \in Nat /\ StackDepth \in Nat
    BY <2>2, <2>4, FS_CardinalityType, DepthAssumption
  <2>6. Cardinality(DOMAIN input.templates) <= Len(call.path) BY <2>1, <2>5
  <2>. QED BY <2>3, <2>4, <2>5, <2>6, LongChainsAreEndless
<1>. QED BY <1>1, <1>2 DEF CycleInv, CycleGoesOn, CyclesAddNothing

LEMMA ProcessResultsCycleInv == CycleInv /\ ProcessResults => CycleInv'
<1>. SUFFICES ASSUME CycleInv, ProcessResults PROVE CycleInv' OBVIOUS
<1>1. /\ UNCHANGED input /\ stage' \in {"ok", "error", "panicked"}
      /\ stage' = "ok" => ~failed /\ stage = "expanding" /\ calls = {}
  BY DEF ProcessResults, Expanded
<1>2. stage' = "ok" => ~HasCycle BY <1>1 DEF CycleInv, CycleGoesOn
<1>. QED BY <1>1, <1>2, SameInput DEF CycleInv, CycleGoesOn, CyclesAddNothing, OnlyDeepTemplatesOverflow

LEMMA NextCycleInv == IInv /\ CycleInv /\ [Next]_vars => CycleInv'
<1>. SUFFICES ASSUME IInv, CycleInv, [Next]_vars PROVE CycleInv' OBVIOUS
<1>1. CASE ExpandDefault \/ Expand BY <1>1, ExpandCycleInv
<1>2. ASSUME stage = "expanding", NEW call \in calls,
             Emit(call) \/ Instantiate(call) \/ InstantiatePanics(call) \/ StackOverflows(call)
      PROVE  CycleInv'
  BY <1>2, EmitCycleInv, InstantiateCycleInv, StopCycleInv
<1>3. CASE ProcessResults BY <1>3, ProcessResultsCycleInv
<1>4. CASE UNCHANGED vars
  BY <1>4, SameInput DEF vars, CycleInv, CycleGoesOn, CyclesAddNothing, OnlyDeepTemplatesOverflow, PathsOK
<1>. QED BY <1>1, <1>2, <1>3, <1>4 DEF Next

\* An expansion that ends well has met no cycle, however deep the stack.
THEOREM CyclesAreNeverExpanded == Spec => []CyclesAddNothing
<1>1. CycleInv => CyclesAddNothing BY DEF CycleInv
<1>. QED BY <1>1, InitIInv, NextIInv, InitCycleInv, NextCycleInv, PTL DEF Spec

\* The stack overflows in a cycle, or if it has less room than there are templates.
THEOREM OnlyCyclesOverflow == Spec => []OnlyDeepTemplatesOverflow
<1>1. CycleInv => OnlyDeepTemplatesOverflow BY DEF CycleInv
<1>. QED BY <1>1, InitIInv, NextIInv, InitCycleInv, NextCycleInv, PTL DEF Spec

----------------------------------------------------------------------------
\* Types.

TypeInv == /\ stage \in {"default", "called", "expanding", "ok", "error", "panicked", "overflowed"}
           /\ \A call \in calls : HasTypedRows(call)
           /\ stage # "ok" => added = {}

\* Validation passes if there is no problem with a column.
LEMMA NoProblem ==
    ASSUME NEW parameters, parameters \in Seq(Range(parameters)), NEW df
    PROVE  FirstProblem(parameters, df) = 0
                <=> \A n \in DOMAIN parameters :
                        ~Refuses(parameters, n, df) /\ ~PanicsOnColumn(parameters[n], df)
<1>. DEFINE positions == [n \in DOMAIN parameters |-> n]
            I == { n \in 1 .. Len(positions) :
                        Refuses(parameters, positions[n], df) \/ PanicsOnColumn(parameters[positions[n]], df) }
<1>1. DOMAIN parameters = 1 .. Len(parameters) /\ Len(parameters) \in Nat OBVIOUS
<1>2. Len(positions) = Len(parameters) BY <1>1
<1>3. \A n \in DOMAIN parameters : positions[n] = n OBVIOUS
<1>4. FirstProblem(parameters, df) = IF I # {} THEN Min(I) ELSE 0
  BY DEF FirstProblem, SelectInSeq
<1>5. I \in SUBSET (1 .. Len(parameters)) BY <1>2
<1>. HIDE DEF positions
<1>6. I = {} <=> \A n \in DOMAIN parameters :
                        ~Refuses(parameters, n, df) /\ ~PanicsOnColumn(parameters[n], df)
  BY <1>1, <1>2, <1>3
<1>. HIDE DEF I
<1>7. I # {} => Min(I) # 0
  <2>1. I # {} => Min(I) \in I BY <1>1, <1>5, Least
  <2>. QED BY <1>5, <2>1
<1>. QED BY <1>4, <1>6, <1>7

LEMMA ValidatedColumns ==
    ASSUME InputOK, IsTemplate(Resolved(input.name)), Validation(target, input.df) = "expanding"
    PROVE  Formals(target) = DOMAIN input.df.dtypes
<1>1. PICK parameters, df : parameters = target.parameters /\ df = input.df OBVIOUS
<1>2. parameters \in Seq(Range(parameters)) BY <1>1 DEF InputOK, IsDataset, target, IsTemplate
<1>3. FirstProblem(parameters, df) = 0 BY <1>1 DEF Validation
<1>4. ASSUME NEW n \in DOMAIN parameters PROVE parameters[n].variable \in DOMAIN df.dtypes
  BY <1>2, <1>3, NoProblem DEF Refuses, RefusesColumn
<1>5. Formals(target) \subseteq DOMAIN df.dtypes BY <1>1, <1>4 DEF Formals, Formal
<1>6. DOMAIN df.dtypes \subseteq Formals(target) BY <1>1 DEF Validation
<1>. QED BY <1>1, <1>5, <1>6

LEMMA FirstCallTyped ==
    ASSUME InputOK, IsTemplate(Resolved(input.name)), Validation(target, input.df) = "expanding"
    PROVE  HasTypedRows(FirstCall)
<1>1. DOMAIN FirstCall.dynamic_columns = DOMAIN input.df.dtypes
  BY ValidatedColumns DEF FirstCall, ColumnTypes
<1>2. FirstCall.rows = input.df.rows BY DEF FirstCall
<1>. QED BY <1>1, <1>2 DEF HasTypedRows, InputOK, IsDataFrame

LEMMA BranchesTyped ==
    ASSUME IInv, TypeInv, NEW call \in calls, ~Panics(call), NEW i \in Branches(call)
    PROVE  HasTypedRows(RemappedAt(call, i))
<1>1. PICK instance, template : instance = InstancesOf(call)[i] /\ template = CalleeOf(instance) OBVIOUS
<1>2. i \in DOMAIN InstancesOf(call) /\ ~RemapFails(call, instance, template) BY <1>1 DEF Branches
<1>3. ~RemapPanics(call, instance, template) BY <1>1, <1>2 DEF Panics
<1>4. IsInstance(instance, template)
  <2>1. call.name \in DOMAIN input.templates /\ IsDataset(input.templates) BY DEF IInv, InputOK, CallsOK
  <2>2. /\ instance.template_name \in DOMAIN input.templates
        /\ DOMAIN instance.argument_list = DOMAIN template.parameters
        /\ \A n \in DOMAIN instance.argument_list :
              IsConstant(instance.argument_list[n]) => ValueOf(instance.argument_list[n]) \in Cells
    BY <1>1, <1>2, <2>1 DEF IsDataset, InstancesOf, CalleeOf, IsConstant, ValueOf
  <2>3. template.parameters \in Seq(Range(template.parameters)) BY <1>1, <2>1, <2>2 DEF IsDataset, CalleeOf
  <2>. QED BY <2>2, <2>3 DEF IsInstance
<1>5. HasTypedRows(Remapped(call, i, instance, template))
  BY <1>2, <1>3, <1>4, RemappedTyped DEF TypeInv
<1>. QED BY <1>1, <1>5 DEF RemappedAt

LEMMA InitTypeInv == Init => TypeInv
  BY DEF Init, TypeInv

LEMMA NextTypeInv == IInv /\ TypeInv /\ [Next]_vars => TypeInv'
<1>. SUFFICES ASSUME IInv, TypeInv, [Next]_vars PROVE TypeInv' OBVIOUS
<1>1. CASE ExpandDefault BY <1>1 DEF ExpandDefault, TypeInv, HasTypedRows
<1>2. CASE Expand
  <2>1. stage' \in {"expanding", "error", "panicked"} /\ added' = added /\ stage # "ok"
    BY <1>2 DEF Expand, Validation
  <2>2. CASE stage' = "expanding"
    <3>1. calls' = {FirstCall} /\ IsTemplate(Resolved(input.name)) /\ Validation(target, input.df) = "expanding"
      BY <1>2, <2>2 DEF Expand
    <3>2. PICK first : first = FirstCall OBVIOUS
    <3>3. HasTypedRows(first) BY <3>1, <3>2, FirstCallTyped DEF IInv
    <3>. QED BY <2>1, <3>1, <3>2, <3>3 DEF TypeInv, HasTypedRows
  <2>3. CASE stage' # "expanding"
    <3>1. calls' = {} BY <1>2, <2>3 DEF Expand
    <3>. QED BY <2>1, <3>1 DEF TypeInv
  <2>. QED BY <2>2, <2>3
<1>3. ASSUME stage = "expanding", NEW call \in calls, Emit(call) PROVE TypeInv'
  BY <1>3 DEF Emit, TypeInv, HasTypedRows
<1>4. ASSUME stage = "expanding", NEW call \in calls, Instantiate(call) PROVE TypeInv'
  <2>1. /\ UNCHANGED <<stage, added>> /\ ~Panics(call)
        /\ calls' = (calls \ {call}) \union { RemappedAt(call, i) : i \in Branches(call) }
    BY <1>4 DEF Instantiate
  <2>2. PICK new : new = { RemappedAt(call, i) : i \in Branches(call) } OBVIOUS
  <2>3. \A c \in new : HasTypedRows(c) BY <1>4, <2>1, <2>2, BranchesTyped
  <2>4. \A c \in calls' : HasTypedRows(c) BY <2>1, <2>2, <2>3 DEF TypeInv
  <2>. QED BY <2>1, <2>4 DEF TypeInv, HasTypedRows
<1>5. ASSUME stage = "expanding", NEW call \in calls, InstantiatePanics(call) \/ StackOverflows(call)
      PROVE  TypeInv'
  BY <1>5 DEF InstantiatePanics, StackOverflows, TypeInv, HasTypedRows
<1>6. CASE ProcessResults BY <1>6 DEF ProcessResults, Expanded, TypeInv, HasTypedRows
<1>7. CASE UNCHANGED vars BY <1>7 DEF vars, TypeInv, HasTypedRows
<1>. QED BY <1>1, <1>2, <1>3, <1>4, <1>5, <1>6, <1>7 DEF Next

\* The frame of every call has the columns that the call looks up in it, with cells
\* in them, whatever has been renamed, exploded or zipped on the way; and nothing
\* is added before the end.
THEOREM FramesAreTyped == Spec => []TypeOK
<1>1. IInv /\ TypeInv => TypeOK BY DEF IInv, TypeInv, TypeOK, HasTypedRows
<1>. QED BY <1>1, InitIInv, NextIInv, InitTypeInv, NextTypeInv, PTL DEF Spec

----------------------------------------------------------------------------
\* The template of expand_default.  The invariant follows each column beside the
\* key: a call or an instance of ottr:Triple stands for it.

Others == DOMAIN input.df.dtypes \ {input.pk_col}
ObjectType(c) == IF IsKey(c) THEN IRIType ELSE input.df.dtypes[c].base

\* The pairs of a key and a cell, or an element of a list there, and the pairs that
\* a frame for ottr:Triple holds.
CellsFor(row, c) == (IF IsListColumn(input.df, c) THEN ToSet(Elements(row[c])) ELSE {row[c]}) \ {Null}
PairsFor(c) ==
    UNION { { <<row[input.pk_col], t>> : t \in CellsFor(row, c) } :
            row \in { r \in ToSet(input.df.rows) : r[input.pk_col] # Null } }
PairsOf(rows) ==
    { <<row[Subject], row[Object]>> :
        row \in { r \in ToSet(rows) : r[Subject] # Null /\ r[Object] # Null } }

StandsFor(x, c) ==
    /\ DOMAIN x.dynamic_columns = {Subject, Object} /\ x.dynamic_columns[Object] = ObjectType(c)
    /\ DOMAIN x.static_columns = {Verb} /\ x.static_columns[Verb].value = DefaultPredicate[c]
    /\ x.rows \in Seq([{Subject, Object} -> Cells])
    /\ PairsOf(x.rows) = PairsFor(c)

\* After expand_default.
HasDefault ==
    /\ input.name # OTTR_TRIPLE /\ input.name \in DOMAIN input.templates
    /\ input.templates[input.name] = DefaultTemplate(input.df)

ColumnsStandFor ==
    \/ calls = {FirstCall} /\ instances = {}
    \/ /\ \A call \in calls : call.name = OTTR_TRIPLE /\ Len(call.path) = 1
       /\ \A x \in calls \union instances : \E c \in Others : StandsFor(x, c)
       /\ \A c \in Others : \E x \in calls \union instances : StandsFor(x, c)

DefaultInv ==
    input.pk_col # Null /\ ColumnsFit =>
        /\ stage \in {"default", "called", "expanding", "ok"} /\ ~failed
        /\ stage # "default" => HasDefault
        /\ stage = "expanding" => ColumnsStandFor
        /\ stage = "ok" => UNION { TriplesIn(t) : t \in added } = DefaultTriples

LEMMA OneOfThree ==
    ASSUME NEW instance, DOMAIN instance.argument_list = 1 .. 3
    PROVE  Ordered(instance, {3}) = <<3>> /\ Ordered(instance, {}) = <<>>
<1>1. PICK positions : positions = [n \in 1 .. 3 |-> n] OBVIOUS
<1>2. positions \in Seq(Nat) /\ DOMAIN positions = 1 .. 3 BY <1>1
<1>3. PICK parts : parts = [n \in 1 .. 3 |-> IF n \in {3} THEN <<positions[n]>> ELSE <<>>] OBVIOUS
<1>4. Ordered(instance, {3}) = FlattenSeq(parts) BY <1>1, <1>2, <1>3 DEF Ordered, Picked
<1>5. parts[1] = <<>> /\ parts[2] = <<>> /\ parts[3] = <<3>> /\ Len(parts) = 3 /\ parts \in Seq(Seq(Nat))
  BY <1>1, <1>3
<1>6. PICK f : f = [i \in 1 .. 3 |-> FlattenBody(parts, f, i)] /\ FlattenSeq(parts) = f[3]
  <2>1. PICK N : N = Nat OBVIOUS
  <2>2. parts \in Seq(Seq(N)) /\ Len(parts) # 0 BY <1>5, <2>1
  <2>3. \E f : f = [i \in 1 .. Len(parts) |-> FlattenBody(parts, f, i)] /\ FlattenSeq(parts) = f[Len(parts)]
    BY <2>2, FlattenEquation
  <2>. QED BY <1>5, <2>3
<1>7. f[1] = parts[1] /\ f[2] = f[1] \o parts[2] /\ f[3] = f[2] \o parts[3]
  <2>1. f[1] = FlattenBody(parts, f, 1) /\ f[2] = FlattenBody(parts, f, 2) /\ f[3] = FlattenBody(parts, f, 3)
    BY <1>6
  <2>2. FlattenBody(parts, f, 1) = parts[1] BY DEF FlattenBody
  <2>3. FlattenBody(parts, f, 2) = f[1] \o parts[2] BY DEF FlattenBody
  <2>4. FlattenBody(parts, f, 3) = f[2] \o parts[3] BY DEF FlattenBody
  <2>. QED BY <2>1, <2>2, <2>3, <2>4
<1>8. f[3] = <<3>> BY <1>5, <1>7
<1>9. Ordered(instance, {}) = Picked(positions, {}) BY <1>1 DEF Ordered
<1>10. Picked(positions, {}) \in Seq(Nat) /\ ToSet(Picked(positions, {})) = {}
  <2>1. PICK none : none = {} OBVIOUS
  <2>2. Picked(positions, none) \in Seq(Nat)
        /\ ToSet(Picked(positions, none)) = { positions[n] : n \in none \intersect DOMAIN positions }
    BY <1>2, PickedElements
  <2>. QED BY <2>1, <2>2
<1>11. Picked(positions, {}) = <<>>
  <2>1. PICK p : p = Picked(positions, {}) OBVIOUS
  <2>2. p \in Seq(Nat) /\ DOMAIN p = {} BY <1>10, <2>1 DEF ToSet
  <2>. QED BY <2>1, <2>2
<1>. QED BY <1>4, <1>6, <1>8, <1>9, <1>11

\* The arguments of the instance for a column.
DefaultArguments(call, instance, c) ==
    /\ DOMAIN instance.argument_list = 1 .. 3
    /\ VariablesOf(instance) = {1, 3} /\ Dynamic(call, instance) = {1, 3} /\ Static(call, instance) = {}
    /\ Unknown(call, instance) = {} /\ Unrolled(instance) = {} /\ Fixed(instance) = {2}
    /\ NameOf(instance.argument_list[1]) = input.pk_col /\ NameOf(instance.argument_list[3]) = c
    /\ ValueOf(instance.argument_list[2]) = DefaultPredicate[c]
    /\ ~IsVariable(instance.argument_list[2])
    /\ \A n \in 1 .. 3 : instance.argument_list[n].term.is # "List"
    /\ ~instance.argument_list[1].list_expand
    /\ instance.argument_list[3].list_expand <=> IsListColumn(input.df, c)
    /\ instance.list_expander = IF IsListColumn(input.df, c) THEN "cross" ELSE "none"
    /\ instance.template_name = OTTR_TRIPLE

LEMMA ArgumentsByDefault ==
    ASSUME NEW call, DOMAIN call.dynamic_columns = DOMAIN input.df.dtypes,
           input.pk_col \in DOMAIN input.df.dtypes, NEW c \in Others
    PROVE  DefaultArguments(call, DefaultInstance(input.df, c), c)
<1>1. PICK instance : instance = DefaultInstance(input.df, c) OBVIOUS
<1>2. PICK args : args = instance.argument_list OBVIOUS
<1>3. /\ DOMAIN args = 1 .. 3
      /\ args[1] = Variable(input.pk_col, FALSE)
      /\ args[2] = [term |-> [is |-> "Constant", value |-> DefaultPredicate[c]], list_expand |-> FALSE]
      /\ args[3] = Variable(c, IsListColumn(input.df, c))
      /\ instance.list_expander = (IF IsListColumn(input.df, c) THEN "cross" ELSE "none")
      /\ instance.template_name = OTTR_TRIPLE
  BY <1>1, <1>2 DEF DefaultInstance
<1>4. /\ args[1].term.is = "Variable" /\ args[1].term.name = input.pk_col /\ args[1].list_expand = FALSE
      /\ args[2].term.is = "Constant" /\ args[2].term.value = DefaultPredicate[c] /\ args[2].list_expand = FALSE
      /\ args[3].term.is = "Variable" /\ args[3].term.name = c /\ args[3].list_expand = IsListColumn(input.df, c)
  BY <1>3 DEF Variable
<1>5. 1 .. 3 = {1, 2, 3} OBVIOUS
<1>6. VariablesOf(instance) = {1, 3} BY <1>2, <1>3, <1>4, <1>5 DEF VariablesOf, IsVariable
<1>7. ConstantArgs(instance) = {2} BY <1>2, <1>3, <1>4, <1>5 DEF ConstantArgs, IsConstant
<1>8. Dynamic(call, instance) = {1, 3} BY <1>2, <1>4, <1>6 DEF Dynamic, NameOf, Others
<1>9. Static(call, instance) = {} /\ Unknown(call, instance) = {} BY <1>6, <1>8 DEF Static, Unknown
<1>10. Unrolled(instance) = {} /\ Fixed(instance) = {2} BY <1>2, <1>4, <1>7 DEF Unrolled, Fixed
<1>11. /\ ~IsVariable(instance.argument_list[2])
       /\ \A n \in 1 .. 3 : instance.argument_list[n].term.is # "List"
       /\ ~instance.argument_list[1].list_expand
       /\ instance.argument_list[3].list_expand <=> IsListColumn(input.df, c)
       /\ NameOf(instance.argument_list[1]) = input.pk_col /\ NameOf(instance.argument_list[3]) = c
       /\ ValueOf(instance.argument_list[2]) = DefaultPredicate[c]
  BY <1>2, <1>4, <1>5 DEF IsVariable, NameOf, ValueOf
<1>. QED BY <1>1, <1>2, <1>3, <1>6, <1>8, <1>9, <1>10, <1>11 DEF DefaultArguments

\* Names for the parameters of ottr:Triple.
IsTripleTemplate(template) ==
    /\ Formal(template, 1) = Subject /\ Formal(template, 2) = Verb /\ Formal(template, 3) = Object

RemapsByDefault(call, instance, template, c) ==
    /\ Renaming(call, instance, template)
         = [x \in {Subject, Object} |-> IF x = Subject THEN input.pk_col ELSE c]
    /\ DOMAIN UnrolledColumns(instance, template) = {}
    /\ DOMAIN DynamicFor(call, instance, template) = {Subject, Object}
    /\ DynamicFor(call, instance, template)[Object] = call.dynamic_columns[c]
    /\ DOMAIN StaticFor(call, instance, template) = {Verb}
    /\ StaticFor(call, instance, template)[Verb].value = DefaultPredicate[c]
    /\ ToExpand(call, instance, template) = IF IsListColumn(input.df, c) THEN <<Object>> ELSE <<>>
    /\ ~RemapFails(call, instance, template) /\ ~RemapPanics(call, instance, template)

LEMMA RemappedByDefault ==
    ASSUME NEW call, NEW instance, NEW template, NEW c, DefaultArguments(call, instance, c),
           IsTripleTemplate(template), IsInstance(instance, template)
    PROVE  RemapsByDefault(call, instance, template, c)
<1>. USE DEF DefaultArguments, IsTripleTemplate
<1>1. PICK args : args = instance.argument_list OBVIOUS
<1>2. Subject # Object /\ Subject # Verb /\ Verb # Object BY DEF Subject, Verb, Object
<1>3. /\ FormalsAt(template, {1, 3}) = {Subject, Object} /\ FormalsAt(template, {}) = {}
      /\ FormalsAt(template, {2}) = {Verb}
  BY DEF FormalsAt
<1>4. {1, 3} \in SUBSET DOMAIN instance.argument_list /\ {2} \in SUBSET DOMAIN instance.argument_list OBVIOUS
<1>5. /\ Given(Subject, instance, template, {1, 3}) = args[1]
      /\ Given(Object, instance, template, {1, 3}) = args[3]
      /\ Given(Verb, instance, template, {2}) = args[2]
  <2>1. PICK n \in {1, 3} : Formal(template, n) = Subject /\ Given(Subject, instance, template, {1, 3}) = args[n]
    BY <1>1, <1>3, <1>4, GivenIsOne
  <2>2. PICK k \in {1, 3} : Formal(template, k) = Object /\ Given(Object, instance, template, {1, 3}) = args[k]
    BY <1>1, <1>3, <1>4, GivenIsOne
  <2>3. PICK m \in {2} : Formal(template, m) = Verb /\ Given(Verb, instance, template, {2}) = args[m]
    BY <1>1, <1>3, <1>4, GivenIsOne
  <2>4. n = 1 /\ k = 3 /\ m = 2 BY <1>2, <2>1, <2>2, <2>3
  <2>. QED BY <2>1, <2>2, <2>3, <2>4
<1>6. PICK renaming : renaming = Renaming(call, instance, template) OBVIOUS
<1>7. renaming = [x \in {Subject, Object} |-> NameOf(Given(x, instance, template, {1, 3}))]
  BY <1>3, <1>6 DEF Renaming
<1>8. renaming = [x \in {Subject, Object} |-> IF x = Subject THEN input.pk_col ELSE c]
  <2>1. NameOf(Given(Subject, instance, template, {1, 3})) = input.pk_col BY <1>1, <1>5
  <2>2. NameOf(Given(Object, instance, template, {1, 3})) = c BY <1>1, <1>5
  <2>. QED BY <1>2, <1>7, <2>1, <2>2
<1>9. DOMAIN UnrolledColumns(instance, template) = {} BY <1>3 DEF UnrolledColumns
<1>10. DOMAIN DynamicFor(call, instance, template) = {Subject, Object} BY <1>3 DEF DynamicFor
<1>11. DynamicFor(call, instance, template)[Object] = call.dynamic_columns[c]
  <2>1. DynamicFor(call, instance, template)[Object] = call.dynamic_columns[renaming[Object]]
    BY <1>3, <1>6 DEF DynamicFor
  <2>. QED BY <1>2, <1>8, <2>1
<1>12. DOMAIN StaticFor(call, instance, template) = {Verb}
       /\ StaticFor(call, instance, template)[Verb].value = DefaultPredicate[c]
  <2>1. Static(call, instance) \union Fixed(instance) = {2} OBVIOUS
  <2>2. ~IsVariable(Given(Verb, instance, template, {2}))
        /\ ValueOf(Given(Verb, instance, template, {2})) = DefaultPredicate[c]
    BY <1>1, <1>5
  <2>3. PICK static : static = StaticFor(call, instance, template) OBVIOUS
  <2>4. DOMAIN static = {Verb} BY <1>3, <2>1, <2>3 DEF StaticFor
  <2>5. static[Verb] = [value |-> ValueOf(Given(Verb, instance, template, {2})),
                        ptype |-> template.parameters[Max({ n \in {2} : Formal(template, n) = Verb })].ptype]
    BY <1>3, <2>1, <2>2, <2>3 DEF StaticFor
  <2>. QED BY <2>2, <2>3, <2>4, <2>5
<1>13. ToExpand(call, instance, template) = IF IsListColumn(input.df, c) THEN <<Object>> ELSE <<>>
  <2>. DEFINE dynamic == { n \in Dynamic(call, instance) : instance.argument_list[n].list_expand }
              ns == Ordered(instance, dynamic) \o Ordered(instance, Unrolled(instance))
  <2>1. ToExpand(call, instance, template) = [k \in DOMAIN ns |-> Formal(template, ns[k])] BY DEF ToExpand
  <2>2. dynamic = IF IsListColumn(input.df, c) THEN {3} ELSE {} OBVIOUS
  <2>3. Ordered(instance, {3}) = <<3>> /\ Ordered(instance, {}) = <<>> BY OneOfThree
  <2>. HIDE DEF dynamic
  <2>4. ns = IF IsListColumn(input.df, c) THEN <<3>> ELSE <<>> BY <2>2, <2>3
  <2>. HIDE DEF ns
  <2>5. CASE IsListColumn(input.df, c)
    <3>1. ns = <<3>> BY <2>4, <2>5
    <3>2. [k \in DOMAIN ns |-> Formal(template, ns[k])] = <<Object>> BY <3>1
    <3>. QED BY <2>1, <2>5, <3>2
  <2>6. CASE ~IsListColumn(input.df, c)
    <3>1. ns = <<>> BY <2>4, <2>6
    <3>2. [k \in DOMAIN ns |-> Formal(template, ns[k])] = <<>> BY <3>1
    <3>. QED BY <2>1, <2>6, <3>2
  <2>. QED BY <2>5, <2>6
<1>14. ~RemapFails(call, instance, template) BY DEF RemapFails, RefusesArgument
<1>15. ~RemapPanics(call, instance, template)
  <2>1. \A n \in DOMAIN instance.argument_list : ~PanicsOnArgument(n, instance) BY DEF PanicsOnArgument
  <2>2. \A n, k \in Dynamic(call, instance) \union Unrolled(instance) :
            n # k => Formal(template, n) # Formal(template, k)
    BY <1>2
  <2>3. instance.list_expander \notin {"zipMin", "zipMax"} OBVIOUS
  <2>. QED BY <2>1, <2>2, <2>3 DEF RemapPanics
<1>. QED BY <1>6, <1>8, <1>9, <1>10, <1>11, <1>12, <1>13, <1>14, <1>15 DEF RemapsByDefault

\* Renaming makes a subject of the key and an object of the column.
PairsUp(call, rows, c) ==
    /\ rows \in Seq([{Subject, Object} -> Cells]) /\ DOMAIN rows = DOMAIN call.rows
    /\ \A m \in DOMAIN call.rows :
          rows[m][Subject] = call.rows[m][input.pk_col] /\ rows[m][Object] = call.rows[m][c]

LEMMA SubjectsAndObjects ==
    ASSUME NEW call, NEW instance, NEW template, NEW c, DefaultArguments(call, instance, c),
           IsTripleTemplate(template), IsInstance(instance, template), HasTypedRows(call)
    PROVE  PairsUp(call, RowsFor(call, instance, template), c)
<1>1. PICK rows, renaming, constants :
          /\ rows = RowsFor(call, instance, template) /\ renaming = Renaming(call, instance, template)
          /\ constants = UnrolledColumns(instance, template)
  OBVIOUS
<1>2. /\ renaming = [x \in {Subject, Object} |-> IF x = Subject THEN input.pk_col ELSE c]
      /\ DOMAIN constants = {} /\ DOMAIN DynamicFor(call, instance, template) = {Subject, Object}
  <2>1. /\ Renaming(call, instance, template)
              = [x \in {Subject, Object} |-> IF x = Subject THEN input.pk_col ELSE c]
        /\ DOMAIN UnrolledColumns(instance, template) = {}
        /\ DOMAIN DynamicFor(call, instance, template) = {Subject, Object}
    <3>1. RemapsByDefault(call, instance, template, c) BY RemappedByDefault
    <3>. QED BY ONLY <3>1 DEF RemapsByDefault
  <2>. QED BY <1>1, <2>1
<1>3. rows \in Seq([{Subject, Object} -> Cells]) BY <1>1, <1>2, RowsForTyped
<1>4. DOMAIN renaming = {Subject, Object} /\ renaming[Subject] = input.pk_col /\ renaming[Object] = c
  BY <1>2 DEF Subject, Object
<1>5. rows = WithColumns([m \in DOMAIN call.rows |-> Renamed(call.rows[m], renaming)], {Subject, Object}, constants)
  BY <1>1, <1>4 DEF RowsFor
<1>6. rows = [m \in DOMAIN call.rows |-> Over(constants, Renamed(call.rows[m], renaming))]
  BY <1>5 DEF WithColumns
<1>7. ASSUME NEW m \in DOMAIN call.rows
      PROVE  rows[m][Subject] = call.rows[m][input.pk_col] /\ rows[m][Object] = call.rows[m][c]
  <2>1. PICK renamed : renamed = Renamed(call.rows[m], renaming) OBVIOUS
  <2>2. DOMAIN renamed = {Subject, Object}
        /\ renamed[Subject] = call.rows[m][input.pk_col] /\ renamed[Object] = call.rows[m][c]
    BY <1>4, <2>1 DEF Renamed
  <2>3. Over(constants, renamed)[Subject] = renamed[Subject] /\ Over(constants, renamed)[Object] = renamed[Object]
    BY <1>2, <2>2 DEF Over
  <2>. QED BY <1>6, <2>1, <2>2, <2>3
<1>. QED BY <1>1, <1>3, <1>6, <1>7 DEF PairsUp

LEMMA ItemsOfList ==
    ASSUME NEW cell \in Cells, cell = Null \/ cell \notin Terms
    PROVE  ToSet(Items(cell)) \ {Null} = ToSet(Elements(cell)) \ {Null}
<1>1. ToSet(<<Null>>) = {Null} /\ ToSet(<<>>) = {} BY DEF ToSet
<1>2. CASE cell = <<>>
  <2>1. Items(cell) = <<Null>> /\ Elements(cell) = <<>> BY <1>2 DEF Items, Elements
  <2>. QED BY <1>1, <2>1
<1>3. CASE cell # <<>> /\ IsList(cell)
  <2>1. Items(cell) = cell /\ Elements(cell) = cell BY <1>3 DEF Items, Elements, IsList
  <2>. QED BY <2>1
<1>4. CASE cell # <<>> /\ ~IsList(cell)
  <2>1. cell = Null BY <1>4 DEF IsList
  <2>2. Items(cell) = <<Null>> /\ Elements(cell) = <<>> BY <1>4, <2>1 DEF Items, Elements
  <2>. QED BY <1>1, <2>2
<1>. QED BY <1>2, <1>3, <1>4

LEMMA ExplodedObjects ==
    ASSUME NEW r, DOMAIN r = {Subject, Object}
    PROVE  /\ \A row \in Exploded(r, Object) :
                  row[Subject] = r[Subject] /\ row[Object] \in ToSet(Items(r[Object]))
           /\ \A t \in ToSet(Items(r[Object])) :
                  \E row \in Exploded(r, Object) : row[Subject] = r[Subject] /\ row[Object] = t
<1>1. Subject # Object BY DEF Subject, Object
<1>2. ASSUME NEW t \in ToSet(Items(r[Object]))
      PROVE  [r EXCEPT ![Object] = t] \in Exploded(r, Object)
  BY DEF Exploded
<1>3. \A t : [r EXCEPT ![Object] = t][Subject] = r[Subject] /\ [r EXCEPT ![Object] = t][Object] = t
  BY <1>1
<1>4. ASSUME NEW row \in Exploded(r, Object)
      PROVE  row[Subject] = r[Subject] /\ row[Object] \in ToSet(Items(r[Object]))
  <2>1. PICK t \in ToSet(Items(r[Object])) : row = [r EXCEPT ![Object] = t] BY DEF Exploded
  <2>. QED BY <1>3, <2>1
<1>. QED BY <1>2, <1>3, <1>4

\* A frame of the keys and a column, its lists expanded, holds the pairs meant.
LEMMA PairsAreKept ==
    ASSUME IsDataFrame(input.df), input.pk_col \in DOMAIN input.df.dtypes, NEW c \in Others,
           NEW rows \in Seq([{Subject, Object} -> Cells]), DOMAIN rows = DOMAIN input.df.rows,
           \A m \in DOMAIN input.df.rows : /\ rows[m][Subject] = input.df.rows[m][input.pk_col]
                                           /\ rows[m][Object] = input.df.rows[m][c],
           NEW next, next = ListExpanded(IF IsListColumn(input.df, c) THEN "cross" ELSE "none", rows,
                                         IF IsListColumn(input.df, c) THEN <<Object>> ELSE <<>>)
    PROVE  next \in Seq([{Subject, Object} -> Cells]) /\ PairsOf(next) = PairsFor(c)
<1>1. PICK df, pk : df = input.df /\ pk = input.pk_col OBVIOUS
<1>2. Subject # Object BY DEF Subject, Object
<1>3. ASSUME NEW p
      PROVE  p \in PairsFor(c) <=> \E m \in DOMAIN df.rows : \E t \in CellsFor(df.rows[m], c) :
                                        df.rows[m][pk] # Null /\ p = <<df.rows[m][pk], t>>
  BY <1>1 DEF PairsFor, ToSet
<1>4. CASE ~IsListColumn(input.df, c)
  <2>1. next = rows BY <1>4 DEF ListExpanded
  <2>2. ASSUME NEW p
        PROVE  p \in PairsOf(rows) <=> \E m \in DOMAIN df.rows :
                    /\ df.rows[m][pk] # Null /\ df.rows[m][c] # Null
                    /\ p = <<df.rows[m][pk], df.rows[m][c]>>
    BY <1>1, SMTT(20) DEF PairsOf, ToSet
  <2>3. \A row : CellsFor(row, c) = {row[c]} \ {Null} BY <1>4 DEF CellsFor
  <2>4. \A p : p \in PairsOf(rows) <=> p \in PairsFor(c) BY <1>3, <2>2, <2>3
  <2>. QED BY <2>1, <2>4
<1>5. CASE IsListColumn(input.df, c)
  <2>1. next = ExplodeOne(rows, Object)
    <3>1. <<Object>> # <<>> OBVIOUS
    <3>2. next = ExplodeEach(rows, <<Object>>) BY <1>5, <3>1 DEF ListExpanded
    <3>. QED BY <3>2, ExplodedOnce
  <2>2. PICK columns : columns = {Subject, Object} OBVIOUS
  <2>10. rows \in Seq([columns -> Cells]) /\ Object \in columns BY <2>2
  <2>3. /\ next \in Seq([columns -> Cells])
        /\ \A x : x \in ToSet(next) <=> \E row \in ToSet(rows) : x \in Exploded(row, Object)
    <3>1. PICK S, q, object : S = columns /\ q = rows /\ object = Object OBVIOUS
    <3>2. q \in Seq([S -> Cells]) /\ object \in S BY <2>10, <3>1
    <3>3. ExplodeOne(q, object) \in Seq([S -> Cells]) BY ONLY <3>2, ExplodedRows
    <3>4. \A x : x \in ToSet(ExplodeOne(q, object)) <=> \E row \in ToSet(q) : x \in Exploded(row, object)
      BY ONLY <3>2, ExplodedRows
    <3>. QED BY <2>1, <3>1, <3>3, <3>4
  <2>4. DOMAIN rows = DOMAIN df.rows /\ \A m \in DOMAIN rows : rows[m] \in [columns -> Cells]
    BY <1>1, <2>10
  <2>5. ASSUME NEW m \in DOMAIN df.rows
        PROVE  ToSet(Items(df.rows[m][c])) \ {Null} = CellsFor(df.rows[m], c)
    <3>1. df.rows[m][c] \in Cells /\ (df.rows[m][c] = Null \/ df.rows[m][c] \notin Terms)
      BY <1>1, <1>5 DEF IsDataFrame, IsListColumn, Others
    <3>2. CellsFor(df.rows[m], c) = ToSet(Elements(df.rows[m][c])) \ {Null} BY <1>5 DEF CellsFor
    <3>. QED BY <3>1, <3>2, ItemsOfList
  <2>6. /\ \A row \in ToSet(next) : \E m \in DOMAIN df.rows : \E t \in ToSet(Items(df.rows[m][c])) :
                row[Subject] = df.rows[m][pk] /\ row[Object] = t
        /\ \A m \in DOMAIN df.rows : \A t \in ToSet(Items(df.rows[m][c])) : \E row \in ToSet(next) :
                row[Subject] = df.rows[m][pk] /\ row[Object] = t
    <3>0. ASSUME NEW m \in DOMAIN rows
          PROVE  DOMAIN rows[m] = {Subject, Object} /\ rows[m] \in ToSet(rows)
                 /\ rows[m][Subject] = df.rows[m][pk] /\ rows[m][Object] = df.rows[m][c]
      BY <1>1, <2>2, <2>4 DEF ToSet
    <3>1. ASSUME NEW row \in ToSet(next)
          PROVE  \E m \in DOMAIN df.rows : \E t \in ToSet(Items(df.rows[m][c])) :
                    row[Subject] = df.rows[m][pk] /\ row[Object] = t
      <4>1. PICK r \in ToSet(rows) : row \in Exploded(r, Object) BY <2>3
      <4>2. PICK m \in DOMAIN rows : r = rows[m] BY DEF ToSet
      <4>3. row[Subject] = r[Subject] /\ row[Object] \in ToSet(Items(r[Object]))
        BY <3>0, <4>1, <4>2, ExplodedObjects
      <4>. QED BY <2>4, <3>0, <4>2, <4>3
    <3>2. ASSUME NEW m \in DOMAIN df.rows, NEW t \in ToSet(Items(df.rows[m][c]))
          PROVE  \E row \in ToSet(next) : row[Subject] = df.rows[m][pk] /\ row[Object] = t
      <4>1. PICK r : r = rows[m] OBVIOUS
      <4>2. DOMAIN r = {Subject, Object} /\ t \in ToSet(Items(r[Object])) /\ r \in ToSet(rows)
            /\ r[Subject] = df.rows[m][pk]
        BY <2>4, <3>0, <4>1
      <4>3. PICK row \in Exploded(r, Object) : row[Subject] = r[Subject] /\ row[Object] = t
        BY <4>2, ExplodedObjects
      <4>4. row \in ToSet(next) BY <2>3, <4>2
      <4>. QED BY <4>2, <4>3, <4>4
    <3>. QED BY <3>1, <3>2
  <2>8. ASSUME NEW p \in PairsOf(next) PROVE p \in PairsFor(c)
    <3>1. PICK row \in ToSet(next) : row[Subject] # Null /\ row[Object] # Null /\ p = <<row[Subject], row[Object]>>
      BY DEF PairsOf
    <3>2. PICK m \in DOMAIN df.rows : \E t \in ToSet(Items(df.rows[m][c])) :
                row[Subject] = df.rows[m][pk] /\ row[Object] = t
      BY <2>6
    <3>4. PICK t \in ToSet(Items(df.rows[m][c])) : row[Subject] = df.rows[m][pk] /\ row[Object] = t BY <3>2
    <3>5. t \in CellsFor(df.rows[m], c) BY <2>5, <3>1, <3>4
    <3>. QED BY <1>3, <3>1, <3>4, <3>5
  <2>9. ASSUME NEW p \in PairsFor(c) PROVE p \in PairsOf(next)
    <3>1. PICK m \in DOMAIN df.rows : \E t \in CellsFor(df.rows[m], c) :
                                        df.rows[m][pk] # Null /\ p = <<df.rows[m][pk], t>>
      BY <1>3
    <3>2. PICK t \in CellsFor(df.rows[m], c) : df.rows[m][pk] # Null /\ p = <<df.rows[m][pk], t>> BY <3>1
    <3>3. t \in ToSet(Items(df.rows[m][c])) /\ t # Null BY <2>5, <3>2
    <3>4. PICK row \in ToSet(next) : row[Subject] = df.rows[m][pk] /\ row[Object] = t BY <2>6, <3>3
    <3>. QED BY <3>2, <3>3, <3>4 DEF PairsOf
  <2>. QED BY <2>2, <2>3, <2>8, <2>9
<1>. QED BY <1>4, <1>5

LEMMA StandsForColumn ==
    ASSUME InputOK, input.pk_col \in DOMAIN input.df.dtypes, NEW c \in Others,
           NEW call, call.rows = input.df.rows, DOMAIN call.dynamic_columns = DOMAIN input.df.dtypes,
           call.dynamic_columns[c] = ObjectType(c),
           NEW i, NEW instance, DefaultArguments(call, instance, c),
           NEW template, IsTripleTemplate(template), IsInstance(instance, template)
    PROVE  StandsFor(Remapped(call, i, instance, template), c)
<1>1. PICK next, rows, cs, expander :
          /\ next = Remapped(call, i, instance, template) /\ rows = RowsFor(call, instance, template)
          /\ cs = ToExpand(call, instance, template) /\ expander = instance.list_expander
  OBVIOUS
<1>2. /\ next.rows = ListExpanded(expander, rows, cs)
      /\ next.dynamic_columns = DynamicFor(call, instance, template)
      /\ next.static_columns = StaticFor(call, instance, template)
  BY <1>1 DEF Remapped
<1>3. IsDataFrame(input.df) BY DEF InputOK
<1>4. HasTypedRows(call) BY <1>3 DEF HasTypedRows, IsDataFrame
<1>5. RemapsByDefault(call, instance, template, c) BY RemappedByDefault
<1>6. /\ DOMAIN next.dynamic_columns = {Subject, Object} /\ next.dynamic_columns[Object] = ObjectType(c)
      /\ DOMAIN next.static_columns = {Verb} /\ next.static_columns[Verb].value = DefaultPredicate[c]
      /\ cs = IF IsListColumn(input.df, c) THEN <<Object>> ELSE <<>>
  BY <1>1, <1>2, <1>5 DEF RemapsByDefault
<1>7. expander = IF IsListColumn(input.df, c) THEN "cross" ELSE "none" BY <1>1 DEF DefaultArguments
<1>8. /\ rows \in Seq([{Subject, Object} -> Cells]) /\ DOMAIN rows = DOMAIN call.rows
      /\ \A m \in DOMAIN call.rows : /\ rows[m][Subject] = call.rows[m][input.pk_col]
                                     /\ rows[m][Object] = call.rows[m][c]
  <2>1. PairsUp(call, RowsFor(call, instance, template), c) BY <1>4, SubjectsAndObjects
  <2>2. PairsUp(call, rows, c) BY <1>1, <2>1
  <2>. QED BY ONLY <2>2 DEF PairsUp
<1>9. next.rows \in Seq([{Subject, Object} -> Cells]) /\ PairsOf(next.rows) = PairsFor(c)
  <2>1. next.rows = ListExpanded(IF IsListColumn(input.df, c) THEN "cross" ELSE "none", rows,
                                 IF IsListColumn(input.df, c) THEN <<Object>> ELSE <<>>)
    BY <1>2, <1>6, <1>7
  <2>2. PICK q : q = next.rows OBVIOUS
  <2>. QED BY <1>3, <1>8, <2>1, <2>2, PairsAreKept
<1>. QED BY <1>1, <1>6, <1>9 DEF StandsFor

\* The template accepts the frame that it was made for.
LEMMA DefaultIsAccepted ==
    ASSUME InputOK, HasDefault, ColumnsFit
    PROVE  /\ IsTemplate(Resolved(input.name)) /\ Validation(target, input.df) = "expanding"
           /\ FirstCall.name = input.name /\ FirstCall.path = <<>> /\ FirstCall.rows = input.df.rows
           /\ DOMAIN FirstCall.dynamic_columns = DOMAIN input.df.dtypes
           /\ \A c \in DOMAIN input.df.dtypes : FirstCall.dynamic_columns[c] = ObjectType(c)
<1>1. PICK df, C, parameters : df = input.df /\ C = Columns(df) /\ parameters = DefaultTemplate(df).parameters
  OBVIOUS
<1>2. Resolved(input.name) = input.name /\ IsTemplate(input.name) /\ target = DefaultTemplate(df)
  BY <1>1 DEF HasDefault, Resolved, IsTemplate, target
<1>3. IsDataFrame(df) /\ IsFiniteSet(DOMAIN df.dtypes) BY <1>1 DEF InputOK, IsDataFrame
<1>4. /\ C \in Seq(DOMAIN df.dtypes) /\ ToSet(C) = DOMAIN df.dtypes
      /\ \A m, n \in DOMAIN C : C[m] = C[n] => m = n
  BY <1>1, <1>3, OrderOfColumns
<1>5. DOMAIN parameters = DOMAIN C /\ \A n \in DOMAIN C : parameters[n] = DefaultParameter(df, C[n])
  BY <1>1 DEF DefaultTemplate
<1>6. target.parameters = parameters BY <1>1, <1>2
<1>7. parameters \in Seq(Range(parameters))
  BY <1>2, <1>6 DEF InputOK, IsDataset, target, IsTemplate
<1>8. \A n \in DOMAIN C : C[n] \in DOMAIN df.dtypes BY <1>4
<1>9. ASSUME NEW c \in DOMAIN df.dtypes
      PROVE  TypeOfColumn(DefaultParameter(df, c), df.dtypes[c]).base = ObjectType(c)
             /\ ~ListsDiffer(DefaultParameter(df, c), df.dtypes[c])
  <2>1. CASE IsKey(c)
    <3>1. Basic(IRIType) \in PType
      <4>1. <<>> \in Seq(Constructors) /\ IRIType \in BasicTypes BY NamedTypesAssumption
      <4>. QED BY <4>1 DEF Basic, PType
    <3>2. DefaultParameter(df, c).ptype = Basic(IRIType) /\ Basic(IRIType) # NoType
      BY <2>1, <3>1, NoTypeAssumption DEF DefaultParameter
    <3>3. TypeOfColumn(DefaultParameter(df, c), df.dtypes[c]) = Basic(IRIType) BY <3>2 DEF TypeOfColumn
    <3>4. Basic(IRIType).base = IRIType /\ Basic(IRIType).lists = <<>> BY DEF Basic
    <3>5. df.dtypes[c].lists = <<>> BY <1>1, <2>1 DEF ColumnsFit, IsListColumn
    <3>. QED BY <2>1, <3>3, <3>4, <3>5 DEF ObjectType, ListsDiffer
  <2>2. CASE ~IsKey(c)
    <3>1. DefaultParameter(df, c).ptype = NoType BY <2>2 DEF DefaultParameter
    <3>. QED BY <1>1, <2>2, <3>1 DEF TypeOfColumn, ObjectType, ListsDiffer
  <2>. QED BY <2>1, <2>2
<1>10. ASSUME NEW n \in DOMAIN parameters
       PROVE  ~Refuses(parameters, n, df) /\ ~PanicsOnColumn(parameters[n], df)
  <2>1. PICK c : c = C[n] OBVIOUS
  <2>2. c \in DOMAIN df.dtypes /\ parameters[n] = DefaultParameter(df, c) BY <1>5, <1>8, <2>1
  <2>3. /\ parameters[n].variable = c /\ parameters[n].optional = HasNull(df, c)
        /\ parameters[n].non_blank = FALSE
    BY <2>2 DEF DefaultParameter
  <2>4. ~Repeats(parameters, n)
    <3>1. SUFFICES ASSUME NEW k \in 1 .. n - 1, parameters[k].variable = parameters[n].variable PROVE FALSE
      BY DEF Repeats
    <3>2. DOMAIN C = 1 .. Len(C) /\ Len(C) \in Nat BY <1>4
    <3>3. k \in DOMAIN C /\ n \in DOMAIN C /\ k # n BY <1>5, <3>2
    <3>4. parameters[k].variable = C[k] BY <1>5, <3>3 DEF DefaultParameter
    <3>. QED BY <1>4, <2>1, <2>3, <3>1, <3>3, <3>4
  <2>5. ~RefusesColumn(parameters[n], df)
    <3>1. ~ListsDiffer(parameters[n], df.dtypes[c]) BY <1>9, <2>2
    <3>2. HasNull(df, c) \in BOOLEAN BY DEF HasNull
    <3>. QED BY <2>2, <2>3, <3>1, <3>2 DEF RefusesColumn
  <2>6. ~PanicsOnColumn(parameters[n], df)
    <3>1. CASE IsKey(c)
      <4>1. Basic(IRIType) # NoType
        <5>1. <<>> \in Seq(Constructors) /\ IRIType \in BasicTypes BY NamedTypesAssumption
        <5>2. Basic(IRIType) \in PType BY <5>1 DEF Basic, PType
        <5>. QED BY <5>2, NoTypeAssumption
      <4>. QED BY <2>2, <2>3, <3>1, <4>1 DEF PanicsOnColumn, DefaultParameter
    <3>2. CASE ~IsKey(c)
      <4>1. df.dtypes[c].base \notin UnknownTypes BY <1>1, <2>2, <3>2 DEF ColumnsFit
      <4>. QED BY <2>3, <4>1 DEF PanicsOnColumn
    <3>. QED BY <3>1, <3>2
  <2>. QED BY <2>4, <2>5, <2>6 DEF Refuses
<1>11. FirstProblem(parameters, df) = 0 BY <1>7, <1>10, NoProblem
<1>12. ASSUME NEW n \in DOMAIN parameters PROVE Formal(target, n) = C[n]
  BY <1>5, <1>6 DEF Formal, DefaultParameter
<1>13. Formals(target) = DOMAIN df.dtypes
  <2>1. Formals(target) = { C[n] : n \in DOMAIN C } BY <1>5, <1>6, <1>12 DEF Formals
  <2>. QED BY <1>4, <2>1 DEF ToSet
<1>14. Validation(target, input.df) = "expanding" BY <1>1, <1>6, <1>11, <1>13 DEF Validation
<1>15. ASSUME NEW c \in DOMAIN df.dtypes PROVE ColumnTypes(target, df)[c] = ObjectType(c)
  <2>1. PICK n : n = CHOOSE k \in DOMAIN target.parameters : Formal(target, k) = c OBVIOUS
  <2>2. \E k \in DOMAIN target.parameters : Formal(target, k) = c
    BY <1>13 DEF Formals
  <2>3. n \in DOMAIN parameters /\ Formal(target, n) = c BY <1>6, <2>1, <2>2
  <2>4. parameters[n] = DefaultParameter(df, c) BY <1>5, <1>12, <2>3
  <2>5. ColumnTypes(target, df)[c] = TypeOfColumn(target.parameters[n], df.dtypes[c]).base
    BY <1>13, <2>1 DEF ColumnTypes
  <2>. QED BY <1>6, <1>9, <2>4, <2>5
<1>16. DOMAIN ColumnTypes(target, df) = DOMAIN df.dtypes BY <1>13 DEF ColumnTypes
<1>. QED BY <1>1, <1>2, <1>14, <1>15, <1>16 DEF FirstCall

LEMMA OfTwo ==
    ASSUME NEW a, NEW b, a # b PROVE Cardinality({a, b}) = 2
<1>1. IsFiniteSet({a}) /\ Cardinality({a}) = 1 BY FS_Singleton
<1>2. Cardinality({a} \union {b}) = Cardinality({a}) + 1 BY <1>1, FS_AddElement
<1>3. {a, b} = {a} \union {b} OBVIOUS
<1>. QED BY <1>1, <1>2, <1>3

\* The first call hands on a frame for every column beside the key.
LEMMA BranchesByDefault ==
    ASSUME InputOK, HasDefault, ColumnsFit
    PROVE  /\ ~Panics(FirstCall) /\ Branches(FirstCall) = DOMAIN InstancesOf(FirstCall)
           /\ \A i \in DOMAIN InstancesOf(FirstCall) :
                  /\ RemappedAt(FirstCall, i).name = OTTR_TRIPLE /\ Len(RemappedAt(FirstCall, i).path) = 1
                  /\ \E c \in Others : StandsFor(RemappedAt(FirstCall, i), c)
           /\ \A c \in Others : \E i \in DOMAIN InstancesOf(FirstCall) : StandsFor(RemappedAt(FirstCall, i), c)
<1>1. PICK call, others, template :
          call = FirstCall /\ others = OtherColumns(input.df) /\ template = input.templates[OTTR_TRIPLE]
  OBVIOUS
<1>2. /\ call.name = input.name /\ call.path = <<>> /\ call.rows = input.df.rows
      /\ DOMAIN call.dynamic_columns = DOMAIN input.df.dtypes
      /\ \A c \in DOMAIN input.df.dtypes : call.dynamic_columns[c] = ObjectType(c)
  BY <1>1, DefaultIsAccepted
<1>3. input.pk_col \in DOMAIN input.df.dtypes BY DEF ColumnsFit
<1>4. others \in Seq(DOMAIN input.df.dtypes) /\ ToSet(others) = Others
  BY <1>1, OrderOfColumns DEF InputOK, IsDataFrame, Others
<1>5. /\ DOMAIN InstancesOf(call) = DOMAIN others
      /\ \A i \in DOMAIN others : InstancesOf(call)[i] = DefaultInstance(input.df, others[i])
  BY <1>1, <1>2 DEF InstancesOf, HasDefault, DefaultTemplate
<1>6. IsDataset(input.templates) /\ OTTR_TRIPLE \in DOMAIN input.templates BY DEF InputOK, IsDataset
<1>7. DOMAIN template.parameters = 1 .. 3 /\ IsTripleTemplate(template)
  BY <1>1, <1>6, ParametersOfTriple DEF IsTripleTemplate
<1>8. template.parameters \in Seq(Range(template.parameters)) BY <1>1, <1>6 DEF IsDataset
<1>9. ASSUME NEW i \in DOMAIN others
      PROVE  /\ others[i] \in Others /\ DefaultArguments(call, InstancesOf(call)[i], others[i])
             /\ IsInstance(InstancesOf(call)[i], template)
             /\ CalleeOf(InstancesOf(call)[i]) = template
  <2>1. PICK c, instance : c = others[i] /\ instance = InstancesOf(call)[i] OBVIOUS
  <2>2. c \in Others BY <1>4, <2>1 DEF ToSet
  <2>3. instance = DefaultInstance(input.df, c) BY <1>5, <2>1
  <2>4. DefaultArguments(call, instance, c) BY <1>2, <1>3, <2>2, <2>3, ArgumentsByDefault
  <2>5. \A n \in DOMAIN instance.argument_list :
            IsConstant(instance.argument_list[n]) => ValueOf(instance.argument_list[n]) \in Cells
    <3>1. i \in DOMAIN input.templates[input.name].pattern_list /\ input.name \in DOMAIN input.templates
          /\ instance = input.templates[input.name].pattern_list[i]
      BY <1>2, <1>5, <2>1 DEF HasDefault, InstancesOf
    <3>. QED BY <1>6, <3>1 DEF IsDataset, IsConstant, ValueOf
  <2>6. DOMAIN instance.argument_list = DOMAIN template.parameters BY <1>7, <2>4 DEF DefaultArguments
  <2>7. IsInstance(instance, template) BY <1>8, <2>5, <2>6 DEF IsInstance
  <2>8. CalleeOf(instance) = template BY <1>1, <2>4 DEF CalleeOf, DefaultArguments
  <2>. QED BY <2>1, <2>2, <2>4, <2>7, <2>8
<1>10. ASSUME NEW i \in DOMAIN others
       PROVE  ~RemapFails(call, InstancesOf(call)[i], template) /\ ~RemapPanics(call, InstancesOf(call)[i], template)
  <2>1. RemapsByDefault(call, InstancesOf(call)[i], template, others[i])
    BY <1>7, <1>9, RemappedByDefault
  <2>. QED BY <2>1 DEF RemapsByDefault
<1>11. Branches(call) = DOMAIN InstancesOf(call) BY <1>5, <1>9, <1>10 DEF Branches
<1>12. ~Panics(call)
  <2>1. ASSUME NEW i \in DOMAIN others
        PROVE  LET instance == InstancesOf(call)[i]
               IN  /\ \A n \in DOMAIN instance.argument_list : instance.argument_list[n].term.is # "List"
                   /\ NamesOf(instance) \subseteq DOMAIN call.dynamic_columns
                   /\ Cardinality(NamesOf(instance)) = Cardinality(VariablesOf(instance))
    <3>1. PICK instance, c : instance = InstancesOf(call)[i] /\ c = others[i] OBVIOUS
    <3>2. DefaultArguments(call, instance, c) /\ c \in Others BY <1>9, <3>1
    <3>3. NamesOf(instance) = {input.pk_col, c} /\ VariablesOf(instance) = {1, 3}
      BY <3>2 DEF DefaultArguments, NamesOf
    <3>4. input.pk_col # c /\ {input.pk_col, c} \subseteq DOMAIN call.dynamic_columns
      BY <1>2, <1>3, <3>2 DEF Others
    <3>5. Cardinality({input.pk_col, c}) = 2
      <4>1. PICK pk : pk = input.pk_col OBVIOUS
      <4>2. pk # c BY <3>4, <4>1
      <4>3. Cardinality({pk, c}) = 2 BY ONLY <4>2, OfTwo
      <4>. QED BY <4>1, <4>3
    <3>7. Cardinality({1, 3}) = 2
      <4>1. PICK a, b : a = 1 /\ b = 3 OBVIOUS
      <4>2. a # b BY <4>1
      <4>3. Cardinality({a, b}) = 2 BY ONLY <4>2, OfTwo
      <4>. QED BY <4>1, <4>3
    <3>6. \A n \in DOMAIN instance.argument_list : instance.argument_list[n].term.is # "List"
      BY <3>2 DEF DefaultArguments
    <3>. QED BY <3>1, <3>3, <3>4, <3>5, <3>6, <3>7
  <2>2. ~CannotCount(call) BY <1>5, <2>1 DEF CannotCount
  <2>. QED BY <1>5, <1>9, <1>10, <2>2 DEF Panics
<1>13. ASSUME NEW i \in DOMAIN others
       PROVE  /\ RemappedAt(call, i).name = OTTR_TRIPLE /\ Len(RemappedAt(call, i).path) = 1
              /\ StandsFor(RemappedAt(call, i), others[i])
  <2>1. PICK instance, c : instance = InstancesOf(call)[i] /\ c = others[i] OBVIOUS
  <2>2. /\ c \in Others /\ DefaultArguments(call, instance, c) /\ IsInstance(instance, template)
        /\ CalleeOf(instance) = template
    BY <1>9, <2>1
  <2>3. call.dynamic_columns[c] = ObjectType(c) BY <1>2, <2>2 DEF Others
  <2>4. StandsFor(Remapped(call, i, instance, template), c)
    BY <1>2, <1>3, <1>7, <2>2, <2>3, StandsForColumn
  <2>5. RemappedAt(call, i) = Remapped(call, i, instance, template) BY <2>1, <2>2 DEF RemappedAt
  <2>6. Remapped(call, i, instance, template).name = OTTR_TRIPLE BY <2>2 DEF Remapped, DefaultArguments
  <2>7. Remapped(call, i, instance, template).path = <<i>> BY <1>2 DEF Remapped
  <2>. QED BY <2>1, <2>4, <2>5, <2>6, <2>7
<1>14. \A c \in Others : \E i \in DOMAIN others : c = others[i] BY <1>4 DEF ToSet
<1>. QED BY <1>1, <1>5, <1>9, <1>11, <1>12, <1>13, <1>14

\* Steps that leave the input alone leave alone what is asked of it.
LEMMA SameDefaults ==
    ASSUME input' = input
    PROVE  /\ ColumnsFit' <=> ColumnsFit
           /\ HasDefault' <=> HasDefault
           /\ Others' = Others
           /\ \A x, c : StandsFor(x, c)' <=> StandsFor(x, c)
           /\ DefaultTriples' = DefaultTriples
<1>1. ColumnsFit' <=> ColumnsFit BY DEF ColumnsFit, IsKey, IsListColumn
<1>3. HasDefault' <=> HasDefault
  BY DEF HasDefault, DefaultTemplate, DefaultParameter, DefaultInstance, OtherColumns, Variable, IsKey
<1>4. \A x, c : StandsFor(x, c)' <=> StandsFor(x, c)
  <2>1. \A c : PairsFor(c)' = PairsFor(c) BY DEF PairsFor, CellsFor
  <2>2. \A c : ObjectType(c)' = ObjectType(c) BY DEF ObjectType, IsKey
  <2>. QED BY <2>1, <2>2 DEF StandsFor
<1>. QED BY <1>1, <1>3, <1>4 DEF Others, DefaultTriples, IsKey

LEMMA InitDefaultInv == Init => DefaultInv
  BY DEF Init, DefaultInv

\* The keys are cast to text; what the template is made from stays as it is.
LEMMA ExpandDefaultDefaultInv == IInv /\ DefaultInv /\ ExpandDefault => DefaultInv'
<1>. SUFFICES ASSUME IInv, DefaultInv, ExpandDefault, (input.pk_col # Null /\ ColumnsFit)' PROVE DefaultInv'
  BY DEF DefaultInv
<1>1. DOMAIN input = Fields /\ IsDataFrame(input.df) /\ IsDataset(input.templates)
      /\ input.name \notin DOMAIN input.templates
  BY DEF IInv, InputOK, ExpandDefault
<1>2. CASE DefaultPanics /\ UNCHANGED input
  <2>1. ColumnsFit BY <1>2, SameDefaults
  <2>. QED BY <1>2, <2>1 DEF ColumnsFit, DefaultPanics
<1>3. CASE /\ ~DefaultPanics /\ stage' = "called"
           /\ input' = [input EXCEPT
                !.templates = Over([n \in {input.name} |-> DefaultTemplate(input.df)], @),
                !.df.dtypes = [c \in DOMAIN @ |-> IF IsKey(c) THEN Basic(StringType) ELSE @[c]]]
  <2>. DEFINE dtypes == [c \in DOMAIN input.df.dtypes |->
                            IF IsKey(c) THEN Basic(StringType) ELSE input.df.dtypes[c]]
              t == Over([n \in {input.name} |-> DefaultTemplate(input.df)], input.templates)
  <2>1. /\ input.pk_col' = input.pk_col /\ input.fk_cols' = input.fk_cols /\ input.name' = input.name
        /\ input.templates' = t
        /\ input.df.rows' = input.df.rows /\ input.df.dtypes' = dtypes
    BY <1>1, <1>3 DEF Fields, IsDataFrame
  <2>2. DOMAIN dtypes = DOMAIN input.df.dtypes OBVIOUS
  <2>3. \A c \in DOMAIN dtypes : dtypes[c].lists # <<>> <=> input.df.dtypes[c].lists # <<>>
    <3>1. ASSUME NEW c \in DOMAIN dtypes, IsKey(c)
          PROVE  dtypes[c].lists = <<>> /\ input.df.dtypes[c].lists = <<>>
      BY <1>3, <3>1 DEF DefaultPanics, IsListColumn, Basic
    <3>. QED BY <3>1
  <2>4. t[input.name] = DefaultTemplate(input.df) /\ input.name \in DOMAIN t BY DEF Over
  <2>. HIDE DEF dtypes, t
  <2>5. \A c : IsKey(c)' <=> IsKey(c) BY <2>1 DEF IsKey
  <2>6. Columns(input.df)' = Columns(input.df) BY <2>1, <2>2 DEF Columns
  <2>7. OtherColumns(input.df)' = OtherColumns(input.df) BY <2>1, <2>6 DEF OtherColumns
  <2>8. ASSUME NEW c \in DOMAIN input.df.dtypes
        PROVE  /\ DefaultParameter(input.df, c)' = DefaultParameter(input.df, c)
               /\ DefaultInstance(input.df, c)' = DefaultInstance(input.df, c)
    <3>1. IsListColumn(input.df, c)' <=> IsListColumn(input.df, c)
      BY <2>1, <2>2, <2>3 DEF IsListColumn
    <3>2. HasNull(input.df, c)' <=> HasNull(input.df, c) BY <2>1 DEF HasNull
    <3>3. DefaultParameter(input.df, c)' = DefaultParameter(input.df, c)
      BY <2>5, <3>2 DEF DefaultParameter, HasNull
    <3>4. DefaultInstance(input.df, c)' = DefaultInstance(input.df, c)
      BY <2>1, <3>1 DEF DefaultInstance, Variable, IsListColumn
    <3>. QED BY <3>3, <3>4
  <2>9. DefaultTemplate(input.df)' = DefaultTemplate(input.df)
    <3>1. Columns(input.df) \in Seq(DOMAIN input.df.dtypes) /\ OtherColumns(input.df) \in Seq(DOMAIN input.df.dtypes)
      BY <1>1, OrderOfColumns DEF IsDataFrame
    <3>2. /\ \A n \in DOMAIN Columns(input.df) : Columns(input.df)[n] \in DOMAIN input.df.dtypes
          /\ \A n \in DOMAIN OtherColumns(input.df) : OtherColumns(input.df)[n] \in DOMAIN input.df.dtypes
      BY <3>1
    <3>. QED BY <2>6, <2>7, <2>8, <3>2 DEF DefaultTemplate
  <2>10. input.name # OTTR_TRIPLE BY <1>1 DEF IsDataset
  <2>11. HasDefault' BY <2>1, <2>4, <2>9, <2>10 DEF HasDefault
  <2>12. ~failed'
    <3>1. ColumnsFit
      <4>1. \A c \in DOMAIN input.df.dtypes : IsKey(c) => ~IsListColumn(input.df, c)
        BY <1>3 DEF DefaultPanics
      <4>2. \A c \in DOMAIN input.df.dtypes : ~IsKey(c) => dtypes[c] = input.df.dtypes[c] BY DEF dtypes
      <4>. QED BY <2>1, <2>2, <2>5, <4>1, <4>2 DEF ColumnsFit
    <3>. QED BY <2>1, <3>1 DEF DefaultInv, ExpandDefault
  <2>. QED BY <1>3, <2>11, <2>12 DEF DefaultInv
<1>. QED BY <1>2, <1>3 DEF ExpandDefault

\* What the recursion and process_results start from, if the columns fit.
LEMMA ExpandByDefault == IInv /\ DefaultInv /\ Expand => DefaultInv'
<1>. SUFFICES ASSUME IInv, DefaultInv, Expand, input.pk_col # Null, ColumnsFit PROVE DefaultInv'
  <2>1. Expand => input' = input BY DEF Expand
  <2>. QED BY <2>1, SameDefaults DEF DefaultInv
<1>1. input' = input /\ failed' = failed /\ instances' = instances /\ instances = {}
  BY DEF Expand, IInv, NothingBefore
<1>2. HasDefault /\ ~failed BY DEF DefaultInv, Expand
<1>3. IsTemplate(Resolved(input.name)) /\ Validation(target, input.df) = "expanding"
  BY <1>2, DefaultIsAccepted DEF IInv
<1>4. stage' = "expanding" /\ calls' = {FirstCall} BY <1>3 DEF Expand
<1>5. FirstCall' = FirstCall BY <1>1 DEF FirstCall, Resolved, IsTemplate, target
<1>6. ColumnsStandFor' BY <1>1, <1>4, <1>5 DEF ColumnsStandFor
<1>. QED BY <1>1, <1>2, <1>4, <1>6, SameDefaults DEF DefaultInv

\* A call that the store has to take stays with it.
LEMMA EmitByDefault ==
    ASSUME IInv, DefaultInv, stage = "expanding", NEW call \in calls, Emit(call)
    PROVE  DefaultInv'
<1>1. UNCHANGED <<input, stage, failed>> /\ call.name = OTTR_TRIPLE BY DEF Emit
<1>2. SUFFICES ASSUME input.pk_col # Null, ColumnsFit PROVE ColumnsStandFor'
  BY <1>1, SameDefaults DEF DefaultInv
<1>3. HasDefault /\ ColumnsStandFor BY <1>2 DEF DefaultInv
<1>4. call # FirstCall
  <2>1. FirstCall.name = input.name BY <1>2, <1>3, DefaultIsAccepted DEF IInv
  <2>. QED BY <1>1, <1>3, <2>1 DEF HasDefault
<1>5. /\ \A c \in calls : c.name = OTTR_TRIPLE /\ Len(c.path) = 1
      /\ \A x \in calls \union instances : \E c \in Others : StandsFor(x, c)
      /\ \A c \in Others : \E x \in calls \union instances : StandsFor(x, c)
  BY <1>3, <1>4 DEF ColumnsStandFor
<1>6. PICK instance :
          /\ instance.dynamic_columns = call.dynamic_columns /\ instance.static_columns = call.static_columns
          /\ instance.rows = call.rows /\ instances' = instances \union {instance}
  BY DEF Emit
<1>7. calls' = calls \ {call} BY DEF Emit
<1>8. \A c : StandsFor(instance, c) <=> StandsFor(call, c) BY <1>6 DEF StandsFor
<1>9. \A x \in calls' \union instances' : \E c \in Others : StandsFor(x, c) BY <1>5, <1>6, <1>7, <1>8
<1>10. \A c \in Others : \E x \in calls' \union instances' : StandsFor(x, c) BY <1>5, <1>6, <1>7, <1>8
<1>. QED BY <1>1, <1>5, <1>7, <1>9, <1>10, SameDefaults DEF ColumnsStandFor

LEMMA InstantiateByDefault ==
    ASSUME IInv, DefaultInv, stage = "expanding", NEW call \in calls, Instantiate(call)
    PROVE  DefaultInv'
<1>1. /\ UNCHANGED <<input, stage, instances>> /\ call.name # OTTR_TRIPLE
      /\ calls' = (calls \ {call}) \union { RemappedAt(call, i) : i \in Branches(call) }
      /\ failed' = (failed \/ Branches(call) # DOMAIN InstancesOf(call))
  BY DEF Instantiate
<1>2. SUFFICES ASSUME input.pk_col # Null, ColumnsFit PROVE ~failed' /\ ColumnsStandFor'
  BY <1>1, SameDefaults DEF DefaultInv
<1>3. HasDefault /\ ColumnsStandFor /\ ~failed BY <1>2 DEF DefaultInv
<1>4. calls = {FirstCall} /\ instances = {} /\ call = FirstCall BY <1>1, <1>3 DEF ColumnsStandFor
<1>5. /\ Branches(FirstCall) = DOMAIN InstancesOf(FirstCall)
      /\ \A i \in DOMAIN InstancesOf(FirstCall) :
            /\ RemappedAt(FirstCall, i).name = OTTR_TRIPLE /\ Len(RemappedAt(FirstCall, i).path) = 1
            /\ \E c \in Others : StandsFor(RemappedAt(FirstCall, i), c)
      /\ \A c \in Others : \E i \in DOMAIN InstancesOf(FirstCall) : StandsFor(RemappedAt(FirstCall, i), c)
  BY <1>2, <1>3, BranchesByDefault DEF IInv
<1>6. ~failed' BY <1>1, <1>3, <1>4, <1>5
<1>7. PICK new : new = { RemappedAt(FirstCall, i) : i \in DOMAIN InstancesOf(FirstCall) } OBVIOUS
<1>8. calls' = new /\ instances' = {} BY <1>1, <1>4, <1>5, <1>7
<1>9. /\ \A x \in new : x.name = OTTR_TRIPLE /\ Len(x.path) = 1 /\ \E c \in Others : StandsFor(x, c)
      /\ \A c \in Others : \E x \in new : StandsFor(x, c)
  <2>1. ASSUME NEW x \in new PROVE x.name = OTTR_TRIPLE /\ Len(x.path) = 1 /\ \E c \in Others : StandsFor(x, c)
    <3>1. PICK i \in DOMAIN InstancesOf(FirstCall) : x = RemappedAt(FirstCall, i) BY <1>7
    <3>. QED BY <1>5, <3>1
  <2>2. ASSUME NEW c \in Others PROVE \E x \in new : StandsFor(x, c)
    <3>1. PICK i \in DOMAIN InstancesOf(FirstCall) : StandsFor(RemappedAt(FirstCall, i), c) BY <1>5
    <3>2. RemappedAt(FirstCall, i) \in new BY <1>7
    <3>. QED BY <3>1, <3>2
  <2>. QED BY <2>1, <2>2
<1>10. ColumnsStandFor' BY <1>1, <1>8, <1>9, SameDefaults DEF ColumnsStandFor
<1>. QED BY <1>6, <1>10

\* There is room for the template and for the triples that it names.
LEMMA NothingStopsByDefault ==
    ASSUME StackDepth > 1, IInv, DefaultInv, stage = "expanding", NEW call \in calls,
           InstantiatePanics(call) \/ StackOverflows(call)
    PROVE  DefaultInv'
<1>1. UNCHANGED input BY DEF InstantiatePanics, StackOverflows
<1>2. SUFFICES ASSUME input.pk_col # Null, ColumnsFit PROVE FALSE
  BY <1>1, SameDefaults DEF DefaultInv
<1>3. HasDefault /\ ColumnsStandFor BY <1>2 DEF DefaultInv
<1>4. ~Panics(FirstCall) /\ FirstCall.path = <<>>
  BY <1>2, <1>3, BranchesByDefault, DefaultIsAccepted DEF IInv
<1>5. CASE call = FirstCall
  <2>1. Len(call.path) = 0 BY <1>4, <1>5
  <2>2. Fits(call) BY <2>1, DepthAssumption DEF Fits
  <2>. QED BY <1>4, <1>5, <2>2 DEF InstantiatePanics, StackOverflows
<1>6. CASE call # FirstCall
  <2>1. call.name = OTTR_TRIPLE /\ Len(call.path) = 1 BY <1>3, <1>6 DEF ColumnsStandFor
  <2>2. Fits(call) BY <2>1, DepthAssumption DEF Fits
  <2>. QED BY <2>1, <2>2 DEF InstantiatePanics, StackOverflows
<1>. QED BY <1>5, <1>6

\* The triples of a pair, and of a frame that stands for a column.
TripleOf(s, c, o) == [s |-> s, v |-> DefaultPredicate[c], o |-> o, type |-> ObjectType(c)]

LEMMA TriplesOfDefault ==
    ASSUME NEW y
    PROVE  y \in DefaultTriples <=> \E c \in Others : \E s, o : <<s, o>> \in PairsFor(c) /\ y = TripleOf(s, c, o)
<1>. DEFINE rows == { r \in ToSet(input.df.rows) : r[input.pk_col] # Null }
            of(row, c) == { TripleOf(row[input.pk_col], c, t) : t \in CellsFor(row, c) }
<1>1. DefaultTriples = UNION { of(row, c) : row \in rows, c \in Others }
  BY DEF DefaultTriples, Others, CellsFor, TripleOf, ObjectType
<1>2. y \in DefaultTriples <=> \E row \in rows, c \in Others : y \in of(row, c)
  <2>. HIDE DEF of, rows
  <2>. QED BY <1>1
<1>3. ASSUME y \in DefaultTriples
      PROVE  \E c \in Others : \E s, o : <<s, o>> \in PairsFor(c) /\ y = TripleOf(s, c, o)
  <2>1. PICK row \in rows, c \in Others : y \in of(row, c) BY <1>2, <1>3
  <2>2. PICK o \in CellsFor(row, c) : y = TripleOf(row[input.pk_col], c, o) BY <2>1
  <2>3. <<row[input.pk_col], o>> \in PairsFor(c) BY <2>1 DEF PairsFor
  <2>. QED BY <2>2, <2>3
<1>4. ASSUME NEW c \in Others, NEW s, NEW o, <<s, o>> \in PairsFor(c), y = TripleOf(s, c, o)
      PROVE  y \in DefaultTriples
  <2>1. PICK row \in rows : s = row[input.pk_col] /\ o \in CellsFor(row, c)
    BY <1>4 DEF PairsFor
  <2>2. y \in of(row, c) BY <1>4, <2>1
  <2>. QED BY <1>2, <2>2
<1>. QED BY <1>3, <1>4

LEMMA FormedByDefault ==
    ASSUME NEW x, NEW c \in Others, StandsFor(x, c), IsIRIOrNull(DefaultPredicate[c]), DefaultPredicate[c] # Null
    PROVE  /\ ~CreateFails(x) /\ ~CreatePanics(x)
           /\ \A y : y \in TriplesIn(TriplesOf(x))
                        <=> \E s, o : <<s, o>> \in PairsFor(c) /\ y = TripleOf(s, c, o)
<1>1. Subject # Object /\ Subject # Verb /\ Verb # Object BY DEF Subject, Verb, Object
<1>2. Added(x) = {} BY DEF Added, StandsFor
<1>3. PICK p : p = DefaultPredicate[c] OBVIOUS
<1>4. p \in Terms /\ p # Null /\ TermType[p] = IRIType BY <1>3 DEF IsIRIOrNull
<1>5. IsPredicate(p) BY <1>4 DEF IsPredicate, IsList, BasicOf
<1>6. ~CreateFails(x) /\ ~CreatePanics(x)
  BY <1>2, <1>3, <1>5 DEF CreateFails, CreatePanics, StandsFor
<1>7. PICK t : t = TriplesOf(x) OBVIOUS
<1>8. /\ x.rows \in Seq([{Subject, Object} -> Cells]) /\ DOMAIN x.dynamic_columns = {Subject, Object}
      /\ x.dynamic_columns[Object] = ObjectType(c) /\ DOMAIN x.static_columns = {Verb}
      /\ x.static_columns[Verb].value = p /\ PairsOf(x.rows) = PairsFor(c)
  BY <1>3 DEF StandsFor
<1>9. t.static_verb = p BY <1>7, <1>8 DEF TriplesOf
<1>10. t.object_type = ObjectType(c) BY <1>2, <1>7, <1>8 DEF TriplesOf
<1>11. DOMAIN t.rows = DOMAIN x.rows
       /\ \A m \in DOMAIN x.rows : /\ DOMAIN t.rows[m] = {Subject, Object}
                                   /\ t.rows[m][Subject] = x.rows[m][Subject]
                                   /\ t.rows[m][Object] = x.rows[m][Object]
  <2>1. PICK constants, rows :
            /\ constants = [k \in Added(x) |-> x.static_columns[k].value]
            /\ rows = WithColumns(x.rows, DOMAIN x.dynamic_columns, constants)
    OBVIOUS
  <2>2. t.rows = [m \in DOMAIN rows |-> [k \in {Subject, Object} |-> rows[m][k]]]
    BY <1>7, <1>8, <2>1 DEF TriplesOf
  <2>3. rows = [m \in DOMAIN x.rows |-> Over(constants, x.rows[m])] BY <1>8, <2>1 DEF WithColumns
  <2>4. DOMAIN constants = {} BY <1>2, <2>1
  <2>5. ASSUME NEW m \in DOMAIN x.rows
        PROVE  Over(constants, x.rows[m])[Subject] = x.rows[m][Subject]
               /\ Over(constants, x.rows[m])[Object] = x.rows[m][Object]
    <3>1. PICK r : r = x.rows[m] OBVIOUS
    <3>2. DOMAIN r = {Subject, Object} BY <1>8, <3>1
    <3>3. Over(constants, r)[Subject] = r[Subject] /\ Over(constants, r)[Object] = r[Object]
      BY <2>4, <3>2 DEF Over
    <3>. QED BY <3>1, <3>3
  <2>. QED BY <2>2, <2>3, <2>5
<1>12. ASSUME NEW y \in TriplesIn(t) PROVE \E s, o : <<s, o>> \in PairsFor(c) /\ y = TripleOf(s, c, o)
  <2>1. PICK row \in ToSet(t.rows) : IsWhole(row) /\ y = TripleOf(row[Subject], c, row[Object])
    BY <1>3, <1>4, <1>9, <1>10 DEF TriplesIn, TripleOf
  <2>2. PICK m \in DOMAIN x.rows : row = t.rows[m] BY <1>11 DEF ToSet
  <2>3. row[Subject] # Null /\ row[Object] # Null BY <1>11, <2>1, <2>2 DEF IsWhole
  <2>4. <<row[Subject], row[Object]>> \in PairsOf(x.rows) BY <1>11, <2>2, <2>3 DEF PairsOf, ToSet
  <2>. QED BY <1>8, <2>1, <2>4
<1>13. ASSUME NEW s, NEW o, <<s, o>> \in PairsFor(c) PROVE TripleOf(s, c, o) \in TriplesIn(t)
  <2>1. <<s, o>> \in PairsOf(x.rows) BY <1>8, <1>13
  <2>2. PICK r \in ToSet(x.rows) : r[Subject] # Null /\ r[Object] # Null /\ s = r[Subject] /\ o = r[Object]
    BY <2>1 DEF PairsOf
  <2>3. PICK m \in DOMAIN x.rows : r = x.rows[m] BY <2>2 DEF ToSet
  <2>4. t.rows[m] \in ToSet(t.rows) BY <1>11, <2>3 DEF ToSet
  <2>5. IsWhole(t.rows[m]) BY <1>11, <2>2, <2>3 DEF IsWhole
  <2>6. t.rows[m][Subject] = s /\ t.rows[m][Object] = o BY <1>11, <2>2, <2>3
  <2>. QED BY <1>3, <1>4, <1>9, <1>10, <2>4, <2>5, <2>6 DEF TriplesIn, TripleOf
<1>14. \A y : y \in TriplesIn(t) <=> \E s, o : <<s, o>> \in PairsFor(c) /\ y = TripleOf(s, c, o)
  BY <1>12, <1>13
<1>. QED BY <1>6, <1>7, <1>14

LEMMA ProcessResultsByDefault == IInv /\ DefaultInv /\ ProcessResults => DefaultInv'
<1>. SUFFICES ASSUME IInv, DefaultInv, ProcessResults, input.pk_col # Null, ColumnsFit PROVE DefaultInv'
  <2>1. ProcessResults => input' = input BY DEF ProcessResults
  <2>. QED BY <2>1, SameDefaults DEF DefaultInv
<1>2. UNCHANGED <<input, calls, failed>> /\ calls = {} BY DEF ProcessResults, Expanded
<1>3. ~failed /\ HasDefault /\ ColumnsStandFor BY DEF DefaultInv, ProcessResults, Expanded
<1>4. /\ \A x \in instances : \E c \in Others : StandsFor(x, c)
      /\ \A c \in Others : \E x \in instances : StandsFor(x, c)
  BY <1>2, <1>3 DEF ColumnsStandFor
<1>5. ASSUME NEW c \in Others PROVE IsIRIOrNull(DefaultPredicate[c]) /\ DefaultPredicate[c] # Null
  BY DEF IInv, InputOK, ColumnsFit, Others
<1>6. \A x \in instances : ~CreateFails(x) /\ ~CreatePanics(x)
  BY <1>4, <1>5, FormedByDefault
<1>7. stage' = "ok" BY <1>3, <1>6 DEF ProcessResults, ProcessingFails, ProcessingPanics
<1>8. added' = { TriplesOf(x) : x \in instances } BY <1>7 DEF ProcessResults
<1>9. PICK new, all : new = { TriplesOf(x) : x \in instances } /\ all = DefaultTriples OBVIOUS
<1>10. ASSUME NEW y PROVE y \in UNION { TriplesIn(t) : t \in new } <=> y \in all
  <2>1. ASSUME NEW x \in instances, y \in TriplesIn(TriplesOf(x)) PROVE y \in DefaultTriples
    <3>1. PICK c \in Others : StandsFor(x, c) BY <1>4
    <3>. QED BY <1>5, <2>1, <3>1, FormedByDefault, TriplesOfDefault, SMTT(20)
  <2>2. ASSUME y \in DefaultTriples PROVE \E x \in instances : y \in TriplesIn(TriplesOf(x))
    <3>1. PICK c \in Others : \E s, o : <<s, o>> \in PairsFor(c) /\ y = TripleOf(s, c, o)
      BY <2>2, TriplesOfDefault
    <3>2. PICK x \in instances : StandsFor(x, c) BY <1>4
    <3>. QED BY <1>5, <3>1, <3>2, FormedByDefault
  <2>. QED BY <1>9, <2>1, <2>2
<1>11. UNION { TriplesIn(t) : t \in new } = all BY <1>10
<1>12. added' = new /\ DefaultTriples' = all BY <1>2, <1>8, <1>9, SameDefaults
<1>. QED BY <1>2, <1>3, <1>7, <1>11, <1>12, SameDefaults DEF DefaultInv, TriplesIn

LEMMA NextDefaultInv == ASSUME StackDepth > 1 PROVE IInv /\ DefaultInv /\ [Next]_vars => DefaultInv'
<1>. SUFFICES ASSUME IInv, DefaultInv, [Next]_vars PROVE DefaultInv' OBVIOUS
<1>1. CASE ExpandDefault BY <1>1, ExpandDefaultDefaultInv
<1>2. CASE Expand BY <1>2, ExpandByDefault
<1>3. ASSUME stage = "expanding", NEW call \in calls,
             Emit(call) \/ Instantiate(call) \/ InstantiatePanics(call) \/ StackOverflows(call)
      PROVE  DefaultInv'
  BY <1>3, EmitByDefault, InstantiateByDefault, NothingStopsByDefault
<1>4. CASE ProcessResults BY <1>4, ProcessResultsByDefault
<1>5. CASE UNCHANGED vars
  <2>1. UNCHANGED <<input, stage, calls, instances, failed, added>> BY <1>5 DEF vars
  <2>2. FirstCall' = FirstCall BY <2>1 DEF FirstCall, Resolved, IsTemplate, target
  <2>3. ColumnsStandFor' <=> ColumnsStandFor BY <2>1, <2>2, SameDefaults DEF ColumnsStandFor
  <2>. QED BY <2>1, <2>3, SameDefaults DEF DefaultInv, TriplesIn
<1>. QED BY <1>1, <1>2, <1>3, <1>4, <1>5 DEF Next

\* Whatever nulls and lists are in a frame, whatever its keys and however its
\* branches run, expand_default gives a triple for every cell beside the key and
\* for every element of a list there, with no error: the template that it makes
\* from the frame accepts this frame, and the stack has room for it and ottr:Triple.
THEOREM DefaultsGiveEveryCell ==
    ASSUME StackDepth > 1 PROVE Spec => []DefaultsAreExact
<1>1. DefaultInv => DefaultsAreExact BY DEF DefaultInv, DefaultsAreExact
<1>2. IInv /\ DefaultInv /\ [Next]_vars => IInv' /\ DefaultInv' BY NextIInv, NextDefaultInv
<1>. QED BY <1>1, <1>2, InitIInv, InitDefaultInv, PTL DEF Spec

----------------------------------------------------------------------------
\* Where the elements of a flattened sequence come from: the sequence it was in,
\* and the place there.  Sequences of the same lengths have the same places.
BlockOf(s, i)  == [k \in DOMAIN s[i] |-> <<i, k>>]
PlacesOf(s)    == FlattenSeq([i \in DOMAIN s |-> BlockOf(s, i)])
IsAligned(s, a, b, i) ==
    /\ Len(a) = Len(b)
    /\ \A m \in 1 .. Len(b) : /\ b[m][1] \in 1 .. i /\ b[m][2] \in DOMAIN s[b[m][1]]
                              /\ a[m] = s[b[m][1]][b[m][2]]
    /\ \A m, n \in 1 .. Len(b) : b[m] = b[n] => m = n

LEMMA Concatenated ==
    ASSUME NEW S, NEW a \in Seq(S), NEW b \in Seq(S)
    PROVE  /\ a \o b \in Seq(S) /\ Len(a \o b) = Len(a) + Len(b)
           /\ \A m \in 1 .. Len(a \o b) : (a \o b)[m] = IF m <= Len(a) THEN a[m] ELSE b[m - Len(a)]
OBVIOUS

LEMMA BlockIsTyped ==
    ASSUME NEW S, NEW s \in Seq(Seq(S)), NEW i \in 1 .. Len(s)
    PROVE  /\ s[i] \in Seq(S) /\ BlockOf(s, i) \in Seq(Nat \X Nat)
           /\ Len(BlockOf(s, i)) = Len(s[i])
           /\ \A k \in 1 .. Len(s[i]) : k \in DOMAIN s[i] /\ BlockOf(s, i)[k] = <<i, k>>
<1>1. PICK t \in Seq(S) : t = s[i] OBVIOUS
<1>2. DOMAIN t = 1 .. Len(t) /\ Len(t) \in Nat BY <1>1
<1>3. BlockOf(s, i) = [k \in 1 .. Len(t) |-> <<i, k>>] BY <1>1, <1>2 DEF BlockOf
<1>4. \A k \in 1 .. Len(t) : <<i, k>> \in Nat \X Nat BY <1>2
<1>5. [k \in 1 .. Len(t) |-> <<i, k>>] \in Seq(Nat \X Nat) BY <1>2, <1>4
<1>. QED BY <1>1, <1>2, <1>3, <1>5

LEMMA AlignedStep ==
    ASSUME NEW S, NEW s \in Seq(Seq(S)), NEW i \in 1 .. Len(s), i # 1,
           NEW a \in Seq(S), NEW b \in Seq(Nat \X Nat), IsAligned(s, a, b, i - 1)
    PROVE  /\ a \o s[i] \in Seq(S) /\ b \o BlockOf(s, i) \in Seq(Nat \X Nat)
           /\ IsAligned(s, a \o s[i], b \o BlockOf(s, i), i)
<1>1. PICK t, d : t = s[i] /\ d = BlockOf(s, i) OBVIOUS
<1>2. /\ t \in Seq(S) /\ d \in Seq(Nat \X Nat) /\ Len(d) = Len(t)
      /\ \A k \in 1 .. Len(t) : k \in DOMAIN s[i] /\ d[k] = <<i, k>>
  BY <1>1, BlockIsTyped
<1>3. PICK at, bd : at = a \o t /\ bd = b \o d OBVIOUS
<1>4. /\ at \in Seq(S) /\ Len(at) = Len(a) + Len(t)
      /\ \A m \in 1 .. Len(at) : at[m] = IF m <= Len(a) THEN a[m] ELSE t[m - Len(a)]
  <2>1. t \in Seq(S) BY <1>2
  <2>. QED BY <1>3, <2>1, Concatenated
<1>5. /\ bd \in Seq(Nat \X Nat) /\ Len(bd) = Len(b) + Len(d)
      /\ \A m \in 1 .. Len(bd) : bd[m] = IF m <= Len(b) THEN b[m] ELSE d[m - Len(b)]
  <2>1. d \in Seq(Nat \X Nat) BY <1>2
  <2>. QED BY <1>3, <2>1, Concatenated
<1>6. /\ Len(a) = Len(b) /\ Len(b) \in Nat /\ Len(t) \in Nat
      /\ \A m \in 1 .. Len(b) : /\ b[m][1] \in 1 .. i - 1 /\ b[m][2] \in DOMAIN s[b[m][1]]
                                /\ a[m] = s[b[m][1]][b[m][2]]
      /\ \A m, n \in 1 .. Len(b) : b[m] = b[n] => m = n
  <2>1. Len(b) \in Nat OBVIOUS
  <2>2. Len(t) \in Nat BY <1>2
  <2>. QED BY <2>1, <2>2 DEF IsAligned
<1>7. \A m \in 1 .. Len(bd) : m <= Len(b) \/ (m - Len(b) \in 1 .. Len(t) /\ d[m - Len(b)] = <<i, m - Len(b)>>)
  <2>1. \A m \in 1 .. Len(b) + Len(t) : m <= Len(b) \/ m - Len(b) \in 1 .. Len(t) BY <1>6
  <2>2. Len(bd) = Len(b) + Len(t) BY <1>2, <1>5
  <2>. QED BY <1>2, <2>1, <2>2
<1>10. Len(at) = Len(bd) BY <1>2, <1>4, <1>5, <1>6
<1>8. ASSUME NEW m \in 1 .. Len(bd)
      PROVE  bd[m][1] \in 1 .. i /\ bd[m][2] \in DOMAIN s[bd[m][1]] /\ at[m] = s[bd[m][1]][bd[m][2]]
  <2>1. CASE m <= Len(b)
    <3>3. m \in 1 .. Len(b) BY <1>6, <2>1
    <3>4. bd[m] = b[m] BY <1>5, <2>1
    <3>5. at[m] = a[m] BY <1>4, <1>6, <1>10, <2>1
    <3>1. m \in 1 .. Len(b) /\ bd[m] = b[m] /\ at[m] = a[m] BY <3>3, <3>4, <3>5
    <3>2. \A x \in 1 .. i - 1 : x \in 1 .. i OBVIOUS
    <3>. QED BY <1>6, <3>1, <3>2
  <2>2. CASE ~(m <= Len(b))
    <3>1. PICK k : k = m - Len(b) OBVIOUS
    <3>2. k \in 1 .. Len(t) /\ bd[m] = <<i, k>> /\ at[m] = t[k]
      BY <1>4, <1>5, <1>6, <1>7, <1>10, <2>2, <3>1
    <3>. QED BY <1>1, <1>2, <3>2
  <2>. QED BY <2>1, <2>2
<1>9. ASSUME NEW m \in 1 .. Len(bd), NEW n \in 1 .. Len(bd), bd[m] = bd[n] PROVE m = n
  <2>1. CASE m <= Len(b) /\ n <= Len(b)
    <3>1. m \in 1 .. Len(b) /\ n \in 1 .. Len(b) BY <1>6, <2>1
    <3>2. bd[m] = b[m] /\ bd[n] = b[n] BY <1>5, <2>1
    <3>. QED BY <1>6, <1>9, <3>1, <3>2
  <2>2. CASE ~(m <= Len(b)) /\ ~(n <= Len(b))
    <3>1. bd[m] = <<i, m - Len(b)>> /\ bd[n] = <<i, n - Len(b)>> BY <1>5, <1>7, <2>2
    <3>2. \A x, y : <<i, x>> = <<i, y>> => x = y OBVIOUS
    <3>3. m - Len(b) = n - Len(b) BY <1>9, <3>1, <3>2, Zenon
    <3>. QED BY <1>6, <3>3
  <2>3. ASSUME NEW x \in 1 .. Len(bd), NEW y \in 1 .. Len(bd), x <= Len(b), ~(y <= Len(b)), bd[x] = bd[y]
        PROVE  FALSE
    <3>1. bd[y] = <<i, y - Len(b)>> BY <1>5, <1>7, <2>3
    <3>2. bd[x] = b[x] /\ x \in 1 .. Len(b) BY <1>5, <1>6, <2>3
    <3>3. b[x] = <<i, y - Len(b)>> BY <2>3, <3>1, <3>2
    <3>4. b[x][1] \in 1 .. i - 1 BY <1>6, <3>2
    <3>. QED BY ONLY <3>3, <3>4, i \in Nat
  <2>. QED BY <1>9, <2>1, <2>2, <2>3
<1>. QED BY <1>1, <1>3, <1>4, <1>5, <1>8, <1>9, <1>10, ZenonT(40) DEF IsAligned

LEMMA PlacesAlign ==
    ASSUME NEW S, NEW s \in Seq(Seq(S))
    PROVE  /\ PlacesOf(s) \in Seq(Nat \X Nat)
           /\ IsAligned(s, FlattenSeq(s), PlacesOf(s), Len(s))
           /\ ToSet(PlacesOf(s)) = UNION { { <<i, k>> : k \in DOMAIN s[i] } : i \in 1 .. Len(s) }
<1>. DEFINE n == Len(s)
            P == Nat \X Nat
<1>1. PICK u : u = [i \in DOMAIN s |-> BlockOf(s, i)] OBVIOUS
<1>0. n \in Nat /\ DOMAIN s = 1 .. n /\ \A i \in 1 .. n : s[i] \in Seq(S) OBVIOUS
<1>2. u \in Seq(Seq(P)) /\ Len(u) = n /\ \A i \in 1 .. n : u[i] = BlockOf(s, i)
  <2>1. \A i \in 1 .. n : BlockOf(s, i) \in Seq(P) BY BlockIsTyped
  <2>2. u = [i \in 1 .. n |-> BlockOf(s, i)] BY <1>0, <1>1
  <2>. HIDE DEF n, P
  <2>. QED BY <1>0, <2>1, <2>2
<1>3. PlacesOf(s) = FlattenSeq(u) BY <1>1 DEF PlacesOf
<1>4. PlacesOf(s) \in Seq(P) /\ ToSet(PlacesOf(s)) = UNION { ToSet(u[i]) : i \in 1 .. Len(u) }
  BY <1>2, <1>3, Flattened
<1>5. ASSUME NEW i \in 1 .. n PROVE ToSet(u[i]) = { <<i, k>> : k \in DOMAIN s[i] }
  <2>1. PICK t \in Seq(S) : t = s[i] BY <1>0
  <2>2. u[i] = [k \in DOMAIN t |-> <<i, k>>] BY <1>2, <2>1 DEF BlockOf
  <2>3. PICK d : d = [k \in DOMAIN t |-> <<i, k>>] OBVIOUS
  <2>4. ToSet(d) = { <<i, k>> : k \in DOMAIN t } BY <2>3 DEF ToSet
  <2>. QED BY <2>1, <2>2, <2>3, <2>4
<1>6. UNION { ToSet(u[i]) : i \in 1 .. n } = UNION { { <<i, k>> : k \in DOMAIN s[i] } : i \in 1 .. n }
  BY <1>5
<1>7. IsAligned(s, FlattenSeq(s), FlattenSeq(u), n)
  <2>1. CASE n = 0
    <3>1. s = <<>> /\ u = <<>> BY <1>2, <2>1
    <3>2. FlattenSeq(s) = <<>> /\ FlattenSeq(u) = <<>> BY <3>1 DEF FlattenSeq
    <3>. QED BY <3>2 DEF IsAligned
  <2>2. CASE n # 0
    <3>1. PICK f : f = [i \in 1 .. n |-> FlattenBody(s, f, i)] /\ FlattenSeq(s) = f[n]
      BY <2>2, FlattenEquation
    <3>2. PICK g : g = [i \in 1 .. n |-> FlattenBody(u, g, i)] /\ FlattenSeq(u) = g[n]
      BY <1>2, <2>2, FlattenEquation
    <3>. DEFINE T == { i \in 1 .. n : f[i] \in Seq(S) /\ g[i] \in Seq(P) /\ IsAligned(s, f[i], g[i], i) }
                size == [i \in 1 .. n |-> i]
    <3>3. ASSUME NEW i \in 1 .. n, \A k \in 1 .. n : size[k] < size[i] => k \in T PROVE i \in T
      <4>1. f[i] = FlattenBody(s, f, i) /\ g[i] = FlattenBody(u, g, i) BY <3>1, <3>2
      <4>2. CASE i = 1
        <5>1. f[1] = s[1] /\ g[1] = BlockOf(s, 1) BY <1>2, <4>1, <4>2 DEF FlattenBody
        <5>2. PICK t, d : t = s[1] /\ d = BlockOf(s, 1) OBVIOUS
        <5>3. t \in Seq(S) /\ d \in Seq(P) /\ Len(d) = Len(t) /\ \A k \in 1 .. Len(t) : k \in DOMAIN s[1] /\ d[k] = <<1, k>>
          BY <4>2, <5>2, BlockIsTyped
        <5>4. IsAligned(s, t, d, 1) BY <5>2, <5>3 DEF IsAligned
        <5>. QED BY <4>2, <5>1, <5>2, <5>3, <5>4
      <4>3. CASE i # 1
        <5>1. f[i] = f[i - 1] \o s[i] /\ g[i] = g[i - 1] \o BlockOf(s, i)
          BY <1>2, <4>1, <4>3 DEF FlattenBody
        <5>2. i - 1 \in T
          <6>1. i - 1 \in 1 .. n /\ size[i - 1] < size[i] BY <1>0, <4>3
          <6>. HIDE DEF T
          <6>. QED BY <3>3, <6>1
        <5>3. f[i - 1] \in Seq(S) /\ g[i - 1] \in Seq(P) /\ IsAligned(s, f[i - 1], g[i - 1], i - 1) BY <5>2
        <5>4. PICK a, b : a = f[i - 1] /\ b = g[i - 1] OBVIOUS
        <5>5. a \o s[i] \in Seq(S) /\ b \o BlockOf(s, i) \in Seq(P) /\ IsAligned(s, a \o s[i], b \o BlockOf(s, i), i)
          BY <4>3, <5>3, <5>4, AlignedStep
        <5>. QED BY <5>1, <5>4, <5>5
      <4>. QED BY <4>2, <4>3
    <3>4. \A i \in 1 .. n : size[i] \in Nat BY <1>0
    <3>. HIDE DEF T, size
    <3>5. n \in 1 .. n BY <1>0, <2>2
    <3>. HIDE DEF n
    <3>6. 1 .. n \subseteq T
      <4>1. PICK D : D = 1 .. n OBVIOUS
      <4>2. /\ \A i \in D : size[i] \in Nat
            /\ \A i \in D : (\A k \in D : size[k] < size[i] => k \in T) => i \in T
        BY <3>3, <3>4, <4>1, Zenon
      <4>3. D \subseteq T BY ONLY <4>2, Induction
      <4>. QED BY <4>1, <4>3
    <3>. QED BY <3>1, <3>2, <3>5, <3>6 DEF T
  <2>. QED BY <2>1, <2>2
<1>. QED BY <1>2, <1>3, <1>4, <1>6, <1>7

----------------------------------------------------------------------------
\* The rows that a list expander makes of a row.

\* Some item of every list, whatever the others.
IsCross(columns, X, row, x) ==
    /\ x \in [columns -> Cells]
    /\ \A c \in columns : IF c \in X THEN x[c] \in ToSet(Items(row[c])) ELSE x[c] = row[c]

LEMMA CrossOneMore ==
    ASSUME NEW columns, NEW X \in SUBSET columns, NEW c \in columns \ X, NEW row \in [columns -> Cells], NEW x
    PROVE  IsCross(columns, X \union {c}, row, x)
               <=> \E y : IsCross(columns, X, row, y) /\ x \in Exploded(y, c)
<1>1. ASSUME IsCross(columns, X \union {c}, row, x)
      PROVE  \E y : IsCross(columns, X, row, y) /\ x \in Exploded(y, c)
  <2>1. PICK y : y = [x EXCEPT ![c] = row[c]] OBVIOUS
  <2>2. /\ x \in [columns -> Cells] /\ x[c] \in ToSet(Items(row[c]))
        /\ \A d \in columns : d # c => IF d \in X THEN x[d] \in ToSet(Items(row[d])) ELSE x[d] = row[d]
    BY <1>1 DEF IsCross
  <2>3. y \in [columns -> Cells] /\ y[c] = row[c] /\ \A d \in columns : d # c => y[d] = x[d]
    BY <2>1, <2>2
  <2>4. IsCross(columns, X, row, y) BY <2>2, <2>3 DEF IsCross
  <2>5. x = [y EXCEPT ![c] = x[c]] BY <2>1, <2>2
  <2>6. x \in Exploded(y, c) BY <2>2, <2>3, <2>5 DEF Exploded
  <2>. QED BY <2>4, <2>6
<1>2. ASSUME NEW y, IsCross(columns, X, row, y), x \in Exploded(y, c)
      PROVE  IsCross(columns, X \union {c}, row, x)
  <2>1. y \in [columns -> Cells] /\ y[c] = row[c] BY <1>2 DEF IsCross
  <2>2. PICK t \in ToSet(Items(row[c])) : x = [y EXCEPT ![c] = t] BY <1>2, <2>1 DEF Exploded
  <2>3. Items(row[c]) \in Seq(Cells) BY ItemsAreCells
  <2>4. t \in Cells BY <2>3 DEF ToSet
  <2>5. x \in [columns -> Cells] /\ x[c] = t /\ \A d \in columns : d # c => x[d] = y[d] BY <2>1, <2>2, <2>4
  <2>. QED BY <1>2, <2>2, <2>5 DEF IsCross
<1>. QED BY <1>1, <1>2

LEMMA CrossRows ==
    ASSUME NEW columns, NEW rows \in Seq([columns -> Cells]), NEW cs \in Seq(columns),
           \A m, n \in DOMAIN cs : cs[m] = cs[n] => m = n
    PROVE  \A x : x \in ToSet(ExplodeEach(rows, cs))
                    <=> \E row \in ToSet(rows) : IsCross(columns, ToSet(cs), row, x)
<1>0. rows \in Seq([columns -> Cells]) /\ cs \in Seq(columns) OBVIOUS
<1>1. PICK f : /\ f = [s \in SUBSET DOMAIN cs |-> EachBody(rows, cs, f, s)]
               /\ ExplodeEach(rows, cs) = f[DOMAIN cs]
  BY ONLY <1>0, ExplodeEachEquation
<1>. DEFINE D == DOMAIN cs
            R == [columns -> Cells]
            V == Seq(R)
            size == [s \in SUBSET D |-> Cardinality(s)]
            X(s) == { cs[n] : n \in s }
            Crossed(s, rs) == \A x : x \in ToSet(rs) <=> \E row \in ToSet(rows) : IsCross(columns, X(s), row, x)
<1>2. D = 1 .. Len(cs) /\ Len(cs) \in Nat /\ \A n \in D : cs[n] \in columns OBVIOUS
<1>3. IsFiniteSet(D) BY <1>2, FS_Interval
<1>4. \A row \in ToSet(rows) : row \in R BY DEF ToSet
<1>. DEFINE T == { s \in SUBSET D : f[s] \in V /\ Crossed(s, f[s]) }
<1>5. ASSUME NEW s \in SUBSET D, \A r \in SUBSET D : size[r] < size[s] => r \in T PROVE s \in T
  <2>1. f[s] = EachBody(rows, cs, f, s) BY <1>1
  <2>2. CASE s = {}
    <3>1. f[s] = rows BY <2>1, <2>2 DEF EachBody
    <3>2. X(s) = {} BY <2>2
    <3>3. ASSUME NEW x, NEW row \in ToSet(rows) PROVE IsCross(columns, {}, row, x) <=> x = row
      BY <1>4 DEF IsCross
    <3>4. Crossed(s, rows)
      <4>. HIDE DEF X
      <4>. QED BY <3>2, <3>3
    <3>. QED BY <3>1, <3>4
  <2>3. CASE s # {}
    <3>1. IsFiniteSet(s) BY <1>3, FS_Subset
    <3>2. Max(s) \in s BY <1>2, <2>3, Greatest
    <3>3. Cardinality(s) \in Nat /\ Cardinality(s \ {Max(s)}) = Cardinality(s) - 1
      BY <3>1, <3>2, FS_CardinalityType, FS_RemoveElement
    <3>4. PICK r, c : r = s \ {Max(s)} /\ c = cs[Max(s)] OBVIOUS
    <3>5. r \in SUBSET D /\ size[r] < size[s] BY <3>3, <3>4
    <3>6. r \in T
      <4>. HIDE DEF T, size
      <4>. QED BY <1>5, <3>5
    <3>7. f[r] \in V /\ Crossed(r, f[r]) BY <3>6
    <3>8. c \in columns /\ X(r) \in SUBSET columns /\ c \notin X(r) /\ X(s) = X(r) \union {c}
      <4>1. c \in columns /\ \A n \in s : cs[n] \in columns BY <1>2, <3>2, <3>4
      <4>2. \A n \in r : n \in DOMAIN cs /\ n # Max(s) BY <3>4
      <4>3. \A n \in r : cs[n] # c BY <3>2, <3>4, <4>2
      <4>4. s = r \union {Max(s)} BY <3>2, <3>4
      <4>. QED BY <3>4, <4>1, <4>3, <4>4
    <3>9. f[s] = ExplodeOne(f[r], c) BY <2>1, <2>3, <3>4 DEF EachBody
    <3>10. /\ f[s] \in V
           /\ \A x : x \in ToSet(f[s]) <=> \E y \in ToSet(f[r]) : x \in Exploded(y, c)
      <4>1. PICK rs : rs = f[r] OBVIOUS
      <4>2. rs \in Seq([columns -> Cells]) /\ c \in columns BY <3>7, <3>8, <4>1
      <4>3. /\ ExplodeOne(rs, c) \in Seq([columns -> Cells])
            /\ \A x : x \in ToSet(ExplodeOne(rs, c)) <=> \E y \in ToSet(rs) : x \in Exploded(y, c)
        BY ONLY <4>2, ExplodedRows
      <4>. QED BY <3>9, <4>1, <4>3
    <3>11. ASSUME NEW x
           PROVE  x \in ToSet(f[s]) <=> \E row \in ToSet(rows) : IsCross(columns, X(s), row, x)
      <4>1. PICK A, B : A = X(r) /\ B = X(s) OBVIOUS
      <4>2. A \in SUBSET columns /\ c \in columns \ A /\ B = A \union {c} BY <3>8, <4>1
      <4>3. \A y : y \in ToSet(f[r]) <=> \E row \in ToSet(rows) : IsCross(columns, A, row, y) BY <3>7, <4>1
      <4>4. \A row \in ToSet(rows) : IsCross(columns, B, row, x)
                <=> \E y : IsCross(columns, A, row, y) /\ x \in Exploded(y, c)
        BY <1>4, <4>2, CrossOneMore
      <4>. HIDE DEF X, T, V, R, D
      <4>. QED BY <3>10, <4>1, <4>3, <4>4
    <3>12. Crossed(s, f[s]) BY <3>11
    <3>. QED BY <3>10, <3>12
  <2>. QED BY <2>2, <2>3
<1>6. \A s \in SUBSET D : size[s] \in Nat
  <2>1. ASSUME NEW s \in SUBSET D PROVE Cardinality(s) \in Nat BY <1>3, FS_Subset, FS_CardinalityType
  <2>. QED BY <2>1
<1>7. X(D) = ToSet(cs) BY DEF ToSet
<1>. HIDE DEF T, size
<1>8. SUBSET D \subseteq T
  <2>. HIDE DEF D
  <2>1. PICK E : E = SUBSET D OBVIOUS
  <2>2. /\ \A s \in E : size[s] \in Nat
        /\ \A s \in E : (\A r \in E : size[r] < size[s] => r \in T) => s \in T
    BY <1>5, <1>6, <2>1
  <2>3. E \subseteq T BY ONLY <2>2, Induction
  <2>. QED BY <2>1, <2>3
<1>9. D \in T BY <1>8
<1>10. Crossed(D, f[D]) BY <1>9 DEF T
<1>. HIDE DEF X
<1>. QED BY <1>1, <1>7, <1>10

\* The items at one place of all lists.
SameRow(columns, X, row, k) == [c \in columns |-> IF c \in X THEN Items(row[c])[k] ELSE row[c]]

LEMMA ZippedRows ==
    ASSUME NEW columns, NEW rows \in Seq([columns -> Cells]), NEW cs \in Seq(columns), cs # <<>>,
           \A m \in DOMAIN rows : \A c \in ToSet(cs) : Len(Items(rows[m][c])) = Len(Items(rows[m][cs[1]]))
    PROVE  /\ ~ExplodeFails(rows, cs)
           /\ \A x : x \in ToSet(Explode(rows, cs))
                <=> \E row \in ToSet(rows) : \E k \in DOMAIN Items(row[cs[1]]) : x = SameRow(columns, ToSet(cs), row, k)
<1>. DEFINE R == [columns -> Cells]
            n == Len(rows)
<1>1. PICK d, X : d = cs[1] /\ X = ToSet(cs) OBVIOUS
<1>2. d \in columns /\ d \in X /\ X \subseteq columns BY <1>1 DEF ToSet
<1>3. n \in Nat /\ DOMAIN rows = 1 .. n /\ \A m \in 1 .. n : rows[m] \in R OBVIOUS
<1>4. ASSUME NEW m \in 1 .. n, NEW c \in columns
      PROVE  Items(rows[m][c]) \in Seq(Cells) /\ DOMAIN Items(rows[m][c]) = 1 .. Len(Items(rows[m][c]))
  <2>1. rows[m][c] \in Cells BY <1>3
  <2>2. Items(rows[m][c]) \in Seq(Cells) BY <2>1, ItemsAreCells
  <2>. QED BY <2>2
<1>5. \A m \in 1 .. n : \A c \in X : DOMAIN Items(rows[m][c]) = DOMAIN Items(rows[m][d])
  <2>1. ASSUME NEW m \in 1 .. n, NEW c \in X PROVE DOMAIN Items(rows[m][c]) = DOMAIN Items(rows[m][d])
    <3>1. Len(Items(rows[m][c])) = Len(Items(rows[m][d])) BY <1>1, <1>3
    <3>2. DOMAIN Items(rows[m][c]) = 1 .. Len(Items(rows[m][c])) BY <1>2, <1>4
    <3>3. DOMAIN Items(rows[m][d]) = 1 .. Len(Items(rows[m][d])) BY <1>2, <1>4
    <3>. QED BY <3>1, <3>2, <3>3
  <2>. QED BY <2>1
<1>. DEFINE items(c) == [m \in DOMAIN rows |-> Items(rows[m][c])]
            parts == [m \in DOMAIN rows |->
                        [k \in DOMAIN Items(rows[m][d]) |-> [rows[m] EXCEPT ![d] = Items(@)[k]]]]
            P == PlacesOf(parts)
<1>6. /\ parts \in Seq(Seq(R)) /\ Len(parts) = n
      /\ \A m \in 1 .. n : DOMAIN parts[m] = DOMAIN Items(rows[m][d])
  <2>1. ASSUME NEW m \in 1 .. n PROVE parts[m] \in Seq(R) /\ DOMAIN parts[m] = DOMAIN Items(rows[m][d])
    <3>1. PICK row, its : row = rows[m] /\ its = Items(row[d]) OBVIOUS
    <3>2. row \in R /\ its \in Seq(Cells) BY <1>2, <1>3, <1>4, <3>1
    <3>3. parts[m] = [k \in DOMAIN its |-> [row EXCEPT ![d] = its[k]]] BY <1>3, <3>1
    <3>. HIDE DEF parts
    <3>4. \A k \in DOMAIN its : [row EXCEPT ![d] = its[k]] \in R BY <1>2, <3>2
    <3>5. DOMAIN its = 1 .. Len(its) /\ Len(its) \in Nat BY <3>2
    <3>. HIDE DEF R
    <3>. QED BY <3>1, <3>3, <3>4, <3>5
  <2>2. parts = [m \in 1 .. n |-> parts[m]] BY <1>3
  <2>. HIDE DEF parts, R, n
  <2>. QED BY <1>3, <2>1, <2>2
<1>7. ASSUME NEW c \in X
      PROVE  items(c) \in Seq(Seq(Cells)) /\ Len(items(c)) = n /\ PlacesOf(items(c)) = P
  <2>1. PICK s : s = items(c) OBVIOUS
  <2>2. s = [m \in 1 .. n |-> Items(rows[m][c])] BY <1>3, <2>1
  <2>3. \A m \in 1 .. n : Items(rows[m][c]) \in Seq(Cells) BY <1>2, <1>4
  <2>4. s \in Seq(Seq(Cells)) /\ Len(s) = n
    <3>. HIDE DEF n, items
    <3>. QED BY <1>3, <2>2, <2>3
  <2>5. \A m \in 1 .. n : DOMAIN s[m] = DOMAIN parts[m] BY <1>5, <1>6, <2>2
  <2>6. DOMAIN s = 1 .. n /\ DOMAIN parts = 1 .. n BY <1>3, <2>2
  <2>7. \A m \in 1 .. n : BlockOf(s, m) = BlockOf(parts, m) BY <2>5 DEF BlockOf
  <2>8. PlacesOf(s) = PlacesOf(parts)
    <3>. HIDE DEF parts, n, items
    <3>1. [m \in 1 .. n |-> BlockOf(s, m)] = [m \in 1 .. n |-> BlockOf(parts, m)] BY <2>7
    <3>. QED BY <2>6, <3>1 DEF PlacesOf
  <2>. QED BY <2>1, <2>4, <2>8
<1>8. PICK first : first = ExplodeOne(rows, d) OBVIOUS
<1>9. first = FlattenSeq(parts) BY <1>8 DEF ExplodeOne
<1>10. \A c : Flat(rows, c) = FlattenSeq(items(c)) BY DEF Flat
<1>. HIDE DEF parts
<1>11. /\ first \in Seq(R) /\ P \in Seq(Nat \X Nat) /\ IsAligned(parts, first, P, n)
       /\ ToSet(P) = UNION { { <<m, k>> : k \in DOMAIN parts[m] } : m \in 1 .. n }
  <2>. HIDE DEF R
  <2>1. first \in Seq(R) BY <1>6, <1>9, Flattened
  <2>. QED BY <1>6, <1>9, <2>1, PlacesAlign
<1>12. ASSUME NEW c \in X
       PROVE  Flat(rows, c) \in Seq(Cells) /\ IsAligned(items(c), Flat(rows, c), P, n)
  <2>1. PICK s : s = items(c) OBVIOUS
  <2>2. s \in Seq(Seq(Cells)) /\ Len(s) = n /\ PlacesOf(s) = P BY <1>7, <2>1
  <2>3. FlattenSeq(s) \in Seq(Cells) /\ IsAligned(s, FlattenSeq(s), P, n)
    <3>. HIDE DEF n, P
    <3>. QED BY <2>2, Flattened, PlacesAlign
  <2>. QED BY <1>10, <2>1, <2>3
<1>. HIDE DEF P
<1>13. \A c \in X : Len(Flat(rows, c)) = Len(P) BY <1>12 DEF IsAligned
<1>14. ~ExplodeFails(rows, cs) BY <1>1, <1>2, <1>13 DEF ExplodeFails
<1>15. Len(first) = Len(P) /\ Len(P) \in Nat /\ DOMAIN first = 1 .. Len(P) BY <1>11 DEF IsAligned
<1>16. Explode(rows, cs) = [m \in DOMAIN first |-> [c \in DOMAIN first[m] |->
                                IF c \in X THEN Flat(rows, c)[m] ELSE first[m][c]]]
  BY <1>1, <1>8 DEF Explode
<1>17. ASSUME NEW m \in 1 .. Len(P)
       PROVE  /\ P[m][1] \in 1 .. n /\ P[m][2] \in DOMAIN Items(rows[P[m][1]][d])
              /\ Explode(rows, cs)[m] = SameRow(columns, X, rows[P[m][1]], P[m][2])
  <2>1. PICK j, k : j = P[m][1] /\ k = P[m][2] OBVIOUS
  <2>2. j \in 1 .. n /\ k \in DOMAIN parts[j] /\ first[m] = parts[j][k] BY <1>11, <2>1 DEF IsAligned
  <2>3. k \in DOMAIN Items(rows[j][d]) BY <1>6, <2>2
  <2>4. first[m] = [rows[j] EXCEPT ![d] = Items(rows[j][d])[k]] BY <1>3, <2>2, <2>3 DEF parts
  <2>5. DOMAIN first[m] = columns /\ \A c \in columns : c # d => first[m][c] = rows[j][c]
    BY <1>3, <2>2, <2>4
  <2>6. \A c \in X : Flat(rows, c)[m] = Items(rows[j][c])[k]
    <3>1. ASSUME NEW c \in X PROVE Flat(rows, c)[m] = Items(rows[j][c])[k]
      <4>1. Flat(rows, c)[m] = items(c)[j][k] BY <1>12, <2>1 DEF IsAligned
      <4>. QED BY <1>3, <2>2, <4>1
    <3>. QED BY <3>1
  <2>7. Explode(rows, cs)[m] = [c \in columns |-> IF c \in X THEN Flat(rows, c)[m] ELSE first[m][c]]
    BY <1>15, <1>16, <2>5
  <2>8. Explode(rows, cs)[m] = SameRow(columns, X, rows[j], k) BY <1>2, <2>5, <2>6, <2>7 DEF SameRow
  <2>. QED BY <2>1, <2>2, <2>3, <2>8
<1>18. DOMAIN Explode(rows, cs) = 1 .. Len(P) BY <1>15, <1>16
<1>19. ASSUME NEW j \in 1 .. n, NEW k \in DOMAIN Items(rows[j][d])
       PROVE  \E m \in 1 .. Len(P) : P[m] = <<j, k>>
  <2>1. <<j, k>> \in ToSet(P) BY <1>6, <1>11
  <2>2. DOMAIN P = 1 .. Len(P) BY <1>11
  <2>. QED BY <2>1, <2>2 DEF ToSet
<1>20. ASSUME NEW x, x \in ToSet(Explode(rows, cs))
       PROVE  \E row \in ToSet(rows) : \E k \in DOMAIN Items(row[d]) : x = SameRow(columns, X, row, k)
  <2>1. PICK m \in 1 .. Len(P) : x = Explode(rows, cs)[m] BY <1>18, <1>20 DEF ToSet
  <2>2. PICK row : row = rows[P[m][1]] OBVIOUS
  <2>3. row \in ToSet(rows) BY <1>3, <1>17, <2>2 DEF ToSet
  <2>. QED BY <1>17, <2>1, <2>2, <2>3
<1>21. ASSUME NEW row \in ToSet(rows), NEW k \in DOMAIN Items(row[d])
       PROVE  SameRow(columns, X, row, k) \in ToSet(Explode(rows, cs))
  <2>1. PICK j \in 1 .. n : row = rows[j] BY <1>3 DEF ToSet
  <2>2. PICK m \in 1 .. Len(P) : P[m] = <<j, k>> BY <1>19, <2>1
  <2>3. Explode(rows, cs)[m] = SameRow(columns, X, row, k) BY <1>17, <2>1, <2>2
  <2>. QED BY <1>18, <2>3 DEF ToSet
<1>. QED BY <1>1, <1>14, <1>20, <1>21

----------------------------------------------------------------------------
\* What a list expander makes of a row.

\* What a list expander makes of a row, by the columns it expands.
IsZip(expander) == expander \in {"zipMin", "zipMax"}
IsSpread(expander, columns, X, row, x) ==
    IF X = {} \/ expander \notin {"cross", "zipMin", "zipMax"} THEN x = row
    ELSE IF expander = "cross" THEN IsCross(columns, X, row, x)
    ELSE /\ \E k : (\A c \in X : k \in DOMAIN Items(row[c])) /\ x = SameRow(columns, X, row, k)
         /\ expander = "zipMin" => \A c \in X : x[c] # Null

LEMMA SpreadRows ==
    ASSUME NEW columns, NEW rows \in Seq([columns -> Cells]), NEW cs \in Seq(columns),
           \A m, n \in DOMAIN cs : cs[m] = cs[n] => m = n, NEW expander,
           IsZip(expander) => \A row \in ToSet(rows) : \A c, d \in ToSet(cs) : Len(Items(row[c])) = Len(Items(row[d]))
    PROVE  /\ IsZip(expander) => ~ExplodeFails(rows, cs)
           /\ \A x : x \in ToSet(ListExpanded(expander, rows, cs))
                        <=> \E row \in ToSet(rows) : IsSpread(expander, columns, ToSet(cs), row, x)
<1>1. PICK X : X = ToSet(cs) OBVIOUS
<1>2. X \subseteq columns /\ (cs = <<>> <=> X = {})
  <2>1. DOMAIN cs = 1 .. Len(cs) /\ Len(cs) \in Nat OBVIOUS
  <2>2. cs # <<>> => 1 \in DOMAIN cs OBVIOUS
  <2>3. cs = <<>> => X = {} BY <1>1 DEF ToSet
  <2>. QED BY <1>1, <2>2, <2>3 DEF ToSet
<1>3. CASE cs = <<>>
  <2>1. ListExpanded(expander, rows, cs) = rows BY <1>3 DEF ListExpanded
  <2>2. ~ExplodeFails(rows, cs) BY <1>1, <1>2, <1>3 DEF ExplodeFails
  <2>. QED BY <1>1, <1>2, <1>3, <2>1, <2>2 DEF IsSpread
<1>4. CASE cs # <<>> /\ expander \notin {"cross", "zipMin", "zipMax"}
  <2>1. ListExpanded(expander, rows, cs) = rows BY <1>4 DEF ListExpanded
  <2>. QED BY <1>4, <2>1 DEF IsSpread, IsZip
<1>5. CASE cs # <<>> /\ expander = "cross"
  <2>1. ListExpanded(expander, rows, cs) = ExplodeEach(rows, cs) BY <1>5 DEF ListExpanded
  <2>2. \A x : x \in ToSet(ExplodeEach(rows, cs)) <=> \E row \in ToSet(rows) : IsCross(columns, X, row, x)
    BY <1>1, CrossRows
  <2>. QED BY <1>1, <1>2, <1>5, <2>1, <2>2 DEF IsSpread, IsZip
<1>6. CASE cs # <<>> /\ IsZip(expander)
  <2>1. \A m \in DOMAIN rows : rows[m] \in ToSet(rows) /\ rows[m] \in [columns -> Cells] BY DEF ToSet
  <2>2. \A row \in ToSet(rows) : row \in [columns -> Cells] BY DEF ToSet
  <2>3. cs[1] \in X
    <3>1. 1 \in DOMAIN cs BY <1>6
    <3>. QED BY <1>1, <3>1 DEF ToSet
  <2>4. \A m \in DOMAIN rows : \A c \in X : Len(Items(rows[m][c])) = Len(Items(rows[m][cs[1]]))
    BY <1>1, <1>6, <2>1, <2>3
  <2>5. /\ ~ExplodeFails(rows, cs)
        /\ \A x : x \in ToSet(Explode(rows, cs))
                <=> \E row \in ToSet(rows) : \E k \in DOMAIN Items(row[cs[1]]) : x = SameRow(columns, X, row, k)
    BY <1>1, <1>6, <2>4, ZippedRows
  <2>6. ASSUME NEW row \in ToSet(rows), NEW k
        PROVE  k \in DOMAIN Items(row[cs[1]]) <=> \A c \in X : k \in DOMAIN Items(row[c])
    <3>1. ASSUME NEW c \in X PROVE DOMAIN Items(row[c]) = 1 .. Len(Items(row[c]))
      <4>1. row[c] \in Cells BY <1>2, <2>2
      <4>2. Items(row[c]) \in Seq(Cells) BY <4>1, ItemsAreCells
      <4>. QED BY <4>2
    <3>2. \A c \in X : Len(Items(row[c])) = Len(Items(row[cs[1]])) BY <1>1, <1>6, <2>3
    <3>. QED BY <2>3, <3>1, <3>2
  <2>7. \A x : x \in ToSet(Explode(rows, cs))
            <=> \E row \in ToSet(rows) : \E k : (\A c \in X : k \in DOMAIN Items(row[c])) /\ x = SameRow(columns, X, row, k)
    BY <2>5, <2>6
  <2>8. CASE expander = "zipMax"
    <3>1. ListExpanded(expander, rows, cs) = Explode(rows, cs) BY <1>6, <2>8 DEF ListExpanded
    <3>. QED BY <1>1, <1>2, <1>6, <2>5, <2>7, <2>8, <3>1 DEF IsSpread
  <2>9. CASE expander = "zipMin"
    <3>1. ListExpanded(expander, rows, cs) = WithoutNulls(Explode(rows, cs), cs) BY <1>6, <2>9 DEF ListExpanded
    <3>2. PICK e, ns : e = Explode(rows, cs) /\ ns = { m \in DOMAIN e : \A c \in X : e[m][c] # Null } OBVIOUS
    <3>3. WithoutNulls(Explode(rows, cs), cs) = Picked(e, ns) BY <1>1, <3>2 DEF WithoutNulls
    <3>4. e \in Seq([columns -> Cells])
      <4>1. ListExpanded("zipMax", rows, cs) = e BY <1>6, <3>2 DEF ListExpanded
      <4>. QED BY <2>5, <4>1, ListExpandedRows
    <3>5. ToSet(Picked(e, ns)) = { e[n] : n \in ns \intersect DOMAIN e } BY <3>4, PickedElements
    <3>6. \A x : x \in ToSet(Picked(e, ns)) <=> x \in ToSet(e) /\ \A c \in X : x[c] # Null
      BY <3>2, <3>5, ZenonT(40) DEF ToSet
    <3>7. \A x : x \in ToSet(ListExpanded(expander, rows, cs)) <=> x \in ToSet(e) /\ \A c \in X : x[c] # Null
      BY <3>1, <3>3, <3>6
    <3>. QED BY <1>1, <1>2, <1>6, <2>5, <2>7, <2>9, <3>2, <3>7 DEF IsSpread
  <2>. QED BY <1>6, <2>8, <2>9 DEF IsZip
<1>. QED BY <1>3, <1>4, <1>5, <1>6 DEF IsZip

----------------------------------------------------------------------------
\* An instance that can be formed: what becomes of its arguments.

Args(instance) == DOMAIN instance.argument_list
IsFormed(call, instance, template) ==
    /\ IsInstance(instance, template) /\ HasDistinctNames(template)
    /\ \A n \in Args(instance) : instance.argument_list[n].term.is \in {"Variable", "Constant"}
    /\ NamesOf(instance) \subseteq DOMAIN call.dynamic_columns

\* The arguments that become columns, and those of them that are expanded.
Varied(instance)   == Args(instance) \ Fixed(instance)
Expanding(instance) == { n \in Varied(instance) : instance.argument_list[n].list_expand }

LEMMA ArgumentsOfFormed ==
    ASSUME NEW call, NEW instance, NEW template, IsFormed(call, instance, template)
    PROVE  /\ Dynamic(call, instance) = VariablesOf(instance) /\ Static(call, instance) = {}
           /\ Unknown(call, instance) = {}
           /\ VariablesOf(instance) \intersect ConstantArgs(instance) = {}
           /\ Unrolled(instance) \subseteq ConstantArgs(instance)
           /\ VariablesOf(instance) \union ConstantArgs(instance) = Args(instance)
           /\ Varied(instance) = VariablesOf(instance) \union Unrolled(instance)
           /\ Expanding(instance) = { n \in Args(instance) : instance.argument_list[n].list_expand }
<1>1. \A n \in Args(instance) : IsVariable(instance.argument_list[n]) <=> ~IsConstant(instance.argument_list[n])
  BY DEF IsFormed, IsVariable, IsConstant
<1>2. Dynamic(call, instance) = VariablesOf(instance) BY DEF IsFormed, Dynamic, NamesOf
<1>3. Static(call, instance) = {} /\ Unknown(call, instance) = {} BY <1>2 DEF Static, Unknown
<1>4. /\ VariablesOf(instance) \intersect ConstantArgs(instance) = {}
      /\ VariablesOf(instance) \union ConstantArgs(instance) = Args(instance)
  BY <1>1 DEF VariablesOf, ConstantArgs, Args
<1>5. Unrolled(instance) = { n \in ConstantArgs(instance) : instance.argument_list[n].list_expand }
      /\ Fixed(instance) = ConstantArgs(instance) \ Unrolled(instance)
  BY DEF Unrolled, Fixed
<1>6. Varied(instance) = VariablesOf(instance) \union Unrolled(instance) BY <1>4, <1>5 DEF Varied
<1>7. Expanding(instance) = { n \in Args(instance) : instance.argument_list[n].list_expand }
  BY <1>4, <1>5, <1>6 DEF Expanding
<1>. QED BY <1>2, <1>3, <1>4, <1>5, <1>6, <1>7

LEMMA GivenOfFormed ==
    ASSUME NEW call, NEW instance, NEW template, IsFormed(call, instance, template)
    PROVE  /\ \A n, k \in Args(instance) : Formal(template, n) = Formal(template, k) => n = k
           /\ \A n \in Args(instance) : ArgumentFor(Formal(template, n), instance, template) = n
           /\ \A ns \in SUBSET Args(instance) : \A n \in ns :
                 Given(Formal(template, n), instance, template, ns) = instance.argument_list[n]
           /\ Formals(template) = FormalsAt(template, Args(instance))
<1>1. \A n, k \in Args(instance) : Formal(template, n) = Formal(template, k) => n = k
  BY DEF IsFormed, IsInstance, HasDistinctNames, Args
<1>2. \A n \in Args(instance) : ArgumentFor(Formal(template, n), instance, template) = n
  BY <1>1 DEF ArgumentFor, Args
<1>3. ASSUME NEW ns \in SUBSET Args(instance), NEW n \in ns
      PROVE  Given(Formal(template, n), instance, template, ns) = instance.argument_list[n]
  <2>1. ns \in SUBSET DOMAIN instance.argument_list /\ Formal(template, n) \in FormalsAt(template, ns)
    BY DEF Args, FormalsAt
  <2>2. PICK k \in ns : /\ Formal(template, k) = Formal(template, n)
                        /\ Given(Formal(template, n), instance, template, ns) = instance.argument_list[k]
    BY <2>1, GivenIsOne DEF IsFormed
  <2>. QED BY <1>1, <2>2
<1>4. Formals(template) = FormalsAt(template, Args(instance))
  BY DEF IsFormed, IsInstance, Formals, FormalsAt, Args
<1>. QED BY <1>1, <1>2, <1>3, <1>4

----------------------------------------------------------------------------
\* What an instance says of the columns of a call.

LEMMA ColumnsOfFormed ==
    ASSUME NEW call, NEW instance, NEW template, IsFormed(call, instance, template)
    PROVE  /\ DOMAIN Renaming(call, instance, template) = FormalsAt(template, VariablesOf(instance))
           /\ \A n \in VariablesOf(instance) :
                 /\ Renaming(call, instance, template)[Formal(template, n)] = NameOf(instance.argument_list[n])
                 /\ NameOf(instance.argument_list[n]) \in DOMAIN call.dynamic_columns
           /\ DOMAIN UnrolledColumns(instance, template) = FormalsAt(template, Unrolled(instance))
           /\ \A n \in Unrolled(instance) :
                 UnrolledColumns(instance, template)[Formal(template, n)] = ValueOf(instance.argument_list[n])
           /\ FormalsAt(template, Varied(instance))
                 = FormalsAt(template, VariablesOf(instance)) \union FormalsAt(template, Unrolled(instance))
<1>1. /\ Dynamic(call, instance) = VariablesOf(instance)
      /\ Varied(instance) = VariablesOf(instance) \union Unrolled(instance)
  BY ArgumentsOfFormed
<1>2. VariablesOf(instance) \in SUBSET Args(instance) /\ Unrolled(instance) \in SUBSET Args(instance)
  BY DEF VariablesOf, Unrolled, ConstantArgs, Args
<1>3. \A ns \in SUBSET Args(instance) : \A n \in ns :
            Given(Formal(template, n), instance, template, ns) = instance.argument_list[n]
  BY GivenOfFormed
<1>4. \A ns : \A n \in ns : Formal(template, n) \in FormalsAt(template, ns) BY DEF FormalsAt
<1>5. ASSUME NEW n \in VariablesOf(instance)
      PROVE  /\ Renaming(call, instance, template)[Formal(template, n)] = NameOf(instance.argument_list[n])
             /\ NameOf(instance.argument_list[n]) \in DOMAIN call.dynamic_columns
  <2>1. Renaming(call, instance, template)[Formal(template, n)] = NameOf(instance.argument_list[n])
    BY <1>1, <1>2, <1>3, <1>4 DEF Renaming
  <2>2. NameOf(instance.argument_list[n]) \in NamesOf(instance) BY DEF NamesOf
  <2>. QED BY <2>1, <2>2 DEF IsFormed
<1>6. ASSUME NEW n \in Unrolled(instance)
      PROVE  UnrolledColumns(instance, template)[Formal(template, n)] = ValueOf(instance.argument_list[n])
  BY <1>2, <1>3, <1>4 DEF UnrolledColumns
<1>7. FormalsAt(template, Varied(instance))
            = FormalsAt(template, VariablesOf(instance)) \union FormalsAt(template, Unrolled(instance))
  BY <1>1 DEF FormalsAt
<1>8. /\ DOMAIN Renaming(call, instance, template) = FormalsAt(template, VariablesOf(instance))
      /\ DOMAIN UnrolledColumns(instance, template) = FormalsAt(template, Unrolled(instance))
  BY <1>1 DEF Renaming, UnrolledColumns
<1>. QED BY <1>5, <1>6, <1>7, <1>8

----------------------------------------------------------------------------
\* The values that a row of a call gives to the parameters of its template.
EnvOf(x, row) ==
    [c \in DOMAIN x.dynamic_columns \union DOMAIN x.static_columns |->
        IF c \in DOMAIN x.dynamic_columns THEN [cell |-> row[c], type |-> x.dynamic_columns[c]]
        ELSE [cell |-> x.static_columns[c].value, type |-> BaseOf(x.static_columns[c].value)]]
FrameEnvs(x) ==
    IF DOMAIN x.dynamic_columns = {} THEN {EnvOf(x, <<>>)} ELSE { EnvOf(x, row) : row \in ToSet(x.rows) }

\* What is given for the parameters at ns.
IsOfCall(env, call) ==
    \A c \in DOMAIN call.dynamic_columns : env[c].type = call.dynamic_columns[c]
GivenFor(instance, template, env, ns) ==
    [c \in FormalsAt(template, ns) |-> CellAt(instance, ArgumentFor(c, instance, template), env)]

LEMMA GivenCells ==
    ASSUME NEW call, NEW instance, NEW template, IsFormed(call, instance, template),
           NEW ns \in SUBSET Args(instance), NEW env, NEW n \in ns
    PROVE  GivenFor(instance, template, env, ns)[Formal(template, n)] = CellAt(instance, n, env)
<1>1. Formal(template, n) \in FormalsAt(template, ns) BY DEF FormalsAt
<1>2. ArgumentFor(Formal(template, n), instance, template) = n BY GivenOfFormed
<1>. QED BY <1>1, <1>2 DEF GivenFor

LEMMA EnvsAreOfCall ==
    ASSUME NEW call, NEW env \in FrameEnvs(call) PROVE IsOfCall(env, call)
BY DEF FrameEnvs, EnvOf, IsOfCall

\* The types and constants that are handed on.
LEMMA HandedOn ==
    ASSUME NEW call, NEW instance, NEW template, IsFormed(call, instance, template)
    PROVE  /\ DOMAIN DynamicFor(call, instance, template) = FormalsAt(template, Varied(instance))
           /\ \A env : IsOfCall(env, call) => \A n \in Varied(instance) :
                 DynamicFor(call, instance, template)[Formal(template, n)]
                    = ValueIn(instance.argument_list[n], env).type
           /\ DOMAIN StaticFor(call, instance, template) = FormalsAt(template, Fixed(instance))
           /\ \A n \in Fixed(instance) :
                 StaticFor(call, instance, template)[Formal(template, n)]
                    = [value |-> ValueOf(instance.argument_list[n]), ptype |-> template.parameters[n].ptype]
<1>1. /\ Dynamic(call, instance) = VariablesOf(instance) /\ Static(call, instance) = {}
      /\ Varied(instance) = VariablesOf(instance) \union Unrolled(instance)
      /\ VariablesOf(instance) \intersect ConstantArgs(instance) = {}
      /\ Unrolled(instance) \subseteq ConstantArgs(instance)
  BY ArgumentsOfFormed
<1>2. VariablesOf(instance) \in SUBSET Args(instance) /\ Unrolled(instance) \in SUBSET Args(instance)
      /\ Fixed(instance) \in SUBSET Args(instance)
  BY DEF VariablesOf, Unrolled, ConstantArgs, Args, Fixed
<1>3. \A n, k \in Args(instance) : Formal(template, n) = Formal(template, k) => n = k
  BY GivenOfFormed
<1>4. /\ DOMAIN Renaming(call, instance, template) = FormalsAt(template, VariablesOf(instance))
      /\ \A n \in VariablesOf(instance) :
            /\ Renaming(call, instance, template)[Formal(template, n)] = NameOf(instance.argument_list[n])
            /\ NameOf(instance.argument_list[n]) \in DOMAIN call.dynamic_columns
      /\ \A n \in Unrolled(instance) :
            UnrolledColumns(instance, template)[Formal(template, n)] = ValueOf(instance.argument_list[n])
      /\ FormalsAt(template, Varied(instance))
            = FormalsAt(template, VariablesOf(instance)) \union FormalsAt(template, Unrolled(instance))
  BY ColumnsOfFormed
<1>5. DOMAIN DynamicFor(call, instance, template) = FormalsAt(template, Varied(instance))
  BY <1>1, <1>4 DEF DynamicFor
<1>6. ASSUME NEW env, IsOfCall(env, call), NEW n \in Varied(instance)
      PROVE  DynamicFor(call, instance, template)[Formal(template, n)]
                = ValueIn(instance.argument_list[n], env).type
  <2>1. CASE n \in VariablesOf(instance)
    <3>1. Formal(template, n) \in FormalsAt(template, VariablesOf(instance)) BY <2>1 DEF FormalsAt
    <3>2. DynamicFor(call, instance, template)[Formal(template, n)]
            = call.dynamic_columns[NameOf(instance.argument_list[n])]
      BY <1>1, <1>4, <2>1, <3>1 DEF DynamicFor
    <3>3. ValueIn(instance.argument_list[n], env) = env[NameOf(instance.argument_list[n])]
      BY <2>1 DEF ValueIn, VariablesOf
    <3>. QED BY <1>4, <1>6, <2>1, <3>2, <3>3 DEF IsOfCall
  <2>2. CASE n \in Unrolled(instance)
    <3>1. n \notin VariablesOf(instance) /\ n \in Args(instance) BY <1>1, <1>2, <2>2
    <3>2. Formal(template, n) \notin FormalsAt(template, VariablesOf(instance))
          /\ Formal(template, n) \in FormalsAt(template, Unrolled(instance))
      BY <1>2, <1>3, <2>2, <3>1 DEF FormalsAt
    <3>3. DynamicFor(call, instance, template)[Formal(template, n)] = BaseOf(ValueOf(instance.argument_list[n]))
      BY <1>1, <1>4, <2>2, <3>2 DEF DynamicFor
    <3>4. ~IsVariable(instance.argument_list[n]) BY <3>1 DEF VariablesOf, Args
    <3>. QED BY <3>3, <3>4 DEF ValueIn
  <2>. QED BY <1>1, <2>1, <2>2
<1>7. DOMAIN StaticFor(call, instance, template) = FormalsAt(template, Fixed(instance))
  BY <1>1 DEF StaticFor
<1>8. ASSUME NEW n \in Fixed(instance)
      PROVE  StaticFor(call, instance, template)[Formal(template, n)]
                = [value |-> ValueOf(instance.argument_list[n]), ptype |-> template.parameters[n].ptype]
  <2>. DEFINE ns == Static(call, instance) \union Fixed(instance)
              same == { k \in ns : Formal(template, k) = Formal(template, n) }
  <2>1. ns = Fixed(instance) BY <1>1
  <2>2. Given(Formal(template, n), instance, template, ns) = instance.argument_list[n]
    BY <1>2, <2>1, GivenOfFormed
  <2>3. same = {n} BY <1>2, <1>3, <2>1
  <2>4. DOMAIN template.parameters = 1 .. Len(template.parameters) /\ Len(template.parameters) \in Nat
        /\ n \in DOMAIN template.parameters
    BY <1>2 DEF IsFormed, IsInstance, Args
  <2>5. Max(same) = n BY <2>3, <2>4, Greatest
  <2>6. ~IsVariable(instance.argument_list[n])
    <3>1. n \in ConstantArgs(instance) BY DEF Fixed
    <3>2. n \notin VariablesOf(instance) /\ n \in Args(instance) BY <1>1, <1>2, <3>1
    <3>. QED BY <3>2 DEF VariablesOf, Args
  <2>7. Formal(template, n) \in FormalsAt(template, ns) BY <2>1 DEF FormalsAt
  <2>8. StaticFor(call, instance, template)[Formal(template, n)]
            = [value |-> ValueOf(instance.argument_list[n]), ptype |-> template.parameters[Max(same)].ptype]
    BY <2>2, <2>6, <2>7 DEF StaticFor
  <2>. QED BY <2>5, <2>8
<1>. QED BY <1>5, <1>6, <1>7, <1>8

\* The values that the rows of a call give to an instance; one without variables
\* does not look at them.
IsGiven(es, call, instance) ==
    IF VariablesOf(instance) = {} THEN es # {} ELSE es = FrameEnvs(call)

LEMMA CellsOfFormed ==
    ASSUME NEW call, NEW instance, NEW template, IsFormed(call, instance, template), NEW env
    PROVE  /\ \A n \in VariablesOf(instance) :
                 CellAt(instance, n, env) = env[NameOf(instance.argument_list[n])].cell
           /\ \A n \in ConstantArgs(instance) : CellAt(instance, n, env) = ValueOf(instance.argument_list[n])
<1>1. VariablesOf(instance) \intersect ConstantArgs(instance) = {} BY ArgumentsOfFormed
<1>2. \A n \in VariablesOf(instance) : IsVariable(instance.argument_list[n]) BY DEF VariablesOf
<1>3. \A n \in ConstantArgs(instance) : ~IsVariable(instance.argument_list[n])
  BY <1>1 DEF VariablesOf, ConstantArgs
<1>. QED BY <1>2, <1>3 DEF CellAt, ValueIn

LEMMA BaseRows ==
    ASSUME NEW call, NEW instance, NEW template, IsFormed(call, instance, template),
           NEW es, IsGiven(es, call, instance)
    PROVE  ToSet(RowsFor(call, instance, template))
                = IF Varied(instance) = {} THEN {}
                  ELSE { GivenFor(instance, template, env, Varied(instance)) : env \in es }
<1>1. PICK renaming, constants, rows :
            /\ renaming = Renaming(call, instance, template)
            /\ constants = UnrolledColumns(instance, template)
            /\ rows = call.rows
  OBVIOUS
<1>2. PICK renamed : renamed = [m \in DOMAIN rows |-> Renamed(rows[m], renaming)] OBVIOUS
<1>3. RowsFor(call, instance, template) = WithColumns(renamed, DOMAIN renaming, constants)
  BY <1>1, <1>2 DEF RowsFor
<1>4. /\ DOMAIN renaming = FormalsAt(template, VariablesOf(instance))
      /\ \A n \in VariablesOf(instance) : /\ renaming[Formal(template, n)] = NameOf(instance.argument_list[n])
                                          /\ NameOf(instance.argument_list[n]) \in DOMAIN call.dynamic_columns
      /\ DOMAIN constants = FormalsAt(template, Unrolled(instance))
      /\ \A n \in Unrolled(instance) : constants[Formal(template, n)] = ValueOf(instance.argument_list[n])
      /\ FormalsAt(template, Varied(instance)) = DOMAIN renaming \union DOMAIN constants
  BY <1>1, ColumnsOfFormed
<1>5. /\ Varied(instance) = VariablesOf(instance) \union Unrolled(instance)
      /\ VariablesOf(instance) \intersect ConstantArgs(instance) = {}
      /\ Unrolled(instance) \subseteq ConstantArgs(instance)
  BY ArgumentsOfFormed
<1>6. Varied(instance) \in SUBSET Args(instance) BY DEF Varied
<1>7. \A n, k \in Args(instance) : Formal(template, n) = Formal(template, k) => n = k
  BY GivenOfFormed
<1>8. ASSUME NEW env, NEW row,
             row = [c \in DOMAIN renaming \union DOMAIN constants |->
                        IF c \in DOMAIN constants THEN constants[c] ELSE env[renaming[c]].cell]
      PROVE  row = GivenFor(instance, template, env, Varied(instance))
  <2>1. PICK given : given = GivenFor(instance, template, env, Varied(instance)) OBVIOUS
  <2>2. given = [c \in FormalsAt(template, Varied(instance)) |-> given[c]]
    BY <2>1 DEF GivenFor
  <2>3. ASSUME NEW n \in Varied(instance) PROVE row[Formal(template, n)] = given[Formal(template, n)]
    <3>1. given[Formal(template, n)] = CellAt(instance, n, env) BY <1>6, <2>1, GivenCells
    <3>2. CASE n \in VariablesOf(instance)
      <4>1. Formal(template, n) \notin DOMAIN constants
        <5>1. n \notin Unrolled(instance) BY <1>5, <3>2
        <5>. QED BY <1>4, <1>5, <1>6, <1>7, <5>1 DEF FormalsAt
      <4>2. Formal(template, n) \in DOMAIN renaming BY <1>4, <3>2 DEF FormalsAt
      <4>. QED BY <1>4, <1>8, <3>1, <3>2, <4>1, <4>2, CellsOfFormed
    <3>3. CASE n \in Unrolled(instance)
      <4>1. Formal(template, n) \in DOMAIN constants BY <1>4, <3>3 DEF FormalsAt
      <4>. QED BY <1>4, <1>5, <1>8, <3>1, <3>3, <4>1, CellsOfFormed
    <3>. QED BY <1>5, <3>2, <3>3
  <2>4. \A c \in FormalsAt(template, Varied(instance)) : row[c] = given[c] BY <2>3 DEF FormalsAt
  <2>5. row = [c \in FormalsAt(template, Varied(instance)) |-> row[c]] BY <1>4, <1>8
  <2>. QED BY <2>1, <2>2, <2>4, <2>5
<1>9. CASE VariablesOf(instance) = {}
  <2>1. DOMAIN renaming = {} /\ es # {} BY <1>4, <1>9 DEF FormalsAt, IsGiven
  <2>2. RowsFor(call, instance, template) = IF DOMAIN constants = {} THEN <<>> ELSE <<constants>>
    BY <1>3, <2>1 DEF WithColumns
  <2>3. DOMAIN constants = {} <=> Varied(instance) = {} BY <1>4, <1>5, <1>9 DEF FormalsAt
  <2>4. CASE Varied(instance) = {}
    <3>1. RowsFor(call, instance, template) = <<>> BY <2>2, <2>3, <2>4
    <3>. QED BY <2>4, <3>1 DEF ToSet
  <2>5. CASE Varied(instance) # {}
    <3>1. RowsFor(call, instance, template) = <<constants>> BY <2>2, <2>3, <2>5
    <3>2. ToSet(<<constants>>) = {constants} BY DEF ToSet
    <3>3. ASSUME NEW env \in es PROVE constants = GivenFor(instance, template, env, Varied(instance))
      <4>1. constants = [c \in DOMAIN constants |-> constants[c]] BY <1>1 DEF UnrolledColumns
      <4>2. constants = [c \in DOMAIN renaming \union DOMAIN constants |->
                            IF c \in DOMAIN constants THEN constants[c] ELSE env[renaming[c]].cell]
        BY <2>1, <4>1
      <4>. QED BY <1>8, <4>2
    <3>. QED BY <2>1, <2>5, <3>1, <3>2, <3>3
  <2>. QED BY <2>4, <2>5
<1>10. CASE VariablesOf(instance) # {}
  <2>1. DOMAIN renaming # {} /\ DOMAIN call.dynamic_columns # {} BY <1>4, <1>10 DEF FormalsAt
  <2>2. es = { EnvOf(call, row) : row \in ToSet(rows) } BY <1>1, <1>10, <2>1 DEF IsGiven, FrameEnvs
  <2>3. RowsFor(call, instance, template) = [m \in DOMAIN rows |-> Over(constants, renamed[m])]
    BY <1>2, <1>3, <2>1 DEF WithColumns
  <2>4. ASSUME NEW m \in DOMAIN rows
        PROVE  Over(constants, renamed[m]) = GivenFor(instance, template, EnvOf(call, rows[m]), Varied(instance))
    <3>1. PICK env, row : env = EnvOf(call, rows[m]) /\ row = Over(constants, renamed[m]) OBVIOUS
    <3>2. renamed[m] = [c \in DOMAIN renaming |-> rows[m][renaming[c]]] BY <1>2 DEF Renamed
    <3>3. \A c \in DOMAIN renaming : env[renaming[c]].cell = rows[m][renaming[c]]
      <4>1. \A c \in DOMAIN renaming : renaming[c] \in DOMAIN call.dynamic_columns BY <1>4 DEF FormalsAt
      <4>. QED BY <3>1, <4>1 DEF EnvOf
    <3>4. row = [c \in DOMAIN renaming \union DOMAIN constants |->
                    IF c \in DOMAIN constants THEN constants[c] ELSE env[renaming[c]].cell]
      <4>1. row = [c \in DOMAIN constants \union DOMAIN renaming |->
                    IF c \in DOMAIN constants THEN constants[c] ELSE rows[m][renaming[c]]]
        BY <3>1, <3>2 DEF Over
      <4>2. DOMAIN constants \union DOMAIN renaming = DOMAIN renaming \union DOMAIN constants OBVIOUS
      <4>. QED BY <3>3, <4>1, <4>2
    <3>. QED BY <1>8, <3>1, <3>4
  <2>5. PICK out : out = RowsFor(call, instance, template) OBVIOUS
  <2>6. DOMAIN out = DOMAIN rows
        /\ \A m \in DOMAIN rows : out[m] = GivenFor(instance, template, EnvOf(call, rows[m]), Varied(instance))
    BY <2>3, <2>4, <2>5
  <2>7. ToSet(out) = { GivenFor(instance, template, EnvOf(call, row), Varied(instance)) : row \in ToSet(rows) }
    BY <2>6 DEF ToSet
  <2>8. Varied(instance) # {} BY <1>5, <1>10
  <2>. QED BY <2>2, <2>5, <2>7, <2>8
<1>. QED BY <1>9, <1>10

----------------------------------------------------------------------------
\* Renaming and exploding put every value under its parameter, once.

IsOnce(s) == \A m, n \in DOMAIN s : s[m] = s[n] => m = n

LEMMA PickedOnce ==
    ASSUME NEW S, NEW s \in Seq(S), IsOnce(s), NEW ns PROVE IsOnce(Picked(s, ns))
<1>. DEFINE parts == [n \in DOMAIN s |-> IF n \in ns THEN <<s[n]>> ELSE <<>>]
<1>1. DOMAIN s = 1 .. Len(s) /\ Len(s) \in Nat /\ \A n \in DOMAIN s : s[n] \in S OBVIOUS
<1>2. \A n \in DOMAIN s : parts[n] \in Seq(S)
  <2>1. ASSUME NEW n \in DOMAIN s PROVE parts[n] \in Seq(S)
    <3>1. <<s[n]>> \in Seq(S) /\ <<>> \in Seq(S) BY <1>1
    <3>. QED BY <3>1
  <2>. QED BY <2>1
<1>3. parts \in Seq(Seq(S)) /\ Len(parts) = Len(s)
  <2>1. parts = [n \in 1 .. Len(s) |-> parts[n]] BY <1>1
  <2>. HIDE DEF parts
  <2>. QED BY <1>1, <1>2, <2>1
<1>4. Picked(s, ns) = FlattenSeq(parts) BY DEF Picked
<1>5. \A n \in DOMAIN s : \A k \in DOMAIN parts[n] : k = 1 /\ parts[n][k] = s[n]
  <2>1. ASSUME NEW n \in DOMAIN s, NEW k \in DOMAIN parts[n] PROVE k = 1 /\ parts[n][k] = s[n]
    <3>1. CASE n \in ns
      <4>1. parts[n] = <<s[n]>> BY <3>1
      <4>2. DOMAIN <<s[n]>> = {1} OBVIOUS
      <4>. QED BY <2>1, <4>1, <4>2
    <3>2. CASE n \notin ns BY <2>1, <3>2
    <3>. QED BY <3>1, <3>2
  <2>. QED BY <2>1
<1>. HIDE DEF parts
<1>6. PICK a, b : a = FlattenSeq(parts) /\ b = PlacesOf(parts) OBVIOUS
<1>7. a \in Seq(S) /\ b \in Seq(Nat \X Nat) /\ IsAligned(parts, a, b, Len(parts))
  BY <1>3, <1>6, Flattened, PlacesAlign
<1>8. DOMAIN a = 1 .. Len(b)
  <2>1. DOMAIN a = 1 .. Len(a) BY <1>7
  <2>. QED BY <1>7, <2>1 DEF IsAligned
<1>9. ASSUME NEW m \in 1 .. Len(b) PROVE b[m] = <<b[m][1], 1>> /\ a[m] = s[b[m][1]]
  <2>1. b[m][1] \in DOMAIN s /\ b[m][2] \in DOMAIN parts[b[m][1]] /\ a[m] = parts[b[m][1]][b[m][2]]
    BY <1>1, <1>3, <1>7 DEF IsAligned
  <2>2. b[m][2] = 1 /\ a[m] = s[b[m][1]] BY <1>5, <2>1
  <2>3. b[m] \in Nat \X Nat BY <1>7
  <2>4. \A p \in Nat \X Nat : p = <<p[1], p[2]>> OBVIOUS
  <2>. QED BY <2>2, <2>3, <2>4
<1>10. ASSUME NEW m \in 1 .. Len(b), NEW n \in 1 .. Len(b), a[m] = a[n] PROVE m = n
  <2>1. b[m][1] \in DOMAIN s /\ b[n][1] \in DOMAIN s BY <1>1, <1>3, <1>7 DEF IsAligned
  <2>2. b[m][1] = b[n][1] BY <1>9, <1>10, <2>1 DEF IsOnce
  <2>3. b[m] = b[n] BY <1>9, <2>2, Zenon
  <2>. QED BY <1>7, <2>3 DEF IsAligned
<1>. QED BY <1>4, <1>6, <1>8, <1>10 DEF IsOnce

LEMMA ConcatenatedOnce ==
    ASSUME NEW S, NEW a \in Seq(S), NEW b \in Seq(S), IsOnce(a), IsOnce(b), ToSet(a) \intersect ToSet(b) = {}
    PROVE  IsOnce(a \o b)
<1>1. /\ a \o b \in Seq(S) /\ Len(a \o b) = Len(a) + Len(b)
      /\ \A m \in 1 .. Len(a \o b) : (a \o b)[m] = IF m <= Len(a) THEN a[m] ELSE b[m - Len(a)]
  BY Concatenated
<1>2. PICK c : c = a \o b OBVIOUS
<1>3. /\ DOMAIN a = 1 .. Len(a) /\ DOMAIN b = 1 .. Len(b) /\ Len(a) \in Nat /\ Len(b) \in Nat
      /\ DOMAIN c = 1 .. Len(a) + Len(b)
  BY <1>1, <1>2
<1>4. \A m \in DOMAIN c : IF m <= Len(a) THEN m \in DOMAIN a /\ c[m] = a[m]
                          ELSE m - Len(a) \in DOMAIN b /\ c[m] = b[m - Len(a)]
  BY <1>1, <1>2, <1>3
<1>5. \A m \in DOMAIN a : \A n \in DOMAIN b : a[m] # b[n] BY DEF ToSet
<1>6. ASSUME NEW m \in DOMAIN c, NEW n \in DOMAIN c, c[m] = c[n] PROVE m = n
  <2>1. CASE m <= Len(a) /\ n <= Len(a) BY <1>4, <1>6, <2>1 DEF IsOnce
  <2>2. CASE ~(m <= Len(a)) /\ ~(n <= Len(a))
    <3>1. m - Len(a) = n - Len(a) BY <1>4, <1>6, <2>2 DEF IsOnce
    <3>. QED BY <1>3, <3>1
  <2>3. CASE (m <= Len(a)) # (n <= Len(a)) BY <1>4, <1>5, <1>6, <2>3
  <2>. QED BY <2>1, <2>2, <2>3
<1>. QED BY <1>2, <1>6 DEF IsOnce

LEMMA ExpandedOnce ==
    ASSUME NEW call, NEW instance, NEW template, IsFormed(call, instance, template)
    PROVE  /\ ToExpand(call, instance, template) \in Seq(FormalsAt(template, Varied(instance)))
           /\ ToSet(ToExpand(call, instance, template)) = FormalsAt(template, Expanding(instance))
           /\ IsOnce(ToExpand(call, instance, template))
<1>. DEFINE dynamic == { n \in Dynamic(call, instance) : instance.argument_list[n].list_expand }
            a == Ordered(instance, dynamic)
            b == Ordered(instance, Unrolled(instance))
            ns == a \o b
            positions == [n \in DOMAIN instance.argument_list |-> n]
<1>1. DOMAIN instance.argument_list = 1 .. Len(template.parameters) /\ Len(template.parameters) \in Nat
  BY DEF IsFormed, IsInstance
<1>2. positions \in Seq(Nat) /\ DOMAIN positions = DOMAIN instance.argument_list /\ IsOnce(positions)
  BY <1>1 DEF IsOnce
<1>3. ASSUME NEW part \in SUBSET Args(instance)
      PROVE  /\ Ordered(instance, part) \in Seq(Nat) /\ ToSet(Ordered(instance, part)) = part
             /\ IsOnce(Ordered(instance, part))
  <2>1. Ordered(instance, part) = Picked(positions, part) BY DEF Ordered
  <2>2. \A n \in part : n \in DOMAIN positions /\ positions[n] = n BY DEF Args
  <2>. HIDE DEF positions
  <2>3. /\ Picked(positions, part) \in Seq(Nat)
        /\ ToSet(Picked(positions, part)) = { positions[n] : n \in part \intersect DOMAIN positions }
        /\ IsOnce(Picked(positions, part))
    BY <1>2, PickedElements, PickedOnce
  <2>4. { positions[n] : n \in part \intersect DOMAIN positions } = part BY <2>2
  <2>. QED BY <2>1, <2>3, <2>4
<1>4. /\ Dynamic(call, instance) = VariablesOf(instance)
      /\ VariablesOf(instance) \intersect ConstantArgs(instance) = {}
      /\ Unrolled(instance) \subseteq ConstantArgs(instance)
      /\ VariablesOf(instance) \union ConstantArgs(instance) = Args(instance)
      /\ Varied(instance) = VariablesOf(instance) \union Unrolled(instance)
      /\ Expanding(instance) = { n \in Args(instance) : instance.argument_list[n].list_expand }
  BY ArgumentsOfFormed
<1>5. /\ dynamic \in SUBSET Args(instance) /\ Unrolled(instance) \in SUBSET Args(instance)
      /\ dynamic \intersect Unrolled(instance) = {} /\ dynamic \union Unrolled(instance) = Expanding(instance)
  BY <1>4 DEF Unrolled
<1>. HIDE DEF positions, dynamic
<1>6. ns \in Seq(Nat) /\ ToSet(ns) = Expanding(instance) /\ IsOnce(ns)
  <2>1. a \in Seq(Nat) /\ b \in Seq(Nat) /\ ToSet(a) = dynamic /\ ToSet(b) = Unrolled(instance)
        /\ IsOnce(a) /\ IsOnce(b)
    BY <1>3, <1>5
  <2>. HIDE DEF a, b
  <2>2. a \o b \in Seq(Nat) /\ ToSet(a \o b) = ToSet(a) \union ToSet(b) BY ONLY <2>1, ElementsOfConcat
  <2>3. ToSet(a) \intersect ToSet(b) = {} BY <1>5, <2>1
  <2>4. IsOnce(a \o b) BY ONLY <2>1, <2>3, ConcatenatedOnce
  <2>. QED BY <1>5, <2>1, <2>2, <2>4
<1>7. ToExpand(call, instance, template) = [k \in DOMAIN ns |-> Formal(template, ns[k])]
  BY DEF ToExpand, dynamic
<1>. HIDE DEF ns
<1>8. PICK cs : cs = ToExpand(call, instance, template) OBVIOUS
<1>9. DOMAIN ns = 1 .. Len(ns) /\ Len(ns) \in Nat BY <1>6
<1>10. \A k \in DOMAIN ns : ns[k] \in Expanding(instance) /\ ns[k] \in Varied(instance) /\ ns[k] \in Args(instance)
  BY <1>6 DEF ToSet, Expanding, Varied
<1>11. cs \in Seq(FormalsAt(template, Varied(instance)))
  <2>1. \A k \in DOMAIN ns : Formal(template, ns[k]) \in FormalsAt(template, Varied(instance))
    BY <1>10 DEF FormalsAt
  <2>. QED BY <1>7, <1>8, <1>9, <2>1
<1>12. ToSet(cs) = FormalsAt(template, Expanding(instance))
  BY <1>6, <1>7, <1>8 DEF ToSet, FormalsAt
<1>13. IsOnce(cs)
  BY <1>6, <1>7, <1>8, <1>10, GivenOfFormed DEF IsOnce
<1>. QED BY <1>8, <1>11, <1>12, <1>13

----------------------------------------------------------------------------
\* The choices of the definition are the rows of the exploded frame.

\* The choices among the items of the lists that are expanded.
ItemsAt(instance, n, env) == Items(CellAt(instance, n, env))
ZipsAgree(instance, env) ==
    IsZip(instance.list_expander) =>
        \A n, k \in ExpandedOf(instance) : DOMAIN ItemsAt(instance, n, env) = DOMAIN ItemsAt(instance, k, env)
IsChoice(instance, env, x) ==
    /\ x = [n \in ExpandedOf(instance) |-> x[n]]
    /\ \A n \in ExpandedOf(instance) : x[n] \in DOMAIN ItemsAt(instance, n, env)
    /\ IsZip(instance.list_expander) => \E k : \A n \in ExpandedOf(instance) : x[n] = k

LEMMA ChoicesMade ==
    ASSUME NEW instance, NEW env, ZipsAgree(instance, env)
    PROVE  \A x : x \in ChoicesOf(instance, env, TRUE) <=> IsChoice(instance, env, x)
<1>1. PICK E : E = ExpandedOf(instance) OBVIOUS
<1>2. \A n : PositionsAt(instance, n, env, TRUE) = DOMAIN ItemsAt(instance, n, env)
  BY DEF PositionsAt, ElementsBy, ItemsAt
<1>3. PICK positions : positions = UNION { DOMAIN ItemsAt(instance, n, env) : n \in E } OBVIOUS
<1>4. PICK each, same :
        /\ each = { x \in [E -> positions] : \A n \in E : x[n] \in DOMAIN ItemsAt(instance, n, env) }
        /\ same = { [n \in E |-> k] : k \in positions }
  OBVIOUS
<1>5. ChoicesOf(instance, env, TRUE) = IF E = {} \/ instance.list_expander = "cross" THEN each
                                       ELSE IF instance.list_expander = "zipMin" THEN each \intersect same ELSE same
  <2>. DEFINE at(n) == PositionsAt(instance, n, env, TRUE)
  <2>1. positions = UNION { at(n) : n \in E } BY <1>2, <1>3
  <2>2. each = { x \in [E -> positions] : \A n \in E : x[n] \in at(n) } BY <1>2, <1>4
  <2>3. ChoicesOf(instance, env, TRUE)
            = LET ps == UNION { at(n) : n \in E }
                  e == { x \in [E -> ps] : \A n \in E : x[n] \in at(n) }
                  s == { [n \in E |-> k] : k \in ps }
              IN  IF E = {} \/ instance.list_expander = "cross" THEN e
                  ELSE IF instance.list_expander = "zipMin" THEN e \intersect s ELSE s
    BY <1>1 DEF ChoicesOf
  <2>. HIDE DEF at
  <2>. QED BY <1>4, <2>1, <2>2, <2>3
<1>6. E # {} => instance.list_expander \in {"cross", "zipMin", "zipMax"} BY <1>1 DEF ExpandedOf
<1>7. \A x : x \in each <=> x = [n \in E |-> x[n]] /\ \A n \in E : x[n] \in DOMAIN ItemsAt(instance, n, env)
  BY <1>3, <1>4
<1>8. CASE E = {} \/ instance.list_expander = "cross"
  <2>1. \A x : x \in ChoicesOf(instance, env, TRUE) <=> x \in each BY <1>5, <1>8
  <2>2. E = {} => \A x : \A n \in E : x[n] = 0 OBVIOUS
  <2>. QED BY <1>1, <1>7, <1>8, <2>1, <2>2 DEF IsChoice, IsZip
<1>9. CASE E # {} /\ IsZip(instance.list_expander)
  <2>1. \A n, k \in E : DOMAIN ItemsAt(instance, n, env) = DOMAIN ItemsAt(instance, k, env)
    BY <1>1, <1>9 DEF ZipsAgree
  <2>2. \A n \in E : positions = DOMAIN ItemsAt(instance, n, env) BY <1>3, <2>1
  <2>3. same \subseteq each
    <3>1. ASSUME NEW k \in positions, NEW x, x = [n \in E |-> k] PROVE x \in each
      <4>1. \A n \in E : x[n] \in DOMAIN ItemsAt(instance, n, env) BY <2>2, <3>1
      <4>2. x = [n \in E |-> x[n]] BY <3>1
      <4>. QED BY <1>7, <4>1, <4>2
    <3>. QED BY <1>4, <3>1
  <2>4. ChoicesOf(instance, env, TRUE) = same BY <1>5, <1>9, <2>3 DEF IsZip
  <2>5. \A x : x \in same <=> \E k \in positions : x = [n \in E |-> k] BY <1>4
  <2>6. \A x : IsChoice(instance, env, x) <=> \E k \in positions : x = [n \in E |-> k]
    <3>1. PICK m : m \in E BY <1>9
    <3>2. ASSUME NEW x, IsChoice(instance, env, x) PROVE \E k \in positions : x = [n \in E |-> k]
      <4>1. PICK k : \A n \in E : x[n] = k BY <1>1, <1>9, <3>2 DEF IsChoice
      <4>2. x = [n \in E |-> x[n]] BY <1>1, <3>2 DEF IsChoice
      <4>3. x = [n \in E |-> k] BY <4>1, <4>2
      <4>4. k \in positions BY <1>1, <2>2, <3>1, <3>2, <4>1 DEF IsChoice
      <4>. QED BY <4>3, <4>4
    <3>3. ASSUME NEW k \in positions, NEW x, x = [n \in E |-> k] PROVE IsChoice(instance, env, x)
      BY <1>1, <2>2, <3>3 DEF IsChoice
    <3>. QED BY <3>2, <3>3
  <2>. QED BY <2>4, <2>5, <2>6
<1>. QED BY <1>6, <1>8, <1>9 DEF IsZip

\* What an instance says for each of these choices.
LEMMA EnvAt ==
    ASSUME NEW call, NEW instance, IsFormed(call, instance, CalleeOf(instance)), NEW env, NEW x
    PROVE  /\ EnvFor(instance, env, x, TRUE)
                = [c \in Formals(CalleeOf(instance)) |-> EnvFor(instance, env, x, TRUE)[c]]
           /\ \A n \in Args(instance) :
                 EnvFor(instance, env, x, TRUE)[Formal(CalleeOf(instance), n)]
                    = [cell |-> PickedAt(instance, n, env, x, TRUE),
                       type |-> ValueIn(instance.argument_list[n], env).type]
<1>1. PICK template, f : template = CalleeOf(instance) /\ f = EnvFor(instance, env, x, TRUE) OBVIOUS
<1>2. f = [c \in Formals(template) |->
            [cell |-> PickedAt(instance, ArgumentFor(c, instance, template), env, x, TRUE),
             type |-> ValueIn(instance.argument_list[ArgumentFor(c, instance, template)], env).type]]
  BY <1>1 DEF EnvFor, CalleeOf
<1>3. \A n \in Args(instance) : /\ Formal(template, n) \in Formals(template)
                                /\ ArgumentFor(Formal(template, n), instance, template) = n
  BY <1>1, GivenOfFormed DEF FormalsAt
<1>4. f = [c \in Formals(template) |-> f[c]] BY <1>2
<1>5. \A n \in Args(instance) :
        f[Formal(template, n)] = [cell |-> PickedAt(instance, n, env, x, TRUE),
                                  type |-> ValueIn(instance.argument_list[n], env).type]
  BY <1>2, <1>3
<1>. QED BY <1>1, <1>4, <1>5

LEMMA WholeEnvAt ==
    ASSUME NEW call, NEW instance, IsFormed(call, instance, CalleeOf(instance)), NEW env, NEW x
    PROVE  /\ EnvFor(instance, env, x, FALSE)
                = [c \in Formals(CalleeOf(instance)) |-> EnvFor(instance, env, x, FALSE)[c]]
           /\ \A n \in Args(instance) :
                 EnvFor(instance, env, x, FALSE)[Formal(CalleeOf(instance), n)]
                    = [cell |-> PickedAt(instance, n, env, x, FALSE),
                       type |-> ValueIn(instance.argument_list[n], env).type]
<1>1. PICK template, f : template = CalleeOf(instance) /\ f = EnvFor(instance, env, x, FALSE) OBVIOUS
<1>2. f = [c \in Formals(template) |->
            [cell |-> PickedAt(instance, ArgumentFor(c, instance, template), env, x, FALSE),
             type |-> ValueIn(instance.argument_list[ArgumentFor(c, instance, template)], env).type]]
  BY <1>1 DEF EnvFor, CalleeOf
<1>3. \A n \in Args(instance) : /\ Formal(template, n) \in Formals(template)
                                /\ ArgumentFor(Formal(template, n), instance, template) = n
  BY <1>1, GivenOfFormed DEF FormalsAt
<1>4. f = [c \in Formals(template) |-> f[c]] BY <1>2
<1>5. \A n \in Args(instance) :
        f[Formal(template, n)] = [cell |-> PickedAt(instance, n, env, x, FALSE),
                                  type |-> ValueIn(instance.argument_list[n], env).type]
  BY <1>2, <1>3
<1>. QED BY <1>1, <1>4, <1>5

LEMMA ItemPicked ==
    ASSUME NEW instance, NEW env, NEW x, NEW n
    PROVE  PickedAt(instance, n, env, x, TRUE)
                = IF n \in ExpandedOf(instance) /\ x[n] \in DOMAIN ItemsAt(instance, n, env)
                  THEN ItemsAt(instance, n, env)[x[n]]
                  ELSE IF n \in ExpandedOf(instance) THEN Null ELSE CellAt(instance, n, env)
BY DEF PickedAt, ElementsBy, ElementAt, ItemsAt

\* zipMin drops what brings a none from a list.
HasNone(instance, f) ==
    \E n \in ExpandedOf(instance) : f[Formal(CalleeOf(instance), n)].cell = Null
IsDropped(instance, f) == instance.list_expander = "zipMin" /\ HasNone(instance, f)

\* The columns of what an instance says.
ColumnsOf(instance, f) == [c \in FormalsAt(CalleeOf(instance), Varied(instance)) |-> f[c].cell]

\* Values that an instance can be formed from.
HasCells(instance, env) == \A n \in Args(instance) : CellAt(instance, n, env) \in Cells

\* A row of what an instance says.
IsChosen(instance, env, x) ==
    \E f \in EnvsOf(instance, env, TRUE) : ~IsDropped(instance, f) /\ x = ColumnsOf(instance, f)

LEMMA SpreadIsChosen ==
    ASSUME NEW call, NEW instance, NEW env, NEW x, IsFormed(call, instance, CalleeOf(instance)),
           HasCells(instance, env), ZipsAgree(instance, env)
    PROVE  IsSpread(instance.list_expander, FormalsAt(CalleeOf(instance), Varied(instance)),
                    FormalsAt(CalleeOf(instance), Expanding(instance)),
                    GivenFor(instance, CalleeOf(instance), env, Varied(instance)), x)
              <=> IsChosen(instance, env, x)
<1>1. PICK template, V, X, base, E, expander :
          /\ template = CalleeOf(instance)
          /\ V = FormalsAt(template, Varied(instance)) /\ X = FormalsAt(template, Expanding(instance))
          /\ base = GivenFor(instance, template, env, Varied(instance))
          /\ E = ExpandedOf(instance) /\ expander = instance.list_expander
  OBVIOUS
<1>2. /\ Varied(instance) \in SUBSET Args(instance) /\ Expanding(instance) \in SUBSET Varied(instance)
      /\ E = IF expander \in {"cross", "zipMin", "zipMax"} THEN Expanding(instance) ELSE {}
  <2>1. Expanding(instance) = { n \in Args(instance) : instance.argument_list[n].list_expand }
    BY ArgumentsOfFormed
  <2>. QED BY <1>1, <2>1 DEF Varied, Expanding, ExpandedOf, Args
<1>3. \A n, k \in Args(instance) : Formal(template, n) = Formal(template, k) => n = k
  BY <1>1, GivenOfFormed
<1>4. \A n \in Varied(instance) : base[Formal(template, n)] = CellAt(instance, n, env)
  <2>1. ASSUME NEW n \in Varied(instance) PROVE base[Formal(template, n)] = CellAt(instance, n, env)
    BY <1>1, <1>2, GivenCells
  <2>. QED BY <2>1
<1>5. /\ \A c \in V : \E n \in Varied(instance) : c = Formal(template, n)
      /\ \A n \in Varied(instance) : Formal(template, n) \in V /\ (Formal(template, n) \in X <=> n \in Expanding(instance))
  BY <1>1, <1>2, <1>3 DEF FormalsAt
<1>6. base \in [V -> Cells]
  <2>1. base = [c \in V |-> base[c]] BY <1>1 DEF GivenFor
  <2>2. \A c \in V : base[c] \in Cells BY <1>2, <1>4, <1>5 DEF HasCells
  <2>. QED BY <2>1, <2>2
<1>7. \A n \in Args(instance) : ItemsAt(instance, n, env) \in Seq(Cells) BY ItemsAreCells DEF ItemsAt, HasCells
<1>8. ASSUME NEW ch, IsChoice(instance, env, ch), NEW f, f = EnvFor(instance, env, ch, TRUE), NEW n \in Varied(instance)
      PROVE  ColumnsOf(instance, f)[Formal(template, n)]
                = IF n \in E THEN ItemsAt(instance, n, env)[ch[n]] ELSE CellAt(instance, n, env)
  <2>0. n \in Args(instance) BY <1>2
  <2>3. EnvFor(instance, env, ch, TRUE)[Formal(CalleeOf(instance), n)]
            = [cell |-> PickedAt(instance, n, env, ch, TRUE), type |-> ValueIn(instance.argument_list[n], env).type]
    BY <2>0, EnvAt, ZenonT(40)
  <2>4. template = CalleeOf(instance) BY <1>1
  <2>5. f[Formal(template, n)] = [cell |-> PickedAt(instance, n, env, ch, TRUE),
                                  type |-> ValueIn(instance.argument_list[n], env).type]
    BY ONLY <1>8, <2>3, <2>4, Zenon
  <2>1. f[Formal(template, n)].cell = PickedAt(instance, n, env, ch, TRUE)
    BY ONLY <2>5
  <2>2. n \in E => ch[n] \in DOMAIN ItemsAt(instance, n, env) BY <1>1, <1>8 DEF IsChoice
  <2>. QED BY <1>1, <1>5, <2>1, <2>2, ItemPicked DEF ColumnsOf
<1>9. \A f : f \in EnvsOf(instance, env, TRUE)
            <=> \E ch : IsChoice(instance, env, ch) /\ f = EnvFor(instance, env, ch, TRUE)
  BY ChoicesMade DEF EnvsOf
<1>10. E = {} <=> X = {} \/ expander \notin {"cross", "zipMin", "zipMax"} BY <1>1, <1>2 DEF FormalsAt
<1>11. X = { Formal(template, n) : n \in Expanding(instance) } BY <1>1 DEF FormalsAt
<1>. DEFINE Made(ch) == ColumnsOf(instance, EnvFor(instance, env, ch, TRUE))
<1>12. ASSUME NEW ch, IsChoice(instance, env, ch)
       PROVE  /\ Made(ch) = [c \in V |-> Made(ch)[c]]
              /\ \A n \in Varied(instance) : Made(ch)[Formal(template, n)]
                    = IF n \in E THEN ItemsAt(instance, n, env)[ch[n]] ELSE CellAt(instance, n, env)
  <2>1. PICK f : f = EnvFor(instance, env, ch, TRUE) OBVIOUS
  <2>2. \A n \in Varied(instance) : ColumnsOf(instance, f)[Formal(template, n)]
                = IF n \in E THEN ItemsAt(instance, n, env)[ch[n]] ELSE CellAt(instance, n, env)
    BY <1>8, <1>12, <2>1
  <2>3. ColumnsOf(instance, f) = [c \in V |-> ColumnsOf(instance, f)[c]] BY <1>1 DEF ColumnsOf
  <2>. QED BY <2>1, <2>2, <2>3
<1>13. ASSUME NEW ch, IsChoice(instance, env, ch)
       PROVE  HasNone(instance, EnvFor(instance, env, ch, TRUE)) <=> \E n \in E : Made(ch)[Formal(template, n)] = Null
  BY <1>1, <1>2, <1>5 DEF HasNone, ColumnsOf
<1>. HIDE DEF Made
<1>14. IsChosen(instance, env, x)
         <=> \E ch : /\ IsChoice(instance, env, ch) /\ x = Made(ch)
                     /\ ~(expander = "zipMin" /\ \E n \in E : Made(ch)[Formal(template, n)] = Null)
  <2>1. (\E f \in EnvsOf(instance, env, TRUE) : ~IsDropped(instance, f) /\ x = ColumnsOf(instance, f))
         <=> \E ch : /\ IsChoice(instance, env, ch) /\ x = Made(ch)
                     /\ ~IsDropped(instance, EnvFor(instance, env, ch, TRUE))
    BY <1>9 DEF Made
  <2>2. \A ch : IsChoice(instance, env, ch) =>
            (IsDropped(instance, EnvFor(instance, env, ch, TRUE))
                <=> (expander = "zipMin" /\ \E n \in E : Made(ch)[Formal(template, n)] = Null))
    BY <1>1, <1>13 DEF IsDropped
  <2>. QED BY <2>1, <2>2 DEF IsChosen
<1>. DEFINE Goal == \E ch : /\ IsChoice(instance, env, ch) /\ x = Made(ch)
                            /\ ~(expander = "zipMin" /\ \E n \in E : Made(ch)[Formal(template, n)] = Null)
<1>15. CASE E = {}
  <2>1. IsSpread(expander, V, X, base, x) <=> x = base BY <1>10, <1>15 DEF IsSpread
  <2>2. ASSUME NEW ch, IsChoice(instance, env, ch) PROVE Made(ch) = base
    <3>1. \A c \in V : Made(ch)[c] = base[c] BY <1>4, <1>5, <1>12, <1>15, <2>2
    <3>. QED BY <1>6, <1>12, <2>2, <3>1
  <2>3. IsChoice(instance, env, [n \in E |-> 0]) BY <1>1, <1>15 DEF IsChoice
  <2>. QED BY <1>1, <1>14, <1>15, <2>1, <2>2, <2>3
<1>16. CASE E # {} /\ expander = "cross"
  <2>0. E = Expanding(instance) BY <1>2, <1>16
  <2>1. IsSpread(expander, V, X, base, x) <=> IsCross(V, X, base, x) BY <1>10, <1>16 DEF IsSpread
  <2>2. ASSUME NEW ch, IsChoice(instance, env, ch) PROVE IsCross(V, X, base, Made(ch))
    <3>1. ASSUME NEW n \in Varied(instance)
          PROVE  /\ Made(ch)[Formal(template, n)] \in Cells
                 /\ IF n \in E THEN Made(ch)[Formal(template, n)] \in ToSet(Items(base[Formal(template, n)]))
                    ELSE Made(ch)[Formal(template, n)] = base[Formal(template, n)]
      <4>1. CASE n \in E
        <5>1. PICK items : items = ItemsAt(instance, n, env) OBVIOUS
        <5>2. items \in Seq(Cells) /\ ch[n] \in DOMAIN items
          BY <1>1, <1>2, <1>7, <2>2, <4>1, <5>1 DEF IsChoice
        <5>3. Made(ch)[Formal(template, n)] = items[ch[n]] BY <1>12, <2>2, <4>1, <5>1
        <5>4. items = Items(base[Formal(template, n)]) BY <1>4, <5>1 DEF ItemsAt
        <5>5. items[ch[n]] \in ToSet(items) /\ items[ch[n]] \in Cells BY <5>2 DEF ToSet
        <5>. QED BY <4>1, <5>3, <5>4, <5>5
      <4>2. CASE n \notin E BY <1>2, <1>4, <1>12, <2>2, <4>2 DEF HasCells
      <4>. QED BY <4>1, <4>2
    <3>2. \A c \in V : /\ Made(ch)[c] \in Cells
                       /\ IF c \in X THEN Made(ch)[c] \in ToSet(Items(base[c])) ELSE Made(ch)[c] = base[c]
      BY <1>5, <2>0, <3>1
    <3>3. Made(ch) \in [V -> Cells] BY <1>12, <2>2, <3>2
    <3>. QED BY <3>2, <3>3 DEF IsCross
  <2>3. ASSUME IsCross(V, X, base, x) PROVE \E ch : IsChoice(instance, env, ch) /\ x = Made(ch)
    <3>1. \A n \in E : \E k \in DOMAIN ItemsAt(instance, n, env) : x[Formal(template, n)] = ItemsAt(instance, n, env)[k]
      BY <1>2, <1>4, <1>5, <2>0, <2>3 DEF IsCross, ToSet, ItemsAt
    <3>2. PICK ch : ch = [n \in E |-> CHOOSE k \in DOMAIN ItemsAt(instance, n, env) :
                                        x[Formal(template, n)] = ItemsAt(instance, n, env)[k]]
      OBVIOUS
    <3>3. \A n \in E : ch[n] \in DOMAIN ItemsAt(instance, n, env) /\ x[Formal(template, n)] = ItemsAt(instance, n, env)[ch[n]]
      BY <3>1, <3>2
    <3>4. ch = [n \in E |-> ch[n]] BY <3>2
    <3>5. IsChoice(instance, env, ch) BY <1>1, <1>16, <3>3, <3>4 DEF IsChoice, IsZip
    <3>6. \A n \in Varied(instance) : x[Formal(template, n)] = Made(ch)[Formal(template, n)]
      BY <1>4, <1>5, <1>12, <2>0, <2>3, <3>3, <3>5 DEF IsCross
    <3>7. \A c \in V : x[c] = Made(ch)[c] BY <1>5, <3>6
    <3>8. x = [c \in V |-> x[c]] BY <2>3 DEF IsCross
    <3>9. x = Made(ch) BY <1>12, <3>5, <3>7, <3>8
    <3>. QED BY <3>5, <3>9
  <2>. QED BY <1>1, <1>14, <1>16, <2>1, <2>2, <2>3
<1>17. CASE E # {} /\ IsZip(expander)
  <2>0. E = Expanding(instance) /\ X # {} BY <1>2, <1>10, <1>17 DEF IsZip
  <2>1. IsSpread(expander, V, X, base, x)
            <=> /\ \E k : (\A c \in X : k \in DOMAIN Items(base[c])) /\ x = SameRow(V, X, base, k)
                /\ expander = "zipMin" => \A c \in X : x[c] # Null
    BY <1>17, <2>0 DEF IsSpread, IsZip
  <2>2. \A k : (\A c \in X : k \in DOMAIN Items(base[c])) <=> \A n \in E : k \in DOMAIN ItemsAt(instance, n, env)
    BY <1>2, <1>4, <1>11, <2>0 DEF ItemsAt
  <2>3. (\A c \in X : x[c] # Null) <=> ~\E n \in E : x[Formal(template, n)] = Null BY <1>11, <2>0
  <2>4. ASSUME NEW ch, IsChoice(instance, env, ch), NEW k, \A n \in E : ch[n] = k
        PROVE  Made(ch) = SameRow(V, X, base, k)
    <3>1. ASSUME NEW n \in Varied(instance)
          PROVE  Made(ch)[Formal(template, n)] = SameRow(V, X, base, k)[Formal(template, n)]
      BY <1>4, <1>5, <1>12, <2>0, <2>4 DEF SameRow, ItemsAt
    <3>2. \A c \in V : Made(ch)[c] = SameRow(V, X, base, k)[c] BY <1>5, <3>1
    <3>3. SameRow(V, X, base, k) = [c \in V |-> SameRow(V, X, base, k)[c]] BY DEF SameRow
    <3>. QED BY <1>12, <2>4, <3>2, <3>3
  <2>5. ASSUME NEW k, \A n \in E : k \in DOMAIN ItemsAt(instance, n, env)
        PROVE  IsChoice(instance, env, [n \in E |-> k]) /\ \A n \in E : [m \in E |-> k][n] = k
    BY <1>1, <2>5 DEF IsChoice
  <2>6. (\E k : (\A c \in X : k \in DOMAIN Items(base[c])) /\ x = SameRow(V, X, base, k))
            <=> \E ch : IsChoice(instance, env, ch) /\ x = Made(ch)
    <3>1. ASSUME NEW k, \A c \in X : k \in DOMAIN Items(base[c]), x = SameRow(V, X, base, k)
          PROVE  \E ch : IsChoice(instance, env, ch) /\ x = Made(ch)
      BY <2>2, <2>4, <2>5, <3>1
    <3>2. ASSUME NEW ch, IsChoice(instance, env, ch), x = Made(ch)
          PROVE  \E k : (\A c \in X : k \in DOMAIN Items(base[c])) /\ x = SameRow(V, X, base, k)
      <4>1. PICK k : \A n \in E : ch[n] = k BY <1>1, <1>17, <3>2 DEF IsChoice
      <4>2. \A n \in E : k \in DOMAIN ItemsAt(instance, n, env) BY <1>1, <3>2, <4>1 DEF IsChoice
      <4>. QED BY <2>2, <2>4, <3>2, <4>1, <4>2
    <3>. QED BY <3>1, <3>2
  <2>7. (\E ch : /\ IsChoice(instance, env, ch) /\ x = Made(ch)
                 /\ ~(expander = "zipMin" /\ \E n \in E : Made(ch)[Formal(template, n)] = Null))
            <=> /\ \E ch : IsChoice(instance, env, ch) /\ x = Made(ch)
                /\ ~(expander = "zipMin" /\ \E n \in E : x[Formal(template, n)] = Null)
    OBVIOUS
  <2>. QED BY <1>1, <1>14, <2>1, <2>3, <2>6, <2>7
<1>18. E # {} => expander = "cross" \/ IsZip(expander) BY <1>2 DEF IsZip
<1>. QED BY <1>15, <1>16, <1>17, <1>18

\* Values that an instance can be formed from.
CanTake(call, instance, env) ==
    IsOfCall(env, call) /\ HasCells(instance, env) /\ ZipsAgree(instance, env)

\* The arguments that are expanded, and their columns.
LEMMA ExpandedColumns ==
    ASSUME NEW call, NEW instance, IsFormed(call, instance, CalleeOf(instance))
    PROVE  /\ Varied(instance) \in SUBSET Args(instance) /\ Expanding(instance) \in SUBSET Varied(instance)
           /\ ExpandedOf(instance) = IF instance.list_expander \in {"cross", "zipMin", "zipMax"}
                                     THEN Expanding(instance) ELSE {}
<1>1. Expanding(instance) = { n \in Args(instance) : instance.argument_list[n].list_expand }
  BY ArgumentsOfFormed
<1>. QED BY <1>1 DEF Varied, Expanding, ExpandedOf, Args

\* What an instance says has the columns that are handed on.
LEMMA SaidOfColumns ==
    ASSUME NEW call, NEW instance, NEW i, NEW env, NEW f, NEW row,
           IsFormed(call, instance, CalleeOf(instance)), IsOfCall(env, call), f \in EnvsOf(instance, env, TRUE),
           DOMAIN DynamicFor(call, instance, CalleeOf(instance)) # {} => row = ColumnsOf(instance, f)
    PROVE  EnvOf(Remapped(call, i, instance, CalleeOf(instance)), row) = f
<1>1. PICK template, R : template = CalleeOf(instance) /\ R = Remapped(call, i, instance, template) OBVIOUS
<1>2. R.dynamic_columns = DynamicFor(call, instance, template) /\ R.static_columns = StaticFor(call, instance, template)
  BY <1>1 DEF Remapped
<1>3. PICK dynamic, static : dynamic = R.dynamic_columns /\ static = R.static_columns OBVIOUS
<1>4. /\ DOMAIN dynamic = FormalsAt(template, Varied(instance))
      /\ \A n \in Varied(instance) : dynamic[Formal(template, n)] = ValueIn(instance.argument_list[n], env).type
      /\ DOMAIN static = FormalsAt(template, Fixed(instance))
      /\ \A n \in Fixed(instance) :
            static[Formal(template, n)]
                = [value |-> ValueOf(instance.argument_list[n]), ptype |-> template.parameters[n].ptype]
  <2>1. dynamic = DynamicFor(call, instance, template) /\ static = StaticFor(call, instance, template)
    BY <1>2, <1>3
  <2>. QED BY <1>1, <2>1, HandedOn
<1>5. PICK ch : f = EnvFor(instance, env, ch, TRUE) BY DEF EnvsOf
<1>6. /\ f = [c \in Formals(template) |-> f[c]]
      /\ \A n \in Args(instance) :
            f[Formal(template, n)] = [cell |-> PickedAt(instance, n, env, ch, TRUE),
                                      type |-> ValueIn(instance.argument_list[n], env).type]
  BY <1>1, <1>5, EnvAt
<1>7. /\ Varied(instance) \in SUBSET Args(instance) /\ Expanding(instance) \in SUBSET Varied(instance)
      /\ ExpandedOf(instance) \in SUBSET Varied(instance)
      /\ Fixed(instance) = Args(instance) \ Varied(instance)
  <2>1. Fixed(instance) \in SUBSET Args(instance) BY DEF Fixed, ConstantArgs, Args
  <2>2. Varied(instance) \in SUBSET Args(instance) /\ Expanding(instance) \in SUBSET Varied(instance)
        /\ ExpandedOf(instance) \in SUBSET Varied(instance)
    BY ExpandedColumns
  <2>. QED BY <2>1, <2>2 DEF Varied
<1>8. /\ \A n, k \in Args(instance) : Formal(template, n) = Formal(template, k) => n = k
      /\ Formals(template) = FormalsAt(template, Args(instance))
  BY <1>1, GivenOfFormed
<1>9. EnvOf(R, row) = [c \in DOMAIN dynamic \union DOMAIN static |->
            IF c \in DOMAIN dynamic THEN [cell |-> row[c], type |-> dynamic[c]]
            ELSE [cell |-> static[c].value, type |-> BaseOf(static[c].value)]]
  BY <1>3 DEF EnvOf
<1>10. DOMAIN dynamic \union DOMAIN static = Formals(template) BY <1>4, <1>7, <1>8 DEF FormalsAt
<1>11. ASSUME NEW n \in Varied(instance) PROVE EnvOf(R, row)[Formal(template, n)] = f[Formal(template, n)]
  <2>1. Formal(template, n) \in DOMAIN dynamic BY <1>4 DEF FormalsAt
  <2>2. row = ColumnsOf(instance, f) BY <1>1, <1>2, <1>3, <2>1
  <2>3. row[Formal(template, n)] = f[Formal(template, n)].cell
    BY <1>1, <1>4, <2>1, <2>2 DEF ColumnsOf
  <2>4. f[Formal(template, n)] = [cell |-> PickedAt(instance, n, env, ch, TRUE),
                                  type |-> ValueIn(instance.argument_list[n], env).type]
    BY <1>6, <1>7
  <2>5. f[Formal(template, n)] = [cell |-> row[Formal(template, n)], type |-> dynamic[Formal(template, n)]]
    <3>1. f[Formal(template, n)].cell = PickedAt(instance, n, env, ch, TRUE) BY ONLY <2>4
    <3>2. dynamic[Formal(template, n)] = ValueIn(instance.argument_list[n], env).type BY <1>4
    <3>. QED BY ONLY <2>3, <2>4, <3>1, <3>2, Zenon
  <2>. QED BY <1>9, <2>1, <2>5
<1>12. ASSUME NEW n \in Fixed(instance) PROVE EnvOf(R, row)[Formal(template, n)] = f[Formal(template, n)]
  <2>1. Formal(template, n) \in DOMAIN static /\ Formal(template, n) \notin DOMAIN dynamic
    BY <1>4, <1>7, <1>8 DEF FormalsAt
  <2>2. PICK value : value = ValueOf(instance.argument_list[n]) OBVIOUS
  <2>3. static[Formal(template, n)].value = value
    <3>1. static[Formal(template, n)]
            = [value |-> ValueOf(instance.argument_list[n]), ptype |-> template.parameters[n].ptype]
      BY <1>4
    <3>. QED BY ONLY <2>2, <3>1
  <2>4. ~IsVariable(instance.argument_list[n])
    BY DEF Fixed, ConstantArgs, IsVariable, IsConstant
  <2>5. PickedAt(instance, n, env, ch, TRUE) = value /\ ValueIn(instance.argument_list[n], env).type = BaseOf(value)
    <3>1. ValueIn(instance.argument_list[n], env) = [cell |-> value, type |-> BaseOf(value)]
      BY <2>2, <2>4 DEF ValueIn
    <3>2. n \notin ExpandedOf(instance) BY <1>7
    <3>. QED BY <3>1, <3>2 DEF PickedAt, CellAt
  <2>6. f[Formal(template, n)] = [cell |-> value, type |-> BaseOf(value)] BY <1>6, <1>7, <2>5
  <2>7. EnvOf(R, row)[Formal(template, n)] = [cell |-> value, type |-> BaseOf(value)]
    BY <1>9, <2>1, <2>3
  <2>. QED BY <2>6, <2>7
<1>13. \A c \in Formals(template) : EnvOf(R, row)[c] = f[c]
  BY <1>7, <1>8, <1>11, <1>12 DEF FormalsAt
<1>14. EnvOf(R, row) = [c \in Formals(template) |-> EnvOf(R, row)[c]] BY <1>9, <1>10
<1>15. EnvOf(R, row) = f BY ONLY <1>6, <1>13, <1>14
<1>. QED BY <1>1, <1>15

\* What is expanded from a call is, row by row, what the instance says of its rows.
LEMMA RemappedEnvs ==
    ASSUME NEW call, HasTypedRows(call), NEW instance, IsFormed(call, instance, CalleeOf(instance)),
           NEW es, IsGiven(es, call, instance), \A env \in es : CanTake(call, instance, env), NEW i
    PROVE  /\ IsZip(instance.list_expander) =>
                ~ExplodeFails(RowsFor(call, instance, CalleeOf(instance)), ToExpand(call, instance, CalleeOf(instance)))
           /\ \A f : f \in FrameEnvs(Remapped(call, i, instance, CalleeOf(instance)))
                      <=> \E env \in es : f \in EnvsOf(instance, env, TRUE) /\ ~IsDropped(instance, f)
<1>1. PICK template, V, X, E, expander, rows, cs :
          /\ template = CalleeOf(instance)
          /\ V = FormalsAt(template, Varied(instance)) /\ X = FormalsAt(template, Expanding(instance))
          /\ E = ExpandedOf(instance) /\ expander = instance.list_expander
          /\ rows = RowsFor(call, instance, template) /\ cs = ToExpand(call, instance, template)
  OBVIOUS
<1>2. DOMAIN DynamicFor(call, instance, template) = V BY <1>1, HandedOn
<1>3. rows \in Seq([V -> Cells])
  <2>1. IsInstance(instance, template) BY <1>1 DEF IsFormed
  <2>. QED BY <1>1, <1>2, <2>1, RowsForTyped
<1>4. cs \in Seq(V) /\ ToSet(cs) = X /\ \A m, n \in DOMAIN cs : cs[m] = cs[n] => m = n
  BY <1>1, ExpandedOnce DEF IsOnce
<1>5. ToSet(rows) = IF Varied(instance) = {} THEN {}
                    ELSE { GivenFor(instance, template, env, Varied(instance)) : env \in es }
  BY <1>1, BaseRows
<1>6. /\ Varied(instance) \in SUBSET Args(instance) /\ Expanding(instance) \in SUBSET Varied(instance)
      /\ E = IF expander \in {"cross", "zipMin", "zipMax"} THEN Expanding(instance) ELSE {}
  BY <1>1, ExpandedColumns
<1>7. ASSUME NEW env \in es, NEW n \in Varied(instance)
      PROVE  GivenFor(instance, template, env, Varied(instance))[Formal(template, n)] = CellAt(instance, n, env)
  BY <1>1, <1>6, GivenCells
<1>8. ASSUME IsZip(expander), NEW row \in ToSet(rows), NEW c \in ToSet(cs), NEW d \in ToSet(cs)
      PROVE  Len(Items(row[c])) = Len(Items(row[d]))
  <2>1. PICK env \in es : row = GivenFor(instance, template, env, Varied(instance)) BY <1>5, <1>8
  <2>2. PICK n \in Expanding(instance), k \in Expanding(instance) : c = Formal(template, n) /\ d = Formal(template, k)
    BY <1>1, <1>4, <1>8 DEF FormalsAt
  <2>3. E = Expanding(instance) BY <1>6, <1>8 DEF IsZip
  <2>4. Items(row[c]) = ItemsAt(instance, n, env) /\ Items(row[d]) = ItemsAt(instance, k, env)
    BY <1>6, <1>7, <2>1, <2>2 DEF ItemsAt
  <2>5. DOMAIN ItemsAt(instance, n, env) = DOMAIN ItemsAt(instance, k, env)
    BY <1>1, <1>8, <2>2, <2>3 DEF CanTake, ZipsAgree
  <2>6. ItemsAt(instance, n, env) \in Seq(Cells) /\ ItemsAt(instance, k, env) \in Seq(Cells)
    BY <1>6, <2>2, ItemsAreCells DEF CanTake, HasCells, ItemsAt
  <2>7. Len(ItemsAt(instance, n, env)) = Len(ItemsAt(instance, k, env)) BY <2>5, <2>6
  <2>. QED BY <2>4, <2>7
<1>9. /\ IsZip(expander) => ~ExplodeFails(rows, cs)
      /\ \A x : x \in ToSet(ListExpanded(expander, rows, cs))
                 <=> \E row \in ToSet(rows) : IsSpread(expander, V, X, row, x)
  <2>1. IsZip(expander) => \A row \in ToSet(rows) : \A c, d \in ToSet(cs) : Len(Items(row[c])) = Len(Items(row[d]))
    BY <1>8
  <2>2. /\ IsZip(expander) => ~ExplodeFails(rows, cs)
        /\ \A x : x \in ToSet(ListExpanded(expander, rows, cs))
                   <=> \E row \in ToSet(rows) : IsSpread(expander, V, ToSet(cs), row, x)
    BY ONLY <1>3, <1>4, <2>1, SpreadRows
  <2>. QED BY <1>4, <2>2
<1>10. PICK R : R = Remapped(call, i, instance, template) OBVIOUS
<1>11. R.rows = ListExpanded(expander, rows, cs) /\ DOMAIN R.dynamic_columns = V
  BY <1>1, <1>2, <1>10 DEF Remapped
<1>12. ASSUME NEW env \in es, NEW f \in EnvsOf(instance, env, TRUE), NEW row, V # {} => row = ColumnsOf(instance, f)
       PROVE  EnvOf(R, row) = f
  <2>1. IsOfCall(env, call) BY DEF CanTake
  <2>2. f \in EnvsOf(instance, env, TRUE) BY <1>12
  <2>3. DOMAIN DynamicFor(call, instance, CalleeOf(instance)) # {} => row = ColumnsOf(instance, f)
    BY <1>1, <1>2, <1>12
  <2>4. IsFormed(call, instance, CalleeOf(instance)) OBVIOUS
  <2>5. EnvOf(Remapped(call, i, instance, CalleeOf(instance)), row) = f
    BY ONLY <2>1, <2>2, <2>3, <2>4, SaidOfColumns
  <2>. QED BY <1>1, <1>10, <2>5
<1>13. \A env \in es : ZipsAgree(instance, env) /\ HasCells(instance, env)
  BY DEF CanTake
<1>14. ASSUME NEW f
       PROVE  f \in FrameEnvs(R) <=> \E env \in es : f \in EnvsOf(instance, env, TRUE) /\ ~IsDropped(instance, f)
  <2>1. CASE V = {}
    <3>1. Varied(instance) = {} /\ E = {} BY <1>1, <1>6, <2>1 DEF FormalsAt
    <3>2. FrameEnvs(R) = {EnvOf(R, <<>>)} BY <1>11, <2>1 DEF FrameEnvs
    <3>3. ASSUME NEW env \in es PROVE EnvsOf(instance, env, TRUE) = {EnvOf(R, <<>>)}
      <4>1. EnvsOf(instance, env, TRUE) \subseteq {EnvOf(R, <<>>)} BY <1>12, <2>1
      <4>2. IsChoice(instance, env, [n \in E |-> 0]) BY <1>1, <3>1 DEF IsChoice
      <4>3. [n \in E |-> 0] \in ChoicesOf(instance, env, TRUE) BY <1>13, <4>2, ChoicesMade
      <4>4. EnvsOf(instance, env, TRUE) # {} BY <4>3 DEF EnvsOf
      <4>. QED BY <4>1, <4>4
    <3>4. ~IsDropped(instance, f) BY <1>1, <3>1 DEF IsDropped, HasNone
    <3>5. es # {} 
      <4>1. VariablesOf(instance) = {} BY <3>1, ArgumentsOfFormed
      <4>. QED BY <4>1 DEF IsGiven
    <3>. QED BY <3>2, <3>3, <3>4, <3>5
  <2>2. CASE V # {}
    <3>1. Varied(instance) # {} BY <1>1, <2>2 DEF FormalsAt
    <3>2. FrameEnvs(R) = { EnvOf(R, row) : row \in ToSet(R.rows) } BY <1>11, <2>2 DEF FrameEnvs
    <3>3. ASSUME NEW env \in es, NEW x
          PROVE  IsSpread(expander, V, X, GivenFor(instance, template, env, Varied(instance)), x)
                    <=> \E g \in EnvsOf(instance, env, TRUE) : ~IsDropped(instance, g) /\ x = ColumnsOf(instance, g)
      <4>1. IsFormed(call, instance, CalleeOf(instance)) OBVIOUS
      <4>2. ZipsAgree(instance, env) /\ HasCells(instance, env) BY <1>13
      <4>3. IsSpread(instance.list_expander, FormalsAt(CalleeOf(instance), Varied(instance)),
                     FormalsAt(CalleeOf(instance), Expanding(instance)),
                     GivenFor(instance, CalleeOf(instance), env, Varied(instance)), x)
              <=> IsChosen(instance, env, x)
        BY ONLY <4>1, <4>2, SpreadIsChosen
      <4>. QED BY <1>1, <4>3 DEF IsChosen
    <3>4. ASSUME NEW x
          PROVE  x \in ToSet(R.rows) <=> \E env \in es : \E g \in EnvsOf(instance, env, TRUE) :
                                            ~IsDropped(instance, g) /\ x = ColumnsOf(instance, g)
      <4>1. x \in ToSet(R.rows) <=> \E env \in es : IsSpread(expander, V, X, GivenFor(instance, template, env, Varied(instance)), x)
        BY <1>5, <1>9, <1>11, <3>1
      <4>. QED BY <3>3, <4>1
    <3>5. ASSUME f \in FrameEnvs(R)
          PROVE  \E env \in es : f \in EnvsOf(instance, env, TRUE) /\ ~IsDropped(instance, f)
      <4>1. PICK row \in ToSet(R.rows) : f = EnvOf(R, row) BY <3>2, <3>5
      <4>2. PICK env \in es : \E g \in EnvsOf(instance, env, TRUE) :
                                ~IsDropped(instance, g) /\ row = ColumnsOf(instance, g)
        BY <3>4
      <4>5. PICK g \in EnvsOf(instance, env, TRUE) : ~IsDropped(instance, g) /\ row = ColumnsOf(instance, g)
        BY <4>2
      <4>3. f = g BY <1>12, <4>1, <4>5
      <4>. QED BY <4>5, <4>3
    <3>6. ASSUME NEW env \in es, f \in EnvsOf(instance, env, TRUE), ~IsDropped(instance, f) PROVE f \in FrameEnvs(R)
      <4>1. ColumnsOf(instance, f) \in ToSet(R.rows) BY <3>4, <3>6
      <4>2. EnvOf(R, ColumnsOf(instance, f)) = f BY <1>12, <3>6
      <4>. QED BY <3>2, <4>1, <4>2
    <3>. QED BY <3>5, <3>6
  <2>. QED BY <2>1, <2>2
<1>. QED BY <1>1, <1>9, <1>10, <1>14

----------------------------------------------------------------------------
\* Lists and nones: where the code and the definition agree.

\* A list that is no none and not empty is what it is to the definition and to the code.
LEMMA ElementsOfList ==
    ASSUME NEW cell \in Cells, cell \notin Terms
    PROVE  /\ cell # Null /\ cell # <<>> => Items(cell) = cell /\ Elements(cell) = cell
           /\ cell = Null \/ cell = <<>> => Items(cell) = <<Null>> /\ Elements(cell) = <<>>
           /\ cell # Null => cell \in Seq(Cells)
<1>1. cell # Null => cell \in Seq(Cells) BY CellsAssumption
<1>. QED BY <1>1 DEF Items, Elements, IsList

LEMMA ItemsExist ==
    ASSUME NEW cell \in Cells PROVE Items(cell) \in Seq(Cells) /\ 1 \in DOMAIN Items(cell)
<1>1. Items(cell) \in Seq(Cells) BY ItemsAreCells
<1>2. Items(cell) # <<>> BY DEF Items, IsList
<1>. QED BY <1>1, <1>2

LEMMA ZipsFit ==
    ASSUME NEW instance, NEW env, HasCells(instance, env), ListsFit(instance, env) PROVE ZipsAgree(instance, env)
<1>1. ExpandedOf(instance) \subseteq Args(instance) BY DEF ExpandedOf, Args
<1>. SUFFICES ASSUME IsZip(instance.list_expander), NEW n \in ExpandedOf(instance), NEW k \in ExpandedOf(instance)
              PROVE  DOMAIN ItemsAt(instance, n, env) = DOMAIN ItemsAt(instance, k, env)
  BY DEF ZipsAgree
<1>2. ItemsAt(instance, n, env) \in Seq(Cells) /\ ItemsAt(instance, k, env) \in Seq(Cells)
  BY <1>1, ItemsExist DEF HasCells, ItemsAt
<1>3. Len(ItemsAt(instance, n, env)) = Len(ItemsAt(instance, k, env)) BY DEF ListsFit, IsZip, ItemsAt
<1>. QED BY <1>2, <1>3

\* There is always something that an instance says once empty lists are nones.
LEMMA SomethingIsSaid ==
    ASSUME NEW instance, NEW env, HasCells(instance, env), ListsFit(instance, env) PROVE EnvsOf(instance, env, TRUE) # {}
<1>1. ExpandedOf(instance) \subseteq Args(instance) BY DEF ExpandedOf, Args
<1>2. \A n \in ExpandedOf(instance) : 1 \in DOMAIN ItemsAt(instance, n, env)
  BY <1>1, ItemsExist DEF HasCells, ItemsAt
<1>3. IsChoice(instance, env, [n \in ExpandedOf(instance) |-> 1]) BY <1>2 DEF IsChoice
<1>4. [n \in ExpandedOf(instance) |-> 1] \in ChoicesOf(instance, env, TRUE) BY <1>3, ZipsFit, ChoicesMade
<1>. QED BY <1>4 DEF EnvsOf

\* Choices among the elements of lists.
IsAlike(instance, x) ==
    /\ x = [n \in ExpandedOf(instance) |-> x[n]]
    /\ IsZip(instance.list_expander) => \E k : \A n \in ExpandedOf(instance) : x[n] = k
LEMMA WholeChoices ==
    ASSUME NEW instance, NEW env, NEW x,
           \A n \in ExpandedOf(instance) : x[n] \in DOMAIN Elements(CellAt(instance, n, env))
    PROVE  x \in ChoicesOf(instance, env, FALSE) <=> IsAlike(instance, x)
<1>1. PICK E, ps : E = ExpandedOf(instance) /\ ps = UNION { PositionsAt(instance, n, env, FALSE) : n \in E } OBVIOUS
<1>6. PICK e, s : /\ e = { y \in [E -> ps] : \A n \in E : y[n] \in PositionsAt(instance, n, env, FALSE) }
                  /\ s = { [n \in E |-> k] : k \in ps }
  OBVIOUS
<1>7. ChoicesOf(instance, env, FALSE) = IF E = {} \/ instance.list_expander = "cross" THEN e
                  ELSE IF instance.list_expander = "zipMin" THEN e \intersect s ELSE s
  BY <1>1, <1>6 DEF ChoicesOf
<1>4. \A n \in E : x[n] \in PositionsAt(instance, n, env, FALSE) BY <1>1 DEF PositionsAt, ElementsBy
<1>8. x \in e <=> x = [n \in E |-> x[n]] BY <1>1, <1>4, <1>6
<1>9. E # {} => (x \in s <=> x = [n \in E |-> x[n]] /\ \E k : \A n \in E : x[n] = k)
  <2>1. ASSUME x \in s PROVE x = [n \in E |-> x[n]] /\ \E k : \A n \in E : x[n] = k BY <1>6, <2>1
  <2>2. ASSUME E # {}, x = [n \in E |-> x[n]], NEW k, \A n \in E : x[n] = k PROVE x \in s
    <3>1. PICK m \in E : TRUE BY <2>2
    <3>2. k \in PositionsAt(instance, m, env, FALSE) BY <1>4, <2>2, <3>1
    <3>3. k \in ps BY <1>1, <3>1, <3>2
    <3>4. x = [n \in E |-> k] BY <2>2
    <3>. QED BY <1>6, <3>3, <3>4
  <2>. QED BY <2>1, <2>2
<1>10. E # {} => instance.list_expander \in {"cross", "zipMin", "zipMax"} BY <1>1 DEF ExpandedOf
<1>. QED BY <1>1, <1>7, <1>8, <1>9, <1>10 DEF IsZip, IsAlike

----------------------------------------------------------------------------
LEMMA SamePick ==
    ASSUME NEW instance, NEW env, NEW x, NEW n,
           n \in ExpandedOf(instance) =>
                Items(CellAt(instance, n, env)) = Elements(CellAt(instance, n, env))
                /\ x[n] \in DOMAIN Items(CellAt(instance, n, env))
    PROVE  PickedAt(instance, n, env, x, TRUE) = PickedAt(instance, n, env, x, FALSE)
BY DEF PickedAt, ElementsBy, ElementAt

LEMMA SameEnvs ==
    ASSUME NEW call, NEW instance, NEW env, NEW x, IsFormed(call, instance, CalleeOf(instance)),
           \A n \in ExpandedOf(instance) :
                Items(CellAt(instance, n, env)) = Elements(CellAt(instance, n, env))
                /\ x[n] \in DOMAIN Items(CellAt(instance, n, env))
    PROVE  EnvFor(instance, env, x, TRUE) = EnvFor(instance, env, x, FALSE)
<1>1. PICK template, f, g : /\ template = CalleeOf(instance) /\ f = EnvFor(instance, env, x, TRUE)
                            /\ g = EnvFor(instance, env, x, FALSE)
  OBVIOUS
<1>2. /\ f = [c \in Formals(template) |-> f[c]]
      /\ \A n \in Args(instance) :
            f[Formal(template, n)] = [cell |-> PickedAt(instance, n, env, x, TRUE),
                                      type |-> ValueIn(instance.argument_list[n], env).type]
  BY <1>1, EnvAt
<1>3. /\ g = [c \in Formals(template) |-> g[c]]
      /\ \A n \in Args(instance) :
            g[Formal(template, n)] = [cell |-> PickedAt(instance, n, env, x, FALSE),
                                      type |-> ValueIn(instance.argument_list[n], env).type]
  BY <1>1, WholeEnvAt, ZenonT(40)
<1>4. Formals(template) = FormalsAt(template, Args(instance)) BY <1>1, GivenOfFormed
<1>5. \A n \in Args(instance) : PickedAt(instance, n, env, x, TRUE) = PickedAt(instance, n, env, x, FALSE)
  BY SamePick
<1>7. ASSUME NEW n \in Args(instance) PROVE f[Formal(template, n)] = g[Formal(template, n)]
  <2>1. f[Formal(template, n)] = [cell |-> PickedAt(instance, n, env, x, TRUE),
                                  type |-> ValueIn(instance.argument_list[n], env).type]
    BY <1>2
  <2>2. g[Formal(template, n)] = [cell |-> PickedAt(instance, n, env, x, FALSE),
                                  type |-> ValueIn(instance.argument_list[n], env).type]
    BY <1>3
  <2>3. PickedAt(instance, n, env, x, TRUE) = PickedAt(instance, n, env, x, FALSE) BY <1>5
  <2>. QED BY ONLY <2>1, <2>2, <2>3
<1>6. \A c \in Formals(template) : f[c] = g[c] BY <1>4, <1>7 DEF FormalsAt
<1>. QED BY <1>1, <1>2, <1>3, <1>6

\* Without a none from a list, an instance says the same to the definition and to the code.
LEMMA SameWhole ==
    ASSUME NEW call, NEW instance, NEW env, NEW f, IsFormed(call, instance, CalleeOf(instance)),
           HasCells(instance, env), ListsFit(instance, env), ~HasNone(instance, f)
    PROVE  f \in EnvsOf(instance, env, TRUE) <=> f \in EnvsOf(instance, env, FALSE)
<1>1. PICK E, template : E = ExpandedOf(instance) /\ template = CalleeOf(instance) OBVIOUS
<1>2. E \subseteq Args(instance) BY <1>1 DEF ExpandedOf, Args
<1>3. \A n \in E : CellAt(instance, n, env) \in Cells /\ CellAt(instance, n, env) \notin Terms
  BY <1>1, <1>2 DEF HasCells, ListsFit
<1>4. \A n \in E : f[Formal(template, n)].cell # Null BY <1>1 DEF HasNone
<1>. DEFINE Agrees(x) == \A n \in E : /\ Items(CellAt(instance, n, env)) = Elements(CellAt(instance, n, env))
                                     /\ x[n] \in DOMAIN Items(CellAt(instance, n, env))
<1>5. ASSUME NEW x, Agrees(x)
      PROVE  /\ EnvFor(instance, env, x, TRUE) = EnvFor(instance, env, x, FALSE)
             /\ x \in ChoicesOf(instance, env, TRUE) <=> x \in ChoicesOf(instance, env, FALSE)
  <2>1. EnvFor(instance, env, x, TRUE) = EnvFor(instance, env, x, FALSE) BY <1>1, <1>5, SameEnvs
  <2>2. x \in ChoicesOf(instance, env, TRUE) <=> IsChoice(instance, env, x) BY ZipsFit, ChoicesMade
  <2>3. \A n \in ExpandedOf(instance) : x[n] \in DOMAIN Elements(CellAt(instance, n, env)) BY <1>1, <1>5
  <2>4. x \in ChoicesOf(instance, env, FALSE) <=> IsAlike(instance, x) BY <2>3, WholeChoices
  <2>. QED BY <1>1, <1>5, <2>1, <2>2, <2>4 DEF IsChoice, IsAlike, ItemsAt
<1>6. ASSUME NEW x \in ChoicesOf(instance, env, TRUE), f = EnvFor(instance, env, x, TRUE) PROVE Agrees(x)
  <2>1. IsChoice(instance, env, x) BY ZipsFit, ChoicesMade
  <2>2. ASSUME NEW n \in E
        PROVE  /\ Items(CellAt(instance, n, env)) = Elements(CellAt(instance, n, env))
               /\ x[n] \in DOMAIN Items(CellAt(instance, n, env))
    <3>1. PICK cell : cell = CellAt(instance, n, env) OBVIOUS
    <3>2. x[n] \in DOMAIN Items(cell) BY <1>1, <2>1, <2>2, <3>1 DEF IsChoice, ItemsAt
    <3>3. n \in Args(instance) /\ n \in ExpandedOf(instance) BY <1>1, <1>2
    <3>4. EnvFor(instance, env, x, TRUE)[Formal(CalleeOf(instance), n)]
              = [cell |-> PickedAt(instance, n, env, x, TRUE), type |-> ValueIn(instance.argument_list[n], env).type]
      BY <3>3, EnvAt, ZenonT(40)
    <3>5. f[Formal(template, n)].cell = PickedAt(instance, n, env, x, TRUE)
      <4>1. f[Formal(template, n)]
              = [cell |-> PickedAt(instance, n, env, x, TRUE), type |-> ValueIn(instance.argument_list[n], env).type]
        BY ONLY <1>1, <1>6, <3>4, Zenon
      <4>. QED BY ONLY <4>1
    <3>6. PickedAt(instance, n, env, x, TRUE) = Items(cell)[x[n]]
      BY <3>1, <3>2, <3>3, ItemPicked DEF ItemsAt
    <3>7. Items(cell)[x[n]] # Null BY <1>4, <3>5, <3>6
    <3>8. cell \in Cells /\ cell \notin Terms BY <1>3, <3>1
    <3>9. Items(cell) # <<Null>> BY <3>2, <3>7
    <3>10. Items(cell) = cell /\ Elements(cell) = cell BY <3>8, <3>9, ElementsOfList
    <3>. QED BY <3>1, <3>2, <3>10
  <2>. QED BY <2>2
<1>7. ASSUME NEW x \in ChoicesOf(instance, env, FALSE), f = EnvFor(instance, env, x, FALSE) PROVE Agrees(x)
  <2>2. ASSUME NEW n \in E
        PROVE  /\ Items(CellAt(instance, n, env)) = Elements(CellAt(instance, n, env))
               /\ x[n] \in DOMAIN Items(CellAt(instance, n, env))
    <3>1. PICK cell : cell = CellAt(instance, n, env) OBVIOUS
    <3>3. n \in Args(instance) /\ n \in ExpandedOf(instance) BY <1>1, <1>2
    <3>4. EnvFor(instance, env, x, FALSE)[Formal(CalleeOf(instance), n)]
              = [cell |-> PickedAt(instance, n, env, x, FALSE), type |-> ValueIn(instance.argument_list[n], env).type]
      BY <3>3, WholeEnvAt, ZenonT(40)
    <3>5. f[Formal(template, n)].cell = PickedAt(instance, n, env, x, FALSE)
      <4>1. f[Formal(template, n)]
              = [cell |-> PickedAt(instance, n, env, x, FALSE), type |-> ValueIn(instance.argument_list[n], env).type]
        BY ONLY <1>1, <1>7, <3>4, Zenon
      <4>. QED BY ONLY <4>1
    <3>6. PickedAt(instance, n, env, x, FALSE) # Null BY <1>4, <3>5
    <3>2. x[n] \in DOMAIN Elements(cell) BY <3>1, <3>3, <3>6 DEF PickedAt, ElementsBy, ElementAt
    <3>8. cell \in Cells /\ cell \notin Terms BY <1>3, <3>1
    <3>9. Elements(cell) # <<>> BY <3>2
    <3>10. Items(cell) = cell /\ Elements(cell) = cell BY <3>8, <3>9, ElementsOfList
    <3>. QED BY <3>1, <3>2, <3>10
  <2>. QED BY <2>2
<1>. HIDE DEF Agrees
<1>8. ASSUME f \in EnvsOf(instance, env, TRUE) PROVE f \in EnvsOf(instance, env, FALSE)
  <2>1. PICK x \in ChoicesOf(instance, env, TRUE) : f = EnvFor(instance, env, x, TRUE) BY <1>8 DEF EnvsOf
  <2>2. x \in ChoicesOf(instance, env, FALSE) /\ f = EnvFor(instance, env, x, FALSE) BY <1>5, <1>6, <2>1
  <2>. QED BY <2>2 DEF EnvsOf
<1>9. ASSUME f \in EnvsOf(instance, env, FALSE) PROVE f \in EnvsOf(instance, env, TRUE)
  <2>1. PICK x \in ChoicesOf(instance, env, FALSE) : f = EnvFor(instance, env, x, FALSE) BY <1>9 DEF EnvsOf
  <2>2. x \in ChoicesOf(instance, env, TRUE) /\ f = EnvFor(instance, env, x, TRUE) BY <1>5, <1>7, <2>1
  <2>. QED BY <2>2 DEF EnvsOf
<1>. QED BY <1>8, <1>9

\* The cells that an instance hands on.
LEMMA CellSaid ==
    ASSUME NEW call, NEW instance, NEW env, NEW x, IsFormed(call, instance, CalleeOf(instance))
    PROVE  \A n \in Args(instance) :
                EnvFor(instance, env, x, TRUE)[Formal(CalleeOf(instance), n)].cell = PickedAt(instance, n, env, x, TRUE)
<1>1. ASSUME NEW n \in Args(instance)
      PROVE  EnvFor(instance, env, x, TRUE)[Formal(CalleeOf(instance), n)].cell = PickedAt(instance, n, env, x, TRUE)
  <2>1. EnvFor(instance, env, x, TRUE)[Formal(CalleeOf(instance), n)]
          = [cell |-> PickedAt(instance, n, env, x, TRUE), type |-> ValueIn(instance.argument_list[n], env).type]
    BY EnvAt, ZenonT(40)
  <2>2. PICK g, a, b : /\ g = EnvFor(instance, env, x, TRUE)[Formal(CalleeOf(instance), n)]
                       /\ a = PickedAt(instance, n, env, x, TRUE) /\ b = ValueIn(instance.argument_list[n], env).type
    OBVIOUS
  <2>3. g = [cell |-> a, type |-> b] BY ONLY <2>1, <2>2, Zenon
  <2>4. g.cell = a BY ONLY <2>3
  <2>. QED BY ONLY <2>2, <2>4, Zenon
<1>. QED BY <1>1

LEMMA NoneMet ==
    ASSUME NEW call, NEW instance, NEW env, IsFormed(call, instance, CalleeOf(instance)),
           HasCells(instance, env), ListsFit(instance, env), ~MeetsNone(instance, env)
    PROVE  /\ EnvsOf(instance, env, TRUE) = EnvsOf(instance, env, FALSE)
           /\ \A f \in EnvsOf(instance, env, TRUE) : ~HasNone(instance, f) /\ ~IsIgnored(instance.template_name, f)
<1>1. PICK E, template : E = ExpandedOf(instance) /\ template = CalleeOf(instance) OBVIOUS
<1>2. E \subseteq Args(instance) BY <1>1 DEF ExpandedOf, Args
<1>3. ASSUME NEW n \in E
      PROVE  /\ Null \notin ToSet(Items(CellAt(instance, n, env)))
             /\ Items(CellAt(instance, n, env)) = Elements(CellAt(instance, n, env))
  <2>1. PICK cell : cell = CellAt(instance, n, env) OBVIOUS
  <2>2. cell \in Cells /\ cell \notin Terms BY <1>1, <1>2, <2>1 DEF HasCells, ListsFit
  <2>3. Null \notin ToSet(Items(cell)) BY <1>1, <1>2, <2>1 DEF MeetsNone, Args
  <2>4. Null \in ToSet(<<Null>>) BY DEF ToSet
  <2>5. Items(cell) = cell /\ Elements(cell) = cell BY <2>2, <2>3, <2>4, ElementsOfList
  <2>. QED BY <2>1, <2>3, <2>5
<1>4. ChoicesOf(instance, env, TRUE) = ChoicesOf(instance, env, FALSE)
  <2>1. PICK ps : ps = UNION { PositionsAt(instance, n, env, TRUE) : n \in E } OBVIOUS
  <2>2. \A n \in E : PositionsAt(instance, n, env, TRUE) = PositionsAt(instance, n, env, FALSE)
    BY <1>3 DEF PositionsAt, ElementsBy
  <2>3. ps = UNION { PositionsAt(instance, n, env, FALSE) : n \in E } BY <2>1, <2>2
  <2>4. PICK e, s : /\ e = { y \in [E -> ps] : \A n \in E : y[n] \in PositionsAt(instance, n, env, TRUE) }
                    /\ s = { [n \in E |-> k] : k \in ps }
    OBVIOUS
  <2>5. e = { y \in [E -> ps] : \A n \in E : y[n] \in PositionsAt(instance, n, env, FALSE) } BY <2>2, <2>4
  <2>9. PICK c : c = IF E = {} \/ instance.list_expander = "cross" THEN e
                  ELSE IF instance.list_expander = "zipMin" THEN e \intersect s ELSE s
    OBVIOUS
  <2>8. s = { [n \in E |-> k] : k \in ps } BY <2>4
  <2>6. ChoicesOf(instance, env, TRUE) = c
    BY ONLY <1>1, <2>1, <2>4, <2>9 DEF ChoicesOf
  <2>7. ChoicesOf(instance, env, FALSE) = c
    BY ONLY <1>1, <2>3, <2>5, <2>8, <2>9 DEF ChoicesOf
  <2>. QED BY ONLY <2>6, <2>7
<1>5. ASSUME NEW x \in ChoicesOf(instance, env, TRUE)
      PROVE  /\ \A n \in E : x[n] \in DOMAIN Items(CellAt(instance, n, env))
             /\ EnvFor(instance, env, x, TRUE) = EnvFor(instance, env, x, FALSE)
  <2>1. IsChoice(instance, env, x) BY ZipsFit, ChoicesMade
  <2>2. \A n \in E : x[n] \in DOMAIN Items(CellAt(instance, n, env)) BY <1>1, <2>1 DEF IsChoice, ItemsAt
  <2>3. \A n \in ExpandedOf(instance) :
                Items(CellAt(instance, n, env)) = Elements(CellAt(instance, n, env))
                /\ x[n] \in DOMAIN Items(CellAt(instance, n, env))
    BY <1>1, <1>3, <2>2
  <2>4. EnvFor(instance, env, x, TRUE) = EnvFor(instance, env, x, FALSE) BY <2>3, SameEnvs
  <2>. QED BY <2>2, <2>4
<1>6. EnvsOf(instance, env, TRUE) = EnvsOf(instance, env, FALSE) BY <1>4, <1>5 DEF EnvsOf
<1>7. ASSUME NEW f \in EnvsOf(instance, env, TRUE)
      PROVE  ~HasNone(instance, f) /\ ~IsIgnored(instance.template_name, f)
  <2>1. PICK x \in ChoicesOf(instance, env, TRUE) : f = EnvFor(instance, env, x, TRUE) BY DEF EnvsOf
  <2>2. \A n \in Args(instance) : f[Formal(template, n)].cell = PickedAt(instance, n, env, x, TRUE)
    <3>1. \A n \in Args(instance) :
            EnvFor(instance, env, x, TRUE)[Formal(CalleeOf(instance), n)].cell = PickedAt(instance, n, env, x, TRUE)
      BY CellSaid
    <3>. QED BY <1>1, <2>1, <3>1
  <2>3. ASSUME NEW n \in E PROVE f[Formal(template, n)].cell # Null
    <3>1. x[n] \in DOMAIN ItemsAt(instance, n, env) BY <1>5 DEF ItemsAt
    <3>2. PickedAt(instance, n, env, x, TRUE) = ItemsAt(instance, n, env)[x[n]] BY <1>1, <3>1, ItemPicked
    <3>3. PickedAt(instance, n, env, x, TRUE) \in ToSet(ItemsAt(instance, n, env)) BY <3>1, <3>2 DEF ToSet
    <3>. QED BY <1>2, <1>3, <2>2, <3>3 DEF ItemsAt
  <2>4. ASSUME NEW n \in Args(instance), n \notin E, f[Formal(template, n)].cell = Null
        PROVE  template.parameters[n].optional
    <3>1. PickedAt(instance, n, env, x, TRUE) = CellAt(instance, n, env) BY <1>1, <2>4, ItemPicked
    <3>. QED BY <1>1, <2>2, <2>4, <3>1 DEF MeetsNone, Args, CalleeOf
  <2>5. ~HasNone(instance, f) BY <1>1, <2>3 DEF HasNone
  <2>6. DOMAIN template.parameters = Args(instance) BY <1>1 DEF IsFormed, IsInstance, Args
  <2>7. ~IsIgnored(instance.template_name, f)
    <3>1. template = input.templates[instance.template_name] BY <1>1 DEF CalleeOf
    <3>. QED BY <2>3, <2>4, <2>6, <3>1 DEF IsIgnored, Formal
  <2>. QED BY <2>5, <2>7
<1>. QED BY <1>6, <1>7

\* A triple with a none is none, whatever the none comes from.
LEMMA NoneInTriple ==
    ASSUME NEW call, NEW instance, NEW f, IsFormed(call, instance, CalleeOf(instance)),
           \A n \in DOMAIN CalleeOf(instance).parameters : ~CalleeOf(instance).parameters[n].optional,
           HasNone(instance, f)
    PROVE  IsIgnored(instance.template_name, f)
<1>1. PICK template : template = CalleeOf(instance) OBVIOUS
<1>2. DOMAIN template.parameters = Args(instance) BY <1>1 DEF IsFormed, IsInstance, Args
<1>3. PICK n \in ExpandedOf(instance) : f[Formal(template, n)].cell = Null BY <1>1 DEF HasNone
<1>4. n \in DOMAIN template.parameters BY <1>2, <1>3 DEF ExpandedOf, Args
<1>5. template = input.templates[instance.template_name] BY <1>1 DEF CalleeOf
<1>6. ~template.parameters[n].optional /\ f[template.parameters[n].variable].cell = Null
  BY <1>1, <1>3, <1>4 DEF Formal
<1>. QED BY <1>4, <1>5, <1>6 DEF IsIgnored

----------------------------------------------------------------------------
\* What the rows lead to, level by level.

\* What the rows lead to, by the definition and to the code, and their templates, level by level.
FirstLevel == << { <<FirstCall.name, e>> : e \in RowEnvs }, { <<FirstCall.name, e>> : e \in RowsMet }, {FirstCall.name} >>
NextLevel(t) ==
    << UNION { CalledBy(x, FALSE) : x \in { y \in t[1] : ~IsIgnored(y[1], y[2]) } },
       UNION { CalledBy(x, TRUE) : x \in t[2] },
       UNION { Callees(name) : name \in t[3] } >>
IsUpTo(g, n) ==
    /\ g[0] = FirstLevel
    /\ \A m \in Nat : m < n => g[m + 1] = NextLevel(g[m])

LEMMA LevelsAgree ==
    ASSUME NEW g, NEW h, NEW n \in Nat, IsUpTo(g, n), IsUpTo(h, n)
    PROVE  \A m \in Nat : m <= n => g[m] = h[m]
<1>5. PICK T, size : T = { m \in Nat : m <= n => g[m] = h[m] } /\ size = [m \in Nat |-> m] OBVIOUS
<1>1. ASSUME NEW m \in Nat, \A k \in Nat : size[k] < size[m] => k \in T PROVE m \in T
  <2>1. CASE m = 0 BY <1>5, <2>1 DEF IsUpTo
  <2>2. CASE m # 0 /\ m <= n
    <3>1. m - 1 \in Nat /\ m - 1 < m /\ m - 1 < n /\ m - 1 <= n /\ (m - 1) + 1 = m BY <2>2
    <3>2. m - 1 \in T BY <1>1, <1>5, <3>1
    <3>3. g[m - 1] = h[m - 1] BY <1>5, <3>1, <3>2
    <3>4. g[(m - 1) + 1] = NextLevel(g[m - 1]) /\ h[(m - 1) + 1] = NextLevel(h[m - 1]) BY <3>1 DEF IsUpTo
    <3>. QED BY <1>5, <3>1, <3>3, <3>4
  <2>. QED BY <1>5, <2>1, <2>2
<1>2. \A m \in Nat : size[m] \in Nat BY <1>5
<1>4. \A m \in Nat : (\A k \in Nat : size[k] < size[m] => k \in T) => m \in T BY <1>1
<1>3. PICK D : D = Nat OBVIOUS
<1>6. /\ \A m \in D : size[m] \in Nat
      /\ \A m \in D : (\A k \in D : size[k] < size[m] => k \in T) => m \in T
  BY ONLY <1>2, <1>3, <1>4, Zenon
<1>7. D \subseteq T BY ONLY <1>6, Induction
<1>. QED BY <1>3, <1>5, <1>7

LEMMA LevelsExist == \A n \in Nat : \E g : IsUpTo(g, n)
<1>. DEFINE T == { n \in Nat : \E g : IsUpTo(g, n) }
            size == [m \in Nat |-> m]
<1>1. ASSUME NEW n \in Nat, \A k \in Nat : size[k] < size[n] => k \in T PROVE n \in T
  <2>1. CASE n = 0
    <3>1. PICK g : g = [m \in Nat |-> FirstLevel] OBVIOUS
    <3>2. g[0] = FirstLevel BY <3>1
    <3>3. IsUpTo(g, 0) BY <3>2 DEF IsUpTo
    <3>. QED BY <2>1, <3>3
  <2>2. CASE n # 0
    <3>1. n - 1 \in Nat /\ n - 1 < n /\ (n - 1) + 1 = n BY <2>2
    <3>2. PICK g : IsUpTo(g, n - 1) BY <1>1, <3>1
    <3>3. PICK h : h = [m \in Nat |-> IF m = n THEN NextLevel(g[n - 1]) ELSE g[m]] OBVIOUS
    <3>4. h[0] = FirstLevel BY <2>2, <3>2, <3>3 DEF IsUpTo
    <3>5. ASSUME NEW m \in Nat, m < n PROVE h[m + 1] = NextLevel(h[m])
      <4>1. h[m] = g[m] BY <3>3, <3>5
      <4>2. CASE m = n - 1
        <5>1. h[n] = NextLevel(g[n - 1]) BY <3>3
        <5>2. m + 1 = n BY <3>1, <4>2
        <5>. QED BY <4>1, <4>2, <5>1, <5>2
      <4>3. CASE m # n - 1
        <5>1. m < n - 1 /\ m + 1 \in Nat /\ m + 1 # n BY <3>1, <3>5, <4>3
        <5>2. h[m + 1] = g[m + 1] BY <3>3, <5>1
        <5>3. g[m + 1] = NextLevel(g[m]) BY <3>2, <5>1 DEF IsUpTo
        <5>. QED BY <4>1, <5>2, <5>3
      <4>. QED BY <4>2, <4>3
    <3>6. IsUpTo(h, n) BY <3>4, <3>5 DEF IsUpTo
    <3>. QED BY <3>6
  <2>. QED BY <2>1, <2>2
<1>2. \A m \in Nat : size[m] \in Nat OBVIOUS
<1>. HIDE DEF T, size
<1>3. Nat \subseteq T BY <1>1, <1>2, Induction, ZenonT(40)
<1>. QED BY <1>3 DEF T

LEMMA AllLevels ==
    \E all : /\ all[0] = FirstLevel
             /\ \A n \in Nat : all[n + 1] = NextLevel(all[n])
<1>. DEFINE One(n) == CHOOSE g : IsUpTo(g, n)
<1>1. ASSUME NEW n \in Nat PROVE IsUpTo(One(n), n) BY LevelsExist
<1>. HIDE DEF One
<1>2. PICK all : all = [n \in Nat |-> One(n)[n]] OBVIOUS
<1>3. all[0] = FirstLevel BY <1>1, <1>2 DEF IsUpTo
<1>4. ASSUME NEW n \in Nat PROVE all[n + 1] = NextLevel(all[n])
  <2>1. IsUpTo(One(n + 1), n + 1) /\ IsUpTo(One(n), n) /\ n + 1 \in Nat BY <1>1
  <2>2. IsUpTo(One(n + 1), n) BY <2>1 DEF IsUpTo
  <2>3. One(n + 1)[n] = One(n)[n] BY <2>1, <2>2, LevelsAgree
  <2>4. One(n + 1)[n + 1] = NextLevel(One(n + 1)[n]) BY <2>1 DEF IsUpTo
  <2>. QED BY <1>2, <2>1, <2>3, <2>4
<1>. QED BY <1>3, <1>4

LEMMA LevelEquations ==
    /\ Denoted[0] = { <<FirstCall.name, e>> : e \in RowEnvs }
    /\ \A n \in Nat : Denoted[n + 1] = UNION { CalledBy(x, FALSE) : x \in { y \in Denoted[n] : ~IsIgnored(y[1], y[2]) } }
    /\ Met[0] = { <<FirstCall.name, e>> : e \in RowsMet }
    /\ \A n \in Nat : Met[n + 1] = UNION { CalledBy(x, TRUE) : x \in Met[n] }
    /\ Reached[0] = {FirstCall.name}
    /\ \A n \in Nat : Reached[n + 1] = UNION { Callees(name) : name \in Reached[n] }
<1>1. PICK all : all[0] = FirstLevel /\ \A n \in Nat : all[n + 1] = NextLevel(all[n]) BY AllLevels
<1>2. PICK d, m, r : /\ d = [n \in Nat |-> all[n][1]] /\ m = [n \in Nat |-> all[n][2]] /\ r = [n \in Nat |-> all[n][3]]
  OBVIOUS
<1>3. /\ d[0] = { <<FirstCall.name, e>> : e \in RowEnvs } /\ m[0] = { <<FirstCall.name, e>> : e \in RowsMet }
      /\ r[0] = {FirstCall.name}
  BY <1>1, <1>2 DEF FirstLevel
<1>4. ASSUME NEW n \in Nat
      PROVE  /\ d[n + 1] = UNION { CalledBy(x, FALSE) : x \in { y \in d[n] : ~IsIgnored(y[1], y[2]) } }
             /\ m[n + 1] = UNION { CalledBy(x, TRUE) : x \in m[n] }
             /\ r[n + 1] = UNION { Callees(name) : name \in r[n] }
  <2>1. PICK t : t = all[n] OBVIOUS
  <2>2. all[n + 1] = NextLevel(t) /\ d[n] = t[1] /\ m[n] = t[2] /\ r[n] = t[3] BY <1>1, <1>2, <2>1
  <2>3. /\ NextLevel(t)[1] = UNION { CalledBy(x, FALSE) : x \in { y \in t[1] : ~IsIgnored(y[1], y[2]) } }
        /\ NextLevel(t)[2] = UNION { CalledBy(x, TRUE) : x \in t[2] }
        /\ NextLevel(t)[3] = UNION { Callees(name) : name \in t[3] }
    BY DEF NextLevel
  <2>4. d[n + 1] = all[n + 1][1] /\ m[n + 1] = all[n + 1][2] /\ r[n + 1] = all[n + 1][3] BY <1>2
  <2>. QED BY <2>2, <2>3, <2>4
<1>5. Denoted = [n \in Nat |-> IF n = 0 THEN { <<FirstCall.name, e>> : e \in RowEnvs }
                ELSE UNION { CalledBy(x, FALSE) : x \in { y \in Denoted[n - 1] : ~IsIgnored(y[1], y[2]) } }]
  <2>. DEFINE Eq(f) == f = [n \in Nat |-> IF n = 0 THEN { <<FirstCall.name, e>> : e \in RowEnvs }
                ELSE UNION { CalledBy(x, FALSE) : x \in { y \in f[n - 1] : ~IsIgnored(y[1], y[2]) } }]
  <2>1. \A n \in Nat : d[n] = IF n = 0 THEN { <<FirstCall.name, e>> : e \in RowEnvs }
                ELSE UNION { CalledBy(x, FALSE) : x \in { y \in d[n - 1] : ~IsIgnored(y[1], y[2]) } }
    <3>1. ASSUME NEW n \in Nat, n # 0
          PROVE  d[n] = UNION { CalledBy(x, FALSE) : x \in { y \in d[n - 1] : ~IsIgnored(y[1], y[2]) } }
      <4>1. n - 1 \in Nat /\ (n - 1) + 1 = n BY <3>1
      <4>. QED BY <1>4, <4>1
    <3>. QED BY <1>3, <3>1
  <2>2. Eq(d) BY <1>2, <2>1
  <2>3. Denoted = CHOOSE f : Eq(f) BY DEF Denoted
  <2>. HIDE DEF Eq
  <2>4. Eq(Denoted) BY <2>2, <2>3
  <2>. QED BY <2>4 DEF Eq
<1>6. Met = [n \in Nat |-> IF n = 0 THEN { <<FirstCall.name, e>> : e \in RowsMet }
                           ELSE UNION { CalledBy(x, TRUE) : x \in Met[n - 1] }]
  <2>. DEFINE Eq(f) == f = [n \in Nat |-> IF n = 0 THEN { <<FirstCall.name, e>> : e \in RowsMet }
                                          ELSE UNION { CalledBy(x, TRUE) : x \in f[n - 1] }]
  <2>1. \A n \in Nat : m[n] = IF n = 0 THEN { <<FirstCall.name, e>> : e \in RowsMet }
                              ELSE UNION { CalledBy(x, TRUE) : x \in m[n - 1] }
    <3>1. ASSUME NEW n \in Nat, n # 0 PROVE m[n] = UNION { CalledBy(x, TRUE) : x \in m[n - 1] }
      <4>1. n - 1 \in Nat /\ (n - 1) + 1 = n BY <3>1
      <4>. QED BY <1>4, <4>1
    <3>. QED BY <1>3, <3>1
  <2>2. Eq(m) BY <1>2, <2>1
  <2>3. Met = CHOOSE f : Eq(f) BY DEF Met
  <2>. HIDE DEF Eq
  <2>4. Eq(Met) BY <2>2, <2>3
  <2>. QED BY <2>4 DEF Eq
<1>7. Reached = [n \in Nat |-> IF n = 0 THEN {FirstCall.name} ELSE UNION { Callees(name) : name \in Reached[n - 1] }]
  <2>. DEFINE Eq(f) == f = [n \in Nat |-> IF n = 0 THEN {FirstCall.name} ELSE UNION { Callees(name) : name \in f[n - 1] }]
  <2>1. \A n \in Nat : r[n] = IF n = 0 THEN {FirstCall.name} ELSE UNION { Callees(name) : name \in r[n - 1] }
    <3>1. ASSUME NEW n \in Nat, n # 0 PROVE r[n] = UNION { Callees(name) : name \in r[n - 1] }
      <4>1. n - 1 \in Nat /\ (n - 1) + 1 = n BY <3>1
      <4>. QED BY <1>4, <4>1
    <3>. QED BY <1>3, <3>1
  <2>2. Eq(r) BY <1>2, <2>1
  <2>3. Reached = CHOOSE f : Eq(f) BY DEF Reached
  <2>. HIDE DEF Eq
  <2>4. Eq(Reached) BY <2>2, <2>3
  <2>. QED BY <2>4 DEF Eq
<1>8. \A n \in Nat : n + 1 \in Nat /\ n + 1 # 0 /\ (n + 1) - 1 = n OBVIOUS
<1>9. Denoted[0] = { <<FirstCall.name, e>> : e \in RowEnvs } /\ Met[0] = { <<FirstCall.name, e>> : e \in RowsMet }
      /\ Reached[0] = {FirstCall.name}
  BY <1>5, <1>6, <1>7
<1>10. ASSUME NEW n \in Nat
       PROVE  Denoted[n + 1] = UNION { CalledBy(x, FALSE) : x \in { y \in Denoted[n] : ~IsIgnored(y[1], y[2]) } }
  BY <1>5, <1>8
<1>11. ASSUME NEW n \in Nat PROVE Met[n + 1] = UNION { CalledBy(x, TRUE) : x \in Met[n] } BY <1>6, <1>8
<1>12. ASSUME NEW n \in Nat PROVE Reached[n + 1] = UNION { Callees(name) : name \in Reached[n] } BY <1>7, <1>8
<1>. QED BY <1>9, <1>10, <1>11, <1>12

----------------------------------------------------------------------------
\* Without a cycle, the levels suffice.

\* Without a cycle, no template is reached through more levels than there are templates.
IsAcyclic ==
    /\ IsDataset(input.templates) /\ FirstCall.name \in DOMAIN input.templates
    /\ ~HasCycle

LEMMA LongerChain ==
    ASSUME NEW f, NEW length \in Nat, NEW name, NEW next, IsChain(f, length, name),
           next \in Callees(name), next \in DOMAIN input.templates
    PROVE  \E g : IsChain(g, length + 1, next)
<1>. DEFINE g == [k \in 0 .. length + 1 |-> IF k <= length THEN f[k] ELSE next]
<1>1. g \in [0 .. length + 1 -> DOMAIN input.templates] BY DEF IsChain
<1>2. g[0] = FirstCall.name /\ g[length + 1] = next BY DEF IsChain
<1>3. ASSUME NEW k \in 0 .. length PROVE g[k + 1] \in Callees(g[k])
  <2>1. CASE k < length
    <3>1. f[k + 1] \in Callees(f[k]) BY <2>1 DEF IsChain
    <3>2. g[k] = f[k] /\ g[k + 1] = f[k + 1] BY <2>1
    <3>. QED BY <3>1, <3>2
  <2>2. CASE k = length
    <3>1. g[k] = name /\ g[k + 1] = next BY <2>2 DEF IsChain
    <3>. QED BY <3>1
  <2>. QED BY <2>1, <2>2
<1>. HIDE DEF g
<1>4. IsChain(g, length + 1, next) BY <1>1, <1>2, <1>3 DEF IsChain
<1>. QED BY <1>4

LEMMA CalleesExist ==
    ASSUME NEW name \in DOMAIN input.templates, IsDataset(input.templates)
    PROVE  Callees(name) \subseteq DOMAIN input.templates
BY DEF IsDataset, Callees

LEMMA ChainsReach ==
    ASSUME IsAcyclic
    PROVE  \A n \in Nat : \A name \in Reached[n] : \E f : IsChain(f, n, name)
<1>1. PICK T, size : /\ T = { n \in Nat : \A name \in Reached[n] : \E f : IsChain(f, n, name) }
                     /\ size = [n \in Nat |-> n]
  OBVIOUS
<1>2. ASSUME NEW n \in Nat, \A k \in Nat : size[k] < size[n] => k \in T PROVE n \in T
  <2>1. CASE n = 0
    <3>1. Reached[0] = {FirstCall.name} BY LevelEquations
    <3>2. IsChain([k \in 0 .. 0 |-> FirstCall.name], 0, FirstCall.name)
      <4>1. PICK first : first = FirstCall.name OBVIOUS
      <4>2. first \in DOMAIN input.templates BY <4>1 DEF IsAcyclic
      <4>3. IsChain([k \in 0 .. 0 |-> first], 0, first) BY <4>1, <4>2 DEF IsChain
      <4>. QED BY <4>1, <4>3
    <3>. QED BY <1>1, <2>1, <3>1, <3>2
  <2>2. CASE n # 0
    <3>1. PICK k \in Nat : n = k + 1 /\ k < n
      <4>1. n - 1 \in Nat /\ n = (n - 1) + 1 /\ n - 1 < n BY <2>2
      <4>. QED BY <4>1
    <3>2. k \in T BY <1>1, <1>2, <3>1
    <3>3. ASSUME NEW name \in Reached[n] PROVE \E f : IsChain(f, n, name)
      <4>1. Reached[n] = UNION { Callees(m) : m \in Reached[k] } BY <3>1, LevelEquations
      <4>2. PICK m \in Reached[k] : name \in Callees(m) BY <4>1
      <4>3. PICK f : IsChain(f, k, m) BY <1>1, <3>2
      <4>4. m \in DOMAIN input.templates BY <3>1, <4>3 DEF IsChain
      <4>5. name \in DOMAIN input.templates BY <4>2, <4>4, CalleesExist DEF IsAcyclic
      <4>6. \E g : IsChain(g, k + 1, name) BY <4>2, <4>3, <4>5, LongerChain
      <4>. QED BY <3>1, <4>6
    <3>. QED BY <1>1, <3>3
  <2>. QED BY <2>1, <2>2
<1>3. PICK D : D = Nat OBVIOUS
<1>4. /\ \A m \in D : size[m] \in Nat
      /\ \A m \in D : (\A k \in D : size[k] < size[m] => k \in T) => m \in T
  <2>1. \A m \in Nat : size[m] \in Nat BY <1>1
  <2>2. \A m \in Nat : (\A k \in Nat : size[k] < size[m] => k \in T) => m \in T BY <1>2
  <2>. QED BY ONLY <2>1, <2>2, <1>3, Zenon
<1>5. D \subseteq T BY ONLY <1>4, Induction
<1>. QED BY <1>1, <1>3, <1>5

LEMMA ReachedAtLevels ==
    ASSUME IsAcyclic, NEW n \in Nat, Reached[n] # {}
    PROVE  n \in Levels /\ n + 1 \in Levels
<1>1. PICK card : card = Cardinality(DOMAIN input.templates) OBVIOUS
<1>2. IsFiniteSet(DOMAIN input.templates) BY DEF IsAcyclic, IsDataset
<1>3. card \in Nat BY <1>1, <1>2, FS_CardinalityType
<1>4. PICK name, f : IsChain(f, n, name) BY ChainsReach
<1>5. ~(card <= n) BY <1>1, <1>2, <1>4, LongChainsAreEndless DEF IsAcyclic
<1>. QED BY <1>1, <1>3, <1>5 DEF Levels

\* What has a name that its level reaches.
LEMMA NamesAreReached ==
    /\ \A n \in Nat : \A x \in Met[n] : x[1] \in Reached[n]
    /\ \A n \in Nat : \A x \in Denoted[n] : x[1] \in Reached[n]
<1>0. ASSUME NEW x, NEW y, NEW exploded, y \in CalledBy(x, exploded) PROVE y[1] \in Callees(x[1])
  <2>1. PICK i \in DOMAIN BodyOf(x[1]) :
          y \in { <<BodyOf(x[1])[i].template_name, e>> : e \in EnvsOf(BodyOf(x[1])[i], x[2], exploded) }
    BY <1>0 DEF CalledBy
  <2>2. y[1] = BodyOf(x[1])[i].template_name BY <2>1
  <2>. QED BY <2>2 DEF Callees, BodyOf
<1>1. PICK T, size : /\ T = { n \in Nat : /\ \A x \in Met[n] : x[1] \in Reached[n]
                                          /\ \A x \in Denoted[n] : x[1] \in Reached[n] }
                     /\ size = [n \in Nat |-> n]
  OBVIOUS
<1>2. ASSUME NEW n \in Nat, \A k \in Nat : size[k] < size[n] => k \in T PROVE n \in T
  <2>1. CASE n = 0
    <3>1. /\ Reached[0] = {FirstCall.name}
          /\ Met[0] = { <<FirstCall.name, e>> : e \in RowsMet }
          /\ Denoted[0] = { <<FirstCall.name, e>> : e \in RowEnvs }
      BY LevelEquations
    <3>2. (\A x \in Met[0] : x[1] = FirstCall.name) /\ (\A x \in Denoted[0] : x[1] = FirstCall.name) BY <3>1
    <3>. QED BY <1>1, <2>1, <3>1, <3>2
  <2>2. CASE n # 0
    <3>1. PICK k \in Nat : n = k + 1 /\ k < n
      <4>1. n - 1 \in Nat /\ n = (n - 1) + 1 /\ n - 1 < n BY <2>2
      <4>. QED BY <4>1
    <3>2. k \in T BY <1>1, <1>2, <3>1
    <3>3. /\ Reached[n] = UNION { Callees(m) : m \in Reached[k] }
          /\ Met[n] = UNION { CalledBy(x, TRUE) : x \in Met[k] }
          /\ Denoted[n] = UNION { CalledBy(x, FALSE) : x \in { y \in Denoted[k] : ~IsIgnored(y[1], y[2]) } }
      BY <3>1, LevelEquations
    <3>4. ASSUME NEW y \in Met[n] PROVE y[1] \in Reached[n]
      <4>1. PICK x \in Met[k] : y \in CalledBy(x, TRUE) BY <3>3
      <4>2. y[1] \in Callees(x[1]) BY <1>0, <4>1
      <4>3. x[1] \in Reached[k] BY <1>1, <3>2
      <4>. QED BY <3>3, <4>2, <4>3
    <3>5. ASSUME NEW y \in Denoted[n] PROVE y[1] \in Reached[n]
      <4>1. PICK x \in Denoted[k] : y \in CalledBy(x, FALSE) BY <3>3
      <4>2. y[1] \in Callees(x[1]) BY <1>0, <4>1
      <4>3. x[1] \in Reached[k] BY <1>1, <3>2
      <4>. QED BY <3>3, <4>2, <4>3
    <3>. QED BY <1>1, <3>4, <3>5
  <2>. QED BY <2>1, <2>2
<1>3. PICK D : D = Nat OBVIOUS
<1>4. /\ \A m \in D : size[m] \in Nat
      /\ \A m \in D : (\A k \in D : size[k] < size[m] => k \in T) => m \in T
  <2>1. \A m \in Nat : size[m] \in Nat BY <1>1
  <2>2. \A m \in Nat : (\A k \in Nat : size[k] < size[m] => k \in T) => m \in T BY <1>2
  <2>. QED BY ONLY <2>1, <2>2, <1>3, Zenon
<1>5. D \subseteq T BY ONLY <1>4, Induction
<1>. QED BY <1>1, <1>3, <1>5

EverDenoted == UNION { Denoted[n] : n \in Levels }

\* What is reached, met or denoted at some level leads to no more than that.
LEMMA LevelsSuffice ==
    ASSUME IsAcyclic
    PROVE  /\ FirstCall.name \in EverReached
           /\ \A name \in EverReached : Callees(name) \subseteq EverReached
           /\ \A e \in RowsMet : <<FirstCall.name, e>> \in EverMet
           /\ \A x \in EverMet : CalledBy(x, TRUE) \subseteq EverMet
           /\ \A x \in EverMet : x[1] \in EverReached
           /\ \A e \in RowEnvs : <<FirstCall.name, e>> \in EverDenoted
           /\ \A x \in EverDenoted : ~IsIgnored(x[1], x[2]) => CalledBy(x, FALSE) \subseteq EverDenoted
<1>1. Levels \subseteq Nat /\ 0 \in Levels
  <2>1. Reached[0] # {} BY LevelEquations
  <2>. QED BY <2>1, ReachedAtLevels DEF Levels
<1>2. FirstCall.name \in EverReached BY <1>1, LevelEquations DEF EverReached
<1>3. ASSUME NEW name \in EverReached PROVE Callees(name) \subseteq EverReached
  <2>1. PICK n \in Levels : name \in Reached[n] BY DEF EverReached
  <2>2. n + 1 \in Levels /\ n \in Nat BY <1>1, <2>1, ReachedAtLevels
  <2>3. Callees(name) \subseteq Reached[n + 1] BY <2>1, <2>2, LevelEquations
  <2>. QED BY <2>2, <2>3 DEF EverReached
<1>4. \A e \in RowsMet : <<FirstCall.name, e>> \in EverMet BY <1>1, LevelEquations DEF EverMet
<1>5. ASSUME NEW x \in EverMet PROVE CalledBy(x, TRUE) \subseteq EverMet /\ x[1] \in EverReached
  <2>1. PICK n \in Levels : x \in Met[n] BY DEF EverMet
  <2>2. n \in Nat BY <1>1
  <2>3. x[1] \in Reached[n] BY <2>1, <2>2, NamesAreReached
  <2>4. n + 1 \in Levels BY <2>2, <2>3, ReachedAtLevels
  <2>5. CalledBy(x, TRUE) \subseteq Met[n + 1]
    <3>1. Met[n + 1] = UNION { CalledBy(y, TRUE) : y \in Met[n] } BY <2>2, LevelEquations
    <3>. QED BY <2>1, <3>1
  <2>. QED BY <2>3, <2>4, <2>5 DEF EverMet, EverReached
<1>6. \A e \in RowEnvs : <<FirstCall.name, e>> \in EverDenoted BY <1>1, LevelEquations DEF EverDenoted
<1>7. ASSUME NEW x \in EverDenoted, ~IsIgnored(x[1], x[2]) PROVE CalledBy(x, FALSE) \subseteq EverDenoted
  <2>1. PICK n \in Levels : x \in Denoted[n] BY DEF EverDenoted
  <2>2. n \in Nat BY <1>1
  <2>3. x[1] \in Reached[n] BY <2>1, <2>2, NamesAreReached
  <2>4. n + 1 \in Levels BY <2>2, <2>3, ReachedAtLevels
  <2>5. CalledBy(x, FALSE) \subseteq Denoted[n + 1]
    <3>1. Denoted[n + 1] = UNION { CalledBy(y, FALSE) : y \in { z \in Denoted[n] : ~IsIgnored(z[1], z[2]) } }
      BY <2>2, LevelEquations
    <3>2. x \in { z \in Denoted[n] : ~IsIgnored(z[1], z[2]) } BY <1>7, <2>1
    <3>. QED BY <3>1, <3>2
  <2>. QED BY <2>4, <2>5 DEF EverDenoted
<1>. QED BY <1>2, <1>3, <1>4, <1>5, <1>6, <1>7

----------------------------------------------------------------------------
\* Constants that fit become columns; ottr:Triple with its columns.

\* A constant that fits a parameter becomes a column.
LEMMA FittingConstants ==
    ASSUME NEW value \in Cells, NEW ptype \in MaybeType, FitsParameter(value, ptype)
    PROVE  ~ConstantPanics(value) /\ ~ConstantFails(value, ptype)
<1>1. CASE value \in Terms \union {Null}
  <2>1. value # <<>> /\ ~IsList(value) BY <1>1, TermsAssumption DEF IsList
  <2>2. TypesIn(value) = {BasicOf(value)} BY <2>1 DEF TypesIn
  <2>3. ASSUME ptype # NoType PROVE BasicOf(value) = ptype
    <3>1. ptype.lists = <<>> /\ HasType(value, ptype.base) BY <1>1, <2>3 DEF FitsParameter
    <3>2. ptype \in [lists : Seq(Constructors), base : BasicTypes] BY <2>3 DEF MaybeType, PType
    <3>3. ptype = [lists |-> ptype.lists, base |-> ptype.base] BY <3>2
    <3>4. BasicOf(value) = [lists |-> <<>>, base |-> ptype.base] BY <3>1 DEF BasicOf, Basic, HasType
    <3>. QED BY <3>1, <3>3, <3>4
  <2>. QED BY <2>1, <2>2, <2>3 DEF ConstantPanics, ConstantFails
<1>2. CASE value \notin Terms \union {Null}
  <2>1. value # <<>> /\ ptype = NoType BY <1>2 DEF FitsParameter
  <2>2. PICK type \in BasicTypes : \A n \in DOMAIN value : HasType(value[n], type) BY <1>2 DEF FitsParameter
  <2>3. \A t \in ToSet(value) : BasicOf(t) = Basic(type) BY <2>2 DEF ToSet, BasicOf, HasType
  <2>. QED BY <2>1, <2>3 DEF ConstantPanics, ConstantFails
<1>. QED BY <1>1, <1>2

----------------------------------------------------------------------------
\* What a template with values leads to, among what the rows stand for.
IsClosed(Z) == \A x \in Z : ~IsIgnored(x[1], x[2]) => CalledBy(x, FALSE) \subseteq Z
LeadsTo(x, z) == \A Z \in SUBSET EverDenoted : x \in Z /\ IsClosed(Z) => z \in Z
Gives(x, t) ==
    \E z \in EverDenoted : /\ LeadsTo(x, z) /\ z[1] = OTTR_TRIPLE /\ ~IsIgnored(z[1], z[2])
                           /\ t = TripleFor(z[2])

LEMMA LeadsOn ==
    ASSUME IsAcyclic, NEW x \in EverDenoted, NEW z \in EverDenoted
    PROVE  LeadsTo(x, z) <=> z = x \/ (~IsIgnored(x[1], x[2]) /\ \E y \in CalledBy(x, FALSE) : LeadsTo(y, z))
<1>1. IsClosed(EverDenoted) BY LevelsSuffice DEF IsClosed
<1>2. ASSUME ~IsIgnored(x[1], x[2]), NEW y \in CalledBy(x, FALSE), LeadsTo(y, z) PROVE LeadsTo(x, z)
  BY <1>2 DEF LeadsTo, IsClosed
<1>3. LeadsTo(x, x) BY DEF LeadsTo
<1>4. ASSUME LeadsTo(x, z), z # x
      PROVE  ~IsIgnored(x[1], x[2]) /\ \E y \in CalledBy(x, FALSE) : LeadsTo(y, z)
  <2>1. CASE IsIgnored(x[1], x[2])
    <3>1. IsClosed({x}) BY <2>1 DEF IsClosed
    <3>. QED BY <1>4, <3>1 DEF LeadsTo
  <2>2. CASE ~IsIgnored(x[1], x[2])
    <3>1. PICK Y : Y = CalledBy(x, FALSE) OBVIOUS
    <3>2. Y \subseteq EverDenoted BY <1>1, <2>2, <3>1 DEF IsClosed
    <3>3. PICK W : W = { w \in EverDenoted : \E y \in Y : LeadsTo(y, w) } OBVIOUS
    <3>4. ASSUME NEW w \in W, ~IsIgnored(w[1], w[2]), NEW v \in CalledBy(w, FALSE) PROVE v \in W
      <4>1. v \in EverDenoted BY <1>1, <3>3, <3>4 DEF IsClosed
      <4>2. PICK y \in Y : LeadsTo(y, w) BY <3>3
      <4>3. LeadsTo(y, v) BY <3>4, <4>2 DEF LeadsTo, IsClosed
      <4>. QED BY <3>3, <4>1, <4>3
    <3>5. Y \subseteq W
      <4>1. \A y \in Y : LeadsTo(y, y) BY DEF LeadsTo
      <4>. QED BY <3>2, <3>3, <4>1
    <3>6. PICK Z : Z = W \union {x} OBVIOUS
    <3>7. IsClosed(Z) BY <3>1, <3>4, <3>5, <3>6 DEF IsClosed
    <3>8. Z \in SUBSET EverDenoted /\ x \in Z BY <3>3, <3>6
    <3>9. z \in Z BY <1>4, <3>7, <3>8 DEF LeadsTo
    <3>10. z \in W BY <1>4, <3>6, <3>9
    <3>. QED BY <2>2, <3>1, <3>3, <3>10
  <2>. QED BY <2>1, <2>2
<1>. QED BY <1>2, <1>3, <1>4

\* What is denoted is led to from a row.
LEMMA DenotedByRows ==
    ASSUME IsAcyclic
    PROVE  \A z \in EverDenoted : \E e \in RowEnvs : LeadsTo(<<FirstCall.name, e>>, z)
<1>1. PICK T, size :
          /\ T = { n \in Nat : \A z \in Denoted[n] : z \in EverDenoted =>
                                    \E e \in RowEnvs : LeadsTo(<<FirstCall.name, e>>, z) }
          /\ size = [n \in Nat |-> n]
  OBVIOUS
<1>2. ASSUME NEW n \in Nat, \A k \in Nat : size[k] < size[n] => k \in T PROVE n \in T
  <2>1. CASE n = 0
    <3>1. Denoted[0] = { <<FirstCall.name, e>> : e \in RowEnvs } BY LevelEquations
    <3>2. \A z : LeadsTo(z, z) BY DEF LeadsTo
    <3>. QED BY <1>1, <2>1, <3>1, <3>2
  <2>2. CASE n # 0
    <3>1. PICK k \in Nat : n = k + 1 /\ k < n
      <4>1. n - 1 \in Nat /\ n = (n - 1) + 1 /\ n - 1 < n BY <2>2
      <4>. QED BY <4>1
    <3>2. k \in T BY <1>1, <1>2, <3>1
    <3>3. ASSUME NEW z \in Denoted[n] PROVE \E e \in RowEnvs : LeadsTo(<<FirstCall.name, e>>, z)
      <4>1. Denoted[n] = UNION { CalledBy(x, FALSE) : x \in { y \in Denoted[k] : ~IsIgnored(y[1], y[2]) } }
        BY <3>1, LevelEquations
      <4>2. PICK x \in Denoted[k] : ~IsIgnored(x[1], x[2]) /\ z \in CalledBy(x, FALSE) BY <4>1
      <4>3. k \in Levels
        <5>1. x[1] \in Reached[k] BY <4>2, NamesAreReached
        <5>. QED BY <5>1, ReachedAtLevels
      <4>4. x \in EverDenoted BY <4>2, <4>3 DEF EverDenoted
      <4>5. PICK e \in RowEnvs : LeadsTo(<<FirstCall.name, e>>, x) BY <1>1, <3>2, <4>2, <4>4
      <4>6. LeadsTo(<<FirstCall.name, e>>, z) BY <4>2, <4>5 DEF LeadsTo, IsClosed
      <4>. QED BY <4>6
    <3>. QED BY <1>1, <3>3
  <2>. QED BY <2>1, <2>2
<1>3. PICK D : D = Nat OBVIOUS
<1>4. /\ \A m \in D : size[m] \in Nat
      /\ \A m \in D : (\A k \in D : size[k] < size[m] => k \in T) => m \in T
  <2>1. \A m \in Nat : size[m] \in Nat BY <1>1
  <2>2. \A m \in Nat : (\A k \in Nat : size[k] < size[m] => k \in T) => m \in T BY <1>2
  <2>. QED BY ONLY <2>1, <2>2, <1>3, Zenon
<1>5. D \subseteq T BY ONLY <1>4, Induction
<1>6. ASSUME NEW z \in EverDenoted PROVE \E e \in RowEnvs : LeadsTo(<<FirstCall.name, e>>, z)
  <2>1. PICK n \in Levels : z \in Denoted[n] BY DEF EverDenoted
  <2>2. n \in T BY <1>3, <1>5, <2>1 DEF Levels
  <2>. QED BY <1>1, <2>1, <2>2
<1>. QED BY <1>6

LEMMA TriplesGiven ==
    ASSUME IsAcyclic
    PROVE  \A t : t \in TriplesOfRows <=> \E e \in RowEnvs : Gives(<<FirstCall.name, e>>, t)
<1>1. TriplesOfRows = { TripleFor(x[2]) : x \in { y \in EverDenoted : y[1] = OTTR_TRIPLE /\ ~IsIgnored(y[1], y[2]) } }
  BY DEF TriplesOfRows, EverDenoted
<1>2. ASSUME NEW t \in TriplesOfRows PROVE \E e \in RowEnvs : Gives(<<FirstCall.name, e>>, t)
  <2>1. PICK z \in EverDenoted : z[1] = OTTR_TRIPLE /\ ~IsIgnored(z[1], z[2]) /\ t = TripleFor(z[2]) BY <1>1
  <2>2. PICK e \in RowEnvs : LeadsTo(<<FirstCall.name, e>>, z) BY DenotedByRows
  <2>. QED BY <2>1, <2>2 DEF Gives
<1>3. ASSUME NEW t, NEW e \in RowEnvs, Gives(<<FirstCall.name, e>>, t) PROVE t \in TriplesOfRows
  BY <1>1, <1>3 DEF Gives
<1>. QED BY <1>2, <1>3

\* What an instance of ottr:Triple gives, and what a template does.
LEMMA GivenByTriple ==
    ASSUME IsAcyclic, NEW x \in EverDenoted, x[1] = OTTR_TRIPLE, NEW t
    PROVE  Gives(x, t) <=> ~IsIgnored(x[1], x[2]) /\ t = TripleFor(x[2])
<1>1. CalledBy(x, FALSE) = {}
  <2>0. input.templates[OTTR_TRIPLE].pattern_list = <<>> BY DEF IsAcyclic, IsDataset
  <2>2. BodyOf(x[1]) = <<>> BY <2>0 DEF BodyOf
  <2>1. DOMAIN BodyOf(x[1]) = {} BY <2>2
  <2>. QED BY <2>1 DEF CalledBy
<1>2. \A z \in EverDenoted : LeadsTo(x, z) <=> z = x BY <1>1, LeadsOn
<1>. QED BY <1>2 DEF Gives

LEMMA GivenByCalled ==
    ASSUME IsAcyclic, NEW x \in EverDenoted, x[1] # OTTR_TRIPLE, ~IsIgnored(x[1], x[2]), NEW t
    PROVE  Gives(x, t) <=> \E y \in CalledBy(x, FALSE) : Gives(y, t)
<1>1. \A z \in EverDenoted : LeadsTo(x, z) <=> z = x \/ \E y \in CalledBy(x, FALSE) : LeadsTo(y, z)
  BY LeadsOn
<1>. QED BY <1>1 DEF Gives

\* The value that a row of an instance of ottr:Triple has for a parameter.
CellOf(i, c, row) == IF c \in DOMAIN i.dynamic_columns THEN row[c] ELSE i.static_columns[c].value
RowsOf(i) == IF DOMAIN i.dynamic_columns = {} THEN {<<>>} ELSE ToSet(i.rows)

LEMMA CellsOfEnv ==
    ASSUME NEW i, HasParametersOnce(i), NEW row
    PROVE  /\ \A c \in {Subject, Verb, Object} : EnvOf(i, row)[c].cell = CellOf(i, c, row)
           /\ EnvOf(i, row)[Object].type = IF Object \in DOMAIN i.dynamic_columns THEN i.dynamic_columns[Object]
                                           ELSE BaseOf(i.static_columns[Object].value)
<1>1. ASSUME NEW c \in {Subject, Verb, Object} PROVE EnvOf(i, row)[c].cell = CellOf(i, c, row)
  BY DEF HasParametersOnce, EnvOf, CellOf
<1>2. EnvOf(i, row)[Object].type = IF Object \in DOMAIN i.dynamic_columns THEN i.dynamic_columns[Object]
                                   ELSE BaseOf(i.static_columns[Object].value)
  BY DEF HasParametersOnce, EnvOf
<1>. QED BY <1>1, <1>2

LEMMA EnvsOfRows ==
    ASSUME NEW i PROVE FrameEnvs(i) = { EnvOf(i, row) : row \in RowsOf(i) }
BY DEF FrameEnvs, RowsOf

LEMMA IgnoredTriple ==
    ASSUME IsDataset(input.templates), NEW env
    PROVE  IsIgnored(OTTR_TRIPLE, env) <=> \E c \in {Subject, Verb, Object} : env[c].cell = Null
<1>1. /\ DOMAIN input.templates[OTTR_TRIPLE].parameters = 1 .. 3
      /\ Formal(input.templates[OTTR_TRIPLE], 1) = Subject
      /\ Formal(input.templates[OTTR_TRIPLE], 2) = Verb
      /\ Formal(input.templates[OTTR_TRIPLE], 3) = Object
  BY ParametersOfTriple
<1>2. \A n \in 1 .. 3 : ~input.templates[OTTR_TRIPLE].parameters[n].optional BY DEF IsDataset
<1>3. IsIgnored(OTTR_TRIPLE, env) <=> \E n \in 1 .. 3 : env[Formal(input.templates[OTTR_TRIPLE], n)].cell = Null
  BY <1>1, <1>2 DEF IsIgnored, Formal
<1>4. 1 .. 3 = {1, 2, 3} OBVIOUS
<1>. QED BY <1>1, <1>3, <1>4

\* What create_triples makes of the rows.
LEMMA CreatedRows ==
    ASSUME NEW i, HasParametersOnce(i), HasTypedRows(i), NEW columns,
           columns = {Subject, Object} \union (IF Verb \in DOMAIN i.static_columns THEN {} ELSE {Verb})
    PROVE  ToSet(TriplesOf(i).rows) = { [c \in columns |-> CellOf(i, c, row)] : row \in RowsOf(i) }
<1>1. PICK dynamic, static, in : dynamic = i.dynamic_columns /\ static = i.static_columns /\ in = i.rows OBVIOUS
<1>2. DOMAIN dynamic \union DOMAIN static = {Subject, Verb, Object} /\ DOMAIN dynamic \intersect DOMAIN static = {}
  BY <1>1 DEF HasParametersOnce
<1>3. PICK constants : constants = [c \in Added(i) |-> static[c].value] OBVIOUS
<1>4. DOMAIN constants = DOMAIN static \ {Verb} BY <1>1, <1>3 DEF Added
<1>5. PICK rows : rows = WithColumns(in, DOMAIN dynamic, constants) OBVIOUS
<1>6. TriplesOf(i).rows = [m \in DOMAIN rows |-> [c \in columns |-> rows[m][c]]]
  BY <1>1, <1>3, <1>5 DEF TriplesOf
<1>7. columns \subseteq DOMAIN constants \union DOMAIN dynamic BY <1>1, <1>2, <1>4 DEF Subject, Verb, Object
<1>8. ToSet(TriplesOf(i).rows) = { [c \in columns |-> row[c]] : row \in ToSet(rows) }
  BY <1>6, SMTT(20) DEF ToSet
<1>9. CASE DOMAIN dynamic = {}
  <2>1. Subject \in DOMAIN constants BY <1>2, <1>4, <1>9 DEF Subject, Verb
  <2>2. rows = <<constants>> BY <1>5, <1>9, <2>1 DEF WithColumns
  <2>3. ToSet(rows) = {constants} BY <2>2 DEF ToSet
  <2>4. RowsOf(i) = {<<>>} BY <1>1, <1>9 DEF RowsOf
  <2>5. \A c \in columns : constants[c] = CellOf(i, c, <<>>) BY <1>1, <1>3, <1>4, <1>7, <1>9 DEF CellOf
  <2>. QED BY <1>8, <2>3, <2>4, <2>5
<1>10. CASE DOMAIN dynamic # {}
  <2>1. rows = [m \in DOMAIN in |-> Over(constants, in[m])] BY <1>5, <1>10 DEF WithColumns
  <2>2. RowsOf(i) = ToSet(in) BY <1>1, <1>10 DEF RowsOf
  <2>3. \A m \in DOMAIN in : in[m] \in [DOMAIN dynamic -> Cells] BY <1>1 DEF HasTypedRows
  <2>4. ASSUME NEW m \in DOMAIN in
        PROVE  [c \in columns |-> rows[m][c]] = [c \in columns |-> CellOf(i, c, in[m])]
    <3>1. DOMAIN in[m] = DOMAIN dynamic BY <2>3
    <3>2. ASSUME NEW c \in columns PROVE rows[m][c] = CellOf(i, c, in[m])
      <4>1. rows[m][c] = IF c \in DOMAIN constants THEN constants[c] ELSE in[m][c]
        BY <1>7, <2>1, <3>1 DEF Over
      <4>. QED BY <1>1, <1>2, <1>3, <1>4, <1>7, <4>1 DEF CellOf
    <3>. QED BY <3>2
  <2>5. DOMAIN rows = DOMAIN in BY <2>1
  <2>6. ToSet(TriplesOf(i).rows) = { [c \in columns |-> rows[m][c]] : m \in DOMAIN in } BY <1>6, <2>5 DEF ToSet
  <2>. DEFINE at(row) == [c \in columns |-> CellOf(i, c, row)]
  <2>7. ToSet(in) = { in[m] : m \in DOMAIN in } BY DEF ToSet
  <2>8. \A m \in DOMAIN in : [c \in columns |-> rows[m][c]] = at(in[m]) BY <2>4
  <2>. HIDE DEF at
  <2>9. ToSet(TriplesOf(i).rows) = { at(in[m]) : m \in DOMAIN in } BY ONLY <2>6, <2>8, ZenonT(40)
  <2>10. ToSet(TriplesOf(i).rows) = { at(row) : row \in RowsOf(i) } BY ONLY <2>2, <2>7, <2>9, Zenon
  <2>. QED BY <2>10 DEF at
<1>. QED BY <1>9, <1>10

LEMMA CreatedTriples ==
    ASSUME IsDataset(input.templates), NEW i, HasParametersOnce(i), HasTypedRows(i), ~CreateFails(i), NEW t
    PROVE  t \in TriplesIn(TriplesOf(i)) <=> \E env \in FrameEnvs(i) : ~IsIgnored(OTTR_TRIPLE, env) /\ t = TripleFor(env)
<1>1. PICK columns : columns = {Subject, Object} \union (IF Verb \in DOMAIN i.static_columns THEN {} ELSE {Verb})
  OBVIOUS
<1>2. PICK rows, verb, type :
         rows = ToSet(TriplesOf(i).rows) /\ verb = TriplesOf(i).static_verb /\ type = TriplesOf(i).object_type
  OBVIOUS
<1>3. rows = { [c \in columns |-> CellOf(i, c, row)] : row \in RowsOf(i) } BY <1>1, <1>2, CreatedRows
<1>4. DOMAIN i.dynamic_columns \union DOMAIN i.static_columns = {Subject, Verb, Object}
      /\ DOMAIN i.dynamic_columns \intersect DOMAIN i.static_columns = {}
  BY DEF HasParametersOnce
<1>5. verb = IF Verb \in DOMAIN i.static_columns THEN i.static_columns[Verb].value ELSE Null
  BY <1>2 DEF TriplesOf
<1>6. Verb \in DOMAIN i.static_columns => i.static_columns[Verb].value # Null
  <2>1. SUFFICES ASSUME Verb \in DOMAIN i.static_columns, i.static_columns[Verb].value = Null PROVE FALSE
    OBVIOUS
  <2>2. IsPredicate(Null) BY <2>1 DEF CreateFails
  <2>. QED BY <2>2 DEF IsPredicate, BasicOf, Basic, NoneType, IRIType
<1>7. type = IF Object \in DOMAIN i.dynamic_columns THEN i.dynamic_columns[Object]
             ELSE BaseOf(i.static_columns[Object].value)
  BY <1>2, <1>4 DEF TriplesOf, Added, Verb, Object
<1>8. TriplesIn(TriplesOf(i))
        = { [s |-> row[Subject], v |-> IF verb = Null THEN row[Verb] ELSE verb, o |-> row[Object], type |-> type] :
                row \in { r \in rows : IsWhole(r) } }
  BY <1>2 DEF TriplesIn
<1>9. ASSUME NEW row \in RowsOf(i), NEW env, env = EnvOf(i, row), NEW x, x = [c \in columns |-> CellOf(i, c, row)]
      PROVE  /\ IsWhole(x) <=> ~IsIgnored(OTTR_TRIPLE, env)
             /\ [s |-> x[Subject], v |-> IF verb = Null THEN x[Verb] ELSE verb, o |-> x[Object], type |-> type]
                    = TripleFor(env)
  <2>1. \A c \in {Subject, Verb, Object} : env[c].cell = CellOf(i, c, row) BY <1>9, CellsOfEnv
  <2>2. env[Object].type = type BY <1>7, <1>9, CellsOfEnv
  <2>3. (IF verb = Null THEN x[Verb] ELSE verb) = CellOf(i, Verb, row)
    <3>1. CASE Verb \in DOMAIN i.static_columns BY <1>4, <1>5, <1>6, <3>1 DEF CellOf
    <3>2. CASE Verb \notin DOMAIN i.static_columns BY <1>1, <1>5, <1>9, <3>2
    <3>. QED BY <3>1, <3>2
  <2>4. x[Subject] = CellOf(i, Subject, row) /\ x[Object] = CellOf(i, Object, row) BY <1>1, <1>9
  <2>5. IsWhole(x) <=> \A c \in columns : CellOf(i, c, row) # Null BY <1>9 DEF IsWhole
  <2>6. Verb \in DOMAIN i.static_columns => CellOf(i, Verb, row) # Null BY <1>4, <1>6 DEF CellOf
  <2>7. (\A c \in columns : CellOf(i, c, row) # Null) <=> \A c \in {Subject, Verb, Object} : CellOf(i, c, row) # Null
    BY <1>1, <2>6
  <2>8. IsIgnored(OTTR_TRIPLE, env) <=> \E c \in {Subject, Verb, Object} : CellOf(i, c, row) = Null
    BY <2>1, IgnoredTriple
  <2>9. TripleFor(env) = [s |-> CellOf(i, Subject, row), v |-> CellOf(i, Verb, row), o |-> CellOf(i, Object, row), type |-> type]
    BY <2>1, <2>2 DEF TripleFor
  <2>10. (IsWhole(x) <=> ~IsIgnored(OTTR_TRIPLE, env)) BY <2>5, <2>7, <2>8
  <2>. QED BY <2>3, <2>4, <2>9, <2>10
<1>10. FrameEnvs(i) = { EnvOf(i, row) : row \in RowsOf(i) } BY EnvsOfRows
<1>11. ASSUME t \in TriplesIn(TriplesOf(i))
       PROVE  \E env \in FrameEnvs(i) : ~IsIgnored(OTTR_TRIPLE, env) /\ t = TripleFor(env)
  <2>1. PICK x \in rows : IsWhole(x) /\
            t = [s |-> x[Subject], v |-> IF verb = Null THEN x[Verb] ELSE verb, o |-> x[Object], type |-> type]
    BY <1>8, <1>11
  <2>2. PICK row \in RowsOf(i) : x = [c \in columns |-> CellOf(i, c, row)] BY <1>3
  <2>3. PICK env : env = EnvOf(i, row) OBVIOUS
  <2>. QED BY <1>9, <1>10, <2>1, <2>2, <2>3
<1>12. ASSUME NEW env \in FrameEnvs(i), ~IsIgnored(OTTR_TRIPLE, env), t = TripleFor(env)
       PROVE  t \in TriplesIn(TriplesOf(i))
  <2>1. PICK row \in RowsOf(i) : env = EnvOf(i, row) BY <1>10
  <2>2. PICK x : x = [c \in columns |-> CellOf(i, c, row)] OBVIOUS
  <2>3. x \in rows BY <1>3, <2>2
  <2>. QED BY <1>8, <1>9, <1>12, <2>1, <2>2, <2>3
<1>. QED BY <1>11, <1>12

----------------------------------------------------------------------------
\* Calls that fit: all that a safe expansion meets.

\* Calls that meet what the definition meets, with every parameter given once.
HasValues(name, env) == \A c \in Formals(input.templates[name]) : env[c].cell \in Cells
IsMet(name, env) == <<name, env>> \in EverMet /\ HasValues(name, env)
HasAllColumns(c) ==
    /\ DOMAIN c.dynamic_columns \union DOMAIN c.static_columns = Formals(input.templates[c.name])
    /\ DOMAIN c.dynamic_columns \intersect DOMAIN c.static_columns = {}
UsesNoConstant(c) ==
    \A i \in DOMAIN BodyOf(c.name) : NamesOf(BodyOf(c.name)[i]) \intersect DOMAIN c.static_columns = {}
CanBeCreated(x) == ~CreateFails(x) /\ ~CreatePanics(x)
MeetsSome(c) == \E env : IsMet(c.name, env) /\ IsOfCall(env, c)
MeetsAll(c)  == \A env \in FrameEnvs(c) : IsMet(c.name, env)
CallFits(c) ==
    /\ c.name \in EverReached /\ c.name \in DOMAIN input.templates
    /\ HasAllColumns(c) /\ UsesNoConstant(c)
    /\ MeetsAll(c) /\ MeetsSome(c)
    /\ c.name = OTTR_TRIPLE => CanBeCreated(c)

LEMMA InstanceOfDataset ==
    ASSUME IsDataset(input.templates), NEW name \in DOMAIN input.templates, NEW i \in DOMAIN BodyOf(name)
    PROVE  /\ BodyOf(name)[i].template_name \in DOMAIN input.templates
           /\ IsInstance(BodyOf(name)[i], CalleeOf(BodyOf(name)[i]))
           /\ \A n \in DOMAIN CalleeOf(BodyOf(name)[i]).parameters :
                 CalleeOf(BodyOf(name)[i]).parameters[n].ptype \in MaybeType
           /\ \A n \in Args(BodyOf(name)[i]) :
                 BodyOf(name)[i].argument_list[n].term.is \in {"Variable", "Constant", "List"}
<1>1. PICK instance : instance = BodyOf(name)[i] OBVIOUS
<1>2. /\ instance.template_name \in DOMAIN input.templates
      /\ DOMAIN instance.argument_list = DOMAIN input.templates[instance.template_name].parameters
      /\ \A n \in DOMAIN instance.argument_list :
            /\ instance.argument_list[n].term.is \in {"Variable", "Constant", "List"}
            /\ instance.argument_list[n].term.is = "Constant" => instance.argument_list[n].term.value \in Cells
  BY <1>1 DEF IsDataset, BodyOf
<1>3. /\ CalleeOf(instance).parameters \in Seq(Range(CalleeOf(instance).parameters))
      /\ \A n \in DOMAIN CalleeOf(instance).parameters : CalleeOf(instance).parameters[n].ptype \in MaybeType
  BY <1>2 DEF IsDataset, CalleeOf
<1>4. IsInstance(instance, CalleeOf(instance)) BY <1>2, <1>3 DEF IsInstance, CalleeOf, IsConstant, ValueOf
<1>. QED BY <1>1, <1>2, <1>3, <1>4 DEF Args

\* What can be formed is formed from a call that has every parameter as a column
\* or as a constant.
LEMMA FormedFromCall ==
    ASSUME IsDataset(input.templates), NEW call, call.name \in DOMAIN input.templates,
           HasAllColumns(call), UsesNoConstant(call),
           NEW i \in DOMAIN BodyOf(call.name), CanBeFormed(call.name, BodyOf(call.name)[i])
    PROVE  IsFormed(call, BodyOf(call.name)[i], CalleeOf(BodyOf(call.name)[i]))
<1>1. PICK instance : instance = BodyOf(call.name)[i] OBVIOUS
<1>2. NamesOf(instance) \subseteq DOMAIN call.dynamic_columns
  BY <1>1 DEF CanBeFormed, HasAllColumns, UsesNoConstant
<1>3. /\ HasDistinctNames(CalleeOf(instance))
      /\ \A n \in Args(instance) : instance.argument_list[n].term.is # "List"
  BY <1>1 DEF CanBeFormed, IsPlain, CalleeOf, Args
<1>4. IsInstance(instance, CalleeOf(instance))
      /\ \A n \in Args(instance) : instance.argument_list[n].term.is \in {"Variable", "Constant", "List"}
  BY <1>1, InstanceOfDataset
<1>5. IsFormed(call, instance, CalleeOf(instance)) BY <1>2, <1>3, <1>4 DEF IsFormed
<1>. QED BY <1>1, <1>5

\* Its variables and constants have cells, and so has what it says.
LEMMA CellsGiven ==
    ASSUME IsDataset(input.templates), NEW call, call.name \in DOMAIN input.templates,
           NEW instance, IsFormed(call, instance, CalleeOf(instance)),
           NamesOf(instance) \subseteq Formals(input.templates[call.name]),
           NEW env, HasValues(call.name, env)
    PROVE  HasCells(instance, env)
<1>1. ASSUME NEW n \in VariablesOf(instance) PROVE CellAt(instance, n, env) \in Cells
  <2>1. NameOf(instance.argument_list[n]) \in Formals(input.templates[call.name]) BY DEF NamesOf
  <2>2. CellAt(instance, n, env) = env[NameOf(instance.argument_list[n])].cell BY CellsOfFormed
  <2>. QED BY <2>1, <2>2 DEF HasValues
<1>2. ASSUME NEW n \in ConstantArgs(instance) PROVE CellAt(instance, n, env) \in Cells
  <2>1. CellAt(instance, n, env) = ValueOf(instance.argument_list[n]) BY CellsOfFormed
  <2>2. ValueOf(instance.argument_list[n]) \in Cells
    BY DEF IsFormed, IsInstance, ConstantArgs
  <2>. QED BY <2>1, <2>2
<1>3. VariablesOf(instance) \union ConstantArgs(instance) = Args(instance) BY ArgumentsOfFormed
<1>. QED BY <1>1, <1>2, <1>3 DEF HasCells

LEMMA CellsHandedOn ==
    ASSUME NEW call, NEW instance, IsFormed(call, instance, CalleeOf(instance)),
           NEW env, HasCells(instance, env), NEW f, f \in EnvsOf(instance, env, TRUE)
    PROVE  HasValues(instance.template_name, f)
<1>1. PICK template : template = CalleeOf(instance) OBVIOUS
<1>2. PICK x : f = EnvFor(instance, env, x, TRUE) BY DEF EnvsOf
<1>3. ASSUME NEW n \in Args(instance) PROVE f[Formal(template, n)].cell \in Cells
  <2>1. f[Formal(template, n)].cell = PickedAt(instance, n, env, x, TRUE) BY <1>1, <1>2, CellSaid
  <2>2. CellAt(instance, n, env) \in Cells BY DEF HasCells
  <2>3. ItemsAt(instance, n, env) \in Seq(Cells) BY <2>2, ItemsExist DEF ItemsAt
  <2>4. Null \in Cells BY CellsAssumption
  <2>5. PickedAt(instance, n, env, x, TRUE)
            = IF n \in ExpandedOf(instance) /\ x[n] \in DOMAIN ItemsAt(instance, n, env)
              THEN ItemsAt(instance, n, env)[x[n]]
              ELSE IF n \in ExpandedOf(instance) THEN Null ELSE CellAt(instance, n, env)
    BY ONLY ItemPicked
  <2>6. x[n] \in DOMAIN ItemsAt(instance, n, env) => ItemsAt(instance, n, env)[x[n]] \in Cells BY <2>3
  <2>. QED BY ONLY <2>1, <2>2, <2>4, <2>5, <2>6
<1>4. Formals(template) = FormalsAt(template, Args(instance)) BY <1>1, GivenOfFormed
<1>5. \A c \in Formals(template) : f[c].cell \in Cells BY <1>3, <1>4 DEF FormalsAt
<1>. QED BY <1>1, <1>5 DEF HasValues, CalleeOf

\* What an instance says is met if what it is said of is.
LEMMA MetByInstance ==
    ASSUME IsAcyclic, NEW name, NEW env, <<name, env>> \in EverMet, NEW i \in DOMAIN BodyOf(name),
           NEW f, f \in EnvsOf(BodyOf(name)[i], env, TRUE)
    PROVE  <<BodyOf(name)[i].template_name, f>> \in EverMet
<1>1. PICK x : x = <<name, env>> OBVIOUS
<1>2. x[1] = name /\ x[2] = env BY <1>1
<1>3. CalledBy(x, TRUE) \subseteq EverMet BY <1>1, LevelsSuffice
<1>. DEFINE said(j) == { <<BodyOf(x[1])[j].template_name, e>> : e \in EnvsOf(BodyOf(x[1])[j], x[2], TRUE) }
<1>5. CalledBy(x, TRUE) = UNION { said(j) : j \in DOMAIN BodyOf(x[1]) } BY DEF CalledBy
<1>6. <<BodyOf(x[1])[i].template_name, f>> \in said(i) BY <1>2
<1>. HIDE DEF said
<1>4. <<BodyOf(x[1])[i].template_name, f>> \in CalledBy(x, TRUE) BY <1>2, <1>5, <1>6
<1>. QED BY <1>2, <1>3, <1>4

\* The instances of a call that fits can be formed from it, with whatever it meets.
LEMMA FormedSafely ==
    ASSUME IsAcyclic, IsSafe, NEW call, CallFits(call), NEW i \in DOMAIN BodyOf(call.name)
    PROVE  /\ CanBeFormed(call.name, BodyOf(call.name)[i])
           /\ IsFormed(call, BodyOf(call.name)[i], CalleeOf(BodyOf(call.name)[i]))
<1>1. CanBeFormed(call.name, BodyOf(call.name)[i]) BY DEF IsSafe, CallFits
<1>2. IsDataset(input.templates) BY DEF IsAcyclic
<1>. QED BY <1>1, <1>2, FormedFromCall DEF CallFits

LEMMA TakenSafely ==
    ASSUME IsAcyclic, IsSafe, NEW call, CallFits(call), NEW i \in DOMAIN BodyOf(call.name),
           NEW env, IsMet(call.name, env), IsOfCall(env, call)
    PROVE  /\ HasCells(BodyOf(call.name)[i], env) /\ ListsFit(BodyOf(call.name)[i], env)
           /\ CanTake(call, BodyOf(call.name)[i], env)
<1>1. PICK instance : instance = BodyOf(call.name)[i] OBVIOUS
<1>2. IsFormed(call, instance, CalleeOf(instance)) /\ NamesOf(instance) \subseteq Formals(input.templates[call.name])
  BY <1>1, FormedSafely DEF CanBeFormed
<1>3. HasCells(instance, env)
  <2>1. IsDataset(input.templates) /\ call.name \in DOMAIN input.templates /\ HasValues(call.name, env)
    BY DEF IsAcyclic, CallFits, IsMet
  <2>. QED BY ONLY <1>2, <2>1, CellsGiven
<1>4. ListsFit(instance, env)
  <2>1. PICK x : x = <<call.name, env>> OBVIOUS
  <2>2. x \in EverMet /\ x[1] = call.name /\ x[2] = env BY <2>1 DEF IsMet
  <2>3. \A j \in DOMAIN BodyOf(x[1]) : ListsFit(BodyOf(x[1])[j], x[2]) BY <2>2 DEF IsSafe
  <2>. QED BY <1>1, <2>2, <2>3
<1>5. ZipsAgree(instance, env) BY <1>3, <1>4, ZipsFit
<1>. QED BY <1>1, <1>3, <1>4, <1>5 DEF CanTake

\* What an instance says of what is met is met.
LEMMA SaidIsMet ==
    ASSUME IsAcyclic, IsSafe, NEW call, CallFits(call), NEW i \in DOMAIN BodyOf(call.name),
           NEW env, IsMet(call.name, env), IsOfCall(env, call), NEW f, f \in EnvsOf(BodyOf(call.name)[i], env, TRUE)
    PROVE  IsMet(BodyOf(call.name)[i].template_name, f)
<1>1. PICK instance : instance = BodyOf(call.name)[i] OBVIOUS
<1>2. IsFormed(call, instance, CalleeOf(instance)) BY <1>1, FormedSafely
<1>3. HasCells(instance, env) BY <1>1, TakenSafely
<1>4. f \in EnvsOf(instance, env, TRUE) BY <1>1
<1>5. HasValues(instance.template_name, f) BY ONLY <1>2, <1>3, <1>4, CellsHandedOn
<1>6. <<call.name, env>> \in EverMet BY DEF IsMet
<1>7. <<BodyOf(call.name)[i].template_name, f>> \in EverMet BY <1>6, MetByInstance
<1>. QED BY <1>1, <1>5, <1>7 DEF IsMet

\* The values of the rows of a call, or, if none is looked at, any that it meets.
GivenBy(call, instance, es) ==
    /\ IsGiven(es, call, instance)
    /\ \A env \in es : IsMet(call.name, env) /\ IsOfCall(env, call)
LEMMA SomeAreGiven ==
    ASSUME NEW call, CallFits(call), NEW instance
    PROVE  \E es : GivenBy(call, instance, es)
<1>1. CASE VariablesOf(instance) = {}
  <2>1. PICK env : IsMet(call.name, env) /\ IsOfCall(env, call) BY DEF CallFits, MeetsSome
  <2>2. GivenBy(call, instance, {env}) BY <1>1, <2>1 DEF GivenBy, IsGiven
  <2>. QED BY <2>2
<1>2. CASE VariablesOf(instance) # {}
  <2>1. \A env \in FrameEnvs(call) : IsMet(call.name, env) /\ IsOfCall(env, call)
    BY EnvsAreOfCall DEF CallFits, MeetsAll
  <2>2. GivenBy(call, instance, FrameEnvs(call)) BY <1>2, <2>1 DEF GivenBy, IsGiven
  <2>. QED BY <2>2
<1>. QED BY <1>1, <1>2

LEMMA BranchIsSafe ==
    ASSUME IsAcyclic, IsSafe, NEW call, HasTypedRows(call), CallFits(call), NEW i \in DOMAIN BodyOf(call.name)
    PROVE  /\ ~RemapFails(call, BodyOf(call.name)[i], CalleeOf(BodyOf(call.name)[i]))
           /\ ~RemapPanics(call, BodyOf(call.name)[i], CalleeOf(BodyOf(call.name)[i]))
<1>1. PICK instance, template : instance = BodyOf(call.name)[i] /\ template = CalleeOf(instance) OBVIOUS
<1>2. IsFormed(call, instance, template) /\ CanBeFormed(call.name, instance) BY <1>1, FormedSafely
<1>3. IsDataset(input.templates) /\ call.name \in DOMAIN input.templates BY DEF IsAcyclic, CallFits
<1>4. \A n \in DOMAIN template.parameters : template.parameters[n].ptype \in MaybeType
  BY <1>1, <1>3, InstanceOfDataset
<1>5. \A n \in Args(instance) : IsConstant(instance.argument_list[n]) => ValueOf(instance.argument_list[n]) \in Cells
  BY <1>2 DEF IsFormed, IsInstance, Args
<1>6. ASSUME NEW n \in Unrolled(instance)
      PROVE  /\ ~ConstantPanics(ValueOf(instance.argument_list[n]))
             /\ ~ConstantFails(ValueOf(instance.argument_list[n]), template.parameters[n].ptype)
  <2>1. n \in Args(instance) /\ IsConstant(instance.argument_list[n]) /\ instance.argument_list[n].list_expand
    BY DEF Unrolled, ConstantArgs, Args
  <2>2. FitsParameter(ValueOf(instance.argument_list[n]), template.parameters[n].ptype)
    BY <1>1, <1>2, <2>1 DEF CanBeFormed, IsPlain, ConstantsFit, CalleeOf, Args
  <2>3. template.parameters[n].ptype \in MaybeType BY <1>2, <1>4, <2>1 DEF IsFormed, IsInstance, Args
  <2>. QED BY <1>5, <2>1, <2>2, <2>3, FittingConstants
<1>7. Unknown(call, instance) = {} /\ Dynamic(call, instance) = VariablesOf(instance)
      /\ Unrolled(instance) \subseteq ConstantArgs(instance)
  BY <1>2, ArgumentsOfFormed
<1>8. ~RemapFails(call, instance, template) BY <1>6, <1>7 DEF RemapFails, RefusesArgument
<1>9. \A n, k \in Args(instance) : Formal(template, n) = Formal(template, k) => n = k BY <1>2, GivenOfFormed
<1>10. Dynamic(call, instance) \union Unrolled(instance) \subseteq Args(instance)
  BY <1>7 DEF VariablesOf, ConstantArgs, Args
<1>11. IsZip(instance.list_expander) => ~ExplodeFails(RowsFor(call, instance, template), ToExpand(call, instance, template))
  <2>1. PICK es : GivenBy(call, instance, es) BY SomeAreGiven
  <2>2. \A env \in es : CanTake(call, instance, env) BY <1>1, <2>1, TakenSafely DEF GivenBy
  <2>3. IsGiven(es, call, instance) BY <2>1 DEF GivenBy
  <2>4. IsFormed(call, instance, CalleeOf(instance)) BY <1>1, <1>2
  <2>5. IsZip(instance.list_expander) =>
            ~ExplodeFails(RowsFor(call, instance, CalleeOf(instance)), ToExpand(call, instance, CalleeOf(instance)))
    BY <2>2, <2>3, <2>4, RemappedEnvs
  <2>. QED BY <1>1, <2>5
<1>12. ~RemapPanics(call, instance, template)
  BY <1>6, <1>9, <1>10, <1>11 DEF RemapPanics, PanicsOnArgument, IsZip
<1>. QED BY <1>1, <1>8, <1>12

----------------------------------------------------------------------------
\* A safe call neither fails nor panics.

\* Its variables can be counted.
LEMMA NamesAreCounted ==
    ASSUME NEW instance, NEW template, IsInstance(instance, template),
           \A n, k \in VariablesOf(instance) :
                NameOf(instance.argument_list[n]) = NameOf(instance.argument_list[k]) => n = k
    PROVE  Cardinality(NamesOf(instance)) = Cardinality(VariablesOf(instance))
<1>1. PICK S, T : S = VariablesOf(instance) /\ T = NamesOf(instance) OBVIOUS
<1>2. PICK f : f = [n \in S |-> NameOf(instance.argument_list[n])] OBVIOUS
<1>3. IsFiniteSet(S)
  <2>1. DOMAIN template.parameters = 1 .. Len(template.parameters) /\ Len(template.parameters) \in Nat
    BY DEF IsInstance
  <2>2. S \in SUBSET (1 .. Len(template.parameters)) BY <1>1, <2>1 DEF VariablesOf, IsInstance
  <2>3. IsFiniteSet(1 .. Len(template.parameters)) BY <2>1, FS_Interval
  <2>. QED BY <2>2, <2>3, FS_Subset
<1>4. T = { f[n] : n \in S } BY <1>1, <1>2 DEF NamesOf
<1>5. f \in [S -> T] BY <1>2, <1>4
<1>6. \A a, b \in S : f[a] = f[b] => a = b BY <1>1, <1>2
<1>7. f \in Bijection(S, T)
  <2>1. f \in Injection(S, T) BY <1>5, <1>6 DEF Injection, IsInjective
  <2>2. f \in Surjection(S, T) BY <1>4, <1>5 DEF Surjection
  <2>. QED BY <2>1, <2>2 DEF Bijection
<1>8. ExistsBijection(S, T) BY <1>7 DEF ExistsBijection
<1>9. Cardinality(T) = Cardinality(S) BY <1>3, <1>8, FS_Bijection
<1>. QED BY <1>1, <1>9

LEMMA CountsSafely ==
    ASSUME IsAcyclic, IsSafe, NEW call, CallFits(call)
    PROVE  ~CannotCount(call)
<1>. SUFFICES ASSUME NEW i \in DOMAIN BodyOf(call.name), NEW instance, instance = BodyOf(call.name)[i]
              PROVE  /\ \A n \in DOMAIN instance.argument_list : instance.argument_list[n].term.is # "List"
                     /\ NamesOf(instance) \subseteq DOMAIN call.dynamic_columns
                     /\ Cardinality(NamesOf(instance)) = Cardinality(VariablesOf(instance))
  BY DEF CannotCount, InstancesOf, BodyOf
<1>1. IsFormed(call, instance, CalleeOf(instance)) /\ CanBeFormed(call.name, instance) BY FormedSafely
<1>2. IsInstance(instance, CalleeOf(instance)) BY <1>1 DEF IsFormed
<1>3. \A n, k \in VariablesOf(instance) :
            NameOf(instance.argument_list[n]) = NameOf(instance.argument_list[k]) => n = k
  BY <1>1 DEF CanBeFormed, IsPlain
<1>4. Cardinality(NamesOf(instance)) = Cardinality(VariablesOf(instance)) BY <1>2, <1>3, NamesAreCounted
<1>. QED BY <1>1, <1>4 DEF IsFormed, CanBeFormed, IsPlain

\* What is handed on for ottr:Triple can be made a triple.
LEMMA TripleIsCreated ==
    ASSUME IsDataset(input.templates), NEW call, NEW instance, NEW i, NEW name, instance.template_name = OTTR_TRIPLE,
           IsFormed(call, instance, CalleeOf(instance)), CanBeFormed(name, instance),
           \A n \in DOMAIN CalleeOf(instance).parameters : CalleeOf(instance).parameters[n].ptype \in MaybeType
    PROVE  CanBeCreated(Remapped(call, i, instance, CalleeOf(instance)))
<1>1. PICK template, R, static : /\ template = CalleeOf(instance) /\ R = Remapped(call, i, instance, template)
                                 /\ static = R.static_columns
  OBVIOUS
<1>2. static = StaticFor(call, instance, template) BY <1>1 DEF Remapped
<1>3. /\ DOMAIN static = FormalsAt(template, Fixed(instance))
      /\ \A n \in Fixed(instance) :
            static[Formal(template, n)]
                = [value |-> ValueOf(instance.argument_list[n]), ptype |-> template.parameters[n].ptype]
  BY <1>1, <1>2, HandedOn
<1>4. Args(instance) = 1 .. 3 /\ Formal(template, 1) = Subject /\ Formal(template, 2) = Verb
      /\ Formal(template, 3) = Object
  <2>1. template = input.templates[OTTR_TRIPLE] BY <1>1 DEF CalleeOf
  <2>2. DOMAIN template.parameters = 1 .. 3 /\ Formal(template, 1) = Subject /\ Formal(template, 2) = Verb
        /\ Formal(template, 3) = Object
    BY <2>1, ParametersOfTriple
  <2>. QED BY <1>1, <2>2 DEF IsFormed, IsInstance, Args
<1>5. Fixed(instance) \subseteq Args(instance)
      /\ \A n \in Fixed(instance) : IsConstant(instance.argument_list[n]) /\ ~instance.argument_list[n].list_expand
  BY DEF Fixed, Unrolled, ConstantArgs, Args
<1>6. /\ ConstantsFit(instance, template, Args(instance) \ {2})
      /\ IsConstant(instance.argument_list[2]) /\ ~instance.argument_list[2].list_expand =>
            ValueOf(instance.argument_list[2]) \in Terms /\ TermType[ValueOf(instance.argument_list[2])] = IRIType
  BY <1>1 DEF CanBeFormed, IsPlain, CalleeOf, Args
<1>7. ASSUME NEW c \in Added(R)
      PROVE  ~ConstantPanics(static[c].value) /\ ~ConstantFails(static[c].value, static[c].ptype)
  <2>1. c \in DOMAIN static /\ c # Verb BY <1>1 DEF Added
  <2>2. PICK n \in Fixed(instance) : c = Formal(template, n) BY <1>3, <2>1 DEF FormalsAt
  <2>3. n # 2 /\ n \in Args(instance) BY <1>4, <1>5, <2>1, <2>2
  <2>4. PICK value, ptype : value = ValueOf(instance.argument_list[n]) /\ ptype = template.parameters[n].ptype
    OBVIOUS
  <2>5. static[c] = [value |-> value, ptype |-> ptype]
    <3>1. static[Formal(template, n)]
            = [value |-> ValueOf(instance.argument_list[n]), ptype |-> template.parameters[n].ptype]
      BY <1>3
    <3>. QED BY ONLY <2>2, <2>4, <3>1, Zenon
  <2>6. static[c].value = value /\ static[c].ptype = ptype BY ONLY <2>5
  <2>7. FitsParameter(value, ptype) BY <1>5, <1>6, <2>3, <2>4 DEF ConstantsFit
  <2>8. value \in Cells /\ ptype \in MaybeType
    BY <1>1, <1>5, <2>3, <2>4 DEF IsFormed, IsInstance, Args
  <2>9. ~ConstantPanics(value) /\ ~ConstantFails(value, ptype) BY <2>7, <2>8, FittingConstants
  <2>. QED BY <2>6, <2>9
<1>8. ASSUME Verb \in DOMAIN static PROVE IsPredicate(static[Verb].value)
  <2>1. PICK n \in Fixed(instance) : Verb = Formal(template, n) BY <1>3, <1>8 DEF FormalsAt
  <2>2. n = 2
    <3>1. n \in {1, 2, 3} BY <1>4, <1>5
    <3>. QED BY <1>4, <2>1, <3>1 DEF Subject, Verb, Object
  <2>3. PICK value, ptype : value = ValueOf(instance.argument_list[2]) /\ ptype = template.parameters[2].ptype
    OBVIOUS
  <2>4. static[Verb] = [value |-> value, ptype |-> ptype]
    <3>1. static[Formal(template, n)]
            = [value |-> ValueOf(instance.argument_list[n]), ptype |-> template.parameters[n].ptype]
      BY <1>3
    <3>. QED BY ONLY <2>1, <2>2, <2>3, <3>1, Zenon
  <2>5. static[Verb].value = value BY ONLY <2>4
  <2>6. value \in Terms /\ TermType[value] = IRIType BY <1>5, <1>6, <2>2, <2>3
  <2>7. IsPredicate(value) BY <2>6, TermsAssumption DEF IsPredicate, IsList, BasicOf
  <2>. QED BY <2>5, <2>7
<1>9. ~CreateFails(R) /\ ~CreatePanics(R) BY <1>1, <1>7, <1>8 DEF CreateFails, CreatePanics
<1>. QED BY <1>1, <1>9 DEF CanBeCreated

----------------------------------------------------------------------------
\* What a safe call hands on fits.

\* What a call hands on fits if it does.
LEMMA ColumnsOfRemapped ==
    ASSUME NEW call, NEW instance, NEW i, IsFormed(call, instance, CalleeOf(instance))
    PROVE  /\ Remapped(call, i, instance, CalleeOf(instance)).name = instance.template_name
           /\ HasAllColumns(Remapped(call, i, instance, CalleeOf(instance)))
           /\ DOMAIN Remapped(call, i, instance, CalleeOf(instance)).static_columns = StaticOf(instance)
<1>1. PICK template, R : template = CalleeOf(instance) /\ R = Remapped(call, i, instance, template) OBVIOUS
<1>2. /\ R.name = instance.template_name
      /\ R.dynamic_columns = DynamicFor(call, instance, template)
      /\ R.static_columns = StaticFor(call, instance, template)
  BY <1>1 DEF Remapped
<1>3. /\ DOMAIN R.dynamic_columns = FormalsAt(template, Varied(instance))
      /\ DOMAIN R.static_columns = FormalsAt(template, Fixed(instance))
  BY <1>1, <1>2, HandedOn
<1>4. /\ \A n, k \in Args(instance) : Formal(template, n) = Formal(template, k) => n = k
      /\ Formals(template) = FormalsAt(template, Args(instance))
  BY <1>1, GivenOfFormed
<1>5. Fixed(instance) \subseteq Args(instance) /\ Varied(instance) = Args(instance) \ Fixed(instance)
  BY DEF Fixed, ConstantArgs, Args, Varied
<1>6. HasAllColumns(R)
  <2>1. input.templates[R.name] = template BY <1>1, <1>2 DEF CalleeOf
  <2>. QED BY <1>3, <1>4, <1>5, <2>1 DEF HasAllColumns, FormalsAt
<1>7. Fixed(instance) = { k \in DOMAIN instance.argument_list :
                            IsConstant(instance.argument_list[k]) /\ ~instance.argument_list[k].list_expand }
  BY DEF Fixed, Unrolled, ConstantArgs
<1>8. StaticOf(instance) = FormalsAt(template, Fixed(instance)) BY <1>1, <1>7 DEF StaticOf, FormalsAt, CalleeOf
<1>. QED BY <1>1, <1>2, <1>3, <1>6, <1>8

LEMMA RemappedFits ==
    ASSUME IsAcyclic, IsSafe, NEW call, HasTypedRows(call), CallFits(call), NEW i \in DOMAIN BodyOf(call.name)
    PROVE  CallFits(Remapped(call, i, BodyOf(call.name)[i], CalleeOf(BodyOf(call.name)[i])))
<1>1. PICK instance, template, R : /\ instance = BodyOf(call.name)[i] /\ template = CalleeOf(instance)
                                   /\ R = Remapped(call, i, instance, template)
  OBVIOUS
<1>2. IsFormed(call, instance, CalleeOf(instance)) /\ CanBeFormed(call.name, instance) BY <1>1, FormedSafely
<1>3. IsDataset(input.templates) /\ call.name \in DOMAIN input.templates /\ call.name \in EverReached
  BY DEF IsAcyclic, CallFits
<1>4. R.name = instance.template_name /\ HasAllColumns(R) /\ DOMAIN R.static_columns = StaticOf(instance)
  BY <1>1, <1>2, ColumnsOfRemapped
<1>5. R.name \in EverReached /\ R.name \in DOMAIN input.templates
  <2>1. Callees(call.name) \subseteq EverReached BY <1>3, LevelsSuffice
  <2>2. R.name \in Callees(call.name) BY <1>1, <1>4 DEF Callees, BodyOf
  <2>3. R.name \in DOMAIN input.templates BY <1>1, <1>3, <1>4, InstanceOfDataset
  <2>. QED BY <2>1, <2>2, <2>3
<1>6. UsesNoConstant(R) BY <1>2, <1>4 DEF UsesNoConstant, CanBeFormed
<1>7. PICK es : GivenBy(call, instance, es) BY SomeAreGiven
<1>8. ASSUME NEW f \in FrameEnvs(R) PROVE IsMet(R.name, f)
  <2>1. \A env \in es : CanTake(call, instance, env) BY <1>1, <1>7, TakenSafely DEF GivenBy
  <2>2. IsGiven(es, call, instance) BY <1>7 DEF GivenBy
  <2>3. \A g : g \in FrameEnvs(Remapped(call, i, instance, CalleeOf(instance)))
                 <=> \E env \in es : g \in EnvsOf(instance, env, TRUE) /\ ~IsDropped(instance, g)
    BY <1>2, <2>1, <2>2, RemappedEnvs
  <2>4. PICK env \in es : f \in EnvsOf(instance, env, TRUE) BY <1>1, <1>8, <2>3
  <2>5. IsMet(call.name, env) /\ IsOfCall(env, call) BY <1>7 DEF GivenBy
  <2>6. f \in EnvsOf(BodyOf(call.name)[i], env, TRUE) BY <1>1, <2>4
  <2>7. IsMet(BodyOf(call.name)[i].template_name, f) BY <2>5, <2>6, SaidIsMet
  <2>. QED BY <1>1, <1>4, <2>7
<1>9. \E f : IsMet(R.name, f) /\ IsOfCall(f, R)
  <2>1. PICK env : IsMet(call.name, env) /\ IsOfCall(env, call) BY DEF CallFits, MeetsSome
  <2>2. HasCells(instance, env) /\ ListsFit(instance, env) BY <1>1, <2>1, TakenSafely
  <2>3. PICK f : f \in EnvsOf(instance, env, TRUE) BY <2>2, SomethingIsSaid
  <2>4. f \in EnvsOf(BodyOf(call.name)[i], env, TRUE) BY <1>1, <2>3
  <2>5. IsMet(BodyOf(call.name)[i].template_name, f) BY <2>1, <2>4, SaidIsMet
  <2>6. PICK row : row = ColumnsOf(instance, f) OBVIOUS
  <2>7. EnvOf(Remapped(call, i, instance, CalleeOf(instance)), row) = f
    BY <1>2, <2>1, <2>3, <2>6, SaidOfColumns
  <2>8. EnvOf(R, row) = f BY <1>1, <2>7
  <2>9. IsOfCall(f, R) BY <2>8 DEF EnvOf, IsOfCall
  <2>. QED BY <1>1, <1>4, <2>5, <2>9
<1>10. ASSUME R.name = OTTR_TRIPLE PROVE CanBeCreated(R)
  <2>1. instance.template_name = OTTR_TRIPLE BY <1>4, <1>10
  <2>2. \A n \in DOMAIN CalleeOf(instance).parameters : CalleeOf(instance).parameters[n].ptype \in MaybeType
    BY <1>1, <1>3, InstanceOfDataset
  <2>3. CanBeCreated(Remapped(call, i, instance, CalleeOf(instance)))
    BY <1>2, <1>3, <2>1, <2>2, TripleIsCreated
  <2>. QED BY <1>1, <2>3
<1>11. CallFits(R) BY <1>4, <1>5, <1>6, <1>8, <1>9, <1>10 DEF CallFits, MeetsAll, MeetsSome
<1>. QED BY <1>1, <1>11

\* The first call fits.
LEMMA FirstEnvs ==
    ASSUME InputOK, IsValid
    PROVE  /\ FrameEnvs(FirstCall) = IF DOMAIN FirstCall.dynamic_columns = {} THEN {EnvOf(FirstCall, <<>>)}
                                     ELSE RowEnvs
           /\ FrameEnvs(FirstCall) \subseteq RowsMet
           /\ input.df.rows # <<>> => FrameEnvs(FirstCall) = RowEnvs /\ RowEnvs # {} /\ RowsMet = RowEnvs
<1>1. PICK first, rows, dynamic : /\ first = FirstCall /\ rows = input.df.rows /\ dynamic = FirstCall.dynamic_columns
  OBVIOUS
<1>2. first.rows = rows /\ first.dynamic_columns = dynamic /\ DOMAIN first.static_columns = {}
      /\ DOMAIN dynamic = Formals(target)
  BY <1>1 DEF FirstCall, ColumnTypes
<1>3. \A row : EnvOf(first, row) = [c \in Formals(target) |-> [cell |-> row[c], type |-> dynamic[c]]]
  BY <1>2 DEF EnvOf
<1>4. RowEnvs = { EnvOf(first, rows[m]) : m \in DOMAIN rows } BY <1>1, <1>3 DEF RowEnvs
<1>5. RowEnvs = { EnvOf(first, row) : row \in ToSet(rows) } BY <1>4 DEF ToSet
<1>6. FrameEnvs(first) = IF DOMAIN dynamic = {} THEN {EnvOf(first, <<>>)} ELSE RowEnvs
  BY <1>2, <1>5 DEF FrameEnvs
<1>7. rows # <<>> => 1 \in DOMAIN rows
  <2>1. rows \in Seq([DOMAIN input.df.dtypes -> Cells]) BY <1>1 DEF InputOK, IsDataFrame
  <2>. QED BY <2>1
<1>8. RowsMet = IF rows # <<>> THEN RowEnvs
                ELSE { [c \in Formals(target) |-> [cell |-> Null, type |-> dynamic[c]]] }
  BY <1>1 DEF RowsMet
<1>9. ASSUME DOMAIN dynamic = {}, NEW row PROVE EnvOf(first, row) = EnvOf(first, <<>>)
  BY <1>2, <1>3, <1>9
<1>10. ASSUME DOMAIN dynamic = {}, rows # <<>> PROVE RowEnvs = {EnvOf(first, <<>>)}
  BY <1>4, <1>7, <1>9, <1>10
<1>11. ASSUME DOMAIN dynamic = {}, rows = <<>> PROVE RowsMet = {EnvOf(first, <<>>)}
  <2>1. EnvOf(first, <<>>) = [c \in Formals(target) |-> [cell |-> Null, type |-> dynamic[c]]]
    BY <1>2, <1>3, <1>11
  <2>. QED BY <1>8, <1>11, <2>1
<1>12. rows = <<>> => RowEnvs = {} BY <1>4
<1>13. RowEnvs # {} \/ rows = <<>> BY <1>4, <1>7
<1>. QED BY <1>1, <1>6, <1>8, <1>10, <1>11, <1>12, <1>13

LEMMA FirstFits ==
    ASSUME InputOK, IsAcyclic, IsSafe
    PROVE  CallFits(FirstCall)
<1>1. IsValid BY DEF IsSafe
<1>2. PICK first, rows, dynamic : /\ first = FirstCall /\ rows = input.df.rows /\ dynamic = FirstCall.dynamic_columns
  OBVIOUS
<1>3. /\ first.rows = rows /\ first.dynamic_columns = dynamic /\ DOMAIN first.static_columns = {}
      /\ DOMAIN dynamic = Formals(target) /\ input.templates[first.name] = target
  BY <1>2, SMTT(20) DEF FirstCall, ColumnTypes, target
<1>4. first.name \in EverReached /\ first.name \in DOMAIN input.templates
      /\ \A e \in RowsMet : <<first.name, e>> \in EverMet
  BY <1>2, LevelsSuffice DEF IsAcyclic
<1>5. HasAllColumns(first) /\ UsesNoConstant(first) BY <1>3 DEF HasAllColumns, UsesNoConstant
<1>6. RowEnvs = { [c \in Formals(target) |-> [cell |-> rows[m][c], type |-> dynamic[c]]] : m \in DOMAIN rows }
      /\ RowsMet = IF rows # <<>> THEN RowEnvs
                   ELSE { [c \in Formals(target) |-> [cell |-> Null, type |-> dynamic[c]]] }
  BY <1>2 DEF RowEnvs, RowsMet
<1>7. rows \in Seq([Formals(target) -> Cells])
  BY <1>1, <1>2 DEF IsValid, InputOK, IsDataFrame
<1>8. ASSUME NEW e \in RowsMet PROVE IsMet(first.name, e) /\ IsOfCall(e, first)
  <2>1. CASE rows # <<>>
    <3>1. PICK m \in DOMAIN rows : e = [c \in Formals(target) |-> [cell |-> rows[m][c], type |-> dynamic[c]]]
      BY <1>6, <2>1
    <3>2. rows[m] \in [Formals(target) -> Cells] BY <1>7
    <3>3. HasValues(first.name, e) BY <1>3, <3>1, <3>2 DEF HasValues
    <3>4. IsOfCall(e, first) BY <1>3, <3>1 DEF IsOfCall
    <3>. QED BY <1>4, <3>3, <3>4 DEF IsMet
  <2>2. CASE rows = <<>>
    <3>1. e = [c \in Formals(target) |-> [cell |-> Null, type |-> dynamic[c]]] BY <1>6, <2>2
    <3>2. HasValues(first.name, e) BY <1>3, <3>1, CellsAssumption DEF HasValues
    <3>3. IsOfCall(e, first) BY <1>3, <3>1 DEF IsOfCall
    <3>. QED BY <1>4, <3>2, <3>3 DEF IsMet
  <2>. QED BY <2>1, <2>2
<1>9. RowsMet # {}
  <2>1. rows # <<>> => 1 \in DOMAIN rows BY <1>7
  <2>. QED BY <1>6, <2>1
<1>10. FrameEnvs(first) \subseteq RowsMet BY <1>1, <1>2, FirstEnvs
<1>11. MeetsAll(first) /\ MeetsSome(first) BY <1>8, <1>9, <1>10 DEF MeetsAll, MeetsSome
<1>12. CanBeCreated(first) BY <1>3 DEF CanBeCreated, CreateFails, CreatePanics, Added
<1>13. CallFits(first) BY <1>4, <1>5, <1>11, <1>12 DEF CallFits
<1>. QED BY <1>2, <1>13

----------------------------------------------------------------------------
\* Safe expansions.

\* What is said of the input stays so as long as the input does.
LEMMA SameLevels ==
    ASSUME input' = input
    PROVE  EverMet' = EverMet /\ EverReached' = EverReached /\ Levels' = Levels
BY DEF Met, CalledBy, BodyOf, EnvsOf, EnvFor, RowsMet, RowEnvs, FirstCall, Resolved, IsTemplate, target, EverMet,
       EverReached, Reached, Callees, Levels

LEMMA SameSafety ==
    ASSUME input' = input PROVE IsSafe' <=> IsSafe
<1>1. IsValid' <=> IsValid BY DEF IsValid, Resolved, IsTemplate, target
<1>2. \A n, i : CanBeFormed(n, i)' <=> CanBeFormed(n, i) BY DEF CanBeFormed, BodyOf, IsPlain, StaticOf
<1>3. \A n : BodyOf(n)' = BodyOf(n) BY DEF BodyOf
<1>4. HasCycle' <=> HasCycle BY SameInput
<1>. QED BY <1>1, <1>2, <1>3, <1>4, SameLevels DEF IsSafe

LEMMA SameFits ==
    ASSUME input' = input PROVE \A c : CallFits(c)' <=> CallFits(c)
<1>1. \A n, env : IsMet(n, env)' <=> IsMet(n, env) BY SameLevels DEF IsMet, HasValues
<1>2. \A c : HasAllColumns(c)' <=> HasAllColumns(c) BY DEF HasAllColumns
<1>3. \A c : UsesNoConstant(c)' <=> UsesNoConstant(c) BY DEF UsesNoConstant, BodyOf
<1>4. \A c : (MeetsAll(c)' <=> MeetsAll(c)) /\ (MeetsSome(c)' <=> MeetsSome(c))
  BY <1>1 DEF MeetsAll, MeetsSome
<1>. QED BY <1>2, <1>3, <1>4, SameLevels DEF CallFits, CanBeCreated

LEMMA SameDenoted ==
    ASSUME input' = input
    PROVE  /\ TriplesOfRows' = TriplesOfRows /\ EverDenoted' = EverDenoted
           /\ NoneOnlyInTriples' <=> NoneOnlyInTriples
           /\ \A n, e : IsIgnored(n, e)' <=> IsIgnored(n, e)
<1>1. EverDenoted' = EverDenoted
  BY DEF EverDenoted, Levels, Denoted, CalledBy, BodyOf, EnvsOf, EnvFor, RowsMet, RowEnvs, FirstCall, Resolved,
         IsTemplate, target, IsIgnored
<1>2. \A n, e : IsIgnored(n, e)' <=> IsIgnored(n, e) BY DEF IsIgnored
<1>3. TriplesOfRows = { TripleFor(x[2]) : x \in { y \in EverDenoted : y[1] = OTTR_TRIPLE /\ ~IsIgnored(y[1], y[2]) } }
  BY DEF TriplesOfRows, EverDenoted
<1>4. TriplesOfRows' = TriplesOfRows
  BY DEF TriplesOfRows, Levels, Denoted, CalledBy, BodyOf, EnvsOf, EnvFor, RowsMet, RowEnvs, FirstCall, Resolved,
         IsTemplate, target, IsIgnored
<1>5. NoneOnlyInTriples' <=> NoneOnlyInTriples BY SameLevels, ZenonT(40) DEF NoneOnlyInTriples, MeetsNone, BodyOf
<1>. QED BY <1>1, <1>2, <1>4, <1>5

LEMMA SameGiven ==
    ASSUME input' = input PROVE \A x, t : Gives(x, t)' <=> Gives(x, t)
<1>1. \A x : CalledBy(x, FALSE)' = CalledBy(x, FALSE) BY DEF CalledBy, BodyOf, EnvsOf, EnvFor
<1>2. \A Z : IsClosed(Z)' <=> IsClosed(Z) BY <1>1, SameDenoted DEF IsClosed
<1>3. \A x, z : LeadsTo(x, z)' <=> LeadsTo(x, z) BY <1>2, SameDenoted DEF LeadsTo
<1>. QED BY <1>3, SameDenoted DEF Gives

\* The recursion of an expansion that is safe: nothing fails, and all calls fit.
AllFit == /\ stage \notin {"error", "panicked"} /\ ~failed
          /\ \A c \in calls : CallFits(c)
          /\ \A i \in instances : CanBeCreated(i)
SafeInv ==
    /\ \A i \in instances : HasTypedRows(i)
    /\ stage \in {"default", "called"} => ~failed
    /\ stage = "default" => ~IsTemplate(Resolved(input.name))
    /\ IsSafe => AllFit

LEMMA SafelyAcyclic ==
    ASSUME IInv, IsSafe PROVE IsAcyclic
<1>1. IsDataset(input.templates) /\ Resolved(input.name) \in DOMAIN input.templates /\ ~HasCycle
  BY DEF IInv, InputOK, IsSafe, IsValid, IsTemplate
<1>2. FirstCall.name = Resolved(input.name) BY DEF FirstCall
<1>. QED BY <1>1, <1>2 DEF IsAcyclic

LEMMA SafelyInstantiated ==
    ASSUME IInv, TypeInv, SafeInv, IsSafe, NEW call \in calls, call.name # OTTR_TRIPLE
    PROVE  /\ ~Panics(call) /\ Branches(call) = DOMAIN InstancesOf(call)
           /\ \A i \in Branches(call) : CallFits(RemappedAt(call, i))
<1>1. IsAcyclic /\ CallFits(call) /\ HasTypedRows(call) BY SafelyAcyclic DEF SafeInv, AllFit, TypeInv
<1>2. InstancesOf(call) = BodyOf(call.name) BY DEF InstancesOf, BodyOf
<1>3. \A i \in DOMAIN BodyOf(call.name) :
        /\ ~RemapFails(call, BodyOf(call.name)[i], CalleeOf(BodyOf(call.name)[i]))
        /\ ~RemapPanics(call, BodyOf(call.name)[i], CalleeOf(BodyOf(call.name)[i]))
  BY <1>1, BranchIsSafe
<1>4. ~Panics(call) BY <1>1, <1>2, <1>3, CountsSafely DEF Panics
<1>5. Branches(call) = DOMAIN InstancesOf(call) BY <1>2, <1>3 DEF Branches
<1>6. ASSUME NEW i \in Branches(call) PROVE CallFits(RemappedAt(call, i))
  <2>1. i \in DOMAIN BodyOf(call.name) BY <1>2, <1>5
  <2>2. CallFits(Remapped(call, i, BodyOf(call.name)[i], CalleeOf(BodyOf(call.name)[i]))) BY <1>1, <2>1, RemappedFits
  <2>. QED BY <1>2, <2>2 DEF RemappedAt
<1>. QED BY <1>4, <1>5, <1>6

\* Validation accepts what is valid.
LEMMA ValidIsAccepted ==
    ASSUME IInv, IsValid PROVE Validation(target, input.df) = "expanding"
<1>1. PICK parameters, df : parameters = target.parameters /\ df = input.df OBVIOUS
<1>2. parameters \in Seq(Range(parameters)) BY <1>1 DEF IInv, InputOK, IsDataset, target, IsTemplate, IsValid
<1>3. /\ \A n, k \in DOMAIN parameters : parameters[n].variable = parameters[k].variable => n = k
      /\ DOMAIN df.dtypes = Formals(target)
      /\ \A n \in DOMAIN parameters : parameters[n].variable \in DOMAIN df.dtypes
  BY <1>1 DEF IsValid, HasDistinctNames, Formal, Formals
<1>4. ASSUME NEW n \in DOMAIN parameters
      PROVE  ~Refuses(parameters, n, df) /\ ~PanicsOnColumn(parameters[n], df)
  <2>1. PICK p : p = parameters[n] OBVIOUS
  <2>2. HasColumn(df, p) BY <1>1, <2>1 DEF IsValid
  <2>3. PICK cells, dtype : cells = { df.rows[m][p.variable] : m \in DOMAIN df.rows } /\ dtype = df.dtypes[p.variable]
    OBVIOUS
  <2>4. /\ Null \in cells => p.optional
        /\ p.non_blank => dtype = Basic(StringType) /\ \A t \in cells \ {Null} : TermType[t] # BlankType
        /\ p.ptype # NoType => Len(p.ptype.lists) = Len(dtype.lists)
        /\ p.ptype = NoType => dtype.base \notin UnknownTypes
    BY <2>2, <2>3 DEF HasColumn
  <2>5. HasNull(df, p.variable) => p.optional BY <2>3, <2>4 DEF HasNull
  <2>6. p.non_blank => IsText(dtype) /\ ~HasBlank(df, p.variable) BY <2>3, <2>4 DEF IsText, HasBlank
  <2>7. ~ListsDiffer(p, dtype) BY <2>4 DEF ListsDiffer, TypeOfColumn
  <2>8. ~RefusesColumn(p, df) /\ ~PanicsOnColumn(p, df)
    BY <1>3, <2>1, <2>3, <2>4, <2>5, <2>6, <2>7 DEF RefusesColumn, PanicsOnColumn
  <2>9. ~Repeats(parameters, n)
    <3>1. \A k \in 1 .. n - 1 : k \in DOMAIN parameters /\ k # n BY <1>2
    <3>. QED BY <1>3, <3>1 DEF Repeats
  <2>. QED BY <2>1, <2>8, <2>9 DEF Refuses
<1>5. FirstProblem(parameters, df) = 0 BY <1>2, <1>4, NoProblem
<1>. QED BY <1>1, <1>3, <1>5 DEF Validation

LEMMA InitSafeInv == Init => SafeInv
<1>. SUFFICES ASSUME Init PROVE SafeInv OBVIOUS
<1>1. stage = IF input.pk_col = Null THEN "called" ELSE "default" BY DEF Init
<1>2. calls = {} /\ instances = {} /\ failed = FALSE /\ input \in Expansions BY DEF Init
<1>3. ASSUME stage = "default" PROVE ~IsTemplate(Resolved(input.name))
  <2>1. /\ input.name \notin DOMAIN input.templates
        /\ input.name \in DOMAIN input.prefixed => input.prefixed[input.name] \notin DOMAIN input.templates
    BY <1>1, <1>2, <1>3, ExpansionsAssumption
  <2>. QED BY <2>1 DEF IsTemplate, Resolved
<1>4. AllFit BY <1>1, <1>2 DEF AllFit
<1>. QED BY <1>1, <1>2, <1>3, <1>4 DEF SafeInv

LEMMA ExpandDefaultSafeInv ==
    ASSUME IInv, SafeInv, ExpandDefault PROVE SafeInv'
<1>1. stage = "default" /\ UNCHANGED <<calls, instances, failed, added>> BY DEF ExpandDefault
<1>2. calls = {} /\ instances = {} /\ ~failed BY <1>1 DEF IInv, NothingBefore, SafeInv
<1>3. CASE UNCHANGED input /\ stage' = "panicked"
  <2>1. ~IsSafe BY <1>1 DEF SafeInv, IsSafe, IsValid
  <2>2. ~IsSafe' BY <1>3, <2>1, SameSafety
  <2>. QED BY <1>1, <1>2, <1>3, <2>2 DEF SafeInv
<1>4. CASE stage' = "called"
  <2>1. AllFit' BY <1>1, <1>2, <1>4 DEF AllFit
  <2>. QED BY <1>1, <1>2, <1>4, <2>1 DEF SafeInv
<1>. QED BY <1>3, <1>4 DEF ExpandDefault

LEMMA ExpandSafeInv ==
    ASSUME IInv, SafeInv, Expand PROVE SafeInv'
<1>1. stage = "called" /\ UNCHANGED <<input, instances, failed, added>> BY DEF Expand
<1>2. instances = {} /\ ~failed BY <1>1 DEF IInv, NothingBefore, SafeInv
<1>3. stage' \in {"expanding", "error", "panicked"} BY DEF Expand, Validation
<1>4. ASSUME IsSafe PROVE AllFit'
  <2>1. IsValid /\ IsTemplate(Resolved(input.name)) BY <1>4 DEF IsSafe, IsValid
  <2>2. stage' = "expanding" /\ calls' = {FirstCall} BY <2>1, ValidIsAccepted DEF Expand
  <2>3. PICK first : first = FirstCall OBVIOUS
  <2>4. CallFits(first) BY <1>4, <2>3, SafelyAcyclic, FirstFits DEF IInv
  <2>5. \A c \in calls' : CallFits(c)' BY <1>1, <2>2, <2>3, <2>4, SameFits
  <2>. QED BY <1>1, <1>2, <2>2, <2>5 DEF AllFit
<1>5. IsSafe' <=> IsSafe BY <1>1, SameSafety
<1>. QED BY <1>1, <1>2, <1>3, <1>4, <1>5 DEF SafeInv

LEMMA EmitSafeInv ==
    ASSUME TypeInv, SafeInv, stage = "expanding", NEW call \in calls, Emit(call) PROVE SafeInv'
<1>1. PICK instance : instance = [path |-> call.path, rows |-> call.rows,
            dynamic_columns |-> call.dynamic_columns, static_columns |-> call.static_columns,
            has_unique_subset |-> call.unique_subsets # {}]
  OBVIOUS
<1>2. /\ UNCHANGED <<input, stage, failed, added>> /\ calls' = calls \ {call}
      /\ instances' = instances \union {instance} /\ call.name = OTTR_TRIPLE
  BY <1>1 DEF Emit
<1>3. HasTypedRows(instance) BY <1>1 DEF TypeInv, HasTypedRows
<1>4. ASSUME IsSafe PROVE AllFit'
  <2>1. AllFit BY <1>4 DEF SafeInv
  <2>2. CanBeCreated(call) BY <1>2, <2>1 DEF AllFit, CallFits
  <2>3. CanBeCreated(instance) BY <1>1, <2>2 DEF CanBeCreated, CreateFails, CreatePanics, Added
  <2>4. \A c \in calls' : CallFits(c)' BY <1>2, <2>1, SameFits DEF AllFit
  <2>5. \A i \in instances' : CanBeCreated(i) BY <1>2, <2>1, <2>3 DEF AllFit
  <2>6. \A i \in instances' : CanBeCreated(i)' BY <2>5 DEF CanBeCreated, CreateFails, CreatePanics
  <2>. QED BY <1>2, <2>1, <2>4, <2>6 DEF AllFit
<1>5. IsSafe' <=> IsSafe BY <1>2, SameSafety
<1>6. \A i \in instances' : HasTypedRows(i) BY <1>2, <1>3 DEF SafeInv
<1>7. \A i \in instances' : HasTypedRows(i)' BY <1>6 DEF HasTypedRows
<1>. QED BY <1>2, <1>4, <1>5, <1>7 DEF SafeInv

LEMMA InstantiateSafeInv ==
    ASSUME IInv, TypeInv, SafeInv, stage = "expanding", NEW call \in calls, Instantiate(call) PROVE SafeInv'
<1>1. /\ UNCHANGED <<input, stage, instances, added>> /\ call.name # OTTR_TRIPLE
      /\ calls' = (calls \ {call}) \union { RemappedAt(call, i) : i \in Branches(call) }
      /\ failed' = (failed \/ Branches(call) # DOMAIN InstancesOf(call))
  BY DEF Instantiate
<1>2. ASSUME IsSafe PROVE AllFit'
  <2>1. AllFit BY <1>2 DEF SafeInv
  <2>2. /\ Branches(call) = DOMAIN InstancesOf(call)
        /\ \A i \in Branches(call) : CallFits(RemappedAt(call, i))
    BY <1>1, <1>2, SafelyInstantiated
  <2>3. PICK new : new = { RemappedAt(call, i) : i \in Branches(call) } OBVIOUS
  <2>4. \A c \in new : CallFits(c) BY <2>2, <2>3
  <2>5. \A c \in calls' : CallFits(c) BY <1>1, <2>1, <2>3, <2>4 DEF AllFit
  <2>6. \A c \in calls' : CallFits(c)' BY <1>1, <2>5, SameFits
  <2>7. \A i \in instances' : CanBeCreated(i)'
    BY <1>1, <2>1 DEF AllFit, CanBeCreated, CreateFails, CreatePanics
  <2>. QED BY <1>1, <2>1, <2>2, <2>6, <2>7 DEF AllFit
<1>3. IsSafe' <=> IsSafe BY <1>1, SameSafety
<1>4. \A i \in instances' : HasTypedRows(i)' BY <1>1 DEF SafeInv, HasTypedRows
<1>. QED BY <1>1, <1>2, <1>3, <1>4 DEF SafeInv

LEMMA StopSafeInv ==
    ASSUME IInv, TypeInv, SafeInv, stage = "expanding", NEW call \in calls,
           InstantiatePanics(call) \/ StackOverflows(call)
    PROVE  SafeInv'
<1>1. UNCHANGED <<input, calls, instances, failed, added>> /\ stage' \in {"panicked", "overflowed"}
  BY DEF InstantiatePanics, StackOverflows
<1>2. ASSUME IsSafe PROVE AllFit'
  <2>1. AllFit BY <1>2 DEF SafeInv
  <2>2. ~InstantiatePanics(call) BY <1>2, SafelyInstantiated DEF InstantiatePanics
  <2>3. stage' = "overflowed" BY <2>2 DEF StackOverflows
  <2>4. \A c \in calls' : CallFits(c)' BY <1>1, <2>1, SameFits DEF AllFit
  <2>5. \A i \in instances' : CanBeCreated(i)'
    BY <1>1, <2>1 DEF AllFit, CanBeCreated, CreateFails, CreatePanics
  <2>. QED BY <1>1, <2>1, <2>3, <2>4, <2>5 DEF AllFit
<1>3. IsSafe' <=> IsSafe BY <1>1, SameSafety
<1>4. \A i \in instances' : HasTypedRows(i)' BY <1>1 DEF SafeInv, HasTypedRows
<1>. QED BY <1>1, <1>2, <1>3, <1>4 DEF SafeInv

LEMMA ProcessResultsSafeInv ==
    ASSUME SafeInv, ProcessResults PROVE SafeInv'
<1>1. UNCHANGED <<input, calls, instances, failed>> /\ stage' \in {"ok", "error", "panicked"}
  BY DEF ProcessResults
<1>2. ASSUME IsSafe PROVE AllFit'
  <2>1. AllFit BY <1>2 DEF SafeInv
  <2>2. stage' = "ok" BY <2>1 DEF AllFit, CanBeCreated, ProcessResults, ProcessingFails, ProcessingPanics
  <2>3. \A c \in calls' : CallFits(c)' BY <1>1, <2>1, SameFits DEF AllFit
  <2>4. \A i \in instances' : CanBeCreated(i)'
    BY <1>1, <2>1 DEF AllFit, CanBeCreated, CreateFails, CreatePanics
  <2>. QED BY <1>1, <2>1, <2>2, <2>3, <2>4 DEF AllFit
<1>3. IsSafe' <=> IsSafe BY <1>1, SameSafety
<1>4. \A i \in instances' : HasTypedRows(i)' BY <1>1 DEF SafeInv, HasTypedRows
<1>. QED BY <1>1, <1>2, <1>3, <1>4 DEF SafeInv

LEMMA NextSafeInv == IInv /\ TypeInv /\ SafeInv /\ [Next]_vars => SafeInv'
<1>. SUFFICES ASSUME IInv, TypeInv, SafeInv, [Next]_vars PROVE SafeInv' OBVIOUS
<1>1. CASE ExpandDefault BY <1>1, ExpandDefaultSafeInv
<1>2. CASE Expand BY <1>2, ExpandSafeInv
<1>3. ASSUME stage = "expanding", NEW call \in calls,
             Emit(call) \/ Instantiate(call) \/ InstantiatePanics(call) \/ StackOverflows(call)
      PROVE  SafeInv'
  BY <1>3, EmitSafeInv, InstantiateSafeInv, StopSafeInv
<1>4. CASE ProcessResults BY <1>4, ProcessResultsSafeInv
<1>5. CASE UNCHANGED vars
  <2>1. UNCHANGED <<input, stage, calls, instances, failed>> BY <1>5 DEF vars
  <2>2. IsSafe' <=> IsSafe BY <2>1, SameSafety
  <2>3. AllFit => AllFit'
    <3>1. ASSUME AllFit, NEW c \in calls' PROVE CallFits(c)' BY <2>1, <3>1, SameFits DEF AllFit
    <3>. QED BY <2>1, <3>1 DEF AllFit, CanBeCreated, CreateFails, CreatePanics
  <2>4. Resolved(input.name)' = Resolved(input.name) /\ (IsTemplate(Resolved(input.name))' <=> IsTemplate(Resolved(input.name)))
    BY <2>1 DEF Resolved, IsTemplate
  <2>. QED BY <2>1, <2>2, <2>3, <2>4 DEF SafeInv, HasTypedRows
<1>. QED BY <1>1, <1>2, <1>3, <1>4, <1>5 DEF Next

\* The stack has room for a call of every template, and for the one that
\* expand_default makes.
HasRoom ==
    /\ IsFiniteSet(DOMAIN input.templates)
    /\ IF stage = "default" THEN Cardinality(DOMAIN input.templates) < StackDepth
       ELSE Cardinality(DOMAIN input.templates) <= StackDepth

LEMMA NextHasRoom == IInv /\ HasRoom /\ [Next]_vars => HasRoom'
<1>. SUFFICES ASSUME IInv, HasRoom, [Next]_vars PROVE HasRoom' OBVIOUS
<1>1. Cardinality(DOMAIN input.templates) \in Nat /\ StackDepth \in Nat
  BY FS_CardinalityType, DepthAssumption DEF HasRoom
<1>2. ASSUME UNCHANGED input, stage' # "default" PROVE HasRoom'
  BY <1>1, <1>2 DEF HasRoom
<1>3. CASE ExpandDefault
  <2>1. CASE UNCHANGED input /\ stage' = "panicked" BY <1>2, <2>1
  <2>2. CASE /\ ~DefaultPanics /\ stage' = "called"
             /\ input' = [input EXCEPT
                  !.templates = Over([n \in {input.name} |-> DefaultTemplate(input.df)], @),
                  !.df.dtypes = [c \in DOMAIN @ |-> IF IsKey(c) THEN Basic(StringType) ELSE @[c]]]
    <3>1. DOMAIN input = Fields BY DEF IInv, InputOK
    <3>2. input.templates' = Over([n \in {input.name} |-> DefaultTemplate(input.df)], input.templates)
      BY <2>2, <3>1 DEF Fields
    <3>3. PICK T, U : T = DOMAIN input.templates /\ U = T \union {input.name} OBVIOUS
    <3>4. DOMAIN input.templates' = U BY <3>2, <3>3 DEF Over
    <3>5. IsFiniteSet(T) /\ Cardinality(T) < StackDepth BY <1>3, <3>3 DEF HasRoom, ExpandDefault
    <3>6. IsFiniteSet(U) /\ Cardinality(U) <= Cardinality(T) + 1
      <4>1. IsFiniteSet(U) /\ Cardinality(U) = (IF input.name \in T THEN Cardinality(T) ELSE Cardinality(T) + 1)
        BY <3>3, <3>5, FS_AddElement
      <4>. QED BY <1>1, <3>3, <4>1
    <3>7. Cardinality(U) \in Nat BY <3>6, FS_CardinalityType
    <3>8. Cardinality(U) <= StackDepth BY <1>1, <3>3, <3>5, <3>6, <3>7
    <3>. QED BY <2>2, <3>4, <3>6, <3>8 DEF HasRoom
  <2>. QED BY <1>3, <2>1, <2>2 DEF ExpandDefault
<1>4. CASE Expand
  <2>1. UNCHANGED input /\ stage' # "default" BY <1>4 DEF Expand, Validation
  <2>. QED BY <1>2, <2>1
<1>5. ASSUME stage = "expanding", NEW call \in calls,
             Emit(call) \/ Instantiate(call) \/ InstantiatePanics(call) \/ StackOverflows(call)
      PROVE  HasRoom'
  <2>1. UNCHANGED input /\ stage' # "default"
    BY <1>5 DEF Emit, Instantiate, InstantiatePanics, StackOverflows
  <2>. QED BY <1>2, <2>1
<1>6. CASE ProcessResults
  <2>1. UNCHANGED input /\ stage' # "default" BY <1>6 DEF ProcessResults
  <2>. QED BY <1>2, <2>1
<1>7. CASE UNCHANGED vars BY <1>7 DEF vars, HasRoom
<1>. QED BY <1>3, <1>4, <1>5, <1>6, <1>7 DEF Next

\* An expansion whose templates and constants fit, whose lists agree and which has
\* no cycle ends well, if the stack has room for a call of every template and for
\* the one that expand_default makes: no branch fails or panics, through however
\* many templates the frame is handed on.
THEOREM WhatIsSafeIsExpanded ==
    ASSUME \A e \in Expansions : Cardinality(DOMAIN e.templates) < StackDepth
    PROVE  Spec => []SafeInputsAreExpanded
<1>1. Init => HasRoom
  <2>. SUFFICES ASSUME Init PROVE HasRoom OBVIOUS
  <2>1. input \in Expansions BY DEF Init
  <2>2. IsFiniteSet(DOMAIN input.templates) BY <2>1, ExpansionsAssumption DEF IsDataset
  <2>3. Cardinality(DOMAIN input.templates) < StackDepth BY <2>1
  <2>4. Cardinality(DOMAIN input.templates) \in Nat BY <2>2, FS_CardinalityType
  <2>. QED BY <2>2, <2>3, <2>4, DepthAssumption DEF HasRoom
<1>2. SafeInv /\ CycleInv /\ HasRoom => SafeInputsAreExpanded
  <2>. SUFFICES ASSUME SafeInv, CycleInv, HasRoom, stage \in {"error", "panicked", "overflowed"}, IsSafe PROVE FALSE
    BY DEF SafeInputsAreExpanded
  <2>1. stage = "overflowed" BY DEF SafeInv, AllFit
  <2>2. StackDepth < Cardinality(DOMAIN input.templates)
    BY <2>1 DEF CycleInv, OnlyDeepTemplatesOverflow, IsSafe
  <2>3. Cardinality(DOMAIN input.templates) <= StackDepth BY <2>1 DEF HasRoom
  <2>4. Cardinality(DOMAIN input.templates) \in Nat BY FS_CardinalityType DEF HasRoom
  <2>. QED BY <2>2, <2>3, <2>4, DepthAssumption
<1>. QED BY <1>1, <1>2, InitIInv, NextIInv, InitTypeInv, NextTypeInv, InitCycleInv, NextCycleInv, InitSafeInv, NextSafeInv,
            NextHasRoom, PTL DEF Spec

----------------------------------------------------------------------------
\* What a call stands for.

\* What a call or an instance of ottr:Triple stands for, row by row.
Means(name, env, t) ==
    IF name = OTTR_TRIPLE THEN ~IsIgnored(OTTR_TRIPLE, env) /\ t = TripleFor(env) ELSE Gives(<<name, env>>, t)
Yields(name, x, t) == \E env \in FrameEnvs(x) : Means(name, env, t)

\* The rows of a call are values that the definition gives to its template.
IsDenoted(name, env) == <<name, env>> \in EverDenoted /\ ~IsIgnored(name, env)
CallDenotes(c) ==
    c.name # OTTR_TRIPLE => FrameEnvs(c) # {} /\ \A env \in FrameEnvs(c) : IsDenoted(c.name, env)

\* What the definition makes of an instance and the values of its arguments.
Said(instance, env, t) == \E f \in EnvsOf(instance, env, FALSE) : Gives(<<instance.template_name, f>>, t)

LEMMA DenotedByInstance ==
    ASSUME IsAcyclic, NEW name, NEW env, IsDenoted(name, env), NEW i \in DOMAIN BodyOf(name),
           NEW f, f \in EnvsOf(BodyOf(name)[i], env, FALSE)
    PROVE  <<BodyOf(name)[i].template_name, f>> \in EverDenoted
<1>1. PICK x : x = <<name, env>> OBVIOUS
<1>2. x[1] = name /\ x[2] = env BY <1>1
<1>3. x \in EverDenoted /\ ~IsIgnored(x[1], x[2]) BY <1>1, <1>2 DEF IsDenoted
<1>4. CalledBy(x, FALSE) \subseteq EverDenoted BY <1>3, LevelsSuffice
<1>. DEFINE said(j) == { <<BodyOf(x[1])[j].template_name, e>> : e \in EnvsOf(BodyOf(x[1])[j], x[2], FALSE) }
<1>5. CalledBy(x, FALSE) = UNION { said(j) : j \in DOMAIN BodyOf(x[1]) } BY DEF CalledBy
<1>6. <<BodyOf(x[1])[i].template_name, f>> \in said(i) BY <1>2
<1>. HIDE DEF said
<1>7. <<BodyOf(x[1])[i].template_name, f>> \in CalledBy(x, FALSE) BY <1>2, <1>5, <1>6
<1>. QED BY <1>2, <1>4, <1>7

\* A template gives what its instances say.
LEMMA GivenByInstances ==
    ASSUME IsAcyclic, NEW name, NEW env, IsDenoted(name, env), name # OTTR_TRIPLE, NEW t
    PROVE  Gives(<<name, env>>, t) <=> \E i \in DOMAIN BodyOf(name) : Said(BodyOf(name)[i], env, t)
<1>1. PICK x : x = <<name, env>> OBVIOUS
<1>2. x[1] = name /\ x[2] = env BY <1>1
<1>3. x \in EverDenoted /\ ~IsIgnored(x[1], x[2]) /\ x[1] # OTTR_TRIPLE BY <1>1, <1>2 DEF IsDenoted
<1>4. Gives(x, t) <=> \E y \in CalledBy(x, FALSE) : Gives(y, t) BY <1>3, GivenByCalled
<1>. DEFINE said(j) == { <<BodyOf(name)[j].template_name, e>> : e \in EnvsOf(BodyOf(name)[j], env, FALSE) }
<1>5. CalledBy(x, FALSE) = UNION { said(j) : j \in DOMAIN BodyOf(name) } BY <1>2 DEF CalledBy
<1>6. ASSUME NEW j \in DOMAIN BodyOf(name)
      PROVE  (\E y \in said(j) : Gives(y, t)) <=> Said(BodyOf(name)[j], env, t)
  BY DEF Said
<1>. HIDE DEF said
<1>7. (\E y \in CalledBy(x, FALSE) : Gives(y, t)) <=> \E j \in DOMAIN BodyOf(name) : \E y \in said(j) : Gives(y, t)
  BY <1>5
<1>. QED BY <1>1, <1>4, <1>6, <1>7

\* What becomes of an instance stands for what it says of every row of its call.
LEMMA BranchYields ==
    ASSUME IsAcyclic, IsSafe, NoneOnlyInTriples, NEW call, HasTypedRows(call), CallFits(call), CallDenotes(call),
           call.name # OTTR_TRIPLE, NEW i \in DOMAIN BodyOf(call.name),
           NEW R, R = Remapped(call, i, BodyOf(call.name)[i], CalleeOf(BodyOf(call.name)[i]))
    PROVE  /\ R.name = BodyOf(call.name)[i].template_name /\ CallDenotes(R)
           /\ \A t : Yields(R.name, R, t) <=> \E env \in FrameEnvs(call) : Said(BodyOf(call.name)[i], env, t)
<1>1. PICK instance, es : instance = BodyOf(call.name)[i] /\ es = FrameEnvs(call) OBVIOUS
<1>2. IsFormed(call, instance, CalleeOf(instance)) BY <1>1, FormedSafely
<1>3. R.name = instance.template_name BY <1>1, <1>2, ColumnsOfRemapped
<1>4. es # {} /\ \A env \in es : IsMet(call.name, env) /\ IsOfCall(env, call) /\ IsDenoted(call.name, env)
  BY <1>1, EnvsAreOfCall DEF CallFits, MeetsAll, CallDenotes
<1>5. IsGiven(es, call, instance) BY <1>1, <1>4 DEF IsGiven
<1>6. \A env \in es : /\ HasCells(instance, env) /\ ListsFit(instance, env)
                      /\ CanTake(call, instance, env)
  BY <1>1, <1>4, TakenSafely
<1>7. \A f : f \in FrameEnvs(R) <=> \E env \in es : f \in EnvsOf(instance, env, TRUE) /\ ~IsDropped(instance, f)
  <2>1. \A env \in es : CanTake(call, instance, env) BY <1>6
  <2>2. \A f : f \in FrameEnvs(Remapped(call, i, instance, CalleeOf(instance)))
                 <=> \E env \in es : f \in EnvsOf(instance, env, TRUE) /\ ~IsDropped(instance, f)
    BY <1>2, <1>5, <2>1, RemappedEnvs
  <2>. QED BY <1>1, <2>2
<1>8. ASSUME NEW env \in es, NEW f, f \in EnvsOf(instance, env, FALSE)
      PROVE  <<instance.template_name, f>> \in EverDenoted
  <2>1. IsDenoted(call.name, env) /\ f \in EnvsOf(BodyOf(call.name)[i], env, FALSE) BY <1>1, <1>4, <1>8
  <2>. QED BY <1>1, <2>1, DenotedByInstance
<1>9. CASE instance.template_name # OTTR_TRIPLE
  <2>1. ASSUME NEW env \in es PROVE ~MeetsNone(instance, env)
    <3>1. PICK x : x = <<call.name, env>> OBVIOUS
    <3>2. x \in EverMet /\ x[1] = call.name /\ x[2] = env BY <1>4, <3>1 DEF IsMet
    <3>3. \A j \in DOMAIN BodyOf(x[1]) : BodyOf(x[1])[j].template_name = OTTR_TRIPLE \/ ~MeetsNone(BodyOf(x[1])[j], x[2])
      BY <3>2 DEF NoneOnlyInTriples
    <3>. QED BY <1>1, <1>9, <3>2, <3>3
  <2>2. ASSUME NEW env \in es
        PROVE  /\ EnvsOf(instance, env, TRUE) = EnvsOf(instance, env, FALSE)
               /\ \A f \in EnvsOf(instance, env, TRUE) : ~HasNone(instance, f) /\ ~IsIgnored(instance.template_name, f)
    <3>1. HasCells(instance, env) /\ ListsFit(instance, env) /\ ~MeetsNone(instance, env) BY <1>6, <2>1
    <3>. QED BY ONLY <1>2, <3>1, NoneMet
  <2>3. \A f : f \in FrameEnvs(R) <=> \E env \in es : f \in EnvsOf(instance, env, FALSE)
    BY <1>7, <2>2 DEF IsDropped
  <2>4. FrameEnvs(R) # {}
    <3>1. PICK env \in es : TRUE BY <1>4
    <3>2. PICK f : f \in EnvsOf(instance, env, TRUE) BY <1>6, SomethingIsSaid
    <3>3. f \in EnvsOf(instance, env, FALSE) BY <2>2, <3>2
    <3>. QED BY <2>3, <3>3
  <2>5. \A f \in FrameEnvs(R) : IsDenoted(instance.template_name, f)
    <3>1. ASSUME NEW f \in FrameEnvs(R) PROVE IsDenoted(instance.template_name, f)
      <4>1. PICK env \in es : f \in EnvsOf(instance, env, FALSE) BY <2>3
      <4>2. <<instance.template_name, f>> \in EverDenoted BY <1>8, <4>1
      <4>3. f \in EnvsOf(instance, env, TRUE) BY <2>2, <4>1
      <4>4. ~IsIgnored(instance.template_name, f) BY <2>2, <4>3
      <4>. QED BY <4>2, <4>4 DEF IsDenoted
    <3>. QED BY <3>1
  <2>6. CallDenotes(R) BY <1>3, <2>4, <2>5 DEF CallDenotes
  <2>7. ASSUME NEW t PROVE Yields(R.name, R, t) <=> \E env \in es : Said(instance, env, t)
    <3>1. Yields(R.name, R, t) <=> \E f \in FrameEnvs(R) : Gives(<<instance.template_name, f>>, t)
      BY <1>3, <1>9 DEF Yields, Means
    <3>. QED BY <2>3, <3>1 DEF Said
  <2>. QED BY <1>1, <1>3, <2>6, <2>7
<1>10. CASE instance.template_name = OTTR_TRIPLE
  <2>1. CallDenotes(R) BY <1>3, <1>10 DEF CallDenotes
  <2>2. ASSUME NEW env \in es, NEW f, ~IsIgnored(OTTR_TRIPLE, f)
        PROVE  f \in EnvsOf(instance, env, TRUE) /\ ~IsDropped(instance, f) <=> f \in EnvsOf(instance, env, FALSE)
    <3>1. ~HasNone(instance, f)
      <4>1. IsDataset(input.templates) BY DEF IsAcyclic
      <4>. QED BY <1>2, <1>10, <2>2, <4>1, NoneInTriple DEF IsDataset, CalleeOf
    <3>2. HasCells(instance, env) /\ ListsFit(instance, env) BY <1>6
    <3>3. f \in EnvsOf(instance, env, TRUE) <=> f \in EnvsOf(instance, env, FALSE)
      BY ONLY <1>2, <3>1, <3>2, SameWhole
    <3>. QED BY <3>1, <3>3 DEF IsDropped
  <2>3. ASSUME NEW env \in es, NEW f, f \in EnvsOf(instance, env, FALSE), NEW t
        PROVE  Gives(<<OTTR_TRIPLE, f>>, t) <=> ~IsIgnored(OTTR_TRIPLE, f) /\ t = TripleFor(f)
    <3>1. PICK x : x = <<OTTR_TRIPLE, f>> OBVIOUS
    <3>2. x \in EverDenoted BY <1>8, <1>10, <2>3, <3>1
    <3>3. x[1] = OTTR_TRIPLE /\ x[2] = f BY <3>1
    <3>4. Gives(x, t) <=> ~IsIgnored(x[1], x[2]) /\ t = TripleFor(x[2]) BY <3>2, <3>3, GivenByTriple
    <3>. QED BY <3>1, <3>3, <3>4
  <2>4. ASSUME NEW t PROVE Yields(R.name, R, t) <=> \E env \in es : Said(instance, env, t)
    <3>1. Yields(R.name, R, t) <=> \E f \in FrameEnvs(R) : ~IsIgnored(OTTR_TRIPLE, f) /\ t = TripleFor(f)
      BY <1>3, <1>10 DEF Yields, Means
    <3>2. Yields(R.name, R, t)
            <=> \E env \in es : \E f \in EnvsOf(instance, env, FALSE) : ~IsIgnored(OTTR_TRIPLE, f) /\ t = TripleFor(f)
      BY <1>7, <2>2, <3>1
    <3>. QED BY <1>10, <2>3, <3>2 DEF Said
  <2>. QED BY <1>1, <1>3, <2>1, <2>4
<1>. QED BY <1>9, <1>10

----------------------------------------------------------------------------
\* What is added is what the rows stand for.

\* The triples of the rows are those that the calls and the instances stand for.
StandsForRows(t) == \/ \E c \in calls : Yields(c.name, c, t)
                    \/ \E i \in instances : Yields(OTTR_TRIPLE, i, t)
AllDenote == /\ \A c \in calls : CallDenotes(c)
             /\ \A t : t \in TriplesOfRows <=> StandsForRows(t)
ExactInv == /\ stage = "expanding" /\ IsSafe /\ NoneOnlyInTriples => AllDenote
            /\ TriplesAreExact

LEMMA SameYields ==
    ASSUME input' = input
    PROVE  /\ \A n, x, t : Yields(n, x, t)' <=> Yields(n, x, t)
           /\ \A c : CallDenotes(c)' <=> CallDenotes(c)
<1>1. \A n, env, t : Means(n, env, t)' <=> Means(n, env, t) BY SameDenoted, SameGiven DEF Means
<1>2. \A n, env : IsDenoted(n, env)' <=> IsDenoted(n, env) BY SameDenoted DEF IsDenoted
<1>. QED BY <1>1, <1>2 DEF Yields, CallDenotes

\* The first call stands for the rows of the frame.
LEMMA FirstDenotes ==
    ASSUME InputOK, IsAcyclic, IsSafe, NoneOnlyInTriples
    PROVE  /\ CallDenotes(FirstCall)
           /\ \A t : t \in TriplesOfRows <=> Yields(FirstCall.name, FirstCall, t)
<1>1. IsValid /\ input.df.rows # <<>> BY DEF IsSafe, NoneOnlyInTriples
<1>2. PICK first, es : first = FirstCall /\ es = FrameEnvs(first) OBVIOUS
<1>3. es = RowEnvs /\ es # {} BY <1>1, <1>2, FirstEnvs
<1>4. \A env \in es : <<first.name, env>> \in EverDenoted BY <1>2, <1>3, LevelsSuffice
<1>5. ASSUME NEW env \in es PROVE ~IsIgnored(first.name, env)
  <2>1. PICK m \in DOMAIN input.df.rows :
            env = [c \in Formals(target) |-> [cell |-> input.df.rows[m][c], type |-> FirstCall.dynamic_columns[c]]]
    BY <1>3 DEF RowEnvs
  <2>2. input.templates[first.name] = target BY <1>2 DEF FirstCall, target
  <2>3. ASSUME NEW n \in DOMAIN target.parameters, env[target.parameters[n].variable].cell = Null
        PROVE  target.parameters[n].optional
    <3>1. PICK p : p = target.parameters[n] OBVIOUS
    <3>2. p.variable \in Formals(target) BY <3>1 DEF Formals, Formal
    <3>3. env[p.variable].cell = input.df.rows[m][p.variable] BY <2>1, <3>2
    <3>4. HasColumn(input.df, p) BY <1>1, <3>1 DEF IsValid
    <3>5. Null \in { input.df.rows[k][p.variable] : k \in DOMAIN input.df.rows } BY <2>3, <3>1, <3>3
    <3>6. p.optional BY <3>4, <3>5 DEF HasColumn
    <3>. QED BY <3>1, <3>6
  <2>. QED BY <2>2, <2>3 DEF IsIgnored
<1>6. CallDenotes(first) BY <1>2, <1>3, <1>4, <1>5 DEF CallDenotes, IsDenoted
<1>7. ASSUME NEW t PROVE t \in TriplesOfRows <=> Yields(first.name, first, t)
  <2>1. t \in TriplesOfRows <=> \E env \in es : Gives(<<first.name, env>>, t) BY <1>2, <1>3, TriplesGiven
  <2>2. ASSUME NEW env \in es PROVE Means(first.name, env, t) <=> Gives(<<first.name, env>>, t)
    <3>1. CASE first.name # OTTR_TRIPLE BY <3>1 DEF Means
    <3>2. CASE first.name = OTTR_TRIPLE
      <4>1. PICK x : x = <<first.name, env>> OBVIOUS
      <4>2. x \in EverDenoted /\ x[1] = OTTR_TRIPLE /\ x[2] = env BY <1>4, <3>2, <4>1
      <4>3. Gives(x, t) <=> ~IsIgnored(x[1], x[2]) /\ t = TripleFor(x[2]) BY <4>2, GivenByTriple
      <4>. QED BY <3>2, <4>1, <4>2, <4>3 DEF Means
    <3>. QED BY <3>1, <3>2
  <2>. QED BY <1>2, <2>1, <2>2 DEF Yields
<1>. QED BY <1>2, <1>6, <1>7

LEMMA ExpandExactInv ==
    ASSUME IInv, Expand PROVE ExactInv'
<1>1. UNCHANGED <<input, instances>> /\ instances = {} /\ stage' # "ok"
  BY DEF Expand, IInv, NothingBefore, Validation
<1>2. ASSUME stage' = "expanding", IsSafe', NoneOnlyInTriples' PROVE AllDenote'
  <2>1. IsSafe /\ NoneOnlyInTriples BY <1>1, <1>2, SameSafety, SameDenoted
  <2>2. PICK first : first = FirstCall OBVIOUS
  <2>3. calls' = {first} BY <1>2, <2>2 DEF Expand
  <2>4. CallDenotes(first) /\ \A t : t \in TriplesOfRows <=> Yields(first.name, first, t)
    BY <2>1, <2>2, SafelyAcyclic, FirstDenotes DEF IInv
  <2>5. \A c \in calls' : CallDenotes(c)' BY <1>1, <2>3, <2>4, SameYields
  <2>6. ASSUME NEW t PROVE (t \in TriplesOfRows <=> StandsForRows(t))'
    <3>1. StandsForRows(t)' <=> Yields(first.name, first, t)'
      BY <1>1, <2>3 DEF StandsForRows
    <3>2. Yields(first.name, first, t)' <=> Yields(first.name, first, t) BY <1>1, SameYields
    <3>3. TriplesOfRows' = TriplesOfRows BY <1>1, SameDenoted
    <3>. QED BY <2>4, <3>1, <3>2, <3>3
  <2>. QED BY <2>5, <2>6 DEF AllDenote
<1>. QED BY <1>1, <1>2 DEF ExactInv, TriplesAreExact

\* In the recursion the triples of the rows stay what they are.
LEMMA RecursionIsExact ==
    ASSUME UNCHANGED input, IsSafe /\ NoneOnlyInTriples => AllDenote,
           stage' # "ok",
           ASSUME IsSafe, NoneOnlyInTriples, AllDenote, stage' = "expanding"
           PROVE  /\ \A c \in calls' : CallDenotes(c)
                  /\ \A t : StandsForRows(t)
                        <=> (\E c \in calls' : Yields(c.name, c, t)) \/ (\E i \in instances' : Yields(OTTR_TRIPLE, i, t))
    PROVE  ExactInv'
<1>1. ASSUME stage' = "expanding", IsSafe', NoneOnlyInTriples' PROVE AllDenote'
  <2>1. IsSafe /\ NoneOnlyInTriples BY <1>1, SameSafety, SameDenoted
  <2>2. AllDenote BY <2>1
  <2>3. /\ \A c \in calls' : CallDenotes(c)
        /\ \A t : StandsForRows(t)
              <=> (\E c \in calls' : Yields(c.name, c, t)) \/ (\E i \in instances' : Yields(OTTR_TRIPLE, i, t))
    BY <1>1, <2>1, <2>2
  <2>4. \A c \in calls' : CallDenotes(c)' BY <2>3, SameYields
  <2>5. ASSUME NEW t PROVE (t \in TriplesOfRows <=> StandsForRows(t))'
    <3>1. StandsForRows(t)' <=> (\E c \in calls' : Yields(c.name, c, t)) \/ (\E i \in instances' : Yields(OTTR_TRIPLE, i, t))
      BY SameYields DEF StandsForRows
    <3>2. TriplesOfRows' = TriplesOfRows BY SameDenoted
    <3>3. t \in TriplesOfRows <=> StandsForRows(t) BY <2>2 DEF AllDenote
    <3>. QED BY <2>3, <3>1, <3>2, <3>3
  <2>. QED BY <2>4, <2>5 DEF AllDenote
<1>. QED BY <1>1 DEF ExactInv, TriplesAreExact

LEMMA EmitExactInv ==
    ASSUME ExactInv, stage = "expanding", NEW call \in calls, Emit(call) PROVE ExactInv'
<1>1. PICK instance : instance = [path |-> call.path, rows |-> call.rows,
            dynamic_columns |-> call.dynamic_columns, static_columns |-> call.static_columns,
            has_unique_subset |-> call.unique_subsets # {}]
  OBVIOUS
<1>2. /\ UNCHANGED <<input, stage>> /\ calls' = calls \ {call}
      /\ instances' = instances \union {instance} /\ call.name = OTTR_TRIPLE
  BY <1>1 DEF Emit
<1>3. FrameEnvs(instance) = FrameEnvs(call) BY <1>1 DEF FrameEnvs, EnvOf
<1>4. \A t : Yields(OTTR_TRIPLE, instance, t) <=> Yields(call.name, call, t) BY <1>2, <1>3 DEF Yields
<1>5. ASSUME AllDenote
      PROVE  /\ \A c \in calls' : CallDenotes(c)
             /\ \A t : StandsForRows(t)
                   <=> (\E c \in calls' : Yields(c.name, c, t)) \/ (\E i \in instances' : Yields(OTTR_TRIPLE, i, t))
  <2>1. \A c \in calls' : CallDenotes(c) BY <1>2, <1>5 DEF AllDenote
  <2>2. ASSUME NEW t
        PROVE  StandsForRows(t)
                 <=> (\E c \in calls' : Yields(c.name, c, t)) \/ (\E i \in instances' : Yields(OTTR_TRIPLE, i, t))
    BY <1>2, <1>4 DEF StandsForRows
  <2>. QED BY <2>1, <2>2
<1>6. IsSafe /\ NoneOnlyInTriples => AllDenote BY DEF ExactInv
<1>. QED BY <1>2, <1>5, <1>6, RecursionIsExact

LEMMA InstantiateExactInv ==
    ASSUME IInv, TypeInv, SafeInv, ExactInv, stage = "expanding", NEW call \in calls, Instantiate(call)
    PROVE  ExactInv'
<1>1. /\ UNCHANGED <<input, stage, instances>> /\ call.name # OTTR_TRIPLE
      /\ calls' = (calls \ {call}) \union { RemappedAt(call, i) : i \in Branches(call) }
  BY DEF Instantiate
<1>2. ASSUME IsSafe, NoneOnlyInTriples, AllDenote
      PROVE  /\ \A c \in calls' : CallDenotes(c)
             /\ \A t : StandsForRows(t)
                   <=> (\E c \in calls' : Yields(c.name, c, t)) \/ (\E i \in instances' : Yields(OTTR_TRIPLE, i, t))
  <2>1. IsAcyclic /\ CallFits(call) /\ HasTypedRows(call) /\ CallDenotes(call)
    BY <1>2, SafelyAcyclic DEF SafeInv, AllFit, TypeInv, AllDenote
  <2>2. Branches(call) = DOMAIN BodyOf(call.name)
    BY <1>1, <1>2, SafelyInstantiated DEF InstancesOf, BodyOf
  <2>3. PICK new : new = [i \in DOMAIN BodyOf(call.name) |-> RemappedAt(call, i)] OBVIOUS
  <2>4. calls' = (calls \ {call}) \union { new[i] : i \in DOMAIN BodyOf(call.name) } BY <1>1, <2>2, <2>3
  <2>5. ASSUME NEW i \in DOMAIN BodyOf(call.name)
        PROVE  /\ CallDenotes(new[i])
               /\ \A t : Yields(new[i].name, new[i], t)
                            <=> \E env \in FrameEnvs(call) : Said(BodyOf(call.name)[i], env, t)
    <3>1. PICK R : R = Remapped(call, i, BodyOf(call.name)[i], CalleeOf(BodyOf(call.name)[i])) OBVIOUS
    <3>2. new[i] = R BY <2>3, <3>1 DEF RemappedAt, InstancesOf, BodyOf
    <3>3. CallDenotes(R) /\ \A t : Yields(R.name, R, t) <=> \E env \in FrameEnvs(call) : Said(BodyOf(call.name)[i], env, t)
      BY <1>1, <1>2, <2>1, <3>1, BranchYields
    <3>. QED BY <3>2, <3>3
  <2>6. ASSUME NEW t
        PROVE  Yields(call.name, call, t) <=> \E i \in DOMAIN BodyOf(call.name) : Yields(new[i].name, new[i], t)
    <3>1. ASSUME NEW env \in FrameEnvs(call)
          PROVE  Means(call.name, env, t) <=> \E i \in DOMAIN BodyOf(call.name) : Said(BodyOf(call.name)[i], env, t)
      <4>1. IsDenoted(call.name, env) BY <1>1, <2>1 DEF CallDenotes
      <4>2. Gives(<<call.name, env>>, t) <=> \E i \in DOMAIN BodyOf(call.name) : Said(BodyOf(call.name)[i], env, t)
        BY <1>1, <2>1, <4>1, GivenByInstances
      <4>. QED BY <1>1, <4>2 DEF Means
    <3>2. Yields(call.name, call, t) <=> \E env \in FrameEnvs(call) : Means(call.name, env, t) BY DEF Yields
    <3>3. Yields(call.name, call, t)
            <=> \E env \in FrameEnvs(call) : \E i \in DOMAIN BodyOf(call.name) : Said(BodyOf(call.name)[i], env, t)
      BY <3>1, <3>2
    <3>. QED BY <2>5, <3>3
  <2>7. \A c \in calls' : CallDenotes(c) BY <1>2, <2>4, <2>5 DEF AllDenote
  <2>8. ASSUME NEW t
        PROVE  StandsForRows(t)
                 <=> (\E c \in calls' : Yields(c.name, c, t)) \/ (\E i \in instances' : Yields(OTTR_TRIPLE, i, t))
    <3>1. (\E c \in calls : Yields(c.name, c, t)) <=> (\E c \in calls' : Yields(c.name, c, t))
      BY <2>4, <2>6
    <3>. QED BY <1>1, <3>1 DEF StandsForRows
  <2>. QED BY <2>7, <2>8
<1>3. IsSafe /\ NoneOnlyInTriples => AllDenote BY DEF ExactInv
<1>. QED BY <1>1, <1>2, <1>3, RecursionIsExact

\* What is created at the end are the triples that the instances stand for.
LEMMA ProcessResultsExactInv ==
    ASSUME IInv, SafeInv, ExactInv, ProcessResults PROVE ExactInv'
<1>1. /\ UNCHANGED <<input, calls, instances>> /\ stage' \in {"ok", "error", "panicked"}
      /\ stage = "expanding" /\ calls = {}
      /\ stage' = "ok" => added' = { TriplesOf(i) : i \in instances }
  BY DEF ProcessResults, Expanded
<1>2. ASSUME stage' = "ok", IsSafe', NoneOnlyInTriples'
      PROVE  UNION { TriplesIn(a) : a \in added' } = TriplesOfRows
  <2>1. IsSafe /\ NoneOnlyInTriples BY <1>1, <1>2, SameSafety, SameDenoted
  <2>2. AllDenote /\ AllFit BY <1>1, <2>1 DEF ExactInv, SafeInv
  <2>3. ASSUME NEW i \in instances, NEW t PROVE t \in TriplesIn(TriplesOf(i)) <=> Yields(OTTR_TRIPLE, i, t)
    <3>1. IsDataset(input.templates) /\ HasParametersOnce(i) /\ HasTypedRows(i) /\ ~CreateFails(i)
      BY <2>2 DEF IInv, InputOK, InstancesAreTriples, HasParametersOnce, SafeInv, AllFit, CanBeCreated
    <3>2. t \in TriplesIn(TriplesOf(i)) <=> \E env \in FrameEnvs(i) : ~IsIgnored(OTTR_TRIPLE, env) /\ t = TripleFor(env)
      BY <3>1, CreatedTriples
    <3>. QED BY <3>2 DEF Yields, Means
  <2>4. \A t : t \in TriplesOfRows <=> \E i \in instances : Yields(OTTR_TRIPLE, i, t)
    BY <1>1, <2>2 DEF AllDenote, StandsForRows
  <2>. DEFINE of(i) == TriplesIn(TriplesOf(i))
  <2>5. UNION { TriplesIn(a) : a \in added' } = UNION { of(i) : i \in instances } BY <1>1, <1>2
  <2>6. \A i \in instances : \A t : t \in of(i) <=> Yields(OTTR_TRIPLE, i, t) BY <2>3
  <2>. HIDE DEF of
  <2>. QED BY <2>4, <2>5, <2>6
<1>3. TriplesOfRows' = TriplesOfRows BY <1>1, SameDenoted
<1>4. TriplesAreExact'
  <2>1. (UNION { TriplesIn(a) : a \in added })' = UNION { TriplesIn(a) : a \in added' } BY DEF TriplesIn, IsWhole
  <2>. QED BY <1>2, <1>3, <2>1 DEF TriplesAreExact
<1>. QED BY <1>1, <1>4 DEF ExactInv

LEMMA InitExactInv == Init => ExactInv
BY DEF Init, ExactInv, TriplesAreExact

\* Expansions that have not begun, or have stopped, add nothing.
LEMMA OtherwiseExact ==
    ASSUME stage' \notin {"expanding", "ok"} PROVE ExactInv'
BY DEF ExactInv, TriplesAreExact

LEMMA NextExactInv == IInv /\ TypeInv /\ SafeInv /\ ExactInv /\ [Next]_vars => ExactInv'
<1>. SUFFICES ASSUME IInv, TypeInv, SafeInv, ExactInv, [Next]_vars PROVE ExactInv' OBVIOUS
<1>1. CASE ExpandDefault
  <2>1. stage' \in {"panicked", "called"} BY <1>1 DEF ExpandDefault
  <2>. QED BY <2>1, OtherwiseExact
<1>2. CASE Expand BY <1>2, ExpandExactInv
<1>3. ASSUME stage = "expanding", NEW call \in calls,
             Emit(call) \/ Instantiate(call) \/ InstantiatePanics(call) \/ StackOverflows(call)
      PROVE  ExactInv'
  <2>1. CASE InstantiatePanics(call) \/ StackOverflows(call)
    <3>1. stage' \in {"panicked", "overflowed"} BY <2>1 DEF InstantiatePanics, StackOverflows
    <3>. QED BY <3>1, OtherwiseExact
  <2>. QED BY <1>3, <2>1, EmitExactInv, InstantiateExactInv
<1>4. CASE ProcessResults BY <1>4, ProcessResultsExactInv
<1>5. CASE UNCHANGED vars
  <2>1. UNCHANGED <<input, stage, calls, instances, added>> BY <1>5 DEF vars
  <2>2. (IsSafe' <=> IsSafe) /\ (NoneOnlyInTriples' <=> NoneOnlyInTriples) /\ TriplesOfRows' = TriplesOfRows
    BY <2>1, SameSafety, SameDenoted
  <2>3. ASSUME AllDenote PROVE AllDenote'
    <3>1. \A c \in calls' : CallDenotes(c)' BY <2>1, <2>3, SameYields DEF AllDenote
    <3>2. ASSUME NEW t PROVE StandsForRows(t)' <=> StandsForRows(t)
      BY <2>1, SameYields DEF StandsForRows
    <3>. QED BY <2>2, <2>3, <3>1, <3>2 DEF AllDenote
  <2>4. TriplesAreExact'
    <3>1. (UNION { TriplesIn(t) : t \in added })' = UNION { TriplesIn(t) : t \in added }
      BY <2>1 DEF TriplesIn, IsWhole
    <3>. QED BY <2>1, <2>2, <3>1 DEF ExactInv, TriplesAreExact
  <2>. QED BY <2>1, <2>2, <2>3, <2>4 DEF ExactInv
<1>. QED BY <1>1, <1>2, <1>3, <1>4, <1>5 DEF Next

\* Where the code follows the definition of OTTR, what is added at the end of an
\* expansion are the triples that the definition gives for the rows of the frame:
\* every call of _expand stands for the values of the parameters that the rows
\* would hand on, and an instance for the triples of its own.
THEOREM WhatIsAddedIsWhatIsMeant == Spec => []TriplesAreExact
<1>1. ExactInv => TriplesAreExact BY DEF ExactInv
<1>. QED BY <1>1, InitIInv, NextIInv, InitTypeInv, NextTypeInv, InitSafeInv, NextSafeInv, InitExactInv, NextExactInv,
            PTL DEF Spec
=============================================================================

--------------------------- MODULE ChunkingProofs ---------------------------
(***************************************************************************)
(* The slicing loop loses no row, takes every row after its second chunk   *)
(* more than once, has taken the slices of its closed form when it ends,   *)
(* and with more parts than rows it does not return without an error, for  *)
(* frames of any height and size.                                          *)
(***************************************************************************)
EXTENDS Chunking, TLAPS

\* The inductive invariant.  Its last parts tie the end of the loop to the
\* offset, and the offset to the size of a chunk.
LoopTypes ==
    /\ height \in Nat
    /\ n_of_size \in Nat \ {0}
    /\ offset \in Nat
    /\ stage \in {"loop", "ok", "error"}
    /\ taken \in [DataRows -> Nat]
RowsBeforeOffset == \A r \in DataRows : r < offset => taken[r] > 0
EndIsPastLastRow == stage = "ok" => offset >= height
EmptyChunksStay  == chunk_size = 0 => offset = 0
IInv == LoopTypes /\ RowsBeforeOffset /\ EndIsPastLastRow /\ EmptyChunksStay

\* A chunk has a natural number of rows, none if there are more parts than rows.
LEMMA ChunkSizeIsNat ==
    ASSUME NEW h \in Nat, NEW n \in Nat \ {0}
    PROVE  ChunkSize(h, n) \in Nat /\ (h < n => ChunkSize(h, n) = 0)
BY Z3 DEF ChunkSize

\* The slice taken at an offset holds every row of its chunk.
LEMMA SliceHoldsChunk ==
    ASSUME NEW h \in Nat, NEW c \in Nat, NEW o \in Nat,
           NEW r \in 0 .. h - 1, o <= r, r < o + c
    PROVE  r \in LoopSlice(h, c, o)
BY DEF LoopSlice, SlicePar, ToRow

\* Init establishes the inductive invariant.
LEMMA LoopInit == Init => IInv
BY ChunkingAssumption
   DEF Init, IInv, LoopTypes, RowsBeforeOffset, EndIsPastLastRow, EmptyChunksStay, DataRows

\* Every step preserves it.
LEMMA LoopStep == IInv /\ [Next]_vars => IInv'
<1> SUFFICES ASSUME IInv, [Next]_vars PROVE IInv'
    OBVIOUS
<1> USE DEF IInv, LoopTypes
<1>1. CASE Turn
  <2>1. chunk_size \in Nat
      BY ChunkSizeIsNat DEF chunk_size
  <2>2. chunk_size' = chunk_size /\ DataRows' = DataRows
      BY <1>1 DEF Turn, chunk_size, DataRows
  <2>3. offset' = offset + chunk_size
      BY <1>1 DEF Turn
  <2>4. \A r \in DataRows : taken'[r] =
            IF r \in LoopSlice(height, chunk_size, offset) THEN taken[r] + 1 ELSE taken[r]
      BY <1>1 DEF Turn
  <2>5. LoopTypes'
      BY <1>1, <2>1, <2>2, <2>3 DEF Turn
  <2>6. RowsBeforeOffset'
    <3> SUFFICES ASSUME NEW r \in DataRows, r < offset' PROVE taken'[r] > 0
        BY <2>2 DEF RowsBeforeOffset
    <3>1. taken[r] \in Nat /\ r \in 0 .. height - 1
        BY DEF DataRows
    <3>2. CASE r < offset
        BY <2>4, <3>1, <3>2 DEF RowsBeforeOffset
    <3>3. CASE r >= offset
      <4>1. r \in LoopSlice(height, chunk_size, offset)
          BY <2>1, <2>3, <3>1, <3>3, SliceHoldsChunk
      <4> QED BY <2>4, <3>1, <4>1
    <3> QED BY <3>1, <3>2, <3>3
  <2>7. EndIsPastLastRow'
      BY <1>1, <2>1 DEF Turn, Ends, EndIsPastLastRow
  <2>8. EmptyChunksStay'
      BY <2>1, <2>2, <2>3 DEF EmptyChunksStay
  <2> QED BY <2>5, <2>6, <2>7, <2>8
<1>2. CASE TurnFails
    BY <1>2 DEF TurnFails, DataRows, RowsBeforeOffset, EndIsPastLastRow, EmptyChunksStay,
                chunk_size
<1>3. CASE UNCHANGED vars
    BY <1>3 DEF vars, DataRows, RowsBeforeOffset, EndIsPastLastRow, EmptyChunksStay,
                chunk_size
<1> QED BY <1>1, <1>2, <1>3 DEF Next

\* The inductive invariant holds in every behaviour.
LEMMA LoopInvariant == Spec => []IInv
BY LoopInit, LoopStep, PTL DEF Spec

\* No row is lost: when expand or split_write_df has gone through a data frame
\* of any height, cut for any number of parts, each row has been in a slice.
THEOREM EveryRowIsTaken == Spec => []EveryRowTaken
<1>1. IInv => EveryRowTaken
    BY DEF IInv, LoopTypes, RowsBeforeOffset, EndIsPastLastRow, EveryRowTaken, DataRows
<1> QED BY <1>1, LoopInvariant, PTL

\* With fewer rows than parts, and at least one, the loop of expand or
\* split_write_df never comes to its regular end.
THEOREM TooFewRowsNeverEnd == Spec => [](stage = "ok" => height >= n_of_size \/ height = 0)
<1>1. IInv => (stage = "ok" => height >= n_of_size \/ height = 0)
    BY ChunkSizeIsNat DEF IInv, LoopTypes, EndIsPastLastRow, EmptyChunksStay, chunk_size
<1> QED BY <1>1, LoopInvariant, PTL

----------------------------------------------------------------------------
\* Multiples of the size of a chunk

LEMMA MultipleHasNoRest ==
    ASSUME NEW c \in Nat \ {0}, NEW q \in Int PROVE (c * q) % c = 0
<1>1. \A p \in Int : (c * p) % c = 0
    BY Z3
<1> QED BY <1>1

LEMMA NoRestIsMultiple ==
    ASSUME NEW c \in Nat \ {0}, NEW o \in Nat, o % c = 0
    PROVE  \E q \in Int : o = c * q
<1>1. o \div c \in Int /\ o = c * (o \div c)
    OBVIOUS
<1> QED BY <1>1

\* The next offset is a multiple, too.
LEMMA NextMultiple ==
    ASSUME NEW c \in Nat \ {0}, NEW o \in Nat, o % c = 0
    PROVE  (o + c) % c = 0
<1>1. PICK q \in Int : o = c * q
    BY NoRestIsMultiple
<1>2. o + c = c * (q + 1)
    BY <1>1
<1>3. (c * (q + 1)) % c = 0
    BY MultipleHasNoRest
<1> QED BY <1>2, <1>3

LEMMA SmallMultipleIsZero ==
    ASSUME NEW c \in Nat \ {0}, NEW k \in Int, 0 <= c * k, c * k < c
    PROVE  k = 0
<1>1. ASSUME k >= 1 PROVE FALSE
  <2>1. c * k >= c
      BY <1>1
  <2> QED BY <2>1
<1>2. ASSUME k <= -1 PROVE FALSE
  <2>1. c * k <= -c
      BY <1>2
  <2> QED BY <2>1
<1> QED BY <1>1, <1>2

\* A chunk has one multiple, the offset it begins at.
LEMMA OneMultipleInChunk ==
    ASSUME NEW c \in Nat \ {0}, NEW o \in Nat, o % c = 0,
           NEW p \in Nat, p % c = 0, o <= p, p < o + c
    PROVE  p = o
<1>1. PICK q \in Int : o = c * q
    BY ONLY NoRestIsMultiple, c \in Nat \ {0}, o \in Nat, o % c = 0
<1>2. PICK r \in Int : p = c * r
    BY ONLY NoRestIsMultiple, c \in Nat \ {0}, p \in Nat, p % c = 0
<1>3. p - o = c * (r - q)
    BY <1>1, <1>2
<1>4. r - q = 0
    BY <1>3, SmallMultipleIsZero
<1> QED BY <1>3, <1>4

LEMMA FirstMultiples ==
    ASSUME NEW c \in Nat \ {0}, NEW o \in Nat, o % c = 0
    PROVE  o = 0 \/ o = c \/ o >= 2 * c
BY Z3

----------------------------------------------------------------------------
\* The offsets, and how often a row is taken

\* The slices taken are those at the multiples of the chunk size before the
\* offset, or at 0 for ever when chunks are empty.
OffsetsSoFar ==
    /\ chunk_size > 0 => /\ offset % chunk_size = 0
                         /\ offsets = { o \in 0 .. offset - 1 : o % chunk_size = 0 }
    /\ chunk_size = 0 => offsets \subseteq {0}

\* The loop turns only if a row is left, or for the first time; when it has
\* ended it has turned once at least, and the last time so.
TurnsWhileRowsLeft ==
    /\ stage = "loop" /\ offset > 0 => offset < height
    /\ stage = "ok" => 0 \in offsets
    /\ stage = "ok" /\ offset > chunk_size => offset - chunk_size < height

\* A row of the first two chunks is taken at the turn of its chunk only; one after
\* them is taken at the turn of the chunk before its own already, and again at its own.
TakenSoFar ==
    \A r \in DataRows :
        /\ r < chunk_size => taken[r] = IF offset > 0 THEN 1 ELSE 0
        /\ chunk_size <= r /\ r < 2 * chunk_size =>
               taken[r] = IF offset > chunk_size THEN 1 ELSE 0
        /\ 2 * chunk_size <= r /\ r < offset + chunk_size => taken[r] >= 1
        /\ 2 * chunk_size <= r /\ r < offset => taken[r] >= 2

SlicesInv == OffsetsSoFar /\ TurnsWhileRowsLeft /\ TakenSoFar

LEMMA SlicesInit == Init => SlicesInv
<1> SUFFICES ASSUME Init PROVE SlicesInv
    OBVIOUS
<1>1. height \in Nat /\ n_of_size \in Nat \ {0} /\ chunk_size \in Nat
    BY ChunkingAssumption, ChunkSizeIsNat DEF Init, chunk_size
<1>2. offset = 0 /\ offsets = {} /\ stage = "loop" /\ \A r \in DataRows : taken[r] = 0
    BY DEF Init
<1>3. OffsetsSoFar
  <2>1. chunk_size > 0 => 0 % chunk_size = 0
      BY <1>1
  <2>2. { o \in 0 .. 0 - 1 : o % chunk_size = 0 } = {}
      OBVIOUS
  <2> QED BY <1>2, <2>1, <2>2 DEF OffsetsSoFar
<1>4. TurnsWhileRowsLeft
    BY <1>1, <1>2 DEF TurnsWhileRowsLeft
<1>5. TakenSoFar
  <2> SUFFICES ASSUME NEW r \in DataRows
               PROVE  /\ r < chunk_size => taken[r] = IF offset > 0 THEN 1 ELSE 0
                      /\ chunk_size <= r /\ r < 2 * chunk_size =>
                            taken[r] = IF offset > chunk_size THEN 1 ELSE 0
                      /\ 2 * chunk_size <= r /\ r < offset + chunk_size => taken[r] >= 1
                      /\ 2 * chunk_size <= r /\ r < offset => taken[r] >= 2
      BY DEF TakenSoFar
  <2>1. taken[r] = 0 /\ r \in Nat
      BY <1>1, <1>2 DEF DataRows
  <2> QED BY <1>1, <1>2, <2>1
<1> QED BY <1>3, <1>4, <1>5 DEF SlicesInv

\* One turn, with chunks that have rows.
LEMMA TurnTakes ==
    ASSUME IInv, SlicesInv, Turn, chunk_size > 0
    PROVE  TakenSoFar'
<1> DEFINE c == chunk_size
<1>1. /\ height \in Nat /\ n_of_size \in Nat \ {0} /\ offset \in Nat /\ c \in Nat \ {0}
      /\ taken \in [DataRows -> Nat] /\ offset % c = 0
    BY ChunkSizeIsNat DEF IInv, LoopTypes, chunk_size, SlicesInv, OffsetsSoFar
<1>2. chunk_size' = c /\ DataRows' = DataRows /\ offset' = offset + c
    BY DEF Turn, chunk_size, DataRows
<1>3. offset = 0 \/ offset = c \/ offset >= 2 * c
    BY <1>1, FirstMultiples
<1> SUFFICES ASSUME NEW r \in DataRows
             PROVE  /\ r < c => taken'[r] = 1
                    /\ c <= r /\ r < 2 * c => taken'[r] = IF offset + c > c THEN 1 ELSE 0
                    /\ 2 * c <= r /\ r < offset + c + c => taken'[r] >= 1
                    /\ 2 * c <= r /\ r < offset + c => taken'[r] >= 2
  <2>1. offset + c > 0 /\ c \in Nat /\ offset + c \in Nat
      BY <1>1
  <2> HIDE DEF c
  <2> SUFFICES ASSUME NEW r \in DataRows
               PROVE  /\ r < c => taken'[r] = IF offset + c > 0 THEN 1 ELSE 0
                      /\ c <= r /\ r < 2 * c => taken'[r] = IF offset + c > c THEN 1 ELSE 0
                      /\ 2 * c <= r /\ r < offset + c + c => taken'[r] >= 1
                      /\ 2 * c <= r /\ r < offset + c => taken'[r] >= 2
      BY <1>2 DEF TakenSoFar
  <2> QED BY <2>1
<1>4. r \in Nat /\ r < height /\ taken[r] \in Nat
    BY <1>1 DEF DataRows
<1>5. /\ r < c => taken[r] = IF offset > 0 THEN 1 ELSE 0
      /\ c <= r /\ r < 2 * c => taken[r] = IF offset > c THEN 1 ELSE 0
      /\ 2 * c <= r /\ r < offset + c => taken[r] >= 1
      /\ 2 * c <= r /\ r < offset => taken[r] >= 2
    BY DEF SlicesInv, TakenSoFar
<1> DEFINE sliced == r \in LoopSlice(height, c, offset)
<1>6. taken'[r] = IF sliced THEN taken[r] + 1 ELSE taken[r]
    BY DEF Turn
<1>7. sliced <=> offset <= r /\ (r < offset + offset + c \/ r < offset + height)
                  /\ (offset + c >= height \/ r < offset + offset + c)
  <2>1. sliced <=> offset <= r /\ r < offset + ToRow(height, c, offset)
      BY <1>1, <1>4 DEF LoopSlice, SlicePar, DataRows
  <2> QED BY <1>1, <1>4, <2>1 DEF ToRow
<1> HIDE DEF c, sliced
<1>8. r < c => taken'[r] = 1
    BY <1>1, <1>3, <1>4, <1>5, <1>6, <1>7
<1>9. c <= r /\ r < 2 * c => taken'[r] = IF offset + c > c THEN 1 ELSE 0
  <2> SUFFICES ASSUME c <= r, r < 2 * c
               PROVE  taken'[r] = IF offset > 0 THEN 1 ELSE 0
      BY <1>1
  <2>1. CASE offset = 0
    <3>1. ~sliced
        BY <1>1, <1>4, <1>7, <2>1
    <3> QED BY <1>1, <1>4, <1>5, <1>6, <2>1, <3>1
  <2>2. CASE offset = c
    <3>1. sliced
        BY <1>1, <1>4, <1>7, <2>2
    <3> QED BY <1>1, <1>4, <1>5, <1>6, <2>2, <3>1
  <2>3. CASE offset >= 2 * c
    <3>1. ~sliced
        BY <1>1, <1>4, <1>7, <2>3
    <3> QED BY <1>1, <1>4, <1>5, <1>6, <2>3, <3>1
  <2> QED BY <1>3, <2>1, <2>2, <2>3
<1>10. 2 * c <= r /\ r < offset + c + c => taken'[r] >= 1
  <2> SUFFICES ASSUME 2 * c <= r, r < offset + c + c, r >= offset + c
               PROVE  taken'[r] >= 1
      BY <1>1, <1>4, <1>5, <1>6
  <2>1. offset >= c
      BY <1>1, <1>3, <1>4
  <2>2. sliced
      BY <1>1, <1>4, <1>7, <2>1
  <2> QED BY <1>4, <1>6, <2>2
<1>11. 2 * c <= r /\ r < offset + c => taken'[r] >= 2
  <2> SUFFICES ASSUME 2 * c <= r, r < offset + c, r >= offset
               PROVE  taken'[r] >= 2
      BY <1>1, <1>4, <1>5, <1>6
  <2>1. sliced
      BY <1>1, <1>4, <1>7
  <2> QED BY <1>4, <1>5, <1>6, <2>1
<1> QED BY <1>8, <1>9, <1>10, <1>11

\* Every step preserves the invariant of the slices.
LEMMA SlicesStep == IInv /\ IInv' /\ SlicesInv /\ [Next]_vars => SlicesInv'
<1> SUFFICES ASSUME IInv, IInv', SlicesInv, [Next]_vars PROVE SlicesInv'
    OBVIOUS
<1>1. /\ height \in Nat /\ n_of_size \in Nat \ {0} /\ offset \in Nat /\ chunk_size \in Nat
      /\ height' = height /\ chunk_size' = chunk_size /\ DataRows' = DataRows
    BY ChunkSizeIsNat
       DEF IInv, LoopTypes, chunk_size, DataRows, Next, Turn, TurnFails, vars
<1>2. CASE Turn
  <2>1. /\ stage = "loop" /\ offset' = offset + chunk_size /\ offsets' = offsets \union {offset}
        /\ stage' = IF offset + chunk_size >= height THEN "ok" ELSE "loop"
      BY <1>2 DEF Turn, Ends
  <2>2. TurnsWhileRowsLeft'
    <3>1. stage' = "ok" => 0 \in offsets'
      <4>1. CASE offset = 0
          BY <2>1, <4>1
      <4>2. CASE offset > 0
        <5>1. chunk_size > 0
            BY <1>1, <4>2 DEF IInv, EmptyChunksStay
        <5>2. 0 \in { o \in 0 .. offset - 1 : o % chunk_size = 0 }
            BY <1>1, <4>2, <5>1
        <5>3. 0 \in offsets
            BY <5>1, <5>2 DEF SlicesInv, OffsetsSoFar
        <5> QED BY <2>1, <5>3
      <4> QED BY <1>1, <4>1, <4>2
    <3>2. stage' = "loop" => offset' < height'
        BY <1>1, <2>1
    <3>3. offset' > chunk_size' => offset' - chunk_size' < height'
        BY <1>1, <2>1 DEF SlicesInv, TurnsWhileRowsLeft
    <3> QED BY <3>1, <3>2, <3>3 DEF TurnsWhileRowsLeft
  <2>3. CASE chunk_size = 0
    <3>1. offset = 0 /\ offset' = 0
        BY <1>1, <2>1, <2>3 DEF IInv, EmptyChunksStay
    <3>2. offsets' \subseteq {0}
        BY <2>1, <2>3, <3>1 DEF SlicesInv, OffsetsSoFar
    <3>3. TakenSoFar'
      <4>1. \A r \in DataRows' : r \in Nat /\ taken'[r] \in Nat /\ taken'[r] = taken[r]
        <5>1. \A r \in DataRows : r \in Nat /\ taken'[r] \in Nat
            BY <1>1 DEF IInv, LoopTypes, DataRows
        <5>2. ASSUME NEW r \in DataRows PROVE r \notin LoopSlice(height, chunk_size, offset)
          <6>1. ToRow(height, chunk_size, offset) = 0
              BY <1>1, <2>3, <3>1 DEF ToRow, DataRows
          <6> QED BY <1>1, <3>1, <5>1, <6>1 DEF LoopSlice, SlicePar
        <5>3. \A r \in DataRows : taken'[r] = taken[r]
            BY <1>2, <5>2 DEF Turn
        <5> QED BY <1>1, <5>1, <5>3
      <4> QED BY <1>1, <2>3, <3>1, <4>1 DEF TakenSoFar, SlicesInv
    <3> QED BY <1>1, <2>2, <2>3, <3>2, <3>3 DEF SlicesInv, OffsetsSoFar
  <2>4. CASE chunk_size > 0
    <3> DEFINE c == chunk_size
               o == offset
    <3>1. o % c = 0 /\ offsets = { p \in 0 .. o - 1 : p % c = 0 }
        BY <2>4 DEF SlicesInv, OffsetsSoFar
    <3>2. c \in Nat \ {0} /\ o \in Nat /\ c' = c /\ o' = o + c /\ offsets' = offsets \union {o}
        BY <1>1, <2>1, <2>4
    <3>3. TakenSoFar'
        BY <1>2, <2>4, TurnTakes
    <3> HIDE DEF c, o
    <3>4. (o + c) % c = 0
        BY <3>1, <3>2, NextMultiple
    <3>5. ASSUME NEW p
          PROVE  p \in offsets' <=> p \in 0 .. o + c - 1 /\ p % c = 0
      <4>1. CASE p \in 0 .. o - 1
          BY <3>1, <3>2, <4>1
      <4>2. CASE p = o
          BY <3>1, <3>2, <4>2
      <4>3. CASE p \notin 0 .. o
        <5>1. ~(p \in 0 .. o + c - 1 /\ p % c = 0)
            BY <3>1, <3>2, <4>3, OneMultipleInChunk
        <5>2. p \notin offsets'
            BY <3>1, <3>2, <4>3
        <5> QED BY <5>1, <5>2
      <4> QED BY <3>2, <4>1, <4>2, <4>3
    <3>6. offsets' = { p \in 0 .. o + c - 1 : p % c = 0 }
        BY <3>5
    <3>7. OffsetsSoFar'
      <4>1. chunk_size' = c /\ offset' = o + c
          BY <3>2, <2>1, <1>1 DEF c, o
      <4> QED BY <3>2, <3>4, <3>6, <4>1 DEF OffsetsSoFar
    <3> QED BY <2>2, <3>3, <3>7 DEF SlicesInv
  <2> QED BY <1>1, <2>3, <2>4
<1>3. CASE TurnFails \/ UNCHANGED vars
  <2>1. /\ UNCHANGED <<offset, offsets, taken>>
        /\ stage' = stage \/ stage' = "error"
      BY <1>3 DEF TurnFails, vars
  <2>2. OffsetsSoFar'
      BY <1>1, <2>1 DEF SlicesInv, OffsetsSoFar
  <2>3. TurnsWhileRowsLeft'
      BY <1>1, <2>1 DEF SlicesInv, TurnsWhileRowsLeft
  <2>4. TakenSoFar'
      BY <1>1, <2>1 DEF SlicesInv, TakenSoFar
  <2> QED BY <2>2, <2>3, <2>4 DEF SlicesInv
<1> QED BY <1>2, <1>3 DEF Next

LEMMA SlicesInvariant == Spec => []SlicesInv
<1>1. IInv /\ SlicesInv /\ [Next]_vars => SlicesInv'
    BY LoopStep, SlicesStep
<1> QED BY <1>1, SlicesInit, LoopInvariant, PTL DEF Spec

----------------------------------------------------------------------------
\* When the loop ends, its slices are those that the triple store's model takes
\* of a frame at once, for frames of any height cut for any number of parts.
THEOREM SlicesAreAsInClosedForm == Spec => []OffsetsAsInClosedForm
<1>1. ASSUME IInv, SlicesInv, stage = "ok" PROVE offsets = LoopOffsets(height, chunk_size)
  <2> DEFINE c == chunk_size
  <2>1. height \in Nat /\ offset \in Nat /\ c \in Nat /\ n_of_size \in Nat \ {0}
      BY <1>1, ChunkSizeIsNat DEF IInv, LoopTypes, chunk_size
  <2>2. offset >= height /\ 0 \in offsets /\ (offset > c => offset - c < height)
      BY <1>1 DEF IInv, EndIsPastLastRow, SlicesInv, TurnsWhileRowsLeft
  <2>3. CASE c = 0
    <3>1. height = 0
        BY <1>1, <2>1, <2>2, <2>3 DEF IInv, EmptyChunksStay
    <3>2. offsets = {0}
        BY <1>1, <2>2, <2>3 DEF SlicesInv, OffsetsSoFar
    <3>3. 0 .. height - 1 = {}
        BY <3>1
    <3> QED BY <3>2, <3>3 DEF LoopOffsets
  <2>4. CASE c > 0
    <3>1. offset % c = 0 /\ offsets = { o \in 0 .. offset - 1 : o % c = 0 }
        BY <1>1, <2>4 DEF SlicesInv, OffsetsSoFar
    <3> HIDE DEF c
    <3>2. ASSUME NEW o \in 0 .. offset - 1, o % c = 0 PROVE o = 0 \/ o < height
      <4>1. CASE offset > c
        <5>1. o + c <= offset
          <6>1. CASE o + c > offset
            <7>1. o <= offset /\ offset < o + c /\ c \in Nat \ {0} /\ o \in Nat
                BY <2>1, <2>4, <6>1
            <7>2. offset = o
                BY <2>1, <3>1, <3>2, <7>1, OneMultipleInChunk
            <7> QED BY <2>1, <7>2
          <6> QED BY <2>1, <6>1
        <5> QED BY <2>1, <2>2, <4>1, <5>1
      <4>2. CASE offset <= c
        <5>1. o < c /\ o \in Nat /\ c \in Nat \ {0}
            BY <2>1, <2>4, <4>2
        <5>2. o = 0
            BY <3>2, <5>1, FirstMultiples
        <5> QED BY <5>2
      <4> QED BY <2>1, <4>1, <4>2
    <3>3. ASSUME NEW o PROVE o \in offsets <=> o = 0 \/ (o \in 0 .. height - 1 /\ o % c = 0)
      <4>1. CASE o \in 0 .. offset - 1 /\ o % c = 0
        <5>1. o \in offsets /\ (o = 0 \/ o < height)
            BY <3>1, <3>2, <4>1
        <5> QED BY <2>1, <4>1, <5>1
      <4>2. CASE ~(o \in 0 .. offset - 1 /\ o % c = 0)
        <5>1. o \notin offsets
            BY <3>1, <4>2
        <5> QED BY <2>1, <2>2, <4>2, <5>1
      <4> QED BY <4>1, <4>2
    <3>4. offsets = LoopOffsets(height, c)
        BY <3>3 DEF LoopOffsets
    <3> QED BY <3>4 DEF c
  <2> QED BY <2>1, <2>3, <2>4
<1>2. IInv /\ SlicesInv => OffsetsAsInClosedForm
    BY <1>1 DEF OffsetsAsInClosedForm
<1> QED BY <1>2, LoopInvariant, SlicesInvariant, PTL

\* Because slice_par takes an end for a length, exactly the rows after the first
\* two chunks are in more than one slice, for frames of any height.
THEOREM OnlyTwoChunksAreTakenOnce == Spec => []TwoChunksAreTakenOnce
<1>1. ASSUME IInv, SlicesInv, stage = "ok", NEW r \in DataRows
      PROVE  taken[r] = 1 <=> r < 2 * chunk_size
  <2>1. /\ height \in Nat /\ offset \in Nat /\ chunk_size \in Nat /\ n_of_size \in Nat \ {0}
        /\ taken[r] \in Nat /\ r \in Nat /\ r < height
      BY <1>1, ChunkSizeIsNat DEF IInv, LoopTypes, chunk_size, DataRows
  <2>2. offset >= height
      BY <1>1 DEF IInv, EndIsPastLastRow
  <2>3. /\ r < chunk_size => taken[r] = IF offset > 0 THEN 1 ELSE 0
        /\ chunk_size <= r /\ r < 2 * chunk_size =>
              taken[r] = IF offset > chunk_size THEN 1 ELSE 0
        /\ 2 * chunk_size <= r /\ r < offset => taken[r] >= 2
      BY <1>1 DEF SlicesInv, TakenSoFar
  <2> QED BY <2>1, <2>2, <2>3
<1>2. IInv /\ SlicesInv => TwoChunksAreTakenOnce
    BY <1>1 DEF TwoChunksAreTakenOnce
<1> QED BY <1>2, LoopInvariant, SlicesInvariant, PTL
=============================================================================

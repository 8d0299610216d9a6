------------------------------ MODULE Chunking ------------------------------
(***************************************************************************)
(* The loop that cuts a data frame into slices, in Mapping::expand with a  *)
(* caching folder (a slice is expanded and its triples added) and in       *)
(* split_write_df (a slice is written to a file).  One turn is one step.   *)
(***************************************************************************)
EXTENDS Chunks

CONSTANTS
    Heights,     \* the numbers of rows a data frame may have
    PartCounts   \* the values of df.estimated_size() / 50_000_000 + 1

ASSUME ChunkingAssumption == Heights \subseteq Nat /\ PartCounts \subseteq Nat \ {0}

VARIABLES
    height,      \* df.height()
    n_of_size,   \* how many parts the size of the frame asks for
    offset,
    stage,       \* "loop", or how the function returned: "ok" or "error"
    offsets,     \* the offsets at which a slice has been taken
    taken        \* how many slices each row has been in

vars == <<height, n_of_size, offset, stage, offsets, taken>>

chunk_size == ChunkSize(height, n_of_size)
DataRows   == 0 .. height - 1

Init ==
    /\ height \in Heights
    /\ n_of_size \in PartCounts
    /\ offset = 0
    /\ stage = "loop"
    /\ offsets = {}
    /\ taken = [r \in DataRows |-> 0]

\* Mutants of Ends: it ends with at most a chunk left; it turns once more.
EndsEarly == offset + chunk_size + chunk_size >= height
EndsLate  == offset + chunk_size > height

\* The loop ends when the next offset is past the last row.
Ends == offset + chunk_size >= height

\* Mutant of Turn: the next offset is to_row rows further on.
TurnByLength ==
    LET to_row == ToRow(height, chunk_size, offset)
    IN  /\ stage = "loop"
        /\ taken' = [r \in DataRows |->
               IF r \in LoopSlice(height, chunk_size, offset) THEN taken[r] + 1 ELSE taken[r]]
        /\ offsets' = offsets \union {offset}
        /\ offset' = offset + to_row
        /\ stage' = IF Ends THEN "ok" ELSE "loop"
        /\ UNCHANGED <<height, n_of_size>>

Turn ==
    /\ stage = "loop"
    /\ taken' = [r \in DataRows |->
           IF r \in LoopSlice(height, chunk_size, offset) THEN taken[r] + 1 ELSE taken[r]]
    /\ offsets' = offsets \union {offset}
    /\ offset' = offset + chunk_size
    /\ stage' = IF Ends THEN "ok" ELSE "loop"
    /\ UNCHANGED <<height, n_of_size>>

\* The slice cannot be expanded or written: the function returns, and what it
\* did with the slices before stays.
TurnFails ==
    /\ stage = "loop"
    /\ stage' = "error"
    /\ UNCHANGED <<height, n_of_size, offset, offsets, taken>>

Next == Turn \/ TurnFails

Spec == Init /\ [][Next]_vars /\ WF_vars(Turn)

----------------------------------------------------------------------------
\* No row is lost: when the loop has ended without an error every row has been
\* in a slice, and at every turn the rows before the offset have.
EveryRowTaken ==
    /\ \A r \in DataRows : r < offset => taken[r] > 0
    /\ stage = "ok" => \A r \in DataRows : taken[r] > 0

\* The closed form that module TripleStore uses for the whole loop.
OffsetsAsInClosedForm == stage = "ok" => offsets = LoopOffsets(height, chunk_size)

\* slice_par(offset, to_row) takes an end for a length, so slices overlap: the
\* rows of the first two chunks are taken once, every later one more than once.
\* A frame keeps its rows only when two chunks hold all of them.
TwoChunksAreTakenOnce ==
    stage = "ok" =>
        \A r \in DataRows : taken[r] = 1 <=> r < 2 * chunk_size

\* The loop returns if, and without a failure only if, the frame has as many
\* rows as parts, or none: with fewer its chunks are empty, and it takes the
\* empty slice at offset 0 for ever.
LoopReturns ==
    /\ (height >= n_of_size \/ height = 0) ~> stage # "loop"
    /\ [](stage = "ok" => height >= n_of_size \/ height = 0)
=============================================================================

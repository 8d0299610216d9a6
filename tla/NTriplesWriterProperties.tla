---------------------- MODULE NTriplesWriterProperties ----------------------
(***************************************************************************)
(* What write_n_triples_all_dfs has put into its writer, when the writer   *)
(* takes all it is given and when it does not.                             *)
(***************************************************************************)
EXTENDS NTriplesWriter

AllRows == UNION { {d} \X (0 .. heights[d] - 1) : d \in DOMAIN heights }

Before(x, y)    == x[1] < y[1] \/ (x[1] = y[1] /\ x[2] < y[2])
SameChunk(x, y) == x[1] = y[1] /\ x[2] \div chunk_size = y[2] \div chunk_size

\* The lines come in the order of the frames and their rows, and none comes
\* twice, whatever the order in which the threads worked and also after the
\* writer has failed: a buffer is empty again before it is used again.
LinesInOrder ==
    /\ ToSet(out) \subseteq AllRows
    /\ \A i, j \in DOMAIN out : i < j => Before(out[i], out[j])

\* The rows with a line of their own in the file.  A line that is cut is none,
\* and neither is the one that is glued to it, however whole it was written.
HasLine(i) == out[i] \notin cut /\ (i > 1 => out[i - 1] \notin cut)
Lines == { out[i] : i \in { j \in DOMAIN out : HasLine(j) } }

\* A row whose own write was short, which took nothing behind it.
EndOfShortWrite(x) ==
    /\ x \notin ToSet(out) \/ x \in cut
    /\ \A y \in ToSet(out) \ {x} : SameChunk(x, y) => Before(y, x)

\* The first row of a chunk, when the writer stopped within a line before it.
AfterCutLine(x) ==
    /\ x[2] % chunk_size = 0
    /\ \E c \in cut : Before(c, x) /\ ~SameChunk(c, x)

\* When the call returns Ok, every row has its line in the file, if the writer has
\* taken all it was given.  What is missing otherwise, without an error, is the
\* end of a chunk, and the first line of a chunk that is written behind a line
\* that was cut.
OnlyShortWritesLose ==
    Returned =>
        /\ short \/ Lines = AllRows
        /\ \A x \in AllRows \ Lines : EndOfShortWrite(x) \/ AfterCutLine(x)

\* A pool that is used up would panic.  Each thread that comes to take its buffer
\* finds one, and it is empty; and it will find a vector of iterators: the early
\* return for an empty chunk has neither taken one nor kept its buffer.
PoolsSuffice ==
    /\ \A i \in DOMAIN write_buffer_pool : write_buffer_pool[i] = <<>>
    /\ \A t \in Threads : InRows /\ workers[t] = "waiting" =>
          write_buffer_pool # <<>> /\ free_iters > 0

\* The loops come to their end: the last round is the first that has taken the
\* rows up to the height of the frame.
WriterReturns == <>Returned
=============================================================================

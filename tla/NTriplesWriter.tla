--------------------------- MODULE NTriplesWriter ---------------------------
(***************************************************************************)
(* How write_n_triples_all_dfs (stottrs/src/triplestore/ntriples_write.rs) *)
(* puts frames into a writer: round after round every thread fills a       *)
(* buffer of its own with the lines of one chunk of rows, and the buffers  *)
(* are then written in the order of the threads.  Buffers and iterators    *)
(* come from pools and go back to them.                                    *)
(*                                                                         *)
(* The frames are those TripleStore delivers in its step ExportTable, in   *)
(* any order of the tables; a row stands for its line.                     *)
(***************************************************************************)
EXTENDS Integers, Sequences, SequencesExt

CONSTANTS
    Frames,       \* the heights of the frames, in the order they are visited
    ThreadCounts, \* POOL.current_num_threads()
    ChunkSizes,   \* the chunk_size the callers give
    ShortWrites   \* whether the writer may take less than it is given

ASSUME FramesAssumption == Frames \subseteq Seq(Nat)
ASSUME SizesAssumption ==
    /\ ThreadCounts \subseteq Nat \ {0}
    /\ ChunkSizes \subseteq Nat \ {0}
    /\ ShortWrites \in BOOLEAN

VARIABLES
    heights, n_threads, chunk_size,  \* the arguments: they do not change
    df,                \* the frame the loop over frames is at
    n_rows_finished,   \* how far the loop over its rows is
    workers,           \* what each thread is doing in this round
    buffers,           \* the buffer each thread holds, then its entry in result_buf
    drained,           \* how many entries of result_buf have been written
    write_buffer_pool, \* the buffers at rest
    free_iters,        \* how many iterator vectors are at rest
    out,               \* the lines the writer has taken, or begun to take
    cut,               \* those of them it has taken only the beginning of
    short              \* history: it took less than it was given once

arguments == <<heights, n_threads, chunk_size>>
vars == <<arguments, df, n_rows_finished, workers, buffers, drained,
          write_buffer_pool, free_iters, out, cut, short>>

Threads == 0 .. n_threads - 1
Height  == heights[df]
InRows  == df <= Len(heights) /\ n_rows_finished < Height

----------------------------------------------------------------------------
\* A round: the threads

\* Mutant of ChunkOf: every round begins with the first rows.
ChunkOfThread(t) ==
    LET total_offset == t * chunk_size
        length == IF total_offset >= Height THEN 0
                  ELSE IF Height - total_offset < chunk_size THEN Height - total_offset
                  ELSE chunk_size
    IN  [i \in 1 .. length |-> <<df, total_offset + i - 1>>]

\* df.slice(total_offset, chunk_size): nothing beyond the end of the frame.
ChunkOf(t) ==
    LET total_offset == n_rows_finished + t * chunk_size
        length == IF total_offset >= Height THEN 0
                  ELSE IF Height - total_offset < chunk_size THEN Height - total_offset
                  ELSE chunk_size
    IN  [i \in 1 .. length |-> <<df, total_offset + i - 1>>]

\* Mutant of GetBuffer: iterators are taken before the early return.
GetBufferAndIterators(t) ==
    /\ InRows /\ workers[t] = "waiting"
    /\ write_buffer_pool # <<>> /\ free_iters > 0
    /\ buffers' = [buffers EXCEPT ![t] = Last(write_buffer_pool)]
    /\ write_buffer_pool' = Front(write_buffer_pool)
    /\ workers' = [workers EXCEPT ![t] = IF ChunkOf(t) = <<>> THEN "done" ELSE "filling"]
    /\ free_iters' = free_iters - 1
    /\ UNCHANGED <<arguments, df, n_rows_finished, drained, out, cut, short>>

\* A thread takes a buffer, or panics if there is none; for an empty chunk it
\* returns it at once, otherwise it takes a vector of iterators, too.
GetBuffer(t) ==
    /\ InRows /\ workers[t] = "waiting"
    /\ write_buffer_pool # <<>> /\ free_iters > 0
    /\ buffers' = [buffers EXCEPT ![t] = Last(write_buffer_pool)]
    /\ write_buffer_pool' = Front(write_buffer_pool)
    /\ IF ChunkOf(t) = <<>>
       THEN workers' = [workers EXCEPT ![t] = "done"] /\ UNCHANGED free_iters
       ELSE workers' = [workers EXCEPT ![t] = "filling"] /\ free_iters' = free_iters - 1
    /\ UNCHANGED <<arguments, df, n_rows_finished, drained, out, cut, short>>

\* The loop over the rows of the chunk adds one line each to the buffer.
FillBuffer(t) ==
    /\ workers[t] = "filling"
    /\ workers' = [workers EXCEPT ![t] = "done"]
    /\ buffers' = [buffers EXCEPT ![t] = @ \o ChunkOf(t)]
    /\ free_iters' = free_iters + 1
    /\ UNCHANGED <<arguments, df, n_rows_finished, drained, write_buffer_pool, out, cut, short>>

----------------------------------------------------------------------------
\* A round: the buffers are written, "rayon will ensure the right order"

AllDone == InRows /\ \A t \in Threads : workers[t] = "done"

\* "let _ = writer.write(&buf)": the writer may take a part of the buffer, or
\* fail and take nothing, and nobody looks.  It stops behind the n-th line or
\* within it, and then the next line it takes goes on where that line broke off.
Take(buf) ==
    \E n \in 0 .. Len(buf), within \in BOOLEAN :
        /\ n < Len(buf) \/ within => ShortWrites
        /\ within => n > 0
        /\ out' = out \o SubSeq(buf, 1, n)
        /\ cut' = cut \union (IF within THEN {buf[n]} ELSE {})
        /\ short' = (short \/ n < Len(buf) \/ within)

WriteKeepingBuffer ==   \* mutant: buf.clear() is missing
    /\ AllDone /\ drained < n_threads
    /\ Take(buffers[drained])
    /\ write_buffer_pool' = Append(write_buffer_pool, buffers[drained])
    /\ drained' = drained + 1
    /\ UNCHANGED <<arguments, df, n_rows_finished, workers, buffers, free_iters>>

WriteBuffer ==
    /\ AllDone /\ drained < n_threads
    /\ Take(buffers[drained])
    /\ write_buffer_pool' = Append(write_buffer_pool, <<>>)
    /\ buffers' = [buffers EXCEPT ![drained] = <<>>]
    /\ drained' = drained + 1
    /\ UNCHANGED <<arguments, df, n_rows_finished, workers, free_iters>>

EndRoundAt(n) ==
    /\ AllDone /\ drained = n_threads
    /\ n_rows_finished' = n
    /\ workers' = [t \in Threads |-> "waiting"]
    /\ drained' = 0
    /\ UNCHANGED <<arguments, df, buffers, write_buffer_pool, free_iters, out, cut, short>>

\* Mutant of EndRound: the round has finished what the writer has taken.
EndRoundByLines == EndRoundAt(Len(SelectSeq(out, LAMBDA row : row[1] = df)))

EndRound == EndRoundAt(n_rows_finished + n_threads * chunk_size)

\* The loop over the rows has ended, or does not begin.
NextFrame ==
    /\ df <= Len(heights) /\ ~InRows
    /\ df' = df + 1
    /\ n_rows_finished' = 0
    /\ UNCHANGED <<arguments, workers, buffers, drained, write_buffer_pool, free_iters,
                   out, cut, short>>

\* write_n_triples_all_dfs returns Ok.
Returned == df > Len(heights)
Finished == Returned /\ UNCHANGED vars

----------------------------------------------------------------------------
Init ==
    /\ heights \in Frames /\ n_threads \in ThreadCounts /\ chunk_size \in ChunkSizes
    /\ df = 1 /\ n_rows_finished = 0
    /\ workers = [t \in Threads |-> "waiting"]
    /\ buffers = [t \in Threads |-> <<>>]
    /\ drained = 0
    /\ write_buffer_pool = [i \in 1 .. n_threads |-> <<>>]
    /\ free_iters = n_threads
    /\ out = <<>> /\ cut = {} /\ short = FALSE

Next ==
    \/ \E t \in Threads : GetBuffer(t) \/ FillBuffer(t)
    \/ WriteBuffer \/ EndRound \/ NextFrame \/ Finished

Spec == Init /\ [][Next]_vars

\* Every thread of the pool goes on, and so does the call.
FairSpec == Spec /\ WF_vars(Next)
=============================================================================

------------------------------- MODULE Chunks -------------------------------
(***************************************************************************)
(* The row-slicing loop that Mapping::expand and split_write_df share, as  *)
(* operators.  A data frame of h rows is cut for n_of_size parts:          *)
(*                                                                         *)
(*   chunk_size = h / n_of_size;  offset = 0;                              *)
(*   loop { to_row = min(h, offset + chunk_size);                          *)
(*          slice  = df.slice_par(offset, to_row);                         *)
(*          offset += chunk_size;  if offset >= h { break } }              *)
(*                                                                         *)
(* slice_par takes an offset and a LENGTH, and to_row is an END, so every  *)
(* slice but the first reaches further than its chunk.                     *)
(* Rows are numbered from 0.                                               *)
(***************************************************************************)
EXTENDS Integers

\* The size of a chunk: integer division, so 0 when there are fewer rows
\* than parts.
ChunkSize(h, n_of_size) == h \div n_of_size

\* The end of the chunk that starts at an offset.
ToRow(h, chunk_size, offset) ==
    IF offset + chunk_size < h THEN offset + chunk_size ELSE h

\* DataFrame::slice_par (polars): at most length rows, from offset on.
SlicePar(h, offset, length) == { r \in 0 .. h - 1 : offset <= r /\ r < offset + length }

\* The rows of the slice one turn of the loop takes.
LoopSlice(h, chunk_size, offset) == SlicePar(h, offset, ToRow(h, chunk_size, offset))

\* The offsets at which a loop with a chunk of at least one row takes a slice:
\* it takes the first one before it looks whether a row is left.
LoopOffsets(h, chunk_size) ==
    {0} \union { o \in 0 .. h - 1 : o % chunk_size = 0 }
=============================================================================

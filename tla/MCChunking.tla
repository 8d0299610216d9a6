----------------------------- MODULE MCChunking -----------------------------
(***************************************************************************)
(* Frames of up to 13 rows cut for up to 6 parts: with and without a       *)
(* remainder, fewer rows than parts, and no rows at all.                   *)
(***************************************************************************)
EXTENDS Chunking

MCHeights    == 0 .. 13
MCPartCounts == 1 .. 6
=============================================================================

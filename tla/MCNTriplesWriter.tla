-------------------------- MODULE MCNTriplesWriter --------------------------
(***************************************************************************)
(* The constants of the run of the N-triples writer: frames that fill no   *)
(* chunk, several rounds of chunks, and a part of the last.                *)
(***************************************************************************)
EXTENDS NTriplesWriterProperties

MCFrames == {<<>>, <<1, 1>>, <<3, 2>>, <<6>>, <<4, 0, 1>>}
=============================================================================

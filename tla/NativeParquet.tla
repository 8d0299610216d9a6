---------------------------- MODULE NativeParquet ----------------------------
(***************************************************************************)
(* write_native_parquet: stottrs/src/triplestore/native_parquet_write.rs   *)
(* with property_to_filename and write_parquet of parquet.rs.              *)
(*                                                                         *)
(* The triple store, whose stage "write" is here the work it stands for:   *)
(* every frame of every table is written to a file of the caller's folder, *)
(* in parallel.  File names are made of the letters and digits of IRIs, so *)
(* two frames may get the same file, and its writers then run into each    *)
(* other.  The folder outlives the call: a later one overwrites its files. *)
(***************************************************************************)
EXTENDS TripleStore

CONSTANTS
    Alphanumerics,    \* the letters and digits of every IRI
    Threads           \* the threads of rayon's pool

ASSUME AlphanumericsAssumption ==
    /\ DOMAIN Alphanumerics = Predicates \union Datatypes
    /\ \A iri \in DOMAIN Alphanumerics : Alphanumerics[iri] # "object_property"
ASSUME ThreadsAssumption       == Threads \in Nat \ {0}

VARIABLES
    folder,   \* the files of the caller's folder, by name
    waiting,  \* the writing still to be begun
    writing,  \* the writing that has created its file
    failed    \* some of it has returned an error

parquet == <<folder, waiting, writing, failed>>

\* A file is readable when "complete"; "truncated" by a writer that has not
\* finished, or "torn" between two that were in it at once.
Content(state, rows) == [state |-> state, rows |-> rows]

----------------------------------------------------------------------------
\* What is to be written

property_to_filename(iri) == Alphanumerics[iri]

\* Mutant of FileStem: literals are told from resources only.
FileStemOfKind(k) ==
    <<property_to_filename(k[1]), IF k[2] \in Datatypes THEN "literal" ELSE "object_property">>

\* The name of a table's files: the datatype of literals is in it, but whether a
\* resource is an IRI or a blank node is not.
FileStem(k) ==
    <<property_to_filename(k[1]),
      IF k[2] \in Datatypes THEN property_to_filename(k[2]) ELSE "object_property">>

\* The frames of a table are its parts, counted from 0 in the order of its list.
PartNumber(k) ==
    CHOOSE part \in Bijection(df_map[k].dfs, 0 .. Cardinality(df_map[k].dfs) - 1) : TRUE

FilesOneEach(k) ==   \* mutant: no part number
    { [frame |-> f, file |-> <<FileStem(k), 0>>] : f \in df_map[k].dfs }

FilesOf(k) ==
    { [frame |-> f, file |-> <<FileStem(k), PartNumber(k)[f]>>] : f \in df_map[k].dfs }

\* With a caching folder nothing is collected.
DfsToWrite == IF Caching THEN {} ELSE UNION { FilesOf(k) : k \in Existing }

----------------------------------------------------------------------------
\* write_parquet, in one of the parallel writers

SetFile(file, content) ==
    folder' = [g \in DOMAIN folder \union {file} |-> IF g = file THEN content ELSE folder[g]]

OthersIn(j) == { i \in writing \ {j} : i.file = j.file }

\* File::create.
Create(j) ==
    /\ j \in waiting /\ Cardinality(writing) < Threads
    /\ waiting' = waiting \ {j}
    /\ writing' = writing \union {j}
    /\ SetFile(j.file, Content(IF OthersIn(j) = {} THEN "truncated" ELSE "torn", {}))
    /\ UNCHANGED <<failed, vars>>

\* Bound: one failure a call.
CreateFails(j) ==
    /\ "create" \in Faults /\ ~failed
    /\ j \in waiting /\ Cardinality(writing) < Threads
    /\ waiting' = waiting \ {j}
    /\ failed' = TRUE
    /\ UNCHANGED <<folder, writing, vars>>

\* What the last writer to leave a file that had several makes of it: each
\* writes from the start of the file, so it is what one of them wrote, or torn.
TornOutcomes(file) ==
    {Content("torn", {})} \union
    { Content("complete", RowsIn({i.frame})) : i \in { d \in DfsToWrite : d.file = file } }

\* ParquetWriter::finish.
Finish(j) ==
    /\ j \in writing
    /\ writing' = writing \ {j}
    /\ \/ OthersIn(j) # {} /\ UNCHANGED folder
       \/ OthersIn(j) = {} /\ folder[j.file].state = "truncated"
          /\ SetFile(j.file, Content("complete", RowsIn({j.frame})))
       \/ OthersIn(j) = {} /\ folder[j.file].state = "torn"
          /\ \E c \in TornOutcomes(j.file) : SetFile(j.file, c)
    /\ UNCHANGED <<waiting, failed, vars>>

FinishFails(j) ==
    /\ "create" \in Faults /\ ~failed
    /\ j \in writing
    /\ writing' = writing \ {j}
    /\ failed' = TRUE
    /\ \/ UNCHANGED folder
       \/ OthersIn(j) = {} /\ folder[j.file].state = "torn"
          /\ \E c \in TornOutcomes(j.file) : SetFile(j.file, c)
    /\ UNCHANGED <<waiting, vars>>

\* The results are looked at when all writers are done: the first error is returned.
AllWritten ==
    /\ stage = "write" /\ waiting = {} /\ writing = {}
    /\ Return(IF failed THEN "error" ELSE "ok")
    /\ failed' = FALSE
    /\ UNCHANGED <<store, out, twice, folder, waiting, writing>>

----------------------------------------------------------------------------
\* The store's own steps; the one that comes to the stage "write" collects.
StoreStep ==
    /\ stage # "write"
    /\ Next
    /\ waiting' = IF stage' = "write" THEN DfsToWrite ELSE {}
    /\ UNCHANGED <<folder, writing, failed>>

WriteParquet ==
    \/ \E j \in waiting : Create(j) \/ CreateFails(j)
    \/ \E j \in writing : Finish(j) \/ FinishFails(j)

WriterInit ==
    /\ Init
    /\ folder = << >>
    /\ waiting = {} /\ writing = {}
    /\ failed = FALSE

WriterNext == StoreStep \/ WriteParquet \/ AllWritten

WriterSpec == WriterInit /\ [][WriterNext]_<<vars, parquet>>
=============================================================================

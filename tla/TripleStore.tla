----------------------------- MODULE TripleStore -----------------------------
(***************************************************************************)
(* The triple store of stOTTR: stottrs/src/triplestore.rs with its readers *)
(* (sparql.rs, export_triples.rs, ntriples_write.rs, to_triples in the     *)
(* Python wrapper, and native_parquet_write.rs up to its writing of files, *)
(* which module NativeParquet adds).                                       *)
(*                                                                         *)
(* Triples live in one table per predicate and object type.  A table is a  *)
(* list of data frames, in memory or, with a caching folder, one Parquet   *)
(* file each; the flag "unique" says that no row occurs twice in it, and   *)
(* the store's flag "deduplicated" that this holds of every table.  Adding *)
(* only appends frames; duplicates are removed when a reader needs it.     *)
(*                                                                         *)
(* One call is in progress at a time (the methods take &mut self), so the  *)
(* stages below interleave with the faults of the file system and with the *)
(* arbitrary order in which a HashMap is visited, not with each other.     *)
(***************************************************************************)
EXTENDS Chunks, Sequences, FiniteSets, Functions

CONSTANTS
    Predicates,       \* the IRIs used as verbs
    SlashPredicates,  \* those with a "/": no file of that name can be created
    Datatypes,        \* the datatypes of the literals
    XsdString,        \* xsd:string, one of them
    Rows,             \* the pairs of a subject and an object (no literal here has a language)
    Dtype,            \* of the column that holds a row's object: rows of different dtypes differ
    NullRow,          \* a row with a null in it
    FrameIds,         \* data frames and Parquet files; bounds how many exist
    NoFrame,          \* "there is no such file"
    NoTable,          \* "the maps have no such entry"
    Caching,          \* caching_folder.is_some()
    Faults,           \* which file operations may fail
    Inputs,           \* the arguments add_triples_vec is called with
    Templates,        \* the CONSTRUCT templates: sequences of predicates
    PartsBound,       \* bound on n_of_size in split_write_df
    MaxCalls          \* bound on the number of calls that add triples

RDFNodeType == {"IRI", "BlankNode"} \union Datatypes
Tables      == Predicates \X RDFNodeType
Triples     == Predicates \X RDFNodeType \X Rows

\* A data frame as the number of times each row occurs in it: nothing here
\* depends on the order of its rows.
Frame       == [Rows -> Nat]
TripleTable == [dfs : SUBSET FrameIds, unique : BOOLEAN, call_uuid : Nat]

\* The argument of add_triples_vec: a frame with a verb column, so a raw frame
\* for every verb, with one object type for all of it.
RawFrame     == [Rows \union {NullRow} -> Nat]
TriplesToAdd == [df : [Predicates -> RawFrame],
                 object_type : RDFNodeType,
                 has_unique_subset : BOOLEAN]

ASSUME PredicatesAssumption == SlashPredicates \subseteq Predicates
ASSUME DatatypesAssumption ==
    /\ XsdString \in Datatypes
    /\ Datatypes \intersect {"IRI", "BlankNode"} = {}
ASSUME RowsAssumption   == NullRow \notin Rows /\ IsFiniteSet(Rows) /\ DOMAIN Dtype = Rows
ASSUME FramesAssumption == NoFrame \notin Frame /\ IsFiniteSet(FrameIds)
ASSUME TablesAssumption == NoTable \notin TripleTable
ASSUME ModesAssumption ==
    /\ Caching \in BOOLEAN
    /\ Faults \subseteq {"create", "read", "remove"}
\* The objects of one argument stand in one column.
HasOneDtype(t) ==
    \A p, q \in Predicates, r, s \in Rows : t.df[p][r] > 0 /\ t.df[q][s] > 0 => Dtype[r] = Dtype[s]

ASSUME InputsAssumption ==
    /\ Inputs \subseteq Seq(TriplesToAdd)
    /\ \A ts \in Inputs : \A n \in DOMAIN ts : HasOneDtype(ts[n])
    /\ Templates \subseteq Seq(Predicates)
ASSUME BoundsAssumption == PartsBound \in Nat \ {0} /\ MaxCalls \in Nat

VARIABLES
    df_map,        \* the table of every predicate and object type
    frames,        \* the data frames in memory, or the readable Parquet files
    deduplicated,  \* no table is known to need deduplication
    calls,         \* how many call uuids have been drawn
    op,            \* the public call in progress, or the last one
    stage,         \* what that call is doing
    todo,          \* the tables its loop has still to visit
    pass,          \* which of its passes an export is in
    status,        \* how the last call returned
    out,           \* the triples it has delivered
    twice,         \* those it has delivered more than once
    held,          \* history: the triples that have been put in tables,
    drained        \* and those that a panic has taken out and no call put back

store   == <<df_map, frames, deduplicated, calls, held, drained>>
control == <<op, stage, todo, pass, status>>
vars    == <<store, control, out, twice>>

\* Every triple that was ever put in a table.
mapped == held \union drained

----------------------------------------------------------------------------
\* Data frames

Occurring(frame)   == { r \in Rows : frame[r] > 0 }
UniqueFrame(frame) == [r \in Rows |-> IF frame[r] > 0 THEN 1 ELSE 0]
FrameOf(rows)      == [r \in Rows |-> IF r \in rows THEN 1 ELSE 0]

\* prepare_triples and prepare_triples_df: the partition of a verb, without the
\* rows that have a null, and without duplicates unless the caller vouches that
\* a subset of the columns is unique.
PreparedFrameWithNulls(t, p) ==   \* mutant: drop_nulls is forgotten
    IF t.has_unique_subset THEN t.df[p]
    ELSE [r \in Rows \union {NullRow} |-> IF t.df[p][r] > 0 THEN 1 ELSE 0]

PreparedFrame(t, p) ==
    LET nonnull == [r \in Rows |-> t.df[p][r]]
    IN  IF t.has_unique_subset THEN nonnull ELSE UniqueFrame(nonnull)

\* The TripleDFs that add_triples_vec makes of its argument, named by position
\* and verb.  An empty partition makes none.
TripleDFs(ts) ==
    { s \in (DOMAIN ts) \X Predicates : Occurring(PreparedFrame(ts[s[1]], s[2])) # {} }
FrameOfDF(ts, s) == PreparedFrame(ts[s[1]], s[2])
TableOfDF(ts, s) == <<s[2], ts[s[1]].object_type>>

----------------------------------------------------------------------------
\* Tables

Existing       == { k \in Tables : df_map[k] # NoTable }
TablesOf(p)    == { k \in Existing : k[1] = p }
NotUnique      == { k \in Existing : ~df_map[k].unique }
Readable(k)    == \A f \in df_map[k].dfs : frames[f] # NoFrame
RowsIn(fs)     == { r \in Rows : \E f \in fs : frames[f] # NoFrame /\ frames[f][r] > 0 }
RowsOf(k)      == RowsIn(df_map[k].dfs)
TriplesIn(k, rows) == {k[1]} \X {k[2]} \X rows

\* concat fails for frames of different dtypes.
Mixed(fs) == \E r, s \in RowsIn(fs) : Dtype[r] # Dtype[s]

\* The rows that occur more than once in the frames fs taken together.
RepeatedIn(fs) ==
    { r \in Rows : \E f, g \in fs :
          /\ frames[f] # NoFrame /\ frames[g] # NoFrame
          /\ IF f = g THEN frames[f][r] > 1 ELSE frames[f][r] > 0 /\ frames[g][r] > 0 }

\* Everything that can be read from the store.
StoredTriples == UNION { TriplesIn(k, RowsOf(k)) : k \in Existing }

\* A frame or file name that nothing refers to: file names hold a fresh uuid.
Referenced == UNION { df_map[k].dfs : k \in Existing }
FreshByExistence == { f \in FrameIds : frames[f] = NoFrame }   \* mutant: no uuid
Fresh      == { f \in FrameIds : frames[f] = NoFrame } \ Referenced
HasFresh(S) == Injection(S, Fresh) # {}
NewIds(S)   == CHOOSE ids \in Injection(S, Fresh) : TRUE

\* Bound: a call adds n frames only if that leaves some for deduplicate.
RoomFor(n)  == Cardinality(Fresh) >= n + PartsBound

FindTripleType(t) ==
    CASE t = "IRI"       -> "ObjectProperty"
      [] t = XsdString   -> "StringProperty"
      [] t \in Datatypes \ {XsdString} -> "NonStringProperty"
      [] OTHER           -> "todo!"   \* panics

----------------------------------------------------------------------------
\* How a call begins and ends

Calls == {"expand", "query", "construct_update",
          "export_oxrdf_triples", "to_triples", "write_n_triples_all_dfs",
          "write_native_parquet"}
Stages == {"idle", "expand", "deduplicate", "evaluate", "construct", "export", "write"}

Begin(name, predicate, template) ==
    /\ stage = "idle"
    /\ op' = [name |-> name, predicate |-> predicate, template |-> template]
    /\ status' = "none"
    /\ out' = {} /\ twice' = {}
    /\ pass' = 0

Return(s) ==
    /\ stage' = "idle"
    /\ status' = s
    /\ todo' = {}
    /\ pass' = 0
    /\ UNCHANGED op

\* An error or a panic hands the caller no triples.
Abort(s) == Return(s) /\ out' = {} /\ twice' = {}

Deliver(k, fs) ==
    /\ out' = out \union TriplesIn(k, RowsIn(fs))
    /\ twice' = twice \union (out \intersect TriplesIn(k, RowsIn(fs)))
                      \union TriplesIn(k, RepeatedIn(fs))

----------------------------------------------------------------------------
\* Adding triples: add_triples_vec for a call with the given uuid

\* Mutant of Pushed: a frame without duplicates leaves the table without.
PushedTrustingFrames(table, new, uuid) == [table EXCEPT !.dfs = @ \union new]

\* The table after a frame is pushed: only one the call itself has created stays
\* unique.
Pushed(table, new, uuid) ==
    [dfs       |-> table.dfs \union new,
     unique    |-> table.unique /\ uuid = table.call_uuid,
     call_uuid |-> table.call_uuid]

TriplesOfDFs(ts, S) ==
    UNION { TriplesIn(TableOfDF(ts, s), Occurring(FrameOfDF(ts, s))) : s \in S }

\* The loop that appends the frames in S to their tables.
Register(ts, S, ids, uuid) ==
    LET New(k) == { ids[s] : s \in { x \in S : TableOfDF(ts, x) = k } }
        NewTable(k) ==
            IF df_map[k] = NoTable
            THEN [dfs |-> New(k), unique |-> TRUE, call_uuid |-> uuid]
            ELSE Pushed(df_map[k], New(k), uuid)
    IN  /\ df_map' = [k \in Tables |-> IF New(k) = {} THEN df_map[k] ELSE NewTable(k)]
        /\ deduplicated' = (deduplicated
              /\ \A k \in Tables : New(k) # {} => NewTable(k).unique)
        /\ held' = held \union TriplesOfDFs(ts, S)
        /\ drained' = drained \ TriplesOfDFs(ts, S)

\* The frames of S come into being, in memory or as files.
Store(ts, S, ids) ==
    frames' = [f \in FrameIds |->
        IF \E s \in S : ids[s] = f
        THEN FrameOfDF(ts, CHOOSE s \in S : ids[s] = f)
        ELSE frames[f]]

AddTriples(ts, uuid) ==
    LET S   == TripleDFs(ts)
        ids == NewIds(S)
    IN  /\ HasFresh(S) /\ RoomFor(Cardinality(S))
        /\ Store(ts, S, ids)
        /\ Register(ts, S, ids, uuid)

\* With a folder all files are written first, in parallel, each of which may
\* fail; then the frames are registered in order up to the first that failed.
\* What was written after it stays in the folder, in no table.  (The order of
\* the verbs of one argument is that of its rows, so any.)
AddTriplesFails(ts, uuid) ==
    LET S   == TripleDFs(ts)
        ids == NewIds(S)
    IN  /\ Caching /\ "create" \in Faults
        /\ HasFresh(S) /\ RoomFor(Cardinality(S))
        /\ \E failed \in SUBSET S, first \in S, registered \in SUBSET S :
              /\ first \in failed
              /\ registered \intersect failed = {}
              /\ \A s \in S : /\ s[1] < first[1] => s \in registered
                              /\ s[1] > first[1] => s \notin registered
              /\ Store(ts, S \ failed, ids)
              /\ Register(ts, registered, ids, uuid)

\* Mapping::expand draws one uuid and adds the triples of each chunk under it:
\* one chunk in memory, as many as the data frame has slices with a folder.
ExpandCall ==
    /\ calls < MaxCalls
    /\ Begin("expand", "none", <<>>)
    /\ calls' = calls + 1
    /\ stage' = "expand"
    /\ UNCHANGED <<df_map, frames, deduplicated, held, drained, todo>>

ExpandChunk(ts) ==
    /\ stage = "expand"
    /\ AddTriples(ts, calls)
    /\ IF Caching THEN UNCHANGED control ELSE Return("ok")
    /\ UNCHANGED <<calls, out, twice>>

ExpandChunkFails(ts) ==
    /\ stage = "expand"
    /\ AddTriplesFails(ts, calls)
    /\ Return("error")
    /\ UNCHANGED <<calls, out, twice>>

\* After the last chunk, or at a chunk whose instances cannot be made.
ExpandReturns ==
    /\ stage = "expand"
    /\ \E s \in {"error"} \union (IF Caching THEN {"ok"} ELSE {}) : Return(s)
    /\ UNCHANGED <<store, out, twice>>

----------------------------------------------------------------------------
\* Calls that read

\* A query deduplicates only when the flag says so, an export always.
BeginRead(name, predicate, template, dedup) ==
    /\ Begin(name, predicate, template)
    /\ stage' = IF dedup THEN "deduplicate" ELSE "evaluate"
    /\ todo' = IF dedup THEN NotUnique ELSE {}
    /\ UNCHANGED <<df_map, frames, deduplicated, held, drained>>

Query(p) ==
    /\ BeginRead("query", p, <<>>, ~deduplicated)
    /\ UNCHANGED calls

ConstructUpdate(p, template) ==
    /\ calls < MaxCalls /\ RoomFor(Len(template))
    /\ BeginRead("construct_update", p, template, ~deduplicated)
    /\ calls' = calls + 1

Export(name) ==
    /\ BeginRead(name, "none", <<>>, TRUE)
    /\ UNCHANGED calls

----------------------------------------------------------------------------
\* deduplicate: one step per table that is not unique

PassesOfObjects(name) == <<{"ObjectProperty", "StringProperty", "todo!"}>>   \* mutant

Passes(name) ==
    IF name = "write_n_triples_all_dfs"
    THEN <<{"ObjectProperty", "StringProperty", "NonStringProperty", "todo!"}>>
    ELSE <<{"ObjectProperty", "todo!"}, {"StringProperty", "todo!"},
           {"NonStringProperty", "todo!"}>>

\* The tables a pass does more with than skip them.
PassTables(name, n) == { k \in Existing : FindTripleType(k[2]) \in Passes(name)[n] }

BeginExport ==
    /\ stage' = "export"
    /\ pass' = 1
    /\ todo' = PassTables(op.name, 1)
    /\ UNCHANGED <<op, status>>

\* Mutant of DeduplicateFails: every export drops the Result of deduplicate.
ExportsIgnoreFailure ==
    IF op.name \in {"query", "construct_update", "write_native_parquet"}
    THEN Abort("error")
    ELSE BeginExport /\ UNCHANGED <<out, twice>>

\* to_triples drops the Result of deduplicate and goes on; the others return it.
DeduplicateFails ==
    IF op.name = "to_triples"
    THEN BeginExport /\ UNCHANGED <<out, twice>>
    ELSE Abort("error")

\* The table's frames are now those in fs, and hold no row twice.
MarkUnique(k, fs) == df_map' = [df_map EXCEPT ![k].dfs = fs, ![k].unique = TRUE]

\* concat or collect panics: for frames of different dtypes, or without a frame.
CannotConcat(k) == Mixed(df_map[k].dfs) \/ df_map[k].dfs = {}

\* Mutant of DeduplicateInMemory: the frames are drained after the unique one
\* has been pushed.
DeduplicateThenDrain(k) ==
    /\ stage = "deduplicate" /\ k \in todo /\ ~Caching
    /\ frames' = [f \in FrameIds |-> IF f \in df_map[k].dfs THEN NoFrame ELSE frames[f]]
    /\ MarkUnique(k, {})
    /\ todo' = todo \ {k}
    /\ UNCHANGED <<deduplicated, calls, held, drained, op, stage, pass, status, out, twice>>

DeduplicateInMemory(k) ==
    /\ stage = "deduplicate" /\ k \in todo /\ ~Caching
    /\ ~CannotConcat(k)
    /\ LET old == df_map[k].dfs
           ids == NewIds({k})
       IN  /\ HasFresh({k})
           /\ frames' = [f \in FrameIds |->
                  CASE f = ids[k] -> FrameOf(RowsOf(k))
                    [] f \in old  -> NoFrame
                    [] OTHER      -> frames[f]]
           /\ MarkUnique(k, {ids[k]})
    /\ todo' = todo \ {k}
    /\ UNCHANGED <<deduplicated, calls, held, drained, op, stage, pass, status, out, twice>>

\* Mutant of DrainTable: the table is marked before its frames are put together.
DrainMarkedTable(k) ==
    /\ frames' = [f \in FrameIds |-> IF f \in df_map[k].dfs THEN NoFrame ELSE frames[f]]
    /\ MarkUnique(k, {})
    /\ held' = held \ TriplesIn(k, RowsOf(k))
    /\ drained' = drained \union TriplesIn(k, RowsOf(k))
    /\ UNCHANGED <<deduplicated, calls>>

\* The frames are moved out of the table before concat panics, so in memory they are
\* gone: the table is there, without a frame, and it is still not unique.
DrainTable(k) ==
    /\ frames' = [f \in FrameIds |-> IF f \in df_map[k].dfs THEN NoFrame ELSE frames[f]]
    /\ df_map' = [df_map EXCEPT ![k].dfs = {}]
    /\ held' = held \ TriplesIn(k, RowsOf(k))
    /\ drained' = drained \union TriplesIn(k, RowsOf(k))
    /\ UNCHANGED <<deduplicated, calls>>

\* With a folder the panic comes before a file is removed.
DeduplicatePanics(k) ==
    /\ stage = "deduplicate" /\ k \in todo
    /\ Readable(k) /\ CannotConcat(k)
    /\ IF Caching THEN UNCHANGED store ELSE DrainTable(k)
    /\ Abort("panic")

\* The slices split_write_df cuts rows into, by offset: the rows come in an
\* arbitrary order and are cut for n_of_size parts of about 50 MB.
SplitParts(rows, n_of_size) ==
    LET h == Cardinality(rows)
        c == ChunkSize(h, n_of_size)
    IN  { [o \in LoopOffsets(h, c) |-> { order[r] : r \in LoopSlice(h, c, o) }] :
            order \in Bijection(0 .. h - 1, rows) }

\* n_of_size is at most the number of rows: the slicing loop would not end
\* otherwise (module Chunking).
PartCounts(rows) == { n \in 1 .. PartsBound : n <= Cardinality(rows) }

\* The old files of a table are gone and the slices written are files.
WriteParts(k, parts, written) ==
    LET ids == NewIds(written)
    IN  /\ HasFresh(written)
        /\ frames' = [f \in FrameIds |->
               IF \E o \in written : ids[o] = f
               THEN FrameOf(parts[CHOOSE o \in written : ids[o] = f])
               ELSE IF f \in df_map[k].dfs THEN NoFrame ELSE frames[f]]

DeduplicateInFolder(k) ==
    /\ stage = "deduplicate" /\ k \in todo /\ Caching
    /\ k[1] \notin SlashPredicates
    /\ Readable(k) /\ ~CannotConcat(k)
    /\ \E n \in PartCounts(RowsOf(k)) : \E parts \in SplitParts(RowsOf(k), n) :
          /\ WriteParts(k, parts, DOMAIN parts)
          /\ MarkUnique(k, { NewIds(DOMAIN parts)[o] : o \in DOMAIN parts })
    /\ todo' = todo \ {k}
    /\ UNCHANGED <<deduplicated, calls, held, drained, op, stage, pass, status, out, twice>>

DeduplicateTable(k) ==
    IF Caching THEN DeduplicateInFolder(k) ELSE DeduplicateInMemory(k)

\* read_parquet fails: always for a file that is not there.
DeduplicateReadFails(k) ==
    /\ stage = "deduplicate" /\ k \in todo /\ Caching
    /\ "read" \in Faults \/ ~Readable(k)
    /\ DeduplicateFails
    /\ UNCHANGED store

\* Mutant of DeduplicateRemoveFails: the paths of the removed files are dropped.
RemoveFailsDroppingPaths(k) ==
    /\ stage = "deduplicate" /\ k \in todo /\ Caching
    /\ "remove" \in Faults
    /\ Readable(k) /\ ~CannotConcat(k)
    /\ \E kept \in (SUBSET df_map[k].dfs) \ {{}} :
          /\ frames' = [f \in FrameIds |->
                 IF f \in df_map[k].dfs \ kept THEN NoFrame ELSE frames[f]]
          /\ df_map' = [df_map EXCEPT ![k].dfs = kept]
    /\ DeduplicateFails
    /\ UNCHANGED <<deduplicated, calls, held, drained>>

\* All files of the table are to be removed; some are not.
DeduplicateRemoveFails(k) ==
    /\ stage = "deduplicate" /\ k \in todo /\ Caching
    /\ "remove" \in Faults
    /\ Readable(k) /\ ~CannotConcat(k)
    /\ \E kept \in (SUBSET df_map[k].dfs) \ {{}} :
          frames' = [f \in FrameIds |->
              IF f \in df_map[k].dfs \ kept THEN NoFrame ELSE frames[f]]
    /\ DeduplicateFails
    /\ UNCHANGED <<df_map, deduplicated, calls, held, drained>>

\* The old files are gone and split_write_df fails before its last file:
\* always for a predicate with a "/", whose raw IRI it uses as a file name.
\* The files it has written so far are in no table.
DeduplicateWriteFails(k) ==
    /\ stage = "deduplicate" /\ k \in todo /\ Caching
    /\ "create" \in Faults \/ k[1] \in SlashPredicates
    /\ Readable(k) /\ ~CannotConcat(k)
    /\ \E n \in PartCounts(RowsOf(k)) : \E parts \in SplitParts(RowsOf(k), n) :
       \E failing \in DOMAIN parts :
          WriteParts(k, parts, IF k[1] \in SlashPredicates THEN {}
                               ELSE { o \in DOMAIN parts : o < failing })
    /\ DeduplicateFails
    /\ UNCHANGED <<df_map, deduplicated, calls, held, drained>>

\* A call that is not an export of triples goes on to its next stage.
GoOn ==
    /\ stage' = IF op.name = "write_native_parquet" THEN "write" ELSE "evaluate"
    /\ UNCHANGED <<op, pass, status>>

\* Mutant of Deduplicated: the flag is set before the loop has ended.
DeduplicatedEarly ==
    /\ stage = "deduplicate"
    /\ deduplicated' = TRUE
    /\ IF op.name \in {"query", "construct_update", "write_native_parquet"}
       THEN GoOn /\ todo' = {}
       ELSE BeginExport
    /\ UNCHANGED <<df_map, frames, calls, held, drained, out, twice>>

\* The loop has ended: the store's flag is set and the call goes on.
Deduplicated ==
    /\ stage = "deduplicate" /\ todo = {}
    /\ deduplicated' = TRUE
    /\ IF op.name \in {"query", "construct_update", "write_native_parquet"}
       THEN GoOn /\ UNCHANGED todo
       ELSE BeginExport
    /\ UNCHANGED <<df_map, frames, calls, held, drained, out, twice>>

----------------------------------------------------------------------------
\* A query of one triple pattern, { ?s p ?o }: lazy_triple_pattern

\* What a call does with its solutions: a query returns them, an update goes on.
Evaluated ==
    IF op.name = "query"
    THEN Return("ok")
    ELSE stage' = "construct" /\ UNCHANGED <<op, todo, pass, status>>

EvaluateMissing ==
    /\ stage = "evaluate" /\ TablesOf(op.predicate) = {}
    /\ Evaluated
    /\ UNCHANGED <<store, out, twice>>

\* "Multiple datatypes not supported yet".
EvaluatePanics ==
    /\ stage = "evaluate"
    /\ \E j, k \in TablesOf(op.predicate) : j # k
    /\ Abort("panic")
    /\ UNCHANGED store

\* The only table of the predicate: it must be unique, "Should be deduplicated",
\* its frames of one dtype, and its objects of a type that a variable can have.
Evaluate(k) ==
    /\ stage = "evaluate" /\ TablesOf(op.predicate) = {k}
    /\ IF ~df_map[k].unique
       THEN Abort("assertion_failed")
       ELSE /\ Readable(k)
            /\ IF k[2] = "BlankNode" \/ Mixed(df_map[k].dfs)
               THEN Abort("panic")
               ELSE Deliver(k, df_map[k].dfs) /\ Evaluated
    /\ UNCHANGED store

EvaluateFails(k) ==
    /\ stage = "evaluate" /\ TablesOf(op.predicate) = {k}
    /\ df_map[k].unique
    /\ Caching
    /\ "read" \in Faults \/ ~Readable(k)
    /\ Abort("error")
    /\ UNCHANGED store

\* triple_to_df for each triple { ?s q ?o } of the template: a frame of the
\* solutions without duplicates, under the verb q.
Constructed ==
    [i \in DOMAIN op.template |->
        [df |-> [q \in Predicates |-> [r \in Rows \union {NullRow} |->
                   IF q = op.template[i] /\ \E t \in out : t[3] = r THEN 1 ELSE 0]],
         object_type |-> IF TablesOf(op.predicate) = {} THEN "IRI"
                         ELSE (CHOOSE k \in TablesOf(op.predicate) : TRUE)[2],
         has_unique_subset |-> FALSE]]

Construct ==
    /\ stage = "construct"
    /\ AddTriples(Constructed, calls)
    /\ Abort("ok")
    /\ UNCHANGED calls

ConstructFails ==
    /\ stage = "construct"
    /\ AddTriplesFails(Constructed, calls)
    /\ Abort("error")
    /\ UNCHANGED calls

----------------------------------------------------------------------------
\* The exports: one step per table of a pass

\* What write_n_triples_all_dfs delivers here it hands to the threads that write it:
\* module NTriplesWriter says which of these lines the stream then holds.

\* An empty frame ends the pass: "if df.height() == 0 { return Ok(()) }" leaves
\* the whole loop.
HasEmptyFrame(k) == \E f \in df_map[k].dfs : Occurring(frames[f]) = {}

ExportTable(k) ==
    /\ stage = "export" /\ k \in todo
    /\ k[2] # "BlankNode"
    /\ Readable(k)
    /\ Deliver(k, df_map[k].dfs)
    /\ todo' = IF HasEmptyFrame(k) /\ op.name # "write_n_triples_all_dfs"
               THEN {} ELSE todo \ {k}
    /\ UNCHANGED <<store, op, stage, pass, status>>

\* find_triple_type has no case for a blank node.
ExportPanics(k) ==
    /\ stage = "export" /\ k \in todo
    /\ k[2] = "BlankNode"
    /\ Abort("panic")
    /\ UNCHANGED store

\* A pass ends without error, or with one that to_triples drops.
EndPass ==
    IF pass < Len(Passes(op.name))
    THEN /\ pass' = pass + 1
         /\ todo' = PassTables(op.name, pass + 1)
         /\ UNCHANGED <<op, stage, status>>
    ELSE Return("ok")

ExportPassDone ==
    /\ stage = "export" /\ todo = {}
    /\ EndPass
    /\ UNCHANGED <<store, out, twice>>

\* A file cannot be read, when the frames before it have been delivered.
ExportTableFails(k) ==
    /\ stage = "export" /\ k \in todo /\ Caching
    /\ k[2] # "BlankNode"
    /\ \E bad \in df_map[k].dfs :
          /\ "read" \in Faults \/ frames[bad] = NoFrame
          /\ IF op.name = "to_triples"
             THEN /\ \E fs \in SUBSET (df_map[k].dfs \ {bad}) :
                        /\ \A f \in fs : frames[f] # NoFrame
                        /\ Deliver(k, fs)
                  /\ EndPass
             ELSE Abort("error")
    /\ UNCHANGED store

----------------------------------------------------------------------------
\* write_native_parquet

\* "if !path.exists()": an error before anything else.
PathDoesNotExist ==
    /\ stage = "idle"
    /\ op' = [name |-> "write_native_parquet", predicate |-> "none", template |-> <<>>]
    /\ status' = "error"
    /\ out' = {} /\ twice' = {}
    /\ UNCHANGED <<store, stage, todo, pass>>

\* Writing the files, as the store sees it: it only reads its tables.
WriteReturns ==
    /\ stage = "write"
    /\ \E s \in {"ok", "error"} : Return(s)
    /\ UNCHANGED <<store, out, twice>>

----------------------------------------------------------------------------
Init ==
    /\ df_map = [k \in Tables |-> NoTable]
    /\ frames = [f \in FrameIds |-> NoFrame]
    /\ deduplicated = TRUE
    /\ calls = 0
    /\ op = [name |-> "none", predicate |-> "none", template |-> <<>>]
    /\ stage = "idle"
    /\ todo = {}
    /\ pass = 0
    /\ status = "none"
    /\ out = {}
    /\ twice = {}
    /\ held = {} /\ drained = {}

Expand == ExpandCall \/ ExpandReturns
          \/ \E ts \in Inputs : ExpandChunk(ts) \/ ExpandChunkFails(ts)

Deduplicate ==
    \/ Deduplicated
    \/ \E k \in Tables : \/ DeduplicateTable(k) \/ DeduplicatePanics(k)
                         \/ DeduplicateReadFails(k) \/ DeduplicateRemoveFails(k)
                         \/ DeduplicateWriteFails(k)

QueryParsed ==
    \/ EvaluateMissing \/ EvaluatePanics
    \/ \E k \in Tables : Evaluate(k) \/ EvaluateFails(k)
    \/ Construct \/ ConstructFails

ExportTriples ==
    \/ ExportPassDone
    \/ \E k \in Tables : ExportTable(k) \/ ExportPanics(k) \/ ExportTableFails(k)

BeginCall ==
    \/ \E p \in Predicates : Query(p) \/ \E tmpl \in Templates : ConstructUpdate(p, tmpl)
    \/ \E name \in {"export_oxrdf_triples", "to_triples", "write_n_triples_all_dfs",
                    "write_native_parquet"} : Export(name)
    \/ PathDoesNotExist

Next == Expand \/ Deduplicate \/ QueryParsed \/ ExportTriples \/ WriteReturns \/ BeginCall

Spec == Init /\ [][Next]_vars
=============================================================================

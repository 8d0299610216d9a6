------------------------- MODULE NativeParquetProofs -------------------------
(***************************************************************************)
(* The store with its native writer implements the store, so what is       *)
(* proved of the one holds of the other; and the files that the parallel   *)
(* writers leave in the caller's folder hold what the store has mapped.    *)
(***************************************************************************)
EXTENDS NativeParquetProperties, TripleStoreProofs

\* A step of the writer is one of the store, or none.
LEMMA WriterStep == [WriterNext]_<<vars, parquet>> => [Next]_vars
<1> SUFFICES ASSUME [WriterNext]_<<vars, parquet>> PROVE [Next]_vars
    OBVIOUS
<1>1. CASE UNCHANGED <<vars, parquet>>
    BY <1>1
<1>2. CASE StoreStep
    BY <1>2 DEF StoreStep
<1>3. CASE WriteParquet
  <2>1. UNCHANGED vars
      BY <1>3 DEF WriteParquet, Create, CreateFails, Finish, FinishFails
  <2> QED BY <2>1
<1>4. CASE AllWritten
  <2>1. \E s \in {"ok", "error"} : Return(s)
      BY <1>4 DEF AllWritten
  <2>2. WriteReturns
      BY <1>4, <2>1 DEF AllWritten, WriteReturns
  <2> QED BY <2>2 DEF Next
<1> QED BY <1>1, <1>2, <1>3, <1>4 DEF WriterNext

\* Writing files in parallel is, for the store, one step that reads it and
\* returns: nothing it interleaves with changes a table while it is written.
THEOREM WriterImplementsStore == WriterSpec => Spec
<1>1. WriterInit => Init
    BY DEF WriterInit
<1> QED BY <1>1, WriterStep, PTL DEF WriterSpec, Spec

\* So a store whose tables are written to files keeps its types and its flags.
THEOREM WriterKeepsFlags == WriterSpec => [](TypeOK /\ DeduplicatedMeansUnique)
BY WriterImplementsStore, TypeCorrect, ShouldBeDeduplicated, PTL

\* In memory it also keeps its promise to the readers: their answers are exactly
\* the triples of the moment, and complete.
THEOREM WriterKeepsAnswers ==
    ASSUME ~Caching
    PROVE  WriterSpec => ImplementsAbstractStore /\ [](AnswersComplete /\ ToTriplesComplete)
BY WriterImplementsStore, StoreImplementsAbstract, AnswersAreComplete, ToTriplesIsComplete, PTL

\* And no answer holds a triple twice, as long as no caller vouches for frames
\* that overlap.
THEOREM WriterAnswersNothingTwice ==
    ASSUME ~Caching, CallersAvoidOverlap
    PROVE  WriterSpec => []AnswersWithoutDuplicates
BY WriterImplementsStore, NothingIsAnsweredTwice, PTL

----------------------------------------------------------------------------
\* File names

\* Every frame of a table has its number, and no other frame has it.
LEMMA PartsNumbered ==
    ASSUME Types, NEW k \in Existing
    PROVE  PartNumber(k) \in Bijection(df_map[k].dfs, 0 .. Cardinality(df_map[k].dfs) - 1)
<1> DEFINE dfs == df_map[k].dfs
           n   == Cardinality(dfs)
<1>1. IsFiniteSet(dfs)
    BY TableTypes, FramesAssumption, FS_Subset
<1>2. n \in Nat
    BY <1>1, FS_CardinalityType
<1> HIDE DEF n
<1>3. IsFiniteSet(0 .. n - 1) /\ Cardinality(0 .. n - 1) = n
    BY <1>2, FS_Interval
<1>4. ExistsBijection(dfs, 0 .. n - 1)
    BY <1>1, <1>3, FS_SameCardinalityBij DEF n
<1> QED BY <1>4 DEF ExistsBijection, PartNumber, n

\* A reader may take a file for one of a table exactly if the table's files have
\* that name: "object_property" is no letters and digits of a datatype.
LEMMA StemOfTable ==
    ASSUME NEW j \in Tables, NEW k \in Tables
    PROVE  MayHold(FileStem(k), j) <=> FileStem(j) = FileStem(k)
<1>1. j[1] \in Predicates /\ k[1] \in Predicates
    BY DEF Tables
<1>2. \A d \in Datatypes : property_to_filename(d) # "object_property"
    BY AlphanumericsAssumption DEF property_to_filename
<1> QED BY <1>1, <1>2 DEF MayHold, FileStem

\* The tables alone determine what is to be written.
LEMMA SameFiles == ASSUME UNCHANGED df_map PROVE DfsToWrite' = DfsToWrite
<1>1. Existing' = Existing
    BY DEF Existing
<1>2. \A k : PartNumber(k)' = PartNumber(k)
    BY DEF PartNumber
<1>3. \A k : FilesOf(k)' = FilesOf(k)
    BY <1>2 DEF FilesOf
<1> QED BY <1>1, <1>3 DEF DfsToWrite

\* The rows of a frame to be written are mapped, in a table that its file may be
\* taken for one of.
MappedUnder(stem) == UNION { MappedInto(k) : k \in { j \in Tables : MayHold(stem, j) } }

LEMMA CollectedIsMapped ==
    ASSUME CInv, NEW d \in DfsToWrite
    PROVE  RowsIn({d.frame}) \subseteq MappedUnder(d.file[1])
<1>1. PICK k \in Existing : d \in FilesOf(k)
    BY DEF DfsToWrite
<1>2. PICK f \in df_map[k].dfs : d = [frame |-> f, file |-> <<FileStem(k), PartNumber(k)[f]>>]
    BY <1>1 DEF FilesOf
<1>3. RowsIn({f}) \subseteq MappedInto(k)
  <2>1. RowsIn({f}) \subseteq RowsOf(k)
      BY DEF RowsOf, RowsIn
  <2>2. k \in Tables /\ RowsOf(k) \subseteq HeldRows(k)
      BY DEF CInv, Contents, TablesHold, Existing
  <2>3. HeldRows(k) \subseteq MappedInto(k)
      BY DEF HeldRows, MappedInto, mapped
  <2> QED BY <2>1, <2>2, <2>3
<1>4. k \in Tables /\ MayHold(FileStem(k), k)
    BY StemOfTable DEF Existing
<1> QED BY <1>2, <1>3, <1>4 DEF MappedUnder

----------------------------------------------------------------------------
\* The folder at every moment

\* What a file holds was mapped, under a predicate and a kind of object of its name.
FolderMapped ==
    \A file \in DOMAIN folder : folder[file].rows \subseteq MappedUnder(file[1])

\* Only what was collected is written, once, and by a call that is in its stage "write".
WritesCollected ==
    /\ waiting \subseteq DfsToWrite /\ writing \subseteq DfsToWrite
    /\ waiting \intersect writing = {}
    /\ stage # "write" => waiting = {} /\ writing = {} /\ ~failed
    /\ Caching => DOMAIN folder = {}
    /\ failed \in BOOLEAN

\* No other frame is written to the file of d.
OnlyWriter(d) == \A e \in DfsToWrite : e.file = d.file => e = d

Written(d)    == d.file \in DOMAIN folder /\ folder[d.file] = Content("complete", RowsIn({d.frame}))
BegunAlone(d) == d \in writing /\ d.file \in DOMAIN folder /\ folder[d.file].state = "truncated"

\* As long as nothing has failed, a frame with a file of its own is waiting, in its
\* file alone, or written; and it stays written when the call has returned.
FilesInProgress ==
    stage = "write" /\ ~failed =>
        \A d \in DfsToWrite : OnlyWriter(d) => d \in waiting \/ BegunAlone(d) \/ Written(d)
FilesKept ==
    status = "ok" /\ op.name = "write_native_parquet" =>
        \A d \in DfsToWrite : OnlyWriter(d) => Written(d)

FolderInv == FolderMapped /\ WritesCollected /\ FilesInProgress /\ FilesKept

\* What depends on the tables only is the same when they are.
LEMMA SameTables ==
    ASSUME UNCHANGED <<df_map, frames, held, drained>>
    PROVE  /\ DfsToWrite' = DfsToWrite
           /\ \A stem : MappedUnder(stem)' = MappedUnder(stem)
           /\ \A fs : RowsIn(fs)' = RowsIn(fs)
           /\ \A d : OnlyWriter(d)' <=> OnlyWriter(d)
<1>1. DfsToWrite' = DfsToWrite
    BY SameFiles
<1>2. \A stem : MappedUnder(stem)' = MappedUnder(stem)
    BY DEF MappedUnder, MappedInto, mapped
<1>3. \A fs : RowsIn(fs)' = RowsIn(fs)
    BY DEF RowsIn
<1>4. \A d : OnlyWriter(d)' <=> OnlyWriter(d)
    BY <1>1 DEF OnlyWriter
<1> QED BY <1>1, <1>2, <1>3, <1>4

\* A file that is set to rows that may be in it.
LEMMA SetFileMapped ==
    ASSUME FolderMapped, UNCHANGED vars, NEW file, NEW content, SetFile(file, content),
           content.rows \subseteq MappedUnder(file[1])
    PROVE  FolderMapped'
<1>1. \A stem : MappedUnder(stem)' = MappedUnder(stem)
    BY SameTables DEF vars, store
<1>2. /\ DOMAIN folder' = DOMAIN folder \union {file}
      /\ \A g \in DOMAIN folder' : folder'[g] = IF g = file THEN content ELSE folder[g]
    BY DEF SetFile
<1> QED BY <1>1, <1>2 DEF FolderMapped

\* What is made of a torn file is what one of its writers wrote, or nothing.
LEMMA TornIsMapped ==
    ASSUME CInv, NEW file, NEW c \in TornOutcomes(file)
    PROVE  c.rows \subseteq MappedUnder(file[1])
<1>1. CASE c = Content("torn", {})
    BY <1>1 DEF Content
<1>2. CASE \E d \in DfsToWrite : d.file = file /\ c = Content("complete", RowsIn({d.frame}))
    BY <1>2, CollectedIsMapped DEF Content
<1> QED BY <1>1, <1>2 DEF TornOutcomes

\* The writers write only what was mapped.
LEMMA WriteParquetMapped ==
    ASSUME CInv, FolderMapped, WritesCollected, WriteParquet PROVE FolderMapped'
<1>1. UNCHANGED vars
    BY DEF WriteParquet, Create, CreateFails, Finish, FinishFails
<1>2. CASE UNCHANGED folder
  <2>1. \A stem : MappedUnder(stem)' = MappedUnder(stem)
      BY <1>1, SameTables DEF vars, store
  <2> QED BY <1>2, <2>1 DEF FolderMapped
<1>3. ASSUME NEW j \in waiting, Create(j) PROVE FolderMapped'
  <2>1. PICK state : SetFile(j.file, Content(state, {}))
      BY <1>3 DEF Create
  <2> QED BY <1>1, <2>1, SetFileMapped DEF Content
<1>4. ASSUME NEW j \in writing, Finish(j) \/ FinishFails(j), folder' # folder PROVE FolderMapped'
  <2>1. CASE SetFile(j.file, Content("complete", RowsIn({j.frame})))
    <3>1. RowsIn({j.frame}) \subseteq MappedUnder(j.file[1])
        BY CollectedIsMapped DEF WritesCollected
    <3> QED BY <1>1, <2>1, <3>1, SetFileMapped DEF Content
  <2>2. CASE \E c \in TornOutcomes(j.file) : SetFile(j.file, c)
    <3>1. PICK c \in TornOutcomes(j.file) : SetFile(j.file, c)
        BY <2>2
    <3>2. c.rows \subseteq MappedUnder(j.file[1])
        BY TornIsMapped
    <3> QED BY <1>1, <3>1, <3>2, SetFileMapped
  <2> QED BY <1>4, <2>1, <2>2 DEF Finish, FinishFails
<1> QED BY <1>2, <1>3, <1>4 DEF WriteParquet, CreateFails

\* They write only what was collected.
LEMMA WriteParquetCollected ==
    ASSUME WritesCollected, WriteParquet PROVE WritesCollected'
<1>1. UNCHANGED vars
    BY DEF WriteParquet, Create, CreateFails, Finish, FinishFails
<1>2. DfsToWrite' = DfsToWrite /\ UNCHANGED stage
    BY <1>1, SameTables DEF vars, store, control
<1>3. stage = "write" /\ ~Caching
  <2>1. waiting # {} \/ writing # {}
      BY DEF WriteParquet
  <2>2. Caching => DfsToWrite = {}
      BY DEF DfsToWrite
  <2> QED BY <2>1, <2>2 DEF WritesCollected
<1>4. \/ \E j \in waiting : waiting' = waiting \ {j} /\ writing' \in {writing, writing \union {j}}
      \/ \E j \in writing : writing' = writing \ {j} /\ UNCHANGED waiting
    BY DEF WriteParquet, Create, CreateFails, Finish, FinishFails
<1>5. failed' \in BOOLEAN
    BY DEF WriteParquet, Create, CreateFails, Finish, FinishFails, WritesCollected
<1> QED BY <1>2, <1>3, <1>4, <1>5 DEF WritesCollected

\* A writer in another file leaves what d has.
LEMMA OtherFile ==
    ASSUME UNCHANGED vars, NEW d, NEW file, file # d.file, NEW content,
           UNCHANGED folder \/ SetFile(file, content)
    PROVE  /\ Written(d) => Written(d)'
           /\ d.file \in DOMAIN folder =>
                 d.file \in DOMAIN folder' /\ folder'[d.file] = folder[d.file]
<1>1. RowsIn({d.frame})' = RowsIn({d.frame})
    BY SameTables DEF vars, store
<1>2. d.file \in DOMAIN folder =>
          d.file \in DOMAIN folder' /\ folder'[d.file] = folder[d.file]
    BY DEF SetFile
<1> QED BY <1>1, <1>2 DEF Written

\* A frame with a file of its own is never torn: it stays waiting, begins alone, and
\* is written when its writer has finished.
LEMMA WriteParquetProgress ==
    ASSUME WritesCollected, FilesInProgress, WriteParquet PROVE FilesInProgress'
<1>1. UNCHANGED vars
    BY DEF WriteParquet, Create, CreateFails, Finish, FinishFails
<1>2. /\ DfsToWrite' = DfsToWrite /\ UNCHANGED stage
      /\ \A d : OnlyWriter(d)' <=> OnlyWriter(d)
      /\ \A fs : RowsIn(fs)' = RowsIn(fs)
    BY <1>1, SameTables DEF vars, store, control
<1> SUFFICES ASSUME stage = "write", ~failed', NEW d \in DfsToWrite, OnlyWriter(d)
             PROVE  d \in waiting' \/ BegunAlone(d)' \/ Written(d)'
    BY <1>2 DEF FilesInProgress
<1>3. \/ \E j \in waiting : Create(j)
      \/ \E j \in writing : Finish(j)
    BY DEF WriteParquet, CreateFails, FinishFails
<1>4. d \in waiting \/ BegunAlone(d) \/ Written(d)
  <2>1. ~failed
      BY <1>3 DEF Create, Finish
  <2> QED BY <2>1 DEF FilesInProgress
<1>5. waiting \subseteq DfsToWrite /\ writing \subseteq DfsToWrite
      /\ waiting \intersect writing = {}
    BY DEF WritesCollected
<1>6. \A e \in DfsToWrite : e # d => e.file # d.file
    BY DEF OnlyWriter
<1>7. OthersIn(d) = {}
    BY <1>5, <1>6 DEF OthersIn
<1>8. ASSUME NEW j \in waiting, Create(j) PROVE d \in waiting' \/ BegunAlone(d)' \/ Written(d)'
  <2>1. waiting' = waiting \ {j} /\ writing' = writing \union {j}
      BY <1>8 DEF Create
  <2>2. PICK state : /\ SetFile(j.file, Content(state, {}))
                     /\ OthersIn(j) = {} => state = "truncated"
      BY <1>8 DEF Create
  <2>3. CASE j = d
    <3>1. d.file \in DOMAIN folder' /\ folder'[d.file] = Content("truncated", {})
        BY <1>7, <2>2, <2>3 DEF SetFile
    <3> QED BY <2>1, <2>3, <3>1 DEF BegunAlone, Content
  <2>4. CASE j # d
    <3>1. j.file # d.file
        BY <1>5, <1>6, <2>4
    <3>2. /\ Written(d) => Written(d)'
          /\ d.file \in DOMAIN folder =>
                d.file \in DOMAIN folder' /\ folder'[d.file] = folder[d.file]
        BY <1>1, <2>2, <3>1, OtherFile
    <3> QED BY <1>4, <2>1, <2>4, <3>2 DEF BegunAlone
  <2> QED BY <2>3, <2>4
<1>9. ASSUME NEW j \in writing, Finish(j) PROVE d \in waiting' \/ BegunAlone(d)' \/ Written(d)'
  <2>1. waiting' = waiting /\ writing' = writing \ {j}
      BY <1>9 DEF Finish
  <2>2. CASE j = d
    <3>1. \/ folder[d.file].state = "truncated"
             /\ SetFile(d.file, Content("complete", RowsIn({d.frame})))
          \/ folder[d.file].state = "torn"
        BY <1>7, <1>9, <2>2 DEF Finish
    <3>2. folder[d.file].state # "torn"
        BY <1>4, <1>5, <2>2 DEF BegunAlone, Written, Content
    <3>3. d.file \in DOMAIN folder' /\ folder'[d.file] = Content("complete", RowsIn({d.frame}))
        BY <3>1, <3>2 DEF SetFile
    <3> QED BY <1>2, <3>3 DEF Written
  <2>3. CASE j # d
    <3>1. j.file # d.file
        BY <1>5, <1>6, <2>3
    <3>2. UNCHANGED folder \/ \E content : SetFile(j.file, content)
        BY <1>9 DEF Finish
    <3>3. /\ Written(d) => Written(d)'
          /\ d.file \in DOMAIN folder =>
                d.file \in DOMAIN folder' /\ folder'[d.file] = folder[d.file]
        BY <1>1, <3>1, <3>2, OtherFile
    <3> QED BY <1>4, <2>1, <2>3, <3>3 DEF BegunAlone
  <2> QED BY <2>2, <2>3
<1> QED BY <1>3, <1>8, <1>9

\* The store's own steps leave the folder alone; the one that comes to the stage
\* "write" collects, and none of them returns Ok from write_native_parquet.
LEMMA CollectingStep ==
    ASSUME CInv, Next, stage # "write", stage' = "write" PROVE UNCHANGED store \/ Deduplicated
<1>1. CASE Expand
    BY <1>1 DEF Expand, ExpandCall, ExpandReturns, ExpandChunk, ExpandChunkFails, Begin,
                Return, control
<1>2. CASE Deduplicate
    BY <1>2 DEF Deduplicate, DeduplicateTable, DeduplicateInMemory,
                DeduplicateInFolder, DeduplicateReadFails, DeduplicateRemoveFails,
                DeduplicateWriteFails, DeduplicatePanics, DeduplicateFails, BeginExport, Abort, Return
<1>3. CASE QueryParsed
    BY <1>3 DEF QueryParsed, EvaluateMissing, EvaluatePanics, Evaluate, EvaluateFails,
                Construct, ConstructFails, Abort, Return
<1>4. CASE ExportTriples \/ WriteReturns \/ BeginCall
    BY <1>4 DEF ExportTriples, ExportPassDone, ExportTable,
                ExportPanics, ExportTableFails, WriteReturns, BeginCall, Query,
                ConstructUpdate, Export, BeginRead, Begin, PathDoesNotExist, store
<1> QED BY <1>1, <1>2, <1>3, <1>4 DEF Next

LEMMA NoneReturnsWritten ==
    ASSUME CInv, CInv', Next, stage # "write", status' = "ok", op'.name = "write_native_parquet"
    PROVE  FALSE
<1>1. stage # "idle" => status = "none"
    BY DEF CInv, CallInProgress
<1>2. CASE Expand
    BY <1>2 DEF Expand, ExpandCall, ExpandReturns, ExpandChunk, ExpandChunkFails, Begin,
                Return, control, CInv, CallInProgress
<1>3. CASE Deduplicate
    BY <1>1, <1>3 DEF Deduplicate, Deduplicated, DeduplicateTable, DeduplicateInMemory,
                DeduplicateInFolder, DeduplicateReadFails, DeduplicateRemoveFails,
                DeduplicateWriteFails, DeduplicatePanics, DeduplicateFails, BeginExport, GoOn, Abort, Return
<1>4. CASE QueryParsed
  <2>1. stage \in {"evaluate", "construct"} /\ op' = op
      BY <1>4 DEF QueryParsed, EvaluateMissing, EvaluatePanics, Evaluate, EvaluateFails,
                Construct, ConstructFails, Evaluated, Abort, Return
  <2> QED BY <2>1 DEF CInv, CallInProgress
<1>5. CASE ExportTriples
  <2>1. stage = "export" /\ op' = op
      BY <1>5 DEF ExportTriples, ExportPassDone, ExportTable, ExportPanics, ExportTableFails,
                EndPass, Abort, Return
  <2> QED BY <2>1 DEF CInv, CallInProgress, Exports
<1>6. CASE WriteReturns \/ BeginCall
    BY <1>6 DEF WriteReturns, BeginCall, Query,
                ConstructUpdate, Export, BeginRead, Begin, PathDoesNotExist
<1> QED BY <1>2, <1>3, <1>4, <1>5, <1>6 DEF Next

\* Every step of the store with its writer preserves the invariant of the folder.
LEMMA StoreStepFolder ==
    ASSUME CInv, CInv', FolderInv, StoreStep PROVE FolderInv'
<1>1. /\ Next /\ stage # "write" /\ UNCHANGED <<folder, writing, failed>>
      /\ waiting = {} /\ writing = {} /\ ~failed
      /\ waiting' = IF stage' = "write" THEN DfsToWrite ELSE {}
    BY DEF StoreStep, FolderInv, WritesCollected
<1>2. FolderMapped'
  <2>1. mapped \subseteq mapped'
      BY <1>1, MappedGrows DEF CInv
  <2>2. \A stem : MappedUnder(stem) \subseteq MappedUnder(stem)'
      BY <2>1 DEF MappedUnder, MappedInto, MayHold
  <2> QED BY <1>1, <2>2 DEF FolderInv, FolderMapped
<1>3. stage' = "write" => DfsToWrite' = DfsToWrite
    BY <1>1, CollectingStep, SameFiles DEF store, Deduplicated
<1>4. WritesCollected'
    BY <1>1, <1>3 DEF FolderInv, WritesCollected
<1>5. FilesInProgress'
    BY <1>1, <1>3 DEF FilesInProgress
<1>6. FilesKept'
    BY <1>1, NoneReturnsWritten DEF FilesKept
<1> QED BY <1>2, <1>4, <1>5, <1>6 DEF FolderInv

LEMMA AllWrittenFolder ==
    ASSUME CInv, FolderInv, AllWritten PROVE FolderInv'
<1>1. /\ UNCHANGED <<df_map, frames, held, drained, folder, waiting, writing>>
      /\ stage' = "idle" /\ failed' = FALSE /\ waiting = {} /\ writing = {} /\ stage = "write"
      /\ status' = IF failed THEN "error" ELSE "ok"
    BY DEF AllWritten, Return, store
<1>2. /\ DfsToWrite' = DfsToWrite
      /\ \A stem : MappedUnder(stem)' = MappedUnder(stem)
      /\ \A fs : RowsIn(fs)' = RowsIn(fs)
      /\ \A d : OnlyWriter(d)' <=> OnlyWriter(d)
    BY <1>1, SameTables
<1>3. FolderMapped'
    BY <1>1, <1>2 DEF FolderInv, FolderMapped
<1>4. WritesCollected'
    BY <1>1, <1>2 DEF FolderInv, WritesCollected
<1>5. FilesInProgress'
    BY <1>1 DEF FilesInProgress
<1>6. FilesKept'
  <2> SUFFICES ASSUME ~failed, NEW d \in DfsToWrite, OnlyWriter(d) PROVE Written(d)'
      BY <1>1, <1>2 DEF FilesKept
  <2>1. Written(d)
      BY <1>1 DEF FolderInv, FilesInProgress, BegunAlone
  <2> QED BY <1>1, <1>2, <2>1 DEF Written
<1> QED BY <1>3, <1>4, <1>5, <1>6 DEF FolderInv

LEMMA FolderStep ==
    ASSUME CInv, CInv', FolderInv, [WriterNext]_<<vars, parquet>> PROVE FolderInv'
<1>1. CASE UNCHANGED <<vars, parquet>>
  <2>1. /\ UNCHANGED <<df_map, frames, held, drained, folder, waiting, writing, failed>>
        /\ UNCHANGED <<stage, status, op>>
      BY <1>1 DEF vars, store, control, parquet
  <2>2. /\ DfsToWrite' = DfsToWrite
        /\ \A stem : MappedUnder(stem)' = MappedUnder(stem)
        /\ \A fs : RowsIn(fs)' = RowsIn(fs)
        /\ \A d : OnlyWriter(d)' <=> OnlyWriter(d)
      BY <2>1, SameTables
  <2>3. \A d : (Written(d)' <=> Written(d)) /\ (BegunAlone(d)' <=> BegunAlone(d))
      BY <2>1, <2>2 DEF Written, BegunAlone
  <2>4. FolderMapped'
      BY <2>1, <2>2 DEF FolderInv, FolderMapped
  <2>5. WritesCollected'
      BY <2>1, <2>2 DEF FolderInv, WritesCollected
  <2>6. FilesInProgress'
      BY <2>1, <2>2, <2>3 DEF FolderInv, FilesInProgress
  <2>7. FilesKept'
      BY <2>1, <2>2, <2>3 DEF FolderInv, FilesKept
  <2> QED BY <2>4, <2>5, <2>6, <2>7 DEF FolderInv
<1>2. CASE StoreStep
    BY <1>2, StoreStepFolder
<1>3. CASE AllWritten
    BY <1>3, AllWrittenFolder
<1>4. CASE WriteParquet
  <2>1. UNCHANGED vars /\ stage = "write"
    <3>1. UNCHANGED vars
        BY <1>4 DEF WriteParquet, Create, CreateFails, Finish, FinishFails
    <3>2. waiting # {} \/ writing # {}
        BY <1>4 DEF WriteParquet
    <3> QED BY <3>1, <3>2 DEF FolderInv, WritesCollected
  <2>2. status' = "none"
      BY <2>1 DEF CInv, CallInProgress, vars, control
  <2>3. FilesKept'
      BY <2>2 DEF FilesKept
  <2> QED BY <1>4, <2>3, WriteParquetMapped, WriteParquetCollected, WriteParquetProgress
          DEF FolderInv
<1> QED BY <1>1, <1>2, <1>3, <1>4 DEF WriterNext

LEMMA WriterInvariant == WriterSpec => [](CInv /\ FolderInv)
<1>1. WriterInit => FolderInv
  <2> SUFFICES ASSUME WriterInit PROVE FolderInv
      OBVIOUS
  <2>1. /\ DOMAIN folder = {} /\ waiting = {} /\ writing = {} /\ failed = FALSE
        /\ stage = "idle" /\ status = "none"
      BY DEF WriterInit, Init
  <2> QED BY <2>1 DEF FolderInv, FolderMapped, WritesCollected, FilesInProgress, FilesKept
<1>2. CInv /\ CInv' /\ FolderInv /\ [WriterNext]_<<vars, parquet>> => FolderInv'
    BY FolderStep
<1> QED BY <1>1, <1>2, WriterImplementsStore, ContentsInvariant, PTL DEF WriterSpec

----------------------------------------------------------------------------
\* A table into which something was mapped is there, also when a panic has
\* emptied it.
LEMMA MappedExists ==
    ASSUME CInv, NEW k \in Tables, NEW r \in MappedInto(k) PROVE k \in Existing
<1>1. <<k[1], k[2], r>> \in mapped /\ r \in Rows /\ k = <<k[1], k[2]>>
    BY DEF MappedInto, Tables
<1>2. CASE <<k[1], k[2], r>> \in held
  <2>1. r \in HeldRows(k)
      BY <1>1, <1>2 DEF HeldRows
  <2> QED BY <2>1 DEF CInv, Contents, TablesHold
<1>3. CASE <<k[1], k[2], r>> \in drained
  <2>1. \A t \in drained : <<t[1], t[2]>> \in Existing
      BY DEF CInv, DrainedMixed
  <2> QED BY <1>1, <1>3, <2>1
<1> QED BY <1>1, <1>2, <1>3 DEF mapped

\* Whatever has failed and whichever writers met in a file, every file of the
\* caller's folder that can be read holds only triples of its name, for any
\* names, however many threads, and any number of calls.
THEOREM FilesInventNothing == WriterSpec => []FolderInventsNothing
<1>1. FolderInv => FolderInventsNothing
    BY DEF FolderInv, FolderMapped, FolderInventsNothing, MappedUnder
<1> QED BY <1>1, WriterInvariant, PTL

LEMMA WrittenFile ==
    ASSUME NEW d, Written(d)
    PROVE  /\ d.file \in DOMAIN folder
           /\ folder[d.file].state = "complete" /\ folder[d.file].rows = RowsIn({d.frame})
BY DEF Written, Content

\* The frames of a table that shares its name with none have files of their own,
\* the first ones with its name.
LEMMA AloneIsOnlyWriter ==
    ASSUME Types, NEW k \in Existing, Alone(k), NEW d \in FilesOf(k)
    PROVE  OnlyWriter(d)
<1> DEFINE part == PartNumber(k)
<1>1. PICK f \in df_map[k].dfs : d = [frame |-> f, file |-> <<FileStem(k), part[f]>>]
    BY DEF FilesOf
<1>2. \A f1, f2 \in df_map[k].dfs : part[f1] = part[f2] => f1 = f2
  <2>1. part \in Injection(df_map[k].dfs, 0 .. Cardinality(df_map[k].dfs) - 1)
      BY PartsNumbered DEF Bijection
  <2> HIDE DEF part
  <2> QED BY <2>1 DEF Injection, IsInjective
<1> HIDE DEF part
<1> SUFFICES ASSUME NEW e \in DfsToWrite, e.file = d.file PROVE e = d
    BY DEF OnlyWriter
<1>3. PICK j \in Existing : e \in FilesOf(j)
    BY DEF DfsToWrite
<1>4. PICK g \in df_map[j].dfs : e = [frame |-> g, file |-> <<FileStem(j), PartNumber(j)[g]>>]
    BY <1>3 DEF FilesOf
<1>5. FileStem(j) = FileStem(k) /\ PartNumber(j)[g] = part[f]
    BY <1>1, <1>4
<1>6. j = k
    BY <1>5 DEF Alone
<1> QED BY <1>1, <1>2, <1>4, <1>5, <1>6 DEF part

LEMMA EveryPartCollected ==
    ASSUME Types, ~Caching, NEW k \in Existing
    PROVE  /\ \A part \in 0 .. Cardinality(df_map[k].dfs) - 1 :
                 \E d \in FilesOf(k) : d.file = <<FileStem(k), part>>
           /\ \A f \in df_map[k].dfs : \E d \in FilesOf(k) : d.frame = f
           /\ \A d \in FilesOf(k) : d \in DfsToWrite /\ d.file[1] = FileStem(k)
<1>1. ASSUME NEW part \in 0 .. Cardinality(df_map[k].dfs) - 1
      PROVE  \E f \in df_map[k].dfs : PartNumber(k)[f] = part
    BY PartsNumbered DEF Bijection, Surjection
<1>2. \A d \in FilesOf(k) : d \in DfsToWrite
    BY DEF DfsToWrite
<1>3. ASSUME NEW part \in 0 .. Cardinality(df_map[k].dfs) - 1
      PROVE  \E d \in FilesOf(k) : d.file = <<FileStem(k), part>>
  <2>1. PICK f \in df_map[k].dfs : PartNumber(k)[f] = part
      BY <1>1
  <2>2. [frame |-> f, file |-> <<FileStem(k), PartNumber(k)[f]>>] \in FilesOf(k)
      BY DEF FilesOf
  <2> QED BY <2>1, <2>2
<1>4. ASSUME NEW f \in df_map[k].dfs PROVE \E d \in FilesOf(k) : d.frame = f
  <2>1. [frame |-> f, file |-> <<FileStem(k), PartNumber(k)[f]>>] \in FilesOf(k)
      BY DEF FilesOf
  <2> QED BY <2>1
<1>5. ASSUME NEW d \in FilesOf(k) PROVE d.file[1] = FileStem(k)
  <2>1. \E part : d.file = <<FileStem(k), part>>
      BY DEF FilesOf
  <2> QED BY <2>1
<1> QED BY <1>2, <1>3, <1>4, <1>5

\* The parts of a table are the files of its frames.
LEMMA EveryPartHasFrame ==
    ASSUME Types, ~Caching, NEW k \in Existing
    PROVE  /\ \A file \in PartsOf(k) : \E d \in FilesOf(k) : d.file = file
           /\ \A d \in FilesOf(k) : d.file \in PartsOf(k)
           /\ \A d \in FilesOf(k) : RowsIn({d.frame}) \subseteq RowsOf(k)
<1> DEFINE part == PartNumber(k)
<1>1. \A file \in PartsOf(k) : \E d \in FilesOf(k) : d.file = file
    BY EveryPartCollected DEF PartsOf
<1>2. part \in [df_map[k].dfs -> 0 .. Cardinality(df_map[k].dfs) - 1]
    BY PartsNumbered DEF Bijection, Injection
<1> HIDE DEF part
<1>3. ASSUME NEW d \in FilesOf(k)
      PROVE  d.file \in PartsOf(k) /\ RowsIn({d.frame}) \subseteq RowsOf(k)
  <2>1. PICK f \in df_map[k].dfs : d = [frame |-> f, file |-> <<FileStem(k), part[f]>>]
      BY DEF FilesOf, part
  <2>2. part[f] \in 0 .. Cardinality(df_map[k].dfs) - 1
      BY <1>2
  <2>3. RowsIn({f}) \subseteq RowsOf(k)
      BY DEF RowsOf, RowsIn
  <2> QED BY <2>1, <2>2, <2>3 DEF PartsOf
<1> QED BY <1>1, <1>3

\* When write_native_parquet has returned Ok, and until the next call, every table
\* that shares its name with none has a whole file for each frame, these files hold
\* the table, and all files with its name hold only what was mapped into it.
THEOREM FilesHoldTheTables == WriterSpec => []FolderHoldsTheStore
<1>1. ASSUME CInv, FolderInv, status = "ok", op.name = "write_native_parquet", ~Caching,
             NEW k \in Existing, Alone(k)
      PROVE  /\ \A file \in PartsOf(k) :
                    file \in DOMAIN folder /\ folder[file].state = "complete"
             /\ UNION { folder[file].rows : file \in PartsOf(k) } = RowsOf(k)
             /\ UNION { folder[file].rows : file \in FilesWith(FileStem(k)) }
                    \subseteq MappedInto(k)
  <2> USE <1>1
  <2>1. Types
      BY DEF CInv
  <2>2. \A d \in FilesOf(k) : /\ d.file \in DOMAIN folder
                              /\ folder[d.file].state = "complete"
                              /\ folder[d.file].rows = RowsIn({d.frame})
    <3>1. \A d \in FilesOf(k) : d \in DfsToWrite /\ OnlyWriter(d)
        BY <2>1, EveryPartCollected, AloneIsOnlyWriter
    <3>2. \A d \in FilesOf(k) : Written(d)
        BY <3>1 DEF FolderInv, FilesKept
    <3> QED BY <3>2, WrittenFile
  <2>3. ASSUME NEW file \in PartsOf(k)
        PROVE  /\ file \in DOMAIN folder /\ folder[file].state = "complete"
               /\ folder[file].rows \subseteq RowsOf(k)
    <3>1. PICK d \in FilesOf(k) : d.file = file
        BY <2>1, EveryPartHasFrame
    <3>2. RowsIn({d.frame}) \subseteq RowsOf(k)
        BY <2>1, EveryPartHasFrame
    <3> QED BY <2>2, <3>1, <3>2
  <2>4. ASSUME NEW r \in RowsOf(k)
        PROVE  \E file \in PartsOf(k) : r \in folder[file].rows
    <3>1. PICK f \in df_map[k].dfs : r \in RowsIn({f})
        BY DEF RowsOf, RowsIn
    <3>2. PICK d \in FilesOf(k) : d.frame = f
        BY <2>1, EveryPartCollected
    <3>3. d.file \in PartsOf(k) /\ folder[d.file].rows = RowsIn({d.frame})
        BY <2>1, <2>2, EveryPartHasFrame
    <3> QED BY <3>1, <3>2, <3>3
  <2>5. ASSUME NEW file \in FilesWith(FileStem(k)) PROVE folder[file].rows \subseteq MappedInto(k)
    <3>1. folder[file].rows \subseteq MappedUnder(FileStem(k))
        BY DEF FilesWith, FolderInv, FolderMapped
    <3>2. ASSUME NEW j \in Tables, MayHold(FileStem(k), j), NEW r \in MappedInto(j) PROVE j = k
      <4>1. j \in Existing /\ FileStem(j) = FileStem(k)
          BY <3>2, MappedExists, StemOfTable DEF Existing
      <4> QED BY <4>1 DEF Alone
    <3> QED BY <3>1, <3>2 DEF MappedUnder
  <2> QED BY <2>3, <2>4, <2>5
<1>2. CInv /\ FolderInv => FolderHoldsTheStore
    BY <1>1 DEF FolderHoldsTheStore
<1> QED BY <1>2, WriterInvariant, PTL
=============================================================================

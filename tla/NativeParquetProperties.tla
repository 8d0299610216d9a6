----------------------- MODULE NativeParquetProperties -----------------------
(***************************************************************************)
(* What the files written by write_native_parquet have to do with the      *)
(* tables of the store.                                                    *)
(***************************************************************************)
EXTENDS NativeParquet, TripleStoreProperties

\* The tables whose files no other table writes to.
Alone(k) == \A j \in Existing \ {k} : FileStem(j) # FileStem(k)

FilesWith(stem) == { file \in DOMAIN folder : file[1] = stem }

\* When write_native_parquet has returned Ok, and until the next call, every table
\* that shares its name with none has one whole file for each of its frames, and
\* these files hold the table.  There may be more of its files, when the table was
\* deduplicated into fewer frames since an earlier call: those hold what was mapped
\* into it, or cannot be read, if the earlier call failed in them.
PartsOf(k) == { <<FileStem(k), part>> : part \in 0 .. Cardinality(df_map[k].dfs) - 1 }
MappedInto(k) == { r \in Rows : <<k[1], k[2], r>> \in mapped }
FolderHoldsTheStore ==
    status = "ok" /\ op.name = "write_native_parquet" /\ ~Caching =>
        \A k \in { j \in Existing : Alone(j) } :
            /\ \A file \in PartsOf(k) : file \in DOMAIN folder /\ folder[file].state = "complete"
            /\ UNION { folder[file].rows : file \in PartsOf(k) } = RowsOf(k)
            /\ UNION { folder[file].rows : file \in FilesWith(FileStem(k)) } \subseteq MappedInto(k)

\* A table that a reader of the folder may take a file with this stem for.
MayHold(stem, k) ==
    /\ stem[1] = property_to_filename(k[1])
    /\ IF stem[2] = "object_property" THEN k[2] \notin Datatypes
       ELSE k[2] \in Datatypes /\ stem[2] = property_to_filename(k[2])

\* Whatever has failed and whichever writers met in a file, a file that can be
\* read holds only triples mapped under the predicate and the kind of object in its
\* name.
FolderInventsNothing ==
    \A file \in DOMAIN folder :
        folder[file].rows \subseteq
            UNION { MappedInto(k) : k \in { j \in Tables : MayHold(file[1], j) } }
=============================================================================

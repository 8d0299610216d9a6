------------------------ MODULE TripleStoreProperties ------------------------
(***************************************************************************)
(* What the triple store should guarantee, whatever its callers do and     *)
(* whichever file operations fail.                                         *)
(***************************************************************************)
EXTENDS TripleStore

\* The type invariant.
TypeOK ==
    /\ df_map \in [Tables -> TripleTable \union {NoTable}]
    /\ frames \in [FrameIds -> Frame \union {NoFrame}]
    /\ deduplicated \in BOOLEAN
    /\ calls \in Nat
    /\ op.name \in Calls \union {"none"}
    /\ op.predicate \in Predicates \union {"none"}
    /\ stage \in Stages
    /\ todo \subseteq Existing
    /\ pass \in 0 .. 3
    /\ status \in {"none", "ok", "error", "panic", "assertion_failed"}
    /\ out \subseteq Triples
    /\ twice \subseteq out
    /\ held \subseteq Triples /\ drained \subseteq Triples

\* A query never meets a table that has not been deduplicated: the assertion
\* "Should be deduplicated" of lazy_triple_pattern holds, because the store's
\* flag is set only when every table's is, and adding, which may clear a
\* table's flag, then clears the store's.
DeduplicatedMeansUnique ==
    /\ deduplicated => \A k \in Existing : df_map[k].unique
    /\ status # "assertion_failed"

\* With a folder the store is fail-stop: a query or an export that returns Ok has
\* delivered every triple that was ever mapped, and nothing else, even after file
\* operations have failed in earlier calls: a table that has lost a file makes
\* deduplicate, and with it every later call, fail, and so does one whose files
\* cannot be put together.
AnswersComplete ==
    status = "ok" /\ Caching =>
        /\ op.name = "query" => out = { t \in mapped : t[1] = op.predicate }
        /\ op.name \in {"export_oxrdf_triples", "write_n_triples_all_dfs"} => out = mapped

HasTwoDtypes(k) ==
    \E t, u \in mapped : <<t[1], t[2]>> = k /\ <<u[1], u[2]>> = k /\ Dtype[t[3]] # Dtype[u[3]]

\* In memory what to_triples returns is mapped, and it can only miss triples of a
\* table into which rows of different dtypes have been mapped, by calls that all
\* returned Ok; from any other, frames are not lost and none is skipped.
ToTriplesComplete ==
    status = "ok" /\ op.name = "to_triples" /\ ~Caching =>
        /\ out \subseteq mapped
        /\ \A t \in mapped \ out : HasTwoDtypes(<<t[1], t[2]>>)

\* No answer holds a triple twice: a table marked unique has no row twice.
AnswersWithoutDuplicates ==
    /\ \A k \in Existing : df_map[k].unique => RepeatedIn(df_map[k].dfs) = {}
    /\ status = "ok" => twice = {}

\* A table that has lost a file never gets out of that state: no later call
\* takes its other files for the whole table or marks it unique.
LossIsNeverHidden ==
    [][\A k \in Existing : ~Readable(k) => ~Readable(k)' /\ ~df_map'[k].unique]_vars

\* The rows of a table only change in three ways: a call adds some; with a folder,
\* deduplicate fails between removing the old files and writing the new, and then
\* the call in progress does not return its triples as the answer; in memory,
\* deduplicate panics on a table of different dtypes.  The table is then not unique.
RowsAreLostOnlyByFailure ==
    [][\A k \in Existing :
          ~(RowsOf(k) \subseteq RowsOf(k)') =>
              /\ stage = "deduplicate" /\ ~df_map'[k].unique
              /\ IF Caching THEN op.name # "to_triples" => status' = "error"
                 ELSE status' = "panic" /\ Mixed(df_map[k].dfs)]_vars

\* In memory the store implements the abstract one: adding frames, marking tables
\* and removing duplicates are invisible in its set of triples, an answer is exactly
\* that set, and triples only disappear a table at a time, from one that holds
\* objects of different dtypes.
Answer == IF status = "ok" /\ op.name \notin {"expand", "construct_update", "write_native_parquet"}
          THEN {out} ELSE {}
PredicateOfTriple(t) == t[1]
TableOfTriple(t) == <<t[1], t[2]>>
DtypeOfTriple(t) == Dtype[t[3]]
Abstract == INSTANCE AbstractStore WITH
    triples <- StoredTriples, answer <- Answer, PredicateOf <- PredicateOfTriple,
    GroupOf <- TableOfTriple, FormOf <- DtypeOfTriple
ImplementsAbstractStore == Abstract!Spec
=============================================================================

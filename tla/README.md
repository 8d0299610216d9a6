# stOTTRs in TLA+

stOTTRs maps data frames to RDF triples: templates written in stOTTR are
expanded over the rows of a frame, the triples are kept in a columnar store
(in memory, or as Parquet files in a caching folder), and the store answers
SPARQL queries and exports. This directory holds TLA+ models of the parts with
state, order and failure in them, the TLC runs that check them, and proofs.

Paths below are relative to `src/stottrs/src/` unless they begin with `src/`.

## 1. Inventory

| component | state it keeps | operations | talks to |
|---|---|---|---|
| triple store (`triplestore.rs`) | `df_map`: predicate → object type → `TripleTable` (frames or file paths, `unique`, `call_uuid`); `deduplicated`; the caching folder | `add_triples_vec`, `deduplicate` | called by `expand`, SPARQL, exports; calls the Parquet files |
| Parquet files (`triplestore/parquet.rs`) | files in the caching folder | `write_parquet`, `read_parquet`, `split_write_df` | the file system |
| mapping (`mapping.rs`) | the template dataset, the store | `expand`, `_expand`, `process_results` | templates, store |
| exports (`export_triples.rs`, `to_triples` in `src/py_stottrs/src/lib.rs`) | none but the position of their loops | three passes by object type | `deduplicate`, tables |
| SPARQL front (`sparql.rs`, `lazy_graph_patterns/triple.rs`) | none | `query_parsed`, `construct_update` | `deduplicate`, tables, `add_triples_df` |
| N-triples writer (`ntriples_write.rs`) | pools of buffers and iterators, the writer | rounds of threads over each frame | tables |
| native Parquet writer (`native_parquet_write.rs`) | the caller's folder | one file per frame, in parallel | tables, file system |
| SPARQL algebra (`lazy_graph_patterns/*`, `lazy_expressions.rs`, `lazy_aggregate.rs`, `query_context.rs`) | solution mappings passed along, columns named after contexts | one function per operator | each other |
| property paths (`lazy_graph_patterns/path.rs`) | none | closures by sparse matrices, or joins of frames | tables |
| templates (`templates.rs`) | templates, ground instances, prefixes | merging documents, `infer_types` | resolver |
| validation, defaults, constants (`mapping/*.rs`) | none | column checks, default templates | `expand` |
| resolver (`resolver.rs`, `ast.rs`) | the prefix map of the document at hand | `build_prefix_map`, `resolve` of every name | parser, templates |
| parser, literal conversion, FFI | none | pure translations | - |

The store's methods take `&mut self`, so one call runs at a time. What makes
the behaviours hard is elsewhere: the deferred deduplication with two levels of
flags, file operations in parallel any of which can fail in the middle of a
call, `HashMap`s visited in any order, loops whose end depends on integer
division, dropped `Result`s, and long sequences of calls that mix adding,
updating and reading.

What makes each component correct:

* store: it is a set of triples; a table marked unique has no row twice; a
  flag never says more than is true; what a failure has destroyed is never
  taken for the whole. In memory only a panic on columns of different dtypes
  may take a table away.
* slicing: every row in exactly one slice, and the loop ends.
* exports and queries: `Ok` means the answer is complete.
* templates: the inferred types are the least ones, whatever the order of the
  templates; a prefix is kept only if all documents agree on it.
* resolver: a name means the IRI that the directives of its own document say,
  to the templates of all documents and to a later caller.
* writers: the folder, or the stream, holds the triples of the store after `Ok`.
* expansion: the triples are those of the OTTR definition, for every row.
* SPARQL: each operator gives the bag of solutions of the SPARQL definition.
* property paths: the relation SPARQL defines for the path.

## 2. Modules

| module | models | kind |
|---|---|---|
| `Chunks` | the slicing loop that `Mapping::expand` and `split_write_df` share, as operators | operators |
| `Chunking` | that loop, one turn per step, with a slice that fails | state machine, properties |
| `TripleStore` | the store with all its callers | state machine |
| `TripleStoreProperties` | what the store should guarantee | properties |
| `AbstractStore` | the store as its callers see it: a set of triples and exact answers | abstract specification |
| `Matrices` | the sparse 0/1 and counting matrices of `path.rs` as functions of two nodes | operators |
| `PathClosure` | the loops of `plus` and `zero_or_more`, one multiplication per step | state machine, properties |
| `PropertyPath` | the whole translation of a path expression: matrices, frames, subjects, objects | state machine |
| `PropertyPathProperties` | the relation the SPARQL definition gives a path | properties |
| `PTypes` | the lattice of parameter types (`templates.rs`, `PType`) | operators |
| `TemplateDataset` | merging of documents and `infer_types` | state machine |
| `TemplateDatasetProperties` | least typings, prefixes all documents agree on | properties |
| `SolutionMappings` | bags of solutions and what polars does with them: joins, concatenation, duplicates | operators |
| `GraphPatterns` | `lazy_graph_pattern` and `lazy_expression`, which call each other | state machine |
| `GraphPatternsProperties` | the bag of solutions the SPARQL definition gives a pattern | properties |
| `Expansion` | one frame through `expand` and `expand_default`: validation, `_expand`, `create_remapped`, `create_triples` | state machine |
| `ExpansionSafety` | unique subsets, cycles, what arrives at `ottr:Triple` | properties |
| `ExpansionProperties` | the triples the OTTR definition gives a frame, row by row | properties |
| `Resolver` | documents as parsed, resolved one after the other, then `TemplateDataset` | state machine (composition) |
| `ResolverProperties` | what names mean, in documents and to callers | properties |
| `NativeParquet` | `TripleStore` with the work of its stage "write": parallel writers and the caller's folder | state machine (composition) |
| `NativeParquetProperties` | the folder holds the store, and nothing else | properties |
| `NTriplesWriter` | rounds, threads, buffers and pools of `write_ntriples_for_df` | state machine |
| `NTriplesWriterProperties` | the lines that come out | properties |
| `MC*` | constants of the runs | TLC |
| `*Proofs` | theorems | TLAPS |
| `RecursionLemmas` | induction and recursion over a measure, for the proofs | TLAPS |

`TripleStore` extends `Chunks` (its `split_write_df` cuts with the closed form
`LoopOffsets`, which run `chunking` checks against the loop itself), and
`TripleStoreProperties` maps it to `AbstractStore`. `PropertyPath` takes the
closure of a matrix from `Matrices`, where it is a function; `PathClosure` is
the same loop step by step, and `PropertyPathProofs` is about both. `Expansion`
shares the lattice of types with `TemplateDataset`; the frames it adds are what
`TripleStore` takes as the argument of `ExpandChunk`. `GraphPatterns` begins
where `Evaluate` of `TripleStore` has deduplicated tables.

`Resolver` extends `TemplateDataset`: its steps fill `documents`, with which
the smaller module begins, and then `Next` takes over.
`NativeParquet` extends `TripleStore`: a call of `write_native_parquet` is one
step there, and here the steps of its writers; that the store sees no
difference is proved (`WriterImplementsStore`). `NTriplesWriter` takes over
the frames that `TripleStore` delivers in its step `ExportTable`.

### How `TripleStore` corresponds to the code

| variable | code |
|---|---|
| `df_map` | `Triplestore.df_map`, one entry per predicate and object type; `NoTable` where the nested maps have none |
| `frames` | the content of data frames in memory, or of the files a path names; a frame is the number of times each row occurs in it |
| `deduplicated` | `Triplestore.deduplicated` |
| `calls` | the call uuids drawn so far: the current one is its value |
| `op`, `stage`, `todo`, `pass` | the public method that runs, the loop it is in, and the entries this loop has still to visit |
| `status`, `out`, `twice` | how the method returned, what it handed out, what it handed out more than once |
| `held`, `drained` | history: the triples that were put in tables, and those that a panic has taken out again; `mapped` is both |

| actions | code |
|---|---|
| `ExpandCall`, `ExpandChunk`, `ExpandChunkFails`, `ExpandReturns` | `Mapping::expand` over `process_results` and `add_triples_vec` |
| `AddTriples`, `AddTriplesFails` | `prepare_triples`, `add_triples_df_with(out)_folder`: all files written in parallel, then registered up to the first failure |
| `DeduplicateTable` (`DeduplicateInMemory`, `DeduplicateInFolder`), `Deduplicate{Read,Remove,Write}Fails`, `Deduplicated` | `deduplicate`, one table per step |
| `DeduplicatePanics` (`DrainTable`) | its unwraps of `concat` and `collect`, after the frames in memory have been drained |
| `Query`, `ConstructUpdate`, `Evaluate*`, `Construct`, `ConstructFails` | `query_parsed`, `lazy_triple_pattern`, `construct_update`, `triple_to_df` |
| `Export`, `ExportTable`, `ExportTableFails`, `ExportPanics`, `ExportPassDone` | `export_oxrdf_triples`, `to_triples`, `write_n_triples_all_dfs`, one table per step |

### How `PathClosure` and `PropertyPath` correspond to the code

| variable | code |
|---|---|
| `loop`, `input` of `PathClosure` | which of `zero_or_more` and `one_or_more`, and its argument |
| its `rel_mat`, `last_sum`, `fixed_point` | the variables of these functions |
| `graph`, `query` of `PropertyPath` | the tables, and a path with its two ends: the inputs |
| its `cat_df_map` | the frames of the leaves, by name, that `create_unique_cat_dfs` collects |
| its `stage`, `answer` | how far `lazy_path` is, and the pairs it hands on |

`Turn` is one multiplication with the test of the sums. In `PropertyPath`,
`CreateUniqueCatDfs` is the function of that name; `EvaluateSparse` and
`EvaluateFrames` are the two branches on `need_sparse_matrix`, with
`sparse_path` and `df_path` as functions of the expression, which call themselves
for its parts (`SparsePath`, `DfPath`).

### How `TemplateDataset` corresponds to the code

| variable | code |
|---|---|
| `documents`, `d` | the argument of `new`, and the document its loop has come to |
| `prefix_map`, `defined_prefixes` | the variables of that loop |
| `templates`, `types` | the field `templates`, and the `ptype` of every parameter in it |
| `i`, `inner_changed`, `stage` | the position in a round of `infer_types`, its flag, and how `new` returned |

`MergeDocument` is one turn of the loop over documents. A turn of the loop over
templates skips the template, since another has changed (`Skip`), or calls
`infer_template_types`, with one of four ends, each an action: an unknown
template or a wrong number of arguments (`VisitFails`), types that clash
(`VisitClashes`), one type made more precise (`VisitUpdates`), or nothing new
(`VisitChangesNothing`).

### How `Resolver` corresponds to the code

| variable | code |
|---|---|
| `sources` | the texts given to `from_folder`, `from_file`, `from_str` or `from_strs`, as parsed |
| `map`, `at` | `map` of `build_prefix_map`, and the directive its loop is at |
| `documents` | the documents resolved so far, then the argument of `new` |

`InsertPrefix` is a turn of that loop with `insert_or_raise`; `ParsingFails` an
error of the parser; `ResolveStatements` adds the predefined prefixes and
resolves every name of the document; `CallNew` calls `TemplateDataset::new`.
`Meant` is `Mapping::resolve_template`, what a name means to a caller.

### How the two writers correspond to the code

| variable | code |
|---|---|
| `folder` of `NativeParquet` | the caller's folder by file name; it outlives the call |
| its `waiting`, `writing`, `failed` | `dfs_to_write`, the writers that have created their file, and whether a result is an error |
| `df`, `n_rows_finished` of `NTriplesWriter` | the frame its loop is at, and the variable of that name |
| its `workers`, `buffers`, `drained` | the threads of a round, their buffers (then `result_buf`), and how many have been written |
| its `write_buffer_pool`, `free_iters` | the two pools of fixed size |
| its `out`, `cut` | the lines that the writer has taken, and those of them that it stopped within |
| its `short` | history: it took less than it was given |

`Create`, `CreateFails`, `Finish` and `FinishFails` are the ends of the halves
of `write_parquet`; two writers in one file leave either's content or a file
that is torn. `AllWritten` is the loop over results. `GetBuffer` and
`FillBuffer` are the halves of a thread's closure, `WriteBuffer` a turn of the
loop that drains `result_buf` (what the writer does with a buffer is `Take`),
`EndRound` and `NextFrame` the two loops around it.

### How `GraphPatterns` and `Expansion` correspond to the code

| variable | code |
|---|---|
| `graph`, `pattern` of `GraphPatterns` | the tables, and the algebra of the query: the inputs |
| its `stage`, `solutions` | how `query_parsed` ended, and the bag of rows it collected |
| `input` of `Expansion` | the arguments of `expand`, and the template dataset |
| its `stage` | whether `expand_default` or `expand` is to run, is running, or how it ended |
| its `calls` | the calls of `_expand` with their frames, columns and unique subsets that have not run yet |
| its `instances`, `failed` | the `OTTRTripleInstance`s returned so far, and whether a branch has returned an error |
| its `added` | the `TriplesToAdd` handed to `add_triples_vec` |

`QueryParsed` evaluates the whole pattern in one step, since the evaluation has
no state but its argument. Solution mappings are lazy: beside rows, columns and
types they have a `frame`, the plan that polars is given, with the order of its
columns, their dtypes, and `collects`, how its `collect` may end. The query is
answered if `collect` may succeed, and fails if it may fail; both are possible
where it is not known what polars 0.25.1 makes of the dtypes that meet.
A pattern that joins the mappings around it casts the shared columns to
categories (`Categorical`), in its own frame and in theirs; every other
operator leaves dtypes as they are. `CollectFails` is polars refusing a column
without values of any type, which a predicate without a table leaves behind, or
to group by no column. An expression is a column: the operands of an operator are
evaluated in turn, and `Applied` gives its values (`OperatorColumn`).
`GroupMappings` is `lazy_group` once its aggregates are columns. A `Slice` is
the outermost operator, and takes any rows of the right number, since rows
have no order here.

`_expand` runs the instances of a template in parallel (`par_iter`), so each of
its calls is a step, in any order: `Emit` at `ottr:Triple`, `Instantiate` for a
template, which replaces the call by those of its instances, `InstantiatePanics`
and `StackOverflows`. `ExpandDefault` is `expand_default`, `Expand` is
`resolve_template` with `validate_infer_dataframe_columns`, and
`ProcessResults` is `process_results` with `create_triples`.

Operators whose comment says "mutant" are not part of the model: each is a
plausible mistake in the definition that follows it, and shows that the
property it is paired with in `PROJECT.json` can fail.

### Abstractions

* A row is a subject and an object; no literal has a language tag, which
  `construct_update` would lose, as queries select only these two columns
  (`lazy_graph_patterns/triple.rs:45`). A file is its content; file names are
  fresh (they hold a uuid).
* An object has a `Dtype`, that of the polars column it stands in: the same for
  all objects of one argument of `add_triples_vec` (`HasOneDtype`), but not for
  all of a table, since validation takes any column for a typed parameter and
  a constant is kept as text. `concat` fails for frames of different dtypes.
  The predicate and the subject are always text.
* `write_n_triples_all_dfs` delivers in `TripleStore` what it hands to the
  threads that write; which lines of that arrive is the matter of
  `NTriplesWriter`.
* `deduplicate` visits tables in any order. The code visits all tables of one
  predicate together, so this allows more orders than the code has.
* `tmp_df`, the cached frame of the table being exported, is left out.
* A file whose creation fails is absent. The code may leave a truncated file;
  no table refers to it, and names are fresh, so nothing ever reads it.
* `write_native_parquet` on one predicate with IRIs and blank nodes gives both
  tables the same file names; names are sequences of letters and digits.
* A line of N-triples is the number of its row. `write` takes all of a buffer, a
  prefix of it, or nothing; a prefix may end within a line (`cut`), whose
  beginning stays in the stream, so that the next line written is glued to it.
* Documents hold the names that can fail to resolve; those in ground instances,
  constants, default values, annotations and literals are one set, `others`.
* The pattern of a query in `TripleStore` is one triple pattern over two
  variables, and templates of an update have the form `{ ?s q ?o }`.
* `split_write_df` asks for at most as many parts as there are rows: otherwise
  its loop does not end, which is `Chunking`'s matter.
* Triples with a null are dropped before they reach the store.
* Sums of matrices are natural numbers; the code's are `u32`. Nodes are those
  of the path's tables, which is where the code gets its index from. A constant
  end of a path is left out, and so are naming of columns and tables with
  several object types (`todo!()` in the code). A sequence at the top of a
  path never reaches `lazy_path`: the query parser splits it into triples.
* A parameter type is a list of list constructors around a base type; the
  templates of the run have one parameter each, and a template's instances are
  all the code looks at. Ground instances are only collected.
* Queries: all terms are IRIs. Blank nodes are names of variables, and the
  names that contexts give to columns are left out. Rows have no order:
  `OrderBy` only evaluates its expressions, and a slice inside a query is left
  out. Numbers are integers, of which only those of type `u32` (counts) have a
  width, `U32`; limits are cut to it. Aggregates are Count, Sum, Min and Max.
  Errors and panics are one outcome. A triple pattern has no variable twice.
  `SolutionMappings` gives polars 0.25.1 as the code uses it: joins match null
  with null, a frame without columns has no rows, `concat` wants the same
  columns in the same order, and equal rows share the number that EXISTS gives
  them. Strings meet categories neither as the keys of a join nor in one
  column; whether other unlike dtypes meet, and whether strings can be compared
  with categories, is left open (`DtypesMeet`, `OperandsMeet`). A list of
  variables has an order of its own (`Listed`). What polars' optimizer may move
  or drop in a plan is left out. `count` and `n_unique` take a null for a
  value, the other aggregates skip it; a ternary takes its second branch for a
  null, and `Columns` under one alias is an error but for one column. What
  `spargebra` does before (joined groups of triples are merged, a filter at the
  top of an OPTIONAL is its expression) holds of the patterns of the run.
* Expansion: a cell is a term, null, or a list of them. A column has the type
  that its polars dtype is taken for; dtypes that are taken for none
  (`validation_inference.rs:204`) are `UnknownTypes`. All kinds of errors are
  one, and a panic in one branch wins over the error of another. Language tags
  travel with the types and are left out. The stack is finite (`StackDepth`).
  Every list expander has an argument with `++`, with lists in its column; a
  list of constants is not the object of a triple. Polars' `explode` compares
  total heights only, and makes a null of an empty list; a literal on a frame
  without columns makes one row. A text that is expanded stays one item, where
  polars would make a list of its letters. A frame holds in a column what its
  type says, and `expand_default` gets frames whose columns can be named in an
  IRI or panics (`DefaultPredicate` is Null for a name that cannot).

## 3. Runs

| run | question | bounds |
|---|---|---|
| `triple_store_memory` | does the store in memory implement a set of triples with exact answers, without duplicates, that loses only tables of different dtypes; and do the files of its native writer hold it? | 2 predicates, 4 object types, 3 rows of 2 dtypes, 7 frames, 3 adding calls, writes with 2 threads of which one file may fail |
| `triple_store_folder` | with files and failures, is it fail-stop, do the flags agree, is what is lost never hidden? | 2 predicates (one with a `/`), 3 rows of 2 dtypes, 6 files, 2 adding calls of any number of chunks, at most 2 parts per table |
| `triple_store_overlap` | violation: a table marked unique with a row twice | one call with two instances that overlap |
| `chunking` | does the loop keep every row, and return? | frames of up to 13 rows, up to 6 parts |
| `path_closure` | do the loops of `plus` and `zero_or_more` end with the transitive closure? | 3 nodes: all matrices of zeros and ones, and all of zeros and twos |
| `path_counts` | violation: the sum of a counting matrix stops growing early | 3 nodes, matrices of zeros and twos |
| `property_path` | does a path get the relation SPARQL gives it? | 3 nodes, 2 predicates, at most 2 edges of one and 3 graphs of the other, paths of up to 3 levels |
| `property_path_panic` | violation: every path is answered | the same graphs, two paths |
| `ntriples_writer` | do the lines come out whole, in order, once, and do the pools suffice? | five lists of up to 3 frames of up to 6 rows, 1 to 3 threads, chunks of 1 or 2 rows, writes that take less and may stop within a line |
| `template_dataset` | what names mean, least types, justified errors, prefixes, termination | 3 templates of one parameter in 2 orders, cycles included; lists of 3 out of 13 small sources that repeat, redefine and contradict prefixes |
| `graph_patterns` | does a pattern get the solutions SPARQL gives it, and is it answered? | 2 nodes, 3 predicates (one without a table), 3176 queries of up to three operators nested, whose variables have been joined before or not; groups by one or two variables; limits around `U32` |
| `expansion` | does a frame get the triples of its rows, and when does it fail? | templates of one or two instances nested up to three deep, cycles included; frames of up to 2 rows; stack of 5 calls |

Why the bounds are enough: a second adding call is what clears a table's flag,
a third and fourth reach updates of updated tables; two tables per predicate
are what makes a query panic, two predicates are what lets one table fail
while another has been deduplicated, two rows and two parts are what can be
lost separately. The inputs (`MCTripleStore`) hold a duplicate row, a null, an
empty partition, two tables in one call, one argument with both verbs, a
subset declared unique, a blank node, and numbers beside text under one type,
in one call or in two. For `expansion`, two levels are
needed to swap the names of columns or to bind a variable to a constant, three
to do so with what the second level was handed; two rows to break a unique
subset or to shift zipped lists; one row more would repeat one of these.
For `ntriples_writer`, a frame has to end within a chunk, at its end and before
the last thread's, and be followed by another. For `template_dataset`, a third
source is what meets a prefix that two others have already disagreed on.
For `graph_patterns`, three operators are an OPTIONAL under another with a
filter, which is where what is evaluated within what matters. Many queries
stand in pairs: one with a left side whose variables are still strings, one
with a left side in which they are categories already, as only one of the two
fits the other side; of the 1804 queries that are safe, 669 also fit, and each
of the others may fail. `triple_store_memory` is given only
calls whose instances do not yield a triple twice; `triple_store_overlap`
drops that restriction.

`Chunking`, `PathClosure`, `Resolver` with `TemplateDataset`, and
`NTriplesWriter` have weak fairness of their next step: the code is sequential
and goes on to its next statement, and where it is not, rayon runs every
closure of `par_iter` to its end. `Chunking`, `PathClosure`, `PropertyPath`,
`TemplateDataset`, `GraphPatterns` and `Expansion` check no deadlock: the
function returns and stops. The store and `Expansion` assume no fairness and
state no liveness: loops over the tables of a store end as those over any
finite map, and the one that may not is that of the slices (`Chunking`). That
cycles end by overflowing is safety (`CyclesAddNothing`).

### Findings

* `triplestore.rs:265` keeps a table unique while frames of the call that
  created it are added ("Safe to assume everything is unique"). Each frame is
  without duplicates, but two instances of a template, or two chunks, may
  yield the same triple, and then queries and exports deliver it twice.
* The slices of `expand` and `split_write_df` overlap from the second on,
  because an end is passed for a length: rows of the third and later chunks
  are taken more than once (`TwoChunksAreTakenOnce`), and with fewer rows than
  parts the loop never ends (`LoopReturns`, `TooFewRowsNeverEnd`).

* `path.rs:590`: the loop of `one_or_more` ends when the sum of the entries
  stays the same. For matrices of zeros and ones, which only grow, this is
  right (run `path_closure`, and proved). The argument of `(p/q)+` counts the
  nodes between, and with it the loop can stop early (`path_counts`).
* `path.rs:457`: `(p+)?` panics, since `?` does not count as needing a matrix,
  and the evaluation by frames has no case for `+` (`property_path_panic`).

Seen while modelling, and left without a run because no document or test says
otherwise: `Sequence` and `Alternative` of frames take the frame of their left
side twice; `?` by frames relates the nodes with index 0 to `max_index - 1`
to themselves; `?` of an inverse panics, as the frame of `^p` only has its
columns renamed, and `concat` wants them in one order (`path.rs:441`); `p` and
`!p` share a name for their frame, so that one hides the
other in the same path; a constant end filters the edges before the closure is
built, so that answers are lost; a template that calls itself panics
(`templates.rs:203`). `PropertyPathProperties` states the preconditions under
which a path is exact (`NamedApart`, `PlusOfCounts`, `JoinsOrUnites`).

In the store and its writers: `deduplicate` in memory drains the frames of a
table before it puts them together, and unwraps what comes of that
(`triplestore.rs:134`), so that a table with columns of different dtypes panics
and is empty afterwards, while the store lives on; calls that were all Ok can
fill such a table. Every reader then panics until a call adds to the table
again, and from there on they answer Ok without what is gone
(`ToTriplesComplete`, `RowsAreLostOnlyByFailure` and `ImplementsAbstractStore`
say that nothing else is lost). With a folder the panic comes before a file is
removed. `to_triples` ignores the results of `deduplicate` and of its passes;
with a caching folder, and a predicate whose IRI has a `/` (most have),
`split_write_df` cannot create a file of that name after the old files have
been removed: the triples are gone and `to_triples` reports success.
`write_native_parquet` writes nothing when the store has a caching folder, and
returns `Ok`. A file that a failed write left truncated is never removed, nor
is one of an earlier, larger table, whatever later calls return.
`FolderHoldsTheStore` and `FolderInventsNothing` state what a folder is good
for in spite of this. A disk that is full goes unnoticed by the N-triples
writer, and so does a `write` that takes only a part; if it stops within a
line, the first line of the next buffer is glued to that one, and spoiled with
it (`OnlyShortWritesLose`).

In documents: a document without a directive for `xsd`, `ottr`, `rdf` or `rdfs`
contributes the predefined one, so a document that redefines it removes the
prefix for callers although only one definition is written; `@base` is stored
under the empty prefix, so that it clashes with `@prefix :`; a type keeps the
name it was written with, and the same type under two prefixes is incompatible
with itself.

In the algebra: `BOUND` is true of the unbound; `VALUES` puts a null after each
value and nothing for UNDEF, so that rows are shifted or columns differ in
length and panic; a MINUS inside EXISTS becomes a join; the duplicates on the
left of an OPTIONAL are counted again on the right, and so are those around
a join; a triple pattern without variables has no solutions; an empty group at
the start panics, and so does a UNION with a predicate that has no table.
`COUNT(*)` yields the list of the values of the one column, and cannot be
collected for several; `COUNT(?v)` counts the unbound; a count less a greater
one wraps around; a limit of 2^32 gives nothing; an aggregate without GROUP BY
may be refused; a subquery with aggregates under an OPTIONAL counts the
solutions multiplied by those on the left, and within EXISTS is an error, as
its row numbers are no column; an OPTIONAL that shares a variable with a left
side of one pattern panics, as the right side casts the variable to categories
and the left keeps its strings (`{?x p ?y OPTIONAL {?y q ?z}}`), and so do
JOIN, MINUS, UNION and VALUES whose sides have cast a shared variable
differently; a UNION panics, too, when its sides name the same variables in
another order; `IF` takes an error for false; `SAMETERM` panics.
`GraphPatternsProperties` says for which patterns answers are exact
(`IsSafe`), for which only as sets (not `CountsAgree`), and for which the query
is sure to be answered (`Fits`). Of what the code reads differently,
`bound(?v)` and a MINUS inside EXISTS, it takes the code's reading.

In expansion: a column of a dtype that is not known to
`polars_datatype_to_xsd_datatype` panics for a parameter without a type; a
variable that the outer template binds to a constant panics (`mapping.rs:410`),
a variable twice in one instance too (duplicate columns), and lists with
variables are a `todo!()`; a constant list fits no parameter with a type;
default values and non-optional parameters of inner templates are never looked
at, so that an instance that OTTR ignores is still expanded; an instance of
constants only yields a triple even for a frame without rows; lists of
different lengths zipped together panic, or, if their totals agree, values move
to another row. `ExpansionProperties` states these as the preconditions
`CanBeFormed`, `NoneOnlyInTriples` and `ListsFit`.

The definition of OTTR is there as levels: `Denoted[0]` is the template with the
rows of the frame, `Denoted[n + 1]` the templates that its instances name with
the values that they hand on, lists expanded, and nothing for an instance that
is ignored; the triples are those of `ottr:Triple` on any level
(`TriplesOfRows`). `Met` is the same with what the code makes of lists, a none
of an empty one, and with all that OTTR would ignore: what the code gets to
see, and so what the preconditions are about. Without a cycle no template is
deeper than there are templates, which bounds the levels.

## 4. Proofs

`ChunkingProofs` proves, for frames of any height cut for any number of parts,
that no row is lost (`EveryRowIsTaken`) and that with at least one row and
fewer rows than parts the loop never ends regularly (`TooFewRowsNeverEnd`).
The first rests on an invariant with the arithmetic of the slice: the rows
before the offset have been taken, since a slice from `offset` of length
`to_row >= chunk_size` covers its chunk. Two more theorems say which slices and
how often: the offsets are those of the closed form that `TripleStore` uses for
`split_write_df` (`SlicesAreAsInClosedForm`), and exactly the rows after the
first two chunks are in more than one slice (`OnlyTwoChunksAreTakenOnce`).
Their invariant `SlicesInv` knows the multiples of the chunk size before the
offset to be the slices taken, and that a row from the third chunk on is in the
slice of the chunk before its own already.

`TripleStoreProofs` proves, for any predicates, datatypes, rows, inputs,
templates, faults and bounds:

* `TypeCorrect`: `Spec => []TypeOK`. `TypeOK` is inductive once the template of
  the call in progress is known to be one of `Templates` (`TemplateOK`).
* `ShouldBeDeduplicated`: `Spec => []DeduplicatedMeansUnique`. The invariant
  `FlagsAgree` adds that while `deduplicate` runs every table that is not
  unique is still to be visited, and that there is none when a pattern is
  evaluated; without this a query that has just deduplicated could not be
  known to meet unique tables only.
* `AnswersAreComplete`, with a folder: what a query or an export returns with
  Ok is what was ever mapped. `ToTriplesIsComplete`, in memory: what is missing
  is of a table into which rows of different dtypes were mapped. Neither the
  answers nor the tables alone are inductive. `CInv` adds to the types and
  flags that no frame is in two tables and none is empty (`FramesApart`; an
  empty frame would end a pass early), that a table with a file missing is not
  marked unique (`LossIsMarked`), that a table all of whose files are there
  holds exactly what was mapped into it and not drained since
  (`TablesHold`), that what was drained is of such tables
  (`DrainedMixed`), and that an export under way has delivered exactly the
  tables it is done with (`ExportProgress`).
* `LossStaysVisible` and `OnlyFailuresLoseRows`, the two action properties about
  lost rows, from the same invariant.
* `StoreImplementsAbstract`: in memory every step of the store is one of
  `AbstractStore` or a stutter; the panic of `deduplicate` is its `Lose`, by
  which a group of triples of several forms disappears at once.
* `NothingIsAnsweredTwice`: in memory no answer holds a triple twice, under the
  condition `CallersAvoidOverlap` on the constants `Inputs` and `Templates`: no
  argument of `add_triples_vec` yields a row of one table twice, and no template
  of a CONSTRUCT names a verb twice. The code relies on both and checks neither;
  without them the property is false, as the run `triple_store_overlap` shows.
  The constants of the run `triple_store_memory` satisfy it.

All of these go through three effects that a step may have on the tables:
frames are added to some (`AddsFrames`), one has its frames replaced by others
with the same rows (`Replaces`), or one that is not unique loses some, files or
all that it had in memory (`Loses`). `StepOfStore` shows that there is no
fourth and at which stage each occurs; every part of the invariant is then
shown to survive the effects, not the twenty-odd actions.

`PropertyPathProofs` proves, for any finite set of nodes and any matrix, that
at every turn of the loops of `p*` and `p+` the matrix holds the inner path and
only pairs of its closure (`NothingIsInvented`), and that what is returned is
the closure if the matrix began with zeros and ones (`ReturnsTheClosure`). The
step that matters is that of two such matrices, one below the other, with equal
sums both are the same; so that the last turn changed nothing and the matrix is
transitive. With this it proves of whole paths, for every graph and every
expression, that the matrices between two variables give the relation of the
path (`MatricesAreExact`), that for any ends they give nothing else
(`MatricesInventNothing`), and that the data frames, when they answer, miss and
add no more than the last node and the diagonal (`FramesMissTheLast`). These go
by induction over the expression: `MatricesWithin` and `MatricesHold` compare
the matrix of a path with its relation from above and below, part by part, and
`FramesMiss` does so for the frames. Before that, every edge of the path must
be in one of the frames that `create_unique_cat_dfs` makes (`FramesAreEdges`,
`EdgesKnown`), as nodes in none of them have no index.

Inductions like these are possible with the provers at hand because nothing is
quantified over operators: `RecursionLemmas` states induction for sets and
recursion for functions (`Induction`, `Recursion`), over a measure in the
natural numbers. A recursive function `f` is then treated by a fixed pattern:
`fBody` is its definition with the function as an argument, `fBodyType` and
`fBodyParts` say that it needs `f` of smaller arguments only, and `fEquation`
that `f` satisfies its definition. `PathsAssumption` gives the measure for
paths: an expression is nested to some depth, and its parts are less deep.

`ResolverProofs` proves, for any sources, that names are understood as they are
written (`NamesAreUnderstood`): the prefix map of the document at hand holds
what its directives up to now say (`MapInv`), every resolved document what its
own directives say (`DocumentsInv`), and a prefix that survives the merge is
one on which the documents merged so far agree (`MergedNames`).

It begins with `TemplateDataset` alone, for any documents and templates: the
types inferred are the least that solve the constraints (`TypesAreLeast`), an
error about incompatible types means there is no solution
(`ErrorsAreJustified`), and a prefix kept is one on which all documents agree
(`PrefixesAreAgreed`). The invariant puts the current types between the
declared ones and every solution; a round in which nothing has changed so far
solves the constraints of the templates visited in it, which is why the last,
quiet round is a solution. These theorems carry over to the composition
(`SourcesAreTypedLeast`, `SourceErrorsAreJustified`, `SourcePrefixesAgree`),
since every list of documents that resolving yields is one they hold for.

`NativeParquetProofs` proves that the store with its writers implements the
store (`WriterImplementsStore`), step by step, and so keeps what holds of the
store's flags (`WriterKeepsFlags`), answers (`WriterKeepsAnswers`) and
duplicates (`WriterAnswersNothingTwice`). Of the caller's folder it proves, for
any names, number of threads and sequence of calls, that no readable file holds
a triple that its name does not promise (`FilesInventNothing`), and that after
an Ok every table that shares its name with no other is in its files, whole and
with nothing that was never mapped into it (`FilesHoldTheTables`). The
invariant `FolderInv` compares files with what was mapped, which only grows,
and not with the tables, which a later call may deduplicate into fewer frames;
and it follows a frame that has its file for itself from waiting over its file
being truncated to written, a way that writers of other files cannot disturb.
That a name identifies a table needs that "object_property" is no sequence of
letters and digits (`AlphanumericsAssumption`).

`NTriplesWriterProofs` proves, for any frames, numbers of threads and chunk
sizes, that the lines come in order and once (`LinesAreInOrder`), that only
short writes lose rows, and only ends of chunks and first lines behind a line
that was cut (`OnlyShortWritesLoseRows`), and that no pool is used up
(`PoolsAlwaysSuffice`). The invariant `IInv` counts the threads: the buffers at
rest are those of the threads that wait and those drained, the iterators in use
those of the threads that fill. For the lines it compares the output with
`Position`, the end of the chunks drained so far, which is a multiple of the
chunk size within a frame: every line is before it, and a row before it is
missing or cut only if a write was short. A buffer holds the chunk of its
thread until it is drained and nothing otherwise, whence no line comes twice.

`ExpansionProofs` proves, for any templates, frames, constants and orders of
the branches, that a frame which the store is told to take for unique has no
row twice if the caller declared nothing but what is so
(`DeclaredSubsetsStayUnique`). The invariant follows a subset from call to call:
in each it names columns of the frame and is unique there (`CallsUnique`). The
three places where that could break are lemmas: renaming, even where a column is
handed on under two names or two swap theirs (`RenamingKeepsUnique`), constants
added as columns, which must not hide a column of the subset
(`ConstantsKeepUnique`, `ColumnsAreApart`), and the columns that
`create_triples` leaves out (`TriplesAreUnique`). What arrives at `ottr:Triple`
has its three parameters once each (`RecursionEndsInTriples`). Templates that
reach a cycle are never taken for expanded (`CyclesAreNeverExpanded`): while no
branch has failed, one of the calls can be gone on with for ever
(`CycleGoesOn`). Conversely the stack overflows only in a cycle, or if it has
room for fewer calls than there are templates (`OnlyCyclesOverflow`), as the
path of a call is a chain of templates and a longer one meets a template twice.
A cycle is a set of templates each of which has an instance of another of the
set, so that no recursive definition is needed. `ExpansionsAssumption` says
what a `TemplateDataset` is sure to be: `ottr:Triple` is the template that
`TemplateDataset::new` adds, and every instance names a template with as many
parameters as it has arguments, which `infer_types` fails on otherwise. Names
of parameters need not differ: the code refuses a frame for such a template and
panics where an inner frame would have a column twice, and so does the model.

Of the frames themselves it proves that every call has one with the columns it
is said to have, and cells in them (`FramesAreTyped`). What needs an argument is
`create_remapped`: the columns renamed, the constants beside them, and the
lists, exploded one after the other, side by side, or side by side without the
rows that hold a null. `FlattenSeq` and `FoldLeft` of the community modules are
recursive within, so that lemmas say first what they are (`FlattenEquation`,
`ExplodeEachEquation`), and then that flattening keeps the elements
(`Flattened`) and two flattened columns of lists of the same lengths are equally
high (`FlattenedLengths`), so that no cell of an exploded frame is missing.

Last, that `expand_default` gives a triple for every cell beside the key and for
every element of a list there, without an error (`DefaultsGiveEveryCell`). The
invariant `DefaultInv` follows each column: the template in the dataset is the
one made for this frame, also after the keys have been cast to text; validation
accepts the frame (`DefaultIsAccepted`); and then, for every column, a call or
an instance holds the pairs of the key and the column's cells (`StandsFor`),
through the renaming of both, the exploding of lists and `create_triples`. It
assumes `StackDepth > 1`: the template and `ottr:Triple` are two calls.

Of any other template it proves the two properties that say most about the
expansion. A safe one (`IsSafe`) neither fails nor panics nor overflows
(`WhatIsSafeIsExpanded`). The invariant `SafeInv` says of every call that it fits
(`CallFits`): it has each parameter of its template once, as a column or as a
constant, uses none of the constants further down, and its rows are values of
some level of `Met`, or, if it has lost its rows, there are such values. That a
call which fits neither panics nor loses a branch (`SafelyInstantiated`), and
that what it hands on fits again (`RemappedFits`), is where the cases are:
variables are counted, constants become columns, and columns are renamed,
exploded and zipped into the rows that the definition says. The theorem assumes
more room on the stack than there are templates, one more than
`OnlyCyclesOverflow` needs, since `expand_default` adds a template.

And what is added at the end are the triples that the definition gives for the
rows (`WhatIsAddedIsWhatIsMeant`), with no assumption on the stack. The invariant
`ExactInv` says that the triples of the rows are those for which some call or
instance stands (`Yields`), and that the rows of a call are values of `Denoted`
which OTTR does not ignore. `Emit` hands a call's rows to an instance unchanged;
`Instantiate` replaces a call by one for each instance of its template, which
stand for what these say of each row (`BranchYields`, `GivenByInstances`);
`create_triples` then makes a row of what each instance stands for
(`CreatedTriples`). The choices that the definition makes among the elements of
lists must be the rows of the exploded frame, in both directions, for one column
or several, and without the rows that zipMin drops. That the triples of a level
come from the level before is `GivenByInstances` again; that the levels are
enough rests on `LevelsSuffice`, by the chains of `OnlyCyclesOverflow`.

The assumptions are the named ASSUMEs of `TripleStore`, `NativeParquet`,
`Chunking`, `Matrices`, `PathClosure`, `PropertyPath`, `PTypes`,
`TemplateDataset`, `Resolver`, `NTriplesWriter` and `Expansion`. They fix the
types of the constants; those of `TripleStore` also say that an argument has
objects of one dtype (`HasOneDtype`), and those of `Expansion` that a frame has
a type for each of its columns and what that type says in its rows
(`IsDataFrame`), that the cells are terms, null and lists of cells
(`CellsAssumption`), and that the types which the code names are among the
basic ones. That `Rows` and `FrameIds` are finite is among them: a data frame
has finitely many rows, and `RoomFor`, which bounds the frames of an instance,
counts them. The name that `expand_default` makes up is a fresh UUID, so that
it is no template yet, by itself or through a prefix (`ExpansionsAssumption`).

Only model-checked, and why:

* the solutions of graph patterns (`AnswersAreExact`, `MultiplicitiesAreExact`,
  `SafeQueriesAreAnswered`, and `TypeOK` there): `lazy_graph_pattern` and
  `lazy_expression` call each other and are recursive operators, as is their
  reference;
* with a caching folder, what `to_triples` returns and duplicates, where the
  properties do not hold or no run checks them;
* liveness (`LoopReturns`, `LoopEnds`, `InferenceEnds`,
  `WriterReturns`), which the prover cannot do.

## 5. Plan

Lemmas on `SolutionMappings` (a join of bags is commutative, minus removes no
other row), then the algebra as functions of a pattern, like the paths, which
would bring the properties of `GraphPatterns` within the provers' reach.

## 6. Not modelled

The grammar (a pure function of text, with tests of its own), conversion of
literals and columns, string and date functions, Divide and the unary
operators, Avg, Sample and GroupConcat (expressions of polars on values that
are not modelled here), the order of rows, the Arrow bridge to Python, error
texts and timing. `GRAPH` and `SERVICE` are `unimplemented!()`.

------------------------- MODULE TripleStoreProofs -------------------------
(***************************************************************************)
(* Proofs, for every value of the constants, about the triple store.       *)
(*                                                                         *)
(* First its types, and the assertion "Should be deduplicated" of          *)
(* lazy_triple_pattern.  Then what it holds and answers: no table shares a *)
(* file with another, what was mapped is in the tables, or known to be     *)
(* lost, or was taken out by a panic over frames of different dtypes; and  *)
(* an answer is the triples mapped, in memory those of an abstract store,  *)
(* and none of them twice.                                                 *)
(***************************************************************************)
EXTENDS TripleStoreProperties, SequenceTheorems, FiniteSetTheorems, TLAPS

----------------------------------------------------------------------------
\* Data frames and their names

LEMMA NewIdsType ==
    ASSUME NEW S, HasFresh(S)
    PROVE  NewIds(S) \in [S -> FrameIds]
BY DEF NewIds, HasFresh, Injection, Fresh

LEMMA PreparedFrameType ==
    ASSUME NEW t \in TriplesToAdd, NEW p \in Predicates
    PROVE  PreparedFrame(t, p) \in Frame
<1>1. t.df[p] \in [Rows \union {NullRow} -> Nat]
    BY DEF TriplesToAdd, RawFrame
<1>2. \A r \in Rows : t.df[p][r] \in Nat
    BY <1>1
<1> QED BY <1>2 DEF PreparedFrame, UniqueFrame, Frame

LEMMA TripleDFsTypes ==
    ASSUME NEW ts \in Seq(TriplesToAdd), NEW s \in TripleDFs(ts)
    PROVE  /\ FrameOfDF(ts, s) \in Frame
           /\ TableOfDF(ts, s) \in Tables
<1>1. s[1] \in DOMAIN ts /\ s[2] \in Predicates
    BY DEF TripleDFs
<1>2. ts[s[1]] \in TriplesToAdd
    BY <1>1
<1>3. ts[s[1]].object_type \in RDFNodeType
    BY <1>2 DEF TriplesToAdd
<1> QED BY <1>1, <1>2, <1>3, PreparedFrameType DEF FrameOfDF, TableOfDF, Tables

LEMMA FrameOfType ==
    ASSUME NEW rows PROVE FrameOf(rows) \in Frame
BY DEF FrameOf, Frame

LEMMA TriplesInType ==
    ASSUME NEW k \in Tables, NEW rows \in SUBSET Rows
    PROVE  TriplesIn(k, rows) \subseteq Triples
<1>1. k[1] \in Predicates /\ k[2] \in RDFNodeType
    BY DEF Tables
<1> QED BY <1>1 DEF TriplesIn, Triples

----------------------------------------------------------------------------
\* Adding frames

\* Registering frames keeps the types, keeps every entry, and clears the
\* store's flag if it leaves a table that it has changed without its own.
LEMMA RegisterEffect ==
    ASSUME TypeOK, NEW ts \in Seq(TriplesToAdd), NEW S \in SUBSET TripleDFs(ts),
           NEW D, S \subseteq D, NEW ids \in [D -> FrameIds], NEW uuid \in Nat,
           Register(ts, S, ids, uuid)
    PROVE  /\ df_map' \in [Tables -> TripleTable \union {NoTable}]
           /\ deduplicated' \in BOOLEAN
           /\ held' \subseteq Triples /\ drained' \subseteq Triples
           /\ Existing \subseteq Existing'
           /\ deduplicated' => /\ deduplicated
                               /\ \A k \in Existing' : df_map'[k] = df_map[k]
                                                        \/ df_map'[k].unique
<1> DEFINE New(k) == { ids[s] : s \in { x \in S : TableOfDF(ts, x) = k } }
           NewTable(k) ==
               IF df_map[k] = NoTable
               THEN [dfs |-> New(k), unique |-> TRUE, call_uuid |-> uuid]
               ELSE Pushed(df_map[k], New(k), uuid)
<1>1. /\ df_map' = [k \in Tables |-> IF New(k) = {} THEN df_map[k] ELSE NewTable(k)]
      /\ deduplicated' = (deduplicated /\ \A k \in Tables : New(k) # {} => NewTable(k).unique)
      /\ held' = held \union TriplesOfDFs(ts, S) /\ drained' = drained \ TriplesOfDFs(ts, S)
    BY DEF Register
<1>2. \A k \in Tables : NewTable(k) \in TripleTable
  <2> SUFFICES ASSUME NEW k \in Tables PROVE NewTable(k) \in TripleTable
      OBVIOUS
  <2>1. New(k) \subseteq FrameIds
      OBVIOUS
  <2>2. df_map[k] \in TripleTable \union {NoTable}
      BY DEF TypeOK
  <2> HIDE DEF New
  <2> QED BY <2>1, <2>2 DEF Pushed, TripleTable
<1>3. held' \subseteq Triples /\ drained' \subseteq Triples
  <2>1. \A s \in S : TriplesIn(TableOfDF(ts, s), Occurring(FrameOfDF(ts, s))) \subseteq Triples
      BY TripleDFsTypes, TriplesInType DEF Occurring
  <2>2. TriplesOfDFs(ts, S) \subseteq Triples
      BY <2>1 DEF TriplesOfDFs
  <2> QED BY <1>1, <2>2 DEF TypeOK
<1> HIDE DEF New, NewTable
<1>4. df_map' \in [Tables -> TripleTable \union {NoTable}]
    BY <1>1, <1>2 DEF TypeOK
<1>5. Existing \subseteq Existing'
    BY <1>1, <1>2, TablesAssumption DEF Existing
<1>6. deduplicated' \in BOOLEAN
    BY <1>1 DEF TypeOK
<1>7. deduplicated' => /\ deduplicated
                       /\ \A k \in Existing' : df_map'[k] = df_map[k] \/ df_map'[k].unique
    BY <1>1 DEF Existing
<1> QED BY <1>3, <1>4, <1>5, <1>6, <1>7

LEMMA StoreType ==
    ASSUME TypeOK, NEW ts \in Seq(TriplesToAdd), NEW S \in SUBSET TripleDFs(ts),
           NEW ids, Store(ts, S, ids)
    PROVE  frames' \in [FrameIds -> Frame \union {NoFrame}]
<1>1. \A f \in FrameIds :
          (\E s \in S : ids[s] = f) => FrameOfDF(ts, CHOOSE s \in S : ids[s] = f) \in Frame
    BY TripleDFsTypes
<1> QED BY <1>1 DEF Store, TypeOK

\* What add_triples_vec guarantees, whether it succeeds or fails half way.
AddingEffect ==
    /\ df_map' \in [Tables -> TripleTable \union {NoTable}]
    /\ frames' \in [FrameIds -> Frame \union {NoFrame}]
    /\ deduplicated' \in BOOLEAN
    /\ held' \subseteq Triples /\ drained' \subseteq Triples
    /\ Existing \subseteq Existing'
    /\ deduplicated' => /\ deduplicated
                        /\ \A k \in Existing' : df_map'[k] = df_map[k] \/ df_map'[k].unique

LEMMA AddTriplesEffect ==
    ASSUME TypeOK, NEW ts \in Seq(TriplesToAdd), NEW uuid \in Nat,
           AddTriples(ts, uuid) \/ AddTriplesFails(ts, uuid)
    PROVE  AddingEffect
<1> DEFINE S   == TripleDFs(ts)
           ids == NewIds(S)
<1>1. ids \in [S -> FrameIds]
    BY NewIdsType DEF AddTriples, AddTriplesFails
<1>2. PICK stored \in SUBSET S, registered \in SUBSET S :
          Store(ts, stored, ids) /\ Register(ts, registered, ids, uuid)
  <2>1. CASE AddTriples(ts, uuid)
      BY <2>1 DEF AddTriples
  <2>2. CASE AddTriplesFails(ts, uuid)
      BY <2>2 DEF AddTriplesFails
  <2> QED BY <2>1, <2>2
<1> HIDE DEF ids
<1> QED BY <1>1, <1>2, RegisterEffect, StoreType DEF AddingEffect

----------------------------------------------------------------------------
\* Types

\* The types, with that of the template of the call in progress.
TemplateOK == op.template \in Seq(Predicates)
Types      == TypeOK /\ TemplateOK

\* The store part of the type invariant, and the part that is about the call.
StoreTypes ==
    /\ df_map \in [Tables -> TripleTable \union {NoTable}]
    /\ frames \in [FrameIds -> Frame \union {NoFrame}]
    /\ deduplicated \in BOOLEAN
    /\ calls \in Nat
    /\ held \subseteq Triples /\ drained \subseteq Triples
ControlTypes ==
    /\ op.name \in Calls \union {"none"}
    /\ op.predicate \in Predicates \union {"none"}
    /\ op.template \in Seq(Predicates)
    /\ stage \in Stages
    /\ pass \in 0 .. 3
    /\ status \in {"none", "ok", "error", "panic", "assertion_failed"}
OutTypes == out \subseteq Triples /\ twice \subseteq out

LEMMA TypesParts == Types <=> StoreTypes /\ ControlTypes /\ OutTypes /\ todo \subseteq Existing
BY DEF Types, TypeOK, TemplateOK, StoreTypes, ControlTypes, OutTypes

LEMMA TypesPartsPrime ==
    StoreTypes' /\ ControlTypes' /\ OutTypes' /\ (todo \subseteq Existing)' => Types'
BY DEF Types, TypeOK, TemplateOK, StoreTypes, ControlTypes, OutTypes, Existing

LEMMA ExistingSame == df_map' = df_map => Existing' = Existing
BY DEF Existing

\* The initial state has these types.
LEMMA TypesInit == Init => Types
BY DEF Init, Types, TypeOK, TemplateOK, Stages, Existing

\* A step that leaves the store alone, or only sets its flag.
LEMMA SameStore ==
    ASSUME Types, UNCHANGED store
    PROVE  StoreTypes' /\ Existing' = Existing
BY ExistingSame, TypesParts DEF StoreTypes, store

\* The ways a call ends or goes on have the types of the control variables.
LEMMA AbortTypes ==
    ASSUME Types, NEW s \in {"ok", "error", "panic", "assertion_failed"}, Abort(s)
    PROVE  ControlTypes' /\ OutTypes' /\ todo' = {}
<1>1. ControlTypes /\ OutTypes
    BY TypesParts
<1>2. Return(s) /\ out' = {} /\ twice' = {}
    BY DEF Abort
<1>3. ControlTypes'
    BY <1>1, <1>2 DEF Return, ControlTypes, Stages
<1> QED BY <1>2, <1>3 DEF Return, OutTypes

LEMMA ReturnTypes ==
    ASSUME Types, NEW s \in {"ok", "error"}, Return(s)
    PROVE  ControlTypes' /\ todo' = {}
<1>1. ControlTypes
    BY TypesParts
<1> QED BY <1>1 DEF Return, ControlTypes, Stages

LEMMA DeliverTypes ==
    ASSUME Types, NEW k \in Tables, NEW fs \in SUBSET FrameIds, Deliver(k, fs)
    PROVE  OutTypes'
<1>1. RepeatedIn(fs) \subseteq RowsIn(fs) /\ RowsIn(fs) \subseteq Rows
  <2> SUFFICES ASSUME NEW r \in RepeatedIn(fs) PROVE r \in RowsIn(fs)
      BY DEF RowsIn
  <2>1. PICK f \in fs, g \in fs :
            /\ frames[f] # NoFrame /\ frames[g] # NoFrame
            /\ IF f = g THEN frames[f][r] > 1 ELSE frames[f][r] > 0 /\ frames[g][r] > 0
      BY DEF RepeatedIn
  <2>2. r \in Rows
      BY DEF RepeatedIn
  <2>3. frames[f][r] \in Nat
      BY <2>1, <2>2 DEF Types, TypeOK, Frame
  <2>4. frames[f][r] > 0
      BY <2>1, <2>3
  <2> QED BY <2>1, <2>2, <2>4 DEF RowsIn
<1>2. TriplesIn(k, RowsIn(fs)) \subseteq Triples
    BY <1>1, TriplesInType
<1>3. TriplesIn(k, RepeatedIn(fs)) \subseteq TriplesIn(k, RowsIn(fs))
    BY <1>1 DEF TriplesIn
<1> QED BY <1>2, <1>3 DEF Deliver, OutTypes, Types, TypeOK

----------------------------------------------------------------------------
\* The types after each action

LEMMA BeginCallTypes ==
    ASSUME Types, BeginCall \/ ExpandCall PROVE Types'
<1> USE DEF StoreTypes, ControlTypes, OutTypes
<1>1. StoreTypes /\ OutTypes /\ todo \subseteq Existing
    BY TypesParts
<1>2. CASE ExpandCall
  <2>1. Existing' = Existing
      BY <1>2, ExistingSame DEF ExpandCall
  <2>2. ControlTypes'
    <3>1. op' = [name |-> "expand", predicate |-> "none", template |-> <<>>]
        BY <1>2 DEF ExpandCall, Begin
    <3> QED BY <1>2, <3>1 DEF ExpandCall, Begin, Calls, Stages
  <2>3. StoreTypes' /\ OutTypes' /\ todo' = todo
      BY <1>1, <1>2 DEF ExpandCall, Begin
  <2> QED BY <1>1, <2>1, <2>2, <2>3, TypesPartsPrime
<1>3. ASSUME NEW name \in Calls, NEW p \in Predicates \union {"none"},
             NEW tmpl \in Seq(Predicates), NEW dedup,
             BeginRead(name, p, tmpl, dedup), calls' \in Nat
      PROVE  Types'
  <2>1. /\ op' = [name |-> name, predicate |-> p, template |-> tmpl]
        /\ status' = "none" /\ out' = {} /\ twice' = {} /\ pass' = 0
        /\ stage' = IF dedup THEN "deduplicate" ELSE "evaluate"
      BY <1>3 DEF BeginRead, Begin
  <2>2. ControlTypes'
      BY <2>1 DEF Stages
  <2>3. StoreTypes' /\ OutTypes'
      BY <1>1, <1>3, <2>1 DEF BeginRead
  <2>4. todo' \subseteq Existing /\ Existing' = Existing
      BY <1>3, ExistingSame DEF BeginRead, NotUnique
  <2> QED BY <2>2, <2>3, <2>4, TypesPartsPrime
<1>4. ASSUME NEW p \in Predicates, Query(p) PROVE Types'
  <2>1. BeginRead("query", p, <<>>, ~deduplicated) /\ calls' \in Nat
      BY <1>1, <1>4 DEF Query
  <2>2. <<>> \in Seq(Predicates) /\ "query" \in Calls
      BY DEF Calls
  <2> QED BY <1>3, <2>1, <2>2
<1>5. ASSUME NEW p \in Predicates, NEW tmpl \in Templates, ConstructUpdate(p, tmpl)
      PROVE  Types'
  <2>1. BeginRead("construct_update", p, tmpl, ~deduplicated) /\ calls' \in Nat
      BY <1>1, <1>5 DEF ConstructUpdate
  <2>2. tmpl \in Seq(Predicates) /\ "construct_update" \in Calls
      BY InputsAssumption DEF Calls
  <2> QED BY <1>3, <2>1, <2>2
<1>6. ASSUME NEW name \in {"export_oxrdf_triples", "to_triples", "write_n_triples_all_dfs",
                           "write_native_parquet"},
             Export(name)
      PROVE  Types'
  <2>1. BeginRead(name, "none", <<>>, TRUE) /\ calls' \in Nat
      BY <1>1, <1>6 DEF Export
  <2>2. <<>> \in Seq(Predicates) /\ name \in Calls
      BY DEF Calls
  <2> QED BY <1>3, <2>1, <2>2
<1>7. CASE PathDoesNotExist
  <2>1. ControlTypes
      BY TypesParts
  <2>2. ControlTypes'
    <3>1. op' = [name |-> "write_native_parquet", predicate |-> "none", template |-> <<>>]
        BY <1>7 DEF PathDoesNotExist
    <3> QED BY <1>7, <2>1, <3>1 DEF PathDoesNotExist, Calls
  <2>3. StoreTypes' /\ Existing' = Existing
      BY <1>1, <1>7, ExistingSame DEF PathDoesNotExist, store
  <2> QED BY <1>1, <1>7, <2>2, <2>3, TypesPartsPrime DEF PathDoesNotExist
<1> QED BY <1>2, <1>4, <1>5, <1>6, <1>7 DEF BeginCall

LEMMA AddingTypes ==
    ASSUME Types, AddingEffect, UNCHANGED calls
    PROVE  StoreTypes' /\ Existing \subseteq Existing'
BY TypesParts DEF AddingEffect, StoreTypes

LEMMA ExpandTypes ==
    ASSUME Types, Expand PROVE Types'
<1>1. StoreTypes /\ ControlTypes /\ OutTypes /\ todo \subseteq Existing
    BY TypesParts
<1>2. CASE ExpandCall
    BY <1>2, BeginCallTypes
<1>3. CASE ExpandReturns
  <2>1. PICK s \in {"ok", "error"} : Return(s)
      BY <1>3 DEF ExpandReturns
  <2>2. OutTypes'
      BY <1>1, <1>3 DEF ExpandReturns, OutTypes
  <2> QED BY <1>3, <2>1, <2>2, ReturnTypes, SameStore, TypesPartsPrime DEF ExpandReturns
<1>4. ASSUME NEW ts \in Inputs, ExpandChunk(ts) \/ ExpandChunkFails(ts)
      PROVE  Types'
  <2>1. ts \in Seq(TriplesToAdd) /\ calls \in Nat
      BY <1>1, InputsAssumption DEF StoreTypes
  <2>2. AddingEffect
      BY <1>4, <2>1, AddTriplesEffect DEF Types, ExpandChunk, ExpandChunkFails
  <2>3. StoreTypes' /\ Existing \subseteq Existing'
      BY <1>4, <2>2, AddingTypes DEF ExpandChunk, ExpandChunkFails
  <2>4. OutTypes'
      BY <1>1, <1>4 DEF ExpandChunk, ExpandChunkFails, OutTypes
  <2>5. UNCHANGED control \/ Return("ok") \/ Return("error")
      BY <1>4 DEF ExpandChunk, ExpandChunkFails
  <2>6. ControlTypes' /\ todo' \subseteq Existing
      BY <1>1, <2>5, ReturnTypes DEF control, ControlTypes
  <2> QED BY <2>3, <2>4, <2>6, TypesPartsPrime
<1> QED BY <1>2, <1>3, <1>4 DEF Expand

\* How an export begins, and how deduplicate fails.
LEMMA BeginExportTypes ==
    ASSUME Types, BeginExport
    PROVE  ControlTypes' /\ todo' \subseteq Existing
<1>1. ControlTypes
    BY TypesParts
<1>2. todo' \subseteq Existing
    BY DEF BeginExport, PassTables
<1>3. ControlTypes'
    BY <1>1 DEF BeginExport, ControlTypes, Stages
<1> QED BY <1>2, <1>3

LEMMA DeduplicateFailsTypes ==
    ASSUME Types, DeduplicateFails
    PROVE  ControlTypes' /\ OutTypes' /\ todo' \subseteq Existing
<1>1. CASE BeginExport /\ UNCHANGED <<out, twice>>
    BY <1>1, BeginExportTypes, TypesParts DEF OutTypes
<1>2. CASE Abort("error")
    BY <1>2, AbortTypes
<1> QED BY <1>1, <1>2 DEF DeduplicateFails

\* Replacing the frames of one table.
LEMMA ReplaceTypes ==
    ASSUME Types, NEW k \in Tables, k \in todo, NEW fs \in SUBSET FrameIds,
           MarkUnique(k, fs)
    PROVE  /\ df_map' \in [Tables -> TripleTable \union {NoTable}]
           /\ Existing' = Existing
           /\ df_map'[k] = [df_map[k] EXCEPT !.dfs = fs, !.unique = TRUE]
           /\ df_map'[k].unique /\ df_map'[k].dfs = fs
           /\ \A j \in Tables \ {k} : df_map'[j] = df_map[j]
<1>1. df_map[k] \in TripleTable
    BY DEF Types, TypeOK, Existing
<1>2. df_map \in [Tables -> TripleTable \union {NoTable}]
    BY DEF Types, TypeOK
<1>3. df_map' = [df_map EXCEPT ![k] = [df_map[k] EXCEPT !.dfs = fs, !.unique = TRUE]]
    BY <1>1, <1>2 DEF MarkUnique, TripleTable
<1>4. [df_map[k] EXCEPT !.dfs = fs, !.unique = TRUE] \in TripleTable
    BY <1>1 DEF TripleTable
<1>5. df_map'[k] = [df_map[k] EXCEPT !.dfs = fs, !.unique = TRUE]
    BY <1>2, <1>3
<1>6. df_map'[k].unique /\ df_map'[k].dfs = fs
    BY <1>1, <1>5 DEF TripleTable
<1>7. \A j \in Tables \ {k} : df_map'[j] = df_map[j]
    BY <1>2, <1>3
<1>8. df_map' \in [Tables -> TripleTable \union {NoTable}]
    BY <1>2, <1>3, <1>4
<1>9. Existing' = Existing
  <2>1. df_map[k] # NoTable /\ df_map'[k] # NoTable
      BY <1>1, <1>4, <1>5, TablesAssumption
  <2> QED BY <1>7, <2>1 DEF Existing
<1> QED BY <1>5, <1>6, <1>7, <1>8, <1>9

\* Draining one.
LEMMA DrainTypes ==
    ASSUME Types, NEW k \in Tables, k \in todo, DrainTable(k)
    PROVE  /\ df_map' \in [Tables -> TripleTable \union {NoTable}]
           /\ Existing' = Existing
           /\ df_map'[k] = [df_map[k] EXCEPT !.dfs = {}]
           /\ df_map'[k].unique = df_map[k].unique /\ df_map'[k].dfs = {}
           /\ df_map'[k].call_uuid = df_map[k].call_uuid
           /\ \A j \in Tables \ {k} : df_map'[j] = df_map[j]
<1>1. df_map[k] \in TripleTable
    BY DEF Types, TypeOK, Existing
<1>2. df_map \in [Tables -> TripleTable \union {NoTable}]
    BY DEF Types, TypeOK
<1>3. df_map' = [df_map EXCEPT ![k] = [df_map[k] EXCEPT !.dfs = {}]]
    BY <1>1, <1>2 DEF DrainTable, TripleTable
<1>4. [df_map[k] EXCEPT !.dfs = {}] \in TripleTable
    BY <1>1 DEF TripleTable
<1>5. df_map'[k] = [df_map[k] EXCEPT !.dfs = {}]
    BY <1>2, <1>3
<1>6. /\ df_map'[k].unique = df_map[k].unique /\ df_map'[k].dfs = {}
      /\ df_map'[k].call_uuid = df_map[k].call_uuid
    BY <1>1, <1>5 DEF TripleTable
<1>7. \A j \in Tables \ {k} : df_map'[j] = df_map[j]
    BY <1>2, <1>3
<1>8. df_map' \in [Tables -> TripleTable \union {NoTable}]
    BY <1>2, <1>3, <1>4
<1>9. Existing' = Existing
  <2>1. df_map[k] # NoTable /\ df_map'[k] # NoTable
      BY <1>1, <1>4, <1>5, TablesAssumption
  <2> QED BY <1>7, <2>1 DEF Existing
<1> QED BY <1>5, <1>6, <1>7, <1>8, <1>9

LEMMA DeduplicateTypes ==
    ASSUME Types, Deduplicate PROVE Types'
<1>1. StoreTypes /\ ControlTypes /\ OutTypes /\ todo \subseteq Existing
    BY TypesParts
<1>2. CASE Deduplicated
  <2>1. Existing' = Existing /\ StoreTypes' /\ OutTypes'
      BY <1>1, <1>2, ExistingSame DEF Deduplicated, StoreTypes, OutTypes
  <2>2. CASE BeginExport
      BY <2>1, <2>2, BeginExportTypes, TypesPartsPrime
  <2>3. CASE GoOn /\ UNCHANGED todo
    <3>1. ControlTypes'
        BY <1>1, <2>3 DEF ControlTypes, GoOn, Stages
    <3> QED BY <1>1, <2>1, <2>3, <3>1, TypesPartsPrime
  <2> QED BY <1>2, <2>2, <2>3 DEF Deduplicated
<1>3. ASSUME NEW k \in Tables, DeduplicateInMemory(k) PROVE Types'
  <2> DEFINE ids == NewIds({k})
  <2>1. /\ HasFresh({k}) /\ k \in todo
        /\ frames' = [f \in FrameIds |->
               CASE f = ids[k] -> FrameOf(RowsOf(k))
                 [] f \in df_map[k].dfs -> NoFrame
                 [] OTHER -> frames[f]]
        /\ MarkUnique(k, {ids[k]})
        /\ todo' = todo \ {k}
        /\ UNCHANGED <<deduplicated, calls, held, drained, op, stage, pass, status, out, twice>>
      BY <1>3 DEF DeduplicateInMemory
  <2>2. ids \in [{k} -> FrameIds]
      BY <2>1, NewIdsType
  <2>3. {ids[k]} \in SUBSET FrameIds
      BY <2>2
  <2> HIDE DEF ids
  <2>4. df_map' \in [Tables -> TripleTable \union {NoTable}] /\ Existing' = Existing
      BY <2>1, <2>3, ReplaceTypes
  <2>5. frames' \in [FrameIds -> Frame \union {NoFrame}]
      BY <1>1, <2>1, FrameOfType DEF StoreTypes
  <2> QED BY <1>1, <2>1, <2>4, <2>5, TypesPartsPrime DEF StoreTypes, ControlTypes, OutTypes
<1>4. ASSUME NEW k \in Tables, DeduplicateInFolder(k) PROVE Types'
  <2>1. PICK parts :
            /\ WriteParts(k, parts, DOMAIN parts)
            /\ MarkUnique(k, { NewIds(DOMAIN parts)[o] : o \in DOMAIN parts })
      BY <1>4, Zenon DEF DeduplicateInFolder
  <2>2. /\ k \in todo /\ todo' = todo \ {k}
        /\ UNCHANGED <<deduplicated, calls, held, drained, op, stage, pass, status, out, twice>>
      BY <1>4 DEF DeduplicateInFolder
  <2>3. NewIds(DOMAIN parts) \in [DOMAIN parts -> FrameIds]
      BY <2>1, NewIdsType DEF WriteParts
  <2>4. { NewIds(DOMAIN parts)[o] : o \in DOMAIN parts } \in SUBSET FrameIds
      BY <2>3
  <2>5. df_map' \in [Tables -> TripleTable \union {NoTable}] /\ Existing' = Existing
      BY <2>1, <2>2, <2>4, ReplaceTypes
  <2>6. frames' \in [FrameIds -> Frame \union {NoFrame}]
      BY <1>1, <2>1, FrameOfType DEF WriteParts, StoreTypes
  <2> QED BY <1>1, <2>2, <2>5, <2>6, TypesPartsPrime DEF StoreTypes, ControlTypes, OutTypes
<1>5. ASSUME NEW k \in Tables, DeduplicateReadFails(k) PROVE Types'
    BY <1>5, DeduplicateFailsTypes, SameStore, TypesPartsPrime DEF DeduplicateReadFails
<1>6. ASSUME NEW k \in Tables, DeduplicateRemoveFails(k) PROVE Types'
  <2>1. DeduplicateFails /\ UNCHANGED <<df_map, deduplicated, calls, held, drained>>
      BY <1>6 DEF DeduplicateRemoveFails
  <2>2. frames' \in [FrameIds -> Frame \union {NoFrame}]
      BY <1>1, <1>6 DEF DeduplicateRemoveFails, StoreTypes
  <2>3. StoreTypes' /\ Existing' = Existing
      BY <1>1, <2>1, <2>2, ExistingSame DEF StoreTypes
  <2> QED BY <2>1, <2>3, DeduplicateFailsTypes, TypesPartsPrime
<1>7. ASSUME NEW k \in Tables, DeduplicateWriteFails(k) PROVE Types'
  <2>1. DeduplicateFails /\ UNCHANGED <<df_map, deduplicated, calls, held, drained>>
      BY <1>7 DEF DeduplicateWriteFails
  <2>2. PICK parts, written : WriteParts(k, parts, written)
      BY <1>7, Zenon DEF DeduplicateWriteFails
  <2>3. frames' \in [FrameIds -> Frame \union {NoFrame}]
      BY <1>1, <2>2, FrameOfType DEF WriteParts, StoreTypes
  <2>4. StoreTypes' /\ Existing' = Existing
      BY <1>1, <2>1, <2>3, ExistingSame DEF StoreTypes
  <2> QED BY <2>1, <2>4, DeduplicateFailsTypes, TypesPartsPrime
<1>8. ASSUME NEW k \in Tables, DeduplicatePanics(k) PROVE Types'
  <2>1. Abort("panic") /\ k \in todo
      BY <1>8 DEF DeduplicatePanics
  <2>2. CASE UNCHANGED store
      BY <2>1, <2>2, AbortTypes, SameStore, TypesPartsPrime
  <2>3. CASE DrainTable(k)
    <3>1. /\ df_map' \in [Tables -> TripleTable \union {NoTable}] /\ Existing' = Existing
        BY <2>1, <2>3, DrainTypes
    <3>2. StoreTypes'
      <4>1. TriplesIn(k, RowsOf(k)) \subseteq Triples
          BY TriplesInType DEF RowsOf, RowsIn
      <4> QED BY <1>1, <2>3, <3>1, <4>1 DEF StoreTypes, DrainTable
    <3> QED BY <2>1, <3>1, <3>2, AbortTypes, TypesPartsPrime
  <2> QED BY <1>8, <2>2, <2>3 DEF DeduplicatePanics
<1> QED BY <1>2, <1>3, <1>4, <1>5, <1>6, <1>7, <1>8 DEF Deduplicate, DeduplicateTable

LEMMA ConstructedType ==
    ASSUME Types PROVE Constructed \in Seq(TriplesToAdd)
<1>1. op.template \in Seq(Predicates)
    BY DEF Types, TemplateOK
<1> DEFINE t == IF TablesOf(op.predicate) = {} THEN "IRI"
                ELSE (CHOOSE k \in TablesOf(op.predicate) : TRUE)[2]
           df(i) == [q \in Predicates |-> [r \in Rows \union {NullRow} |->
                       IF q = op.template[i] /\ \E x \in out : x[3] = r THEN 1 ELSE 0]]
<1>2. t \in RDFNodeType
  <2>1. CASE TablesOf(op.predicate) = {}
      BY <2>1 DEF RDFNodeType
  <2>2. CASE TablesOf(op.predicate) # {}
    <3>1. (CHOOSE k \in TablesOf(op.predicate) : TRUE) \in Tables
        BY <2>2 DEF TablesOf, Existing
    <3> QED BY <2>2, <3>1 DEF Tables
  <2> QED BY <2>1, <2>2
<1>3. \A i \in DOMAIN op.template : df(i) \in [Predicates -> RawFrame]
    BY DEF RawFrame
<1> HIDE DEF t, df
<1>4. \A i \in DOMAIN op.template :
          [df |-> df(i), object_type |-> t, has_unique_subset |-> FALSE] \in TriplesToAdd
    BY <1>2, <1>3 DEF TriplesToAdd
<1>5. DOMAIN op.template = 1 .. Len(op.template) /\ Len(op.template) \in Nat
    BY <1>1
<1>6. [i \in DOMAIN op.template |->
          [df |-> df(i), object_type |-> t, has_unique_subset |-> FALSE]]
      \in Seq(TriplesToAdd)
    BY <1>4, <1>5, IsASeq
<1> QED BY <1>6 DEF Constructed, t, df

\* What a call does with its solutions.
LEMMA EvaluatedTypes ==
    ASSUME Types, Evaluated
    PROVE  ControlTypes' /\ todo' \subseteq Existing
<1>1. ControlTypes /\ todo \subseteq Existing
    BY TypesParts
<1>2. CASE Return("ok")
    BY <1>2, ReturnTypes
<1>3. CASE stage' = "construct" /\ UNCHANGED <<op, todo, pass, status>>
    BY <1>1, <1>3 DEF ControlTypes, Stages
<1> QED BY <1>2, <1>3 DEF Evaluated

LEMMA QueryParsedTypes ==
    ASSUME Types, QueryParsed PROVE Types'
<1>1. StoreTypes /\ ControlTypes /\ OutTypes /\ todo \subseteq Existing
    BY TypesParts
<1>2. CASE EvaluateMissing
  <2>1. OutTypes'
      BY <1>1, <1>2 DEF EvaluateMissing, OutTypes
  <2> QED BY <1>2, <2>1, EvaluatedTypes, SameStore, TypesPartsPrime DEF EvaluateMissing
<1>3. CASE EvaluatePanics
    BY <1>3, AbortTypes, SameStore, TypesPartsPrime DEF EvaluatePanics
<1>4. ASSUME NEW k \in Tables, Evaluate(k) PROVE Types'
  <2>1. StoreTypes' /\ Existing' = Existing
      BY <1>4, SameStore DEF Evaluate
  <2>2. CASE Abort("panic") \/ Abort("assertion_failed")
      BY <2>1, <2>2, AbortTypes, TypesPartsPrime
  <2>3. CASE k \in TablesOf(op.predicate) /\ Deliver(k, df_map[k].dfs) /\ Evaluated
    <3>1. df_map[k].dfs \in SUBSET FrameIds
        BY <1>1, <2>3 DEF StoreTypes, TablesOf, Existing, TripleTable
    <3> QED BY <2>1, <2>3, <3>1, DeliverTypes, EvaluatedTypes, TypesPartsPrime
  <2> QED BY <1>4, <2>2, <2>3 DEF Evaluate
<1>5. ASSUME NEW k \in Tables, EvaluateFails(k) PROVE Types'
    BY <1>5, AbortTypes, SameStore, TypesPartsPrime DEF EvaluateFails
<1>6. CASE Construct \/ ConstructFails
  <2>1. AddingEffect
      BY <1>1, <1>6, ConstructedType, AddTriplesEffect
         DEF Types, StoreTypes, Construct, ConstructFails
  <2>2. StoreTypes' /\ Existing \subseteq Existing'
      BY <1>6, <2>1, AddingTypes DEF Construct, ConstructFails
  <2>3. ControlTypes' /\ OutTypes' /\ todo' = {}
      BY <1>6, AbortTypes DEF Construct, ConstructFails
  <2> QED BY <2>2, <2>3, TypesPartsPrime
<1> QED BY <1>2, <1>3, <1>4, <1>5, <1>6 DEF QueryParsed

LEMMA EndPassTypes ==
    ASSUME Types, EndPass
    PROVE  ControlTypes' /\ todo' \subseteq Existing
<1>1. ControlTypes
    BY TypesParts
<1>2. PICK n \in {1, 3} : Len(Passes(op.name)) = n
    BY DEF Passes
<1>3. CASE pass < Len(Passes(op.name))
  <2>1. /\ pass' = pass + 1 /\ todo' = PassTables(op.name, pass + 1)
        /\ UNCHANGED <<op, stage, status>>
      BY <1>3 DEF EndPass
  <2>2. pass \in 0 .. 3
      BY <1>1 DEF ControlTypes
  <2>3. pass' \in 0 .. 3
    <3>1. pass < 3
        BY <1>2, <1>3, <2>2
    <3>2. pass' = pass + 1
        BY <2>1
    <3> QED BY <2>2, <3>1, <3>2
  <2> QED BY <1>1, <2>1, <2>3 DEF ControlTypes, PassTables
<1>4. CASE Return("ok")
    BY <1>4, ReturnTypes
<1> QED BY <1>3, <1>4 DEF EndPass

LEMMA ExportTypes ==
    ASSUME Types, ExportTriples PROVE Types'
<1>1. StoreTypes /\ ControlTypes /\ OutTypes /\ todo \subseteq Existing
    BY TypesParts
<1>2. \A k \in todo : df_map[k].dfs \in SUBSET FrameIds
    BY <1>1 DEF StoreTypes, Existing, TripleTable
<1>3. CASE ExportPassDone
  <2>1. OutTypes'
      BY <1>1, <1>3 DEF ExportPassDone, OutTypes
  <2> QED BY <1>3, <2>1, EndPassTypes, SameStore, TypesPartsPrime DEF ExportPassDone
<1>4. ASSUME NEW k \in Tables, ExportTable(k) PROVE Types'
  <2>1. OutTypes'
      BY <1>2, <1>4, DeliverTypes DEF ExportTable
  <2>2. todo' \subseteq todo
      BY <1>4 DEF ExportTable
  <2>3. StoreTypes' /\ Existing' = Existing
      BY <1>4, SameStore DEF ExportTable, store
  <2>4. ControlTypes'
      BY <1>1, <1>4 DEF ExportTable, ControlTypes
  <2> QED BY <1>1, <2>1, <2>2, <2>3, <2>4, TypesPartsPrime
<1>5. ASSUME NEW k \in Tables, ExportPanics(k) PROVE Types'
    BY <1>5, AbortTypes, SameStore, TypesPartsPrime DEF ExportPanics
<1>6. ASSUME NEW k \in Tables, ExportTableFails(k) PROVE Types'
  <2>1. StoreTypes' /\ Existing' = Existing
      BY <1>6, SameStore DEF ExportTableFails
  <2>2. CASE Abort("error")
      BY <2>1, <2>2, AbortTypes, TypesPartsPrime
  <2>3. CASE EndPass /\ k \in todo /\ \E fs \in SUBSET df_map[k].dfs : Deliver(k, fs)
      BY <1>2, <2>1, <2>3, DeliverTypes, EndPassTypes, TypesPartsPrime
  <2> QED BY <1>6, <2>2, <2>3 DEF ExportTableFails
<1> QED BY <1>3, <1>4, <1>5, <1>6 DEF ExportTriples

LEMMA WriteReturnsTypes ==
    ASSUME Types, WriteReturns PROVE Types'
<1>1. PICK s \in {"ok", "error"} : Return(s)
    BY DEF WriteReturns
<1>2. OutTypes'
    BY TypesParts DEF WriteReturns, OutTypes
<1> QED BY <1>1, <1>2, ReturnTypes, SameStore, TypesPartsPrime DEF WriteReturns

\* Every step preserves the types.
LEMMA TypesStep == Types /\ [Next]_vars => Types'
<1> SUFFICES ASSUME Types, [Next]_vars PROVE Types'
    OBVIOUS
<1>1. CASE UNCHANGED vars
  <2>1. StoreTypes' /\ ControlTypes' /\ OutTypes'
      BY <1>1, TypesParts DEF vars, store, control, StoreTypes, ControlTypes, OutTypes
  <2>2. todo' = todo /\ df_map' = df_map
      BY <1>1 DEF vars, store, control
  <2> QED BY <2>1, <2>2, TypesParts, TypesPartsPrime, ExistingSame
<1> QED BY <1>1, BeginCallTypes, ExpandTypes, DeduplicateTypes, QueryParsedTypes,
           ExportTypes, WriteReturnsTypes DEF Next

\* The type invariant holds, whatever the inputs, the tables and the failures of
\* the file system: in particular no call leaves a table without a list of frames
\* ("TripleTable in invalid state").
THEOREM TypeCorrect == Spec => []TypeOK
<1>1. Types => TypeOK
    BY DEF Types
<1> QED BY <1>1, TypesInit, TypesStep, PTL DEF Spec

----------------------------------------------------------------------------
\* The flags

\* What the two levels of flags say to each other, and to a deduplicate that is
\* under way: it has still to visit every table that is not unique, so when it
\* ends, and the evaluation of a query begins, there is none.
FlagsAgree ==
    /\ deduplicated => NotUnique = {}
    /\ stage = "deduplicate" => NotUnique \subseteq todo
    /\ stage = "evaluate" => NotUnique = {}
    /\ status # "assertion_failed"

IInv == Types /\ FlagsAgree

LEMMA NotUniqueSame == df_map' = df_map => NotUnique' = NotUnique
BY DEF NotUnique, Existing

\* A step that leaves the tables and the flag alone and ends the call, or goes on
\* to a stage that needs no flag.
LEMMA FlagsElsewhere ==
    ASSUME FlagsAgree, UNCHANGED <<df_map, deduplicated>>,
           stage' \notin {"deduplicate", "evaluate"}, status' # "assertion_failed"
    PROVE  FlagsAgree'
BY NotUniqueSame DEF FlagsAgree

LEMMA AddingFlags ==
    ASSUME FlagsAgree, AddingEffect,
           stage' \notin {"deduplicate", "evaluate"}, status' # "assertion_failed"
    PROVE  FlagsAgree'
<1>1. deduplicated' => NotUnique' = {}
  <2> SUFFICES ASSUME deduplicated', NEW k \in NotUnique' PROVE FALSE
      OBVIOUS
  <2>1. deduplicated /\ (df_map'[k] = df_map[k] \/ df_map'[k].unique)
      BY DEF AddingEffect, NotUnique
  <2>2. k \in Existing' /\ ~df_map'[k].unique
      BY DEF NotUnique
  <2>3. k \in Existing
      BY <2>1, <2>2 DEF Existing
  <2>4. k \in NotUnique
      BY <2>1, <2>2, <2>3 DEF NotUnique
  <2> QED BY <2>1, <2>4 DEF FlagsAgree
<1> QED BY <1>1 DEF FlagsAgree

\* Deduplicating a table takes it, and no other, off those that are not unique.
LEMMA MarkUniqueFlags ==
    ASSUME IInv, stage = "deduplicate", NEW k \in Tables, k \in todo,
           NEW fs \in SUBSET FrameIds, MarkUnique(k, fs), todo' = todo \ {k},
           UNCHANGED <<deduplicated, stage, status>>
    PROVE  FlagsAgree'
<1>1. NotUnique' = NotUnique \ {k}
    BY ReplaceTypes DEF IInv, NotUnique, Existing
<1> QED BY <1>1 DEF IInv, FlagsAgree

\* Every step preserves the agreement of the flags.
LEMMA FlagsStep == IInv /\ [Next]_vars => FlagsAgree'
<1> SUFFICES ASSUME IInv, [Next]_vars PROVE FlagsAgree'
    OBVIOUS
<1>1. FlagsAgree /\ Types
    BY DEF IInv
<1>2. CASE UNCHANGED vars
    BY <1>1, <1>2, NotUniqueSame DEF vars, store, control, FlagsAgree
<1>3. CASE BeginCall
  <2>1. ASSUME NEW name, NEW p, NEW tmpl, BeginRead(name, p, tmpl, ~deduplicated)
        PROVE  FlagsAgree'
      BY <1>1, <2>1, NotUniqueSame DEF BeginRead, Begin, FlagsAgree
  <2>2. ASSUME NEW name, NEW p, NEW tmpl, BeginRead(name, p, tmpl, TRUE)
        PROVE  FlagsAgree'
      BY <1>1, <2>2, NotUniqueSame DEF BeginRead, Begin, FlagsAgree
  <2>3. CASE PathDoesNotExist
      BY <1>1, <2>3, NotUniqueSame DEF PathDoesNotExist, FlagsAgree, store
  <2> QED BY <1>3, <2>1, <2>2, <2>3 DEF BeginCall, Query, ConstructUpdate, Export
<1>4. CASE Expand
  <2>1. CASE ExpandCall
      BY <1>1, <2>1, FlagsElsewhere DEF ExpandCall, Begin
  <2>2. CASE ExpandReturns
      BY <1>1, <2>2, FlagsElsewhere DEF ExpandReturns, Return, store
  <2>3. ASSUME NEW ts \in Inputs, ExpandChunk(ts) \/ ExpandChunkFails(ts)
        PROVE  FlagsAgree'
    <3>1. ts \in Seq(TriplesToAdd) /\ calls \in Nat
        BY <1>1, TypesParts, InputsAssumption DEF StoreTypes
    <3>2. AddingEffect
        BY <1>1, <2>3, <3>1, AddTriplesEffect DEF Types, ExpandChunk, ExpandChunkFails
    <3>3. stage' \in {"expand", "idle"} /\ status' # "assertion_failed"
        BY <1>1, <2>3 DEF ExpandChunk, ExpandChunkFails, Return, control, FlagsAgree
    <3> QED BY <1>1, <3>2, <3>3, AddingFlags
  <2> QED BY <1>4, <2>1, <2>2, <2>3 DEF Expand
<1>5. CASE Deduplicate
  <2>1. ASSUME DeduplicateFails PROVE stage' \in {"idle", "export"} /\ status' # "assertion_failed"
      BY <1>1, <2>1 DEF DeduplicateFails, BeginExport, Abort, Return, FlagsAgree
  <2>2. CASE Deduplicated
    <3>1. NotUnique' = {}
        BY <1>1, <2>2, NotUniqueSame DEF Deduplicated, FlagsAgree
    <3>2. stage' \in {"evaluate", "export", "write"} /\ UNCHANGED status
        BY <2>2 DEF Deduplicated, BeginExport, GoOn
    <3> QED BY <1>1, <3>1, <3>2 DEF FlagsAgree
  <2>3. ASSUME NEW k \in Tables, DeduplicateInMemory(k) PROVE FlagsAgree'
    <3>1. /\ HasFresh({k}) /\ stage = "deduplicate" /\ k \in todo
          /\ MarkUnique(k, {NewIds({k})[k]}) /\ todo' = todo \ {k}
          /\ UNCHANGED <<deduplicated, stage, status>>
        BY <2>3 DEF DeduplicateInMemory
    <3>2. {NewIds({k})[k]} \in SUBSET FrameIds
        BY <3>1, NewIdsType
    <3> QED BY <3>1, <3>2, MarkUniqueFlags
  <2>4. ASSUME NEW k \in Tables, DeduplicateInFolder(k) PROVE FlagsAgree'
    <3>1. PICK parts : /\ WriteParts(k, parts, DOMAIN parts)
                       /\ MarkUnique(k, { NewIds(DOMAIN parts)[o] : o \in DOMAIN parts })
        BY <2>4, Zenon DEF DeduplicateInFolder
    <3>2. { NewIds(DOMAIN parts)[o] : o \in DOMAIN parts } \in SUBSET FrameIds
        BY <3>1, NewIdsType DEF WriteParts
    <3>3. /\ stage = "deduplicate" /\ k \in todo /\ todo' = todo \ {k}
          /\ UNCHANGED <<deduplicated, stage, status>>
        BY <2>4 DEF DeduplicateInFolder
    <3> QED BY <3>1, <3>2, <3>3, MarkUniqueFlags
  <2>5. ASSUME NEW k \in Tables,
               \/ DeduplicateReadFails(k) \/ DeduplicateRemoveFails(k)
               \/ DeduplicateWriteFails(k)
        PROVE  FlagsAgree'
    <3>1. DeduplicateFails /\ UNCHANGED <<df_map, deduplicated>>
        BY <2>5 DEF DeduplicateReadFails, DeduplicateRemoveFails, DeduplicateWriteFails, store
    <3> QED BY <1>1, <2>1, <3>1, FlagsElsewhere
  <2>6. ASSUME NEW k \in Tables, DeduplicatePanics(k) PROVE FlagsAgree'
    <3>1. /\ k \in todo /\ stage' = "idle" /\ status' = "panic"
          /\ UNCHANGED deduplicated
        BY <2>6 DEF DeduplicatePanics, Abort, Return, DrainTable, store
    <3>2. CASE UNCHANGED store
        BY <1>1, <3>1, <3>2, FlagsElsewhere DEF store
    <3>3. CASE DrainTable(k)
      <4>1. NotUnique' = NotUnique
          BY <1>1, <3>1, <3>3, DrainTypes DEF NotUnique, Existing
      <4> QED BY <1>1, <3>1, <4>1 DEF FlagsAgree
    <3> QED BY <2>6, <3>2, <3>3 DEF DeduplicatePanics
  <2> QED BY <1>5, <2>2, <2>3, <2>4, <2>5, <2>6 DEF Deduplicate, DeduplicateTable
<1>6. CASE QueryParsed
  <2>1. CASE EvaluateMissing
      BY <1>1, <2>1, FlagsElsewhere DEF EvaluateMissing, Evaluated, Return, FlagsAgree, store
  <2>2. CASE EvaluatePanics
      BY <1>1, <2>2, FlagsElsewhere DEF EvaluatePanics, Abort, Return, store
  <2>3. ASSUME NEW k \in Tables, Evaluate(k) PROVE FlagsAgree'
    <3>1. k \in Existing /\ stage = "evaluate" /\ UNCHANGED store
        BY <2>3 DEF Evaluate, TablesOf
    <3>2. df_map[k].unique
        BY <1>1, <3>1 DEF FlagsAgree, NotUnique
    <3>3. Abort("panic") \/ Evaluated
        BY <2>3, <3>2 DEF Evaluate
    <3> QED BY <1>1, <3>1, <3>3, FlagsElsewhere DEF Abort, Return, Evaluated, FlagsAgree, store
  <2>4. ASSUME NEW k \in Tables, EvaluateFails(k) PROVE FlagsAgree'
      BY <1>1, <2>4, FlagsElsewhere DEF EvaluateFails, Abort, Return, store
  <2>5. CASE Construct \/ ConstructFails
    <3>1. AddingEffect
        BY <1>1, <2>5, TypesParts, ConstructedType, AddTriplesEffect
           DEF Types, StoreTypes, Construct, ConstructFails
    <3>2. stage' = "idle" /\ status' # "assertion_failed"
        BY <2>5 DEF Construct, ConstructFails, Abort, Return
    <3> QED BY <1>1, <3>1, <3>2, AddingFlags
  <2> QED BY <1>6, <2>1, <2>2, <2>3, <2>4, <2>5 DEF QueryParsed
<1>7. CASE ExportTriples
  <2>1. stage = "export" /\ UNCHANGED store
      BY <1>7 DEF ExportTriples, ExportPassDone, ExportTable, ExportPanics, ExportTableFails
  <2>2. stage' \in {"idle", "export"} /\ status' # "assertion_failed"
    <3>1. ASSUME EndPass PROVE stage' \in {"idle", "export"} /\ status' # "assertion_failed"
        BY <1>1, <2>1, <3>1 DEF EndPass, Return, FlagsAgree
    <3>2. ASSUME NEW s \in {"error", "panic"}, Abort(s)
          PROVE  stage' \in {"idle", "export"} /\ status' # "assertion_failed"
        BY <3>2 DEF Abort, Return
    <3>3. ASSUME UNCHANGED <<stage, status>>
          PROVE  stage' \in {"idle", "export"} /\ status' # "assertion_failed"
        BY <1>1, <2>1, <3>3 DEF FlagsAgree
    <3>4. EndPass \/ Abort("error") \/ Abort("panic") \/ UNCHANGED <<stage, status>>
        BY <1>7 DEF ExportTriples, ExportPassDone, ExportTable, ExportPanics, ExportTableFails
    <3> QED BY <3>1, <3>2, <3>3, <3>4
  <2> QED BY <1>1, <2>1, <2>2, FlagsElsewhere DEF store
<1>8. CASE WriteReturns
    BY <1>1, <1>8, FlagsElsewhere DEF WriteReturns, Return, store
<1> QED BY <1>2, <1>3, <1>4, <1>5, <1>6, <1>7, <1>8 DEF Next

LEMMA Invariant == Spec => []IInv
<1>1. Init => IInv
    BY TypesInit DEF IInv, FlagsAgree, Init, NotUnique, Existing
<1>2. IInv /\ [Next]_vars => IInv'
    BY TypesStep, FlagsStep DEF IInv
<1> QED BY <1>1, <1>2, PTL DEF Spec

\* The assertion "Should be deduplicated" of lazy_triple_pattern never fails: a
\* query that skips deduplicate, because the store's flag says it may, finds
\* every table unique, and so does one that has just deduplicated.
THEOREM ShouldBeDeduplicated == Spec => []DeduplicatedMeansUnique
<1>1. IInv => DeduplicatedMeansUnique
    BY DEF IInv, FlagsAgree, NotUnique, DeduplicatedMeansUnique
<1> QED BY <1>1, Invariant, PTL

----------------------------------------------------------------------------
\* The rows of frames

\* The rows that can be read from one frame.
FrameRows(f) == IF frames[f] = NoFrame THEN {} ELSE Occurring(frames[f])

LEMMA RowsOfFrames ==
    ASSUME NEW fs PROVE RowsIn(fs) = UNION { FrameRows(f) : f \in fs }
BY DEF RowsIn, FrameRows, Occurring

LEMMA RowsOfFramesPrime ==
    ASSUME NEW fs PROVE RowsIn(fs)' = UNION { FrameRows(f)' : f \in fs }
BY DEF RowsIn, FrameRows, Occurring

LEMMA FrameOfRows ==
    ASSUME NEW rows \in SUBSET Rows
    PROVE  FrameOf(rows) \in Frame /\ FrameOf(rows) # NoFrame /\ Occurring(FrameOf(rows)) = rows
<1>1. FrameOf(rows) \in Frame
    BY FrameOfType
<1>2. \A r \in Rows : FrameOf(rows)[r] = IF r \in rows THEN 1 ELSE 0
    BY DEF FrameOf
<1>3. Occurring(FrameOf(rows)) = rows
    BY <1>2 DEF Occurring
<1> QED BY <1>1, <1>3, FramesAssumption

----------------------------------------------------------------------------
\* Slices

\* The slices of split_write_df hold a row each at least, and together all rows:
\* the chunk of a row begins at a multiple of the chunk size, and its slice
\* reaches at least to its end.
LEMMA ChunkOfRow ==
    ASSUME NEW h \in Nat, NEW c \in Nat \ {0}, NEW i \in 0 .. h - 1
    PROVE  \E o \in LoopOffsets(h, c) : i \in LoopSlice(h, c, o)
<1>1. /\ i \in Nat /\ i \div c \in Int /\ i % c \in 0 .. c - 1 /\ i = c * (i \div c) + (i % c)
    OBVIOUS
<1> DEFINE o == i - (i % c)
<1>2. o = c * (i \div c) /\ o <= i /\ i < o + c
    BY <1>1
<1>3. o >= 0
  <2>1. ASSUME i \div c < 0 PROVE FALSE
    <3>1. c * (i \div c) <= -c
        BY <1>1, <2>1
    <3> QED BY <1>1, <3>1
  <2>2. c * (i \div c) >= 0
      BY <1>1, <2>1
  <2> QED BY <1>2, <2>2
<1>4. o % c = 0
  <2>1. \A q \in Int : (c * q) % c = 0
      BY Z3
  <2> QED BY <1>1, <1>2, <2>1
<1>5. o \in LoopOffsets(h, c)
    BY <1>1, <1>2, <1>3, <1>4 DEF LoopOffsets
<1>6. i \in LoopSlice(h, c, o)
    BY <1>1, <1>2, <1>3 DEF LoopSlice, SlicePar, ToRow
<1> QED BY <1>5, <1>6

LEMMA OffsetInSlice ==
    ASSUME NEW h \in Nat \ {0}, NEW c \in Nat \ {0}, NEW o \in LoopOffsets(h, c)
    PROVE  o \in 0 .. h - 1 /\ o \in LoopSlice(h, c, o) /\ LoopSlice(h, c, o) \subseteq 0 .. h - 1
BY DEF LoopOffsets, LoopSlice, SlicePar, ToRow

LEMMA PartsHoldRows ==
    ASSUME NEW rows, IsFiniteSet(rows), NEW n \in PartCounts(rows),
           NEW parts \in SplitParts(rows, n)
    PROVE  /\ DOMAIN parts # {}
           /\ \A o \in DOMAIN parts : parts[o] # {} /\ parts[o] \subseteq rows
           /\ UNION { parts[o] : o \in DOMAIN parts } = rows
<1> DEFINE h == Cardinality(rows)
           c == ChunkSize(h, n)
<1>1. h \in Nat \ {0} /\ n \in Nat \ {0} /\ n <= h
    BY FS_CardinalityType, BoundsAssumption DEF PartCounts
<1>2. PICK order \in Bijection(0 .. h - 1, rows) :
          parts = [o \in LoopOffsets(h, c) |-> { order[r] : r \in LoopSlice(h, c, o) }]
    BY DEF SplitParts
<1>3. order \in [0 .. h - 1 -> rows] /\ \A r \in rows : \E i \in 0 .. h - 1 : order[i] = r
    BY <1>2 DEF Bijection, Surjection
<1> HIDE DEF h
<1>4. c \in Nat \ {0}
    BY <1>1, Z3 DEF ChunkSize
<1> HIDE DEF c
<1>5. DOMAIN parts = LoopOffsets(h, c)
    BY <1>2
<1>6. 0 \in LoopOffsets(h, c)
    BY DEF LoopOffsets
<1>7. ASSUME NEW o \in DOMAIN parts PROVE parts[o] # {} /\ parts[o] \subseteq rows
  <2>1. o \in LoopSlice(h, c, o) /\ LoopSlice(h, c, o) \subseteq 0 .. h - 1
      BY <1>1, <1>4, <1>5, OffsetInSlice
  <2>2. parts[o] = { order[r] : r \in LoopSlice(h, c, o) }
      BY <1>2, <1>5
  <2> QED BY <1>3, <2>1, <2>2
<1>8. ASSUME NEW r \in rows PROVE \E o \in DOMAIN parts : r \in parts[o]
  <2>1. PICK i \in 0 .. h - 1 : order[i] = r
      BY <1>3
  <2>2. PICK o \in LoopOffsets(h, c) : i \in LoopSlice(h, c, o)
      BY <1>1, <1>4, ChunkOfRow
  <2> QED BY <1>2, <2>1, <2>2
<1> QED BY <1>5, <1>6, <1>7, <1>8

----------------------------------------------------------------------------
\* The contents of the tables

HeldRows(k)  == { r \in Rows : <<k[1], k[2], r>> \in held }

HeldUnder(p) == { t \in held : t[1] = p }

\* No frame is in two tables, and none in a table is empty.
FramesApart ==
    /\ \A j, k \in Existing : j # k => df_map[j].dfs \intersect df_map[k].dfs = {}
    /\ \A k \in Existing :
          /\ Caching => df_map[k].dfs # {}
          /\ \A f \in df_map[k].dfs : frames[f] # NoFrame => FrameRows(f) # {}

\* What cannot be read is not marked unique, and in memory there is no such thing.
LossIsMarked ==
    \A k \in Existing : ~Readable(k) => Caching /\ ~df_map[k].unique

\* A table holds what was put in it, as long as all its files are there.
TablesHold ==
    \A k \in Tables :
        /\ k \notin Existing => HeldRows(k) = {}
        /\ k \in Existing =>
              /\ RowsOf(k) \subseteq HeldRows(k)
              /\ Readable(k) => RowsOf(k) = HeldRows(k)

Contents == FramesApart /\ LossIsMarked /\ TablesHold

\* Nothing that can be read from the table j is touched.
Untouched(j) ==
    /\ df_map'[j] = df_map[j]
    /\ j \in Existing => \A f \in df_map[j].dfs : frames'[f] = frames[f]

LEMMA UntouchedSame ==
    ASSUME NEW j, Untouched(j), j \in Existing
    PROVE  /\ j \in Existing'
           /\ Readable(j)' = Readable(j) /\ RowsOf(j)' = RowsOf(j)
           /\ \A f \in df_map[j].dfs : FrameRows(f)' = FrameRows(f)
<1>1. df_map'[j] = df_map[j] /\ \A f \in df_map[j].dfs : frames'[f] = frames[f]
    BY DEF Untouched
<1>2. j \in Existing'
    BY <1>1 DEF Existing
<1>3. Readable(j)' = Readable(j)
    BY <1>1 DEF Readable
<1>4. RowsOf(j)' = RowsOf(j)
    BY <1>1 DEF RowsOf, RowsIn
<1>5. \A f \in df_map[j].dfs : FrameRows(f)' = FrameRows(f)
    BY <1>1 DEF FrameRows, Occurring
<1> QED BY <1>2, <1>3, <1>4, <1>5

\* The four things that happen to tables.  Frames are added to some: N says
\* which to which.
AddsFrames(N, uuid) ==
    /\ N \in [Tables -> SUBSET Fresh]
    /\ \A j, k \in Tables : j # k => N[j] \intersect N[k] = {}
    /\ \A k \in Tables : \A f \in N[k] : frames'[f] # NoFrame /\ FrameRows(f)' # {}
    /\ \A f \in FrameIds \ Fresh : frames'[f] = frames[f]
    /\ \A k \in Tables : df_map'[k] =
          IF N[k] = {} THEN df_map[k]
          ELSE IF df_map[k] = NoTable
               THEN [dfs |-> N[k], unique |-> TRUE, call_uuid |-> uuid]
               ELSE Pushed(df_map[k], N[k], uuid)
    /\ \A k \in Tables : HeldRows(k)' = HeldRows(k) \union UNION { FrameRows(f)' : f \in N[k] }
    /\ held \subseteq held' /\ drained' \subseteq drained /\ drained \subseteq drained' \union held'

\* One gets new frames for its old ones, with the same rows.
Replaces(k, fs) ==
    /\ fs \in (SUBSET Fresh) \ {{}}
    /\ MarkUnique(k, fs)
    /\ \A f \in fs : frames'[f] # NoFrame /\ FrameRows(f)' # {}
    /\ UNION { FrameRows(f)' : f \in fs } = RowsOf(k)
    /\ \A f \in FrameIds \ (fs \union df_map[k].dfs) : frames'[f] = frames[f]
    /\ UNCHANGED <<held, drained>>

\* One, which is not unique, loses some of its frames.
Loses(k) ==
    /\ Caching /\ ~df_map[k].unique
    /\ UNCHANGED <<df_map, held, drained>>
    /\ \A f \in df_map[k].dfs : frames'[f] \in {frames[f], NoFrame}
    /\ \E f \in df_map[k].dfs : frames'[f] = NoFrame
    /\ \A f \in FrameIds \ (Fresh \union df_map[k].dfs) : frames'[f] = frames[f]

\* Or one, in memory and not unique, loses all.
Drains(k) == ~Caching /\ k \in NotUnique /\ CannotConcat(k) /\ DrainTable(k)

LEMMA FreshNotReferenced ==
    ASSUME NEW k \in Existing PROVE df_map[k].dfs \intersect Fresh = {}
BY DEF Fresh, Referenced

LEMMA TableTypes ==
    ASSUME Types, NEW k \in Existing
    PROVE  k \in Tables /\ df_map[k] \in TripleTable /\ df_map[k].dfs \subseteq FrameIds
BY DEF Types, TypeOK, Existing, TripleTable

LEMMA HeldSame == ASSUME UNCHANGED held PROVE \A k : HeldRows(k)' = HeldRows(k)
BY DEF HeldRows

\* Adding changes the tables that frames are added to, and only so.
LEMMA AddsEffect ==
    ASSUME Types, NEW N, NEW uuid \in Nat, AddsFrames(N, uuid), NEW k \in Tables
    PROVE  /\ k \in Existing' <=> k \in Existing \/ N[k] # {}
           /\ N[k] = {} => Untouched(k)
           /\ k \in Existing /\ N[k] # {} =>
                 /\ df_map'[k].dfs = df_map[k].dfs \union N[k]
                 /\ df_map'[k].unique => df_map[k].unique
           /\ k \notin Existing /\ N[k] # {} => df_map'[k].dfs = N[k]
           /\ k \in Existing => \A f \in df_map[k].dfs : frames'[f] = frames[f]
<1>1. df_map'[k] =
          IF N[k] = {} THEN df_map[k]
          ELSE IF df_map[k] = NoTable
               THEN [dfs |-> N[k], unique |-> TRUE, call_uuid |-> uuid]
               ELSE Pushed(df_map[k], N[k], uuid)
    BY DEF AddsFrames
<1>2. k \in Existing => \A f \in df_map[k].dfs : frames'[f] = frames[f]
    BY TableTypes, FreshNotReferenced DEF AddsFrames
<1>3. N[k] \subseteq FrameIds
    BY DEF AddsFrames, Fresh
<1>4. [dfs |-> N[k], unique |-> TRUE, call_uuid |-> uuid] \in TripleTable
    BY <1>3 DEF TripleTable
<1>5. ASSUME df_map[k] # NoTable PROVE Pushed(df_map[k], N[k], uuid) \in TripleTable
  <2>1. df_map[k] \in TripleTable
      BY <1>5, TableTypes DEF Existing
  <2> QED BY <1>3, <2>1 DEF Pushed, TripleTable
<1>6. k \in Existing' <=> k \in Existing \/ N[k] # {}
    BY <1>1, <1>4, <1>5, TablesAssumption DEF Existing
<1>7. N[k] = {} => Untouched(k)
    BY <1>1, <1>2 DEF Untouched
<1>8. k \in Existing /\ N[k] # {} =>
          /\ df_map'[k].dfs = df_map[k].dfs \union N[k]
          /\ df_map'[k].unique => df_map[k].unique
    BY <1>1, TableTypes DEF Existing, Pushed, TripleTable
<1>9. k \notin Existing /\ N[k] # {} => df_map'[k].dfs = N[k]
    BY <1>1 DEF Existing
<1> QED BY <1>2, <1>6, <1>7, <1>8, <1>9

LEMMA RowsOfTable == ASSUME NEW k PROVE RowsOf(k) = UNION { FrameRows(f) : f \in df_map[k].dfs }
BY DEF RowsOf, RowsIn, FrameRows, Occurring

LEMMA RowsOfTablePrime ==
    ASSUME NEW k PROVE RowsOf(k)' = UNION { FrameRows(f)' : f \in df_map'[k].dfs }
BY DEF RowsOf, RowsIn, FrameRows, Occurring

\* The rows of a table grow by those of the frames added, and what could not be
\* read still cannot.
LEMMA AddsRows ==
    ASSUME Types, NEW N, NEW uuid \in Nat, AddsFrames(N, uuid), NEW k \in Tables, k \in Existing'
    PROVE  LET old == IF k \in Existing THEN df_map[k].dfs ELSE {}
           IN  /\ df_map'[k].dfs = old \union N[k]
               /\ old \intersect Fresh = {} /\ N[k] \subseteq Fresh
               /\ \A f \in old : frames'[f] = frames[f] /\ FrameRows(f)' = FrameRows(f)
               /\ \A f \in N[k] : frames'[f] # NoFrame /\ FrameRows(f)' # {}
               /\ RowsOf(k)' = (IF k \in Existing THEN RowsOf(k) ELSE {})
                                  \union UNION { FrameRows(f)' : f \in N[k] }
               /\ Readable(k)' = (\A f \in old : frames[f] # NoFrame)
<1> DEFINE old == IF k \in Existing THEN df_map[k].dfs ELSE {}
<1>1. df_map'[k].dfs = old \union N[k]
    BY AddsEffect DEF Untouched
<1>2. old \intersect Fresh = {} /\ N[k] \subseteq Fresh
    BY FreshNotReferenced DEF AddsFrames
<1>3. \A f \in old : frames'[f] = frames[f]
    BY AddsEffect
<1>4. \A f \in old : FrameRows(f)' = FrameRows(f)
    BY <1>3 DEF FrameRows, Occurring
<1>5. \A f \in N[k] : frames'[f] # NoFrame /\ FrameRows(f)' # {}
    BY DEF AddsFrames
<1>6. RowsOf(k)' = (IF k \in Existing THEN RowsOf(k) ELSE {})
                      \union UNION { FrameRows(f)' : f \in N[k] }
  <2>1. RowsOf(k)' = UNION { FrameRows(f)' : f \in old \union N[k] }
      BY <1>1, RowsOfTablePrime
  <2>2. UNION { FrameRows(f) : f \in old } = IF k \in Existing THEN RowsOf(k) ELSE {}
      BY RowsOfTable
  <2>3. UNION { FrameRows(f)' : f \in old } = UNION { FrameRows(f) : f \in old }
      BY <1>4
  <2> DEFINE New(F) == UNION { FrameRows(f)' : f \in F }
  <2>4. ASSUME NEW r
        PROVE  r \in New(old \union N[k]) <=> r \in New(old) \/ r \in New(N[k])
      OBVIOUS
  <2> HIDE DEF New, old
  <2>5. New(old \union N[k]) = New(old) \union New(N[k])
      BY <2>4
  <2> QED BY <2>1, <2>2, <2>3, <2>5 DEF New
<1>7. Readable(k)' = (\A f \in old : frames[f] # NoFrame)
  <2>1. Readable(k)' <=> \A f \in df_map'[k].dfs : frames'[f] # NoFrame
      BY DEF Readable
  <2> HIDE DEF old
  <2>2. Readable(k)' <=> \A f \in old : frames[f] # NoFrame
      BY <1>1, <1>3, <1>5, <2>1
  <2>3. Readable(k)' \in BOOLEAN
      BY DEF Readable
  <2> QED BY <2>2, <2>3
<1> QED BY <1>1, <1>2, <1>3, <1>4, <1>5, <1>6, <1>7

LEMMA AddsContents ==
    ASSUME Types, Contents, NEW N, NEW uuid \in Nat, AddsFrames(N, uuid)
    PROVE  Contents'
<1> DEFINE Old(k) == IF k \in Existing THEN df_map[k].dfs ELSE {}
<1>1. \A k \in Existing' :
          /\ k \in Tables
          /\ df_map'[k].dfs = Old(k) \union N[k]
          /\ Old(k) \intersect Fresh = {} /\ N[k] \subseteq Fresh
          /\ \A f \in Old(k) : frames'[f] = frames[f] /\ FrameRows(f)' = FrameRows(f)
          /\ \A f \in N[k] : frames'[f] # NoFrame /\ FrameRows(f)' # {}
          /\ RowsOf(k)' = (IF k \in Existing THEN RowsOf(k) ELSE {})
                             \union UNION { FrameRows(f)' : f \in N[k] }
          /\ Readable(k)' = (\A f \in Old(k) : frames[f] # NoFrame)
  <2> SUFFICES ASSUME NEW k \in Existing'
               PROVE  /\ k \in Tables
                      /\ df_map'[k].dfs = Old(k) \union N[k]
                      /\ Old(k) \intersect Fresh = {} /\ N[k] \subseteq Fresh
                      /\ \A f \in Old(k) : frames'[f] = frames[f] /\ FrameRows(f)' = FrameRows(f)
                      /\ \A f \in N[k] : frames'[f] # NoFrame /\ FrameRows(f)' # {}
                      /\ RowsOf(k)' = (IF k \in Existing THEN RowsOf(k) ELSE {})
                                         \union UNION { FrameRows(f)' : f \in N[k] }
                      /\ Readable(k)' = (\A f \in Old(k) : frames[f] # NoFrame)
      OBVIOUS
  <2>1. k \in Tables
      BY DEF Existing
  <2> QED BY <2>1, AddsRows
<1>2. FramesApart'
  <2>1. ASSUME NEW j \in Existing', NEW k \in Existing', j # k
        PROVE  df_map'[j].dfs \intersect df_map'[k].dfs = {}
    <3>1. N[j] \intersect N[k] = {}
        BY <1>1, <2>1 DEF AddsFrames
    <3>2. Old(j) \intersect Old(k) = {}
        BY <2>1 DEF Contents, FramesApart
    <3> QED BY <1>1, <3>1, <3>2
  <2>2. ASSUME NEW k \in Existing', Caching PROVE df_map'[k].dfs # {}
    <3>1. k \in Tables
        BY <1>1
    <3>4. k \in Existing \/ N[k] # {}
        BY <3>1, AddsEffect
    <3>2. k \in Existing => Old(k) # {}
        BY <2>2 DEF Contents, FramesApart
    <3>3. df_map'[k].dfs = Old(k) \union N[k]
        BY <1>1
    <3> HIDE DEF Old
    <3> QED BY <3>2, <3>3, <3>4
  <2>3. ASSUME NEW k \in Existing', NEW f \in df_map'[k].dfs, frames'[f] # NoFrame
        PROVE  FrameRows(f)' # {}
    <3>1. CASE f \in N[k]
        BY <1>1, <3>1
    <3>2. CASE f \in Old(k)
      <4>1. k \in Existing /\ frames[f] # NoFrame /\ FrameRows(f)' = FrameRows(f)
          BY <1>1, <2>3, <3>2
      <4> QED BY <3>2, <4>1 DEF Contents, FramesApart
    <3> QED BY <1>1, <2>3, <3>1, <3>2
  <2> QED BY <2>1, <2>2, <2>3 DEF FramesApart
<1>3. LossIsMarked'
  <2> SUFFICES ASSUME NEW k \in Existing', ~Readable(k)' PROVE Caching /\ ~df_map'[k].unique
      BY DEF LossIsMarked
  <2>1. k \in Tables /\ k \in Existing /\ ~Readable(k)
      BY <1>1 DEF Readable
  <2>2. Caching /\ ~df_map[k].unique
      BY <2>1 DEF Contents, LossIsMarked
  <2>3. df_map'[k].unique => df_map[k].unique
      BY <2>1, AddsEffect DEF Untouched
  <2> QED BY <2>2, <2>3
<1>4. TablesHold'
  <2> SUFFICES ASSUME NEW k \in Tables
               PROVE  /\ k \notin Existing' => HeldRows(k)' = {}
                      /\ k \in Existing' => /\ RowsOf(k)' \subseteq HeldRows(k)'
                                            /\ Readable(k)' => RowsOf(k)' = HeldRows(k)'
      BY DEF TablesHold
  <2>1. HeldRows(k)' = HeldRows(k) \union UNION { FrameRows(f)' : f \in N[k] }
      BY DEF AddsFrames
  <2>2. k \in Existing' <=> k \in Existing \/ N[k] # {}
      BY AddsEffect
  <2>3. k \notin Existing => HeldRows(k) = {}
      BY DEF Contents, TablesHold
  <2>4. k \in Existing => /\ RowsOf(k) \subseteq HeldRows(k)
                          /\ Readable(k) => RowsOf(k) = HeldRows(k)
      BY DEF Contents, TablesHold
  <2>5. k \in Existing /\ k \in Existing' /\ Readable(k)' => Readable(k)
      BY <1>1 DEF Readable
  <2>6. CASE k \notin Existing'
    <3>1. UNION { FrameRows(f)' : f \in N[k] } = {}
        BY <2>2, <2>6
    <3> QED BY <2>1, <2>2, <2>3, <2>6, <3>1
  <2>7. CASE k \in Existing'
    <3>1. RowsOf(k)' = (IF k \in Existing THEN RowsOf(k) ELSE {})
                          \union UNION { FrameRows(f)' : f \in N[k] }
        BY <1>1, <2>7
    <3> QED BY <2>1, <2>3, <2>4, <2>5, <2>7, <3>1
  <2> QED BY <2>6, <2>7
<1> QED BY <1>2, <1>3, <1>4 DEF Contents

LEMMA ReplacesEffect ==
    ASSUME Types, Contents, NEW k \in Tables, k \in todo, NEW fs, Replaces(k, fs)
    PROVE  /\ Existing' = Existing /\ k \in Existing
           /\ df_map'[k].dfs = fs /\ fs \subseteq Fresh /\ fs # {}
           /\ df_map'[k].unique
           /\ \A f \in fs : frames'[f] # NoFrame /\ FrameRows(f)' # {}
           /\ Readable(k)' /\ RowsOf(k)' = RowsOf(k)
           /\ \A j \in Existing \ {k} : Untouched(j)
<1>1. /\ fs \in (SUBSET Fresh) \ {{}} /\ MarkUnique(k, fs)
      /\ \A f \in fs : frames'[f] # NoFrame /\ FrameRows(f)' # {}
      /\ UNION { FrameRows(f)' : f \in fs } = RowsOf(k)
      /\ \A f \in FrameIds \ (fs \union df_map[k].dfs) : frames'[f] = frames[f]
    BY DEF Replaces
<1>2. fs \in SUBSET FrameIds
    BY <1>1 DEF Fresh
<1>3. /\ Existing' = Existing /\ df_map'[k].unique /\ df_map'[k].dfs = fs
      /\ \A j \in Tables \ {k} : df_map'[j] = df_map[j]
    BY <1>1, <1>2, ReplaceTypes
<1>4. k \in Existing
    BY DEF Types, TypeOK
<1>5. RowsOf(k)' = RowsOf(k)
  <2>1. RowsOf(k)' = UNION { FrameRows(f)' : f \in fs }
      BY <1>3, RowsOfTablePrime
  <2> QED BY <1>1, <2>1
<1>6. Readable(k)'
    BY <1>1, <1>3 DEF Readable
<1>7. ASSUME NEW j \in Existing \ {k} PROVE Untouched(j)
  <2>1. df_map'[j] = df_map[j]
      BY <1>3 DEF Existing
  <2>2. df_map[j].dfs \subseteq FrameIds
      BY TableTypes
  <2>3. df_map[j].dfs \intersect fs = {}
      BY <1>1, FreshNotReferenced
  <2>4. df_map[j].dfs \intersect df_map[k].dfs = {}
      BY <1>4 DEF Contents, FramesApart
  <2> QED BY <1>1, <2>1, <2>2, <2>3, <2>4 DEF Untouched
<1> QED BY <1>1, <1>3, <1>4, <1>5, <1>6, <1>7

LEMMA ReplacesContents ==
    ASSUME Types, Contents, NEW k \in Tables, k \in todo, Readable(k), NEW fs, Replaces(k, fs)
    PROVE  Contents'
<1>1. /\ Existing' = Existing /\ k \in Existing
      /\ df_map'[k].dfs = fs /\ fs \subseteq Fresh /\ fs # {}
      /\ \A f \in fs : frames'[f] # NoFrame /\ FrameRows(f)' # {}
      /\ Readable(k)' /\ RowsOf(k)' = RowsOf(k)
      /\ \A j \in Existing \ {k} : Untouched(j)
    BY ReplacesEffect
<1>2. ASSUME NEW j \in Existing \ {k}
      PROVE  /\ df_map'[j] = df_map[j]
             /\ Readable(j)' = Readable(j) /\ RowsOf(j)' = RowsOf(j)
             /\ \A f \in df_map[j].dfs : frames'[f] = frames[f] /\ FrameRows(f)' = FrameRows(f)
             /\ df_map[j].dfs \intersect fs = {}
  <2>1. Untouched(j)
      BY <1>1
  <2> QED BY <1>1, <2>1, UntouchedSame, FreshNotReferenced DEF Untouched
<1>3. FramesApart'
  <2>1. ASSUME NEW i \in Existing', NEW j \in Existing', i # j
        PROVE  df_map'[i].dfs \intersect df_map'[j].dfs = {}
      BY <1>1, <1>2, <2>1 DEF Contents, FramesApart
  <2>2. ASSUME NEW j \in Existing', Caching PROVE df_map'[j].dfs # {}
      BY <1>1, <1>2, <2>2 DEF Contents, FramesApart
  <2>3. ASSUME NEW j \in Existing', NEW f \in df_map'[j].dfs, frames'[f] # NoFrame
        PROVE  FrameRows(f)' # {}
    <3>1. CASE j = k
        BY <1>1, <2>3, <3>1
    <3>2. CASE j # k
      <4>1. f \in df_map[j].dfs /\ frames[f] # NoFrame /\ FrameRows(f)' = FrameRows(f)
          BY <1>1, <1>2, <2>3, <3>2
      <4> QED BY <1>1, <4>1 DEF Contents, FramesApart
    <3> QED BY <3>1, <3>2
  <2> QED BY <2>1, <2>2, <2>3 DEF FramesApart
<1>4. LossIsMarked'
  <2> SUFFICES ASSUME NEW j \in Existing', ~Readable(j)' PROVE Caching /\ ~df_map'[j].unique
      BY DEF LossIsMarked
  <2>1. j \in Existing \ {k}
      BY <1>1
  <2> QED BY <1>2, <2>1 DEF Contents, LossIsMarked
<1>5. TablesHold'
  <2> SUFFICES ASSUME NEW j \in Tables
               PROVE  /\ j \notin Existing' => HeldRows(j)' = {}
                      /\ j \in Existing' => /\ RowsOf(j)' \subseteq HeldRows(j)'
                                            /\ Readable(j)' => RowsOf(j)' = HeldRows(j)'
      BY DEF TablesHold
  <2>1. HeldRows(j)' = HeldRows(j)
      BY HeldSame DEF Replaces
  <2>2. CASE j = k
      BY <1>1, <2>1, <2>2 DEF Contents, TablesHold
  <2>3. CASE j # k
      BY <1>1, <1>2, <2>1, <2>3 DEF Contents, TablesHold
  <2> QED BY <2>2, <2>3
<1> QED BY <1>3, <1>4, <1>5 DEF Contents

LEMMA LosesEffect ==
    ASSUME Types, Contents, NEW k \in Existing, Loses(k)
    PROVE  /\ Existing' = Existing
           /\ ~Readable(k)' /\ RowsOf(k)' \subseteq RowsOf(k)
           /\ \A f \in df_map[k].dfs : frames'[f] # NoFrame => frames'[f] = frames[f]
           /\ \A j \in Existing \ {k} : Untouched(j)
<1>1. df_map' = df_map /\ \A f \in df_map[k].dfs : frames'[f] \in {frames[f], NoFrame}
    BY DEF Loses
<1>2. ~Readable(k)'
    BY DEF Loses, Readable
<1>3. RowsOf(k)' \subseteq RowsOf(k)
    BY <1>1 DEF RowsOf, RowsIn
<1>4. ASSUME NEW j \in Existing \ {k} PROVE Untouched(j)
  <2>1. df_map[j].dfs \subseteq FrameIds
      BY TableTypes
  <2>2. df_map[j].dfs \intersect Fresh = {}
      BY FreshNotReferenced
  <2>3. df_map[j].dfs \intersect df_map[k].dfs = {}
      BY DEF Contents, FramesApart
  <2> QED BY <1>1, <2>1, <2>2, <2>3 DEF Untouched, Loses
<1> QED BY <1>1, <1>2, <1>3, <1>4, ExistingSame

LEMMA LosesContents ==
    ASSUME Types, Contents, NEW k \in Existing, Loses(k)
    PROVE  Contents'
<1>1. /\ Existing' = Existing /\ df_map' = df_map
      /\ ~Readable(k)' /\ RowsOf(k)' \subseteq RowsOf(k)
      /\ \A f \in df_map[k].dfs : frames'[f] # NoFrame => frames'[f] = frames[f]
      /\ \A j \in Existing \ {k} : Untouched(j)
    BY LosesEffect DEF Loses
<1>2. ASSUME NEW j \in Existing \ {k}
      PROVE  /\ Readable(j)' = Readable(j) /\ RowsOf(j)' = RowsOf(j)
             /\ \A f \in df_map[j].dfs : frames'[f] = frames[f]
  <2>1. Untouched(j)
      BY <1>1
  <2> QED BY <2>1, UntouchedSame DEF Untouched
<1>3. FramesApart'
  <2>1. ASSUME NEW j \in Existing, NEW f \in df_map[j].dfs, frames'[f] # NoFrame
        PROVE  FrameRows(f)' # {}
    <3>1. frames'[f] = frames[f]
        BY <1>1, <1>2, <2>1
    <3>2. FrameRows(f)' = FrameRows(f)
        BY <3>1 DEF FrameRows, Occurring
    <3> QED BY <2>1, <3>1, <3>2 DEF Contents, FramesApart
  <2> QED BY <1>1, <2>1 DEF Contents, FramesApart
<1>4. LossIsMarked'
    BY <1>1, <1>2 DEF Contents, LossIsMarked, Loses
<1>5. TablesHold'
  <2> SUFFICES ASSUME NEW j \in Tables
               PROVE  /\ j \notin Existing' => HeldRows(j)' = {}
                      /\ j \in Existing' => /\ RowsOf(j)' \subseteq HeldRows(j)'
                                            /\ Readable(j)' => RowsOf(j)' = HeldRows(j)'
      BY DEF TablesHold
  <2>1. HeldRows(j)' = HeldRows(j)
      BY HeldSame DEF Loses
  <2>2. CASE j = k
      BY <1>1, <2>1, <2>2 DEF Contents, TablesHold
  <2>3. CASE j # k
      BY <1>1, <1>2, <2>1, <2>3 DEF Contents, TablesHold
  <2> QED BY <2>2, <2>3
<1> QED BY <1>3, <1>4, <1>5 DEF Contents

LEMMA DrainsEffect ==
    ASSUME Types, Contents, NEW k \in Existing, k \in todo, Drains(k)
    PROVE  /\ Existing' = Existing
           /\ df_map'[k].dfs = {} /\ ~df_map'[k].unique
           /\ df_map'[k].call_uuid = df_map[k].call_uuid
           /\ Readable(k) /\ RowsOf(k) = HeldRows(k)
           /\ Readable(k)' /\ RowsOf(k)' = {} /\ HeldRows(k)' = {}
           /\ \A j \in Existing \ {k} : Untouched(j)
           /\ \A j \in Tables \ {k} : HeldRows(j)' = HeldRows(j)
<1>1. /\ ~Caching /\ k \in Tables /\ ~df_map[k].unique /\ DrainTable(k)
      /\ frames' = [f \in FrameIds |-> IF f \in df_map[k].dfs THEN NoFrame ELSE frames[f]]
      /\ held' = held \ TriplesIn(k, RowsOf(k))
    BY DEF Drains, NotUnique, DrainTable, Existing
<1>2. /\ Existing' = Existing /\ df_map'[k].unique = df_map[k].unique /\ df_map'[k].dfs = {}
      /\ df_map'[k].call_uuid = df_map[k].call_uuid
      /\ \A j \in Tables \ {k} : df_map'[j] = df_map[j]
    BY <1>1, DrainTypes
<1>3. Readable(k) /\ RowsOf(k) = HeldRows(k)
    BY <1>1 DEF Contents, LossIsMarked, TablesHold
<1>4. Readable(k)' /\ RowsOf(k)' = {}
    BY <1>2 DEF Readable, RowsOf, RowsIn
<1>5. HeldRows(k)' = {}
  <2>1. ASSUME NEW r \in Rows, <<k[1], k[2], r>> \in held' PROVE FALSE
    <3>1. r \in RowsOf(k)
        BY <1>1, <1>3, <2>1 DEF HeldRows
    <3> QED BY <1>1, <2>1, <3>1 DEF TriplesIn
  <2> QED BY <2>1 DEF HeldRows
<1>6. ASSUME NEW j \in Existing \ {k} PROVE Untouched(j)
  <2>1. df_map'[j] = df_map[j]
      BY <1>2 DEF Existing
  <2>2. df_map[j].dfs \subseteq FrameIds
      BY TableTypes
  <2>3. df_map[j].dfs \intersect df_map[k].dfs = {}
      BY DEF Contents, FramesApart
  <2> QED BY <1>1, <2>1, <2>2, <2>3 DEF Untouched
<1>7. ASSUME NEW j \in Tables \ {k} PROVE HeldRows(j)' = HeldRows(j)
  <2>1. ASSUME NEW r PROVE <<j[1], j[2], r>> \notin TriplesIn(k, RowsOf(k))
    <3>1. j[1] # k[1] \/ j[2] # k[2]
        BY <1>1 DEF Tables
    <3> QED BY <3>1 DEF TriplesIn
  <2> QED BY <1>1, <2>1 DEF HeldRows
<1> QED BY <1>1, <1>2, <1>3, <1>4, <1>5, <1>6, <1>7

LEMMA DrainsContents ==
    ASSUME Types, Contents, NEW k \in Existing, k \in todo, Drains(k)
    PROVE  Contents'
<1>1. /\ Existing' = Existing /\ ~Caching
      /\ df_map'[k].dfs = {}
      /\ Readable(k)' /\ RowsOf(k)' = {} /\ HeldRows(k)' = {}
      /\ \A j \in Existing \ {k} : Untouched(j)
      /\ \A j \in Tables \ {k} : HeldRows(j)' = HeldRows(j)
    BY DrainsEffect DEF Drains
<1>2. ASSUME NEW j \in Existing \ {k}
      PROVE  /\ df_map'[j] = df_map[j]
             /\ Readable(j)' = Readable(j) /\ RowsOf(j)' = RowsOf(j)
             /\ \A f \in df_map[j].dfs : frames'[f] = frames[f] /\ FrameRows(f)' = FrameRows(f)
  <2>1. Untouched(j)
      BY <1>1
  <2> QED BY <2>1, UntouchedSame DEF Untouched
<1>3. FramesApart'
  <2>1. ASSUME NEW i \in Existing', NEW j \in Existing', i # j
        PROVE  df_map'[i].dfs \intersect df_map'[j].dfs = {}
      BY <1>1, <1>2, <2>1 DEF Contents, FramesApart
  <2>2. ASSUME NEW j \in Existing', NEW f \in df_map'[j].dfs, frames'[f] # NoFrame
        PROVE  FrameRows(f)' # {}
    <3>1. j \in Existing \ {k}
        BY <1>1, <2>2
    <3>2. f \in df_map[j].dfs /\ frames[f] # NoFrame /\ FrameRows(f)' = FrameRows(f)
        BY <1>2, <2>2, <3>1
    <3> QED BY <3>1, <3>2 DEF Contents, FramesApart
  <2> QED BY <1>1, <2>1, <2>2 DEF FramesApart
<1>4. LossIsMarked'
  <2> SUFFICES ASSUME NEW j \in Existing', ~Readable(j)' PROVE FALSE
      BY DEF LossIsMarked
  <2>1. j \in Existing \ {k}
      BY <1>1
  <2> QED BY <1>1, <1>2, <2>1 DEF Contents, LossIsMarked
<1>5. TablesHold'
  <2> SUFFICES ASSUME NEW j \in Tables
               PROVE  /\ j \notin Existing' => HeldRows(j)' = {}
                      /\ j \in Existing' => /\ RowsOf(j)' \subseteq HeldRows(j)'
                                            /\ Readable(j)' => RowsOf(j)' = HeldRows(j)'
      BY DEF TablesHold
  <2>1. CASE j = k
      BY <1>1, <2>1
  <2>2. CASE j # k
    <3>1. HeldRows(j)' = HeldRows(j)
        BY <1>1, <2>2
    <3> QED BY <1>1, <1>2, <2>2, <3>1 DEF Contents, TablesHold
  <2> QED BY <2>1, <2>2
<1> QED BY <1>3, <1>4, <1>5 DEF Contents

LEMMA SameContents ==
    ASSUME Contents, UNCHANGED <<df_map, frames, held, drained>> PROVE Contents'
<1>1. \A k : /\ HeldRows(k)' = HeldRows(k) /\ RowsOf(k)' = RowsOf(k)
             /\ Readable(k)' = Readable(k) /\ FrameRows(k)' = FrameRows(k)
    BY DEF HeldRows, RowsOf, RowsIn, Readable, FrameRows, Occurring
<1>2. Existing' = Existing
    BY ExistingSame
<1> QED BY <1>1, <1>2 DEF Contents, FramesApart, LossIsMarked, TablesHold

----------------------------------------------------------------------------
\* Every action does one of these four things to the tables, or nothing

LEMMA NewIdsFresh ==
    ASSUME NEW S, HasFresh(S)
    PROVE  /\ NewIds(S) \in [S -> Fresh]
           /\ \A s, t \in S : NewIds(S)[s] = NewIds(S)[t] => s = t
BY DEF NewIds, HasFresh, Injection, IsInjective

\* The frames that add_triples_vec stores, all of them or some, hold the rows of
\* its TripleDFs.
LEMMA StoredFrames ==
    ASSUME NEW ts \in Seq(TriplesToAdd), NEW D, NEW S \in SUBSET TripleDFs(ts), S \subseteq D,
           NEW ids \in [D -> Fresh], \A s, t \in D : ids[s] = ids[t] => s = t,
           Store(ts, S, ids)
    PROVE  /\ \A s \in S : /\ frames'[ids[s]] = FrameOfDF(ts, s)
                           /\ frames'[ids[s]] # NoFrame
                           /\ FrameRows(ids[s])' = Occurring(FrameOfDF(ts, s))
                           /\ Occurring(FrameOfDF(ts, s)) # {}
           /\ \A f \in FrameIds \ Fresh : frames'[f] = frames[f]
<1>1. ASSUME NEW s \in S
      PROVE  /\ frames'[ids[s]] = FrameOfDF(ts, s)
             /\ frames'[ids[s]] # NoFrame
             /\ FrameRows(ids[s])' = Occurring(FrameOfDF(ts, s))
             /\ Occurring(FrameOfDF(ts, s)) # {}
  <2>1. ids[s] \in FrameIds
      BY DEF Fresh
  <2>2. (CHOOSE t \in S : ids[t] = ids[s]) = s
      OBVIOUS
  <2>3. frames'[ids[s]] = FrameOfDF(ts, s)
      BY <2>1, <2>2 DEF Store
  <2>4. FrameOfDF(ts, s) \in Frame
      BY TripleDFsTypes
  <2>5. frames'[ids[s]] # NoFrame
      BY <2>3, <2>4, FramesAssumption
  <2>6. FrameRows(ids[s])' = Occurring(FrameOfDF(ts, s))
      BY <2>3, <2>5 DEF FrameRows, Occurring
  <2>7. Occurring(FrameOfDF(ts, s)) # {}
      BY DEF TripleDFs, FrameOfDF
  <2> QED BY <2>3, <2>5, <2>6, <2>7
<1>2. ASSUME NEW f \in FrameIds \ Fresh PROVE frames'[f] = frames[f]
    BY DEF Store
<1> QED BY <1>1, <1>2

LEMMA RegisterHeld ==
    ASSUME NEW ts \in Seq(TriplesToAdd), NEW S \in SUBSET TripleDFs(ts), NEW ids, NEW uuid,
           Register(ts, S, ids, uuid), NEW k \in Tables
    PROVE  /\ HeldRows(k)' = HeldRows(k) \union
               UNION { Occurring(FrameOfDF(ts, s)) : s \in { x \in S : TableOfDF(ts, x) = k } }
           /\ held \subseteq held' /\ drained' \subseteq drained
           /\ drained \subseteq drained' \union held'
<1> DEFINE new == UNION { TriplesIn(TableOfDF(ts, s), Occurring(FrameOfDF(ts, s))) : s \in S }
           rows == UNION { Occurring(FrameOfDF(ts, s)) : s \in { x \in S : TableOfDF(ts, x) = k } }
<1>1. held' = held \union new /\ drained' = drained \ new
    BY DEF Register, TriplesOfDFs
<1>2. ASSUME NEW r \in Rows PROVE <<k[1], k[2], r>> \in new <=> r \in rows
  <2>1. ASSUME NEW s \in S
        PROVE  <<k[1], k[2], r>> \in TriplesIn(TableOfDF(ts, s), Occurring(FrameOfDF(ts, s)))
                  <=> TableOfDF(ts, s) = k /\ r \in Occurring(FrameOfDF(ts, s))
    <3>1. TableOfDF(ts, s) \in Tables
        BY TripleDFsTypes
    <3>2. TableOfDF(ts, s) = k <=> TableOfDF(ts, s)[1] = k[1] /\ TableOfDF(ts, s)[2] = k[2]
        BY <3>1 DEF Tables
    <3> QED BY <3>2 DEF TriplesIn
  <2> QED BY <2>1
<1>3. rows \subseteq Rows
    BY DEF Occurring
<1> HIDE DEF new, rows
<1>4. HeldRows(k)' = HeldRows(k) \union rows
    BY <1>1, <1>2, <1>3 DEF HeldRows
<1>5. held \subseteq held' /\ drained' \subseteq drained /\ drained \subseteq drained' \union held'
    BY <1>1
<1> QED BY <1>4, <1>5 DEF rows

\* The TripleDFs of an argument of add_triples_vec give no triple twice; then the
\* frames added to a table do not, either.
NoOverlap(ts) ==
    \A s \in TripleDFs(ts) :
        /\ \A r \in Rows : FrameOfDF(ts, s)[r] <= 1
        /\ \A t \in TripleDFs(ts) :
              s # t /\ TableOfDF(ts, s) = TableOfDF(ts, t) =>
                  Occurring(FrameOfDF(ts, s)) \intersect Occurring(FrameOfDF(ts, t)) = {}

AddedApart(N) ==
    \A k \in Tables : \A f \in N[k] :
        /\ \A r \in Rows : frames'[f][r] <= 1
        /\ \A g \in N[k] : f # g => FrameRows(f)' \intersect FrameRows(g)' = {}

LEMMA AddingAdds ==
    ASSUME NEW ts \in Seq(TriplesToAdd), NEW uuid \in Nat,
           AddTriples(ts, uuid) \/ AddTriplesFails(ts, uuid)
    PROVE  \E N : AddsFrames(N, uuid) /\ (NoOverlap(ts) => AddedApart(N))
<1> DEFINE D == TripleDFs(ts)
<1>1. PICK S, R, ids : /\ S \in SUBSET D /\ R \in SUBSET S
                       /\ ids = NewIds(D) /\ HasFresh(D)
                       /\ Store(ts, S, ids) /\ Register(ts, R, ids, uuid)
  <2>1. CASE AddTriples(ts, uuid)
    <3>1. HasFresh(D) /\ Store(ts, D, NewIds(D)) /\ Register(ts, D, NewIds(D), uuid)
        BY <2>1 DEF AddTriples
    <3> QED BY <3>1
  <2>2. CASE AddTriplesFails(ts, uuid)
    <3>1. PICK failed \in SUBSET D, R \in SUBSET D :
              /\ HasFresh(D) /\ R \intersect failed = {}
              /\ Store(ts, D \ failed, NewIds(D)) /\ Register(ts, R, NewIds(D), uuid)
        BY <2>2, Zenon DEF AddTriplesFails
    <3>2. R \in SUBSET (D \ failed) /\ D \ failed \in SUBSET D
        BY <3>1
    <3> QED BY <3>1, <3>2
  <2> QED BY <2>1, <2>2
<1>2. ids \in [D -> Fresh] /\ \A s, t \in D : ids[s] = ids[t] => s = t
    BY <1>1, NewIdsFresh
<1>3. /\ \A s \in S : /\ frames'[ids[s]] = FrameOfDF(ts, s)
                      /\ frames'[ids[s]] # NoFrame
                      /\ FrameRows(ids[s])' = Occurring(FrameOfDF(ts, s))
                      /\ Occurring(FrameOfDF(ts, s)) # {}
      /\ \A f \in FrameIds \ Fresh : frames'[f] = frames[f]
  <2>1. S \in SUBSET TripleDFs(ts) /\ S \subseteq D /\ Store(ts, S, ids)
      BY <1>1
  <2> HIDE DEF D
  <2> QED BY <1>2, <2>1, StoredFrames
<1> DEFINE InTable(k) == { x \in R : TableOfDF(ts, x) = k }
           New(k) == { ids[s] : s \in InTable(k) }
           N == [k \in Tables |-> New(k)]
<1>4. ASSUME NEW k \in Tables PROVE InTable(k) \subseteq R /\ R \subseteq S /\ R \subseteq D
    BY <1>1
<1>5. ASSUME NEW k \in Tables
      PROVE  /\ N[k] = New(k) /\ New(k) \subseteq Fresh
             /\ \A f \in N[k] : frames'[f] # NoFrame /\ FrameRows(f)' # {}
  <2>1. \A s \in InTable(k) : s \in D /\ s \in S
      BY <1>4
  <2>2. New(k) \subseteq Fresh
      BY <1>2, <2>1
  <2>3. ASSUME NEW f \in New(k) PROVE frames'[f] # NoFrame /\ FrameRows(f)' # {}
    <3>1. PICK s \in InTable(k) : f = ids[s]
        OBVIOUS
    <3>2. /\ frames'[ids[s]] # NoFrame
          /\ FrameRows(ids[s])' = Occurring(FrameOfDF(ts, s))
          /\ Occurring(FrameOfDF(ts, s)) # {}
        BY <1>3, <2>1
    <3> QED BY <3>1, <3>2
  <2> QED BY <2>2, <2>3
<1>6. ASSUME NEW j \in Tables, NEW k \in Tables, j # k PROVE N[j] \intersect N[k] = {}
  <2> SUFFICES ASSUME NEW f \in New(j), f \in New(k) PROVE FALSE
      BY <1>5
  <2>1. PICK s \in InTable(j), t \in InTable(k) : f = ids[s] /\ f = ids[t]
      OBVIOUS
  <2>2. s = t
      BY <1>2, <1>4, <2>1
  <2> QED BY <1>6, <2>2
<1>7. ASSUME NEW k \in Tables
      PROVE  df_map'[k] =
                IF N[k] = {} THEN df_map[k]
                ELSE IF df_map[k] = NoTable
                     THEN [dfs |-> N[k], unique |-> TRUE, call_uuid |-> uuid]
                     ELSE Pushed(df_map[k], N[k], uuid)
    BY <1>1 DEF Register
<1>8. ASSUME NEW k \in Tables
      PROVE  HeldRows(k)' = HeldRows(k) \union UNION { FrameRows(f)' : f \in N[k] }
  <2> DEFINE new == UNION { FrameRows(f)' : f \in New(k) }
             rows == UNION { Occurring(FrameOfDF(ts, s)) : s \in InTable(k) }
  <2>1. HeldRows(k)' = HeldRows(k) \union rows
      BY <1>1, RegisterHeld
  <2>2. ASSUME NEW r PROVE r \in new <=> r \in rows
    <3>1. r \in new <=> \E s \in InTable(k) : r \in FrameRows(ids[s])'
      <4>1. r \in new <=> \E f \in New(k) : r \in FrameRows(f)'
          OBVIOUS
      <4>2. \A f : f \in New(k) <=> \E s \in InTable(k) : f = ids[s]
          OBVIOUS
      <4> HIDE DEF new, New, InTable
      <4> QED BY <4>1, <4>2
    <3>2. r \in rows <=> \E s \in InTable(k) : r \in Occurring(FrameOfDF(ts, s))
        OBVIOUS
    <3>3. \A s \in InTable(k) : FrameRows(ids[s])' = Occurring(FrameOfDF(ts, s))
        BY <1>3, <1>4
    <3> HIDE DEF new, rows, InTable
    <3> QED BY <3>1, <3>2, <3>3
  <2> HIDE DEF new, rows
  <2>3. new = rows
      BY <2>2
  <2> QED BY <1>5, <2>1, <2>3 DEF new
<1>11. ASSUME NoOverlap(ts) PROVE AddedApart(N)
  <2>1. ASSUME NEW k \in Tables, NEW f \in New(k), NEW g \in New(k)
        PROVE  /\ \A r \in Rows : frames'[f][r] <= 1
               /\ f # g => FrameRows(f)' \intersect FrameRows(g)' = {}
    <3>1. PICK s \in InTable(k), t \in InTable(k) : f = ids[s] /\ g = ids[t]
        OBVIOUS
    <3>2. s \in S /\ t \in S /\ s \in D /\ t \in D /\ TableOfDF(ts, s) = TableOfDF(ts, t)
        BY <1>1
    <3>3. frames'[f] = FrameOfDF(ts, s) /\ \A r \in Rows : FrameOfDF(ts, s)[r] <= 1
        BY <1>3, <1>11, <3>1, <3>2 DEF NoOverlap
    <3>4. /\ FrameRows(f)' = Occurring(FrameOfDF(ts, s))
          /\ FrameRows(g)' = Occurring(FrameOfDF(ts, t))
        BY <1>3, <3>1, <3>2
    <3>5. s # t => Occurring(FrameOfDF(ts, s)) \intersect Occurring(FrameOfDF(ts, t)) = {}
        BY <1>11, <3>2 DEF NoOverlap
    <3> QED BY <3>1, <3>3, <3>4, <3>5
  <2> HIDE DEF New
  <2> QED BY <1>5, <2>1 DEF AddedApart
<1> HIDE DEF New
<1>10. N \in [Tables -> SUBSET Fresh]
    BY <1>5
<1> HIDE DEF N
<1>12. held \subseteq held' /\ drained' \subseteq drained /\ drained \subseteq drained' \union held'
    BY <1>1 DEF Register
<1>9. AddsFrames(N, uuid)
    BY <1>3, <1>5, <1>6, <1>7, <1>8, <1>10, <1>12 DEF AddsFrames
<1> QED BY <1>9, <1>11

LEMMA ReadableHasRows ==
    ASSUME Contents, NEW k \in Existing, Readable(k), df_map[k].dfs # {}
    PROVE  RowsOf(k) # {} /\ RowsOf(k) \in SUBSET Rows /\ IsFiniteSet(RowsOf(k))
<1>1. PICK f \in df_map[k].dfs : FrameRows(f) # {}
    BY DEF Contents, FramesApart, Readable
<1>2. RowsOf(k) # {}
    BY <1>1, RowsOfTable
<1>3. RowsOf(k) \in SUBSET Rows
    BY DEF RowsOf, RowsIn
<1> QED BY <1>2, <1>3, FS_Subset, RowsAssumption

LEMMA FrameOfRowsStored ==
    ASSUME NEW f \in FrameIds, NEW rows \in SUBSET Rows, frames'[f] = FrameOf(rows)
    PROVE  frames'[f] # NoFrame /\ FrameRows(f)' = rows
<1>1. FrameOf(rows) # NoFrame /\ Occurring(FrameOf(rows)) = rows
    BY FrameOfRows
<1>2. FrameRows(f)' = IF frames'[f] = NoFrame THEN {} ELSE { r \in Rows : frames'[f][r] > 0 }
    BY DEF FrameRows, Occurring
<1> QED BY <1>1, <1>2 DEF Occurring

LEMMA InMemoryReplaces ==
    ASSUME Types, Contents, NEW k \in Tables, DeduplicateInMemory(k)
    PROVE  Readable(k) /\ \E fs : Replaces(k, fs)
<1>1. PICK f : /\ f \in Fresh
               /\ frames' = [g \in FrameIds |->
                      CASE g = f -> FrameOf(RowsOf(k))
                        [] g \in df_map[k].dfs -> NoFrame
                        [] OTHER -> frames[g]]
               /\ MarkUnique(k, {f})
  <2>1. HasFresh({k})
      BY DEF DeduplicateInMemory
  <2>2. NewIds({k})[k] \in Fresh
      BY <2>1, NewIdsFresh
  <2> QED BY <2>2 DEF DeduplicateInMemory
<1>2. k \in Existing /\ ~Caching /\ UNCHANGED <<held, drained>> /\ df_map[k].dfs # {}
    BY DEF DeduplicateInMemory, CannotConcat, Types, TypeOK
<1>3. Readable(k)
    BY <1>2 DEF Contents, LossIsMarked
<1>4. PICK rows \in SUBSET Rows : rows = RowsOf(k) /\ rows # {}
    BY <1>2, <1>3, ReadableHasRows
<1>5. frames'[f] # NoFrame /\ FrameRows(f)' = rows
  <2>1. f \in FrameIds /\ f \notin df_map[k].dfs
      BY <1>1, <1>2, FreshNotReferenced DEF Fresh
  <2>2. frames'[f] = FrameOf(rows)
      BY <1>1, <1>4, <2>1
  <2> QED BY <2>1, <2>2, FrameOfRowsStored
<1>6. \A g \in FrameIds \ ({f} \union df_map[k].dfs) : frames'[g] = frames[g]
    BY <1>1
<1>7. UNION { FrameRows(g)' : g \in {f} } = rows
    BY <1>5
<1>8. Replaces(k, {f})
    BY <1>1, <1>2, <1>4, <1>5, <1>6, <1>7 DEF Replaces
<1> QED BY <1>3, <1>8

\* The slices written hold their rows, the table's old files are gone, and no
\* other file is touched.
LEMMA PartsWritten ==
    ASSUME NEW k \in Existing, NEW parts, NEW W, \A o \in W : parts[o] \in SUBSET Rows,
           WriteParts(k, parts, W), NEW ids, ids = NewIds(W)
    PROVE  /\ ids \in [W -> Fresh]
           /\ \A o \in W : frames'[ids[o]] # NoFrame /\ FrameRows(ids[o])' = parts[o]
           /\ \A f \in (df_map[k].dfs \intersect FrameIds) : frames'[f] = NoFrame
           /\ \A f \in FrameIds \ ({ ids[o] : o \in W } \union df_map[k].dfs) :
                 frames'[f] = frames[f]
<1>1. /\ HasFresh(W)
      /\ frames' = [f \in FrameIds |->
            IF \E o \in W : ids[o] = f
            THEN FrameOf(parts[CHOOSE o \in W : ids[o] = f])
            ELSE IF f \in df_map[k].dfs THEN NoFrame ELSE frames[f]]
    BY DEF WriteParts
<1>2. ids \in [W -> Fresh] /\ \A o, p \in W : ids[o] = ids[p] => o = p
    BY <1>1, NewIdsFresh
<1>3. ASSUME NEW o \in W PROVE frames'[ids[o]] # NoFrame /\ FrameRows(ids[o])' = parts[o]
  <2>1. ids[o] \in FrameIds
      BY <1>2 DEF Fresh
  <2>2. (CHOOSE p \in W : ids[p] = ids[o]) = o
      BY <1>2
  <2>3. frames'[ids[o]] = FrameOf(parts[o])
      BY <1>1, <2>1, <2>2
  <2>4. parts[o] \in SUBSET Rows
      OBVIOUS
  <2> QED BY <2>1, <2>3, <2>4, FrameOfRowsStored
<1>4. ASSUME NEW f \in df_map[k].dfs \intersect FrameIds PROVE frames'[f] = NoFrame
  <2>1. f \notin Fresh
      BY FreshNotReferenced
  <2>2. ~ \E o \in W : ids[o] = f
      BY <1>2, <2>1
  <2> QED BY <1>1, <2>2
<1>5. ASSUME NEW f \in FrameIds \ ({ ids[o] : o \in W } \union df_map[k].dfs)
      PROVE  frames'[f] = frames[f]
    BY <1>1
<1> QED BY <1>2, <1>3, <1>4, <1>5

LEMMA InFolderReplaces ==
    ASSUME Types, Contents, NEW k \in Tables, DeduplicateInFolder(k)
    PROVE  Readable(k) /\ \E fs : Replaces(k, fs)
<1>1. k \in Existing /\ Readable(k) /\ UNCHANGED <<held, drained>> /\ df_map[k].dfs # {}
    BY DEF DeduplicateInFolder, CannotConcat, Types, TypeOK
<1>2. PICK rows \in SUBSET Rows : rows = RowsOf(k) /\ IsFiniteSet(rows)
    BY <1>1, ReadableHasRows
<1>3. PICK n, parts :
          /\ n \in PartCounts(rows) /\ parts \in SplitParts(rows, n)
          /\ WriteParts(k, parts, DOMAIN parts)
          /\ MarkUnique(k, { NewIds(DOMAIN parts)[o] : o \in DOMAIN parts })
    BY <1>2, Zenon DEF DeduplicateInFolder
<1>4. /\ DOMAIN parts # {}
      /\ \A o \in DOMAIN parts : parts[o] # {} /\ parts[o] \subseteq rows
      /\ UNION { parts[o] : o \in DOMAIN parts } = rows
    BY <1>2, <1>3, PartsHoldRows
<1>5. PICK W, ids : W = DOMAIN parts /\ ids = NewIds(W)
    OBVIOUS
<1>6. /\ ids \in [W -> Fresh]
      /\ \A o \in W : frames'[ids[o]] # NoFrame /\ FrameRows(ids[o])' = parts[o]
      /\ \A f \in FrameIds \ ({ ids[o] : o \in W } \union df_map[k].dfs) :
            frames'[f] = frames[f]
  <2>1. WriteParts(k, parts, W) /\ \A o \in W : parts[o] \in SUBSET Rows
      BY <1>2, <1>3, <1>4, <1>5
  <2> QED BY <1>1, <1>5, <2>1, PartsWritten
<1> DEFINE fs == { ids[o] : o \in W }
<1>7. fs \in (SUBSET Fresh) \ {{}}
  <2>1. PICK o : o \in W
      BY <1>4, <1>5
  <2>2. ids[o] \in fs
      BY <2>1
  <2>3. fs \subseteq Fresh
      BY <1>6
  <2> QED BY <2>2, <2>3
<1>8. \A f \in fs : frames'[f] # NoFrame /\ FrameRows(f)' # {}
    BY <1>4, <1>5, <1>6
<1>9. UNION { FrameRows(f)' : f \in fs } = rows
  <2> DEFINE new == UNION { FrameRows(f)' : f \in fs }
             all == UNION { parts[o] : o \in W }
  <2>1. ASSUME NEW r PROVE r \in new <=> r \in all
    <3>1. r \in new <=> \E f \in fs : r \in FrameRows(f)'
        OBVIOUS
    <3>2. \A f : f \in fs <=> \E o \in W : f = ids[o]
        OBVIOUS
    <3>3. r \in all <=> \E o \in W : r \in parts[o]
        OBVIOUS
    <3> HIDE DEF new, all, fs
    <3> QED BY <1>6, <3>1, <3>2, <3>3
  <2> HIDE DEF new, all
  <2>2. new = all
      BY <2>1
  <2> QED BY <1>4, <1>5, <2>2 DEF new, all
<1>10. MarkUnique(k, fs)
    BY <1>3, <1>5, <1>6
<1>11. \A f \in FrameIds \ (fs \union df_map[k].dfs) : frames'[f] = frames[f]
    BY <1>6
<1> HIDE DEF fs
<1>12. Replaces(k, fs)
    BY <1>1, <1>2, <1>7, <1>8, <1>9, <1>10, <1>11 DEF Replaces
<1> QED BY <1>1, <1>12

LEMMA RemoveFailsLoses ==
    ASSUME Types, Contents, NEW k \in NotUnique, DeduplicateRemoveFails(k)
    PROVE  Loses(k) \/ UNCHANGED <<df_map, frames, held, drained>>
<1>1. PICK kept \in SUBSET df_map[k].dfs :
          frames' = [f \in FrameIds |-> IF f \in df_map[k].dfs \ kept THEN NoFrame ELSE frames[f]]
    BY DEF DeduplicateRemoveFails
<1>2. Caching /\ UNCHANGED <<df_map, held, drained>> /\ k \in Existing /\ ~df_map[k].unique
    BY DEF DeduplicateRemoveFails, NotUnique
<1>3. df_map[k].dfs \subseteq FrameIds /\ frames \in [FrameIds -> Frame \union {NoFrame}]
    BY <1>2, TableTypes DEF Types, TypeOK
<1>4. CASE kept = df_map[k].dfs
  <2>1. frames' = frames
      BY <1>1, <1>3, <1>4
  <2> QED BY <1>2, <2>1
<1>5. CASE kept # df_map[k].dfs
  <2>1. \E f \in df_map[k].dfs : frames'[f] = NoFrame
      BY <1>1, <1>3, <1>5
  <2> QED BY <1>1, <1>2, <1>3, <2>1 DEF Loses
<1> QED BY <1>4, <1>5

LEMMA WriteFailsLoses ==
    ASSUME Types, Contents, NEW k \in NotUnique, DeduplicateWriteFails(k)
    PROVE  Loses(k)
<1>1. Caching /\ UNCHANGED <<df_map, held, drained>> /\ k \in Existing /\ ~df_map[k].unique /\ Readable(k)
    BY DEF DeduplicateWriteFails, NotUnique
<1>2. df_map[k].dfs \subseteq FrameIds /\ df_map[k].dfs # {}
    BY <1>1, TableTypes DEF Contents, FramesApart
<1>3. PICK rows \in SUBSET Rows : rows = RowsOf(k) /\ IsFiniteSet(rows)
    BY <1>1, <1>2, ReadableHasRows
<1>4. PICK n, parts :
          /\ n \in PartCounts(rows) /\ parts \in SplitParts(rows, n)
          /\ \E W \in SUBSET DOMAIN parts : WriteParts(k, parts, W)
  <2>1. PICK n, parts, failing :
            /\ n \in PartCounts(rows) /\ parts \in SplitParts(rows, n)
            /\ WriteParts(k, parts, IF k[1] \in SlashPredicates THEN {}
                                    ELSE { o \in DOMAIN parts : o < failing })
      BY <1>3, Zenon DEF DeduplicateWriteFails
  <2>2. (IF k[1] \in SlashPredicates THEN {} ELSE { o \in DOMAIN parts : o < failing })
            \in SUBSET DOMAIN parts
      OBVIOUS
  <2> QED BY <2>1, <2>2
<1>5. PICK W \in SUBSET DOMAIN parts : WriteParts(k, parts, W)
    BY <1>4
<1>6. \A o \in DOMAIN parts : parts[o] # {} /\ parts[o] \subseteq rows
    BY <1>3, <1>4, PartsHoldRows
<1>7. PICK ids : ids = NewIds(W)
    OBVIOUS
<1>10. /\ ids \in [W -> Fresh]
       /\ \A f \in df_map[k].dfs \intersect FrameIds : frames'[f] = NoFrame
       /\ \A f \in FrameIds \ ({ ids[o] : o \in W } \union df_map[k].dfs) :
             frames'[f] = frames[f]
  <2>1. \A o \in W : parts[o] \in SUBSET Rows
      BY <1>3, <1>5, <1>6
  <2> QED BY <1>1, <1>5, <1>7, <2>1, PartsWritten
<1>8. { ids[o] : o \in W } \subseteq Fresh
    BY <1>10
<1>9. /\ \A f \in df_map[k].dfs : frames'[f] = NoFrame
      /\ \A f \in FrameIds \ (Fresh \union df_map[k].dfs) : frames'[f] = frames[f]
    BY <1>2, <1>8, <1>10
<1> QED BY <1>1, <1>2, <1>9 DEF Loses

----------------------------------------------------------------------------
\* The call in progress and its answer

Exports == {"export_oxrdf_triples", "to_triples", "write_n_triples_all_dfs"}

\* What a call is doing is something that a call of its name does.
CallInProgress ==
    /\ stage # "idle" => status = "none"
    /\ stage = "expand" => op.name = "expand"
    /\ stage \in {"evaluate", "construct"} => op.name \in {"query", "construct_update"}
    /\ stage = "construct" => op.name # "query"
    /\ stage = "export" => op.name \in Exports
    /\ stage = "write" => op.name = "write_native_parquet"
    /\ stage = "deduplicate" => op.name \in Calls \ {"expand"} /\ todo \subseteq NotUnique
    /\ stage \in {"deduplicate", "evaluate"} => out = {} /\ twice = {}
    /\ op.name \in {"query", "construct_update"} => op.predicate \in Predicates

\* The tables of the passes up to the n-th.
TablesUpTo(n) == UNION { PassTables(op.name, m) : m \in 1 .. n }

\* The exports that answer for every table.
FailsIfIncomplete == op.name # "to_triples" \/ ~Caching

\* An export has delivered exactly the triples of the tables it is done with.
ExportProgress ==
    stage = "export" =>
        /\ pass \in 1 .. Len(Passes(op.name))
        /\ todo \subseteq PassTables(op.name, pass)
        /\ FailsIfIncomplete =>
              /\ \A k \in TablesUpTo(pass) \ todo : k[2] # "BlankNode"
              /\ out = { t \in held : <<t[1], t[2]>> \in TablesUpTo(pass) \ todo }

\* What a call has returned is right.
AnswersRight ==
    status = "ok" =>
        /\ op.name # "none"
        /\ op.name = "query" => out = HeldUnder(op.predicate)
        /\ op.name \in Exports /\ FailsIfIncomplete => out = held

\* What a panic has taken out, in memory, was in a table of two dtypes, which is
\* still there.
DrainedMixed ==
    /\ Caching => drained = {}
    /\ \A t \in drained : HasTwoDtypes(<<t[1], t[2]>>) /\ <<t[1], t[2]>> \in Existing

CInv == /\ Types /\ FlagsAgree /\ Contents /\ DrainedMixed
        /\ CallInProgress /\ ExportProgress /\ AnswersRight

----------------------------------------------------------------------------
\* The contents after every step

\* What a step does to the tables, and when.
StoreChange ==
    \/ UNCHANGED <<df_map, frames, held, drained>>
    \/ /\ stage \in {"expand", "construct"}
       /\ \E N : \E uuid \in Nat : AddsFrames(N, uuid)
    \/ /\ stage = "deduplicate"
       /\ \E k \in todo : Readable(k) /\ \E fs : Replaces(k, fs)
    \/ /\ stage = "deduplicate" /\ DeduplicateFails
       /\ \E k \in todo : Loses(k)
    \/ /\ stage = "deduplicate" /\ Abort("panic") /\ UNCHANGED calls
       /\ \E k \in todo : Drains(k)

LEMMA StepOfStore ==
    ASSUME Types, Contents, CallInProgress, [Next]_vars PROVE StoreChange
<1>1. ASSUME NEW ts \in Seq(TriplesToAdd), stage \in {"expand", "construct"},
             AddTriples(ts, calls) \/ AddTriplesFails(ts, calls)
      PROVE  StoreChange
  <2>1. PICK uuid \in Nat : AddTriples(ts, uuid) \/ AddTriplesFails(ts, uuid)
      BY <1>1 DEF Types, TypeOK
  <2> QED BY <1>1, <2>1, AddingAdds DEF StoreChange
<1>2. CASE UNCHANGED vars
    BY <1>2 DEF vars, store, StoreChange
<1>3. CASE BeginCall
    BY <1>3 DEF BeginCall, Query, ConstructUpdate, Export, BeginRead, PathDoesNotExist,
                store, StoreChange
<1>4. CASE Expand
  <2>1. CASE ExpandCall \/ ExpandReturns
      BY <2>1 DEF ExpandCall, ExpandReturns, store, StoreChange
  <2>2. ASSUME NEW ts \in Inputs, ExpandChunk(ts) \/ ExpandChunkFails(ts) PROVE StoreChange
    <3>1. ts \in Seq(TriplesToAdd)
        BY InputsAssumption
    <3> QED BY <1>1, <2>2, <3>1 DEF ExpandChunk, ExpandChunkFails
  <2> QED BY <1>4, <2>1, <2>2 DEF Expand
<1>5. CASE Deduplicate
  <2>1. CASE Deduplicated
      BY <2>1 DEF Deduplicated, StoreChange
  <2>2. ASSUME NEW k \in Tables, DeduplicateInMemory(k) PROVE StoreChange
      BY <2>2, InMemoryReplaces DEF StoreChange, DeduplicateInMemory
  <2>3. ASSUME NEW k \in Tables, DeduplicateInFolder(k) PROVE StoreChange
      BY <2>3, InFolderReplaces DEF StoreChange, DeduplicateInFolder
  <2>4. ASSUME NEW k \in Tables, DeduplicateReadFails(k) PROVE StoreChange
      BY <2>4 DEF DeduplicateReadFails, store, StoreChange
  <2>5. ASSUME NEW k \in Tables, DeduplicateRemoveFails(k) \/ DeduplicateWriteFails(k)
        PROVE  StoreChange
    <3>1. stage = "deduplicate" /\ k \in todo /\ DeduplicateFails
        BY <2>5 DEF DeduplicateRemoveFails, DeduplicateWriteFails
    <3>2. k \in NotUnique
        BY <3>1 DEF CallInProgress
    <3>3. Loses(k) \/ UNCHANGED <<df_map, frames, held, drained>>
        BY <2>5, <3>2, RemoveFailsLoses, WriteFailsLoses
    <3> QED BY <3>1, <3>3 DEF StoreChange
  <2>6. ASSUME NEW k \in Tables, DeduplicatePanics(k) PROVE StoreChange
    <3>1. k \in todo /\ k \in NotUnique /\ stage = "deduplicate" /\ Abort("panic")
        BY <2>6 DEF DeduplicatePanics, CallInProgress
    <3>2. CASE UNCHANGED store
        BY <3>2 DEF store, StoreChange
    <3>3. CASE ~Caching /\ CannotConcat(k) /\ DrainTable(k)
        BY <3>1, <3>3 DEF Drains, DrainTable, StoreChange
    <3> QED BY <2>6, <3>2, <3>3 DEF DeduplicatePanics
  <2> QED BY <1>5, <2>1, <2>2, <2>3, <2>4, <2>5, <2>6 DEF Deduplicate, DeduplicateTable
<1>6. CASE QueryParsed
  <2>1. CASE Construct \/ ConstructFails
      BY <1>1, <2>1, ConstructedType DEF Construct, ConstructFails
  <2>2. CASE ~(Construct \/ ConstructFails)
      BY <1>6, <2>2 DEF QueryParsed, EvaluateMissing, EvaluatePanics, Evaluate, EvaluateFails,
                        store, StoreChange
  <2> QED BY <2>1, <2>2
<1>7. CASE ExportTriples
    BY <1>7 DEF ExportTriples, ExportPassDone, ExportTable, ExportPanics, ExportTableFails,
                store, StoreChange
<1>8. CASE WriteReturns
    BY <1>8 DEF WriteReturns, store, StoreChange
<1> QED BY <1>2, <1>3, <1>4, <1>5, <1>6, <1>7, <1>8 DEF Next

LEMMA ContentsStep ==
    ASSUME Types, Contents, CallInProgress, [Next]_vars PROVE Contents'
<1>1. StoreChange
    BY StepOfStore
<1>2. CASE UNCHANGED <<df_map, frames, held, drained>>
    BY <1>2, SameContents
<1>3. CASE \E N : \E uuid \in Nat : AddsFrames(N, uuid)
    BY <1>3, AddsContents
<1>4. ASSUME NEW k \in todo, Readable(k), NEW fs, Replaces(k, fs) PROVE Contents'
  <2>1. k \in Tables
      BY DEF Types, TypeOK, Existing
  <2> QED BY <1>4, <2>1, ReplacesContents
<1>5. ASSUME NEW k \in todo, Loses(k) PROVE Contents'
  <2>1. k \in Existing
      BY DEF Types, TypeOK
  <2> QED BY <1>5, <2>1, LosesContents
<1>6. ASSUME NEW k \in todo, Drains(k) PROVE Contents'
  <2>1. k \in Existing
      BY DEF Types, TypeOK
  <2> QED BY <1>6, <2>1, DrainsContents
<1> QED BY <1>1, <1>2, <1>3, <1>4, <1>5, <1>6 DEF StoreChange

\* What was mapped stays mapped: it is in its table, or was taken out by a panic.
LEMMA MappedGrows ==
    ASSUME Types, Contents, CallInProgress, [Next]_vars PROVE mapped \subseteq mapped'
<1>1. StoreChange
    BY StepOfStore
<1>2. held' = held \/ held \subseteq held' \/ (\E k \in todo : Drains(k))
    BY <1>1 DEF StoreChange, AddsFrames, Replaces, Loses
<1>3. CASE \E k \in todo : Drains(k)
    BY <1>3 DEF Drains, DrainTable, mapped
<1>4. CASE UNCHANGED <<held, drained>>
    BY <1>4 DEF mapped
<1>5. CASE \E N : \E uuid \in Nat : AddsFrames(N, uuid)
    BY <1>5 DEF AddsFrames, mapped
<1> QED BY <1>1, <1>3, <1>4, <1>5 DEF StoreChange, Replaces, Loses

\* A table whose frames are of two dtypes has been mapped objects of two.
LEMMA MixedTable ==
    ASSUME Types, Contents, NEW k \in Existing, Readable(k), Mixed(df_map[k].dfs)
    PROVE  /\ HasTwoDtypes(k)
           /\ \E t, u \in held : /\ <<t[1], t[2]>> = k /\ <<u[1], u[2]>> = k
                                 /\ Dtype[t[3]] # Dtype[u[3]]
<1>1. PICK r \in RowsOf(k), s \in RowsOf(k) : Dtype[r] # Dtype[s]
    BY DEF Mixed, RowsOf
<1>2. RowsOf(k) = HeldRows(k) /\ k = <<k[1], k[2]>>
    BY DEF Contents, TablesHold, Existing, Tables
<1>3. <<k[1], k[2], r>> \in held /\ <<k[1], k[2], s>> \in held
    BY <1>1, <1>2 DEF HeldRows
<1> DEFINE t == <<k[1], k[2], r>>
           u == <<k[1], k[2], s>>
<1>4. t[1] = k[1] /\ t[2] = k[2] /\ t[3] = r /\ u[1] = k[1] /\ u[2] = k[2] /\ u[3] = s
    OBVIOUS
<1> HIDE DEF t, u
<1>5. t \in held /\ u \in held
    BY <1>3 DEF t, u
<1>6. <<t[1], t[2]>> = k /\ <<u[1], u[2]>> = k /\ Dtype[t[3]] # Dtype[u[3]]
    BY <1>1, <1>2, <1>4
<1> QED BY <1>5, <1>6 DEF HasTwoDtypes, mapped

\* No call takes a table away.
LEMMA ExistingGrows ==
    ASSUME Types, Contents, CallInProgress, [Next]_vars PROVE Existing \subseteq Existing'
<1>1. StoreChange
    BY StepOfStore
<1>2. CASE UNCHANGED df_map
    BY <1>2, ExistingSame
<1>3. ASSUME NEW k \in todo, Drains(k) PROVE Existing \subseteq Existing'
  <2>1. k \in Existing
      BY DEF Types, TypeOK
  <2> QED BY <1>3, <2>1, DrainsEffect
<1>4. CASE \E N : \E uuid \in Nat : AddsFrames(N, uuid)
  <2> PICK N : \E uuid \in Nat : AddsFrames(N, uuid)
      BY <1>4
  <2>1. PICK uuid \in Nat : AddsFrames(N, uuid)
      OBVIOUS
  <2>2. \A k \in Tables : k \in Existing => k \in Existing'
      BY <2>1, AddsEffect
  <2> QED BY <2>2 DEF Existing
<1>5. ASSUME NEW k \in todo, Readable(k), NEW fs, Replaces(k, fs)
      PROVE  Existing \subseteq Existing'
  <2>1. k \in Tables
      BY DEF Types, TypeOK, Existing
  <2> QED BY <1>5, <2>1, ReplacesEffect
<1> QED BY <1>1, <1>2, <1>3, <1>4, <1>5 DEF StoreChange, Loses

LEMMA DrainedStep ==
    ASSUME Types, Contents, CallInProgress, DrainedMixed, [Next]_vars PROVE DrainedMixed'
<1>1. StoreChange /\ mapped \subseteq mapped'
    BY StepOfStore, MappedGrows
<1>2. \A k : HasTwoDtypes(k) => HasTwoDtypes(k)'
    BY <1>1 DEF HasTwoDtypes
<1>6. Existing \subseteq Existing'
    BY ExistingGrows
<1>3. ASSUME drained' \subseteq drained PROVE DrainedMixed'
    BY <1>2, <1>6, <1>3 DEF DrainedMixed
<1>4. ASSUME NEW k \in todo, Drains(k) PROVE DrainedMixed'
  <2>1. k \in Existing /\ k = <<k[1], k[2]>>
      BY DEF Types, TypeOK, Existing, Tables
  <2>2. ~Caching /\ Readable(k) /\ CannotConcat(k)
      BY <1>4, <2>1, DrainsEffect DEF Drains
  <2>3. ASSUME NEW t \in drained', t \notin drained
        PROVE  HasTwoDtypes(<<t[1], t[2]>>) /\ <<t[1], t[2]>> \in Existing
    <3>1. t \in TriplesIn(k, RowsOf(k))
        BY <1>4, <2>3 DEF Drains, DrainTable
    <3>2. <<t[1], t[2]>> = k /\ RowsOf(k) # {}
        BY <2>1, <3>1 DEF TriplesIn
    <3>3. Mixed(df_map[k].dfs)
        BY <2>2, <3>2 DEF CannotConcat, RowsOf, RowsIn
    <3> QED BY <2>1, <2>2, <3>2, <3>3, MixedTable
  <2> QED BY <1>2, <1>6, <2>2, <2>3 DEF DrainedMixed
<1> QED BY <1>1, <1>3, <1>4 DEF StoreChange, AddsFrames, Replaces, Loses

----------------------------------------------------------------------------
\* The call in progress after every step

\* A step that ends the call, keeps its stage, or goes on to one that its name
\* allows, as the call itself stays the same.
LEMMA GoesOn ==
    ASSUME CallInProgress, UNCHANGED op,
           \/ stage' = "idle"
           \/ stage' = stage /\ stage \notin {"deduplicate", "evaluate"} /\ UNCHANGED status
           \/ stage' = "construct" /\ stage = "evaluate" /\ op.name # "query" /\ UNCHANGED status
           \/ stage' = "export" /\ op.name \in Exports /\ status' = "none"
           \/ /\ stage' = "evaluate" /\ op.name \in {"query", "construct_update"}
              /\ status' = "none" /\ out' = {} /\ twice' = {}
           \/ stage' = "write" /\ op.name = "write_native_parquet" /\ status' = "none"
    PROVE  CallInProgress'
BY DEF CallInProgress

LEMMA BeginExportGoesOn ==
    ASSUME CallInProgress, stage = "deduplicate", BeginExport, op.name \in Exports
    PROVE  CallInProgress'
BY GoesOn DEF BeginExport, CallInProgress

LEMMA AbortGoesOn ==
    ASSUME CallInProgress, NEW s, Abort(s) \/ Return(s) PROVE CallInProgress'
BY GoesOn DEF Abort, Return

LEMMA DeduplicateFailsGoesOn ==
    ASSUME CallInProgress, stage = "deduplicate", DeduplicateFails PROVE CallInProgress'
BY BeginExportGoesOn, AbortGoesOn DEF DeduplicateFails, Exports

LEMMA CallStep ==
    ASSUME Types, CallInProgress, [Next]_vars PROVE CallInProgress'
<1>1. CASE UNCHANGED vars
  <2>1. NotUnique' = NotUnique
      BY <1>1, NotUniqueSame DEF vars, store
  <2> QED BY <1>1, <2>1 DEF vars, store, control, CallInProgress
<1>2. CASE BeginCall
  <2>1. ASSUME NEW name \in Calls \ {"expand"}, NEW p, NEW tmpl, NEW dedup,
               BeginRead(name, p, tmpl, dedup),
               name \in {"query", "construct_update"} => p \in Predicates,
               dedup \/ name \in {"query", "construct_update"}
        PROVE  CallInProgress'
    <3>1. NotUnique' = NotUnique
        BY <2>1, NotUniqueSame DEF BeginRead
    <3> QED BY <2>1, <3>1 DEF BeginRead, Begin, CallInProgress
  <2>2. CASE PathDoesNotExist
      BY <2>2 DEF PathDoesNotExist, CallInProgress
  <2>3. ASSUME NEW p \in Predicates, Query(p) PROVE CallInProgress'
      BY <2>1, <2>3 DEF Query, Calls
  <2>4. ASSUME NEW p \in Predicates, NEW tmpl \in Templates, ConstructUpdate(p, tmpl)
        PROVE  CallInProgress'
      BY <2>1, <2>4 DEF ConstructUpdate, Calls
  <2>5. ASSUME NEW name \in {"export_oxrdf_triples", "to_triples", "write_n_triples_all_dfs",
                             "write_native_parquet"}, Export(name)
        PROVE  CallInProgress'
      BY <2>1, <2>5 DEF Export, Calls
  <2> QED BY <1>2, <2>2, <2>3, <2>4, <2>5 DEF BeginCall
<1>3. CASE Expand
  <2>1. CASE ExpandCall
      BY <2>1 DEF ExpandCall, Begin, CallInProgress
  <2>2. CASE ExpandReturns
      BY <2>2, AbortGoesOn DEF ExpandReturns
  <2>3. ASSUME NEW ts \in Inputs, ExpandChunk(ts) \/ ExpandChunkFails(ts)
        PROVE  CallInProgress'
      BY <2>3, AbortGoesOn, GoesOn DEF ExpandChunk, ExpandChunkFails, control
  <2> QED BY <1>3, <2>1, <2>2, <2>3 DEF Expand
<1>4. CASE Deduplicate
  <2>1. CASE Deduplicated
    <3>1. CASE op.name \in {"query", "construct_update", "write_native_parquet"}
      <4>1. GoOn /\ out' = out /\ twice' = twice /\ stage = "deduplicate"
          BY <2>1, <3>1 DEF Deduplicated
      <4>2. /\ UNCHANGED op /\ status' = "none" /\ out' = {} /\ twice' = {}
            /\ \/ stage' = "write" /\ op.name = "write_native_parquet"
               \/ stage' = "evaluate" /\ op.name \in {"query", "construct_update"}
          BY <3>1, <4>1 DEF GoOn, CallInProgress
      <4> QED BY <4>2, GoesOn
    <3>2. CASE op.name \notin {"query", "construct_update", "write_native_parquet"}
      <4>1. BeginExport /\ op.name \in Exports /\ stage = "deduplicate"
          BY <2>1, <3>2 DEF Deduplicated, CallInProgress, Calls, Exports
      <4> QED BY <4>1, BeginExportGoesOn
    <3> QED BY <3>1, <3>2
  <2>2. ASSUME NEW k \in Tables, k \in todo, NEW fs \in SUBSET FrameIds, MarkUnique(k, fs),
               todo' = todo \ {k}, UNCHANGED <<op, stage, status, out, twice>>
        PROVE  CallInProgress'
    <3>1. NotUnique' = NotUnique \ {k}
        BY <2>2, ReplaceTypes DEF NotUnique, Existing
    <3> QED BY <2>2, <3>1 DEF CallInProgress
  <2>3. ASSUME NEW k \in Tables, DeduplicateInMemory(k) PROVE CallInProgress'
    <3>1. HasFresh({k}) /\ MarkUnique(k, {NewIds({k})[k]})
        BY <2>3 DEF DeduplicateInMemory
    <3>2. {NewIds({k})[k]} \in SUBSET FrameIds
        BY <3>1, NewIdsType
    <3> QED BY <2>2, <2>3, <3>1, <3>2 DEF DeduplicateInMemory
  <2>4. ASSUME NEW k \in Tables, DeduplicateInFolder(k) PROVE CallInProgress'
    <3>1. PICK parts : /\ WriteParts(k, parts, DOMAIN parts)
                       /\ MarkUnique(k, { NewIds(DOMAIN parts)[o] : o \in DOMAIN parts })
        BY <2>4, Zenon DEF DeduplicateInFolder
    <3>2. { NewIds(DOMAIN parts)[o] : o \in DOMAIN parts } \in SUBSET FrameIds
        BY <3>1, NewIdsType DEF WriteParts
    <3>3. k \in todo /\ todo' = todo \ {k} /\ UNCHANGED <<op, stage, status, out, twice>>
        BY <2>4 DEF DeduplicateInFolder
    <3> QED BY <2>2, <3>1, <3>2, <3>3
  <2>5. ASSUME NEW k \in Tables,
               \/ DeduplicateReadFails(k) \/ DeduplicateRemoveFails(k)
               \/ DeduplicateWriteFails(k)
        PROVE  CallInProgress'
      BY <2>5, DeduplicateFailsGoesOn
         DEF DeduplicateReadFails, DeduplicateRemoveFails, DeduplicateWriteFails
  <2>6. ASSUME NEW k \in Tables, DeduplicatePanics(k) PROVE CallInProgress'
      BY <2>6, AbortGoesOn DEF DeduplicatePanics
  <2> QED BY <1>4, <2>1, <2>3, <2>4, <2>5, <2>6 DEF Deduplicate, DeduplicateTable
<1>5. CASE QueryParsed
  <2>1. ASSUME stage = "evaluate", Evaluated PROVE CallInProgress'
      BY <2>1, AbortGoesOn, GoesOn DEF Evaluated
  <2>2. CASE EvaluateMissing
      BY <2>1, <2>2 DEF EvaluateMissing
  <2>3. CASE EvaluatePanics
      BY <2>3, AbortGoesOn DEF EvaluatePanics
  <2>4. ASSUME NEW k \in Tables, Evaluate(k) \/ EvaluateFails(k) PROVE CallInProgress'
      BY <2>1, <2>4, AbortGoesOn DEF Evaluate, EvaluateFails
  <2>5. CASE Construct \/ ConstructFails
      BY <2>5, AbortGoesOn DEF Construct, ConstructFails
  <2> QED BY <1>5, <2>2, <2>3, <2>4, <2>5 DEF QueryParsed
<1>6. CASE ExportTriples
  <2>1. ASSUME stage = "export", EndPass PROVE CallInProgress'
      BY <2>1, AbortGoesOn, GoesOn DEF EndPass
  <2>2. CASE ExportPassDone
      BY <2>1, <2>2 DEF ExportPassDone
  <2>3. ASSUME NEW k \in Tables, ExportTable(k) PROVE CallInProgress'
      BY <2>3, GoesOn DEF ExportTable
  <2>4. ASSUME NEW k \in Tables, ExportPanics(k) \/ ExportTableFails(k) PROVE CallInProgress'
      BY <2>1, <2>4, AbortGoesOn DEF ExportPanics, ExportTableFails
  <2> QED BY <1>6, <2>2, <2>3, <2>4 DEF ExportTriples
<1>7. CASE WriteReturns
    BY <1>7, AbortGoesOn DEF WriteReturns
<1> QED BY <1>1, <1>2, <1>3, <1>4, <1>5, <1>6, <1>7 DEF Next

----------------------------------------------------------------------------
\* The progress of exports

LEMMA HeldInTables ==
    ASSUME Types, Contents, NEW t \in held
    PROVE  /\ t = <<t[1], t[2], t[3]>> /\ t[3] \in Rows
           /\ <<t[1], t[2]>> \in Existing
           /\ t[3] \in HeldRows(<<t[1], t[2]>>)
<1>1. t \in Predicates \X RDFNodeType \X Rows
    BY DEF Types, TypeOK, Triples
<1>2. /\ t = <<t[1], t[2], t[3]>> /\ t[3] \in Rows
      /\ <<t[1], t[2]>> \in Tables
    BY <1>1 DEF Tables
<1>3. t[3] \in HeldRows(<<t[1], t[2]>>)
    BY <1>2 DEF HeldRows
<1>4. <<t[1], t[2]>> \in Existing
    BY <1>2, <1>3 DEF Contents, TablesHold
<1> QED BY <1>2, <1>3, <1>4

\* A table all of whose files are there yields the triples mapped into it.
LEMMA TriplesOfTable ==
    ASSUME Types, Contents, NEW k \in Existing, Readable(k)
    PROVE  TriplesIn(k, RowsIn(df_map[k].dfs)) = { t \in held : <<t[1], t[2]>> = k }
<1>1. RowsIn(df_map[k].dfs) = HeldRows(k)
    BY DEF Contents, TablesHold, Existing, RowsOf
<1>2. k = <<k[1], k[2]>>
    BY DEF Existing, Tables
<1>3. ASSUME NEW t \in held, <<t[1], t[2]>> = k PROVE t \in TriplesIn(k, HeldRows(k))
  <2>1. t = <<k[1], k[2], t[3]>> /\ t[3] \in HeldRows(k)
      BY <1>3, HeldInTables
  <2> QED BY <2>1 DEF TriplesIn
<1>4. ASSUME NEW t \in TriplesIn(k, HeldRows(k)) PROVE t \in held /\ <<t[1], t[2]>> = k
    BY <1>2 DEF TriplesIn, HeldRows
<1> QED BY <1>1, <1>3, <1>4

\* Every table has its pass, and a table of blank nodes has every pass.
LEMMA PassesCover ==
    ASSUME NEW k \in Existing
    PROVE  /\ k \in TablesUpTo(Len(Passes(op.name)))
           /\ k[2] = "BlankNode" => k \in PassTables(op.name, 1)
<1>1. k[2] \in {"IRI", "BlankNode"} \union Datatypes
    BY DEF Existing, Tables, RDFNodeType
<1>2. FindTripleType(k[2]) \in {"ObjectProperty", "StringProperty", "NonStringProperty", "todo!"}
    BY <1>1, DatatypesAssumption DEF FindTripleType
<1>3. k[2] = "BlankNode" => FindTripleType(k[2]) = "todo!"
    BY <1>1, DatatypesAssumption DEF FindTripleType
<1>4. \E m \in 1 .. Len(Passes(op.name)) : FindTripleType(k[2]) \in Passes(op.name)[m]
  <2>1. CASE op.name = "write_n_triples_all_dfs"
      BY <1>2, <2>1 DEF Passes
  <2>2. CASE op.name # "write_n_triples_all_dfs"
    <3>1. Passes(op.name) = <<{"ObjectProperty", "todo!"}, {"StringProperty", "todo!"},
                              {"NonStringProperty", "todo!"}>>
        BY <2>2 DEF Passes
    <3>2. \E m \in 1 .. 3 : FindTripleType(k[2]) \in Passes(op.name)[m]
        BY <1>2, <3>1
    <3> QED BY <3>1, <3>2
  <2> QED BY <2>1, <2>2
<1>5. k[2] = "BlankNode" => FindTripleType(k[2]) \in Passes(op.name)[1]
    BY <1>3 DEF Passes
<1> QED BY <1>4, <1>5 DEF TablesUpTo, PassTables

\* A pass has no table of an earlier one, but for those of blank nodes.
LEMMA PassesDiffer ==
    ASSUME NEW m \in 1 .. Len(Passes(op.name)), NEW n \in 1 .. Len(Passes(op.name)), m # n,
           NEW k \in PassTables(op.name, m), k \in PassTables(op.name, n)
    PROVE  k[2] = "BlankNode"
<1>1. k \in Existing /\ FindTripleType(k[2]) \in Passes(op.name)[m] \intersect Passes(op.name)[n]
    BY DEF PassTables
<1>2. FindTripleType(k[2]) = "todo!"
  <2>1. CASE op.name = "write_n_triples_all_dfs"
    <3>1. Len(Passes(op.name)) = 1
        BY <2>1 DEF Passes
    <3> QED BY <3>1
  <2>2. CASE op.name # "write_n_triples_all_dfs"
    <3>1. Passes(op.name) = <<{"ObjectProperty", "todo!"}, {"StringProperty", "todo!"},
                              {"NonStringProperty", "todo!"}>>
        BY <2>2 DEF Passes
    <3>2. m \in 1 .. 3 /\ n \in 1 .. 3
        BY <3>1
    <3> QED BY <1>1, <3>1, <3>2
  <2> QED BY <2>1, <2>2
<1>3. k[2] \in {"IRI", "BlankNode"} \union Datatypes
    BY <1>1 DEF Existing, Tables, RDFNodeType
<1> QED BY <1>2, <1>3, DatatypesAssumption DEF FindTripleType

LEMMA PassTablesSame ==
    ASSUME UNCHANGED <<df_map, op>>, NEW n
    PROVE  /\ PassTables(op.name, n)' = PassTables(op.name, n)
           /\ TablesUpTo(n)' = TablesUpTo(n)
           /\ Passes(op.name)' = Passes(op.name)
           /\ FailsIfIncomplete' = FailsIfIncomplete
<1>1. \A m : PassTables(op.name, m)' = PassTables(op.name, m)
    BY ExistingSame DEF PassTables
<1>2. TablesUpTo(n)' = TablesUpTo(n)
    BY <1>1 DEF TablesUpTo
<1> QED BY <1>1, <1>2 DEF FailsIfIncomplete

LEMMA BeginExportProgress ==
    ASSUME Types, CallInProgress, stage = "deduplicate", BeginExport,
           UNCHANGED <<df_map, out, held, drained>>
    PROVE  ExportProgress'
<1>1. pass' = 1 /\ todo' = PassTables(op.name, 1) /\ UNCHANGED op /\ out' = {}
    BY DEF BeginExport, CallInProgress
<1>2. Len(Passes(op.name)) \in {1, 3} /\ Passes(op.name)' = Passes(op.name)
    BY <1>1 DEF Passes
<1>3. TablesUpTo(1) = PassTables(op.name, 1)
    BY DEF TablesUpTo
<1>4. TablesUpTo(pass') \ todo' = {} /\ TablesUpTo(1)' = TablesUpTo(1)
    BY <1>1, <1>3, PassTablesSame
<1>5. TablesUpTo(pass)' = TablesUpTo(1)
    BY <1>1, <1>4 DEF TablesUpTo
<1>6. PassTables(op.name, pass)' = PassTables(op.name, 1)
    BY <1>1, ExistingSame DEF PassTables
<1>7. TablesUpTo(pass)' \ todo' = {}
    BY <1>1, <1>3, <1>5
<1>8. pass' \in 1 .. Len(Passes(op.name))' /\ todo' \subseteq PassTables(op.name, pass)'
    BY <1>1, <1>2, <1>6
<1> QED BY <1>1, <1>7, <1>8 DEF ExportProgress

\* The pass ends: its tables have been delivered, those of the next have not.
LEMMA EndPassProgress ==
    ASSUME Types, ExportProgress, stage = "export", EndPass, todo = {} \/ ~FailsIfIncomplete,
           out' = out \/ ~FailsIfIncomplete, UNCHANGED <<df_map, held, drained>>
    PROVE  ExportProgress'
<1>1. CASE Return("ok")
    BY <1>1 DEF Return, ExportProgress
<1>2. CASE pass < Len(Passes(op.name))
  <2>1. PICK n \in 1 .. 3 : n = pass
      BY DEF ExportProgress, Types, TypeOK
  <2>2. pass' = n + 1 /\ todo' = PassTables(op.name, n + 1) /\ UNCHANGED op
      BY <1>2, <2>1 DEF EndPass
  <2>3. n + 1 \in 1 .. Len(Passes(op.name)) /\ n \in 1 .. Len(Passes(op.name))
    <3>1. Len(Passes(op.name)) \in Nat
        BY DEF Passes
    <3> QED BY <1>2, <2>1, <3>1
  <2>4. /\ TablesUpTo(n + 1)' = TablesUpTo(n + 1)
        /\ PassTables(op.name, n + 1)' = PassTables(op.name, n + 1)
        /\ Passes(op.name)' = Passes(op.name) /\ FailsIfIncomplete' = FailsIfIncomplete
      BY <2>2, PassTablesSame
  <2>5. TablesUpTo(pass)' = TablesUpTo(n + 1)
      BY <2>2, <2>4 DEF TablesUpTo
  <2>6. PassTables(op.name, pass)' = PassTables(op.name, n + 1)
      BY <2>2, <2>4 DEF PassTables
  <2>7. ASSUME FailsIfIncomplete
        PROVE  /\ TablesUpTo(n + 1) \ PassTables(op.name, n + 1) = TablesUpTo(n)
               /\ \A k \in TablesUpTo(n) : k[2] # "BlankNode"
               /\ out = { t \in held : <<t[1], t[2]>> \in TablesUpTo(n) }
    <3>1. /\ \A k \in TablesUpTo(n) : k[2] # "BlankNode"
          /\ out = { t \in held : <<t[1], t[2]>> \in TablesUpTo(n) }
        BY <2>1, <2>7 DEF ExportProgress
    <3>2. TablesUpTo(n + 1) = TablesUpTo(n) \union PassTables(op.name, n + 1)
      <4>1. 1 .. n + 1 = (1 .. n) \union {n + 1}
          OBVIOUS
      <4> QED BY <4>1 DEF TablesUpTo
    <3>3. ASSUME NEW k \in TablesUpTo(n), k \in PassTables(op.name, n + 1) PROVE FALSE
      <4>1. PICK m \in 1 .. n : k \in PassTables(op.name, m)
          BY <3>3 DEF TablesUpTo
      <4>2. m \in 1 .. Len(Passes(op.name)) /\ m # n + 1
        <5>1. Len(Passes(op.name)) \in Nat
            BY DEF Passes
        <5> QED BY <2>3, <5>1
      <4>3. k[2] = "BlankNode"
          BY <2>3, <3>3, <4>1, <4>2, PassesDiffer
      <4> QED BY <3>1, <3>3, <4>3
    <3> QED BY <3>1, <3>2, <3>3
  <2> QED BY <2>2, <2>3, <2>4, <2>5, <2>6, <2>7 DEF ExportProgress
<1> QED BY <1>1, <1>2 DEF EndPass

LEMMA ExportTableProgress ==
    ASSUME Types, Contents, ExportProgress, NEW k \in Tables, ExportTable(k)
    PROVE  ExportProgress'
<1>1. /\ stage = "export" /\ k \in todo /\ k[2] # "BlankNode" /\ Readable(k)
      /\ Deliver(k, df_map[k].dfs) /\ UNCHANGED <<store, op, stage, pass, status>>
    BY DEF ExportTable
<1>2. k \in Existing /\ UNCHANGED <<df_map, held, drained>>
    BY <1>1 DEF Types, TypeOK, store
<1>3. ~HasEmptyFrame(k)
    BY <1>1, <1>2 DEF Contents, FramesApart, HasEmptyFrame, FrameRows, Readable
<1>4. todo' = todo \ {k}
    BY <1>3 DEF ExportTable
<1>5. out' = out \union { t \in held : <<t[1], t[2]>> = k }
    BY <1>1, <1>2, TriplesOfTable DEF Deliver
<1>6. PICK n : n = pass
    OBVIOUS
<1>7. /\ TablesUpTo(n)' = TablesUpTo(n) /\ PassTables(op.name, n)' = PassTables(op.name, n)
      /\ Passes(op.name)' = Passes(op.name) /\ FailsIfIncomplete' = FailsIfIncomplete
    BY <1>1, <1>2, PassTablesSame
<1>8. TablesUpTo(pass)' = TablesUpTo(n) /\ PassTables(op.name, pass)' = PassTables(op.name, n)
    BY <1>1, <1>6, <1>7 DEF TablesUpTo, PassTables
<1>9. /\ n \in 1 .. Len(Passes(op.name)) /\ todo \subseteq PassTables(op.name, n)
      /\ FailsIfIncomplete =>
            /\ \A j \in TablesUpTo(n) \ todo : j[2] # "BlankNode"
            /\ out = { t \in held : <<t[1], t[2]>> \in TablesUpTo(n) \ todo }
    BY <1>1, <1>6 DEF ExportProgress
<1>10. TablesUpTo(n) \ todo' = (TablesUpTo(n) \ todo) \union {k}
  <2>1. k \in TablesUpTo(n)
      BY <1>1, <1>9 DEF TablesUpTo
  <2> QED BY <1>1, <1>4, <2>1
<1>11. ASSUME FailsIfIncomplete
       PROVE  /\ \A j \in TablesUpTo(n) \ todo' : j[2] # "BlankNode"
              /\ out' = { t \in held : <<t[1], t[2]>> \in TablesUpTo(n) \ todo' }
    BY <1>1, <1>5, <1>9, <1>10, <1>11
<1>12. todo' \subseteq PassTables(op.name, n)
    BY <1>4, <1>9
<1> QED BY <1>1, <1>2, <1>6, <1>7, <1>8, <1>9, <1>11, <1>12 DEF ExportProgress

LEMMA ExportProgressStep ==
    ASSUME Types, Contents, CallInProgress, ExportProgress, [Next]_vars PROVE ExportProgress'
<1>1. CASE UNCHANGED vars
  <2>1. PICK n : n = pass
      OBVIOUS
  <2>2. UNCHANGED <<df_map, op, pass, todo, out, held, drained, stage>>
      BY <1>1 DEF vars, store, control
  <2>3. /\ TablesUpTo(n)' = TablesUpTo(n) /\ PassTables(op.name, n)' = PassTables(op.name, n)
        /\ Passes(op.name)' = Passes(op.name) /\ FailsIfIncomplete' = FailsIfIncomplete
      BY <2>2, PassTablesSame
  <2>4. TablesUpTo(pass)' = TablesUpTo(n) /\ PassTables(op.name, pass)' = PassTables(op.name, n)
      BY <2>1, <2>2, <2>3 DEF TablesUpTo, PassTables
  <2> QED BY <2>1, <2>2, <2>3, <2>4 DEF ExportProgress
<1>2. ASSUME stage' # "export" PROVE ExportProgress'
    BY <1>2 DEF ExportProgress
<1>3. CASE BeginCall
    BY <1>2, <1>3 DEF BeginCall, Query, ConstructUpdate, Export, BeginRead, PathDoesNotExist
<1>4. CASE Expand
    BY <1>2, <1>4 DEF Expand, ExpandCall, ExpandReturns, ExpandChunk, ExpandChunkFails,
                      Return, control
<1>5. CASE Deduplicate
  <2>1. ASSUME DeduplicateFails, stage = "deduplicate", UNCHANGED <<df_map, held, drained>>
        PROVE  ExportProgress'
    <3>1. CASE BeginExport /\ UNCHANGED <<out, twice>>
        BY <2>1, <3>1, BeginExportProgress
    <3>2. CASE Abort("error")
        BY <1>2, <3>2 DEF Abort, Return
    <3> QED BY <2>1, <3>1, <3>2 DEF DeduplicateFails
  <2>2. CASE Deduplicated
    <3>1. CASE GoOn
        BY <1>2, <3>1 DEF GoOn
    <3>2. CASE BeginExport
        BY <2>2, <3>2, BeginExportProgress DEF Deduplicated
    <3> QED BY <2>2, <3>1, <3>2 DEF Deduplicated
  <2>3. ASSUME NEW k \in Tables, DeduplicateTable(k) PROVE ExportProgress'
      BY <1>2, <2>3 DEF DeduplicateTable, DeduplicateInFolder, DeduplicateInMemory
  <2>4. ASSUME NEW k \in Tables,
               \/ DeduplicateReadFails(k) \/ DeduplicateRemoveFails(k)
               \/ DeduplicateWriteFails(k)
        PROVE  ExportProgress'
      BY <2>1, <2>4
         DEF DeduplicateReadFails, DeduplicateRemoveFails, DeduplicateWriteFails, store
  <2>5. ASSUME NEW k \in Tables, DeduplicatePanics(k) PROVE ExportProgress'
      BY <1>2, <2>5 DEF DeduplicatePanics, Abort, Return
  <2> QED BY <1>5, <2>2, <2>3, <2>4, <2>5 DEF Deduplicate
<1>6. CASE QueryParsed
    BY <1>2, <1>6 DEF QueryParsed, EvaluateMissing, EvaluatePanics, Evaluate, EvaluateFails,
                      Construct, ConstructFails, Evaluated, Abort, Return
<1>7. CASE ExportTriples
  <2>1. CASE ExportPassDone
      BY <2>1, EndPassProgress DEF ExportPassDone, store
  <2>2. ASSUME NEW k \in Tables, ExportTable(k) PROVE ExportProgress'
      BY <2>2, ExportTableProgress
  <2>3. ASSUME NEW k \in Tables, ExportPanics(k) PROVE ExportProgress'
      BY <1>2, <2>3 DEF ExportPanics, Abort, Return
  <2>4. ASSUME NEW k \in Tables, ExportTableFails(k) PROVE ExportProgress'
    <3>1. Caching /\ stage = "export" /\ UNCHANGED store
        BY <2>4 DEF ExportTableFails
    <3>2. CASE op.name = "to_triples"
      <4>1. EndPass /\ ~FailsIfIncomplete
          BY <2>4, <3>1, <3>2 DEF ExportTableFails, FailsIfIncomplete
      <4> QED BY <3>1, <4>1, EndPassProgress DEF store
    <3>3. CASE op.name # "to_triples"
        BY <1>2, <2>4, <3>3 DEF ExportTableFails, Abort, Return
    <3> QED BY <3>2, <3>3
  <2> QED BY <1>7, <2>1, <2>2, <2>3, <2>4 DEF ExportTriples
<1>8. CASE WriteReturns
    BY <1>2, <1>8 DEF WriteReturns, Return
<1> QED BY <1>1, <1>3, <1>4, <1>5, <1>6, <1>7, <1>8 DEF Next

----------------------------------------------------------------------------
\* The answers

\* The end of an export: every table is in one of its passes.
LEMMA ExportAnswer ==
    ASSUME Types, Contents, ExportProgress, stage = "export", todo = {},
           pass = Len(Passes(op.name)), FailsIfIncomplete
    PROVE  out = held
<1>1. out = { t \in held : <<t[1], t[2]>> \in TablesUpTo(pass) }
    BY DEF ExportProgress
<1>2. \A t \in held : <<t[1], t[2]>> \in TablesUpTo(pass)
    BY HeldInTables, PassesCover
<1> QED BY <1>1, <1>2

LEMMA EndPassAnswer ==
    ASSUME Types, Contents, CallInProgress, ExportProgress, stage = "export", EndPass,
           FailsIfIncomplete => todo = {} /\ out' = out, UNCHANGED <<held, drained>>
    PROVE  AnswersRight'
<1>1. CASE pass < Len(Passes(op.name))
  <2>1. status' = "none"
      BY <1>1 DEF EndPass, CallInProgress
  <2> QED BY <2>1 DEF AnswersRight
<1>2. CASE ~(pass < Len(Passes(op.name)))
  <2>1. UNCHANGED op /\ op.name \in Exports
      BY <1>2 DEF EndPass, Return, CallInProgress
  <2>2. pass = Len(Passes(op.name))
    <3>1. pass \in 1 .. Len(Passes(op.name)) /\ Len(Passes(op.name)) \in Nat
        BY DEF ExportProgress, Passes
    <3> QED BY <1>2, <3>1
  <2>3. FailsIfIncomplete => out' = held'
      BY <2>2, ExportAnswer
  <2>4. FailsIfIncomplete' = FailsIfIncomplete /\ op'.name # "query"
      BY <2>1 DEF FailsIfIncomplete, Exports
  <2> QED BY <2>1, <2>3, <2>4 DEF AnswersRight, Exports
<1> QED BY <1>1, <1>2

\* The only table of a predicate yields all the triples mapped under it.
LEMMA QueryAnswer ==
    ASSUME Types, Contents, NEW p, NEW k, TablesOf(p) = {k}, Readable(k)
    PROVE  TriplesIn(k, RowsIn(df_map[k].dfs)) = HeldUnder(p)
<1>1. k \in Existing /\ k[1] = p
    BY DEF TablesOf
<1>2. TriplesIn(k, RowsIn(df_map[k].dfs)) = { t \in held : <<t[1], t[2]>> = k }
    BY <1>1, TriplesOfTable
<1>3. ASSUME NEW t \in held, t[1] = p PROVE <<t[1], t[2]>> = k
  <2>1. <<t[1], t[2]>> \in TablesOf(p)
      BY <1>3, HeldInTables DEF TablesOf
  <2> QED BY <2>1
<1>4. ASSUME NEW t \in held, <<t[1], t[2]>> = k PROVE t[1] = p
    BY <1>1, <1>4
<1> QED BY <1>2, <1>3, <1>4 DEF HeldUnder

LEMMA AnswersStep ==
    ASSUME Types, Contents, CallInProgress, ExportProgress, AnswersRight, [Next]_vars
    PROVE  AnswersRight'
<1>1. CASE UNCHANGED vars
    BY <1>1 DEF vars, store, control, AnswersRight, HeldUnder, FailsIfIncomplete
<1>2. ASSUME status' # "ok" PROVE AnswersRight'
    BY <1>2 DEF AnswersRight
<1>3. ASSUME op'.name \in {"expand", "construct_update", "write_native_parquet"}
      PROVE  AnswersRight'
    BY <1>3 DEF AnswersRight, Exports
<1>4. CASE BeginCall
    BY <1>2, <1>4 DEF BeginCall, Query, ConstructUpdate, Export, BeginRead, Begin,
                      PathDoesNotExist
<1>5. CASE Expand
  <2>1. CASE ExpandCall
      BY <1>2, <2>1 DEF ExpandCall, Begin
  <2>2. CASE ~ExpandCall
    <3>1. stage = "expand" /\ op' = op
        BY <1>5, <2>2 DEF Expand, ExpandReturns, ExpandChunk, ExpandChunkFails, Return, control
    <3>2. op'.name = "expand"
        BY <3>1 DEF CallInProgress
    <3> QED BY <1>3, <3>2
  <2> QED BY <2>1, <2>2
<1>6. CASE Deduplicate
  <2>1. stage = "deduplicate" /\ status' \in {status, "error", "panic"}
      BY <1>6 DEF Deduplicate, Deduplicated, DeduplicateTable, DeduplicateInMemory,
                  DeduplicateInFolder, DeduplicateReadFails, DeduplicateRemoveFails,
                  DeduplicateWriteFails, DeduplicatePanics, DeduplicateFails, BeginExport,
                  GoOn, Abort, Return
  <2>2. status' # "ok"
      BY <2>1 DEF CallInProgress
  <2> QED BY <1>2, <2>2
<1>7. CASE QueryParsed
  <2>1. CASE Construct \/ ConstructFails
    <3>1. op' = op /\ op.name = "construct_update"
        BY <2>1 DEF Construct, ConstructFails, Abort, Return, CallInProgress
    <3> QED BY <1>3, <3>1
  <2>2. ASSUME NEW s \in {"error", "panic", "assertion_failed"}, Abort(s) PROVE AnswersRight'
      BY <1>2, <2>2 DEF Abort, Return
  <2>3. ASSUME stage = "evaluate", Evaluated, UNCHANGED <<held, drained>>, out' = HeldUnder(op.predicate)
        PROVE  AnswersRight'
    <3>1. CASE op.name # "query"
      <4>1. status' # "ok"
          BY <2>3, <3>1 DEF Evaluated, CallInProgress
      <4> QED BY <1>2, <4>1
    <3>2. CASE op.name = "query"
      <4>1. op' = op
          BY <2>3, <3>2 DEF Evaluated, Return
      <4> QED BY <2>3, <3>2, <4>1 DEF AnswersRight, HeldUnder, Exports
    <3> QED BY <3>1, <3>2
  <2>4. CASE EvaluateMissing
    <3>1. ASSUME NEW t \in HeldUnder(op.predicate) PROVE FALSE
      <4>1. t \in held /\ <<t[1], t[2]>> \in Existing /\ t[1] = op.predicate
          BY <3>1, HeldInTables DEF HeldUnder
      <4>2. <<t[1], t[2]>> \in TablesOf(op.predicate)
          BY <4>1 DEF TablesOf
      <4> QED BY <2>4, <4>2 DEF EvaluateMissing
    <3>2. out' = {} /\ UNCHANGED <<held, drained>>
        BY <2>4 DEF EvaluateMissing, store, CallInProgress
    <3> QED BY <2>3, <2>4, <3>1, <3>2 DEF EvaluateMissing
  <2>5. CASE EvaluatePanics
      BY <2>2, <2>5 DEF EvaluatePanics
  <2>6. ASSUME NEW k \in Tables, Evaluate(k) PROVE AnswersRight'
    <3>1. CASE Abort("assertion_failed") \/ Abort("panic")
        BY <2>2, <3>1
    <3>2. CASE Readable(k) /\ Deliver(k, df_map[k].dfs) /\ Evaluated
      <4>1. TablesOf(op.predicate) = {k} /\ UNCHANGED <<held, drained>> /\ stage = "evaluate" /\ out = {}
          BY <2>6 DEF Evaluate, store, CallInProgress
      <4>2. out' = HeldUnder(op.predicate)
          BY <3>2, <4>1, QueryAnswer DEF Deliver
      <4> QED BY <2>3, <3>2, <4>1, <4>2
    <3> QED BY <2>6, <3>1, <3>2 DEF Evaluate
  <2>7. ASSUME NEW k \in Tables, EvaluateFails(k) PROVE AnswersRight'
      BY <2>2, <2>7 DEF EvaluateFails
  <2> QED BY <1>7, <2>1, <2>4, <2>5, <2>6, <2>7 DEF QueryParsed
<1>8. CASE ExportTriples
  <2>1. CASE ExportPassDone
      BY <2>1, EndPassAnswer DEF ExportPassDone, store
  <2>2. ASSUME NEW k \in Tables, ExportTable(k) PROVE AnswersRight'
    <3>1. status' # "ok"
        BY <2>2 DEF ExportTable, CallInProgress
    <3> QED BY <1>2, <3>1
  <2>3. ASSUME NEW k \in Tables, ExportPanics(k) PROVE AnswersRight'
      BY <1>2, <2>3 DEF ExportPanics, Abort, Return
  <2>4. ASSUME NEW k \in Tables, ExportTableFails(k) PROVE AnswersRight'
    <3>1. CASE op.name = "to_triples"
      <4>1. EndPass /\ ~FailsIfIncomplete /\ stage = "export" /\ UNCHANGED <<held, drained>>
          BY <2>4, <3>1 DEF ExportTableFails, FailsIfIncomplete, store
      <4> QED BY <4>1, EndPassAnswer
    <3>2. CASE op.name # "to_triples"
        BY <1>2, <2>4, <3>2 DEF ExportTableFails, Abort, Return
    <3> QED BY <3>1, <3>2
  <2> QED BY <1>8, <2>1, <2>2, <2>3, <2>4 DEF ExportTriples
<1>9. CASE WriteReturns
  <2>1. op' = op /\ op.name = "write_native_parquet"
      BY <1>9 DEF WriteReturns, Return, CallInProgress
  <2> QED BY <1>3, <2>1
<1> QED BY <1>1, <1>4, <1>5, <1>6, <1>7, <1>8, <1>9 DEF Next

LEMMA ContentsInvariant == Spec => []CInv
<1>1. Init => CInv
  <2> SUFFICES ASSUME Init PROVE CInv
      OBVIOUS
  <2>1. Types
      BY TypesInit
  <2>2. Existing = {} /\ NotUnique = {} /\ held = {} /\ deduplicated
      BY DEF Init, Existing, NotUnique
  <2>3. FlagsAgree /\ CallInProgress /\ ExportProgress /\ AnswersRight
      BY <2>2 DEF Init, FlagsAgree, CallInProgress, ExportProgress, AnswersRight
  <2>4. Contents
      BY <2>2 DEF Contents, FramesApart, LossIsMarked, TablesHold, HeldRows
  <2>5. DrainedMixed
      BY DEF Init, DrainedMixed
  <2> QED BY <2>1, <2>3, <2>4, <2>5 DEF CInv
<1>2. CInv /\ [Next]_vars => CInv'
    BY TypesStep, FlagsStep, ContentsStep, DrainedStep, CallStep, ExportProgressStep,
       AnswersStep DEF CInv, IInv
<1> QED BY <1>1, <1>2, PTL DEF Spec

\* Fail-stop, for any predicates, rows, inputs and failures: a query or an export
\* that returns Ok has delivered every triple that was ever mapped, and no other,
\* because a table that has lost a file stays unmarked and deduplicate fails.
THEOREM AnswersAreComplete == Spec => []AnswersComplete
<1>1. CInv => AnswersComplete
  <2> SUFFICES ASSUME CInv, status = "ok", Caching
               PROVE  /\ op.name = "query" => out = { t \in mapped : t[1] = op.predicate }
                      /\ op.name \in {"export_oxrdf_triples", "write_n_triples_all_dfs"}
                            => out = mapped
      BY DEF AnswersComplete
  <2>1. mapped = held
      BY DEF CInv, DrainedMixed, mapped
  <2> QED BY <2>1 DEF CInv, AnswersRight, HeldUnder, FailsIfIncomplete, Exports
<1> QED BY <1>1, ContentsInvariant, PTL

\* In memory what to_triples leaves out, for any rows and inputs, is of a table that
\* has been mapped objects of different dtypes: deduplicate drained it and panicked.
THEOREM ToTriplesIsComplete == Spec => []ToTriplesComplete
<1>1. CInv => ToTriplesComplete
  <2> SUFFICES ASSUME CInv, status = "ok", op.name = "to_triples", ~Caching
               PROVE  /\ out \subseteq mapped
                      /\ \A t \in mapped \ out : HasTwoDtypes(<<t[1], t[2]>>)
      BY DEF ToTriplesComplete
  <2>1. out = held
      BY DEF CInv, AnswersRight, FailsIfIncomplete, Exports
  <2> QED BY <2>1 DEF CInv, DrainedMixed, mapped
<1> QED BY <1>1, ContentsInvariant, PTL

\* What has lost a file never looks whole or unique again, whatever is added.
LEMMA LossStep ==
    ASSUME CInv, [Next]_vars, NEW k \in Existing, ~Readable(k)
    PROVE  ~Readable(k)' /\ ~df_map'[k].unique
<1>1. Types /\ Contents /\ CallInProgress /\ StoreChange
    BY StepOfStore DEF CInv
<1>2. ~df_map[k].unique
    BY <1>1 DEF Contents, LossIsMarked
<1>3. ASSUME Untouched(k) PROVE ~Readable(k)' /\ ~df_map'[k].unique
    BY <1>2, <1>3, UntouchedSame DEF Untouched
<1>4. CASE UNCHANGED <<df_map, frames, held, drained>>
    BY <1>3, <1>4 DEF Untouched
<1>5. ASSUME NEW N, NEW uuid \in Nat, AddsFrames(N, uuid)
      PROVE  ~Readable(k)' /\ ~df_map'[k].unique
  <2>1. k \in Tables
      BY DEF Existing
  <2>2. k \in Existing' /\ (df_map'[k].unique => df_map[k].unique)
      BY <1>1, <1>5, <2>1, AddsEffect DEF Untouched
  <2>3. Readable(k)' = (\A f \in df_map[k].dfs : frames[f] # NoFrame)
      BY <1>1, <1>5, <2>1, <2>2, AddsRows
  <2> QED BY <1>2, <2>2, <2>3 DEF Readable
<1>6. ASSUME NEW j \in todo, Readable(j), NEW fs, Replaces(j, fs)
      PROVE  ~Readable(k)' /\ ~df_map'[k].unique
  <2>1. j \in Tables /\ j # k
      BY <1>1, <1>6 DEF Types, TypeOK, Existing
  <2>2. Untouched(k)
      BY <1>1, <1>6, <2>1, ReplacesEffect
  <2> QED BY <1>3, <2>2
<1>7. ASSUME NEW j \in todo, Loses(j)
      PROVE  ~Readable(k)' /\ ~df_map'[k].unique
  <2>1. j \in Existing
      BY <1>1 DEF Types, TypeOK
  <2>2. CASE j = k
      BY <1>1, <1>2, <1>7, <2>1, <2>2, LosesEffect DEF Loses
  <2>3. CASE j # k
    <3>1. Untouched(k)
        BY <1>1, <1>7, <2>1, <2>3, LosesEffect
    <3> QED BY <1>3, <3>1
  <2> QED BY <2>2, <2>3
<1>8. ASSUME NEW j \in todo, Drains(j) PROVE FALSE
    BY <1>1, <1>8 DEF Contents, LossIsMarked, Drains
<1> QED BY <1>1, <1>4, <1>5, <1>6, <1>7, <1>8 DEF StoreChange

THEOREM LossStaysVisible == Spec => LossIsNeverHidden
<1>1. CInv /\ [Next]_vars
          => [\A k \in Existing : ~Readable(k) => ~Readable(k)' /\ ~df_map'[k].unique]_vars
    BY LossStep
<1> QED BY <1>1, ContentsInvariant, PTL DEF Spec, LossIsNeverHidden

\* The rows of a table only shrink when deduplicate fails or panics.
LEMMA RowsStep ==
    ASSUME CInv, [Next]_vars, NEW k \in Existing, ~(RowsOf(k) \subseteq RowsOf(k)')
    PROVE  /\ stage = "deduplicate" /\ ~df_map'[k].unique
           /\ IF Caching THEN op.name # "to_triples" => status' = "error"
              ELSE status' = "panic" /\ Mixed(df_map[k].dfs)
<1>1. Types /\ Contents /\ CallInProgress /\ StoreChange
    BY StepOfStore DEF CInv
<1>2. ~Untouched(k)
    BY UntouchedSame
<1>3. ~ UNCHANGED <<df_map, frames, held, drained>>
    BY <1>2 DEF Untouched
<1>4. ASSUME NEW N, NEW uuid \in Nat, AddsFrames(N, uuid) PROVE FALSE
  <2>1. k \in Tables
      BY DEF Existing
  <2>2. k \in Existing'
      BY <1>1, <1>4, <2>1, AddsEffect
  <2>3. RowsOf(k)' = RowsOf(k) \union UNION { FrameRows(f)' : f \in N[k] }
      BY <1>1, <1>4, <2>1, <2>2, AddsRows
  <2> QED BY <2>3
<1>5. ASSUME NEW j \in todo, NEW fs, Replaces(j, fs) PROVE FALSE
  <2>1. j \in Tables
      BY <1>1 DEF Types, TypeOK, Existing
  <2> QED BY <1>1, <1>2, <1>5, <2>1, ReplacesEffect
<1>6. ASSUME NEW j \in todo, Loses(j), DeduplicateFails, stage = "deduplicate"
      PROVE  /\ stage = "deduplicate" /\ ~df_map'[k].unique
             /\ Caching /\ (op.name # "to_triples" => status' = "error")
  <2>1. j \in Existing
      BY <1>1 DEF Types, TypeOK
  <2>2. j = k
      BY <1>1, <1>2, <1>6, <2>1, LosesEffect
  <2>3. ~df_map'[k].unique
      BY <1>6, <2>2 DEF Loses
  <2> QED BY <1>6, <2>3 DEF DeduplicateFails, Abort, Return, Loses
<1>7. ASSUME NEW j \in todo, Drains(j), Abort("panic"), stage = "deduplicate"
      PROVE  /\ stage = "deduplicate" /\ ~df_map'[k].unique
             /\ ~Caching /\ status' = "panic" /\ Mixed(df_map[k].dfs)
  <2>1. j \in Existing
      BY <1>1 DEF Types, TypeOK
  <2>2. j = k
      BY <1>1, <1>2, <1>7, <2>1, DrainsEffect
  <2>3. ~df_map'[k].unique
      BY <1>1, <1>7, <2>1, <2>2, DrainsEffect
  <2>4. df_map[k].dfs # {}
      BY DEF RowsOf, RowsIn
  <2> QED BY <1>7, <2>2, <2>3, <2>4 DEF Abort, Return, Drains, CannotConcat
<1> QED BY <1>1, <1>3, <1>4, <1>5, <1>6, <1>7 DEF StoreChange

THEOREM OnlyFailuresLoseRows == Spec => RowsAreLostOnlyByFailure
<1>1. CInv /\ [Next]_vars
          => [\A k \in Existing :
                 ~(RowsOf(k) \subseteq RowsOf(k)') =>
                     /\ stage = "deduplicate" /\ ~df_map'[k].unique
                     /\ IF Caching THEN op.name # "to_triples" => status' = "error"
                        ELSE status' = "panic" /\ Mixed(df_map[k].dfs)]_vars
    BY RowsStep
<1> QED BY <1>1, ContentsInvariant, PTL DEF Spec, RowsAreLostOnlyByFailure

----------------------------------------------------------------------------
\* In memory the store implements the abstract one

AllStored == StoredTriples = held

LEMMA StoredIsHeld == ASSUME CInv, ~Caching PROVE AllStored
<1>1. Types /\ Contents
    BY DEF CInv
<1>2. ASSUME NEW k \in Existing
      PROVE  TriplesIn(k, RowsOf(k)) = { t \in held : <<t[1], t[2]>> = k }
  <2>1. Readable(k)
      BY <1>1 DEF Contents, LossIsMarked
  <2> QED BY <1>1, <2>1, TriplesOfTable DEF RowsOf
<1>3. ASSUME NEW t PROVE t \in StoredTriples <=> t \in held
  <2>1. t \in StoredTriples <=> \E k \in Existing : t \in TriplesIn(k, RowsOf(k))
      BY DEF StoredTriples
  <2>2. t \in held => <<t[1], t[2]>> \in Existing
      BY <1>1, HeldInTables
  <2> QED BY <1>2, <2>1, <2>2
<1> QED BY <1>3 DEF AllStored

\* A step puts in triples only for a call that returns none, and takes them out
\* only by a panic that drains a table.
LEMMA HeldGrows ==
    ASSUME CInv, [Next]_vars
    PROVE  \/ held' = held
           \/ held \subseteq held' /\ stage \in {"expand", "construct"}
           \/ Abort("panic") /\ \E k \in todo : Drains(k)
<1>1. StoreChange
    BY StepOfStore DEF CInv
<1> QED BY <1>1 DEF StoreChange, AddsFrames, Replaces, Loses

LEMMA AddingKeepsCall ==
    ASSUME [Next]_vars, stage \in {"expand", "construct"} PROVE UNCHANGED op
<1>1. CASE UNCHANGED vars
    BY <1>1 DEF vars, control
<1>2. CASE Expand
    BY <1>2 DEF Expand, ExpandCall, ExpandReturns, ExpandChunk, ExpandChunkFails, Begin,
                Return, control
<1>3. CASE QueryParsed
    BY <1>3 DEF QueryParsed, EvaluateMissing, EvaluatePanics, Evaluate, EvaluateFails,
                Construct, ConstructFails, Abort, Return
<1>4. CASE Deduplicate \/ ExportTriples \/ WriteReturns \/ BeginCall
    BY <1>4 DEF Deduplicate, Deduplicated, DeduplicateTable, DeduplicateInMemory,
                DeduplicateInFolder, DeduplicateReadFails, DeduplicateRemoveFails,
                DeduplicateWriteFails, DeduplicatePanics, Abort, Return,
                ExportTriples, ExportPassDone, ExportTable,
                ExportPanics, ExportTableFails, WriteReturns, BeginCall, Query,
                ConstructUpdate, Export, BeginRead, Begin, PathDoesNotExist
<1> QED BY <1>1, <1>2, <1>3, <1>4 DEF Next

\* A table that is drained is a group that the abstract store loses.
LEMMA DrainsLoses ==
    ASSUME CInv, CInv', AllStored, AllStored', Abort("panic"),
           NEW k \in todo, Drains(k), held' # held
    PROVE  Abstract!Lose
<1>1. Types /\ Contents /\ k \in Existing
    BY DEF CInv, Types, TypeOK
<1>2. Readable(k) /\ RowsOf(k) = HeldRows(k)
    BY <1>1, DrainsEffect
<1>3. held' = held \ TriplesIn(k, RowsOf(k))
    BY DEF Drains, DrainTable
<1>4. TriplesIn(k, RowsOf(k)) = { t \in held : <<t[1], t[2]>> = k }
    BY <1>1, <1>2, TriplesOfTable DEF RowsOf
<1>5. Mixed(df_map[k].dfs)
  <2>1. df_map[k].dfs # {}
    <3>1. SUFFICES ASSUME df_map[k].dfs = {} PROVE FALSE
        OBVIOUS
    <3>2. RowsOf(k) = {}
        BY <3>1 DEF RowsOf, RowsIn
    <3> QED BY <1>3, <3>2 DEF TriplesIn
  <2> QED BY <2>1 DEF Drains, CannotConcat
<1>6. PICK t \in held, u \in held : /\ <<t[1], t[2]>> = k /\ <<u[1], u[2]>> = k
                                    /\ Dtype[t[3]] # Dtype[u[3]]
    BY <1>1, <1>2, <1>5, MixedTable
<1>7. held' = { v \in held : <<v[1], v[2]>> # k }
    BY <1>3, <1>4
<1>8. Answer' = {}
    BY DEF Abort, Return, Answer
<1> QED BY <1>6, <1>7, <1>8 DEF Abstract!Lose, AllStored, TableOfTriple, DtypeOfTriple

\* Each step is one of the abstract store, or a stutter: a call that has begun, or
\* failed, has no answer, one that has returned has the triples of the moment.
LEMMA AbstractStep ==
    ASSUME CInv, CInv', [Next]_vars, AllStored, AllStored', ~Caching
    PROVE  Abstract!Next
<1> USE DEF AllStored
<1>1. ASSUME held \subseteq held', Answer' = {} PROVE Abstract!Next
  <2>1. held' \subseteq Triples
      BY DEF CInv, Types, TypeOK
  <2> QED BY <1>1, <2>1 DEF Abstract!Next, Abstract!Add
<1>2. CASE Answer' = {}
    BY <1>1, <1>2, HeldGrows, DrainsLoses DEF Abstract!Next
<1>3. CASE Answer' # {}
  <2>1. /\ status' = "ok" /\ Answer' = {out'}
        /\ op'.name \notin {"expand", "construct_update", "write_native_parquet"}
      BY <1>3 DEF Answer
  <2>2. op'.name \in Exports \union {"query"}
      BY <2>1 DEF CInv, Types, TypeOK, AnswersRight, Calls, Exports
  <2>3. held' = held
    <3>1. ASSUME stage \in {"expand", "construct"} PROVE FALSE
      <4>1. op.name \in {"expand", "construct_update"}
          BY <3>1 DEF CInv, CallInProgress
      <4> QED BY <2>1, <3>1, <4>1, AddingKeepsCall
    <3>2. ~Abort("panic")
        BY <2>1 DEF Abort, Return
    <3> QED BY <3>1, <3>2, HeldGrows
  <2>4. CASE op'.name \in Exports
    <3>1. out' = held'
        BY <2>1, <2>4 DEF CInv, AnswersRight, FailsIfIncomplete
    <3>2. Abstract!Export
        BY <2>1, <2>3, <3>1 DEF Abstract!Export
    <3> QED BY <3>2 DEF Abstract!Next
  <2>5. CASE op'.name = "query"
    <3>1. PICK p \in Predicates : p = op'.predicate
        BY <2>5 DEF CInv, CallInProgress
    <3>2. out' = { t \in held' : t[1] = p }
        BY <2>1, <2>5, <3>1 DEF CInv, AnswersRight, HeldUnder
    <3>3. Abstract!Query(p)
        BY <2>1, <2>3, <3>2 DEF Abstract!Query, Abstract!Matching, PredicateOfTriple
    <3> QED BY <3>3 DEF Abstract!Next
  <2> QED BY <2>2, <2>4, <2>5
<1> QED BY <1>2, <1>3

\* In memory the store implements the abstract one, for any predicates, rows and
\* inputs: frames, flags and the removal of duplicates cannot be seen, each answer
\* holds exactly the triples of the moment, and none is lost but the whole of a
\* table of different dtypes, by a call that panics.
THEOREM StoreImplementsAbstract == ASSUME ~Caching PROVE Spec => ImplementsAbstractStore
<1>1. Init => Abstract!Init
  <2> SUFFICES ASSUME Init PROVE Abstract!Init
      OBVIOUS
  <2>1. Existing = {}
      BY DEF Init, Existing
  <2>2. StoredTriples = {} /\ Answer = {}
      BY <2>1 DEF Init, StoredTriples, Answer
  <2> QED BY <2>2 DEF Abstract!Init
<1>2. CInv => AllStored
    BY StoredIsHeld
<1>3. CInv /\ CInv' /\ [Next]_vars /\ AllStored /\ AllStored'
          => [Abstract!Next]_<<StoredTriples, Answer>>
    BY AbstractStep
<1> QED BY <1>1, <1>2, <1>3, ContentsInvariant, PTL
        DEF Spec, ImplementsAbstractStore, Abstract!Spec

----------------------------------------------------------------------------
\* No answer holds a triple twice

\* Nor does a template.  add_triples_vec relies on both: it marks the tables that a
\* call creates unique without looking at their rows.
VerbsDiffer(template) ==
    \A i, j \in DOMAIN template : i # j => template[i] # template[j]
CallersAvoidOverlap ==
    (\A ts \in Inputs : NoOverlap(ts)) /\ \A template \in Templates : VerbsDiffer(template)

\* A call that is going to add triples.
WillAdd == stage # "idle" /\ op.name \in {"expand", "construct_update"}

\* In memory a table is marked unique only by the call that has created it, which
\* adds once, or by deduplicate.
NoneTwice ==
    /\ \A k \in Existing :
          /\ df_map[k].call_uuid <= calls
          /\ WillAdd => df_map[k].call_uuid < calls
          /\ df_map[k].unique => RepeatedIn(df_map[k].dfs) = {}
    /\ stage = "export" => NotUnique = {}
    /\ twice = {}
    /\ VerbsDiffer(op.template)

LEMMA RepeatedSame ==
    ASSUME NEW k, Untouched(k), k \in Existing
    PROVE  RepeatedIn(df_map[k].dfs)' = RepeatedIn(df_map[k].dfs)
<1>1. df_map'[k] = df_map[k] /\ \A f \in df_map[k].dfs : frames'[f] = frames[f]
    BY DEF Untouched
<1> QED BY <1>1 DEF RepeatedIn

LEMMA NoneRepeated ==
    ASSUME Types', NEW k, NEW fs \in SUBSET FrameIds, df_map'[k].dfs = fs,
           \A f \in fs : /\ \A r \in Rows : frames'[f] # NoFrame => frames'[f][r] <= 1
                         /\ \A g \in fs : f # g => FrameRows(f)' \intersect FrameRows(g)' = {}
    PROVE  RepeatedIn(df_map[k].dfs)' = {}
<1> SUFFICES ASSUME NEW r \in Rows, NEW f \in fs, NEW g \in fs,
                    frames'[f] # NoFrame, frames'[g] # NoFrame,
                    IF f = g THEN frames'[f][r] > 1
                    ELSE frames'[f][r] > 0 /\ frames'[g][r] > 0
             PROVE  FALSE
    BY DEF RepeatedIn
<1>1. frames'[f][r] \in Nat
    BY DEF Types, TypeOK, Frame
<1>2. f # g
    BY <1>1
<1>3. r \in FrameRows(f)' /\ r \in FrameRows(g)'
    BY <1>2 DEF FrameRows, Occurring
<1> QED BY <1>2, <1>3

\* What a step does to the tables in memory: it adds to them, as the last step of
\* a call that has drawn a uuid, or it deduplicates one, or panics over it.
MemoryStep ==
    \/ UNCHANGED <<df_map, frames>>
    \/ /\ WillAdd /\ ~WillAdd' /\ UNCHANGED calls
       /\ \E N : AddsFrames(N, calls) /\ AddedApart(N)
    \/ UNCHANGED <<calls, op, stage>> /\ \E k \in todo : DeduplicateInMemory(k)
    \/ UNCHANGED calls /\ ~WillAdd' /\ \E k \in todo : Drains(k)

LEMMA ConstructedApart ==
    ASSUME Types, VerbsDiffer(op.template) PROVE NoOverlap(Constructed)
<1> DEFINE ts == Constructed
<1>1. op.template \in Seq(Predicates) /\ DOMAIN ts = DOMAIN op.template
    BY DEF Types, TemplateOK, Constructed
<1>2. ASSUME NEW i \in DOMAIN ts, NEW q \in Predicates
      PROVE  /\ \A r \in Rows : PreparedFrame(ts[i], q)[r] \in {0, 1}
             /\ q # op.template[i] => \A r \in Rows : PreparedFrame(ts[i], q)[r] = 0
  <2>1. /\ ~ts[i].has_unique_subset
        /\ \A r \in Rows : /\ ts[i].df[q][r] \in {0, 1}
                           /\ q # op.template[i] => ts[i].df[q][r] = 0
      BY <1>1 DEF Constructed
  <2>2. PreparedFrame(ts[i], q) = UniqueFrame([r \in Rows |-> ts[i].df[q][r]])
      BY <2>1 DEF PreparedFrame
  <2> HIDE DEF ts
  <2>3. \A r \in Rows : PreparedFrame(ts[i], q)[r] = IF ts[i].df[q][r] > 0 THEN 1 ELSE 0
      BY <2>2 DEF UniqueFrame
  <2> QED BY <2>1, <2>3
<1> HIDE DEF ts
<1>3. ASSUME NEW s \in TripleDFs(ts)
      PROVE  /\ s[1] \in DOMAIN ts /\ s[2] \in Predicates /\ s[2] = op.template[s[1]]
             /\ \A r \in Rows : FrameOfDF(ts, s)[r] <= 1
             /\ s = <<s[1], s[2]>>
  <2>1. s \in (DOMAIN ts) \X Predicates /\ Occurring(PreparedFrame(ts[s[1]], s[2])) # {}
      BY DEF TripleDFs
  <2>2. PICK r \in Rows : PreparedFrame(ts[s[1]], s[2])[r] > 0
      BY <2>1 DEF Occurring
  <2>3. s[2] = op.template[s[1]]
      BY <1>2, <2>1, <2>2
  <2>4. \A x \in Rows : FrameOfDF(ts, s)[x] \in {0, 1}
      BY <1>2, <2>1 DEF FrameOfDF
  <2> QED BY <2>1, <2>3, <2>4
<1>4. ASSUME NEW s \in TripleDFs(ts), NEW t \in TripleDFs(ts), s # t
      PROVE  TableOfDF(ts, s) # TableOfDF(ts, t)
  <2>1. s[1] # t[1]
      BY <1>3, <1>4
  <2>2. s[2] # t[2]
      BY <1>1, <1>3, <2>1 DEF VerbsDiffer
  <2> QED BY <2>2 DEF TableOfDF
<1> QED BY <1>3, <1>4 DEF NoOverlap, ts

LEMMA StepOfMemory ==
    ASSUME CInv, NoneTwice, ~Caching, CallersAvoidOverlap, [Next]_vars PROVE MemoryStep
<1>1. Types /\ CallInProgress /\ calls \in Nat
    BY DEF CInv, Types, TypeOK
<1>2. ASSUME NEW ts \in Seq(TriplesToAdd), NoOverlap(ts), AddTriples(ts, calls),
             WillAdd, stage' = "idle", UNCHANGED calls
      PROVE  MemoryStep
  <2>1. PICK uuid \in Nat : uuid = calls
      BY <1>1
  <2>2. \E N : AddsFrames(N, uuid) /\ AddedApart(N)
      BY <1>2, <2>1, AddingAdds
  <2>3. \E N : AddsFrames(N, calls) /\ AddedApart(N)
      BY <2>1, <2>2
  <2>4. ~WillAdd'
      BY <1>2 DEF WillAdd
  <2> QED BY <1>2, <2>3, <2>4 DEF MemoryStep
<1>3. CASE UNCHANGED vars
    BY <1>3 DEF vars, store, MemoryStep
<1>4. CASE BeginCall
    BY <1>4 DEF BeginCall, Query, ConstructUpdate, Export, BeginRead, PathDoesNotExist,
                store, MemoryStep
<1>5. CASE Expand
  <2>1. CASE ExpandCall \/ ExpandReturns
      BY <2>1 DEF ExpandCall, ExpandReturns, store, MemoryStep
  <2>2. ASSUME NEW ts \in Inputs, ExpandChunk(ts) PROVE MemoryStep
    <3>1. ts \in Seq(TriplesToAdd) /\ NoOverlap(ts)
        BY InputsAssumption DEF CallersAvoidOverlap
    <3>2. WillAdd
        BY <1>1, <2>2 DEF ExpandChunk, CallInProgress, WillAdd
    <3> QED BY <1>2, <2>2, <3>1, <3>2 DEF ExpandChunk, Return
  <2>3. ASSUME NEW ts \in Inputs, ExpandChunkFails(ts) PROVE FALSE
      BY <2>3 DEF ExpandChunkFails, AddTriplesFails
  <2> QED BY <1>5, <2>1, <2>2, <2>3 DEF Expand
<1>6. CASE Deduplicate
  <2>1. CASE Deduplicated
      BY <2>1 DEF Deduplicated, MemoryStep
  <2>2. ASSUME NEW k \in Tables, DeduplicateTable(k) PROVE MemoryStep
      BY <2>2 DEF DeduplicateTable, DeduplicateInMemory, MemoryStep
  <2>3. ASSUME NEW k \in Tables,
               \/ DeduplicateReadFails(k) \/ DeduplicateRemoveFails(k)
               \/ DeduplicateWriteFails(k)
        PROVE  FALSE
      BY <2>3 DEF DeduplicateReadFails, DeduplicateRemoveFails, DeduplicateWriteFails
  <2>4. ASSUME NEW k \in Tables, DeduplicatePanics(k) PROVE MemoryStep
    <3>1. k \in todo /\ CannotConcat(k) /\ DrainTable(k) /\ k \in NotUnique /\ stage' = "idle"
        BY <1>1, <2>4 DEF DeduplicatePanics, CallInProgress, Abort, Return
    <3>2. Drains(k) /\ UNCHANGED calls /\ ~WillAdd'
        BY <3>1 DEF Drains, DrainTable, WillAdd
    <3> QED BY <3>1, <3>2 DEF MemoryStep
  <2> QED BY <1>6, <2>1, <2>2, <2>3, <2>4 DEF Deduplicate
<1>7. CASE QueryParsed
  <2>1. CASE Construct
    <3>1. Constructed \in Seq(TriplesToAdd) /\ NoOverlap(Constructed)
        BY <1>1, ConstructedType, ConstructedApart DEF NoneTwice
    <3>2. WillAdd
        BY <1>1, <2>1 DEF Construct, CallInProgress, WillAdd
    <3> QED BY <1>2, <2>1, <3>1, <3>2 DEF Construct, Abort, Return
  <2>2. CASE ConstructFails
      BY <2>2 DEF ConstructFails, AddTriplesFails
  <2>3. CASE ~(Construct \/ ConstructFails)
      BY <1>7, <2>3 DEF QueryParsed, EvaluateMissing, EvaluatePanics, Evaluate, EvaluateFails,
                        store, MemoryStep
  <2> QED BY <2>1, <2>2, <2>3
<1>8. CASE ExportTriples
    BY <1>8 DEF ExportTriples, ExportPassDone, ExportTable, ExportPanics, ExportTableFails,
                store, MemoryStep
<1>9. CASE WriteReturns
    BY <1>9 DEF WriteReturns, store, MemoryStep
<1> QED BY <1>3, <1>4, <1>5, <1>6, <1>7, <1>8, <1>9 DEF Next

\* A call that is going to add was so when it drew its uuid, and draws no other.
LEMMA UuidsStep ==
    ASSUME CInv, [Next]_vars
    PROVE  /\ calls' \in Nat /\ calls' >= calls
           /\ WillAdd' => calls' > calls \/ (WillAdd /\ calls' = calls)
<1>1. calls \in Nat /\ CallInProgress
    BY DEF CInv, Types, TypeOK
<1>2. CASE UNCHANGED vars
    BY <1>1, <1>2 DEF vars, store, control, WillAdd
<1>3. CASE BeginCall
  <2>1. ASSUME NEW p, NEW tmpl, ConstructUpdate(p, tmpl) PROVE calls' = calls + 1
      BY <2>1 DEF ConstructUpdate
  <2>2. ASSUME NEW p, Query(p) PROVE calls' = calls /\ ~WillAdd'
      BY <2>2 DEF Query, BeginRead, Begin, WillAdd
  <2>3. ASSUME NEW name \in {"export_oxrdf_triples", "to_triples", "write_n_triples_all_dfs",
                             "write_native_parquet"}, Export(name)
        PROVE  calls' = calls /\ ~WillAdd'
      BY <2>3 DEF Export, BeginRead, Begin, WillAdd
  <2>4. ASSUME PathDoesNotExist PROVE calls' = calls /\ ~WillAdd'
      BY <2>4 DEF PathDoesNotExist, store, WillAdd
  <2>5. calls' = calls + 1 \/ (calls' = calls /\ ~WillAdd')
      BY <1>3, <2>1, <2>2, <2>3, <2>4 DEF BeginCall
  <2>6. calls + 1 \in Nat /\ calls + 1 > calls
      BY <1>1
  <2> QED BY <1>1, <2>5, <2>6 DEF WillAdd
<1>4. CASE ExpandCall
  <2>1. calls' = calls + 1
      BY <1>4 DEF ExpandCall
  <2>2. calls + 1 \in Nat /\ calls + 1 > calls
      BY <1>1
  <2>3. calls' \in Nat /\ calls' >= calls /\ calls' > calls
      BY <1>1, <2>1, <2>2
  <2> QED BY <2>3
<1>5. CASE ~BeginCall /\ ~ExpandCall /\ Next
  <2>1. stage # "idle" /\ UNCHANGED <<op, calls>>
    <3>1. CASE Expand
        BY <1>5, <3>1 DEF Expand, ExpandReturns, ExpandChunk, ExpandChunkFails, Return,
                          control, store
    <3>2. CASE Deduplicate
        BY <3>2 DEF Deduplicate, Deduplicated, DeduplicateTable, DeduplicateInMemory,
                    DeduplicateInFolder, DeduplicateReadFails, DeduplicateRemoveFails,
                    DeduplicateWriteFails, DeduplicatePanics, DrainTable, DeduplicateFails,
                    BeginExport, GoOn, Abort, Return, store
    <3>3. CASE QueryParsed
        BY <3>3 DEF QueryParsed, EvaluateMissing, EvaluatePanics, Evaluate, EvaluateFails,
                    Construct, ConstructFails, Evaluated, Abort, Return, store
    <3>4. CASE ExportTriples
        BY <3>4 DEF ExportTriples, ExportPassDone, ExportTable, ExportPanics,
                    ExportTableFails, EndPass, Abort, Return, store
    <3>5. CASE WriteReturns
        BY <3>5 DEF WriteReturns, Return, store
    <3> QED BY <1>5, <3>1, <3>2, <3>3, <3>4, <3>5 DEF Next
  <2> QED BY <1>1, <2>1 DEF WillAdd
<1> QED BY <1>2, <1>3, <1>4, <1>5

\* A table is not unique after another call than its own has added to it.
LEMMA PushedByOther ==
    ASSUME NEW table, NEW new, NEW uuid, uuid # table.call_uuid
    PROVE  ~Pushed(table, new, uuid).unique
BY DEF Pushed

\* Each table after a step in memory.
LEMMA TablesStep ==
    ASSUME CInv, CInv', NoneTwice, ~Caching, CallersAvoidOverlap, [Next]_vars,
           NEW k \in Existing'
    PROVE  /\ df_map'[k].call_uuid <= calls'
           /\ WillAdd' => df_map'[k].call_uuid < calls'
           /\ df_map'[k].unique => RepeatedIn(df_map[k].dfs)' = {}
<1>1. /\ Types /\ Types' /\ Contents /\ calls \in Nat /\ k \in Tables
      /\ calls' \in Nat /\ calls' >= calls
      /\ WillAdd' => calls' > calls \/ (WillAdd /\ calls' = calls)
    BY UuidsStep DEF CInv, Types, TypeOK, Existing
<1>2. ASSUME NEW j \in Existing
      PROVE  /\ df_map[j].call_uuid \in Nat
             /\ df_map[j].call_uuid <= calls
             /\ WillAdd => df_map[j].call_uuid < calls
             /\ df_map[j].unique => RepeatedIn(df_map[j].dfs) = {}
    BY <1>1, TableTypes DEF NoneTwice, TripleTable
<1>3. ASSUME k \in Existing, df_map'[k].call_uuid = df_map[k].call_uuid
      PROVE  /\ df_map'[k].call_uuid <= calls'
             /\ WillAdd' => df_map'[k].call_uuid < calls'
    BY <1>1, <1>2, <1>3
<1>4. ASSUME k \in Existing, Untouched(k)
      PROVE  /\ df_map'[k].call_uuid = df_map[k].call_uuid
             /\ df_map'[k].unique => RepeatedIn(df_map[k].dfs)' = {}
    BY <1>2, <1>4, RepeatedSame DEF Untouched
<1>5. CASE UNCHANGED <<df_map, frames>>
  <2>1. k \in Existing /\ Untouched(k)
      BY <1>5, ExistingSame DEF Untouched
  <2> QED BY <1>3, <1>4, <2>1
<1>6. ASSUME WillAdd, ~WillAdd', UNCHANGED calls, NEW N, AddsFrames(N, calls), AddedApart(N)
      PROVE  /\ df_map'[k].call_uuid <= calls'
             /\ df_map'[k].unique => RepeatedIn(df_map[k].dfs)' = {}
  <2>1. /\ N[k] \subseteq Fresh
        /\ df_map'[k] = IF N[k] = {} THEN df_map[k]
                        ELSE IF df_map[k] = NoTable
                             THEN [dfs |-> N[k], unique |-> TRUE, call_uuid |-> calls]
                             ELSE Pushed(df_map[k], N[k], calls)
      BY <1>1, <1>6 DEF AddsFrames
  <2>2. CASE N[k] = {}
    <3>1. k \in Existing /\ Untouched(k)
        BY <1>1, <1>6, <2>2, AddsEffect
    <3> QED BY <1>3, <1>4, <3>1
  <2>3. CASE N[k] # {} /\ df_map[k] = NoTable
    <3>1. df_map'[k] = [dfs |-> N[k], unique |-> TRUE, call_uuid |-> calls]
        BY <2>1, <2>3
    <3>2. N[k] \in SUBSET FrameIds
        BY <2>1 DEF Fresh
    <3>3. \A f \in N[k] : /\ \A r \in Rows : frames'[f] # NoFrame => frames'[f][r] <= 1
                          /\ \A g \in N[k] : f # g => FrameRows(f)' \intersect FrameRows(g)' = {}
        BY <1>1, <1>6 DEF AddedApart
    <3>5. df_map'[k].dfs = N[k]
        BY <3>1
    <3>4. RepeatedIn(df_map[k].dfs)' = {}
        BY <1>1, <3>2, <3>3, <3>5, NoneRepeated
    <3> QED BY <1>1, <1>6, <3>1, <3>4
  <2>4. CASE N[k] # {} /\ df_map[k] # NoTable
    <3>1. k \in Existing /\ df_map'[k] = Pushed(df_map[k], N[k], calls)
        BY <1>1, <2>1, <2>4 DEF Existing
    <3>4. df_map[k].call_uuid # calls
        BY <1>1, <1>2, <1>6, <3>1
    <3>5. df_map[k] \in TripleTable
        BY <1>1, <3>1, TableTypes
    <3>6. df_map'[k].call_uuid = df_map[k].call_uuid
        BY <3>1, <3>5 DEF Pushed, TripleTable
    <3>7. ~Pushed(df_map[k], N[k], calls).unique
        BY <3>4, PushedByOther
    <3>2. df_map'[k].call_uuid = df_map[k].call_uuid /\ ~df_map'[k].unique
        BY <3>1, <3>6, <3>7
    <3> QED BY <1>3, <3>1, <3>2
  <2> QED BY <2>2, <2>3, <2>4
<1>7. ASSUME NEW j \in todo, DeduplicateInMemory(j)
      PROVE  /\ df_map'[k].call_uuid <= calls'
             /\ WillAdd' => df_map'[k].call_uuid < calls'
             /\ df_map'[k].unique => RepeatedIn(df_map[k].dfs)' = {}
  <2>1. j \in Tables /\ j \in Existing
      BY <1>1 DEF Types, TypeOK, Existing
  <2>2. PICK f : /\ f \in Fresh
                 /\ frames'[f] = FrameOf(RowsOf(j))
                 /\ MarkUnique(j, {f})
    <3>1. HasFresh({j})
        BY <1>7 DEF DeduplicateInMemory
    <3>2. NewIds({j})[j] \in Fresh /\ NewIds({j})[j] \in FrameIds
        BY <3>1, NewIdsFresh DEF Fresh
    <3>3. NewIds({j})[j] \notin df_map[j].dfs
        BY <2>1, <3>2, FreshNotReferenced
    <3> QED BY <1>7, <3>2, <3>3 DEF DeduplicateInMemory
  <2>3. {f} \in SUBSET FrameIds
      BY <2>2 DEF Fresh
  <2>4. /\ Existing' = Existing
        /\ df_map'[j] = [df_map[j] EXCEPT !.dfs = {f}, !.unique = TRUE]
        /\ df_map'[j].dfs = {f}
      BY <1>1, <2>1, <2>2, <2>3, ReplaceTypes
  <2>5. CASE k = j
    <3>1. df_map'[j].call_uuid = df_map[j].call_uuid
        BY <1>1, <2>1, <2>4, TableTypes DEF TripleTable
    <3>2. \A r \in Rows : frames'[f][r] <= 1
        BY <2>2 DEF FrameOf
    <3>3. RepeatedIn(df_map[j].dfs)' = {}
      <4>1. \A g \in {f} : /\ \A r \in Rows : frames'[g] # NoFrame => frames'[g][r] <= 1
                          /\ \A h \in {f} : g # h => FrameRows(g)' \intersect FrameRows(h)' = {}
          BY <3>2
      <4> QED BY <1>1, <2>3, <2>4, <4>1, NoneRepeated
    <3> QED BY <1>3, <2>1, <2>5, <3>1, <3>3
  <2>6. CASE k # j
    <3>1. k \in Existing /\ Untouched(k)
      <4>1. \E fs : Replaces(j, fs)
          BY <1>1, <1>7, <2>1, InMemoryReplaces
      <4> QED BY <1>1, <2>1, <2>4, <2>6, <4>1, ReplacesEffect
    <3> QED BY <1>3, <1>4, <3>1
  <2> QED BY <2>5, <2>6
<1>8. ASSUME NEW j \in todo, Drains(j), UNCHANGED calls, ~WillAdd'
      PROVE  /\ df_map'[k].call_uuid <= calls'
             /\ WillAdd' => df_map'[k].call_uuid < calls'
             /\ df_map'[k].unique => RepeatedIn(df_map[k].dfs)' = {}
  <2>1. j \in Existing
      BY <1>1 DEF Types, TypeOK
  <2>2. /\ Existing' = Existing /\ ~df_map'[j].unique
        /\ df_map'[j].call_uuid = df_map[j].call_uuid
        /\ \A i \in Existing \ {j} : Untouched(i)
      BY <1>1, <1>8, <2>1, DrainsEffect
  <2>3. k \in Existing
      BY <2>2
  <2>4. CASE k = j
      BY <1>3, <2>2, <2>3, <2>4
  <2>5. CASE k # j
      BY <1>3, <1>4, <2>2, <2>3, <2>5
  <2> QED BY <2>4, <2>5
<1> QED BY <1>5, <1>6, <1>7, <1>8, StepOfMemory DEF MemoryStep

\* A table whose rows have not been delivered yet, and of which none is repeated,
\* delivers nothing twice.
LEMMA DeliverOnce ==
    ASSUME NEW k, Deliver(k, df_map[k].dfs), twice = {}, RepeatedIn(df_map[k].dfs) = {},
           out \intersect TriplesIn(k, RowsIn(df_map[k].dfs)) = {}
    PROVE  twice' = {}
<1>1. TriplesIn(k, RepeatedIn(df_map[k].dfs)) = {}
    BY DEF TriplesIn
<1> QED BY <1>1 DEF Deliver

LEMMA TwiceStep ==
    ASSUME CInv, NoneTwice, ~Caching, [Next]_vars PROVE twice' = {}
<1>1. /\ Types /\ FlagsAgree /\ Contents /\ CallInProgress /\ ExportProgress
      /\ twice = {}
      /\ \A k \in Existing : df_map[k].unique => RepeatedIn(df_map[k].dfs) = {}
      /\ stage = "export" => NotUnique = {}
    BY DEF CInv, NoneTwice
<1>2. CASE UNCHANGED vars
    BY <1>1, <1>2 DEF vars
<1>3. CASE BeginCall \/ Expand
    BY <1>1, <1>3 DEF BeginCall, Query, ConstructUpdate, Export, BeginRead, Begin,
                      PathDoesNotExist, Expand, ExpandCall, ExpandReturns, ExpandChunk,
                      ExpandChunkFails
<1>4. CASE Deduplicate
    BY <1>1, <1>4 DEF Deduplicate, Deduplicated, DeduplicateTable, DeduplicateInMemory,
                      DeduplicateInFolder, DeduplicateReadFails, DeduplicateRemoveFails,
                      DeduplicateWriteFails, DeduplicatePanics, DeduplicateFails, Abort
<1>5. CASE QueryParsed
  <2>1. ASSUME NEW k \in Tables, Evaluate(k) PROVE twice' = {}
    <3>1. CASE Deliver(k, df_map[k].dfs)
      <4>1. k \in Existing /\ df_map[k].unique /\ out = {}
          BY <1>1, <2>1 DEF Evaluate, TablesOf, CallInProgress, FlagsAgree, NotUnique
      <4> QED BY <1>1, <3>1, <4>1, DeliverOnce
    <3> QED BY <2>1, <3>1 DEF Evaluate, Abort
  <2>2. CASE ~ \E k \in Tables : Evaluate(k)
      BY <1>1, <1>5, <2>2 DEF QueryParsed, EvaluateMissing, EvaluatePanics, EvaluateFails,
                              Construct, ConstructFails, Abort
  <2> QED BY <2>1, <2>2
<1>6. CASE ExportTriples
  <2>1. ASSUME NEW k \in Tables, ExportTable(k) PROVE twice' = {}
    <3>1. stage = "export" /\ k \in todo /\ Readable(k) /\ Deliver(k, df_map[k].dfs)
        BY <2>1 DEF ExportTable
    <3>2. k \in Existing /\ df_map[k].unique
        BY <1>1, <3>1 DEF Types, TypeOK, NotUnique
    <3>3. out = { t \in held : <<t[1], t[2]>> \in TablesUpTo(pass) \ todo }
        BY <1>1, <3>1 DEF ExportProgress, FailsIfIncomplete
    <3>4. TriplesIn(k, RowsIn(df_map[k].dfs)) = { t \in held : <<t[1], t[2]>> = k }
        BY <1>1, <3>1, <3>2, TriplesOfTable
    <3>5. out \intersect TriplesIn(k, RowsIn(df_map[k].dfs)) = {}
        BY <3>1, <3>3, <3>4
    <3> QED BY <1>1, <3>1, <3>2, <3>5, DeliverOnce
  <2>2. CASE ExportPassDone
      BY <1>1, <2>2 DEF ExportPassDone
  <2>3. ASSUME NEW k \in Tables, ExportPanics(k) \/ ExportTableFails(k) PROVE twice' = {}
      BY <1>1, <2>3 DEF ExportPanics, ExportTableFails, Abort
  <2> QED BY <1>6, <2>1, <2>2, <2>3 DEF ExportTriples
<1>7. CASE WriteReturns
    BY <1>1, <1>7 DEF WriteReturns
<1> QED BY <1>2, <1>3, <1>4, <1>5, <1>6, <1>7 DEF Next

LEMMA NoneTwiceStep ==
    ASSUME CInv, CInv', NoneTwice, ~Caching, CallersAvoidOverlap, [Next]_vars
    PROVE  NoneTwice'
<1>1. Types /\ FlagsAgree /\ VerbsDiffer(op.template)
    BY DEF CInv, NoneTwice
<1>2. ASSUME stage' = "export" PROVE NotUnique' = {}
  <2>1. CASE Deduplicate
    <3>1. CASE Deduplicated
      <4>1. NotUnique = {} /\ UNCHANGED df_map
          BY <1>1, <3>1 DEF Deduplicated, FlagsAgree
      <4> QED BY <4>1, NotUniqueSame
    <3>2. CASE ~Deduplicated
        BY <1>2, <2>1, <3>2 DEF Deduplicate, DeduplicateTable, DeduplicateInMemory,
               DeduplicateReadFails, DeduplicateRemoveFails, DeduplicateWriteFails,
               DeduplicatePanics, Abort, Return
    <3> QED BY <3>1, <3>2
  <2>2. CASE ~Deduplicate
    <3>1. UNCHANGED vars \/ ExportTriples
        BY <1>2, <2>2 DEF Next, BeginCall, Query, ConstructUpdate, Export, BeginRead, Begin,
               PathDoesNotExist, Expand, ExpandCall, ExpandReturns, ExpandChunk,
               ExpandChunkFails, Return, control, QueryParsed, EvaluateMissing,
               EvaluatePanics, Evaluate, EvaluateFails, Construct, ConstructFails, Evaluated,
               Abort, WriteReturns
    <3>2. stage = "export" /\ UNCHANGED df_map
        BY <1>2, <3>1 DEF vars, store, control, ExportTriples, ExportPassDone, ExportTable,
               ExportPanics, ExportTableFails
    <3> QED BY <3>2, NotUniqueSame DEF NoneTwice
  <2> QED BY <2>1, <2>2
<1>3. VerbsDiffer(op'.template)
  <2>1. ASSUME NEW tmpl \in Templates PROVE VerbsDiffer(tmpl)
      BY <2>1 DEF CallersAvoidOverlap
  <2>2. VerbsDiffer(<<>>)
      BY DEF VerbsDiffer
  <2>3. op' = op \/ op'.template = <<>> \/ op'.template \in Templates
    <3>1. CASE UNCHANGED vars
        BY <3>1 DEF vars, control
    <3>2. CASE BeginCall \/ ExpandCall
        BY <3>2 DEF BeginCall, Query, ConstructUpdate, Export, BeginRead, Begin,
               PathDoesNotExist, ExpandCall
    <3>3. CASE Expand /\ ~ExpandCall
        BY <3>3 DEF Expand, ExpandReturns, ExpandChunk, ExpandChunkFails, Return, control
    <3>4. CASE Deduplicate
        BY <3>4 DEF Deduplicate, Deduplicated, DeduplicateTable, DeduplicateInMemory,
               DeduplicateInFolder, DeduplicateReadFails, DeduplicateRemoveFails,
               DeduplicateWriteFails, DeduplicatePanics, DeduplicateFails, BeginExport, GoOn,
               Abort, Return
    <3>5. CASE QueryParsed
        BY <3>5 DEF QueryParsed, EvaluateMissing, EvaluatePanics, Evaluate, EvaluateFails,
               Construct, ConstructFails, Evaluated, Abort, Return
    <3>6. CASE ExportTriples \/ WriteReturns
        BY <3>6 DEF ExportTriples, ExportPassDone, ExportTable, ExportPanics,
               ExportTableFails, EndPass, Abort, Return, WriteReturns
    <3> QED BY <3>1, <3>2, <3>3, <3>4, <3>5, <3>6 DEF Next
  <2> QED BY <1>1, <2>1, <2>2, <2>3
<1>4. VerbsDiffer(op.template)'
    BY <1>3 DEF VerbsDiffer
<1>5. \A k \in Existing' :
          /\ df_map'[k].call_uuid <= calls'
          /\ WillAdd' => df_map'[k].call_uuid < calls'
          /\ df_map'[k].unique => RepeatedIn(df_map[k].dfs)' = {}
    BY TablesStep
<1> QED BY <1>2, <1>4, <1>5, TwiceStep DEF NoneTwice

\* In memory no answer holds a triple twice, for any predicates, rows and bounds,
\* if no argument of add_triples_vec and no template holds one twice: what a table
\* marked unique is not looked at for is not there.
THEOREM NothingIsAnsweredTwice ==
    ASSUME ~Caching, CallersAvoidOverlap PROVE Spec => []AnswersWithoutDuplicates
<1>1. Init => NoneTwice
    BY DEF Init, Existing, NoneTwice, VerbsDiffer
<1>2. CInv /\ CInv' /\ NoneTwice /\ [Next]_vars => NoneTwice'
    BY NoneTwiceStep
<1>3. NoneTwice => AnswersWithoutDuplicates
    BY DEF NoneTwice, AnswersWithoutDuplicates
<1> QED BY <1>1, <1>2, <1>3, ContentsInvariant, PTL DEF Spec
=============================================================================

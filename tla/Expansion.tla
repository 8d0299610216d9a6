----------------------------- MODULE Expansion ------------------------------
(***************************************************************************)
(* Mapping::expand over one frame: the validation of its columns           *)
(* (validation_inference.rs), the recursion _expand over the instances of  *)
(* a template, whose branches run in parallel, and create_triples          *)
(* (mapping.rs) with the constants of constant_terms.rs.                   *)
(* expand_default (default.rs) first makes a template for the frame.       *)
(*                                                                         *)
(* A frame is a sequence of rows, a row a function of column names; a cell *)
(* is a term, Null, or a list of these.  A constant is such a cell too.    *)
(***************************************************************************)
EXTENDS PTypes, FiniteSets, SequencesExt

CONSTANTS
    Terms,
    Null,
    Cells,        \* what a frame can hold
    TermType,     \* the basic type of every term
    UnknownTypes, \* of columns, that no type of XSD stands for
    OTTR_TRIPLE,
    DefaultPredicate,  \* what expand_default makes of the name of a column, or Null
    StackDepth,   \* calls of _expand that fit on the stack
    Expansions    \* the inputs: template, frame and options, in a dataset

ASSUME TermsAssumption == Null \notin Terms /\ <<>> \notin Terms \union {Null} /\ DOMAIN TermType = Terms
ASSUME DepthAssumption == StackDepth \in Nat
ASSUME CellsAssumption ==
    Terms \union {Null} \subseteq Cells /\ \A c \in Cells \ (Terms \union {Null}) : c \in Seq(Cells)

\* The basic types that the code names itself, and the names of a triple.
IRIType    == "anyURI"
StringType == "string"
BlankType  == "blank"
NoneType   == "none"
ASSUME NamedTypesAssumption == {IRIType, StringType, BlankType, NoneType} \subseteq BasicTypes
ASSUME UnknownTypesAssumption == UnknownTypes \subseteq BasicTypes

Subject == "subject"
Verb    == "verb"
Object  == "object"

Formal(template, n) == template.parameters[n].variable
Formals(template)   == { Formal(template, n) : n \in DOMAIN template.parameters }

\* What TemplateDataset::new sees to: there is ottr:Triple, as it adds it (no
\* document defines one of its own), and every instance names a template that has
\* as many parameters as the instance has arguments: variables, constants or lists
\* with variables in them.
IsDataset(templates) ==
    /\ IsFiniteSet(DOMAIN templates)
    /\ OTTR_TRIPLE \in DOMAIN templates
    /\ templates[OTTR_TRIPLE].pattern_list = <<>>
    /\ DOMAIN templates[OTTR_TRIPLE].parameters = 1 .. 3
    /\ [n \in 1 .. 3 |-> Formal(templates[OTTR_TRIPLE], n)] = <<Subject, Verb, Object>>
    /\ \A n \in 1 .. 3 : ~templates[OTTR_TRIPLE].parameters[n].optional
    /\ \A name \in DOMAIN templates :
          /\ templates[name].parameters \in Seq(Range(templates[name].parameters))
          /\ \A n \in DOMAIN templates[name].parameters : templates[name].parameters[n].ptype \in MaybeType
    /\ \A name \in DOMAIN templates : \A i \in DOMAIN templates[name].pattern_list :
          LET instance == templates[name].pattern_list[i]
          IN  /\ instance.template_name \in DOMAIN templates
              /\ DOMAIN instance.argument_list = DOMAIN templates[instance.template_name].parameters
              /\ \A n \in DOMAIN instance.argument_list :
                    LET term == instance.argument_list[n].term
                    IN  /\ term.is \in {"Variable", "Constant", "List"}
                        /\ term.is = "Constant" => term.value \in Cells

\* A data frame: a column holds what its type says, or nulls.
IsDataFrame(df) ==
    /\ DOMAIN df = {"dtypes", "rows"}
    /\ IsFiniteSet(DOMAIN df.dtypes)
    /\ df.rows \in Seq([DOMAIN df.dtypes -> Cells])
    /\ \A c \in DOMAIN df.dtypes :
          /\ df.dtypes[c] \in PType
          /\ \A m \in DOMAIN df.rows :
                df.rows[m][c] = Null \/ (df.rows[m][c] \in Terms <=> df.dtypes[c].lists = <<>>)

\* A call of expand_default, which has a key, makes a name of its own.
ASSUME ExpansionsAssumption ==
    \A e \in Expansions :
        /\ DOMAIN e = {"name", "prefixed", "templates", "df", "unique_subsets", "pk_col", "fk_cols"}
        /\ IsDataFrame(e.df)
        /\ IsDataset(e.templates)
        /\ e.pk_col # Null =>
            /\ e.name \notin DOMAIN e.templates
            /\ e.name \in DOMAIN e.prefixed => e.prefixed[e.name] \notin DOMAIN e.templates
            /\ \A c \in DOMAIN e.df.dtypes :
                  \/ DefaultPredicate[c] = Null
                  \/ DefaultPredicate[c] \in Terms /\ TermType[DefaultPredicate[c]] = IRIType

VARIABLES
    input,
    stage,       \* "default" or "called" at first, then "expanding", or how expand
                 \* ended: "ok", "error", "panicked", "overflowed"
    calls,       \* the calls of _expand that have not run yet
    instances,   \* OTTRTripleInstances, in the order of their paths
    failed,      \* a branch has returned an error
    added        \* the arguments of add_triples_vec

vars == <<input, stage, calls, instances, failed, added>>

Init ==
    /\ input \in Expansions
    /\ stage = IF input.pk_col = Null THEN "called" ELSE "default"
    /\ calls = {} /\ instances = {} /\ added = {}
    /\ failed = FALSE

\* f, and g where f is not defined.
Over(f, g) == [x \in DOMAIN f \union DOMAIN g |-> IF x \in DOMAIN f THEN f[x] ELSE g[x]]

\* The elements of s at the positions ns, in their order.
Picked(s, ns) == FlattenSeq([n \in DOMAIN s |-> IF n \in ns THEN <<s[n]>> ELSE <<>>])

----------------------------------------------------------------------------
\* The names a template can be called by, and the columns of its frame.

IsTemplate(name) == name \in DOMAIN input.templates
Resolved(name) ==
    IF ~IsTemplate(name) /\ name \in DOMAIN input.prefixed THEN input.prefixed[name] ELSE name
target == input.templates[Resolved(input.name)]

HasNull(df, c)  == \E m \in DOMAIN df.rows : df.rows[m][c] = Null
HasBlank(df, c) == \E m \in DOMAIN df.rows : df.rows[m][c] # Null /\ TermType[df.rows[m][c]] = BlankType
IsText(dtype)   == dtype = Basic(StringType)

\* An untyped parameter takes the type of its column; otherwise only the lists
\* have to match.
TypeOfColumn(parameter, dtype) == IF parameter.ptype = NoType THEN dtype ELSE parameter.ptype
ListsDiffer(parameter, dtype)  == Len(TypeOfColumn(parameter, dtype).lists) # Len(dtype.lists)

RefusesColumn(p, df) ==
    \/ p.variable \notin DOMAIN df.dtypes
    \/ ~p.optional /\ HasNull(df, p.variable)
    \/ /\ p.non_blank => IsText(df.dtypes[p.variable])
       /\ \/ p.non_blank /\ HasBlank(df, p.variable)
          \/ ListsDiffer(p, df.dtypes[p.variable])
PanicsOnColumn(p, df) ==
    /\ ~RefusesColumn(p, df)
    /\ \/ p.non_blank /\ ~IsText(df.dtypes[p.variable])
       \/ p.ptype = NoType /\ df.dtypes[p.variable].base \in UnknownTypes

\* A column is found once, by the first parameter of its name.
Repeats(parameters, n) == \E k \in 1 .. n - 1 : parameters[k].variable = parameters[n].variable
Refuses(parameters, n, df) == Repeats(parameters, n) \/ RefusesColumn(parameters[n], df)

\* The first column that is refused, or that the code cannot look at, decides.
FirstProblem(parameters, df) ==
    SelectInSeq([n \in DOMAIN parameters |-> n],
                LAMBDA n : Refuses(parameters, n, df) \/ PanicsOnColumn(parameters[n], df))
Validation(template, df) ==
    LET n == FirstProblem(template.parameters, df)
    IN  IF n # 0
        THEN IF Refuses(template.parameters, n, df) THEN "error" ELSE "panicked"
        ELSE IF DOMAIN df.dtypes \subseteq Formals(template) THEN "expanding" ELSE "error"

\* Of a type, a column keeps what is inside its lists.
ColumnTypes(template, df) ==
    [c \in Formals(template) |->
        LET p == template.parameters[CHOOSE n \in DOMAIN template.parameters : Formal(template, n) = c]
        IN  TypeOfColumn(p, df.dtypes[c]).base]

FirstCall ==
    [path |-> <<>>, name |-> Resolved(input.name), rows |-> input.df.rows,
     dynamic_columns |-> ColumnTypes(target, input.df), static_columns |-> <<>>,
     unique_subsets |-> input.unique_subsets]

Expand ==
    /\ stage = "called"
    /\ stage' = IF IsTemplate(Resolved(input.name)) THEN Validation(target, input.df) ELSE "error"
    /\ calls' = IF stage' = "expanding" THEN {FirstCall} ELSE {}
    /\ UNCHANGED <<input, instances, failed, added>>

----------------------------------------------------------------------------
\* expand_default: a template with a triple for every column but the key's.

IsKey(c) == c = input.pk_col \/ c \in input.fk_cols
IsListColumn(df, c) == df.dtypes[c].lists # <<>>
Columns(df) == SetToSeq(DOMAIN df.dtypes)
OtherColumns(df) == Picked(Columns(df), { n \in DOMAIN Columns(df) : Columns(df)[n] # input.pk_col })

DefaultParameter(df, c) ==
    [variable |-> c, optional |-> HasNull(df, c), non_blank |-> FALSE,
     ptype |-> IF IsKey(c) THEN Basic(IRIType) ELSE NoType]
Variable(c, expand) == [term |-> [is |-> "Variable", name |-> c], list_expand |-> expand]
DefaultInstance(df, c) ==
    [list_expander |-> IF IsListColumn(df, c) THEN "cross" ELSE "none",
     template_name |-> OTTR_TRIPLE,
     argument_list |-> << Variable(input.pk_col, FALSE),
                          [term |-> [is |-> "Constant", value |-> DefaultPredicate[c]], list_expand |-> FALSE],
                          Variable(c, IsListColumn(df, c)) >>]

\* Mutant of DefaultTemplate: what is true of the first row is taken for all.
DefaultTemplateOfHead(df) ==
    [parameters |-> [n \in DOMAIN Columns(df) |-> DefaultParameter([df EXCEPT !.rows = SubSeq(@, 1, Min({1, Len(@)}))], Columns(df)[n])],
     pattern_list |-> [n \in DOMAIN OtherColumns(df) |-> DefaultInstance(df, OtherColumns(df)[n])]]

DefaultTemplate(df) ==
    [parameters |-> [n \in DOMAIN Columns(df) |-> DefaultParameter(df, Columns(df)[n])],
     pattern_list |-> [n \in DOMAIN OtherColumns(df) |-> DefaultInstance(df, OtherColumns(df)[n])]]

\* A key of lists is a todo!(), and the name of a column has to make an IRI.
DefaultPanics ==
    \E c \in DOMAIN input.df.dtypes :
        \/ IsKey(c) /\ IsListColumn(input.df, c)
        \/ c # input.pk_col /\ DefaultPredicate[c] = Null

\* Keys are cast to text.
ExpandDefault ==
    /\ stage = "default"
    /\ \/ /\ DefaultPanics
          /\ stage' = "panicked"
          /\ UNCHANGED input
       \/ /\ ~DefaultPanics
          /\ stage' = "called"
          /\ input' = [input EXCEPT
                !.templates = Over([name \in {input.name} |-> DefaultTemplate(input.df)], @),
                !.df.dtypes = [c \in DOMAIN @ |-> IF IsKey(c) THEN Basic(StringType) ELSE @[c]]]
    /\ UNCHANGED <<calls, instances, failed, added>>

----------------------------------------------------------------------------
\* Constants.

IsList(value) == value \notin Terms \union {Null}
BasicOf(term) == Basic(IF term = Null THEN NoneType ELSE TermType[term])

\* The base type of a constant, and whether it can be an expression: the type
\* that a parameter asks for is asked of a list and of each of its elements.
BaseOf(value) == BasicOf(IF IsList(value) THEN value[Len(value)] ELSE value).base
TypesIn(value) ==
    IF IsList(value)
    THEN {ListOf("List", BasicOf(value[1]))} \union { BasicOf(t) : t \in ToSet(value) }
    ELSE {BasicOf(value)}
ConstantPanics(value) == value = <<>>

\* Mutant of ConstantFails: a parameter without a type accepts nothing.
ConstantFailsUntyped(value, ptype) == ~ConstantPanics(value) /\ TypesIn(value) # {ptype}

ConstantFails(value, ptype) ==
    /\ ~ConstantPanics(value)
    /\ \/ IsList(value) /\ \E t, u \in ToSet(value) : BasicOf(t) # BasicOf(u)
       \/ ptype # NoType /\ TypesIn(value) # {ptype}

\* A constant becomes a column as high as the frame, one row without a frame.
WithColumns(rows, columns, constants) ==
    IF columns = {} THEN IF DOMAIN constants = {} THEN <<>> ELSE << constants >>
    ELSE [m \in DOMAIN rows |-> Over(constants, rows[m])]

----------------------------------------------------------------------------
\* Lists: explode, and drop_nulls after zipMin.

\* What is no list is one item: the letters that polars makes of a text are left out.
Items(cell) == IF cell = <<>> THEN <<Null>> ELSE IF IsList(cell) THEN cell ELSE <<cell>>
Flat(rows, c) == FlattenSeq([m \in DOMAIN rows |-> Items(rows[m][c])])

\* The other columns follow the first of those that are flattened.
ExplodeOne(rows, c) ==
    FlattenSeq([m \in DOMAIN rows |->
                   [k \in DOMAIN Items(rows[m][c]) |-> [rows[m] EXCEPT ![c] = Items(@)[k]]]])
Explode(rows, cs) ==
    LET first == ExplodeOne(rows, cs[1])
    IN  [m \in DOMAIN first |->
            [c \in DOMAIN first[m] |-> IF c \in ToSet(cs) THEN Flat(rows, c)[m] ELSE first[m][c]]]

\* Only the heights of the flattened columns are compared.
ExplodeFails(rows, cs) == \E c \in ToSet(cs) : Len(Flat(rows, c)) # Len(Flat(rows, cs[1]))

ExplodeEach(rows, cs) == FoldLeft(ExplodeOne, rows, cs)
WithoutNulls(rows, cs) == Picked(rows, { m \in DOMAIN rows : \A c \in ToSet(cs) : rows[m][c] # Null })

ListExpanded(expander, rows, cs) ==
    CASE cs = <<>>             -> rows
      [] cs # <<>> /\ expander = "cross"  -> ExplodeEach(rows, cs)
      [] cs # <<>> /\ expander = "zipMin" -> WithoutNulls(Explode(rows, cs), cs)
      [] cs # <<>> /\ expander = "zipMax" -> Explode(rows, cs)
      [] OTHER               -> rows

----------------------------------------------------------------------------
\* create_remapped: the frame of an instance, named for the template it calls.

IsVariable(argument) == argument.term.is = "Variable"
IsConstant(argument) == argument.term.is = "Constant"
NameOf(argument)  == argument.term.name
ValueOf(argument) == argument.term.value

VariablesOf(instance) ==
    { n \in DOMAIN instance.argument_list : IsVariable(instance.argument_list[n]) }
NamesOf(instance) == { NameOf(instance.argument_list[n]) : n \in VariablesOf(instance) }

\* The arguments by what they become: a variable names a column of the frame or
\* a constant bound further up; a constant that is expanded becomes a column.
Dynamic(call, instance) ==
    { n \in VariablesOf(instance) : NameOf(instance.argument_list[n]) \in DOMAIN call.dynamic_columns }
Static(call, instance) ==
    { n \in VariablesOf(instance) \ Dynamic(call, instance) :
        NameOf(instance.argument_list[n]) \in DOMAIN call.static_columns }
Unknown(call, instance) == VariablesOf(instance) \ (Dynamic(call, instance) \union Static(call, instance))
ConstantArgs(instance) == { n \in DOMAIN instance.argument_list : IsConstant(instance.argument_list[n]) }
Unrolled(instance) == { n \in ConstantArgs(instance) : instance.argument_list[n].list_expand }
Fixed(instance)    == ConstantArgs(instance) \ Unrolled(instance)

\* The parameters of the arguments ns, and what is given for one of them: there
\* are as many arguments as parameters, and of parameters with one name the last
\* is inserted last.
FormalsAt(template, ns) == { Formal(template, n) : n \in ns }
Given(c, instance, template, ns) ==
    instance.argument_list[Max({ n \in ns : Formal(template, n) = c })]

\* The new columns that come from columns, with the names of these.
Renaming(call, instance, template) ==
    [c \in FormalsAt(template, Dynamic(call, instance)) |->
        NameOf(Given(c, instance, template, Dynamic(call, instance)))]

\* Mutant of Renamed: a column that has its new name already is left alone.
RenamedUnlessTaken(row, renaming) ==
    [c \in DOMAIN renaming |-> IF c \in DOMAIN row THEN row[c] ELSE row[renaming[c]]]

\* All columns are renamed at once, even if two swap their names.
Renamed(row, renaming) == [c \in DOMAIN renaming |-> row[renaming[c]]]

\* Mutant of KeptSubsets: what is left of a subset is kept.
SubsetsInPart(subsets, renaming) == { s \intersect Range(renaming) : s \in subsets } \ {{}}

\* Unique subsets stay unique where all their columns are handed on.
KeptSubsets(subsets, renaming) == { s \in subsets : s \subseteq Range(renaming) }

SubsetsFor(call, instance, template) ==
    LET renaming == Renaming(call, instance, template)
    IN  IF instance.list_expander # "none" THEN {}
        ELSE { { c \in DOMAIN renaming : renaming[c] \in s } : s \in KeptSubsets(call.unique_subsets, renaming) }

\* The frame before its lists are expanded.
UnrolledColumns(instance, template) ==
    [c \in FormalsAt(template, Unrolled(instance)) |-> ValueOf(Given(c, instance, template, Unrolled(instance)))]
RowsFor(call, instance, template) ==
    LET renaming == Renaming(call, instance, template)
    IN  WithColumns([m \in DOMAIN call.rows |-> Renamed(call.rows[m], renaming)],
                    DOMAIN renaming, UnrolledColumns(instance, template))

\* Columns of the frame come before those from constants.
Ordered(instance, ns) == Picked([n \in DOMAIN instance.argument_list |-> n], ns)
ToExpand(call, instance, template) ==
    LET dynamic == { n \in Dynamic(call, instance) : instance.argument_list[n].list_expand }
        ns == Ordered(instance, dynamic) \o Ordered(instance, Unrolled(instance))
    IN  [k \in DOMAIN ns |-> Formal(template, ns[k])]

\* The first argument that is refused, or that panics, decides; only then is the
\* frame formed, which has no column twice.
RefusesArgument(n, call, instance, template) ==
    \/ n \in Unknown(call, instance)
    \/ /\ n \in Unrolled(instance)
       /\ ConstantFails(ValueOf(instance.argument_list[n]), template.parameters[n].ptype)
PanicsOnArgument(n, instance) ==
    n \in Unrolled(instance) /\ ConstantPanics(ValueOf(instance.argument_list[n]))

RemapFails(call, instance, template) ==
    \E n \in DOMAIN instance.argument_list :
        /\ RefusesArgument(n, call, instance, template)
        /\ \A k \in 1 .. n - 1 : ~PanicsOnArgument(k, instance)
RemapPanics(call, instance, template) ==
    \/ \E n \in DOMAIN instance.argument_list :
          /\ PanicsOnArgument(n, instance)
          /\ \A k \in 1 .. n - 1 : ~RefusesArgument(k, call, instance, template)
    \/ /\ ~RemapFails(call, instance, template)
       /\ \/ \E n, k \in Dynamic(call, instance) \union Unrolled(instance) :
                n # k /\ Formal(template, n) = Formal(template, k)
          \/ /\ instance.list_expander \in {"zipMin", "zipMax"}
             /\ ExplodeFails(RowsFor(call, instance, template), ToExpand(call, instance, template))

DynamicFor(call, instance, template) ==
    LET dynamic == FormalsAt(template, Dynamic(call, instance))
    IN  [c \in dynamic \union FormalsAt(template, Unrolled(instance)) |->
            IF c \in dynamic THEN call.dynamic_columns[Renaming(call, instance, template)[c]]
            ELSE BaseOf(UnrolledColumns(instance, template)[c])]
StaticFor(call, instance, template) ==
    LET ns == Static(call, instance) \union Fixed(instance)
        given(c) == Given(c, instance, template, ns)
        ptype(c) == template.parameters[Max({ n \in ns : Formal(template, n) = c })].ptype
    IN  [c \in FormalsAt(template, ns) |->
            IF IsVariable(given(c)) THEN call.static_columns[NameOf(given(c))]
            ELSE [value |-> ValueOf(given(c)), ptype |-> ptype(c)]]

\* What "call" hands on to the template that its i-th instance names.
Remapped(call, i, instance, template) ==
    [path |-> Append(call.path, i), name |-> instance.template_name,
     rows |-> ListExpanded(instance.list_expander, RowsFor(call, instance, template),
                           ToExpand(call, instance, template)),
     dynamic_columns |-> DynamicFor(call, instance, template),
     static_columns  |-> StaticFor(call, instance, template),
     unique_subsets  |-> SubsetsFor(call, instance, template)]

----------------------------------------------------------------------------
\* _expand: every call is a step of its own, in any order.

InstancesOf(call) == input.templates[call.name].pattern_list
CalleeOf(instance) == input.templates[instance.template_name]

\* Counting the uses of variables meets a list, or a variable that is no column;
\* or a frame would have a column twice.
CannotCount(call) ==
    \E i \in DOMAIN InstancesOf(call) :
        LET instance == InstancesOf(call)[i]
        IN  \/ \E n \in DOMAIN instance.argument_list : instance.argument_list[n].term.is = "List"
            \/ ~(NamesOf(instance) \subseteq DOMAIN call.dynamic_columns)
            \/ Cardinality(NamesOf(instance)) # Cardinality(VariablesOf(instance))
Panics(call) ==
    \/ CannotCount(call)
    \/ \E i \in DOMAIN InstancesOf(call) :
          RemapPanics(call, InstancesOf(call)[i], CalleeOf(InstancesOf(call)[i]))

\* The instances whose branches go on.
Branches(call) ==
    { i \in DOMAIN InstancesOf(call) : ~RemapFails(call, InstancesOf(call)[i], CalleeOf(InstancesOf(call)[i])) }
RemappedAt(call, i) == Remapped(call, i, InstancesOf(call)[i], CalleeOf(InstancesOf(call)[i]))

Fits(call) == Len(call.path) < StackDepth

\* The recursion ends at ottr:Triple.
Emit(call) ==
    /\ Fits(call) /\ call.name = OTTR_TRIPLE
    /\ instances' = instances \union
            {[path |-> call.path, rows |-> call.rows,
              dynamic_columns |-> call.dynamic_columns, static_columns |-> call.static_columns,
              has_unique_subset |-> call.unique_subsets # {}]}
    /\ calls' = calls \ {call}
    /\ UNCHANGED <<input, stage, failed, added>>

\* A branch that fails does not keep the others from running.
Instantiate(call) ==
    /\ Fits(call) /\ call.name # OTTR_TRIPLE /\ ~Panics(call)
    /\ calls' = (calls \ {call}) \union { RemappedAt(call, i) : i \in Branches(call) }
    /\ failed' = (failed \/ Branches(call) # DOMAIN InstancesOf(call))
    /\ UNCHANGED <<input, stage, instances, added>>

InstantiatePanics(call) ==
    /\ Fits(call) /\ call.name # OTTR_TRIPLE /\ Panics(call)
    /\ stage' = "panicked"
    /\ UNCHANGED <<input, calls, instances, failed, added>>

\* Mutant of StackOverflows: the branch is cut.
CutTooDeep(call) ==
    /\ ~Fits(call)
    /\ calls' = calls \ {call}
    /\ UNCHANGED <<input, stage, instances, failed, added>>

StackOverflows(call) ==
    /\ ~Fits(call)
    /\ stage' = "overflowed"
    /\ UNCHANGED <<input, calls, instances, failed, added>>

----------------------------------------------------------------------------
\* process_results with create_triples.

\* The static columns that become columns of the frame: all but the verb.
Added(instance) == DOMAIN instance.static_columns \ {Verb}

IsPredicate(value) == ~IsList(value) /\ BasicOf(value) = Basic(IRIType)

CreateFails(instance) ==
    \/ \E c \in Added(instance) :
          ConstantFails(instance.static_columns[c].value, instance.static_columns[c].ptype)
    \/ Verb \in DOMAIN instance.static_columns /\ ~IsPredicate(instance.static_columns[Verb].value)
CreatePanics(instance) ==
    \E c \in Added(instance) : ConstantPanics(instance.static_columns[c].value)

\* An argument of add_triples_vec; the verb is Null if it is a column.
TriplesOf(instance) ==
    LET constants == [c \in Added(instance) |-> instance.static_columns[c].value]
        rows == WithColumns(instance.rows, DOMAIN instance.dynamic_columns, constants)
        is_static == Verb \in DOMAIN instance.static_columns
        columns == {Subject, Object} \union (IF is_static THEN {} ELSE {Verb})
    IN  [path |-> instance.path,
         rows |-> [m \in DOMAIN rows |-> [c \in columns |-> rows[m][c]]],
         object_type |-> IF Object \in Added(instance) THEN BaseOf(constants[Object])
                         ELSE instance.dynamic_columns[Object],
         static_verb |-> IF is_static THEN instance.static_columns[Verb].value ELSE Null,
         has_unique_subset |-> instance.has_unique_subset]

Expanded == stage = "expanding" /\ calls = {}

\* All instances are tried before the first error is returned, so that a panic
\* of one wins.
ProcessingFails  == \E i \in instances : CreateFails(i)
ProcessingPanics == \E i \in instances : CreatePanics(i)

\* Mutant of ProcessResults: what could be formed is added.
ProcessResultsInPart ==
    /\ Expanded
    /\ stage' = IF failed \/ ProcessingFails \/ ProcessingPanics THEN "error" ELSE "ok"
    /\ added' = { TriplesOf(i) : i \in { j \in instances : ~CreateFails(j) /\ ~CreatePanics(j) } }
    /\ UNCHANGED <<input, calls, instances, failed>>

ProcessResults ==
    /\ Expanded
    /\ stage' = IF failed THEN "error"
                ELSE IF ProcessingPanics THEN "panicked"
                ELSE IF ProcessingFails THEN "error" ELSE "ok"
    /\ added' = IF stage' = "ok" THEN { TriplesOf(i) : i \in instances } ELSE {}
    /\ UNCHANGED <<input, calls, instances, failed>>

----------------------------------------------------------------------------
Next ==
    \/ ExpandDefault
    \/ Expand
    \/ /\ stage = "expanding"
       /\ \E call \in calls : \/ Emit(call)
                              \/ Instantiate(call)
                              \/ InstantiatePanics(call)
                              \/ StackOverflows(call)
    \/ ProcessResults

Spec == Init /\ [][Next]_vars
=============================================================================

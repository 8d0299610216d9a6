------------------------ MODULE ExpansionProperties -------------------------
(***************************************************************************)
(* What the expansion of a frame should be, row by row: a row gives the    *)
(* parameters of a template their values, and an instance stands for what  *)
(* its own template says of the values of its arguments.                   *)
(***************************************************************************)
EXTENDS ExpansionSafety

----------------------------------------------------------------------------
\* The definition of OTTR.  A value is a cell with the basic type it is written
\* with; env gives every parameter its value.

ValueIn(argument, env) ==
    IF IsVariable(argument) THEN env[NameOf(argument)]
    ELSE [cell |-> ValueOf(argument), type |-> BaseOf(ValueOf(argument))]

CellAt(instance, n, env) == ValueIn(instance.argument_list[n], env).cell

\* The definition has no element for a list that is empty or missing; the code
\* explodes it into a none.
ElementsBy(cell, exploded) == IF exploded THEN Items(cell) ELSE Elements(cell)
ElementAt(list, k) == IF k \in DOMAIN list THEN list[k] ELSE Null

\* The arguments that a list expander expands, and the positions in their lists
\* that it brings together.
ExpandedOf(instance) ==
    { n \in DOMAIN instance.argument_list :
        instance.list_expander \in {"cross", "zipMin", "zipMax"} /\ instance.argument_list[n].list_expand }
PositionsAt(instance, n, env, exploded) == DOMAIN ElementsBy(CellAt(instance, n, env), exploded)
ChoicesOf(instance, env, exploded) ==
    LET positions == UNION { PositionsAt(instance, n, env, exploded) : n \in ExpandedOf(instance) }
        each == { x \in [ExpandedOf(instance) -> positions] :
                    \A n \in ExpandedOf(instance) : x[n] \in PositionsAt(instance, n, env, exploded) }
        same == { [n \in ExpandedOf(instance) |-> k] : k \in positions }
    IN  IF ExpandedOf(instance) = {} \/ instance.list_expander = "cross" THEN each
        ELSE IF instance.list_expander = "zipMin" THEN each \intersect same ELSE same

\* The values of the parameters of the template that an instance names, for each
\* of these choices.
ArgumentFor(c, instance, template) == CHOOSE n \in DOMAIN instance.argument_list : Formal(template, n) = c
PickedAt(instance, n, env, x, exploded) ==
    IF n \in ExpandedOf(instance) THEN ElementAt(ElementsBy(CellAt(instance, n, env), exploded), x[n])
    ELSE CellAt(instance, n, env)
EnvFor(instance, env, x, exploded) ==
    LET template == input.templates[instance.template_name]
    IN  [c \in Formals(template) |->
            LET n == ArgumentFor(c, instance, template)
            IN  [cell |-> PickedAt(instance, n, env, x, exploded),
                 type |-> ValueIn(instance.argument_list[n], env).type]]
EnvsOf(instance, env, exploded) ==
    { EnvFor(instance, env, x, exploded) : x \in ChoicesOf(instance, env, exploded) }

\* None for a parameter that is not optional: the instance says nothing.
IsIgnored(name, env) ==
    \E n \in DOMAIN input.templates[name].parameters :
        LET p == input.templates[name].parameters[n]
        IN  ~p.optional /\ env[p.variable].cell = Null

\* A template with the values of its parameters, and those its instances lead to.
BodyOf(name) == input.templates[name].pattern_list
CalledBy(x, exploded) ==
    UNION { { <<BodyOf(x[1])[i].template_name, e>> : e \in EnvsOf(BodyOf(x[1])[i], x[2], exploded) } :
            i \in DOMAIN BodyOf(x[1]) }

\* No template calls another through more than all there are.
Levels == 0 .. Cardinality(DOMAIN input.templates)

RowEnvs ==
    { [c \in Formals(target) |-> [cell |-> input.df.rows[m][c], type |-> FirstCall.dynamic_columns[c]]] :
        m \in DOMAIN input.df.rows }
Denoted[n \in Nat] ==
    IF n = 0 THEN { <<FirstCall.name, e>> : e \in RowEnvs }
    ELSE UNION { CalledBy(x, FALSE) : x \in { y \in Denoted[n - 1] : ~IsIgnored(y[1], y[2]) } }

TripleFor(env) ==
    [s |-> env[Subject].cell, v |-> env[Verb].cell, o |-> env[Object].cell, type |-> env[Object].type]
TriplesOfRows ==
    { TripleFor(x[2]) : x \in { y \in UNION { Denoted[n] : n \in Levels } :
                                    y[1] = OTTR_TRIPLE /\ ~IsIgnored(y[1], y[2]) } }

----------------------------------------------------------------------------
\* Where the code follows the definition.

\* No list of constants has the type that a parameter asks for: it would have to
\* be that of the list and of its elements.
HasType(term, type) == IF term = Null THEN type = NoneType ELSE TermType[term] = type
FitsParameter(value, ptype) ==
    IF value \in Terms \union {Null}
    THEN ptype # NoType => ptype.lists = <<>> /\ HasType(value, ptype.base)
    ELSE /\ value # <<>> /\ ptype = NoType
         /\ \E type \in BasicTypes : \A n \in DOMAIN value : HasType(value[n], type)
ConstantsFit(instance, template, ns) ==
    \A n \in ns :
        IsConstant(instance.argument_list[n]) =>
            FitsParameter(ValueOf(instance.argument_list[n]), template.parameters[n].ptype)

HasDistinctNames(template) ==
    \A n, k \in DOMAIN template.parameters : Formal(template, n) = Formal(template, k) => n = k

\* An instance by itself.
IsPlain(instance) ==
    LET args == instance.argument_list
        template == input.templates[instance.template_name]
    IN  /\ HasDistinctNames(template)
        /\ \A n \in DOMAIN args : args[n].term.is # "List"
        /\ \A n, k \in VariablesOf(instance) : NameOf(args[n]) = NameOf(args[k]) => n = k
        /\ ConstantsFit(instance, template, { n \in DOMAIN args : args[n].list_expand })
        /\ instance.template_name = OTTR_TRIPLE =>
            /\ ConstantsFit(instance, template, DOMAIN args \ {2})
            /\ IsConstant(args[2]) /\ ~args[2].list_expand =>
                    ValueOf(args[2]) \in Terms /\ TermType[ValueOf(args[2])] = IRIType
StaticOf(instance) ==
    { Formal(input.templates[instance.template_name], n) :
        n \in { k \in DOMAIN instance.argument_list :
                    IsConstant(instance.argument_list[k]) /\ ~instance.argument_list[k].list_expand } }
\* No variable is a list, twice in an instance, or no parameter, no two parameters
\* have one name, all constants have the types asked for, and what is bound to a
\* constant is not used further down.
CanBeFormed(name, instance) ==
    /\ NamesOf(instance) \subseteq Formals(input.templates[name])
    /\ IsPlain(instance)
    /\ \A j \in DOMAIN BodyOf(instance.template_name) :
            NamesOf(BodyOf(instance.template_name)[j]) \intersect StaticOf(instance) = {}

\* What is expanded is a list; what is zipped has as many elements in every row.
ListsFit(instance, env) ==
    /\ \A n \in ExpandedOf(instance) : CellAt(instance, n, env) \notin Terms
    /\ instance.list_expander \in {"zipMin", "zipMax"} =>
        \A n, k \in ExpandedOf(instance) :
            Len(Items(CellAt(instance, n, env))) = Len(Items(CellAt(instance, k, env)))

\* Where none is met: the code makes one of an empty list, and ignores no instance
\* for a none but a triple.
MeetsNone(instance, env) ==
    \E n \in DOMAIN instance.argument_list :
        IF n \in ExpandedOf(instance) THEN Null \in ToSet(Items(CellAt(instance, n, env)))
        ELSE CellAt(instance, n, env) = Null /\ ~input.templates[instance.template_name].parameters[n].optional

\* The templates that the rows of the frame lead to, with the values they meet
\* once empty lists are nones; a frame without rows still leads to them.
RowsMet ==
    IF input.df.rows # <<>> THEN RowEnvs
    ELSE { [c \in Formals(target) |-> [cell |-> Null, type |-> FirstCall.dynamic_columns[c]]] }
Met[n \in Nat] ==
    IF n = 0 THEN { <<FirstCall.name, e>> : e \in RowsMet } ELSE UNION { CalledBy(x, TRUE) : x \in Met[n - 1] }
EverMet == UNION { Met[n] : n \in Levels }

Reached[n \in Nat] == IF n = 0 THEN {FirstCall.name} ELSE UNION { Callees(name) : name \in Reached[n - 1] }
EverReached == UNION { Reached[n] : n \in Levels }

\* A frame without rows is left out: the code makes a row where all is constant.
NoneOnlyInTriples ==
    /\ input.df.rows # <<>>
    /\ \A x \in EverMet : \A i \in DOMAIN BodyOf(x[1]) :
          BodyOf(x[1])[i].template_name = OTTR_TRIPLE \/ ~MeetsNone(BodyOf(x[1])[i], x[2])

\* A template of that name with different parameters, and a frame with its columns and no others.
HasColumn(df, p) ==
    LET cells == { df.rows[m][p.variable] : m \in DOMAIN df.rows }
        dtype == df.dtypes[p.variable]
    IN  /\ Null \in cells => p.optional
        /\ p.non_blank => dtype = Basic(StringType) /\ \A t \in cells \ {Null} : TermType[t] # BlankType
        /\ IF p.ptype = NoType THEN dtype.base \notin UnknownTypes ELSE Len(p.ptype.lists) = Len(dtype.lists)
IsValid ==
    /\ IsTemplate(Resolved(input.name)) /\ HasDistinctNames(target)
    /\ DOMAIN input.df.dtypes = Formals(target)
    /\ \A n \in DOMAIN target.parameters : HasColumn(input.df, target.parameters[n])
IsSafe ==
    /\ IsValid /\ ~HasCycle
    /\ \A name \in EverReached : \A i \in DOMAIN BodyOf(name) : CanBeFormed(name, BodyOf(name)[i])
    /\ \A x \in EverMet : \A i \in DOMAIN BodyOf(x[1]) : ListsFit(BodyOf(x[1])[i], x[2])

----------------------------------------------------------------------------
\* Properties.

\* What is added is what the definition says of every row of the frame: through
\* nested templates with their columns renamed, swapped, exploded or joined by
\* constants, in whatever order the branches have run.
TriplesAreExact ==
    stage = "ok" /\ IsSafe /\ NoneOnlyInTriples =>
        UNION { TriplesIn(t) : t \in added } = TriplesOfRows

\* Expansion fails, panics or overflows the stack only for a reason that can be
\* read off the templates, the constants and the lists.
SafeInputsAreExpanded == stage \in {"error", "panicked", "overflowed"} => ~IsSafe
=============================================================================

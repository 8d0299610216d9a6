-------------------------- MODULE TemplateDataset ---------------------------
(***************************************************************************)
(* TemplateDataset::new in templates.rs: documents are merged one by one,  *)
(* then the types of the templates' parameters are inferred from the       *)
(* templates they are passed to, round by round.                           *)
(***************************************************************************)
EXTENDS PTypes

CONSTANTS
    Prefixes,
    IRIs,
    Undefined,     \* of a prefix without an IRI
    Names,         \* of templates
    OTTR_TRIPLE,   \* the name of the predefined one
    Variables,
    Constant,      \* an argument that is not a variable
    AnyURI,        \* a basic type
    DocumentLists  \* the arguments of new

Parameter == [variable : Variables, optional : BOOLEAN, ptype : MaybeType]
Argument  == [term : Variables \union {Constant}, list_expand : BOOLEAN]
Instance  == [template_name : Names, argument_list : Seq(Argument)]
Template  == [name : Names, parameters : Seq(Parameter), pattern_list : Seq(Instance)]
Document  == [prefix_map : [Prefixes -> IRIs \union {Undefined}], templates : Seq(Template)]

ASSUME DocumentsAssumption == \A ds \in DocumentLists : ds \in Seq(Document)
ASSUME NamesAssumption ==
    /\ OTTR_TRIPLE \in Names /\ AnyURI \in BasicTypes
    /\ {"subject", "verb", "object"} \subseteq Variables
    /\ Constant \notin Variables /\ Undefined \notin IRIs

VARIABLES
    stage,             \* "merge", "infer", or how new returned: "inferred",
                       \* "arity", "incompatible", "panicked"
    documents,
    d,                 \* the document that the merge has come to
    prefix_map,        \* Undefined where there is no entry
    defined_prefixes,
    templates,
    types,             \* the ptype of every parameter, by template and position
    i,                 \* the template that the round has come to
    inner_changed

merging   == <<documents, d, prefix_map, defined_prefixes>>
inference == <<types, i, inner_changed>>
vars == <<stage, merging, templates, inference>>

OttrTemplate ==
    [name |-> OTTR_TRIPLE,
     parameters |-> << [variable |-> "subject", optional |-> FALSE, ptype |-> Basic(AnyURI)],
                       [variable |-> "verb",    optional |-> FALSE, ptype |-> Basic(AnyURI)],
                       [variable |-> "object",  optional |-> FALSE, ptype |-> NoType] >>,
     pattern_list |-> <<>>]

Init ==
    /\ stage = "merge"
    /\ documents \in DocumentLists
    /\ d = 1
    /\ prefix_map = [k \in Prefixes |-> Undefined]
    /\ defined_prefixes = {}
    /\ templates = <<>>
    /\ types = <<>>
    /\ i = 1
    /\ inner_changed = FALSE

----------------------------------------------------------------------------
\* The loop over the documents.

\* Mutant of Merged: a prefix without an entry is entered again.
MergedIntoGaps(map, k) ==
    IF map[k] = Undefined THEN prefix_map[k]
    ELSE IF prefix_map[k] = Undefined THEN map[k]
    ELSE IF prefix_map[k] = map[k] THEN map[k] ELSE Undefined

\* A prefix that another document has defined otherwise is removed, for good.
Merged(map, k) ==
    IF map[k] = Undefined THEN prefix_map[k]
    ELSE IF k \notin defined_prefixes THEN map[k]
    ELSE IF prefix_map[k] = map[k] THEN map[k] ELSE Undefined

MergeDocument ==
    /\ stage = "merge" /\ d <= Len(documents)
    /\ prefix_map' = [k \in Prefixes |-> Merged(documents[d].prefix_map, k)]
    /\ defined_prefixes' = defined_prefixes
            \union { k \in Prefixes : documents[d].prefix_map[k] # Undefined }
    /\ templates' = templates \o documents[d].templates
    /\ d' = d + 1
    /\ UNCHANGED <<stage, documents, inference>>

\* The parameters of the templates: pairs of template and position.
ParametersOf(ts) ==
    UNION { {t} \X (1 .. Len(ts[t].parameters)) : t \in 1 .. Len(ts) }
DeclaredTypes(ts) == [x \in ParametersOf(ts) |-> ts[x[1]].parameters[x[2]].ptype]

StartInference ==
    /\ stage = "merge" /\ d > Len(documents)
    /\ templates' = Append(templates, OttrTemplate)
    /\ types' = DeclaredTypes(templates')
    /\ stage' = "infer"
    /\ UNCHANGED <<merging, i, inner_changed>>

----------------------------------------------------------------------------
\* infer_types: one step for each template of a round.

\* The template that an instance of t names: the first of the others.
Others(t, name)  == { o \in 1 .. Len(templates) : o # t /\ templates[o].name = name }
Callee(t, name)  == CHOOSE o \in Others(t, name) : \A o2 \in Others(t, name) : o <= o2
CalleeOf(t, n)   == Callee(t, templates[t].pattern_list[n].template_name)

Instances(t)     == 1 .. Len(templates[t].pattern_list)
IsMissing(t, n)  == Others(t, templates[t].pattern_list[n].template_name) = {}
HasBadArity(t, n) ==
    /\ ~IsMissing(t, n)
    /\ Len(templates[t].pattern_list[n].argument_list)
         # Len(templates[CalleeOf(t, n)].parameters)

\* A use <<n, a, p>> of template t: argument a of instance n is the variable of
\* parameter p.
Uses(t) ==
    { u \in UNION { {n} \X (1 .. Len(templates[t].pattern_list[n].argument_list))
                        \X (1 .. Len(templates[t].parameters)) : n \in Instances(t) } :
        /\ ~IsMissing(t, u[1]) /\ ~HasBadArity(t, u[1])
        /\ templates[t].pattern_list[u[1]].argument_list[u[2]].term
             = templates[t].parameters[u[3]].variable }

\* The type that a use asks for, by the types ty of the parameters.
Asked(ty, t, u) ==
    LET callee    == CalleeOf(t, u[1])
        parameter == templates[callee].parameters[u[2]]
        other     == ty[<<callee, u[2]>>]
    IN  IF other = NoType \/ ~templates[t].pattern_list[u[1]].argument_list[u[2]].list_expand
        THEN other
        ELSE ListOf(IF parameter.optional THEN "List" ELSE "NEList", other)

\* lub_update: whether a use fails or changes the parameter's type, and the type
\* it becomes.
Clashes(t, u) ==
    LET mine == types[<<t, u[3]>>] right == Asked(types, t, u)
    IN  mine # NoType /\ right # NoType /\ ~Compatible(mine, right)
Updated(mine, right) ==
    IF right = NoType THEN mine ELSE IF mine = NoType THEN right ELSE Lub(mine, right)
Matters(t, u) ==
    Clashes(t, u) \/ Updated(types[<<t, u[3]>>], Asked(types, t, u)) # types[<<t, u[3]>>]

\* "changed = changed || lub_update(..)": after the first update of a template
\* the other uses are not looked at, but all instances are.
Before(u, w) == \/ u[1] < w[1]
                \/ u[1] = w[1] /\ u[2] < w[2]
                \/ u[1] = w[1] /\ u[2] = w[2] /\ u[3] < w[3]
UsesThatMatter(t) == { u \in Uses(t) : Matters(t, u) }
FirstThatMatters(t, u) ==
    u \in UsesThatMatter(t) /\ \A w \in UsesThatMatter(t) : w # u => Before(u, w)

\* The instances that are looked at: those up to a clash.
Reached(t) ==
    { n \in Instances(t) : ~\E u \in Uses(t) :
        FirstThatMatters(t, u) /\ Clashes(t, u) /\ u[1] < n }
FailsAt(t, n) == n \in Reached(t) /\ (IsMissing(t, n) \/ HasBadArity(t, n))
FirstFailure(t, n) == FailsAt(t, n) /\ \A n2 \in Instances(t) : FailsAt(t, n2) => n <= n2

\* "inner_changed = inner_changed || infer_template_types(..)": after the first
\* change of a round the other templates are not looked at.
Visits == stage = "infer" /\ i <= Len(templates) /\ ~inner_changed

Skip ==
    /\ stage = "infer" /\ i <= Len(templates) /\ inner_changed
    /\ i' = i + 1
    /\ UNCHANGED <<stage, merging, templates, types, inner_changed>>

\* find(..).unwrap(), or the error InconsistentNumberOfArguments.
VisitFails ==
    /\ Visits
    /\ \E n \in Instances(i) :
          /\ FirstFailure(i, n)
          /\ stage' = IF IsMissing(i, n) THEN "panicked" ELSE "arity"
    /\ UNCHANGED <<merging, templates, inference>>

\* The error IncompatibleTypes of lub.
VisitClashes ==
    /\ Visits
    /\ \A n \in Instances(i) : ~FailsAt(i, n)
    /\ \E u \in Uses(i) : FirstThatMatters(i, u) /\ Clashes(i, u)
    /\ stage' = "incompatible"
    /\ UNCHANGED <<merging, templates, inference>>

VisitUpdates ==
    /\ Visits
    /\ \A n \in Instances(i) : ~FailsAt(i, n)
    /\ \E u \in Uses(i) :
          /\ FirstThatMatters(i, u) /\ ~Clashes(i, u)
          /\ types' = [types EXCEPT ![<<i, u[3]>>] = Updated(@, Asked(types, i, u))]
    /\ inner_changed' = TRUE
    /\ i' = i + 1
    /\ UNCHANGED <<stage, merging, templates>>

VisitChangesNothing ==
    /\ Visits
    /\ \A n \in Instances(i) : ~FailsAt(i, n)
    /\ UsesThatMatter(i) = {}
    /\ i' = i + 1
    /\ UNCHANGED <<stage, merging, templates, types, inner_changed>>

\* Mutant of EndRound: the first round is the last.
EndFirstRound ==
    /\ stage = "infer" /\ i > Len(templates)
    /\ stage' = "inferred"
    /\ UNCHANGED <<merging, templates, inference>>

\* Mutant of EndRound: inner_changed is not reset.
EndRoundChanged ==
    /\ stage = "infer" /\ i > Len(templates)
    /\ IF inner_changed THEN i' = 1 /\ UNCHANGED stage ELSE stage' = "inferred" /\ UNCHANGED i
    /\ UNCHANGED <<merging, templates, types, inner_changed>>

EndRound ==
    /\ stage = "infer" /\ i > Len(templates)
    /\ IF inner_changed
       THEN i' = 1 /\ inner_changed' = FALSE /\ UNCHANGED stage
       ELSE stage' = "inferred" /\ UNCHANGED <<i, inner_changed>>
    /\ UNCHANGED <<merging, templates, types>>

InferTypes == Skip \/ VisitFails \/ VisitClashes \/ VisitUpdates \/ VisitChangesNothing \/ EndRound

Next == MergeDocument \/ StartInference \/ InferTypes

Spec == Init /\ [][Next]_vars /\ WF_vars(Next)
=============================================================================

--------------------- MODULE TemplateDatasetProperties ----------------------
(***************************************************************************)
(* What a template dataset should be, whatever the order of the documents  *)
(* and of the templates in them.                                           *)
(***************************************************************************)
EXTENDS TemplateDataset

CONSTANT Candidates   \* types that a parameter may be given

ASSUME CandidatesAssumption == Candidates \subseteq MaybeType

\* A typing gives every parameter a type that is its declared type or refines
\* it, and that is or refines what the instances in its template ask for.
Solves(ty) ==
    /\ \A x \in ParametersOf(templates) : Below(DeclaredTypes(templates)[x], ty[x])
    /\ \A t \in 1 .. Len(templates) : \A u \in Uses(t) :
          Below(Asked(ty, t, u), ty[<<t, u[3]>>])

\* The assignments of candidates to parameters; ottr:Triple, the last template,
\* has no instances and keeps its declared types.
Typings ==
    LET own == { x \in ParametersOf(templates) : x[1] < Len(templates) }
    IN  { [x \in ParametersOf(templates) |->
              IF x \in own THEN f[x] ELSE DeclaredTypes(templates)[x]] :
          f \in [own -> Candidates] }

\* The inferred types are the least typing, although each round stops at its
\* first change and templates may call each other in cycles.
LeastTyping ==
    stage = "inferred" =>
        /\ Solves(types)
        /\ \A ty \in Typings : Solves(ty) =>
              \A x \in ParametersOf(templates) : Below(types[x], ty[x])

\* Types are found incompatible only where there is no typing.
IncompatibleMeansUntypable == stage = "incompatible" => \A ty \in Typings : ~Solves(ty)

\* A prefix stands for an IRI as long as one document says so and none says
\* otherwise: "unless there are conflicting prefix-definitions"
\* (src/doc/python_mapper_api.md:37).
PrefixesAgree ==
    \A k \in Prefixes :
        LET iris == { documents[e].prefix_map[k] : e \in 1 .. d - 1 } \ {Undefined}
        IN  IF \E v \in iris : iris = {v} THEN prefix_map[k] \in iris ELSE prefix_map[k] = Undefined

\* Reading the documents and the rounds of inference end.
InferenceEnds == <>(stage \notin {"read", "merge", "infer"})
=============================================================================

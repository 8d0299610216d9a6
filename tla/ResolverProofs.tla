--------------------------- MODULE ResolverProofs ---------------------------
(***************************************************************************)
(* Proofs, for any documents in any order, that the inferred types are the *)
(* least typing, that an error of types means there is none, and that the  *)
(* prefixes are those on which the documents agree; and for any sources,   *)
(* that all this holds when the documents are read from texts, and that    *)
(* the names in them, and those a caller gives, stand for what is written. *)
(***************************************************************************)
EXTENDS ResolverProperties, SequenceTheorems, WellFoundedInduction, TLAPS

----------------------------------------------------------------------------
\* The order of types

LEMMA BelowReflexive ==
    ASSUME NEW t \in MaybeType PROVE Below(t, t)
BY DEF MaybeType, Below

LEMMA BelowTransitive ==
    ASSUME NEW r \in MaybeType, NEW s \in MaybeType, NEW t \in MaybeType,
           Below(r, s), Below(s, t)
    PROVE  Below(r, t)
BY DEF MaybeType, PType, Below

\* Lub gives a type, and the least one above both.
LEMMA LubIsType ==
    ASSUME NEW s \in PType, NEW t \in PType, Compatible(s, t)
    PROVE  /\ Lub(s, t) \in PType
           /\ Lub(s, t).base = s.base
           /\ Len(Lub(s, t).lists) = Len(s.lists)
           /\ \A n \in 1 .. Len(s.lists) : Lub(s, t).lists[n] =
                 IF s.lists[n] = "List" THEN t.lists[n] ELSE "NEList"
<1> DEFINE ls == [n \in 1 .. Len(s.lists) |->
                     IF s.lists[n] = "List" THEN t.lists[n] ELSE "NEList"]
<1>1. Lub(s, t) = [lists |-> ls, base |-> s.base]
    BY DEF Lub
<1>2. ls \in Seq(Constructors) /\ Len(ls) = Len(s.lists)
  <2>1. Len(s.lists) \in Nat /\ Len(t.lists) = Len(s.lists)
      BY DEF PType, Compatible
  <2>2. \A n \in 1 .. Len(s.lists) : ls[n] \in Constructors
      BY <2>1 DEF PType, Constructors
  <2> DEFINE len == Len(s.lists)
  <2>6. ls \in [1 .. len -> Constructors] /\ len \in Nat
      BY <2>1, <2>2
  <2>3. ls \in Seq(Constructors)
    <3> HIDE DEF ls, len
    <3> QED BY <2>6, SeqDef
  <2>4. Len(s.lists) \in Nat /\ DOMAIN ls = 1 .. Len(s.lists)
      BY <2>1
  <2>5. Len(ls) = Len(s.lists)
      BY <2>3, <2>4
  <2> QED BY <2>3, <2>5
<1> QED BY <1>1, <1>2 DEF PType

LEMMA LubUpper ==
    ASSUME NEW s \in PType, NEW t \in PType, Compatible(s, t)
    PROVE  Below(s, Lub(s, t)) /\ Below(t, Lub(s, t))
BY LubIsType, NoTypeAssumption DEF Below, Compatible, PType, Constructors

LEMMA LubLeast ==
    ASSUME NEW s \in PType, NEW t \in PType, NEW u \in MaybeType, Below(s, u), Below(t, u)
    PROVE  Compatible(s, t) /\ Below(Lub(s, t), u)
<1>1. Compatible(s, t)
    BY NoTypeAssumption DEF Below, Compatible
<1>2. u # NoType /\ s.base = u.base /\ Len(s.lists) = Len(u.lists)
    BY NoTypeAssumption DEF Below
<1>3. \A n \in 1 .. Len(s.lists) : Lub(s, t).lists[n] = "NEList" => u.lists[n] = "NEList"
  <2> TAKE n \in 1 .. Len(s.lists)
  <2>1. Lub(s, t).lists[n] = IF s.lists[n] = "List" THEN t.lists[n] ELSE "NEList"
      BY <1>1, LubIsType
  <2>2. s.lists[n] = "List" \/ s.lists[n] = "NEList"
      BY DEF PType, Constructors
  <2>3. s.lists[n] = "NEList" => u.lists[n] = "NEList"
      BY NoTypeAssumption DEF Below
  <2>4. t.lists[n] = "NEList" => u.lists[n] = "NEList"
      BY <1>1, NoTypeAssumption DEF Below, Compatible
  <2> QED BY <2>1, <2>2, <2>3, <2>4
<1> QED BY <1>1, <1>2, <1>3, LubIsType, NoTypeAssumption DEF Below

LEMMA ListOfIsType ==
    ASSUME NEW k \in Constructors, NEW t \in PType
    PROVE  /\ ListOf(k, t) \in PType
           /\ ListOf(k, t).base = t.base
           /\ Len(ListOf(k, t).lists) = Len(t.lists) + 1
           /\ \A n \in 1 .. Len(t.lists) + 1 : ListOf(k, t).lists[n] =
                 IF n = 1 THEN k ELSE t.lists[n - 1]
<1> DEFINE ls == <<k>> \o t.lists
<1>1. ListOf(k, t) = [lists |-> ls, base |-> t.base]
    BY DEF ListOf
<1>2. t.lists \in Seq(Constructors)
    BY DEF PType
<1>3. ls \in Seq(Constructors)
    BY <1>2
<1>4. Len(ls) = Len(t.lists) + 1
    BY <1>2
<1>5. \A n \in 1 .. Len(t.lists) + 1 : ls[n] = IF n = 1 THEN k ELSE t.lists[n - 1]
    BY <1>2
<1> QED BY <1>1, <1>3, <1>4, <1>5 DEF PType

LEMMA ListOfMonotone ==
    ASSUME NEW k \in Constructors, NEW s \in PType, NEW t \in PType, Below(s, t)
    PROVE  Below(ListOf(k, s), ListOf(k, t))
<1>1. s.base = t.base /\ Len(s.lists) = Len(t.lists)
    BY NoTypeAssumption DEF Below
<1>2. \A n \in 1 .. Len(s.lists) : s.lists[n] = "NEList" => t.lists[n] = "NEList"
    BY NoTypeAssumption DEF Below
<1>3. Len(s.lists) \in Nat
    BY DEF PType
<1>4. \A n \in 1 .. Len(s.lists) + 1 :
         ListOf(k, s).lists[n] = "NEList" => ListOf(k, t).lists[n] = "NEList"
  <2> TAKE n \in 1 .. Len(s.lists) + 1
  <2>1. CASE n = 1
      BY <2>1, <1>1, <1>3, ListOfIsType
  <2>2. CASE n # 1
    <3>1. n - 1 \in 1 .. Len(s.lists)
        BY <2>2, <1>3
    <3>2. ListOf(k, s).lists[n] = s.lists[n - 1]
        BY <2>2, ListOfIsType
    <3>3. ListOf(k, t).lists[n] = t.lists[n - 1]
        BY <2>2, <1>1, ListOfIsType
    <3> QED BY <3>1, <3>2, <3>3, <1>2
  <2> QED BY <2>1, <2>2
<1> QED BY <1>1, <1>4, ListOfIsType, NoTypeAssumption DEF Below

LEMMA LeastNumber ==
    ASSUME NEW S, S \subseteq Nat, S # {} PROVE \E n \in S : \A m \in S : n <= m
<1>1. PICK n \in S : \A m \in S : ~(<<m, n>> \in OpToRel(<, Nat))
    BY NatLessThanWellFounded, WFMin
<1>2. ASSUME NEW m \in S PROVE n <= m
  <2>1. m \in Nat /\ n \in Nat /\ <<m, n>> \notin OpToRel(<, Nat)
      BY <1>1
  <2>2. ~(m < n)
      BY <2>1 DEF OpToRel
  <2>3. m \in Nat /\ n \in Nat
      BY <2>1
  <2> QED BY <2>2, <2>3
<1> QED BY <1>2

\* lub_update: the updated type is above the old one, below every type above the
\* old one and the one asked for, and the old one only if nothing more is asked.
LEMMA UpdatedLeast ==
    ASSUME NEW mine \in MaybeType, NEW right \in MaybeType, NEW goal \in MaybeType,
           Below(mine, goal), Below(right, goal)
    PROVE  /\ mine # NoType /\ right # NoType => Compatible(mine, right)
           /\ Below(Updated(mine, right), goal)
<1>1. CASE mine = NoType \/ right = NoType
    BY <1>1 DEF Updated
<1>2. CASE mine # NoType /\ right # NoType
    BY <1>2, LubLeast DEF Updated, MaybeType
<1> QED BY <1>1, <1>2

LEMMA UpdatedUpper ==
    ASSUME NEW mine \in MaybeType, NEW right \in MaybeType,
           mine # NoType /\ right # NoType => Compatible(mine, right)
    PROVE  /\ Updated(mine, right) \in MaybeType
           /\ Below(mine, Updated(mine, right))
           /\ Updated(mine, right) = mine => Below(right, mine)
<1>1. CASE right = NoType
    BY <1>1, BelowReflexive DEF Updated, Below
<1>2. CASE right # NoType /\ mine = NoType
    BY <1>2, BelowReflexive DEF Updated, Below
<1>3. CASE mine # NoType /\ right # NoType
    BY <1>3, LubIsType, LubUpper DEF Updated, MaybeType
<1> QED BY <1>1, <1>2, <1>3

----------------------------------------------------------------------------
\* Parameters and uses

LEMMA ParametersAre ==
    ASSUME NEW ts
    PROVE  /\ \A t \in 1 .. Len(ts) : \A p \in 1 .. Len(ts[t].parameters) :
                 <<t, p>> \in ParametersOf(ts)
           /\ \A x \in ParametersOf(ts) :
                 /\ x[1] \in 1 .. Len(ts) /\ x[2] \in 1 .. Len(ts[x[1]].parameters)
                 /\ x = <<x[1], x[2]>>
BY DEF ParametersOf

LEMMA DeclaredAreTypes ==
    ASSUME NEW ts \in Seq(Template)
    PROVE  DeclaredTypes(ts) \in [ParametersOf(ts) -> MaybeType]
<1> SUFFICES ASSUME NEW x \in ParametersOf(ts)
             PROVE  ts[x[1]].parameters[x[2]].ptype \in MaybeType
    BY DEF DeclaredTypes
<1>1. x[1] \in 1 .. Len(ts) /\ x[2] \in 1 .. Len(ts[x[1]].parameters)
    BY ParametersAre
<1>2. ts[x[1]] \in Template
    BY <1>1, ElementOfSeq
<1>3. ts[x[1]].parameters \in Seq(Parameter)
    BY <1>2 DEF Template
<1>4. ts[x[1]].parameters[x[2]] \in Parameter
    BY <1>1, <1>3, ElementOfSeq
<1> QED BY <1>4 DEF Parameter

Typing == [ParametersOf(templates) -> MaybeType]

LEMMA CalleeExists ==
    ASSUME templates \in Seq(Template), NEW t, NEW name, Others(t, name) # {}
    PROVE  Callee(t, name) \in Others(t, name)
<1>1. Others(t, name) \subseteq Nat
    BY DEF Others
<1>2. \E o \in Others(t, name) : \A o2 \in Others(t, name) : o <= o2
    BY <1>1, LeastNumber
<1> QED BY <1>2 DEF Callee

LEMMA UsesAre ==
    ASSUME templates \in Seq(Template), NEW t \in 1 .. Len(templates), NEW u \in Uses(t)
    PROVE  /\ <<t, u[3]>> \in ParametersOf(templates)
           /\ <<CalleeOf(t, u[1]), u[2]>> \in ParametersOf(templates)
<1>1. /\ u[1] \in Instances(t)
      /\ u[2] \in 1 .. Len(templates[t].pattern_list[u[1]].argument_list)
      /\ u[3] \in 1 .. Len(templates[t].parameters)
      /\ ~IsMissing(t, u[1]) /\ ~HasBadArity(t, u[1])
    BY DEF Uses
<1>2. CalleeOf(t, u[1]) \in 1 .. Len(templates)
  <2>1. CalleeOf(t, u[1]) \in Others(t, templates[t].pattern_list[u[1]].template_name)
      BY <1>1, CalleeExists DEF CalleeOf, IsMissing
  <2> QED BY <2>1 DEF Others
<1>3. u[2] \in 1 .. Len(templates[CalleeOf(t, u[1])].parameters)
    BY <1>1 DEF HasBadArity
<1> QED BY <1>1, <1>2, <1>3, ParametersAre

LEMMA AskedIsMonotone ==
    ASSUME templates \in Seq(Template), NEW t \in 1 .. Len(templates), NEW u \in Uses(t),
           NEW ty1 \in Typing, NEW ty2 \in Typing,
           \A x \in ParametersOf(templates) : Below(ty1[x], ty2[x])
    PROVE  /\ Asked(ty1, t, u) \in MaybeType
           /\ Below(Asked(ty1, t, u), Asked(ty2, t, u))
<1> DEFINE y == <<CalleeOf(t, u[1]), u[2]>>
           expanded == templates[t].pattern_list[u[1]].argument_list[u[2]].list_expand
           k == IF templates[CalleeOf(t, u[1])].parameters[u[2]].optional THEN "List" ELSE "NEList"
           asked(ty) == IF ty[y] = NoType \/ ~expanded THEN ty[y] ELSE ListOf(k, ty[y])
<1>1. ty1[y] \in MaybeType /\ ty2[y] \in MaybeType /\ Below(ty1[y], ty2[y])
    BY UsesAre DEF Typing
<1>2. Asked(ty1, t, u) = asked(ty1) /\ Asked(ty2, t, u) = asked(ty2)
    BY DEF Asked
<1>3. k \in Constructors
    BY DEF Constructors
<1> HIDE DEF k, y, expanded
<1>4. CASE ty1[y] = NoType
    BY <1>1, <1>2, <1>4 DEF Below, MaybeType
<1>5. CASE ty1[y] # NoType
  <2>1. ty1[y] \in PType /\ ty2[y] \in PType
      BY <1>1, <1>5 DEF MaybeType, Below
  <2>2. ListOf(k, ty1[y]) \in PType /\ Below(ListOf(k, ty1[y]), ListOf(k, ty2[y]))
      BY <1>1, <1>3, <2>1, ListOfIsType, ListOfMonotone
  <2> QED BY <1>1, <1>2, <2>1, <2>2, NoTypeAssumption DEF MaybeType
<1> QED BY <1>4, <1>5

----------------------------------------------------------------------------
\* The inductive invariant of the inference

Stages == {"merge", "infer", "inferred", "arity", "incompatible", "panicked"}

Typed ==
    /\ stage \in Stages
    /\ documents \in Seq(Document) /\ d \in Nat \ {0}
    /\ templates \in Seq(Template)
    /\ i \in Nat \ {0} /\ inner_changed \in BOOLEAN
    /\ stage = "merge" => i = 1 /\ ~inner_changed
    /\ stage # "merge" => types \in Typing

\* The types are between the declared ones and every typing.
Refined == \A x \in ParametersOf(templates) : Below(DeclaredTypes(templates)[x], types[x])
BelowTypings ==
    \A ty \in Typing : Solves(ty) => \A x \in ParametersOf(templates) : Below(types[x], ty[x])

Settled(t) == UsesThatMatter(t) = {}

\* In a round without a change, the templates behind i ask for nothing more.
QuietRound  == stage = "infer" /\ ~inner_changed => \A t \in 1 .. Len(templates) : t < i => Settled(t)
QuietAtEnd  == stage = "inferred" => \A t \in 1 .. Len(templates) : Settled(t)
Untypable   == stage = "incompatible" => \A ty \in Typing : ~Solves(ty)

IInv == /\ Typed
        /\ stage # "merge" => Refined /\ BelowTypings
        /\ QuietRound /\ QuietAtEnd /\ Untypable

\* A typing is above what a use makes of the types below it, which do not clash.
LEMMA UseStaysBelow ==
    ASSUME Typed, stage # "merge", NEW t \in 1 .. Len(templates), NEW u \in Uses(t),
           NEW ty \in Typing, Solves(ty),
           \A x \in ParametersOf(templates) : Below(types[x], ty[x])
    PROVE  /\ ~Clashes(t, u)
           /\ Below(Updated(types[<<t, u[3]>>], Asked(types, t, u)), ty[<<t, u[3]>>])
<1> DEFINE y == <<t, u[3]>>
<1>1. y \in ParametersOf(templates)
    BY UsesAre DEF Typed
<1>2. types[y] \in MaybeType /\ ty[y] \in MaybeType /\ Below(types[y], ty[y])
    BY <1>1 DEF Typed, Typing
<1>3. Asked(types, t, u) \in MaybeType /\ Below(Asked(types, t, u), Asked(ty, t, u))
    BY AskedIsMonotone DEF Typed
<1>4. Asked(ty, t, u) \in MaybeType
  <2>1. \A x \in ParametersOf(templates) : Below(ty[x], ty[x])
      BY BelowReflexive DEF Typing
  <2> QED BY <2>1, AskedIsMonotone DEF Typed
<1>5. Below(Asked(ty, t, u), ty[y])
    BY DEF Solves
<1>6. Below(Asked(types, t, u), ty[y])
    BY <1>2, <1>3, <1>4, <1>5, BelowTransitive
<1> QED BY <1>2, <1>3, <1>6, UpdatedLeast DEF Clashes

LEMMA IInvInitially == Init => IInv
<1> SUFFICES ASSUME Init PROVE IInv
    OBVIOUS
<1>1. documents \in Seq(Document)
    BY DocumentsAssumption DEF Init
<1>2. templates \in Seq(Template)
    BY EmptySeq DEF Init
<1>3. stage = "merge" /\ i = 1 /\ d = 1 /\ inner_changed = FALSE
    BY DEF Init
<1>4. Typed
  <2>1. d \in Nat \ {0} /\ i \in Nat \ {0}
      BY <1>3
  <2>2. inner_changed \in BOOLEAN
      BY <1>3
  <2> QED BY <1>1, <1>2, <1>3, <2>1, <2>2 DEF Typed, Stages
<1>5. QuietRound /\ QuietAtEnd /\ Untypable
    BY <1>3 DEF QuietRound, QuietAtEnd, Untypable
<1> QED BY <1>3, <1>4, <1>5 DEF IInv

LEMMA OttrTemplateIsTemplate == OttrTemplate \in Template
<1>1. \A v \in {"subject", "verb", "object"}, ty \in {Basic(AnyURI), NoType} :
         [variable |-> v, optional |-> FALSE, ptype |-> ty] \in Parameter
  <2>1. Basic(AnyURI) \in PType
      BY NamesAssumption, EmptySeq DEF Basic, PType
  <2> QED BY <2>1, NamesAssumption DEF Parameter, MaybeType
<1>2. OttrTemplate.parameters \in Seq(Parameter)
    BY <1>1 DEF OttrTemplate
<1>3. OttrTemplate.pattern_list \in Seq(Instance)
    BY EmptySeq DEF OttrTemplate
<1> QED BY <1>2, <1>3, NamesAssumption DEF OttrTemplate, Template

LEMMA IInvMerge == IInv /\ MergeDocument => IInv'
<1> SUFFICES ASSUME IInv, MergeDocument PROVE IInv'
    OBVIOUS
<1>1. documents[d] \in Document
    BY ElementOfSeq DEF MergeDocument, IInv, Typed
<1>2. templates' \in Seq(Template)
    BY <1>1, ConcatProperties DEF MergeDocument, IInv, Typed, Document
<1> QED BY <1>2 DEF MergeDocument, IInv, Typed, Stages, QuietRound, QuietAtEnd, Untypable, inference

LEMMA IInvStart == IInv /\ StartInference => IInv'
<1> SUFFICES ASSUME IInv, StartInference PROVE IInv'
    OBVIOUS
<1>1. templates' \in Seq(Template)
    BY OttrTemplateIsTemplate, AppendProperties DEF StartInference, IInv, Typed
<1>2. types' \in Typing' /\ types' = DeclaredTypes(templates')
    BY <1>1, DeclaredAreTypes DEF StartInference, Typing
<1>3. Typed'
    BY <1>1, <1>2 DEF StartInference, IInv, Typed, Stages, merging
<1>4. Refined'
    BY <1>2, BelowReflexive DEF Refined, Typing
<1>5. BelowTypings'
    BY <1>2 DEF BelowTypings, Solves
<1>6. QuietRound'
    BY <1>3 DEF QuietRound, StartInference, IInv, Typed
<1> QED BY <1>3, <1>4, <1>5, <1>6 DEF StartInference, IInv, QuietAtEnd, Untypable

LEMMA SameSolves ==
    ASSUME UNCHANGED templates
    PROVE  \A ty : Solves(ty)' <=> Solves(ty)
<1>1. \A t : Uses(t)' = Uses(t)
    BY DEF Uses, Instances, IsMissing, HasBadArity, Others, CalleeOf, Callee
<1>2. \A ty, t, u : Asked(ty, t, u)' = Asked(ty, t, u)
    BY DEF Asked, Others, CalleeOf, Callee
<1>3. DeclaredTypes(templates)' = DeclaredTypes(templates)
    OBVIOUS
<1>4. ParametersOf(templates)' = ParametersOf(templates)
    OBVIOUS
<1> QED BY <1>1, <1>2, <1>3, <1>4 DEF Solves

\* What does not depend on the position of the rounds stays as it is while the
\* templates and their types do.
LEMMA SameTypes ==
    ASSUME UNCHANGED <<templates, types>>
    PROVE  /\ Refined' <=> Refined
           /\ BelowTypings' <=> BelowTypings
           /\ \A t : Settled(t)' <=> Settled(t)
           /\ Typing' = Typing
<1>1. templates' = templates /\ types' = types
    OBVIOUS
<1>2. Typing' = Typing /\ (Refined' <=> Refined)
    BY <1>1 DEF Typing, Refined
<1>3. BelowTypings' <=> BelowTypings
    BY <1>1, <1>2, SameSolves DEF BelowTypings
<1>4. \A t : Settled(t)' <=> Settled(t)
    BY <1>1 DEF Settled, UsesThatMatter, Matters, Clashes, Uses, Instances, IsMissing,
        HasBadArity, Others, CalleeOf, Callee, Asked
<1> QED BY <1>2, <1>3, <1>4

LEMMA IInvSkip == IInv /\ Skip => IInv'
<1> SUFFICES ASSUME IInv, Skip PROVE IInv'
    OBVIOUS
<1>1. Typed'
    BY DEF Skip, IInv, Typed, merging, Typing
<1>2. Refined' /\ BelowTypings'
    BY SameTypes DEF Skip, IInv
<1> QED BY <1>1, <1>2 DEF Skip, IInv, QuietRound, QuietAtEnd, Untypable

LEMMA IInvFails == IInv /\ VisitFails => IInv'
<1> SUFFICES ASSUME IInv, VisitFails PROVE IInv'
    OBVIOUS
<1>1. stage' \in {"panicked", "arity"} /\ stage = "infer"
    BY DEF VisitFails, Visits
<1>2. Typed'
    BY <1>1 DEF VisitFails, IInv, Typed, merging, inference, Stages, Typing
<1>3. Refined' /\ BelowTypings'
    BY <1>1, SameTypes DEF VisitFails, IInv, inference
<1> QED BY <1>1, <1>2, <1>3 DEF IInv, QuietRound, QuietAtEnd, Untypable

LEMMA IInvClashes == IInv /\ VisitClashes => IInv'
<1> SUFFICES ASSUME IInv, VisitClashes PROVE IInv'
    OBVIOUS
<1>1. stage' = "incompatible" /\ stage = "infer" /\ i \in 1 .. Len(templates)
    BY DEF VisitClashes, Visits, IInv, Typed
<1>2. Typed'
    BY <1>1 DEF VisitClashes, IInv, Typed, merging, inference, Stages, Typing
<1>3. Refined' /\ BelowTypings'
    BY <1>1, SameTypes DEF VisitClashes, IInv, inference
<1>4. \A ty \in Typing : ~Solves(ty)
  <2>1. PICK u \in Uses(i) : Clashes(i, u)
      BY DEF VisitClashes
  <2> QED BY <1>1, <2>1, UseStaysBelow DEF IInv, BelowTypings
<1>5. Untypable'
  <2>1. templates' = templates
      BY DEF VisitClashes
  <2>2. Typing' = Typing
      BY <2>1 DEF Typing
  <2> QED BY <1>4, <2>1, <2>2, SameSolves DEF Untypable
<1> QED BY <1>1, <1>2, <1>3, <1>5 DEF IInv, QuietRound, QuietAtEnd

LEMMA IInvUpdates == IInv /\ VisitUpdates => IInv'
<1> SUFFICES ASSUME IInv, VisitUpdates PROVE IInv'
    OBVIOUS
<1>1. PICK u \in Uses(i) :
         /\ ~Clashes(i, u)
         /\ types' = [types EXCEPT ![<<i, u[3]>>] = Updated(@, Asked(types, i, u))]
    BY DEF VisitUpdates, FirstThatMatters, UsesThatMatter
<1> DEFINE y == <<i, u[3]>>
           new == Updated(types[y], Asked(types, i, u))
<1>2. /\ stage = "infer" /\ stage' = stage /\ inner_changed' = TRUE
      /\ templates' = templates /\ i \in 1 .. Len(templates)
    BY DEF VisitUpdates, Visits, IInv, Typed
<1>3. y \in ParametersOf(templates) /\ types \in Typing
    BY <1>2, UsesAre DEF IInv, Typed
<1>4. types[y] \in MaybeType /\ Asked(types, i, u) \in MaybeType
  <2>1. \A x \in ParametersOf(templates) : Below(types[x], types[x])
      BY <1>3, BelowReflexive DEF Typing
  <2> QED BY <1>2, <1>3, <2>1, AskedIsMonotone DEF IInv, Typed, Typing
<1>5. new \in MaybeType /\ Below(types[y], new)
    BY <1>1, <1>4, UpdatedUpper DEF Clashes
<1> HIDE DEF y, new
<1>6. types' \in Typing
    BY <1>1, <1>3, <1>5 DEF Typing, new, y
<1>7. \A x \in ParametersOf(templates) : types'[x] = IF x = y THEN new ELSE types[x]
    BY <1>1, <1>3 DEF Typing, new, y
<1>8. Typed'
    BY <1>2, <1>6 DEF VisitUpdates, IInv, Typed, merging, Stages, Typing
<1>9. Refined'
  <2>1. DeclaredTypes(templates) \in Typing
      BY DeclaredAreTypes DEF IInv, Typed, Typing
  <2> SUFFICES ASSUME NEW x \in ParametersOf(templates)
               PROVE  Below(DeclaredTypes(templates)[x], types'[x])
      BY <1>2 DEF Refined
  <2>2. Below(DeclaredTypes(templates)[x], types[x])
      BY <1>2 DEF IInv, Refined
  <2>3. Below(types[x], types'[x])
      BY <1>3, <1>5, <1>7, BelowReflexive DEF Typing
  <2> QED BY <2>1, <2>2, <2>3, <1>3, <1>6, BelowTransitive DEF Typing
<1>10. ASSUME NEW ty \in Typing, Solves(ty), NEW x \in ParametersOf(templates)
       PROVE  Below(types'[x], ty[x])
  <2>1. \A z \in ParametersOf(templates) : Below(types[z], ty[z])
      BY <1>2, <1>10 DEF IInv, BelowTypings
  <2>2. Below(new, ty[y])
      BY <1>2, <1>10, <2>1, UseStaysBelow DEF IInv, new, y
  <2> QED BY <2>1, <2>2, <1>7
<1>11. BelowTypings'
  <2>1. Typing' = Typing /\ ParametersOf(templates)' = ParametersOf(templates)
      BY <1>2 DEF Typing
  <2> QED BY <1>2, <1>10, <2>1, SameSolves DEF BelowTypings
<1> QED BY <1>2, <1>8, <1>9, <1>11 DEF IInv, QuietRound, QuietAtEnd, Untypable

LEMMA IInvChangesNothing == IInv /\ VisitChangesNothing => IInv'
<1> SUFFICES ASSUME IInv, VisitChangesNothing PROVE IInv'
    OBVIOUS
<1>1. /\ stage = "infer" /\ stage' = stage /\ i' = i + 1 /\ ~inner_changed
      /\ UNCHANGED <<templates, types>> /\ i \in Nat
    BY DEF VisitChangesNothing, Visits, IInv, Typed
<1>2. Typed'
    BY <1>1 DEF VisitChangesNothing, IInv, Typed, merging, Stages, Typing
<1>3. Refined' /\ BelowTypings'
    BY <1>1, SameTypes DEF IInv
<1>4. Settled(i)
    BY DEF VisitChangesNothing, Settled
<1>5. QuietRound'
  <2> SUFFICES ASSUME NEW t \in 1 .. Len(templates), t < i + 1 PROVE Settled(t)
      BY <1>1, SameTypes DEF QuietRound
  <2>1. t < i \/ t = i
      BY <1>1
  <2> QED BY <1>1, <1>4, <2>1 DEF IInv, QuietRound
<1> QED BY <1>1, <1>2, <1>3, <1>5 DEF IInv, QuietAtEnd, Untypable

LEMMA IInvEndRound == IInv /\ EndRound => IInv'
<1> SUFFICES ASSUME IInv, EndRound PROVE IInv'
    OBVIOUS
<1>1. /\ stage = "infer" /\ stage' \in {"infer", "inferred"} /\ i > Len(templates)
      /\ UNCHANGED <<templates, types>> /\ i \in Nat
    BY DEF EndRound, IInv, Typed
<1>2. Typed'
  <2>1. i' \in Nat \ {0}
      BY DEF EndRound, IInv, Typed
  <2>3. inner_changed' \in BOOLEAN
      BY DEF EndRound, IInv, Typed
  <2>2. stage' \in Stages /\ stage' # "merge" /\ types' \in Typing'
      BY <1>1 DEF IInv, Typed, Stages, Typing
  <2> QED BY <1>1, <2>1, <2>2, <2>3 DEF EndRound, IInv, Typed, merging
<1>3. Refined' /\ BelowTypings'
    BY <1>1, SameTypes DEF IInv
<1>4. QuietRound'
    BY <1>1 DEF EndRound, QuietRound
<1>5. QuietAtEnd'
  <2> SUFFICES ASSUME stage' = "inferred", NEW t \in 1 .. Len(templates) PROVE Settled(t)
      BY <1>1, SameTypes DEF QuietAtEnd
  <2>1. ~inner_changed
      BY <1>1 DEF EndRound
  <2>2. t < i
      BY <1>1
  <2> QED BY <1>1, <2>1, <2>2 DEF IInv, QuietRound
<1> QED BY <1>1, <1>2, <1>3, <1>4, <1>5 DEF IInv, Untypable

LEMMA IInvStep == IInv /\ [Next]_vars => IInv'
<1> SUFFICES ASSUME IInv, [Next]_vars PROVE IInv'
    OBVIOUS
<1>1. CASE UNCHANGED vars
  <2>1. UNCHANGED <<templates, types, stage, documents, d, i, inner_changed>>
      BY <1>1 DEF vars, merging, inference
  <2>2. Typed'
      BY <2>1 DEF IInv, Typed, Typing
  <2>3. stage # "merge" => Refined' /\ BelowTypings'
      BY <2>1, SameTypes DEF IInv
  <2>4. QuietRound' /\ QuietAtEnd'
      BY <2>1, SameTypes DEF IInv, QuietRound, QuietAtEnd
  <2>5. Untypable'
      BY <2>1, SameTypes, SameSolves DEF IInv, Untypable
  <2> QED BY <2>1, <2>2, <2>3, <2>4, <2>5 DEF IInv
<1>2. CASE MergeDocument
    BY <1>2, IInvMerge
<1>3. CASE StartInference
    BY <1>3, IInvStart
<1>4. CASE InferTypes
    BY <1>4, IInvSkip, IInvFails, IInvClashes, IInvUpdates, IInvChangesNothing, IInvEndRound
    DEF InferTypes
<1> QED BY <1>1, <1>2, <1>3, <1>4 DEF Next

LEMMA IInvAlways == Spec => []IInv
<1> QED BY IInvInitially, IInvStep, PTL DEF Spec

----------------------------------------------------------------------------
\* The results

LEMMA TypingsAreTypings == ASSUME Typed PROVE Typings \subseteq Typing
<1> SUFFICES ASSUME NEW ty \in Typings PROVE ty \in Typing
    OBVIOUS
<1> DEFINE own == { x \in ParametersOf(templates) : x[1] < Len(templates) }
<1>1. PICK f \in [own -> Candidates] :
         ty = [x \in ParametersOf(templates) |->
                  IF x \in own THEN f[x] ELSE DeclaredTypes(templates)[x]]
    BY DEF Typings
<1>2. DeclaredTypes(templates) \in Typing
    BY DeclaredAreTypes DEF Typed, Typing
<1>3. \A x \in own : f[x] \in MaybeType
    BY CandidatesAssumption
<1> HIDE DEF own
<1> QED BY <1>1, <1>2, <1>3 DEF Typing

\* At the end of the rounds nothing is left to update, so the types are a typing.
LEMMA LeastAtEnd == IInv => LeastTyping
<1> SUFFICES ASSUME IInv, stage = "inferred" PROVE LeastTyping
    BY DEF LeastTyping
<1>1. Refined /\ BelowTypings /\ Typed
    BY DEF IInv
<1>2. ASSUME NEW t \in 1 .. Len(templates), NEW u \in Uses(t)
      PROVE  Below(Asked(types, t, u), types[<<t, u[3]>>])
  <2> DEFINE mine == types[<<t, u[3]>>]
             right == Asked(types, t, u)
  <2>1. mine \in MaybeType
      BY <1>1, UsesAre DEF Typed, Typing
  <2>2. right \in MaybeType
    <3>1. types \in Typing /\ \A x \in ParametersOf(templates) : Below(types[x], types[x])
        BY <1>1, BelowReflexive DEF Typed, Typing
    <3> QED BY <1>1, <3>1, AskedIsMonotone DEF Typed
  <2>3. ~Matters(t, u)
      BY DEF IInv, QuietAtEnd, Settled, UsesThatMatter
  <2>4. ~Clashes(t, u) /\ Updated(mine, right) = mine
      BY <2>3 DEF Matters
  <2> HIDE DEF mine, right
  <2>5. mine # NoType /\ right # NoType => Compatible(mine, right)
      BY <2>4 DEF Clashes, mine, right
  <2> QED BY <2>1, <2>2, <2>4, <2>5, UpdatedUpper DEF mine, right
<1>3. Solves(types)
    BY <1>1, <1>2 DEF Solves, Refined
<1> QED BY <1>1, <1>3, TypingsAreTypings DEF LeastTyping, BelowTypings

\* infer_types gives the least typing of the templates: whatever the order of
\* the documents and templates, and with cycles of calls, the short-circuits of
\* its rounds leave out nothing that matters.
THEOREM TypesAreLeast == Spec => []LeastTyping
<1> QED BY LeastAtEnd, IInvAlways, PTL

\* The error IncompatibleTypes is given only for templates without a typing.
THEOREM ErrorsAreJustified == Spec => []IncompatibleMeansUntypable
<1>1. IInv => IncompatibleMeansUntypable
    BY TypingsAreTypings DEF IInv, Untypable, IncompatibleMeansUntypable
<1> QED BY <1>1, IInvAlways, PTL

\* The IRIs of a prefix in the documents merged so far.
IRIsOf(k) == { documents[e].prefix_map[k] : e \in 1 .. d - 1 } \ {Undefined}

PInv == /\ documents \in Seq(Document) /\ d \in Nat \ {0}
        /\ d <= Len(documents) + 1
        /\ prefix_map \in [Prefixes -> IRIs \union {Undefined}]
        /\ \A k \in Prefixes : k \in defined_prefixes <=> IRIsOf(k) # {}
        /\ PrefixesAgree

LEMMA PInvMerge == PInv /\ MergeDocument => PInv'
<1> SUFFICES ASSUME PInv, MergeDocument PROVE PInv'
    OBVIOUS
<1>1. /\ documents' = documents /\ d' = d + 1 /\ d \in 1 .. Len(documents)
      /\ prefix_map' = [k \in Prefixes |-> Merged(documents[d].prefix_map, k)]
    BY DEF MergeDocument, PInv
<1>2. documents[d] \in Document
    BY <1>1, ElementOfSeq DEF PInv
<1>3. \A k \in Prefixes : documents[d].prefix_map[k] \in IRIs \union {Undefined}
    BY <1>2 DEF Document
<1>4. \A k \in Prefixes : IRIsOf(k)' = IRIsOf(k) \union ({documents[d].prefix_map[k]} \ {Undefined})
  <2>1. 1 .. d' - 1 = (1 .. d - 1) \union {d}
      BY <1>1
  <2> QED BY <1>1, <2>1 DEF IRIsOf
<1>5. ASSUME NEW k \in Prefixes
      PROVE  /\ k \in defined_prefixes' <=> IRIsOf(k)' # {}
             /\ IF \E v \in IRIsOf(k)' : IRIsOf(k)' = {v}
                THEN prefix_map'[k] \in IRIsOf(k)' ELSE prefix_map'[k] = Undefined
             /\ prefix_map'[k] \in IRIs \union {Undefined}
  <2> DEFINE new == documents[d].prefix_map[k]
             old == IRIsOf(k)
  <2>1. prefix_map'[k] = Merged(documents[d].prefix_map, k)
      BY <1>1
  <2>2. k \in defined_prefixes <=> old # {}
      BY DEF PInv
  <2>3. IF \E v \in old : old = {v} THEN prefix_map[k] \in old ELSE prefix_map[k] = Undefined
      BY DEF PInv, PrefixesAgree, IRIsOf
  <2>4. k \in defined_prefixes' <=> (k \in defined_prefixes \/ new # Undefined)
      BY DEF MergeDocument
  <2>5. Undefined \notin old
      BY DEF IRIsOf
  <2>6. IRIsOf(k)' = old \union ({new} \ {Undefined})
      BY <1>4
  <2>7. prefix_map[k] \in IRIs \union {Undefined} /\ new \in IRIs \union {Undefined}
      BY <1>3 DEF PInv
  <2> HIDE DEF new, old
  <2>8. prefix_map'[k] = IF new = Undefined THEN prefix_map[k]
                         ELSE IF k \notin defined_prefixes THEN new
                         ELSE IF prefix_map[k] = new THEN new ELSE Undefined
      BY <2>1 DEF Merged, new
  <2>9. CASE new = Undefined
      BY <2>2, <2>3, <2>4, <2>6, <2>7, <2>8, <2>9
  <2>10. CASE new # Undefined /\ old = {}
      BY <2>2, <2>4, <2>6, <2>7, <2>8, <2>10
  <2>11. CASE new # Undefined /\ old # {}
      BY <2>2, <2>3, <2>4, <2>5, <2>6, <2>7, <2>8, <2>11
  <2> QED BY <2>9, <2>10, <2>11
<1>6. PrefixesAgree'
    BY <1>5 DEF PrefixesAgree, IRIsOf
<1>7. prefix_map' \in [Prefixes -> IRIs \union {Undefined}]
    BY <1>1, <1>5
<1> QED BY <1>1, <1>5, <1>6, <1>7 DEF PInv

\* A prefix can be used as long as the documents do not conflict about it.
THEOREM PrefixesAreAgreed == Spec => []PrefixesAgree
<1>1. Init => PInv
    BY DocumentsAssumption DEF Init, PInv, PrefixesAgree, IRIsOf
<1>2. PInv /\ [Next]_vars => PInv'
  <2> SUFFICES ASSUME PInv, [Next]_vars PROVE PInv'
      OBVIOUS
  <2>1. CASE MergeDocument
      BY <2>1, PInvMerge
  <2>2. CASE UNCHANGED merging
    <3>1. /\ documents' = documents /\ d' = d /\ prefix_map' = prefix_map
          /\ defined_prefixes' = defined_prefixes
        BY <2>2 DEF merging
    <3>2. \A k \in Prefixes : IRIsOf(k)' = IRIsOf(k)
        BY <3>1 DEF IRIsOf
    <3>3. PrefixesAgree' <=> PrefixesAgree
        BY <3>1 DEF PrefixesAgree
    <3> QED BY <3>1, <3>2, <3>3 DEF PInv
  <2> QED BY <2>1, <2>2 DEF Next, InferTypes, StartInference, Skip, VisitFails, VisitClashes,
        VisitUpdates, VisitChangesNothing, EndRound, vars
<1>3. PInv => PrefixesAgree
    BY DEF PInv
<1> QED BY <1>1, <1>2, <1>3, PTL DEF Spec

----------------------------------------------------------------------------
\* Documents read from texts.

PrefixMaps == [Prefixes -> IRIs \union {Undefined}]
NotCalled  == {"read", "unresolved"}   \* new has not been called
MayBeSource == UnresolvedDocument \union {Unparsed}

----------------------------------------------------------------------------
\* Names

LEMMA WrittenIs ==
    ASSUME NEW w \in Written
    PROVE  IF "iri" \in DOMAIN w THEN w.iri \in IRIs
           ELSE "prefix" \in DOMAIN w /\ w.prefix \in Prefixes /\ w.name \in LocalNames
BY DEF Written, PrefixedName

LEMMA DirectiveIs ==
    ASSUME NEW directive \in Directive
    PROVE  Prefix(directive) \in Prefixes /\ Iri(directive) \in IRIs
BY ResolverAssumption DEF Directive, Prefix, Iri

LEMMA ResolveIs ==
    ASSUME NEW w \in Written, NEW m \in PrefixMaps, resolve(w, m) # Undefined
    PROVE  resolve(w, m) \in IRIs
<1>1. CASE "iri" \in DOMAIN w
    BY <1>1, WrittenIs DEF resolve
<1>2. CASE "iri" \notin DOMAIN w
  <2>1. m[w.prefix] \in IRIs /\ w.name \in LocalNames /\ resolve(w, m) = Composite[m[w.prefix], w.name]
      BY <1>2, WrittenIs DEF resolve, PrefixMaps
  <2> QED BY <2>1, ResolverAssumption
<1> QED BY <1>1, <1>2

LEMMA WithPredefinedIs ==
    ASSUME NEW m \in PrefixMaps PROVE WithPredefined(m) \in PrefixMaps
BY ResolverAssumption DEF WithPredefined, PrefixMaps

\* The names of the parts of a template.
LEMMA NamesOfParts ==
    ASSUME NEW t \in UnresolvedTemplate
    PROVE  /\ t.name \in Written /\ t.name \in NamesOfTemplate(t)
           /\ \A n \in 1 .. Len(t.pattern_list) :
                 /\ t.pattern_list[n] \in UnresolvedInstance
                 /\ t.pattern_list[n].template_name \in NamesOfTemplate(t)
           /\ \A p \in 1 .. Len(t.parameters) :
                 /\ t.parameters[p] \in UnresolvedParameter
                 /\ t.parameters[p].ptype # NoType =>
                       t.parameters[p].ptype.base \in NamesOfTemplate(t)
<1>1. t.pattern_list \in Seq(UnresolvedInstance) /\ t.parameters \in Seq(UnresolvedParameter)
    BY DEF UnresolvedTemplate
<1>2. t.name \in Written
    BY DEF UnresolvedTemplate
<1>3. \A n \in 1 .. Len(t.pattern_list) : t.pattern_list[n] \in UnresolvedInstance
    BY <1>1, ElementOfSeq
<1>4. \A p \in 1 .. Len(t.parameters) : t.parameters[p] \in UnresolvedParameter
    BY <1>1, ElementOfSeq
<1> QED BY <1>2, <1>3, <1>4 DEF NamesOfTemplate

LEMMA NamesOfSource ==
    ASSUME NEW source \in UnresolvedDocument
    PROVE  /\ NamesOf(source) \subseteq Written
           /\ \A t \in 1 .. Len(source.templates) :
                 /\ source.templates[t] \in UnresolvedTemplate
                 /\ NamesOfTemplate(source.templates[t]) \subseteq NamesOf(source)
<1>1. source.templates \in Seq(UnresolvedTemplate) /\ source.others \subseteq Written
    BY DEF UnresolvedDocument
<1>2. \A t \in 1 .. Len(source.templates) : source.templates[t] \in UnresolvedTemplate
    BY <1>1, ElementOfSeq
<1>3. \A t \in 1 .. Len(source.templates) : NamesOfTemplate(source.templates[t]) \subseteq NamesOf(source)
    BY DEF NamesOf
<1>4. ASSUME NEW t \in UnresolvedTemplate PROVE NamesOfTemplate(t) \subseteq Written
  <2>1. \A n \in 1 .. Len(t.pattern_list) : t.pattern_list[n].template_name \in Written
      BY <1>4, NamesOfParts DEF UnresolvedInstance
  <2>2. ASSUME NEW p \in 1 .. Len(t.parameters), t.parameters[p].ptype # NoType
        PROVE  t.parameters[p].ptype.base \in Written
      BY <1>4, <2>2, NamesOfParts DEF UnresolvedParameter, UnresolvedPType, Written
  <2>3. t.name \in Written
      BY <1>4, NamesOfParts
  <2> QED BY <2>1, <2>2, <2>3 DEF NamesOfTemplate
<1> QED BY <1>1, <1>2, <1>3, <1>4 DEF NamesOf

----------------------------------------------------------------------------
\* Resolved documents are documents

LEMMA ParameterResolves ==
    ASSUME NEW p \in UnresolvedParameter, NEW m \in PrefixMaps,
           p.ptype # NoType => resolve(p.ptype.base, m) # Undefined
    PROVE  resolve_parameter(p, m) \in Parameter
<1>1. resolve_ptype(p.ptype, m) \in MaybeType
  <2>1. CASE p.ptype = NoType
      BY <2>1 DEF resolve_ptype, MaybeType
  <2>2. CASE p.ptype # NoType
    <3>1. p.ptype \in UnresolvedPType
        BY <2>2 DEF UnresolvedParameter
    <3>2. /\ p.ptype.base \in PrefixedName /\ p.ptype.base \in Written
          /\ p.ptype.lists \in Seq(Constructors)
        BY <3>1 DEF UnresolvedPType, Written
    <3>3. resolve(p.ptype.base, m) \in IRIs
        BY <2>2, <3>2, ResolveIs
    <3>4. <<resolve(p.ptype.base, m), p.ptype.base>> \in BasicTypes
        BY <3>2, <3>3, ResolverAssumption
    <3> QED BY <2>2, <3>2, <3>4 DEF resolve_ptype, MaybeType, PType
  <2> QED BY <2>1, <2>2
<1>2. resolve_parameter(p, m) =
         [variable |-> p.variable, optional |-> p.optional, ptype |-> resolve_ptype(p.ptype, m)]
    BY DEF resolve_parameter, UnresolvedParameter
<1> QED BY <1>1, <1>2 DEF UnresolvedParameter, Parameter

LEMMA InstanceResolves ==
    ASSUME NEW n \in UnresolvedInstance, NEW m \in PrefixMaps,
           resolve(n.template_name, m) # Undefined
    PROVE  /\ resolve_instance(n, m) \in Instance
           /\ resolve_instance(n, m).template_name = resolve(n.template_name, m)
<1>1. n.template_name \in Written /\ n.argument_list \in Seq(Argument)
    BY DEF UnresolvedInstance
<1>2. resolve(n.template_name, m) \in Names
    BY <1>1, ResolveIs, ResolverAssumption
<1>3. resolve_instance(n, m) =
         [template_name |-> resolve(n.template_name, m), argument_list |-> n.argument_list]
    BY DEF resolve_instance, UnresolvedInstance
<1> QED BY <1>1, <1>2, <1>3 DEF Instance

\* A function on the first numbers is a sequence.
LEMMA FunctionIsSeq ==
    ASSUME NEW S, NEW len \in Nat, NEW f \in [1 .. len -> S]
    PROVE  f \in Seq(S) /\ Len(f) = len
<1>1. f \in Seq(S)
    BY SeqDef
<1> QED BY <1>1, LenProperties

LEMMA TemplateResolves ==
    ASSUME NEW t \in UnresolvedTemplate, NEW m \in PrefixMaps,
           \A w \in NamesOfTemplate(t) : resolve(w, m) # Undefined
    PROVE  resolve_template(t, m) \in Template
<1> DEFINE ps == [p \in 1 .. Len(t.parameters) |-> resolve_parameter(t.parameters[p], m)]
           ns == [n \in 1 .. Len(t.pattern_list) |-> resolve_instance(t.pattern_list[n], m)]
<1>1. Len(t.parameters) \in Nat /\ Len(t.pattern_list) \in Nat
    BY DEF UnresolvedTemplate
<1>2. \A p \in 1 .. Len(t.parameters) : resolve_parameter(t.parameters[p], m) \in Parameter
    BY NamesOfParts, ParameterResolves
<1>3. \A n \in 1 .. Len(t.pattern_list) : resolve_instance(t.pattern_list[n], m) \in Instance
    BY NamesOfParts, InstanceResolves
<1>4. ps \in Seq(Parameter)
    BY <1>1, <1>2, FunctionIsSeq
<1>5. ns \in Seq(Instance)
    BY <1>1, <1>3, FunctionIsSeq
<1>6. resolve(t.name, m) \in Names
    BY NamesOfParts, ResolveIs, ResolverAssumption
<1>7. resolve_template(t, m) = [name |-> resolve(t.name, m), parameters |-> ps, pattern_list |-> ns]
    BY DEF resolve_template
<1> HIDE DEF ps, ns
<1> QED BY <1>4, <1>5, <1>6, <1>7 DEF Template

LEMMA DocumentResolves ==
    ASSUME NEW source \in UnresolvedDocument, NEW m \in PrefixMaps,
           \A w \in NamesOf(source) : resolve(w, m) # Undefined
    PROVE  resolve_document(source, m) \in Document
<1> DEFINE ts == [t \in 1 .. Len(source.templates) |-> resolve_template(source.templates[t], m)]
<1>1. Len(source.templates) \in Nat
    BY DEF UnresolvedDocument
<1>2. \A t \in 1 .. Len(source.templates) : resolve_template(source.templates[t], m) \in Template
    BY NamesOfSource, TemplateResolves
<1>3. ts \in Seq(Template)
    BY <1>1, <1>2, FunctionIsSeq
<1>4. resolve_document(source, m) = [prefix_map |-> m, templates |-> ts]
    BY DEF resolve_document
<1> HIDE DEF ts
<1> QED BY <1>3, <1>4 DEF Document, PrefixMaps

LEMMA TemplatesOfDocument ==
    ASSUME NEW source \in UnresolvedDocument, NEW m,
           NEW t \in 1 .. Len(resolve_document(source, m).templates)
    PROVE  /\ t \in 1 .. Len(source.templates)
           /\ resolve_document(source, m).templates[t] = resolve_template(source.templates[t], m)
<1> DEFINE ts == [n \in 1 .. Len(source.templates) |-> resolve_template(source.templates[n], m)]
<1>1. Len(source.templates) \in Nat
    BY DEF UnresolvedDocument
<1>2. resolve_document(source, m).templates = ts
    BY DEF resolve_document
<1>3. Len(ts) = Len(source.templates)
    BY <1>1
<1> QED BY <1>2, <1>3

----------------------------------------------------------------------------
\* The prefix map of a source

\* The IRIs that the directives looked at so far give a prefix.
Seen(k) == { Iri(Source.directives[n]) : n \in { n \in 1 .. at - 1 : Prefix(Source.directives[n]) = k } }

\* The map has an entry for the prefixes seen so far, each with one IRI.
MapInv ==
    Reads /\ Source # Unparsed =>
        /\ at \in 1 .. Len(Source.directives) + 1
        /\ \A k \in Prefixes : IF map[k] = Undefined THEN Seen(k) = {} ELSE Seen(k) = {map[k]}

SourceInv == sources \in Seq(MayBeSource) /\ map \in PrefixMaps /\ at \in Nat
             /\ (Reads /\ at = 1 => map = NoPrefixes) /\ MapInv

LEMMA SourceIs ==
    ASSUME sources \in Seq(MayBeSource), documents \in Seq(Document), Reads, Source # Unparsed
    PROVE  /\ Source \in UnresolvedDocument
           /\ Source.directives \in Seq(Directive)
           /\ Len(Source.directives) \in Nat
           /\ \A n \in 1 .. Len(Source.directives) : Source.directives[n] \in Directive
<1>1. Len(documents) + 1 \in 1 .. Len(sources)
    BY LenProperties DEF Reads
<1>2. Source \in UnresolvedDocument
    BY <1>1, ElementOfSeq DEF Source, MayBeSource
<1>3. Source.directives \in Seq(Directive)
    BY <1>2 DEF UnresolvedDocument
<1> QED BY <1>2, <1>3, ElementOfSeq, LenProperties

\* When all directives are entered, the names stand for what they resolve to.
LEMMA ResolvedIsMeant ==
    ASSUME NEW source \in UnresolvedDocument, NEW m \in PrefixMaps, NEW w \in Written,
           \A k \in Prefixes : IF m[k] = Undefined THEN IrisOf(source, k) = {}
                                                   ELSE IrisOf(source, k) = {m[k]}
    PROVE  \A iri \in IRIs : StandsFor(source, w, iri) <=> iri = resolve(w, WithPredefined(m))
<1>1. CASE "iri" \in DOMAIN w
    BY <1>1 DEF StandsFor, resolve
<1>2. CASE "iri" \notin DOMAIN w
  <2> DEFINE k == w.prefix
             v == WithPredefined(m)[k]
             own == IF IrisOf(source, k) = {} THEN {Predefined[k]} ELSE IrisOf(source, k)
  <2>1. k \in Prefixes
      BY <1>2, WrittenIs
  <2>2. own = {v}
      BY <2>1 DEF WithPredefined
  <2>3. ASSUME NEW iri \in IRIs
        PROVE  StandsFor(source, w, iri) <=> (v # Undefined /\ iri = Composite[v, w.name])
    <3>1. StandsFor(source, w, iri) <=> \E u \in own : u # Undefined /\ iri = Composite[u, w.name]
        BY <1>2 DEF StandsFor
    <3> QED BY <2>2, <3>1
  <2>4. resolve(w, WithPredefined(m)) = IF v = Undefined THEN Undefined ELSE Composite[v, w.name]
      BY <1>2 DEF resolve
  <2> HIDE DEF v
  <2> QED BY <2>3, <2>4, NamesAssumption
<1> QED BY <1>1, <1>2

\* A step of InsertPrefix enters its directive, or the source has two IRIs for its prefix.
LEMMA InsertPrefixIs ==
    ASSUME SourceInv, documents \in Seq(Document), InsertPrefix
    PROVE  \/ /\ map' \in PrefixMaps /\ at' = at + 1 /\ UNCHANGED <<vars, sources>>
              /\ MapInv'
           \/ Fails /\ ~Unambiguous(Source)
<1> DEFINE directive == Source.directives[at]
           key == Prefix(directive)
           val == Iri(directive)
<1>1. /\ Reads /\ Source # Unparsed /\ at \in 1 .. Len(Source.directives)
      /\ Source \in UnresolvedDocument
      /\ directive \in Directive
    BY SourceIs DEF InsertPrefix, ReadsDirective, SourceInv, MapInv
<1>2. key \in Prefixes /\ val \in IRIs
    BY <1>1, DirectiveIs
<1>3. \A k \in Prefixes : IF map[k] = Undefined THEN Seen(k) = {} ELSE Seen(k) = {map[k]}
    BY <1>1 DEF SourceInv, MapInv
<1>4. CASE map[key] \in {Undefined, val}
  <2>1. map' = [map EXCEPT ![key] = val] /\ at' = at + 1 /\ UNCHANGED <<vars, sources>>
      BY <1>4 DEF InsertPrefix
  <2>2. map' \in PrefixMaps
      BY <2>1, <1>2 DEF SourceInv, PrefixMaps
  <2>3. Source' = Source /\ (Reads' <=> Reads)
      BY <2>1 DEF vars, merging, Source, Reads
  <2>4. ASSUME NEW k \in Prefixes
        PROVE  Seen(k)' = Seen(k) \union (IF k = key THEN {val} ELSE {})
    <3>1. 1 .. at' - 1 = (1 .. at - 1) \union {at}
        BY <2>1, <1>1
    <3> QED BY <2>3, <3>1 DEF Seen
  <2>5. ASSUME NEW k \in Prefixes
        PROVE  IF map'[k] = Undefined THEN Seen(k)' = {} ELSE Seen(k)' = {map'[k]}
    <3>1. map'[k] = IF k = key THEN val ELSE map[k]
        BY <2>1 DEF SourceInv, PrefixMaps
    <3>2. CASE k = key
        BY <3>1, <3>2, <2>4, <1>2, <1>3, <1>4, NamesAssumption
    <3>3. CASE k # key
        BY <3>1, <3>3, <2>4, <1>3
    <3> QED BY <3>2, <3>3
  <2>6. at' \in 1 .. Len(Source'.directives) + 1
      BY <2>1, <2>3, <1>1
  <2> QED BY <2>1, <2>2, <2>5, <2>6 DEF MapInv
<1>5. CASE map[key] \notin {Undefined, val}
  <2>1. Fails
      BY <1>5 DEF InsertPrefix
  <2>2. Seen(key) = {map[key]}
      BY <1>2, <1>3, <1>5
  <2>3. Seen(key) \subseteq IrisOf(Source, key)
      BY <1>1 DEF Seen, IrisOf
  <2>4. val \in IrisOf(Source, key)
      BY <1>1 DEF IrisOf
  <2>5. ~\E v \in IRIs : IrisOf(Source, key) \subseteq {v}
      BY <2>2, <2>3, <2>4, <1>5
  <2> QED BY <2>1, <2>5, <1>2 DEF Unambiguous
<1> QED BY <1>4, <1>5

----------------------------------------------------------------------------
\* Reading the sources

\* Document e is what its source says.
IsResolved(e) ==
    /\ sources[e] \in UnresolvedDocument /\ Unambiguous(sources[e])
    /\ documents[e].prefix_map \in PrefixMaps
    /\ documents[e] = resolve_document(sources[e], documents[e].prefix_map)
    /\ \A w \in NamesOf(sources[e]) :
          /\ resolve(w, documents[e].prefix_map) # Undefined
          /\ StandsFor(sources[e], w, resolve(w, documents[e].prefix_map))

DocumentsInv ==
    /\ documents \in Seq(Document)
    /\ Len(documents) <= Len(sources)
    /\ \A e \in 1 .. Len(documents) : IsResolved(e)
    /\ stage = "unresolved" => ~Unambiguous(sources[Len(documents) + 1])

\* Before new is called, its variables are as at the start.
NotStarted ==
    stage \in NotCalled =>
        /\ d = 1 /\ prefix_map = NoPrefixes /\ defined_prefixes = {}
        /\ templates = <<>> /\ types = <<>> /\ i = 1 /\ inner_changed = FALSE

RInv == SourceInv /\ DocumentsInv /\ NotStarted

LEMMA RInvInitially == ReadInit => RInv
<1> SUFFICES ASSUME ReadInit PROVE RInv
    OBVIOUS
<1>1. sources \in Seq(MayBeSource)
    BY SourcesAssumption DEF ReadInit, MayBeSource
<1>2. documents \in Seq(Document) /\ Len(documents) = 0
    BY EmptySeq DEF ReadInit
<1>3. map \in PrefixMaps /\ \A k \in Prefixes : map[k] = Undefined
    BY DEF ReadInit, NoPrefixes, PrefixMaps
<1>4. at = 1 /\ map = NoPrefixes /\ stage = "read"
    BY DEF ReadInit
<1>5. MapInv
  <2> SUFFICES ASSUME Reads, Source # Unparsed
               PROVE  at \in 1 .. Len(Source.directives) + 1 /\ \A k \in Prefixes : Seen(k) = {}
      BY <1>3 DEF MapInv
  <2>1. Len(Source.directives) \in Nat
      BY <1>1, <1>2, SourceIs
  <2> QED BY <2>1, <1>4 DEF Seen
<1>6. SourceInv
    BY <1>1, <1>3, <1>4, <1>5 DEF SourceInv
<1>7. DocumentsInv
    BY <1>1, <1>2, <1>4, LenProperties DEF DocumentsInv
<1>8. NotStarted
    BY DEF ReadInit, NotStarted
<1> QED BY <1>6, <1>7, <1>8 DEF RInv

\* Where the source stays the same, a step that leaves the reading alone keeps RInv.
LEMMA RInvFails ==
    ASSUME RInv, Fails, Reads, ~Unambiguous(Source) PROVE RInv'
<1>1. /\ stage' = "unresolved" /\ stage = "read"
      /\ UNCHANGED <<documents, d, prefix_map, defined_prefixes, templates, types, i,
                     inner_changed, sources, map, at>>
    BY DEF Fails, Reads, merging, inference, reading
<1>2. SourceInv'
    BY <1>1 DEF RInv, SourceInv, MapInv, Reads
<1>3. DocumentsInv'
    BY <1>1 DEF RInv, DocumentsInv, IsResolved, Source
<1>4. NotStarted'
    BY <1>1 DEF RInv, NotStarted, NotCalled
<1> QED BY <1>2, <1>3, <1>4 DEF RInv

LEMMA RInvParsingFails == RInv /\ ParsingFails => RInv'
<1> SUFFICES ASSUME RInv, ParsingFails PROVE RInv'
    OBVIOUS
<1>1. Reads /\ Fails /\ ~Unambiguous(Source)
    BY DEF ParsingFails, Unambiguous
<1> QED BY <1>1, RInvFails

LEMMA RInvInsert == RInv /\ InsertPrefix => RInv'
<1> SUFFICES ASSUME RInv, InsertPrefix PROVE RInv'
    OBVIOUS
<1>1. Reads
    BY DEF InsertPrefix, ReadsDirective
<1>2. CASE Fails /\ ~Unambiguous(Source)
    BY <1>1, <1>2, RInvFails
<1>3. CASE /\ map' \in PrefixMaps /\ at' = at + 1 /\ UNCHANGED <<vars, sources>> /\ MapInv'
  <2>1. UNCHANGED <<stage, documents, d, prefix_map, defined_prefixes, templates, types, i,
                    inner_changed, sources>>
      BY <1>3 DEF vars, merging, inference
  <2>2. at \in 1 .. Len(Source.directives)
      BY SourceIs DEF InsertPrefix, ReadsDirective, RInv, SourceInv, DocumentsInv, MapInv
  <2>3. SourceInv'
      BY <1>3, <2>1, <2>2 DEF RInv, SourceInv
  <2>4. DocumentsInv' /\ NotStarted'
      BY <2>1 DEF RInv, DocumentsInv, IsResolved, NotStarted
  <2> QED BY <2>3, <2>4 DEF RInv
<1> QED BY <1>2, <1>3, InsertPrefixIs DEF RInv, DocumentsInv

LEMMA RInvResolve == RInv /\ ResolveStatements => RInv'
<1> SUFFICES ASSUME RInv, ResolveStatements PROVE RInv'
    OBVIOUS
<1> DEFINE full == WithPredefined(map)
<1>1. /\ Reads /\ Source # Unparsed /\ at > Len(Source.directives)
      /\ Source \in UnresolvedDocument /\ Len(Source.directives) \in Nat
    BY SourceIs DEF ResolveStatements, RInv, SourceInv, DocumentsInv
<1>2. at = Len(Source.directives) + 1
    BY <1>1 DEF RInv, SourceInv, MapInv
<1>3. \A k \in Prefixes : Seen(k) = IrisOf(Source, k)
    BY <1>1, <1>2 DEF Seen, IrisOf
<1>4. \A k \in Prefixes : IF map[k] = Undefined THEN IrisOf(Source, k) = {}
                                                ELSE IrisOf(Source, k) = {map[k]}
    BY <1>1, <1>3 DEF RInv, SourceInv, MapInv
<1>5. map \in PrefixMaps /\ full \in PrefixMaps
    BY WithPredefinedIs DEF RInv, SourceInv
<1>6. NamesOf(Source) \subseteq Written
    BY <1>1, NamesOfSource
<1>7. \A w \in NamesOf(Source) : \A iri \in IRIs : StandsFor(Source, w, iri) <=> iri = resolve(w, full)
    BY <1>1, <1>4, <1>5, <1>6, ResolvedIsMeant
<1> HIDE DEF full
<1>8. CASE \E w \in NamesOf(Source) : resolve(w, full) = Undefined
  <2>1. Fails
      BY <1>8 DEF ResolveStatements, full
  <2>2. ~Unambiguous(Source)
      BY <1>7, <1>8, NamesAssumption DEF Unambiguous
  <2> QED BY <1>1, <2>1, <2>2, RInvFails
<1>9. CASE \A w \in NamesOf(Source) : resolve(w, full) # Undefined
  <2> DEFINE doc == resolve_document(Source, full)
  <2>0. PICK e1 : e1 = Len(documents) + 1
      OBVIOUS
  <2>1. /\ documents' = Append(documents, doc) /\ map' = NoPrefixes /\ at' = 1
        /\ UNCHANGED <<stage, d, prefix_map, defined_prefixes, templates, types, i,
                       inner_changed, sources>>
      BY <1>9 DEF ResolveStatements, full, inference
  <2>2. doc \in Document /\ doc.prefix_map = full
      BY <1>1, <1>5, <1>9, DocumentResolves DEF resolve_document
  <2>3. documents \in Seq(Document) /\ sources \in Seq(MayBeSource) /\ e1 <= Len(sources)
      BY <1>1, <2>0, LenProperties DEF RInv, DocumentsInv, SourceInv, Reads
  <2> HIDE DEF doc
  <2>4. /\ documents' \in Seq(Document) /\ Len(documents') = e1
        /\ \A e \in 1 .. Len(documents) : documents'[e] = documents[e]
        /\ documents'[e1] = doc
      BY <2>0, <2>1, <2>2, <2>3, AppendProperties
  <2>5. Unambiguous(Source)
    <3>1. ASSUME NEW k \in Prefixes PROVE \E v \in IRIs : IrisOf(Source, k) \subseteq {v}
      <4>1. CASE map[k] = Undefined
        <5>1. \E v \in IRIs : TRUE
            BY NamesAssumption, ResolverAssumption
        <5> QED BY <1>4, <4>1, <5>1
      <4>2. CASE map[k] # Undefined
        <5>1. map[k] \in IRIs
            BY <1>5, <4>2 DEF PrefixMaps
        <5> QED BY <1>4, <4>2, <5>1
      <4> QED BY <4>1, <4>2
    <3>2. \A w \in NamesOf(Source) : \E iri \in IRIs : StandsFor(Source, w, iri)
        BY <1>5, <1>6, <1>7, <1>9, ResolveIs
    <3> QED BY <1>1, <3>1, <3>2 DEF Unambiguous
  <2>6. \A w \in NamesOf(Source) : StandsFor(Source, w, resolve(w, full))
      BY <1>5, <1>6, <1>7, <1>9, ResolveIs
  <2>7. IsResolved(e1)'
    <3>1. sources' = sources /\ sources[e1] = Source /\ documents'[e1] = doc
        BY <2>0, <2>1, <2>4 DEF Source
    <3>2. doc = resolve_document(Source, doc.prefix_map)
        BY <2>2 DEF doc
    <3> QED BY <1>1, <1>5, <1>9, <2>2, <2>5, <2>6, <3>1, <3>2 DEF IsResolved
  <2>8. \A e \in 1 .. Len(documents) : IsResolved(e)'
      BY <2>1, <2>4 DEF RInv, DocumentsInv, IsResolved
  <2>9. DocumentsInv'
    <3>1. 1 .. Len(documents') = (1 .. Len(documents)) \union {e1}
        BY <2>0, <2>3, <2>4, LenProperties
    <3>2. stage' = "read"
        BY <1>1, <2>1 DEF Reads
    <3> QED BY <2>1, <2>3, <2>4, <2>7, <2>8, <3>1, <3>2 DEF DocumentsInv
  <2>10. SourceInv'
    <3>1. map' \in PrefixMaps /\ \A k \in Prefixes : map'[k] = Undefined
        BY <2>1 DEF NoPrefixes, PrefixMaps
    <3>2. MapInv'
      <4> SUFFICES ASSUME Reads', Source' # Unparsed
                   PROVE  at' \in 1 .. Len(Source'.directives) + 1
                          /\ \A k \in Prefixes : Seen(k)' = {}
          BY <3>1 DEF MapInv
      <4>1. sources' \in Seq(MayBeSource) /\ documents' \in Seq(Document)
          BY <2>1, <2>3, <2>4
      <4>2. Len(documents') + 1 \in 1 .. Len(sources')
          BY <4>1, LenProperties DEF Reads
      <4>3. Source' \in UnresolvedDocument
          BY <4>1, <4>2, ElementOfSeq DEF Source, MayBeSource
      <4>4. Len(Source'.directives) \in Nat
          BY <4>3 DEF UnresolvedDocument
      <4> QED BY <2>1, <4>4 DEF Seen
    <3> QED BY <2>1, <2>3, <3>1, <3>2 DEF SourceInv
  <2>11. NotStarted'
      BY <2>1 DEF RInv, NotStarted
  <2> QED BY <2>9, <2>10, <2>11 DEF RInv
<1> QED BY <1>8, <1>9

\* new leaves the documents and the sources alone.
LEMMA RInvNew ==
    ASSUME RInv, stage \notin NotCalled, stage' \notin NotCalled,
           UNCHANGED <<documents, reading>>
    PROVE  RInv'
<1>1. UNCHANGED <<documents, sources, map, at>> /\ ~Reads /\ ~Reads'
    BY DEF reading, Reads, NotCalled
<1>2. SourceInv'
    BY <1>1 DEF RInv, SourceInv, MapInv
<1>3. DocumentsInv'
    BY <1>1 DEF RInv, DocumentsInv, IsResolved, NotCalled
<1>4. NotStarted'
    BY DEF NotStarted
<1> QED BY <1>2, <1>3, <1>4 DEF RInv

----------------------------------------------------------------------------
\* new, called with the resolved documents

\* The names of the templates of the documents merged so far are in the dataset.
MergedNames ==
    /\ d <= Len(documents) + 1
    /\ stage # "merge" => d = Len(documents) + 1
    /\ \A e \in 1 .. d - 1 : \A t \in 1 .. Len(documents[e].templates) :
          \E s \in 1 .. Len(templates) : templates[s].name = documents[e].templates[t].name

NewInv == stage \notin NotCalled => IInv /\ PInv /\ MergedNames

LEMMA NextKeepsDocuments == Next => UNCHANGED documents /\ stage \in {"merge", "infer"}
BY DEF Next, MergeDocument, StartInference, InferTypes, Skip, VisitFails, VisitClashes,
       VisitUpdates, VisitChangesNothing, EndRound, Visits, merging

LEMMA PInvStep == PInv /\ [Next]_vars => PInv'
<1> SUFFICES ASSUME PInv, [Next]_vars PROVE PInv'
    OBVIOUS
<1>1. CASE MergeDocument
    BY <1>1, PInvMerge
<1>2. CASE UNCHANGED merging
  <2>1. UNCHANGED <<documents, d, prefix_map, defined_prefixes>>
      BY <1>2 DEF merging
  <2>2. \A k \in Prefixes : IRIsOf(k)' = IRIsOf(k)
      BY <2>1 DEF IRIsOf
  <2>3. PrefixesAgree' <=> PrefixesAgree
      BY <2>1 DEF PrefixesAgree
  <2> QED BY <2>1, <2>2, <2>3 DEF PInv
<1> QED BY <1>1, <1>2 DEF Next, InferTypes, StartInference, Skip, VisitFails, VisitClashes,
      VisitUpdates, VisitChangesNothing, EndRound, vars

LEMMA MergedNamesStep == IInv /\ MergedNames /\ Next => MergedNames'
<1> SUFFICES ASSUME IInv, MergedNames, Next PROVE MergedNames'
    OBVIOUS
<1>0. /\ documents \in Seq(Document) /\ templates \in Seq(Template) /\ d \in Nat \ {0}
      /\ documents' = documents
    BY NextKeepsDocuments DEF IInv, Typed
<1>1. CASE MergeDocument
  <2>1. documents[d] \in Document /\ d \in 1 .. Len(documents)
      BY <1>0, <1>1, ElementOfSeq DEF MergeDocument
  <2>2. /\ templates' = templates \o documents[d].templates /\ d' = d + 1 /\ stage' = "merge"
        /\ documents[d].templates \in Seq(Template)
      BY <1>1, <2>1 DEF MergeDocument, Document
  <2>3. /\ Len(templates') = Len(templates) + Len(documents[d].templates)
        /\ \A s \in 1 .. Len(templates) : templates'[s] = templates[s]
        /\ \A t \in 1 .. Len(documents[d].templates) :
              templates'[Len(templates) + t] = documents[d].templates[t]
      BY <1>0, <2>2, ConcatProperties, LenProperties
  <2>4. Len(templates) \in Nat /\ Len(documents[d].templates) \in Nat
      BY <1>0, <2>2, LenProperties
  <2>5. ASSUME NEW e \in 1 .. d' - 1, NEW t \in 1 .. Len(documents[e].templates)
        PROVE  \E s \in 1 .. Len(templates') : templates'[s].name = documents[e].templates[t].name
    <3>1. CASE e = d
      <4>1. Len(templates) + t \in 1 .. Len(templates')
          BY <2>3, <2>4, <2>5, <3>1
      <4> QED BY <2>3, <3>1, <4>1
    <3>2. CASE e # d
      <4>1. e \in 1 .. d - 1
          BY <1>0, <2>2, <2>5, <3>2
      <4>2. PICK s \in 1 .. Len(templates) : templates[s].name = documents[e].templates[t].name
          BY <4>1 DEF MergedNames
      <4>3. s \in 1 .. Len(templates')
          BY <2>3, <2>4
      <4> QED BY <2>3, <4>2, <4>3
    <3> QED BY <3>1, <3>2
  <2>6. d' <= Len(documents') + 1 /\ stage' = "merge"
      BY <1>0, <2>1, <2>2, LenProperties
  <2>7. \A e \in 1 .. d' - 1 : \A t \in 1 .. Len(documents'[e].templates) :
           \E s \in 1 .. Len(templates') : templates'[s].name = documents'[e].templates[t].name
      BY <1>0, <2>5
  <2> QED BY <2>6, <2>7 DEF MergedNames
<1>2. CASE StartInference
  <2>1. /\ templates' = Append(templates, OttrTemplate) /\ d' = d /\ d > Len(documents)
      BY <1>2 DEF StartInference, merging
  <2>2. /\ Len(templates') = Len(templates) + 1
        /\ \A s \in 1 .. Len(templates) : templates'[s] = templates[s]
      BY <1>0, <2>1, OttrTemplateIsTemplate, AppendProperties
  <2>3. Len(templates) \in Nat /\ Len(documents) \in Nat
      BY <1>0, LenProperties
  <2>4. d = Len(documents) + 1
      BY <1>0, <2>1, <2>3 DEF MergedNames
  <2>5. ASSUME NEW e \in 1 .. d - 1, NEW t \in 1 .. Len(documents[e].templates)
        PROVE  \E s \in 1 .. Len(templates') : templates'[s].name = documents[e].templates[t].name
    <3>1. PICK s \in 1 .. Len(templates) : templates[s].name = documents[e].templates[t].name
        BY DEF MergedNames
    <3>2. s \in 1 .. Len(templates')
        BY <2>2, <2>3
    <3> QED BY <2>2, <3>1, <3>2
  <2>6. d' = Len(documents') + 1 /\ d' <= Len(documents') + 1
      BY <1>0, <2>1, <2>3, <2>4
  <2>7. \A e \in 1 .. d' - 1 : \A t \in 1 .. Len(documents'[e].templates) :
           \E s \in 1 .. Len(templates') : templates'[s].name = documents'[e].templates[t].name
      BY <1>0, <2>1, <2>5
  <2> QED BY <2>6, <2>7 DEF MergedNames
<1>3. CASE InferTypes
  <2>1. UNCHANGED <<templates, documents, d>> /\ stage # "merge"
      BY <1>3 DEF InferTypes, Skip, VisitFails, VisitClashes, VisitUpdates,
         VisitChangesNothing, EndRound, Visits, merging
  <2> QED BY <2>1 DEF MergedNames
<1> QED BY <1>1, <1>2, <1>3 DEF Next

\* new begins with what the reading has left.
LEMMA CallNewStarts == RInv /\ CallNew => RInv' /\ NewInv'
<1> SUFFICES ASSUME RInv, CallNew PROVE RInv' /\ NewInv'
    OBVIOUS
<1>1. /\ stage = "read" /\ stage' = "merge" /\ Len(documents) = Len(sources)
      /\ UNCHANGED <<documents, d, prefix_map, defined_prefixes, templates, types, i,
                     inner_changed, sources, map, at>>
    BY DEF CallNew, merging, inference, reading
<1>2. /\ d = 1 /\ prefix_map = NoPrefixes /\ defined_prefixes = {}
      /\ templates = <<>> /\ i = 1 /\ inner_changed = FALSE /\ documents \in Seq(Document)
    BY <1>1 DEF RInv, DocumentsInv, NotStarted, NotCalled
<1>3. RInv'
  <2>1. SourceInv'
      BY <1>1 DEF RInv, SourceInv, MapInv, Reads
  <2>2. DocumentsInv' /\ NotStarted'
      BY <1>1 DEF RInv, DocumentsInv, IsResolved, NotStarted, NotCalled
  <2> QED BY <2>1, <2>2 DEF RInv
<1>4. IInv'
  <2>1. templates' \in Seq(Template)
      BY <1>1, <1>2, EmptySeq
  <2>2. d' \in Nat \ {0} /\ i' \in Nat \ {0}
      BY <1>1, <1>2
  <2>3. inner_changed' = FALSE
      BY <1>1, <1>2
  <2>5. documents' \in Seq(Document) /\ stage' = "merge" /\ i' = 1
      BY <1>1, <1>2
  <2>6. Typed'
      BY <2>1, <2>2, <2>3, <2>5 DEF Typed, Stages
  <2>4. QuietRound' /\ QuietAtEnd' /\ Untypable'
      BY <1>1, <1>2 DEF QuietRound, QuietAtEnd, Untypable
  <2> QED BY <1>1, <2>6, <2>4 DEF IInv
<1>5. PInv'
  <2>1. \A k \in Prefixes : IRIsOf(k)' = {} /\ prefix_map'[k] = Undefined
      BY <1>1, <1>2 DEF IRIsOf, NoPrefixes
  <2>2. prefix_map' \in PrefixMaps
      BY <1>1, <1>2 DEF NoPrefixes, PrefixMaps
  <2>3. Len(documents') \in Nat
      BY <1>1, <1>2, LenProperties
  <2>4. PrefixesAgree'
      BY <2>1 DEF PrefixesAgree, IRIsOf
  <2> QED BY <1>1, <1>2, <2>1, <2>2, <2>3, <2>4 DEF PInv, PrefixMaps
<1>6. MergedNames'
  <2>1. Len(documents') \in Nat
      BY <1>1, <1>2, LenProperties
  <2> QED BY <1>1, <1>2, <2>1 DEF MergedNames
<1> QED BY <1>3, <1>4, <1>5, <1>6 DEF NewInv

LEMMA ReadInvStep == RInv /\ NewInv /\ [ReadNext]_readingVars => RInv' /\ NewInv'
<1> SUFFICES ASSUME RInv, NewInv, [ReadNext]_readingVars PROVE RInv' /\ NewInv'
    OBVIOUS
<1>1. CASE ParsingFails \/ InsertPrefix \/ ResolveStatements
  <2>1. stage' \in NotCalled
      BY <1>1 DEF ParsingFails, InsertPrefix, ResolveStatements, ReadsDirective, Reads, Fails,
         NotCalled, vars
  <2> QED BY <1>1, <2>1, RInvParsingFails, RInvInsert, RInvResolve DEF NewInv
<1>2. CASE CallNew
    BY <1>2, CallNewStarts
<1>3. CASE Next /\ UNCHANGED reading
  <2>1. UNCHANGED documents /\ stage \in {"merge", "infer"}
      BY <1>3, NextKeepsDocuments
  <2>2. stage \notin NotCalled /\ IInv /\ PInv /\ MergedNames
      BY <2>1 DEF NewInv, NotCalled
  <2>3. IInv' /\ PInv' /\ MergedNames'
      BY <1>3, <2>2, IInvStep, PInvStep, MergedNamesStep
  <2>4. stage' \notin NotCalled
      BY <2>3 DEF IInv, Typed, Stages, NotCalled
  <2> QED BY <1>3, <2>1, <2>2, <2>3, <2>4, RInvNew DEF NewInv
<1>4. CASE UNCHANGED readingVars
  <2>1. UNCHANGED vars /\ UNCHANGED reading
      BY <1>4 DEF readingVars
  <2>2. UNCHANGED <<stage, documents, d, prefix_map, defined_prefixes, templates, types, i,
                    inner_changed, sources, map, at>>
      BY <2>1 DEF vars, merging, inference, reading
  <2>3. SourceInv'
    <3>1. Source' = Source /\ (Reads' <=> Reads)
        BY <2>2 DEF Source, Reads
    <3>2. \A k \in Prefixes : Seen(k)' = Seen(k)
        BY <2>2, <3>1 DEF Seen
    <3>3. MapInv'
        BY <2>2, <3>1, <3>2 DEF RInv, SourceInv, MapInv
    <3> QED BY <2>2, <3>1, <3>3 DEF RInv, SourceInv
  <2>4. DocumentsInv' /\ NotStarted'
      BY <2>2 DEF RInv, DocumentsInv, IsResolved, NotStarted
  <2>5. stage \notin NotCalled => IInv' /\ PInv'
      BY <2>1, IInvStep, PInvStep DEF NewInv
  <2>6. stage \notin NotCalled => MergedNames'
      BY <2>2 DEF NewInv, MergedNames
  <2> QED BY <2>2, <2>3, <2>4, <2>5, <2>6 DEF RInv, NewInv
<1> QED BY <1>1, <1>2, <1>3, <1>4 DEF ReadNext, Read

LEMMA ReadInvAlways == ReadSpec => [](RInv /\ NewInv)
<1>1. ReadInit => NewInv
    BY DEF ReadInit, NewInv, NotCalled
<1> QED BY <1>1, RInvInitially, ReadInvStep, PTL DEF ReadSpec

----------------------------------------------------------------------------
\* The results

\* The least typing is inferred whatever texts the templates are read from.
THEOREM SourcesAreTypedLeast == ReadSpec => []LeastTyping
<1>1. NewInv => LeastTyping
    BY LeastAtEnd DEF NewInv, NotCalled, LeastTyping
<1> QED BY <1>1, ReadInvAlways, PTL

\* No source is refused for its types unless it has no typing.
THEOREM SourceErrorsAreJustified == ReadSpec => []IncompatibleMeansUntypable
<1>1. NewInv => IncompatibleMeansUntypable
  <2> SUFFICES ASSUME NewInv, stage = "incompatible" PROVE \A ty \in Typings : ~Solves(ty)
      BY DEF IncompatibleMeansUntypable
  <2>1. IInv
      BY DEF NewInv, NotCalled
  <2> QED BY <2>1, TypingsAreTypings DEF IInv, Untypable
<1> QED BY <1>1, ReadInvAlways, PTL

\* While documents are read no prefix is used; then the merge agrees with them.
THEOREM SourcePrefixesAgree == ReadSpec => []PrefixesAgree
<1>1. RInv /\ NewInv => PrefixesAgree
  <2> SUFFICES ASSUME RInv, NewInv PROVE PrefixesAgree
      OBVIOUS
  <2>1. CASE stage \in NotCalled
    <3>1. d = 1 /\ \A k \in Prefixes : prefix_map[k] = Undefined
        BY <2>1 DEF RInv, NotStarted, NoPrefixes
    <3> QED BY <3>1 DEF PrefixesAgree
  <2>2. CASE stage \notin NotCalled
      BY <2>2 DEF NewInv, PInv
  <2> QED BY <2>1, <2>2
<1> QED BY <1>1, ReadInvAlways, PTL

LEMMA DocumentsAreAsWritten == RInv => ResolvedAsWritten
<1> SUFFICES ASSUME RInv PROVE ResolvedAsWritten
    OBVIOUS
<1>1. \A e \in 1 .. Len(documents) : IsResolved(e)
    BY DEF RInv, DocumentsInv
<1>2. \A e \in 1 .. Len(documents) : Unambiguous(sources[e])
    BY <1>1 DEF IsResolved
<1>3. stage = "unresolved" => ~Unambiguous(sources[Len(documents) + 1])
    BY DEF RInv, DocumentsInv
<1>4. ASSUME NEW e \in 1 .. Len(documents), NEW t \in 1 .. Len(documents[e].templates)
      PROVE  LET written == sources[e].templates[t] template == documents[e].templates[t]
             IN  /\ StandsFor(sources[e], written.name, template.name)
                 /\ \A n \in 1 .. Len(written.pattern_list) :
                       StandsFor(sources[e], written.pattern_list[n].template_name,
                                 template.pattern_list[n].template_name)
                 /\ \A p \in 1 .. Len(written.parameters) :
                       LET ptype == written.parameters[p].ptype
                       IN  ptype # NoType =>
                               StandsFor(sources[e], ptype.base, template.parameters[p].ptype.base[1])
  <2> DEFINE m == documents[e].prefix_map
             written == sources[e].templates[t]
  <2>1. /\ sources[e] \in UnresolvedDocument /\ documents[e] = resolve_document(sources[e], m)
        /\ \A w \in NamesOf(sources[e]) :
              resolve(w, m) # Undefined /\ StandsFor(sources[e], w, resolve(w, m))
      BY <1>1 DEF IsResolved
  <2>2. t \in 1 .. Len(sources[e].templates) /\ documents[e].templates[t] = resolve_template(written, m)
      BY <2>1, TemplatesOfDocument
  <2>3. /\ written \in UnresolvedTemplate
        /\ NamesOfTemplate(written) \subseteq NamesOf(sources[e])
      BY <2>1, <2>2, NamesOfSource
  <2> HIDE DEF m, written
  <2>4. resolve_template(written, m).name = resolve(written.name, m)
      BY DEF resolve_template
  <2>5. ASSUME NEW n \in 1 .. Len(written.pattern_list)
        PROVE  /\ written.pattern_list[n].template_name \in NamesOf(sources[e])
               /\ resolve_template(written, m).pattern_list[n].template_name
                    = resolve(written.pattern_list[n].template_name, m)
    <3>1. /\ written.pattern_list[n] \in UnresolvedInstance
          /\ written.pattern_list[n].template_name \in NamesOf(sources[e])
        BY <2>3, NamesOfParts
    <3>2. resolve_template(written, m).pattern_list[n] = resolve_instance(written.pattern_list[n], m)
        BY DEF resolve_template
    <3> QED BY <2>1, <3>1, <3>2 DEF resolve_instance, UnresolvedInstance
  <2>6. ASSUME NEW p \in 1 .. Len(written.parameters), written.parameters[p].ptype # NoType
        PROVE  /\ written.parameters[p].ptype.base \in NamesOf(sources[e])
               /\ resolve_template(written, m).parameters[p].ptype.base[1]
                    = resolve(written.parameters[p].ptype.base, m)
    <3>1. /\ written.parameters[p] \in UnresolvedParameter
          /\ written.parameters[p].ptype.base \in NamesOf(sources[e])
        BY <2>3, <2>6, NamesOfParts
    <3>2. resolve_template(written, m).parameters[p] = resolve_parameter(written.parameters[p], m)
        BY DEF resolve_template
    <3>3. resolve_parameter(written.parameters[p], m).ptype = resolve_ptype(written.parameters[p].ptype, m)
        BY <3>1 DEF resolve_parameter, UnresolvedParameter
    <3> QED BY <2>6, <3>1, <3>2, <3>3 DEF resolve_ptype
  <2>7. written.name \in NamesOf(sources[e])
      BY <2>3, NamesOfParts
  <2> QED BY <2>1, <2>2, <2>4, <2>5, <2>6, <2>7 DEF written
<1> QED BY <1>2, <1>3, <1>4 DEF ResolvedAsWritten

\* The merged prefixes are those of every document that has them.
LEMMA CallersAgree == RInv /\ NewInv => CallersMeanTheSame
<1> SUFFICES ASSUME RInv, NewInv, stage \notin {"read", "unresolved", "merge"},
                    NEW e \in 1 .. Len(documents), NEW t \in 1 .. Len(documents[e].templates),
                    "prefix" \in DOMAIN sources[e].templates[t].name,
                    prefix_map[sources[e].templates[t].name.prefix] # Undefined
             PROVE  Meant(sources[e].templates[t].name) = documents[e].templates[t].name
    BY DEF CallersMeanTheSame
<1> DEFINE m == documents[e].prefix_map
           written == sources[e].templates[t]
           w == written.name
<1>1. /\ sources[e] \in UnresolvedDocument /\ documents[e] = resolve_document(sources[e], m)
      /\ m \in PrefixMaps
      /\ \A u \in NamesOf(sources[e]) : resolve(u, m) # Undefined
    BY DEF RInv, DocumentsInv, IsResolved
<1>2. t \in 1 .. Len(sources[e].templates) /\ documents[e].templates[t] = resolve_template(written, m)
    BY <1>1, TemplatesOfDocument
<1>3. /\ w \in Written /\ w \in NamesOf(sources[e])
  <2>1. written \in UnresolvedTemplate /\ NamesOfTemplate(written) \subseteq NamesOf(sources[e])
      BY <1>1, <1>2, NamesOfSource
  <2> QED BY <2>1, NamesOfParts
<1>4. documents[e].templates[t].name = resolve(w, m) /\ resolve(w, m) # Undefined
    BY <1>1, <1>2, <1>3 DEF resolve_template
<1>5. PInv /\ MergedNames
    BY DEF NewInv, NotCalled
<1>6. d = Len(documents) + 1 /\ e \in 1 .. d - 1
    BY <1>5 DEF MergedNames, PInv
<1>7. "iri" \notin DOMAIN w /\ w.prefix \in Prefixes
    BY <1>3 DEF Written, PrefixedName
<1>8. m[w.prefix] # Undefined
    BY <1>4, <1>7 DEF resolve
<1>9. prefix_map[w.prefix] = m[w.prefix]
  <2>1. m[w.prefix] \in IRIsOf(w.prefix)
      BY <1>6, <1>8 DEF IRIsOf
  <2>2. IF \E v \in IRIsOf(w.prefix) : IRIsOf(w.prefix) = {v}
        THEN prefix_map[w.prefix] \in IRIsOf(w.prefix) ELSE prefix_map[w.prefix] = Undefined
      BY <1>5, <1>7 DEF PInv, PrefixesAgree, IRIsOf
  <2> QED BY <2>1, <2>2
<1>10. resolve(w, prefix_map) = resolve(w, m)
    BY <1>7, <1>9 DEF resolve
<1>11. \E s \in 1 .. Len(templates) : templates[s].name = resolve(w, m)
    BY <1>4, <1>5, <1>6 DEF MergedNames
<1> QED BY <1>4, <1>10, <1>11 DEF Meant

\* Names stand for what is written, in every document and for every caller.
THEOREM NamesAreUnderstood == ReadSpec => []NamesMeanTheSame
<1>1. RInv /\ NewInv => NamesMeanTheSame
    BY DocumentsAreAsWritten, CallersAgree DEF NamesMeanTheSame
<1> QED BY <1>1, ReadInvAlways, PTL
=============================================================================

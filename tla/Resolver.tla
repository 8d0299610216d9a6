------------------------------ MODULE Resolver ------------------------------
(***************************************************************************)
(* From stOTTR documents to the argument of TemplateDataset::new: every    *)
(* document is parsed and resolver.rs replaces the names written in it by  *)
(* the IRIs they stand for, one document after the other (from_folder,     *)
(* from_file, from_str and from_strs).  Then new merges the documents, as  *)
(* in TemplateDataset.  A document here is as parsed, without wording.     *)
(***************************************************************************)
EXTENDS TemplateDataset

CONSTANTS
    LocalNames,   \* what may follow a prefix
    Predefined,   \* the IRIs of rdfs, rdf, xsd and ottr, by prefix
    Composite,    \* the IRI of a prefix's IRI and a local name; Undefined if
                  \* it is not a valid IRI
    Unparsed,     \* a text that is not a stOTTR document
    SourceLists   \* the texts that are given

\* ResolvesToNamedNode: an IRI, or a name with a prefix.
PrefixedName == [prefix : Prefixes, name : LocalNames]
Written == [iri : IRIs] \union PrefixedName

\* @prefix, and @base.
Directive == [prefix : Prefixes, iri : IRIs] \union [base : IRIs]

\* The grammar has only names with a prefix for basic types.
UnresolvedPType == [lists : Seq(Constructors), base : PrefixedName]
UnresolvedParameter ==
    [variable : Variables, optional : BOOLEAN, ptype : UnresolvedPType \union {NoType}]
UnresolvedInstance == [template_name : Written, argument_list : Seq(Argument)]
UnresolvedTemplate ==
    [name : Written, parameters : Seq(UnresolvedParameter),
     pattern_list : Seq(UnresolvedInstance)]

\* The directives stand for the whole document, wherever they are in it.  others:
\* the names elsewhere in the document, in ground instances, constants,
\* default values, annotations and the datatypes of literals.
UnresolvedDocument ==
    [directives : Seq(Directive), templates : Seq(UnresolvedTemplate),
     others : SUBSET Written]

ASSUME SourcesAssumption ==
    \A ss \in SourceLists : ss \in Seq(UnresolvedDocument \union {Unparsed})
ASSUME ResolverAssumption ==
    /\ "" \in Prefixes /\ Unparsed \notin UnresolvedDocument
    /\ Predefined \in [Prefixes -> IRIs \union {Undefined}]
    /\ Composite \in [IRIs \X LocalNames -> IRIs \union {Undefined}]
    /\ IRIs \subseteq Names /\ BasicTypes = IRIs \X PrefixedName
    /\ NoType \notin UnresolvedPType

\* stage is "read" before new is called, and "unresolved" if it is not.
VARIABLES
    sources,
    map,       \* the prefix map of the document that is being resolved
    at         \* the directive of it that comes next

reading == <<sources, map, at>>
readingVars == <<vars, reading>>

NoPrefixes == [k \in Prefixes |-> Undefined]

ReadInit ==
    /\ stage = "read"
    /\ documents = <<>> /\ d = 1
    /\ prefix_map = NoPrefixes /\ defined_prefixes = {}
    /\ templates = <<>> /\ types = <<>> /\ i = 1 /\ inner_changed = FALSE
    /\ sources \in SourceLists
    /\ map = NoPrefixes /\ at = 1

----------------------------------------------------------------------------
\* The document that is being resolved, and its next directive.
Source == sources[Len(documents) + 1]
Reads  == stage = "read" /\ Len(documents) < Len(sources)
ReadsDirective == Reads /\ Source # Unparsed /\ at <= Len(Source.directives)

\* @base is an entry for the empty prefix.
Prefix(directive) == IF "base" \in DOMAIN directive THEN "" ELSE directive.prefix
Iri(directive)    == IF "base" \in DOMAIN directive THEN directive.base ELSE directive.iri

Fails ==
    /\ stage' = "unresolved"
    /\ UNCHANGED <<merging, templates, inference, reading>>

ParsingFails == Reads /\ Source = Unparsed /\ Fails

\* insert_or_raise: an entry may be repeated but not changed.
InsertPrefix ==
    /\ ReadsDirective
    /\ LET directive == Source.directives[at]
       IN  IF map[Prefix(directive)] \in {Undefined, Iri(directive)}
           THEN /\ map' = [map EXCEPT ![Prefix(directive)] = Iri(directive)]
                /\ at' = at + 1
                /\ UNCHANGED <<vars, sources>>
           ELSE Fails

\* Mutant of WithPredefined: the predefined prefixes come last.
PredefinedLast(m) == [k \in Prefixes |-> IF Predefined[k] # Undefined THEN Predefined[k] ELSE m[k]]

\* The end of build_prefix_map: prefixes without an entry get the predefined one.
WithPredefined(m) == [k \in Prefixes |-> IF m[k] = Undefined THEN Predefined[k] ELSE m[k]]

\* resolve: Undefined for a prefix without an entry and for an invalid IRI.
resolve(w, m) ==
    IF "iri" \in DOMAIN w THEN w.iri
    ELSE IF m[w.prefix] = Undefined THEN Undefined ELSE Composite[m[w.prefix], w.name]

NamesOfTemplate(t) ==
    {t.name} \union { t.pattern_list[n].template_name : n \in 1 .. Len(t.pattern_list) }
             \union { t.parameters[p].ptype.base :
                        p \in { p \in 1 .. Len(t.parameters) : t.parameters[p].ptype # NoType } }
NamesOf(source) ==
    source.others \union
        UNION { NamesOfTemplate(source.templates[t]) : t \in 1 .. Len(source.templates) }

\* A basic type keeps the name that it was written with (get_name).
resolve_ptype(ptype, m) ==
    IF ptype = NoType THEN NoType
    ELSE [lists |-> ptype.lists, base |-> <<resolve(ptype.base, m), ptype.base>>]
resolve_parameter(p, m) == [p EXCEPT !.ptype = resolve_ptype(p.ptype, m)]
resolve_instance(n, m)  == [n EXCEPT !.template_name = resolve(n.template_name, m)]
resolve_template(t, m) ==
    [name         |-> resolve(t.name, m),
     parameters   |-> [p \in 1 .. Len(t.parameters) |-> resolve_parameter(t.parameters[p], m)],
     pattern_list |-> [n \in 1 .. Len(t.pattern_list) |-> resolve_instance(t.pattern_list[n], m)]]
resolve_document(source, m) ==
    [prefix_map |-> m,
     templates  |-> [t \in 1 .. Len(source.templates) |-> resolve_template(source.templates[t], m)]]

ResolveStatements ==
    /\ Reads /\ Source # Unparsed /\ at > Len(Source.directives)
    /\ LET full == WithPredefined(map)
       IN  IF \E w \in NamesOf(Source) : resolve(w, full) = Undefined
           THEN Fails
           ELSE /\ documents' = Append(documents, resolve_document(Source, full))
                /\ map' = NoPrefixes
                /\ at' = 1
                /\ UNCHANGED <<stage, d, prefix_map, defined_prefixes, templates, inference, sources>>

CallNew ==
    /\ stage = "read" /\ Len(documents) = Len(sources)
    /\ stage' = "merge"
    /\ UNCHANGED <<merging, templates, inference, reading>>

Read == ParsingFails \/ InsertPrefix \/ ResolveStatements \/ CallNew

ReadNext == Read \/ (Next /\ UNCHANGED reading)

ReadSpec == ReadInit /\ [][ReadNext]_readingVars /\ WF_readingVars(ReadNext)

----------------------------------------------------------------------------
\* Mapping::resolve_template: the name of the template that is meant by w, an
\* IRI or a name with a prefix of the merged documents; Undefined for an error.
Meant(w) ==
    LET name == resolve(w, prefix_map)
    IN  IF \E t \in 1 .. Len(templates) : templates[t].name = name THEN name ELSE Undefined
=============================================================================

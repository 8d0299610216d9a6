------------------------- MODULE ResolverProperties -------------------------
(***************************************************************************)
(* What the names in stOTTR documents stand for, in the documents and for  *)
(* a caller who uses their prefixes.                                       *)
(***************************************************************************)
EXTENDS Resolver, TemplateDatasetProperties

\* The IRIs that the directives of a source give a prefix.
IrisOf(source, k) ==
    { Iri(source.directives[n]) : n \in { n \in 1 .. Len(source.directives) :
                                            Prefix(source.directives[n]) = k } }

\* What a name stands for in a source: any IRI given to its prefix with the local
\* name behind it, or the predefined one's if none is given.
StandsFor(source, w, iri) ==
    IF "iri" \in DOMAIN w THEN iri = w.iri
    ELSE \E v \in IF IrisOf(source, w.prefix) = {} THEN {Predefined[w.prefix]}
                                                   ELSE IrisOf(source, w.prefix) :
            v # Undefined /\ iri = Composite[v, w.name]

\* Sources that leave no doubt: no prefix stands for two IRIs, and every name for one.
Unambiguous(source) ==
    /\ source # Unparsed
    /\ \A k \in Prefixes : \E v \in IRIs : IrisOf(source, k) \subseteq {v}
    /\ \A w \in NamesOf(source) : \E iri \in IRIs : StandsFor(source, w, iri)

\* Resolving stops at a source that leaves a doubt, and only there; every name in
\* the documents is the IRI that the directives of its own source say.
ResolvedAsWritten ==
    /\ \A e \in 1 .. Len(documents) : Unambiguous(sources[e])
    /\ stage = "unresolved" => ~Unambiguous(sources[Len(documents) + 1])
    /\ \A e \in 1 .. Len(documents) : \A t \in 1 .. Len(documents[e].templates) :
          LET written == sources[e].templates[t] template == documents[e].templates[t]
          IN  /\ StandsFor(sources[e], written.name, template.name)
              /\ \A n \in 1 .. Len(written.pattern_list) :
                    StandsFor(sources[e], written.pattern_list[n].template_name,
                              template.pattern_list[n].template_name)
              /\ \A p \in 1 .. Len(written.parameters) :
                    LET ptype == written.parameters[p].ptype
                    IN  ptype # NoType =>
                            StandsFor(sources[e], ptype.base, template.parameters[p].ptype.base[1])

\* A caller may use the prefixes of the documents (src/doc/python_mapper_api.md:37):
\* where the merge leaves a prefix an IRI, a template's name with that prefix means
\* to the caller the template that it means in each of the documents, predefined
\* prefixes and ones that some document redefines included.
CallersMeanTheSame ==
    stage \notin {"read", "unresolved", "merge"} =>
        \A e \in 1 .. Len(documents) : \A t \in 1 .. Len(documents[e].templates) :
            LET w == sources[e].templates[t].name
            IN  "prefix" \in DOMAIN w /\ prefix_map[w.prefix] # Undefined
                    => Meant(w) = documents[e].templates[t].name

NamesMeanTheSame == ResolvedAsWritten /\ CallersMeanTheSame
=============================================================================

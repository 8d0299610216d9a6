---------------------------- MODULE AbstractStore ----------------------------
(***************************************************************************)
(* What the triple store promises its callers: a set of triples that calls *)
(* add to, and answers that hold exactly the triples of the moment.  There *)
(* are no frames, flags or files here, and nothing to deduplicate.  But    *)
(* triples come in groups, and a group whose triples have come in          *)
(* different forms can be lost, all of it at once.                         *)
(***************************************************************************)
CONSTANTS
    Triples,     \* every triple there can be
    Predicates,  \* their predicates
    PredicateOf(_),
    GroupOf(_),  \* the group of a triple, all of one predicate and object type
    FormOf(_)    \* the form its object has come in

VARIABLES
    triples,     \* the triples in the store
    answer       \* the last answer: a set of at most one set of triples

Matching(p) == { t \in triples : PredicateOf(t) = p }

Init == triples = {} /\ answer = {}

\* expand or construct_update puts in some triples, and takes none out; a call
\* begins, or fails, without an answer.
Add ==
    /\ triples \subseteq triples' /\ triples' \subseteq Triples
    /\ answer' = {}

\* A call that does not return for its reader loses a group of several forms.
Lose ==
    /\ \E t, u \in triples :
          /\ GroupOf(t) = GroupOf(u) /\ FormOf(t) # FormOf(u)
          /\ triples' = { v \in triples : GroupOf(v) # GroupOf(t) }
    /\ answer' = {}

\* A query of one triple pattern, and an export of everything.
Query(p) == answer' = {Matching(p)} /\ UNCHANGED triples
Export   == answer' = {triples} /\ UNCHANGED triples

Next == Add \/ Lose \/ Export \/ \E p \in Predicates : Query(p)

Spec == Init /\ [][Next]_<<triples, answer>>
=============================================================================

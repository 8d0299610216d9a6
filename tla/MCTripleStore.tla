---------------------------- MODULE MCTripleStore ----------------------------
(***************************************************************************)
(* The constants of the TripleStore runs: two predicates, one of which has *)
(* a "/" in its IRI in the runs that say so, two rows in columns of text   *)
(* and one in a column of numbers.                                         *)
(***************************************************************************)
EXTENDS TripleStoreProperties

MCPredicates == {"urn:p", "ex/q"}
MCDatatypes  == {"xsd:string", "xsd:integer"}
MCDtype      == [r \in Rows |-> IF r = "n" THEN "Int64" ELSE "Utf8"]

\* A raw frame with the given rows, the second of them twice, and a null row.
Raw(once, again) == [r \in Rows \union {NullRow} |->
    IF r \in again THEN 2 ELSE IF r \in once \union {NullRow} THEN 1 ELSE 0]
NullsOnly == Raw({}, {})

\* The frame of an instance with a constant verb.
OfVerb(p, raw) == [q \in Predicates |->
    IF q = p THEN raw ELSE [r \in Rows \union {NullRow} |-> 0]]

Add(df, t, has_unique_subset) ==
    [df |-> df, object_type |-> t, has_unique_subset |-> has_unique_subset]

OneTable   == <<Add(OfVerb("urn:p", Raw({"a"}, {"b"})), "IRI", FALSE)>>
\* Two instances that yield different triples, each vouched for by its keys.
TwoParts   == <<Add(OfVerb("urn:p", Raw({"a"}, {})), "IRI", TRUE),
                Add(OfVerb("urn:p", Raw({"b"}, {})), "IRI", TRUE)>>
Nothing    == <<Add(OfVerb("urn:p", NullsOnly), "xsd:integer", FALSE)>>
TwoTables  == <<Add(OfVerb("ex/q", Raw({"b"}, {})), "xsd:string", FALSE),
                Add(OfVerb("urn:p", Raw({"b"}, {})), "IRI", FALSE)>>
AnyVerb    == <<Add([q \in Predicates |-> Raw({"a"}, {})], "xsd:integer", FALSE)>>
\* A column of integers; and a constant too, which is kept as text.
Numbers    == <<Add(OfVerb("urn:p", Raw({"n"}, {})), "xsd:integer", FALSE)>>
TwoDtypes  == <<Add(OfVerb("urn:p", Raw({"n"}, {})), "xsd:integer", FALSE),
                Add(OfVerb("urn:p", Raw({"a"}, {})), "xsd:integer", FALSE)>>
Blank      == <<Add(OfVerb("ex/q", Raw({"a"}, {})), "BlankNode", FALSE)>>
BlankToo   == <<Add(OfVerb("urn:p", Raw({"a"}, {})), "BlankNode", FALSE)>>
\* Two instances of one template that yield the same triple.
Overlap    == <<Add(OfVerb("urn:p", Raw({"a", "b"}, {})), "IRI", FALSE),
                Add(OfVerb("urn:p", Raw({"b"}, {})), "IRI", FALSE)>>

AllInputs      == {OneTable, TwoParts, Nothing, TwoTables, AnyVerb, BlankToo, TwoDtypes}
FolderInputs   == {OneTable, TwoTables, AnyVerb, Blank, Numbers}
OverlapInputs  == {Overlap, TwoTables}
MCTemplates    == {<<"ex/q", "urn:p">>}
OneTemplate    == {<<"ex/q">>}
=============================================================================

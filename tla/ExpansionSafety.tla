-------------------------- MODULE ExpansionSafety ---------------------------
(***************************************************************************)
(* What holds of an expansion whatever the templates mean: what is handed  *)
(* over at ottr:Triple, what becomes of the unique subsets that the caller *)
(* declares, and which templates are never expanded.                       *)
(***************************************************************************)
EXTENDS Expansion

\* A frame for ottr:Triple has every parameter either as a column or as a constant,
\* so that create_triples finds the columns it selects and the type of the object.
InstancesAreTriples ==
    \A i \in instances :
        /\ DOMAIN i.dynamic_columns \union DOMAIN i.static_columns = {Subject, Verb, Object}
        /\ DOMAIN i.dynamic_columns \intersect DOMAIN i.static_columns = {}

\* A unique subset has no combination of values twice.
IsUnique(rows, subset) ==
    \A m, n \in DOMAIN rows : (\A c \in subset : rows[m][c] = rows[n][c]) => m = n
DeclaredAsIs ==
    \A s \in input.unique_subsets : s \subseteq DOMAIN input.df.dtypes /\ IsUnique(input.df.rows, s)

\* If the caller's unique subsets are unique, a frame that is added as one with a
\* unique subset has no row twice; the store then need not look for duplicates.
UniqueSubsetsHold ==
    DeclaredAsIs =>
        \A t \in added : t.has_unique_subset => \A m, n \in DOMAIN t.rows : t.rows[m] = t.rows[n] => m = n

\* From a template one comes to a template that reaches itself: there are some
\* that each have an instance of another of them.
Callees(name) == { input.templates[name].pattern_list[i].template_name :
                        i \in DOMAIN input.templates[name].pattern_list }
IsEndless(name) ==
    \E names \in SUBSET DOMAIN input.templates :
        name \in names /\ \A n \in names : Callees(n) \intersect names # {}
HasCycle == IsEndless(FirstCall.name)

\* Templates that call each other are never taken for expanded: the recursion
\* uses up any stack, and nothing has been added by then.
CyclesAddNothing == stage = "ok" => ~HasCycle

\* Templates that do not call each other fit on a stack that has room for one call
\* of each.
OnlyDeepTemplatesOverflow ==
    stage = "overflowed" => HasCycle \/ StackDepth < Cardinality(DOMAIN input.templates)

----------------------------------------------------------------------------
\* Frames and calls have the columns they are said to have, and nothing is added
\* before the end.
TypeOK ==
    /\ stage \in {"default", "called", "expanding", "ok", "error", "panicked", "overflowed"}
    /\ \A c \in calls : c.rows \in Seq([DOMAIN c.dynamic_columns -> Cells])
    /\ InstancesAreTriples
    /\ stage # "ok" => added = {}

\* The elements of a list that may be missing.
Elements(cell) == IF cell = Null THEN <<>> ELSE cell

\* The triples of a frame that is added; those with a none are dropped by the
\* store.
IsWhole(row) == \A c \in DOMAIN row : row[c] # Null
TriplesIn(t) ==
    { [s |-> row[Subject], v |-> IF t.static_verb = Null THEN row[Verb] ELSE t.static_verb,
       o |-> row[Object], type |-> t.object_type] : row \in { r \in ToSet(t.rows) : IsWhole(r) } }

\* The triples that a frame stands for by default.
DefaultTriples ==
    UNION { { [s |-> row[input.pk_col], v |-> DefaultPredicate[c], o |-> t,
               type |-> IF IsKey(c) THEN IRIType ELSE input.df.dtypes[c].base] :
                t \in (IF IsListColumn(input.df, c) THEN ToSet(Elements(row[c])) ELSE {row[c]}) \ {Null} } :
            row \in { r \in ToSet(input.df.rows) : r[input.pk_col] # Null },
            c \in DOMAIN input.df.dtypes \ {input.pk_col} }

\* The key is a column, no key is a list, and the other columns have names that make
\* IRIs and types that XSD knows.
ColumnsFit ==
    /\ input.pk_col \in DOMAIN input.df.dtypes
    /\ \A c \in DOMAIN input.df.dtypes : IsKey(c) => ~IsListColumn(input.df, c)
    /\ \A c \in DOMAIN input.df.dtypes \ {input.pk_col} : DefaultPredicate[c] # Null
    /\ \A c \in DOMAIN input.df.dtypes : ~IsKey(c) => input.df.dtypes[c].base \notin UnknownTypes

\* expand_default gives a frame, whatever nulls and lists are in it, a triple for
\* every cell beside the key, or for every element of a list there, and does so
\* without an error: the template it makes accepts the frame it was made for.
DefaultsAreExact ==
    input.pk_col # Null /\ ColumnsFit =>
        /\ stage \notin {"error", "panicked", "overflowed"}
        /\ stage = "ok" => UNION { TriplesIn(t) : t \in added } = DefaultTriples
=============================================================================

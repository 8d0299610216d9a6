------------------------------- MODULE PTypes -------------------------------
(***************************************************************************)
(* The types of template parameters (PType of ast.rs), and how lub and     *)
(* lub_update of templates.rs combine them.                                *)
(*                                                                         *)
(* A type is its list constructors from the outside in, and the type below *)
(* them: BasicType holds an IRI and the name it was written with, and      *)
(* LUBType is compared as a whole.                                         *)
(***************************************************************************)
EXTENDS Integers, Sequences

CONSTANTS
    BasicTypes,
    NoType       \* of a parameter without a type

Constructors == {"List", "NEList"}
PType == [lists : Seq(Constructors), base : BasicTypes]

ASSUME NoTypeAssumption == NoType \notin PType

MaybeType == PType \union {NoType}

Basic(b) == [lists |-> <<>>, base |-> b]

\* ListType or NEListType of a type.
ListOf(constructor, t) == [lists |-> <<constructor>> \o t.lists, base |-> t.base]

\* lub is defined for types with the same base under as many lists; a list that
\* is NEList on either side becomes NEList.
CompatibleIfEqual(left, right) == left = right   \* mutant of Compatible
Compatible(left, right) == Len(left.lists) = Len(right.lists) /\ left.base = right.base
Lub(left, right) ==
    [lists |-> [n \in 1 .. Len(left.lists) |->
                   IF left.lists[n] = "List" THEN right.lists[n] ELSE "NEList"],
     base  |-> left.base]

----------------------------------------------------------------------------
\* The order in which types are refined: none below all, List below NEList.
Below(s, t) ==
    \/ s = NoType
    \/ /\ s # NoType /\ t # NoType
       /\ s.base = t.base /\ Len(s.lists) = Len(t.lists)
       /\ \A n \in 1 .. Len(s.lists) : s.lists[n] = "NEList" => t.lists[n] = "NEList"
=============================================================================

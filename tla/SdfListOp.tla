------------------------------ MODULE SdfListOp ------------------------------
(***************************************************************************)
(* SdfListOp: opinions of layers about a list, and what composing one over *)
(* another gives.  Lists have no item twice: the parser and the editors    *)
(* refuse them.  The added and ordered items, which cannot be composed,    *)
(* are left out.                                                           *)
(***************************************************************************)
EXTENDS Naturals, FiniteSets, SequencesExt

CONSTANTS
  Items,
  MaxItems      \* how many items an opinion has: the bound of the model

ListOpAssumption == IsFiniteSet(Items)

VARIABLES
  op,         \* the list op composed so far
  effect      \* history: the list that the opinions, applied in turn, make of each list

Lists == SetToAllKPermutations(Items)

(* An explicit op has its items only, another has no explicit ones.        *)
ListOps ==
  [isExplicit : {TRUE}, explicit : Lists, deleted : {<<>>}, prepended : {<<>>},
   appended : {<<>>}]
  \cup
  [isExplicit : {FALSE}, explicit : {<<>>}, deleted : Lists, prepended : Lists,
   appended : Lists]

(* The opinions of single layers.                                          *)
Opinions ==
  {o \in ListOps :
     Len(o.explicit) + Len(o.deleted) + Len(o.prepended) + Len(o.appended) =< MaxItems}

(* The list without what is in a set.                                      *)
Without(list, gone) ==
  FoldLeft(LAMBDA rest, item : IF item \in gone THEN rest ELSE Append(rest, item), <<>>, list)

InsertIfUnique(list, item) == IF item \in ToSet(list) THEN list ELSE Append(list, item)
MoveToFront(list, item)    == <<item>> \o Without(list, {item})
MoveToBack(list, item)     == Append(Without(list, {item}), item)

DeleteKeys(list, items)  == Without(list, ToSet(items))
AddKeys(list, items)     == FoldLeft(InsertIfUnique, list, items)
PrependKeys(list, items) == FoldLeft(MoveToFront, list, Reverse(items))
AppendKeys(list, items)  == FoldLeft(MoveToBack, list, items)

(* What an op makes of a list.                                             *)
ApplyOperations(o, list) ==
  IF o.isExplicit THEN AddKeys(<<>>, o.explicit)
  ELSE AppendKeys(PrependKeys(DeleteKeys(list, o.deleted), o.prepended), o.appended)

(* Mutant: what the stronger op deletes, the weaker one still prepends.    *)
ApplyOverKeeping(outer, inner) ==
  IF outer.isExplicit THEN outer
  ELSE IF inner.isExplicit
    THEN [inner EXCEPT !.explicit = ApplyOperations(outer, inner.explicit)]
    ELSE LET placed == ToSet(outer.prepended) \cup ToSet(outer.appended)
         IN  [inner EXCEPT
                !.deleted   = Without(AddKeys(@, outer.deleted), placed),
                !.prepended = Without(outer.prepended, ToSet(outer.appended)) \o
                                Without(@, placed),
                !.appended  = Without(@, placed) \o outer.appended]

(* One op over another, as one op.                                         *)
ApplyOver(outer, inner) ==
  IF outer.isExplicit THEN outer
  ELSE IF inner.isExplicit
    THEN [inner EXCEPT !.explicit = ApplyOperations(outer, inner.explicit)]
    ELSE LET placed == ToSet(outer.prepended) \cup ToSet(outer.appended)
             gone   == ToSet(outer.deleted) \cup placed
         IN  [inner EXCEPT
                !.deleted   = Without(AddKeys(@, outer.deleted), placed),
                !.prepended = Without(outer.prepended, ToSet(outer.appended)) \o
                                Without(@, gone),
                !.appended  = Without(@, gone) \o outer.appended]

-----------------------------------------------------------------------------
(* One opinion.                                                            *)
Init == op \in Opinions /\ effect = [list \in Lists |-> ApplyOperations(op, list)]

(* Flattening goes from the strongest layer to weaker ones.                *)
ComposeUnder(inner) ==
  /\ op' = ApplyOver(op, inner)
  /\ effect' = [list \in Lists |-> effect[ApplyOperations(inner, list)]]

(* An edit goes over what a layer says.                                    *)
ComposeOver(outer) ==
  /\ op' = ApplyOver(outer, op)
  /\ effect' = [list \in Lists |-> ApplyOperations(outer, effect[list])]

Next == \E opinion \in Opinions : ComposeUnder(opinion) \/ ComposeOver(opinion)

Spec == Init /\ [][Next]_<<op, effect>>

-----------------------------------------------------------------------------
(* The composed op, which is in use as one more list op, does to every     *)
(* list what the opinions do that were composed, the weakest first.        *)
ComposedInTurn ==
  /\ op \in ListOps
  /\ \A list \in Lists : ApplyOperations(op, list) = effect[list]
=============================================================================

---------------------------- MODULE CjsonItemsMC ----------------------------
(***************************************************************************)
(* Instances of CjsonItems for TLC.                                        *)
(***************************************************************************)
EXTENDS CjsonItemsLink, TLC

\* The operations treat all cells alike.
Cells == Permutations(Item)

\* Arrays: one of three items and an item to replace its middle one, one of two and
\* its copy, or trees of depth two.  Objects in which items have the same key.  Lists
\* with references.  Constant keys, and (on two cells) references to items with one.
Callers == {[cells |-> 6, refs |-> 0, which |-> 2, keys |-> {}, const |-> {}],
            [cells |-> 4, refs |-> 0, which |-> 2, keys |-> Key, const |-> {}],
            [cells |-> 4, refs |-> 2, which |-> 1, keys |-> {}, const |-> {}],
            [cells |-> 3, refs |-> 0, which |-> 1, keys |-> Key, const |-> Key],
            [cells |-> 2, refs |-> 1, which |-> 1, keys |-> Key, const |-> Key]}
=============================================================================

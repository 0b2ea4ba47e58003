--------------------------- MODULE CjsonItemsLink ---------------------------
(***************************************************************************)
(* CjsonItems implements ItemTree: what the caller sees of the linked lists  *)
(* are the sequences of cJSON.h.                                            *)
(***************************************************************************)
EXTENDS CjsonItems

\* The list that starts at each item, as a sequence.
from[n \in Pointer] == IF n = NULL THEN <<>> ELSE <<n>> \o from[mem.next[n]]

\* The list of each item; a reference has none of its own.
Lists == [a \in Item |-> IF a \in live \ is_ref THEN from[mem.child[a]] ELSE <<>>]

ItemKeys == [n \in Item |-> string[n].key]

Tree == INSTANCE ItemTree
  WITH NoKey <- NULL, items <- Lists, key <- ItemKeys, used <- live, roots <- held

\* Every operation, with whatever arguments, does what ItemTree says of it with the
\* same arguments.  An item that is linked is one the caller gives away.
AsDescribed ==
  /\ \A n \in Item :
       /\ Create(n) => Tree!Create(n)
       /\ DeleteItem(n) => Tree!DeleteItem(n)
  /\ \A a \in Item \ live, count \in 1 .. bound.which : \A s \in [1 .. count -> Item \ live] :
       CreateArrayOf(a, s) => Tree!CreateArrayOf(a, s)
  /\ \A a \in Item, x \in held \ held' :
       /\ AddItemToArray(a, x) => Tree!AddItemToArray(a, x)
       /\ \A k \in Key :
            /\ AddItemToObject(a, k, x) => Tree!AddItemToObject(a, k, x)
            /\ AddItemToObjectCS(a, k, x) => Tree!AddItemToObjectCS(a, k, x)
            /\ ReplaceItemInObject(a, k, x) => Tree!ReplaceItemInObject(a, k, x)
       /\ \A which \in Which :
            /\ InsertItemInArray(a, which, x) => Tree!InsertItemInArray(a, which, x)
            /\ ReplaceItemInArray(a, which, x) => Tree!ReplaceItemInArray(a, which, x)
  /\ \A a, r, x \in Item :
       /\ AddItemReferenceToArray(a, r, x) => Tree!AddItemReferenceToArray(a, r, x)
       /\ \A k \in Key :
            AddItemReferenceToObject(a, k, r, x) => Tree!AddItemReferenceToObject(a, k, r, x)
  /\ \A a \in Item, which \in Which :
       /\ DetachItemFromArray(a, which) => Tree!DetachItemFromArray(a, which)
       /\ DeleteItemFromArray(a, which) => Tree!DeleteItemFromArray(a, which)
  /\ \A a \in Item, k \in Key :
       /\ DetachItemFromObject(a, k) => Tree!DetachItemFromObject(a, k)
       /\ DeleteItemFromObject(a, k) => Tree!DeleteItemFromObject(a, k)
  /\ \A x \in Item, recurse \in BOOLEAN : Duplicate(x, recurse) => Tree!Duplicate(x, recurse)

\* The pointers implement the sequences of cJSON.h: every operation acts at the
\* place that its subscript or key stands for, on the items it is given, and what
\* it puts there, copies, hands out or deletes, in which order and under which key,
\* is as its description says; everything else stays as it was.
ImplementsItemTree == Tree!Spec /\ [][AsDescribed]_vars
=============================================================================

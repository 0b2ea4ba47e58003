------------------------------ MODULE ItemTree ------------------------------
(***************************************************************************)
(* What cJSON.h promises of arrays and objects: each has a sequence of       *)
(* items, which may have keys; the caller holds the roots.  Each operation   *)
(* has its arguments and says where it acts and what is there afterwards.    *)
(* How the sequences are stored is left open.                                *)
(***************************************************************************)
EXTENDS Integers, Sequences, SequencesExt

CONSTANTS Item, Key, NoKey

VARIABLES
  items,  \* the sequence of each item; empty for an item that is not in use
  key,    \* the key of each item, or NoKey
  used,   \* the items in use
  roots   \* the items the caller holds

vars == <<items, key, used, roots>>

Init ==
  /\ items = [n \in Item |-> <<>>]
  /\ key = [n \in Item |-> NoKey]
  /\ used = {}
  /\ roots = {}

\* x and everything below it, in the forest t.
Tree(t, x) ==
  {n \in Item : \A S \in SUBSET Item :
     x \in S /\ (\A k \in S : ToSet(t[k]) \subseteq S) => n \in S}

\* The forest t without the tree of x.
Without(t, x) == [n \in Item |-> IF n \in Tree(t, x) THEN <<>> ELSE t[n]]

\* The places of a that a subscript and a key stand for, one or none: subscripts
\* count from 0, below 0 is 0, and of several items with a key it is the first.
Subscript(a, which) == {IF which > 0 THEN which + 1 ELSE 1} \cap DOMAIN items[a]
Named(a, k) ==
  {i \in DOMAIN items[a] : /\ key[items[a][i]] = k
                           /\ \A j \in 1 .. i - 1 : key[items[a][j]] # k}

\* The place behind the last item of a.
End(a) == Len(items[a]) + 1

\* x becomes item i of a, under key k.
Put(a, i, x, k) ==
  /\ a \in used
  /\ used' = used \cup {x}
  /\ roots' = roots \ {x}
  /\ key' = [key EXCEPT ![x] = k]
  /\ items' = [items EXCEPT ![a] = InsertAt(@, i, x)]
  /\ a \notin Tree(items, x)

\* Item i of a becomes a root and keeps its key.
Take(a, i) ==
  /\ UNCHANGED <<used, key>>
  /\ roots' = roots \cup {items[a][i]}
  /\ items' = [items EXCEPT ![a] = RemoveAt(@, i)]

\* With the sequences t and the keys k, the tree of x goes.
Drop(t, k, x) ==
  /\ used' = used \ Tree(t, x)
  /\ items' = Without(t, x)
  /\ key' = [n \in Item |-> IF n \in Tree(t, x) THEN NoKey ELSE k[n]]

\* Item i of a goes, with everything below it.
Erase(a, i) ==
  /\ UNCHANGED roots
  /\ Drop([items EXCEPT ![a] = RemoveAt(@, i)], key, items[a][i])

\* Item i of a goes, with everything below it, and y takes its place, under key k.
Swap(a, i, y, k) ==
  /\ roots' = roots \ {y}
  /\ Drop([items EXCEPT ![a][i] = y], [key EXCEPT ![y] = k], items[a][i])
  /\ a \notin Tree(items, y)

-----------------------------------------------------------------------------
\* A new item without items or key.
Create(n) ==
  /\ n \notin used
  /\ used' = used \cup {n}
  /\ roots' = roots \cup {n}
  /\ UNCHANGED <<items, key>>

\* A new array of the new items s.
CreateArrayOf(a, s) ==
  /\ ({a} \cup ToSet(s)) \cap used = {}
  /\ a \notin ToSet(s) /\ IsInjective(s)
  /\ used' = used \cup {a} \cup ToSet(s)
  /\ roots' = roots \cup {a}
  /\ items' = [items EXCEPT ![a] = s]
  /\ UNCHANGED key

\* x comes last; in an object it gets the key, or none when there is no memory for
\* a copy of it.
AddItemToArray(a, x) == x \in roots /\ Put(a, End(a), x, key[x])
AddItemToObject(a, k, x) == x \in roots /\ \E s \in {k, NoKey} : Put(a, End(a), x, s)
AddItemToObjectCS(a, k, x) == x \in roots /\ Put(a, End(a), x, k)

\* A new item r that stands for x comes last.
AddItemReferenceToArray(a, r, x) ==
  /\ x \in used /\ r \notin used
  /\ Put(a, End(a), r, NoKey)
AddItemReferenceToObject(a, k, r, x) ==
  /\ x \in used /\ r \notin used
  /\ \E s \in {k, NoKey} : Put(a, End(a), r, s)

\* x comes before the item at the subscript; last when there is none.
InsertItemInArray(a, which, x) ==
  /\ x \in roots
  /\ \/ \E i \in Subscript(a, which) : Put(a, i, x, key[x])
     \/ Subscript(a, which) = {} /\ Put(a, End(a), x, key[x])

DetachItemFromArray(a, which) == \E i \in Subscript(a, which) : Take(a, i)
DetachItemFromObject(a, k) == \E i \in Named(a, k) : Take(a, i)

DeleteItemFromArray(a, which) == \E i \in Subscript(a, which) : Erase(a, i)
DeleteItemFromObject(a, k) == \E i \in Named(a, k) : Erase(a, i)

ReplaceItemInArray(a, which, x) ==
  x \in roots /\ \E i \in Subscript(a, which) : Swap(a, i, x, key[x])
ReplaceItemInObject(a, k, x) ==
  x \in roots /\ \E i \in Named(a, k), s \in {k, NoKey} : Swap(a, i, x, s)

DeleteItem(x) ==
  /\ x \in roots
  /\ roots' = roots \ {x}
  /\ Drop(items, key, x)

\* A new root, the copy of x: with the copies of its items in the order of those,
\* and so on below, or without any; every copy has the key of its original.
Duplicate(x, recurse) ==
  LET D == IF recurse THEN Tree(items, x) ELSE {x}
  IN  /\ x \in used
      /\ \E f \in [D -> Item \ used] :
           LET C == {f[d] : d \in D}
               Of(n) == CHOOSE d \in D : f[d] = n
               Copy(s) == IF recurse THEN [i \in DOMAIN s |-> f[s[i]]] ELSE <<>>
           IN  /\ \A d, e \in D : f[d] = f[e] => d = e
               /\ used' = used \cup C
               /\ roots' = roots \cup {f[x]}
               /\ items' = [n \in Item |-> IF n \in C THEN Copy(items[Of(n)]) ELSE items[n]]
               /\ key' = [n \in Item |-> IF n \in C THEN key[Of(n)] ELSE key[n]]

\* Subscripts from 0 to the length stand for all others.
Next ==
  \/ \E n \in Item : Create(n) \/ DeleteItem(n) \/ CreateArrayOf(n, items'[n])
  \/ \E a, x \in Item : AddItemToArray(a, x)
  \/ \E a, x \in Item, k \in Key :
       AddItemToObject(a, k, x) \/ AddItemToObjectCS(a, k, x) \/ ReplaceItemInObject(a, k, x)
  \/ \E a, r, x \in Item : AddItemReferenceToArray(a, r, x)
  \/ \E a, r, x \in Item, k \in Key : AddItemReferenceToObject(a, k, r, x)
  \/ \E a, x \in Item : \E which \in 0 .. Len(items[a]) :
       InsertItemInArray(a, which, x) \/ ReplaceItemInArray(a, which, x)
  \/ \E a \in Item : \E which \in 0 .. Len(items[a]) :
       DetachItemFromArray(a, which) \/ DeleteItemFromArray(a, which)
  \/ \E a \in Item, k \in Key : DetachItemFromObject(a, k) \/ DeleteItemFromObject(a, k)
  \/ \E x \in Item, recurse \in BOOLEAN : Duplicate(x, recurse)

Spec == Init /\ [][Next]_vars
=============================================================================

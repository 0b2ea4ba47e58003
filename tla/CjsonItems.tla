----------------------------- MODULE CjsonItems -----------------------------
(***************************************************************************)
(* The items of cJSON.c: the doubly linked lists behind arrays and objects, *)
(* who owns an item and its key, and the operations that create, link,      *)
(* unlink, copy and delete items.                                           *)
(*                                                                         *)
(* The loops that walk a list are modelled by the item they stop at.  The   *)
(* type of an item matters by two flag bits only, its value not at all.     *)
(* Keys are compared without regard to case: a Key is a key in lower case.  *)
(* The caller keeps to the contract of cJSON.h: it passes items that exist, *)
(* links an item only while it holds it, never into itself, and does not    *)
(* change a list through a reference.                                       *)
(***************************************************************************)
EXTENDS Integers, FiniteSets, Sequences

CONSTANTS
  Item,     \* the cells malloc can hand out
  NULL,
  Key,
  Bounds    \* what callers use at most: cells and, among them, references, both at
            \* a time; the largest index passed in; the keys that items have; and those
            \* that are passed to cJSON_AddItemToObjectCS

ASSUME ItemsAssumption ==
  /\ IsFiniteSet(Item)
  /\ NULL \notin Item
  /\ \A b \in Bounds : b \in [cells : Nat, refs : Nat, which : Nat, keys : SUBSET Key, const : SUBSET Key]

\* A char *string: the key, and whether free() may be called on it.
NoString == [key |-> NULL, at |-> "nowhere"]
String == {NoString} \cup [key : Key, at : {"heap", "const"}]

VARIABLES
  mem,       \* the pointers next, prev and child of every item
  string,    \* item->string
  is_const,  \* the items with the type bit cJSON_StringIsConst
  is_ref,    \* the items with the type bit cJSON_IsReference
  live,      \* the items that are allocated
  held,      \* the items the caller holds, to link or to delete
  bound      \* one of Bounds

strings == <<string, is_const>>
cells == <<mem, strings, is_ref, live, held>>
vars == <<cells, bound>>

Pointer == Item \cup {NULL}
Nowhere == [n \in Item |-> NULL]

Init ==
  /\ mem = [next |-> Nowhere, prev |-> Nowhere, child |-> Nowhere]
  /\ string = [n \in Item |-> NoString]
  /\ is_const = {}
  /\ is_ref = {}
  /\ live = {}
  /\ held = {}
  /\ bound \in Bounds

-----------------------------------------------------------------------------
(***************************************************************************)
(* Walking a list.                                                         *)
(***************************************************************************)

\* The items from n on, along next.
From(n) ==
  {m \in Item : \A S \in SUBSET Item :
     n \in S /\ (\A k \in S : mem.next[k] \in S \cup {NULL}) => m \in S}

\* The items of the array or object a (cJSON_GetArraySize counts them).
Chain(a) == IF mem.child[a] = NULL THEN {} ELSE From(mem.child[a])

\* How many steps from array->child lead to c.
Index(a, c) == Cardinality({n \in Chain(a) : c \in From(n)}) - 1

\* cJSON_GetArrayItem and the loops of its kind: the item after which steps, if
\* the list is that long; an index below 0 counts as 0.
GetArrayItemMut(a, which) ==
  {c \in Chain(a) : Index(a, c) = IF which > 1 THEN which - 1 ELSE 0}
GetArrayItem(a, which) ==
  {c \in Chain(a) : Index(a, c) = IF which > 0 THEN which ELSE 0}

\* cJSON_GetObjectItem and the loops of its kind: the first item with that key.
\* An item without a key (of an array) matches none.
GetObjectItemMut(a, k) ==
  {c \in Chain(a) : /\ string[c].key = k
                    /\ \A n \in Chain(a) : string[n].key = k => c \in From(n)}
GetObjectItem(a, k) ==
  {c \in Chain(a) : /\ string[c].key = k
                    /\ \A n \in Chain(a) : string[n].key = k => n \in From(c)}

-----------------------------------------------------------------------------
(***************************************************************************)
(* Changing pointers.  m is the memory before the change.                  *)
(***************************************************************************)

suffix_object(m, p, x) == [m EXCEPT !.next[p] = x, !.prev[x] = p]

AddItem(m, a, x) ==
  IF m.child[a] = NULL
    THEN [m EXCEPT !.child[a] = x]
    ELSE LET last == CHOOSE c \in Chain(a) : m.next[c] = NULL
         IN  suffix_object(m, last, x)

\* Take c out of the list of a.
DetachHeadMut(m, a, c) ==
  [next  |-> [n \in Item |-> IF n = c THEN NULL ELSE IF n = m.prev[c] THEN m.next[c] ELSE m.next[n]],
   prev  |-> [n \in Item |-> IF n = c THEN NULL ELSE IF n = m.next[c] THEN m.prev[c] ELSE m.prev[n]],
   child |-> m.child]
Detach(m, a, c) ==
  [next  |-> [n \in Item |-> IF n = c THEN NULL ELSE IF n = m.prev[c] THEN m.next[c] ELSE m.next[n]],
   prev  |-> [n \in Item |-> IF n = c THEN NULL ELSE IF n = m.next[c] THEN m.prev[c] ELSE m.prev[n]],
   child |-> [n \in Item |-> IF n = a /\ m.child[a] = c THEN m.next[c] ELSE m.child[n]]]

\* Put x before c.
Insert(m, a, c, x) ==
  [m EXCEPT !.next = [n \in Item |-> IF n = x THEN c
                                     ELSE IF m.child[a] # c /\ n = m.prev[c] THEN x ELSE m.next[n]],
            !.prev[x] = m.prev[c],
            !.prev[c] = x,
            !.child[a] = IF @ = c THEN x ELSE @]

\* Put x in the place of c, which is left alone.
Replace(m, a, c, x) ==
  [m EXCEPT !.next = [n \in Item |-> IF n = x THEN m.next[c]
                                     ELSE IF n = c THEN NULL
                                     ELSE IF m.child[a] # c /\ n = m.prev[c] THEN x ELSE m.next[n]],
            !.prev = [n \in Item |-> IF n = x THEN m.prev[c]
                                     ELSE IF n = c THEN NULL
                                     ELSE IF n = m.next[c] THEN x ELSE m.prev[n]],
            !.child[a] = IF @ = c THEN x ELSE @]

\* The items cJSON_Delete(c) frees: c and those after it, and what is below them,
\* except below a reference.
DeletedMut(m, c) ==
  {n \in Item : \A S \in SUBSET Item :
     /\ c \in S
     /\ \A k \in S : m.next[k] \in S \cup {NULL} /\ m.child[k] \in S \cup {NULL}
     => n \in S}
Deleted(m, c) ==
  {n \in Item : \A S \in SUBSET Item :
     /\ c \in S
     /\ \A k \in S : /\ m.next[k] \in S \cup {NULL}
                     /\ k \notin is_ref => m.child[k] \in S \cup {NULL}
     => n \in S}

\* cJSON_Delete(c), with the memory and the keys at that moment.  A freed cell is
\* blank here; its key goes with it, unless the type bit says it is constant.
Delete(m, str, c) ==
  LET D == Deleted(m, c)
      Blank(f, blank) == [n \in Item |-> IF n \in D THEN blank ELSE f[n]]
  IN  /\ live' = live \ D
      /\ mem' = [next |-> Blank(m.next, NULL), prev |-> Blank(m.prev, NULL),
                 child |-> Blank(m.child, NULL)]
      /\ string' = Blank(str, NoString)
      /\ is_const' = is_const \ D
      /\ is_ref' = is_ref \ D

-----------------------------------------------------------------------------
(***************************************************************************)
(* The operations of cJSON.h.                                              *)
(***************************************************************************)

\* cJSON_CreateNull, ..., cJSON_CreateObject; nothing happens when malloc fails.
Create(n) ==
  /\ n \notin live
  /\ live' = live \cup {n}
  /\ held' = held \cup {n}
  /\ UNCHANGED <<mem, strings, is_ref>>

\* cJSON_CreateIntArray, ..., cJSON_CreateStringArray: an array of the cells of s.
\* When malloc fails on the way, what there is of it is deleted.
ArrayOf(m, a, s) ==
  LET At(i) == IF i \in DOMAIN s THEN s[i] ELSE NULL
      Place(n) == CHOOSE i \in DOMAIN s : s[i] = n
      Moved(f, by) == [n \in Item |-> IF \E i \in DOMAIN s : s[i] = n THEN At(Place(n) + by) ELSE f[n]]
  IN  [next |-> Moved(m.next, 1), prev |-> Moved(m.prev, -1), child |-> [m.child EXCEPT ![a] = s[1]]]
CreateArrayOf(a, s) ==
  LET C == {a} \cup {s[i] : i \in DOMAIN s}
  IN  /\ C \cap live = {}
      /\ \A i, j \in DOMAIN s : s[i] # a /\ (s[i] = s[j] => i = j)
      /\ mem' = ArrayOf(mem, a, s)
      /\ live' = live \cup C
      /\ held' = held \cup {a}
      /\ UNCHANGED <<strings, is_ref>>

\* The caller may link x into a.
Linkable(a, x) == x \in held /\ a \in live \ is_ref /\ a \notin Deleted(mem, x)

AddItemToArray(a, x) ==
  /\ Linkable(a, x)
  /\ mem' = AddItem(mem, a, x)
  /\ held' = held \ {x}
  /\ UNCHANGED <<strings, is_ref, live>>

\* The old key goes; the new one is a copy, or none when malloc fails.  The flag
\* cJSON_StringIsConst is neither tested nor reset: an old key that is constant is
\* passed to free() too, which is taken to return here.
AddItemToObject(a, k, x) ==
  /\ Linkable(a, x)
  /\ \E s \in {NoString, [key |-> k, at |-> "heap"]} : string' = [string EXCEPT ![x] = s]
  /\ mem' = AddItem(mem, a, x)
  /\ held' = held \ {x}
  /\ UNCHANGED <<is_const, is_ref, live>>

AddItemToObjectCSMut(a, k, x) ==
  /\ k \in bound.const
  /\ Linkable(a, x)
  /\ string' = [string EXCEPT ![x] = [key |-> k, at |-> "const"]]
  /\ mem' = AddItem(mem, a, x)
  /\ held' = held \ {x}
  /\ UNCHANGED <<is_const, is_ref, live>>
AddItemToObjectCS(a, k, x) ==
  /\ k \in bound.const
  /\ Linkable(a, x)
  /\ string' = [string EXCEPT ![x] = [key |-> k, at |-> "const"]]
  /\ is_const' = is_const \cup {x}
  /\ mem' = AddItem(mem, a, x)
  /\ held' = held \ {x}
  /\ UNCHANGED <<is_ref, live>>

\* create_reference(x) is r: a copy of x, its flags included, without its key and
\* its place.
CreateReferenceMut(r, x) ==
  /\ Cardinality(is_ref) < bound.refs
  /\ r \notin live
  /\ live' = live \cup {r}
  /\ is_const' = IF x \in is_const THEN is_const \cup {r} ELSE is_const
  /\ UNCHANGED is_ref
CreateReference(r, x) ==
  /\ Cardinality(is_ref) < bound.refs
  /\ r \notin live
  /\ live' = live \cup {r}
  /\ is_ref' = is_ref \cup {r}
  /\ is_const' = IF x \in is_const THEN is_const \cup {r} ELSE is_const
Referring(r, x) == [mem EXCEPT !.child[r] = mem.child[x]]

AddItemReferenceToArray(a, r, x) ==
  /\ a \in live \ is_ref /\ x \in live
  /\ CreateReference(r, x)
  /\ mem' = AddItem(Referring(r, x), a, r)
  /\ UNCHANGED <<string, held>>

AddItemReferenceToObject(a, k, r, x) ==
  /\ a \in live \ is_ref /\ x \in live
  /\ CreateReference(r, x)
  /\ \E s \in {NoString, [key |-> k, at |-> "heap"]} : string' = [string EXCEPT ![r] = s]
  /\ mem' = AddItem(Referring(r, x), a, r)
  /\ UNCHANGED held

\* cJSON_DetachItemFromArray and cJSON_DetachItemFromObject, c being the item
\* they find.
DetachItem(a, c) ==
  /\ mem' = Detach(mem, a, c)
  /\ held' = held \cup {c}
  /\ UNCHANGED <<strings, is_ref, live>>
DetachItemFromArray(a, which) ==
  a \in live \ is_ref /\ \E c \in GetArrayItem(a, which) : DetachItem(a, c)
DetachItemFromObject(a, k) ==
  a \in live \ is_ref /\ \E c \in GetObjectItem(a, k) : DetachItem(a, c)

DeleteItemFromArrayMut(a, which) ==
  /\ a \in live \ is_ref
  /\ \E c \in GetArrayItem(a, which) :
       Delete(Detach(mem, a, c), string, c) /\ held' = held \cup {c}
DeleteItemFromArray(a, which) ==
  /\ a \in live \ is_ref
  /\ \E c \in GetArrayItem(a, which) : Delete(Detach(mem, a, c), string, c)
  /\ UNCHANGED held
DeleteItemFromObject(a, k) ==
  /\ a \in live \ is_ref
  /\ \E c \in GetObjectItem(a, k) : Delete(Detach(mem, a, c), string, c)
  /\ UNCHANGED held

\* An index past the end appends.
InsertItemInArray(a, which, x) ==
  /\ Linkable(a, x)
  /\ \/ /\ GetArrayItem(a, which) = {}
        /\ mem' = AddItem(mem, a, x)
     \/ \E c \in GetArrayItem(a, which) : mem' = Insert(mem, a, c, x)
  /\ held' = held \ {x}
  /\ UNCHANGED <<strings, is_ref, live>>

\* When there is nothing to replace, x stays with the caller.
ReplaceItemInArray(a, which, x) ==
  /\ Linkable(a, x)
  /\ \E c \in GetArrayItem(a, which) : Delete(Replace(mem, a, c, x), string, c)
  /\ held' = held \ {x}

\* x gets a copy of the key (or none when malloc fails); the key it had is lost.
ReplaceItemInObject(a, k, x) ==
  /\ Linkable(a, x)
  /\ \E c \in GetObjectItem(a, k), s \in {NoString, [key |-> k, at |-> "heap"]} :
       Delete(Replace(mem, a, c, x), [string EXCEPT ![x] = s], c)
  /\ held' = held \ {x}

\* cJSON_Delete by the caller.
DeleteItem(x) ==
  /\ x \in held
  /\ Delete(mem, string, x)
  /\ held' = held \ {x}

\* cJSON_Duplicate(x, recurse): f gives the copy of each item.  Of the flags the
\* copies keep cJSON_StringIsConst, though their keys are copies too.  When malloc
\* fails on the way, what was copied is deleted and nothing has changed.
\* Copying a tree with a reference in it, which would follow the reference, is left
\* out: what it borrows may have been deleted.
Duplicate(x, recurse) ==
  LET D == IF recurse THEN Deleted([mem EXCEPT !.next[x] = NULL], x) ELSE {x}
      Copy(str) == IF str = NoString THEN str ELSE [str EXCEPT !.at = "heap"]
  IN  /\ x \in live
      /\ recurse => D \cap is_ref = {}
      /\ \E f \in [D -> Item \ live] :
           LET To(p) == IF p \in D THEN f[p] ELSE NULL
               Of(n) == CHOOSE d \in D : f[d] = n
               C == {f[d] : d \in D}
           IN  /\ \A d, e \in D : f[d] = f[e] => d = e
               /\ live' = live \cup C
               /\ held' = held \cup {f[x]}
               /\ mem' = [next  |-> [n \in Item |-> IF n \notin C THEN mem.next[n]
                                       ELSE IF Of(n) = x THEN NULL ELSE To(mem.next[Of(n)])],
                          prev  |-> [n \in Item |-> IF n \notin C THEN mem.prev[n]
                                       ELSE IF Of(n) = x THEN NULL ELSE To(mem.prev[Of(n)])],
                          child |-> [n \in Item |-> IF n \notin C THEN mem.child[n]
                                       ELSE IF recurse THEN To(mem.child[Of(n)]) ELSE NULL]]
               /\ string' = [n \in Item |-> IF n \in C THEN Copy(string[Of(n)]) ELSE string[n]]
               /\ is_const' = is_const \cup {f[d] : d \in D \cap is_const}
  /\ UNCHANGED is_ref

Which == -1 .. bound.which

Operation ==
  \/ \E n \in Item : Create(n) \/ DeleteItem(n)
  \/ \E a \in Item \ live, count \in 1 .. bound.which : \E s \in [1 .. count -> Item \ live] : CreateArrayOf(a, s)
  \/ \E a, x \in Item : AddItemToArray(a, x)
  \/ \E a, x \in Item, k \in Key :
       \/ AddItemToObject(a, k, x)
       \/ AddItemToObjectCS(a, k, x)
       \/ ReplaceItemInObject(a, k, x)
  \/ \E a, r, x \in Item : AddItemReferenceToArray(a, r, x)
  \/ \E a, r, x \in Item, k \in Key : AddItemReferenceToObject(a, k, r, x)
  \/ \E a \in Item, which \in Which : DetachItemFromArray(a, which) \/ DeleteItemFromArray(a, which)
  \/ \E a \in Item, k \in Key : DetachItemFromObject(a, k) \/ DeleteItemFromObject(a, k)
  \/ \E a, x \in Item, which \in Which :
       InsertItemInArray(a, which, x) \/ ReplaceItemInArray(a, which, x)
  \/ \E x \in Item, recurse \in BOOLEAN : Duplicate(x, recurse)

Next ==
  /\ Operation
  /\ Cardinality(live') <= bound.cells
  /\ \A n \in live' : string'[n].key \in bound.keys \cup {NULL}
  /\ UNCHANGED bound

Spec == Init /\ [][Next]_vars

-----------------------------------------------------------------------------
(***************************************************************************)
(* Properties.                                                             *)
(***************************************************************************)

\* The type of every variable.
TypeOK ==
  /\ mem \in [next : [Item -> Pointer], prev : [Item -> Pointer], child : [Item -> Pointer]]
  /\ string \in [Item -> String]
  /\ is_const \subseteq live
  /\ is_ref \subseteq live
  /\ live \subseteq Item
  /\ held \subseteq live

\* Through any sequence of insertions, replacements, detachments, copies and
\* deletions the lists stay doubly linked and lead to allocated items only: next
\* and prev undo each other, the first item of a list has no prev, and an item
\* the caller holds is in no list.
WellLinked ==
  /\ \A n \in live : mem.next[n] # NULL => mem.next[n] \in live /\ mem.prev[mem.next[n]] = n
  /\ \A n \in live : mem.prev[n] # NULL => mem.prev[n] \in live /\ mem.next[mem.prev[n]] = n
  /\ \A a \in live \ is_ref :
       mem.child[a] # NULL => /\ mem.child[a] \in live \ held
                              /\ mem.prev[mem.child[a]] = NULL
  /\ \A n \in held : mem.next[n] = NULL /\ mem.prev[n] = NULL

\* Two arrays or objects never share a list (only references borrow one).
NothingShared ==
  \A a, b \in live \ is_ref : mem.child[a] # NULL /\ mem.child[a] = mem.child[b] => a = b

\* Deleting what the caller holds frees every item once: each allocated item is
\* below exactly one of them, so nothing leaks and nothing is freed twice.
OwnedOnce ==
  \A n \in live : Cardinality({x \in held : n \in Deleted(mem, x)}) = 1

\* cJSON_Delete frees a key unless the flag says it is constant, so a constant
\* key must be flagged wherever it went: through references, copies, detaching
\* and adding under another key.  (The converse fails: a flag can outlive the key
\* it was set for, and then a key on the heap is lost.)
ConstIsFlagged == \A n \in live : string[n].at = "const" => n \in is_const
=============================================================================

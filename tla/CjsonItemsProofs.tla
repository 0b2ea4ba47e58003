-------------------------- MODULE CjsonItemsProofs --------------------------
(***************************************************************************)
(* Proofs about CjsonItems: in every state the lists are linked both ways,  *)
(* no two items share one, and what the caller holds leads to every         *)
(* allocated item by exactly one way.                                       *)
(*                                                                         *)
(* The lemmas speak of the three pointers as functions nx, pv and ch, of    *)
(* the allocated items lv, the references rf and the items hd that the      *)
(* caller holds, so that an operation that changes the pointers twice is    *)
(* followed by citing two of them.  Deleted is a least closed set: what is   *)
(* said of it comes from exhibiting closed sets, without induction.          *)
(*                                                                         *)
(* The last sections read the lists as sequences, L, and prove that every   *)
(* operation is that of ItemTree.                                           *)
(***************************************************************************)
EXTENDS CjsonItemsLink, FiniteSetTheorems, TLAPS

\* S is closed under the pointers that own: next, and child except of a reference.
Closed(nx, ch, rf, S) ==
  \A k \in S : /\ nx[k] \in S \cup {NULL}
               /\ k \notin rf => ch[k] \in S \cup {NULL}

\* Deleted, of any pointers.
Below(nx, ch, rf, c) ==
  {n \in Item : \A S \in SUBSET Item : c \in S /\ Closed(nx, ch, rf, S) => n \in S}

\* The types of the pointers, and WellLinked and NothingShared for any pointers;
\* a cell that is not allocated points nowhere.
Linked(nx, pv, ch, lv, rf, hd) ==
  /\ nx \in [Item -> Pointer] /\ pv \in [Item -> Pointer] /\ ch \in [Item -> Pointer]
  /\ lv \subseteq Item /\ rf \subseteq lv /\ hd \subseteq lv
  /\ \A n \in Item : nx[n] # NULL => n \in lv /\ nx[n] \in lv /\ pv[nx[n]] = n
  /\ \A n \in Item : pv[n] # NULL => n \in lv /\ pv[n] \in lv /\ nx[pv[n]] = n
  /\ \A n \in Item : ch[n] # NULL => n \in lv
  /\ \A a \in lv \ rf : ch[a] # NULL => ch[a] \in lv \ hd /\ pv[ch[a]] = NULL
  /\ \A a, b \in lv \ rf : ch[a] # NULL /\ ch[a] = ch[b] => a = b
  /\ \A n \in hd : nx[n] = NULL /\ pv[n] = NULL

\* What the caller holds leads to every allocated item.
Owned(nx, ch, lv, rf, hd) ==
  \A S \in SUBSET Item : hd \subseteq S /\ Closed(nx, ch, rf, S) => lv \subseteq S

Forest(nx, pv, ch, lv, rf, hd) ==
  Linked(nx, pv, ch, lv, rf, hd) /\ Owned(nx, ch, lv, rf, hd)

-----------------------------------------------------------------------------
(***************************************************************************)
(* Closed sets.                                                            *)
(***************************************************************************)

\* A map of a finite set into itself that is one to one leaves nothing out.
LEMMA OntoItself ==
  ASSUME NEW S, IsFiniteSet(S), NEW t \in S, NEW f \in [S -> S],
         \A k \in S : f[k] # t,
         \A j, k \in S : f[j] = f[k] => j = k
  PROVE  FALSE
<1>1. /\ IsFiniteSet(S \ {t})
      /\ Cardinality(S \ {t}) = Cardinality(S) - 1
  BY FS_RemoveElement
<1>2. Cardinality(S) \in Nat
  BY FS_CardinalityType
<1>3. Cardinality(S \ {t}) < Cardinality(S)
  BY <1>1, <1>2
<1>4. f \in [S -> S \ {t}]
  OBVIOUS
<1> HIDE DEF IsFiniteSet
<1>5. \E x, y \in S : x # y /\ f[x] = f[y]
  BY ONLY <1>1, <1>3, <1>4, IsFiniteSet(S), FS_PigeonHole
<1> QED
  BY <1>5

\* What is below c is a closed set, and the least one with c in it.
LEMMA BelowIsClosed ==
  ASSUME NEW nx \in [Item -> Pointer], NEW ch \in [Item -> Pointer], NEW rf, NEW c \in Item
  PROVE  /\ c \in Below(nx, ch, rf, c)
         /\ Below(nx, ch, rf, c) \subseteq Item
         /\ Closed(nx, ch, rf, Below(nx, ch, rf, c))
         /\ \A S \in SUBSET Item :
              c \in S /\ Closed(nx, ch, rf, S) => Below(nx, ch, rf, c) \subseteq S
<1> DEFINE B == Below(nx, ch, rf, c)
<1>1. ASSUME NEW k \in B
      PROVE  nx[k] \in B \cup {NULL} /\ (k \notin rf => ch[k] \in B \cup {NULL})
  <2>1. k \in Item /\ nx[k] \in Pointer /\ ch[k] \in Pointer
    BY DEF Below
  <2>2. ASSUME NEW S \in SUBSET Item, c \in S, Closed(nx, ch, rf, S)
        PROVE  nx[k] \in S \cup {NULL} /\ (k \notin rf => ch[k] \in S \cup {NULL})
    BY <2>2 DEF Below, Closed
  <2> QED
    BY <2>1, <2>2 DEF Below, Pointer
<1>2. Closed(nx, ch, rf, B)
  BY <1>1 DEF Closed
<1> QED
  BY <1>2 DEF Below

\* Whatever is below c, except c, is there because something below c points to it.
LEMMA BelowHasOwner ==
  ASSUME NEW nx \in [Item -> Pointer], NEW ch \in [Item -> Pointer], NEW rf, NEW c \in Item,
         NEW k \in Below(nx, ch, rf, c), k # c
  PROVE  \E d \in Below(nx, ch, rf, c) : nx[d] = k \/ (d \notin rf /\ ch[d] = k)
<1> DEFINE B == Below(nx, ch, rf, c)
<1> SUFFICES ASSUME \A d \in B : nx[d] # k /\ (d \notin rf => ch[d] # k)
             PROVE  FALSE
  OBVIOUS
<1>1. c \in B /\ B \subseteq Item /\ Closed(nx, ch, rf, B)
  BY BelowIsClosed
<1>2. Closed(nx, ch, rf, B \ {k})
  BY <1>1 DEF Closed
<1>3. c \in B \ {k} /\ B \ {k} \in SUBSET Item
  BY <1>1
<1> HIDE DEF B
<1>4. B \subseteq B \ {k}
  BY <1>2, <1>3, BelowIsClosed DEF B
<1> QED
  BY <1>4 DEF B

\* In linked lists the owner is the item before, or has k as its first item.
LEMMA BelowHasPrev ==
  ASSUME NEW nx, NEW pv, NEW ch, NEW lv, NEW rf, NEW hd, NEW c \in lv,
         Linked(nx, pv, ch, lv, rf, hd)
  PROVE  /\ Below(nx, ch, rf, c) \subseteq lv
         /\ \A k \in Below(nx, ch, rf, c) \ {c} :
              \/ pv[k] \in Below(nx, ch, rf, c)
              \/ pv[k] = NULL /\ \E d \in Below(nx, ch, rf, c) \ rf : ch[d] = k
<1> DEFINE B == Below(nx, ch, rf, c)
<1>t. /\ nx \in [Item -> Pointer] /\ ch \in [Item -> Pointer]
      /\ c \in Item /\ lv \subseteq Item
  BY DEF Linked
<1>1. Closed(nx, ch, rf, lv)
  BY DEF Closed, Linked
<1>2. B \subseteq lv
  BY <1>t, <1>1, BelowIsClosed
<1>3. ASSUME NEW k \in B \ {c}
      PROVE  pv[k] \in B \/ (pv[k] = NULL /\ \E d \in B \ rf : ch[d] = k)
  <2>1. PICK d \in B : nx[d] = k \/ (d \notin rf /\ ch[d] = k)
    BY <1>t, BelowHasOwner
  <2>2. d \in lv /\ k \in lv /\ k # NULL
    BY <1>2, <1>t, ItemsAssumption
  <2>3. CASE nx[d] = k
    BY <2>2, <2>3, <1>t DEF Linked
  <2>4. CASE d \notin rf /\ ch[d] = k
    BY <2>2, <2>4 DEF Linked
  <2> QED
    BY <2>1, <2>3, <2>4
<1> QED
  BY <1>2, <1>3

\* What is not below a held item is closed too, and the other held items are there.
LEMMA OutsideIsClosed ==
  ASSUME NEW nx, NEW pv, NEW ch, NEW lv, NEW rf, NEW hd, NEW x \in hd,
         Linked(nx, pv, ch, lv, rf, hd)
  PROVE  /\ Closed(nx, ch, rf, Item \ Below(nx, ch, rf, x))
         /\ hd \cap Below(nx, ch, rf, x) = {x}
<1> DEFINE B == Below(nx, ch, rf, x)
<1>t. /\ nx \in [Item -> Pointer] /\ ch \in [Item -> Pointer] /\ pv \in [Item -> Pointer]
      /\ x \in Item /\ x \in lv /\ lv \subseteq Item
      /\ nx[x] = NULL /\ pv[x] = NULL
  BY DEF Linked
<1>1. x \in B /\ B \subseteq Item /\ Closed(nx, ch, rf, B)
  BY <1>t, BelowIsClosed
<1>2. \A k \in B \ {x} : pv[k] \in B \/ (pv[k] = NULL /\ \E d \in B \ rf : ch[d] = k)
  BY <1>t, BelowHasPrev
<1>3. B \subseteq lv
  BY <1>t, BelowHasPrev
<1> HIDE DEF B
<1>4. ASSUME NEW k \in Item \ B
      PROVE  nx[k] \notin B
  <2>1. SUFFICES ASSUME nx[k] \in B PROVE FALSE
    OBVIOUS
  <2>2. nx[k] # NULL /\ pv[nx[k]] = k /\ k # NULL
    BY <2>1, <1>1, ItemsAssumption DEF Linked
  <2> QED
    BY <2>1, <2>2, <1>2, <1>t
<1>5. ASSUME NEW k \in Item \ B, k \notin rf
      PROVE  ch[k] \notin B
  <2>1. SUFFICES ASSUME ch[k] \in B PROVE FALSE
    OBVIOUS
  <2>2. ch[k] # NULL /\ k \in lv \ rf
    BY <2>1, <1>1, <1>5, ItemsAssumption DEF Linked
  <2>3. ch[k] # x /\ pv[ch[k]] = NULL
    BY <2>2 DEF Linked
  <2>4. PICK d \in B \ rf : ch[d] = ch[k]
    BY <2>1, <2>3, <1>1, <1>2, ItemsAssumption
  <2>5. d = k
    BY <2>2, <2>4, <1>3 DEF Linked
  <2> QED
    BY <2>4, <2>5
<1>6. Closed(nx, ch, rf, Item \ B)
  <2> SUFFICES ASSUME NEW k \in Item \ B
               PROVE  /\ nx[k] \in (Item \ B) \cup {NULL}
                      /\ k \notin rf => ch[k] \in (Item \ B) \cup {NULL}
    BY DEF Closed
  <2>1. nx[k] \in Pointer /\ ch[k] \in Pointer
    BY <1>t
  <2> QED
    BY <2>1, <1>4, <1>5 DEF Pointer
<1>7. ASSUME NEW k \in hd, k \in B, k # x
      PROVE  FALSE
  <2>1. pv[k] = NULL /\ k \in lv
    BY DEF Linked
  <2>2. PICK d \in B \ rf : ch[d] = k
    BY <2>1, <1>1, <1>2, <1>7, ItemsAssumption
  <2>3. d \in lv \ rf /\ ch[d] # NULL
    BY <2>1, <2>2, <1>3, <1>t, ItemsAssumption
  <2> QED
    BY <2>2, <2>3 DEF Linked
<1> QED
  BY <1>1, <1>6, <1>7 DEF B

\* Without x the other held items lead to all that is not below x.
LEMMA OthersLead ==
  ASSUME NEW nx, NEW pv, NEW ch, NEW lv, NEW rf, NEW hd, NEW x \in hd,
         Forest(nx, pv, ch, lv, rf, hd),
         NEW S \in SUBSET Item, hd \ {x} \subseteq S, Closed(nx, ch, rf, S)
  PROVE  /\ lv \subseteq S \cup Below(nx, ch, rf, x)
         /\ x \in S => lv \subseteq S
<1> DEFINE B == Below(nx, ch, rf, x)
<1>1. nx \in [Item -> Pointer] /\ ch \in [Item -> Pointer] /\ x \in Item
  BY DEF Forest, Linked
<1>2. x \in B /\ B \subseteq Item /\ Closed(nx, ch, rf, B)
  BY <1>1, BelowIsClosed
<1> HIDE DEF B
<1>3. Closed(nx, ch, rf, S \cup B)
  BY <1>2 DEF Closed
<1>4. lv \subseteq S \cup B
  BY <1>2, <1>3 DEF Forest, Owned
<1>5. x \in S => lv \subseteq S
  BY DEF Forest, Owned
<1> QED
  BY <1>4, <1>5 DEF B

-----------------------------------------------------------------------------
(***************************************************************************)
(* Changing pointers keeps a forest a forest.                              *)
(***************************************************************************)

\* A new item n, held by the caller.
LEMMA NewItemKeeps ==
  ASSUME NEW nx, NEW pv, NEW ch, NEW lv, NEW rf, NEW hd, Forest(nx, pv, ch, lv, rf, hd),
         NEW n \in Item \ lv
  PROVE  Forest(nx, pv, ch, lv \cup {n}, rf, hd \cup {n})
<1>1. Linked(nx, pv, ch, lv \cup {n}, rf, hd \cup {n})
  BY DEF Forest, Linked
<1>2. Owned(nx, ch, lv \cup {n}, rf, hd \cup {n})
  BY DEF Forest, Owned
<1> QED
  BY <1>1, <1>2 DEF Forest

\* A new reference r, held for the moment, with p as its borrowed list.
LEMMA NewReferenceKeeps ==
  ASSUME NEW nx, NEW pv, NEW ch, NEW lv, NEW rf, NEW hd, Forest(nx, pv, ch, lv, rf, hd),
         NEW r \in Item \ lv, NEW p \in Pointer
  PROVE  Forest(nx, pv, [ch EXCEPT ![r] = p], lv \cup {r}, rf \cup {r}, hd \cup {r})
<1> DEFINE ch2 == [ch EXCEPT ![r] = p]
<1>1. /\ ch2 \in [Item -> Pointer]
      /\ \A n \in Item : ch2[n] = IF n = r THEN p ELSE ch[n]
  BY DEF Forest, Linked
<1> HIDE DEF ch2
<1>2. Linked(nx, pv, ch2, lv \cup {r}, rf \cup {r}, hd \cup {r})
  BY <1>1 DEF Forest, Linked
<1>3. ASSUME NEW S \in SUBSET Item, hd \cup {r} \subseteq S, Closed(nx, ch2, rf \cup {r}, S)
      PROVE  lv \cup {r} \subseteq S
  <2>1. ch[r] = NULL
    BY DEF Forest, Linked
  <2>2. Closed(nx, ch, rf, S)
    BY <1>1, <1>3, <2>1 DEF Closed
  <2> QED
    BY <1>3, <2>2 DEF Forest, Owned
<1> QED
  BY <1>2, <1>3 DEF Forest, Owned, ch2

\* x becomes the first item of a, which had none.
LEMMA FirstKeeps ==
  ASSUME NEW nx, NEW pv, NEW ch, NEW lv, NEW rf, NEW hd, Forest(nx, pv, ch, lv, rf, hd),
         NEW a \in lv \ rf, NEW x \in hd, a \notin Below(nx, ch, rf, x),
         ch[a] = NULL
  PROVE  Forest(nx, pv, [ch EXCEPT ![a] = x], lv, rf, hd \ {x})
<1> DEFINE ch2 == [ch EXCEPT ![a] = x]
<1>1. /\ ch2 \in [Item -> Pointer]
      /\ \A n \in Item : ch2[n] = IF n = a THEN x ELSE ch[n]
      /\ a \in Item
  BY DEF Forest, Linked, Pointer
<1> HIDE DEF ch2
<1>2. Linked(nx, pv, ch2, lv, rf, hd \ {x})
  BY <1>1 DEF Forest, Linked
<1>3. ASSUME NEW S \in SUBSET Item, hd \ {x} \subseteq S, Closed(nx, ch2, rf, S)
      PROVE  lv \subseteq S
  <2>1. Closed(nx, ch, rf, S)
    BY <1>1, <1>3 DEF Closed
  <2>2. a \in S
    BY <1>3, <2>1, OthersLead
  <2>3. x \in S
    BY <2>2, <1>1, <1>3, ItemsAssumption DEF Closed, Forest, Linked
  <2> QED
    BY <1>3, <2>1, <2>3, OthersLead
<1> QED
  BY <1>2, <1>3 DEF Forest, Owned, ch2

\* x goes after c, the last item of a list.
LEMMA LastKeeps ==
  ASSUME NEW nx, NEW pv, NEW ch, NEW lv, NEW rf, NEW hd, Forest(nx, pv, ch, lv, rf, hd),
         NEW x \in hd, NEW c \in lv \ hd, c \notin Below(nx, ch, rf, x),
         nx[c] = NULL
  PROVE  Forest([nx EXCEPT ![c] = x], [pv EXCEPT ![x] = c], ch, lv, rf, hd \ {x})
<1> DEFINE nx2 == [nx EXCEPT ![c] = x]
           pv2 == [pv EXCEPT ![x] = c]
<1>1. /\ nx2 \in [Item -> Pointer] /\ pv2 \in [Item -> Pointer]
      /\ \A n \in Item : nx2[n] = IF n = c THEN x ELSE nx[n]
      /\ \A n \in Item : pv2[n] = IF n = x THEN c ELSE pv[n]
      /\ c \in Item /\ x \in lv /\ x \in Item /\ x # NULL /\ c # NULL
  BY ItemsAssumption DEF Forest, Linked, Pointer
<1> HIDE DEF nx2, pv2
<1>l. Linked(nx, pv, ch, lv, rf, hd)
  BY DEF Forest
<1>2. Linked(nx2, pv2, ch, lv, rf, hd \ {x})
  <2>1. ASSUME NEW n \in Item, nx2[n] # NULL
        PROVE  n \in lv /\ nx2[n] \in lv /\ pv2[nx2[n]] = n
    <3>1. CASE n = c
      BY <3>1, <1>1
    <3>2. CASE n # c
      BY ItemsAssumption, <3>2, <2>1, <1>1, <1>l DEF Linked
    <3> QED
      BY <3>1, <3>2
  <2>2. ASSUME NEW n \in Item, pv2[n] # NULL
        PROVE  n \in lv /\ pv2[n] \in lv /\ nx2[pv2[n]] = n
    BY ItemsAssumption, <2>2, <1>1, <1>l DEF Linked
  <2>3. \A b \in lv \ rf : ch[b] # NULL => ch[b] \in lv \ (hd \ {x}) /\ pv2[ch[b]] = NULL
    BY <1>1, <1>l DEF Linked
  <2>4. \A n \in hd \ {x} : nx2[n] = NULL /\ pv2[n] = NULL
    BY <1>1, <1>l DEF Linked
  <2> QED
    BY <2>1, <2>2, <2>3, <2>4, <1>1, <1>l DEF Linked
<1>3. ASSUME NEW S \in SUBSET Item, hd \ {x} \subseteq S, Closed(nx2, ch, rf, S)
      PROVE  lv \subseteq S
  <2>1. Closed(nx, ch, rf, S)
    BY <1>1, <1>3 DEF Closed
  <2>2. c \in S
    BY <1>3, <2>1, OthersLead
  <2>3. x \in S
    BY <2>2, <1>1, <1>3 DEF Closed
  <2> QED
    BY <1>3, <2>1, <2>3, OthersLead
<1> QED
  BY <1>2, <1>3 DEF Forest, Owned, nx2, pv2

\* c leaves the list of a, and the caller holds it.
LEMMA DetachKeeps ==
  ASSUME NEW nx, NEW pv, NEW ch, NEW lv, NEW rf, NEW hd, Forest(nx, pv, ch, lv, rf, hd),
         NEW a \in lv \ rf, NEW c \in lv \ hd, pv[c] = NULL <=> ch[a] = c,
         NEW nx2, NEW pv2, NEW ch2,
         nx2 = [n \in Item |-> IF n = c THEN NULL ELSE IF n = pv[c] THEN nx[c] ELSE nx[n]],
         pv2 = [n \in Item |-> IF n = c THEN NULL ELSE IF n = nx[c] THEN pv[c] ELSE pv[n]],
         ch2 = [n \in Item |-> IF n = a /\ ch[a] = c THEN nx[c] ELSE ch[n]]
  PROVE  Forest(nx2, pv2, ch2, lv, rf, hd \cup {c})
<1>l. Linked(nx, pv, ch, lv, rf, hd)
  BY DEF Forest
<1>t. /\ nx \in [Item -> Pointer] /\ pv \in [Item -> Pointer] /\ ch \in [Item -> Pointer]
      /\ c \in Item /\ c # NULL /\ a \in Item /\ lv \subseteq Item
      /\ rf \subseteq lv /\ hd \subseteq lv
  BY <1>l, ItemsAssumption DEF Linked
<1>n. \A n \in Item : nx[n] # NULL => n \in lv /\ nx[n] \in lv /\ pv[nx[n]] = n
  BY <1>l DEF Linked
<1>p. \A n \in Item : pv[n] # NULL => n \in lv /\ pv[n] \in lv /\ nx[pv[n]] = n
  BY <1>l DEF Linked
<1>c. /\ \A b \in lv \ rf : ch[b] # NULL => ch[b] \in lv \ hd /\ pv[ch[b]] = NULL
      /\ \A b1, b2 \in lv \ rf : ch[b1] # NULL /\ ch[b1] = ch[b2] => b1 = b2
  BY <1>l DEF Linked
<1>h. \A n \in hd : nx[n] = NULL /\ pv[n] = NULL
  BY <1>l DEF Linked
<1>1. /\ nx2 \in [Item -> Pointer] /\ pv2 \in [Item -> Pointer] /\ ch2 \in [Item -> Pointer]
  BY <1>t DEF Pointer
<1>2. Linked(nx2, pv2, ch2, lv, rf, hd \cup {c})
  <2>1. ASSUME NEW n \in Item, nx2[n] # NULL
        PROVE  n \in lv /\ nx2[n] \in lv /\ pv2[nx2[n]] = n
    <3>1. CASE n = pv[c]
      BY ItemsAssumption, <3>1, <2>1, <1>t, <1>n, <1>p
    <3>2. CASE n # pv[c]
      BY ItemsAssumption, <3>2, <2>1, <1>t, <1>n, <1>p
    <3> QED
      BY <3>1, <3>2
  <2>2. ASSUME NEW n \in Item, pv2[n] # NULL
        PROVE  n \in lv /\ pv2[n] \in lv /\ nx2[pv2[n]] = n
    <3>1. CASE n = nx[c]
      BY ItemsAssumption, <3>1, <2>2, <1>t, <1>n, <1>p
    <3>2. CASE n # nx[c]
      BY ItemsAssumption, <3>2, <2>2, <1>t, <1>n, <1>p
    <3> QED
      BY <3>1, <3>2
  <2>3. ASSUME NEW b \in lv \ rf, ch2[b] # NULL
        PROVE  ch2[b] \in lv \ (hd \cup {c}) /\ pv2[ch2[b]] = NULL
    <3>1. CASE b = a /\ ch[a] = c
      BY ItemsAssumption, <3>1, <2>3, <1>t, <1>n, <1>h
    <3>2. CASE ~(b = a /\ ch[a] = c)
      <4>1. ch2[b] = ch[b] /\ ch[b] \in lv \ hd /\ pv[ch[b]] = NULL
        BY <3>2, <2>3, <1>t, <1>c
      <4>2. ch[b] # c
        BY <3>2, <4>1, <1>t, <1>c
      <4>3. ch[b] # nx[c]
        BY <4>1, <1>t, <1>n, ItemsAssumption
      <4> QED
        BY <4>1, <4>2, <4>3, <1>t
    <3> QED
      BY <3>1, <3>2
  <2>4. ASSUME NEW b1 \in lv \ rf, NEW b2 \in lv \ rf, ch2[b1] # NULL, ch2[b1] = ch2[b2]
        PROVE  b1 = b2
    <3>1. \A b \in lv \ rf : ch[b] # NULL => ch[b] # nx[c]
      BY <1>t, <1>n, <1>c, ItemsAssumption
    <3> QED
      BY <3>1, <2>4, <1>t, <1>c
  <2>5. \A n \in hd \cup {c} : nx2[n] = NULL /\ pv2[n] = NULL
    BY <1>t, <1>n, <1>p, <1>h, ItemsAssumption
  <2>6. \A n \in Item : ch2[n] # NULL => n \in lv
    BY <1>t, <1>l DEF Linked
  <2> QED
    BY <1>1, <1>t, <2>1, <2>2, <2>3, <2>4, <2>5, <2>6 DEF Linked
<1>3. ASSUME NEW S \in SUBSET Item, hd \cup {c} \subseteq S, Closed(nx2, ch2, rf, S)
      PROVE  lv \subseteq S
  <2>1. CASE nx[c] \in S \cup {NULL}
    <3>1. Closed(nx, ch, rf, S)
      <4> SUFFICES ASSUME NEW k \in S
                   PROVE  /\ nx[k] \in S \cup {NULL}
                          /\ k \notin rf => ch[k] \in S \cup {NULL}
        BY DEF Closed
      <4>1. /\ nx2[k] \in S \cup {NULL}
            /\ k \notin rf => ch2[k] \in S \cup {NULL}
        BY <1>3 DEF Closed
      <4>2. nx[k] \in S \cup {NULL}
        BY ItemsAssumption, <4>1, <2>1, <1>3, <1>t, <1>p
      <4>3. k \notin rf => ch[k] \in S \cup {NULL}
        BY <4>1, <1>3, <1>t
      <4> QED
        BY <4>2, <4>3
    <3> QED
      BY <1>3, <3>1 DEF Forest, Owned
  <2>2. CASE nx[c] \notin S \cup {NULL}
    <3>1. Closed(nx, ch, rf, S \ {c})
      <4> SUFFICES ASSUME NEW k \in S \ {c}
                   PROVE  /\ nx[k] \in (S \ {c}) \cup {NULL}
                          /\ k \notin rf => ch[k] \in (S \ {c}) \cup {NULL}
        BY DEF Closed
      <4>1. /\ nx2[k] \in S \cup {NULL}
            /\ k \notin rf => ch2[k] \in S \cup {NULL}
        BY <1>3 DEF Closed
      <4>2. k # pv[c] /\ nx2[k] = nx[k]
        BY <4>1, <2>2, <1>t
      <4>3. nx[k] # c
        BY <4>2, <1>t, <1>n
      <4>4. ASSUME k \notin rf
            PROVE  ch[k] \in (S \ {c}) \cup {NULL}
        <5>1. ~(k = a /\ ch[a] = c)
          BY <4>1, <4>4, <2>2, <1>t
        <5>2. ch2[k] = ch[k]
          BY <5>1, <1>t
        <5>3. ch[k] # c
          <6> SUFFICES ASSUME ch[k] = c
                       PROVE  FALSE
            OBVIOUS
          <6>1. k \in lv \ rf
            BY <4>4, <1>t, <1>l DEF Linked
          <6>2. pv[c] = NULL /\ ch[a] = c
            BY <6>1, <1>t, <1>c
          <6> QED
            BY <6>1, <6>2, <5>1, <1>t, <1>c
        <5> QED
          BY <4>1, <4>4, <5>2, <5>3
      <4> QED
        BY <4>1, <4>2, <4>3, <4>4
    <3>2. hd \subseteq S \ {c} /\ S \ {c} \in SUBSET Item
      BY <1>3
    <3>3. lv \subseteq S \ {c}
      BY <3>1, <3>2 DEF Forest, Owned
    <3> QED
      BY <3>3
  <2> QED
    BY <2>1, <2>2
<1> QED
  BY <1>2, <1>3 DEF Forest, Owned

\* x goes before c in the list of a.
LEMMA InsertKeeps ==
  ASSUME NEW nx, NEW pv, NEW ch, NEW lv, NEW rf, NEW hd, Forest(nx, pv, ch, lv, rf, hd),
         NEW a \in lv \ rf, NEW c \in lv \ hd, pv[c] = NULL <=> ch[a] = c,
         NEW x \in hd, a \notin Below(nx, ch, rf, x), c \notin Below(nx, ch, rf, x),
         NEW nx2, NEW pv2, NEW ch2,
         nx2 = [n \in Item |-> IF n = x THEN c
                               ELSE IF ch[a] # c /\ n = pv[c] THEN x ELSE nx[n]],
         pv2 = [n \in Item |-> IF n = c THEN x ELSE IF n = x THEN pv[c] ELSE pv[n]],
         ch2 = [n \in Item |-> IF n = a /\ ch[a] = c THEN x ELSE ch[n]]
  PROVE  Forest(nx2, pv2, ch2, lv, rf, hd \ {x})
<1>l. Linked(nx, pv, ch, lv, rf, hd)
  BY DEF Forest
<1>t. /\ nx \in [Item -> Pointer] /\ pv \in [Item -> Pointer] /\ ch \in [Item -> Pointer]
      /\ c \in Item /\ c # NULL /\ a \in Item /\ lv \subseteq Item
      /\ rf \subseteq lv /\ hd \subseteq lv
      /\ x \in Item /\ x # NULL /\ x \in lv /\ x # c
  BY <1>l, ItemsAssumption DEF Linked
<1>n. \A n \in Item : nx[n] # NULL => n \in lv /\ nx[n] \in lv /\ pv[nx[n]] = n
  BY <1>l DEF Linked
<1>p. \A n \in Item : pv[n] # NULL => n \in lv /\ pv[n] \in lv /\ nx[pv[n]] = n
  BY <1>l DEF Linked
<1>c. /\ \A b \in lv \ rf : ch[b] # NULL => ch[b] \in lv \ hd /\ pv[ch[b]] = NULL
      /\ \A b1, b2 \in lv \ rf : ch[b1] # NULL /\ ch[b1] = ch[b2] => b1 = b2
  BY <1>l DEF Linked
<1>h. \A n \in hd : nx[n] = NULL /\ pv[n] = NULL
  BY <1>l DEF Linked
<1>1. /\ nx2 \in [Item -> Pointer] /\ pv2 \in [Item -> Pointer] /\ ch2 \in [Item -> Pointer]
  BY <1>t DEF Pointer
<1>2. Linked(nx2, pv2, ch2, lv, rf, hd \ {x})
  <2>1. ASSUME NEW n \in Item, nx2[n] # NULL
        PROVE  n \in lv /\ nx2[n] \in lv /\ pv2[nx2[n]] = n
    <3>1. CASE n = x
      BY <3>1, <1>t
    <3>2. CASE n # x /\ n = pv[c]
      BY ItemsAssumption, <3>2, <2>1, <1>t, <1>n, <1>p
    <3>3. CASE n # x /\ n # pv[c]
      BY ItemsAssumption, <3>3, <2>1, <1>t, <1>n, <1>p, <1>h
    <3> QED
      BY <3>1, <3>2, <3>3
  <2>2. ASSUME NEW n \in Item, pv2[n] # NULL
        PROVE  n \in lv /\ pv2[n] \in lv /\ nx2[pv2[n]] = n
    <3>1. CASE n = c
      BY <3>1, <1>t
    <3>2. CASE n = x
      BY ItemsAssumption, <3>2, <2>2, <1>t, <1>n, <1>p, <1>h
    <3>3. CASE n # x /\ n # c
      BY ItemsAssumption, <3>3, <2>2, <1>t, <1>n, <1>p, <1>h
    <3> QED
      BY <3>1, <3>2, <3>3
  <2>3. ASSUME NEW b \in lv \ rf, ch2[b] # NULL
        PROVE  ch2[b] \in lv \ (hd \ {x}) /\ pv2[ch2[b]] = NULL
    <3>1. CASE b = a /\ ch[a] = c
      BY <3>1, <1>t
    <3>2. CASE ~(b = a /\ ch[a] = c)
      <4>1. ch2[b] = ch[b] /\ ch[b] \in lv \ hd /\ pv[ch[b]] = NULL
        BY <3>2, <2>3, <1>t, <1>c
      <4>2. ch[b] # c
        BY <3>2, <4>1, <1>t, <1>c
      <4> QED
        BY <4>1, <4>2, <1>t
    <3> QED
      BY <3>1, <3>2
  <2>4. ASSUME NEW b1 \in lv \ rf, NEW b2 \in lv \ rf, ch2[b1] # NULL, ch2[b1] = ch2[b2]
        PROVE  b1 = b2
    BY <2>4, <1>t, <1>c
  <2>5. \A n \in hd \ {x} : nx2[n] = NULL /\ pv2[n] = NULL
    BY <1>t, <1>n, <1>p, <1>h, ItemsAssumption
  <2>6. \A n \in Item : ch2[n] # NULL => n \in lv
    BY <1>t, <1>l DEF Linked
  <2> QED
    BY <1>1, <1>t, <2>1, <2>2, <2>3, <2>4, <2>5, <2>6 DEF Linked
<1>3. ASSUME NEW S \in SUBSET Item, hd \ {x} \subseteq S, Closed(nx2, ch2, rf, S)
      PROVE  lv \subseteq S
  <2>1. \A k \in S : /\ nx2[k] \in S \cup {NULL}
                     /\ k \notin rf => ch2[k] \in S \cup {NULL}
    BY <1>3 DEF Closed
  <2>2. x \in S => c \in S
    BY <2>1, <1>t
  <2>3. Closed(nx, ch, rf, S)
    <3> SUFFICES ASSUME NEW k \in S
                 PROVE  /\ nx[k] \in S \cup {NULL}
                        /\ k \notin rf => ch[k] \in S \cup {NULL}
      BY DEF Closed
    <3>1. nx[k] \in S \cup {NULL}
      BY <2>1, <2>2, <1>t, <1>p, <1>h
    <3>2. k \notin rf => ch[k] \in S \cup {NULL}
      BY <2>1, <2>2, <1>t
    <3> QED
      BY <3>1, <3>2
  <2>4. lv \subseteq S \cup Below(nx, ch, rf, x)
    BY <1>3, <2>3, OthersLead
  <2>5. x \in S
    <3>1. CASE ch[a] = c
      BY <3>1, <2>1, <2>4, <1>t
    <3>2. CASE ch[a] # c
      <4>1. pv[c] \in lv /\ nx[pv[c]] = c
        BY <3>2, <1>t, <1>p
      <4>2. pv[c] \notin Below(nx, ch, rf, x)
        <5>1. Closed(nx, ch, rf, Below(nx, ch, rf, x))
          BY <1>t, BelowIsClosed
        <5> QED
          BY <4>1, <5>1, <1>t DEF Closed
      <4> QED
        BY <3>2, <4>1, <4>2, <2>1, <2>4, <1>t
    <3> QED
      BY <3>1, <3>2
  <2> QED
    BY <1>3, <2>3, <2>5, OthersLead
<1> QED
  BY <1>2, <1>3 DEF Forest, Owned

\* c, which the caller holds, goes with all that is below it.
LEMMA DeleteKeeps ==
  ASSUME NEW nx, NEW pv, NEW ch, NEW lv, NEW rf, NEW hd, Forest(nx, pv, ch, lv, rf, hd),
         NEW c \in hd, NEW D, D = Below(nx, ch, rf, c),
         NEW nx2, NEW pv2, NEW ch2,
         nx2 = [n \in Item |-> IF n \in D THEN NULL ELSE nx[n]],
         pv2 = [n \in Item |-> IF n \in D THEN NULL ELSE pv[n]],
         ch2 = [n \in Item |-> IF n \in D THEN NULL ELSE ch[n]]
  PROVE  /\ Forest(nx2, pv2, ch2, lv \ D, rf \ D, hd \ {c})
         /\ hd \cap D = {c}
<1>l. Linked(nx, pv, ch, lv, rf, hd)
  BY DEF Forest
<1>t. /\ nx \in [Item -> Pointer] /\ pv \in [Item -> Pointer] /\ ch \in [Item -> Pointer]
      /\ c \in Item /\ c \in lv /\ c # NULL /\ lv \subseteq Item
      /\ rf \subseteq lv /\ hd \subseteq lv
  BY <1>l, ItemsAssumption DEF Linked
<1>d. /\ c \in D /\ D \subseteq Item /\ Closed(nx, ch, rf, D)
      /\ Closed(nx, ch, rf, Item \ D) /\ hd \cap D = {c}
  BY <1>t, <1>l, BelowIsClosed, OutsideIsClosed
<1>o. \A n \in Item \ D : nx[n] \notin D /\ (n \notin rf => ch[n] \notin D)
  BY <1>d, ItemsAssumption DEF Closed
<1>1. /\ nx2 \in [Item -> Pointer] /\ pv2 \in [Item -> Pointer] /\ ch2 \in [Item -> Pointer]
  BY <1>t DEF Pointer
<1>2. Linked(nx2, pv2, ch2, lv \ D, rf \ D, hd \ {c})
  <2>1. ASSUME NEW n \in Item, nx2[n] # NULL
        PROVE  n \in lv \ D /\ nx2[n] \in lv \ D /\ pv2[nx2[n]] = n
    <3>1. n \notin D /\ nx2[n] = nx[n]
      BY <2>1
    <3>2. n \in lv /\ nx[n] \in lv /\ pv[nx[n]] = n
      BY <3>1, <2>1, <1>l DEF Linked
    <3> QED
      BY <3>1, <3>2, <1>o, <1>t
  <2>2. ASSUME NEW n \in Item, pv2[n] # NULL
        PROVE  n \in lv \ D /\ pv2[n] \in lv \ D /\ nx2[pv2[n]] = n
    <3>1. n \notin D /\ pv2[n] = pv[n]
      BY <2>2
    <3>2. n \in lv /\ pv[n] \in lv /\ nx[pv[n]] = n
      BY <3>1, <2>2, <1>l DEF Linked
    <3>3. pv[n] \notin D
      BY <3>1, <3>2, <1>d, ItemsAssumption DEF Closed
    <3> QED
      BY <3>1, <3>2, <3>3, <1>t
  <2>3. ASSUME NEW b \in (lv \ D) \ (rf \ D), ch2[b] # NULL
        PROVE  ch2[b] \in (lv \ D) \ (hd \ {c}) /\ pv2[ch2[b]] = NULL
    <3>1. b \in lv \ rf /\ ch2[b] = ch[b] /\ ch[b] # NULL /\ ch[b] \notin D
      BY <2>3, <1>t, <1>o
    <3>2. ch[b] \in lv \ hd /\ pv[ch[b]] = NULL
      BY <3>1, <1>l DEF Linked
    <3> QED
      BY <3>1, <3>2, <1>t
  <2>4. ASSUME NEW b1 \in (lv \ D) \ (rf \ D), NEW b2 \in (lv \ D) \ (rf \ D),
               ch2[b1] # NULL, ch2[b1] = ch2[b2]
        PROVE  b1 = b2
    <3>1. b1 \in lv \ rf /\ b2 \in lv \ rf /\ ch[b1] # NULL /\ ch[b1] = ch[b2]
      BY <2>4, <1>t
    <3> QED
      BY <3>1, <1>l DEF Linked
  <2>5. \A n \in hd \ {c} : nx2[n] = NULL /\ pv2[n] = NULL
    BY <1>t, <1>l DEF Linked
  <2>6. \A n \in Item : ch2[n] # NULL => n \in lv \ D
    BY <1>t, <1>l DEF Linked
  <2>7. hd \ {c} \subseteq lv \ D /\ rf \ D \subseteq lv \ D /\ lv \ D \subseteq Item
    BY <1>t, <1>d
  <2> QED
    BY <1>1, <2>1, <2>2, <2>3, <2>4, <2>5, <2>6, <2>7 DEF Linked
<1>3. ASSUME NEW S \in SUBSET Item, hd \ {c} \subseteq S, Closed(nx2, ch2, rf \ D, S)
      PROVE  lv \ D \subseteq S
  <2>1. Closed(nx, ch, rf, S \cup D)
    <3> SUFFICES ASSUME NEW k \in S, k \notin D
                 PROVE  /\ nx[k] \in S \cup {NULL}
                        /\ k \notin rf => ch[k] \in S \cup {NULL}
      BY <1>d DEF Closed
    <3>1. nx2[k] = nx[k] /\ ch2[k] = ch[k]
      OBVIOUS
    <3> QED
      BY <3>1, <1>3 DEF Closed
  <2>2. hd \subseteq S \cup D /\ S \cup D \in SUBSET Item
    BY <1>3, <1>d
  <2> QED
    BY <2>1, <2>2 DEF Forest, Owned
<1> QED
  BY <1>2, <1>3, <1>d DEF Forest, Owned

\* The pointers after s[1], ..., s[count], the cells C, are put into a.
InArray(nx, pv, ch, a, count, s, C, nx2, pv2, ch2) ==
  /\ \A i, j \in 1 .. count : s[i] # a /\ (s[i] = s[j] => i = j)
  /\ C = {s[i] : i \in 1 .. count}
  /\ nx2 \in [Item -> Pointer] /\ pv2 \in [Item -> Pointer] /\ ch2 \in [Item -> Pointer]
  /\ \A i \in 1 .. count : /\ nx2[s[i]] = IF i = count THEN NULL ELSE s[i + 1]
                           /\ pv2[s[i]] = IF i = 1 THEN NULL ELSE s[i - 1]
  /\ \A n \in Item \ C : nx2[n] = nx[n] /\ pv2[n] = pv[n]
  /\ \A n \in Item : ch2[n] = IF n = a THEN s[1] ELSE ch[n]

\* A new array a, held by the caller, with the new items of s in it.
LEMMA NewArrayKeeps ==
  ASSUME NEW nx, NEW pv, NEW ch, NEW lv, NEW rf, NEW hd, Forest(nx, pv, ch, lv, rf, hd),
         NEW a \in Item \ lv, NEW count \in Nat \ {0}, NEW s \in [1 .. count -> Item \ lv],
         NEW C, NEW nx2, NEW pv2, NEW ch2,
         InArray(nx, pv, ch, a, count, s, C, nx2, pv2, ch2)
  PROVE  Forest(nx2, pv2, ch2, lv \cup ({a} \cup C), rf, hd \cup {a})
<1> USE DEF InArray
<1>l. Linked(nx, pv, ch, lv, rf, hd)
  BY DEF Forest
<1>t. /\ nx \in [Item -> Pointer] /\ pv \in [Item -> Pointer] /\ ch \in [Item -> Pointer]
      /\ lv \subseteq Item /\ rf \subseteq lv /\ hd \subseteq lv
      /\ C \subseteq Item /\ C \cap lv = {} /\ a \notin C
      /\ 1 \in 1 .. count
  BY <1>l DEF Linked
<1>a. nx[a] = NULL /\ pv[a] = NULL /\ ch[a] = NULL /\ \A n \in C : ch[n] = NULL
  BY <1>t, <1>l DEF Linked
<1>1. s[1] \in C /\ pv2[s[1]] = NULL /\ s[1] # NULL
  BY <1>t, ItemsAssumption
<1>2. Linked(nx2, pv2, ch2, lv \cup ({a} \cup C), rf, hd \cup {a})
  <2>1. ASSUME NEW n \in Item, nx2[n] # NULL
        PROVE  n \in lv \cup ({a} \cup C) /\ nx2[n] \in lv \cup ({a} \cup C) /\ pv2[nx2[n]] = n
    <3>1. CASE n \in C
      <4>1. PICK i \in 1 .. count : n = s[i]
        BY <3>1
      <4>2. i # count /\ i + 1 \in 1 .. count /\ nx2[n] = s[i + 1]
        BY <4>1, <2>1
      <4>3. pv2[s[i + 1]] = s[i]
        BY <4>2
      <4> QED
        BY <4>1, <4>2, <4>3, <3>1
    <3>2. CASE n \notin C
      <4>1. nx2[n] = nx[n]
        BY <3>2
      <4>2. n \in lv /\ nx[n] \in lv /\ pv[nx[n]] = n
        BY <4>1, <2>1, <1>l DEF Linked
      <4> QED
        BY <4>1, <4>2, <1>t
    <3> QED
      BY <3>1, <3>2
  <2>2. ASSUME NEW n \in Item, pv2[n] # NULL
        PROVE  n \in lv \cup ({a} \cup C) /\ pv2[n] \in lv \cup ({a} \cup C) /\ nx2[pv2[n]] = n
    <3>1. CASE n \in C
      <4>1. PICK i \in 1 .. count : n = s[i]
        BY <3>1
      <4>2. i # 1 /\ i - 1 \in 1 .. count /\ pv2[n] = s[i - 1]
        BY <4>1, <2>2
      <4>3. nx2[s[i - 1]] = s[i]
        BY <4>2
      <4> QED
        BY <4>1, <4>2, <4>3, <3>1
    <3>2. CASE n \notin C
      <4>1. pv2[n] = pv[n]
        BY <3>2
      <4>2. n \in lv /\ pv[n] \in lv /\ nx[pv[n]] = n
        BY <4>1, <2>2, <1>l DEF Linked
      <4> QED
        BY <4>1, <4>2, <1>t
    <3> QED
      BY <3>1, <3>2
  <2>3. ASSUME NEW b \in (lv \cup ({a} \cup C)) \ rf, ch2[b] # NULL
        PROVE  /\ ch2[b] \in (lv \cup ({a} \cup C)) \ (hd \cup {a})
               /\ pv2[ch2[b]] = NULL
    <3>1. CASE b = a
      BY <3>1, <1>1, <1>t
    <3>2. CASE b # a
      <4>1. b \in lv \ rf /\ ch2[b] = ch[b]
        BY <3>2, <2>3, <1>a, <1>t
      <4>2. ch[b] \in lv \ hd /\ pv[ch[b]] = NULL
        BY <4>1, <2>3, <1>l DEF Linked
      <4> QED
        BY <4>1, <4>2, <1>t
    <3> QED
      BY <3>1, <3>2
  <2>4. ASSUME NEW b1 \in (lv \cup ({a} \cup C)) \ rf, NEW b2 \in (lv \cup ({a} \cup C)) \ rf,
               ch2[b1] # NULL, ch2[b1] = ch2[b2]
        PROVE  b1 = b2
    <3>1. \A b \in (lv \cup ({a} \cup C)) \ rf : 
            b # a /\ ch2[b] # NULL => b \in lv \ rf /\ ch2[b] = ch[b] /\ ch[b] \in lv
      BY <1>a, <1>t, <1>l DEF Linked
    <3>2. CASE b1 = a \/ b2 = a
      BY <3>1, <3>2, <2>4, <1>1, <1>t
    <3>3. CASE b1 # a /\ b2 # a
      BY <3>1, <3>3, <2>4, <1>l DEF Linked
    <3> QED
      BY <3>2, <3>3
  <2>5. \A n \in hd \cup {a} : nx2[n] = NULL /\ pv2[n] = NULL
    BY <1>a, <1>t, <1>l DEF Linked
  <2>6. \A n \in Item : ch2[n] # NULL => n \in lv \cup ({a} \cup C)
    BY <1>t, <1>l DEF Linked
  <2>7. /\ hd \cup {a} \subseteq lv \cup ({a} \cup C) /\ rf \subseteq lv \cup ({a} \cup C)
        /\ lv \cup ({a} \cup C) \subseteq Item
    BY <1>t
  <2> QED
    BY <2>1, <2>2, <2>3, <2>4, <2>5, <2>6, <2>7 DEF Linked
<1>3. ASSUME NEW S \in SUBSET Item, hd \cup {a} \subseteq S, Closed(nx2, ch2, rf, S)
      PROVE  lv \cup ({a} \cup C) \subseteq S
  <2>1. Closed(nx, ch, rf, S \ C)
    <3> SUFFICES ASSUME NEW k \in S \ C
                 PROVE  /\ nx[k] \in (S \ C) \cup {NULL}
                        /\ k \notin rf => ch[k] \in (S \ C) \cup {NULL}
      BY DEF Closed
    <3>1. /\ nx2[k] = nx[k]
          /\ nx2[k] \in S \cup {NULL}
          /\ k \notin rf => ch2[k] \in S \cup {NULL}
      BY <1>3 DEF Closed
    <3>2. nx[k] # NULL => nx[k] \in lv
      BY <1>l DEF Linked
    <3>3. k \notin rf /\ ch[k] # NULL => ch[k] \in lv /\ ch2[k] = ch[k]
      BY <1>a, <1>l DEF Linked
    <3> QED
      BY <3>1, <3>2, <3>3, <1>t
  <2>2. lv \subseteq S \ C
    <3>1. hd \subseteq S \ C /\ S \ C \in SUBSET Item
      BY <1>3, <1>t
    <3> QED
      BY <2>1, <3>1 DEF Forest, Owned
  <2>3. C \subseteq S
    <3> SUFFICES ASSUME NEW t \in 1 .. count, s[t] \notin S
                 PROVE  FALSE
      OBVIOUS
    <3> DEFINE V == {i \in 1 .. t : s[i] \notin S}
    <3>1. 1 \notin V
      <4>1. ch2[a] = s[1] /\ a \in S /\ a \notin rf
        BY <1>3, <1>t
      <4> QED
        BY <4>1, <1>3, <1>1 DEF Closed
    <3>2. \A i \in V : i - 1 \in V
      <4> SUFFICES ASSUME NEW i \in V, i - 1 \notin V PROVE FALSE
        OBVIOUS
      <4>1. i - 1 \in 1 .. t /\ i - 1 \in 1 .. count /\ s[i - 1] \in S
        BY <3>1
      <4>2. nx2[s[i - 1]] = s[i]
        BY <4>1
      <4>3. s[i] \in S \cup {NULL}
        BY <4>1, <4>2, <1>3 DEF Closed
      <4> QED
        BY <4>3, ItemsAssumption
    <3>3. IsFiniteSet(V)
      <4>1. IsFiniteSet(1 .. t)
        <5>1. 1 \in Int /\ t \in Int
          OBVIOUS
        <5> QED
          BY ONLY <5>1, FS_Interval
      <4>2. V \in SUBSET (1 .. t)
        OBVIOUS
      <4> HIDE DEF V
      <4> QED
        BY ONLY <4>1, <4>2, FS_Subset
    <3> DEFINE f == [i \in V |-> i - 1]
    <3>4. f \in [V -> V] /\ t \in V
      BY <3>2
    <3>5. /\ \A k \in V : f[k] # t
          /\ \A j, k \in V : f[j] = f[k] => j = k
      OBVIOUS
    <3> HIDE DEF V, f
    <3> QED
      BY <3>3, <3>4, <3>5, OntoItself
  <2> QED
    BY <1>3, <2>2, <2>3
<1> QED
  BY <1>2, <1>3 DEF Forest, Owned

-----------------------------------------------------------------------------
(***************************************************************************)
(* Copying a tree.                                                         *)
(***************************************************************************)

\* What cJSON_Duplicate follows from x does not lead back to x.
LEMMA NoWayBack ==
  ASSUME NEW nx, NEW pv, NEW ch, NEW lv, NEW rf, NEW hd, Forest(nx, pv, ch, lv, rf, hd),
         NEW x \in lv, NEW D, D = Below([nx EXCEPT ![x] = NULL], ch, rf, x), D \cap rf = {}
  PROVE  /\ x \in D /\ D \subseteq lv
         /\ \A d \in D \ {x} : nx[d] \in (D \ {x}) \cup {NULL} /\ pv[d] # x
         /\ \A d \in D : ch[d] \in (D \ {x}) \cup {NULL}
         /\ \A S \in SUBSET D :
              /\ x \in S
              /\ \A k \in S : (k # x => nx[k] \in S \cup {NULL}) /\ ch[k] \in S \cup {NULL}
              => D \subseteq S
<1>l. Linked(nx, pv, ch, lv, rf, hd)
  BY DEF Forest
<1>t. /\ nx \in [Item -> Pointer] /\ pv \in [Item -> Pointer] /\ ch \in [Item -> Pointer]
      /\ x \in Item /\ x # NULL /\ lv \subseteq Item /\ rf \subseteq lv /\ hd \subseteq lv
  BY <1>l, ItemsAssumption DEF Linked
<1>n. \A n \in Item : nx[n] # NULL => pv[nx[n]] = n
  BY <1>l DEF Linked
<1>c. \A b \in Item : b \notin rf /\ ch[b] # NULL => b \in lv \ rf /\ pv[ch[b]] = NULL
  BY <1>l DEF Linked
<1> DEFINE nx1 == [nx EXCEPT ![x] = NULL]
<1>1. /\ nx1 \in [Item -> Pointer]
      /\ \A n \in Item : nx1[n] = IF n = x THEN NULL ELSE nx[n]
  BY <1>t DEF Pointer
<1>d. D = Below(nx1, ch, rf, x)
  OBVIOUS
<1> HIDE DEF nx1
<1>2. /\ x \in D /\ D \subseteq Item /\ Closed(nx1, ch, rf, D)
      /\ \A S \in SUBSET Item : x \in S /\ Closed(nx1, ch, rf, S) => D \subseteq S
  <2>1. \A S : S = Below(nx1, ch, rf, x) =>
               /\ x \in S /\ S \subseteq Item /\ Closed(nx1, ch, rf, S)
               /\ \A S2 \in SUBSET Item : x \in S2 /\ Closed(nx1, ch, rf, S2) => S \subseteq S2
    BY <1>1, <1>t, BelowIsClosed
  <2> QED
    BY <2>1, <1>d
<1>3. D \subseteq lv
  <2>1. Closed(nx1, ch, rf, lv)
    BY <1>l, <1>1 DEF Closed, Linked
  <2> QED
    BY <2>1, <1>2, <1>t
<1>4. \A d \in D : /\ d # x => nx[d] \in D \cup {NULL}
                   /\ ch[d] \in D \cup {NULL}
  BY <1>1, <1>2 DEF Closed
<1>5. ASSUME NEW d \in D \ {x}
      PROVE  pv[d] \in D \ {x} \/ (pv[d] = NULL /\ \E e \in D : ch[e] = d)
  <2>1. PICK e \in D : nx1[e] = d \/ (e \notin rf /\ ch[e] = d)
    BY <1>d, <1>1, <1>t, BelowHasOwner
  <2>2. d # NULL /\ d \in Item /\ e \in Item /\ e \in lv \ rf
    BY <1>2, <1>3, ItemsAssumption
  <2>3. CASE nx1[e] = d
    <3>1. e # x /\ nx[e] = d
      BY <2>2, <2>3, <1>1
    <3> QED
      BY <3>1, <2>2, <1>l DEF Linked
  <2>4. CASE ch[e] = d
    BY <2>2, <2>4, <1>l DEF Linked
  <2> QED
    BY <2>1, <2>3, <2>4
<1>6. ASSUME NEW e \in D, (e # x /\ nx[e] = x) \/ ch[e] = x
      PROVE  FALSE
  <2>1. e \in lv \ rf /\ e \in Item /\ e # NULL
    BY <1>2, <1>3, ItemsAssumption
  <2>2. nx[e] = x => pv[x] = e
    BY <2>1, <1>t, <1>l DEF Linked
  <2>3. ch[e] = x => pv[x] = NULL /\ x \notin hd
    BY <2>1, <1>t, <1>l DEF Linked
  <2>4. hd \subseteq Item \ D
    <3> SUFFICES ASSUME NEW k \in hd, k \in D PROVE FALSE
      BY <1>t
    <3>1. pv[k] = NULL
      BY <1>l DEF Linked
    <3>2. k # x
      BY <3>1, <2>1, <2>2, <2>3, <1>6
    <3>3. PICK e2 \in D : ch[e2] = k
      BY <3>1, <3>2, <1>5, <1>2, ItemsAssumption
    <3>4. e2 \in lv \ rf /\ ch[e2] # NULL
      BY <3>3, <1>3, <1>t, ItemsAssumption
    <3> QED
      BY <3>3, <3>4, <1>l DEF Linked
  <2>5. Closed(nx, ch, rf, Item \ D)
    <3> SUFFICES ASSUME NEW k \in Item \ D
                 PROVE  nx[k] \notin D /\ (k \notin rf => ch[k] \notin D)
      BY <1>t DEF Closed, Pointer
    <3>1. ASSUME nx[k] \in D PROVE FALSE
      <4>1. pv[nx[k]] = k /\ k # NULL
        BY <3>1, <1>2, <1>n, ItemsAssumption
      <4>2. CASE nx[k] = x
        BY <4>1, <4>2, <2>2, <2>3, <1>6
      <4>3. CASE nx[k] # x
        BY <3>1, <4>1, <4>3, <1>5
      <4> QED
        BY <4>2, <4>3
    <3>2. ASSUME k \notin rf, ch[k] \in D PROVE FALSE
      <4>1. k \in lv \ rf /\ ch[k] # NULL /\ pv[ch[k]] = NULL
        BY <3>2, <1>2, <1>c, ItemsAssumption
      <4>2. CASE ch[k] = x
        <5>1. ch[e] = x
          BY <4>1, <4>2, <2>1, <2>2, <1>6
        <5> QED
          BY <4>1, <4>2, <5>1, <2>1, <1>l DEF Linked
      <4>3. CASE ch[k] # x
        <5>1. PICK e2 \in D : ch[e2] = ch[k]
          BY <3>2, <4>1, <4>3, <1>5, <1>2, ItemsAssumption
        <5>2. e2 \in lv \ rf
          BY <1>3
        <5>3. e2 = k
          BY <4>1, <5>1, <5>2, <1>l DEF Linked
        <5> QED
          BY <5>3
      <4> QED
        BY <4>2, <4>3
    <3> QED
      BY <3>1, <3>2
  <2>6. lv \subseteq Item \ D
    BY <2>4, <2>5 DEF Forest, Owned
  <2> QED
    BY <2>6, <1>2
<1>7. ASSUME NEW S \in SUBSET D, x \in S,
             \A k \in S : (k # x => nx[k] \in S \cup {NULL}) /\ ch[k] \in S \cup {NULL}
      PROVE  D \subseteq S
  <2>1. Closed(nx1, ch, rf, S)
    BY <1>1, <1>2, <1>7 DEF Closed
  <2> QED
    BY <2>1, <1>2, <1>7
<1>8. \A d \in D \ {x} : pv[d] # x
  BY <1>5, <1>t
<1> QED
  BY <1>2, <1>3, <1>4, <1>6, <1>7, <1>8

\* D are the items to be found from x, and nothing among them leads back to x.
Copyable(nx, pv, ch, rf, x, recurse, D) ==
  /\ x \in D
  /\ \A d \in D \ {x} : nx[d] \in (D \ {x}) \cup {NULL} /\ pv[d] # x
  /\ recurse => \A d \in D : d \notin rf /\ ch[d] \in (D \ {x}) \cup {NULL}
  /\ \A S \in SUBSET D :
       /\ x \in S
       /\ \A k \in S : /\ k # x => nx[k] \in S \cup {NULL}
                       /\ recurse => ch[k] \in S \cup {NULL}
       => D \subseteq S

\* The pointers after f copied the items D to the cells C.
Copied(nx, pv, ch, x, recurse, D, f, C, nx2, pv2, ch2) ==
  /\ \A d, e \in D : f[d] = f[e] => d = e
  /\ C = {f[d] : d \in D}
  /\ nx2 \in [Item -> Pointer] /\ pv2 \in [Item -> Pointer] /\ ch2 \in [Item -> Pointer]
  /\ \A d \in D : /\ nx2[f[d]] = IF d # x /\ nx[d] \in D THEN f[nx[d]] ELSE NULL
                  /\ pv2[f[d]] = IF d # x /\ pv[d] \in D THEN f[pv[d]] ELSE NULL
                  /\ ch2[f[d]] = IF recurse /\ ch[d] \in D THEN f[ch[d]] ELSE NULL
  /\ \A n \in Item \ C : nx2[n] = nx[n] /\ pv2[n] = pv[n] /\ ch2[n] = ch[n]

\* The copy of a tree, with the pointers of its items to each other, is a tree that
\* the caller holds.
LEMMA CopyKeeps ==
  ASSUME NEW nx, NEW pv, NEW ch, NEW lv, NEW rf, NEW hd, Forest(nx, pv, ch, lv, rf, hd),
         NEW x \in lv, NEW recurse \in BOOLEAN, NEW D \in SUBSET lv,
         Copyable(nx, pv, ch, rf, x, recurse, D),
         NEW f \in [D -> Item \ lv], NEW C, NEW nx2, NEW pv2, NEW ch2,
         Copied(nx, pv, ch, x, recurse, D, f, C, nx2, pv2, ch2)
  PROVE  Forest(nx2, pv2, ch2, lv \cup C, rf, hd \cup {f[x]})
<1> USE DEF Copyable, Copied
<1>l. Linked(nx, pv, ch, lv, rf, hd)
  BY DEF Forest
<1>t. /\ nx \in [Item -> Pointer] /\ pv \in [Item -> Pointer] /\ ch \in [Item -> Pointer]
      /\ lv \subseteq Item /\ rf \subseteq lv /\ hd \subseteq lv
      /\ C \subseteq Item /\ C \cap lv = {} /\ NULL \notin D /\ NULL \notin C
      /\ f[x] \in C
  BY <1>l, ItemsAssumption DEF Linked
<1>n. \A n \in Item : nx[n] # NULL => n \in lv /\ nx[n] \in lv /\ pv[nx[n]] = n
  BY <1>l DEF Linked
<1>p. \A n \in Item : pv[n] # NULL => n \in lv /\ pv[n] \in lv /\ nx[pv[n]] = n
  BY <1>l DEF Linked
<1>c. /\ \A b \in lv \ rf : ch[b] # NULL => ch[b] \in lv \ hd /\ pv[ch[b]] = NULL
      /\ \A b1, b2 \in lv \ rf : ch[b1] # NULL /\ ch[b1] = ch[b2] => b1 = b2
  BY <1>l DEF Linked
<1>1. ASSUME NEW b \in C, ch2[b] # NULL
      PROVE  /\ recurse
             /\ \E d \in D : /\ b = f[d] /\ d \in lv \ rf /\ ch[d] # NULL
                             /\ ch[d] \in D \ {x} /\ ch2[b] = f[ch[d]]
  <2>1. PICK d \in D : b = f[d]
    OBVIOUS
  <2>2. recurse /\ ch[d] \in D /\ ch2[b] = f[ch[d]]
    BY <2>1, <1>1
  <2> QED
    BY <2>1, <2>2, <1>t
<1>2. Linked(nx2, pv2, ch2, lv \cup C, rf, hd \cup {f[x]})
  <2>1. ASSUME NEW n \in Item, nx2[n] # NULL
        PROVE  n \in lv \cup C /\ nx2[n] \in lv \cup C /\ pv2[nx2[n]] = n
    <3>1. CASE n \in C
      <4>1. PICK d \in D : n = f[d]
        BY <3>1
      <4> DEFINE e == nx[d]
      <4>2. d # x /\ e \in D /\ e # x /\ nx2[n] = f[e]
        BY <4>1, <2>1, <1>t
      <4>3. pv[e] = d
        BY <4>2, <1>n, <1>t
      <4> HIDE DEF e
      <4>4. pv2[f[e]] = f[d]
        BY <4>2, <4>3
      <4> QED
        BY <4>1, <4>2, <4>4, <3>1
    <3>2. CASE n \notin C
      BY <3>2, <2>1, <1>n, <1>t
    <3> QED
      BY <3>1, <3>2
  <2>2. ASSUME NEW n \in Item, pv2[n] # NULL
        PROVE  n \in lv \cup C /\ pv2[n] \in lv \cup C /\ nx2[pv2[n]] = n
    <3>1. CASE n \in C
      <4>1. PICK d \in D : n = f[d]
        BY <3>1
      <4> DEFINE e == pv[d]
      <4>2. d # x /\ e \in D /\ e # x /\ pv2[n] = f[e]
        BY <4>1, <2>2, <1>t
      <4>3. nx[e] = d
        BY <4>2, <1>p, <1>t
      <4> HIDE DEF e
      <4>4. nx2[f[e]] = f[d]
        BY <4>2, <4>3
      <4> QED
        BY <4>1, <4>2, <4>4, <3>1
    <3>2. CASE n \notin C
      BY <3>2, <2>2, <1>p, <1>t
    <3> QED
      BY <3>1, <3>2
  <2>3. ASSUME NEW b \in (lv \cup C) \ rf, ch2[b] # NULL
        PROVE  ch2[b] \in (lv \cup C) \ (hd \cup {f[x]}) /\ pv2[ch2[b]] = NULL
    <3>1. CASE b \in C
      <4>1. PICK d \in D : /\ d \in lv \ rf /\ ch[d] # NULL
                           /\ ch[d] \in D \ {x} /\ ch2[b] = f[ch[d]]
        BY <3>1, <2>3, <1>1
      <4>2. pv[ch[d]] = NULL
        BY <4>1, <1>c
      <4>3. pv2[f[ch[d]]] = NULL
        BY <4>1, <4>2, <1>t
      <4>4. f[ch[d]] \in C /\ f[ch[d]] # f[x]
        BY <4>1
      <4> QED
        BY <4>1, <4>3, <4>4, <1>t
    <3>2. CASE b \notin C
      <4>1. b \in lv \ rf /\ b \in Item /\ ch2[b] = ch[b]
        BY <3>2, <2>3, <1>t
      <4>2. ch[b] \in lv \ hd /\ pv[ch[b]] = NULL
        BY <4>1, <2>3, <1>c
      <4> QED
        BY <4>1, <4>2, <1>t
    <3> QED
      BY <3>1, <3>2
  <2>4. ASSUME NEW b1 \in (lv \cup C) \ rf, NEW b2 \in (lv \cup C) \ rf,
               ch2[b1] # NULL, ch2[b1] = ch2[b2]
        PROVE  b1 = b2
    <3>1. \A b \in (lv \cup C) \ rf :
            b \notin C /\ ch2[b] # NULL => b \in lv \ rf /\ ch2[b] = ch[b] /\ ch[b] \in lv
      BY <1>t, <1>c
    <3>2. \A b \in C : ch2[b] # NULL => ch2[b] \in C
      BY <1>1
    <3>3. CASE b1 \in C /\ b2 \in C
      <4>1. PICK d1 \in D : /\ b1 = f[d1] /\ d1 \in lv \ rf /\ ch[d1] # NULL
                            /\ ch[d1] \in D \ {x} /\ ch2[b1] = f[ch[d1]]
        BY <3>3, <2>4, <1>1
      <4>2. PICK d2 \in D : /\ b2 = f[d2] /\ d2 \in lv \ rf /\ ch[d2] # NULL
                            /\ ch[d2] \in D \ {x} /\ ch2[b2] = f[ch[d2]]
        BY <3>3, <2>4, <1>1
      <4>3. ch[d1] = ch[d2]
        BY <4>1, <4>2, <2>4
      <4>4. d1 = d2
        BY <4>1, <4>2, <4>3, <1>c
      <4> QED
        BY <4>1, <4>2, <4>4
    <3>4. CASE b1 \notin C /\ b2 \notin C
      BY <3>1, <3>4, <2>4, <1>c
    <3>5. CASE (b1 \in C) # (b2 \in C)
      BY <3>1, <3>2, <3>5, <2>4, <1>t
    <3> QED
      BY <3>3, <3>4, <3>5
  <2>5. ASSUME NEW n \in hd \cup {f[x]}
        PROVE  nx2[n] = NULL /\ pv2[n] = NULL
    <3>1. CASE n = f[x]
      BY <3>1
    <3>2. CASE n \in hd
      BY <3>2, <1>t, <1>l DEF Linked
    <3> QED
      BY <3>1, <3>2
  <2>6. \A n \in Item : ch2[n] # NULL => n \in lv \cup C
    BY <1>t, <1>l DEF Linked
  <2>7. /\ hd \cup {f[x]} \subseteq lv \cup C /\ rf \subseteq lv \cup C
        /\ lv \cup C \subseteq Item
    BY <1>t
  <2> QED
    BY <2>1, <2>2, <2>3, <2>4, <2>5, <2>6, <2>7 DEF Linked
<1>3. ASSUME NEW S \in SUBSET Item, hd \cup {f[x]} \subseteq S, Closed(nx2, ch2, rf, S)
      PROVE  lv \cup C \subseteq S
  <2>1. Closed(nx, ch, rf, S \ C)
    <3> SUFFICES ASSUME NEW k \in S \ C
                 PROVE  /\ nx[k] \in (S \ C) \cup {NULL}
                        /\ k \notin rf => ch[k] \in (S \ C) \cup {NULL}
      BY DEF Closed
    <3>1. /\ nx2[k] = nx[k] /\ ch2[k] = ch[k]
          /\ nx2[k] \in S \cup {NULL}
          /\ k \notin rf => ch2[k] \in S \cup {NULL}
      BY <1>3 DEF Closed
    <3>2. nx[k] # NULL => nx[k] \in lv
      BY <1>n
    <3>3. k \notin rf /\ ch[k] # NULL => ch[k] \in lv
      BY <1>l DEF Linked
    <3> QED
      BY <3>1, <3>2, <3>3, <1>t
  <2>2. lv \subseteq S \ C
    <3>1. hd \subseteq S \ C /\ S \ C \in SUBSET Item
      BY <1>3, <1>t
    <3> QED
      BY <2>1, <3>1 DEF Forest, Owned
  <2>3. C \subseteq S
    <3> DEFINE T == {d \in D : f[d] \in S}
    <3>1. x \in T
      BY <1>3
    <3>2. ASSUME NEW k \in T
          PROVE  /\ k # x => nx[k] \in T \cup {NULL}
                 /\ recurse => ch[k] \in T \cup {NULL}
      <4>1. k \in D /\ f[k] \in S /\ f[k] \notin lv /\ f[k] \notin rf
        BY <1>t
      <4>2. nx2[f[k]] \in S \cup {NULL} /\ ch2[f[k]] \in S \cup {NULL}
        BY <4>1, <1>3 DEF Closed
      <4>3. k # x => nx[k] \in T \cup {NULL}
        BY <4>1, <4>2, <1>t
      <4>4. recurse => ch[k] \in T \cup {NULL}
        BY <4>1, <4>2, <1>t
      <4> QED
        BY <4>3, <4>4
    <3>3. T \in SUBSET D
      OBVIOUS
    <3> HIDE DEF T
    <3>4. D \subseteq T
      BY <3>1, <3>2, <3>3
    <3> QED
      BY <3>4 DEF T
  <2> QED
    BY <1>3, <2>2, <2>3
<1> QED
  BY <1>2, <1>3 DEF Forest, Owned

\* x takes the place of c in the list of a, and the caller holds c: x goes before c,
\* then c leaves.
LEMMA ReplaceKeeps ==
  ASSUME NEW nx, NEW pv, NEW ch, NEW lv, NEW rf, NEW hd, Forest(nx, pv, ch, lv, rf, hd),
         NEW a \in lv \ rf, NEW c \in lv \ hd, pv[c] = NULL <=> ch[a] = c, nx[c] # c,
         NEW x \in hd, a \notin Below(nx, ch, rf, x), c \notin Below(nx, ch, rf, x),
         NEW nx2, NEW pv2, NEW ch2,
         nx2 = [n \in Item |-> IF n = x THEN nx[c] ELSE IF n = c THEN NULL
                               ELSE IF ch[a] # c /\ n = pv[c] THEN x ELSE nx[n]],
         pv2 = [n \in Item |-> IF n = x THEN pv[c] ELSE IF n = c THEN NULL
                               ELSE IF n = nx[c] THEN x ELSE pv[n]],
         ch2 = [n \in Item |-> IF n = a /\ ch[a] = c THEN x ELSE ch[n]]
  PROVE  Forest(nx2, pv2, ch2, lv, rf, (hd \ {x}) \cup {c})
<1> DEFINE nx1 == [n \in Item |-> IF n = x THEN c
                                  ELSE IF ch[a] # c /\ n = pv[c] THEN x ELSE nx[n]]
           pv1 == [n \in Item |-> IF n = c THEN x ELSE IF n = x THEN pv[c] ELSE pv[n]]
           ch1 == [n \in Item |-> IF n = a /\ ch[a] = c THEN x ELSE ch[n]]
<1>1. Forest(nx1, pv1, ch1, lv, rf, hd \ {x})
  BY InsertKeeps
<1>2. /\ x \in Item /\ x # c /\ x # NULL /\ c \in Item /\ c # NULL /\ a \in Item
      /\ nx[x] = NULL /\ pv[x] = NULL /\ nx[c] # x /\ pv[c] # c /\ pv[c] # x
  BY ItemsAssumption DEF Forest, Linked
<1>3. pv1[c] = x /\ nx1[c] = nx[c] /\ nx1[x] = c /\ pv1[x] = pv[c]
  BY <1>2
<1>4. ch1[a] # c
  BY <1>2
<1>5. nx2 = [n \in Item |-> IF n = c THEN NULL ELSE IF n = pv1[c] THEN nx1[c] ELSE nx1[n]]
  BY <1>2, <1>3
<1>6. pv2 = [n \in Item |-> IF n = c THEN NULL ELSE IF n = nx1[c] THEN pv1[c] ELSE pv1[n]]
  BY <1>2, <1>3
<1>7. ch2 = [n \in Item |-> IF n = a /\ ch1[a] = c THEN nx1[c] ELSE ch1[n]]
  BY <1>4
<1>8. c \in lv \ (hd \ {x}) /\ (pv1[c] = NULL <=> ch1[a] = c)
  BY <1>2, <1>3, <1>4
<1> HIDE DEF nx1, pv1, ch1
<1> QED
  BY <1>1, <1>5, <1>6, <1>7, <1>8, DetachKeeps

-----------------------------------------------------------------------------
(***************************************************************************)
(* The invariant and what it says of a list.                               *)
(***************************************************************************)

Memory == [next : [Item -> Pointer], prev : [Item -> Pointer], child : [Item -> Pointer]]

\* Keys that are not on the heap are flagged, and free cells have none.
Keys(str, const, lv) ==
  /\ str \in [Item -> String]
  /\ const \subseteq lv
  /\ \A n \in Item \ lv : str[n] = NoString
  /\ \A n \in lv : str[n].at = "const" => n \in const

ForestInv ==
  /\ mem \in Memory
  /\ Forest(mem.next, mem.prev, mem.child, live, is_ref, held)
  /\ Keys(string, is_const, live)

\* Deleted by its name in the lemmas.
LEMMA DeletedIsBelow ==
  \A m, c : Deleted(m, c) = Below(m.next, m.child, is_ref, c)
BY DEF Deleted, Below, Closed

\* The invariant gives the properties that are not about closed sets.
LEMMA InvImplies ==
  ForestInv => TypeOK /\ WellLinked /\ NothingShared /\ ConstIsFlagged
<1> SUFFICES ASSUME ForestInv
             PROVE  TypeOK /\ WellLinked /\ NothingShared /\ ConstIsFlagged
  OBVIOUS
<1> USE DEF ForestInv, Forest, Linked
<1>1. TypeOK
  BY DEF TypeOK, Memory, Keys
<1>2. WellLinked
  BY DEF WellLinked
<1>3. NothingShared
  BY DEF NothingShared
<1>4. ConstIsFlagged
  BY DEF ConstIsFlagged, Keys
<1> QED
  BY <1>1, <1>2, <1>3, <1>4

\* The trees of what the caller holds are apart, and together they are everything.
LEMMA InvImpliesOwnedOnce ==
  ForestInv => OwnedOnce
<1> SUFFICES ASSUME ForestInv, NEW n \in live
             PROVE  Cardinality({x \in held : n \in Deleted(mem, x)}) = 1
  BY DEF OwnedOnce
<1> DEFINE B(x) == Below(mem.next, mem.child, is_ref, x)
<1>t. /\ mem.next \in [Item -> Pointer] /\ mem.child \in [Item -> Pointer]
      /\ Linked(mem.next, mem.prev, mem.child, live, is_ref, held)
      /\ held \subseteq live /\ held \subseteq Item
  BY DEF ForestInv, Forest, Linked
<1>1. \A x \in held : /\ x \in B(x) /\ B(x) \subseteq Item
                      /\ Closed(mem.next, mem.child, is_ref, B(x))
                      /\ Closed(mem.next, mem.child, is_ref, Item \ B(x))
                      /\ held \cap B(x) = {x}
                      /\ \A S \in SUBSET Item :
                           x \in S /\ Closed(mem.next, mem.child, is_ref, S) => B(x) \subseteq S
  BY <1>t, BelowIsClosed, OutsideIsClosed
<1> HIDE DEF B
<1>2. \E x \in held : n \in B(x)
  <2> DEFINE S == {k \in Item : \E x \in held : k \in B(x)}
  <2>1. Closed(mem.next, mem.child, is_ref, S)
    BY <1>1 DEF Closed
  <2>2. held \subseteq S
    BY <1>1, <1>t
  <2>3. S \in SUBSET Item
    OBVIOUS
  <2> HIDE DEF S
  <2>4. live \subseteq S
    BY <2>1, <2>2, <2>3 DEF ForestInv, Forest, Owned
  <2> QED
    BY <2>4 DEF S
<1>3. ASSUME NEW x \in held, NEW y \in held, n \in B(x), n \in B(y)
      PROVE  x = y
  <2> SUFFICES ASSUME x # y PROVE FALSE
    OBVIOUS
  <2>1. x \in Item \ B(y)
    <3>1. held \cap B(y) = {y}
      BY <1>1
    <3> QED
      BY <3>1, <1>t
  <2>2. B(x) \subseteq Item \ B(y)
    BY <2>1, <1>1
  <2> QED
    BY <2>2, <1>3
<1>4. PICK w \in held : n \in B(w)
  BY <1>2
<1>5. {x \in held : n \in Deleted(mem, x)} = {w}
  BY <1>3, <1>4, DeletedIsBelow DEF B
<1> QED
  BY <1>5, FS_Singleton

\* The items of a list are allocated, the caller holds none of them, only the first
\* has no item before it, and they are wherever the pointers from a lead to.
LEMMA ChainItem ==
  ASSUME ForestInv, NEW a \in live \ is_ref, NEW c \in Chain(a)
  PROVE  /\ c \in live \ held
         /\ mem.prev[c] = NULL <=> mem.child[a] = c
         /\ mem.next[c] # c
         /\ \A S \in SUBSET Item :
              a \in S /\ Closed(mem.next, mem.child, is_ref, S) => c \in S
<1> DEFINE h == mem.child[a]
<1>l. Linked(mem.next, mem.prev, mem.child, live, is_ref, held)
  BY DEF ForestInv, Forest
<1>t. /\ mem.next \in [Item -> Pointer] /\ mem.prev \in [Item -> Pointer]
      /\ live \subseteq Item /\ held \subseteq live /\ NULL \notin Item
  BY <1>l, ItemsAssumption DEF Linked
<1>1. h # NULL /\ h \in live \ held /\ h \in Item /\ mem.prev[h] = NULL
  BY <1>l DEF Chain, Linked
<1>2. ASSUME NEW S \in SUBSET Item, h \in S, \A k \in S : mem.next[k] \in S \cup {NULL}
      PROVE  c \in S
  BY <1>1, <1>2 DEF Chain, From
<1>n. \A n \in Item : mem.next[n] # NULL => mem.next[n] \in live /\ mem.prev[mem.next[n]] = n
  BY <1>l DEF Linked
<1>h. \A n \in held : mem.prev[n] = NULL
  BY <1>l DEF Linked
<1> HIDE DEF h
<1>3. c \in live \ held /\ (mem.prev[c] = NULL => c = h)
  <2> DEFINE S == {k \in live \ held : mem.prev[k] = NULL => k = h}
  <2>1. \A k \in S : mem.next[k] \in S \cup {NULL}
    BY <1>t, <1>n, <1>h
  <2>2. S \in SUBSET Item /\ h \in S
    BY <1>t, <1>1
  <2> HIDE DEF S
  <2>3. c \in S
    BY <2>1, <2>2, <1>2
  <2> QED
    BY <2>3 DEF S
<1>4. mem.next[c] # c
  <2> SUFFICES ASSUME mem.next[c] = c PROVE FALSE
    OBVIOUS
  <2>1. c \in Item /\ c # NULL /\ mem.prev[c] = c
    BY <1>3, <1>t, <1>n
  <2>2. \A k \in Item \ {c} : mem.next[k] \in (Item \ {c}) \cup {NULL}
    BY <2>1, <1>t, <1>n DEF Pointer
  <2>3. h \in Item \ {c}
    BY <2>1, <1>1
  <2>4. c \in Item \ {c}
    BY <2>2, <2>3, <1>2
  <2> QED
    BY <2>4
<1>5. ASSUME NEW S \in SUBSET Item, a \in S, Closed(mem.next, mem.child, is_ref, S)
      PROVE  c \in S
  BY <1>1, <1>2, <1>5 DEF Closed, h
<1> QED
  BY <1>1, <1>3, <1>4, <1>5 DEF h

\* A list that does not lead below x is apart from what is.
LEMMA ChainOutside ==
  ASSUME ForestInv, NEW a \in live \ is_ref, NEW x \in held, a \notin Deleted(mem, x),
         NEW c \in Chain(a)
  PROVE  c \notin Below(mem.next, mem.child, is_ref, x)
<1> DEFINE B == Below(mem.next, mem.child, is_ref, x)
<1>1. Closed(mem.next, mem.child, is_ref, Item \ B)
  BY OutsideIsClosed DEF ForestInv, Forest
<1>2. a \in Item \ B
  BY DeletedIsBelow DEF ForestInv, Forest, Linked
<1>3. c \in Item \ B
  BY <1>1, <1>2, ChainItem
<1> QED
  BY <1>3

\* A list that has items has a last one: there are finitely many cells.
LEMMA LastItem ==
  ASSUME ForestInv, NEW a \in live \ is_ref, mem.child[a] # NULL
  PROVE  \E c \in Chain(a) : mem.next[c] = NULL
<1> SUFFICES ASSUME \A c \in Chain(a) : mem.next[c] # NULL
             PROVE  FALSE
  OBVIOUS
<1> DEFINE C == Chain(a)
           f == [c \in C |-> mem.next[c]]
<1>l. Linked(mem.next, mem.prev, mem.child, live, is_ref, held)
  BY DEF ForestInv, Forest
<1>1. /\ mem.child[a] \in Item /\ mem.prev[mem.child[a]] = NULL
      /\ mem.next \in [Item -> Pointer] /\ NULL \notin Item
  BY <1>l, ItemsAssumption DEF Linked
<1>2. C \subseteq Item /\ mem.child[a] \in C
  BY <1>1 DEF Chain, From
<1>3. \A k \in C : mem.next[k] \in C
  <2> SUFFICES ASSUME NEW k \in C PROVE mem.next[k] \in C
    OBVIOUS
  <2>1. mem.next[k] \in Item
    BY <1>1, <1>2 DEF Pointer
  <2>2. ASSUME NEW S \in SUBSET Item, mem.child[a] \in S, \A j \in S : mem.next[j] \in S \cup {NULL}
        PROVE  mem.next[k] \in S
    <3>1. k \in S
      BY <2>2 DEF Chain, From
    <3> QED
      BY <2>2, <2>1, <3>1, <1>1
  <2> QED
    BY <2>1, <2>2 DEF Chain, From
<1>4. \A k \in C : mem.prev[mem.next[k]] = k
  BY <1>2, <1>l DEF Linked
<1>5. IsFiniteSet(C)
  BY <1>2, FS_Subset, ItemsAssumption
<1> HIDE DEF C
<1>6. /\ f \in [C -> C]
      /\ \A k \in C : f[k] # mem.child[a]
      /\ \A j, k \in C : f[j] = f[k] => j = k
  BY <1>1, <1>2, <1>3, <1>4
<1> HIDE DEF f
<1> QED
  BY <1>2, <1>5, <1>6, OntoItself

-----------------------------------------------------------------------------
(***************************************************************************)
(* What the changes of pointers do to a forest.                            *)
(***************************************************************************)

\* AddItem, with the memory m of the moment.
LEMMA AddItemEffect ==
  ASSUME NEW m \in Memory, NEW lv, NEW rf, NEW hd,
         Forest(m.next, m.prev, m.child, lv, rf, hd),
         NEW a \in lv \ rf, NEW x \in hd, a \notin Below(m.next, m.child, rf, x),
         m.child[a] # NULL => \E c \in Chain(a) : m.next[c] = NULL,
         \A c \in Chain(a) : c \in lv \ hd /\ c \notin Below(m.next, m.child, rf, x),
         NEW m2, m2 = AddItem(m, a, x)
  PROVE  m2 \in Memory /\ Forest(m2.next, m2.prev, m2.child, lv, rf, hd \ {x})
<1>t. a \in Item /\ x \in Item /\ x \in Pointer /\ lv \subseteq Item
  BY DEF Forest, Linked, Pointer
<1>1. CASE m.child[a] = NULL
  <2>1. m2 = [m EXCEPT !.child[a] = x]
    BY <1>1 DEF AddItem
  <2>2. m2.next = m.next /\ m2.prev = m.prev /\ m2.child = [m.child EXCEPT ![a] = x]
    BY <2>1 DEF Memory
  <2>3. m2 \in Memory
    BY <2>1, <1>t DEF Memory
  <2>4. Forest(m.next, m.prev, [m.child EXCEPT ![a] = x], lv, rf, hd \ {x})
    BY <1>1, FirstKeeps
  <2> QED
    BY <2>2, <2>3, <2>4
<1>2. CASE m.child[a] # NULL
  <2> DEFINE last == CHOOSE c \in Chain(a) : m.next[c] = NULL
  <2>1. last \in Chain(a) /\ m.next[last] = NULL
    BY <1>2
  <2>2. m2 = [m EXCEPT !.next[last] = x, !.prev[x] = last]
    BY <1>2 DEF AddItem, suffix_object
  <2> HIDE DEF last
  <2>3. last \in lv \ hd /\ last \in Item /\ last \in Pointer
        /\ last \notin Below(m.next, m.child, rf, x)
    BY <2>1, <1>t DEF Pointer
  <2>4. /\ m2.next = [m.next EXCEPT ![last] = x]
        /\ m2.prev = [m.prev EXCEPT ![x] = last]
        /\ m2.child = m.child
    BY <2>2 DEF Memory
  <2>5. m2 \in Memory
    <3>1. m2 = [next |-> m2.next, prev |-> m2.prev, child |-> m2.child]
      BY <2>2 DEF Memory
    <3>2. /\ m2.next \in [Item -> Pointer] /\ m2.prev \in [Item -> Pointer]
          /\ m2.child \in [Item -> Pointer]
      BY <2>3, <2>4, <1>t DEF Memory
    <3> QED
      BY <3>1, <3>2 DEF Memory
  <2>6. Forest([m.next EXCEPT ![last] = x], [m.prev EXCEPT ![x] = last], m.child, lv, rf, hd \ {x})
    BY <2>1, <2>3, LastKeeps
  <2> QED
    BY <2>4, <2>5, <2>6
<1> QED
  BY <1>1, <1>2

\* AddItem of what the caller may link.
LEMMA LinkEffect ==
  ASSUME ForestInv, NEW a, NEW x, Linkable(a, x)
  PROVE  /\ AddItem(mem, a, x) \in Memory
         /\ Forest(AddItem(mem, a, x).next, AddItem(mem, a, x).prev, AddItem(mem, a, x).child,
                   live, is_ref, held \ {x})
<1>1. /\ x \in held /\ a \in live \ is_ref
      /\ a \notin Below(mem.next, mem.child, is_ref, x)
      /\ a \notin Deleted(mem, x)
  BY DeletedIsBelow DEF Linkable
<1>2. \A c \in Chain(a) : c \in live \ held /\ c \notin Below(mem.next, mem.child, is_ref, x)
  BY <1>1, ChainItem, ChainOutside
<1>3. mem.child[a] # NULL => \E c \in Chain(a) : mem.next[c] = NULL
  BY <1>1, LastItem
<1>4. mem \in Memory /\ Forest(mem.next, mem.prev, mem.child, live, is_ref, held)
  BY DEF ForestInv
<1> QED
  BY <1>1, <1>2, <1>3, <1>4, AddItemEffect

\* A new reference r to x, added to a.
LEMMA ReferEffect ==
  ASSUME ForestInv, NEW a \in live \ is_ref, NEW x \in live, NEW r \in Item \ live,
         NEW m2, m2 = AddItem(Referring(r, x), a, r)
  PROVE  /\ m2 \in Memory
         /\ Forest(m2.next, m2.prev, m2.child, live \cup {r}, is_ref \cup {r}, held)
<1> DEFINE m == Referring(r, x)
<1>t. /\ mem \in Memory /\ live \subseteq Item /\ r # NULL /\ r \notin held
      /\ Forest(mem.next, mem.prev, mem.child, live, is_ref, held)
      /\ is_ref \subseteq live
  BY ItemsAssumption DEF ForestInv, Forest, Linked
<1>1. /\ m.next = mem.next /\ m.prev = mem.prev
      /\ m.child = [mem.child EXCEPT ![r] = mem.child[x]]
      /\ mem.child[x] \in Pointer
  BY <1>t DEF Referring, Memory
<1>2. m \in Memory
  BY <1>1, <1>t DEF Referring, Memory
<1> HIDE DEF m
<1>3. Forest(m.next, m.prev, m.child, live \cup {r}, is_ref \cup {r}, held \cup {r})
  BY <1>1, <1>t, NewReferenceKeeps
<1>4. Below(m.next, m.child, is_ref \cup {r}, r) \subseteq {r}
  <2>1. Closed(m.next, m.child, is_ref \cup {r}, {r})
    BY <1>3 DEF Forest, Linked, Closed
  <2> QED
    BY <2>1, <1>2, BelowIsClosed DEF Memory
<1>5. a # r /\ a \in (live \cup {r}) \ (is_ref \cup {r})
  BY <1>t
<1>6. \A c \in Chain(a) : c \in (live \cup {r}) \ (held \cup {r})
  BY <1>t, ChainItem
<1>7. m.child[a] # NULL => \E c \in Chain(a) : m.next[c] = NULL
  BY <1>1, <1>5, <1>t, LastItem DEF Memory
<1>8. \A c \in Chain(a) : c \in (live \cup {r}) \ (held \cup {r})
                          /\ c \notin Below(m.next, m.child, is_ref \cup {r}, r)
  BY <1>4, <1>6
<1>9. m2 \in Memory /\ Forest(m2.next, m2.prev, m2.child, live \cup {r}, is_ref \cup {r}, (held \cup {r}) \ {r})
  <2>1. m2 = AddItem(m, a, r)
    BY DEF m
  <2>2. r \in held \cup {r} /\ a \notin Below(m.next, m.child, is_ref \cup {r}, r)
    BY <1>4, <1>5
  <2> QED
    BY <2>1, <2>2, <1>2, <1>3, <1>5, <1>7, <1>8, AddItemEffect
<1>10. (held \cup {r}) \ {r} = held
  BY <1>t
<1> QED
  BY <1>9, <1>10

\* Detach, of an item of the list of a.
LEMMA DetachEffect ==
  ASSUME ForestInv, NEW a \in live \ is_ref, NEW c \in Chain(a),
         NEW m2, m2 = Detach(mem, a, c)
  PROVE  /\ m2 \in Memory
         /\ Forest(m2.next, m2.prev, m2.child, live, is_ref, held \cup {c})
         /\ c \in live \ held
<1>1. /\ c \in live \ held /\ (mem.prev[c] = NULL <=> mem.child[a] = c)
  BY ChainItem
<1>2. Forest(mem.next, mem.prev, mem.child, live, is_ref, held)
  BY DEF ForestInv
<1>3. Forest(m2.next, m2.prev, m2.child, live, is_ref, held \cup {c})
  BY <1>1, <1>2, DetachKeeps DEF Detach
<1>4. m2 \in Memory
  BY <1>3 DEF Detach, Memory, Forest, Linked
<1> QED
  BY <1>1, <1>3, <1>4

\* Insert, of what the caller may link.
LEMMA InsertEffect ==
  ASSUME ForestInv, NEW a, NEW x, Linkable(a, x), NEW c \in Chain(a),
         NEW m2, m2 = Insert(mem, a, c, x)
  PROVE  /\ m2 \in Memory
         /\ Forest(m2.next, m2.prev, m2.child, live, is_ref, held \ {x})
<1>1. /\ x \in held /\ a \in live \ is_ref
      /\ a \notin Below(mem.next, mem.child, is_ref, x)
      /\ a \notin Deleted(mem, x)
  BY DeletedIsBelow DEF Linkable
<1>2. /\ c \in live \ held /\ (mem.prev[c] = NULL <=> mem.child[a] = c)
      /\ c \notin Below(mem.next, mem.child, is_ref, x)
  BY <1>1, ChainItem, ChainOutside
<1>t. /\ Forest(mem.next, mem.prev, mem.child, live, is_ref, held)
      /\ mem \in Memory /\ c \in Item /\ x \in Item /\ a \in Item /\ c # x
  BY <1>1, <1>2 DEF ForestInv, Forest, Linked
<1>3. /\ m2.next = [n \in Item |-> IF n = x THEN c
                                   ELSE IF mem.child[a] # c /\ n = mem.prev[c] THEN x ELSE mem.next[n]]
      /\ m2.prev = [[mem.prev EXCEPT ![x] = mem.prev[c]] EXCEPT ![c] = x]
      /\ m2.child = [mem.child EXCEPT ![a] = IF @ = c THEN x ELSE @]
      /\ m2 = [next |-> m2.next, prev |-> m2.prev, child |-> m2.child]
  BY <1>t DEF Insert, Memory
<1>4. m2.prev = [n \in Item |-> IF n = c THEN x ELSE IF n = x THEN mem.prev[c] ELSE mem.prev[n]]
  BY <1>3, <1>t DEF Memory
<1>5. m2.child = [n \in Item |-> IF n = a /\ mem.child[a] = c THEN x ELSE mem.child[n]]
  BY <1>3, <1>t DEF Memory
<1>6. Forest(m2.next, m2.prev, m2.child, live, is_ref, held \ {x})
  BY <1>1, <1>2, <1>3, <1>4, <1>5, <1>t, InsertKeeps
<1>7. m2 \in Memory
  BY <1>3, <1>6 DEF Memory, Forest, Linked
<1> QED
  BY <1>6, <1>7

\* Replace, by what the caller may link.
LEMMA ReplaceEffect ==
  ASSUME ForestInv, NEW a, NEW x, Linkable(a, x), NEW c \in Chain(a),
         NEW m2, m2 = Replace(mem, a, c, x)
  PROVE  /\ m2 \in Memory
         /\ Forest(m2.next, m2.prev, m2.child, live, is_ref, (held \ {x}) \cup {c})
         /\ c \in live \ held
<1>1. /\ x \in held /\ a \in live \ is_ref
      /\ a \notin Below(mem.next, mem.child, is_ref, x)
      /\ a \notin Deleted(mem, x)
  BY DeletedIsBelow DEF Linkable
<1>2. /\ c \in live \ held /\ (mem.prev[c] = NULL <=> mem.child[a] = c)
      /\ c \notin Below(mem.next, mem.child, is_ref, x) /\ mem.next[c] # c
  BY <1>1, ChainItem, ChainOutside
<1>t. /\ Forest(mem.next, mem.prev, mem.child, live, is_ref, held)
      /\ mem \in Memory /\ c \in Item /\ x \in Item /\ a \in Item /\ c # x
  BY <1>1, <1>2 DEF ForestInv, Forest, Linked
<1>3. /\ m2.next = [n \in Item |-> IF n = x THEN mem.next[c] ELSE IF n = c THEN NULL
                                   ELSE IF mem.child[a] # c /\ n = mem.prev[c] THEN x ELSE mem.next[n]]
      /\ m2.prev = [n \in Item |-> IF n = x THEN mem.prev[c] ELSE IF n = c THEN NULL
                                   ELSE IF n = mem.next[c] THEN x ELSE mem.prev[n]]
      /\ m2.child = [mem.child EXCEPT ![a] = IF @ = c THEN x ELSE @]
      /\ m2 = [next |-> m2.next, prev |-> m2.prev, child |-> m2.child]
  BY <1>t DEF Replace, Memory
<1>4. m2.child = [n \in Item |-> IF n = a /\ mem.child[a] = c THEN x ELSE mem.child[n]]
  BY <1>3, <1>t DEF Memory
<1>5. Forest(m2.next, m2.prev, m2.child, live, is_ref, (held \ {x}) \cup {c})
  BY <1>1, <1>2, <1>3, <1>4, <1>t, ReplaceKeeps
<1>6. m2 \in Memory
  BY <1>3, <1>5 DEF Memory, Forest, Linked
<1> QED
  BY <1>2, <1>5, <1>6

\* cJSON_Delete of c, with the memory m and the keys str of the moment, when the
\* caller holds c and the items hd.
LEMMA DeleteEffect ==
  ASSUME NEW m \in Memory, NEW str, NEW hd,
         Forest(m.next, m.prev, m.child, live, is_ref, hd), Keys(str, is_const, live),
         NEW c \in hd, Delete(m, str, c), held' = hd \ {c}
  PROVE  ForestInv'
<1> DEFINE D == Deleted(m, c)
<1>1. D = Below(m.next, m.child, is_ref, c)
  BY DeletedIsBelow
<1>2. /\ live' = live \ D /\ is_const' = is_const \ D /\ is_ref' = is_ref \ D
      /\ mem' = [next |-> [n \in Item |-> IF n \in D THEN NULL ELSE m.next[n]],
                 prev |-> [n \in Item |-> IF n \in D THEN NULL ELSE m.prev[n]],
                 child |-> [n \in Item |-> IF n \in D THEN NULL ELSE m.child[n]]]
      /\ string' = [n \in Item |-> IF n \in D THEN NoString ELSE str[n]]
  BY DEF Delete
<1> HIDE DEF D
<1>3. Forest(mem'.next, mem'.prev, mem'.child, live', is_ref', held')
  BY <1>1, <1>2, DeleteKeeps
<1>4. mem' \in Memory
  BY <1>2, <1>3 DEF Memory, Forest, Linked
<1>5. Keys(string', is_const', live')
  <2>1. string' \in [Item -> String]
    BY <1>2 DEF Keys, String
  <2>2. /\ is_const' \subseteq live'
        /\ \A n \in Item \ live' : string'[n] = NoString
    BY <1>2 DEF Keys
  <2>3. ASSUME NEW n \in live', string'[n].at = "const"
        PROVE  n \in is_const'
    BY <1>2, <2>3 DEF Keys, Forest, Linked
  <2> QED
    BY <2>1, <2>2, <2>3 DEF Keys
<1> QED
  BY <1>3, <1>4, <1>5 DEF ForestInv

-----------------------------------------------------------------------------
(***************************************************************************)
(* The operations keep the invariant.                                      *)
(***************************************************************************)

LEMMA KeyOfOne ==
  ASSUME NEW str, NEW const, NEW lv \in SUBSET Item, Keys(str, const, lv), NEW x \in lv,
         NEW s \in String, NEW str2, str2 = [str EXCEPT ![x] = s],
         NEW const2 \in SUBSET lv, const \subseteq const2, s.at = "const" => x \in const2
  PROVE  Keys(str2, const2, lv)
<1>1. /\ str2 \in [Item -> String]
      /\ \A n \in Item : str2[n] = IF n = x THEN s ELSE str[n]
  BY DEF Keys
<1> QED
  BY <1>1 DEF Keys

\* A new item without a key, or with one on the heap.
LEMMA KeyOfNew ==
  ASSUME NEW str, NEW const, NEW lv \in SUBSET Item, Keys(str, const, lv), NEW r \in Item \ lv,
         NEW s \in String, s.at # "const", NEW str2, str2 = [str EXCEPT ![r] = s],
         NEW const2, const \subseteq const2, const2 \subseteq const \cup {r}
  PROVE  Keys(str2, const2, lv \cup {r}) /\ Keys(str, const2, lv \cup {r})
<1>1. /\ str2 \in [Item -> String]
      /\ \A n \in Item : str2[n] = IF n = r THEN s ELSE str[n]
  BY DEF Keys
<1>2. str[r].at # "const"
  BY DEF Keys, NoString
<1> QED
  BY <1>1, <1>2 DEF Keys

\* The two values a copied key can have.
LEMMA CopiedKey ==
  ASSUME NEW k \in Key, NEW s \in {NoString, [key |-> k, at |-> "heap"]}
  PROVE  s \in String /\ s.at # "const"
BY DEF String, NoString

\* Create.
LEMMA CreateStep ==
  ASSUME ForestInv, NEW n \in Item, Create(n)
  PROVE  ForestInv'
<1>1. /\ n \in Item \ live /\ live' = live \cup {n} /\ held' = held \cup {n}
      /\ mem' = mem /\ is_ref' = is_ref /\ string' = string /\ is_const' = is_const
  BY DEF Create, strings
<1>2. Forest(mem.next, mem.prev, mem.child, live \cup {n}, is_ref, held \cup {n})
  BY <1>1, NewItemKeeps DEF ForestInv
<1>3. Keys(string, is_const, live \cup {n})
  BY <1>1 DEF ForestInv, Keys, NoString
<1> QED
  BY <1>1, <1>2, <1>3 DEF ForestInv

\* The operations that link what the caller holds: AddItemToArray,
\* AddItemToObject, AddItemToObjectCS and InsertItemInArray.
LEMMA LinkStep ==
  ASSUME ForestInv, NEW a \in Item, NEW x \in Item, NEW k, NEW which,
         \/ AddItemToArray(a, x)
         \/ k \in Key /\ AddItemToObject(a, k, x)
         \/ k \in Key /\ AddItemToObjectCS(a, k, x)
         \/ InsertItemInArray(a, which, x)
  PROVE  ForestInv'
<1>1. /\ Linkable(a, x) /\ live' = live /\ is_ref' = is_ref /\ held' = held \ {x}
      /\ x \in live /\ live \subseteq Item /\ is_const \subseteq live
  BY DEF AddItemToArray, AddItemToObject, AddItemToObjectCS, InsertItemInArray, Linkable,
         ForestInv, Forest, Linked, Keys
<1>2. mem' \in Memory /\ Forest(mem'.next, mem'.prev, mem'.child, live, is_ref, held \ {x})
  <2>1. CASE mem' = AddItem(mem, a, x)
    BY <1>1, <2>1, LinkEffect
  <2>2. CASE InsertItemInArray(a, which, x) /\ mem' # AddItem(mem, a, x)
    <3>1. PICK c \in Chain(a) : mem' = Insert(mem, a, c, x)
      BY <2>2 DEF InsertItemInArray, GetArrayItem
    <3> QED
      BY <1>1, <3>1, InsertEffect
  <2> QED
    BY <2>1, <2>2 DEF AddItemToArray, AddItemToObject, AddItemToObjectCS
<1>3. Keys(string', is_const', live)
  <2>1. CASE AddItemToArray(a, x) \/ InsertItemInArray(a, which, x)
    BY <2>1 DEF AddItemToArray, InsertItemInArray, strings, ForestInv
  <2>2. CASE k \in Key /\ AddItemToObject(a, k, x)
    <3>1. PICK s \in {NoString, [key |-> k, at |-> "heap"]} : string' = [string EXCEPT ![x] = s]
      BY <2>2 DEF AddItemToObject
    <3>2. is_const' = is_const /\ Keys(string, is_const, live)
      BY <2>2 DEF AddItemToObject, ForestInv
    <3>3. s \in String /\ s.at # "const"
      BY <2>2, CopiedKey
    <3> QED
      BY <3>1, <3>2, <3>3, <1>1, KeyOfOne
  <2>3. CASE k \in Key /\ AddItemToObjectCS(a, k, x)
    <3> DEFINE s == [key |-> k, at |-> "const"]
    <3>1. /\ string' = [string EXCEPT ![x] = s]
          /\ is_const' = is_const \cup {x} /\ Keys(string, is_const, live)
      BY <2>3 DEF AddItemToObjectCS, ForestInv
    <3>2. s \in String
      BY <2>3 DEF String
    <3>3. is_const' \in SUBSET live /\ is_const \subseteq is_const' /\ x \in is_const'
      BY <3>1, <1>1
    <3> HIDE DEF s
    <3> QED
      BY <3>1, <3>2, <3>3, <1>1, KeyOfOne
  <2> QED
    BY <2>1, <2>2, <2>3
<1> QED
  BY <1>1, <1>2, <1>3 DEF ForestInv

\* AddItemReferenceToArray and AddItemReferenceToObject.
LEMMA ReferStep ==
  ASSUME ForestInv, NEW a \in Item, NEW x \in Item, NEW r \in Item,
         \/ AddItemReferenceToArray(a, r, x)
         \/ \E k \in Key : AddItemReferenceToObject(a, k, r, x)
  PROVE  ForestInv'
<1>1. /\ a \in live \ is_ref /\ x \in live /\ r \in Item \ live
      /\ live' = live \cup {r} /\ is_ref' = is_ref \cup {r} /\ held' = held
      /\ is_const' = IF x \in is_const THEN is_const \cup {r} ELSE is_const
      /\ mem' = AddItem(Referring(r, x), a, r)
  BY DEF AddItemReferenceToArray, AddItemReferenceToObject, CreateReference
<1>2. /\ mem' \in Memory
      /\ Forest(mem'.next, mem'.prev, mem'.child, live \cup {r}, is_ref \cup {r}, held)
  BY <1>1, ReferEffect
<1>3. Keys(string, is_const, live) /\ live \in SUBSET Item
      /\ is_const \subseteq is_const' /\ is_const' \subseteq is_const \cup {r}
  BY <1>1 DEF ForestInv, Forest, Linked
<1>4. Keys(string', is_const', live \cup {r})
  <2>1. CASE AddItemReferenceToArray(a, r, x)
    <3>1. string' = string
      BY <2>1 DEF AddItemReferenceToArray
    <3>2. NoString \in String /\ NoString.at # "const"
      BY DEF String, NoString
    <3> QED
      BY <3>1, <3>2, <1>1, <1>3, KeyOfNew
  <2>2. CASE \E k \in Key : AddItemReferenceToObject(a, k, r, x)
    <3>0. PICK k \in Key : AddItemReferenceToObject(a, k, r, x)
      BY <2>2
    <3>1. PICK s \in {NoString, [key |-> k, at |-> "heap"]} : string' = [string EXCEPT ![r] = s]
      BY <3>0 DEF AddItemReferenceToObject
    <3>2. s \in String /\ s.at # "const"
      BY CopiedKey
    <3> QED
      BY <3>1, <3>2, <1>1, <1>3, KeyOfNew
  <2> QED
    BY <2>1, <2>2
<1> QED
  BY <1>1, <1>2, <1>4 DEF ForestInv

\* DetachItemFromArray and DetachItemFromObject.
LEMMA DetachStep ==
  ASSUME ForestInv, NEW a \in Item, NEW k, NEW which,
         DetachItemFromArray(a, which) \/ DetachItemFromObject(a, k)
  PROVE  ForestInv'
<1>1. PICK c \in Chain(a) : a \in live \ is_ref /\ DetachItem(a, c)
  BY DEF DetachItemFromArray, DetachItemFromObject, GetArrayItem, GetObjectItem
<1>2. /\ mem' = Detach(mem, a, c) /\ held' = held \cup {c} /\ string' = string
      /\ is_const' = is_const /\ is_ref' = is_ref /\ live' = live
  BY <1>1 DEF DetachItem, strings
<1>3. mem' \in Memory /\ Forest(mem'.next, mem'.prev, mem'.child, live, is_ref, held \cup {c})
  BY <1>1, <1>2, DetachEffect
<1> QED
  BY <1>2, <1>3 DEF ForestInv

\* DeleteItem, DeleteItemFromArray and DeleteItemFromObject.
LEMMA DeleteStep ==
  ASSUME ForestInv, NEW a \in Item, NEW k, NEW which,
         DeleteItem(a) \/ DeleteItemFromArray(a, which) \/ DeleteItemFromObject(a, k)
  PROVE  ForestInv'
<1>1. /\ Keys(string, is_const, live) /\ mem \in Memory
      /\ Forest(mem.next, mem.prev, mem.child, live, is_ref, held)
  BY DEF ForestInv
<1>2. CASE DeleteItem(a)
  BY <1>1, <1>2, DeleteEffect DEF DeleteItem
<1>3. CASE DeleteItemFromArray(a, which) \/ DeleteItemFromObject(a, k)
  <2>1. PICK c \in Chain(a) : a \in live \ is_ref /\ Delete(Detach(mem, a, c), string, c)
    BY <1>3 DEF DeleteItemFromArray, DeleteItemFromObject, GetArrayItem, GetObjectItem
  <2> DEFINE m == Detach(mem, a, c)
  <2>2. /\ m \in Memory /\ c \in live \ held
        /\ Forest(m.next, m.prev, m.child, live, is_ref, held \cup {c})
    BY <2>1, DetachEffect
  <2>3. held' = (held \cup {c}) \ {c}
    BY <1>3, <2>2 DEF DeleteItemFromArray, DeleteItemFromObject
  <2>4. Delete(m, string, c)
    BY <2>1
  <2> HIDE DEF m
  <2> QED
    BY <1>1, <2>2, <2>3, <2>4, DeleteEffect
<1> QED
  BY <1>2, <1>3

\* ReplaceItemInArray and ReplaceItemInObject.
LEMMA ReplaceStep ==
  ASSUME ForestInv, NEW a \in Item, NEW x \in Item,
         \/ \E which \in Which : ReplaceItemInArray(a, which, x)
         \/ \E k \in Key : ReplaceItemInObject(a, k, x)
  PROVE  ForestInv'
<1>1. /\ Keys(string, is_const, live) /\ Linkable(a, x) /\ x \in held /\ x \in live
      /\ live \in SUBSET Item /\ is_const \subseteq live
  BY DEF ForestInv, Forest, Linked, Keys, ReplaceItemInArray, ReplaceItemInObject, Linkable
<1>2. \E str : \E c \in Chain(a) :
        Keys(str, is_const, live) /\ Delete(Replace(mem, a, c, x), str, c)
  <2>1. CASE \E which \in Which : ReplaceItemInArray(a, which, x)
    BY <1>1, <2>1 DEF ReplaceItemInArray, GetArrayItem
  <2>2. CASE \E k \in Key : ReplaceItemInObject(a, k, x)
    <3>0. PICK k \in Key : ReplaceItemInObject(a, k, x)
      BY <2>2
    <3>1. PICK c \in Chain(a), s \in {NoString, [key |-> k, at |-> "heap"]} :
            Delete(Replace(mem, a, c, x), [string EXCEPT ![x] = s], c)
      BY <3>0 DEF ReplaceItemInObject, GetObjectItem
    <3>2. s \in String /\ s.at # "const"
      BY <2>2, CopiedKey
    <3>3. Keys([string EXCEPT ![x] = s], is_const, live)
      BY <3>2, <1>1, KeyOfOne
    <3> QED
      BY <3>1, <3>3
  <2> QED
    BY <2>1, <2>2
<1>a. PICK str : \E c \in Chain(a) :
        Keys(str, is_const, live) /\ Delete(Replace(mem, a, c, x), str, c)
  BY <1>2
<1>3. PICK c \in Chain(a) :
        Keys(str, is_const, live) /\ Delete(Replace(mem, a, c, x), str, c)
  BY <1>a
<1> DEFINE m == Replace(mem, a, c, x)
<1>4. /\ m \in Memory /\ c \in live \ held
      /\ Forest(m.next, m.prev, m.child, live, is_ref, (held \ {x}) \cup {c})
  BY <1>1, ReplaceEffect
<1>5. held' = ((held \ {x}) \cup {c}) \ {c}
  BY <1>4 DEF ReplaceItemInArray, ReplaceItemInObject
<1>6. Delete(m, str, c)
  BY <1>3
<1> HIDE DEF m
<1> QED
  BY <1>3, <1>4, <1>5, <1>6, DeleteEffect

\* CreateArrayOf.
LEMMA CreateArrayStep ==
  ASSUME ForestInv, NEW a \in Item \ live, NEW count \in Nat \ {0},
         NEW s \in [1 .. count -> Item \ live], CreateArrayOf(a, s)
  PROVE  /\ ForestInv'
         /\ InArray(mem.next, mem.prev, mem.child, a, count, s, {s[i] : i \in 1 .. count},
                    mem'.next, mem'.prev, mem'.child)
<1> DEFINE C == {s[i] : i \in 1 .. count}
           At(i) == IF i \in 1 .. count THEN s[i] ELSE NULL
           Place(n) == CHOOSE i \in 1 .. count : s[i] = n
           Moved(g, by) == [n \in Item |-> IF n \in C THEN At(Place(n) + by) ELSE g[n]]
<1>1. /\ DOMAIN s = 1 .. count
      /\ live' = live \cup ({a} \cup C) /\ held' = held \cup {a}
      /\ string' = string /\ is_const' = is_const /\ is_ref' = is_ref
      /\ \A i, j \in 1 .. count : s[i] # a /\ (s[i] = s[j] => i = j)
      /\ mem' = ArrayOf(mem, a, s)
  BY DEF CreateArrayOf, strings
<1>t. /\ mem \in Memory /\ live \subseteq Item /\ held \subseteq live /\ is_ref \subseteq live
      /\ Forest(mem.next, mem.prev, mem.child, live, is_ref, held)
      /\ NULL \notin Item /\ C \subseteq Item \ live
  BY ItemsAssumption DEF ForestInv, Forest, Linked
<1>2. /\ mem'.next = Moved(mem.next, 1)
      /\ mem'.prev = Moved(mem.prev, -1)
      /\ mem'.child = [mem.child EXCEPT ![a] = s[1]]
      /\ mem' = [next |-> mem'.next, prev |-> mem'.prev, child |-> mem'.child]
  <2>1. \A n : n \in C <=> \E i \in 1 .. count : s[i] = n
    OBVIOUS
  <2> QED
    BY <1>1, <2>1 DEF ArrayOf
<1>3. \A i \in 1 .. count : Place(s[i]) = i /\ s[i] \in C
  BY <1>1
<1>4. \A i : At(i) \in Pointer
  BY DEF Pointer
<1>5. \A i \in 1 .. count : /\ At(i + 1) = IF i = count THEN NULL ELSE s[i + 1]
                            /\ At(i + (-1)) = IF i = 1 THEN NULL ELSE s[i - 1]
  OBVIOUS
<1>6. s[1] \in Pointer
  BY DEF Pointer
<1>c. C = {s[i] : i \in 1 .. count}
  OBVIOUS
<1> HIDE DEF C, At, Place
<1>7. /\ mem'.next \in [Item -> Pointer]
      /\ mem'.prev \in [Item -> Pointer]
  BY <1>2, <1>4, <1>t DEF Memory
<1>8. /\ mem'.child \in [Item -> Pointer]
      /\ \A n \in Item : mem'.child[n] = IF n = a THEN s[1] ELSE mem.child[n]
  BY <1>2, <1>6, <1>t DEF Memory
<1>9. \A n \in Item \ C : mem'.next[n] = mem.next[n] /\ mem'.prev[n] = mem.prev[n]
  BY <1>2
<1>10. \A i \in 1 .. count : /\ mem'.next[s[i]] = IF i = count THEN NULL ELSE s[i + 1]
                             /\ mem'.prev[s[i]] = IF i = 1 THEN NULL ELSE s[i - 1]
  BY <1>2, <1>3, <1>5
<1>a. InArray(mem.next, mem.prev, mem.child, a, count, s, C, mem'.next, mem'.prev, mem'.child)
  BY <1>1, <1>7, <1>8, <1>9, <1>10, <1>c DEF InArray
<1>11. Forest(mem'.next, mem'.prev, mem'.child, live \cup ({a} \cup C), is_ref, held \cup {a})
  BY <1>a, <1>t, NewArrayKeeps
<1>12. mem' \in Memory
  BY <1>2, <1>7, <1>8 DEF Memory
<1>13. Keys(string', is_const', live')
  BY <1>1, <1>t DEF ForestInv, Keys, NoString
<1>14. ForestInv'
  BY <1>1, <1>11, <1>12, <1>13 DEF ForestInv
<1> QED
  BY <1>14, <1>a, <1>c

\* Duplicate.
LEMMA DuplicateStep ==
  ASSUME ForestInv, NEW x \in Item, NEW recurse \in BOOLEAN, Duplicate(x, recurse)
  PROVE  /\ ForestInv'
         /\ \E D \in SUBSET live : \E f \in [D -> Item \ live] :
              LET C == {f[d] : d \in D}
              IN  /\ live' = live \cup C /\ held' = held \cup {f[x]} /\ is_ref' = is_ref
                  /\ Copyable(mem.next, mem.prev, mem.child, is_ref, x, recurse, D)
                  /\ Copied(mem.next, mem.prev, mem.child, x, recurse, D, f, C,
                            mem'.next, mem'.prev, mem'.child)
                  /\ \A d \in D : string'[f[d]].key = string[d].key
                  /\ \A n \in Item \ C : string'[n] = string[n]
<1> DEFINE D == IF recurse THEN Deleted([mem EXCEPT !.next[x] = NULL], x) ELSE {x}
           Copy(str) == IF str = NoString THEN str ELSE [str EXCEPT !.at = "heap"]
<1>1. x \in live /\ (recurse => D \cap is_ref = {}) /\ is_ref' = is_ref
  BY DEF Duplicate
<1>2. PICK f \in [D -> Item \ live] :
        LET To(p) == IF p \in D THEN f[p] ELSE NULL
            Of(n) == CHOOSE d \in D : f[d] = n
            C == {f[d] : d \in D}
        IN  /\ \A d, e \in D : f[d] = f[e] => d = e
            /\ live' = live \cup C
            /\ held' = held \cup {f[x]}
            /\ mem' = [next  |-> [n \in Item |-> IF n \notin C THEN mem.next[n]
                                    ELSE IF Of(n) = x THEN NULL ELSE To(mem.next[Of(n)])],
                       prev  |-> [n \in Item |-> IF n \notin C THEN mem.prev[n]
                                    ELSE IF Of(n) = x THEN NULL ELSE To(mem.prev[Of(n)])],
                       child |-> [n \in Item |-> IF n \notin C THEN mem.child[n]
                                    ELSE IF recurse THEN To(mem.child[Of(n)]) ELSE NULL]]
            /\ string' = [n \in Item |-> IF n \in C THEN Copy(string[Of(n)]) ELSE string[n]]
            /\ is_const' = is_const \cup {f[d] : d \in D \cap is_const}
  BY DEF Duplicate
<1> DEFINE C == {f[d] : d \in D}
           To(p) == IF p \in D THEN f[p] ELSE NULL
           Of(n) == CHOOSE d \in D : f[d] = n
<1>3. /\ \A d, e \in D : f[d] = f[e] => d = e
      /\ live' = live \cup C
      /\ held' = held \cup {f[x]}
      /\ is_const' = is_const \cup {f[d] : d \in D \cap is_const}
      /\ string' = [n \in Item |-> IF n \in C THEN Copy(string[Of(n)]) ELSE string[n]]
      /\ mem' = [next |-> mem'.next, prev |-> mem'.prev, child |-> mem'.child]
  BY <1>2
<1>4. /\ mem'.next = [n \in Item |-> IF n \notin C THEN mem.next[n]
                        ELSE IF Of(n) = x THEN NULL ELSE To(mem.next[Of(n)])]
      /\ mem'.prev = [n \in Item |-> IF n \notin C THEN mem.prev[n]
                        ELSE IF Of(n) = x THEN NULL ELSE To(mem.prev[Of(n)])]
      /\ mem'.child = [n \in Item |-> IF n \notin C THEN mem.child[n]
                        ELSE IF recurse THEN To(mem.child[Of(n)]) ELSE NULL]
  BY <1>2
<1>t. /\ mem \in Memory /\ live \subseteq Item /\ is_ref \subseteq live
      /\ Forest(mem.next, mem.prev, mem.child, live, is_ref, held)
      /\ NULL \notin Item
  BY ItemsAssumption DEF ForestInv, Forest, Linked
<1>d. /\ x \in D /\ D \subseteq live
      /\ \A d \in D \ {x} : mem.next[d] \in (D \ {x}) \cup {NULL} /\ mem.prev[d] # x
      /\ recurse => \A d \in D : d \notin is_ref /\ mem.child[d] \in (D \ {x}) \cup {NULL}
      /\ \A S \in SUBSET D :
           /\ x \in S
           /\ \A k \in S : /\ k # x => mem.next[k] \in S \cup {NULL}
                           /\ recurse => mem.child[k] \in S \cup {NULL}
           => D \subseteq S
  <2>1. CASE ~recurse
    BY <2>1, <1>1
  <2>2. CASE recurse
    <3>1. D = Below([mem.next EXCEPT ![x] = NULL], mem.child, is_ref, x)
      <4>1. /\ [mem EXCEPT !.next[x] = NULL].next = [mem.next EXCEPT ![x] = NULL]
            /\ [mem EXCEPT !.next[x] = NULL].child = mem.child
        BY <1>t DEF Memory
      <4>2. D = Deleted([mem EXCEPT !.next[x] = NULL], x)
        BY <2>2
      <4> QED
        BY <4>1, <4>2, DeletedIsBelow
    <3>2. D \cap is_ref = {}
      BY <1>1, <2>2
    <3> HIDE DEF D
    <3>3. /\ x \in D /\ D \subseteq live
          /\ \A d \in D \ {x} : mem.next[d] \in (D \ {x}) \cup {NULL} /\ mem.prev[d] # x
          /\ \A d \in D : mem.child[d] \in (D \ {x}) \cup {NULL}
          /\ \A S \in SUBSET D :
               /\ x \in S
               /\ \A k \in S : (k # x => mem.next[k] \in S \cup {NULL}) /\ mem.child[k] \in S \cup {NULL}
               => D \subseteq S
      BY <3>1, <3>2, <1>1, <1>t, NoWayBack
    <3> QED
      BY <2>2, <3>2, <3>3
  <2> QED
    BY <2>1, <2>2
<1> HIDE DEF D
<1>5. \A d \in D : Of(f[d]) = d /\ f[d] \in C
  BY <1>3
<1>6. \A p : To(p) \in Pointer
  BY DEF Pointer
<1>c. C = {f[d] : d \in D} /\ C \subseteq Item \ live /\ C \cap live = {}
  OBVIOUS
<1>o. \A n \in C : Of(n) \in D /\ f[Of(n)] = n
  OBVIOUS
<1>7. \A d \in D : /\ To(mem.next[d]) = IF mem.next[d] \in D THEN f[mem.next[d]] ELSE NULL
                   /\ To(mem.prev[d]) = IF mem.prev[d] \in D THEN f[mem.prev[d]] ELSE NULL
                   /\ To(mem.child[d]) = IF mem.child[d] \in D THEN f[mem.child[d]] ELSE NULL
  OBVIOUS
<1> HIDE DEF C, Of, To
<1>8. /\ mem'.next \in [Item -> Pointer]
      /\ mem'.prev \in [Item -> Pointer]
      /\ mem'.child \in [Item -> Pointer]
  BY <1>4, <1>6, <1>t DEF Memory, Pointer
<1>9. \A n \in Item \ C : /\ mem'.next[n] = mem.next[n]
                          /\ mem'.prev[n] = mem.prev[n]
                          /\ mem'.child[n] = mem.child[n]
  BY <1>4
<1>10. \A d \in D :
         /\ mem'.next[f[d]] = IF d # x /\ mem.next[d] \in D THEN f[mem.next[d]] ELSE NULL
         /\ mem'.prev[f[d]] = IF d # x /\ mem.prev[d] \in D THEN f[mem.prev[d]] ELSE NULL
         /\ mem'.child[f[d]] = IF recurse /\ mem.child[d] \in D THEN f[mem.child[d]] ELSE NULL
  BY <1>4, <1>5, <1>7
<1>a. Copyable(mem.next, mem.prev, mem.child, is_ref, x, recurse, D) /\ D \in SUBSET live
  BY <1>d DEF Copyable
<1>b. Copied(mem.next, mem.prev, mem.child, x, recurse, D, f, C,
             mem'.next, mem'.prev, mem'.child)
  BY <1>3, <1>c, <1>8, <1>9, <1>10 DEF Copied
<1>11. Forest(mem'.next, mem'.prev, mem'.child, live \cup C, is_ref, held \cup {f[x]})
  BY <1>a, <1>b, <1>1, <1>t, CopyKeeps
<1>12. mem' \in Memory
  BY <1>3, <1>8 DEF Memory
<1>13. Keys(string', is_const', live')
  <2>k. Keys(string, is_const, live)
    BY DEF ForestInv
  <2>1. \A d \in D : Copy(string[d]) \in String /\ Copy(string[d]).at # "const"
    <3> SUFFICES ASSUME NEW d \in D PROVE Copy(string[d]) \in String /\ Copy(string[d]).at # "const"
      OBVIOUS
    <3>1. string[d] \in String
      BY <2>k, <1>d, <1>t DEF Keys
    <3> QED
      BY <3>1 DEF String, NoString
  <2> HIDE DEF Copy
  <2>2. \A n \in Item : string'[n] = IF n \in C THEN Copy(string[Of(n)]) ELSE string[n]
    BY <1>3
  <2>3. string' \in [Item -> String]
    BY <1>3, <1>o, <2>1, <2>k DEF Keys
  <2>4. is_const' \subseteq live'
    BY <1>3, <1>c, <2>k DEF Keys
  <2>5. \A n \in Item \ live' : string'[n] = NoString
    BY <1>3, <2>2, <2>k DEF Keys
  <2>6. ASSUME NEW n \in live', string'[n].at = "const"
        PROVE  n \in is_const'
    BY <2>6, <1>3, <1>c, <1>o, <1>t, <2>1, <2>2, <2>k DEF Keys
  <2> QED
    BY <2>3, <2>4, <2>5, <2>6 DEF Keys
<1>14. ForestInv'
  BY <1>1, <1>3, <1>11, <1>12, <1>13 DEF ForestInv
<1>k. /\ \A d \in D : string'[f[d]].key = string[d].key
      /\ \A n \in Item \ C : string'[n] = string[n]
  <2>1. \A n \in Item : string'[n] = IF n \in C THEN Copy(string[Of(n)]) ELSE string[n]
    BY <1>3
  <2>2. ASSUME NEW d \in D PROVE Copy(string[d]).key = string[d].key
    <3>1. string[d] \in String
      BY <1>d, <1>t DEF ForestInv, Keys
    <3> QED
      BY <3>1 DEF String
  <2>3. \A d \in D : f[d] \in Item /\ string'[f[d]] = Copy(string[d])
    BY <2>1, <1>5, <1>c
  <2> HIDE DEF Copy
  <2> QED
    BY <2>1, <2>2, <2>3
<1>15. \E g \in [D -> Item \ live] :
         LET E == {g[d] : d \in D}
         IN  /\ live' = live \cup E /\ held' = held \cup {g[x]} /\ is_ref' = is_ref
             /\ Copyable(mem.next, mem.prev, mem.child, is_ref, x, recurse, D)
             /\ Copied(mem.next, mem.prev, mem.child, x, recurse, D, g, E,
                       mem'.next, mem'.prev, mem'.child)
             /\ \A d \in D : string'[g[d]].key = string[d].key
             /\ \A n \in Item \ E : string'[n] = string[n]
  BY <1>1, <1>3, <1>a, <1>b, <1>c, <1>k
<1> QED
  BY <1>14, <1>15, <1>a

-----------------------------------------------------------------------------
(***************************************************************************)
(* The theorems about the pointers.                                        *)
(***************************************************************************)

LEMMA InvHolds ==
  Spec => []ForestInv
<1>1. Init => ForestInv
  <2> SUFFICES ASSUME Init PROVE ForestInv
    OBVIOUS
  <2> USE DEF Init, Nowhere, Pointer
  <2>1. mem \in Memory
    BY DEF Memory
  <2>2. Linked(mem.next, mem.prev, mem.child, live, is_ref, held)
    BY DEF Linked
  <2>3. Owned(mem.next, mem.child, live, is_ref, held)
    BY DEF Owned
  <2>4. Keys(string, is_const, live)
    BY DEF Keys, String
  <2> QED
    BY <2>1, <2>2, <2>3, <2>4 DEF ForestInv, Forest
<1>2. ForestInv /\ [Next]_vars => ForestInv'
  <2> SUFFICES ASSUME ForestInv, [Next]_vars PROVE ForestInv'
    OBVIOUS
  <2>1. CASE \E n \in Item : Create(n) \/ DeleteItem(n)
    BY <2>1, CreateStep, DeleteStep
  <2>2. CASE \E a \in Item \ live, count \in 1 .. bound.which :
               \E s \in [1 .. count -> Item \ live] : CreateArrayOf(a, s)
    <3>1. PICK a \in Item \ live, count \in 1 .. bound.which :
                 \E s \in [1 .. count -> Item \ live] : CreateArrayOf(a, s)
      BY <2>2
    <3>2. count \in Nat \ {0}
      OBVIOUS
    <3> QED
      BY <3>1, <3>2, CreateArrayStep
  <2>3. CASE \E a, x \in Item : AddItemToArray(a, x)
    BY <2>3, LinkStep
  <2>4. CASE \E a, x \in Item, k \in Key : AddItemToObject(a, k, x) \/ AddItemToObjectCS(a, k, x)
    BY <2>4, LinkStep
  <2>5. CASE \E a, x \in Item, which \in Which : InsertItemInArray(a, which, x)
    BY <2>5, LinkStep
  <2>6. CASE \E a, r, x \in Item : AddItemReferenceToArray(a, r, x)
    BY <2>6, ReferStep
  <2>7. CASE \E a, r, x \in Item, k \in Key : AddItemReferenceToObject(a, k, r, x)
    BY <2>7, ReferStep
  <2>8. CASE \E a \in Item, which \in Which : DetachItemFromArray(a, which) \/ DeleteItemFromArray(a, which)
    BY <2>8, DetachStep, DeleteStep
  <2>9. CASE \E a \in Item, k \in Key : DetachItemFromObject(a, k) \/ DeleteItemFromObject(a, k)
    BY <2>9, DetachStep, DeleteStep
  <2>10. CASE \E a, x \in Item, k \in Key : ReplaceItemInObject(a, k, x)
    BY <2>10, ReplaceStep
  <2>11. CASE \E a, x \in Item, which \in Which : ReplaceItemInArray(a, which, x)
    BY <2>11, ReplaceStep
  <2>12. CASE \E x \in Item, recurse \in BOOLEAN : Duplicate(x, recurse)
    BY <2>12, DuplicateStep
  <2>13. CASE UNCHANGED vars
    BY <2>13 DEF vars, cells, strings, ForestInv
  <2> QED
    BY <2>1, <2>2, <2>3, <2>4, <2>5, <2>6, <2>7, <2>8, <2>9, <2>10, <2>11, <2>12, <2>13
       DEF Next, Operation
<1> QED
  BY <1>1, <1>2, PTL DEF Spec

\* Every operation of cJSON.h keeps the types of the pointers, the keys and the
\* flags, and what the caller holds is allocated.
THEOREM TypeCorrect ==
  Spec => []TypeOK
BY InvHolds, InvImplies, PTL

\* Whatever sequence of operations: next and prev undo each other, the first item
\* of a list has no prev, and an item the caller holds is in no list.
THEOREM ListsStayLinked ==
  Spec => []WellLinked
BY InvHolds, InvImplies, PTL

\* No two arrays or objects share a list, references excepted.
THEOREM ListsStayApart ==
  Spec => []NothingShared
BY InvHolds, InvImplies, PTL

\* A key that cJSON_Delete must not free is flagged wherever its item went.
THEOREM ConstantKeysFlagged ==
  Spec => []ConstIsFlagged
BY InvHolds, InvImplies, PTL

\* Deleting all the caller holds frees every allocated item, and each only once.
THEOREM DeletedOnce ==
  Spec => []OwnedOnce
BY InvHolds, InvImpliesOwnedOnce, PTL
-----------------------------------------------------------------------------
(***************************************************************************)
(* Lists as sequences.                                                     *)
(***************************************************************************)

\* Item i of s, or NULL past its ends.
Nth(s, i) == IF i \in 1 .. Len(s) THEN s[i] ELSE NULL

\* s is the list that next spells from n on.
Spells(nx, n, s) ==
  /\ s \in Seq(Item)
  /\ Nth(s, 1) = n
  /\ \A i \in 1 .. Len(s) : nx[s[i]] = Nth(s, i + 1)

\* L has the list of every item, which is empty unless it is allocated and no reference.
Spelled(nx, ch, lv, rf, L) ==
  /\ L \in [Item -> Seq(Item)]
  /\ \A a \in Item : Spells(nx, IF a \in lv \ rf THEN ch[a] ELSE NULL, L[a])

\* A set of numbers has a least element.
LEMMA Least ==
  ASSUME NEW T \in SUBSET Nat, T # {}
  PROVE  \E x \in T : \A y \in T : x <= y
<1> SUFFICES ASSUME \A x \in T : \E y \in T : y < x PROVE FALSE
  OBVIOUS
<1>0. PICK t \in T : TRUE
  OBVIOUS
<1> DEFINE A == {x \in 0 .. t : \E y \in T : y <= x}
           f == [x \in A |-> x - 1]
<1>1. t \in A /\ A \subseteq 0 .. t
  BY <1>0
<1>2. \A x \in A : x - 1 \in A /\ x - 1 # t
  <2> SUFFICES ASSUME NEW x \in A PROVE x - 1 \in A /\ x - 1 # t
    OBVIOUS
  <2>1. PICK y \in T : y <= x
    OBVIOUS
  <2>2. PICK z \in T : z < y
    OBVIOUS
  <2> QED
    BY <2>1, <2>2
<1>3. IsFiniteSet(0 .. t)
  BY FS_Interval
<1>4. IsFiniteSet(A)
  BY ONLY <1>1, <1>3, FS_Subset
<1>5. /\ f \in [A -> A]
      /\ \A k \in A : f[k] # t
      /\ \A j, k \in A : f[j] = f[k] => j = k
  BY <1>1, <1>2
<1> HIDE DEF A, f
<1> QED
  BY <1>1, <1>4, <1>5, OntoItself

\* Two sequences with the same items.
LEMMA SameNth ==
  ASSUME NEW s \in Seq(Item), NEW t \in Seq(Item),
         \A i \in 1 .. Len(s) + 1 : Nth(s, i) = Nth(t, i)
  PROVE  s = t
<1>1. \A i \in 1 .. Len(s) : i \in 1 .. Len(t) /\ s[i] = t[i]
  <2> SUFFICES ASSUME NEW i \in 1 .. Len(s) PROVE i \in 1 .. Len(t) /\ s[i] = t[i]
    OBVIOUS
  <2>1. s[i] \in Item /\ s[i] # NULL
    BY ItemsAssumption
  <2>2. Nth(s, i) = Nth(t, i)
    OBVIOUS
  <2> QED
    BY <2>1, <2>2 DEF Nth
<1>2. Len(t) <= Len(s)
  <2> SUFFICES ASSUME Len(s) + 1 \in 1 .. Len(t) PROVE FALSE
    OBVIOUS
  <2>1. t[Len(s) + 1] # NULL
    BY ItemsAssumption
  <2>2. Nth(s, Len(s) + 1) = Nth(t, Len(s) + 1)
    OBVIOUS
  <2> QED
    BY <2>1, <2>2 DEF Nth
<1>3. Len(s) <= Len(t)
  <2> SUFFICES ASSUME Len(s) > 0 PROVE Len(s) <= Len(t)
    OBVIOUS
  <2> QED
    BY <1>1
<1> QED
  BY <1>1, <1>2, <1>3

\* From an item on there is one list only.
LEMMA SpellsOne ==
  ASSUME NEW nx, NEW n, NEW s, NEW t, Spells(nx, n, s), Spells(nx, n, t)
  PROVE  s = t
<1> DEFINE T == {i \in 1 .. Len(s) + 1 : Nth(s, i) # Nth(t, i)}
<1>t. s \in Seq(Item) /\ t \in Seq(Item) /\ Len(s) \in Nat /\ Len(t) \in Nat
  BY DEF Spells
<1>1. T = {}
  <2> SUFFICES ASSUME T # {} PROVE FALSE
    OBVIOUS
  <2>1. T \in SUBSET Nat
    BY <1>t
  <2>2. PICK i \in T : \A j \in T : i <= j
    BY <2>1, Least
  <2>3. i # 1
    BY <2>2 DEF Spells
  <2>4. i - 1 \in 1 .. Len(s) /\ i \in 1 .. Len(s) + 1
    BY <2>3, <1>t
  <2>5. Nth(s, i - 1) = Nth(t, i - 1)
    BY <2>2, <2>4, <1>t
  <2>6. s[i - 1] \in Item /\ s[i - 1] # NULL /\ Nth(s, i - 1) = s[i - 1]
    BY <2>4, <1>t, ItemsAssumption DEF Nth
  <2>7. i - 1 \in 1 .. Len(t) /\ t[i - 1] = s[i - 1]
    BY <2>5, <2>6 DEF Nth
  <2>8. nx[s[i - 1]] = Nth(s, i - 1 + 1) /\ nx[t[i - 1]] = Nth(t, i - 1 + 1)
    BY <2>4, <2>7 DEF Spells
  <2>9. i - 1 + 1 = i
    BY <2>4
  <2> QED
    BY <2>2, <2>7, <2>8, <2>9
<1>2. \A i \in 1 .. Len(s) + 1 : Nth(s, i) = Nth(t, i)
  BY <1>1
<1> QED
  BY <1>2, <1>t, SameNth

\* The empty list, and the list from the next item on.
LEMMA SpellsEnds ==
  ASSUME NEW nx, NEW n \in Pointer, NEW s, Spells(nx, n, s)
  PROVE  n = NULL <=> s = <<>>
<1>1. s \in Seq(Item) /\ Nth(s, 1) = n
  BY DEF Spells
<1>2. s # <<>> => 1 \in 1 .. Len(s) /\ s[1] \in Item
  BY <1>1
<1> QED
  BY <1>1, <1>2, ItemsAssumption DEF Nth

\* The list from the item before is longer by that item.
LEMMA SpellsOn ==
  ASSUME NEW nx, NEW n \in Item, NEW s, Spells(nx, nx[n], s)
  PROVE  Spells(nx, n, <<n>> \o s)
<1> DEFINE t == <<n>> \o s
<1>1. s \in Seq(Item) /\ Nth(s, 1) = nx[n] /\ \A i \in 1 .. Len(s) : nx[s[i]] = Nth(s, i + 1)
  BY DEF Spells
<1>2. /\ t \in Seq(Item) /\ Len(t) = Len(s) + 1 /\ t[1] = n
      /\ \A i \in 2 .. Len(t) : t[i] = s[i - 1]
  BY <1>1
<1> HIDE DEF t
<1>3. \A i \in 1 .. Len(t) : Nth(t, i + 1) = Nth(s, i)
  <2> SUFFICES ASSUME NEW i \in 1 .. Len(t) PROVE Nth(t, i + 1) = Nth(s, i)
    OBVIOUS
  <2>1. i + 1 \in 1 .. Len(t) <=> i \in 1 .. Len(s)
    BY <1>1, <1>2
  <2>2. i \in 1 .. Len(s) => i + 1 \in 2 .. Len(t) /\ i + 1 - 1 = i
    BY <1>1, <1>2
  <2>3. i \in 1 .. Len(s) => t[i + 1] = s[i]
    BY <2>2, <1>2
  <2> QED
    BY <2>1, <2>3 DEF Nth
<1>4. Nth(t, 1) = n
  BY <1>1, <1>2 DEF Nth
<1>5. ASSUME NEW i \in 1 .. Len(t)
      PROVE  nx[t[i]] = Nth(t, i + 1)
  <2>1. CASE i = 1
    BY <2>1, <1>1, <1>2, <1>3
  <2>2. CASE i # 1
    <3>1. i - 1 \in 1 .. Len(s) /\ i - 1 + 1 = i /\ t[i] = s[i - 1]
      BY <2>2, <1>1, <1>2
    <3>2. nx[s[i - 1]] = Nth(s, i - 1 + 1)
      BY <3>1, <1>1
    <3> QED
      BY <3>1, <3>2, <1>3
  <2> QED
    BY <2>1, <2>2
<1> QED
  BY <1>2, <1>4, <1>5 DEF Spells, t

\* The list from an item of a list on is the rest of that.
LEMMA SpellsRest ==
  ASSUME NEW nx, NEW n, NEW s, Spells(nx, n, s), NEW i \in 1 .. Len(s)
  PROVE  Spells(nx, s[i], SubSeq(s, i, Len(s)))
<1> DEFINE t == SubSeq(s, i, Len(s))
<1>1. s \in Seq(Item) /\ Len(s) \in Nat /\ \A j \in 1 .. Len(s) : nx[s[j]] = Nth(s, j + 1)
  BY DEF Spells
<1>2. /\ t \in Seq(Item) /\ Len(t) = Len(s) - i + 1
      /\ \A j \in 1 .. Len(t) : t[j] = s[i + j - 1]
  BY <1>1
<1> HIDE DEF t
<1>3. \A j \in 1 .. Len(t) + 1 : Nth(t, j) = Nth(s, i + j - 1)
  BY <1>1, <1>2 DEF Nth
<1>4. Nth(t, 1) = s[i]
  BY <1>1, <1>2, <1>3 DEF Nth
<1>5. ASSUME NEW j \in 1 .. Len(t) PROVE nx[t[j]] = Nth(t, j + 1)
  <2>1. i + j - 1 \in 1 .. Len(s) /\ t[j] = s[i + j - 1] /\ i + j - 1 + 1 = i + (j + 1) - 1
    BY <1>1, <1>2
  <2> QED
    BY <2>1, <1>1, <1>2, <1>3
<1> QED
  BY <1>2, <1>4, <1>5 DEF Spells, t

-----------------------------------------------------------------------------
(***************************************************************************)
(* The lists of a forest as sequences.                                     *)
(***************************************************************************)

\* What Spelled says of one list.
LEMMA SpelledList ==
  ASSUME NEW nx, NEW ch, NEW lv, NEW rf, NEW L, Spelled(nx, ch, lv, rf, L), NEW a \in Item
  PROVE  /\ L[a] \in Seq(Item) /\ Len(L[a]) \in Nat /\ DOMAIN L[a] = 1 .. Len(L[a])
         /\ \A i \in 1 .. Len(L[a]) : L[a][i] \in Item /\ nx[L[a][i]] = Nth(L[a], i + 1)
         /\ a \notin lv \ rf => L[a] = <<>>
         /\ a \in lv \ rf => Nth(L[a], 1) = ch[a]
<1>1. Spells(nx, IF a \in lv \ rf THEN ch[a] ELSE NULL, L[a])
  BY DEF Spelled
<1>2. L[a] \in Seq(Item)
  BY DEF Spelled
<1>3. a \notin lv \ rf => L[a] = <<>>
  <2> SUFFICES ASSUME a \notin lv \ rf PROVE L[a] = <<>>
    OBVIOUS
  <2>1. Spells(nx, NULL, L[a])
    BY <1>1
  <2> QED
    BY <2>1, SpellsEnds DEF Pointer
<1> QED
  BY <1>1, <1>2, <1>3 DEF Spells

\* The items of the lists are allocated, and none that the caller holds.
LEMMA SpelledLive ==
  ASSUME NEW nx, NEW pv, NEW ch, NEW lv, NEW rf, NEW hd, Forest(nx, pv, ch, lv, rf, hd),
         NEW L, Spelled(nx, ch, lv, rf, L), NEW a \in Item
  PROVE  \A i \in 1 .. Len(L[a]) :
           /\ a \in lv \ rf
           /\ L[a][i] \in lv \ hd
           /\ pv[L[a][i]] = Nth(L[a], i - 1)
           /\ nx[L[a][i]] = Nth(L[a], i + 1)
<1> SUFFICES ASSUME NEW i \in 1 .. Len(L[a])
             PROVE  /\ a \in lv \ rf
                    /\ L[a][i] \in lv \ hd
                    /\ pv[L[a][i]] = Nth(L[a], i - 1)
                    /\ nx[L[a][i]] = Nth(L[a], i + 1)
  OBVIOUS
<1>1. /\ L[a] \in Seq(Item) /\ Len(L[a]) \in Nat
      /\ \A j \in 1 .. Len(L[a]) : L[a][j] \in Item /\ nx[L[a][j]] = Nth(L[a], j + 1)
      /\ a \notin lv \ rf => L[a] = <<>>
      /\ a \in lv \ rf => Nth(L[a], 1) = ch[a]
  BY SpelledList
<1>l. Linked(nx, pv, ch, lv, rf, hd)
  BY DEF Forest
<1>2. a \in lv \ rf
  BY <1>1
<1>3. CASE i = 1
  <2>1. ch[a] = L[a][1] /\ ch[a] # NULL
    BY <1>1, <1>2, <1>3, ItemsAssumption DEF Nth
  <2>2. Nth(L[a], i - 1) = NULL
    BY <1>3, <1>1 DEF Nth
  <2> QED
    BY <2>1, <2>2, <1>1, <1>2, <1>3, <1>l DEF Linked
<1>4. CASE i # 1
  <2>1. i - 1 \in 1 .. Len(L[a]) /\ i - 1 + 1 = i /\ Nth(L[a], i) = L[a][i]
    BY <1>4, <1>1 DEF Nth
  <2>2. nx[L[a][i - 1]] = L[a][i] /\ L[a][i - 1] \in Item /\ L[a][i] # NULL /\ L[a][i - 1] # NULL
    BY <2>1, <1>1, ItemsAssumption
  <2>3. L[a][i] \in lv /\ pv[L[a][i]] = L[a][i - 1]
    BY <2>2, <1>l DEF Linked
  <2>4. L[a][i] \notin hd
    BY <2>2, <2>3, <1>l DEF Linked
  <2>5. Nth(L[a], i - 1) = L[a][i - 1]
    BY <2>1 DEF Nth
  <2> QED
    BY <2>3, <2>4, <2>5, <1>1, <1>2
<1> QED
  BY <1>3, <1>4

\* No item is in two places.
Once(L) ==
  \A a, b \in Item : \A i \in 1 .. Len(L[a]), j \in 1 .. Len(L[b]) :
    L[a][i] = L[b][j] => a = b /\ i = j

LEMMA SpelledOnce ==
  ASSUME NEW nx, NEW pv, NEW ch, NEW lv, NEW rf, NEW hd, Forest(nx, pv, ch, lv, rf, hd),
         NEW L, Spelled(nx, ch, lv, rf, L)
  PROVE  Once(L)
<1> DEFINE Twice(i) == \E a, b \in Item : \E j \in 1 .. Len(L[b]) :
                         /\ i \in 1 .. Len(L[a]) /\ L[a][i] = L[b][j]
                         /\ ~(a = b /\ i = j)
           T == {i \in Nat : Twice(i)}
<1>l. Linked(nx, pv, ch, lv, rf, hd)
  BY DEF Forest
<1>1. \A a \in Item : Len(L[a]) \in Nat
  BY SpelledList
<1>2. T = {}
  <2> SUFFICES ASSUME T # {} PROVE FALSE
    OBVIOUS
  <2>1. PICK i \in T : \A k \in T : i <= k
    BY Least
  <2>2. PICK a \in Item, b \in Item :
          \E j \in 1 .. Len(L[b]) :
             /\ i \in 1 .. Len(L[a]) /\ L[a][i] = L[b][j]
             /\ ~(a = b /\ i = j)
    BY <2>1
  <2>3. PICK j \in 1 .. Len(L[b]) :
             /\ i \in 1 .. Len(L[a]) /\ L[a][i] = L[b][j]
             /\ ~(a = b /\ i = j)
    BY <2>2
  <2>n. i \in Nat
    BY <2>1
  <2> HIDE DEF T, Twice
  <2>a. a \in lv \ rf /\ pv[L[a][i]] = Nth(L[a], i - 1)
    BY <2>3, SpelledLive
  <2>b. b \in lv \ rf /\ pv[L[b][j]] = Nth(L[b], j - 1)
    BY <2>3, SpelledLive
  <2>4. /\ a \in lv \ rf /\ b \in lv \ rf /\ Nth(L[a], i - 1) = Nth(L[b], j - 1)
    BY <2>3, <2>a, <2>b
  <2>5. Nth(L[a], 1) = ch[a] /\ Nth(L[b], 1) = ch[b]
    BY <2>4, SpelledList
  <2>i. /\ \A k \in 1 .. Len(L[a]) : L[a][k] # NULL
        /\ \A k \in 1 .. Len(L[b]) : L[b][k] # NULL
    BY SpelledList, ItemsAssumption
  <2>6. CASE i = 1
    <3>1. Nth(L[a], i - 1) = NULL
      BY <2>6, <1>1 DEF Nth
    <3>2. j = 1
      <4> SUFFICES ASSUME j # 1 PROVE FALSE
        OBVIOUS
      <4>1. j - 1 \in 1 .. Len(L[b])
        BY <1>1
      <4> QED
        BY <4>1, <3>1, <2>4, <2>i DEF Nth
    <3>3. ch[a] = ch[b] /\ ch[a] # NULL
      BY <2>3, <2>5, <2>6, <3>2, <2>i DEF Nth
    <3> QED
      BY <3>2, <3>3, <2>3, <2>4, <2>6, <1>l DEF Linked
  <2>7. CASE i # 1
    <3>1. i - 1 \in 1 .. Len(L[a]) /\ i - 1 \in Nat
      BY <2>7, <2>3, <2>n, <1>1
    <3>2. Nth(L[a], i - 1) = L[a][i - 1] /\ L[a][i - 1] # NULL
      BY <3>1, <2>i DEF Nth
    <3>3. j - 1 \in 1 .. Len(L[b]) /\ L[b][j - 1] = L[a][i - 1]
      BY <3>2, <2>4 DEF Nth
    <3>4. a = b => i - 1 # j - 1
      BY <2>3, <3>1, <3>3
    <3>5. i - 1 \in T
      BY <3>1, <3>3, <3>4 DEF T, Twice
    <3>6. i <= i - 1
      BY <3>5, <2>1
    <3> QED
      BY <3>6, <2>n
  <2> QED
    BY <2>6, <2>7
<1>3. \A i \in Nat : ~Twice(i)
  BY <1>2
<1> HIDE DEF T
<1>4. ASSUME NEW a \in Item, NEW b \in Item, NEW i \in 1 .. Len(L[a]), NEW j \in 1 .. Len(L[b]),
             L[a][i] = L[b][j]
      PROVE  a = b /\ i = j
  <2>1. i \in Nat /\ ~Twice(i)
    BY <1>1, <1>3
  <2> QED
    BY <2>1, <1>4
<1> QED
  BY <1>4 DEF Once

\* Every item that is allocated is in a list, or the caller holds it.
LEMMA SpelledAll ==
  ASSUME NEW nx, NEW pv, NEW ch, NEW lv, NEW rf, NEW hd, Forest(nx, pv, ch, lv, rf, hd),
         NEW L, Spelled(nx, ch, lv, rf, L), NEW n \in lv \ hd
  PROVE  \E a \in Item : \E i \in 1 .. Len(L[a]) : n = L[a][i]
<1> DEFINE In(k) == \E a \in Item : \E i \in 1 .. Len(L[a]) : k = L[a][i]
           S == {k \in lv : k \in hd \/ In(k)}
<1>l. Linked(nx, pv, ch, lv, rf, hd)
  BY DEF Forest
<1>t. lv \subseteq Item /\ hd \subseteq lv /\ nx \in [Item -> Pointer] /\ NULL \notin Item
  BY <1>l, ItemsAssumption DEF Linked
<1>1. ASSUME NEW k \in S, nx[k] # NULL
      PROVE  nx[k] \in S
  <2>1. k \notin hd
    BY <1>1, <1>l DEF Linked
  <2>2. PICK a \in Item : \E i \in 1 .. Len(L[a]) : k = L[a][i]
    BY <2>1
  <2>3. PICK i \in 1 .. Len(L[a]) : k = L[a][i]
    BY <2>2
  <2>4. Nth(L[a], i + 1) = nx[k]
    BY <2>3, SpelledList
  <2>5. i + 1 \in 1 .. Len(L[a]) /\ nx[k] = L[a][i + 1]
    BY <2>4, <1>1 DEF Nth
  <2>6. nx[k] \in lv
    BY <1>1, <1>t, <1>l DEF Linked
  <2> QED
    BY <2>5, <2>6
<1>2. ASSUME NEW k \in S, k \notin rf, ch[k] # NULL
      PROVE  ch[k] \in S
  <2>1. k \in lv \ rf /\ k \in Item
    BY <1>2, <1>t
  <2>2. Nth(L[k], 1) = ch[k] /\ ch[k] \in lv
    BY <2>1, <1>2, <1>l, SpelledList DEF Linked
  <2>3. 1 \in 1 .. Len(L[k]) /\ ch[k] = L[k][1]
    BY <2>2, <1>2 DEF Nth
  <2> QED
    BY <2>1, <2>2, <2>3
<1>3. S \in SUBSET Item /\ hd \subseteq S
  BY <1>t
<1> HIDE DEF S
<1>4. Closed(nx, ch, rf, S)
  BY <1>1, <1>2 DEF Closed
<1>5. lv \subseteq S
  BY <1>3, <1>4 DEF Forest, Owned
<1> QED
  BY <1>5 DEF S

\* The tree of an item in ItemTree, without ToSet.
Under(L, S) == \A k \in S : \A i \in 1 .. Len(L[k]) : L[k][i] \in S

LEMMA TreeIs ==
  ASSUME NEW L \in [Item -> Seq(Item)], NEW c \in Item
  PROVE  /\ c \in Tree!Tree(L, c)
         /\ Tree!Tree(L, c) \subseteq Item
         /\ Under(L, Tree!Tree(L, c))
         /\ \A S \in SUBSET Item : c \in S /\ Under(L, S) => Tree!Tree(L, c) \subseteq S
<1> DEFINE T == Tree!Tree(L, c)
<1>1. ASSUME NEW S \in SUBSET Item
      PROVE  Under(L, S) <=> \A k \in S : Tree!ToSet(L[k]) \subseteq S
  <2>1. \A k \in S : L[k] \in Seq(Item) /\ DOMAIN L[k] = 1 .. Len(L[k])
    OBVIOUS
  <2> QED
    BY <2>1 DEF Under, Tree!ToSet
<1>2. T = {n \in Item : \A S \in SUBSET Item : c \in S /\ Under(L, S) => n \in S}
  BY <1>1 DEF Tree!Tree
<1> HIDE DEF T
<1>3. Under(L, T)
  <2> SUFFICES ASSUME NEW k \in T, NEW i \in 1 .. Len(L[k]) PROVE L[k][i] \in T
    BY DEF Under
  <2>1. L[k][i] \in Item
    BY <1>2
  <2>2. ASSUME NEW S \in SUBSET Item, c \in S, Under(L, S) PROVE L[k][i] \in S
    BY <2>2, <1>2 DEF Under
  <2> QED
    BY <2>1, <2>2, <1>2
<1> QED
  BY <1>2, <1>3 DEF T

\* Whatever is in the tree of c, except c, is in the list of something there.
LEMMA TreeHasOwner ==
  ASSUME NEW L \in [Item -> Seq(Item)], NEW c \in Item, NEW n \in Tree!Tree(L, c), n # c
  PROVE  \E k \in Tree!Tree(L, c) : \E i \in 1 .. Len(L[k]) : n = L[k][i]
<1> DEFINE T == Tree!Tree(L, c)
<1> SUFFICES ASSUME \A k \in T : \A i \in 1 .. Len(L[k]) : n # L[k][i] PROVE FALSE
  OBVIOUS
<1>1. c \in T /\ T \subseteq Item /\ Under(L, T)
  BY TreeIs
<1> HIDE DEF T
<1>2. Under(L, T \ {n}) /\ c \in T \ {n} /\ T \ {n} \in SUBSET Item
  BY <1>1 DEF Under
<1>3. T \subseteq T \ {n}
  BY <1>2, TreeIs DEF T
<1> QED
  BY <1>3 DEF T

\* A list that starts in a set which is closed under next stays in it.
LEMMA ListInside ==
  ASSUME NEW nx, NEW n, NEW s, Spells(nx, n, s),
         NEW S, \A k \in S : nx[k] \in S \cup {NULL}, n \in S \cup {NULL}
  PROVE  \A i \in 1 .. Len(s) : s[i] \in S
<1> DEFINE T == {i \in 1 .. Len(s) : s[i] \notin S}
<1>1. /\ Len(s) \in Nat /\ Nth(s, 1) = n
      /\ \A j \in 1 .. Len(s) : s[j] \in Item /\ s[j] # NULL /\ nx[s[j]] = Nth(s, j + 1)
  BY ItemsAssumption DEF Spells
<1>2. T = {}
  <2> SUFFICES ASSUME T # {} PROVE FALSE
    OBVIOUS
  <2>1. T \in SUBSET Nat
    BY <1>1
  <2>2. PICK i \in T : \A j \in T : i <= j
    BY <2>1, Least
  <2>3. i \in 1 .. Len(s) /\ s[i] \notin S /\ s[i] # NULL /\ i \in Nat
    BY <1>1
  <2>4. CASE i = 1
    BY <2>3, <2>4, <1>1 DEF Nth
  <2>5. CASE i # 1
    <3>1. i - 1 \in 1 .. Len(s) /\ i - 1 + 1 = i
      BY <2>3, <2>5, <1>1
    <3>2. s[i - 1] \in S
      <4>1. i - 1 \notin T
        BY <2>2, <2>3
      <4> QED
        BY <4>1, <3>1
    <3>3. nx[s[i - 1]] = s[i]
      BY <3>1, <2>3, <1>1 DEF Nth
    <3> QED
      BY <3>2, <3>3, <2>3
  <2> QED
    BY <2>4, <2>5
<1> QED
  BY <1>2

\* A set that is closed under the pointers is closed under the lists.
LEMMA ClosedUnder ==
  ASSUME NEW nx, NEW ch, NEW lv, NEW rf, NEW L, Spelled(nx, ch, lv, rf, L),
         NEW S \in SUBSET Item, Closed(nx, ch, rf, S)
  PROVE  Under(L, S)
<1> SUFFICES ASSUME NEW k \in S PROVE \A i \in 1 .. Len(L[k]) : L[k][i] \in S
  BY DEF Under
<1>1. Spells(nx, IF k \in lv \ rf THEN ch[k] ELSE NULL, L[k])
  BY DEF Spelled
<1>2. \A m \in S : nx[m] \in S \cup {NULL}
  BY DEF Closed
<1>3. (IF k \in lv \ rf THEN ch[k] ELSE NULL) \in S \cup {NULL}
  BY DEF Closed
<1> QED
  BY <1>1, <1>2, <1>3, ListInside

\* What is below an item that the caller holds is its tree.
LEMMA BelowIsTree ==
  ASSUME NEW nx, NEW pv, NEW ch, NEW lv, NEW rf, NEW hd, Forest(nx, pv, ch, lv, rf, hd),
         NEW L, Spelled(nx, ch, lv, rf, L), NEW c \in hd
  PROVE  Below(nx, ch, rf, c) = Tree!Tree(L, c)
<1> DEFINE B == Below(nx, ch, rf, c)
           T == Tree!Tree(L, c)
<1>l. Linked(nx, pv, ch, lv, rf, hd)
  BY DEF Forest
<1>t. /\ nx \in [Item -> Pointer] /\ ch \in [Item -> Pointer] /\ c \in Item
      /\ L \in [Item -> Seq(Item)] /\ nx[c] = NULL
  BY <1>l DEF Linked, Spelled
<1>b. /\ c \in B /\ B \subseteq Item /\ Closed(nx, ch, rf, B)
      /\ \A S \in SUBSET Item : c \in S /\ Closed(nx, ch, rf, S) => B \subseteq S
  BY <1>t, BelowIsClosed
<1>u. /\ c \in T /\ T \subseteq Item /\ Under(L, T)
      /\ \A S \in SUBSET Item : c \in S /\ Under(L, S) => T \subseteq S
  BY <1>t, TreeIs
<1>o. \A n \in T \ {c} : \E k \in T : \E i \in 1 .. Len(L[k]) : n = L[k][i]
  BY <1>t, TreeHasOwner
<1> HIDE DEF B, T
<1>1. T \subseteq B
  <2>1. Under(L, B)
    BY <1>b, ClosedUnder
  <2> QED
    BY <2>1, <1>b, <1>u
<1>2. ASSUME NEW n \in T
      PROVE  nx[n] \in T \cup {NULL}
  <2>1. CASE n = c
    BY <2>1, <1>t
  <2>2. CASE n # c
    <3>1. PICK k \in T : \E i \in 1 .. Len(L[k]) : n = L[k][i]
      BY <2>2, <1>o
    <3>2. PICK i \in 1 .. Len(L[k]) : n = L[k][i]
      BY <3>1
    <3>3. nx[n] = Nth(L[k], i + 1)
      BY <3>2, <1>u, SpelledList
    <3> QED
      BY <3>3, <1>u DEF Nth, Under
  <2> QED
    BY <2>1, <2>2
<1>3. ASSUME NEW n \in T, n \notin rf
      PROVE  ch[n] \in T \cup {NULL}
  <2>1. CASE n \in lv
    <3>1. Nth(L[n], 1) = ch[n]
      BY <2>1, <1>3, <1>u, SpelledList
    <3> QED
      BY <3>1, <1>u DEF Nth, Under
  <2>2. CASE n \notin lv
    BY <2>2, <1>l, <1>u DEF Linked
  <2> QED
    BY <2>1, <2>2
<1>4. Closed(nx, ch, rf, T)
  BY <1>2, <1>3 DEF Closed
<1>5. B \subseteq T
  BY <1>4, <1>u, <1>b
<1> QED
  BY <1>1, <1>5 DEF B, T

-----------------------------------------------------------------------------
(***************************************************************************)
(* The lists of ImplementsItemTree are these sequences.                    *)
(***************************************************************************)

\* From every item on there is a list.
LEMMA SpellsSome ==
  ASSUME NEW nx, NEW pv, NEW ch, NEW lv, NEW rf, NEW hd, Forest(nx, pv, ch, lv, rf, hd),
         NEW L, Spelled(nx, ch, lv, rf, L), NEW n \in Pointer
  PROVE  \E s : Spells(nx, n, s)
<1>l. Linked(nx, pv, ch, lv, rf, hd)
  BY DEF Forest
<1>1. Spells(nx, NULL, <<>>)
  BY DEF Spells, Nth
<1>2. CASE n = NULL
  BY <1>1, <1>2
<1>3. CASE n \in Item /\ nx[n] = NULL
  <2>1. Spells(nx, n, <<n>> \o <<>>)
    BY <1>1, <1>3, SpellsOn
  <2> QED
    BY <2>1
<1>4. CASE n \in Item /\ nx[n] # NULL
  <2>1. n \in lv \ hd
    BY <1>4, <1>l DEF Linked
  <2>2. PICK a \in Item : \E i \in 1 .. Len(L[a]) : n = L[a][i]
    BY <2>1, SpelledAll
  <2>3. PICK i \in 1 .. Len(L[a]) : n = L[a][i]
    BY <2>2
  <2>4. Spells(nx, IF a \in lv \ rf THEN ch[a] ELSE NULL, L[a])
    BY DEF Spelled
  <2>5. Spells(nx, n, SubSeq(L[a], i, Len(L[a])))
    BY <2>3, <2>4, SpellsRest
  <2> QED
    BY <2>5
<1> QED
  BY <1>2, <1>3, <1>4 DEF Pointer

\* f follows next, as from does.
Follows(nx, f) == f = [n \in Pointer |-> IF n = NULL THEN <<>> ELSE <<n>> \o f[nx[n]]]

\* A function that follows next has these lists as its values.
LEMMA FollowsNext ==
  ASSUME NEW nx \in [Item -> Pointer],
         NEW f, Follows(nx, f),
         NEW n \in Pointer, NEW s, Spells(nx, n, s)
  PROVE  f[n] = s
<1>1. /\ s \in Seq(Item) /\ Len(s) \in Nat /\ Nth(s, 1) = n
      /\ \A i \in 1 .. Len(s) : s[i] \in Item /\ s[i] # NULL /\ nx[s[i]] = Nth(s, i + 1)
  BY ItemsAssumption DEF Spells
<1>f. /\ f[NULL] = <<>>
      /\ \A k \in Item : f[k] = <<k>> \o f[nx[k]]
  BY ItemsAssumption DEF Pointer, Follows
<1> DEFINE Rest(i) == f[Nth(s, i)] = SubSeq(s, i, Len(s))
           T == {d \in 0 .. Len(s) : ~Rest(Len(s) + 1 - d)}
<1>2. T = {}
  <2> SUFFICES ASSUME T # {} PROVE FALSE
    OBVIOUS
  <2>1. PICK d \in T : \A e \in T : d <= e
    <3>1. T \in SUBSET Nat
      BY <1>1
    <3> HIDE DEF T
    <3> QED
      BY <3>1, Least
  <2>2. d \in 0 .. Len(s) /\ ~Rest(Len(s) + 1 - d)
    BY <2>1
  <2>3. d # 0
    <3>1. Nth(s, Len(s) + 1) = NULL /\ SubSeq(s, Len(s) + 1, Len(s)) = <<>>
      BY <1>1 DEF Nth
    <3>2. Rest(Len(s) + 1)
      BY <3>1, <1>f
    <3> HIDE DEF Rest
    <3> QED
      BY <3>2, <2>2, <1>1
  <2> DEFINE i == Len(s) + 1 - d
  <2>4. i \in 1 .. Len(s) /\ d - 1 \in 0 .. Len(s) /\ Len(s) + 1 - (d - 1) = i + 1 /\ ~(d <= d - 1)
    BY <2>2, <2>3, <1>1
  <2>5. Rest(i + 1)
    <3>1. d - 1 \notin T
      BY <2>1, <2>4
    <3> HIDE DEF Rest
    <3> QED
      BY <3>1, <2>4
  <2>n. ~Rest(i)
    BY <2>2
  <2> HIDE DEF i, T
  <2>6. f[s[i]] = <<s[i]>> \o SubSeq(s, i + 1, Len(s))
    <3>1. f[s[i]] = <<s[i]>> \o f[nx[s[i]]]
      BY <2>4, <1>1, <1>f
    <3> QED
      BY <3>1, <2>4, <2>5, <1>1
  <2>7. Nth(s, i) = s[i]
    BY <2>4 DEF Nth
  <2>8. SubSeq(s, i, Len(s)) = <<s[i]>> \o SubSeq(s, i + 1, Len(s))
    BY <2>4, <1>1
  <2> QED
    BY <2>6, <2>7, <2>8, <2>n
<1>3. Rest(1)
  <2>1. Len(s) \in 0 .. Len(s) /\ Len(s) + 1 - Len(s) = 1
    BY <1>1
  <2>2. Len(s) \notin T
    BY <1>2
  <2> HIDE DEF Rest
  <2> QED
    BY <2>1, <2>2
<1>4. SubSeq(s, 1, Len(s)) = s
  BY <1>1
<1> QED
  BY <1>1, <1>3, <1>4

\* Such a function exists.
LEMMA FollowsExists ==
  ASSUME NEW nx, NEW pv, NEW ch, NEW lv, NEW rf, NEW hd, Forest(nx, pv, ch, lv, rf, hd),
         NEW L, Spelled(nx, ch, lv, rf, L)
  PROVE  \E f : Follows(nx, f)
<1>t. nx \in [Item -> Pointer]
  BY DEF Forest, Linked
<1> DEFINE f == [n \in Pointer |-> CHOOSE s : Spells(nx, n, s)]
<1>1. \A n \in Pointer : Spells(nx, n, f[n])
  <2> SUFFICES ASSUME NEW n \in Pointer PROVE Spells(nx, n, f[n])
    OBVIOUS
  <2>1. \E s : Spells(nx, n, s)
    BY SpellsSome
  <2> QED
    BY <2>1
<1>d. f = [n \in Pointer |-> f[n]]
  OBVIOUS
<1> HIDE DEF f
<1>2. ASSUME NEW n \in Pointer
      PROVE  f[n] = IF n = NULL THEN <<>> ELSE <<n>> \o f[nx[n]]
  <2>1. Spells(nx, n, f[n])
    BY <1>1
  <2>2. CASE n = NULL
    BY <2>1, <2>2, SpellsEnds
  <2>3. CASE n # NULL
    <3>1. n \in Item /\ nx[n] \in Pointer
      BY <2>3, <1>t DEF Pointer
    <3>2. Spells(nx, nx[n], f[nx[n]])
      BY <3>1, <1>1
    <3>3. Spells(nx, n, <<n>> \o f[nx[n]])
      BY <3>1, <3>2, SpellsOn
    <3> QED
      BY <2>1, <2>3, <3>3, SpellsOne
  <2> QED
    BY <2>2, <2>3
<1>3. f = [n \in Pointer |-> IF n = NULL THEN <<>> ELSE <<n>> \o f[nx[n]]]
  BY <1>d, <1>2
<1> QED
  BY <1>3 DEF Follows

\* Lists, of any pointers.
ListsOf(nx, ch, lv, rf) ==
  LET f == CHOOSE g : Follows(nx, g)
  IN  [a \in Item |-> IF a \in lv \ rf THEN f[ch[a]] ELSE <<>>]

LEMMA ListsAre ==
  ASSUME NEW nx, NEW pv, NEW ch, NEW lv, NEW rf, NEW hd, Forest(nx, pv, ch, lv, rf, hd),
         NEW L, Spelled(nx, ch, lv, rf, L)
  PROVE  ListsOf(nx, ch, lv, rf) = L
<1>t. nx \in [Item -> Pointer] /\ ch \in [Item -> Pointer] /\ L \in [Item -> Seq(Item)]
  BY DEF Forest, Linked, Spelled
<1> DEFINE g == CHOOSE f : Follows(nx, f)
<1>1. Follows(nx, g)
  BY FollowsExists
<1> HIDE DEF g
<1>2. ASSUME NEW a \in Item
      PROVE  (IF a \in lv \ rf THEN g[ch[a]] ELSE <<>>) = L[a]
  <2>1. Spells(nx, IF a \in lv \ rf THEN ch[a] ELSE NULL, L[a])
    BY DEF Spelled
  <2>2. CASE a \in lv \ rf
    <3>1. Spells(nx, ch[a], L[a]) /\ ch[a] \in Pointer
      BY <2>1, <2>2, <1>t
    <3>2. g[ch[a]] = L[a]
      BY <3>1, <1>1, <1>t, FollowsNext
    <3> QED
      BY <3>2, <2>2
  <2>3. CASE a \notin lv \ rf
    BY <2>3, SpelledList
  <2> QED
    BY <2>2, <2>3
<1>3. ListsOf(nx, ch, lv, rf) = [a \in Item |-> IF a \in lv \ rf THEN g[ch[a]] ELSE <<>>]
  BY DEF ListsOf, g
<1> QED
  BY <1>2, <1>3, <1>t

LEMMA ListsOfMem ==
  /\ Lists = ListsOf(mem.next, mem.child, live, is_ref)
  /\ Lists' = ListsOf(mem'.next, mem'.child, live', is_ref')
BY DEF Lists, ListsOf, from, Follows

-----------------------------------------------------------------------------
(***************************************************************************)
(* What changing pointers does to the lists.                               *)
(***************************************************************************)

\* A list whose items keep their next is the list it was.
LEMMA SpellsKept ==
  ASSUME NEW nx, NEW nx2, NEW n, NEW s, Spells(nx, n, s),
         \A i \in 1 .. Len(s) : nx2[s[i]] = nx[s[i]]
  PROVE  Spells(nx2, n, s)
BY DEF Spells

\* The lists of all items but a are as they were.
OthersKept(nx, ch, nx2, ch2, L, a) ==
  \A b \in Item \ {a} : /\ ch2[b] = ch[b]
                        /\ \A i \in 1 .. Len(L[b]) : nx2[L[b][i]] = nx[L[b][i]]

\* Then it is enough to look at the list of a.
LEMMA OneChanges ==
  ASSUME NEW nx, NEW ch, NEW lv, NEW rf, NEW L, Spelled(nx, ch, lv, rf, L), NEW a \in lv \ rf, a \in Item,
         NEW nx2, NEW ch2, NEW t, Spells(nx2, ch2[a], t),
         OthersKept(nx, ch, nx2, ch2, L, a)
  PROVE  Spelled(nx2, ch2, lv, rf, [L EXCEPT ![a] = t])
<1> DEFINE L2 == [L EXCEPT ![a] = t]
<1>1. /\ L2 \in [Item -> Seq(Item)]
      /\ \A b \in Item : L2[b] = IF b = a THEN t ELSE L[b]
  BY DEF Spelled, Spells
<1> HIDE DEF L2
<1>2. ASSUME NEW b \in Item
      PROVE  Spells(nx2, IF b \in lv \ rf THEN ch2[b] ELSE NULL, L2[b])
  <2>1. CASE b = a
    BY <2>1, <1>1
  <2>2. CASE b # a
    <3>1. Spells(nx, IF b \in lv \ rf THEN ch[b] ELSE NULL, L[b])
      BY DEF Spelled
    <3>2. ch2[b] = ch[b] /\ \A i \in 1 .. Len(L[b]) : nx2[L[b][i]] = nx[L[b][i]]
      BY <2>2 DEF OthersKept
    <3>3. Spells(nx2, IF b \in lv \ rf THEN ch[b] ELSE NULL, L[b])
      BY <3>1, <3>2, SpellsKept
    <3> QED
      BY <3>2, <3>3, <2>2, <1>1
  <2> QED
    BY <2>1, <2>2
<1> QED
  BY <1>1, <1>2 DEF Spelled, L2

\* InsertAt and RemoveAt item by item.
Inserted(s, i, x, t) ==
  /\ t \in Seq(Item) /\ Len(t) = Len(s) + 1
  /\ \A k \in 1 .. Len(s) + 1 : t[k] = IF k < i THEN s[k] ELSE IF k = i THEN x ELSE s[k - 1]

LEMMA InsertAtIs ==
  ASSUME NEW s \in Seq(Item), NEW x \in Item, NEW i \in 1 .. Len(s) + 1
  PROVE  Inserted(s, i, x, Tree!InsertAt(s, i, x))
<1>1. Tree!InsertAt(s, i, x) = SubSeq(s, 1, i - 1) \o <<x>> \o SubSeq(s, i, Len(s))
  BY DEF Tree!InsertAt
<1> DEFINE p == SubSeq(s, 1, i - 1)
           q == SubSeq(s, i, Len(s))
<1>2. /\ p \in Seq(Item) /\ Len(p) = i - 1 /\ \A k \in 1 .. i - 1 : p[k] = s[k]
  OBVIOUS
<1>3. /\ q \in Seq(Item) /\ Len(q) = Len(s) - i + 1 /\ \A k \in 1 .. Len(s) - i + 1 : q[k] = s[i + k - 1]
  OBVIOUS
<1> HIDE DEF p, q
<1> DEFINE r == p \o <<x>>
<1>4. r \in Seq(Item) /\ Len(r) = i /\ r[i] = x /\ \A k \in 1 .. i - 1 : r[k] = s[k]
  BY <1>2
<1> HIDE DEF r
<1> DEFINE t == r \o q
<1>5. /\ t \in Seq(Item) /\ Len(t) = Len(s) + 1
      /\ \A k \in 1 .. i : t[k] = r[k]
      /\ \A k \in i + 1 .. Len(s) + 1 : t[k] = q[k - i]
  BY <1>3, <1>4
<1> HIDE DEF t
<1>6. \A k \in i + 1 .. Len(s) + 1 : t[k] = s[k - 1]
  <2> SUFFICES ASSUME NEW k \in i + 1 .. Len(s) + 1 PROVE t[k] = s[k - 1]
    OBVIOUS
  <2>1. k - i \in 1 .. Len(s) - i + 1 /\ i + (k - i) - 1 = k - 1
    OBVIOUS
  <2> QED
    BY <2>1, <1>3, <1>5
<1>7. \A k \in 1 .. Len(s) + 1 : t[k] = IF k < i THEN s[k] ELSE IF k = i THEN x ELSE s[k - 1]
  BY <1>4, <1>5, <1>6
<1>8. Inserted(s, i, x, t)
  BY <1>5, <1>7 DEF Inserted
<1>9. Tree!InsertAt(s, i, x) = t
  BY <1>1 DEF t, r, p, q
<1> QED
  BY <1>8, <1>9

LEMMA RemoveAtIs ==
  ASSUME NEW s \in Seq(Item), NEW i \in 1 .. Len(s)
  PROVE  /\ Tree!RemoveAt(s, i) \in Seq(Item)
         /\ Len(Tree!RemoveAt(s, i)) = Len(s) - 1
         /\ \A k \in 1 .. Len(s) - 1 :
              Tree!RemoveAt(s, i)[k] = IF k < i THEN s[k] ELSE s[k + 1]
<1>1. Tree!RemoveAt(s, i) = SubSeq(s, 1, i - 1) \o SubSeq(s, i + 1, Len(s))
  BY DEF Tree!RemoveAt
<1> DEFINE p == SubSeq(s, 1, i - 1)
           q == SubSeq(s, i + 1, Len(s))
<1>2. /\ p \in Seq(Item) /\ Len(p) = i - 1 /\ \A k \in 1 .. i - 1 : p[k] = s[k]
  OBVIOUS
<1>3. /\ q \in Seq(Item) /\ Len(q) = Len(s) - i /\ \A k \in 1 .. Len(s) - i : q[k] = s[i + k]
  OBVIOUS
<1> HIDE DEF p, q
<1> DEFINE t == p \o q
<1>4. Len(s) \in Nat
  OBVIOUS
<1>5. /\ t \in Seq(Item) /\ Len(t) = Len(s) - 1
      /\ \A k \in 1 .. i - 1 : t[k] = p[k]
      /\ \A k \in i .. Len(s) - 1 : t[k] = q[k - (i - 1)]
  <2>p. p \in Seq(Item) /\ q \in Seq(Item)
    BY <1>2, <1>3
  <2>0. t \in Seq(Item) /\ Len(t) = Len(p) + Len(q)
    BY ONLY <2>p
  <2>1. t \in Seq(Item) /\ Len(t) = Len(s) - 1
    BY <2>0, <1>2, <1>3, <1>4
  <2>2. \A k \in 1 .. Len(p) : t[k] = p[k]
    BY ONLY <2>p
  <2>3. \A k \in Len(p) + 1 .. Len(p) + Len(q) : t[k] = q[k - Len(p)]
    BY ONLY <2>p
  <2> QED
    BY <2>1, <2>2, <2>3, <1>2, <1>3
<1> HIDE DEF t
<1>6. \A k \in i .. Len(s) - 1 : t[k] = s[k + 1]
  <2> SUFFICES ASSUME NEW k \in i .. Len(s) - 1 PROVE t[k] = s[k + 1]
    OBVIOUS
  <2>1. k - (i - 1) \in 1 .. Len(s) - i /\ i + (k - (i - 1)) = k + 1
    OBVIOUS
  <2> QED
    BY <2>1, <1>3, <1>5
<1>7. \A k \in 1 .. Len(s) - 1 : t[k] = IF k < i THEN s[k] ELSE s[k + 1]
  BY <1>2, <1>5, <1>6
<1> QED
  BY <1>1, <1>5, <1>7 DEF t, p, q

\* x is in no list.
NotIn(L, x) == \A b \in Item : \A j \in 1 .. Len(L[b]) : L[b][j] # x

\* The pointers nx2 and ch2 when x goes to place i of the list s of a, ...
PutPointers(nx, ch, nx2, ch2, s, a, i, x) ==
  /\ \A n \in Item : nx2[n] = IF n = x THEN Nth(s, i)
                              ELSE IF n = Nth(s, i - 1) THEN x ELSE nx[n]
  /\ \A b \in Item : ch2[b] = IF b = a /\ i = 1 THEN x ELSE ch[b]

\* ... when item i leaves it, ...
TakePointers(nx, ch, nx2, ch2, s, a, i) ==
  /\ \A n \in Item : nx2[n] = IF n = s[i] THEN NULL
                              ELSE IF n = Nth(s, i - 1) THEN Nth(s, i + 1) ELSE nx[n]
  /\ \A b \in Item : ch2[b] = IF b = a /\ i = 1 THEN Nth(s, 2) ELSE ch[b]

\* ... and when x takes its place.
SwapPointers(nx, ch, nx2, ch2, s, a, i, x) ==
  /\ \A n \in Item : nx2[n] = IF n = x THEN Nth(s, i + 1)
                              ELSE IF n = s[i] THEN NULL
                              ELSE IF n = Nth(s, i - 1) THEN x ELSE nx[n]
  /\ \A b \in Item : ch2[b] = IF b = a /\ i = 1 THEN x ELSE ch[b]

\* x, which is in no list, goes to place i of the list of a.
LEMMA PutSpelled ==
  ASSUME NEW nx, NEW ch, NEW lv, NEW rf, NEW L, Spelled(nx, ch, lv, rf, L), Once(L),
         NEW a \in lv \ rf, a \in Item, NEW x \in Item,
         NotIn(L, x),
         NEW i \in 1 .. Len(L[a]) + 1, NEW nx2, NEW ch2,
         PutPointers(nx, ch, nx2, ch2, L[a], a, i, x), lv \subseteq Item
  PROVE  Spelled(nx2, ch2, lv, rf, [L EXCEPT ![a] = Tree!InsertAt(@, i, x)])
<1> DEFINE s == L[a]
           t == Tree!InsertAt(s, i, x)
<1>1. /\ s \in Seq(Item) /\ Len(s) \in Nat
      /\ \A j \in 1 .. Len(s) : s[j] \in Item /\ s[j] # NULL /\ nx[s[j]] = Nth(s, j + 1)
      /\ Nth(s, 1) = ch[a]
  BY SpelledList, ItemsAssumption
<1>2. /\ t \in Seq(Item) /\ Len(t) = Len(s) + 1
      /\ \A k \in 1 .. Len(s) + 1 : t[k] = IF k < i THEN s[k] ELSE IF k = i THEN x ELSE s[k - 1]
  <2>1. i \in 1 .. Len(s) + 1
    OBVIOUS
  <2> HIDE DEF s, t
  <2>2. Inserted(s, i, x, t)
    BY <2>1, <1>1, InsertAtIs DEF t
  <2> QED
    BY <2>2 DEF Inserted
<1>o. /\ \A j, k \in 1 .. Len(s) : s[j] = s[k] => j = k
      /\ \A j \in 1 .. Len(s) : s[j] # x
      /\ \A b \in Item \ {a} : \A j \in 1 .. Len(L[b]), k \in 1 .. Len(s) : L[b][j] # s[k]
      /\ \A b \in Item \ {a} : \A j \in 1 .. Len(L[b]) : L[b][j] # x /\ L[b][j] \in Item /\ L[b][j] # NULL
  <2>1. /\ \A j, k \in 1 .. Len(s) : s[j] = s[k] => j = k
        /\ \A b \in Item \ {a} : \A j \in 1 .. Len(L[b]), k \in 1 .. Len(s) : L[b][j] # s[k]
    BY DEF Once
  <2>2. /\ \A j \in 1 .. Len(s) : s[j] # x
        /\ \A b \in Item \ {a} : \A j \in 1 .. Len(L[b]) : L[b][j] # x
    BY DEF NotIn
  <2>3. \A b \in Item \ {a} : \A j \in 1 .. Len(L[b]) : L[b][j] \in Item /\ L[b][j] # NULL
    BY SpelledList, ItemsAssumption
  <2> QED
    BY <2>1, <2>2, <2>3
<1>n. /\ i - 1 \in 1 .. Len(s) => Nth(s, i - 1) = s[i - 1]
      /\ i - 1 \notin 1 .. Len(s) => Nth(s, i - 1) = NULL
  BY DEF Nth
<1>p. /\ \A n \in Item : nx2[n] = IF n = x THEN Nth(s, i) ELSE IF n = Nth(s, i - 1) THEN x ELSE nx[n]
      /\ \A b \in Item : ch2[b] = IF b = a /\ i = 1 THEN x ELSE ch[b]
  BY DEF PutPointers
<1> HIDE DEF s, t
<1>3. Nth(t, 1) = ch2[a]
  <2>1. 1 \in 1 .. Len(t)
    BY <1>1, <1>2
  <2>2. CASE i = 1
    BY <2>1, <2>2, <1>1, <1>2, <1>p DEF Nth
  <2>3. CASE i # 1
    <3>1. 1 < i /\ 1 \in 1 .. Len(s)
      BY <2>3, <1>1 DEF s
    <3>2. t[1] = s[1] /\ ch2[a] = ch[a]
      BY <3>1, <2>1, <2>3, <1>2, <1>p
    <3> QED
      BY <3>1, <3>2, <2>1, <1>1 DEF Nth
  <2> QED
    BY <2>2, <2>3
<1>4. ASSUME NEW k \in 1 .. Len(t)
      PROVE  nx2[t[k]] = Nth(t, k + 1)
  <2>i. i \in 1 .. Len(s) + 1
    BY DEF s
  <2>1. CASE k < i - 1
    <3>1. k \in 1 .. Len(s) /\ k + 1 \in 1 .. Len(s) /\ k + 1 < i /\ k < i /\ i - 1 \in 1 .. Len(s) /\ k # i - 1
      BY <2>1, <2>i, <1>1, <1>2
    <3>2. t[k] = s[k] /\ t[k + 1] = s[k + 1] /\ k + 1 \in 1 .. Len(t)
      BY <3>1, <1>1, <1>2
    <3>3. nx2[s[k]] = nx[s[k]]
      BY <3>1, <1>1, <1>o, <1>n, <1>p
    <3> QED
      BY <3>1, <3>2, <3>3, <1>1 DEF Nth
  <2>2. CASE k = i - 1
    <3>1. k \in 1 .. Len(s) /\ k < i /\ i \in 1 .. Len(t) /\ k + 1 = i /\ i \in 1 .. Len(s) + 1
      BY <2>2, <2>i, <1>1, <1>2
    <3>2. t[k] = s[k] /\ t[i] = x
      BY <3>1, <1>1, <1>2
    <3>3. nx2[s[k]] = x
      BY <3>1, <2>2, <1>1, <1>o, <1>n, <1>p
    <3> QED
      BY <3>1, <3>2, <3>3 DEF Nth
  <2>3. CASE k = i
    <3>1. t[k] = x /\ nx2[x] = Nth(s, i)
      BY <2>3, <1>2, <1>p
    <3>2. i + 1 \in 1 .. Len(t) <=> i \in 1 .. Len(s)
      BY <2>i, <1>1, <1>2
    <3>3. i \in 1 .. Len(s) => t[i + 1] = s[i]
      <4> SUFFICES ASSUME i \in 1 .. Len(s) PROVE t[i + 1] = s[i]
        OBVIOUS
      <4>1. i + 1 \in 1 .. Len(s) + 1 /\ ~(i + 1 < i) /\ i + 1 # i /\ i + 1 - 1 = i
        BY <1>1
      <4> QED
        BY <4>1, <1>2
    <3> QED
      BY <2>3, <3>1, <3>2, <3>3 DEF Nth
  <2>4. CASE k > i
    <3>1. k - 1 \in 1 .. Len(s) /\ k - 1 # i - 1 /\ ~(k < i) /\ k # i /\ k - 1 + 1 = k /\ k \in 1 .. Len(s) + 1
      BY <2>4, <2>i, <1>1, <1>2
    <3>2. t[k] = s[k - 1]
      BY <3>1, <1>2
    <3>6. nx[s[k - 1]] = Nth(s, k - 1 + 1) /\ s[k - 1] \in Item /\ s[k - 1] # x /\ s[k - 1] # NULL
      BY <3>1, <1>1, <1>o
    <3>7. s[k - 1] # Nth(s, i - 1)
      BY <3>1, <3>6, <1>o, <1>n
    <3>3. nx2[s[k - 1]] = nx[s[k - 1]] /\ nx[s[k - 1]] = Nth(s, k)
      BY <3>1, <3>6, <3>7, <1>p
    <3>4. k + 1 \in 1 .. Len(t) <=> k \in 1 .. Len(s)
      BY <3>1, <1>1, <1>2
    <3>5. k \in 1 .. Len(s) => t[k + 1] = s[k]
      <4> SUFFICES ASSUME k \in 1 .. Len(s) PROVE t[k + 1] = s[k]
        OBVIOUS
      <4>1. k + 1 \in 1 .. Len(s) + 1 /\ ~(k + 1 < i) /\ k + 1 # i /\ k + 1 - 1 = k
        BY <2>4, <2>i, <1>1
      <4> QED
        BY <4>1, <1>2
    <3> QED
      BY <3>2, <3>3, <3>4, <3>5 DEF Nth
  <2> QED
    BY <2>1, <2>2, <2>3, <2>4, <2>i, <1>1, <1>2
<1>5. Spells(nx2, ch2[a], t)
  BY <1>2, <1>3, <1>4 DEF Spells
<1>6. \A b \in Item \ {a} : \A j \in 1 .. Len(L[b]) : nx2[L[b][j]] = nx[L[b][j]]
  BY <1>o, <1>n, <1>p
<1>7. OthersKept(nx, ch, nx2, ch2, L, a)
  BY <1>6, <1>p DEF OthersKept
<1>8. Spelled(nx2, ch2, lv, rf, [L EXCEPT ![a] = t])
  BY <1>5, <1>7, OneChanges
<1> QED
  BY <1>8 DEF s, t, Spelled

\* Item i of a leaves its list.
LEMMA TakeSpelled ==
  ASSUME NEW nx, NEW ch, NEW lv, NEW rf, NEW L, Spelled(nx, ch, lv, rf, L), Once(L),
         NEW a \in lv \ rf, a \in Item, NEW i \in 1 .. Len(L[a]), NEW nx2, NEW ch2,
         TakePointers(nx, ch, nx2, ch2, L[a], a, i), lv \subseteq Item
  PROVE  Spelled(nx2, ch2, lv, rf, [L EXCEPT ![a] = Tree!RemoveAt(@, i)])
<1> DEFINE s == L[a]
           t == Tree!RemoveAt(s, i)
<1>1. /\ s \in Seq(Item) /\ Len(s) \in Nat
      /\ \A j \in 1 .. Len(s) : s[j] \in Item /\ s[j] # NULL /\ nx[s[j]] = Nth(s, j + 1)
      /\ Nth(s, 1) = ch[a]
  BY SpelledList, ItemsAssumption
<1>2. /\ t \in Seq(Item) /\ Len(t) = Len(s) - 1
      /\ \A k \in 1 .. Len(s) - 1 : t[k] = IF k < i THEN s[k] ELSE s[k + 1]
  <2>1. i \in 1 .. Len(s)
    OBVIOUS
  <2> HIDE DEF s
  <2> QED
    BY <2>1, <1>1, RemoveAtIs
<1>o. /\ \A j, k \in 1 .. Len(s) : s[j] = s[k] => j = k
      /\ \A b \in Item \ {a} : \A j \in 1 .. Len(L[b]), k \in 1 .. Len(s) : L[b][j] # s[k]
      /\ \A b \in Item \ {a} : \A j \in 1 .. Len(L[b]) : L[b][j] \in Item /\ L[b][j] # NULL
  BY SpelledList, ItemsAssumption DEF Once, NotIn
<1>n. /\ i - 1 \in 1 .. Len(s) => Nth(s, i - 1) = s[i - 1]
      /\ i - 1 \notin 1 .. Len(s) => Nth(s, i - 1) = NULL
  BY DEF Nth
<1>p. /\ \A n \in Item : nx2[n] = IF n = s[i] THEN NULL
                                  ELSE IF n = Nth(s, i - 1) THEN Nth(s, i + 1) ELSE nx[n]
      /\ \A b \in Item : ch2[b] = IF b = a /\ i = 1 THEN Nth(s, 2) ELSE ch[b]
  BY DEF TakePointers
<1>i. i \in 1 .. Len(s) /\ (ch2[a] = IF i = 1 THEN Nth(s, 2) ELSE ch[a])
  BY <1>p
<1> HIDE DEF s, t
<1>t. \A k \in 1 .. Len(s) : Nth(t, k) = IF k < i THEN s[k] ELSE Nth(s, k + 1)
  <2> SUFFICES ASSUME NEW k \in 1 .. Len(s)
               PROVE  Nth(t, k) = IF k < i THEN s[k] ELSE Nth(s, k + 1)
    OBVIOUS
  <2>1. k \in 1 .. Len(t) <=> k + 1 \in 1 .. Len(s)
    BY <1>1, <1>2
  <2>2. k \in 1 .. Len(t) => t[k] = IF k < i THEN s[k] ELSE s[k + 1]
    BY <1>2
  <2>3. k < i => k \in 1 .. Len(t)
    BY <1>i, <1>1, <1>2
  <2> QED
    BY <2>1, <2>2, <2>3 DEF Nth
<1>3. Nth(t, 1) = ch2[a]
  BY <1>t, <1>i, <1>1 DEF Nth
<1>4. ASSUME NEW k \in 1 .. Len(t)
      PROVE  nx2[t[k]] = Nth(t, k + 1)
  <2>0. k \in 1 .. Len(s) /\ k + 1 \in 1 .. Len(s) /\ k \in 1 .. Len(s) - 1 /\ k \in Int /\ i \in Int
    BY <1>i, <1>1, <1>2
  <2>t. Nth(t, k + 1) = IF k + 1 < i THEN s[k + 1] ELSE Nth(s, k + 2)
    <3>1. k + 1 + 1 = k + 2
      BY <2>0
    <3> QED
      BY <2>0, <3>1, <1>t
  <2>1. CASE k < i - 1
    <3>1. k + 1 < i /\ k < i /\ i - 1 \in 1 .. Len(s) /\ k # i - 1 /\ k # i
      BY <2>0, <2>1, <1>i, <1>1
    <3>2. t[k] = s[k]
      BY <3>1, <2>0, <1>2
    <3>3. nx2[s[k]] = nx[s[k]]
      BY <3>1, <2>0, <1>1, <1>i, <1>o, <1>n, <1>p
    <3> QED
      BY <3>1, <3>2, <3>3, <2>0, <2>t, <1>1 DEF Nth
  <2>2. CASE k = i - 1
    <3>1. k < i /\ ~(k + 1 < i) /\ k + 1 = i /\ k + 2 = i + 1 /\ k # i
      BY <2>0, <2>2
    <3>2. t[k] = s[k]
      BY <3>1, <2>0, <1>2
    <3>3. nx2[s[k]] = Nth(s, i + 1)
      BY <3>1, <2>0, <2>2, <1>1, <1>i, <1>o, <1>n, <1>p
    <3> QED
      BY <3>1, <3>2, <3>3, <2>t
  <2>3. CASE k >= i
    <3>1. ~(k < i) /\ ~(k + 1 < i) /\ k + 1 # i /\ k + 1 # i - 1 /\ k + 1 + 1 = k + 2
      BY <2>0, <2>3
    <3>2. t[k] = s[k + 1]
      BY <3>1, <2>0, <1>2
    <3>3. nx2[s[k + 1]] = nx[s[k + 1]]
      <4>1. s[k + 1] \in Item /\ s[k + 1] # s[i] /\ s[k + 1] # Nth(s, i - 1)
        BY <3>1, <2>0, <1>1, <1>i, <1>o, <1>n
      <4> QED
        BY <4>1, <1>p
    <3>4. nx[s[k + 1]] = Nth(s, k + 1 + 1)
      BY <2>0, <1>1
    <3> QED
      BY <3>1, <3>2, <3>3, <3>4, <2>t
  <2> QED
    BY <2>1, <2>2, <2>3, <2>0
<1>5. Spells(nx2, ch2[a], t)
  BY <1>2, <1>3, <1>4 DEF Spells
<1>6. \A b \in Item \ {a} : \A j \in 1 .. Len(L[b]) : nx2[L[b][j]] = nx[L[b][j]]
  BY <1>o, <1>n, <1>p, <1>i
<1>7. OthersKept(nx, ch, nx2, ch2, L, a)
  BY <1>6, <1>p DEF OthersKept
<1>8. Spelled(nx2, ch2, lv, rf, [L EXCEPT ![a] = t])
  BY <1>5, <1>7, OneChanges
<1> QED
  BY <1>8 DEF s, t, Spelled

\* x, which is in no list, takes the place of item i of a.
LEMMA SwapSpelled ==
  ASSUME NEW nx, NEW ch, NEW lv, NEW rf, NEW L, Spelled(nx, ch, lv, rf, L), Once(L),
         NEW a \in lv \ rf, a \in Item, NEW x \in Item,
         NotIn(L, x),
         NEW i \in 1 .. Len(L[a]), NEW nx2, NEW ch2,
         SwapPointers(nx, ch, nx2, ch2, L[a], a, i, x), lv \subseteq Item
  PROVE  Spelled(nx2, ch2, lv, rf, [L EXCEPT ![a][i] = x])
<1> DEFINE s == L[a]
           t == [s EXCEPT ![i] = x]
<1>1. /\ s \in Seq(Item) /\ Len(s) \in Nat
      /\ \A j \in 1 .. Len(s) : s[j] \in Item /\ s[j] # NULL /\ nx[s[j]] = Nth(s, j + 1)
      /\ Nth(s, 1) = ch[a]
  BY SpelledList, ItemsAssumption
<1>2. /\ t \in Seq(Item) /\ Len(t) = Len(s)
      /\ \A k \in 1 .. Len(s) : t[k] = IF k = i THEN x ELSE s[k]
  BY <1>1
<1>o. /\ \A j, k \in 1 .. Len(s) : s[j] = s[k] => j = k
      /\ \A j \in 1 .. Len(s) : s[j] # x
      /\ \A b \in Item \ {a} : \A j \in 1 .. Len(L[b]), k \in 1 .. Len(s) : L[b][j] # s[k]
      /\ \A b \in Item \ {a} : \A j \in 1 .. Len(L[b]) : L[b][j] # x /\ L[b][j] \in Item /\ L[b][j] # NULL
  <2>1. /\ \A j, k \in 1 .. Len(s) : s[j] = s[k] => j = k
        /\ \A b \in Item \ {a} : \A j \in 1 .. Len(L[b]), k \in 1 .. Len(s) : L[b][j] # s[k]
    BY DEF Once
  <2>2. /\ \A j \in 1 .. Len(s) : s[j] # x
        /\ \A b \in Item \ {a} : \A j \in 1 .. Len(L[b]) : L[b][j] # x
    BY DEF NotIn
  <2>3. \A b \in Item \ {a} : \A j \in 1 .. Len(L[b]) : L[b][j] \in Item /\ L[b][j] # NULL
    BY SpelledList, ItemsAssumption
  <2> QED
    BY <2>1, <2>2, <2>3
<1>n. /\ i - 1 \in 1 .. Len(s) => Nth(s, i - 1) = s[i - 1]
      /\ i - 1 \notin 1 .. Len(s) => Nth(s, i - 1) = NULL
  BY DEF Nth
<1>p. /\ \A n \in Item : nx2[n] = IF n = x THEN Nth(s, i + 1) ELSE IF n = s[i] THEN NULL
                                  ELSE IF n = Nth(s, i - 1) THEN x ELSE nx[n]
      /\ \A b \in Item : ch2[b] = IF b = a /\ i = 1 THEN x ELSE ch[b]
  BY DEF SwapPointers
<1>i. i \in 1 .. Len(s) /\ (ch2[a] = IF i = 1 THEN x ELSE ch[a])
  BY <1>p
<1> HIDE DEF s, t
<1>t. \A k : Nth(t, k) = IF k = i THEN x ELSE Nth(s, k)
  BY <1>2, <1>i DEF Nth
<1>3. Nth(t, 1) = ch2[a]
  BY <1>t, <1>i, <1>1
<1>4. ASSUME NEW k \in 1 .. Len(t)
      PROVE  nx2[t[k]] = Nth(t, k + 1)
  <2>0. k \in 1 .. Len(s) /\ k \in Int /\ i \in Int
    BY <1>i, <1>1, <1>2
  <2>1. CASE k = i
    <3>1. t[k] = x /\ k + 1 # i
      BY <2>0, <2>1, <1>2
    <3> QED
      BY <3>1, <2>1, <1>t, <1>p
  <2>2. CASE k = i - 1
    <3>1. t[k] = s[k] /\ k + 1 = i /\ k # i
      BY <2>0, <2>2, <1>2
    <3>2. nx2[s[k]] = x
      BY <3>1, <2>0, <2>2, <1>1, <1>i, <1>o, <1>n, <1>p
    <3> QED
      BY <3>1, <3>2, <1>t
  <2>3. CASE k # i /\ k # i - 1
    <3>1. t[k] = s[k] /\ k + 1 # i
      BY <2>0, <2>3, <1>2
    <3>2. nx2[s[k]] = nx[s[k]]
      BY <3>1, <2>0, <2>3, <1>1, <1>i, <1>o, <1>n, <1>p
    <3> QED
      BY <3>1, <3>2, <2>0, <1>1, <1>t
  <2> QED
    BY <2>1, <2>2, <2>3
<1>5. Spells(nx2, ch2[a], t)
  BY <1>2, <1>3, <1>4 DEF Spells
<1>6. \A b \in Item \ {a} : \A j \in 1 .. Len(L[b]) : nx2[L[b][j]] = nx[L[b][j]]
  BY <1>o, <1>n, <1>p, <1>i
<1>7. OthersKept(nx, ch, nx2, ch2, L, a)
  BY <1>6, <1>p DEF OthersKept
<1>8. Spelled(nx2, ch2, lv, rf, [L EXCEPT ![a] = t])
  BY <1>5, <1>7, OneChanges
<1> QED
  BY <1>8 DEF s, t, Spelled

\* nx2 and ch2 are nx and ch, and NULL in D.
Blanked(nx, ch, nx2, ch2, D) ==
  /\ \A n \in Item : nx2[n] = IF n \in D THEN NULL ELSE nx[n]
  /\ \A n \in Item : ch2[n] = IF n \in D THEN NULL ELSE ch[n]

\* The tree of c, which the caller holds, goes.
LEMMA DropSpelled ==
  ASSUME NEW nx, NEW pv, NEW ch, NEW lv, NEW rf, NEW hd, Forest(nx, pv, ch, lv, rf, hd),
         NEW L, Spelled(nx, ch, lv, rf, L), NEW c \in hd, NEW D, D = Below(nx, ch, rf, c),
         NEW nx2, NEW ch2, Blanked(nx, ch, nx2, ch2, D)
  PROVE  /\ Spelled(nx2, ch2, lv \ D, rf \ D, Tree!Without(L, c))
         /\ D = Tree!Tree(L, c)
<1>t. L \in [Item -> Seq(Item)] /\ c \in Item
  BY DEF Spelled, Forest, Linked
<1>1. D = Tree!Tree(L, c)
  BY BelowIsTree
<1>o. \A n \in D : n # c => \E k \in D : \E j \in 1 .. Len(L[k]) : n = L[k][j]
  <2> SUFFICES ASSUME NEW n \in Tree!Tree(L, c), n # c
               PROVE  \E k \in Tree!Tree(L, c) : \E j \in 1 .. Len(L[k]) : n = L[k][j]
    BY <1>1
  <2> QED
    BY <1>t, TreeHasOwner
<1>2. ASSUME NEW a \in Item \ D, NEW i \in 1 .. Len(L[a])
      PROVE  L[a][i] \notin D
  <2> SUFFICES ASSUME L[a][i] \in D PROVE FALSE
    OBVIOUS
  <2>1. L[a][i] # c
    BY SpelledLive
  <2>2. PICK k \in D : \E j \in 1 .. Len(L[k]) : L[a][i] = L[k][j]
    BY <2>1, <1>o
  <2>3. k \in Item
    BY <1>1, <1>t, TreeIs
  <2>4. Once(L)
    BY SpelledOnce
  <2> QED
    BY <2>2, <2>3, <2>4 DEF Once
<1> DEFINE L2 == Tree!Without(L, c)
<1>3. /\ L2 \in [Item -> Seq(Item)]
      /\ \A a \in Item : L2[a] = IF a \in D THEN <<>> ELSE L[a]
  BY <1>1, <1>t DEF Tree!Without
<1> HIDE DEF L2
<1>4. ASSUME NEW a \in Item
      PROVE  Spells(nx2, IF a \in (lv \ D) \ (rf \ D) THEN ch2[a] ELSE NULL, L2[a])
  <2>1. CASE a \in D
    <3>1. Spells(nx2, NULL, <<>>)
      BY DEF Spells, Nth
    <3> QED
      BY <3>1, <2>1, <1>3
  <2>2. CASE a \notin D
    <3>1. Spells(nx, IF a \in lv \ rf THEN ch[a] ELSE NULL, L[a])
      BY DEF Spelled
    <3>2. \A i \in 1 .. Len(L[a]) : nx2[L[a][i]] = nx[L[a][i]]
      BY <2>2, <1>2, <1>t DEF Blanked
    <3>3. Spells(nx2, IF a \in lv \ rf THEN ch[a] ELSE NULL, L[a])
      BY <3>1, <3>2, SpellsKept
    <3> QED
      BY <3>3, <2>2, <1>3 DEF Blanked
  <2> QED
    BY <2>1, <2>2
<1> QED
  BY <1>1, <1>3, <1>4 DEF Spelled, L2

\* nx2 and ch2 are nx and ch for the items S.
SameOn(S, nx, ch, nx2, ch2) == \A n \in S : nx2[n] = nx[n] /\ ch2[n] = ch[n]

\* L2 has the lists of the items C, and those that L has of the others.
NewLists(C, nx2, ch2, L, L2) ==
  /\ L2 \in [Item -> Seq(Item)]
  /\ \A a \in Item \ C : L2[a] = L[a]
  /\ \A a \in C : Spells(nx2, ch2[a], L2[a])

\* The new items C, with lists of their own, leave the other lists alone.
LEMMA NewSpelled ==
  ASSUME NEW nx, NEW pv, NEW ch, NEW lv, NEW rf, NEW hd, Forest(nx, pv, ch, lv, rf, hd),
         NEW L, Spelled(nx, ch, lv, rf, L), NEW C \in SUBSET (Item \ lv),
         NEW nx2, NEW ch2, SameOn(lv, nx, ch, nx2, ch2), NEW L2, NewLists(C, nx2, ch2, L, L2)
  PROVE  Spelled(nx2, ch2, lv \cup C, rf, L2)
<1>t. rf \subseteq lv /\ lv \subseteq Item
  BY DEF Forest, Linked
<1>1. ASSUME NEW a \in Item
      PROVE  Spells(nx2, IF a \in (lv \cup C) \ rf THEN ch2[a] ELSE NULL, L2[a])
  <2>1. CASE a \in C
    BY <2>1, <1>t DEF NewLists
  <2>2. CASE a \notin C
    <3>1. Spells(nx, IF a \in lv \ rf THEN ch[a] ELSE NULL, L[a])
      BY DEF Spelled
    <3>2. \A i \in 1 .. Len(L[a]) : L[a][i] \in lv \ hd
      BY SpelledLive
    <3>3. \A i \in 1 .. Len(L[a]) : nx2[L[a][i]] = nx[L[a][i]]
      BY <3>2 DEF SameOn
    <3>4. Spells(nx2, IF a \in lv \ rf THEN ch[a] ELSE NULL, L[a])
      BY <3>1, <3>3, SpellsKept
    <3>5. (IF a \in (lv \cup C) \ rf THEN ch2[a] ELSE NULL) = IF a \in lv \ rf THEN ch[a] ELSE NULL
      BY <2>2 DEF SameOn
    <3> QED
      BY <3>4, <3>5, <2>2 DEF NewLists
  <2> QED
    BY <2>1, <2>2
<1> QED
  BY <1>1 DEF Spelled, NewLists

\* All the new items are below the one that the caller gets, and nothing else is.
LEMMA NewTree ==
  ASSUME NEW nx, NEW pv, NEW ch, NEW lv, NEW rf, NEW hd, Forest(nx, pv, ch, lv, rf, hd),
         NEW C \in SUBSET (Item \ lv), NEW r \in C, NEW nx2, NEW pv2, NEW ch2,
         Forest(nx2, pv2, ch2, lv \cup C, rf, hd \cup {r}),
         SameOn(lv, nx, ch, nx2, ch2)
  PROVE  Below(nx2, ch2, rf, r) = C
<1> DEFINE B == Below(nx2, ch2, rf, r)
<1>l. Linked(nx, pv, ch, lv, rf, hd) /\ Linked(nx2, pv2, ch2, lv \cup C, rf, hd \cup {r})
  BY DEF Forest
<1>t. /\ hd \subseteq lv /\ lv \subseteq Item /\ rf \subseteq lv
      /\ nx2 \in [Item -> Pointer] /\ ch2 \in [Item -> Pointer]
  BY <1>l DEF Linked
<1>c. Closed(nx, ch, rf, lv)
  BY <1>l DEF Closed, Linked
<1>1. /\ r \in B /\ B \subseteq Item /\ Closed(nx2, ch2, rf, B)
  BY <1>t, BelowIsClosed
<1>2. B \subseteq lv \cup C
  BY <1>l, BelowHasPrev
<1>3. /\ Closed(nx2, ch2, rf, Item \ B)
      /\ (hd \cup {r}) \cap B = {r}
  BY <1>l, OutsideIsClosed
<1> HIDE DEF B
<1>4. lv \cap B = {}
  <2>1. Closed(nx, ch, rf, lv \ B)
    BY <1>c, <1>3, <1>t DEF Closed, SameOn
  <2>2. hd \subseteq lv \ B
    BY <1>3, <1>t
  <2>3. lv \subseteq lv \ B
    BY <2>1, <2>2, <1>t DEF Forest, Owned
  <2> QED
    BY <2>3
<1>5. C \subseteq B
  <2>1. Closed(nx2, ch2, rf, lv \cup B)
    BY <1>1, <1>c DEF Closed, SameOn
  <2>2. hd \cup {r} \subseteq lv \cup B /\ lv \cup B \in SUBSET Item
    BY <1>1, <1>t
  <2>3. lv \cup C \subseteq lv \cup B
    BY <2>1, <2>2 DEF Forest, Owned
  <2> QED
    BY <2>3
<1> QED
  BY <1>2, <1>4, <1>5 DEF B

-----------------------------------------------------------------------------
(***************************************************************************)
(* What the operations do to the lists.                                    *)
(***************************************************************************)

\* Lists are the lists of the pointers.
ListInv == Spelled(mem.next, mem.child, live, is_ref, Lists)

LEMMA Becomes ==
  ASSUME ForestInv', NEW t, Spelled(mem'.next, mem'.child, live', is_ref', t)
  PROVE  Lists' = t /\ ListInv'
<1>1. Forest(mem'.next, mem'.prev, mem'.child, live', is_ref', held')
  BY DEF ForestInv
<1>2. Lists' = t
  BY <1>1, ListsAre, ListsOfMem
<1> QED
  BY <1>2 DEF ListInv

\* What the caller holds, and what is not allocated, is in no list.
LEMMA InNoList ==
  ASSUME ForestInv, ListInv, NEW x, x \in held \/ x \notin live
  PROVE  NotIn(Lists, x)
<1> SUFFICES ASSUME NEW b \in Item PROVE \A j \in 1 .. Len(Lists[b]) : Lists[b][j] # x
  BY DEF NotIn
<1>1. \A j \in 1 .. Len(Lists[b]) : Lists[b][j] \in live \ held
  BY SpelledLive DEF ForestInv, ListInv
<1> QED
  BY <1>1

\* The list that the first item leads to, and what is around an item in it.
LEMMA ListOf ==
  ASSUME ForestInv, ListInv, NEW a \in live \ is_ref
  PROVE  /\ Lists[a] \in Seq(Item) /\ Len(Lists[a]) \in Nat /\ DOMAIN Lists[a] = 1 .. Len(Lists[a])
         /\ a \in Item
         /\ mem.child[a] = Nth(Lists[a], 1)
         /\ \A i \in 1 .. Len(Lists[a]) :
              /\ Lists[a][i] \in live \ held /\ Lists[a][i] \in Item /\ Lists[a][i] # NULL
              /\ mem.prev[Lists[a][i]] = Nth(Lists[a], i - 1)
              /\ mem.next[Lists[a][i]] = Nth(Lists[a], i + 1)
              /\ mem.child[a] = Lists[a][i] <=> i = 1
<1>f. Forest(mem.next, mem.prev, mem.child, live, is_ref, held)
  BY DEF ForestInv
<1>t. a \in Item /\ live \subseteq Item
  BY <1>f DEF Forest, Linked
<1>s. Spelled(mem.next, mem.child, live, is_ref, Lists)
  BY DEF ListInv
<1>1. /\ Lists[a] \in Seq(Item) /\ Len(Lists[a]) \in Nat /\ DOMAIN Lists[a] = 1 .. Len(Lists[a])
      /\ mem.child[a] = Nth(Lists[a], 1)
  BY <1>t, <1>s, SpelledList
<1>2. \A i \in 1 .. Len(Lists[a]) :
        /\ Lists[a][i] \in live \ held
        /\ mem.prev[Lists[a][i]] = Nth(Lists[a], i - 1)
        /\ mem.next[Lists[a][i]] = Nth(Lists[a], i + 1)
  BY <1>t, <1>f, <1>s, SpelledLive
<1>3. Once(Lists)
  BY <1>f, <1>s, SpelledOnce
<1>4. ASSUME NEW i \in 1 .. Len(Lists[a])
      PROVE  mem.child[a] = Lists[a][i] <=> i = 1
  <2>1. 1 \in 1 .. Len(Lists[a])
    BY <1>1
  <2>2. mem.child[a] = Lists[a][1]
    BY <2>1, <1>1 DEF Nth
  <2> QED
    BY <2>1, <2>2, <1>3, <1>t DEF Once
<1> QED
  BY <1>1, <1>2, <1>4, <1>t, ItemsAssumption

LEMMA ChainInList ==
  ASSUME ForestInv, ListInv, NEW a \in live \ is_ref, NEW c \in Chain(a)
  PROVE  \E i \in 1 .. Len(Lists[a]) : c = Lists[a][i]
<1> DEFINE S == {Lists[a][i] : i \in 1 .. Len(Lists[a])}
<1>1. mem.child[a] # NULL /\ c \in From(mem.child[a])
  BY DEF Chain
<1>2. /\ Len(Lists[a]) \in Nat /\ mem.child[a] = Nth(Lists[a], 1)
      /\ \A i \in 1 .. Len(Lists[a]) : Lists[a][i] \in Item /\ mem.next[Lists[a][i]] = Nth(Lists[a], i + 1)
  BY ListOf
<1>3. mem.child[a] \in S /\ S \in SUBSET Item
  BY <1>1, <1>2 DEF Nth
<1>4. \A k \in S : mem.next[k] \in S \cup {NULL}
  <2> SUFFICES ASSUME NEW i \in 1 .. Len(Lists[a]) PROVE Nth(Lists[a], i + 1) \in S \cup {NULL}
    BY <1>2
  <2> QED
    BY DEF Nth
<1> HIDE DEF S
<1>5. c \in S
  BY <1>1, <1>3, <1>4 DEF From
<1> QED
  BY <1>5 DEF S

\* Spelled looks at the items that have a list only.
LEMMA SameLists ==
  ASSUME NEW nx, NEW ch, NEW lv, NEW rf, NEW L, Spelled(nx, ch, lv, rf, L),
         NEW ch2, NEW lv2, NEW rf2, lv2 \ rf2 = lv \ rf, \A a \in lv \ rf : ch2[a] = ch[a]
  PROVE  Spelled(nx, ch2, lv2, rf2, L)
<1> SUFFICES ASSUME NEW a \in Item
             PROVE  Spells(nx, IF a \in lv2 \ rf2 THEN ch2[a] ELSE NULL, L[a])
  BY DEF Spelled
<1>1. Spells(nx, IF a \in lv \ rf THEN ch[a] ELSE NULL, L[a])
  BY DEF Spelled
<1>2. (IF a \in lv2 \ rf2 THEN ch2[a] ELSE NULL) = IF a \in lv \ rf THEN ch[a] ELSE NULL
  <2>1. a \in lv2 \ rf2 <=> a \in lv \ rf
    OBVIOUS
  <2> QED
    BY <2>1
<1> QED
  BY <1>1, <1>2

\* AddItem appends, with the memory m of the moment.
LEMMA AddItemAppends ==
  ASSUME ForestInv, ListInv, NEW a \in live \ is_ref, NEW x \in Item,
         x \in held \/ x \notin live,
         NEW m \in Memory, m.next = mem.next, \A b \in live \ is_ref : m.child[b] = mem.child[b],
         NEW m2, m2 = AddItem(m, a, x)
  PROVE  Spelled(m2.next, m2.child, live, is_ref,
                 [Lists EXCEPT ![a] = Tree!InsertAt(@, Len(@) + 1, x)])
<1> DEFINE s == Lists[a]
           i == Len(s) + 1
<1>t. /\ live \subseteq Item /\ a \in Item /\ Forest(mem.next, mem.prev, mem.child, live, is_ref, held)
      /\ x # NULL /\ NULL \notin Item
  BY ItemsAssumption DEF ForestInv, Forest, Linked
<1>1. Spelled(mem.next, m.child, live, is_ref, Lists)
  BY SameLists DEF ListInv
<1>2. Once(Lists)
  BY <1>t, SpelledOnce DEF ListInv
<1>3. NotIn(Lists, x)
  BY InNoList
<1>4. /\ s \in Seq(Item) /\ Len(s) \in Nat /\ m.child[a] = Nth(s, 1)
      /\ \A j \in 1 .. Len(s) : s[j] \in Item /\ s[j] # NULL /\ mem.next[s[j]] = Nth(s, j + 1)
  BY ListOf
<1>5. i \in 1 .. Len(s) + 1 /\ Nth(s, i) = NULL
  BY <1>4 DEF Nth
<1>6. mem.next[x] = NULL
  BY <1>t DEF Forest, Linked
<1>7. PutPointers(mem.next, m.child, m2.next, m2.child, s, a, i, x)
  <2>1. CASE m.child[a] = NULL
    <3>1. m2.next = mem.next /\ m2.child = [m.child EXCEPT ![a] = x]
      BY <2>1 DEF AddItem, Memory
    <3>2. Len(s) = 0
      <4> SUFFICES ASSUME 1 \in 1 .. Len(s) PROVE FALSE
        BY <1>4
      <4> QED
        BY <2>1, <1>4 DEF Nth
    <3>3. Nth(s, i - 1) = NULL /\ i = 1
      BY <3>2 DEF Nth
    <3>4. \A b \in Item : m2.child[b] = IF b = a THEN x ELSE m.child[b]
      BY <3>1, <1>t DEF Memory
    <3> HIDE DEF i
    <3> QED
      BY <3>1, <3>3, <3>4, <1>t, <1>5, <1>6 DEF PutPointers
  <2>2. CASE m.child[a] # NULL
    <3> DEFINE last == CHOOSE c \in Chain(a) : m.next[c] = NULL
    <3>1. last \in Chain(a) /\ mem.next[last] = NULL
      BY <2>2, LastItem
    <3>2. m2 = [m EXCEPT !.next[last] = x, !.prev[x] = last]
      BY <2>2 DEF AddItem, suffix_object
    <3> HIDE DEF last
    <3>3. PICK j \in 1 .. Len(s) : last = s[j]
      BY <3>1, ChainInList
    <3>4. j = Len(s)
      <4> SUFFICES ASSUME j + 1 \in 1 .. Len(s) PROVE FALSE
        BY <1>4
      <4>1. Nth(s, j + 1) = s[j + 1]
        BY DEF Nth
      <4> QED
        BY <4>1, <3>1, <3>3, <1>4
    <3>5. Nth(s, i - 1) = last /\ i # 1 /\ last \in Item /\ last # x
      <4>1. i - 1 = j /\ i # 1
        BY <3>4, <1>4
      <4>2. s[j] # x
        BY <1>3, <1>t DEF NotIn
      <4> QED
        BY <4>1, <4>2, <3>3, <1>4 DEF Nth
    <3>6. m2.next = [m.next EXCEPT ![last] = x] /\ m2.child = m.child
      BY <3>2 DEF Memory
    <3> HIDE DEF i
    <3>7. \A n \in Item : m2.next[n] = IF n = last THEN x ELSE mem.next[n]
      BY <3>5, <3>6 DEF Memory
    <3> QED
      BY <3>5, <3>6, <3>7, <1>5, <1>6 DEF PutPointers
  <2> QED
    BY <2>1, <2>2
<1> HIDE DEF i
<1>8. Spelled(m2.next, m2.child, live, is_ref, [Lists EXCEPT ![a] = Tree!InsertAt(@, i, x)])
  BY <1>t, <1>1, <1>2, <1>3, <1>5, <1>7, PutSpelled DEF s
<1>9. [Lists EXCEPT ![a] = Tree!InsertAt(@, i, x)] = [Lists EXCEPT ![a] = Tree!InsertAt(@, Len(@) + 1, x)]
  BY DEF i
<1> QED
  BY <1>8, <1>9

\* Insert, Detach and Replace at an item of the list of a.
LEMMA InsertPuts ==
  ASSUME ForestInv, ListInv, NEW a \in live \ is_ref, NEW x \in held,
         NEW i \in 1 .. Len(Lists[a]), NEW m2, m2 = Insert(mem, a, Lists[a][i], x)
  PROVE  Spelled(m2.next, m2.child, live, is_ref, [Lists EXCEPT ![a] = Tree!InsertAt(@, i, x)])
<1> DEFINE s == Lists[a]
           c == s[i]
<1>t. /\ live \subseteq Item /\ a \in Item /\ x \in Item /\ mem \in Memory
      /\ Forest(mem.next, mem.prev, mem.child, live, is_ref, held)
  BY DEF ForestInv, Forest, Linked
<1>1. NotIn(Lists, x) /\ Once(Lists)
  BY <1>t, InNoList, SpelledOnce DEF ListInv
<1>2. /\ Len(s) \in Nat
      /\ c \in live \ held /\ c \in Item /\ c # NULL
      /\ mem.prev[c] = Nth(s, i - 1)
      /\ mem.child[a] = c <=> i = 1
  BY ListOf
<1>3. i \in 1 .. Len(s) + 1 /\ Nth(s, i) = c /\ (i = 1 => Nth(s, i - 1) = NULL)
  BY <1>2 DEF Nth
<1>4. /\ m2.next = [n \in Item |-> IF n = x THEN c
                                   ELSE IF mem.child[a] # c /\ n = mem.prev[c] THEN x ELSE mem.next[n]]
      /\ m2.child = [mem.child EXCEPT ![a] = IF @ = c THEN x ELSE @]
  BY <1>t DEF Insert, Memory
<1> HIDE DEF c
<1>5. PutPointers(mem.next, mem.child, m2.next, m2.child, s, a, i, x)
  <2>1. \A n \in Item : n # NULL
    BY ItemsAssumption
  <2>2. \A n \in Item : m2.next[n] = IF n = x THEN Nth(s, i)
                                     ELSE IF n = Nth(s, i - 1) THEN x ELSE mem.next[n]
    BY <2>1, <1>2, <1>3, <1>4
  <2>3. \A b \in Item : m2.child[b] = IF b = a /\ i = 1 THEN x ELSE mem.child[b]
    BY <1>2, <1>4, <1>t DEF Memory
  <2> QED
    BY <2>2, <2>3 DEF PutPointers
<1> QED
  BY <1>t, <1>1, <1>3, <1>5, PutSpelled DEF s, ListInv

LEMMA DetachTakes ==
  ASSUME ForestInv, ListInv, NEW a \in live \ is_ref,
         NEW i \in 1 .. Len(Lists[a]), NEW m2, m2 = Detach(mem, a, Lists[a][i])
  PROVE  Spelled(m2.next, m2.child, live, is_ref, [Lists EXCEPT ![a] = Tree!RemoveAt(@, i)])
<1> DEFINE s == Lists[a]
           c == s[i]
<1>t. /\ live \subseteq Item /\ a \in Item /\ mem \in Memory
      /\ Forest(mem.next, mem.prev, mem.child, live, is_ref, held)
  BY DEF ForestInv, Forest, Linked
<1>1. Once(Lists)
  BY <1>t, SpelledOnce DEF ListInv
<1>2. /\ Len(s) \in Nat
      /\ c \in Item /\ c # NULL
      /\ mem.prev[c] = Nth(s, i - 1) /\ mem.next[c] = Nth(s, i + 1)
      /\ mem.child[a] = c <=> i = 1
  BY ListOf
<1>3. i = 1 => Nth(s, i + 1) = Nth(s, 2)
  OBVIOUS
<1>4. /\ m2.next = [n \in Item |-> IF n = c THEN NULL ELSE IF n = mem.prev[c] THEN mem.next[c] ELSE mem.next[n]]
      /\ m2.child = [n \in Item |-> IF n = a /\ mem.child[a] = c THEN mem.next[c] ELSE mem.child[n]]
  BY DEF Detach
<1> HIDE DEF c
<1>5. TakePointers(mem.next, mem.child, m2.next, m2.child, s, a, i)
  <2>1. \A n \in Item : m2.next[n] = IF n = c THEN NULL
                                     ELSE IF n = Nth(s, i - 1) THEN Nth(s, i + 1) ELSE mem.next[n]
    BY <1>2, <1>4
  <2>2. \A b \in Item : m2.child[b] = IF b = a /\ i = 1 THEN Nth(s, 2) ELSE mem.child[b]
    BY <1>2, <1>3, <1>4
  <2> QED
    BY <2>1, <2>2 DEF TakePointers, c
<1> QED
  BY <1>t, <1>1, <1>5, TakeSpelled DEF s, ListInv

LEMMA ReplaceSwaps ==
  ASSUME ForestInv, ListInv, NEW a \in live \ is_ref, NEW x \in held,
         NEW i \in 1 .. Len(Lists[a]), NEW m2, m2 = Replace(mem, a, Lists[a][i], x)
  PROVE  Spelled(m2.next, m2.child, live, is_ref, [Lists EXCEPT ![a][i] = x])
<1> DEFINE s == Lists[a]
           c == s[i]
<1>t. /\ live \subseteq Item /\ a \in Item /\ x \in Item /\ mem \in Memory
      /\ Forest(mem.next, mem.prev, mem.child, live, is_ref, held)
  BY DEF ForestInv, Forest, Linked
<1>1. NotIn(Lists, x) /\ Once(Lists)
  BY <1>t, InNoList, SpelledOnce DEF ListInv
<1>2. /\ Len(s) \in Nat
      /\ c \in live \ held /\ c \in Item /\ c # NULL
      /\ mem.prev[c] = Nth(s, i - 1) /\ mem.next[c] = Nth(s, i + 1)
      /\ mem.child[a] = c <=> i = 1
  BY ListOf
<1>3. i = 1 => Nth(s, i - 1) = NULL
  BY <1>2 DEF Nth
<1>4. /\ m2.next = [n \in Item |-> IF n = x THEN mem.next[c] ELSE IF n = c THEN NULL
                                   ELSE IF mem.child[a] # c /\ n = mem.prev[c] THEN x ELSE mem.next[n]]
      /\ m2.child = [mem.child EXCEPT ![a] = IF @ = c THEN x ELSE @]
  BY <1>t DEF Replace, Memory
<1> HIDE DEF c
<1>5. SwapPointers(mem.next, mem.child, m2.next, m2.child, s, a, i, x)
  <2>1. \A n \in Item : n # NULL
    BY ItemsAssumption
  <2>2. \A n \in Item : m2.next[n] = IF n = x THEN Nth(s, i + 1) ELSE IF n = c THEN NULL
                                     ELSE IF n = Nth(s, i - 1) THEN x ELSE mem.next[n]
    BY <2>1, <1>2, <1>3, <1>4
  <2>3. \A b \in Item : m2.child[b] = IF b = a /\ i = 1 THEN x ELSE mem.child[b]
    BY <1>2, <1>4, <1>t DEF Memory
  <2> QED
    BY <2>2, <2>3 DEF SwapPointers, c
<1> QED
  BY <1>t, <1>1, <1>5, SwapSpelled DEF s, ListInv

\* cJSON_Delete drops a tree, from the lists L of the moment.
LEMMA DeleteDrops ==
  ASSUME NEW m \in Memory, NEW str, NEW hd, NEW L,
         Forest(m.next, m.prev, m.child, live, is_ref, hd), Spelled(m.next, m.child, live, is_ref, L),
         NEW c \in hd, Delete(m, str, c)
  PROVE  /\ Spelled(mem'.next, mem'.child, live', is_ref', Tree!Without(L, c))
         /\ live' = live \ Tree!Tree(L, c)
<1> DEFINE D == Deleted(m, c)
<1>1. /\ live' = live \ D /\ is_ref' = is_ref \ D
      /\ Blanked(m.next, m.child, mem'.next, mem'.child, D)
  BY DEF Delete, Blanked
<1>2. D = Below(m.next, m.child, is_ref, c)
  BY DeletedIsBelow
<1> HIDE DEF D
<1>3. /\ Spelled(mem'.next, mem'.child, live \ D, is_ref \ D, Tree!Without(L, c))
      /\ D = Tree!Tree(L, c)
  BY <1>1, <1>2, DropSpelled
<1> QED
  BY <1>1, <1>3

-----------------------------------------------------------------------------
(***************************************************************************)
(* The items that the walks along a list stop at.                          *)
(***************************************************************************)

\* From an item on, next leads to the rest of the list.
LEMMA FromIs ==
  ASSUME ForestInv, ListInv, NEW a \in live \ is_ref, NEW i \in 1 .. Len(Lists[a])
  PROVE  From(Lists[a][i]) = {Lists[a][k] : k \in i .. Len(Lists[a])}
<1> DEFINE s == Lists[a]
           R == {s[k] : k \in i .. Len(s)}
<1>1. /\ s \in Seq(Item) /\ Len(s) \in Nat /\ a \in Item
      /\ \A k \in 1 .. Len(s) : s[k] \in Item /\ s[k] # NULL /\ mem.next[s[k]] = Nth(s, k + 1)
  BY ListOf
<1>2. Spells(mem.next, s[i], SubSeq(s, i, Len(s)))
  <2>1. Spells(mem.next, mem.child[a], s)
    BY <1>1 DEF ListInv, Spelled
  <2> HIDE DEF s
  <2> QED
    BY <2>1, SpellsRest DEF s
<1> HIDE DEF s
<1>0. i \in 1 .. Len(s) /\ i \in Nat
  BY <1>1 DEF s
<1>3. /\ SubSeq(s, i, Len(s)) \in Seq(Item)
      /\ Len(SubSeq(s, i, Len(s))) = Len(s) - i + 1
      /\ \A j \in 1 .. Len(s) - i + 1 : SubSeq(s, i, Len(s))[j] = s[i + j - 1]
  BY <1>0, <1>1
<1>4. R \subseteq From(s[i])
  <2> SUFFICES ASSUME NEW k \in i .. Len(s), NEW S \in SUBSET Item,
                      s[i] \in S, \A n \in S : mem.next[n] \in S \cup {NULL}
               PROVE  s[k] \in S
    <3>1. \A k \in i .. Len(s) : s[k] \in Item
      BY <1>0, <1>1
    <3> QED
      BY <3>1 DEF From
  <2>1. s[i] \in S \cup {NULL}
    OBVIOUS
  <2>2. \A j \in 1 .. Len(SubSeq(s, i, Len(s))) : SubSeq(s, i, Len(s))[j] \in S
    BY ONLY <1>2, <2>1, ListInside, \A n \in S : mem.next[n] \in S \cup {NULL}
  <2>3. k - i + 1 \in 1 .. Len(s) - i + 1 /\ i + (k - i + 1) - 1 = k
    BY <1>0, <1>1
  <2> QED
    BY <2>2, <2>3, <1>3
<1>5. From(s[i]) \subseteq R
  <2>1. R \in SUBSET Item /\ s[i] \in R
    BY <1>0, <1>1
  <2>2. ASSUME NEW n \in R PROVE mem.next[n] \in R \cup {NULL}
    <3>1. PICK k \in i .. Len(s) : n = s[k]
      OBVIOUS
    <3>2. k \in 1 .. Len(s) /\ k \in Nat
      BY <1>0, <1>1
    <3>3. mem.next[n] = Nth(s, k + 1)
      BY <3>1, <3>2, <1>1
    <3>4. CASE k + 1 \in 1 .. Len(s)
      <4>1. k + 1 \in i .. Len(s)
        BY <3>4, <1>0, <1>1
      <4> QED
        BY <4>1, <3>3, <3>4 DEF Nth
    <3>5. CASE k + 1 \notin 1 .. Len(s)
      BY <3>3, <3>5 DEF Nth
    <3> QED
      BY <3>4, <3>5
  <2> HIDE DEF R
  <2> QED
    BY <2>1, <2>2 DEF From
<1> QED
  BY <1>4, <1>5 DEF s

LEMMA ChainIs ==
  ASSUME ForestInv, ListInv, NEW a \in live \ is_ref
  PROVE  Chain(a) = {Lists[a][k] : k \in 1 .. Len(Lists[a])}
<1>1. /\ Len(Lists[a]) \in Nat /\ mem.child[a] = Nth(Lists[a], 1)
      /\ \A k \in 1 .. Len(Lists[a]) : Lists[a][k] # NULL
  BY ListOf
<1>2. CASE 1 \in 1 .. Len(Lists[a])
  <2>1. mem.child[a] = Lists[a][1] /\ mem.child[a] # NULL
    BY <1>1, <1>2 DEF Nth
  <2>2. From(Lists[a][1]) = {Lists[a][k] : k \in 1 .. Len(Lists[a])}
    BY <1>2, FromIs
  <2> QED
    BY <2>1, <2>2 DEF Chain
<1>3. CASE 1 \notin 1 .. Len(Lists[a])
  <2>1. mem.child[a] = NULL /\ 1 .. Len(Lists[a]) = {}
    BY <1>1, <1>3 DEF Nth
  <2> QED
    BY <2>1 DEF Chain
<1> QED
  BY <1>2, <1>3

\* In one list every item has one place.
LEMMA OnePlace ==
  ASSUME ForestInv, ListInv, NEW a \in live \ is_ref
  PROVE  \A i, j \in 1 .. Len(Lists[a]) : Lists[a][i] = Lists[a][j] => i = j
<1>1. Once(Lists)
  BY SpelledOnce DEF ForestInv, ListInv
<1>2. a \in Item
  BY ListOf
<1> QED
  BY <1>1, <1>2 DEF Once

\* The steps that lead to item i.
LEMMA IndexIs ==
  ASSUME ForestInv, ListInv, NEW a \in live \ is_ref, NEW i \in 1 .. Len(Lists[a])
  PROVE  Index(a, Lists[a][i]) = i - 1
<1> DEFINE s == Lists[a]
           P == {n \in Chain(a) : s[i] \in From(n)}
           f == [k \in 1 .. i |-> s[k]]
<1>1. Len(s) \in Nat
  BY ListOf
<1>2. Chain(a) = {s[k] : k \in 1 .. Len(s)}
  BY ChainIs
<1>3. \A k \in 1 .. Len(s) : From(s[k]) = {s[j] : j \in k .. Len(s)}
  BY FromIs
<1>4. \A k, j \in 1 .. Len(s) : s[k] = s[j] => k = j
  BY OnePlace
<1> HIDE DEF s
<1>0. i \in 1 .. Len(s) /\ i \in Nat
  BY <1>1 DEF s
<1>5. \A k \in 1 .. Len(s) : s[i] \in From(s[k]) <=> k <= i
  <2> SUFFICES ASSUME NEW k \in 1 .. Len(s) PROVE s[i] \in From(s[k]) <=> k <= i
    OBVIOUS
  <2>1. s[i] \in From(s[k]) <=> \E j \in k .. Len(s) : s[i] = s[j]
    BY <1>3
  <2>2. \A j \in k .. Len(s) : j \in 1 .. Len(s)
    BY <1>1
  <2>3. (\E j \in k .. Len(s) : s[i] = s[j]) <=> i \in k .. Len(s)
    BY <2>2, <1>0, <1>4
  <2> QED
    BY <2>1, <2>3, <1>0, <1>1
<1>6. P = {s[k] : k \in 1 .. i}
  <2>1. \A k \in 1 .. i : k \in 1 .. Len(s) /\ k <= i
    BY <1>0, <1>1
  <2>2. \A k \in 1 .. Len(s) : k <= i => k \in 1 .. i
    BY <1>0, <1>1
  <2> QED
    BY <2>1, <2>2, <1>2, <1>5
<1>7. IsFiniteSet(1 .. i) /\ Cardinality(1 .. i) = i
  BY <1>0, FS_Interval
<1> HIDE DEF P
<1>8. f \in Surjection(1 .. i, P)
  BY <1>6 DEF Surjection
<1>9. f \in Injection(1 .. i, P)
  <2>1. \A k, j \in 1 .. i : s[k] = s[j] => k = j
    BY <1>0, <1>1, <1>4
  <2>2. f \in [1 .. i -> P] /\ \A k \in 1 .. i : f[k] = s[k]
    BY <1>6
  <2> HIDE DEF f
  <2>3. \A k, j \in 1 .. i : f[k] = f[j] => k = j
    BY <2>1, <2>2
  <2> QED
    BY <2>2, <2>3 DEF Injection, IsInjective
<1> HIDE DEF f
<1>10. Cardinality(P) = i
  BY <1>7, <1>8, <1>9, FS_Surjection
<1> QED
  BY <1>10 DEF Index, P, s

\* Subscripts.
Found(a, C, I) ==
  /\ \A c \in C : \E i \in I : i \in 1 .. Len(Lists[a]) /\ c = Lists[a][i]
  /\ C = {} => I = {}

LEMMA SubscriptIs ==
  ASSUME ForestInv, ListInv, NEW a \in live \ is_ref, NEW which \in Int
  PROVE  Found(a, GetArrayItem(a, which), Tree!Subscript(a, which))
<1> DEFINE s == Lists[a]
           w == IF which > 0 THEN which ELSE 0
           I == Tree!Subscript(a, which)
<1>1. Len(s) \in Nat /\ DOMAIN s = 1 .. Len(s)
  BY ListOf
<1>2. Chain(a) = {s[k] : k \in 1 .. Len(s)}
  BY ChainIs
<1>3. \A k \in 1 .. Len(s) : Index(a, s[k]) = k - 1
  BY IndexIs
<1>4. I = {k \in 1 .. Len(s) : k = w + 1}
  BY <1>1 DEF Tree!Subscript
<1>5. GetArrayItem(a, which) = {c \in Chain(a) : Index(a, c) = w}
  BY DEF GetArrayItem
<1> HIDE DEF I, s, w
<1>w. w \in Int
  BY DEF w
<1>6. ASSUME NEW c \in GetArrayItem(a, which)
      PROVE  \E i \in I : i \in 1 .. Len(s) /\ c = s[i]
  <2>1. PICK k \in 1 .. Len(s) : c = s[k]
    BY <1>2, <1>5
  <2>2. k - 1 = w
    BY <2>1, <1>3, <1>5
  <2>3. k \in I
    BY <2>1, <2>2, <1>1, <1>4, <1>w
  <2> QED
    BY <2>1, <2>3
<1>7. ASSUME NEW i \in I
      PROVE  GetArrayItem(a, which) # {}
  <2>1. i \in 1 .. Len(s) /\ i = w + 1
    BY <1>4
  <2>2. s[i] \in Chain(a) /\ Index(a, s[i]) = w
    BY <2>1, <1>1, <1>2, <1>3, <1>w
  <2> QED
    BY <2>2, <1>5
<1> QED
  BY <1>6, <1>7 DEF Found, I, s

\* Keys.
LEMMA NamedIs ==
  ASSUME ForestInv, ListInv, NEW a \in live \ is_ref, NEW k,
         NEW c \in GetObjectItem(a, k)
  PROVE  \E i \in Tree!Named(a, k) : i \in 1 .. Len(Lists[a]) /\ c = Lists[a][i]
<1> DEFINE s == Lists[a]
<1>1. /\ Len(s) \in Nat /\ DOMAIN s = 1 .. Len(s)
      /\ \A j \in 1 .. Len(s) : s[j] \in Item
  BY ListOf
<1>2. Chain(a) = {s[j] : j \in 1 .. Len(s)}
  BY ChainIs
<1>3. \A j \in 1 .. Len(s) : From(s[j]) = {s[h] : h \in j .. Len(s)}
  BY FromIs
<1>4. \A h, j \in 1 .. Len(s) : s[h] = s[j] => h = j
  BY OnePlace
<1>5. c \in Chain(a) /\ string[c].key = k /\ \A n \in Chain(a) : string[n].key = k => n \in From(c)
  BY DEF GetObjectItem
<1>6. Tree!Named(a, k) = {i \in DOMAIN s : /\ ItemKeys[s[i]] = k
                                           /\ \A j \in 1 .. i - 1 : ItemKeys[s[j]] # k}
  BY DEF Tree!Named
<1>7. \A n \in Item : ItemKeys[n] = string[n].key
  BY DEF ItemKeys
<1> HIDE DEF s
<1>8. PICK i \in 1 .. Len(s) : c = s[i]
  BY <1>2, <1>5
<1>9. ASSUME NEW j \in 1 .. i - 1, ItemKeys[s[j]] = k
      PROVE  FALSE
  <2>1. j \in 1 .. Len(s) /\ j < i
    BY <1>1, <1>8
  <2>2. s[j] \in From(s[i])
    <3>1. s[j] \in Chain(a)
      BY <2>1, <1>2
    <3>2. string[s[j]].key = k
      BY <2>1, <1>1, <1>7, <1>9
    <3> QED
      BY <3>1, <3>2, <1>5, <1>8
  <2>r. From(s[i]) = {s[h] : h \in i .. Len(s)}
    BY <1>3
  <2>3. PICK h \in i .. Len(s) : s[j] = s[h]
    BY <2>2, <2>r
  <2>4. h \in 1 .. Len(s) /\ h >= i
    BY <1>1, <1>8
  <2> QED
    BY <2>1, <2>3, <2>4, <1>1, <1>4
<1>10. i \in Tree!Named(a, k)
  BY <1>1, <1>5, <1>6, <1>7, <1>8, <1>9
<1> QED
  BY <1>8, <1>10 DEF s

\* Every subscript is one from 0 to the length.
LEMMA ClampSubscript ==
  ASSUME ForestInv, ListInv, NEW a \in live \ is_ref, NEW which \in Int
  PROVE  \E w \in 0 .. Len(Lists[a]) : Tree!Subscript(a, w) = Tree!Subscript(a, which)
<1>1. Len(Lists[a]) \in Nat /\ DOMAIN Lists[a] = 1 .. Len(Lists[a])
  BY ListOf
<1>2. \A w \in Int : Tree!Subscript(a, w) = {IF w > 0 THEN w + 1 ELSE 1} \cap 1 .. Len(Lists[a])
  BY <1>1 DEF Tree!Subscript
<1> DEFINE w == IF which <= 0 THEN 0 ELSE IF which > Len(Lists[a]) THEN Len(Lists[a]) ELSE which
<1>3. w \in 0 .. Len(Lists[a]) /\ w \in Int
  BY <1>1
<1>4. {IF w > 0 THEN w + 1 ELSE 1} \cap 1 .. Len(Lists[a])
      = {IF which > 0 THEN which + 1 ELSE 1} \cap 1 .. Len(Lists[a])
  BY <1>1
<1> QED
  BY <1>2, <1>3, <1>4

-----------------------------------------------------------------------------
(***************************************************************************)
(* Each operation is that of ItemTree.                                     *)
(***************************************************************************)

LEMMA StringType ==
  ASSUME ForestInv
  PROVE  string \in [Item -> String] /\ \A n \in Item \ live : string[n] = NoString
BY DEF ForestInv, Keys

\* The keys after one item got the string s, and after none did.
LEMMA OneKey ==
  ASSUME ForestInv, NEW x \in Item, NEW s, string' = [string EXCEPT ![x] = s]
  PROVE  ItemKeys' = [ItemKeys EXCEPT ![x] = s.key]
<1>1. \A n \in Item : string'[n] = IF n = x THEN s ELSE string[n]
  BY StringType
<1>2. ItemKeys' = [n \in Item |-> string'[n].key] /\ ItemKeys = [n \in Item |-> string[n].key]
  BY DEF ItemKeys
<1> QED
  BY <1>1, <1>2

LEMMA SameKeys ==
  ASSUME ForestInv, NEW x \in Item, string' = string
  PROVE  /\ ItemKeys' = ItemKeys
         /\ string' = [string EXCEPT ![x] = string[x]]
         /\ string[x].key = ItemKeys[x]
BY StringType DEF ItemKeys

\* Linking x at place i, with the string s.
LEMMA IsPut ==
  ASSUME ForestInv, ForestInv', ListInv, NEW a \in live \ is_ref, NEW x \in Item,
         a \notin Tree!Tree(Lists, x), NEW i,
         live' = live \cup {x}, held' = held \ {x},
         NEW s, string' = [string EXCEPT ![x] = s],
         Spelled(mem'.next, mem'.child, live', is_ref', [Lists EXCEPT ![a] = Tree!InsertAt(@, i, x)])
  PROVE  ListInv' /\ Tree!Put(a, i, x, s.key)
<1>1. Lists' = [Lists EXCEPT ![a] = Tree!InsertAt(@, i, x)] /\ ListInv'
  BY Becomes
<1>2. ItemKeys' = [ItemKeys EXCEPT ![x] = s.key]
  BY OneKey
<1> QED
  BY <1>1, <1>2 DEF Tree!Put

\* What the caller may link.
LEMMA LinkableIs ==
  ASSUME ForestInv, ListInv, NEW a, NEW x, Linkable(a, x)
  PROVE  /\ a \in live \ is_ref /\ x \in held /\ a \in Item /\ x \in Item
         /\ live = live \cup {x}
         /\ a \notin Tree!Tree(Lists, x)
<1>1. /\ x \in held /\ a \in live \ is_ref /\ a \notin Deleted(mem, x)
  BY DEF Linkable
<1>2. /\ Forest(mem.next, mem.prev, mem.child, live, is_ref, held)
      /\ Spelled(mem.next, mem.child, live, is_ref, Lists)
      /\ held \subseteq live /\ live \subseteq Item
  BY DEF ForestInv, ListInv, Forest, Linked
<1>3. a \notin Tree!Tree(Lists, x)
  BY <1>1, <1>2, BelowIsTree, DeletedIsBelow
<1> QED
  BY <1>1, <1>2, <1>3

\* AddItem puts it last, ...
LEMMA LinkPutsLast ==
  ASSUME ForestInv, ForestInv', ListInv, NEW a, NEW x, Linkable(a, x),
         live' = live, held' = held \ {x}, is_ref' = is_ref, mem' = AddItem(mem, a, x),
         NEW s, string' = [string EXCEPT ![x] = s]
  PROVE  ListInv' /\ Tree!Put(a, Tree!End(a), x, s.key)
<1>1. /\ a \in live \ is_ref /\ x \in held /\ a \in Item /\ x \in Item
      /\ live = live \cup {x} /\ a \notin Tree!Tree(Lists, x)
  BY LinkableIs
<1>2. mem \in Memory
  BY DEF ForestInv
<1>3. Spelled(mem'.next, mem'.child, live, is_ref,
              [Lists EXCEPT ![a] = Tree!InsertAt(@, Len(@) + 1, x)])
  BY <1>1, <1>2, AddItemAppends
<1>4. [Lists EXCEPT ![a] = Tree!InsertAt(@, Len(@) + 1, x)]
      = [Lists EXCEPT ![a] = Tree!InsertAt(@, Tree!End(a), x)]
  BY DEF Tree!End
<1> QED
  BY <1>1, <1>3, <1>4, IsPut

LEMMA AddItemToArrayIs ==
  ASSUME ForestInv, ForestInv', ListInv, NEW a \in Item, NEW x \in Item, AddItemToArray(a, x)
  PROVE  ListInv' /\ Tree!AddItemToArray(a, x)
<1>1. /\ Linkable(a, x) /\ mem' = AddItem(mem, a, x) /\ held' = held \ {x}
      /\ string' = string /\ is_ref' = is_ref /\ live' = live
  BY DEF AddItemToArray, strings
<1>2. string' = [string EXCEPT ![x] = string[x]] /\ string[x].key = ItemKeys[x]
  BY <1>1, SameKeys
<1>3. ListInv' /\ Tree!Put(a, Tree!End(a), x, ItemKeys[x])
  BY <1>1, <1>2, LinkPutsLast
<1>4. x \in held
  BY <1>1 DEF Linkable
<1> QED
  BY <1>3, <1>4 DEF Tree!AddItemToArray

LEMMA AddItemToObjectIs ==
  ASSUME ForestInv, ForestInv', ListInv, NEW a \in Item, NEW x \in Item, NEW k,
         AddItemToObject(a, k, x)
  PROVE  ListInv' /\ Tree!AddItemToObject(a, k, x)
<1>1. /\ Linkable(a, x) /\ mem' = AddItem(mem, a, x) /\ held' = held \ {x}
      /\ is_ref' = is_ref /\ live' = live
  BY DEF AddItemToObject
<1>2. PICK s \in {NoString, [key |-> k, at |-> "heap"]} : string' = [string EXCEPT ![x] = s]
  BY DEF AddItemToObject
<1>3. s.key \in {k, NULL}
  BY <1>2 DEF NoString
<1>4. ListInv' /\ Tree!Put(a, Tree!End(a), x, s.key)
  BY <1>1, <1>2, LinkPutsLast
<1>5. x \in held
  BY <1>1 DEF Linkable
<1> QED
  BY <1>3, <1>4, <1>5 DEF Tree!AddItemToObject

LEMMA AddItemToObjectCSIs ==
  ASSUME ForestInv, ForestInv', ListInv, NEW a \in Item, NEW x \in Item, NEW k,
         AddItemToObjectCS(a, k, x)
  PROVE  ListInv' /\ Tree!AddItemToObjectCS(a, k, x)
<1> DEFINE s == [key |-> k, at |-> "const"]
<1>1. /\ Linkable(a, x) /\ mem' = AddItem(mem, a, x) /\ held' = held \ {x}
      /\ is_ref' = is_ref /\ live' = live /\ string' = [string EXCEPT ![x] = s]
  BY DEF AddItemToObjectCS
<1>2. s.key = k
  OBVIOUS
<1> HIDE DEF s
<1>3. ListInv' /\ Tree!Put(a, Tree!End(a), x, k)
  BY <1>1, <1>2, LinkPutsLast
<1>4. x \in held
  BY <1>1 DEF Linkable
<1> QED
  BY <1>3, <1>4 DEF Tree!AddItemToObjectCS

\* ... and Insert before the item at the subscript.
LEMMA InsertItemInArrayIs ==
  ASSUME ForestInv, ForestInv', ListInv, NEW a \in Item, NEW x \in Item, NEW which \in Int,
         InsertItemInArray(a, which, x)
  PROVE  ListInv' /\ Tree!InsertItemInArray(a, which, x)
<1>1. /\ Linkable(a, x) /\ held' = held \ {x}
      /\ string' = string /\ is_ref' = is_ref /\ live' = live
      /\ \/ GetArrayItem(a, which) = {} /\ mem' = AddItem(mem, a, x)
         \/ \E c \in GetArrayItem(a, which) : mem' = Insert(mem, a, c, x)
  BY DEF InsertItemInArray, strings
<1>2. string' = [string EXCEPT ![x] = string[x]] /\ string[x].key = ItemKeys[x]
  BY <1>1, SameKeys
<1>3. /\ a \in live \ is_ref /\ x \in held /\ a \in Item /\ x \in Item
      /\ live = live \cup {x} /\ a \notin Tree!Tree(Lists, x)
  BY <1>1, LinkableIs
<1>4. Found(a, GetArrayItem(a, which), Tree!Subscript(a, which))
  BY <1>3, SubscriptIs
<1>5. CASE GetArrayItem(a, which) = {} /\ mem' = AddItem(mem, a, x)
  <2>1. ListInv' /\ Tree!Put(a, Tree!End(a), x, ItemKeys[x])
    BY <1>1, <1>2, <1>5, LinkPutsLast
  <2>2. Tree!Subscript(a, which) = {}
    BY <1>4, <1>5 DEF Found
  <2> QED
    BY <2>1, <2>2, <1>3 DEF Tree!InsertItemInArray
<1>6. CASE \E c \in GetArrayItem(a, which) : mem' = Insert(mem, a, c, x)
  <2>1. PICK c \in GetArrayItem(a, which) : mem' = Insert(mem, a, c, x)
    BY <1>6
  <2>2. PICK i \in Tree!Subscript(a, which) : i \in 1 .. Len(Lists[a]) /\ c = Lists[a][i]
    BY <1>4 DEF Found
  <2>3. Spelled(mem'.next, mem'.child, live, is_ref, [Lists EXCEPT ![a] = Tree!InsertAt(@, i, x)])
    BY <1>3, <2>1, <2>2, InsertPuts
  <2>4. ListInv' /\ Tree!Put(a, i, x, ItemKeys[x])
    BY <1>1, <1>2, <1>3, <2>3, IsPut
  <2> QED
    BY <2>2, <2>4, <1>3 DEF Tree!InsertItemInArray
<1> QED
  BY <1>1, <1>5, <1>6

\* A new reference r.
LEMMA ReferPutsLast ==
  ASSUME ForestInv, ForestInv', ListInv, NEW a \in live \ is_ref, NEW x \in live, NEW r \in Item,
         CreateReference(r, x), mem' = AddItem(Referring(r, x), a, r), held' = held,
         NEW s, string' = [string EXCEPT ![r] = s]
  PROVE  /\ ListInv' /\ Tree!Put(a, Tree!End(a), r, s.key)
         /\ r \notin live
<1>1. r \notin live /\ live' = live \cup {r} /\ is_ref' = is_ref \cup {r}
  BY DEF CreateReference
<1>2. /\ mem \in Memory /\ Forest(mem.next, mem.prev, mem.child, live, is_ref, held)
      /\ Spelled(mem.next, mem.child, live, is_ref, Lists)
      /\ held \subseteq live /\ live \subseteq Item
  BY DEF ForestInv, ListInv, Forest, Linked
<1> DEFINE m == Referring(r, x)
<1>3. /\ m \in Memory /\ m.next = mem.next
      /\ \A b \in live \ is_ref : m.child[b] = mem.child[b]
  BY <1>1, <1>2 DEF Referring, Memory
<1>4. mem' = AddItem(m, a, r)
  OBVIOUS
<1> HIDE DEF m
<1>5. Spelled(mem'.next, mem'.child, live, is_ref, [Lists EXCEPT ![a] = Tree!InsertAt(@, Len(@) + 1, r)])
  BY <1>1, <1>3, <1>4, AddItemAppends
<1>6. live' \ is_ref' = live \ is_ref
  BY <1>1
<1>7. Spelled(mem'.next, mem'.child, live', is_ref', [Lists EXCEPT ![a] = Tree!InsertAt(@, Len(@) + 1, r)])
  BY <1>5, <1>6, SameLists
<1>8. a \notin Tree!Tree(Lists, r)
  <2>0. Lists \in [Item -> Seq(Item)]
    BY <1>2 DEF Spelled
  <2>1. Lists[r] = <<>>
    <3>1. r \notin live \ is_ref
      BY <1>1
    <3> QED
      BY <3>1, <1>2, SpelledList
  <2>2. Under(Lists, {r})
    BY <2>0, <2>1 DEF Under
  <2>3. Tree!Tree(Lists, r) \subseteq {r}
    BY <2>0, <2>2, TreeIs
  <2> QED
    BY <2>3, <1>1
<1>9. [Lists EXCEPT ![a] = Tree!InsertAt(@, Len(@) + 1, r)]
      = [Lists EXCEPT ![a] = Tree!InsertAt(@, Tree!End(a), r)]
  BY DEF Tree!End
<1>10. held' = held \ {r}
  BY <1>1, <1>2
<1> QED
  BY <1>1, <1>7, <1>8, <1>9, <1>10, IsPut

LEMMA AddItemReferenceToArrayIs ==
  ASSUME ForestInv, ForestInv', ListInv, NEW a \in Item, NEW r \in Item, NEW x \in Item,
         AddItemReferenceToArray(a, r, x)
  PROVE  ListInv' /\ Tree!AddItemReferenceToArray(a, r, x)
<1>1. /\ a \in live \ is_ref /\ x \in live /\ CreateReference(r, x)
      /\ mem' = AddItem(Referring(r, x), a, r) /\ held' = held /\ string' = string
  BY DEF AddItemReferenceToArray
<1>2. string' = [string EXCEPT ![r] = string[r]]
  BY <1>1, SameKeys
<1>3. ListInv' /\ Tree!Put(a, Tree!End(a), r, string[r].key) /\ r \notin live
  BY <1>1, <1>2, ReferPutsLast
<1>4. string[r].key = NULL
  BY <1>3, StringType DEF NoString
<1> QED
  BY <1>1, <1>3, <1>4 DEF Tree!AddItemReferenceToArray

LEMMA AddItemReferenceToObjectIs ==
  ASSUME ForestInv, ForestInv', ListInv, NEW a \in Item, NEW r \in Item, NEW x \in Item, NEW k,
         AddItemReferenceToObject(a, k, r, x)
  PROVE  ListInv' /\ Tree!AddItemReferenceToObject(a, k, r, x)
<1>1. /\ a \in live \ is_ref /\ x \in live /\ CreateReference(r, x)
      /\ mem' = AddItem(Referring(r, x), a, r) /\ held' = held
  BY DEF AddItemReferenceToObject
<1>2. PICK s \in {NoString, [key |-> k, at |-> "heap"]} : string' = [string EXCEPT ![r] = s]
  BY DEF AddItemReferenceToObject
<1>3. s.key \in {k, NULL}
  BY <1>2 DEF NoString
<1>4. ListInv' /\ Tree!Put(a, Tree!End(a), r, s.key) /\ r \notin live
  BY <1>1, <1>2, ReferPutsLast
<1> QED
  BY <1>1, <1>3, <1>4 DEF Tree!AddItemReferenceToObject

\* Detaching the item at place i.
LEMMA DetachIsTake ==
  ASSUME ForestInv, ForestInv', ListInv, NEW a \in live \ is_ref,
         NEW i \in 1 .. Len(Lists[a]), DetachItem(a, Lists[a][i])
  PROVE  ListInv' /\ Tree!Take(a, i)
<1>1. /\ mem' = Detach(mem, a, Lists[a][i]) /\ held' = held \cup {Lists[a][i]}
      /\ live' = live /\ is_ref' = is_ref /\ string' = string
  BY DEF DetachItem, strings
<1>2. Spelled(mem'.next, mem'.child, live, is_ref, [Lists EXCEPT ![a] = Tree!RemoveAt(@, i)])
  BY <1>1, DetachTakes
<1>3. Lists' = [Lists EXCEPT ![a] = Tree!RemoveAt(@, i)] /\ ListInv'
  BY <1>1, <1>2, Becomes
<1>4. ItemKeys' = ItemKeys
  BY <1>1 DEF ItemKeys
<1> QED
  BY <1>1, <1>3, <1>4 DEF Tree!Take

LEMMA DetachItemFromArrayIs ==
  ASSUME ForestInv, ForestInv', ListInv, NEW a \in Item, NEW which \in Int,
         DetachItemFromArray(a, which)
  PROVE  a \in live \ is_ref /\ ListInv' /\ Tree!DetachItemFromArray(a, which)
<1>1. PICK c \in GetArrayItem(a, which) : a \in live \ is_ref /\ DetachItem(a, c)
  BY DEF DetachItemFromArray
<1>2. PICK i \in Tree!Subscript(a, which) : i \in 1 .. Len(Lists[a]) /\ c = Lists[a][i]
  BY <1>1, SubscriptIs DEF Found
<1>3. ListInv' /\ Tree!Take(a, i)
  BY <1>1, <1>2, DetachIsTake
<1> QED
  BY <1>1, <1>2, <1>3 DEF Tree!DetachItemFromArray

LEMMA DetachItemFromObjectIs ==
  ASSUME ForestInv, ForestInv', ListInv, NEW a \in Item, NEW k, DetachItemFromObject(a, k)
  PROVE  ListInv' /\ Tree!DetachItemFromObject(a, k)
<1>1. PICK c \in GetObjectItem(a, k) : a \in live \ is_ref /\ DetachItem(a, c)
  BY DEF DetachItemFromObject
<1>2. PICK i \in Tree!Named(a, k) : i \in 1 .. Len(Lists[a]) /\ c = Lists[a][i]
  BY <1>1, NamedIs
<1>3. ListInv' /\ Tree!Take(a, i)
  BY <1>1, <1>2, DetachIsTake
<1> QED
  BY <1>2, <1>3 DEF Tree!DetachItemFromObject

KeysOf(str) == [n \in Item |-> str[n].key]

\* cJSON_Delete drops a tree, from the lists L and the strings of the moment.
LEMMA DeleteIsDrop ==
  ASSUME ForestInv', NEW m \in Memory, NEW str, NEW hd, NEW L,
         Forest(m.next, m.prev, m.child, live, is_ref, hd), Spelled(m.next, m.child, live, is_ref, L),
         NEW c \in hd, Delete(m, str, c)
  PROVE  ListInv' /\ Tree!Drop(L, KeysOf(str), c)
<1> DEFINE K == KeysOf(str)
<1>0. \A n \in Item : K[n] = str[n].key
  BY DEF KeysOf
<1> HIDE DEF K
<1>1. /\ Spelled(mem'.next, mem'.child, live', is_ref', Tree!Without(L, c))
      /\ live' = live \ Tree!Tree(L, c)
  BY DeleteDrops
<1>2. Lists' = Tree!Without(L, c) /\ ListInv'
  BY <1>1, Becomes
<1>3. Deleted(m, c) = Tree!Tree(L, c)
  BY BelowIsTree, DeletedIsBelow
<1>4. string' = [n \in Item |-> IF n \in Deleted(m, c) THEN NoString ELSE str[n]]
  BY DEF Delete
<1>5. \A n \in Item : string'[n].key = IF n \in Tree!Tree(L, c) THEN NULL ELSE K[n]
  <2> SUFFICES ASSUME NEW n \in Item
               PROVE  string'[n].key = IF n \in Tree!Tree(L, c) THEN NULL ELSE K[n]
    OBVIOUS
  <2>1. string'[n] = IF n \in Tree!Tree(L, c) THEN NoString ELSE str[n]
    BY <1>3, <1>4
  <2>2. NoString.key = NULL
    BY DEF NoString
  <2> QED
    BY <2>1, <2>2, <1>0
<1>6. ItemKeys' = [n \in Item |-> string'[n].key]
  BY DEF ItemKeys
<1>7. ItemKeys' = [n \in Item |-> IF n \in Tree!Tree(L, c) THEN NULL ELSE K[n]]
  BY <1>5, <1>6
<1> QED
  BY <1>1, <1>2, <1>7 DEF Tree!Drop, K

LEMMA DeleteItemIs ==
  ASSUME ForestInv, ForestInv', ListInv, NEW x \in Item, DeleteItem(x)
  PROVE  ListInv' /\ Tree!DeleteItem(x)
<1>1. x \in held /\ Delete(mem, string, x) /\ held' = held \ {x}
  BY DEF DeleteItem
<1>2. /\ mem \in Memory /\ Forest(mem.next, mem.prev, mem.child, live, is_ref, held)
      /\ Spelled(mem.next, mem.child, live, is_ref, Lists)
  BY DEF ForestInv, ListInv
<1>3. ItemKeys = KeysOf(string)
  BY DEF ItemKeys, KeysOf
<1>4. ListInv' /\ Tree!Drop(Lists, ItemKeys, x)
  BY <1>1, <1>2, <1>3, DeleteIsDrop
<1> QED
  BY <1>1, <1>4 DEF Tree!DeleteItem

\* Deleting the item at place i.
LEMMA DeleteIsErase ==
  ASSUME ForestInv, ForestInv', ListInv, NEW a \in live \ is_ref,
         NEW i \in 1 .. Len(Lists[a]), NEW c, c = Lists[a][i],
         Delete(Detach(mem, a, c), string, c), held' = held
  PROVE  ListInv' /\ Tree!Erase(a, i)
<1> DEFINE m == Detach(mem, a, c)
           t == [Lists EXCEPT ![a] = Tree!RemoveAt(@, i)]
<1>1. c \in Chain(a)
  BY ChainIs
<1>2. /\ m \in Memory /\ c \in held \cup {c}
      /\ Forest(m.next, m.prev, m.child, live, is_ref, held \cup {c})
  BY <1>1, DetachEffect
<1>3. Spelled(m.next, m.child, live, is_ref, t)
  BY DetachTakes
<1>4. Delete(m, string, c)
  OBVIOUS
<1>5. ItemKeys = KeysOf(string)
  BY DEF ItemKeys, KeysOf
<1> HIDE DEF m, t
<1>6. ListInv' /\ Tree!Drop(t, ItemKeys, c)
  BY <1>2, <1>3, <1>4, <1>5, DeleteIsDrop
<1> QED
  BY <1>6 DEF Tree!Erase, t

LEMMA DeleteItemFromArrayIs ==
  ASSUME ForestInv, ForestInv', ListInv, NEW a \in Item, NEW which \in Int,
         DeleteItemFromArray(a, which)
  PROVE  a \in live \ is_ref /\ ListInv' /\ Tree!DeleteItemFromArray(a, which)
<1>1. PICK c \in GetArrayItem(a, which) :
        a \in live \ is_ref /\ Delete(Detach(mem, a, c), string, c) /\ held' = held
  BY DEF DeleteItemFromArray
<1>2. PICK i \in Tree!Subscript(a, which) : i \in 1 .. Len(Lists[a]) /\ c = Lists[a][i]
  BY <1>1, SubscriptIs DEF Found
<1>3. ListInv' /\ Tree!Erase(a, i)
  BY <1>1, <1>2, DeleteIsErase
<1> QED
  BY <1>1, <1>2, <1>3 DEF Tree!DeleteItemFromArray

LEMMA DeleteItemFromObjectIs ==
  ASSUME ForestInv, ForestInv', ListInv, NEW a \in Item, NEW k, DeleteItemFromObject(a, k)
  PROVE  ListInv' /\ Tree!DeleteItemFromObject(a, k)
<1>1. PICK c \in GetObjectItem(a, k) :
        a \in live \ is_ref /\ Delete(Detach(mem, a, c), string, c) /\ held' = held
  BY DEF DeleteItemFromObject
<1>2. PICK i \in Tree!Named(a, k) : i \in 1 .. Len(Lists[a]) /\ c = Lists[a][i]
  BY <1>1, NamedIs
<1>3. ListInv' /\ Tree!Erase(a, i)
  BY <1>1, <1>2, DeleteIsErase
<1> QED
  BY <1>2, <1>3 DEF Tree!DeleteItemFromObject

\* Replacing the item at place i by x, which gets the string s.
LEMMA ReplaceIsSwap ==
  ASSUME ForestInv, ForestInv', ListInv, NEW a, NEW x, Linkable(a, x),
         NEW i \in 1 .. Len(Lists[a]), NEW c, c = Lists[a][i],
         NEW s, Delete(Replace(mem, a, c, x), [string EXCEPT ![x] = s], c), held' = held \ {x}
  PROVE  ListInv' /\ Tree!Swap(a, i, x, s.key)
<1> DEFINE m == Replace(mem, a, c, x)
           t == [Lists EXCEPT ![a][i] = x]
           str == [string EXCEPT ![x] = s]
           K == [ItemKeys EXCEPT ![x] = s.key]
<1>1. /\ a \in live \ is_ref /\ x \in held /\ x \in Item /\ a \notin Tree!Tree(Lists, x)
  BY LinkableIs
<1>2. c \in Chain(a)
  BY <1>1, ChainIs
<1>3. /\ m \in Memory /\ c \in (held \ {x}) \cup {c}
      /\ Forest(m.next, m.prev, m.child, live, is_ref, (held \ {x}) \cup {c})
  BY <1>2, ReplaceEffect
<1>4. Spelled(m.next, m.child, live, is_ref, t)
  BY <1>1, ReplaceSwaps
<1>5. Delete(m, str, c)
  OBVIOUS
<1>6. K = KeysOf(str)
  <2>1. \A n \in Item : str[n] = IF n = x THEN s ELSE string[n]
    BY StringType
  <2>2. K = [n \in Item |-> IF n = x THEN s.key ELSE string[n].key]
    BY DEF ItemKeys
  <2> HIDE DEF K, str
  <2> QED
    BY <2>1, <2>2 DEF KeysOf
<1> HIDE DEF m, t, str, K
<1>7. ListInv' /\ Tree!Drop(t, K, c)
  BY <1>3, <1>4, <1>5, <1>6, DeleteIsDrop
<1> QED
  BY <1>1, <1>7 DEF Tree!Swap, t, K

LEMMA ReplaceItemInArrayIs ==
  ASSUME ForestInv, ForestInv', ListInv, NEW a \in Item, NEW x \in Item, NEW which \in Int,
         ReplaceItemInArray(a, which, x)
  PROVE  a \in live \ is_ref /\ ListInv' /\ Tree!ReplaceItemInArray(a, which, x)
<1>1. Linkable(a, x) /\ held' = held \ {x}
  BY DEF ReplaceItemInArray
<1>2. a \in live \ is_ref /\ x \in held
  BY <1>1, LinkableIs
<1>3. PICK c \in GetArrayItem(a, which) : Delete(Replace(mem, a, c, x), string, c)
  BY DEF ReplaceItemInArray
<1>4. PICK i \in Tree!Subscript(a, which) : i \in 1 .. Len(Lists[a]) /\ c = Lists[a][i]
  BY <1>2, <1>3, SubscriptIs DEF Found
<1>5. string = [string EXCEPT ![x] = string[x]] /\ string[x].key = ItemKeys[x]
  BY StringType DEF ItemKeys
<1>6. Delete(Replace(mem, a, c, x), [string EXCEPT ![x] = string[x]], c)
  BY <1>3, <1>5
<1>7. ListInv' /\ Tree!Swap(a, i, x, ItemKeys[x])
  BY <1>1, <1>4, <1>5, <1>6, ReplaceIsSwap
<1> QED
  BY <1>2, <1>4, <1>7 DEF Tree!ReplaceItemInArray

LEMMA ReplaceItemInObjectIs ==
  ASSUME ForestInv, ForestInv', ListInv, NEW a \in Item, NEW x \in Item, NEW k,
         ReplaceItemInObject(a, k, x)
  PROVE  ListInv' /\ Tree!ReplaceItemInObject(a, k, x)
<1>1. Linkable(a, x) /\ held' = held \ {x}
  BY DEF ReplaceItemInObject
<1>2. a \in live \ is_ref /\ x \in held
  BY <1>1, LinkableIs
<1>3. PICK c \in GetObjectItem(a, k), s \in {NoString, [key |-> k, at |-> "heap"]} :
        Delete(Replace(mem, a, c, x), [string EXCEPT ![x] = s], c)
  BY DEF ReplaceItemInObject
<1>4. PICK i \in Tree!Named(a, k) : i \in 1 .. Len(Lists[a]) /\ c = Lists[a][i]
  BY <1>2, <1>3, NamedIs
<1>5. s.key \in {k, NULL}
  BY <1>3 DEF NoString
<1>6. ListInv' /\ Tree!Swap(a, i, x, s.key)
  BY <1>1, <1>3, <1>4, ReplaceIsSwap
<1> QED
  BY <1>2, <1>4, <1>5, <1>6 DEF Tree!ReplaceItemInObject

\* New items C, with the lists that L has of them.
LEMMA IsNew ==
  ASSUME ForestInv, ForestInv', ListInv, NEW C \in SUBSET (Item \ live),
         live' = live \cup C, is_ref' = is_ref,
         SameOn(live, mem.next, mem.child, mem'.next, mem'.child),
         NEW L, NewLists(C, mem'.next, mem'.child, Lists, L)
  PROVE  Lists' = L /\ ListInv'
<1>1. /\ Forest(mem.next, mem.prev, mem.child, live, is_ref, held)
      /\ Spelled(mem.next, mem.child, live, is_ref, Lists)
  BY DEF ForestInv, ListInv
<1>2. Spelled(mem'.next, mem'.child, live \cup C, is_ref, L)
  BY <1>1, NewSpelled
<1> QED
  BY <1>2, Becomes

LEMMA CreateIs ==
  ASSUME ForestInv, ForestInv', ListInv, NEW n \in Item, Create(n)
  PROVE  ListInv' /\ Tree!Create(n)
<1>1. /\ n \notin live /\ live' = live \cup {n} /\ held' = held \cup {n}
      /\ mem' = mem /\ is_ref' = is_ref /\ string' = string
  BY DEF Create, strings
<1>2. /\ Forest(mem.next, mem.prev, mem.child, live, is_ref, held)
      /\ Spelled(mem.next, mem.child, live, is_ref, Lists)
  BY DEF ForestInv, ListInv
<1>3. SameOn(live, mem.next, mem.child, mem'.next, mem'.child)
  BY <1>1 DEF SameOn
<1>4. Spells(mem'.next, mem'.child[n], Lists[n])
  <2>1. mem.child[n] = NULL
    BY <1>1, <1>2 DEF Forest, Linked
  <2>2. n \notin live \ is_ref
    BY <1>1
  <2>3. Spells(mem.next, IF n \in live \ is_ref THEN mem.child[n] ELSE NULL, Lists[n])
    BY <1>2 DEF Spelled
  <2> QED
    BY <2>1, <2>2, <2>3, <1>1
<1>5. NewLists({n}, mem'.next, mem'.child, Lists, Lists)
  BY <1>2, <1>4 DEF NewLists, Spelled
<1>6. {n} \in SUBSET (Item \ live)
  BY <1>1
<1>7. Lists' = Lists /\ ListInv'
  BY <1>1, <1>3, <1>5, <1>6, IsNew
<1>8. ItemKeys' = ItemKeys
  BY <1>1 DEF ItemKeys
<1> QED
  BY <1>1, <1>7, <1>8 DEF Tree!Create

\* The list of the new array is s.
LEMMA CreateArrayOfIs ==
  ASSUME ForestInv, ForestInv', ListInv, NEW a \in Item \ live, NEW count \in Nat \ {0},
         NEW s \in [1 .. count -> Item \ live], CreateArrayOf(a, s)
  PROVE  ListInv' /\ Lists'[a] = s /\ Tree!CreateArrayOf(a, s)
<1> DEFINE S == {s[i] : i \in 1 .. count}
           C == {a} \cup S
           L == [Lists EXCEPT ![a] = s]
<1>1. /\ live' = live \cup C /\ held' = held \cup {a} /\ is_ref' = is_ref
      /\ string' = string
  <2>1. DOMAIN s = 1 .. count
    OBVIOUS
  <2> QED
    BY <2>1 DEF CreateArrayOf, strings
<1>2. InArray(mem.next, mem.prev, mem.child, a, count, s, S, mem'.next, mem'.prev, mem'.child)
  BY CreateArrayStep
<1>3. /\ Forest(mem.next, mem.prev, mem.child, live, is_ref, held)
      /\ Spelled(mem.next, mem.child, live, is_ref, Lists)
      /\ C \in SUBSET (Item \ live) /\ a \in C
  BY DEF ForestInv, ListInv
<1>4. /\ s \in Seq(Item) /\ Len(s) = count /\ count \in Nat
      /\ \A i \in 1 .. count : s[i] \in S /\ s[i] # a
  BY <1>2 DEF InArray
<1>5. /\ Lists \in [Item -> Seq(Item)] /\ live \subseteq Item
      /\ mem.next \in [Item -> Pointer] /\ mem.child \in [Item -> Pointer]
      /\ \A n \in Item \ live : mem.child[n] = NULL
  BY <1>3 DEF Forest, Linked, Spelled
<1>6. SameOn(live, mem.next, mem.child, mem'.next, mem'.child)
  BY <1>2, <1>3, <1>5 DEF SameOn, InArray
<1>7. Spells(mem'.next, mem'.child[a], s)
  <2>1. mem'.child[a] = s[1] /\ \A i \in 1 .. count : mem'.next[s[i]] = IF i = count THEN NULL ELSE s[i + 1]
    BY <1>2 DEF InArray
  <2>2. Nth(s, 1) = s[1]
    BY <1>4 DEF Nth
  <2>3. ASSUME NEW i \in 1 .. Len(s) PROVE mem'.next[s[i]] = Nth(s, i + 1)
    <3>1. i \in 1 .. count /\ (i + 1 \in 1 .. Len(s) <=> i # count)
      BY <1>4
    <3>2. mem'.next[s[i]] = IF i = count THEN NULL ELSE s[i + 1]
      BY <3>1, <2>1
    <3> QED
      BY <3>1, <3>2 DEF Nth
  <2> QED
    BY <2>1, <2>2, <2>3, <1>4 DEF Spells
<1>8. /\ L \in [Item -> Seq(Item)] /\ L[a] = s
      /\ \A n \in Item : n # a => L[n] = Lists[n]
  BY <1>4, <1>5
<1> HIDE DEF L
<1>9. ASSUME NEW n \in S, n # a
      PROVE  Spells(mem'.next, mem'.child[n], L[n])
  <2>1. n \in Item /\ n \notin live
    BY <1>9, <1>3
  <2>2. mem'.child[n] = NULL
    BY <2>1, <1>2, <1>5, <1>9 DEF InArray
  <2>3. L[n] = <<>>
    <3>1. Lists[n] = <<>>
      BY <2>1, <1>3, SpelledList
    <3> QED
      BY <3>1, <2>1, <1>8, <1>9
  <2> QED
    BY <2>2, <2>3 DEF Spells, Nth
<1>10. NewLists(C, mem'.next, mem'.child, Lists, L)
  <2>1. \A n \in Item \ C : L[n] = Lists[n]
    BY <1>8
  <2>2. \A n \in C : Spells(mem'.next, mem'.child[n], L[n])
    BY <1>7, <1>8, <1>9
  <2> QED
    BY <2>1, <2>2, <1>8 DEF NewLists
<1>11. /\ Tree!ToSet(s) = S /\ C = {a} \cup Tree!ToSet(s) /\ a \notin Tree!ToSet(s)
  <2>1. DOMAIN s = 1 .. count
    OBVIOUS
  <2>2. Tree!ToSet(s) = S
    BY <2>1 DEF Tree!ToSet
  <2> QED
    BY <2>2, <1>4
<1>12. Tree!IsInjective(s)
  BY DEF Tree!IsInjective, CreateArrayOf
<1> HIDE DEF C, S
<1>13. Lists' = L /\ ListInv'
  BY <1>1, <1>3, <1>6, <1>10, IsNew
<1>14. ItemKeys' = ItemKeys
  BY <1>1 DEF ItemKeys
<1>15. live' = live \cup {a} \cup Tree!ToSet(s) /\ ({a} \cup Tree!ToSet(s)) \cap live = {}
  BY <1>1, <1>3, <1>11
<1>16. Tree!CreateArrayOf(a, s)
  BY <1>1, <1>11, <1>12, <1>13, <1>14, <1>15 DEF Tree!CreateArrayOf, L
<1> QED
  BY <1>8, <1>13, <1>16

\* The lists of the copies are the copies of the lists.
LEMMA DuplicateIs ==
  ASSUME ForestInv, ForestInv', ListInv, NEW x \in Item, NEW recurse \in BOOLEAN,
         Duplicate(x, recurse)
  PROVE  ListInv' /\ Tree!Duplicate(x, recurse)
<1>1. PICK D \in SUBSET live : \E f \in [D -> Item \ live] :
        LET C == {f[d] : d \in D}
        IN  /\ live' = live \cup C /\ held' = held \cup {f[x]} /\ is_ref' = is_ref
            /\ Copyable(mem.next, mem.prev, mem.child, is_ref, x, recurse, D)
            /\ Copied(mem.next, mem.prev, mem.child, x, recurse, D, f, C,
                      mem'.next, mem'.prev, mem'.child)
            /\ \A d \in D : string'[f[d]].key = string[d].key
            /\ \A n \in Item \ C : string'[n] = string[n]
  BY DuplicateStep
<1>2. PICK f \in [D -> Item \ live] :
        LET C == {f[d] : d \in D}
        IN  /\ live' = live \cup C /\ held' = held \cup {f[x]} /\ is_ref' = is_ref
            /\ Copyable(mem.next, mem.prev, mem.child, is_ref, x, recurse, D)
            /\ Copied(mem.next, mem.prev, mem.child, x, recurse, D, f, C,
                      mem'.next, mem'.prev, mem'.child)
            /\ \A d \in D : string'[f[d]].key = string[d].key
            /\ \A n \in Item \ C : string'[n] = string[n]
  BY <1>1
<1> DEFINE C == {f[d] : d \in D}
           Of(n) == CHOOSE d \in D : f[d] = n
           Copy(s) == IF recurse THEN [i \in DOMAIN s |-> f[s[i]]] ELSE <<>>
           L == [n \in Item |-> IF n \in C THEN Copy(Lists[Of(n)]) ELSE Lists[n]]
<1>3. /\ live' = live \cup C /\ held' = held \cup {f[x]} /\ is_ref' = is_ref
      /\ Copyable(mem.next, mem.prev, mem.child, is_ref, x, recurse, D)
      /\ Copied(mem.next, mem.prev, mem.child, x, recurse, D, f, C,
                mem'.next, mem'.prev, mem'.child)
  BY <1>2
<1>k. /\ \A d \in D : string'[f[d]].key = string[d].key
      /\ \A n \in Item \ C : string'[n] = string[n]
  BY <1>2
<1>4. /\ C \in SUBSET (Item \ live) /\ x \in D /\ f[x] \in C
      /\ \A n \in C : Of(n) \in D /\ f[Of(n)] = n
      /\ \A d \in D : f[d] \in Item
  BY <1>3 DEF Copyable
<1>l. L = [n \in Item |-> IF n \in C THEN Copy(Lists[Of(n)]) ELSE Lists[n]]
  OBVIOUS
<1> HIDE DEF C, Of, L
<1>5. /\ Spelled(mem.next, mem.child, live, is_ref, Lists) /\ Lists \in [Item -> Seq(Item)]
      /\ live \subseteq Item /\ D \subseteq Item
  BY DEF ForestInv, Forest, Linked, ListInv, Spelled
<1>6. SameOn(live, mem.next, mem.child, mem'.next, mem'.child)
  BY <1>3, <1>4, <1>5 DEF SameOn, Copied
<1>s. ASSUME NEW d \in D, recurse
      PROVE  /\ d \in live /\ d \notin is_ref /\ d \in Item
             /\ Lists[d] \in Seq(Item) /\ Len(Lists[d]) \in Nat /\ DOMAIN Lists[d] = 1 .. Len(Lists[d])
             /\ Nth(Lists[d], 1) = mem.child[d]
             /\ \A i \in 1 .. Len(Lists[d]) : /\ Lists[d][i] \in Item
                                              /\ mem.next[Lists[d][i]] = Nth(Lists[d], i + 1)
                                              /\ Lists[d][i] \in D \ {x}
  <2> DEFINE s == Lists[d]
             S == D \ {x}
  <2>1. d \in live /\ d \notin is_ref /\ d \in Item
    BY <1>s, <1>3, <1>5 DEF Copyable
  <2>2. /\ s \in Seq(Item) /\ Len(s) \in Nat /\ DOMAIN s = 1 .. Len(s) /\ Nth(s, 1) = mem.child[d]
        /\ \A i \in 1 .. Len(s) : s[i] \in Item /\ mem.next[s[i]] = Nth(s, i + 1)
    BY <2>1, <1>5, SpelledList
  <2>3. Spells(mem.next, mem.child[d], s)
    BY <2>2 DEF Spells
  <2>4. mem.child[d] \in S \cup {NULL}
    BY <1>s, <1>3 DEF Copyable
  <2>5. \A k \in S : mem.next[k] \in S \cup {NULL}
    BY <1>3 DEF Copyable
  <2> HIDE DEF S, s
  <2>6. \A i \in 1 .. Len(s) : s[i] \in S
    BY <2>3, <2>4, <2>5, ListInside
  <2> QED
    BY <2>1, <2>2, <2>6 DEF S, s
<1>7. ASSUME NEW d \in D
      PROVE  Copy(Lists[d]) \in Seq(Item) /\ Spells(mem'.next, mem'.child[f[d]], Copy(Lists[d]))
  <2>1. CASE ~recurse
    <3>1. mem'.child[f[d]] = NULL
      BY <2>1, <1>3 DEF Copied
    <3> QED
      BY <3>1, <2>1 DEF Spells, Nth
  <2>2. CASE recurse
    <3> DEFINE s == Lists[d]
               t == [i \in DOMAIN s |-> f[s[i]]]
    <3>2. /\ s \in Seq(Item) /\ Len(s) \in Nat /\ DOMAIN s = 1 .. Len(s) /\ Nth(s, 1) = mem.child[d]
          /\ \A i \in 1 .. Len(s) : s[i] \in Item /\ mem.next[s[i]] = Nth(s, i + 1)
      BY <2>2, <1>s
    <3>4. \A i \in 1 .. Len(s) : s[i] \in D \ {x}
      BY <2>2, <1>s
    <3> HIDE DEF s
    <3>5. t \in Seq(Item) /\ Len(t) = Len(s) /\ \A i \in 1 .. Len(s) : t[i] = f[s[i]]
      BY <3>2, <3>4, <1>4
    <3> HIDE DEF t
    <3>6. NULL \notin D
      BY <1>5, ItemsAssumption
    <3>7. Nth(t, 1) = mem'.child[f[d]]
      <4>1. mem'.child[f[d]] = IF mem.child[d] \in D THEN f[mem.child[d]] ELSE NULL
        BY <2>2, <1>3 DEF Copied
      <4>2. CASE Len(s) = 0
        <5>1. Nth(s, 1) = NULL /\ Nth(t, 1) = NULL
          BY <4>2, <3>5 DEF Nth
        <5> QED
          BY <5>1, <4>1, <3>2, <3>6
      <4>3. CASE Len(s) # 0
        <5>1. 1 \in 1 .. Len(s)
          BY <4>3, <3>2
        <5>2. Nth(s, 1) = s[1] /\ Nth(t, 1) = f[s[1]]
          BY <5>1, <3>5 DEF Nth
        <5> QED
          BY <5>1, <5>2, <4>1, <3>2, <3>4
      <4> QED
        BY <4>2, <4>3
    <3>8. ASSUME NEW i \in 1 .. Len(t)
          PROVE  mem'.next[t[i]] = Nth(t, i + 1)
      <4>1. i \in 1 .. Len(s) /\ t[i] = f[s[i]] /\ s[i] \in D /\ s[i] # x /\ i \in Nat
        BY <3>2, <3>4, <3>5
      <4>2. mem'.next[t[i]] = IF mem.next[s[i]] \in D THEN f[mem.next[s[i]]] ELSE NULL
        BY <4>1, <1>3 DEF Copied
      <4>3. mem.next[s[i]] = Nth(s, i + 1)
        BY <4>1, <3>2
      <4>4. CASE i + 1 \in 1 .. Len(s)
        <5>1. Nth(s, i + 1) = s[i + 1] /\ Nth(t, i + 1) = f[s[i + 1]] /\ s[i + 1] \in D
          BY <4>4, <3>4, <3>5 DEF Nth
        <5> QED
          BY <5>1, <4>2, <4>3
      <4>5. CASE i + 1 \notin 1 .. Len(s)
        <5>1. Nth(s, i + 1) = NULL /\ Nth(t, i + 1) = NULL
          BY <4>5, <3>5 DEF Nth
        <5> QED
          BY <5>1, <4>2, <4>3, <3>6
      <4> QED
        BY <4>4, <4>5
    <3>9. Spells(mem'.next, mem'.child[f[d]], t)
      BY <3>5, <3>7, <3>8 DEF Spells
    <3> QED
      BY <3>5, <3>9, <2>2 DEF t, s
  <2> QED
    BY <2>1, <2>2
<1> HIDE DEF Copy
<1>8. NewLists(C, mem'.next, mem'.child, Lists, L)
  <2>1. L \in [Item -> Seq(Item)]
    BY <1>l, <1>4, <1>5, <1>7
  <2>2. \A n \in Item \ C : L[n] = Lists[n]
    BY <1>l
  <2>3. ASSUME NEW n \in C
        PROVE  Spells(mem'.next, mem'.child[n], L[n])
    <3>1. Of(n) \in D /\ f[Of(n)] = n /\ L[n] = Copy(Lists[Of(n)])
      BY <1>l, <1>4
    <3>2. Spells(mem'.next, mem'.child[f[Of(n)]], Copy(Lists[Of(n)]))
      BY <3>1, <1>7
    <3> QED
      BY <3>1, <3>2
  <2> QED
    BY <2>1, <2>2, <2>3 DEF NewLists
<1>9. Lists' = L /\ ListInv'
  BY <1>3, <1>4, <1>6, <1>8, IsNew
<1>10. D = IF recurse THEN Tree!Tree(Lists, x) ELSE {x}
  <2>m. \A S \in SUBSET D :
          /\ x \in S
          /\ \A k \in S : /\ k # x => mem.next[k] \in S \cup {NULL}
                          /\ recurse => mem.child[k] \in S \cup {NULL}
          => D \subseteq S
    BY <1>3 DEF Copyable
  <2>1. CASE ~recurse
    <3> DEFINE S == {x}
    <3>0. S \in SUBSET D /\ x \in S /\ \A k \in S : k = x
      BY <1>4
    <3> HIDE DEF S
    <3>s. D \subseteq S
      BY <2>m, <2>1, <3>0
    <3>1. D \subseteq {x}
      BY <3>s DEF S
    <3> QED
      BY <3>1, <2>1, <1>4
  <2>2. CASE recurse
    <3> DEFINE T == Tree!Tree(Lists, x)
    <3>1. /\ x \in T /\ T \subseteq Item /\ Under(Lists, T)
          /\ \A S \in SUBSET Item : x \in S /\ Under(Lists, S) => T \subseteq S
      BY <1>5, TreeIs
    <3>2. \A n \in T : n # x => \E k \in T : \E i \in 1 .. Len(Lists[k]) : n = Lists[k][i]
      <4>1. SUFFICES ASSUME NEW n \in Tree!Tree(Lists, x), n # x
                     PROVE  \E k \in Tree!Tree(Lists, x) : \E i \in 1 .. Len(Lists[k]) : n = Lists[k][i]
        OBVIOUS
      <4>2. Lists \in [Item -> Seq(Item)]
        BY <1>5
      <4> QED
        BY ONLY <4>1, <4>2, x \in Item, TreeHasOwner
    <3> HIDE DEF T
    <3>3. T \subseteq D
      <4>1. Under(Lists, D)
        BY <2>2, <1>s DEF Under
      <4> QED
        BY <4>1, <3>1, <1>4, <1>5
    <3>4. ASSUME NEW n \in T, n # x
          PROVE  mem.next[n] \in T \cup {NULL}
      <4>1. PICK k \in T : \E i \in 1 .. Len(Lists[k]) : n = Lists[k][i]
        BY <3>2, <3>4
      <4>2. PICK i \in 1 .. Len(Lists[k]) : n = Lists[k][i]
        BY <4>1
      <4>3. mem.next[n] = Nth(Lists[k], i + 1)
        BY <4>2, <3>3, <2>2, <1>s
      <4> QED
        BY <4>3, <3>1 DEF Nth, Under
    <3>5. ASSUME NEW n \in T
          PROVE  mem.child[n] \in T \cup {NULL}
      <4>1. mem.child[n] = Nth(Lists[n], 1)
        BY <3>3, <2>2, <1>s
      <4> QED
        BY <4>1, <3>1 DEF Nth, Under
    <3>6. D \subseteq T
      BY <2>m, <3>1, <3>3, <3>4, <3>5
    <3> QED
      BY <3>3, <3>6, <2>2 DEF T
  <2> QED
    BY <2>1, <2>2
<1>11. ItemKeys' = [n \in Item |-> IF n \in C THEN ItemKeys[Of(n)] ELSE ItemKeys[n]]
  <2>1. ASSUME NEW n \in Item
        PROVE  string'[n].key = IF n \in C THEN ItemKeys[Of(n)] ELSE ItemKeys[n]
    <3>1. CASE n \in C
      <4>1. Of(n) \in D /\ f[Of(n)] = n /\ Of(n) \in Item
        BY <3>1, <1>4, <1>5
      <4>2. string'[n].key = string[Of(n)].key
        BY <4>1, <1>k
      <4> QED
        BY <4>1, <4>2, <3>1 DEF ItemKeys
    <3>2. CASE n \notin C
      BY <3>2, <1>k DEF ItemKeys
    <3> QED
      BY <3>1, <3>2
  <2>2. ItemKeys' = [n \in Item |-> string'[n].key]
    BY DEF ItemKeys
  <2> QED
    BY <2>1, <2>2
<1>12. x \in live /\ \A d, e \in D : f[d] = f[e] => d = e
  BY <1>3, <1>4 DEF Copied
<1>13. Lists' = [n \in Item |-> IF n \in C THEN Copy(Lists[Of(n)]) ELSE Lists[n]]
  BY <1>9, <1>l
<1> QED
  BY <1>3, <1>9, <1>10, <1>11, <1>12, <1>13 DEF Tree!Duplicate, C, Of, Copy

\* The initial lists are empty.
LEMMA ListInit ==
  ASSUME Init, ForestInv
  PROVE  ListInv /\ Tree!Init
<1> DEFINE L == [a \in Item |-> <<>>]
<1>1. Spelled(mem.next, mem.child, live, is_ref, L)
  <2>1. \A a \in Item : Spells(mem.next, IF a \in live \ is_ref THEN mem.child[a] ELSE NULL, L[a])
    BY DEF Spells, Nth, Init
  <2> QED
    BY <2>1 DEF Spelled
<1>2. Forest(mem.next, mem.prev, mem.child, live, is_ref, held)
  BY DEF ForestInv
<1>3. Lists = L
  <2> HIDE DEF L
  <2>1. ListsOf(mem.next, mem.child, live, is_ref) = L
    BY <1>1, <1>2, ListsAre
  <2> QED
    BY <2>1, ListsOfMem
<1>4. ItemKeys = [n \in Item |-> NULL]
  BY DEF Init, ItemKeys, NoString
<1> QED
  BY <1>1, <1>3, <1>4 DEF ListInv, Init, Tree!Init

LEMMA WhichType ==
  bound \in Bounds => bound.which \in Nat /\ Which \subseteq Int
BY ItemsAssumption DEF Which

\* A place that a subscript stands for is one of the array's.
LEMMA ClampedIs ==
  ASSUME ForestInv, ListInv, NEW a \in live \ is_ref, NEW which \in Int, NEW x
  PROVE  \E w \in 0 .. Len(Lists[a]) :
           /\ Tree!DetachItemFromArray(a, which) => Tree!DetachItemFromArray(a, w)
           /\ Tree!DeleteItemFromArray(a, which) => Tree!DeleteItemFromArray(a, w)
           /\ Tree!InsertItemInArray(a, which, x) => Tree!InsertItemInArray(a, w, x)
           /\ Tree!ReplaceItemInArray(a, which, x) => Tree!ReplaceItemInArray(a, w, x)
<1>1. PICK w \in 0 .. Len(Lists[a]) : Tree!Subscript(a, w) = Tree!Subscript(a, which)
  BY ClampSubscript
<1>2. Tree!DetachItemFromArray(a, which) => Tree!DetachItemFromArray(a, w)
  BY <1>1 DEF Tree!DetachItemFromArray
<1>3. Tree!DeleteItemFromArray(a, which) => Tree!DeleteItemFromArray(a, w)
  BY <1>1 DEF Tree!DeleteItemFromArray
<1>4. Tree!InsertItemInArray(a, which, x) => Tree!InsertItemInArray(a, w, x)
  BY <1>1 DEF Tree!InsertItemInArray
<1>5. Tree!ReplaceItemInArray(a, which, x) => Tree!ReplaceItemInArray(a, w, x)
  BY <1>1 DEF Tree!ReplaceItemInArray
<1> QED
  BY <1>2, <1>3, <1>4, <1>5

\* Every step of CjsonItems is a step of ItemTree or leaves it alone.
LEMMA ListStep ==
  ASSUME ForestInv, ForestInv', ListInv, bound \in Bounds, [Next]_vars
  PROVE  ListInv' /\ [Tree!Next]_(Tree!vars)
<1>w. Which \subseteq Int
  BY WhichType
<1>1. CASE \E n \in Item : Create(n) \/ DeleteItem(n)
  <2>1. PICK n \in Item : Create(n) \/ DeleteItem(n)
    BY <1>1
  <2>2. ListInv' /\ (Tree!Create(n) \/ Tree!DeleteItem(n))
    BY <2>1, CreateIs, DeleteItemIs
  <2> QED
    BY <2>2 DEF Tree!Next
<1>2. CASE \E a \in Item \ live, count \in 1 .. bound.which :
             \E s \in [1 .. count -> Item \ live] : CreateArrayOf(a, s)
  <2>1. PICK a \in Item \ live, count \in 1 .. bound.which :
               \E s \in [1 .. count -> Item \ live] : CreateArrayOf(a, s)
    BY <1>2
  <2>2. PICK s \in [1 .. count -> Item \ live] : CreateArrayOf(a, s)
    BY <2>1
  <2>3. count \in Nat \ {0}
    OBVIOUS
  <2>4. ListInv' /\ Tree!CreateArrayOf(a, Lists'[a])
    BY <2>2, <2>3, CreateArrayOfIs
  <2> QED
    BY <2>4 DEF Tree!Next
<1>3. CASE \E a, x \in Item : AddItemToArray(a, x)
  <2>1. PICK a, x \in Item : AddItemToArray(a, x)
    BY <1>3
  <2>2. ListInv' /\ Tree!AddItemToArray(a, x)
    BY <2>1, AddItemToArrayIs
  <2> QED
    BY <2>2 DEF Tree!Next
<1>4. CASE \E a, x \in Item, k \in Key :
             AddItemToObject(a, k, x) \/ AddItemToObjectCS(a, k, x) \/ ReplaceItemInObject(a, k, x)
  <2>1. PICK a, x \in Item, k \in Key :
             AddItemToObject(a, k, x) \/ AddItemToObjectCS(a, k, x) \/ ReplaceItemInObject(a, k, x)
    BY <1>4
  <2>2. /\ ListInv'
        /\ Tree!AddItemToObject(a, k, x) \/ Tree!AddItemToObjectCS(a, k, x) \/ Tree!ReplaceItemInObject(a, k, x)
    BY <2>1, AddItemToObjectIs, AddItemToObjectCSIs, ReplaceItemInObjectIs
  <2> QED
    BY <2>2 DEF Tree!Next
<1>5. CASE \E a, r, x \in Item : AddItemReferenceToArray(a, r, x)
  <2>1. PICK a, r, x \in Item : AddItemReferenceToArray(a, r, x)
    BY <1>5
  <2>2. ListInv' /\ Tree!AddItemReferenceToArray(a, r, x)
    BY <2>1, AddItemReferenceToArrayIs
  <2> QED
    BY <2>2 DEF Tree!Next
<1>6. CASE \E a, r, x \in Item, k \in Key : AddItemReferenceToObject(a, k, r, x)
  <2>1. PICK a, r, x \in Item, k \in Key : AddItemReferenceToObject(a, k, r, x)
    BY <1>6
  <2>2. ListInv' /\ Tree!AddItemReferenceToObject(a, k, r, x)
    BY <2>1, AddItemReferenceToObjectIs
  <2> QED
    BY <2>2 DEF Tree!Next
<1>7. CASE \E a, x \in Item, which \in Which :
             InsertItemInArray(a, which, x) \/ ReplaceItemInArray(a, which, x)
  <2>1. PICK a, x \in Item, which \in Int :
             InsertItemInArray(a, which, x) \/ ReplaceItemInArray(a, which, x)
    BY <1>7, <1>w
  <2>2. /\ a \in live \ is_ref /\ ListInv'
        /\ Tree!InsertItemInArray(a, which, x) \/ Tree!ReplaceItemInArray(a, which, x)
    BY <2>1, InsertItemInArrayIs, ReplaceItemInArrayIs, LinkableIs DEF InsertItemInArray
  <2>3. PICK w \in 0 .. Len(Lists[a]) :
           /\ Tree!InsertItemInArray(a, which, x) => Tree!InsertItemInArray(a, w, x)
           /\ Tree!ReplaceItemInArray(a, which, x) => Tree!ReplaceItemInArray(a, w, x)
    BY <2>2, ClampedIs
  <2> QED
    BY <2>2, <2>3 DEF Tree!Next
<1>8. CASE \E a \in Item, which \in Which : DetachItemFromArray(a, which) \/ DeleteItemFromArray(a, which)
  <2>1. PICK a \in Item, which \in Int : DetachItemFromArray(a, which) \/ DeleteItemFromArray(a, which)
    BY <1>8, <1>w
  <2>2. /\ a \in live \ is_ref /\ ListInv'
        /\ Tree!DetachItemFromArray(a, which) \/ Tree!DeleteItemFromArray(a, which)
    BY <2>1, DetachItemFromArrayIs, DeleteItemFromArrayIs
  <2>3. PICK w \in 0 .. Len(Lists[a]) :
           /\ Tree!DetachItemFromArray(a, which) => Tree!DetachItemFromArray(a, w)
           /\ Tree!DeleteItemFromArray(a, which) => Tree!DeleteItemFromArray(a, w)
    BY <2>2, ClampedIs
  <2> QED
    BY <2>2, <2>3 DEF Tree!Next
<1>9. CASE \E a \in Item, k \in Key : DetachItemFromObject(a, k) \/ DeleteItemFromObject(a, k)
  <2>1. PICK a \in Item, k \in Key : DetachItemFromObject(a, k) \/ DeleteItemFromObject(a, k)
    BY <1>9
  <2>2. ListInv' /\ (Tree!DetachItemFromObject(a, k) \/ Tree!DeleteItemFromObject(a, k))
    BY <2>1, DetachItemFromObjectIs, DeleteItemFromObjectIs
  <2> QED
    BY <2>2 DEF Tree!Next
<1>10. CASE \E x \in Item, recurse \in BOOLEAN : Duplicate(x, recurse)
  <2>1. PICK x \in Item, recurse \in BOOLEAN : Duplicate(x, recurse)
    BY <1>10
  <2>2. ListInv' /\ Tree!Duplicate(x, recurse)
    BY <2>1, DuplicateIs
  <2> QED
    BY <2>2 DEF Tree!Next
<1>11. CASE UNCHANGED vars
  <2>1. mem' = mem /\ live' = live /\ held' = held /\ is_ref' = is_ref /\ string' = string
    BY <1>11 DEF vars, cells, strings
  <2>2. Spelled(mem'.next, mem'.child, live', is_ref', Lists)
    BY <2>1 DEF ListInv
  <2>3. Lists' = Lists /\ ListInv'
    BY <2>2, Becomes
  <2>4. ItemKeys' = ItemKeys
    BY <2>1 DEF ItemKeys
  <2> QED
    BY <2>1, <2>3, <2>4 DEF Tree!vars
<1> QED
  BY <1>1, <1>2, <1>3, <1>4, <1>5, <1>6, <1>7, <1>8, <1>9, <1>10, <1>11 DEF Next, Operation

\* And with the arguments it has, it is that of ItemTree with the same arguments.
LEMMA StepAsDescribed ==
  ASSUME ForestInv, ForestInv', ListInv, bound \in Bounds
  PROVE  AsDescribed
<1>w. Which \subseteq Int /\ \A count \in 1 .. bound.which : count \in Nat \ {0}
  BY WhichType
<1>h. held \subseteq Item
  BY DEF ForestInv, Forest, Linked
<1>1. \A n \in Item : /\ Create(n) => Tree!Create(n)
                      /\ DeleteItem(n) => Tree!DeleteItem(n)
  BY CreateIs, DeleteItemIs
<1>2. \A a \in Item \ live, count \in 1 .. bound.which : \A s \in [1 .. count -> Item \ live] :
        CreateArrayOf(a, s) => Tree!CreateArrayOf(a, s)
  BY <1>w, CreateArrayOfIs
<1>3. ASSUME NEW a \in Item, NEW x \in held \ held'
      PROVE  /\ AddItemToArray(a, x) => Tree!AddItemToArray(a, x)
             /\ \A k \in Key :
                  /\ AddItemToObject(a, k, x) => Tree!AddItemToObject(a, k, x)
                  /\ AddItemToObjectCS(a, k, x) => Tree!AddItemToObjectCS(a, k, x)
                  /\ ReplaceItemInObject(a, k, x) => Tree!ReplaceItemInObject(a, k, x)
             /\ \A which \in Which :
                  /\ InsertItemInArray(a, which, x) => Tree!InsertItemInArray(a, which, x)
                  /\ ReplaceItemInArray(a, which, x) => Tree!ReplaceItemInArray(a, which, x)
  <2>0. x \in Item
    BY <1>h
  <2>1. AddItemToArray(a, x) => Tree!AddItemToArray(a, x)
    BY <2>0, AddItemToArrayIs
  <2>2. \A k \in Key :
          /\ AddItemToObject(a, k, x) => Tree!AddItemToObject(a, k, x)
          /\ AddItemToObjectCS(a, k, x) => Tree!AddItemToObjectCS(a, k, x)
          /\ ReplaceItemInObject(a, k, x) => Tree!ReplaceItemInObject(a, k, x)
    BY <2>0, AddItemToObjectIs, AddItemToObjectCSIs, ReplaceItemInObjectIs
  <2>3. \A which \in Which :
          /\ InsertItemInArray(a, which, x) => Tree!InsertItemInArray(a, which, x)
          /\ ReplaceItemInArray(a, which, x) => Tree!ReplaceItemInArray(a, which, x)
    BY <2>0, <1>w, InsertItemInArrayIs, ReplaceItemInArrayIs
  <2> QED
    BY <2>1, <2>2, <2>3
<1>4. \A a, r, x \in Item :
        /\ AddItemReferenceToArray(a, r, x) => Tree!AddItemReferenceToArray(a, r, x)
        /\ \A k \in Key :
             AddItemReferenceToObject(a, k, r, x) => Tree!AddItemReferenceToObject(a, k, r, x)
  BY AddItemReferenceToArrayIs, AddItemReferenceToObjectIs
<1>5. \A a \in Item, which \in Which :
        /\ DetachItemFromArray(a, which) => Tree!DetachItemFromArray(a, which)
        /\ DeleteItemFromArray(a, which) => Tree!DeleteItemFromArray(a, which)
  BY <1>w, DetachItemFromArrayIs, DeleteItemFromArrayIs
<1>6. \A a \in Item, k \in Key :
        /\ DetachItemFromObject(a, k) => Tree!DetachItemFromObject(a, k)
        /\ DeleteItemFromObject(a, k) => Tree!DeleteItemFromObject(a, k)
  BY DetachItemFromObjectIs, DeleteItemFromObjectIs
<1>7. \A x \in Item, recurse \in BOOLEAN : Duplicate(x, recurse) => Tree!Duplicate(x, recurse)
  BY DuplicateIs
<1> QED
  BY <1>1, <1>2, <1>3, <1>4, <1>5, <1>6, <1>7 DEF AsDescribed

\* cJSON.h describes arrays and objects as sequences of items with one owner each.
\* The pointers implement them, whatever sequence of operations: with the arguments
\* it is given, every operation puts in, takes out, replaces, copies or deletes what
\* its description says, at the place it says, and leaves everything else alone.
THEOREM ListsImplementItemTree ==
  Spec => ImplementsItemTree
<1>0. Spec => [](bound \in Bounds)
  <2>1. Init => bound \in Bounds
    BY DEF Init
  <2>2. bound \in Bounds /\ [Next]_vars => (bound \in Bounds)'
    BY DEF Next, vars
  <2> QED
    BY <2>1, <2>2, PTL DEF Spec
<1>1. Init /\ ForestInv => ListInv /\ Tree!Init
  BY ListInit
<1>2. ForestInv /\ ForestInv' /\ ListInv /\ bound \in Bounds /\ [Next]_vars
      => ListInv' /\ [Tree!Next]_(Tree!vars)
  BY ListStep
<1>3. ForestInv /\ ForestInv' /\ ListInv /\ bound \in Bounds => AsDescribed
  BY StepAsDescribed
<1> QED
  BY <1>0, <1>1, <1>2, <1>3, InvHolds, PTL DEF Spec, ImplementsItemTree, Tree!Spec
=============================================================================

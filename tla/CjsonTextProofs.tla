-------------------------- MODULE CjsonTextProofs --------------------------
(***************************************************************************)
(* Theorems about CjsonText: whatever is printed, written or parsed, and     *)
(* whichever malloc fails, parser and printer free what they do not return   *)
(* and write no more than they asked for.                                   *)
(***************************************************************************)
EXTENDS CjsonText, CjsonRoomProofs

-----------------------------------------------------------------------------
(***************************************************************************)
(* The memory of the parser: items m, of which the root is the first, n     *)
(* strings, and the blocks b that are not freed.                            *)
(***************************************************************************)

Fields == {"type", "string", "valuestring", "num", "child", "next", "prev"}

SomeSeq(s) == \E S : s \in Seq(S)

\* The pointers of an item stay inside the memory.
Cells(m) ==
  /\ SomeSeq(m) /\ 1 \in DOMAIN m
  /\ \A i \in DOMAIN m :
       /\ DOMAIN m[i] = Fields
       /\ m[i].child \in DOMAIN m \cup {0} /\ m[i].next \in DOMAIN m \cup {0}
       /\ m[i].next # 0 => m[m[i].next].prev = i
       /\ m[i].child # 0 => m[m[i].child].prev = 0

\* The root leads to every item.
Reached(m) == \A S \in SUBSET DOMAIN m : Closed(m, 1, S) => S = DOMAIN m

\* Every string has one place in an item.
Kept(m, n) ==
  /\ n \in Nat
  /\ \A i \in (DOMAIN m) \X {"string", "valuestring"} : m[i[1]][i[2]].at \in 0 .. n
  /\ \A s \in 1 .. n : \E i \in Places(m, s) : Places(m, s) = {i}

Sound(m, n, b) ==
  Cells(m) /\ Reached(m) /\ Kept(m, n) /\ b = Blocks(m, DOMAIN m)

\* The item c to be filled: nothing is lost when it is given what mode says.
Fresh(m, c, mode) ==
  /\ c \in DOMAIN m
  /\ m[c].next = 0
  /\ mode \in {"value", "key"} => m[c].child = 0 /\ m[c].valuestring.at = 0
  /\ mode = "key" => m[c].string.at = 0

\* The arrays and objects u around it were allocated before it, from the outside
\* in, and are the last ones of their lists so far.
Nested(m, u, c) ==
  /\ SomeSeq(u)
  /\ \A k \in DOMAIN u :
       /\ u[k] \in DOMAIN m /\ u[k] < c
       /\ m[u[k]].next = 0 /\ m[u[k]].type \in DOMAIN Closing
  /\ \A k, l \in DOMAIN u : k < l => u[k] < u[l]

Mode == {"idle", "value", "key", "after", "end", "parsed", "failed"}

ParseInv ==
  /\ pmode \in Mode
  /\ pmode = "idle" => live = {} /\ strings = 0 /\ up = <<>>
  /\ pmode = "failed" => live = {}
  /\ pmode \notin {"idle", "failed"} =>
       /\ Sound(item, strings, live)
       /\ Fresh(item, cur, pmode)
       /\ Nested(item, up, cur)
       /\ pmode = "after" => up # <<>>

\* Sequences of whatever elements.
LEMMA SomeSeqs ==
  ASSUME NEW s, SomeSeq(s)
  PROVE  /\ Len(s) \in Nat /\ DOMAIN s = 1 .. Len(s)
         /\ \A e : /\ SomeSeq(Append(s, e)) /\ Len(Append(s, e)) = Len(s) + 1
                   /\ DOMAIN Append(s, e) = 1 .. Len(s) + 1
                   /\ \A i \in 1 .. Len(s) : Append(s, e)[i] = s[i]
                   /\ Append(s, e)[Len(s) + 1] = e
         /\ s # <<>> => /\ Last(s) = s[Len(s)] /\ Len(s) > 0
                        /\ SomeSeq(Front(s)) /\ Len(Front(s)) = Len(s) - 1
                        /\ DOMAIN Front(s) = 1 .. Len(s) - 1
                        /\ \A i \in 1 .. Len(s) - 1 : Front(s)[i] = s[i]
<1>1. PICK S : s \in Seq(S)
  BY DEF SomeSeq
<1>2. ASSUME NEW e
      PROVE  /\ SomeSeq(Append(s, e)) /\ Len(Append(s, e)) = Len(s) + 1
             /\ DOMAIN Append(s, e) = 1 .. Len(s) + 1
             /\ \A i \in 1 .. Len(s) : Append(s, e)[i] = s[i]
             /\ Append(s, e)[Len(s) + 1] = e
  <2>1. s \in Seq(S \cup {e}) /\ e \in S \cup {e}
    BY <1>1
  <2>2. Append(s, e) \in Seq(S \cup {e})
    BY <2>1
  <2> QED
    BY <2>1, <2>2 DEF SomeSeq
<1>3. ASSUME s # <<>>
      PROVE  /\ Last(s) = s[Len(s)] /\ Len(s) > 0
             /\ SomeSeq(Front(s)) /\ Len(Front(s)) = Len(s) - 1
             /\ DOMAIN Front(s) = 1 .. Len(s) - 1
             /\ \A i \in 1 .. Len(s) - 1 : Front(s)[i] = s[i]
  <2>1. Len(s) \in Nat /\ Len(s) > 0 /\ DOMAIN s = 1 .. Len(s)
    BY <1>1, <1>3
  <2>2. Front(s) = [i \in 1 .. Len(s) - 1 |-> s[i]]
    BY <2>1 DEF Front
  <2>3. Front(s) \in [1 .. Len(s) - 1 -> S] /\ Len(s) - 1 \in Nat
    BY <1>1, <2>1, <2>2
  <2>4. Front(s) \in Seq(S) /\ Len(Front(s)) = Len(s) - 1
    BY <2>3
  <2> QED
    BY <2>1, <2>2, <2>4 DEF Last, SomeSeq
<1> QED
  BY <1>1, <1>2, <1>3

\* A changed item among others.
LEMMA SomeSeqExcept ==
  ASSUME NEW s, SomeSeq(s), NEW i, NEW e
  PROVE  SomeSeq([s EXCEPT ![i] = e])
<1>1. PICK S : s \in Seq(S)
  BY DEF SomeSeq
<1>2. s \in [1 .. Len(s) -> S \cup {e}] /\ Len(s) \in Nat
  BY <1>1
<1>3. [s EXCEPT ![i] = e] \in [1 .. Len(s) -> S \cup {e}]
  BY <1>2
<1>4. [s EXCEPT ![i] = e] \in Seq(S \cup {e})
  BY <1>2, <1>3
<1> QED
  BY <1>4 DEF SomeSeq

\* m2 has the items of m with the same links.
SameLinks(m, m2) ==
  /\ SomeSeq(m2) /\ DOMAIN m2 = DOMAIN m
  /\ \A i \in DOMAIN m : /\ DOMAIN m2[i] = Fields
                         /\ m2[i].child = m[i].child /\ m2[i].next = m[i].next
                         /\ m2[i].prev = m[i].prev

LEMMA LinksKept ==
  ASSUME NEW m, NEW m2, Cells(m), Reached(m), SameLinks(m, m2)
  PROVE  Cells(m2) /\ Reached(m2)
<1>1. Cells(m2)
  BY DEF Cells, SameLinks
<1>2. \A i \in DOMAIN m : Leads(m2, i) = Leads(m, i)
  BY DEF SameLinks, Leads
<1>3. ASSUME NEW S \in SUBSET DOMAIN m2, Closed(m2, 1, S) PROVE S = DOMAIN m2
  BY <1>2, <1>3 DEF Reached, Closed, SameLinks
<1> QED
  BY <1>1, <1>3 DEF Reached

\* Items filled with anything but pointers.
LEMMA FilledSound ==
  ASSUME NEW m, NEW m2, NEW n, NEW b, Sound(m, n, b), SameLinks(m, m2),
         \A i \in DOMAIN m : m2[i].string = m[i].string /\ m2[i].valuestring = m[i].valuestring
  PROVE  Sound(m2, n, b)
<1>1. Cells(m2) /\ Reached(m2)
  BY LinksKept DEF Sound
<1>2. \A i \in (DOMAIN m) \X {"string", "valuestring"} : m2[i[1]][i[2]] = m[i[1]][i[2]]
  OBVIOUS
<1>3. DOMAIN m2 = DOMAIN m
  BY DEF SameLinks
<1>4. \A s : Places(m2, s) = Places(m, s)
  BY <1>2, <1>3 DEF Places
<1>5. Kept(m2, n)
  BY <1>2, <1>3, <1>4 DEF Kept, Sound
<1>6. \A i \in DOMAIN m : StringsOf(m2[i]) = StringsOf(m[i])
  BY DEF StringsOf
<1>7. Blocks(m2, DOMAIN m2) = Blocks(m, DOMAIN m)
  BY <1>3, <1>6 DEF Blocks
<1> QED
  BY <1>1, <1>5, <1>7 DEF Sound

\* A new string as the value of item c.
LEMMA HeldSound ==
  ASSUME NEW m, NEW m2, NEW n, NEW b, NEW c \in DOMAIN m,
         Sound(m, n, b), SameLinks(m, m2), m[c].valuestring.at = 0,
         \A i \in DOMAIN m : /\ m2[i].string = m[i].string
                             /\ i # c => m2[i].valuestring = m[i].valuestring,
         m2[c].valuestring.at = n + 1
  PROVE  Sound(m2, n + 1, b \cup {StringBlock(n + 1)})
<1> DEFINE P == (DOMAIN m) \X {"string", "valuestring"}
           new == <<c, "valuestring">>
<1>1. Cells(m2) /\ Reached(m2)
  BY LinksKept DEF Sound
<1>2. DOMAIN m2 = DOMAIN m /\ new \in P /\ m2[new[1]][new[2]].at = n + 1
  BY DEF SameLinks
<1>3. \A i \in P : i # new => m2[i[1]][i[2]] = m[i[1]][i[2]]
  OBVIOUS
<1>4. n \in Nat /\ \A i \in P : m[i[1]][i[2]].at \in 0 .. n
  BY DEF Sound, Kept
<1>5. m[new[1]][new[2]].at = 0
  OBVIOUS
<1>6. \A s \in 1 .. n : Places(m2, s) = Places(m, s)
  BY <1>2, <1>3, <1>4, <1>5 DEF Places
<1>7. Places(m2, n + 1) = {new}
  BY <1>2, <1>3, <1>4 DEF Places
<1>8. Kept(m2, n + 1)
  <2>1. \A i \in P : m2[i[1]][i[2]].at \in 0 .. n + 1
    BY <1>2, <1>3, <1>4
  <2>2. \A s \in 1 .. n : \E i \in Places(m2, s) : Places(m2, s) = {i}
    BY <1>6 DEF Sound, Kept
  <2>3. \E i \in Places(m2, n + 1) : Places(m2, n + 1) = {i}
    BY <1>7
  <2> QED
    BY <1>2, <1>4, <2>1, <2>2, <2>3 DEF Kept
<1>9. StringsOf(m2[c]) = StringsOf(m[c]) \cup {n + 1}
  BY <1>4 DEF StringsOf
<1>10. \A i \in DOMAIN m : i # c => StringsOf(m2[i]) = StringsOf(m[i])
  BY DEF StringsOf
<1>11. Blocks(m2, DOMAIN m2) = Blocks(m, DOMAIN m) \cup {StringBlock(n + 1)}
  BY <1>2, <1>9, <1>10 DEF Blocks
<1> QED
  BY <1>1, <1>8, <1>11 DEF Sound

\* The string that is the value of item c becomes its key.
LEMMA KeySound ==
  ASSUME NEW m, NEW m2, NEW n, NEW b, NEW c \in DOMAIN m,
         Sound(m, n, b), SameLinks(m, m2), m[c].string.at = 0,
         \A i \in DOMAIN m : i # c => /\ m2[i].string = m[i].string
                                      /\ m2[i].valuestring = m[i].valuestring,
         m2[c].string = m[c].valuestring, m2[c].valuestring.at = 0
  PROVE  Sound(m2, n, b)
<1> DEFINE P == (DOMAIN m) \X {"string", "valuestring"}
           key == <<c, "string">>
           val == <<c, "valuestring">>
<1>1. Cells(m2) /\ Reached(m2)
  BY LinksKept DEF Sound
<1>2. /\ DOMAIN m2 = DOMAIN m /\ key \in P /\ val \in P
      /\ m2[key[1]][key[2]] = m[val[1]][val[2]] /\ m2[val[1]][val[2]].at = 0
      /\ m[key[1]][key[2]].at = 0
  BY DEF SameLinks
<1>3. \A i \in P : i \notin {key, val} => m2[i[1]][i[2]] = m[i[1]][i[2]]
  OBVIOUS
<1>4. n \in Nat /\ \A i \in P : m[i[1]][i[2]].at \in 0 .. n
  BY DEF Sound, Kept
<1>5. ASSUME NEW s \in 1 .. n PROVE \E i \in Places(m2, s) : Places(m2, s) = {i}
  <2>1. PICK i \in P : Places(m, s) = {i}
    BY DEF Sound, Kept, Places
  <2>2. CASE i = val
    <3>1. Places(m2, s) = {key}
      BY <1>2, <1>3, <2>1, <2>2 DEF Places
    <3> QED
      BY <3>1
  <2>3. CASE i # val
    <3>1. Places(m2, s) = {i}
      BY <1>2, <1>3, <2>1, <2>3 DEF Places
    <3> QED
      BY <3>1
  <2> QED
    BY <2>2, <2>3
<1>6. \A i \in P : m2[i[1]][i[2]].at \in 0 .. n
  BY <1>2, <1>3, <1>4
<1>7. Kept(m2, n)
  BY <1>2, <1>4, <1>5, <1>6 DEF Kept
<1>8. \A i \in DOMAIN m : StringsOf(m2[i]) = StringsOf(m[i])
  BY DEF StringsOf
<1>9. Blocks(m2, DOMAIN m2) = Blocks(m, DOMAIN m)
  BY <1>2, <1>8 DEF Blocks
<1> QED
  BY <1>1, <1>7, <1>9 DEF Sound

\* Item c leads to a new item, in front of nothing: as the one after it, or as the
\* first one below it.
Linked(m, m2, c) ==
  LET new == Len(m) + 1
  IN  /\ SomeSeq(m2) /\ DOMAIN m2 = 1 .. new
      /\ \A i \in DOMAIN m : /\ DOMAIN m2[i] = Fields
                             /\ m2[i].prev = m[i].prev
                             /\ m2[i].string = m[i].string /\ m2[i].valuestring = m[i].valuestring
                             /\ i # c => m2[i].child = m[i].child /\ m2[i].next = m[i].next
      /\ DOMAIN m2[new] = Fields /\ m2[new].child = 0 /\ m2[new].next = 0
      /\ m2[new].string.at = 0 /\ m2[new].valuestring.at = 0
      /\ \/ m[c].next = 0 /\ m2[c].next = new /\ m2[c].child = m[c].child /\ m2[new].prev = c
         \/ m[c].child = 0 /\ m2[c].child = new /\ m2[c].next = m[c].next /\ m2[new].prev = 0

LEMMA LinkedSound ==
  ASSUME NEW m, NEW m2, NEW n, NEW b, NEW c \in DOMAIN m, Sound(m, n, b), Linked(m, m2, c)
  PROVE  Sound(m2, n, b \cup {ItemBlock(Len(m) + 1)})
<1> DEFINE new == Len(m) + 1
<1>1. /\ Len(m) \in Nat /\ DOMAIN m = 1 .. Len(m) /\ new \notin DOMAIN m /\ 0 \notin DOMAIN m
      /\ DOMAIN m2 = DOMAIN m \cup {new}
  <2>1. SomeSeq(m)
    BY DEF Sound, Cells
  <2>2. Len(m) \in Nat /\ DOMAIN m = 1 .. Len(m)
    BY ONLY <2>1, SomeSeqs
  <2>3. SomeSeq(m2) /\ DOMAIN m2 = 1 .. new
    BY DEF Linked
  <2> QED
    BY ONLY <2>2, <2>3
<1>2. Cells(m2)
  <2>1. ASSUME NEW i \in DOMAIN m
        PROVE  /\ DOMAIN m2[i] = Fields
               /\ m2[i].child \in DOMAIN m2 \cup {0} /\ m2[i].next \in DOMAIN m2 \cup {0}
               /\ m2[i].next # 0 => m2[m2[i].next].prev = i
               /\ m2[i].child # 0 => m2[m2[i].child].prev = 0
    BY <1>1 DEF Sound, Cells, Linked
  <2>2. /\ DOMAIN m2[new] = Fields /\ m2[new].child = 0 /\ m2[new].next = 0
        /\ SomeSeq(m2) /\ 1 \in DOMAIN m2
    BY <1>1 DEF Linked, Sound, Cells
  <2> HIDE DEF new
  <2> QED
    BY <1>1, <2>1, <2>2 DEF Cells
<1>3. Reached(m2)
  <2> SUFFICES ASSUME NEW S \in SUBSET DOMAIN m2, Closed(m2, 1, S)
               PROVE  S = DOMAIN m2
    BY DEF Reached
  <2>1. /\ \A i \in DOMAIN m \ {c} : Leads(m, i) = Leads(m2, i)
        /\ Leads(m2, c) = Leads(m, c) \cup {new}
        /\ \A i \in DOMAIN m : Leads(m, i) \subseteq DOMAIN m
    BY <1>1 DEF Linked, Leads, Sound, Cells
  <2>2. Closed(m, 1, S \ {new})
    BY <1>1, <2>1 DEF Closed, Sound, Cells
  <2>a. S \ {new} \in SUBSET DOMAIN m
    BY <1>1
  <2>b. \A T \in SUBSET DOMAIN m : Closed(m, 1, T) => T = DOMAIN m
    BY DEF Reached, Sound
  <2>3. S \ {new} = DOMAIN m
    BY <2>2, <2>a, <2>b
  <2>4. new \in S
    BY <2>1, <2>3 DEF Closed
  <2> QED
    BY <1>1, <2>3, <2>4
<1>4. Kept(m2, n)
  <2> DEFINE P == (DOMAIN m) \X {"string", "valuestring"}
             P2 == (DOMAIN m2) \X {"string", "valuestring"}
  <2>1. n \in Nat /\ \A i \in P : m[i[1]][i[2]].at \in 0 .. n
    BY DEF Sound, Kept
  <2>2. \A i \in P : i \in P2 /\ m2[i[1]][i[2]] = m[i[1]][i[2]]
    BY <1>1 DEF Linked
  <2>3. \A i \in P2 \ P : m2[i[1]][i[2]].at = 0
    BY <1>1 DEF Linked
  <2>4. \A s \in 1 .. n : Places(m2, s) = Places(m, s)
    BY <2>2, <2>3 DEF Places
  <2>5. \A i \in P2 : m2[i[1]][i[2]].at \in 0 .. n
    BY <2>1, <2>2, <2>3
  <2> QED
    BY <2>1, <2>4, <2>5 DEF Kept, Sound
<1>5. \A i \in DOMAIN m : StringsOf(m2[i]) = StringsOf(m[i])
  BY DEF StringsOf, Linked
<1>6. StringsOf(m2[new]) = {}
  BY DEF StringsOf, Linked
<1>7. Blocks(m2, DOMAIN m2) = Blocks(m, DOMAIN m) \cup {ItemBlock(new)}
  BY <1>1, <1>5, <1>6 DEF Blocks
<1> QED
  BY <1>2, <1>3, <1>4, <1>7 DEF Sound

\* cJSON_Delete of the root frees all there is.
LEMMA RootOwnsAll ==
  ASSUME NEW m, NEW n, NEW b, Sound(m, n, b)
  PROVE  Below(m, 1) = DOMAIN m
<1>1. \A S \in SUBSET DOMAIN m : Closed(m, 1, S) => S = DOMAIN m
  BY DEF Reached, Sound
<1>2. ASSUME NEW i \in DOMAIN m PROVE i \in Below(m, 1)
  <2>1. ASSUME NEW S \in SUBSET DOMAIN m, Closed(m, 1, S) PROVE i \in S
    BY <1>1, <2>1
  <2> QED
    BY <2>1 DEF Below
<1> QED
  BY <1>2 DEF Below

LEMMA FailFrees ==
  ASSUME NEW m, NEW n, NEW b, NEW where, Sound(m, n, b), Fail(m, b, where)
  PROVE  ParseInv'
<1>1. live' = {}
  BY RootOwnsAll DEF Fail, Sound
<1> QED
  BY <1>1 DEF Fail, ParseInv, Mode

-----------------------------------------------------------------------------
(***************************************************************************)
(* Each step of the parser.                                                 *)
(***************************************************************************)

LEMMA InitParse == ParseIdle => ParseInv
BY DEF ParseIdle, ParseInv, Mode

\* The root, alone.
LEMMA StartStep ==
  ASSUME ParseInv, NEW s, NEW null, ParseStart(s, null)
  PROVE  ParseInv'
<1>1. CASE pmode' = "failed"
  BY <1>1 DEF ParseInv, ParseStart, Mode
<1>2. CASE pmode' # "failed"
  <2>1. /\ pmode' = "value" /\ item' = <<NewItem>> /\ live' = {ItemBlock(1)} /\ cur' = 1
        /\ up' = <<>> /\ strings' = 0
    BY <1>2 DEF ParseInv, ParseStart
  <2>2. /\ DOMAIN item' = {1} /\ item'[1] = NewItem /\ SomeSeq(item')
        /\ SomeSeq(up') /\ DOMAIN up' = {}
    <3>1. <<NewItem>> \in Seq({NewItem}) /\ <<>> \in Seq({NewItem})
      OBVIOUS
    <3>2. SomeSeq(<<NewItem>>) /\ SomeSeq(<<>>)
      BY <3>1 DEF SomeSeq
    <3>3. DOMAIN <<NewItem>> = {1} /\ <<NewItem>>[1] = NewItem /\ DOMAIN <<>> = {}
      OBVIOUS
    <3> QED
      BY <2>1, <3>2, <3>3
  <2>3. Cells(item')
    BY <2>2 DEF Cells, NewItem, Fields
  <2>4. Reached(item')
    BY <2>2 DEF Reached, Closed
  <2>5. \A i \in {1} \X {"string", "valuestring"} : item'[i[1]][i[2]].at = 0
    BY <2>2 DEF NewItem, NoString
  <2>6. Kept(item', 0)
    BY <2>2, <2>5 DEF Kept
  <2>7. live' = Blocks(item', DOMAIN item')
    BY <2>1, <2>2 DEF Blocks, StringsOf, NewItem, NoString
  <2>8. Fresh(item', cur', pmode') /\ Nested(item', up', cur')
    BY <2>1, <2>2 DEF Fresh, Nested, NewItem, NoString
  <2> QED
    BY <2>1, <2>3, <2>4, <2>6, <2>7, <2>8 DEF ParseInv, Sound, Mode
<1> QED
  BY <1>1, <1>2

\* The items around c are not the one that changes.
LEMMA NestedKept ==
  ASSUME NEW m, NEW m2, NEW u, NEW c, NEW d, Nested(m, u, c), c \in Nat, d \in Nat, c <= d,
         Cells(m), DOMAIN m \subseteq DOMAIN m2,
         \A i \in DOMAIN m : i # c => m2[i].next = m[i].next /\ m2[i].type = m[i].type
  PROVE  Nested(m2, u, d)
<1>1. DOMAIN m \subseteq Nat
  BY SomeSeqs DEF Cells
<1>2. ASSUME NEW k \in DOMAIN u
      PROVE  u[k] \in DOMAIN m /\ u[k] # c /\ u[k] < d
  BY <1>1 DEF Nested
<1> QED
  BY <1>2 DEF Nested

\* A value has been read into the item cur, which becomes m2[cur].
LEMMA ValueRead ==
  ASSUME ParseInv, NEW n, NEW b, NEW m2, Sound(m2, n, b), SameLinks(item, m2),
         pmode \notin {"idle", "failed"},
         \A i \in DOMAIN item : i # cur => m2[i].type = item[i].type,
         item' = m2, strings' = n, live' = b, cur' = cur, up' = up,
         pmode' = IF up = <<>> THEN "end" ELSE "after"
  PROVE  ParseInv'
<1>1. /\ Cells(item) /\ Fresh(item, cur, pmode) /\ Nested(item, up, cur)
      /\ DOMAIN m2 = DOMAIN item
  BY DEF ParseInv, Sound, SameLinks
<1>2. cur \in Nat
  BY <1>1, SomeSeqs DEF Cells, Fresh
<1>3. Nested(m2, up, cur)
  BY <1>1, <1>2, NestedKept DEF SameLinks
<1>4. Fresh(m2, cur, pmode')
  BY <1>1 DEF Fresh, SameLinks
<1> QED
  BY <1>3, <1>4 DEF ParseInv, Mode

\* What parsing a value or a key starts from.
LEMMA Filling ==
  ASSUME ParseInv, pmode \in {"value", "key"}
  PROVE  /\ Sound(item, strings, live) /\ Fresh(item, cur, pmode) /\ Nested(item, up, cur)
         /\ cur \in DOMAIN item /\ cur \in Nat /\ SomeSeq(item)
         /\ \A i \in DOMAIN item : DOMAIN item[i] = Fields
         /\ item[cur].valuestring.at = 0 /\ item[cur].child = 0 /\ item[cur].next = 0
<1>1. Sound(item, strings, live) /\ Fresh(item, cur, pmode) /\ Nested(item, up, cur)
  BY DEF ParseInv
<1>2. cur \in Nat
  BY <1>1, SomeSeqs DEF Sound, Cells, Fresh
<1> QED
  BY <1>1, <1>2 DEF Sound, Cells, Fresh

\* Type and number say nothing about pointers.
LEMMA ScalarStep ==
  ASSUME ParseInv, pmode = "value", NEW t, NEW num,
         item' = [item EXCEPT ![cur].type = t, ![cur].num = num]
           \/ item' = [item EXCEPT ![cur].type = t],
         UNCHANGED <<cur, up, strings, live>>,
         pmode' = IF up = <<>> THEN "end" ELSE "after"
  PROVE  ParseInv'
<1>1. /\ Sound(item, strings, live) /\ SomeSeq(item) /\ cur \in DOMAIN item
      /\ \A i \in DOMAIN item : DOMAIN item[i] = Fields
  BY Filling
<1>2. SomeSeq(item')
  BY <1>1, SomeSeqExcept
<1>3. DOMAIN item' = DOMAIN item
  OBVIOUS
<1>4. ASSUME NEW i \in DOMAIN item
      PROVE  /\ DOMAIN item'[i] = Fields
             /\ item'[i].child = item[i].child /\ item'[i].next = item[i].next
             /\ item'[i].prev = item[i].prev
             /\ item'[i].string = item[i].string /\ item'[i].valuestring = item[i].valuestring
             /\ i # cur => item'[i].type = item[i].type
  BY <1>1 DEF Fields
<1>5. SameLinks(item, item')
  BY <1>2, <1>3, <1>4 DEF SameLinks
<1>6. Sound(item', strings, live)
  BY <1>1, <1>4, <1>5, FilledSound
<1> QED
  BY <1>4, <1>5, <1>6, ValueRead

\* A new string in the item cur.
LEMMA HoldingSound ==
  ASSUME ParseInv, pmode \in {"value", "key"}, NEW s
  PROVE  /\ SameLinks(item, Holding(s))
         /\ Sound(Holding(s), strings + 1, live \cup {NewString})
         /\ Holding(s)[cur].string = item[cur].string
         /\ \A i \in DOMAIN item : i # cur => Holding(s)[i] = item[i]
<1> DEFINE m == Holding(s)
<1>1. /\ Sound(item, strings, live) /\ SomeSeq(item) /\ cur \in DOMAIN item
      /\ \A i \in DOMAIN item : DOMAIN item[i] = Fields
      /\ item[cur].valuestring.at = 0
  BY Filling
<1>2. SomeSeq(m)
  BY <1>1, SomeSeqExcept DEF Holding
<1>3. /\ DOMAIN m = DOMAIN item
      /\ DOMAIN m[cur] = Fields
      /\ m[cur].child = item[cur].child /\ m[cur].next = item[cur].next
      /\ m[cur].prev = item[cur].prev /\ m[cur].string = item[cur].string
      /\ m[cur].valuestring.at = strings + 1
      /\ \A i \in DOMAIN item : i # cur => m[i] = item[i]
  BY <1>1 DEF Holding, Fields
<1> HIDE DEF m
<1>4. SameLinks(item, m)
  BY <1>1, <1>2, <1>3 DEF SameLinks
<1>5. Sound(m, strings + 1, live \cup {StringBlock(strings + 1)})
  BY <1>1, <1>3, <1>4, HeldSound
<1> QED
  BY <1>3, <1>4, <1>5 DEF m, NewString

LEMMA FailsStep ==
  ASSUME ParseInv, pmode \notin {"idle", "failed"},
         OutOfMemory \/ \E where : FailAt(where)
  PROVE  ParseInv'
<1>1. Sound(item, strings, live)
  BY DEF ParseInv
<1>2. PICK where : Fail(item, live, where)
  BY DEF OutOfMemory, FailAt
<1> QED
  BY <1>1, <1>2, FailFrees

\* parse_string frees nothing itself; an invalid escape is found when the memory
\* is the item's already.
LEMMA StringFailsStep ==
  ASSUME ParseInv, pmode \in {"value", "key"}, StringFails
  PROVE  ParseInv'
<1>1. CASE OutOfMemory \/ \E where : FailAt(where)
  BY <1>1, FailsStep
<1>2. CASE Fail(Holding(<<>>), live \cup {NewString}, pos)
  BY <1>2, HoldingSound, FailFrees
<1> QED
  BY <1>1, <1>2 DEF StringFails

LEMMA ParseStringStep ==
  ASSUME ParseInv, ParseString
  PROVE  ParseInv'
<1>1. CASE StringFails
  BY <1>1, StringFailsStep DEF ParseString
<1>2. CASE ~StringFails
  <2>1. /\ pmode = "value"
        /\ item' = Holding(StringAt) /\ strings' = strings + 1
        /\ live' = live \cup {NewString} /\ cur' = cur /\ up' = up
        /\ pmode' = IF up = <<>> THEN "end" ELSE "after"
    BY <1>2 DEF ParseString, Ends
  <2>2. /\ SameLinks(item, item') /\ Sound(item', strings', live')
        /\ \A i \in DOMAIN item : i # cur => item'[i] = item[i]
    BY <2>1, HoldingSound
  <2> QED
    BY <2>1, <2>2, ValueRead
<1> QED
  BY <1>1, <1>2

\* The string just read is the key of the item cur.
LEMMA AsKeySound ==
  ASSUME ParseInv, pmode = "key", NEW s
  PROVE  /\ SameLinks(item, AsKey(Holding(s)))
         /\ Sound(AsKey(Holding(s)), strings + 1, live \cup {NewString})
         /\ AsKey(Holding(s))[cur].valuestring.at = 0
         /\ \A i \in DOMAIN item : i # cur => AsKey(Holding(s))[i] = item[i]
<1> DEFINE h == Holding(s)
           m == AsKey(h)
<1>1. /\ SameLinks(item, h) /\ Sound(h, strings + 1, live \cup {NewString})
      /\ h[cur].string = item[cur].string
      /\ \A i \in DOMAIN item : i # cur => h[i] = item[i]
  BY HoldingSound
<1>2. cur \in DOMAIN item /\ item[cur].string.at = 0
  BY Filling DEF Fresh
<1> HIDE DEF h
<1>3. SomeSeq(m)
  BY <1>1, SomeSeqExcept DEF AsKey, SameLinks
<1>4. /\ DOMAIN m = DOMAIN item /\ DOMAIN h = DOMAIN item
      /\ DOMAIN m[cur] = Fields
      /\ m[cur].child = h[cur].child /\ m[cur].next = h[cur].next
      /\ m[cur].prev = h[cur].prev
      /\ m[cur].string = h[cur].valuestring /\ m[cur].valuestring.at = 0
      /\ \A i \in DOMAIN item : i # cur => m[i] = h[i]
  BY <1>1, <1>2 DEF AsKey, Fields, SameLinks, NoString
<1> HIDE DEF m
<1>5. SameLinks(h, m) /\ SameLinks(item, m)
  BY <1>1, <1>2, <1>3, <1>4 DEF SameLinks
<1>6. Sound(m, strings + 1, live \cup {NewString})
  BY <1>1, <1>2, <1>4, <1>5, KeySound
<1> QED
  BY <1>1, <1>4, <1>5, <1>6 DEF m, h

LEMMA ParseKeyStep ==
  ASSUME ParseInv, ParseKey
  PROVE  ParseInv'
<1>1. CASE StringFails
  BY <1>1, StringFailsStep DEF ParseKey
<1>2. CASE ~StringFails
  <2> DEFINE m == AsKey(Holding(StringAt))
  <2>1. /\ pmode = "key" /\ strings' = strings + 1
        /\ \/ \E where : Fail(m, live \cup {NewString}, where)
           \/ /\ item' = m /\ live' = live \cup {NewString} /\ pmode' = "value"
              /\ cur' = cur /\ up' = up
    BY <1>2 DEF ParseKey
  <2>2. /\ SameLinks(item, m) /\ Sound(m, strings + 1, live \cup {NewString})
        /\ m[cur].valuestring.at = 0
        /\ \A i \in DOMAIN item : i # cur => m[i] = item[i]
    BY <2>1, AsKeySound
  <2> HIDE DEF m
  <2>3. CASE \E where : Fail(m, live \cup {NewString}, where)
    BY <2>2, <2>3, FailFrees
  <2>4. CASE item' = m /\ live' = live \cup {NewString} /\ pmode' = "value" /\ cur' = cur /\ up' = up
    <3>1. /\ Fresh(item, cur, pmode) /\ Nested(item, up, cur) /\ Cells(item) /\ cur \in Nat
          /\ item[cur].child = 0 /\ DOMAIN m = DOMAIN item
      BY <2>1, <2>2, Filling DEF Sound, SameLinks
    <3>2. Nested(m, up, cur)
      BY <2>2, <3>1, NestedKept
    <3>3. Fresh(m, cur, "value")
      BY <2>2, <3>1 DEF Fresh, SameLinks
    <3> QED
      BY <2>1, <2>2, <2>4, <3>2, <3>3 DEF ParseInv, Mode
  <2> QED
    BY <2>1, <2>3, <2>4
<1> QED
  BY <1>1, <1>2

\* A new item, to which m leads from the item cur, is to be filled next.
LEMMA EntersStep ==
  ASSUME NEW m, NEW i, NEW parents, NEW mode, NEW where, mode \in {"value", "key"},
         Sound(item, strings, live), cur \in DOMAIN item,
         Linked(item, Append(m, i), cur),
         Nested(Append(m, i), parents, New), Enters(m, i, parents, mode, where)
  PROVE  ParseInv'
<1>1. Sound(item', strings, live \cup {ItemBlock(Len(item) + 1)})
  BY LinkedSound DEF Enters
<1>2. Fresh(item', New, mode)
  <2>1. New \in DOMAIN item'
    BY SomeSeqs DEF Linked, New, Sound, Cells, Enters
  <2> QED
    BY <2>1 DEF Linked, New, Fresh, Enters
<1> QED
  BY <1>1, <1>2 DEF Enters, New, ParseInv, Mode

\* The first value or key of an array or object.
LEMMA ParseOpenStep ==
  ASSUME ParseInv, ParseOpen
  PROVE  ParseInv'
<1> DEFINE type == Opening[At(text, pos)]
           p2 == skip(text, pos + 1)
           m == [item EXCEPT ![cur].type = type, ![cur].child = New]
           m2 == Append(m, NewItem)
<1>1. pmode = "value" /\ type \in DOMAIN Closing /\ FirstPart[type] \in {"value", "key"}
  BY DEF ParseOpen, Opening, Closing, FirstPart
<1>2. /\ Sound(item, strings, live) /\ Nested(item, up, cur) /\ Cells(item)
      /\ cur \in DOMAIN item /\ cur \in Nat /\ SomeSeq(item)
      /\ \A i \in DOMAIN item : DOMAIN item[i] = Fields
      /\ item[cur].child = 0 /\ item[cur].next = 0
  BY <1>1, Filling DEF Sound
<1>3. CASE At(text, p2) = Closing[type]
  <2>1. /\ item' = [item EXCEPT ![cur].type = type] /\ UNCHANGED <<cur, up, strings, live>>
        /\ pmode' = IF up = <<>> THEN "end" ELSE "after"
    BY <1>3 DEF ParseOpen, Ends
  <2> QED
    BY <1>1, <2>1, ScalarStep
<1>4. CASE OutOfMemory
  BY <1>1, <1>4, FailsStep
<1>5. CASE Enters(m, NewItem, Append(up, cur), FirstPart[type], p2)
  <2>1. Len(item) \in Nat /\ DOMAIN item = 1 .. Len(item) /\ New = Len(item) + 1
    BY <1>2, SomeSeqs DEF New
  <2>2. SomeSeq(m)
    BY <1>2, SomeSeqExcept
  <2>3. /\ DOMAIN m = DOMAIN item /\ DOMAIN m[cur] = Fields
        /\ m[cur].child = New /\ m[cur].next = 0 /\ m[cur].prev = item[cur].prev
        /\ m[cur].type = type
        /\ m[cur].string = item[cur].string /\ m[cur].valuestring = item[cur].valuestring
        /\ \A i \in DOMAIN item : i # cur => m[i] = item[i]
    BY <1>2 DEF Fields
  <2>4. /\ SomeSeq(m2) /\ DOMAIN m2 = 1 .. New /\ m2[New] = NewItem
        /\ \A i \in DOMAIN item : m2[i] = m[i]
    <3>1. Len(m) \in Nat /\ DOMAIN m = 1 .. Len(m)
      BY <2>2, SomeSeqs
    <3>2. Len(m) = Len(item)
      BY <2>1, <2>3, <3>1
    <3> HIDE DEF m
    <3> QED
      BY <2>1, <2>2, <3>1, <3>2, SomeSeqs
  <2> HIDE DEF m2, m, type
  <2>5. Linked(item, m2, cur)
    BY <1>2, <2>1, <2>3, <2>4 DEF Linked, NewItem, NoString, Fields
  <2>6. Nested(m2, Append(up, cur), New)
    <3>1. Nested(m2, up, cur)
      BY <1>2, <2>1, <2>3, <2>4, NestedKept
    <3>2. m2[cur].next = 0 /\ m2[cur].type \in DOMAIN Closing /\ cur \in DOMAIN m2 /\ cur < New
      BY <1>1, <1>2, <2>1, <2>3, <2>4
    <3>3. DOMAIN m2 \subseteq Nat
      BY <2>1, <2>4
    <3>4. /\ SomeSeq(up) /\ Len(up) \in Nat /\ DOMAIN up = 1 .. Len(up)
          /\ SomeSeq(Append(up, cur)) /\ DOMAIN Append(up, cur) = 1 .. Len(up) + 1
          /\ \A k \in 1 .. Len(up) : Append(up, cur)[k] = up[k]
          /\ Append(up, cur)[Len(up) + 1] = cur
      BY <3>1, SomeSeqs DEF Nested
    <3> DEFINE u2 == Append(up, cur)
    <3> HIDE DEF u2
    <3>5. ASSUME NEW k \in DOMAIN u2
          PROVE  /\ u2[k] \in DOMAIN m2 /\ u2[k] < New
                 /\ m2[u2[k]].next = 0 /\ m2[u2[k]].type \in DOMAIN Closing
                 /\ k # Len(up) + 1 => k \in DOMAIN up /\ u2[k] = up[k] /\ up[k] < cur
                 /\ k = Len(up) + 1 => u2[k] = cur
      BY <1>2, <2>1, <3>1, <3>2, <3>3, <3>4 DEF Nested, u2
    <3>6. ASSUME NEW k \in DOMAIN u2, NEW l \in DOMAIN u2, k < l PROVE u2[k] < u2[l]
      BY <3>1, <3>4, <3>5, <3>6 DEF Nested, u2
    <3> QED
      BY <3>4, <3>5, <3>6 DEF Nested, u2
  <2> QED
    BY <1>1, <1>2, <1>5, <2>5, <2>6, EntersStep DEF m2, m, type
<1> QED
  BY <1>3, <1>4, <1>5 DEF ParseOpen

\* What reading goes on from after a value.
LEMMA Inside ==
  ASSUME ParseInv, pmode = "after"
  PROVE  /\ Sound(item, strings, live) /\ Cells(item) /\ Nested(item, up, cur)
         /\ cur \in DOMAIN item /\ cur \in Nat /\ SomeSeq(item)
         /\ \A i \in DOMAIN item : DOMAIN item[i] = Fields
         /\ item[cur].next = 0
         /\ up # <<>> /\ Len(up) \in DOMAIN up /\ Last(up) = up[Len(up)]
         /\ item[Last(up)].type \in DOMAIN Closing
<1>1. Sound(item, strings, live) /\ Fresh(item, cur, pmode) /\ Nested(item, up, cur) /\ up # <<>>
  BY DEF ParseInv
<1>2. cur \in Nat
  BY <1>1, SomeSeqs DEF Sound, Cells, Fresh
<1>3. Len(up) \in DOMAIN up /\ Last(up) = up[Len(up)]
  BY <1>1, SomeSeqs DEF Nested
<1> QED
  BY <1>1, <1>2, <1>3 DEF Sound, Cells, Fresh, Nested

\* Another value or member.
LEMMA ParseCommaStep ==
  ASSUME ParseInv, ParseComma
  PROVE  ParseInv'
<1> DEFINE m == [item EXCEPT ![cur].next = New]
           i == [NewItem EXCEPT !.prev = cur]
           m2 == Append(m, i)
           mode == FirstPart[item[Last(up)].type]
<1>1. pmode = "after"
  BY DEF ParseComma
<1>2. /\ Sound(item, strings, live) /\ Nested(item, up, cur) /\ Cells(item)
      /\ cur \in DOMAIN item /\ cur \in Nat /\ SomeSeq(item)
      /\ \A n \in DOMAIN item : DOMAIN item[n] = Fields
      /\ item[cur].next = 0 /\ mode \in {"value", "key"}
  BY <1>1, Inside DEF Closing, FirstPart
<1>3. CASE OutOfMemory
  BY <1>1, <1>3, FailsStep
<1>4. CASE Enters(m, i, up, mode, skip(text, pos + 1))
  <2>1. Len(item) \in Nat /\ DOMAIN item = 1 .. Len(item) /\ New = Len(item) + 1
    BY <1>2, SomeSeqs DEF New
  <2>2. SomeSeq(m)
    BY <1>2, SomeSeqExcept
  <2>3. /\ DOMAIN m = DOMAIN item /\ DOMAIN m[cur] = Fields
        /\ m[cur].child = item[cur].child /\ m[cur].next = New /\ m[cur].prev = item[cur].prev
        /\ m[cur].string = item[cur].string /\ m[cur].valuestring = item[cur].valuestring
        /\ \A n \in DOMAIN item : n # cur => m[n] = item[n]
    BY <1>2 DEF Fields
  <2>4. /\ SomeSeq(m2) /\ DOMAIN m2 = 1 .. New /\ m2[New] = i
        /\ \A n \in DOMAIN item : m2[n] = m[n]
    <3>1. Len(m) \in Nat /\ DOMAIN m = 1 .. Len(m)
      BY <2>2, SomeSeqs
    <3>2. Len(m) = Len(item)
      BY <2>1, <2>3, <3>1
    <3> HIDE DEF m, i
    <3> QED
      BY <2>1, <2>2, <3>1, <3>2, SomeSeqs
  <2> HIDE DEF m2
  <2>5. Linked(item, m2, cur)
    BY <1>2, <2>1, <2>3, <2>4 DEF Linked, NewItem, NoString, Fields
  <2>6. Nested(m2, up, New)
    BY <1>2, <2>1, <2>3, <2>4, NestedKept
  <2> QED
    BY <1>2, <1>4, <2>5, <2>6, EntersStep DEF m2
<1> QED
  BY <1>3, <1>4 DEF ParseComma

\* The array or object is complete and is itself a value of the one around it.
LEMMA ParseCloseStep ==
  ASSUME ParseInv, ParseClose
  PROVE  ParseInv'
<1>1. pmode = "after" /\ UNCHANGED <<item, strings, live>> /\ cur' = Last(up) /\ up' = Front(up)
  BY DEF ParseClose
<1>2. /\ Sound(item, strings, live) /\ Nested(item, up, cur) /\ Cells(item)
      /\ up # <<>> /\ Last(up) = up[Len(up)] /\ Len(up) \in DOMAIN up
  BY <1>1, Inside
<1>3. /\ Len(up) \in Nat /\ DOMAIN up = 1 .. Len(up) /\ SomeSeq(Front(up))
      /\ DOMAIN Front(up) = 1 .. Len(up) - 1
      /\ \A k \in 1 .. Len(up) - 1 : Front(up)[k] = up[k]
  BY <1>2, SomeSeqs DEF Nested
<1>4. Nested(item, Front(up), up[Len(up)])
  <2> DEFINE u == Front(up)
  <2> HIDE DEF u
  <2>1. ASSUME NEW k \in DOMAIN u
        PROVE  k \in DOMAIN up /\ u[k] = up[k] /\ k < Len(up)
    BY <1>3 DEF u
  <2> QED
    BY <1>2, <1>3, <2>1 DEF Nested, u
<1>5. pmode' \in {"after", "end"} /\ (pmode' = "after" => up' # <<>>)
  BY DEF ParseClose, Ends
<1>6. Fresh(item, up[Len(up)], pmode')
  BY <1>2, <1>5 DEF Fresh, Nested
<1> QED
  BY <1>1, <1>2, <1>4, <1>5, <1>6 DEF ParseInv, Mode

LEMMA ParseEndStep ==
  ASSUME ParseInv, ParseEnd
  PROVE  ParseInv'
<1>1. CASE \E where : FailAt(where)
  BY <1>1, FailsStep DEF ParseEnd
<1>2. CASE pmode' = "parsed" /\ UNCHANGED memory
  BY <1>2 DEF ParseEnd, memory, ParseInv, Fresh, Mode
<1> QED
  BY <1>1, <1>2 DEF ParseEnd

LEMMA ParseStep ==
  ASSUME ParseInv, Parse
  PROVE  ParseInv'
<1>1. CASE ParseLiteral
  BY <1>1, ScalarStep DEF ParseLiteral, Ends
<1>2. CASE ParseNumber
  BY <1>2, ScalarStep DEF ParseNumber, Ends
<1>3. CASE NotAValue \/ Malformed
  BY <1>3, FailsStep DEF NotAValue, Malformed
<1> QED
  BY <1>1, <1>2, <1>3, ParseStringStep, ParseOpenStep, ParseKeyStep, ParseCommaStep,
     ParseCloseStep, ParseEndStep DEF Parse

\* Printing leaves the parser alone.
LEMMA StepParse ==
  ASSUME ParseInv, [Next]_text_vars
  PROVE  ParseInv'
<1>1. CASE UNCHANGED parse_vars
  BY <1>1 DEF parse_vars, memory, ParseInv
<1>2. CASE ReadBack
  BY <1>2, StartStep DEF ReadBack
<1>3. CASE Read
  BY <1>3, StartStep DEF Read
<1>4. CASE Parsing
  BY <1>4, ParseStep DEF Parsing
<1> QED
  BY <1>1, <1>2, <1>3, <1>4 DEF Next, PrintTree, Printing, text_vars

\* What ParseInv says of the items and strings is what ParseOwnsAll asks for.
LEMMA InvOwns == ParseInv => ParseOwnsAll
BY RootOwnsAll DEF ParseInv, ParseOwnsAll, Sound, Cells, Kept

\* Every item and string the parser has allocated is below the root, once, when it
\* fails, so that nothing is left: for all texts, and wherever malloc fails.
THEOREM FailureFreesAll == Spec => []ParseOwnsAll
<1>1. Init => ParseInv
  BY InitParse DEF Init
<1>2. ParseInv /\ [Next]_text_vars => ParseInv'
  BY StepParse
<1> QED
  BY <1>1, <1>2, InvOwns, PTL DEF Spec

-----------------------------------------------------------------------------
(***************************************************************************)
(* The blocks of the printer.                                               *)
(***************************************************************************)

IsFrame(f) ==
  /\ DOMAIN f = {"of", "done", "start", "names", "entries"}
  /\ SomeSeq(f.names) /\ SomeSeq(f.entries)
AreFrames(fs) == SomeSeq(fs) /\ \A k \in DOMAIN fs : IsFrame(fs[k])

\* The frames fs hold n blocks: sum[k] is what the first k of them hold.
Owed(fs, n) ==
  \E sum \in [0 .. Len(fs) -> Nat] :
    /\ sum[0] = 0
    /\ \A k \in 1 .. Len(fs) : sum[k] = sum[k - 1] + Held(fs[k])
    /\ sum[Len(fs)] = n

\* The text print_value has returned is nobody else's so far.
Text(mode, r) == IF mode \in {"after", "printed"} /\ r # Null THEN 1 ELSE 0

WMode == {"idle", "value", "frame", "after", "printed", "unprintable"}

IsBuffer(q) == DOMAIN q = {"there", "buffer", "offset", "stray"} /\ q.there \in BOOLEAN

PrintInv ==
  /\ wmode \in WMode
  /\ wmode = "idle" => p = NoBuffer /\ frames = <<>> /\ ret = Null
  /\ wmode = "printed" => ret # Null
  /\ wmode # "idle" /\ ~buffered =>
       /\ AreFrames(frames)
       /\ wmode \in {"frame", "after"} => frames # <<>>
       /\ wmode \in {"printed", "unprintable"} => frames = <<>>
       /\ \E n \in Nat : Owed(frames, n) /\ blocks = n + Text(wmode, ret)
  /\ wmode # "idle" /\ buffered =>
       /\ IsBuffer(p)
       /\ blocks = IF p.there THEN 1 ELSE 0
       /\ wmode = "printed" => p.there
       /\ wmode = "unprintable" => ~p.there

LEMMA FilledCount ==
  ASSUME NEW ts, SomeSeq(ts)
  PROVE  IsFiniteSet(Filled(ts)) /\ Cardinality(Filled(ts)) \in Nat
<1>1. IsFiniteSet(DOMAIN ts)
  BY SomeSeqs, FS_Interval
<1>2. IsFiniteSet(Filled(ts))
  BY <1>1, FS_Subset DEF Filled
<1> QED
  BY <1>2, FS_CardinalityType

\* A text more, or the result of a failure.
LEMMA FilledAppend ==
  ASSUME NEW ts, SomeSeq(ts), NEW t
  PROVE  Cardinality(Filled(Append(ts, t))) = Cardinality(Filled(ts)) + IF t = Null THEN 0 ELSE 1
<1>1. /\ Len(ts) \in Nat /\ DOMAIN ts = 1 .. Len(ts) /\ DOMAIN Append(ts, t) = 1 .. Len(ts) + 1
      /\ \A i \in 1 .. Len(ts) : Append(ts, t)[i] = ts[i]
      /\ Append(ts, t)[Len(ts) + 1] = t
  BY SomeSeqs
<1>2. IsFiniteSet(Filled(ts)) /\ Cardinality(Filled(ts)) \in Nat
  BY FilledCount
<1>3. CASE t = Null
  <2>1. Filled(Append(ts, t)) = Filled(ts)
    BY <1>1, <1>3 DEF Filled
  <2> QED
    BY <1>2, <1>3, <2>1
<1>4. CASE t # Null
  <2>1. Filled(Append(ts, t)) = Filled(ts) \cup {Len(ts) + 1} /\ Len(ts) + 1 \notin Filled(ts)
    BY <1>1, <1>4 DEF Filled
  <2>2. Cardinality(Filled(Append(ts, t))) = Cardinality(Filled(ts)) + 1
    BY <1>2, <2>1, FS_AddElement
  <2> QED
    BY <1>4, <2>2
<1> QED
  BY <1>3, <1>4

LEMMA HeldCount ==
  ASSUME NEW f, IsFrame(f)
  PROVE  Held(f) \in Nat
BY FilledCount DEF IsFrame, Held

\* A frame around all the others, and the innermost one again without it.
LEMMA OwedPush ==
  ASSUME NEW fs, NEW n, AreFrames(fs), Owed(fs, n), NEW f, IsFrame(f)
  PROVE  AreFrames(Append(fs, f)) /\ Owed(Append(fs, f), n + Held(f)) /\ Append(fs, f) # <<>>
<1> DEFINE gs == Append(fs, f)
<1>1. /\ Len(fs) \in Nat /\ DOMAIN fs = 1 .. Len(fs) /\ SomeSeq(gs) /\ Len(gs) = Len(fs) + 1
      /\ DOMAIN gs = 1 .. Len(fs) + 1
      /\ \A i \in 1 .. Len(fs) : gs[i] = fs[i]
      /\ gs[Len(fs) + 1] = f
  BY SomeSeqs DEF AreFrames
<1>2. PICK sum \in [0 .. Len(fs) -> Nat] :
        /\ sum[0] = 0
        /\ \A k \in 1 .. Len(fs) : sum[k] = sum[k - 1] + Held(fs[k])
        /\ sum[Len(fs)] = n
  BY DEF Owed
<1>3. n \in Nat /\ Held(f) \in Nat
  BY <1>1, <1>2, HeldCount
<1> HIDE DEF gs
<1> DEFINE sum2 == [k \in 0 .. Len(gs) |-> IF k = Len(gs) THEN n + Held(f) ELSE sum[k]]
<1>4. /\ sum2 \in [0 .. Len(gs) -> Nat] /\ sum2[0] = 0 /\ sum2[Len(gs)] = n + Held(f)
  BY <1>1, <1>2, <1>3
<1>5. ASSUME NEW k \in 1 .. Len(gs) PROVE sum2[k] = sum2[k - 1] + Held(gs[k])
  <2>1. CASE k = Len(gs)
    <3>0. Len(fs) \in Nat /\ k = Len(fs) + 1 /\ Len(gs) = Len(fs) + 1
      BY <1>1, <2>1
    <3>1. k - 1 = Len(fs) /\ k - 1 \in 0 .. Len(gs) /\ k - 1 # Len(gs)
      BY <3>0
    <3>2. gs[k] = f
      BY <1>1, <2>1
    <3> QED
      BY <1>2, <1>4, <2>1, <3>1, <3>2
  <2>2. CASE k # Len(gs)
    <3>1. k \in 1 .. Len(fs) /\ k - 1 \in 0 .. Len(gs) /\ k - 1 # Len(gs)
      BY <1>1, <2>2
    <3> QED
      BY <1>1, <1>2, <2>2, <3>1
  <2> QED
    BY <2>1, <2>2
<1>6. Owed(gs, n + Held(f))
  <2> HIDE DEF sum2
  <2> QED
    BY <1>4, <1>5 DEF Owed
<1>7. AreFrames(gs)
  BY <1>1 DEF AreFrames
<1>8. gs # <<>>
  BY <1>1
<1> QED
  BY <1>6, <1>7, <1>8 DEF gs

LEMMA OwedPop ==
  ASSUME NEW fs, NEW n, AreFrames(fs), Owed(fs, n), fs # <<>>
  PROVE  /\ AreFrames(Front(fs)) /\ Owed(Front(fs), n - Held(Last(fs)))
         /\ IsFrame(Last(fs)) /\ Held(Last(fs)) \in Nat /\ n \in Nat /\ n - Held(Last(fs)) \in Nat
<1> DEFINE gs == Front(fs)
           N == Len(fs) - 1
<1>1. /\ Len(fs) \in Nat /\ Len(fs) > 0 /\ DOMAIN fs = 1 .. Len(fs) /\ Last(fs) = fs[Len(fs)]
      /\ SomeSeq(gs) /\ Len(gs) = N /\ DOMAIN gs = 1 .. N
      /\ \A i \in 1 .. N : gs[i] = fs[i]
  BY SomeSeqs DEF AreFrames
<1> HIDE DEF gs
<1>2. PICK sum \in [0 .. Len(fs) -> Nat] :
        /\ sum[0] = 0
        /\ \A k \in 1 .. Len(fs) : sum[k] = sum[k - 1] + Held(fs[k])
        /\ sum[Len(fs)] = n
  BY DEF Owed
<1>3. AreFrames(gs) /\ IsFrame(fs[Len(fs)])
  BY <1>1 DEF AreFrames
<1>4. Held(fs[Len(fs)]) \in Nat /\ n \in Nat /\ N \in Nat /\ sum[N] \in Nat
  BY <1>1, <1>2, <1>3, HeldCount
<1>5. sum[N] = n - Held(fs[Len(fs)])
  BY <1>1, <1>2, <1>4
<1> DEFINE sum2 == [k \in 0 .. N |-> sum[k]]
<1>6. sum2 \in [0 .. N -> Nat] /\ sum2[0] = 0 /\ sum2[N] = n - Held(fs[Len(fs)])
  BY <1>1, <1>2, <1>4, <1>5
<1>7. ASSUME NEW k \in 1 .. N PROVE sum2[k] = sum2[k - 1] + Held(gs[k])
  BY <1>1, <1>2, <1>4
<1>8. Owed(gs, n - Held(fs[Len(fs)]))
  <2> HIDE DEF sum2, N
  <2> QED
    BY <1>1, <1>6, <1>7 DEF Owed
<1> QED
  BY <1>1, <1>3, <1>4, <1>5, <1>8 DEF gs

LEMMA InitPrint == PrintIdle => PrintInv
BY DEF PrintIdle, PrintInv, WMode

LEMMA PrintStartStep ==
  ASSUME PrintInv, NEW v, NEW format, NEW prebuffer, PrintStart(v, format, prebuffer)
  PROVE  PrintInv'
<1>1. /\ wmode' = "value" /\ frames' = <<>> /\ p = NoBuffer /\ buffered' \in BOOLEAN
  BY DEF PrintStart, PrintInv
<1>2. CASE ~buffered'
  <2>1. blocks' = 0
    BY <1>2 DEF PrintStart
  <2>2. <<>> \in Seq({}) /\ Len(<<>>) = 0 /\ DOMAIN <<>> = {}
    OBVIOUS
  <2>3. AreFrames(<<>>)
    BY <2>2 DEF AreFrames, SomeSeq
  <2>4. Owed(<<>>, 0)
    <3> DEFINE sum == [k \in 0 .. 0 |-> 0]
    <3>1. sum \in [0 .. 0 -> Nat] /\ sum[0] = 0
      OBVIOUS
    <3> HIDE DEF sum
    <3>2. \A k \in 1 .. 0 : sum[k] = sum[k - 1] + Held(<<>>[k])
      OBVIOUS
    <3> QED
      BY <2>2, <3>1, <3>2 DEF Owed
  <2> QED
    BY <1>1, <1>2, <2>1, <2>3, <2>4 DEF PrintInv, WMode, Text
<1>3. CASE buffered'
  <2>1. \/ p' = NoBuffer /\ blocks' = 0
        \/ blocks' = 1 /\ \E b : p' = [NoBuffer EXCEPT !.there = TRUE, !.buffer = b]
    BY <1>1 DEF PrintStart
  <2>2. CASE p' = NoBuffer /\ blocks' = 0
    BY <1>1, <1>3, <2>2 DEF NoBuffer, IsBuffer, PrintInv, WMode
  <2>3. CASE blocks' = 1 /\ \E b : p' = [NoBuffer EXCEPT !.there = TRUE, !.buffer = b]
    <3>1. PICK b : p' = [NoBuffer EXCEPT !.there = TRUE, !.buffer = b]
      BY <2>3
    <3>2. DOMAIN p' = {"there", "buffer", "offset", "stray"} /\ p'.there = TRUE
      BY <3>1 DEF NoBuffer
    <3> QED
      BY <1>1, <1>3, <2>3, <3>2 DEF IsBuffer, PrintInv, WMode
  <2> QED
    BY <2>1, <2>2, <2>3
<1> QED
  BY <1>1, <1>2, <1>3

\* Without a buffer, print_value returns to the frame around it or to the caller.
LEMMA Returned ==
  ASSUME NEW n \in Nat, NEW r, ~buffered', AreFrames(frames'), Owed(frames', n),
         Return(r, n + IF r = Null THEN 0 ELSE 1)
  PROVE  PrintInv'
<1>1. CASE frames' # <<>>
  BY <1>1 DEF Return, PrintInv, WMode, Text
<1>2. CASE frames' = <<>>
  BY <1>2 DEF Return, PrintInv, WMode, Text
<1> QED
  BY <1>1, <1>2

\* What a step without a buffer starts from.
LEMMA Unbuffered ==
  ASSUME PrintInv, ~buffered, wmode \in {"value", "frame", "after"}
  PROVE  \E n \in Nat :
           /\ AreFrames(frames) /\ Owed(frames, n) /\ blocks = n + Text(wmode, ret)
           /\ wmode # "value" =>
                /\ frames # <<>> /\ IsFrame(Top) /\ Held(Top) \in Nat
                /\ AreFrames(Front(frames)) /\ Owed(Front(frames), n - Held(Top))
                /\ n - Held(Top) \in Nat
BY OwedPop DEF PrintInv, Top

LEMMA PrintLeafStep ==
  ASSUME PrintInv, PrintLeaf
  PROVE  PrintInv'
<1>1. wmode = "value" /\ ~buffered /\ ~buffered' /\ frames' = frames
  BY DEF PrintLeaf, call
<1>2. PICK n \in Nat : AreFrames(frames) /\ Owed(frames, n) /\ blocks = n
  BY <1>1, Unbuffered DEF Text
<1>3. \E r : Return(r, n + IF r = Null THEN 0 ELSE 1)
  <2>1. CASE Return(Null, blocks)
    BY <1>2, <2>1
  <2>2. CASE Return(Ptr(LeafText(node)), blocks + 1)
    <3>1. Ptr(LeafText(node)) # Null
      BY DEF Ptr, Null
    <3> QED
      BY <1>2, <2>2, <3>1
  <2> QED
    BY <2>1, <2>2 DEF PrintLeaf
<1> QED
  BY <1>1, <1>2, <1>3, Returned

LEMMA PrintEnterStep ==
  ASSUME PrintInv, PrintEnter
  PROVE  PrintInv'
<1>1. wmode = "value" /\ ~buffered /\ ~buffered'
  BY DEF PrintEnter, call
<1>2. PICK n \in Nat : AreFrames(frames) /\ Owed(frames, n) /\ blocks = n
  BY <1>1, Unbuffered DEF Text
<1>3. CASE UNCHANGED frames /\ Return(Null, blocks)
  BY <1>1, <1>2, <1>3, Returned
<1>4. CASE ~(UNCHANGED frames /\ Return(Null, blocks))
  <2>1. /\ frames' = Append(frames, Frame(node)) /\ wmode' = "frame"
        /\ blocks' = n + Held(Frame(node))
    BY <1>2, <1>4 DEF PrintEnter
  <2>2. <<>> \in Seq({})
    OBVIOUS
  <2>3. IsFrame(Frame(node))
    BY <2>2 DEF IsFrame, Frame, SomeSeq
  <2> QED
    BY <1>1, <1>2, <2>1, <2>3, OwedPush, HeldCount DEF PrintInv, WMode, Text
<1> QED
  BY <1>3, <1>4

\* The innermost frame becomes f, which holds as many blocks more as there are.
LEMMA FrameStep ==
  ASSUME NEW n \in Nat, NEW f, IsFrame(f), ~buffered', wmode' \in {"value", "frame"},
         AreFrames(Front(frames)), Owed(Front(frames), n),
         frames' = Append(Front(frames), f), blocks' = n + Held(f)
  PROVE  PrintInv'
BY OwedPush, HeldCount DEF PrintInv, WMode, Text

LEMMA PrintNextStep ==
  ASSUME PrintInv, PrintNext
  PROVE  PrintInv'
<1> DEFINE name == Quoted(Top.of.kids[Top.done + 1].key)
           next == [Top EXCEPT !.done = @ + 1]
           Named(t) == [next EXCEPT !.names = Append(@, t)]
<1>1. wmode = "frame" /\ ~buffered /\ ~buffered' /\ wmode' = "value"
  BY DEF PrintNext, call
<1>2. PICK n \in Nat :
        /\ AreFrames(Front(frames)) /\ Owed(Front(frames), n - Held(Top))
        /\ n - Held(Top) \in Nat /\ Held(Top) \in Nat /\ IsFrame(Top) /\ blocks = n
  BY <1>1, Unbuffered DEF Text
<1>3. IsFrame(next) /\ Held(next) = Held(Top)
  BY <1>2 DEF IsFrame, Held
<1>4. ASSUME NEW t PROVE IsFrame(Named(t)) /\ Held(Named(t)) = Held(Top) + IF t = Null THEN 0 ELSE 1
  <2>1. /\ SomeSeq(Append(Top.names, t))
        /\ Cardinality(Filled(Append(Top.names, t)))
             = Cardinality(Filled(Top.names)) + IF t = Null THEN 0 ELSE 1
        /\ Cardinality(Filled(Top.names)) \in Nat /\ Cardinality(Filled(Top.entries)) \in Nat
    BY <1>2, SomeSeqs, FilledAppend, FilledCount DEF IsFrame
  <2>2. /\ Named(t).names = Append(Top.names, t) /\ Named(t).entries = Top.entries
        /\ Named(t).of = Top.of /\ DOMAIN Named(t) = DOMAIN Top
    BY <1>2 DEF IsFrame
  <2> HIDE DEF Named
  <2> QED
    BY <1>2, <2>1, <2>2 DEF IsFrame, Held
<1>5. Ptr(name) # Null
  BY DEF Ptr, Null
<1> HIDE DEF next, Named, name
<1>6. \E f : IsFrame(f) /\ frames' = Append(Front(frames), f) /\ blocks' = (n - Held(Top)) + Held(f)
  <2>1. CASE frames' = Append(Front(frames), next) /\ UNCHANGED blocks
    BY <1>2, <1>3, <2>1
  <2>2. CASE frames' = Append(Front(frames), Named(Null)) /\ UNCHANGED blocks
    BY <1>2, <1>4, <2>2
  <2>3. CASE frames' = Append(Front(frames), Named(Ptr(name))) /\ blocks' = blocks + 1
    BY <1>2, <1>4, <1>5, <2>3
  <2> QED
    BY <2>1, <2>2, <2>3 DEF PrintNext, next, Named, name
<1> QED
  BY <1>1, <1>2, <1>6, FrameStep

LEMMA PrintReturnedStep ==
  ASSUME PrintInv, PrintReturned
  PROVE  PrintInv'
<1> DEFINE f == [Top EXCEPT !.entries = Append(@, ret)]
<1>1. /\ wmode = "after" /\ ~buffered /\ ~buffered' /\ wmode' = "frame"
      /\ frames' = Append(Front(frames), f) /\ blocks' = blocks
  BY DEF PrintReturned, call
<1>2. PICK n \in Nat :
        /\ AreFrames(Front(frames)) /\ Owed(Front(frames), n - Held(Top))
        /\ n - Held(Top) \in Nat /\ Held(Top) \in Nat /\ IsFrame(Top)
        /\ blocks = n + IF ret = Null THEN 0 ELSE 1
  BY <1>1, Unbuffered DEF Text
<1>3. /\ SomeSeq(Append(Top.entries, ret))
      /\ Cardinality(Filled(Append(Top.entries, ret)))
           = Cardinality(Filled(Top.entries)) + IF ret = Null THEN 0 ELSE 1
      /\ Cardinality(Filled(Top.names)) \in Nat /\ Cardinality(Filled(Top.entries)) \in Nat
  BY <1>2, SomeSeqs, FilledAppend, FilledCount DEF IsFrame
<1>4. /\ f.entries = Append(Top.entries, ret) /\ f.names = Top.names
      /\ f.of = Top.of /\ DOMAIN f = DOMAIN Top
  BY <1>2 DEF IsFrame
<1> HIDE DEF f
<1>5. IsFrame(f) /\ Held(f) = Held(Top) + IF ret = Null THEN 0 ELSE 1
  BY <1>2, <1>3, <1>4 DEF IsFrame, Held
<1>6. blocks' = (n - Held(Top)) + Held(f)
  BY <1>1, <1>2, <1>5
<1> QED
  BY <1>1, <1>2, <1>5, <1>6, FrameStep

\* The frame ends, in a text or not, and what it held is freed.
LEMMA PrintEndStep ==
  ASSUME PrintInv, PrintCompose \/ PrintAbort
  PROVE  PrintInv'
<1>1. wmode = "frame" /\ ~buffered /\ ~buffered' /\ frames' = Front(frames)
  BY DEF PrintCompose, PrintAbort, call
<1>2. PICK n \in Nat :
        /\ AreFrames(Front(frames)) /\ Owed(Front(frames), n - Held(Top))
        /\ n - Held(Top) \in Nat /\ Held(Top) \in Nat /\ blocks = n
  BY <1>1, Unbuffered DEF Text
<1>3. \E r : Return(r, (n - Held(Top)) + IF r = Null THEN 0 ELSE 1)
  <2>1. CASE PrintCompose
    <3>1. Ptr(TextOf(Top)) # Null
      BY DEF Ptr, Null
    <3>2. blocks + 1 - Held(Top) = (n - Held(Top)) + 1
      BY <1>2
    <3> QED
      BY <2>1, <3>1, <3>2 DEF PrintCompose
  <2>2. CASE PrintAbort
    <3>1. blocks - Freed(Top) = (n - Held(Top)) + 0
      BY <1>2 DEF Freed
    <3> QED
      BY <2>2, <3>1 DEF PrintAbort
  <2> QED
    BY <2>1, <2>2
<1> QED
  BY <1>1, <1>2, <1>3, Returned

\* The buffer may go, and does not come back.
Less(q, r) == IsBuffer(r) /\ (r.there => q.there)

LEMMA EnsureLess ==
  ASSUME NEW q, IsBuffer(q), NEW needed, NEW r \in Ensure(q, needed)
  PROVE  Less(q, r)
<1>1. CASE r = q
  BY <1>1 DEF Less
<1>2. CASE r = [q EXCEPT !.there = FALSE, !.buffer = <<>>]
  BY <1>2 DEF Less, IsBuffer
<1>3. CASE q.there /\ \E b : r = [q EXCEPT !.buffer = b]
  BY <1>3 DEF Less, IsBuffer
<1> QED
  BY <1>1, <1>2, <1>3 DEF Ensure, IsBuffer

LEMMA PutLess ==
  ASSUME NEW q, IsBuffer(q), NEW needed, NEW w, NEW forth, NEW r \in Put(q, needed, w, forth)
  PROVE  Less(q, r)
<1>1. PICK e \in Ensure(q, needed) :
        r = e \/ (e.there /\ \E b, o, x : r = [there |-> TRUE, buffer |-> b, offset |-> o, stray |-> x])
  BY DEF Put
<1>2. Less(q, e)
  BY EnsureLess
<1>3. CASE r = e
  BY <1>2, <1>3
<1>4. CASE e.there /\ \E b, o, x : r = [there |-> TRUE, buffer |-> b, offset |-> o, stray |-> x]
  <2>1. DOMAIN r = {"there", "buffer", "offset", "stray"} /\ r.there = TRUE
    BY <1>4
  <2> QED
    BY <1>2, <1>4, <2>1 DEF Less, IsBuffer
<1> QED
  BY <1>1, <1>3, <1>4

LEMMA UpdateLess ==
  ASSUME NEW q, IsBuffer(q)
  PROVE  Less(q, update(q))
<1>1. \E o, x : update(q) = [q EXCEPT !.offset = o] \/ update(q) = [q EXCEPT !.offset = o, !.stray = x]
  BY DEF update
<1>2. DOMAIN update(q) = DOMAIN q /\ update(q).there = q.there
  BY <1>1 DEF IsBuffer
<1> QED
  BY <1>2 DEF Less, IsBuffer

LEMMA KeyLess ==
  ASSUME IsBuffer(p), NEW key, NEW r \in BufferKey(key)
  PROVE  Less(p, r)
<1>1. PICK indented, named :
        /\ indented \in IF fmt THEN Put(p, Depth, Tabs(Depth), Depth) ELSE {p}
        /\ named \in Put(indented, QuotedRoom(key), Append(Quoted(key), 0), 0)
        /\ \E needed, w, forth : r \in Put(update(named), needed, w, forth)
  BY DEF BufferKey
<1>2. Less(p, indented)
  BY <1>1, PutLess DEF Less
<1>3. Less(indented, named)
  BY <1>1, <1>2, PutLess DEF Less
<1>4. Less(named, update(named))
  BY <1>3, UpdateLess DEF Less
<1>5. Less(update(named), r)
  BY <1>1, <1>4, PutLess DEF Less
<1> QED
  BY <1>2, <1>3, <1>4, <1>5 DEF Less

LEMMA BufferReturnStep ==
  ASSUME NEW q, IsBuffer(q), NEW r, buffered', BufferReturn(q, r)
  PROVE  PrintInv'
<1>1. Ptr(r) # Null /\ q.there \in BOOLEAN
  BY DEF Ptr, Null, IsBuffer
<1> QED
  BY <1>1 DEF BufferReturn, Return, PrintInv, WMode

LEMMA BufferGoesOnStep ==
  ASSUME PrintInv, buffered, wmode # "idle", buffered',
         NEW q, Less(p, q), NEW mode \in {"value", "frame"}, NEW f, BufferGoesOn(q, mode, f)
  PROVE  PrintInv'
<1>1. CASE q.there
  BY <1>1 DEF BufferGoesOn, PrintInv, Less, IsBuffer, WMode
<1>2. CASE ~q.there
  BY <1>2, BufferReturnStep DEF BufferGoesOn, Less
<1> QED
  BY <1>1, <1>2

LEMMA BufferStep ==
  ASSUME PrintInv,
         BufferLeaf \/ BufferOpen \/ BufferNext \/ BufferAfter \/ BufferClose
  PROVE  PrintInv'
<1>1. buffered /\ buffered' = buffered /\ wmode # "idle" /\ IsBuffer(p)
  BY DEF BufferLeaf, BufferOpen, BufferNext, BufferAfter, BufferClose, call, PrintInv
<1>2. CASE BufferLeaf
  BY <1>1, <1>2, PutLess, BufferReturnStep DEF BufferLeaf, Less
<1>3. CASE BufferOpen
  <2>1. PICK q, needed, w, forth :
          /\ q \in Put(p, needed, w, forth)
          /\ \/ BufferReturn(q, 0)
             \/ q.there /\ p' = q /\ wmode' = "frame" /\ blocks' = blocks
    BY <1>3 DEF BufferOpen
  <2>2. Less(p, q)
    BY <1>1, <2>1, PutLess
  <2>3. CASE BufferReturn(q, 0)
    BY <1>1, <2>2, <2>3, BufferReturnStep DEF Less
  <2>4. CASE q.there /\ p' = q /\ wmode' = "frame" /\ blocks' = blocks
    BY <1>1, <2>2, <2>4 DEF PrintInv, Less, IsBuffer, WMode
  <2> QED
    BY <2>1, <2>3, <2>4
<1>4. CASE BufferNext
  <2>1. PICK q, f : /\ q = p \/ \E key : q \in BufferKey(key)
                    /\ BufferGoesOn(q, "value", f)
    BY <1>4 DEF BufferNext
  <2>2. Less(p, q)
    BY <1>1, <2>1, KeyLess DEF Less
  <2> QED
    BY <1>1, <2>1, <2>2, BufferGoesOnStep
<1>5. CASE BufferAfter
  <2>1. PICK q, f : /\ q = update(p) \/ \E needed, w, forth : q \in Put(update(p), needed, w, forth)
                    /\ BufferGoesOn(q, "frame", f)
    BY <1>5 DEF BufferAfter
  <2>2. Less(p, update(p))
    BY <1>1, UpdateLess
  <2>3. Less(p, q)
    BY <2>1, <2>2, PutLess DEF Less
  <2> QED
    BY <1>1, <2>1, <2>3, BufferGoesOnStep
<1>6. CASE BufferClose
  <2>1. PICK q, r, needed, w, forth : q \in Put(p, needed, w, forth) /\ BufferReturn(q, r)
    BY <1>6 DEF BufferClose
  <2>2. Less(p, q)
    BY <1>1, <2>1, PutLess
  <2> QED
    BY <1>1, <2>1, <2>2, BufferReturnStep DEF Less
<1> QED
  BY <1>2, <1>3, <1>4, <1>5, <1>6

\* Parsing leaves the printer alone.
LEMMA StepPrint ==
  ASSUME PrintInv, [Next]_text_vars
  PROVE  PrintInv'
<1>1. CASE UNCHANGED print_vars
  BY <1>1 DEF print_vars, call, PrintInv, Text
<1>2. CASE PrintTree
  BY <1>2, PrintStartStep DEF PrintTree
<1>3. CASE Printing
  BY <1>3, PrintLeafStep, PrintEnterStep, PrintNextStep, PrintReturnedStep, PrintEndStep, BufferStep
     DEF Printing, PrintStep
<1> QED
  BY <1>1, <1>2, <1>3 DEF Next, ReadBack, Read, Parsing, text_vars

LEMMA InvKeepsText == PrintInv => PrintOwnsText
<1> SUFFICES ASSUME PrintInv, wmode \in {"printed", "unprintable"}
             PROVE  blocks = IF wmode = "printed" THEN 1 ELSE 0
  BY DEF PrintOwnsText
<1>1. CASE buffered
  BY <1>1 DEF PrintInv
<1>2. CASE ~buffered
  <2>1. PICK n \in Nat : Owed(<<>>, n) /\ blocks = n + Text(wmode, ret)
    BY <1>2 DEF PrintInv
  <2>2. n = 0
    <3>1. Len(<<>>) = 0
      OBVIOUS
    <3> QED
      BY <2>1, <3>1 DEF Owed
  <2> QED
    BY <2>1, <2>2 DEF Text, PrintInv
<1> QED
  BY <1>1, <1>2

\* The printer keeps nothing but the text it returns: for all values, sizes of
\* buffers and depths, in both modes, and wherever malloc fails.
THEOREM PrinterKeepsText == Spec => []PrintOwnsText
<1>1. Init => PrintInv
  BY InitPrint DEF Init
<1>2. PrintInv /\ [Next]_text_vars => PrintInv'
  BY StepPrint
<1> QED
  BY <1>1, <1>2, InvKeepsText, PTL DEF Spec

-----------------------------------------------------------------------------
(***************************************************************************)
(* The memory of the printer.                                               *)
(***************************************************************************)

\* A frame as the printer works on it.
OpenFrame == {f \in FrameSet : f.of.type \in DOMAIN Bracket /\ f.done <= Len(f.of.kids)}

\* Without a buffer: what it has printed of it, when it waits for a value and when
\* it goes on.
Named(f) == Len(f.names) = IF IsObject(f.of) THEN f.done ELSE 0
Waiting == {f \in OpenFrame : Named(f) /\ Len(f.entries) + 1 = f.done}
Ready == {f \in OpenFrame : Named(f) /\ Len(f.entries) = f.done}

\* A buffer in which no byte has strayed.
Fitting == [there : BOOLEAN, buffer : Seq(Int), offset : Nat, stray : {FALSE}]

\* There is a string at its offset, with its end.
Ended(q) ==
  \E end \in q.offset + 1 .. Len(q.buffer) :
    q.buffer[end] = 0 /\ \A k \in q.offset + 1 .. end - 1 : q.buffer[k] \notin {0, Unset}

FitInv ==
  /\ p \in Fitting
  /\ frames \in Seq(OpenFrame)
  /\ wmode = "value" => node \in Values
  /\ wmode \in {"frame", "after"} => frames # <<>>
  /\ ~buffered =>
       /\ wmode \in {"value", "after"} => frames \in Seq(Waiting)
       /\ wmode = "frame" => Front(frames) \in Seq(Waiting) /\ Top \in Ready
       /\ wmode \in {"after", "printed"} => ret \in Pointer
  /\ buffered =>
       /\ wmode = "after" /\ p.there => Ended(p)
       /\ wmode = "printed" => p.there /\ \E n \in Nat : ret = Ptr(n)

\* The fields of such a buffer.
LEMMA FittingIs ==
  /\ \A q \in Fitting : /\ q.buffer \in Seq(Int) /\ q.offset \in Nat /\ q.there \in BOOLEAN
                       /\ q.stray = FALSE /\ Len(q.buffer) \in Nat
                       /\ DOMAIN q.buffer = 1 .. Len(q.buffer)
                       /\ q = [there |-> q.there, buffer |-> q.buffer, offset |-> q.offset, stray |-> FALSE]
  /\ \A t \in BOOLEAN, b \in Seq(Int), o \in Nat :
       [there |-> t, buffer |-> b, offset |-> o, stray |-> FALSE] \in Fitting
<1>1. \A b \in Seq(Int) : Len(b) \in Nat /\ DOMAIN b = 1 .. Len(b)
  OBVIOUS
<1>2. ASSUME NEW q \in Fitting
      PROVE  /\ q.buffer \in Seq(Int) /\ q.offset \in Nat /\ q.there \in BOOLEAN /\ q.stray = FALSE
             /\ q = [there |-> q.there, buffer |-> q.buffer, offset |-> q.offset, stray |-> FALSE]
  BY DEF Fitting
<1>3. \A t \in BOOLEAN, b \in Seq(Int), o \in Nat :
        [there |-> t, buffer |-> b, offset |-> o, stray |-> FALSE] \in Fitting
  BY DEF Fitting
<1> QED
  BY ONLY <1>1, <1>2, <1>3

\* The last element of a sequence, and the others.
LEMMA SeqEnds ==
  ASSUME NEW S, NEW s \in Seq(S), NEW e \in S
  PROVE  /\ Append(s, e) \in Seq(S) /\ Append(s, e) # <<>>
         /\ Front(Append(s, e)) = s /\ Last(Append(s, e)) = e
         /\ s # <<>> => Front(s) \in Seq(S) /\ Last(s) \in S /\ Len(s) > 0 /\ s = Append(Front(s), Last(s))
         /\ Len(s) \in Nat
<1>1. Append(s, e) \in Seq(S) /\ Append(s, e) # <<>> /\ Len(s) \in Nat
  OBVIOUS
<1>2. Last(Append(s, e)) = e
  BY DEF Last
<1>3. Front(Append(s, e)) = s
  <2>1. Front(Append(s, e)) = [i \in 1 .. Len(s) |-> Append(s, e)[i]]
    BY DEF Front
  <2>2. \A i \in 1 .. Len(s) : Append(s, e)[i] = s[i]
    OBVIOUS
  <2>3. s = [i \in 1 .. Len(s) |-> s[i]]
    OBVIOUS
  <2> QED
    BY <2>1, <2>2, <2>3
<1>4. ASSUME s # <<>>
      PROVE  Front(s) \in Seq(S) /\ Last(s) \in S /\ Len(s) > 0 /\ s = Append(Front(s), Last(s))
  <2>1. Len(s) \in Nat /\ Len(s) > 0
    BY <1>4
  <2>2. Front(s) \in [1 .. Len(s) - 1 -> S] /\ Len(s) - 1 \in Nat
    <3>1. Front(s) = [i \in 1 .. Len(s) - 1 |-> s[i]]
      BY <2>1 DEF Front
    <3> QED
      BY <2>1, <3>1
  <2>3. Front(s) \in Seq(S) /\ Len(Front(s)) = Len(s) - 1
    BY <2>2, SeqIs
  <2>4. Last(s) \in S
    BY <2>1 DEF Last
  <2>5. s = Append(Front(s), Last(s))
    BY <2>1, <2>2, <2>3 DEF Front, Last
  <2> QED
    BY <2>1, <2>3, <2>4, <2>5
<1> QED
  BY <1>1, <1>2, <1>3, <1>4

\* ensure leaves what is in the buffer and makes room.
LEMMA EnsureFits ==
  ASSUME NEW q \in Fitting, NEW needed \in Nat, NEW r \in Ensure(q, needed)
  PROVE  /\ r \in Fitting /\ (r.there => q.there)
         /\ r.there => r.offset = q.offset /\ q.offset + needed <= Len(r.buffer)
<1>1. q.buffer \in Seq(Int) /\ q.offset \in Nat /\ Len(q.buffer) \in Nat
  BY FittingIs
<1>2. CASE ~q.there \/ q.offset + needed <= Len(q.buffer)
  <2>1. r = q
    BY <1>2 DEF Ensure
  <2> QED
    BY <1>2, <2>1
<1>3. CASE ~(~q.there \/ q.offset + needed <= Len(q.buffer))
  <2> DEFINE size == pow2gt(q.offset + needed)
             new == [k \in 1 .. size - Len(q.buffer) |-> Unset]
  <2>1. \/ r = [q EXCEPT !.there = FALSE, !.buffer = <<>>]
        \/ r = [q EXCEPT !.buffer = @ \o new]
    BY <1>3 DEF Ensure
  <2>2. CASE r = [q EXCEPT !.there = FALSE, !.buffer = <<>>]
    <3>1. <<>> \in Seq(Int)
      OBVIOUS
    <3> QED
      BY <2>2, <3>1 DEF Fitting
  <2>3. CASE r = [q EXCEPT !.buffer = @ \o new]
    <3>1. size \in Nat /\ q.offset + needed <= size
      <4>1. q.offset + needed \in Nat
        BY <1>1
      <4> QED
        BY <4>1, pow2gtIs
    <3> HIDE DEF size
    <3>2. size - Len(q.buffer) \in Nat
      BY <1>1, <1>3, <3>1
    <3>3. new \in Seq(Int) /\ Len(new) = size - Len(q.buffer)
      BY <3>2, SeqIs DEF Unset
    <3> HIDE DEF new
    <3>4. q.buffer \o new \in Seq(Int) /\ Len(q.buffer \o new) = Len(q.buffer) + Len(new)
      <4>1. \A a, b \in Seq(Int) : a \o b \in Seq(Int) /\ Len(a \o b) = Len(a) + Len(b)
        OBVIOUS
      <4> QED
        BY ONLY <1>1, <3>3, <4>1
    <3>5. Len(q.buffer \o new) = size
      BY ONLY <1>1, <3>1, <3>3, <3>4
    <3>6. r \in Fitting /\ r.there = q.there /\ r.offset = q.offset /\ r.buffer = q.buffer \o new
      BY <2>3, <3>4 DEF Fitting
    <3> QED
      BY <3>1, <3>5, <3>6
  <2> QED
    BY <2>1, <2>2, <2>3
<1> QED
  BY <1>2, <1>3

\* So a text no longer than what is needed does not stray, and stands at the old
\* offset.
LEMMA PutFits ==
  ASSUME NEW q \in Fitting, NEW needed \in Nat, NEW w \in Seq(Int), Len(w) <= needed,
         NEW forth \in Nat, NEW r \in Put(q, needed, w, forth)
  PROVE  /\ r \in Fitting /\ (r.there => q.there)
         /\ r.there => /\ r.offset = q.offset + forth
                       /\ \A k \in 1 .. Len(w) : /\ q.offset + k \in 1 .. Len(r.buffer)
                                                 /\ r.buffer[q.offset + k] = w[k]
<1> DEFINE Write(e) == [there  |-> TRUE,
                        buffer |-> [k \in DOMAIN e.buffer |->
                                      IF k - e.offset \in DOMAIN w THEN w[k - e.offset] ELSE e.buffer[k]],
                        offset |-> e.offset + forth,
                        stray  |-> e.stray \/ e.offset + Len(w) > Len(e.buffer)]
<1>1. PICK e \in Ensure(q, needed) : r = IF e.there THEN Write(e) ELSE e
  BY DEF Put
<1>2. /\ e \in Fitting /\ (e.there => q.there)
      /\ e.there => e.offset = q.offset /\ q.offset + needed <= Len(e.buffer)
  BY EnsureFits
<1>3. CASE ~e.there
  BY <1>1, <1>2, <1>3
<1>4. CASE e.there
  <2>1. /\ e.buffer \in Seq(Int) /\ e.offset \in Nat /\ e.stray = FALSE /\ Len(e.buffer) \in Nat
        /\ Len(w) \in Nat /\ e.offset = q.offset /\ DOMAIN w = 1 .. Len(w)
        /\ DOMAIN e.buffer = 1 .. Len(e.buffer)
    <3>1. \A b \in Seq(Int) : Len(b) \in Nat /\ DOMAIN b = 1 .. Len(b)
      OBVIOUS
    <3> QED
      BY <1>2, <1>4, <3>1, FittingIs
  <2>2. e.offset + Len(w) <= Len(e.buffer)
    BY <1>2, <1>4, <2>1
  <2> DEFINE b == [k \in DOMAIN e.buffer |->
                      IF k - e.offset \in DOMAIN w THEN w[k - e.offset] ELSE e.buffer[k]]
  <2>3. b \in [1 .. Len(e.buffer) -> Int]
    BY <2>1
  <2>4. b \in Seq(Int) /\ Len(b) = Len(e.buffer)
    BY <2>1, <2>3, SeqIs
  <2>5. \A k \in 1 .. Len(w) : q.offset + k \in 1 .. Len(e.buffer) /\ b[q.offset + k] = w[k]
    <3> SUFFICES ASSUME NEW k \in 1 .. Len(w)
                 PROVE  q.offset + k \in 1 .. Len(e.buffer) /\ b[q.offset + k] = w[k]
      OBVIOUS
    <3>1. q.offset + k \in 1 .. Len(e.buffer) /\ (q.offset + k) - e.offset = k
      <4>1. \A o, l, m \in Nat : \A i \in 1 .. l : o + l <= m => o + i \in 1 .. m /\ (o + i) - o = i
        OBVIOUS
      <4>2. q.offset \in Nat /\ Len(w) \in Nat /\ Len(e.buffer) \in Nat /\ q.offset + Len(w) <= Len(e.buffer)
        BY ONLY <2>1, <2>2
      <4> QED
        BY ONLY <2>1, <4>1, <4>2
    <3>2. q.offset + k \in DOMAIN e.buffer /\ k \in DOMAIN w
      BY <2>1, <3>1
    <3> QED
      BY ONLY <3>1, <3>2
  <2>6. /\ r.there = TRUE /\ r.buffer = b /\ r.offset = e.offset + forth
        /\ r.stray = (e.stray \/ e.offset + Len(w) > Len(e.buffer))
        /\ r = [there |-> r.there, buffer |-> r.buffer, offset |-> r.offset, stray |-> r.stray]
    BY <1>1, <1>4
  <2> HIDE DEF b
  <2>7. r.stray = FALSE
    <3>1. ~(e.offset + Len(w) > Len(e.buffer))
      BY <2>1, <2>2
    <3> QED
      BY <2>1, <2>6, <3>1
  <2>8. r \in Fitting
    <3>1. r = [there |-> TRUE, buffer |-> b, offset |-> e.offset + forth, stray |-> FALSE]
      BY <2>6, <2>7
    <3>2. e.offset + forth \in Nat
      BY <2>1
    <3> QED
      BY <2>4, <3>1, <3>2, FittingIs
  <2> QED
    BY <1>2, <1>4, <2>1, <2>4, <2>5, <2>6, <2>8
<1> QED
  BY <1>3, <1>4

\* A text that is put with its end and not gone past is a string.
LEMMA PutEnds ==
  ASSUME NEW q \in Fitting, NEW needed \in Nat, NEW w \in Seq(Char), Len(w) + 1 <= needed,
         NEW r \in Put(q, needed, Append(w, 0), 0)
  PROVE  /\ r \in Fitting /\ (r.there => q.there)
         /\ r.there => r.offset = q.offset /\ Ended(r)
<1> DEFINE v == Append(w, 0)
<1>1. /\ v \in Seq(Int) /\ Len(v) = Len(w) + 1 /\ Len(w) \in Nat /\ v[Len(w) + 1] = 0
      /\ \A k \in 1 .. Len(w) : v[k] = w[k] /\ v[k] \in Char
  <2>1. w \in Seq(Int)
    BY CharIs
  <2> QED
    BY <2>1
<1>2. \A c \in Char : c \notin {0, Unset}
  BY CharIs DEF Unset
<1> HIDE DEF v
<1>3. r \in Put(q, needed, v, 0)
  BY DEF v
<1>4. /\ r \in Fitting /\ (r.there => q.there)
      /\ r.there => /\ r.offset = q.offset + 0
                    /\ \A k \in 1 .. Len(v) : /\ q.offset + k \in 1 .. Len(r.buffer)
                                              /\ r.buffer[q.offset + k] = v[k]
  <2>1. Len(v) <= needed
    BY <1>1
  <2> QED
    BY <1>1, <1>3, <2>1, PutFits
<1>5. ASSUME r.there PROVE r.offset = q.offset /\ Ended(r)
  <2>1. q.offset \in Nat /\ Len(r.buffer) \in Nat /\ r.offset = q.offset
    BY <1>4, <1>5 DEF Fitting
  <2> DEFINE end == q.offset + (Len(w) + 1)
  <2>2. end \in 1 .. Len(r.buffer) /\ r.buffer[end] = 0
    BY <1>1, <1>4, <1>5
  <2>3. end \in r.offset + 1 .. Len(r.buffer)
    BY <1>1, <2>1, <2>2
  <2>4. ASSUME NEW k \in r.offset + 1 .. end - 1 PROVE r.buffer[k] \notin {0, Unset}
    <3>1. k - q.offset \in 1 .. Len(w) /\ q.offset + (k - q.offset) = k
      BY <1>1, <2>1
    <3>2. k - q.offset \in 1 .. Len(v)
      BY <1>1, <3>1
    <3>3. r.buffer[k] = v[k - q.offset]
      BY <1>4, <1>5, <3>1, <3>2
    <3> QED
      BY <1>1, <1>2, <3>1, <3>3
  <2> HIDE DEF end
  <2> QED
    BY <2>1, <2>2, <2>3, <2>4 DEF Ended
<1> QED
  BY <1>4, <1>5

\* Where a string ends.
LEMMA UpdateFits ==
  ASSUME NEW q \in Fitting, q.there => Ended(q)
  PROVE  update(q) \in Fitting /\ update(q).there = q.there
<1>1. q.buffer \in Seq(Int) /\ q.offset \in Nat /\ Len(q.buffer) \in Nat /\ q.stray = FALSE
  BY FittingIs
<1>2. CASE ~q.there
  BY <1>1, <1>2 DEF update, Fitting
<1>3. CASE q.there
  <2>1. PICK last \in q.offset + 1 .. Len(q.buffer) :
           q.buffer[last] = 0 /\ \A k \in q.offset + 1 .. last - 1 : q.buffer[k] \notin {0, Unset}
    BY <1>3 DEF Ended
  <2> DEFINE T == {k \in q.offset + 1 .. Len(q.buffer) : q.buffer[k] \in {0, Unset}} \cup {Len(q.buffer) + 1}
             end == EndOfString(q.buffer, q.offset)
  <2>2. T \in SUBSET Nat /\ T # {} /\ last \in T
    BY <1>1, <2>1
  <2>3. end = Min(T)
    BY DEF EndOfString
  <2>4. end \in T /\ end <= last
    <3> HIDE DEF T
    <3> QED
      BY <2>2, <2>3, MinIs
  <2>5. end = last
    BY <1>1, <2>1, <2>4
  <2>6. end \in Nat /\ end - 1 \in Nat /\ ~(end > Len(q.buffer)) /\ q.buffer[end] # Unset
    BY <1>1, <2>1, <2>5 DEF Unset
  <2>7. update(q) = [q EXCEPT !.offset = end - 1,
                              !.stray = @ \/ end > Len(q.buffer) \/ q.buffer[end] = Unset]
    BY <1>3 DEF update
  <2> HIDE DEF end
  <2>8. (q.stray \/ end > Len(q.buffer) \/ q.buffer[end] = Unset) = FALSE
    BY <1>1, <2>6
  <2>9. update(q) = [q EXCEPT !.offset = end - 1, !.stray = FALSE]
    BY <2>7, <2>8
  <2> QED
    BY <2>6, <2>9 DEF Fitting
<1> QED
  BY <1>2, <1>3

LEMMA Wider ==
  ASSUME NEW s, s \in Seq(Waiting)
  PROVE  s \in Seq(OpenFrame) /\ Len(s) \in Nat
<1>1. Waiting \subseteq OpenFrame
  BY DEF Waiting
<1>2. \A S, T : S \subseteq T => Seq(S) \subseteq Seq(T)
  OBVIOUS
<1>3. Len(s) \in Nat
  OBVIOUS
<1> QED
  BY <1>1, <1>2, <1>3

\* The fields of a frame.
LEMMA FrameIs ==
  ASSUME NEW f \in OpenFrame
  PROVE  /\ f.of \in Values /\ IsValue(f.of) /\ f.of.kids \in Seq(Values) /\ Len(f.of.kids) \in Nat
         /\ f.done \in Nat /\ f.done <= Len(f.of.kids) /\ f.start \in Nat
         /\ f.names \in Seq(Pointer) /\ f.entries \in Seq(Pointer)
         /\ Len(f.names) \in Nat /\ Len(f.entries) \in Nat
         /\ f.of.type \in DOMAIN Bracket
         /\ f = [of |-> f.of, done |-> f.done, start |-> f.start, names |-> f.names, entries |-> f.entries]
<1>1. /\ f.of \in Values /\ f.done \in Nat /\ f.done <= Len(f.of.kids) /\ f.start \in Nat
      /\ f.names \in Seq(Pointer) /\ f.entries \in Seq(Pointer) /\ f.of.type \in DOMAIN Bracket
      /\ f = [of |-> f.of, done |-> f.done, start |-> f.start, names |-> f.names, entries |-> f.entries]
  BY DEF OpenFrame, FrameSet
<1>2. IsValue(f.of)
  BY <1>1, ValuesAssumption
<1>3. f.of.kids \in Seq(Values)
  BY <1>1, <1>2 DEF IsValue
<1>4. \A S : \A s \in Seq(S) : Len(s) \in Nat
  OBVIOUS
<1>5. Len(f.of.kids) \in Nat /\ Len(f.names) \in Nat /\ Len(f.entries) \in Nat
  BY ONLY <1>1, <1>3, <1>4
<1> QED
  BY <1>1, <1>2, <1>3, <1>5

LEMMA FrameMade ==
  ASSUME NEW of \in Values, of.type \in DOMAIN Bracket, NEW done \in Nat, done <= Len(of.kids),
         NEW start \in Nat, NEW names \in Seq(Pointer), NEW entries \in Seq(Pointer)
  PROVE  [of |-> of, done |-> done, start |-> start, names |-> names, entries |-> entries] \in OpenFrame
BY DEF OpenFrame, FrameSet

\* The printer at its start, and when it is called.
LEMMA InitFits == PrintIdle => FitInv
<1>1. NoBuffer \in Fitting
  <2>1. <<>> \in Seq(Int) /\ 0 \in Nat
    OBVIOUS
  <2> QED
    BY <2>1, FittingIs DEF NoBuffer
<1>2. <<>> \in Seq(OpenFrame)
  OBVIOUS
<1> QED
  BY <1>1, <1>2 DEF PrintIdle, FitInv

LEMMA PrintStartFits ==
  ASSUME PrintInv, FitInv, NEW v \in Trees, NEW format, NEW prebuffer \in Prebuffers,
         PrintStart(v, format, prebuffer)
  PROVE  FitInv'
<1>1. /\ wmode' = "value" /\ frames' = <<>> /\ p = NoBuffer /\ node' = v /\ v \in Values
  BY TreesAssumption DEF PrintStart, PrintInv
<1>2. <<>> \in Seq(OpenFrame) /\ <<>> \in Seq(Waiting)
  OBVIOUS
<1>3. p' \in Fitting
  <2>1. CASE p' = p
    BY <2>1 DEF FitInv
  <2>2. CASE prebuffer # NULL /\ p' = [p EXCEPT !.there = TRUE, !.buffer = [k \in 1 .. prebuffer |-> Unset]]
    <3>1. prebuffer \in Nat
      BY <2>2, PrebuffersAssumption
    <3> DEFINE b == [k \in 1 .. prebuffer |-> Unset]
    <3>2. b \in Seq(Int)
      <4>1. b \in [1 .. prebuffer -> Int]
        BY DEF Unset
      <4> QED
        BY <3>1, <4>1, SeqIs
    <3> HIDE DEF b
    <3>3. p' = [there |-> TRUE, buffer |-> b, offset |-> 0, stray |-> FALSE]
      BY <1>1, <2>2 DEF NoBuffer, b
    <3> QED
      BY <3>2, <3>3, FittingIs
  <2> QED
    BY <2>1, <2>2 DEF PrintStart
<1> QED
  BY <1>1, <1>2, <1>3 DEF FitInv

-----------------------------------------------------------------------------
\* Without a buffer.
LEMMA Returns ==
  ASSUME ~buffered', frames' \in Seq(Waiting), p' \in Fitting, NEW r \in Pointer, NEW n, Return(r, n)
  PROVE  FitInv'
<1>1. /\ ret' = r
      /\ wmode' = IF frames' # <<>> THEN "after" ELSE IF r = Null THEN "unprintable" ELSE "printed"
  BY DEF Return
<1>2. frames' \in Seq(OpenFrame)
  BY Wider
<1> QED
  BY <1>1, <1>2 DEF FitInv

\* A text in memory of its own.
LEMMA WriteFits ==
  ASSUME FitInv, NEW w \in Seq(Char), NEW room \in Nat, Len(w) + 1 <= room, Writes(w, room)
  PROVE  p' \in Fitting
<1>1. p \in Fitting
  BY DEF FitInv
<1>2. ~(Len(w) + 1 > room)
  <2>1. Len(w) \in Nat
    OBVIOUS
  <2> QED
    BY <2>1
<1>3. p' = [p EXCEPT !.stray = p.stray \/ Len(w) + 1 > room]
  BY DEF Writes
<1>4. p' = p
  BY <1>1, <1>2, <1>3, FittingIs
<1> QED
  BY <1>1, <1>4

LEMMA PrintLeafFits ==
  ASSUME FitInv, PrintLeaf
  PROVE  FitInv'
<1>1. /\ node \in Values /\ IsLeaf(node) /\ ~buffered' /\ frames' = frames /\ frames \in Seq(Waiting)
      /\ p \in Fitting
  BY DEF PrintLeaf, FitInv, call
<1>2. CASE Return(Null, blocks) /\ p' = p
  <2>1. Null \in Pointer
    BY DEF Pointer
  <2> QED
    BY <1>1, <1>2, <2>1, Returns
<1>3. CASE Return(Ptr(LeafText(node)), blocks + 1) /\ Writes(LeafText(node), LeafRoom(node))
  <2>1. IsValue(node) /\ Depth \in Nat
    BY <1>1, ValuesAssumption, Wider DEF Depth
  <2>2. LeafText(node) \in Seq(Char) /\ LeafRoom(node) \in Nat /\ Len(LeafText(node)) + 1 <= LeafRoom(node)
    BY <1>1, <2>1, LeafFits
  <2>3. p' \in Fitting
    BY <1>3, <2>2, WriteFits
  <2>4. Ptr(LeafText(node)) \in Pointer
    BY <2>2 DEF Pointer
  <2> QED
    BY <1>1, <1>3, <2>3, <2>4, Returns
<1> QED
  BY <1>2, <1>3 DEF PrintLeaf

\* A frame at its start.
LEMMA FrameStarts ==
  ASSUME FitInv, wmode = "value", ~IsLeaf(node)
  PROVE  Frame(node) \in Ready
<1>1. node \in Values /\ node.type \in DOMAIN Bracket /\ p.offset \in Nat
  BY FittingIs DEF FitInv, IsLeaf
<1>2. Len(node.kids) \in Nat
  <2>1. IsValue(node)
    BY <1>1, ValuesAssumption
  <2>2. node.kids \in Seq(Values)
    BY <1>1, <2>1 DEF IsValue
  <2> QED
    BY <2>2
<1>3. <<>> \in Seq(Pointer) /\ Len(<<>>) = 0
  OBVIOUS
<1>4. Frame(node) \in OpenFrame
  <2>1. 0 \in Nat /\ 0 <= Len(node.kids)
    BY <1>2
  <2> QED
    BY <1>1, <1>3, <2>1, FrameMade DEF Frame
<1> QED
  BY <1>3, <1>4 DEF Ready, Named, Frame

LEMMA PrintEnterFits ==
  ASSUME FitInv, PrintEnter
  PROVE  FitInv'
<1>1. /\ ~buffered' /\ p' = p /\ p \in Fitting /\ frames \in Seq(Waiting) /\ wmode = "value"
      /\ ~IsLeaf(node)
  BY DEF PrintEnter, FitInv, call
<1>2. CASE frames' = frames /\ Return(Null, blocks)
  <2>1. Null \in Pointer
    BY DEF Pointer
  <2> QED
    BY <1>1, <1>2, <2>1, Returns
<1>3. CASE frames' = Append(frames, Frame(node)) /\ wmode' = "frame"
  <2>1. Frame(node) \in Ready /\ Frame(node) \in OpenFrame
    BY <1>1, FrameStarts DEF Ready
  <2>2. frames \in Seq(OpenFrame)
    BY <1>1, Wider
  <2>3. /\ frames' \in Seq(OpenFrame) /\ frames' # <<>>
        /\ Front(frames') = frames /\ Last(frames') = Frame(node)
    BY ONLY <1>3, <2>1, <2>2, SeqEnds
  <2> QED
    BY <1>1, <1>3, <2>1, <2>3 DEF FitInv, Top
<1> QED
  BY <1>2, <1>3 DEF PrintEnter

\* The innermost frame, and those around it.
LEMMA TopIs ==
  ASSUME FitInv, wmode \in {"frame", "after"}
  PROVE  /\ Front(frames) \in Seq(OpenFrame) /\ Top \in OpenFrame /\ Depth \in Nat /\ Depth > 0
         /\ wmode = "frame" /\ ~buffered => Front(frames) \in Seq(Waiting) /\ Top \in Ready
         /\ wmode = "after" /\ ~buffered => Front(frames) \in Seq(Waiting) /\ Top \in Waiting
<1>1. frames \in Seq(OpenFrame) /\ frames # <<>>
  BY DEF FitInv
<1>2. /\ Front(frames) \in Seq(OpenFrame) /\ Last(frames) \in OpenFrame /\ Len(frames) > 0
      /\ Len(frames) \in Nat
  <2>1. \E e : e \in OpenFrame
    BY <1>1
  <2> QED
    BY <1>1, <2>1, SeqEnds
<1>3. ASSUME wmode = "after", ~buffered
      PROVE  Front(frames) \in Seq(Waiting) /\ Top \in Waiting
  <2>1. frames \in Seq(Waiting)
    BY <1>3 DEF FitInv
  <2>2. \E e : e \in Waiting
    BY <1>1, <2>1
  <2> QED
    BY <1>1, <2>1, <2>2, SeqEnds DEF Top
<1>4. ASSUME wmode = "frame", ~buffered
      PROVE  Front(frames) \in Seq(Waiting) /\ Top \in Ready
  BY <1>4 DEF FitInv
<1> QED
  BY <1>2, <1>3, <1>4 DEF Top, Depth

\* The next value, and the frame when it is printed.
LEMMA KidIs ==
  ASSUME NEW f \in OpenFrame, More(f)
  PROVE  /\ f.of.kids[f.done + 1] \in Values
         /\ IsObject(f.of) => f.of.kids[f.done + 1].key \in Seq(Char)
         /\ [f EXCEPT !.done = @ + 1] \in OpenFrame
         /\ [f EXCEPT !.done = @ + 1] =
              [of |-> f.of, done |-> f.done + 1, start |-> f.start, names |-> f.names, entries |-> f.entries]
<1>1. /\ f.of \in Values /\ IsValue(f.of) /\ f.of.kids \in Seq(Values) /\ Len(f.of.kids) \in Nat
      /\ f.done \in Nat /\ f.start \in Nat
      /\ f.names \in Seq(Pointer) /\ f.entries \in Seq(Pointer) /\ f.of.type \in DOMAIN Bracket
      /\ f = [of |-> f.of, done |-> f.done, start |-> f.start, names |-> f.names, entries |-> f.entries]
  BY FrameIs
<1>2. f.done < Len(f.of.kids)
  BY DEF More
<1>3. f.done + 1 \in 1 .. Len(f.of.kids) /\ f.done + 1 \in Nat /\ f.done + 1 <= Len(f.of.kids)
  BY <1>1, <1>2
<1>4. f.of.kids[f.done + 1] \in Values /\ f.done + 1 \in DOMAIN f.of.kids
  BY <1>1, <1>3
<1>5. IsObject(f.of) => f.of.kids[f.done + 1].key \in Seq(Char)
  BY <1>1, <1>4 DEF IsObject, IsValue
<1>6. [f EXCEPT !.done = @ + 1] =
        [of |-> f.of, done |-> f.done + 1, start |-> f.start, names |-> f.names, entries |-> f.entries]
  BY <1>1
<1>7. [of |-> f.of, done |-> f.done + 1, start |-> f.start, names |-> f.names, entries |-> f.entries]
        \in OpenFrame
  BY <1>1, <1>3, FrameMade
<1> QED
  BY <1>4, <1>5, <1>6, <1>7

\* Frames with one more text.
LEMMA FrameExcept ==
  ASSUME NEW f \in OpenFrame, NEW t \in Pointer
  PROVE  /\ [f EXCEPT !.names = Append(@, t)] =
              [of |-> f.of, done |-> f.done, start |-> f.start,
               names |-> Append(f.names, t), entries |-> f.entries]
         /\ [f EXCEPT !.entries = Append(@, t)] =
              [of |-> f.of, done |-> f.done, start |-> f.start,
               names |-> f.names, entries |-> Append(f.entries, t)]
         /\ [f EXCEPT !.names = Append(@, t)] \in OpenFrame
         /\ [f EXCEPT !.entries = Append(@, t)] \in OpenFrame
<1>1. /\ f.of \in Values /\ f.of.type \in DOMAIN Bracket /\ f.done \in Nat
      /\ f.done <= Len(f.of.kids) /\ f.start \in Nat
      /\ f.names \in Seq(Pointer) /\ f.entries \in Seq(Pointer)
      /\ f = [of |-> f.of, done |-> f.done, start |-> f.start, names |-> f.names, entries |-> f.entries]
  BY FrameIs
<1>2. Append(f.names, t) \in Seq(Pointer) /\ Append(f.entries, t) \in Seq(Pointer)
  BY <1>1
<1>3. \A e : /\ [f EXCEPT !.names = e] =
                  [of |-> f.of, done |-> f.done, start |-> f.start, names |-> e, entries |-> f.entries]
            /\ [f EXCEPT !.entries = e] =
                  [of |-> f.of, done |-> f.done, start |-> f.start, names |-> f.names, entries |-> e]
  BY <1>1
<1>4. \A n \in Seq(Pointer), e \in Seq(Pointer) :
        [of |-> f.of, done |-> f.done, start |-> f.start, names |-> n, entries |-> e] \in OpenFrame
  BY <1>1, FrameMade
<1>5. /\ [f EXCEPT !.names = Append(@, t)] =
           [of |-> f.of, done |-> f.done, start |-> f.start,
            names |-> Append(f.names, t), entries |-> f.entries]
      /\ [f EXCEPT !.entries = Append(@, t)] =
           [of |-> f.of, done |-> f.done, start |-> f.start,
            names |-> f.names, entries |-> Append(f.entries, t)]
  BY ONLY <1>3
<1>6. /\ [of |-> f.of, done |-> f.done, start |-> f.start,
          names |-> Append(f.names, t), entries |-> f.entries] \in OpenFrame
      /\ [of |-> f.of, done |-> f.done, start |-> f.start,
          names |-> f.names, entries |-> Append(f.entries, t)] \in OpenFrame
  BY ONLY <1>1, <1>2, <1>4
<1> QED
  BY ONLY <1>5, <1>6

LEMMA PrintNextFits ==
  ASSUME FitInv, PrintNext
  PROVE  FitInv'
<1> DEFINE kid == Top.of.kids[Top.done + 1]
           name == Quoted(kid.key)
           next == [Top EXCEPT !.done = @ + 1]
           With(t) == [next EXCEPT !.names = Append(@, t)]
<1>1. /\ ~buffered' /\ wmode = "frame" /\ ~buffered /\ More(Top) /\ wmode' = "value" /\ node' = kid
      /\ p \in Fitting
  BY DEF PrintNext, FitInv, call
<1>2. Front(frames) \in Seq(Waiting) /\ Top \in Ready /\ Top \in OpenFrame
  BY <1>1, TopIs
<1>3. /\ kid \in Values /\ (IsObject(Top.of) => kid.key \in Seq(Char)) /\ next \in OpenFrame
      /\ next = [of |-> Top.of, done |-> Top.done + 1, start |-> Top.start,
                 names |-> Top.names, entries |-> Top.entries]
  BY <1>1, <1>2, KidIs
<1>4. ASSUME NEW f \in Waiting, frames' = Append(Front(frames), f), p' \in Fitting
      PROVE  FitInv'
  <2>1. frames' \in Seq(Waiting)
    BY <1>2, <1>4
  <2>2. frames' \in Seq(OpenFrame)
    BY <2>1, Wider
  <2> QED
    BY <1>1, <1>3, <1>4, <2>1, <2>2 DEF FitInv
<1>5. /\ Len(Top.entries) = Top.done /\ Top.done \in Nat
      /\ Len(Top.names) = IF IsObject(Top.of) THEN Top.done ELSE 0
      /\ Top.names \in Seq(Pointer)
  BY <1>2, FrameIs DEF Ready, Named
<1>6. CASE ~IsObject(Top.of)
  <2>1. next \in Waiting
    BY <1>3, <1>5, <1>6 DEF Waiting, Named
  <2>2. frames' = Append(Front(frames), next) /\ p' = p
    BY <1>6 DEF PrintNext
  <2> QED
    BY <1>1, <1>4, <2>1, <2>2
<1>7. CASE IsObject(Top.of)
  <2>1. name \in Seq(Char) /\ Len(name) + 1 <= QuotedRoom(kid.key) /\ QuotedRoom(kid.key) \in Nat
    BY <1>3, <1>7, QuotedFits
  <2>2. ASSUME NEW t \in Pointer PROVE With(t) \in Waiting
    <3>1. Append(Top.names, t) \in Seq(Pointer) /\ Len(Append(Top.names, t)) = Top.done + 1
      <4>1. /\ Append(Top.names, t) \in Seq(Pointer)
            /\ Len(Append(Top.names, t)) = Len(Top.names) + 1
        BY <1>5
      <4> QED
        BY <1>5, <1>7, <4>1
    <3>2. /\ With(t) = [of |-> Top.of, done |-> Top.done + 1, start |-> Top.start,
                        names |-> Append(Top.names, t), entries |-> Top.entries]
          /\ With(t) \in OpenFrame
      <4>1. With(t) = [of |-> next.of, done |-> next.done, start |-> next.start,
                       names |-> Append(next.names, t), entries |-> next.entries]
            /\ With(t) \in OpenFrame
        BY <1>3, FrameExcept
      <4>2. /\ next.of = Top.of /\ next.done = Top.done + 1 /\ next.start = Top.start
            /\ next.entries = Top.entries /\ next.names = Top.names
        BY <1>3
      <4> QED
        BY ONLY <4>1, <4>2
    <3>6. /\ With(t).of = Top.of /\ With(t).names = Append(Top.names, t)
          /\ With(t).done = Top.done + 1 /\ With(t).entries = Top.entries
      BY <3>2
    <3> HIDE DEF With, next
    <3>7. Named(With(t)) /\ Len(With(t).entries) + 1 = With(t).done
      BY <1>5, <1>7, <3>1, <3>6 DEF Named
    <3> QED
      BY <3>2, <3>7 DEF Waiting
  <2>3. CASE frames' = Append(Front(frames), With(Null)) /\ p' = p
    <3>1. Null \in Pointer
      BY DEF Pointer
    <3> QED
      BY <1>1, <1>4, <2>2, <2>3, <3>1
  <2>4. CASE frames' = Append(Front(frames), With(Ptr(name))) /\ Writes(name, QuotedRoom(kid.key))
    <3>1. Ptr(name) \in Pointer
      BY <2>1 DEF Pointer
    <3>2. p' \in Fitting
      BY <2>1, <2>4, WriteFits
    <3> QED
      BY <1>4, <2>2, <2>4, <3>1, <3>2
  <2> QED
    BY <1>7, <2>3, <2>4 DEF PrintNext
<1> QED
  BY <1>6, <1>7

LEMMA PrintReturnedFits ==
  ASSUME FitInv, PrintReturned
  PROVE  FitInv'
<1> DEFINE f == [Top EXCEPT !.entries = Append(@, ret)]
<1>1. /\ ~buffered' /\ wmode = "after" /\ ~buffered /\ wmode' = "frame" /\ p' = p
      /\ p \in Fitting /\ ret \in Pointer /\ frames' = Append(Front(frames), f)
  BY DEF PrintReturned, FitInv, call
<1>2. Front(frames) \in Seq(Waiting) /\ Top \in Waiting /\ Top \in OpenFrame
  BY <1>1, TopIs
<1>3. /\ Top.of \in Values /\ Top.of.type \in DOMAIN Bracket /\ Top.done \in Nat
      /\ Top.done <= Len(Top.of.kids) /\ Top.start \in Nat
      /\ Top.names \in Seq(Pointer) /\ Top.entries \in Seq(Pointer) /\ Len(Top.entries) \in Nat
      /\ Top = [of |-> Top.of, done |-> Top.done, start |-> Top.start,
                names |-> Top.names, entries |-> Top.entries]
      /\ Len(Top.entries) + 1 = Top.done
      /\ Len(Top.names) = IF IsObject(Top.of) THEN Top.done ELSE 0
  BY <1>2, FrameIs DEF Waiting, Named
<1>4. Append(Top.entries, ret) \in Seq(Pointer) /\ Len(Append(Top.entries, ret)) = Len(Top.entries) + 1
  BY <1>1, <1>3
<1>5. /\ f = [of |-> Top.of, done |-> Top.done, start |-> Top.start,
              names |-> Top.names, entries |-> Append(Top.entries, ret)]
      /\ f \in OpenFrame
  BY <1>1, <1>2, FrameExcept
<1>7. f.of = Top.of /\ f.done = Top.done /\ f.names = Top.names /\ f.entries = Append(Top.entries, ret)
  BY <1>5
<1> HIDE DEF f
<1>8. f \in Ready
  BY <1>3, <1>4, <1>5, <1>7 DEF Ready, Named
<1>9. Front(frames) \in Seq(OpenFrame)
  BY <1>2, Wider
<1>10. frames' \in Seq(OpenFrame) /\ frames' # <<>> /\ Front(frames') = Front(frames) /\ Last(frames') = f
  <2>1. frames' = Append(Front(frames), f)
    BY <1>1
  <2>2. f \in OpenFrame
    BY <1>5
  <2> QED
    BY ONLY <1>9, <2>1, <2>2, SeqEnds
<1> QED
  BY <1>1, <1>2, <1>8, <1>10 DEF FitInv, Top

\* The text of the whole, or none.
LEMMA PrintEndFits ==
  ASSUME FitInv, PrintCompose \/ PrintAbort
  PROVE  FitInv'
<1>1. /\ ~buffered' /\ wmode = "frame" /\ ~buffered /\ frames' = Front(frames) /\ p \in Fitting
  BY DEF PrintCompose, PrintAbort, FitInv, call
<1>2. /\ Front(frames) \in Seq(Waiting) /\ Top \in Ready /\ Top \in OpenFrame
      /\ Depth \in Nat /\ Depth > 0
  BY <1>1, TopIs
<1>3. CASE PrintAbort
  <2>1. Null \in Pointer
    BY DEF Pointer
  <2> QED
    BY <1>1, <1>2, <1>3, <2>1, Returns DEF PrintAbort
<1>4. CASE PrintCompose
  <2>1. Full(Top)
    BY <1>2, <1>4 DEF Full, PrintCompose, Ready, Named, OpenFrame
  <2>2. /\ TextOf(Top) \in Seq(Char) /\ Room(Top) \in Nat
        /\ Len(TextOf(Top)) + 1 <= Room(Top)
    BY <1>2, <2>1, TextFits
  <2>3. p' \in Fitting
    BY <1>4, <2>2, WriteFits DEF PrintCompose
  <2>4. Ptr(TextOf(Top)) \in Pointer
    BY <2>2 DEF Pointer
  <2> QED
    BY <1>1, <1>2, <1>4, <2>3, <2>4, Returns DEF PrintCompose
<1> QED
  BY <1>3, <1>4

-----------------------------------------------------------------------------
\* With a buffer.
LEMMA BufferReturns ==
  ASSUME buffered', frames' \in Seq(OpenFrame), NEW q \in Fitting, q.there => Ended(q),
         NEW r \in Nat, BufferReturn(q, r)
  PROVE  FitInv'
<1>1. /\ p' = q /\ ret' = IF q.there THEN Ptr(r) ELSE Null
      /\ wmode' = IF frames' # <<>> THEN "after"
                  ELSE IF (IF q.there THEN Ptr(r) ELSE Null) = Null THEN "unprintable" ELSE "printed"
  BY DEF BufferReturn, Return
<1> QED
  BY <1>1 DEF FitInv

LEMMA BufferGoes ==
  ASSUME FitInv, buffered', wmode \in {"frame", "after"}, NEW q \in Fitting,
         NEW mode \in {"value", "frame"}, NEW f \in OpenFrame,
         mode = "value" => f.of.kids[f.done] \in Values, BufferGoesOn(q, mode, f)
  PROVE  FitInv'
<1>1. Front(frames) \in Seq(OpenFrame)
  BY TopIs
<1>2. CASE ~q.there
  <2>1. frames' = Front(frames) /\ BufferReturn(q, 0)
    BY <1>2 DEF BufferGoesOn
  <2> QED
    BY <1>1, <1>2, <2>1, BufferReturns
<1>3. CASE q.there
  <2>1. /\ p' = q /\ wmode' = mode /\ frames' = Append(Front(frames), f)
        /\ mode = "value" => node' = f.of.kids[f.done]
    BY <1>3 DEF BufferGoesOn
  <2>2. frames' \in Seq(OpenFrame) /\ frames' # <<>>
    BY <1>1, <2>1, SeqEnds
  <2> QED
    BY <2>1, <2>2 DEF FitInv
<1> QED
  BY <1>2, <1>3

LEMMA BufferLeafFits ==
  ASSUME FitInv, BufferLeaf
  PROVE  FitInv'
<1>1. /\ node \in Values /\ IsLeaf(node) /\ buffered' /\ frames' = frames /\ frames \in Seq(OpenFrame)
      /\ p \in Fitting /\ p.offset \in Nat
  BY FittingIs DEF BufferLeaf, FitInv, call
<1>2. IsValue(node) /\ Depth \in Nat
  <2>1. Depth \in Nat
    BY <1>1 DEF Depth
  <2> QED
    BY <1>1, <2>1, ValuesAssumption
<1>3. LeafText(node) \in Seq(Char) /\ LeafRoom(node) \in Nat /\ Len(LeafText(node)) + 1 <= LeafRoom(node)
  BY <1>1, <1>2, LeafFits
<1>4. PICK q \in Put(p, LeafRoom(node), Append(LeafText(node), 0), 0) : BufferReturn(q, p.offset)
  BY DEF BufferLeaf
<1>5. q \in Fitting /\ (q.there => Ended(q))
  BY <1>1, <1>3, <1>4, PutEnds
<1> QED
  BY <1>1, <1>4, <1>5, BufferReturns

\* A text written with its end and gone past up to there, or without.
LEMMA PutOn ==
  ASSUME NEW q \in Fitting, NEW w \in Seq(Char), NEW needed \in Nat, NEW forth \in Nat, NEW r,
         \/ r \in Put(q, needed, Append(w, 0), forth) /\ Len(w) + 1 <= needed
         \/ r \in Put(q, needed, w, forth) /\ Len(w) <= needed
  PROVE  r \in Fitting
<1>1. w \in Seq(Int) /\ Append(w, 0) \in Seq(Int) /\ Len(Append(w, 0)) = Len(w) + 1
  <2>1. w \in Seq(Int)
    BY CharIs
  <2> QED
    BY <2>1
<1>2. CASE r \in Put(q, needed, Append(w, 0), forth) /\ Len(w) + 1 <= needed
  <2>1. Len(Append(w, 0)) <= needed
    BY <1>1, <1>2
  <2> QED
    BY <1>1, <1>2, <2>1, PutFits
<1>3. CASE r \in Put(q, needed, w, forth) /\ Len(w) <= needed
  BY <1>1, <1>3, PutFits
<1> QED
  BY <1>2, <1>3

LEMMA BufferOpenFits ==
  ASSUME FitInv, BufferOpen
  PROVE  FitInv'
<1> DEFINE brace == <<123>> \o When(fmt, <<NEWLINE>>)
<1>1. /\ wmode = "value" /\ ~IsLeaf(node) /\ buffered' /\ frames \in Seq(OpenFrame) /\ p \in Fitting
  BY DEF BufferOpen, FitInv, call
<1>2. PICK q \in IF IsObject(node) THEN Put(p, Len(brace) + 1, Append(brace, 0), Len(brace))
                 ELSE Put(p, 1, <<91>>, 1) :
        IF ~q.there THEN frames' = frames /\ BufferReturn(q, 0)
        ELSE p' = q /\ frames' = Append(frames, Frame(node)) /\ wmode' = "frame"
  BY DEF BufferOpen
<1>3. brace \in Seq(Char) /\ Len(brace) \in Nat
  BY CharsAre, WhenIs, Joined
<1> HIDE DEF brace
<1>4. q \in Fitting
  <2>1. CASE IsObject(node)
    <3>1. Len(brace) + 1 \in Nat /\ Len(brace) + 1 <= Len(brace) + 1
      BY <1>3
    <3> QED
      BY <1>1, <1>2, <1>3, <2>1, <3>1, PutOn
  <2>2. CASE ~IsObject(node)
    <3>1. <<91>> \in Seq(Char) /\ Len(<<91>>) <= 1 /\ 1 \in Nat
      BY CharsAre
    <3> QED
      BY <1>1, <1>2, <2>2, <3>1, PutOn
  <2> QED
    BY <2>1, <2>2
<1>5. CASE ~q.there
  BY <1>1, <1>2, <1>4, <1>5, BufferReturns
<1>6. CASE q.there
  <2>1. Frame(node) \in OpenFrame
    BY <1>1, FrameStarts DEF Ready
  <2>2. frames' \in Seq(OpenFrame) /\ frames' # <<>>
    BY <1>1, <1>2, <1>6, <2>1, SeqEnds
  <2> QED
    BY <1>1, <1>2, <1>4, <1>6, <2>2 DEF FitInv
<1> QED
  BY <1>5, <1>6

\* The key of a value, with what stands before and after it.
LEMMA KeyFits ==
  ASSUME NEW key \in Seq(Char), p \in Fitting, Depth \in Nat, NEW q \in BufferKey(key)
  PROVE  q \in Fitting
<1>1. PICK indented \in IF fmt THEN Put(p, Depth, Tabs(Depth), Depth) ELSE {p},
           named \in UNION {Put(i, QuotedRoom(key), Append(Quoted(key), 0), 0)
                            : i \in IF fmt THEN Put(p, Depth, Tabs(Depth), Depth) ELSE {p}} :
        /\ named \in Put(indented, QuotedRoom(key), Append(Quoted(key), 0), 0)
        /\ q \in Put(update(named), IF fmt THEN 2 ELSE 1, <<Colon>> \o When(fmt, <<TAB>>),
                     IF fmt THEN 2 ELSE 1)
  BY DEF BufferKey
<1>2. indented \in Fitting
  <2>1. CASE fmt
    <3>1. Tabs(Depth) \in Seq(Char) /\ Len(Tabs(Depth)) <= Depth
      BY TabsIs
    <3> QED
      BY <1>1, <2>1, <3>1, PutOn
  <2>2. CASE ~fmt
    BY <1>1, <2>2
  <2> QED
    BY <2>1, <2>2
<1>3. Quoted(key) \in Seq(Char) /\ Len(Quoted(key)) + 1 <= QuotedRoom(key) /\ QuotedRoom(key) \in Nat
  BY QuotedFits
<1>4. named \in Fitting /\ (named.there => Ended(named))
  BY <1>1, <1>2, <1>3, PutEnds
<1>5. update(named) \in Fitting
  BY <1>4, UpdateFits
<1> DEFINE colon == <<Colon>> \o When(fmt, <<TAB>>)
           n == IF fmt THEN 2 ELSE 1
<1>6. colon \in Seq(Char) /\ Len(colon) <= n /\ n \in Nat
  <2>1. /\ <<Colon>> \in Seq(Char) /\ Len(<<Colon>>) = 1
        /\ When(fmt, <<TAB>>) \in Seq(Char) /\ Len(When(fmt, <<TAB>>)) = IF fmt THEN 1 ELSE 0
    BY CharsAre, WhenIs
  <2>2. colon \in Seq(Char) /\ Len(colon) = 1 + IF fmt THEN 1 ELSE 0
    BY <2>1, Joined
  <2> HIDE DEF colon
  <2> QED
    BY <2>2
<1>7. q \in Put(update(named), n, colon, n)
  BY <1>1
<1> HIDE DEF colon, n
<1> QED
  BY <1>5, <1>6, <1>7, PutOn

LEMMA BufferNextFits ==
  ASSUME FitInv, BufferNext
  PROVE  FitInv'
<1> DEFINE next == [Top EXCEPT !.done = @ + 1]
           kid == Top.of.kids[Top.done + 1]
<1>1. buffered' /\ wmode = "frame" /\ More(Top) /\ p \in Fitting
  BY DEF BufferNext, FitInv, call
<1>2. Top \in OpenFrame /\ Depth \in Nat
  BY <1>1, TopIs
<1>3. PICK q \in IF IsObject(Top.of) THEN BufferKey(kid.key) ELSE {p} : BufferGoesOn(q, "value", next)
  BY DEF BufferNext
<1>4. /\ kid \in Values /\ (IsObject(Top.of) => kid.key \in Seq(Char)) /\ next \in OpenFrame
      /\ next = [of |-> Top.of, done |-> Top.done + 1, start |-> Top.start,
                 names |-> Top.names, entries |-> Top.entries]
  BY <1>1, <1>2, KidIs
<1>5. next.of.kids[next.done] \in Values
  <2>1. next.of = Top.of /\ next.done = Top.done + 1
    BY <1>4
  <2> HIDE DEF next
  <2> QED
    BY <1>4, <2>1
<1> HIDE DEF next
<1>6. q \in Fitting
  BY <1>1, <1>2, <1>3, <1>4, KeyFits
<1> QED
  BY <1>1, <1>3, <1>4, <1>5, <1>6, BufferGoes

LEMMA BufferAfterFits ==
  ASSUME FitInv, BufferAfter
  PROVE  FitInv'
<1> DEFINE w == IF IsObject(Top.of) THEN When(More(Top), <<Comma>>) \o When(fmt, <<NEWLINE>>)
                ELSE When(More(Top), <<Comma>> \o When(fmt, <<SPACE>>))
<1>1. buffered /\ buffered' /\ wmode = "after" /\ p \in Fitting /\ (p.there => Ended(p))
  BY DEF BufferAfter, FitInv, call
<1>2. Top \in OpenFrame
  BY <1>1, TopIs
<1>3. update(p) \in Fitting
  BY <1>1, UpdateFits
<1>4. PICK q \in IF IsObject(Top.of) \/ More(Top)
                   THEN Put(update(p), Len(w) + 1, Append(w, 0), Len(w))
                   ELSE {update(p)} : BufferGoesOn(q, "frame", Top)
  BY DEF BufferAfter
<1>5. w \in Seq(Char) /\ Len(w) \in Nat
  <2>1. \A c : When(c, <<Comma>>) \in Seq(Char) /\ When(c, <<NEWLINE>>) \in Seq(Char)
               /\ When(c, <<SPACE>>) \in Seq(Char)
    BY CharsAre, WhenIs
  <2>2. /\ When(More(Top), <<Comma>>) \o When(fmt, <<NEWLINE>>) \in Seq(Char)
        /\ <<Comma>> \o When(fmt, <<SPACE>>) \in Seq(Char)
    BY <2>1, CharsAre, Joined
  <2>3. When(More(Top), <<Comma>> \o When(fmt, <<SPACE>>)) \in Seq(Char)
    BY <2>2, WhenIs
  <2>4. w \in Seq(Char)
    BY <2>2, <2>3
  <2> HIDE DEF w
  <2> QED
    BY <2>4
<1> HIDE DEF w
<1>6. q \in Fitting
  <2>1. CASE IsObject(Top.of) \/ More(Top)
    <3>1. Len(w) + 1 \in Nat /\ Len(w) + 1 <= Len(w) + 1
      BY <1>5
    <3> QED
      BY <1>3, <1>4, <1>5, <2>1, <3>1, PutOn
  <2>2. CASE ~(IsObject(Top.of) \/ More(Top))
    BY <1>3, <1>4, <2>2
  <2> QED
    BY <2>1, <2>2
<1> QED
  BY <1>1, <1>2, <1>4, <1>6, BufferGoes

LEMMA BufferCloseFits ==
  ASSUME FitInv, BufferClose
  PROVE  FitInv'
<1> DEFINE w == When(fmt, Tabs(Depth - 1)) \o <<125>>
           brace == When(fmt, Tabs(Depth - 1)) \o <<125, 0>>
<1>1. buffered' /\ wmode = "frame" /\ p \in Fitting /\ frames' = Front(frames)
  BY DEF BufferClose, FitInv, call
<1>2. Front(frames) \in Seq(OpenFrame) /\ Top \in OpenFrame /\ Depth \in Nat /\ Depth > 0
  BY <1>1, TopIs
<1>3. PICK q \in IF IsObject(Top.of) THEN Put(p, IF fmt THEN Depth + 1 ELSE 2, brace, 0)
                 ELSE Put(p, 2, <<93, 0>>, 0) :
        BufferReturn(q, IF IsObject(Top.of) /\ fmt THEN Depth - 1 ELSE Top.start)
  BY DEF BufferClose
<1>4. Depth - 1 \in Nat /\ Top.start \in Nat
  BY <1>2, FrameIs
<1>5. q \in Fitting /\ (q.there => Ended(q))
  <2>1. CASE IsObject(Top.of)
    <3> DEFINE t == When(fmt, Tabs(Depth - 1))
               n == IF fmt THEN Depth + 1 ELSE 2
    <3>1. t \in Seq(Char) /\ Len(t) = IF fmt THEN Depth - 1 ELSE 0
      BY <1>4, TabsIs, WhenIs
    <3> HIDE DEF t
    <3>2. w \in Seq(Char) /\ Len(w) = Len(t) + 1
      <4>1. t \o <<125>> \in Seq(Char) /\ Len(t \o <<125>>) = Len(t) + 1
        BY <3>1, CharsAre, Joined
      <4> QED
        BY <4>1 DEF t
    <3>3. brace = Append(w, 0)
      <4>1. \A s \in Seq(Char) : s \o <<125, 0>> = Append(s \o <<125>>, 0)
        <5>1. ASSUME NEW s \in Seq(Char) PROVE s \o <<125, 0>> = Append(s \o <<125>>, 0)
          <6>1. s \in Seq(Int) /\ <<125, 0>> \in Seq(Int) /\ <<125>> \in Seq(Int) /\ 0 \in Int
            BY CharIs
          <6>2. \A u \in Seq(Int) : u \o <<125, 0>> = Append(u \o <<125>>, 0)
            OBVIOUS
          <6> QED
            BY ONLY <6>1, <6>2
        <5> QED
          BY <5>1
      <4> QED
        BY <3>1, <4>1 DEF t
    <3>4. n \in Nat /\ Len(w) + 1 <= n
      BY <1>2, <3>1, <3>2
    <3>5. q \in Put(p, n, Append(w, 0), 0)
      BY <1>3, <2>1, <3>3
    <3> HIDE DEF w, n
    <3> QED
      BY <1>1, <3>2, <3>4, <3>5, PutEnds
  <2>2. CASE ~IsObject(Top.of)
    <3>1. <<93>> \in Seq(Char) /\ Len(<<93>>) + 1 <= 2 /\ <<93, 0>> = Append(<<93>>, 0)
      BY CharsAre
    <3>2. q \in Put(p, 2, Append(<<93>>, 0), 0)
      BY <1>3, <2>2, <3>1
    <3> QED
      BY <1>1, <3>1, <3>2, PutEnds
  <2> QED
    BY <2>1, <2>2
<1>6. (IF IsObject(Top.of) /\ fmt THEN Depth - 1 ELSE Top.start) \in Nat
  BY <1>4
<1> QED
  BY <1>1, <1>2, <1>3, <1>5, <1>6, BufferReturns

\* Parsing leaves the printer alone.
LEMMA StepFits ==
  ASSUME PrintInv, FitInv, [Next]_text_vars
  PROVE  FitInv'
<1>1. CASE UNCHANGED print_vars
  BY <1>1 DEF print_vars, call, FitInv, Top
<1>2. CASE PrintTree
  BY <1>2, PrintStartFits DEF PrintTree
<1>3. CASE Printing
  BY <1>3, PrintLeafFits, PrintEnterFits, PrintNextFits, PrintReturnedFits, PrintEndFits,
     BufferLeafFits, BufferOpenFits, BufferNextFits, BufferAfterFits, BufferCloseFits
     DEF Printing, PrintStep
<1> QED
  BY <1>1, <1>2, <1>3 DEF Next, ReadBack, Read, Parsing, text_vars

\* The printer asks for as much memory as it writes, with and without a buffer: for all
\* values, depths and sizes of buffers, and wherever malloc fails.
THEOREM PrinterFits == Spec => []PrintFits
<1>1. Init => PrintInv /\ FitInv
  BY InitPrint, InitFits DEF Init
<1>2. PrintInv /\ FitInv /\ [Next]_text_vars => (PrintInv /\ FitInv)'
  BY StepPrint, StepFits
<1>3. FitInv => PrintFits
  BY FittingIs DEF FitInv, PrintFits
<1> QED
  BY <1>1, <1>2, <1>3, PTL DEF Spec

-----------------------------------------------------------------------------
(***************************************************************************)
(* The memory of the parser, and the texts it gets.                         *)
(***************************************************************************)

\* cJSON_Minify goes forward, and keeps parts of the text.
LEMMA MinifyStepIs ==
  ASSUME NEW s \in Seq(Int), NEW k \in 1 .. Len(s)
  PROVE  /\ MinifyStep(s, k).next \in k + 1 .. Len(s) + 3
         /\ MinifyStep(s, k).kept \in Seq(Int)
<1> DEFINE Keep(end) == [next |-> end + 1, kept |-> SubSeq(s, k, Min({end, Len(s)}))]
           Drop(next) == [next |-> next, kept |-> <<>>]
<1>1. Len(s) \in Nat /\ k \in Nat /\ 1 <= k /\ k <= Len(s)
  OBVIOUS
<1>2. ASSUME NEW end \in Nat, k <= end, end <= Len(s) + 1
      PROVE  Keep(end).next \in k + 1 .. Len(s) + 3 /\ Keep(end).kept \in Seq(Int)
  <2>1. {end, Len(s)} \in SUBSET Nat /\ {end, Len(s)} # {}
    OBVIOUS
  <2>2. Min({end, Len(s)}) \in {end, Len(s)} /\ Min({end, Len(s)}) <= Len(s)
    BY <2>1, MinIs
  <2>3. \A l \in Nat : l <= Len(s) => SubSeq(s, k, l) \in Seq(Int)
    OBVIOUS
  <2>4. Min({end, Len(s)}) \in Nat
    BY <2>1, <2>2
  <2>5. SubSeq(s, k, Min({end, Len(s)})) \in Seq(Int)
    BY <2>2, <2>3, <2>4
  <2>6. end + 1 \in k + 1 .. Len(s) + 3
    BY <1>1, <1>2
  <2> QED
    BY <2>5, <2>6
<1>3. ASSUME NEW next \in k + 1 .. Len(s) + 3
      PROVE  Drop(next).next \in k + 1 .. Len(s) + 3 /\ Drop(next).kept \in Seq(Int)
  <2>1. <<>> \in Seq(Int)
    OBVIOUS
  <2> QED
    BY <2>1
<1>4. s[k] = Slash => AfterLine(s, k) \in k + 1 .. Len(s) + 3
  <2> DEFINE T == {m \in k .. Len(s) : s[m] = NEWLINE} \cup {Len(s) + 1}
  <2>1. T \in SUBSET Nat /\ T # {}
    BY <1>1
  <2>2. AfterLine(s, k) \in T
    <3>1. Min(T) \in T
      <4> HIDE DEF T
      <4> QED
        BY <2>1, MinIs
    <3> QED
      BY <3>1 DEF AfterLine
  <2> QED
    BY <1>1, <2>2 DEF Slash, NEWLINE
<1>5. AfterComment(s, k) \in k + 1 .. Len(s) + 3
  <2> DEFINE T == {m \in k .. Len(s) : s[m] = Star /\ At(s, m + 1) = Slash} \cup {Len(s) + 1}
  <2>1. T \in SUBSET Nat /\ T # {}
    BY <1>1
  <2>2. Min(T) \in T /\ AfterComment(s, k) = Min(T) + 2
    <3>1. Min(T) \in T
      <4> HIDE DEF T
      <4> QED
        BY <2>1, MinIs
    <3> QED
      BY <3>1 DEF AfterComment
  <2> QED
    BY <1>1, <2>2
<1>6. StringEnd(s, k) \in Nat /\ k <= StringEnd(s, k) /\ StringEnd(s, k) <= Len(s) + 1
  <2> DEFINE T == {Len(s) + 1} \cup {m \in k + 1 .. Len(s) : s[m] = QUOTE /\ ~EscapedIn(s, k)[m]}
  <2>1. T \in SUBSET Nat /\ T # {}
    BY <1>1
  <2>2. StringEnd(s, k) \in T
    <3>1. Min(T) \in T
      <4> HIDE DEF T
      <4> QED
        BY <2>1, MinIs
    <3> QED
      BY <3>1 DEF StringEnd
  <2> QED
    BY <1>1, <2>2
<1>7. \/ MinifyStep(s, k) = Drop(k + 1)
      \/ s[k] = Slash /\ MinifyStep(s, k) = Drop(AfterLine(s, k))
      \/ MinifyStep(s, k) = Drop(AfterComment(s, k))
      \/ MinifyStep(s, k) = Keep(StringEnd(s, k))
      \/ MinifyStep(s, k) = Keep(k)
  BY DEF MinifyStep
<1>8. k + 1 \in k + 1 .. Len(s) + 3
  BY <1>1
<1> HIDE DEF Keep, Drop
<1> QED
  BY <1>1, <1>2, <1>3, <1>4, <1>5, <1>6, <1>7, <1>8

\* What it leaves is text.
LEMMA MinifyIs ==
  ASSUME NEW s \in Seq(Int)
  PROVE  Minify(s).out \in Seq(Int)
<1> DEFINE D == 1 .. Len(s) + 3
           V == [out : Seq(Int), past : BOOLEAN]
           B == {k \in D : k > Len(s)}
           back == [k \in D |-> IF k > Len(s) THEN k ELSE MinifyStep(s, k).next]
           m == [k \in D |-> Len(s) + 3 - k]
           b == [k \in D |-> [out |-> <<>>, past |-> k > Len(s) + 1]]
           F == [x \in D \X V |-> IF x[1] > Len(s) THEN x[2]
                                  ELSE [x[2] EXCEPT !.out = MinifyStep(s, x[1]).kept \o @]]
           Body(f, k) == IF k > Len(s) THEN [out |-> <<>>, past |-> k > Len(s) + 1]
                         ELSE [f[MinifyStep(s, k).next] EXCEPT !.out = MinifyStep(s, k).kept \o @]
<1>1. Len(s) \in Nat
  OBVIOUS
<1>2. \A k \in D : ~(k > Len(s)) => /\ MinifyStep(s, k).next \in D /\ k < MinifyStep(s, k).next
                                    /\ MinifyStep(s, k).kept \in Seq(Int)
  <2> SUFFICES ASSUME NEW k \in D, ~(k > Len(s))
               PROVE  /\ MinifyStep(s, k).next \in D /\ k < MinifyStep(s, k).next
                      /\ MinifyStep(s, k).kept \in Seq(Int)
    OBVIOUS
  <2>1. k \in 1 .. Len(s)
    BY <1>1
  <2>2. MinifyStep(s, k).next \in k + 1 .. Len(s) + 3 /\ MinifyStep(s, k).kept \in Seq(Int)
    BY <2>1, MinifyStepIs
  <2> QED
    BY <1>1, <2>1, <2>2
<1>3. Descends(D, V, m, back, B, b, F)
  <2>1. Len(s) + 3 \in Nat /\ m \in [D -> 0 .. Len(s) + 3] /\ B \subseteq D
    BY <1>1
  <2>2. back \in [D -> D] /\ \A k \in D \ B : m[back[k]] < m[k]
    BY <1>1, <1>2
  <2>3. b \in [D -> V]
    <3>1. <<>> \in Seq(Int)
      OBVIOUS
    <3> QED
      BY <3>1
  <2>4. F \in [D \X V -> V]
    <3> SUFFICES ASSUME NEW k \in D, NEW v \in V, ~(k > Len(s))
                 PROVE  [v EXCEPT !.out = MinifyStep(s, k).kept \o @] \in V
      OBVIOUS
    <3>1. MinifyStep(s, k).kept \o v.out \in Seq(Int)
      BY <1>2
    <3> QED
      BY <3>1
  <2> HIDE DEF D, V, B, back, m, b, F
  <2> QED
    BY <2>1, <2>2, <2>3, <2>4 DEF Descends
<1>4. PICK f \in [D -> V] : \A k \in D : f[k] = IF k \in B THEN b[k] ELSE F[<<k, f[back[k]]>>]
  <2> HIDE DEF D, V, B, back, m, b, F
  <2> QED
    BY <1>3, Recursion
<1>5. \A k \in D : /\ (k \in B <=> k > Len(s))
                   /\ ~(k > Len(s)) => back[k] = MinifyStep(s, k).next /\ back[k] \in D
                   /\ b[k] = [out |-> <<>>, past |-> k > Len(s) + 1]
                   /\ \A v \in V : ~(k > Len(s)) =>
                        F[<<k, v>>] = [v EXCEPT !.out = MinifyStep(s, k).kept \o @]
  BY <1>2
<1>6. \A k \in D : f[k] = Body(f, k)
  <2> SUFFICES ASSUME NEW k \in D PROVE f[k] = Body(f, k)
    OBVIOUS
  <2> HIDE DEF D, V, B, back, m, b, F
  <2>1. CASE k > Len(s)
    BY <1>4, <1>5, <2>1
  <2>2. CASE ~(k > Len(s))
    <3>1. f[k] = F[<<k, f[back[k]]>>] /\ f[back[k]] \in V
      BY <1>4, <1>5, <2>2
    <3>2. F[<<k, f[back[k]]>>] = [f[back[k]] EXCEPT !.out = MinifyStep(s, k).kept \o @]
      BY <1>5, <2>2, <3>1
    <3>3. back[k] = MinifyStep(s, k).next
      BY <1>5, <2>2
    <3> QED
      BY <2>2, <3>1, <3>2, <3>3
  <2> QED
    BY <2>1, <2>2
<1>7. \E g : g = [k \in D |-> Body(g, k)]
  <2>1. f = [k \in D |-> Body(f, k)]
    BY <1>6
  <2> QED
    BY <2>1
<1>8. PICK g : g = [k \in D |-> Body(g, k)] /\ Minify(s) = g[1]
  <2>1. Minify(s) = (CHOOSE g : g = [k \in D |-> Body(g, k)])[1]
    BY DEF Minify
  <2> HIDE DEF D, Body
  <2> QED
    BY <1>7, <2>1
<1>9. \A k \in D : g[k] = Body(g, k)
  BY <1>8
<1>10. g \in [D -> V]
  <2>1. g = [k \in D |-> g[k]]
    BY <1>8
  <2>2. \A k \in D : /\ k \in B => g[k] = b[k]
                     /\ k \notin B /\ g[back[k]] \in V => g[k] = F[<<k, g[back[k]]>>]
    <3> SUFFICES ASSUME NEW k \in D
                 PROVE  /\ k \in B => g[k] = b[k]
                        /\ k \notin B /\ g[back[k]] \in V => g[k] = F[<<k, g[back[k]]>>]
      OBVIOUS
    <3> HIDE DEF D, V, B, back, m, b, F
    <3>1. CASE k > Len(s)
      BY <1>5, <1>9, <3>1
    <3>2. CASE ~(k > Len(s)) /\ g[back[k]] \in V
      <4>1. g[k] = [g[MinifyStep(s, k).next] EXCEPT !.out = MinifyStep(s, k).kept \o @]
        BY <1>9, <3>2
      <4>2. F[<<k, g[back[k]]>>] = [g[back[k]] EXCEPT !.out = MinifyStep(s, k).kept \o @]
        BY <1>5, <3>2
      <4>3. k \notin B /\ back[k] = MinifyStep(s, k).next
        BY <1>5, <3>2
      <4> QED
        BY ONLY <4>1, <4>2, <4>3
    <3> QED
      BY <1>5, <3>1, <3>2
  <2> HIDE DEF D, V, B, back, m, b, F
  <2> QED
    BY ONLY <1>3, <2>1, <2>2, RecursionType
<1>11. 1 \in D
  BY <1>1
<1> QED
  BY <1>8, <1>10, <1>11

\* What the caller gets is a text.
LEMMA PrintedIs ==
  ASSUME PrintInv, FitInv, wmode = "printed"
  PROVE  SomeSeq(Printed)
<1>1. CASE ~buffered
  <2>1. ret \in Pointer /\ ret # Null
    BY <1>1 DEF FitInv, PrintInv
  <2>2. PICK w \in Seq(Char) : ret = <<w>>
    BY <2>1 DEF Pointer, Ptr
  <2>3. ret[1] = w
    BY <2>2
  <2>4. Printed = w
    BY <1>1, <2>3 DEF Printed
  <2> QED
    BY <2>4 DEF SomeSeq
<1>2. CASE buffered
  <2>1. PICK n \in Nat : ret = <<n>>
    BY <1>2 DEF FitInv, Ptr
  <2>2. ret[1] = n /\ p.buffer \in Seq(Int) /\ Len(p.buffer) \in Nat
    BY <2>1, FittingIs DEF FitInv
  <2> DEFINE T == {k \in n + 1 .. Len(p.buffer) : p.buffer[k] \in {0, Unset}} \cup {Len(p.buffer) + 1}
             end == EndOfString(p.buffer, n)
  <2>3. end \in Nat /\ end <= Len(p.buffer) + 1
    <3>1. T \in SUBSET Nat /\ T # {} /\ Len(p.buffer) + 1 \in T
      BY <2>2
    <3>2. end = Min(T)
      BY DEF EndOfString
    <3> HIDE DEF T, end
    <3>3. end \in T /\ end <= Len(p.buffer) + 1
      BY <3>1, <3>2, MinIs
    <3> QED
      BY <3>1, <3>3
  <2>4. Printed = SubSeq(p.buffer, n + 1, end - 1)
    BY <1>2, <2>2 DEF Printed
  <2> HIDE DEF end
  <2>5. \A b \in Seq(Int), a, c \in Int : 1 <= a /\ c <= Len(b) => SubSeq(b, a, c) \in Seq(Int)
    OBVIOUS
  <2>6. SubSeq(p.buffer, n + 1, end - 1) \in Seq(Int)
    <3>1. n + 1 \in Int /\ 1 <= n + 1 /\ end - 1 \in Int /\ end - 1 <= Len(p.buffer)
      BY <2>2, <2>3
    <3> QED
      BY <2>2, <2>5, <3>1
  <2> QED
    BY <2>4, <2>6 DEF SomeSeq
<1> QED
  BY <1>1, <1>2

\* Parsing leaves the text alone.
LEMMA ParseText ==
  ASSUME Parse
  PROVE  text' = text
<1> USE DEF FailAt, Fail, OutOfMemory, Enters, StringFails
<1>1. CASE ParseLiteral \/ ParseNumber \/ ParseString
  BY <1>1 DEF ParseLiteral, ParseNumber, ParseString
<1>2. CASE ParseOpen
  BY <1>2 DEF ParseOpen
<1>3. CASE NotAValue \/ Malformed \/ ParseEnd
  BY <1>3 DEF NotAValue, Malformed, ParseEnd
<1>4. CASE ParseKey
  BY <1>4 DEF ParseKey
<1>5. CASE ParseComma \/ ParseClose
  BY <1>5 DEF ParseComma, ParseClose
<1> QED
  BY <1>1, <1>2, <1>3, <1>4, <1>5 DEF Parse

\* What is parsed is a sequence, whoever has written it.
LEMMA StepText ==
  ASSUME PrintInv, FitInv, SomeSeq(text), [Next]_text_vars
  PROVE  SomeSeq(text)'
<1>1. CASE UNCHANGED parse_vars
  BY <1>1 DEF parse_vars, SomeSeq
<1>2. CASE ReadBack
  <2>1. text' = Printed /\ wmode = "printed"
    BY <1>2 DEF ReadBack, ParseStart
  <2> QED
    BY <2>1, PrintedIs DEF SomeSeq
<1>3. CASE Read
  <2>1. PICK w \in Writings : text' = w.bytes \/ text' = Minify(w.bytes).out
    BY <1>3 DEF Read, ParseStart
  <2>2. w.bytes \in Seq(Int)
    <3>1. w.bytes \in Seq(Char)
      BY WritingsAssumption
    <3> QED
      BY <3>1, CharIs
  <2>3. Minify(w.bytes).out \in Seq(Int)
    BY <2>2, MinifyIs
  <2> QED
    BY <2>1, <2>2, <2>3 DEF SomeSeq
<1>4. CASE Parsing
  BY <1>4, ParseText DEF Parsing, SomeSeq
<1> QED
  BY <1>1, <1>2, <1>3, <1>4 DEF Next, PrintTree, Printing, text_vars

\* The opening quote is in the text.
LEMMA TextFitsRoom == SomeSeq(text) => ParseFits
<1> SUFFICES ASSUME SomeSeq(text), At(text, pos) = QUOTE, ~LoneBackslash(text, pos)
             PROVE  Len(Decoded(text, pos).bytes) + 1 <= StringRoom(text, pos)
  BY DEF ParseFits
<1>1. PICK S : text \in Seq(S)
  BY DEF SomeSeq
<1>2. pos \in 1 .. Len(text)
  BY <1>1 DEF At, QUOTE
<1> QED
  BY <1>1, <1>2, StringFits

\* parse_string writes no byte past the memory it asks for, whatever text is parsed.
THEOREM ParserFits == Spec => []ParseFits
<1>1. Init => PrintInv /\ FitInv /\ SomeSeq(text)
  <2>1. <<>> \in Seq({})
    OBVIOUS
  <2> QED
    BY <2>1, InitPrint, InitFits DEF Init, ParseIdle, SomeSeq
<1>2. PrintInv /\ FitInv /\ SomeSeq(text) /\ [Next]_text_vars
        => (PrintInv /\ FitInv /\ SomeSeq(text))'
  BY StepPrint, StepFits, StepText
<1> QED
  BY <1>1, <1>2, TextFitsRoom, PTL DEF Spec
=============================================================================

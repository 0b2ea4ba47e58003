---------------------------- MODULE ConfigProofs ----------------------------
(***************************************************************************)
(* A theorem about Config: what a lookup can do wrong, in every document,    *)
(* however it was loaded, and on every path.                                *)
(***************************************************************************)
EXTENDS Config, TLAPS, WellFoundedInduction

\* s is a rest of p.
IsRest(s, p) ==
  /\ s \in Seq(STRING) /\ p \in Seq(STRING)
  /\ Len(s) <= Len(p)
  /\ \A i \in 1 .. Len(s) : s[i] = p[Len(p) - Len(s) + i]

\* While a path is followed, what is left of it is a rest of it, and there is a node
\* to follow it from, unless a subscript ends right before the rest.
LookupInv ==
  /\ conf \in Argv
  /\ path0 \in Seq(STRING)
  /\ status = "called" =>
       /\ IsRest(path, path0)
       /\ j = NULL => SubscriptEnds(Len(path0) - Len(path))
  /\ LookupSafe

\* A set of naturals that is not empty has a least element.
LEMMA Least ==
  ASSUME NEW T \in SUBSET Nat, T # {}
  PROVE  \E x \in T : \A y \in T : x <= y
<1>1. PICK R : IsWellFoundedOn(R, Nat) /\ \A x, y \in Nat : y < x => <<y, x>> \in R
  <2>1. IsWellFoundedOn(OpToRel(<, Nat), Nat)
    BY NatLessThanWellFounded
  <2>2. \A x, y \in Nat : y < x => <<y, x>> \in OpToRel(<, Nat)
    BY DEF OpToRel
  <2> QED
    BY <2>1, <2>2, Zenon
<1>2. PICK x \in T : \A y \in T : ~(<<y, x>> \in R)
  BY <1>1, WFMin
<1>3. ASSUME NEW y \in T PROVE x <= y
  <2>1. x \in Nat /\ y \in Nat
    OBVIOUS
  <2>2. ~(y < x)
    BY <1>1, <1>2, <2>1, Zenon
  <2> QED
    BY <2>1, <2>2
<1> QED
  BY <1>3

LEMMA MinIs ==
  ASSUME NEW T \in SUBSET Nat, T # {}
  PROVE  Min(T) \in T /\ \A y \in T : Min(T) <= y
<1>1. \E x \in T : \A y \in T : x <= y
  BY Least
<1> QED
  BY <1>1 DEF Min

\* A key ends at a character of the path or right after it, ...
LEMMA KeyEndIs ==
  ASSUME NEW s \in Seq(STRING)
  PROVE  KeyEnd(s) \in 1 .. Len(s) + 1
<1> DEFINE T == {Len(s) + 1} \cup {i \in DOMAIN s : ~Escaped(s)[i] /\ s[i] \in {".", "["}}
<1>1. T \subseteq 1 .. Len(s) + 1 /\ T \in SUBSET Nat /\ T # {}
  OBVIOUS
<1>2. Min(T) \in T
  <2> HIDE DEF T
  <2> QED
    BY <1>1, MinIs
<1> QED
  BY <1>1, <1>2 DEF KeyEnd

\* ... and so does a subscript, with digits only before its end.
LEMMA SubEndIs ==
  ASSUME NEW s \in Seq(STRING)
  PROVE  /\ SubEnd(s) \in 1 .. Len(s) + 1
         /\ \A h \in 1 .. SubEnd(s) - 1 : s[h] \in Digit
<1> DEFINE T == {Len(s) + 1} \cup {i \in DOMAIN s : s[i] \notin Digit}
<1>1. T \subseteq 1 .. Len(s) + 1 /\ T \in SUBSET Nat /\ T # {}
  OBVIOUS
<1>2. Min(T) \in T /\ \A y \in T : Min(T) <= y
  <2> HIDE DEF T
  <2> QED
    BY <1>1, MinIs
<1>3. SubEnd(s) = Min(T)
  BY DEF SubEnd
<1>4. SubEnd(s) \in 1 .. Len(s) + 1
  BY <1>1, <1>2, <1>3
<1>5. ASSUME NEW h \in 1 .. SubEnd(s) - 1
      PROVE  s[h] \in Digit
  <2>1. h \in DOMAIN s /\ ~(SubEnd(s) <= h)
    BY <1>4
  <2>2. h \notin T
    BY <2>1, <1>2, <1>3
  <2> QED
    BY <2>1, <2>2
<1> QED
  BY <1>4, <1>5

\* What is left when the first e characters of a rest are cut off is a rest.
LEMMA RestOfRest ==
  ASSUME NEW s, NEW p, IsRest(s, p), NEW e \in 1 .. Len(s)
  PROVE  LET t == SubSeq(Tail(s), e, Len(Tail(s)))
         IN  IsRest(t, p) /\ Len(t) = Len(s) - e
<1> DEFINE u == Tail(s)
           t == SubSeq(u, e, Len(u))
<1>1. /\ s \in Seq(STRING) /\ p \in Seq(STRING) /\ Len(s) \in Nat /\ Len(p) \in Nat /\ Len(s) <= Len(p)
      /\ \A i \in 1 .. Len(s) : s[i] = p[Len(p) - Len(s) + i]
  BY DEF IsRest
<1>2. /\ u \in Seq(STRING) /\ Len(u) = Len(s) - 1
      /\ \A i \in 1 .. Len(s) - 1 : u[i] = s[i + 1]
  BY <1>1
<1>3. e \in Nat /\ 1 <= e /\ e <= Len(u) + 1 /\ Len(u) \in Nat
  BY <1>1, <1>2
<1>4. /\ t \in Seq(STRING) /\ Len(t) = Len(u) - e + 1
      /\ \A i \in 1 .. Len(u) - e + 1 : t[i] = u[e + i - 1]
  <2> HIDE DEF u
  <2> QED
    BY <1>2, <1>3
<1>5. Len(t) = Len(s) - e /\ Len(t) \in Nat
  <2> HIDE DEF t, u
  <2> QED
    BY <1>1, <1>2, <1>3, <1>4
<1>6. ASSUME NEW i \in 1 .. Len(t) PROVE t[i] = p[Len(p) - Len(t) + i]
  <2> HIDE DEF t, u
  <2>0. i \in Nat /\ 1 <= i /\ i <= Len(s) - e
    BY <1>5
  <2>1. t[i] = u[e + i - 1]
    BY <1>4, <1>5, <1>1, <1>2, <1>3
  <2>2. u[e + i - 1] = s[e + i]
    <3>1. e + i - 1 \in 1 .. Len(s) - 1 /\ (e + i - 1) + 1 = e + i
      BY <2>0, <1>1, <1>3
    <3> QED
      BY <3>1, <1>2
  <2>3. e + i \in 1 .. Len(s) /\ Len(p) - Len(s) + (e + i) = Len(p) - Len(t) + i
    BY <2>0, <1>1, <1>3, <1>5
  <2> QED
    BY <2>1, <2>2, <2>3, <1>1
<1>7. IsRest(t, p)
  <2> HIDE DEF t, u
  <2> QED
    BY <1>1, <1>4, <1>5, <1>6 DEF IsRest
<1> QED
  BY <1>5, <1>7

\* A subscript at the start of the rest ends in the path.
LEMMA EndsHere ==
  ASSUME IsRest(path, path0), path # <<>>, path[1] = "[",
         NEW s, s = Tail(path), NEW end, end = SubEnd(s), end <= Len(s), s[end] = "]"
  PROVE  /\ end \in 1 .. Len(path) - 1 /\ Len(s) = Len(path) - 1
         /\ SubscriptEnds(Len(path0) - Len(path) + 1 + end)
<1>1. /\ path \in Seq(STRING) /\ path0 \in Seq(STRING) /\ Len(path) \in Nat /\ Len(path0) \in Nat
      /\ Len(path) <= Len(path0) /\ Len(path) > 0
      /\ \A i \in 1 .. Len(path) : path[i] = path0[Len(path0) - Len(path) + i]
      /\ DOMAIN path0 = 1 .. Len(path0)
  BY DEF IsRest
<1>2. /\ s \in Seq(STRING) /\ Len(s) = Len(path) - 1
      /\ \A i \in 1 .. Len(path) - 1 : s[i] = path[i + 1]
  BY <1>1
<1>3. end \in 1 .. Len(s) + 1 /\ \A h \in 1 .. end - 1 : s[h] \in Digit
  BY <1>2, SubEndIs
<1>4. end \in 1 .. Len(path) - 1
  BY <1>1, <1>2, <1>3
<1> DEFINE o == Len(path0) - Len(path)
           k == o + 1 + end
<1>5. o \in Nat /\ k \in 1 .. Len(path0) /\ o + 1 \in 1 .. k - 1
  BY <1>1, <1>4
<1>6. \A i \in 1 .. Len(path) - 1 : s[i] = path0[o + 1 + i]
  <2> SUFFICES ASSUME NEW i \in 1 .. Len(path) - 1 PROVE s[i] = path0[o + 1 + i]
    OBVIOUS
  <2>1. i + 1 \in 1 .. Len(path) /\ o + (i + 1) = o + 1 + i
    BY <1>1
  <2> QED
    BY <2>1, <1>1, <1>2
<1>7. path0[k] = "]" /\ path0[o + 1] = "["
  <2>1. 1 \in 1 .. Len(path)
    BY <1>1
  <2> QED
    BY <2>1, <1>1, <1>4, <1>6
<1>8. \A h \in o + 1 + 1 .. k - 1 : path0[h] \in Digit
  <2> SUFFICES ASSUME NEW h \in o + 1 + 1 .. k - 1 PROVE path0[h] \in Digit
    OBVIOUS
  <2> DEFINE i == h - o - 1
  <2>1. end \in Nat /\ end <= Len(path) - 1 /\ Len(path) \in Nat /\ o \in Nat /\ k = o + 1 + end
    BY <1>1, <1>4, <1>5
  <2> HIDE DEF o, k
  <2>2. i \in 1 .. end - 1 /\ i \in 1 .. Len(path) - 1 /\ o + 1 + i = h
    BY <2>1
  <2> HIDE DEF i
  <2> QED
    BY <2>2, <1>3, <1>6
<1> HIDE DEF o, k
<1>9. SubscriptEnds(k)
  BY <1>1, <1>5, <1>7, <1>8 DEF SubscriptEnds
<1> QED
  BY <1>2, <1>4, <1>9 DEF o, k

LEMMA LookupKeeps ==
  ASSUME LookupInv, Lookup, UNCHANGED load_vars
  PROVE  LookupInv'
<1>0. /\ conf' \in Argv /\ DEFLT # NULL /\ path0 \in Seq(STRING) /\ Len(path0) \in Nat
  BY LookupAssumption DEF LookupInv, load_vars
<1>1. CASE LookupCall
  <2>1. path0' \in Seq(STRING) /\ path' = path0' /\ status' = "called" /\ j' = <<>>
    BY <1>1, LookupAssumption DEF LookupCall, LookupInv
  <2>2. <<>> # NULL
    <3>1. <<>> \in Seq(Nat)
      OBVIOUS
    <3> QED
      BY <3>1, LookupAssumption
  <2>3. IsRest(path', path0')
    BY <2>1 DEF IsRest
  <2>4. LookupSafe'
    BY <2>1 DEF LookupSafe
  <2> QED
    BY <1>0, <2>1, <2>2, <2>3, <2>4 DEF LookupInv
<1>2. ASSUME UNCHANGED path0, status' = "called", IsRest(path', path0),
             j' = NULL => SubscriptEnds(Len(path0) - Len(path'))
      PROVE  LookupInv'
  BY <1>0, <1>2 DEF LookupInv, LookupSafe, SubscriptEnds
<1>3. ASSUME UNCHANGED path0,
             \/ /\ status' = "fault"
                /\ \E k \in 1 .. Len(path0) - 1 : SubscriptEnds(k) /\ path0[k + 1] = "["
             \/ status' = "overrun" /\ Len(path0) > 0 /\ path0[Len(path0)] = "\\"
             \/ /\ status' = "returned"
                /\ \/ result' # NULL
                   \/ SubscriptEnds(Len(path0))
                   \/ SubscriptEnds(Len(path0) - 1) /\ path0[Len(path0)] = "."
      PROVE  LookupInv'
  BY <1>0, <1>3 DEF LookupInv, LookupSafe, SubscriptEnds
<1>4. ASSUME status = "called"
      PROVE  /\ IsRest(path, path0) /\ path \in Seq(STRING) /\ Len(path) \in Nat
             /\ Len(path) <= Len(path0)
             /\ \A i \in 1 .. Len(path) : path[i] = path0[Len(path0) - Len(path) + i]
             /\ j = NULL => SubscriptEnds(Len(path0) - Len(path))
  BY <1>4 DEF LookupInv, IsRest
<1>5. CASE LookupSelf
  <2>1. /\ status = "called" /\ Len(path) = 1 /\ path[1] = "."
        /\ UNCHANGED path0 /\ status' = "returned" /\ result' = j
    BY <1>5 DEF LookupSelf, Starts, Returns, Ends
  <2>2. path0[Len(path0)] = "."
    <3>1. 1 \in 1 .. Len(path) /\ Len(path0) - Len(path) + 1 = Len(path0)
      BY <2>1, <1>0
    <3> QED
      BY <3>1, <2>1, <1>4
  <2>3. j = NULL => SubscriptEnds(Len(path0) - 1)
    BY <2>1, <1>4
  <2> QED
    BY <2>1, <2>2, <2>3, <1>3
<1>6. CASE LookupKey
  <2> DEFINE s == Tail(path)
             value == GetObjectItem(j, KeyOf(s))
             rest == SubSeq(s, KeyEnd(s), Len(s))
  <2>1. /\ status = "called" /\ Len(path) > 1 /\ UNCHANGED path0
        /\ \/ value = NULL /\ Returns(DEFLT)
           \/ Dangling(s) /\ Ends("overrun", NULL)
           \/ value # NULL /\ Returns(value)
           \/ value # NULL /\ Calls(value, rest)
    BY <1>6 DEF LookupKey, Starts, Returns, Ends, Calls
  <2>2. s \in Seq(STRING) /\ Len(s) = Len(path) - 1 /\ \A i \in 1 .. Len(path) - 1 : s[i] = path[i + 1]
    BY <2>1, <1>4
  <2> HIDE DEF s, value
  <2>3. KeyEnd(s) \in 1 .. Len(path)
    <3>1. KeyEnd(s) \in 1 .. Len(s) + 1
      BY <2>2, KeyEndIs
    <3> QED
      BY <3>1, <2>1, <2>2, <1>4
  <2>4. IsRest(rest, path0)
    BY <2>1, <2>3, <1>4, RestOfRest DEF s
  <2> HIDE DEF rest
  <2>5. CASE value = NULL /\ Returns(DEFLT)
    BY <2>1, <2>5, <1>0, <1>3 DEF Returns, Ends
  <2>6. CASE Dangling(s) /\ Ends("overrun", NULL)
    <3>1. s[Len(s)] = "\\"
      BY <2>6 DEF Dangling
    <3>2. path[Len(path)] = "\\"
      <4>1. Len(path) - 1 \in 1 .. Len(path) - 1 /\ Len(path) - 1 + 1 = Len(path)
        BY <2>1, <1>4
      <4> QED
        BY <4>1, <3>1, <2>2
    <3>3. path0[Len(path0)] = "\\" /\ Len(path0) > 0
      <4>1. Len(path) \in 1 .. Len(path) /\ Len(path0) - Len(path) + Len(path) = Len(path0)
        BY <2>1, <1>0, <1>4
      <4> QED
        BY <4>1, <3>2, <2>1, <1>0, <1>4
    <3> QED
      BY <2>1, <2>6, <3>3, <1>3 DEF Ends
  <2>7. CASE value # NULL /\ Returns(value)
    BY <2>1, <2>7, <1>3 DEF Returns, Ends
  <2>8. CASE value # NULL /\ Calls(value, rest)
    BY <2>1, <2>4, <2>8, <1>2 DEF Calls
  <2> QED
    BY <2>1, <2>5, <2>6, <2>7, <2>8
<1>7. CASE LookupSub
  <2> DEFINE s == Tail(path)
             end == SubEnd(s)
             item == GetArrayItem(j, atoi(SubSeq(s, 1, end - 1)))
             rest == SubSeq(s, end + 1, Len(s))
  <2>1. /\ status = "called" /\ path # <<>> /\ path[1] = "[" /\ UNCHANGED path0
        /\ \/ j = NULL /\ Ends("fault", NULL)
           \/ Returns(DEFLT)
           \/ end = Len(s) /\ s[end] = "]" /\ Returns(item)
           \/ end < Len(s) /\ s[end] = "]" /\ Calls(item, rest)
    BY <1>7 DEF LookupSub, Starts, Returns, Ends, Calls
  <2>2. Len(path) > 0
    BY <2>1, <1>4
  <2> HIDE DEF end, item, s
  <2>3. CASE j = NULL /\ Ends("fault", NULL)
    <3> DEFINE k == Len(path0) - Len(path)
    <3>1. SubscriptEnds(k)
      BY <2>1, <2>3, <1>4
    <3>2. path0[k + 1] = "["
      <4>1. 1 \in 1 .. Len(path)
        BY <2>1, <2>2, <1>4
      <4> QED
        BY <4>1, <2>1, <1>4
    <3>3. k \in 1 .. Len(path0) - 1
      <4>1. k \in 1 .. Len(path0)
        BY <3>1, <1>0 DEF SubscriptEnds
      <4> QED
        BY <4>1, <2>1, <2>2, <1>0, <1>4
    <3> HIDE DEF k
    <3> QED
      BY <2>1, <2>3, <3>1, <3>2, <3>3, <1>3 DEF Ends
  <2>4. CASE Returns(DEFLT)
    BY <2>1, <2>4, <1>0, <1>3 DEF Returns, Ends
  <2>5. CASE end = Len(s) /\ s[end] = "]" /\ Returns(item)
    <3>0. Len(s) = Len(path) - 1 /\ Len(s) \in Nat
      BY <2>1, <2>2, <1>4 DEF s
    <3>1. end \in 1 .. Len(path) - 1 /\ SubscriptEnds(Len(path0) - Len(path) + 1 + end)
      <4>1. end <= Len(s)
        BY <2>5, <3>0
      <4> QED
        BY <4>1, <2>1, <2>5, <1>4, EndsHere DEF s, end
    <3>2. Len(path0) - Len(path) + 1 + end = Len(path0)
      BY <2>1, <2>5, <3>0, <1>0, <1>4
    <3>3. SubscriptEnds(Len(path0))
      BY <3>1, <3>2
    <3> QED
      BY <2>1, <2>5, <3>3, <1>3 DEF Returns, Ends
  <2>6. CASE end < Len(s) /\ s[end] = "]" /\ Calls(item, rest)
    <3>0. Len(s) = Len(path) - 1 /\ Len(s) \in Nat
      BY <2>1, <2>2, <1>4 DEF s
    <3>a. end \in 1 .. Len(s) + 1
      <4>1. s \in Seq(STRING)
        BY <2>1, <2>2, <1>4 DEF s, IsRest
      <4> HIDE DEF s
      <4> QED
        BY <4>1, SubEndIs DEF end
    <3>1. end \in 1 .. Len(path) - 1 /\ SubscriptEnds(Len(path0) - Len(path) + 1 + end)
      <4>1. end <= Len(s)
        BY <2>6, <3>0, <3>a
      <4> QED
        BY <4>1, <2>1, <2>6, <1>4, EndsHere DEF s, end
    <3>2. end + 1 \in 1 .. Len(path)
      BY <3>1, <2>1, <1>4
    <3>3. IsRest(rest, path0) /\ Len(rest) = Len(path) - (end + 1)
      BY <3>2, <2>1, <1>4, RestOfRest DEF s
    <3> HIDE DEF rest
    <3>4. Len(path0) - Len(path) + 1 + end = Len(path0) - Len(rest)
      BY <3>1, <3>3, <2>1, <1>0, <1>4
    <3>5. SubscriptEnds(Len(path0) - Len(rest))
      BY <3>1, <3>4
    <3>6. j' = item /\ path' = rest /\ UNCHANGED <<path0, status>>
      BY <2>6 DEF Calls
    <3> QED
      BY <2>1, <3>3, <3>5, <3>6, <1>2
  <2> QED
    BY <2>1, <2>3, <2>4, <2>5, <2>6
<1>8. CASE LookupInvalid
  BY <1>0, <1>3, <1>8 DEF LookupInvalid, Returns, Ends
<1> QED
  BY <1>1, <1>5, <1>6, <1>7, <1>8 DEF Lookup

\* Whatever files were loaded, and whatever went wrong with them, a lookup goes wrong
\* in three places of a path only, none of which a path of plain keys has: for all
\* documents and paths.
THEOREM LookupIsSafe == Spec => []LookupSafe
<1>1. Init => LookupInv
  BY DEF Init, LoadInit, LookupInit, LookupInv, LookupSafe
<1>2. LookupInv /\ [Next]_vars => LookupInv'
  <2> SUFFICES ASSUME LookupInv, [Next]_vars PROVE LookupInv'
    OBVIOUS
  <2>1. CASE Loading
    <3>1. conf' = conf /\ UNCHANGED lookup_vars
      BY <2>1 DEF Loading, Load, LoadConf, Include, Pass, Descend, Finish
    <3> QED
      BY <3>1 DEF LookupInv, LookupSafe, SubscriptEnds, lookup_vars
  <2>2. CASE LookingUp
    BY <2>2, LookupKeeps DEF LookingUp
  <2>3. CASE UNCHANGED vars
    BY <2>3 DEF vars, load_vars, lookup_vars, LookupInv, LookupSafe, SubscriptEnds
  <2> QED
    BY <2>1, <2>2, <2>3 DEF Next
<1>3. LookupInv => LookupSafe
  BY DEF LookupInv
<1> QED
  BY <1>1, <1>2, <1>3, PTL DEF Spec
=============================================================================

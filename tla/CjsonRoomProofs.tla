--------------------------- MODULE CjsonRoomProofs ---------------------------
(***************************************************************************)
(* Theorems about the memory that cJSON.c asks for: the strings that        *)
(* parse_string reads, those that print_string_ptr writes, and the texts of  *)
(* numbers, arrays and objects are never longer.                            *)
(*                                                                         *)
(* They are about functions that are defined by recursion.  Each of these    *)
(* gets a lemma that says what the function is, from Recursion.             *)
(***************************************************************************)
EXTENDS CjsonPrint, TLAPS, FiniteSetTheorems

-----------------------------------------------------------------------------
(***************************************************************************)
(* Recursion over finite sets.                                              *)
(***************************************************************************)

\* A set of naturals that is not empty has a least element: without one, taking away
\* 1 would map the numbers up to one of its elements onto fewer.
LEMMA Least ==
  ASSUME NEW T \in SUBSET Nat, T # {}
  PROVE  \E x \in T : \A y \in T : x <= y
<1> SUFFICES ASSUME \A x \in T : \E y \in T : y < x PROVE FALSE
  OBVIOUS
<1>0. PICK t \in T : TRUE
  OBVIOUS
<1> DEFINE A == {x \in 0 .. t : \E y \in T : y <= x}
<1>1. t \in A /\ A \subseteq 0 .. t
  BY <1>0
<1>2. \A x \in A : x - 1 \in A \ {t}
  <2> SUFFICES ASSUME NEW x \in A PROVE x - 1 \in A /\ x - 1 # t
    OBVIOUS
  <2>1. PICK y \in T : y <= x
    OBVIOUS
  <2>2. PICK z \in T : z < y
    OBVIOUS
  <2> QED BY <2>1, <2>2
<1>a. IsFiniteSet(0 .. t)
  BY FS_Interval
<1>3. IsFiniteSet(A)
  BY ONLY <1>1, <1>a, FS_Subset
<1> DEFINE f == [x \in A |-> x - 1]
<1>4. f \in [A -> A \ {t}]
  BY <1>2
<1>5. IsFiniteSet(A \ {t}) /\ Cardinality(A \ {t}) = Cardinality(A) - 1 /\ Cardinality(A) \in Nat
  BY <1>3, <1>1, FS_RemoveElement, FS_CardinalityType
<1>6. \E x, y \in A : x # y /\ f[x] = f[y]
  <2> HIDE DEF A, f
  <2>1. Cardinality(A \ {t}) < Cardinality(A)
    BY <1>5
  <2> QED BY ONLY <2>1, <1>3, <1>4, <1>5, FS_PigeonHole
<1> QED
  BY <1>6

\* The recursive definitions below have the values they are meant to have.  First, that
\* of EscapedIn.
LEMMA EscapedDef ==
  ASSUME NEW s, NEW i \in Nat, Len(s) \in Nat
  PROVE  /\ EscapedIn(s, i) \in [i .. Len(s) + 1 -> BOOLEAN]
         /\ \A k \in i .. Len(s) + 1 :
              EscapedIn(s, i)[k] <=> k > i + 1 /\ s[k - 1] = BACKSLASH /\ ~EscapedIn(s, i)[k - 1]
<1> DEFINE P(n) == \E f \in [i .. n -> BOOLEAN] :
                     \A k \in i .. n : f[k] <=> k > i + 1 /\ s[k - 1] = BACKSLASH /\ ~f[k - 1]
<1>1. P(i)
  <2>1. [k \in i .. i |-> FALSE] \in [i .. i -> BOOLEAN]
    OBVIOUS
  <2>2. \A k \in i .. i : ~(k > i + 1) /\ [l \in i .. i |-> FALSE][k] = FALSE
    OBVIOUS
  <2> QED BY <2>1, <2>2
<1>2. ASSUME NEW n \in Nat, n >= i, P(n) PROVE P(n + 1)
  <2>1. PICK f \in [i .. n -> BOOLEAN] :
               \A k \in i .. n : f[k] <=> k > i + 1 /\ s[k - 1] = BACKSLASH /\ ~f[k - 1]
    BY <1>2
  <2> DEFINE g == [k \in i .. n + 1 |-> k > i + 1 /\ s[k - 1] = BACKSLASH /\ ~f[k - 1]]
  <2>2. g \in [i .. n + 1 -> BOOLEAN]
    OBVIOUS
  <2>3. \A k \in i .. n : g[k] = f[k]
    BY <2>1
  <2>4. \A k \in i .. n + 1 : g[k] <=> k > i + 1 /\ s[k - 1] = BACKSLASH /\ ~g[k - 1]
    <3> SUFFICES ASSUME NEW k \in i .. n + 1
                 PROVE  g[k] <=> k > i + 1 /\ s[k - 1] = BACKSLASH /\ ~g[k - 1]
      OBVIOUS
    <3>1. g[k] <=> k > i + 1 /\ s[k - 1] = BACKSLASH /\ ~f[k - 1]
      OBVIOUS
    <3>2. k > i + 1 => k - 1 \in i .. n
      OBVIOUS
    <3> HIDE DEF g
    <3> QED BY <2>3, <3>1, <3>2
  <2> HIDE DEF g
  <2> QED BY <2>2, <2>4
<1> HIDE DEF P
<1>3. \A n \in Nat : n >= i => P(n)
  <2> DEFINE T == {n \in Nat : n >= i /\ ~P(n)}
  <2> SUFFICES ASSUME T # {} PROVE FALSE
    OBVIOUS
  <2>1. PICK n \in T : \A m \in T : n <= m
    BY Least
  <2>2. n # i
    BY <1>1
  <2>3. P(n - 1)
    BY <2>1, <2>2
  <2> QED BY <2>2, <2>3, <1>2
<1> DEFINE D == i .. Len(s) + 1
           Body(f, k) == k > i + 1 /\ s[k - 1] = BACKSLASH /\ ~f[k - 1]
<1>4. \E f \in [D -> BOOLEAN] : \A k \in D : f[k] <=> Body(f, k)
  <2>1. CASE Len(s) + 1 >= i
    BY <2>1, <1>3 DEF P
  <2>2. CASE Len(s) + 1 < i
    <3>1. D = {}
      BY <2>2
    <3>2. [k \in D |-> FALSE] \in [D -> BOOLEAN]
      OBVIOUS
    <3> HIDE DEF D
    <3> QED BY <3>1, <3>2
  <2> QED BY <2>1, <2>2
<1> HIDE DEF D
<1>5. \E f : f = [k \in D |-> Body(f, k)]
  <2>1. PICK f \in [D -> BOOLEAN] : \A k \in D : f[k] <=> Body(f, k)
    BY <1>4
  <2>2. \A k \in D : Body(f, k) \in BOOLEAN
    OBVIOUS
  <2> HIDE DEF Body
  <2>3. \A k \in D : f[k] = Body(f, k)
    BY <2>1, <2>2
  <2>4. f = [k \in D |-> f[k]]
    BY <2>1
  <2>5. [k \in D |-> f[k]] = [k \in D |-> Body(f, k)]
    BY ONLY <2>3, Zenon
  <2> QED BY <2>4, <2>5
<1>6. EscapedIn(s, i) = CHOOSE f : f = [k \in D |-> Body(f, k)]
  BY DEF EscapedIn, D
<1> DEFINE e == EscapedIn(s, i)
<1>7. e = [k \in D |-> Body(e, k)]
  BY <1>5, <1>6
<1>8. \A k \in D : e[k] = Body(e, k)
  BY ONLY <1>7
<1>9. \A k \in D : Body(e, k) \in BOOLEAN
  OBVIOUS
<1>10. e \in [D -> BOOLEAN]
  <2> HIDE DEF Body, e
  <2>1. [k \in D |-> Body(e, k)] \in [D -> BOOLEAN]
    BY <1>9
  <2> QED BY <1>7, <2>1
<1> QED
  <2> HIDE DEF e
  <2>1. e \in [D -> BOOLEAN] /\ \A k \in D : e[k] <=> Body(e, k)
    BY <1>10, <1>8
  <2> QED BY <2>1 DEF e, D

\* What f[k] is to be is b[k] for k in B, and otherwise F of f[back[k]], which is
\* less by the measure m.
Descends(D, V, m, back, B, b, F) ==
  /\ \E N \in Nat : m \in [D -> 0 .. N]
  /\ back \in [D -> D] /\ B \subseteq D
  /\ b \in [D -> V] /\ F \in [D \X V -> V]
  /\ \A k \in D \ B : m[back[k]] < m[k]

\* A function defined by recursion along back exists.
LEMMA Recursion ==
  ASSUME NEW D, NEW V, NEW m, NEW back, NEW B, NEW b, NEW F, Descends(D, V, m, back, B, b, F)
  PROVE  \E f \in [D -> V] : \A k \in D : f[k] = IF k \in B THEN b[k] ELSE F[<<k, f[back[k]]>>]
<1> PICK N \in Nat : m \in [D -> 0 .. N]
  BY DEF Descends
<1>0. /\ back \in [D -> D] /\ B \subseteq D
      /\ b \in [D -> V] /\ F \in [D \X V -> V]
      /\ \A k \in D \ B : m[back[k]] < m[k]
  BY DEF Descends
<1> DEFINE P(n) == \E f \in [D -> V] : \A k \in D : m[k] < n =>
                     f[k] = IF k \in B THEN b[k] ELSE F[<<k, f[back[k]]>>]
<1>1. P(0)
  <2>1. b \in [D -> V] /\ \A k \in D : ~(m[k] < 0)
    BY <1>0
  <2> QED
    BY <2>1
<1>2. ASSUME NEW n \in Nat, P(n) PROVE P(n + 1)
  <2>1. PICK f \in [D -> V] : \A k \in D : m[k] < n =>
                     f[k] = IF k \in B THEN b[k] ELSE F[<<k, f[back[k]]>>]
    BY <1>2
  <2> DEFINE g == [k \in D |-> IF k \in B THEN b[k]
                               ELSE IF m[k] = n THEN F[<<k, f[back[k]]>>] ELSE f[k]]
  <2>2. g \in [D -> V]
    BY <1>0
  <2>3. \A k \in D : m[k] < n => g[k] = f[k]
    BY <2>1
  <2>4. ASSUME NEW k \in D, m[k] < n + 1
        PROVE  g[k] = IF k \in B THEN b[k] ELSE F[<<k, g[back[k]]>>]
    <3>1. CASE k \in B
      BY <3>1
    <3>2. CASE k \notin B
      <4>1. m[back[k]] < n /\ back[k] \in D
        <5>1. m[back[k]] < m[k] /\ back[k] \in D
          BY <1>0, <3>2
        <5> QED
          BY <5>1, <2>4
      <4>2. g[back[k]] = f[back[k]]
        BY <4>1, <2>3
      <4>3. g[k] = F[<<k, f[back[k]]>>]
        BY <3>2, <2>4, <2>1
      <4> QED BY <3>2, <4>2, <4>3
    <3> QED BY <3>1, <3>2
  <2> HIDE DEF g
  <2> QED BY <2>2, <2>4
<1> HIDE DEF P
<1>3. \A n \in Nat : P(n)
  <2> DEFINE T == {n \in Nat : ~P(n)}
  <2> SUFFICES ASSUME T # {} PROVE FALSE
    OBVIOUS
  <2>1. PICK n \in T : \A l \in T : n <= l
    BY Least
  <2>2. n # 0
    BY <1>1
  <2>3. P(n - 1)
    BY <2>1, <2>2
  <2> QED BY <2>2, <2>3, <1>2
<1>4. P(N + 1)
  BY <1>3
<1> QED
  BY <1>4 DEF P

\* It has its values in V, and so the one CHOOSE picks has.
LEMMA RecursionType ==
  ASSUME NEW D, NEW V, NEW m, NEW back, NEW B, NEW b, NEW F, Descends(D, V, m, back, B, b, F),
         NEW g, g = [k \in D |-> g[k]],
         \A k \in D : /\ k \in B => g[k] = b[k]
                      /\ k \notin B /\ g[back[k]] \in V => g[k] = F[<<k, g[back[k]]>>]
  PROVE  g \in [D -> V]
<1> PICK N \in Nat : m \in [D -> 0 .. N]
  BY DEF Descends
<1>0. /\ back \in [D -> D] /\ B \subseteq D
      /\ b \in [D -> V] /\ F \in [D \X V -> V]
      /\ \A k \in D \ B : m[back[k]] < m[k]
  BY DEF Descends
<1>1. \A k \in D : g[k] \in V
  <2> DEFINE T == {m[k] : k \in {l \in D : g[l] \notin V}}
  <2> SUFFICES ASSUME T # {} PROVE FALSE
    OBVIOUS
  <2>1. T \in SUBSET Nat
    OBVIOUS
  <2>2. PICK n \in T : \A x \in T : n <= x
    <3> HIDE DEF T
    <3> QED
      BY <2>1, Least
  <2>3. PICK k \in D : g[k] \notin V /\ n = m[k]
    BY <2>2
  <2>4. k \notin B
    BY <1>0, <2>3
  <2>5. back[k] \in D /\ m[back[k]] \in Nat /\ m[k] \in Nat /\ m[back[k]] < m[k]
    BY <1>0, <2>4
  <2>6. g[back[k]] \in V
    <3> SUFFICES ASSUME g[back[k]] \notin V PROVE FALSE
      OBVIOUS
    <3>1. m[back[k]] \in T
      BY <2>5
    <3>2. n <= m[back[k]] /\ n \in Nat
      BY <2>1, <2>2, <3>1
    <3> QED
      BY ONLY <3>2, <2>3, <2>5
  <2> QED
    BY <1>0, <2>3, <2>4, <2>6
<1> QED
  BY <1>1

\* Min is the least element.
LEMMA MinIs ==
  ASSUME NEW T \in SUBSET Nat, T # {}
  PROVE  Min(T) \in T /\ \A x \in T : Min(T) <= x
BY Least DEF Min

\* A string that does not end in a lone backslash ends at its quote or at the end of
\* the text, where nothing is escaped.
LEMMA EndIs ==
  ASSUME NEW S, NEW s \in Seq(S), NEW i \in 1 .. Len(s), ~LoneBackslash(s, i)
  PROVE  /\ StringEnd(s, i) \in i + 1 .. Len(s) + 1
         /\ At(s, StringEnd(s, i)) \in {0, QUOTE}
         /\ ~EscapedIn(s, i)[StringEnd(s, i)]
<1> DEFINE T == {Len(s) + 1} \cup {k \in i + 1 .. Len(s) : s[k] = QUOTE /\ ~EscapedIn(s, i)[k]}
<1>1. StringEnd(s, i) \in T
  BY MinIs DEF StringEnd
<1> QED
  BY <1>1 DEF LoneBackslash, At

\* parse_hex4 yields 16 bits, and what it reads holds no quote and no backslash.
LEMMA HexIs ==
  ASSUME NEW s, NEW k \in Int
  PROVE  /\ parse_hex4(s, k) \in Nat /\ parse_hex4(s, k) < 65536
         /\ parse_hex4(s, k) # 0 => \A n \in 0 .. 3 : At(s, k + n) \notin {0, QUOTE, BACKSLASH}
<1>1. \A c : Nibble(c) \in -1 .. 15 /\ (c \in {0, QUOTE, BACKSLASH} => Nibble(c) = -1)
  BY DEF Nibble, QUOTE, BACKSLASH
<1> DEFINE d(n) == Nibble(At(s, k + n))
<1>2. \A n \in 0 .. 3 : d(n) \in -1 .. 15
  BY <1>1
<1>3. \A n \in 0 .. 3 : At(s, k + n) \in {0, QUOTE, BACKSLASH} => d(n) = -1
  BY <1>1
<1>4. parse_hex4(s, k) = IF \E n \in 0 .. 3 : d(n) = -1 THEN 0
                         ELSE 16 * (16 * (16 * d(0) + d(1)) + d(2)) + d(3)
  BY DEF parse_hex4
<1> HIDE DEF d
<1>5. ASSUME \A n \in 0 .. 3 : d(n) # -1
      PROVE  d(0) \in 0 .. 15 /\ d(1) \in 0 .. 15 /\ d(2) \in 0 .. 15 /\ d(3) \in 0 .. 15
  BY <1>5, <1>2
<1>6. CASE \E n \in 0 .. 3 : d(n) = -1
  <2>1. parse_hex4(s, k) = 0
    BY ONLY <1>4, <1>6
  <2> QED
    BY ONLY <2>1
<1>7. CASE \A n \in 0 .. 3 : d(n) # -1
  <2>1. parse_hex4(s, k) = 16 * (16 * (16 * d(0) + d(1)) + d(2)) + d(3)
    BY ONLY <1>4, <1>7
  <2>2. parse_hex4(s, k) \in Nat /\ parse_hex4(s, k) < 65536
    <3>1. \A a, b, c, e \in 0 .. 15 :
            16 * (16 * (16 * a + b) + c) + e \in Nat /\ 16 * (16 * (16 * a + b) + c) + e < 65536
      OBVIOUS
    <3>2. d(0) \in 0 .. 15 /\ d(1) \in 0 .. 15 /\ d(2) \in 0 .. 15 /\ d(3) \in 0 .. 15
      BY <1>5, <1>7
    <3>3. \E a, b, c, e \in 0 .. 15 : parse_hex4(s, k) = 16 * (16 * (16 * a + b) + c) + e
      BY ONLY <2>1, <3>2
    <3> QED
      BY ONLY <3>1, <3>3
  <2>3. \A n \in 0 .. 3 : At(s, k + n) \notin {0, QUOTE, BACKSLASH}
    BY ONLY <1>3, <1>7
  <2> QED
    BY ONLY <2>2, <2>3
<1> QED
  BY ONLY <1>6, <1>7

\* Characters of 16 bits take up to three bytes.
LEMMA UTF8Is ==
  ASSUME NEW uc \in Nat
  PROVE  /\ UTF8(uc) \in Seq(Int)
         /\ Len(UTF8(uc)) \in 0 .. 4
         /\ uc < 65536 => Len(UTF8(uc)) \in 0 .. 3
<1>1. \A c \in Int : Tail6(c) \in Int
  BY DEF Tail6
<1>2. /\ 192 + uc \div 64 \in Int /\ 224 + uc \div 4096 \in Int /\ 240 + uc \div 262144 \in Int
      /\ uc \div 64 \in Int /\ uc \div 4096 \in Int
  OBVIOUS
<1> DEFINE one == <<uc>>
           two == <<192 + uc \div 64, Tail6(uc)>>
           three == <<224 + uc \div 4096, Tail6(uc \div 64), Tail6(uc)>>
           four == <<240 + uc \div 262144, Tail6(uc \div 4096), Tail6(uc \div 64), Tail6(uc)>>
<1>3. UTF8(uc) = IF uc < 128 THEN one ELSE IF uc < 2048 THEN two
                 ELSE IF uc < 65536 THEN three ELSE four
  BY DEF UTF8
<1>4. /\ one \in Seq(Int) /\ Len(one) = 1
      /\ two \in Seq(Int) /\ Len(two) = 2
      /\ three \in Seq(Int) /\ Len(three) = 3
      /\ four \in Seq(Int) /\ Len(four) = 4
  <2> HIDE DEF Tail6
  <2>1. \A a, c, e, g \in Int :
          /\ <<a>> \in Seq(Int) /\ Len(<<a>>) = 1
          /\ <<a, c>> \in Seq(Int) /\ Len(<<a, c>>) = 2
          /\ <<a, c, e>> \in Seq(Int) /\ Len(<<a, c, e>>) = 3
          /\ <<a, c, e, g>> \in Seq(Int) /\ Len(<<a, c, e, g>>) = 4
    OBVIOUS
  <2>2. Tail6(uc) \in Int /\ Tail6(uc \div 64) \in Int /\ Tail6(uc \div 4096) \in Int
    BY <1>1, <1>2
  <2> QED
    BY ONLY <1>2, <2>1, <2>2, uc \in Nat
<1> HIDE DEF one, two, three, four
<1>5. CASE uc < 128
  <2>1. UTF8(uc) = one
    BY ONLY <1>3, <1>5
  <2>2. UTF8(uc) \in Seq(Int) /\ Len(UTF8(uc)) = 1
    BY ONLY <1>4, <2>1
  <2> QED
    BY ONLY <2>2
<1>6. CASE ~(uc < 128) /\ uc < 2048
  <2>1. UTF8(uc) = two
    BY ONLY <1>3, <1>6
  <2>2. UTF8(uc) \in Seq(Int) /\ Len(UTF8(uc)) = 2
    BY ONLY <1>4, <2>1
  <2> QED
    BY ONLY <2>2
<1>7. CASE ~(uc < 128) /\ ~(uc < 2048) /\ uc < 65536
  <2>1. UTF8(uc) = three
    BY ONLY <1>3, <1>7
  <2>2. UTF8(uc) \in Seq(Int) /\ Len(UTF8(uc)) = 3
    BY ONLY <1>4, <2>1
  <2> QED
    BY ONLY <2>2
<1>8. CASE ~(uc < 128) /\ ~(uc < 2048) /\ ~(uc < 65536)
  <2>1. UTF8(uc) = four
    BY ONLY <1>3, <1>8
  <2> QED
    BY <1>4, <1>8, <2>1
<1> QED
  BY <1>5, <1>6, <1>7, <1>8

\* The places of s from k on that are counted.
Counted(s, i, k) == {j \in k .. StringEnd(s, i) - 1 : ~EscapedIn(s, i)[j]}

\* What is counted before a place adds to what is counted from there on.
LEMMA CountedIs ==
  ASSUME NEW S, NEW s \in Seq(S), NEW i \in 1 .. Len(s), ~LoneBackslash(s, i),
         NEW k \in Nat, NEW l \in Nat, k <= l, NEW X \in SUBSET Nat,
         X \subseteq Counted(s, i, k), \A x \in X : x < l, IsFiniteSet(X)
  PROVE  /\ Cardinality(Counted(s, i, l)) \in Nat /\ Cardinality(Counted(s, i, k)) \in Nat
         /\ Cardinality(X) \in Nat
         /\ Cardinality(X) + Cardinality(Counted(s, i, l)) <= Cardinality(Counted(s, i, k))
<1>1. StringEnd(s, i) \in Nat
  BY EndIs
<1>2. IsFiniteSet(Counted(s, i, k)) /\ IsFiniteSet(Counted(s, i, l))
  <2>1. \A n \in Nat : IsFiniteSet(n .. StringEnd(s, i) - 1)
    BY <1>1, FS_Interval
  <2>2. \A n \in Nat : Counted(s, i, n) \subseteq n .. StringEnd(s, i) - 1
    BY DEF Counted
  <2> QED BY ONLY <2>1, <2>2, FS_Subset, k \in Nat, l \in Nat
<1>3. Counted(s, i, l) \subseteq Counted(s, i, k) /\ X \cap Counted(s, i, l) = {}
  BY <1>1 DEF Counted
<1>4. /\ Cardinality(X \cup Counted(s, i, l)) = Cardinality(X) + Cardinality(Counted(s, i, l))
                                                 - Cardinality(X \cap Counted(s, i, l))
      /\ IsFiniteSet(X \cup Counted(s, i, l))
  BY ONLY <1>2, IsFiniteSet(X), FS_Union
<1>5. Cardinality(X \cap Counted(s, i, l)) = 0
  BY <1>3, FS_EmptySet
<1>6. X \cup Counted(s, i, l) \subseteq Counted(s, i, k)
  BY <1>3
<1>7. Cardinality(X \cup Counted(s, i, l)) <= Cardinality(Counted(s, i, k))
  BY ONLY <1>2, <1>6, FS_Subset
<1>8. /\ Cardinality(Counted(s, i, l)) \in Nat /\ Cardinality(Counted(s, i, k)) \in Nat
      /\ Cardinality(X) \in Nat
  BY ONLY <1>2, IsFiniteSet(X), FS_CardinalityType
<1> QED
  BY <1>4, <1>5, <1>7, <1>8

\* How many some places are.
LEMMA FewPlaces ==
  ASSUME NEW a \in Nat, NEW b \in Nat, NEW c \in Nat, NEW d \in Nat, a < b, b < c, c < d
  PROVE  /\ IsFiniteSet({a}) /\ Cardinality({a}) = 1
         /\ IsFiniteSet({a, b, c}) /\ Cardinality({a, b, c}) = 3
         /\ IsFiniteSet({a, b, c, d}) /\ Cardinality({a, b, c, d}) = 4
<1>1. IsFiniteSet({a}) /\ Cardinality({a}) = 1
  BY FS_Singleton
<1>2. IsFiniteSet({a} \cup {b}) /\ Cardinality({a} \cup {b}) = 2
  <2>1. b \notin {a}
    OBVIOUS
  <2> QED
    BY <1>1, <2>1, FS_AddElement
<1>3. IsFiniteSet(({a} \cup {b}) \cup {c}) /\ Cardinality(({a} \cup {b}) \cup {c}) = 3
  <2>1. c \notin {a} \cup {b}
    OBVIOUS
  <2> QED
    BY <1>2, <2>1, FS_AddElement
<1>4. /\ IsFiniteSet((({a} \cup {b}) \cup {c}) \cup {d})
      /\ Cardinality((({a} \cup {b}) \cup {c}) \cup {d}) = 4
  <2>1. d \notin ({a} \cup {b}) \cup {c}
    OBVIOUS
  <2> QED
    BY <1>3, <2>1, FS_AddElement
<1>5. /\ {a, b, c} = ({a} \cup {b}) \cup {c}
      /\ {a, b, c, d} = (({a} \cup {b}) \cup {c}) \cup {d}
  OBVIOUS
<1> QED
  BY <1>1, <1>3, <1>4, <1>5

\* What a string may decode to.
Octets(s) == Int \cup {s[j] : j \in 1 .. Len(s) + 1}

\* A character or escape becomes bytes.
LEMMA UnitType ==
  ASSUME NEW s, Len(s) \in Nat, NEW end \in Int, end <= Len(s) + 1, NEW k \in Nat, 0 < k, k < end
  PROVE  /\ Unit(s, k, end).width \in {0, 1, 2, 6, 12}
         /\ Unit(s, k, end).bytes \in Seq(Octets(s))
<1>1. \A c \in Octets(s) : Unescaped(c) \in Octets(s)
  BY DEF Unescaped, Short, Octets
<1>2. s[k] \in Octets(s) /\ s[k + 1] \in Octets(s)
  BY DEF Octets
<1>3. \A n \in Nat : UTF8(n) \in Seq(Octets(s))
  <2>1. Seq(Int) \subseteq Seq(Octets(s))
    BY DEF Octets
  <2> QED
    BY <2>1, UTF8Is
<1>4. \A l \in Int : parse_hex4(s, l) \in Nat
  BY HexIs
<1>5. /\ Unicode(s, k, end).width \in {0, 6, 12}
      /\ Unicode(s, k, end).bytes \in Seq(Octets(s))
  <2> DEFINE uc == parse_hex4(s, k + 2)
             uc2 == parse_hex4(s, k + 8)
             n == 65536 + 1024 * (uc % 1024) + (uc2 % 1024)
  <2>1. uc \in Nat /\ uc2 \in Nat
    <3>1. k + 2 \in Int /\ k + 8 \in Int
      OBVIOUS
    <3> QED
      BY ONLY <1>4, <3>1
  <2>2. n \in Nat
    BY ONLY <2>1
  <2>3. \/ Unicode(s, k, end) = Invalid
        \/ Unicode(s, k, end) = [width |-> 6, bytes |-> UTF8(uc)]
        \/ Unicode(s, k, end) = [width |-> 12, bytes |-> UTF8(n)]
    BY DEF Unicode
  <2> HIDE DEF uc, n
  <2>4. UTF8(uc) \in Seq(Octets(s)) /\ UTF8(n) \in Seq(Octets(s)) /\ <<>> \in Seq(Octets(s))
    BY ONLY <2>1, <2>2, <1>3
  <2>5. Invalid.width = 0 /\ Invalid.bytes = <<>>
    BY DEF Invalid
  <2>6. CASE Unicode(s, k, end) = Invalid
    BY ONLY <2>4, <2>5, <2>6
  <2>7. CASE Unicode(s, k, end) = [width |-> 6, bytes |-> UTF8(uc)]
    <3>1. Unicode(s, k, end).width = 6 /\ Unicode(s, k, end).bytes = UTF8(uc)
      BY ONLY <2>7
    <3> QED
      BY ONLY <3>1, <2>4
  <2>8. CASE Unicode(s, k, end) = [width |-> 12, bytes |-> UTF8(n)]
    <3>1. Unicode(s, k, end).width = 12 /\ Unicode(s, k, end).bytes = UTF8(n)
      BY ONLY <2>8
    <3> QED
      BY ONLY <3>1, <2>4
  <2> QED
    BY ONLY <2>3, <2>6, <2>7, <2>8
<1>6. \/ Unit(s, k, end) = [width |-> 1, bytes |-> <<s[k]>>]
      \/ Unit(s, k, end) = Unicode(s, k, end)
      \/ Unit(s, k, end) = [width |-> 2, bytes |-> <<Unescaped(s[k + 1])>>]
  BY Zenon DEF Unit
<1>7. <<s[k]>> \in Seq(Octets(s)) /\ <<Unescaped(s[k + 1])>> \in Seq(Octets(s))
  BY ONLY <1>1, <1>2
<1>8. CASE Unit(s, k, end) = [width |-> 1, bytes |-> <<s[k]>>]
  <2>1. Unit(s, k, end).width = 1 /\ Unit(s, k, end).bytes = <<s[k]>>
    BY ONLY <1>8
  <2> QED
    BY ONLY <2>1, <1>7
<1>9. CASE Unit(s, k, end) = [width |-> 2, bytes |-> <<Unescaped(s[k + 1])>>]
  <2>1. Unit(s, k, end).width = 2 /\ Unit(s, k, end).bytes = <<Unescaped(s[k + 1])>>
    BY ONLY <1>9
  <2> QED
    BY ONLY <2>1, <1>7
<1> QED
  BY ONLY <1>5, <1>6, <1>8, <1>9

\* A character or escape ends within the string, at a place that is not escaped, and
\* becomes at most as many bytes as were counted for its places.
LEMMA UnitIs ==
  ASSUME NEW S, NEW s \in Seq(S), NEW i \in 1 .. Len(s), ~LoneBackslash(s, i),
         NEW k \in Nat, i < k, k < StringEnd(s, i), ~EscapedIn(s, i)[k],
         Unit(s, k, StringEnd(s, i)).width # 0
  PROVE  LET u == Unit(s, k, StringEnd(s, i))
         IN  /\ k + u.width <= StringEnd(s, i)
             /\ ~EscapedIn(s, i)[k + u.width]
             /\ \E X \in SUBSET Nat :
                  /\ X \subseteq Counted(s, i, k) /\ \A x \in X : x < k + u.width
                  /\ IsFiniteSet(X) /\ Cardinality(X) \in Nat /\ Len(u.bytes) <= Cardinality(X)
<1> DEFINE end == StringEnd(s, i)
           e == EscapedIn(s, i)
           u == Unit(s, k, end)
<1>1. end \in i + 1 .. Len(s) + 1 /\ At(s, end) \in {0, QUOTE} /\ ~e[end] /\ Len(s) \in Nat
  BY EndIs
<1>2. \A j \in i + 1 .. Len(s) : e[j + 1] <=> s[j] = BACKSLASH /\ ~e[j]
  BY EscapedDef, <1>1
<1>3. \A j \in k .. end - 1 : ~e[j] => j \in Counted(s, i, k)
  BY DEF Counted
<1>4. k \in i + 1 .. Len(s) /\ k \in Counted(s, i, k)
  BY <1>1, <1>3
<1>5. IsFiniteSet({k}) /\ Cardinality({k}) = 1
  BY FS_Singleton
<1> HIDE DEF end, e
<1>6. CASE s[k] # BACKSLASH
  <2>1. u = [width |-> 1, bytes |-> <<s[k]>>]
    BY <1>6 DEF Unit
  <2>2. ~e[k + 1]
    BY <1>2, <1>4, <1>6
  <2>3. k + u.width <= end /\ ~e[k + u.width] /\ Len(u.bytes) = 1 /\ u.width = 1
    BY <2>1, <2>2, <1>1, <1>4 DEF end
  <2>4. {k} \in SUBSET Nat /\ {k} \subseteq Counted(s, i, k) /\ \A x \in {k} : x < k + u.width
    BY <2>3, <1>4
  <2> HIDE DEF u
  <2>5. Len(u.bytes) <= Cardinality({k}) /\ Cardinality({k}) \in Nat
    BY ONLY <2>3, <1>5
  <2> QED
    BY <2>3, <2>4, <2>5, <1>5 DEF end, e, u
<1>7. CASE s[k] = BACKSLASH /\ s[k + 1] # LetterU
  <2>1. u = [width |-> 2, bytes |-> <<Unescaped(s[k + 1])>>]
    BY <1>7 DEF Unit
  <2>2. e[k + 1]
    BY <1>2, <1>4, <1>7 DEF e
  <2>3. k + 1 # end /\ k + 1 <= end
    BY <2>2, <1>1 DEF end
  <2>4. k + 2 <= end /\ k + 1 \in i + 1 .. Len(s)
    BY <2>3, <1>1, <1>4
  <2>5. ~e[k + 2]
    BY <1>2, <2>4, <2>2
  <2>6. k + u.width <= end /\ ~e[k + u.width] /\ Len(u.bytes) = 1 /\ u.width = 2
    BY <2>1, <2>5, <2>4
  <2>7. {k} \in SUBSET Nat /\ {k} \subseteq Counted(s, i, k) /\ \A x \in {k} : x < k + u.width
    BY <2>6, <1>4
  <2> HIDE DEF u
  <2>8. Len(u.bytes) <= Cardinality({k}) /\ Cardinality({k}) \in Nat
    BY ONLY <2>6, <1>5
  <2> QED
    BY <2>6, <2>7, <2>8, <1>5 DEF end, e, u
<1>8. CASE s[k] = BACKSLASH /\ s[k + 1] = LetterU
  <2> DEFINE uc == parse_hex4(s, k + 2)
             uc2 == parse_hex4(s, k + 8)
             n == 65536 + 1024 * (uc % 1024) + (uc2 % 1024)
  <2>1. u = Unicode(s, k, end)
    BY <1>8 DEF Unit
  <2>2. Invalid.width = 0
    BY DEF Invalid
  <2>3. u # Invalid
    BY <2>2 DEF end
  <2>4. ~(k + 5 >= end) /\ uc # 0
    BY <2>1, <2>3 DEF Unicode
  <2>5. \A m \in 0 .. 3 : At(s, k + 2 + m) \notin {0, QUOTE, BACKSLASH}
    BY <2>4, HexIs
  <2>6. k + 5 < end /\ k + 5 <= Len(s) /\ \A m \in 0 .. 5 : k + m \in i + 1 .. Len(s) /\ k + m \in DOMAIN s
    BY <2>4, <1>1, <1>4
  <2>7. s[k + 2] # BACKSLASH /\ s[k + 3] # BACKSLASH /\ s[k + 4] # BACKSLASH /\ s[k + 5] # BACKSLASH
    <3>1. \A m \in 0 .. 3 : s[k + 2 + m] # BACKSLASH
      BY <2>5, <2>6 DEF At
    <3> QED
      BY <3>1
  <2>8. e[k + 1]
    BY <1>2, <1>4, <1>8 DEF e
  <2>9. ~e[k + 2] /\ ~e[k + 3] /\ ~e[k + 4] /\ ~e[k + 5] /\ ~e[k + 6]
    <3>1. \A m \in 0 .. 5 : e[(k + m) + 1] <=> s[k + m] = BACKSLASH /\ ~e[k + m]
      BY ONLY <1>2, <2>6
    <3>2. ~e[(k + 1) + 1] /\ ~e[(k + 2) + 1] /\ ~e[(k + 3) + 1] /\ ~e[(k + 4) + 1] /\ ~e[(k + 5) + 1]
      BY ONLY <3>1, <2>8, <2>7
    <3> QED
      BY ONLY <3>2, k \in Nat
  <2>10. /\ k + 2 \in Counted(s, i, k) /\ k + 3 \in Counted(s, i, k) /\ k + 4 \in Counted(s, i, k)
    BY <1>3, <2>6, <2>9, <1>1
  <2>11. /\ IsFiniteSet({k, k + 2, k + 3}) /\ Cardinality({k, k + 2, k + 3}) = 3
         /\ IsFiniteSet({k, k + 2, k + 3, k + 4}) /\ Cardinality({k, k + 2, k + 3, k + 4}) = 4
    <3>1. k + 2 \in Nat /\ k + 3 \in Nat /\ k + 4 \in Nat /\ k < k + 2 /\ k + 2 < k + 3 /\ k + 3 < k + 4
      OBVIOUS
    <3> QED
      BY ONLY <3>1, k \in Nat, FewPlaces, ZenonT(60)
  <2>12. \/ uc < 65536 /\ uc \in Nat /\ u = [width |-> 6, bytes |-> UTF8(uc)]
         \/ /\ k + 11 <= end /\ uc2 \in LowSurrogate
            /\ u = [width |-> 12, bytes |-> UTF8(n)]
    <3>1. \/ u = [width |-> 6, bytes |-> UTF8(uc)]
          \/ /\ k + 11 <= end /\ uc2 \in LowSurrogate
             /\ u = [width |-> 12, bytes |-> UTF8(n)]
      BY <2>1, <2>3 DEF Unicode
    <3>2. uc \in Nat /\ uc < 65536
      BY HexIs
    <3> HIDE DEF uc, uc2, n, u
    <3> QED
      BY <3>1, <3>2
  <2>13. CASE uc < 65536 /\ uc \in Nat /\ u = [width |-> 6, bytes |-> UTF8(uc)]
    <3>1. u.width = 6 /\ u.bytes = UTF8(uc)
      BY <2>13
    <3>2. Len(UTF8(uc)) \in 0 .. 3
      BY ONLY <2>13, UTF8Is
    <3> HIDE DEF u, uc
    <3>3. k + u.width <= end /\ ~e[k + u.width] /\ Len(u.bytes) \in 0 .. 3
      BY <3>1, <3>2, <2>9, <2>6, <1>1
    <3>4. /\ {k, k + 2, k + 3} \in SUBSET Nat /\ {k, k + 2, k + 3} \subseteq Counted(s, i, k)
          /\ \A x \in {k, k + 2, k + 3} : x < k + u.width
      BY <3>1, <2>10, <1>4
    <3>5. /\ IsFiniteSet({k, k + 2, k + 3}) /\ Cardinality({k, k + 2, k + 3}) \in Nat
          /\ Len(u.bytes) <= Cardinality({k, k + 2, k + 3})
      <4>1. \A l \in 0 .. 3, c \in Nat : c = 3 => l <= c
        OBVIOUS
      <4>2. Len(u.bytes) \in 0 .. 3
        BY ONLY <3>3
      <4>3. Cardinality({k, k + 2, k + 3}) \in Nat
        BY ONLY <2>11
      <4> QED
        BY ONLY <4>1, <4>2, <4>3, <2>11
    <3> QED
      BY <3>3, <3>4, <3>5 DEF end, e, u
  <2>14. CASE k + 11 <= end /\ uc2 \in LowSurrogate /\ u = [width |-> 12, bytes |-> UTF8(n)]
    <3>1. u.width = 12 /\ u.bytes = UTF8(n)
      BY <2>14
    <3>2. uc \in Nat /\ uc2 \in Nat
      BY HexIs
    <3>3. n \in Nat
      BY ONLY <3>2
    <3>4. Len(UTF8(n)) \in 0 .. 4
      BY ONLY <3>3, UTF8Is
    <3>5. uc2 # 0
      <4>3. 0 \notin LowSurrogate
        BY DEF LowSurrogate
      <4> QED
        BY <4>3, <2>14
    <3>6. At(s, k + 8 + 3) \notin {0, QUOTE, BACKSLASH}
      BY <3>5, HexIs
    <3>7. k + 11 # end
      BY <3>6, <1>1
    <3>8. k + 12 <= end /\ k + 11 \in i + 1 .. Len(s)
      BY <3>7, <2>14, <1>1, <1>4
    <3>9. s[k + 11] # BACKSLASH
      BY <3>6, <3>8 DEF At
    <3>10. ~e[k + 12]
      <4>1. e[(k + 11) + 1] <=> s[k + 11] = BACKSLASH /\ ~e[k + 11]
        BY ONLY <1>2, <3>8
      <4> QED
        BY <4>1, <3>9
    <3> HIDE DEF u, uc, uc2, n
    <3>11. k + u.width <= end /\ ~e[k + u.width] /\ Len(u.bytes) \in 0 .. 4
      BY <3>1, <3>4, <3>8, <3>10, <1>1
    <3>12. /\ {k, k + 2, k + 3, k + 4} \in SUBSET Nat
           /\ {k, k + 2, k + 3, k + 4} \subseteq Counted(s, i, k)
           /\ \A x \in {k, k + 2, k + 3, k + 4} : x < k + u.width
      BY <3>1, <2>10, <1>4
    <3>13. /\ IsFiniteSet({k, k + 2, k + 3, k + 4}) /\ Cardinality({k, k + 2, k + 3, k + 4}) \in Nat
           /\ Len(u.bytes) <= Cardinality({k, k + 2, k + 3, k + 4})
      <4>1. \A l \in 0 .. 4, c \in Nat : c = 4 => l <= c
        OBVIOUS
      <4>2. Len(u.bytes) \in 0 .. 4
        BY ONLY <3>11
      <4>3. Cardinality({k, k + 2, k + 3, k + 4}) \in Nat
        BY ONLY <2>11
      <4> QED
        BY ONLY <4>1, <4>2, <4>3, <2>11
    <3> QED
      BY ONLY <3>11, <3>12, <3>13 DEF end, e, u
  <2> QED
    BY <2>12, <2>13, <2>14
<1> QED
  BY <1>6, <1>7, <1>8

Reading(s) == [ok : BOOLEAN, bytes : Seq(Octets(s))]

\* What Decoded reads from place k on, when f is what it reads from the later ones.
ReadFrom(s, end, f, k) ==
  IF k >= end THEN [ok |-> TRUE, bytes |-> <<>>]
  ELSE IF Unit(s, k, end).width = 0 THEN [ok |-> FALSE, bytes |-> <<>>]
  ELSE [ok |-> f[k + Unit(s, k, end).width].ok,
        bytes |-> Unit(s, k, end).bytes \o f[k + Unit(s, k, end).width].bytes]

\* The value of Decoded.
LEMMA DecodedDef ==
  ASSUME NEW S, NEW s \in Seq(S), NEW i \in 1 .. Len(s), ~LoneBackslash(s, i)
  PROVE  \E f \in [i + 1 .. StringEnd(s, i) + 11 -> Reading(s)] :
           /\ Decoded(s, i) = f[i + 1]
           /\ \A k \in i + 1 .. StringEnd(s, i) + 11 : f[k] = ReadFrom(s, StringEnd(s, i), f, k)
<1> DEFINE end == StringEnd(s, i)
           D == i + 1 .. end + 11
           V == Reading(s)
           w(k) == Unit(s, k, end).width
           B == {k \in D : k >= end \/ w(k) = 0}
           back == [k \in D |-> IF k \in B THEN k ELSE k + w(k)]
           m == [k \in D |-> (end + 11) - k]
           b == [k \in D |-> IF k >= end THEN [ok |-> TRUE, bytes |-> <<>>] ELSE [ok |-> FALSE, bytes |-> <<>>]]
           F == [x \in D \X V |-> IF x[1] \in B THEN x[2]
                                  ELSE [ok |-> x[2].ok, bytes |-> Unit(s, x[1], end).bytes \o x[2].bytes]]
<1>1. end \in i + 1 .. Len(s) + 1 /\ Len(s) \in Nat
  BY EndIs
<1>2. \A k \in D : k < end => w(k) \in {0, 1, 2, 6, 12} /\ Unit(s, k, end).bytes \in Seq(Octets(s))
  <2> SUFFICES ASSUME NEW k \in D, k < end
               PROVE  w(k) \in {0, 1, 2, 6, 12} /\ Unit(s, k, end).bytes \in Seq(Octets(s))
    OBVIOUS
  <2>1. k \in Nat /\ 0 < k /\ end \in Int /\ end <= Len(s) + 1
    BY <1>1
  <2> HIDE DEF end
  <2> QED
    BY <2>1, <1>1, UnitType
<1> HIDE DEF end, w
<1>3. back \in [D -> D] /\ m \in [D -> 0 .. end + 11] /\ B \in SUBSET D /\ end + 11 \in Nat
  <2>1. \A k \in D \ B : k + w(k) \in D
    BY <1>1, <1>2
  <2> QED
    BY <2>1, <1>1
<1>4. \A k \in D \ B : m[back[k]] < m[k]
  <2> SUFFICES ASSUME NEW k \in D \ B PROVE m[back[k]] < m[k]
    OBVIOUS
  <2>1. k \in Nat /\ end + 11 \in Int /\ w(k) \in {1, 2, 6, 12} /\ k + w(k) \in D
    BY <1>1, <1>2
  <2>2. /\ back[k] = k + w(k)
        /\ \A x \in D : m[x] = (end + 11) - x
    OBVIOUS
  <2> DEFINE e == end + 11
             y == w(k)
  <2>3. m[back[k]] = e - (k + y) /\ m[k] = e - k
    <3> HIDE DEF D, V, B, back, m, b, F
    <3>1. m[k] = (end + 11) - k
      BY ONLY <2>2, k \in D \ B
    <3>2. m[k + w(k)] = (end + 11) - (k + w(k))
      BY ONLY <2>1, <2>2
    <3>3. back[k] = k + w(k)
      BY ONLY <2>2
    <3> QED
      BY ONLY <3>1, <3>2, <3>3
  <2>4. k \in Nat /\ e \in Int /\ y \in {1, 2, 6, 12}
    BY <2>1
  <2> HIDE DEF D, V, B, back, m, b, F, e, y
  <2> QED
    BY ONLY <2>3, <2>4
<1>5. F \in [D \X V -> V]
  <2> SUFFICES ASSUME NEW k \in D, NEW v \in V
               PROVE  IF k \in B THEN v \in V
                      ELSE [ok |-> v.ok, bytes |-> Unit(s, k, end).bytes \o v.bytes] \in V
    OBVIOUS
  <2>1. v.ok \in BOOLEAN /\ v.bytes \in Seq(Octets(s))
    BY DEF Reading
  <2>2. k \notin B => Unit(s, k, end).bytes \in Seq(Octets(s))
    BY <1>2, <1>1
  <2>3. k \notin B => Unit(s, k, end).bytes \o v.bytes \in Seq(Octets(s))
    BY ONLY <2>1, <2>2
  <2> QED
    BY <2>1, <2>3 DEF Reading
<1>6. b \in [D -> V]
  <2>1. <<>> \in Seq(Octets(s))
    OBVIOUS
  <2> QED
    BY <2>1 DEF Reading
<1>d. Descends(D, V, m, back, B, b, F)
  <2> HIDE DEF D, V, B, back, m, b, F
  <2> QED
    BY <1>3, <1>4, <1>5, <1>6 DEF Descends
<1>7. PICK f \in [D -> V] : \A k \in D : f[k] = IF k \in B THEN b[k] ELSE F[<<k, f[back[k]]>>]
  <2> HIDE DEF D, V, B, back, m, b, F
  <2> QED
    BY <1>d, Recursion
<1>8. ASSUME NEW k \in D PROVE f[k] = ReadFrom(s, end, f, k)
  <2>1. CASE k >= end
    <3>1. k \in B /\ b[k] = [ok |-> TRUE, bytes |-> <<>>]
      BY <2>1
    <3>2. f[k] = b[k]
      BY <3>1, <1>7
    <3> QED
      BY <3>1, <3>2, <2>1 DEF ReadFrom
  <2>2. CASE ~(k >= end) /\ w(k) = 0
    <3>1. k \in B /\ b[k] = [ok |-> FALSE, bytes |-> <<>>]
      BY <2>2
    <3>2. f[k] = b[k]
      BY <3>1, <1>7
    <3> QED
      BY <3>1, <3>2, <2>2 DEF ReadFrom, w
  <2>3. CASE ~(k >= end) /\ w(k) # 0
    <3>1. k \notin B /\ back[k] = k + w(k) /\ back[k] \in D
      BY <2>3, <1>3
    <3>2. f[k] = F[<<k, f[back[k]]>>]
      BY ONLY <3>1, <1>7, k \in D
    <3>3. f[back[k]] \in V
      BY ONLY <3>1, <1>7
    <3>4. f[k] = [ok |-> f[back[k]].ok, bytes |-> Unit(s, k, end).bytes \o f[back[k]].bytes]
      BY <3>1, <3>2, <3>3
    <3> QED
      BY <3>1, <3>4, <2>3 DEF ReadFrom, w
  <2> QED
    BY <2>1, <2>2, <2>3
<1>9. \E g : g = [k \in D |-> ReadFrom(s, end, g, k)]
  <2>1. f = [k \in D |-> ReadFrom(s, end, f, k)]
    BY <1>8
  <2> QED
    BY <2>1
<1>10. PICK g : g = [k \in D |-> ReadFrom(s, end, g, k)] /\ Decoded(s, i) = g[i + 1]
  <2>1. Decoded(s, i) = (CHOOSE g : g = [k \in D |-> ReadFrom(s, end, g, k)])[i + 1]
    BY DEF Decoded, ReadFrom, D, end, V
  <2> HIDE DEF D
  <2> QED
    BY <1>9, <2>1
<1>11. \A k \in D : g[k] = ReadFrom(s, end, g, k)
  BY <1>10
<1>12. ASSUME NEW k \in D
       PROVE  /\ k \in B => g[k] = b[k]
              /\ k \notin B /\ g[back[k]] \in V => g[k] = F[<<k, g[back[k]]>>]
  <2>1. CASE k >= end
    <3>1. k \in B /\ b[k] = [ok |-> TRUE, bytes |-> <<>>]
      BY <2>1
    <3>2. g[k] = [ok |-> TRUE, bytes |-> <<>>]
      BY <2>1, <1>11 DEF ReadFrom
    <3> QED
      BY ONLY <3>1, <3>2
  <2>2. CASE ~(k >= end) /\ w(k) = 0
    <3>1. k \in B /\ b[k] = [ok |-> FALSE, bytes |-> <<>>]
      BY <2>2
    <3>2. g[k] = [ok |-> FALSE, bytes |-> <<>>]
      BY <2>2, <1>11 DEF ReadFrom, w
    <3> QED
      BY ONLY <3>1, <3>2
  <2>3. CASE ~(k >= end) /\ w(k) # 0
    <3>1. k \notin B /\ back[k] = k + w(k)
      BY <2>3
    <3>2. g[k] = [ok |-> g[back[k]].ok, bytes |-> Unit(s, k, end).bytes \o g[back[k]].bytes]
      BY <2>3, <3>1, <1>11 DEF ReadFrom, w
    <3>3. g[back[k]] \in V =>
            F[<<k, g[back[k]]>>] = [ok |-> g[back[k]].ok, bytes |-> Unit(s, k, end).bytes \o g[back[k]].bytes]
      BY <3>1
    <3> QED
      BY ONLY <3>1, <3>2, <3>3
  <2> QED
    BY <2>1, <2>2, <2>3
<1>13. g \in [D -> V]
  <2>1. g = [k \in D |-> g[k]]
    BY <1>10
  <2> HIDE DEF D, V, B, back, m, b, F
  <2> QED
    BY ONLY <1>d, <1>12, <2>1, RecursionType
<1> QED
  BY <1>10, <1>11, <1>13 DEF end

\* How many places are counted from k on.
LEMMA CountIs ==
  ASSUME NEW S, NEW s \in Seq(S), NEW i \in 1 .. Len(s), ~LoneBackslash(s, i), NEW k \in Nat
  PROVE  Cardinality(Counted(s, i, k)) \in Nat
<1>1. k <= k /\ {} \in SUBSET Nat /\ {} \subseteq Counted(s, i, k) /\ IsFiniteSet({})
  BY FS_EmptySet
<1>2. \A x \in {} : x < k
  OBVIOUS
<1> QED
  BY <1>1, <1>2, CountedIs

\* parse_string asks for enough memory: for every text, and at every place, the bytes
\* a string stands for and the 0 at their end are no more than it has counted.
THEOREM StringFits ==
  ASSUME NEW S, NEW s \in Seq(S), NEW i \in 1 .. Len(s), ~LoneBackslash(s, i)
  PROVE  Len(Decoded(s, i).bytes) + 1 <= StringRoom(s, i)
<1> DEFINE end == StringEnd(s, i)
           e == EscapedIn(s, i)
           D == i + 1 .. end + 11
           Count(k) == Cardinality(Counted(s, i, k))
<1>1. end \in i + 1 .. Len(s) + 1 /\ Len(s) \in Nat
  BY EndIs
<1>2. PICK f \in [D -> Reading(s)] :
             Decoded(s, i) = f[i + 1] /\ \A k \in D : f[k] = ReadFrom(s, end, f, k)
  BY DecodedDef
<1>3. \A k \in D : f[k].bytes \in Seq(Octets(s)) /\ Len(f[k].bytes) \in Nat
  <2>1. \A k \in D : f[k].bytes \in Seq(Octets(s))
    BY <1>2 DEF Reading
  <2> QED
    BY <2>1
<1>4. \A k \in Nat : Count(k) \in Nat
  BY CountIs
<1>5. ~e[i + 1]
  BY EscapedDef, <1>1
<1>6. StringRoom(s, i) = Count(i + 1) + 1
  BY DEF StringRoom, Counted
<1>7. \A k \in i + 1 .. end - 1 : ~e[k] /\ Unit(s, k, end).width # 0 =>
        LET l == k + Unit(s, k, end).width
        IN  /\ l \in i + 1 .. end /\ k < l /\ ~e[l]
            /\ Unit(s, k, end).bytes \in Seq(Octets(s))
            /\ Len(Unit(s, k, end).bytes) \in Nat
            /\ Len(Unit(s, k, end).bytes) + Count(l) <= Count(k)
  <2> SUFFICES ASSUME NEW k \in i + 1 .. end - 1, ~e[k], Unit(s, k, end).width # 0
               PROVE  LET l == k + Unit(s, k, end).width
                      IN  /\ l \in i + 1 .. end /\ k < l /\ ~e[l]
                          /\ Unit(s, k, end).bytes \in Seq(Octets(s))
                          /\ Len(Unit(s, k, end).bytes) \in Nat
                          /\ Len(Unit(s, k, end).bytes) + Count(l) <= Count(k)
    OBVIOUS
  <2> DEFINE u == Unit(s, k, end)
             l == k + u.width
  <2>1. k \in Nat /\ 0 < k /\ i < k /\ k < end /\ end \in Int /\ end <= Len(s) + 1
    BY <1>1
  <2>2. /\ l <= end /\ ~e[l]
        /\ \E X \in SUBSET Nat :
             /\ X \subseteq Counted(s, i, k) /\ \A x \in X : x < l
             /\ IsFiniteSet(X) /\ Cardinality(X) \in Nat /\ Len(u.bytes) <= Cardinality(X)
    BY <2>1, UnitIs
  <2>3. u.width \in {1, 2, 6, 12} /\ u.bytes \in Seq(Octets(s))
    <3> HIDE DEF end
    <3>1. u.width \in {0, 1, 2, 6, 12} /\ u.bytes \in Seq(Octets(s))
      BY <2>1, <1>1, UnitType
    <3>2. u.width # 0
      OBVIOUS
    <3> HIDE DEF u
    <3> QED
      BY ONLY <3>1, <3>2
  <2>4. Len(u.bytes) \in Nat
    BY ONLY <2>3
  <2> DEFINE y == u.width
  <2> HIDE DEF end, e, u
  <2>5. l \in Nat /\ k < l /\ l \in i + 1 .. end /\ k <= l
    <3>1. y \in {1, 2, 6, 12} /\ k + y <= end
      BY <2>2, <2>3
    <3> HIDE DEF y
    <3>2. k + y \in Nat /\ k < k + y /\ k + y \in i + 1 .. end
      BY <2>1, <3>1
    <3> QED
      BY ONLY <3>2, <2>1 DEF y
  <2> HIDE DEF l
  <2>6. PICK X \in SUBSET Nat :
             /\ X \subseteq Counted(s, i, k) /\ \A x \in X : x < l
             /\ IsFiniteSet(X) /\ Cardinality(X) \in Nat /\ Len(u.bytes) <= Cardinality(X)
    BY <2>2
  <2>7. Cardinality(X) + Count(l) <= Count(k)
    BY <2>1, <2>5, <2>6, CountedIs
  <2> HIDE DEF Count
  <2>8. Len(u.bytes) + Count(l) <= Count(k)
    <3>1. \A a, b, c, d \in Nat : a <= b /\ b + c <= d => a + c <= d
      OBVIOUS
    <3>2. Count(l) \in Nat /\ Count(k) \in Nat
      BY <1>4, <2>1, <2>5
    <3> QED
      BY ONLY <3>1, <3>2, <2>4, <2>6, <2>7
  <2> QED
    BY <2>2, <2>3, <2>4, <2>5, <2>8 DEF u, l
<1>8. \A k \in i + 1 .. end : k = end \/ Unit(s, k, end).width = 0 => f[k].bytes = <<>>
  <2> SUFFICES ASSUME NEW k \in i + 1 .. end, k = end \/ Unit(s, k, end).width = 0
               PROVE  f[k].bytes = <<>>
    OBVIOUS
  <2>1. f[k] = ReadFrom(s, end, f, k)
    BY <1>1, <1>2
  <2> HIDE DEF end
  <2>2. k = end => k >= end
    BY <1>1
  <2> QED
    BY <2>1, <2>2 DEF ReadFrom
<1>9. \A k \in i + 1 .. end - 1 : Unit(s, k, end).width # 0 =>
        f[k].bytes = Unit(s, k, end).bytes \o f[k + Unit(s, k, end).width].bytes
  <2> SUFFICES ASSUME NEW k \in i + 1 .. end - 1, Unit(s, k, end).width # 0
               PROVE  f[k].bytes = Unit(s, k, end).bytes \o f[k + Unit(s, k, end).width].bytes
    OBVIOUS
  <2>1. f[k] = ReadFrom(s, end, f, k)
    BY <1>1, <1>2
  <2> HIDE DEF end
  <2>2. ~(k >= end)
    BY <1>1
  <2>3. f[k] = [ok |-> f[k + Unit(s, k, end).width].ok,
                bytes |-> Unit(s, k, end).bytes \o f[k + Unit(s, k, end).width].bytes]
    BY <2>1, <2>2 DEF ReadFrom
  <2> DEFINE o == f[k + Unit(s, k, end).width].ok
             z == Unit(s, k, end).bytes \o f[k + Unit(s, k, end).width].bytes
  <2>4. f[k] = [ok |-> o, bytes |-> z]
    BY <2>3
  <2> HIDE DEF o, z
  <2>5. f[k].bytes = z
    BY ONLY <2>4
  <2> QED
    BY <2>5 DEF z
<1>10. i + 1 \in i + 1 .. end /\ i + 1 \in D /\ i + 1 .. end \subseteq D
  BY <1>1
<1> HIDE DEF Count, end, e
<1>11. \A k \in i + 1 .. end : ~e[k] => Len(f[k].bytes) <= Count(k)
  <2> DEFINE Bad == {k \in i + 1 .. end : ~e[k] /\ ~(Len(f[k].bytes) <= Count(k))}
             T == {end - k : k \in Bad}
  <2> SUFFICES ASSUME Bad # {} PROVE FALSE
    OBVIOUS
  <2>1. T \in SUBSET Nat /\ T # {}
    BY <1>1
  <2>2. PICK n \in T : \A x \in T : n <= x
    <3> HIDE DEF T
    <3> QED
      BY <2>1, Least
  <2>3. PICK k \in Bad : n = end - k
    BY <2>2
  <2>4. \A l \in Bad : end - k <= end - l
    BY <2>2, <2>3
  <2>5. k \in i + 1 .. end /\ k \in Nat /\ ~e[k] /\ ~(Len(f[k].bytes) <= Count(k))
    BY <1>1, <2>3
  <2>6. Count(k) \in Nat
    BY <1>4, <2>5
  <2>7. CASE k = end \/ Unit(s, k, end).width = 0
    <3>1. Len(f[k].bytes) = 0
      BY <1>8, <2>5, <2>7
    <3>2. \A a \in Nat : a = 0 => a <= Count(k)
      BY <2>6
    <3>3. Len(f[k].bytes) \in Nat
      BY <3>1
    <3> QED
      BY ONLY <3>1, <3>2, <3>3, <2>5
  <2>8. CASE k # end /\ Unit(s, k, end).width # 0
    <3> DEFINE u == Unit(s, k, end)
               l == k + u.width
    <3>1. k \in i + 1 .. end - 1
      BY <2>5, <2>8, <1>1
    <3>2. /\ l \in i + 1 .. end /\ k < l /\ ~e[l] /\ u.bytes \in Seq(Octets(s))
          /\ Len(u.bytes) \in Nat /\ Len(u.bytes) + Count(l) <= Count(k)
      BY <3>1, <2>5, <2>8, <1>7
    <3>3. f[k].bytes = u.bytes \o f[l].bytes
      BY <3>1, <2>8, <1>9
    <3> HIDE DEF u, l
    <3>4. f[l].bytes \in Seq(Octets(s)) /\ Len(f[l].bytes) \in Nat
      BY <3>2, <1>3, <1>10
    <3>5. Len(f[k].bytes) = Len(u.bytes) + Len(f[l].bytes)
      BY ONLY <3>2, <3>3, <3>4
    <3>6. l \notin Bad
      BY <2>4, <3>2, <2>5, <1>1
    <3>7. Len(f[l].bytes) <= Count(l)
      BY <3>6, <3>2
    <3>8. \A a, b, c, d \in Nat : a + c <= d /\ b <= c => a + b <= d
      OBVIOUS
    <3>9. Count(l) \in Nat
      <4>1. l \in Nat
        BY <3>2, <1>1
      <4> QED
        BY ONLY <4>1, <1>4
    <3> QED
      BY ONLY <3>2, <3>4, <3>5, <3>7, <3>8, <3>9, <2>5, <2>6, ZenonT(60)
  <2> QED
    BY <2>7, <2>8
<1>12. Len(f[i + 1].bytes) \in Nat /\ Count(i + 1) \in Nat
  <2>1. i + 1 \in Nat
    OBVIOUS
  <2> QED
    BY ONLY <2>1, <1>3, <1>4, <1>10
<1>13. Len(f[i + 1].bytes) <= Count(i + 1)
  BY <1>5, <1>10, <1>11
<1>14. \A a, b \in Nat : a <= b => a + 1 <= b + 1
  OBVIOUS
<1> QED
  BY ONLY <1>2, <1>6, <1>12, <1>13, <1>14

-----------------------------------------------------------------------------
(***************************************************************************)
(* Sequences put together, and sums over sequences.                         *)
(***************************************************************************)

\* Induction over the numbers up to n.
LEMMA Induction ==
  ASSUME NEW n \in Nat, NEW T, 0 \in T, \A k \in 1 .. n : k - 1 \in T => k \in T
  PROVE  \A k \in 0 .. n : k \in T
<1> DEFINE Bad == {k \in 0 .. n : k \notin T}
<1> SUFFICES ASSUME Bad # {} PROVE FALSE
  OBVIOUS
<1>1. Bad \in SUBSET Nat
  OBVIOUS
<1>2. PICK k \in Bad : \A x \in Bad : k <= x
  <2> HIDE DEF Bad
  <2> QED
    BY <1>1, Least
<1>3. k \in 1 .. n /\ k - 1 \in 0 .. n /\ ~(k <= k - 1)
  OBVIOUS
<1> QED
  BY <1>2, <1>3

\* A function on 1 .. n is a sequence.
LEMMA SeqIs ==
  ASSUME NEW S, NEW n \in Nat, NEW ws \in [1 .. n -> S]
  PROVE  ws \in Seq(S) /\ Len(ws) = n
OBVIOUS

\* FlattenSeq adds one sequence after the other.
LEMMA FlattenIs ==
  ASSUME NEW S, NEW n \in Nat, NEW ws \in [1 .. n -> Seq(S)]
  PROVE  \E f \in [0 .. n -> Seq(S)] :
           f[0] = <<>> /\ (\A k \in 1 .. n : f[k] = f[k - 1] \o ws[k]) /\ FlattenSeq(ws) = f[n]
<1>1. Len(ws) = n
  BY SeqIs
<1>2. CASE n = 0
  <2> DEFINE f == [k \in 0 .. n |-> ws]
  <2>1. ws = <<>> /\ FlattenSeq(ws) = ws
    BY <1>1, <1>2 DEF FlattenSeq
  <2>2. f \in [0 .. n -> Seq(S)] /\ f[0] = <<>> /\ f[n] = ws /\ 1 .. n = {}
    BY <2>1, <1>2
  <2> HIDE DEF f
  <2> QED
    BY <2>1, <2>2
<1>3. CASE n # 0
  <2> DEFINE D == 1 .. n
             V == Seq(S)
             m == [k \in D |-> k]
             back == [k \in D |-> IF k = 1 THEN 1 ELSE k - 1]
             B == {1}
             F == [x \in D \X V |-> x[2] \o ws[x[1]]]
             Sol(f) == f = [k \in D |-> IF k = 1 THEN ws[k] ELSE f[k - 1] \o ws[k]]
  <2>1. Descends(D, V, m, back, B, ws, F)
    <3>1. m \in [D -> 0 .. n] /\ back \in [D -> D] /\ B \subseteq D
      BY <1>3
    <3>2. F \in [D \X V -> V]
      OBVIOUS
    <3>3. \A k \in D \ B : m[back[k]] < m[k]
      OBVIOUS
    <3> HIDE DEF m, back, F
    <3> QED
      BY <3>1, <3>2, <3>3 DEF Descends
  <2>2. \E f : Sol(f)
    <3>1. PICK f \in [D -> V] : \A k \in D : f[k] = IF k \in B THEN ws[k] ELSE F[<<k, f[back[k]]>>]
      <4> HIDE DEF D, V, m, back, B, F
      <4> QED
        BY <2>1, Recursion
    <3>2. \A k \in D, v \in V : F[<<k, v>>] = v \o ws[k]
      OBVIOUS
    <3>3. \A k \in D : k # 1 => back[k] = k - 1 /\ k - 1 \in D
      OBVIOUS
    <3>4. \A k \in D : f[k] = IF k = 1 THEN ws[k] ELSE f[k - 1] \o ws[k]
      <4> TAKE k \in D
      <4>1. CASE k = 1
        BY <3>1, <4>1
      <4>2. CASE k # 1
        <5>1. k \notin B /\ back[k] = k - 1 /\ k - 1 \in D
          BY <3>3, <4>2
        <5> HIDE DEF D, V, B, F, back
        <5>2. f[k] = F[<<k, f[k - 1]>>] /\ f[k - 1] \in V
          BY <3>1, <5>1
        <5> QED
          BY <3>2, <4>2, <5>2
      <4> QED
        BY <4>1, <4>2
    <3>5. f = [k \in D |-> IF k = 1 THEN ws[k] ELSE f[k - 1] \o ws[k]]
      <4> HIDE DEF D, V
      <4> QED
        BY ONLY <3>1, <3>4, ZenonT(30)
    <3> QED
      BY <3>5
  <2>3. PICK g : Sol(g) /\ FlattenSeq(ws) = g[n]
    <3>1. FlattenSeq(ws) = (CHOOSE g : Sol(g))[n]
      BY <1>1, <1>3 DEF FlattenSeq
    <3> HIDE DEF Sol
    <3> QED
      BY <2>2, <3>1
  <2>4. g = [k \in D |-> g[k]] /\ \A k \in D : g[k] = IF k = 1 THEN ws[k] ELSE g[k - 1] \o ws[k]
    BY <2>3
  <2>5. \A k \in D : /\ k \in B => g[k] = ws[k]
                     /\ k \notin B /\ g[back[k]] \in V => g[k] = F[<<k, g[back[k]]>>]
    BY <2>4
  <2>6. g \in [D -> V]
    <3> HIDE DEF D, V, m, back, B, F, Sol
    <3> QED
      BY ONLY <2>1, <2>4, <2>5, RecursionType
  <2> DEFINE f == [k \in 0 .. n |-> IF k = 0 THEN <<>> ELSE g[k]]
  <2>7. f \in [0 .. n -> Seq(S)] /\ f[0] = <<>> /\ f[n] = g[n]
    BY <2>6, <1>3
  <2>8. \A k \in 1 .. n : f[k] = f[k - 1] \o ws[k]
    <3> SUFFICES ASSUME NEW k \in 1 .. n PROVE f[k] = f[k - 1] \o ws[k]
      OBVIOUS
    <3>1. f[k] = g[k] /\ (k # 1 => f[k - 1] = g[k - 1])
      OBVIOUS
    <3>2. g[k] = IF k = 1 THEN ws[k] ELSE g[k - 1] \o ws[k]
      BY <2>4
    <3>3. ws[k] \in Seq(S)
      OBVIOUS
    <3>4. <<>> \o ws[k] = ws[k]
      BY ONLY <3>3
    <3> HIDE DEF f
    <3>5. k = 1 => f[k - 1] = <<>>
      BY <2>7
    <3> QED
      BY ONLY <3>1, <3>2, <3>4, <3>5
  <2> HIDE DEF f
  <2> QED
    BY <2>3, <2>7, <2>8
<1> QED
  BY <1>2, <1>3

\* It is not longer than what grows by at least as much.
LEMMA FlattenFits ==
  ASSUME NEW S, NEW n \in Nat, NEW ws \in [1 .. n -> Seq(S)], NEW g \in [0 .. n -> Int],
         \A k \in 1 .. n : g[k - 1] + Len(ws[k]) <= g[k]
  PROVE  FlattenSeq(ws) \in Seq(S) /\ g[0] + Len(FlattenSeq(ws)) <= g[n]
<1>1. PICK f \in [0 .. n -> Seq(S)] :
             f[0] = <<>> /\ (\A k \in 1 .. n : f[k] = f[k - 1] \o ws[k]) /\ FlattenSeq(ws) = f[n]
  BY FlattenIs
<1> DEFINE P(k) == g[0] + Len(f[k]) <= g[k]
<1>2. \A k \in 0 .. n : Len(f[k]) \in Nat /\ g[k] \in Int
  BY <1>1
<1>3. P(0)
  BY <1>1, <1>2
<1>4. ASSUME NEW k \in 1 .. n, P(k - 1) PROVE P(k)
  <2>1. k - 1 \in 0 .. n /\ k \in 0 .. n /\ 0 \in 0 .. n
    OBVIOUS
  <2>2. Len(f[k]) = Len(f[k - 1]) + Len(ws[k]) /\ Len(ws[k]) \in Nat
    <3>1. f[k - 1] \in Seq(S) /\ ws[k] \in Seq(S) /\ f[k] = f[k - 1] \o ws[k]
      BY <1>1, <2>1
    <3> QED
      BY ONLY <3>1
  <2>3. \A a, b, c, d, e \in Int : a + b <= c /\ c + d <= e => a + (b + d) <= e
    OBVIOUS
  <2>4. /\ g[0] \in Int /\ g[k] \in Int /\ g[k - 1] \in Int
        /\ Len(f[k - 1]) \in Int /\ Len(ws[k]) \in Int
    BY <1>2, <2>1, <2>2
  <2>5. g[k - 1] + Len(ws[k]) <= g[k] /\ g[0] + Len(f[k - 1]) <= g[k - 1]
    BY <1>4
  <2>6. g[0] + (Len(f[k - 1]) + Len(ws[k])) <= g[k]
    BY ONLY <2>3, <2>4, <2>5
  <2> QED
    BY ONLY <2>2, <2>6
<1> HIDE DEF P
<1>5. \A k \in 0 .. n : P(k)
  <2> DEFINE T == {k \in 0 .. n : P(k)}
  <2>1. 0 \in T
    BY <1>3
  <2>2. \A k \in 1 .. n : k - 1 \in T => k \in T
    BY <1>4
  <2> HIDE DEF T
  <2>3. \A k \in 0 .. n : k \in T
    BY ONLY <2>1, <2>2, n \in Nat, Induction
  <2> QED
    BY <2>3 DEF T
<1> QED
  BY <1>1, <1>5 DEF P

\* Max is the greatest element.
LEMMA MaxIs ==
  ASSUME NEW n \in Nat, NEW T \in SUBSET (1 .. n), T # {}
  PROVE  Max(T) \in T /\ \A x \in T : x <= Max(T)
<1> DEFINE U == {n - x : x \in T}
<1>1. U \in SUBSET Nat /\ U # {}
  <2>1. PICK x \in T : TRUE
    OBVIOUS
  <2>2. n - x \in U
    OBVIOUS
  <2>3. \A y \in T : n - y \in Nat
    OBVIOUS
  <2> QED
    BY <2>2, <2>3
<1>2. PICK u \in U : \A v \in U : u <= v
  <2> HIDE DEF U
  <2> QED
    BY <1>1, Least
<1>3. PICK y \in T : u = n - y
  BY <1>2
<1>4. \A x \in T : y >= x
  <2> SUFFICES ASSUME NEW x \in T PROVE y >= x
    OBVIOUS
  <2>1. n - y <= n - x
    BY <1>2, <1>3
  <2> QED
    BY <2>1
<1>5. Max(T) \in T /\ \A x \in T : Max(T) >= x
  BY <1>4 DEF Max
<1> QED
  BY <1>5

\* The sum of len[k] and base, as the folds of sequences take it.
Folds(n, base, len, it) ==
  it = [x \in SUBSET (1 .. n) |-> IF x = {} THEN base ELSE it[x \ {Max(x)}] + len[Max(x)]]

\* FoldLeft is a recursion over sets of places, the greatest of which comes last.
LEMMA FoldExists ==
  ASSUME NEW n \in Nat, NEW base \in Nat, NEW len \in [1 .. n -> Nat]
  PROVE  \E it : Folds(n, base, len, it)
<1> DEFINE D == SUBSET (1 .. n)
           m == [x \in D |-> Cardinality(x)]
           back == [x \in D |-> x \ {Max(x)}]
           B == {{}}
           b == [x \in D |-> base]
           F == [x \in D \X Nat |-> IF x[1] = {} THEN x[2] ELSE x[2] + len[Max(x[1])]]
<1>1. IsFiniteSet(1 .. n) /\ Cardinality(1 .. n) = n
  <2>1. IsFiniteSet(1 .. n) /\ Cardinality(1 .. n) = IF 1 > n THEN 0 ELSE n - 1 + 1
    BY FS_Interval
  <2> QED
    BY <2>1
<1>2. \A x \in D : IsFiniteSet(x) /\ Cardinality(x) \in 0 .. n
  <2> SUFFICES ASSUME NEW x \in D PROVE IsFiniteSet(x) /\ Cardinality(x) \in 0 .. n
    OBVIOUS
  <2>1. IsFiniteSet(x) /\ Cardinality(x) <= Cardinality(1 .. n)
    BY <1>1, FS_Subset
  <2>2. Cardinality(x) \in Nat
    BY <2>1, FS_CardinalityType
  <2> QED
    BY <1>1, <2>1, <2>2
<1>3. \A x \in D : x # {} => /\ Max(x) \in x /\ Max(x) \in 1 .. n
                             /\ Cardinality(x \ {Max(x)}) = Cardinality(x) - 1
  <2> SUFFICES ASSUME NEW x \in D, x # {}
               PROVE  /\ Max(x) \in x /\ Max(x) \in 1 .. n
                      /\ Cardinality(x \ {Max(x)}) = Cardinality(x) - 1
    OBVIOUS
  <2>1. Max(x) \in x
    BY MaxIs
  <2> QED
    BY <2>1, <1>2, FS_RemoveElement
<1>4. Descends(D, Nat, m, back, B, b, F)
  <2>1. m \in [D -> 0 .. n] /\ back \in [D -> D] /\ B \subseteq D /\ b \in [D -> Nat]
    BY <1>2
  <2>2. F \in [D \X Nat -> Nat]
    <3>1. \A x \in D, v \in Nat : (IF x = {} THEN v ELSE v + len[Max(x)]) \in Nat
      <4> SUFFICES ASSUME NEW x \in D, NEW v \in Nat, x # {} PROVE v + len[Max(x)] \in Nat
        OBVIOUS
      <4>1. len[Max(x)] \in Nat
        BY <1>3
      <4> QED
        BY <4>1
    <3> QED
      BY <3>1
  <2>3. \A x \in D \ B : m[back[x]] < m[x]
    <3> SUFFICES ASSUME NEW x \in D \ B PROVE m[back[x]] < m[x]
      OBVIOUS
    <3>1. m[back[x]] = Cardinality(x) - 1 /\ m[x] = Cardinality(x) /\ Cardinality(x) \in Nat
      <4>1. back[x] = x \ {Max(x)} /\ x \ {Max(x)} \in D /\ x \in D /\ x # {}
        OBVIOUS
      <4>2. \A y \in D : m[y] = Cardinality(y)
        OBVIOUS
      <4> HIDE DEF m, back
      <4> QED
        BY <1>2, <1>3, <4>1, <4>2
    <3> HIDE DEF m, back
    <3> QED
      BY <3>1
  <2> HIDE DEF m, back, F, B, b, D
  <2> QED
    BY <2>1, <2>2, <2>3 DEF Descends
<1>5. PICK f \in [D -> Nat] : \A x \in D : f[x] = IF x \in B THEN b[x] ELSE F[<<x, f[back[x]]>>]
  <2> HIDE DEF D, m, back, B, b, F
  <2> QED
    BY <1>4, Recursion
<1>6. \A x \in D, v \in Nat : x # {} => F[<<x, v>>] = v + len[Max(x)]
  OBVIOUS
<1>7. \A x \in D : back[x] = x \ {Max(x)} /\ back[x] \in D
  OBVIOUS
<1>8. \A x \in D : f[x] = IF x = {} THEN base ELSE f[x \ {Max(x)}] + len[Max(x)]
  <2>1. \A x \in D : b[x] = base /\ (x \in B <=> x = {})
    OBVIOUS
  <2> HIDE DEF D, F, back, B, b
  <2> TAKE x \in D
  <2>2. CASE x = {}
    BY ONLY <1>5, <2>1, <2>2, x \in D
  <2>3. CASE x # {}
    <3>1. back[x] = x \ {Max(x)} /\ back[x] \in D
      BY <1>7
    <3>2. f[back[x]] \in Nat /\ x \notin B
      BY ONLY <1>5, <2>1, <2>3, <3>1, x \in D
    <3>3. f[x] = F[<<x, f[back[x]]>>]
      BY ONLY <1>5, <3>2, x \in D
    <3>4. F[<<x, f[back[x]]>>] = f[back[x]] + len[Max(x)]
      BY ONLY <1>6, <2>3, <3>2, x \in D
    <3> QED
      BY ONLY <2>3, <3>1, <3>3, <3>4
  <2> QED
    BY <2>2, <2>3
<1>9. f = [x \in D |-> IF x = {} THEN base ELSE f[x \ {Max(x)}] + len[Max(x)]]
  <2> HIDE DEF D
  <2> QED
    BY ONLY <1>5, <1>8
<1> QED
  BY <1>9 DEF Folds

Grows(n, base, len, g) ==
  g \in [0 .. n -> Nat] /\ g[0] = base /\ \A k \in 1 .. n : g[k] = g[k - 1] + len[k]

\* It is a sum that grows from place to place.
LEMMA FoldIs ==
  ASSUME NEW n \in Nat, NEW base \in Nat, NEW len \in [1 .. n -> Nat],
         NEW it, Folds(n, base, len, it)
  PROVE  \E g : Grows(n, base, len, g) /\ it[1 .. n] = g[n]
<1> DEFINE g == [k \in 0 .. n |-> it[1 .. k]]
<1>1. \A x \in SUBSET (1 .. n) : it[x] = IF x = {} THEN base ELSE it[x \ {Max(x)}] + len[Max(x)]
  BY DEF Folds
<1>2. it[1 .. 0] = base
  <2>1. 1 .. 0 = {} /\ {} \in SUBSET (1 .. n)
    OBVIOUS
  <2> QED
    BY <1>1, <2>1
<1>3. ASSUME NEW k \in 1 .. n PROVE it[1 .. k] = it[1 .. k - 1] + len[k]
  <2>1. 1 .. k \in SUBSET (1 .. n) /\ 1 .. k # {} /\ k \in 1 .. k
    OBVIOUS
  <2>2. Max(1 .. k) \in 1 .. k /\ k <= Max(1 .. k)
    BY <2>1, MaxIs
  <2>3. Max(1 .. k) = k
    BY <2>2
  <2>4. (1 .. k) \ {k} = 1 .. k - 1
    OBVIOUS
  <2> QED
    BY <1>1, <2>1, <2>3, <2>4
<1>4. \A k \in 0 .. n : it[1 .. k] \in Nat
  <2> DEFINE T == {k \in 0 .. n : it[1 .. k] \in Nat}
  <2>1. 0 \in T
    BY <1>2
  <2>2. \A k \in 1 .. n : k - 1 \in T => k \in T
    BY <1>3
  <2> HIDE DEF T
  <2>3. \A k \in 0 .. n : k \in T
    BY ONLY <2>1, <2>2, n \in Nat, Induction
  <2> QED
    BY <2>3 DEF T
<1>5. g \in [0 .. n -> Nat] /\ g[0] = base /\ g[n] = it[1 .. n]
  BY <1>2, <1>4
<1>6. \A k \in 1 .. n : g[k] = g[k - 1] + len[k]
  <2> SUFFICES ASSUME NEW k \in 1 .. n PROVE g[k] = g[k - 1] + len[k]
    OBVIOUS
  <2>1. g[k] = it[1 .. k] /\ g[k - 1] = it[1 .. k - 1]
    OBVIOUS
  <2> QED
    BY ONLY <2>1, <1>3, k \in 1 .. n
<1> HIDE DEF g
<1> QED
  BY <1>5, <1>6 DEF Grows

-----------------------------------------------------------------------------
(***************************************************************************)
(* Strings that are written.                                                *)
(***************************************************************************)

\* The bytes.
LEMMA CharIs == \A c : c \in Char <=> c \in Int /\ 1 <= c /\ c <= 255
BY DEF Char

\* What a byte is written as is as long as print_string_ptr counts for it.
LEMMA WrittenIs ==
  ASSUME NEW c \in Char
  PROVE  Written(c) \in Seq(Char) /\ Len(Written(c)) = ByteRoom(c)
<1>1. c \in Int /\ 1 <= c /\ c <= 255
  BY CharIs
<1> DEFINE letter == {l \in DOMAIN Short : Short[l] = c}
<1>2. letter \subseteq {98, 102, 110, 114, 116}
  BY DEF Short
<1>3. letter # {} <=> c \in {8, 9, 10, 12, 13}
  <2>1. DOMAIN Short = {98, 102, 110, 114, 116}
    BY DEF Short
  <2>2. /\ Short[98] = 8 /\ Short[102] = 12 /\ Short[110] = 10
        /\ Short[114] = 13 /\ Short[116] = 9
    BY DEF Short
  <2> QED
    BY ONLY <2>1, <2>2 DEF letter
<1>4. letter # {} => Min(letter) \in letter
  <2>1. letter \in SUBSET Nat
    BY <1>2
  <2> HIDE DEF letter
  <2> QED
    BY <2>1, MinIs
<1>5. letter # {} => Min(letter) \in Char
  BY <1>2, <1>4, CharIs
<1> HIDE DEF letter
<1>6. QUOTE \in Char /\ BACKSLASH \in Char /\ LetterU \in Char /\ 48 \in Char
  BY CharIs DEF QUOTE, BACKSLASH, LetterU
<1>7. c < SPACE => HexDigit(c \div 16) \in Char /\ HexDigit(c % 16) \in Char
  <2> SUFFICES ASSUME c < 32 PROVE HexDigit(c \div 16) \in Char /\ HexDigit(c % 16) \in Char
    BY DEF SPACE
  <2>1. c \div 16 \in 0 .. 15 /\ c % 16 \in 0 .. 15
    BY <1>1
  <2>2. \A n \in 0 .. 15 : HexDigit(n) \in Char
    BY CharIs DEF HexDigit
  <2> QED
    BY ONLY <2>1, <2>2
<1>8. Written(c) = IF c \in {QUOTE, BACKSLASH} THEN <<BACKSLASH, c>>
                   ELSE IF letter # {} THEN <<BACKSLASH, Min(letter)>>
                   ELSE IF c < SPACE
                     THEN <<BACKSLASH, LetterU, 48, 48, HexDigit(c \div 16), HexDigit(c % 16)>>
                   ELSE <<c>>
  BY DEF Written, letter
<1>9. ByteRoom(c) = IF c \in {QUOTE, BACKSLASH} \/ letter # {} THEN 2 ELSE IF c < SPACE THEN 6 ELSE 1
  BY <1>3 DEF ByteRoom
<1>10. \A a, b \in Char : <<a, b>> \in Seq(Char) /\ Len(<<a, b>>) = 2
  OBVIOUS
<1>11. \A a, b, d, e, f, g \in Char :
          <<a, b, d, e, f, g>> \in Seq(Char) /\ Len(<<a, b, d, e, f, g>>) = 6
  OBVIOUS
<1>12. CASE c \in {QUOTE, BACKSLASH}
  <2>1. Written(c) = <<BACKSLASH, c>> /\ ByteRoom(c) = 2
    BY ONLY <1>8, <1>9, <1>12
  <2> QED
    BY ONLY <2>1, <1>6, <1>10, c \in Char
<1>13. CASE c \notin {QUOTE, BACKSLASH} /\ letter # {}
  <2>1. Written(c) = <<BACKSLASH, Min(letter)>> /\ ByteRoom(c) = 2
    BY ONLY <1>8, <1>9, <1>13
  <2> QED
    BY ONLY <2>1, <1>5, <1>6, <1>10, <1>13
<1>14. CASE c \notin {QUOTE, BACKSLASH} /\ letter = {} /\ c < SPACE
  <2>1. /\ Written(c) = <<BACKSLASH, LetterU, 48, 48, HexDigit(c \div 16), HexDigit(c % 16)>>
        /\ ByteRoom(c) = 6
    BY ONLY <1>8, <1>9, <1>14
  <2> QED
    BY ONLY <2>1, <1>6, <1>7, <1>11, <1>14
<1>15. CASE c \notin {QUOTE, BACKSLASH} /\ letter = {} /\ ~(c < SPACE)
  <2>1. Written(c) = <<c>> /\ ByteRoom(c) = 1
    BY ONLY <1>8, <1>9, <1>15
  <2> QED
    BY ONLY <2>1, c \in Char
<1> QED
  BY <1>12, <1>13, <1>14, <1>15

\* print_string_ptr asks for enough memory: for every string.
THEOREM QuotedFits ==
  ASSUME NEW str \in Seq(Char)
  PROVE  /\ Quoted(str) \in Seq(Char)
         /\ Len(Quoted(str)) + 1 <= QuotedRoom(str)
         /\ QuotedRoom(str) \in Nat
<1> DEFINE n == Len(str)
           ws == [k \in DOMAIN str |-> Written(str[k])]
           len == [k \in 1 .. n |-> ByteRoom(str[k])]
<1>1. n \in Nat /\ DOMAIN str = 1 .. n /\ \A k \in 1 .. n : str[k] \in Char
  OBVIOUS
<1> HIDE DEF n
<1>2. ws \in [1 .. n -> Seq(Char)]
  BY <1>1, WrittenIs
<1>3. \A k \in 1 .. n : len[k] = Len(ws[k]) /\ len[k] \in Nat
  <2> SUFFICES ASSUME NEW k \in 1 .. n PROVE len[k] = Len(ws[k]) /\ len[k] \in Nat
    OBVIOUS
  <2>1. Len(ws[k]) = ByteRoom(str[k])
    BY <1>1, WrittenIs
  <2>2. Len(ws[k]) \in Nat
    BY <1>2
  <2> QED
    BY <2>1, <2>2
<1>4. len \in [1 .. n -> Nat]
  BY <1>3
<1>5. PICK it : Folds(n, 3, len, it) /\ QuotedRoom(str) = it[1 .. n]
  <2> DEFINE Sum(it) == it = [x \in SUBSET DOMAIN str |->
                                IF x = {} THEN 3 ELSE it[x \ {Max(x)}] + ByteRoom(str[Max(x)])]
  <2>1. \A it : Folds(n, 3, len, it) <=> Sum(it)
    <3>1. \A x \in SUBSET (1 .. n) : x # {} => len[Max(x)] = ByteRoom(str[Max(x)])
      BY <1>1, MaxIs
    <3> HIDE DEF len
    <3>2. ASSUME NEW it
          PROVE  [x \in SUBSET (1 .. n) |-> IF x = {} THEN 3 ELSE it[x \ {Max(x)}] + len[Max(x)]]
                   = [x \in SUBSET DOMAIN str |->
                        IF x = {} THEN 3 ELSE it[x \ {Max(x)}] + ByteRoom(str[Max(x)])]
      BY <1>1, <3>1
    <3> QED
      BY <3>2 DEF Folds
  <2>2. \E it : Sum(it)
    <3>1. \E it : Folds(n, 3, len, it)
      <4> HIDE DEF len
      <4> QED
        BY <1>1, <1>4, FoldExists
    <3> QED
      BY ONLY <2>1, <3>1
  <2>3. QuotedRoom(str) = (CHOOSE it : Sum(it))[DOMAIN str]
    BY DEF QuotedRoom, FoldLeft, MapThenFoldSet
  <2> HIDE DEF Sum
  <2> QED
    BY <1>1, <2>1, <2>2, <2>3
<1> HIDE DEF ws, len
<1>6. PICK g : Grows(n, 3, len, g) /\ it[1 .. n] = g[n]
  <2>1. n \in Nat /\ Folds(n, 3, len, it)
    BY ONLY <1>1, <1>5
  <2> QED
    BY ONLY <1>4, <2>1, FoldIs
<1>60. g \in [0 .. n -> Nat] /\ g[0] = 3 /\ \A k \in 1 .. n : g[k] = g[k - 1] + len[k]
  BY <1>6 DEF Grows
<1>7. FlattenSeq(ws) \in Seq(Char) /\ 3 + Len(FlattenSeq(ws)) <= g[n]
  <2>1. \A k \in 1 .. n : g[k - 1] + Len(ws[k]) <= g[k]
    <3> SUFFICES ASSUME NEW k \in 1 .. n PROVE g[k - 1] + Len(ws[k]) <= g[k]
      OBVIOUS
    <3>1. g[k] = g[k - 1] + len[k] /\ len[k] = Len(ws[k]) /\ len[k] \in Nat /\ g[k - 1] \in Nat
      BY <1>1, <1>3, <1>60
    <3>2. \A a, b, c \in Nat : c = a + b => a + b <= c
      OBVIOUS
    <3>3. g[k] \in Nat
      BY <1>1, <1>60
    <3> QED
      BY ONLY <3>1, <3>2, <3>3
  <2>2. g \in [0 .. n -> Int]
    BY <1>60
  <2> QED
    BY <1>1, <1>2, <1>60, <2>1, <2>2, FlattenFits
<1>8. Quoted(str) = <<QUOTE>> \o FlattenSeq(ws) \o <<QUOTE>>
  BY DEF Quoted, ws
<1>9. <<QUOTE>> \in Seq(Char) /\ Len(<<QUOTE>>) = 1
  BY CharIs DEF QUOTE
<1>10. /\ Quoted(str) \in Seq(Char) /\ Len(Quoted(str)) = Len(FlattenSeq(ws)) + 2
       /\ Len(FlattenSeq(ws)) \in Nat
  BY ONLY <1>7, <1>8, <1>9
<1>11. g[n] \in Nat /\ QuotedRoom(str) = g[n]
  BY <1>1, <1>5, <1>6, <1>60
<1>12. \A a, b, c \in Nat : b = a + 2 /\ 3 + a <= c => b + 1 <= c
  OBVIOUS
<1>13. Len(Quoted(str)) \in Nat
  BY ONLY <1>10
<1> QED
  BY ONLY <1>7, <1>10, <1>11, <1>12, <1>13

-----------------------------------------------------------------------------
(***************************************************************************)
(* Numbers, and the sizes of the buffer.                                    *)
(***************************************************************************)

\* The digits of n.
LEMMA DigitsDef ==
  ASSUME NEW n \in Nat
  PROVE  \E f \in [0 .. n -> Seq(Char)] :
           /\ Decimals(n) = f[n]
           /\ \A k \in 0 .. n : f[k] = IF k < 10 THEN <<48 + k>> ELSE Append(f[k \div 10], 48 + (k % 10))
<1> DEFINE D == 0 .. n
           V == Seq(Char)
           B == {k \in D : k < 10}
           back == [k \in D |-> k \div 10]
           m == [k \in D |-> k]
           b == [k \in D |-> IF k < 10 THEN <<48 + k>> ELSE <<>>]
           F == [x \in D \X V |-> Append(x[2], 48 + (x[1] % 10))]
           Body(f, k) == IF k < 10 THEN <<48 + k>> ELSE Append(f[k \div 10], 48 + (k % 10))
<1>1. \A k \in D : 48 + (k % 10) \in Char /\ (k < 10 => 48 + k \in Char)
  BY CharIs
<1>2. Descends(D, V, m, back, B, b, F)
  <2>1. m \in [D -> 0 .. n] /\ back \in [D -> D] /\ B \subseteq D /\ \A k \in D \ B : m[back[k]] < m[k]
    OBVIOUS
  <2>2. b \in [D -> V]
    BY <1>1
  <2>3. F \in [D \X V -> V]
    BY <1>1
  <2> HIDE DEF D, V, B, back, m, b, F
  <2> QED
    BY <2>1, <2>2, <2>3 DEF Descends
<1>3. PICK f \in [D -> V] : \A k \in D : f[k] = IF k \in B THEN b[k] ELSE F[<<k, f[back[k]]>>]
  <2> HIDE DEF D, V, B, back, m, b, F
  <2> QED
    BY <1>2, Recursion
<1>4. \A k \in D : /\ (k \in B <=> k < 10) /\ back[k] = k \div 10 /\ back[k] \in D
                   /\ k < 10 => b[k] = <<48 + k>>
                   /\ \A v \in V : F[<<k, v>>] = Append(v, 48 + (k % 10))
  OBVIOUS
<1>5. \A k \in D : f[k] = Body(f, k)
  <2> TAKE k \in D
  <2>1. CASE k < 10
    <3>1. k \in B /\ b[k] = <<48 + k>>
      BY <1>4, <2>1
    <3> HIDE DEF D, V, B, back, m, b, F
    <3> QED
      BY <1>3, <2>1, <3>1
  <2>2. CASE ~(k < 10)
    <3>1. /\ k \notin B /\ back[k] = k \div 10 /\ back[k] \in D
          /\ \A v \in V : F[<<k, v>>] = Append(v, 48 + (k % 10))
      BY <1>4, <2>2
    <3> HIDE DEF D, V, B, back, m, b, F
    <3>2. f[k] = F[<<k, f[back[k]]>>] /\ f[back[k]] \in V
      BY <1>3, <3>1
    <3>3. f[k] = Append(f[k \div 10], 48 + (k % 10))
      BY ONLY <3>1, <3>2
    <3> QED
      BY <2>2, <3>3
  <2> QED
    BY <2>1, <2>2
<1>6. \E g : g = [k \in D |-> Body(g, k)]
  <2>1. f = [k \in D |-> Body(f, k)]
    BY <1>5
  <2> QED
    BY <2>1
<1>7. PICK g : g = [k \in D |-> Body(g, k)] /\ Decimals(n) = g[n]
  <2>1. Decimals(n) = (CHOOSE g : g = [k \in D |-> Body(g, k)])[n]
    BY DEF Decimals
  <2> HIDE DEF D, Body
  <2> QED
    BY <1>6, <2>1
<1>8. \A k \in D : g[k] = Body(g, k)
  BY <1>7
<1>9. g \in [D -> V]
  <2>1. g = [k \in D |-> g[k]]
    BY <1>7
  <2>2. \A k \in D : /\ k \in B => g[k] = b[k]
                     /\ k \notin B /\ g[back[k]] \in V => g[k] = F[<<k, g[back[k]]>>]
    <3> TAKE k \in D
    <3>1. k \in B => g[k] = b[k]
      BY <1>4, <1>8
    <3>2. ASSUME k \notin B, g[back[k]] \in V PROVE g[k] = F[<<k, g[back[k]]>>]
      <4>1. ~(k < 10) /\ back[k] = k \div 10 /\ F[<<k, g[back[k]]>>] = Append(g[back[k]], 48 + (k % 10))
        BY <1>4, <3>2
      <4>2. g[k] = IF k < 10 THEN <<48 + k>> ELSE Append(g[k \div 10], 48 + (k % 10))
        BY <1>8
      <4> QED
        BY ONLY <4>1, <4>2
    <3> HIDE DEF D, V, B, back, m, b, F
    <3> QED
      BY ONLY <3>1, <3>2
  <2> HIDE DEF D, V, B, back, m, b, F
  <2> QED
    BY ONLY <1>2, <2>1, <2>2, RecursionType
<1> QED
  BY <1>7, <1>8, <1>9

\* A number below 10^10 has at most ten of them.
LEMMA DecimalsUpTo ==
  ASSUME NEW n \in Nat
  PROVE  /\ Decimals(n) \in Seq(Char) /\ Len(Decimals(n)) \in Nat
         /\ n < 10 => Len(Decimals(n)) = 1
         /\ n < 10000000000 => Len(Decimals(n)) <= 10
<1>1. PICK f \in [0 .. n -> Seq(Char)] :
        /\ Decimals(n) = f[n]
        /\ \A k \in 0 .. n : f[k] = IF k < 10 THEN <<48 + k>> ELSE Append(f[k \div 10], 48 + (k % 10))
  BY DigitsDef
<1> DEFINE d == [k \in 0 .. n |-> Len(f[k])]
<1>2. \A k \in 0 .. n : d[k] \in Nat /\ d[k] = IF k < 10 THEN 1 ELSE d[k \div 10] + 1
  <2> SUFFICES ASSUME NEW k \in 0 .. n
               PROVE  d[k] \in Nat /\ d[k] = IF k < 10 THEN 1 ELSE d[k \div 10] + 1
    OBVIOUS
  <2>1. k \div 10 \in 0 .. n
    OBVIOUS
  <2>2. f[k] \in Seq(Char) /\ f[k \div 10] \in Seq(Char)
    BY <2>1
  <2>3. CASE k < 10
    <3>1. f[k] = <<48 + k>>
      BY <1>1, <2>3
    <3> QED
      BY <2>3, <3>1
  <2>4. CASE ~(k < 10)
    <3>1. f[k] = Append(f[k \div 10], 48 + (k % 10))
      BY <1>1, <2>4
    <3>2. Len(f[k]) = Len(f[k \div 10]) + 1 /\ Len(f[k]) \in Nat
      BY ONLY <2>2, <3>1
    <3> QED
      BY <2>1, <2>4, <3>2
  <2> QED
    BY <2>3, <2>4
<1> HIDE DEF d
<1> DEFINE Upto(c, l) == \A k \in 0 .. n : k < c => d[k] <= l
<1>3. Upto(10, 1)
  BY <1>2
<1>4. ASSUME NEW c \in Nat, NEW l \in Nat, Upto(c, l), c > 0 PROVE Upto(10 * c, l + 1)
  <2> SUFFICES ASSUME NEW k \in 0 .. n, k < 10 * c PROVE d[k] <= l + 1
    OBVIOUS
  <2>1. k \div 10 \in 0 .. n /\ k \div 10 < c
    OBVIOUS
  <2>2. d[k \div 10] <= l
    BY <1>4, <2>1
  <2>3. /\ d[k] \in Nat /\ d[k \div 10] \in Nat
        /\ d[k] = 1 \/ d[k] = d[k \div 10] + 1
    BY <1>2, <2>1
  <2> HIDE DEF Upto
  <2> QED
    BY ONLY <2>2, <2>3, l \in Nat
<1> HIDE DEF Upto
<1>5. Upto(100, 2)
  BY <1>3, <1>4
<1>6. Upto(1000, 3)
  BY <1>5, <1>4
<1>7. Upto(10000, 4)
  BY <1>6, <1>4
<1>8. Upto(100000, 5)
  BY <1>7, <1>4, SMTT(30)
<1>9. Upto(1000000, 6)
  BY <1>8, <1>4, SMTT(30)
<1>10. Upto(10000000, 7)
  BY <1>9, <1>4, SMTT(30)
<1>11. Upto(100000000, 8)
  BY <1>10, <1>4, SMTT(30)
<1>12. Upto(1000000000, 9)
  BY <1>11, <1>4, SMTT(30)
<1>13. Upto(10000000000, 10)
  BY <1>12, <1>4, SMTT(30)
<1>14. n < 10000000000 => d[n] <= 10
  BY <1>13, SMTT(30) DEF Upto
<1>15. d[n] \in Nat /\ (n < 10 => d[n] = 1)
  BY <1>2
<1>16. d[n] = Len(Decimals(n)) /\ Decimals(n) \in Seq(Char)
  BY <1>1 DEF d
<1> QED
  BY ONLY <1>14, <1>15, <1>16, SMTT(30)

\* An int has at most ten digits.
LEMMA DecimalsFit ==
  ASSUME NEW n \in Nat, n <= 2147483648
  PROVE  Decimals(n) \in Seq(Char) /\ Len(Decimals(n)) \in Nat /\ Len(Decimals(n)) <= 10
         /\ (n < 10 => Len(Decimals(n)) = 1)
<1>1. n < 10000000000
  BY SMTT(30)
<1> QED
  BY ONLY <1>1, DecimalsUpTo, n \in Nat, SMTT(30)

\* A power of two that is no less.
LEMMA pow2gtIs ==
  ASSUME NEW x \in Nat
  PROVE  pow2gt(x) \in Nat /\ x <= pow2gt(x)
<1> DEFINE D == 0 .. x
           B == {k \in D : k <= 1}
           back == [k \in D |-> IF k <= 1 THEN k ELSE (k + 1) \div 2]
           m == [k \in D |-> k]
           b == [k \in D |-> 1]
           F == [y \in D \X Nat |-> 2 * y[2]]
           Body(f, k) == IF k <= 1 THEN 1 ELSE 2 * f[(k + 1) \div 2]
<1>2. Descends(D, Nat, m, back, B, b, F)
  <2>1. m \in [D -> 0 .. x] /\ B \subseteq D /\ b \in [D -> Nat] /\ F \in [D \X Nat -> Nat]
    OBVIOUS
  <2>2. \A k \in D : ~(k <= 1) => (k + 1) \div 2 < k /\ (k + 1) \div 2 \in D
    OBVIOUS
  <2>3. back \in [D -> D] /\ \A k \in D \ B : m[back[k]] < m[k]
    BY <2>2
  <2> HIDE DEF D, B, back, m, b, F
  <2> QED
    BY <2>1, <2>3 DEF Descends
<1>3. PICK f \in [D -> Nat] : \A k \in D : f[k] = IF k \in B THEN b[k] ELSE F[<<k, f[back[k]]>>]
  <2> HIDE DEF D, B, back, m, b, F
  <2> QED
    BY <1>2, Recursion
<1>4. \A k \in D : /\ (k \in B <=> k <= 1)
                   /\ k > 1 => back[k] = (k + 1) \div 2 /\ back[k] \in D /\ back[k] < k
                   /\ b[k] = 1
                   /\ \A v \in Nat : F[<<k, v>>] = 2 * v
  OBVIOUS
<1>5. \A k \in D : f[k] = Body(f, k)
  <2> TAKE k \in D
  <2>1. CASE k <= 1
    <3>1. k \in B /\ b[k] = 1
      BY <1>4, <2>1
    <3> HIDE DEF D, B, back, m, b, F
    <3> QED
      BY <1>3, <2>1, <3>1
  <2>2. CASE ~(k <= 1)
    <3>1. k \notin B /\ k > 1
      BY <2>2
    <3>2. back[k] = (k + 1) \div 2 /\ back[k] \in D /\ \A v \in Nat : F[<<k, v>>] = 2 * v
      BY <1>4, <3>1
    <3> HIDE DEF D, B, back, m, b, F
    <3>3. f[k] = F[<<k, f[back[k]]>>] /\ f[back[k]] \in Nat
      BY <1>3, <3>1, <3>2
    <3>4. f[k] = 2 * f[(k + 1) \div 2]
      BY ONLY <3>2, <3>3
    <3> QED
      BY <2>2, <3>4
  <2> QED
    BY <2>1, <2>2
<1>6. \E g : g = [k \in D |-> Body(g, k)]
  <2>1. f = [k \in D |-> Body(f, k)]
    BY <1>5
  <2> QED
    BY <2>1
<1>7. PICK g : g = [k \in D |-> Body(g, k)] /\ pow2gt(x) = g[x]
  <2>1. pow2gt(x) = (CHOOSE g : g = [k \in D |-> Body(g, k)])[x]
    BY DEF pow2gt
  <2> HIDE DEF D, Body
  <2> QED
    BY <1>6, <2>1
<1>8. \A k \in D : g[k] = Body(g, k)
  BY <1>7
<1>9. \A k \in D : g[k] \in Nat /\ k <= g[k]
  <2> DEFINE T == {k \in D : ~(g[k] \in Nat /\ k <= g[k])}
  <2> SUFFICES ASSUME T # {} PROVE FALSE
    OBVIOUS
  <2>1. PICK k \in T : \A y \in T : k <= y
    <3>1. T \in SUBSET Nat
      OBVIOUS
    <3> HIDE DEF T
    <3> QED
      BY <3>1, Least
  <2>2. ~(k <= 1)
    BY <1>8
  <2>3. (k + 1) \div 2 \in D /\ (k + 1) \div 2 < k /\ k <= 2 * ((k + 1) \div 2)
    BY <2>2
  <2>4. g[(k + 1) \div 2] \in Nat /\ (k + 1) \div 2 <= g[(k + 1) \div 2]
    BY <2>1, <2>3
  <2>5. g[k] = 2 * g[(k + 1) \div 2]
    BY <1>8, <2>2
  <2> QED
    BY <2>3, <2>4, <2>5
<1> QED
  BY <1>7, <1>9

-----------------------------------------------------------------------------
(***************************************************************************)
(* Values.                                                                  *)
(***************************************************************************)

\* Tabs, and characters that fmt adds.
LEMMA TabsIs ==
  ASSUME NEW n \in Nat
  PROVE  Tabs(n) \in Seq(Char) /\ Len(Tabs(n)) = n
<1>1. TAB \in Char
  BY CharIs DEF TAB
<1>2. Tabs(n) \in [1 .. n -> Char]
  BY <1>1 DEF Tabs
<1> QED
  BY <1>2, SeqIs

LEMMA WhenIs ==
  ASSUME NEW c, NEW w \in Seq(Char)
  PROVE  When(c, w) \in Seq(Char) /\ Len(When(c, w)) = IF c THEN Len(w) ELSE 0
BY DEF When

\* The characters around values.
LEMMA CharsAre ==
  /\ <<Comma>> \in Seq(Char) /\ <<Colon>> \in Seq(Char) /\ <<TAB>> \in Seq(Char)
  /\ <<NEWLINE>> \in Seq(Char) /\ <<SPACE>> \in Seq(Char) /\ <<45>> \in Seq(Char)
  /\ <<91>> \in Seq(Char) /\ <<93>> \in Seq(Char) /\ <<123>> \in Seq(Char) /\ <<125>> \in Seq(Char)
  /\ <<Comma, SPACE>> \in Seq(Char) /\ Len(<<Comma, SPACE>>) = 2
  /\ \A c : Len(<<c>>) = 1
<1>1. /\ Comma \in Char /\ Colon \in Char /\ TAB \in Char /\ NEWLINE \in Char /\ SPACE \in Char
      /\ 45 \in Char /\ 91 \in Char /\ 93 \in Char /\ 123 \in Char /\ 125 \in Char
  BY CharIs DEF Comma, Colon, TAB, NEWLINE, SPACE
<1> QED
  BY ONLY <1>1

\* Putting texts together.
LEMMA Joined ==
  ASSUME NEW v \in Seq(Char), NEW w \in Seq(Char)
  PROVE  v \o w \in Seq(Char) /\ Len(v \o w) = Len(v) + Len(w) /\ Len(v) \in Nat /\ Len(w) \in Nat
OBVIOUS

\* An int, its sign and the 0 fit into what print_number asks for.
LEMMA NumberFits ==
  ASSUME NEW n \in Int, -2147483648 <= n, n <= 2147483647
  PROVE  /\ Number(n) \in Seq(Char)
         /\ Len(Number(n)) + 1 <= IF n = 0 THEN 2 ELSE 21
<1>1. CASE n < 0
  <2>1. -n \in Nat /\ -n <= 2147483648
    BY <1>1, SMTT(30)
  <2>2. Decimals(-n) \in Seq(Char) /\ Len(Decimals(-n)) <= 10
    BY <2>1, DecimalsFit, SMTT(30)
  <2>3. Number(n) = <<45>> \o Decimals(-n)
    BY <1>1, SMTT(30) DEF Number
  <2>4. /\ Number(n) \in Seq(Char) /\ Len(Number(n)) = 1 + Len(Decimals(-n))
        /\ Len(Decimals(-n)) \in Nat
    BY <2>2, <2>3, CharsAre, Joined, SMTT(30)
  <2>5. n # 0
    BY <1>1, SMTT(30)
  <2> QED
    BY ONLY <2>2, <2>4, <2>5, SMTT(30)
<1>2. CASE ~(n < 0)
  <2>1. n \in Nat /\ n <= 2147483648
    BY <1>2, SMTT(30)
  <2>2. /\ Decimals(n) \in Seq(Char) /\ Len(Decimals(n)) <= 10 /\ Len(Decimals(n)) \in Nat
        /\ n < 10 => Len(Decimals(n)) = 1
    BY <2>1, DecimalsFit, SMTT(30)
  <2>3. Number(n) = Decimals(n)
    BY <1>2, SMTT(30) DEF Number
  <2> DEFINE l == Len(Decimals(n))
  <2>4. Number(n) \in Seq(Char) /\ Len(Number(n)) = l
    BY ONLY <2>2, <2>3
  <2>5. l \in Nat /\ l <= 10 /\ (n < 10 => l = 1)
    BY ONLY <2>2
  <2> HIDE DEF l
  <2>6. l + 1 <= IF n = 0 THEN 2 ELSE 21
    BY ONLY <2>1, <2>5, SMTT(30)
  <2> QED
    BY ONLY <2>4, <2>6
<1> QED
  BY <1>1, <1>2, SMTT(30)

\* null, false and true.
LEMMA WordIs ==
  ASSUME NEW type \in DOMAIN Word
  PROVE  Word[type] \in Seq(Char) /\ Len(Word[type]) \in Nat
<1>1. /\ 110 \in Char /\ 117 \in Char /\ 108 \in Char /\ 102 \in Char /\ 97 \in Char
      /\ 115 \in Char /\ 101 \in Char /\ 116 \in Char /\ 114 \in Char
  BY CharIs
<1>2. /\ <<110, 117, 108, 108>> \in Seq(Char) /\ <<102, 97, 108, 115, 101>> \in Seq(Char)
      /\ <<116, 114, 117, 101>> \in Seq(Char)
  BY ONLY <1>1
<1>3. Word[type] \in Seq(Char)
  <2>1. type \in {"cJSON_NULL", "cJSON_False", "cJSON_True"}
    BY DEF Word
  <2>2. \/ Word[type] = <<110, 117, 108, 108>> \/ Word[type] = <<102, 97, 108, 115, 101>>
        \/ Word[type] = <<116, 114, 117, 101>>
    BY <2>1 DEF Word
  <2> QED
    BY ONLY <1>2, <2>2, ZenonT(30)
<1> QED
  BY ONLY <1>3

\* The text of a value without values in it fits.
THEOREM LeafFits ==
  ASSUME NEW v, IsValue(v), IsLeaf(v), Depth \in Nat
  PROVE  /\ LeafText(v) \in Seq(Char) /\ LeafRoom(v) \in Nat
         /\ Len(LeafText(v)) + 1 <= LeafRoom(v)
<1>1. DOMAIN Word = {"cJSON_NULL", "cJSON_False", "cJSON_True"} /\ DOMAIN Bracket = {"cJSON_Array", "cJSON_Object"}
  BY DEF Word, Bracket
<1>2. CASE v.type \in DOMAIN Word
  <2>1. LeafText(v) = Word[v.type] /\ LeafRoom(v) = Len(Word[v.type]) + 1
    BY <1>1, <1>2 DEF LeafText, LeafRoom
  <2> QED
    BY ONLY <1>2, <2>1, WordIs
<1>3. CASE v.type = "cJSON_Number"
  <2>1. v.num[1] \in Int /\ -2147483648 <= v.num[1] /\ v.num[1] <= 2147483647
    BY <1>3, SMTT(30) DEF IsValue
  <2>2. LeafText(v) = Number(v.num[1]) /\ LeafRoom(v) = IF v.num[1] = 0 THEN 2 ELSE 21
    BY <1>1, <1>3, SMTT(30) DEF LeafText, LeafRoom
  <2>3. LeafRoom(v) \in Nat
    BY <2>2, SMTT(30)
  <2> DEFINE n == v.num[1]
  <2>4. n = v.num[1]
    OBVIOUS
  <2>5. n \in Int /\ -2147483648 <= n /\ n <= 2147483647
    BY <2>1, SMTT(30)
  <2> HIDE DEF n
  <2>6. Number(n) \in Seq(Char) /\ Len(Number(n)) + 1 <= IF n = 0 THEN 2 ELSE 21
    BY ONLY <2>5, NumberFits, SMTT(30)
  <2>7. LeafText(v) \in Seq(Char) /\ Len(LeafText(v)) = Len(Number(n))
    BY ONLY <2>2, <2>4, <2>6
  <2>8. Len(Number(n)) + 1 <= LeafRoom(v)
    BY ONLY <2>2, <2>4, <2>6
  <2> QED
    BY ONLY <2>3, <2>7, <2>8
<1>4. CASE v.type = "cJSON_String"
  <2>1. v.str \in Seq(Char)
    BY <1>4, SMTT(30) DEF IsValue
  <2>2. LeafText(v) = Quoted(v.str) /\ LeafRoom(v) = QuotedRoom(v.str)
    BY <1>1, <1>4 DEF LeafText, LeafRoom
  <2> QED
    BY ONLY <2>1, <2>2, QuotedFits
<1>5. CASE v.type = "cJSON_Array"
  <2>1. LeafText(v) = <<91, 93>> /\ LeafRoom(v) = 3
    BY <1>1, <1>5 DEF LeafText, LeafRoom, Bracket
  <2>2. <<91, 93>> \in Seq(Char) /\ Len(<<91, 93>>) = 2
    BY CharIs
  <2> QED
    BY ONLY <2>1, <2>2
<1>6. CASE v.type = "cJSON_Object"
  <2>1. /\ LeafText(v) = <<123>> \o When(fmt, <<NEWLINE>> \o Tabs(Depth)) \o <<125>>
        /\ LeafRoom(v) = IF fmt THEN Depth + 4 ELSE 3
    BY <1>1, <1>6 DEF LeafText, LeafRoom
  <2>2. /\ <<NEWLINE>> \o Tabs(Depth) \in Seq(Char) /\ Len(<<NEWLINE>> \o Tabs(Depth)) = 1 + Depth
    <3>1. Tabs(Depth) \in Seq(Char) /\ Len(Tabs(Depth)) = Depth
      BY TabsIs
    <3>2. <<NEWLINE>> \in Seq(Char) /\ Len(<<NEWLINE>>) = 1
      BY CharsAre
    <3> QED
      BY ONLY <3>1, <3>2, Joined
  <2> DEFINE w == When(fmt, <<NEWLINE>> \o Tabs(Depth))
  <2>3. w \in Seq(Char) /\ Len(w) = IF fmt THEN 1 + Depth ELSE 0
    BY ONLY <2>2, WhenIs
  <2> HIDE DEF w
  <2>4. <<123>> \o w \in Seq(Char) /\ Len(<<123>> \o w) = 1 + Len(w)
    BY ONLY <2>3, CharsAre, Joined
  <2>5. /\ <<123>> \o w \o <<125>> \in Seq(Char) /\ Len(<<123>> \o w \o <<125>>) = 1 + Len(w) + 1
    BY ONLY <2>4, CharsAre, Joined
  <2>6. LeafText(v) = <<123>> \o w \o <<125>>
    BY <2>1 DEF w
  <2>7. Len(LeafText(v)) = IF fmt THEN Depth + 3 ELSE 2
    BY <2>3, <2>5, <2>6
  <2>8. LeafText(v) \in Seq(Char)
    BY ONLY <2>5, <2>6
  <2>9. LeafRoom(v) = IF fmt THEN Depth + 4 ELSE 3
    BY <2>1
  <2> QED
    BY ONLY <2>7, <2>8, <2>9, Depth \in Nat
<1> QED
  BY <1>1, <1>2, <1>3, <1>4, <1>5, <1>6 DEF IsValue

\* What print_value returns without a buffer.
Pointer == {Null} \cup {Ptr(w) : w \in Seq(Char)}

\* A frame, and one whose values were all printed.
FrameSet == [of : Values, done : Nat, start : Nat, names : Seq(Pointer), entries : Seq(Pointer)]
Full(f) ==
  /\ f \in FrameSet /\ f.of.type \in DOMAIN Bracket /\ ~Failed(f)
  /\ Len(f.names) = IF IsObject(f.of) THEN Len(f.entries) ELSE 0

\* A text that is there.
LEMMA FilledText ==
  ASSUME NEW ts \in Seq(Pointer), Filled(ts) = DOMAIN ts, NEW i \in 1 .. Len(ts)
  PROVE  ts[i][1] \in Seq(Char) /\ Len(ts[i][1]) \in Nat
<1>1. i \in DOMAIN ts /\ ts[i] \in Pointer
  OBVIOUS
<1>2. ts[i] # Null
  BY <1>1 DEF Filled
<1>3. PICK w \in Seq(Char) : ts[i] = <<w>>
  BY <1>1, <1>2 DEF Pointer, Ptr
<1>4. ts[i][1] = w
  BY ONLY <1>3
<1> QED
  BY ONLY <1>3, <1>4

\* The sum of the lengths of some texts.
LEMMA CharsIs ==
  ASSUME NEW f, Full(f)
  PROVE  \E g :
           LET N == Len(f.names)
               n == Len(f.entries)
               len == [k \in 1 .. N + n |-> IF k <= N THEN Len(f.names[k][1]) ELSE Len(f.entries[k - N][1])]
           IN  Grows(N + n, 0, len, g) /\ Chars(f) = g[N + n]
<1> DEFINE N == Len(f.names)
           n == Len(f.entries)
           s == f.names \o f.entries
           l == N + n
           len == [k \in 1 .. l |-> IF k <= N THEN Len(f.names[k][1]) ELSE Len(f.entries[k - N][1])]
<1>1. /\ f.names \in Seq(Pointer) /\ f.entries \in Seq(Pointer)
      /\ Filled(f.names) = DOMAIN f.names /\ Filled(f.entries) = DOMAIN f.entries
  BY DEF Full, FrameSet, Failed
<1>2. N \in Nat /\ n \in Nat /\ l \in Nat
  <2>1. \A t \in Seq(Pointer) : Len(t) \in Nat
    OBVIOUS
  <2>2. Len(f.names) \in Nat /\ Len(f.entries) \in Nat
    BY ONLY <1>1, <2>1
  <2>3. \A a, b \in Nat : a + b \in Nat
    OBVIOUS
  <2> QED
    BY ONLY <2>2, <2>3
<1>0. ASSUME NEW k \in 1 .. l
      PROVE  s[k] = IF k <= N THEN f.names[k] ELSE f.entries[k - N]
  <2>1. \A j \in 1 .. Len(f.names) + Len(f.entries) :
           (f.names \o f.entries)[j] = IF j <= Len(f.names) THEN f.names[j] ELSE f.entries[j - Len(f.names)]
    BY ONLY <1>1
  <2> QED
    BY ONLY <2>1, k \in 1 .. l
<1>3. \A k \in 1 .. l : len[k] \in Nat /\ len[k] = Len(s[k][1])
  <2> SUFFICES ASSUME NEW k \in 1 .. l PROVE len[k] \in Nat /\ len[k] = Len(s[k][1])
    OBVIOUS
  <2>1. CASE k <= N
    <3>0. \A a \in 1 .. l : a <= N => a \in 1 .. N
      BY ONLY <1>2
    <3>1. k \in 1 .. N /\ s[k] = f.names[k]
      BY <1>0, <2>1, <3>0
    <3> QED
      BY <1>1, <2>1, <3>1, FilledText
  <2>2. CASE ~(k <= N)
    <3>0. \A a \in 1 .. l : ~(a <= N) => a - N \in 1 .. n
      <4>1. \A b, c \in Nat : \A a \in 1 .. b + c : ~(a <= b) => a - b \in 1 .. c
        OBVIOUS
      <4> QED
        BY ONLY <1>2, <4>1
    <3>1. k - N \in 1 .. n /\ s[k] = f.entries[k - N]
      BY <1>0, <2>2, <3>0
    <3> QED
      BY <1>1, <2>2, <3>1, FilledText
  <2> QED
    BY <2>1, <2>2
<1>4. DOMAIN s = 1 .. l
  BY <1>1, <1>2
<1>5. len \in [1 .. l -> Nat]
  BY <1>3
<1> HIDE DEF len, s, l
<1>6. PICK it : Folds(l, 0, len, it) /\ Chars(f) = it[1 .. l]
  <2> DEFINE Sum(it) == it = [x \in SUBSET DOMAIN s |->
                                IF x = {} THEN 0 ELSE it[x \ {Max(x)}] + Len(s[Max(x)][1])]
  <2>1. \A it : Folds(l, 0, len, it) <=> Sum(it)
    <3>1. \A x \in SUBSET (1 .. l) : x # {} => len[Max(x)] = Len(s[Max(x)][1])
      BY <1>2, <1>3, MaxIs
    <3>2. ASSUME NEW it
          PROVE  [x \in SUBSET (1 .. l) |-> IF x = {} THEN 0 ELSE it[x \ {Max(x)}] + len[Max(x)]]
                   = [x \in SUBSET DOMAIN s |->
                        IF x = {} THEN 0 ELSE it[x \ {Max(x)}] + Len(s[Max(x)][1])]
      BY <1>4, <3>1
    <3> QED
      BY <3>2 DEF Folds
  <2>2. \E it : Sum(it)
    <3>1. \E it : Folds(l, 0, len, it)
      BY <1>2, <1>5, FoldExists
    <3> QED
      BY ONLY <2>1, <3>1
  <2>3. Chars(f) = (CHOOSE it : Sum(it))[DOMAIN s]
    BY DEF Chars, FoldLeft, MapThenFoldSet, s
  <2> HIDE DEF Sum
  <2> QED
    BY <1>4, <2>1, <2>2, <2>3
<1>7. PICK g : Grows(l, 0, len, g) /\ it[1 .. l] = g[l]
  <2>1. l \in Nat /\ Folds(l, 0, len, it)
    BY ONLY <1>2, <1>6
  <2> QED
    BY ONLY <1>5, <2>1, FoldIs
<1> QED
  BY <1>6, <1>7 DEF len, l

\* What TextOf writes for value i of a frame, and what Room counts for it beside
\* the texts of its key and of itself.
EntryOf(f, i) ==
  IF IsObject(f.of)
    THEN When(fmt, Tabs(Depth)) \o f.names[i][1] \o <<Colon>> \o When(fmt, <<TAB>>)
           \o f.entries[i][1] \o When(i < Len(f.entries), <<Comma>>) \o When(fmt, <<NEWLINE>>)
    ELSE f.entries[i][1] \o When(i < Len(f.entries), <<Comma>> \o When(fmt, <<SPACE>>))
Extra(f) == IF IsObject(f.of) THEN IF fmt THEN 4 + Depth ELSE 2 ELSE IF fmt THEN 3 ELSE 2
KeyLen(f, i) == IF IsObject(f.of) THEN Len(f.names[i][1]) ELSE 0

\* A value, its key and what stands around them fit into what is counted for them.
LEMMA EntryFits ==
  ASSUME NEW f, Full(f), Depth \in Nat, NEW i \in 1 .. Len(f.entries)
  PROVE  /\ EntryOf(f, i) \in Seq(Char) /\ Len(EntryOf(f, i)) \in Nat
         /\ KeyLen(f, i) \in Nat /\ Len(f.entries[i][1]) \in Nat
         /\ Len(EntryOf(f, i)) <= KeyLen(f, i) + Len(f.entries[i][1]) + Extra(f)
<1> DEFINE value == f.entries[i][1]
           name == f.names[i][1]
           comma == When(i < Len(f.entries), <<Comma>>)
<1>1. /\ f.names \in Seq(Pointer) /\ f.entries \in Seq(Pointer)
      /\ Filled(f.names) = DOMAIN f.names /\ Filled(f.entries) = DOMAIN f.entries
  BY DEF Full, FrameSet, Failed
<1>2. value \in Seq(Char) /\ Len(value) \in Nat
  BY <1>1, FilledText
<1> HIDE DEF value
<1>3. CASE IsObject(f.of)
  <2>1. name \in Seq(Char) /\ Len(name) \in Nat
    <3>1. i \in 1 .. Len(f.names)
      BY <1>3 DEF Full
    <3> QED
      BY <1>1, <3>1, FilledText
  <2>2. comma \in Seq(Char) /\ Len(comma) <= 1 /\ Len(comma) \in Nat
    <3>1. <<Comma>> \in Seq(Char) /\ Len(<<Comma>>) = 1
      BY ONLY CharsAre
    <3>2. comma \in Seq(Char) /\ Len(comma) = IF i < Len(f.entries) THEN 1 ELSE 0
      BY ONLY <3>1, WhenIs
    <3> HIDE DEF comma
    <3> QED
      BY ONLY <3>2
  <2> DEFINE t == When(fmt, Tabs(Depth))
             t1 == When(fmt, <<TAB>>)
             t2 == When(fmt, <<NEWLINE>>)
  <2>3. /\ t \in Seq(Char) /\ Len(t) = IF fmt THEN Depth ELSE 0
        /\ t1 \in Seq(Char) /\ Len(t1) = IF fmt THEN 1 ELSE 0
        /\ t2 \in Seq(Char) /\ Len(t2) = IF fmt THEN 1 ELSE 0
    BY TabsIs, CharsAre, WhenIs
  <2> HIDE DEF t, t1, t2, name, comma
  <2>4. t \o name \in Seq(Char) /\ Len(t \o name) = Len(t) + Len(name)
    BY ONLY <2>1, <2>3, Joined
  <2>5. t \o name \o <<Colon>> \in Seq(Char) /\ Len(t \o name \o <<Colon>>) = Len(t) + Len(name) + 1
    BY ONLY <2>4, CharsAre, Joined
  <2>6. /\ t \o name \o <<Colon>> \o t1 \in Seq(Char)
        /\ Len(t \o name \o <<Colon>> \o t1) = Len(t) + Len(name) + 1 + Len(t1)
    BY ONLY <2>5, <2>3, Joined
  <2>7. /\ t \o name \o <<Colon>> \o t1 \o value \in Seq(Char)
        /\ Len(t \o name \o <<Colon>> \o t1 \o value) = Len(t) + Len(name) + 1 + Len(t1) + Len(value)
    BY ONLY <2>6, <1>2, Joined
  <2>8. /\ t \o name \o <<Colon>> \o t1 \o value \o comma \in Seq(Char)
        /\ Len(t \o name \o <<Colon>> \o t1 \o value \o comma)
             = Len(t) + Len(name) + 1 + Len(t1) + Len(value) + Len(comma)
    BY ONLY <2>7, <2>2, Joined
  <2>9. /\ t \o name \o <<Colon>> \o t1 \o value \o comma \o t2 \in Seq(Char)
        /\ Len(t \o name \o <<Colon>> \o t1 \o value \o comma \o t2)
             = Len(t) + Len(name) + 1 + Len(t1) + Len(value) + Len(comma) + Len(t2)
    BY ONLY <2>8, <2>3, Joined
  <2>10. EntryOf(f, i) = t \o name \o <<Colon>> \o t1 \o value \o comma \o t2
    BY <1>3 DEF EntryOf, t, t1, t2, name, comma, value
  <2>11. /\ KeyLen(f, i) = Len(name) /\ Extra(f) = IF fmt THEN 4 + Depth ELSE 2
    BY <1>3 DEF KeyLen, Extra, name
  <2>12. \A a, b, c \in Nat : c <= 1 =>
            /\ Depth + a + 1 + 1 + b + c + 1 \in Nat /\ 0 + a + 1 + 0 + b + c + 0 \in Nat
            /\ Depth + a + 1 + 1 + b + c + 1 <= a + b + (4 + Depth)
            /\ 0 + a + 1 + 0 + b + c + 0 <= a + b + 2
    OBVIOUS
  <2>13. /\ Len(EntryOf(f, i)) \in Nat
         /\ Len(EntryOf(f, i)) <= Len(name) + Len(value) + Extra(f)
    <3>1. CASE fmt
      <4>1. /\ Len(EntryOf(f, i)) = Depth + Len(name) + 1 + 1 + Len(value) + Len(comma) + 1
            /\ Extra(f) = 4 + Depth
        BY ONLY <2>3, <2>9, <2>10, <2>11, <3>1
      <4> QED
        BY ONLY <4>1, <1>2, <2>1, <2>2, <2>12
    <3>2. CASE ~fmt
      <4>1. /\ Len(EntryOf(f, i)) = 0 + Len(name) + 1 + 0 + Len(value) + Len(comma) + 0
            /\ Extra(f) = 2
        BY ONLY <2>3, <2>9, <2>10, <2>11, <3>2
      <4> QED
        BY ONLY <4>1, <1>2, <2>1, <2>2, <2>12
    <3> QED
      BY ONLY <3>1, <3>2
  <2>14. EntryOf(f, i) \in Seq(Char)
    BY ONLY <2>9, <2>10
  <2>15. KeyLen(f, i) \in Nat /\ Len(EntryOf(f, i)) <= KeyLen(f, i) + Len(value) + Extra(f)
    BY ONLY <2>1, <2>11, <2>13
  <2> QED
    BY ONLY <1>2, <2>13, <2>14, <2>15 DEF value
<1>4. CASE ~IsObject(f.of)
  <2> DEFINE s == When(fmt, <<SPACE>>)
             c == <<Comma>> \o s
             w == When(i < Len(f.entries), c)
  <2>1. s \in Seq(Char) /\ Len(s) = IF fmt THEN 1 ELSE 0
    BY CharsAre, WhenIs
  <2> HIDE DEF s
  <2>2. c \in Seq(Char) /\ Len(c) = 1 + Len(s)
    <3>1. <<Comma>> \in Seq(Char) /\ Len(<<Comma>>) = 1
      BY CharsAre
    <3> QED
      BY ONLY <2>1, <3>1, Joined
  <2> HIDE DEF c
  <2>3. w \in Seq(Char) /\ Len(w) = IF i < Len(f.entries) THEN Len(c) ELSE 0
    BY ONLY <2>2, WhenIs
  <2> HIDE DEF w
  <2>4. value \o w \in Seq(Char) /\ Len(value \o w) = Len(value) + Len(w)
    BY ONLY <1>2, <2>3, Joined
  <2>5. EntryOf(f, i) = value \o w
    BY <1>4 DEF EntryOf, value, w, c, s
  <2>6. /\ KeyLen(f, i) = 0 /\ Extra(f) = IF fmt THEN 3 ELSE 2
    BY <1>4 DEF KeyLen, Extra
  <2>7. Len(w) \in Nat /\ Len(w) <= IF fmt THEN 3 ELSE 2
    BY ONLY <2>1, <2>2, <2>3
  <2>8. \A a, b, c1 \in Nat : b <= c1 => a + b \in Nat /\ a + b <= 0 + a + c1
    OBVIOUS
  <2>9. Extra(f) \in Nat
    BY <2>6
  <2>10. /\ Len(EntryOf(f, i)) \in Nat
         /\ Len(EntryOf(f, i)) <= 0 + Len(value) + Extra(f)
    BY ONLY <1>2, <2>4, <2>5, <2>6, <2>7, <2>8, <2>9
  <2>11. EntryOf(f, i) \in Seq(Char)
    BY ONLY <2>4, <2>5
  <2>12. KeyLen(f, i) \in Nat /\ Len(EntryOf(f, i)) <= KeyLen(f, i) + Len(value) + Extra(f)
    BY ONLY <2>6, <2>10
  <2> QED
    BY ONLY <1>2, <2>10, <2>11, <2>12 DEF value
<1> QED
  BY <1>3, <1>4

\* So does the text of an array or object with values in it.
THEOREM TextFits ==
  ASSUME NEW f, Full(f), Depth \in Nat, Depth > 0
  PROVE  /\ TextOf(f) \in Seq(Char)
         /\ Len(TextOf(f)) + 1 <= Room(f) /\ Room(f) \in Nat
<1> DEFINE n == Len(f.entries)
           N == Len(f.names)
           ws == [i \in 1 .. n |-> EntryOf(f, i)]
           len == [k \in 1 .. N + n |-> IF k <= N THEN Len(f.names[k][1]) ELSE Len(f.entries[k - N][1])]
           c == Extra(f)
<1>1. n \in Nat /\ N = IF IsObject(f.of) THEN n ELSE 0
  <2>1. f.entries \in Seq(Pointer)
    BY DEF Full, FrameSet
  <2>2. n \in Nat
    BY ONLY <2>1
  <2> QED
    BY <2>2 DEF Full
<1>2. N \in Nat /\ c \in Nat
  BY <1>1 DEF Extra
<1>3. PICK g : Grows(N + n, 0, len, g) /\ Chars(f) = g[N + n]
  BY CharsIs
<1>4. \A i \in 1 .. n : /\ ws[i] \in Seq(Char) /\ Len(ws[i]) \in Nat
                        /\ KeyLen(f, i) \in Nat /\ Len(f.entries[i][1]) \in Nat
                        /\ Len(ws[i]) <= KeyLen(f, i) + Len(f.entries[i][1]) + c
  BY EntryFits
<1>5. ws \in [1 .. n -> Seq(Char)]
  BY <1>4
<1>6. /\ g \in [0 .. N + n -> Nat] /\ g[0] = 0
      /\ \A k \in 1 .. N + n : g[k] = g[k - 1] + len[k]
  BY <1>3 DEF Grows
<1>7. \A i \in 1 .. n : /\ g[N + i] = g[N + i - 1] + Len(f.entries[i][1])
                        /\ N # 0 => g[i] = g[i - 1] + Len(f.names[i][1])
  <2> SUFFICES ASSUME NEW i \in 1 .. n
               PROVE  /\ g[N + i] = g[N + i - 1] + Len(f.entries[i][1])
                      /\ N # 0 => g[i] = g[i - 1] + Len(f.names[i][1])
    OBVIOUS
  <2> HIDE DEF n, N
  <2>1. N + i \in 1 .. N + n /\ ~(N + i <= N) /\ (N + i) - N = i /\ (N + i) - 1 = N + (i - 1)
    BY <1>1, <1>2
  <2>2. N # 0 => i \in 1 .. N + n /\ i <= N
    BY <1>1, <1>2
  <2>3. len[N + i] = Len(f.entries[i][1])
    <3>1. \A k \in 1 .. N + n : ~(k <= N) => len[k] = Len(f.entries[k - N][1])
      OBVIOUS
    <3> HIDE DEF len
    <3> QED
      BY ONLY <2>1, <3>1, Zenon
  <2>4. N # 0 => len[i] = Len(f.names[i][1])
    BY <2>2
  <2> HIDE DEF len
  <2>5. g[N + i] = g[N + i - 1] + len[N + i]
    <3>1. g[N + i] = g[(N + i) - 1] + len[N + i]
      BY ONLY <1>6, <2>1, Zenon
    <3> QED
      BY ONLY <2>1, <3>1
  <2>6. N # 0 => g[i] = g[i - 1] + len[i]
    BY ONLY <1>6, <2>2
  <2> QED
    BY ONLY <2>3, <2>4, <2>5, <2>6
<1> DEFINE h == [k \in 0 .. n |-> (IF N = 0 THEN 0 ELSE g[k]) + (g[N + k] - g[N]) + k * c]
<1> HIDE DEF len, n, N, c, ws
<1>8. \A k \in 0 .. n : /\ g[N + k] \in Nat /\ g[N] \in Nat
                        /\ N # 0 => g[k] \in Nat
  BY <1>1, <1>2, <1>6
<1>9. \A k \in Nat : k * c \in Nat /\ (k > 0 => k * c = (k - 1) * c + c)
  BY <1>2
<1>10. h \in [0 .. n -> Int]
  BY <1>1, <1>8, <1>9
<1>11. ASSUME NEW i \in 1 .. n PROVE h[i - 1] + Len(ws[i]) <= h[i]
  <2>1. i \in 0 .. n /\ i - 1 \in 0 .. n /\ i \in Nat /\ i > 0 /\ N + i - 1 = N + (i - 1)
    BY <1>1, <1>2
  <2>2. /\ h[i] = (IF N = 0 THEN 0 ELSE g[i]) + (g[N + i] - g[N]) + i * c
        /\ h[i - 1] = (IF N = 0 THEN 0 ELSE g[i - 1]) + (g[N + (i - 1)] - g[N]) + (i - 1) * c
    BY <2>1
  <2> HIDE DEF h
  <2>3. KeyLen(f, i) = IF N = 0 THEN 0 ELSE Len(f.names[i][1])
    BY <1>1, <2>1 DEF KeyLen
  <2>4. (IF N = 0 THEN 0 ELSE g[i]) = (IF N = 0 THEN 0 ELSE g[i - 1]) + KeyLen(f, i)
    BY <1>7, <2>3
  <2>5. g[N + i] = g[N + (i - 1)] + Len(f.entries[i][1])
    BY <1>7, <2>1
  <2>6. i * c = (i - 1) * c + c /\ (i - 1) * c \in Nat
    BY <1>9, <2>1
  <2> DEFINE a == IF N = 0 THEN 0 ELSE g[i - 1]
             b == g[N + (i - 1)]
             d == (i - 1) * c
             x == KeyLen(f, i)
             y == Len(f.entries[i][1])
             z == Len(ws[i])
  <2>7. /\ a \in Nat /\ b \in Nat /\ d \in Nat /\ x \in Nat /\ y \in Nat /\ z \in Nat /\ c \in Nat
        /\ g[N] \in Nat /\ z <= x + y + c
    BY <1>2, <1>4, <1>8, <2>1, <2>6
  <2>8. h[i] = (a + x) + ((b + y) - g[N]) + (d + c) /\ h[i - 1] = a + (b - g[N]) + d
    BY ONLY <2>2, <2>4, <2>5, <2>6
  <2> HIDE DEF a, b, d, x, y, z
  <2>9. a + (b - g[N]) + d + z <= (a + x) + ((b + y) - g[N]) + (d + c)
    <3> DEFINE gN == g[N]
    <3>1. gN \in Nat
      BY <2>7
    <3> HIDE DEF gN
    <3>2. a + (b - gN) + d + z <= (a + x) + ((b + y) - gN) + (d + c)
      BY ONLY <2>7, <3>1
    <3> QED
      BY <3>2 DEF gN
  <2> QED
    BY ONLY <2>8, <2>9 DEF z
<1>12. FlattenSeq(ws) \in Seq(Char) /\ h[0] + Len(FlattenSeq(ws)) <= h[n]
  <2> HIDE DEF h
  <2> QED
    BY <1>1, <1>5, <1>10, <1>11, FlattenFits
<1>13. h[0] = 0 /\ h[n] = Chars(f) + n * c
  <2>1. 0 \in 0 .. n /\ n \in 0 .. n /\ 0 * c = 0 /\ N + 0 = N
    BY <1>1, <1>2
  <2>2. h[0] = (IF N = 0 THEN 0 ELSE g[0]) + (g[N] - g[N]) + 0
    BY <2>1
  <2>3. h[n] = (IF N = 0 THEN 0 ELSE g[n]) + (g[N + n] - g[N]) + n * c
    BY <2>1
  <2>4. g[N] \in Nat /\ g[N + n] \in Nat /\ n * c \in Nat
    BY <1>1, <1>8, <1>9, <2>1
  <2>5. (IF N = 0 THEN 0 ELSE g[n]) = g[N]
    BY <1>1, <1>6
  <2> HIDE DEF h
  <2>6. (IF N = 0 THEN 0 ELSE g[0]) = 0
    BY ONLY <1>6
  <2>7. h[0] = 0
    <3>1. \A a \in Nat : 0 + (a - a) + 0 = 0
      OBVIOUS
    <3> QED
      BY ONLY <2>2, <2>4, <2>6, <3>1
  <2>8. h[n] = g[N + n] + n * c
    <3>1. \A a, b, d \in Nat : a + (b - a) + d = b + d
      OBVIOUS
    <3> QED
      BY ONLY <2>3, <2>4, <2>5, <3>1
  <2> QED
    BY ONLY <1>3, <2>7, <2>8
<1>14. Len(FlattenSeq(ws)) \in Nat /\ Chars(f) \in Nat /\ Len(FlattenSeq(ws)) <= Chars(f) + n * c
  <2>1. Len(FlattenSeq(ws)) \in Nat
    BY ONLY <1>12
  <2>2. Chars(f) \in Nat
    BY <1>1, <1>3, <1>8
  <2> HIDE DEF h
  <2> QED
    BY ONLY <1>12, <1>13, <2>1, <2>2
<1>15. TextOf(f) = <<Bracket[f.of.type][1]>> \o When(fmt /\ IsObject(f.of), <<NEWLINE>>)
                    \o FlattenSeq(ws) \o When(fmt /\ IsObject(f.of), Tabs(Depth - 1)) \o <<Bracket[f.of.type][2]>>
  BY DEF TextOf, EntryOf, ws, n
<1>16. /\ <<Bracket[f.of.type][1]>> \in Seq(Char) /\ <<Bracket[f.of.type][2]>> \in Seq(Char)
  <2>1. f.of.type \in {"cJSON_Array", "cJSON_Object"}
    BY DEF Full, Bracket
  <2>2. /\ Bracket["cJSON_Array"][1] = 91 /\ Bracket["cJSON_Array"][2] = 93
        /\ Bracket["cJSON_Object"][1] = 123 /\ Bracket["cJSON_Object"][2] = 125
    BY DEF Bracket
  <2> QED
    BY ONLY <2>1, <2>2, CharsAre
<1> DEFINE o == <<Bracket[f.of.type][1]>>
           e == <<Bracket[f.of.type][2]>>
           w == FlattenSeq(ws)
           nl == When(fmt /\ IsObject(f.of), <<NEWLINE>>)
           t == When(fmt /\ IsObject(f.of), Tabs(Depth - 1))
<1>17. /\ nl \in Seq(Char) /\ Len(nl) = IF fmt /\ IsObject(f.of) THEN 1 ELSE 0
       /\ t \in Seq(Char) /\ Len(t) = IF fmt /\ IsObject(f.of) THEN Depth - 1 ELSE 0
  <2>1. Tabs(Depth - 1) \in Seq(Char) /\ Len(Tabs(Depth - 1)) = Depth - 1
    BY TabsIs
  <2> QED
    BY <2>1, CharsAre, WhenIs
<1>18. o \in Seq(Char) /\ Len(o) = 1 /\ e \in Seq(Char) /\ Len(e) = 1
  BY <1>16, CharsAre
<1>19. w \in Seq(Char) /\ Len(w) \in Nat /\ Len(w) <= Chars(f) + n * c
  BY ONLY <1>12, <1>14
<1>20. TextOf(f) = o \o nl \o w \o t \o e
  BY <1>15
<1> HIDE DEF o, e, w, nl, t
<1>21. o \o nl \in Seq(Char) /\ Len(o \o nl) = 1 + Len(nl)
  BY ONLY <1>17, <1>18, Joined, ZenonT(30)
<1>22. o \o nl \o w \in Seq(Char) /\ Len(o \o nl \o w) = 1 + Len(nl) + Len(w)
  BY ONLY <1>21, <1>19, Joined
<1>23. o \o nl \o w \o t \in Seq(Char) /\ Len(o \o nl \o w \o t) = 1 + Len(nl) + Len(w) + Len(t)
  BY ONLY <1>22, <1>17, Joined
<1>24. /\ o \o nl \o w \o t \o e \in Seq(Char)
       /\ Len(o \o nl \o w \o t \o e) = 1 + Len(nl) + Len(w) + Len(t) + 1
  BY ONLY <1>23, <1>18, Joined
<1>25. TextOf(f) \in Seq(Char) /\ Len(TextOf(f)) = 1 + Len(nl) + Len(w) + Len(t) + 1
  BY ONLY <1>20, <1>24
<1>26. Room(f) = Chars(f) + IF IsObject(f.of) THEN 7 + (IF fmt THEN Depth ELSE 0) + n * c ELSE 5 + n * c
  BY DEF Room, Extra, n, c
<1>27. n * c \in Nat
  BY <1>1, <1>9
<1>28. Len(TextOf(f)) + 1 <= Room(f)
  <2>1. \A a, b, d \in Nat : a <= b + d =>
          /\ 1 + 1 + a + (Depth - 1) + 1 + 1 <= b + (7 + Depth + d)
          /\ 1 + 0 + a + 0 + 1 + 1 <= b + (7 + 0 + d)
          /\ 1 + 0 + a + 0 + 1 + 1 <= b + (5 + d)
    OBVIOUS
  <2>2. CASE IsObject(f.of) /\ fmt
    <3>1. /\ Len(TextOf(f)) + 1 = 1 + 1 + Len(w) + (Depth - 1) + 1 + 1
          /\ Room(f) = Chars(f) + (7 + Depth + n * c)
      BY ONLY <1>17, <1>25, <1>26, <2>2
    <3> QED
      BY ONLY <1>14, <1>19, <1>27, <2>1, <3>1
  <2>3. CASE IsObject(f.of) /\ ~fmt
    <3>1. /\ Len(TextOf(f)) + 1 = 1 + 0 + Len(w) + 0 + 1 + 1
          /\ Room(f) = Chars(f) + (7 + 0 + n * c)
      BY ONLY <1>17, <1>25, <1>26, <2>3
    <3> QED
      BY ONLY <1>14, <1>19, <1>27, <2>1, <3>1
  <2>4. CASE ~IsObject(f.of)
    <3>1. /\ Len(TextOf(f)) + 1 = 1 + 0 + Len(w) + 0 + 1 + 1
          /\ Room(f) = Chars(f) + (5 + n * c)
      BY ONLY <1>17, <1>25, <1>26, <2>4
    <3> QED
      BY ONLY <1>14, <1>19, <1>27, <2>1, <3>1
  <2> QED
    BY ONLY <2>2, <2>3, <2>4
<1>29. Room(f) \in Nat
  <2>1. \A a, b, d \in Nat :
          7 + b + d \in Nat /\ 7 + 0 + d \in Nat /\ 5 + d \in Nat /\ a + d \in Nat
    OBVIOUS
  <2>2. Depth \in Nat /\ Chars(f) \in Nat
    BY <1>14
  <2> QED
    BY ONLY <1>26, <1>27, <2>1, <2>2
<1> QED
  BY ONLY <1>25, <1>28, <1>29
=============================================================================

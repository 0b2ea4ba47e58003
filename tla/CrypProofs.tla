----------------------------- MODULE CrypProofs -----------------------------
(***************************************************************************)
(* Proofs about cryp.c, for buffers of any size, words of any width and any *)
(* magic.                                                                   *)
(***************************************************************************)
EXTENDS Cryp, TLAPS

\* Applying a key twice undoes it.
LEMMA XorTwice == ASSUME NEW a, NEW b PROVE Xor(Xor(a, b), b) = a
BY DEF Xor

\* Two different magics never cancel out.
LEMMA XorCancel ==
  ASSUME NEW a, NEW m, NEW n, NEW s, Xor(Xor(a, Xor(m, s)), Xor(n, s)) = a
  PROVE  m = n
BY DEF Xor

\* The operations on words yield words.
LEMMA WordOps ==
  ASSUME NEW a \in Word, NEW b \in Word, NEW n \in Nat
  PROVE  Xor(a, b) \in Word /\ loop_left_shift(a, n) \in Word
<1>1. Xor(a, b) \in Word
  BY DEF Xor, Word
<1>2. ASSUME NEW k \in a PROVE (k + n) % W \in 0 .. W - 1
  BY CrypAssumption DEF Word
<1>3. loop_left_shift(a, n) \in Word
  BY <1>2 DEF loop_left_shift, Word
<1> QED
  BY <1>1, <1>3

\* The initial state, the call of enc(), is well typed.
LEMMA InitType == Init => TypeOK
<1> SUFFICES ASSUME Init PROVE TypeOK
  OBVIOUS
<1>1. len64 \in Nat /\ buf0 \in [0 .. len64 - 1 -> Word] /\ magic \in [{"enc", "dec"} -> Word]
  BY CrypAssumption DEF Init
<1>2. FirstKey(magic["enc"]) \in Word
  BY <1>1, CrypAssumption, WordOps, 0 \in Nat DEF FirstKey
<1> QED
  BY <1>1, <1>2 DEF Init, TypeOK

\* Each iteration and each return keeps the state well typed.
LEMMA StepType == TypeOK /\ [Next]_vars => TypeOK'
<1> SUFFICES ASSUME TypeOK, [Next]_vars PROVE TypeOK'
  OBVIOUS
<1>1. CASE Iterate
  <2>1. i \in 0 .. len64 - 1 /\ buf64[i] \in Word
    BY <1>1 DEF Iterate, TypeOK
  <2>2. Xor(buf64[i], magic64) \in Word /\ NextKey(i) \in Word
    BY <2>1, WordOps DEF TypeOK, NextKey
  <2>3. buf64' \in [0 .. len64 - 1 -> Word]
    BY <1>1, <2>1, <2>2 DEF Iterate, TypeOK
  <2>4. DOMAIN stream' \subseteq Nat /\ \A j \in DOMAIN stream' : stream'[j] \in Word
    <3>1. CASE pass = "enc"
      <4>1. stream' = [j \in DOMAIN stream \cup {i} |-> IF j = i THEN magic64 ELSE stream[j]]
        BY <1>1, <3>1 DEF Iterate
      <4> QED
        BY <4>1 DEF TypeOK
    <3>2. CASE pass # "enc"
      BY <1>1, <3>2 DEF Iterate, TypeOK
    <3> QED
      BY <3>1, <3>2
  <2> QED
    BY <1>1, <2>2, <2>3, <2>4 DEF Iterate, TypeOK
<1>2. CASE Return
  <2>1. FirstKey(magic["dec"]) \in Word
    BY CrypAssumption, WordOps, 0 \in Nat DEF TypeOK, FirstKey
  <2> QED
    BY <1>2, <2>1 DEF Return, TypeOK
<1>3. CASE UNCHANGED vars
  BY <1>3 DEF vars, TypeOK
<1> QED
  BY <1>1, <1>2, <1>3 DEF Next

\* The type of every variable of enc() and dec().
THEOREM TypeCorrect == Spec => []TypeOK
BY InitType, StepType, PTL DEF Spec

-----------------------------------------------------------------------------
\* The first word under two keys.
LEMMA FirstWordInit == Init /\ TypeOK => FirstWordInv
BY DEF Init, TypeOK, FirstWordInv

\* Only the first iteration of a pass touches the first word.
LEMMA FirstWordStep == TypeOK /\ FirstWordInv /\ [Next]_vars => FirstWordInv'
<1> SUFFICES ASSUME TypeOK, FirstWordInv, [Next]_vars, len64 > 0 PROVE FirstWordInv'
  BY DEF FirstWordInv, Next, Iterate, Return, vars
<1> DEFINE once  == Xor(buf0[0], FirstKey(magic["enc"]))
           twice == Xor(once, FirstKey(magic["dec"]))
<1>0. /\ pass = "enc" /\ i = 0 => buf64[0] = buf0[0] /\ magic64 = FirstKey(magic["enc"])
      /\ pass = "enc" /\ i > 0 => buf64[0] = once
      /\ pass = "dec" /\ i = 0 => buf64[0] = once /\ magic64 = FirstKey(magic["dec"])
      /\ pass = "dec" /\ i > 0 => buf64[0] = twice
      /\ pass = "done" => buf64[0] = twice
  BY DEF FirstWordInv
<1>1. CASE Iterate
  <2>1. /\ pass' = pass /\ i' > 0 /\ pass \in {"enc", "dec"}
        /\ buf0' = buf0 /\ magic' = magic /\ len64' = len64
    BY <1>1 DEF Iterate, TypeOK
  <2>2. buf64'[0] = IF i = 0 THEN Xor(buf64[0], magic64) ELSE buf64[0]
    BY <1>1 DEF Iterate, TypeOK
  <2>3. i = 0 \/ i > 0
    BY DEF TypeOK
  <2>4. pass = "enc" => buf64'[0] = once
    BY <1>0, <2>2, <2>3
  <2>5. pass = "dec" => buf64'[0] = twice
    BY <1>0, <2>2, <2>3
  <2> QED
    BY <2>1, <2>4, <2>5 DEF FirstWordInv
<1>2. CASE Return
  <2>1. /\ i > 0 /\ i' = 0 /\ pass \in {"enc", "dec"}
        /\ pass' = IF pass = "enc" THEN "dec" ELSE "done"
        /\ magic64' = FirstKey(magic["dec"])
        /\ buf64' = buf64 /\ buf0' = buf0 /\ magic' = magic /\ len64' = len64
    BY <1>2 DEF Return, TypeOK
  <2> QED
    BY <1>0, <2>1 DEF FirstWordInv
<1>3. CASE UNCHANGED vars
  BY <1>3 DEF vars, FirstWordInv
<1> QED
  BY <1>1, <1>2, <1>3 DEF Next

\* Two ends whose magics differ never understand each other: what comes out of
\* dec() differs from what went into enc(), for any buffer of at least a word.
THEOREM WrongMagic == Spec => []WrongMagicScrambles
<1>1. TypeOK /\ FirstWordInv => WrongMagicScrambles
  <2> SUFFICES ASSUME TypeOK, FirstWordInv, pass = "done", magic["enc"] # magic["dec"],
                      len64 > 0, buf64 = buf0
               PROVE  FALSE
    BY DEF WrongMagicScrambles
  <2>1. Xor(Xor(buf0[0], Xor(magic["enc"], SALT)), Xor(magic["dec"], SALT)) = buf0[0]
    BY DEF FirstWordInv, FirstKey
  <2> QED
    BY <2>1, XorCancel
<1> QED
  BY <1>1, TypeCorrect, InitType, FirstWordInit, FirstWordStep, PTL DEF Spec

-----------------------------------------------------------------------------
(***************************************************************************)
(* The key streams of the two passes agree.                                *)
(***************************************************************************)

\* At first no key has been used.
LEMMA KeysInit == Init /\ TypeOK => KeysInv /\ WordsInv
<1> SUFFICES ASSUME Init, TypeOK PROVE KeysInv /\ WordsInv
  OBVIOUS
<1>1. DOMAIN stream = {} /\ i = 0 /\ pass = "enc" /\ buf64 = buf0
  BY DEF Init
<1>2. {j \in 0 .. len64 - 1 : j % 4 = 0 /\ (pass = "enc" => j < i)} = {}
  BY <1>1
<1>3. magic64 = StreamKey(i)
  BY <1>1 DEF Init, StreamKey
<1>4. KeysInv
  BY <1>1, <1>2, <1>3 DEF KeysInv
<1>5. WordsInv
  BY <1>1 DEF WordsInv, Encoded
<1> QED
  BY <1>4, <1>5

\* An iteration of enc() records the key it derives.
LEMMA KeysEnc ==
  ASSUME TypeOK, KeysInv, WordsInv, Iterate, pass = "enc"
  PROVE  KeysInv' /\ WordsInv'
<1>0. i \in Nat /\ len64 \in Nat /\ i % 4 = 0 /\ i < len64
  BY DEF TypeOK, KeysInv, Iterate
<1>1. /\ stream' = [j \in DOMAIN stream \cup {i} |-> IF j = i THEN magic64 ELSE stream[j]]
      /\ buf64' = [buf64 EXCEPT ![i] = Xor(buf64[i], magic64)]
      /\ magic64' = loop_left_shift(magic64, i)
      /\ i' = i + 4
      /\ buf0' = buf0 /\ magic' = magic /\ len64' = len64 /\ pass' = "enc"
  BY DEF Iterate, NextKey
<1>2. DOMAIN stream = {j \in 0 .. len64 - 1 : j % 4 = 0 /\ j < i}
  BY DEF KeysInv
<1>3. DOMAIN stream' = {j \in 0 .. len64 - 1 : j % 4 = 0 /\ j < i + 4}
  <2>1. ASSUME NEW j \in 0 .. len64 - 1, j % 4 = 0, j < i + 4 PROVE j < i \/ j = i
    BY <1>0, <2>1
  <2>2. DOMAIN stream' = DOMAIN stream \cup {i}
    BY <1>1
  <2> QED
    BY <1>0, <1>2, <2>1, <2>2
<1>4. magic64 = StreamKey(i)
  BY DEF KeysInv
<1>5. ASSUME NEW j \in DOMAIN stream PROVE stream'[j] = stream[j] /\ stream[j] = StreamKey(j)
  BY <1>0, <1>1, <1>2 DEF KeysInv
<1>6. stream'[i] = magic64
  BY <1>1
<1>7. \A j \in DOMAIN stream' : stream'[j] = StreamKey(j)'
  <2> SUFFICES ASSUME NEW j \in DOMAIN stream' PROVE stream'[j] = StreamKey(j)'
    OBVIOUS
  <2>1. stream'[j] = StreamKey(j)
    BY <1>1, <1>4, <1>5, <1>6
  <2>2. j \in Nat /\ j % 4 = 0 /\ j < i + 4
    BY <1>3
  <2>3. CASE j = 0
    BY <2>1, <2>3, <1>1 DEF StreamKey
  <2>4. CASE j # 0
    <3>1. j - 4 \in DOMAIN stream
      BY <2>2, <2>4, <1>0, <1>2, <1>3
    <3>2. stream'[j - 4] = stream[j - 4]
      BY <3>1, <1>5
    <3> QED
      BY <2>1, <2>4, <3>2, <1>1 DEF StreamKey
  <2> QED
    BY <2>3, <2>4
<1>8. magic64' = StreamKey(i)'
  <2>1. i + 4 # 0 /\ (i + 4) - 4 = i
    BY <1>0
  <2> QED
    BY <2>1, <1>1, <1>6 DEF StreamKey
<1>9. KeysInv'
  <2>1. (i + 4) % 4 = 0
    BY <1>0
  <2> QED
    BY <2>1, <1>1, <1>3, <1>7, <1>8 DEF KeysInv
<1>10. WordsInv'
  <2>1. ASSUME NEW j \in 0 .. len64 - 1
        PROVE  buf64'[j] = IF j \in DOMAIN stream' THEN Xor(buf0[j], stream'[j]) ELSE buf0[j]
    <3>1. buf64[j] = IF j \in DOMAIN stream THEN Xor(buf0[j], stream[j]) ELSE buf0[j]
      BY DEF WordsInv, Encoded
    <3>2. CASE j = i
      BY <3>1, <3>2, <1>0, <1>1, <1>2, <1>6 DEF TypeOK
    <3>3. CASE j # i
      BY <3>1, <3>3, <1>1, <1>5 DEF TypeOK
    <3> QED
      BY <3>2, <3>3
  <2> QED
    BY <2>1, <1>1 DEF WordsInv, Encoded
<1> QED
  BY <1>9, <1>10

\* An iteration of dec() derives the key that enc() recorded, and removes it.
LEMMA KeysDec ==
  ASSUME TypeOK, KeysInv, WordsInv, Iterate, pass = "dec"
  PROVE  KeysInv' /\ WordsInv'
<1>0. i \in Nat /\ len64 \in Nat /\ i % 4 = 0 /\ i < len64
  BY DEF TypeOK, KeysInv, Iterate
<1>1. /\ stream' = stream
      /\ buf64' = [buf64 EXCEPT ![i] = Xor(buf64[i], magic64)]
      /\ magic64' = loop_left_shift(magic64, i)
      /\ i' = i + 4
      /\ buf0' = buf0 /\ magic' = magic /\ len64' = len64 /\ pass' = "dec"
  BY DEF Iterate, NextKey
<1>2. DOMAIN stream = {j \in 0 .. len64 - 1 : j % 4 = 0}
  BY DEF KeysInv
<1>3. i \in DOMAIN stream
  BY <1>0, <1>2
<1>4. SameMagic => magic64 = stream[i]
  BY <1>3 DEF KeysInv
<1>5. KeysInv'
  <2>1. (i + 4) % 4 = 0 /\ i + 4 # 0 /\ (i + 4) - 4 = i
    BY <1>0
  <2>2. \A j \in DOMAIN stream' : stream'[j] = StreamKey(j)'
    BY <1>1 DEF KeysInv, StreamKey
  <2>3. SameMagic' => magic64' = StreamKey(i)'
    BY <2>1, <1>1, <1>4 DEF StreamKey, SameMagic
  <2> QED
    BY <2>1, <2>2, <2>3, <1>1, <1>2 DEF KeysInv
<1>6. WordsInv'
  <2> SUFFICES ASSUME SameMagic, NEW j \in 0 .. len64 - 1
               PROVE  buf64'[j] = IF j \in DOMAIN stream /\ ~(j < i + 4)
                                    THEN Xor(buf0[j], stream[j]) ELSE buf0[j]
    BY <1>1 DEF WordsInv, Encoded, SameMagic
  <2>1. buf64[j] = IF j \in DOMAIN stream /\ ~(j < i) THEN Xor(buf0[j], stream[j]) ELSE buf0[j]
    BY DEF WordsInv, Encoded
  <2>2. CASE j = i
    <3>1. buf64[i] = Xor(buf0[i], stream[i])
      BY <2>1, <2>2, <1>0, <1>3
    <3>2. buf64'[i] = buf0[i]
      BY <3>1, <1>0, <1>1, <1>4, XorTwice DEF TypeOK
    <3> QED
      BY <2>2, <3>2, <1>0
  <2>3. CASE j # i
    <3>1. buf64'[j] = buf64[j]
      BY <2>3, <1>1 DEF TypeOK
    <3>2. j \in DOMAIN stream => (j < i <=> j < i + 4)
      BY <2>3, <1>0, <1>2
    <3> QED
      BY <2>1, <3>1, <3>2
  <2> QED
    BY <2>2, <2>3
<1> QED
  BY <1>5, <1>6

\* A return leaves the words as they are; dec() starts from the first key.
LEMMA KeysReturn ==
  ASSUME TypeOK, KeysInv, WordsInv, Return
  PROVE  KeysInv' /\ WordsInv'
<1>0. i \in Nat /\ len64 \in Nat /\ i >= len64 /\ pass \in {"enc", "dec"}
  BY DEF TypeOK, Return
<1>1. /\ stream' = stream /\ buf64' = buf64 /\ i' = 0
      /\ magic64' = FirstKey(magic["dec"])
      /\ pass' = IF pass = "enc" THEN "dec" ELSE "done"
      /\ buf0' = buf0 /\ magic' = magic /\ len64' = len64
  BY DEF Return
<1>2. DOMAIN stream = {j \in 0 .. len64 - 1 : j % 4 = 0}
  <2>1. \A j \in 0 .. len64 - 1 : j < i
    BY <1>0
  <2> QED
    BY <2>1, <1>0 DEF KeysInv
<1>3. KeysInv'
  <2>1. \A j \in DOMAIN stream' : stream'[j] = StreamKey(j)'
    BY <1>1 DEF KeysInv, StreamKey
  <2>2. SameMagic' => magic64' = StreamKey(i)'
    BY <1>1 DEF StreamKey, SameMagic
  <2> QED
    BY <2>1, <2>2, <1>0, <1>1, <1>2 DEF KeysInv
<1>4. WordsInv'
  <2> SUFFICES ASSUME SameMagic, NEW j \in 0 .. len64 - 1
               PROVE  buf64[j] = IF Encoded(j)' THEN Xor(buf0[j], stream[j]) ELSE buf0[j]
    BY <1>0, <1>1 DEF WordsInv, SameMagic
  <2>1. buf64[j] = IF Encoded(j) THEN Xor(buf0[j], stream[j]) ELSE buf0[j]
    BY <1>0 DEF WordsInv
  <2>2. Encoded(j)' <=> Encoded(j)
    <3>1. j < i /\ ~(j < 0)
      BY <1>0
    <3> QED
      BY <3>1, <1>0, <1>1 DEF Encoded
  <2> QED
    BY <2>1, <2>2
<1> QED
  BY <1>3, <1>4

\* Every step preserves the agreement of the key streams.
LEMMA KeysStep == TypeOK /\ KeysInv /\ WordsInv /\ [Next]_vars => KeysInv' /\ WordsInv'
<1> SUFFICES ASSUME TypeOK, KeysInv, WordsInv, [Next]_vars PROVE KeysInv' /\ WordsInv'
  OBVIOUS
<1>1. CASE Iterate
  <2>1. pass = "enc" \/ pass = "dec"
    BY <1>1 DEF Iterate, TypeOK
  <2> QED
    BY <1>1, <2>1, KeysEnc, KeysDec
<1>2. CASE Return
  BY <1>2, KeysReturn
<1>3. CASE UNCHANGED vars
  BY <1>3 DEF vars, KeysInv, WordsInv, StreamKey, Encoded, SameMagic
<1> QED
  BY <1>1, <1>2, <1>3 DEF Next

\* What the unit test of cryp.c samples: dec() undoes enc() with the same magic,
\* for every buffer and every magic.
THEOREM DecUndoesEnc == Spec => []RoundTrip
<1>1. TypeOK /\ KeysInv /\ WordsInv => RoundTrip
  <2> SUFFICES ASSUME TypeOK, WordsInv, pass = "done", magic["enc"] = magic["dec"]
               PROVE  buf64 = buf0
    BY DEF RoundTrip
  <2>1. \A j \in 0 .. len64 - 1 : buf64[j] = buf0[j]
    BY DEF WordsInv, SameMagic, Encoded
  <2> QED
    BY <2>1 DEF TypeOK
<1> QED
  BY <1>1, TypeCorrect, InitType, KeysInit, KeysStep, PTL DEF Spec
=============================================================================

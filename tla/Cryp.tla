-------------------------------- MODULE Cryp --------------------------------
(***************************************************************************)
(* cryp.c: a buffer goes through enc() and then through dec(), as in its    *)
(* unit test and as between two tunnels.  A 64-bit word is the set of its   *)
(* bits that are 1, so ^ is the symmetric difference.  The bytes after the  *)
(* last whole word are never touched and are left out.                      *)
(***************************************************************************)
EXTENDS Integers

CONSTANTS
  W,        \* bits of a word (64)
  SALT,
  Lengths,  \* the buffer sizes that may be passed in, in words
  Words,    \* the words a buffer may hold
  Magics    \* the magics of the two ends

Word == SUBSET (0 .. W - 1)

ASSUME CrypAssumption ==
  /\ W \in Nat \ {0}
  /\ SALT \in Word
  /\ Lengths \subseteq Nat
  /\ Words \subseteq Word
  /\ Magics \subseteq Word

VARIABLES
  buf0,     \* the buffer before enc()
  magic,    \* the magic passed to enc() and the one passed to dec()
  buf64, len64, i, magic64,   \* enc(), which dec() calls too
  pass,     \* which of the two calls is under way
  stream    \* history: the keys enc() has used, by index

vars == <<buf0, magic, buf64, len64, i, magic64, pass, stream>>

Xor(a, b) == (a \ b) \cup (b \ a)

\* A shift by 64 - 0 is undefined in C; whether the machine yields 0 or a for
\* a >> 64, the result of rotating by 0 is a.
loop_left_shiftMut(a, n) == {k + n : k \in a}
loop_left_shift(a, n) == {(k + n) % W : k \in a}

FirstKeyMut(m) == SALT
FirstKey(m) == Xor(m, SALT)

NextKeyMut(j) == Xor(magic64, buf64[j])
NextKey(j) == loop_left_shift(magic64, j)

Init ==
  /\ len64 \in Lengths
  /\ buf0 \in [0 .. len64 - 1 -> Words]
  /\ magic \in [{"enc", "dec"} -> Magics]
  /\ buf64 = buf0
  /\ i = 0
  /\ magic64 = FirstKey(magic["enc"])
  /\ pass = "enc"
  /\ stream = [j \in {} |-> {}]

\* One iteration of the loop: every fourth word is encoded.
Iterate ==
  /\ pass # "done"
  /\ i < len64
  /\ buf64' = [buf64 EXCEPT ![i] = Xor(@, magic64)]
  /\ magic64' = NextKey(i)
  /\ i' = i + 4
  /\ stream' = IF pass = "enc"
                 THEN [j \in DOMAIN stream \cup {i} |-> IF j = i THEN magic64 ELSE stream[j]]
                 ELSE stream
  /\ UNCHANGED <<buf0, magic, len64, pass>>

\* The call returns; after enc() comes dec().
Return ==
  /\ pass # "done"
  /\ i >= len64
  /\ pass' = IF pass = "enc" THEN "dec" ELSE "done"
  /\ i' = 0
  /\ magic64' = FirstKey(magic["dec"])
  /\ UNCHANGED <<buf0, magic, buf64, len64, stream>>

Next == Iterate \/ Return

Spec == Init /\ [][Next]_vars

-----------------------------------------------------------------------------
\* The type of every variable.
TypeOK ==
  /\ len64 \in Nat
  /\ buf0 \in [0 .. len64 - 1 -> Word]
  /\ buf64 \in [0 .. len64 - 1 -> Word]
  /\ magic \in [{"enc", "dec"} -> Word]
  /\ i \in Nat
  /\ magic64 \in Word
  /\ pass \in {"enc", "dec", "done"}
  /\ DOMAIN stream \subseteq Nat
  /\ \A j \in DOMAIN stream : stream[j] \in Word

\* The unit test: dec() gives back the buffer that enc() was given, when both
\* get the same magic.
RoundTrip == pass = "done" /\ magic["enc"] = magic["dec"] => buf64 = buf0

\* With another magic dec() gives back something else, whatever the buffer, as
\* soon as it has one whole word.
WrongMagicScrambles ==
  pass = "done" /\ magic["enc"] # magic["dec"] /\ len64 > 0 => buf64 # buf0

-----------------------------------------------------------------------------
(***************************************************************************)
(* The inductive invariant behind RoundTrip and WrongMagicScrambles.       *)
(***************************************************************************)

SameMagic == magic["enc"] = magic["dec"]

\* The key for word j, from the key for the word before.
StreamKey(j) ==
  IF j = 0 THEN FirstKey(magic["enc"]) ELSE loop_left_shift(stream[j - 4], j - 4)

\* dec() derives the keys that enc() used.
KeysInv ==
  /\ i % 4 = 0
  /\ DOMAIN stream = {j \in 0 .. len64 - 1 : j % 4 = 0 /\ (pass = "enc" => j < i)}
  /\ \A j \in DOMAIN stream : stream[j] = StreamKey(j)
  /\ pass = "enc" \/ (pass = "dec" /\ SameMagic) => magic64 = StreamKey(i)

\* The words that are encoded at the moment.
Encoded(j) == j \in DOMAIN stream /\ pass # "done" /\ ~(pass = "dec" /\ j < i)
WordsInv ==
  pass = "enc" \/ SameMagic =>
    \A j \in 0 .. len64 - 1 :
      buf64[j] = IF Encoded(j) THEN Xor(buf0[j], stream[j]) ELSE buf0[j]

\* What has become of the first word.
FirstWordInv ==
  len64 > 0 =>
    LET once  == Xor(buf0[0], FirstKey(magic["enc"]))
        twice == Xor(once, FirstKey(magic["dec"]))
    IN  /\ pass = "enc" /\ i = 0 => buf64[0] = buf0[0] /\ magic64 = FirstKey(magic["enc"])
        /\ pass = "enc" /\ i > 0 => buf64[0] = once
        /\ pass = "dec" /\ i = 0 => buf64[0] = once /\ magic64 = FirstKey(magic["dec"])
        /\ pass = "dec" /\ i > 0 => buf64[0] = twice
        /\ pass = "done" => buf64[0] = twice
=============================================================================

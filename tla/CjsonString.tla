---------------------------- MODULE CjsonString ----------------------------
(***************************************************************************)
(* Strings of cJSON.c: how parse_string turns a quoted, escaped string into *)
(* bytes, how print_string_ptr writes one, and how much memory each of them *)
(* asks for.                                                                *)
(*                                                                         *)
(* A char array is a sequence of bytes without the terminating 0; reading   *)
(* at any place past its end yields that 0.                                 *)
(***************************************************************************)
EXTENDS Integers, Sequences, SequencesExt, FiniteSetsExt

CONSTANT NULL

TAB == 9
NEWLINE == 10
SPACE == 32
QUOTE == 34
BACKSLASH == 92
LetterU == 117

\* A byte of a string.
Char == 1 .. 255

At(s, i) == IF i \in DOMAIN s THEN s[i] ELSE 0

-----------------------------------------------------------------------------
(***************************************************************************)
(* Reading.  s is the text and i the place of the opening quote.            *)
(***************************************************************************)

\* The letters b f n r t after a backslash, and what they stand for; any other
\* character stands for itself.
Short == [c \in {98, 102, 110, 114, 116} |->
            CASE c = 98 -> 8 [] c = 102 -> 12 [] c = 110 -> 10 [] c = 114 -> 13 [] c = 116 -> 9]
Unescaped(c) == IF c \in DOMAIN Short THEN Short[c] ELSE c

\* Whether a character is escaped by the backslash before it.
EscapedIn(s, i) ==
  LET esc[k \in i .. Len(s) + 1] == k > i + 1 /\ s[k - 1] = BACKSLASH /\ ~esc[k - 1]
  IN  esc

\* Where the string ends: its closing quote, or the end of the text.
StringEnd(s, i) ==
  Min({Len(s) + 1} \cup {k \in i + 1 .. Len(s) : s[k] = QUOTE /\ ~EscapedIn(s, i)[k]})

\* The text ends in a backslash that escapes nothing.
LoneBackslash(s, i) == StringEnd(s, i) > Len(s) /\ EscapedIn(s, i)[Len(s) + 1]

\* The memory asked for: an escape counts as one character, as its other
\* characters, if any, are counted themselves.
StringRoomMut(s, i) ==
  LET InEscape(k) == \E n \in 1 .. 4 : k - n > i /\ s[k - n] = LetterU /\ EscapedIn(s, i)[k - n]
  IN  Cardinality({k \in i + 1 .. StringEnd(s, i) - 1 : ~EscapedIn(s, i)[k] /\ ~InEscape(k)}) + 1
StringRoom(s, i) == Cardinality({k \in i + 1 .. StringEnd(s, i) - 1 : ~EscapedIn(s, i)[k]}) + 1

Nibble(c) ==
  CASE c \in 48 .. 57  -> c - 48
    [] c \in 65 .. 70  -> c - 55
    [] c \in 97 .. 102 -> c - 87
    [] OTHER           -> -1

\* Four hexadecimal digits; 0 when one of them is none.
parse_hex4(s, k) ==
  LET d(n) == Nibble(At(s, k + n))
  IN  IF \E n \in 0 .. 3 : d(n) = -1 THEN 0 ELSE 16 * (16 * (16 * d(0) + d(1)) + d(2)) + d(3)

HighSurrogate == 55296 .. 56319
LowSurrogate == 56320 .. 57343

\* A code point as UTF-8: n bytes, the first of which says how many.
Tail6(uc) == 128 + (uc % 64)
UTF8Mut(uc) ==
  IF uc < 128 THEN <<uc>>
  ELSE IF uc <= 2048 THEN <<192 + uc \div 64, Tail6(uc)>>
  ELSE IF uc < 65536 THEN <<224 + uc \div 4096, Tail6(uc \div 64), Tail6(uc)>>
  ELSE <<240 + uc \div 262144, Tail6(uc \div 4096), Tail6(uc \div 64), Tail6(uc)>>
UTF8(uc) ==
  IF uc < 128 THEN <<uc>>
  ELSE IF uc < 2048 THEN <<192 + uc \div 64, Tail6(uc)>>
  ELSE IF uc < 65536 THEN <<224 + uc \div 4096, Tail6(uc \div 64), Tail6(uc)>>
  ELSE <<240 + uc \div 262144, Tail6(uc \div 4096), Tail6(uc \div 64), Tail6(uc)>>

Invalid == [width |-> 0, bytes |-> <<>>]

\* The escape \uXXXX at k, or a pair of them, in a string that ends at end.
Unicode(s, k, end) ==
  LET uc == parse_hex4(s, k + 2)
      uc2 == parse_hex4(s, k + 8)
      paired == /\ k + 11 <= end
                /\ At(s, k + 6) = BACKSLASH /\ At(s, k + 7) = LetterU
                /\ uc2 \in LowSurrogate
  IN  IF k + 5 >= end \/ uc = 0 \/ uc \in LowSurrogate THEN Invalid
      ELSE IF uc \notin HighSurrogate THEN [width |-> 6, bytes |-> UTF8(uc)]
      ELSE IF ~paired THEN Invalid
      ELSE [width |-> 12, bytes |-> UTF8(65536 + 1024 * (uc % 1024) + (uc2 % 1024))]

\* The character or escape at k: its width in the text and the bytes it becomes.
Unit(s, k, end) ==
  IF s[k] # BACKSLASH THEN [width |-> 1, bytes |-> <<s[k]>>]
  ELSE IF s[k + 1] = LetterU THEN Unicode(s, k, end)
  ELSE [width |-> 2, bytes |-> <<Unescaped(s[k + 1])>>]

\* The bytes of the string, as far as it is valid.
Decoded(s, i) ==
  LET end == StringEnd(s, i)
      dec[k \in i + 1 .. end + 11] ==
        IF k >= end THEN [ok |-> TRUE, bytes |-> <<>>]
        ELSE LET u == Unit(s, k, end)
             IN  IF u.width = 0 THEN [ok |-> FALSE, bytes |-> <<>>]
                 ELSE [ok |-> dec[k + u.width].ok, bytes |-> u.bytes \o dec[k + u.width].bytes]
  IN  dec[i + 1]

\* The place after the string.
AfterString(s, i) ==
  IF At(s, StringEnd(s, i)) = QUOTE THEN StringEnd(s, i) + 1 ELSE StringEnd(s, i)

-----------------------------------------------------------------------------
(***************************************************************************)
(* Writing.                                                                *)
(***************************************************************************)

HexDigit(n) == IF n < 10 THEN 48 + n ELSE 87 + n

\* One byte as it is written.
Written(c) ==
  LET letter == {l \in DOMAIN Short : Short[l] = c}
  IN  IF c \in {QUOTE, BACKSLASH} THEN <<BACKSLASH, c>>
      ELSE IF letter # {} THEN <<BACKSLASH, Min(letter)>>
      ELSE IF c < SPACE THEN <<BACKSLASH, LetterU, 48, 48, HexDigit(c \div 16), HexDigit(c % 16)>>
      ELSE <<c>>

\* print_string_ptr: the text; a string that is NULL is empty.
Quoted(str) == <<QUOTE>> \o FlattenSeq([n \in DOMAIN str |-> Written(str[n])]) \o <<QUOTE>>

\* The memory it asks for: 3 bytes for the quotes and the 0, and for each byte of
\* the string 1, an additional 1 for a backslash and 5 for \uXXXX.
ByteRoom(c) ==
  IF c \in {QUOTE, BACKSLASH, 8, 9, 10, 12, 13} THEN 2 ELSE IF c < SPACE THEN 6 ELSE 1
QuotedRoom(str) == FoldLeft(LAMBDA len, c : len + ByteRoom(c), 3, str)
=============================================================================

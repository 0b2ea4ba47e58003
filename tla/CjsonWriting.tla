---------------------------- MODULE CjsonWriting ----------------------------
(***************************************************************************)
(* The reference for CjsonText: JSON as others write it.                    *)
(***************************************************************************)
EXTENDS CjsonText

\* The code points of a string in UTF-8.
CodePoints(bytes) ==
  LET Size(c) == CASE c < 128 -> 1 [] c \in 192 .. 223 -> 2 [] c \in 224 .. 239 -> 3 [] c >= 240 -> 4
      Lead(c) == CASE c < 128 -> c [] c \in 192 .. 223 -> c - 192 [] c \in 224 .. 239 -> c - 224
                   [] c >= 240 -> c - 240
      cps[k \in 1 .. Len(bytes) + 1] ==
        IF k > Len(bytes) THEN <<>>
        ELSE <<FoldLeft(LAMBDA n, c : 64 * n + (c - 128), Lead(bytes[k]),
                        SubSeq(bytes, k + 1, k + Size(bytes[k]) - 1))>> \o cps[k + Size(bytes[k])]
  IN  cps[1]

\* \uXXXX for a UTF-16 unit; a code point above 65535 takes two.
Escape(unit) ==
  <<BACKSLASH, LetterU>> \o [n \in 1 .. 4 |-> HexDigit((unit \div 16^(4 - n)) % 16)]
Escapes(cp) ==
  IF cp < 65536 THEN Escape(cp)
  ELSE Escape(55296 + (cp - 65536) \div 1024) \o Escape(56320 + ((cp - 65536) % 1024))

\* A style: what is between two tokens, and whether strings are escapes only.
Style == {[gap |-> <<>>, escape |-> TRUE],
          [gap |-> <<SPACE, TAB, NEWLINE>>, escape |-> FALSE],
          [gap |-> <<Slash, Star, QUOTE, Star, Slash, Slash, Slash, QUOTE, NEWLINE>>, escape |-> FALSE]}
Commented(style) == Slash \in ToSet(style.gap)

WriteString(s, style) ==
  IF style.escape
    THEN <<QUOTE>> \o FlattenSeq([n \in DOMAIN CodePoints(s) |-> Escapes(CodePoints(s)[n])]) \o <<QUOTE>>
    ELSE Quoted(s)

RECURSIVE Write(_, _)
Write(v, style) ==
  LET gap == style.gap
      Kid(n) == (IF IsObject(v) THEN WriteString(v.kids[n].key, style) \o gap \o <<Colon>> ELSE <<>>)
                  \o Write(v.kids[n], style) \o When(n < Len(v.kids), <<Comma>>)
  IN  gap \o (CASE v.type \in DOMAIN Word    -> Word[v.type]
                [] v.type = "cJSON_Number"   -> Number(v.num[1])
                [] v.type = "cJSON_String"   -> WriteString(v.str, style)
                [] v.type \in DOMAIN Bracket ->
                     <<Bracket[v.type][1]>> \o FlattenSeq([n \in DOMAIN v.kids |-> gap \o Kid(n) \o gap])
                       \o gap \o <<Bracket[v.type][2]>>)
          \o gap

\* A value in a style.
Writing(v, style) == [bytes |-> Write(v, style), means |-> v, commented |-> Commented(style)]

\* Some bytes, valid or not.
AnyText(s) == [bytes |-> s, means |-> NULL, commented |-> FALSE]
=============================================================================

----------------------------- MODULE CjsonParse -----------------------------
(***************************************************************************)
(* The parser of cJSON.c: cJSON_ParseWithOpts and, below it, parse_value,   *)
(* parse_array and parse_object, which call each other; each step handles   *)
(* one value, key, bracket or comma, and malloc may fail at any of them.    *)
(*                                                                         *)
(* The C stack is the sequence up of the arrays and objects being parsed.   *)
(* Items and strings are numbered in the order they are allocated; 0 is      *)
(* NULL.                                                                    *)
(***************************************************************************)
EXTENDS CjsonString

VARIABLES
  text,      \* the argument value
  require,   \* the argument require_null_terminated
  pos,       \* where parsing has got to
  pmode,     \* what is parsed next: "idle", "value", "key", "after" (a value of an
             \* array or object), "end"; or the outcome, "parsed" or "failed"
  cur, up,   \* the item being filled, and those it is nested in
  item,      \* the memory of each item allocated
  strings,   \* how many strings have been allocated
  live,      \* the items and strings not freed
  ep,        \* the error pointer, 0 when NULL
  oom        \* history: malloc failed

memory == <<cur, up, item, strings, live>>
parse_vars == <<text, require, pos, pmode, memory, ep, oom>>

\* A char *: the block it points to and the bytes in there.
NoString == [at |-> 0, val |-> <<>>]

\* cJSON_New_Item: all bytes 0, which makes the type cJSON_False.
NewItem == [type |-> "cJSON_False", string |-> NoString, valuestring |-> NoString,
            num |-> <<0, 0>>, child |-> 0, next |-> 0, prev |-> 0]

ParseIdle ==
  /\ text = <<>>
  /\ require = FALSE
  /\ pos = 1
  /\ pmode = "idle"
  /\ cur = 0
  /\ up = <<>>
  /\ item = <<>>
  /\ strings = 0
  /\ live = {}
  /\ ep = 0
  /\ oom = FALSE

-----------------------------------------------------------------------------
(***************************************************************************)
(* The text.                                                               *)
(***************************************************************************)

skip(s, i) == Min({k \in i .. Len(s) : s[k] > SPACE} \cup {IF i > Len(s) THEN i ELSE Len(s) + 1})

\* null, false and true.
Literal == (<<110, 117, 108, 108>> :> "cJSON_NULL") @@ (<<102, 97, 108, 115, 101>> :> "cJSON_False")
             @@ (<<116, 114, 117, 101>> :> "cJSON_True")
LiteralAt(s, i) == {w \in DOMAIN Literal : \A n \in DOMAIN w : At(s, i + n - 1) = w[n]}

Digits == 48 .. 57
NumberStart == Digits \cup {45}
Run(s, i) == Min({k \in i .. Len(s) : s[k] \notin Digits} \cup {IF i > Len(s) THEN i ELSE Len(s) + 1})
Decimal(s) == FoldLeft(LAMBDA n, d : 10 * n + (d - 48), 0, s)

\* parse_number: the place after the number, and the number as mantissa and
\* power of ten.
parse_number(s, i) ==
  LET minus == At(s, i) = 45
      zero == IF minus THEN i + 1 ELSE i
      whole == IF At(s, zero) = 48 THEN zero + 1 ELSE zero
      point == IF At(s, whole) \in 49 .. 57 THEN Run(s, whole) ELSE whole
      frac == IF At(s, point) = 46 /\ At(s, point + 1) \in Digits THEN Run(s, point + 1) ELSE point
      scaled == At(s, frac) \in {69, 101}
      down == scaled /\ At(s, frac + 1) = 45
      power == IF At(s, frac + 1) \in {43, 45} THEN frac + 2 ELSE frac + 1
      end == IF scaled THEN Run(s, power) ELSE frac
      mantissa == Decimal(SubSeq(s, whole, point - 1) \o SubSeq(s, point + 1, frac - 1))
      subscale == IF scaled THEN Decimal(SubSeq(s, power, end - 1)) ELSE 0
      scale == IF frac > point THEN frac - point - 1 ELSE 0
  IN  [end |-> end,
       num |-> <<IF minus THEN -mantissa ELSE mantissa,
                 (IF down THEN -subscale ELSE subscale) - scale>>]

-----------------------------------------------------------------------------
(***************************************************************************)
(* Items.                                                                  *)
(***************************************************************************)

\* c, the items after it and those below them: what cJSON_Delete(c) frees.
Leads(m, n) == {m[n].child, m[n].next} \ {0}
Closed(m, c, S) == c \in S /\ \A n \in S : Leads(m, n) \subseteq S
Below(m, c) == {n \in DOMAIN m : \A S \in SUBSET DOMAIN m : Closed(m, c, S) => n \in S}

\* The strings of an item, both of which cJSON_Delete frees.
StringsOf(i) == {i.string.at, i.valuestring.at} \ {0}

ItemBlock(n) == <<"item", n>>
StringBlock(s) == <<"string", s>>
Blocks(m, S) == {ItemBlock(n) : n \in S} \cup {StringBlock(s) : s \in UNION {StringsOf(m[n]) : n \in S}}

\* A failure: ParseWithOpts deletes the root and returns NULL.
Fail(m, allocated, where) ==
  /\ pmode' = "failed"
  /\ ep' = where
  /\ item' = m
  /\ live' = allocated \ Blocks(m, Below(m, 1))
  /\ UNCHANGED <<text, require, pos, cur, up>>
FailAt(where) == Fail(item, live, where) /\ UNCHANGED <<strings, oom>>
OutOfMemory == Fail(item, live, ep) /\ oom' = TRUE /\ UNCHANGED strings

\* A value of the innermost array or object (parents) ends before place p.
Ends(parents, p) ==
  /\ pmode' = IF parents = <<>> THEN "end" ELSE "after"
  /\ pos' = IF parents = <<>> THEN p ELSE skip(text, p)

\* m with the string s, newly allocated, in the item cur.
Holding(s) == [item EXCEPT ![cur].valuestring = [at |-> strings + 1, val |-> s],
                           ![cur].type = "cJSON_String"]
NewString == StringBlock(strings + 1)

\* A new item i, to which m has been linked, is filled next.
New == Len(item) + 1
Enters(m, i, parents, mode, p) ==
  /\ item' = Append(m, i)
  /\ live' = live \cup {ItemBlock(New)}
  /\ cur' = New
  /\ up' = parents
  /\ pmode' = mode
  /\ pos' = p
  /\ UNCHANGED <<text, require, strings, ep, oom>>

-----------------------------------------------------------------------------
(***************************************************************************)
(* cJSON_ParseWithOpts, and parse_value with the functions it calls.        *)
(***************************************************************************)

\* The call with text s; s cannot be parsed when there is no memory for the root.
ParseStart(s, require_null) ==
  /\ pmode = "idle"
  /\ text' = s
  /\ require' = require_null
  /\ \/ /\ pmode' = "value"
        /\ pos' = skip(s, 1)
        /\ item' = <<NewItem>>
        /\ live' = {ItemBlock(1)}
        /\ cur' = 1
        /\ UNCHANGED oom
     \/ /\ pmode' = "failed"
        /\ oom' = TRUE
        /\ UNCHANGED <<pos, item, live, cur>>
  /\ UNCHANGED <<up, strings, ep>>

ParseLiteral ==
  /\ pmode = "value"
  /\ \E w \in LiteralAt(text, pos) :
       /\ item' = [item EXCEPT ![cur].type = Literal[w]]
       /\ Ends(up, pos + Len(w))
  /\ UNCHANGED <<text, require, cur, up, strings, live, ep, oom>>

ParseNumber ==
  /\ pmode = "value"
  /\ At(text, pos) \in NumberStart
  /\ LET number == parse_number(text, pos)
     IN  /\ item' = [item EXCEPT ![cur].type = "cJSON_Number", ![cur].num = number.num]
         /\ Ends(up, number.end)
  /\ UNCHANGED <<text, require, cur, up, strings, live, ep, oom>>

\* parse_string fails on something else, on a text that ends in a backslash (and
\* then sets no error pointer), without memory, and on an invalid escape, when the
\* memory is already the item's.
StringFails ==
  \/ At(text, pos) # QUOTE /\ FailAt(pos)
  \/ /\ At(text, pos) = QUOTE
     /\ \/ LoneBackslash(text, pos) /\ FailAt(ep)
        \/ /\ ~LoneBackslash(text, pos)
           /\ \/ OutOfMemory
              \/ /\ ~Decoded(text, pos).ok
                 /\ strings' = strings + 1
                 /\ Fail(Holding(<<>>), live \cup {NewString}, pos)
                 /\ UNCHANGED oom

\* parse_string succeeds, with these bytes.
StringReads == At(text, pos) = QUOTE /\ ~LoneBackslash(text, pos) /\ Decoded(text, pos).ok
StringAt == Decoded(text, pos).bytes

ParseString ==
  /\ pmode = "value"
  /\ At(text, pos) = QUOTE
  /\ \/ StringFails
     \/ /\ StringReads
        /\ item' = Holding(StringAt)
        /\ strings' = strings + 1
        /\ live' = live \cup {NewString}
        /\ Ends(up, AfterString(text, pos))
        /\ UNCHANGED <<text, require, cur, up, ep, oom>>

\* The brackets of arrays and objects.
Opening == [c \in {91, 123} |-> IF c = 91 THEN "cJSON_Array" ELSE "cJSON_Object"]
Closing == [cJSON_Array |-> 93, cJSON_Object |-> 125]
FirstPart == [cJSON_Array |-> "value", cJSON_Object |-> "key"]

\* parse_array and parse_object up to the first value or key.
ParseOpen ==
  /\ pmode = "value"
  /\ At(text, pos) \in DOMAIN Opening
  /\ LET type == Opening[At(text, pos)]
         p == skip(text, pos + 1)
     IN  IF At(text, p) = Closing[type]
           THEN /\ item' = [item EXCEPT ![cur].type = type]
                /\ Ends(up, p + 1)
                /\ UNCHANGED <<text, require, cur, up, strings, live, ep, oom>>
           ELSE \/ OutOfMemory
                \/ Enters([item EXCEPT ![cur].type = type, ![cur].child = New], NewItem,
                          Append(up, cur), FirstPart[type], p)

NotAValue ==
  /\ pmode = "value"
  /\ LiteralAt(text, pos) = {}
  /\ At(text, pos) \notin NumberStart \cup {QUOTE} \cup DOMAIN Opening
  /\ FailAt(pos)

\* The string just read becomes the key.
AsKeyMut(m) == [m EXCEPT ![cur].string = m[cur].valuestring]
AsKey(m) == [m EXCEPT ![cur].string = m[cur].valuestring, ![cur].valuestring = NoString]

\* The key of an object's member and the colon.
ParseKey ==
  /\ pmode = "key"
  /\ \/ StringFails
     \/ /\ StringReads
        /\ strings' = strings + 1
        /\ LET colon == skip(text, AfterString(text, pos))
           IN  IF At(text, colon) # 58
                 THEN Fail(AsKey(Holding(StringAt)), live \cup {NewString}, colon) /\ UNCHANGED oom
                 ELSE /\ item' = AsKey(Holding(StringAt))
                      /\ live' = live \cup {NewString}
                      /\ pmode' = "value"
                      /\ pos' = skip(text, colon + 1)
                      /\ UNCHANGED <<text, require, cur, up, ep, oom>>

\* After a value: another value or member follows, the array or object ends, or
\* the text is malformed.
ParseComma ==
  /\ pmode = "after"
  /\ At(text, pos) = 44
  /\ \/ OutOfMemory
     \/ Enters([item EXCEPT ![cur].next = New], [NewItem EXCEPT !.prev = cur], up,
               FirstPart[item[Last(up)].type], skip(text, pos + 1))

ParseClose ==
  /\ pmode = "after"
  /\ At(text, pos) = Closing[item[Last(up)].type]
  /\ cur' = Last(up)
  /\ up' = Front(up)
  /\ Ends(up', pos + 1)
  /\ UNCHANGED <<text, require, item, strings, live, ep, oom>>

Malformed ==
  /\ pmode = "after"
  /\ At(text, pos) \notin {44, Closing[item[Last(up)].type]}
  /\ FailAt(pos)

\* The rest of ParseWithOpts: nothing may follow when the caller says so.
ParseEnd ==
  /\ pmode = "end"
  /\ LET end == IF require THEN skip(text, pos) ELSE pos
     IN  IF require /\ end <= Len(text)
           THEN FailAt(end)
           ELSE /\ pmode' = "parsed"
                /\ pos' = end
                /\ UNCHANGED <<text, require, memory, ep, oom>>

Parse ==
  \/ ParseLiteral \/ ParseNumber \/ ParseString \/ ParseOpen \/ NotAValue
  \/ ParseKey \/ ParseComma \/ ParseClose \/ Malformed \/ ParseEnd

-----------------------------------------------------------------------------
\* The value the items stand for: a tree without pointers.  Each item has a type,
\* its key and, as its type has it, a string, a number or the values below it.
Parsed ==
  LET Bytes(s) == IF s.at = 0 THEN NULL ELSE s.val
      list[n \in 0 .. Len(item)] ==
        IF n = 0 THEN <<>>
        ELSE <<[type |-> item[n].type, key |-> Bytes(item[n].string),
                str |-> Bytes(item[n].valuestring), num |-> item[n].num,
                kids |-> list[item[n].child]]>> \o list[item[n].next]
  IN  Head(list[1])

\* Where the pointer to a string is kept: the field of an item.
Places(m, s) == {i \in (DOMAIN m) \X {"string", "valuestring"} : m[i[1]][i[2]].at = s}

\* At every moment at which the parser can fail, all items and strings it has
\* allocated are below the root, each of them once and the lists doubly linked,
\* so that the cJSON_Delete of ParseWithOpts frees everything; after a failure,
\* wherever malloc failed or the text was wrong, nothing is left.
ParseOwnsAll ==
  /\ pmode = "failed" => live = {}
  /\ pmode \notin {"idle", "failed"} =>
       /\ Below(item, 1) = DOMAIN item
       /\ live = Blocks(item, DOMAIN item)
       /\ \A s \in 1 .. strings : \E place \in Places(item, s) : Places(item, s) = {place}
       /\ \A n \in DOMAIN item :
            /\ item[n].next # 0 => item[item[n].next].prev = n
            /\ item[n].child # 0 => item[item[n].child].prev = 0

\* parse_string asks for memory before it knows what the escapes stand for; the
\* bytes it then writes, those before an invalid escape included, and the 0 at
\* their end are never more.
ParseFits ==
  pmode \in {"value", "key"} /\ At(text, pos) = QUOTE /\ ~LoneBackslash(text, pos) =>
    Len(Decoded(text, pos).bytes) + 1 <= StringRoom(text, pos)
=============================================================================

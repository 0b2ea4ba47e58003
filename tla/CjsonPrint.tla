----------------------------- MODULE CjsonPrint -----------------------------
(***************************************************************************)
(* The printer of cJSON.c: print_value, print_array and print_object.  It   *)
(* works in two ways, chosen by the caller: cJSON_Print(Unformatted) asks   *)
(* malloc for the text of each value and puts the texts together, and       *)
(* cJSON_PrintBuffered writes into one buffer that grows.  malloc may fail   *)
(* at each call.                                                           *)
(*                                                                         *)
(* A value is a tree: a record of its type, key, str, num and kids.          *)
(***************************************************************************)
EXTENDS CjsonString

CONSTANT Values  \* the values printed and the values in them

VARIABLES
  tree,      \* the argument item
  fmt,       \* the argument fmt
  buffered,  \* whether there is a printbuffer
  wmode,     \* "idle", "value" (print_value of node), "frame" (the innermost array
             \* or object goes on), "after" (one of its values was printed) or the
             \* outcome, "printed" or "unprintable"
  node,      \* the value to print
  frames,    \* the arrays and objects being printed, outermost first
  ret,       \* what print_value returned: a text, or an offset into the buffer
  p,         \* the printbuffer: whether there is a buffer, its bytes, offset; and, as
             \* history, stray: a byte was written past what was allocated, there or in
             \* a text of its own, or read that was not written before
  blocks     \* how many blocks malloc gave and nobody freed

call == <<tree, fmt, buffered>>
print_vars == <<call, wmode, node, frames, ret, p, blocks>>

\* A char * that is NULL, and one to this text or offset.
Null == <<>>
Ptr(w) == <<w>>

NoBuffer == [there |-> FALSE, buffer |-> <<>>, offset |-> 0, stray |-> FALSE]

PrintIdle ==
  /\ tree = NULL
  /\ fmt = FALSE
  /\ buffered = FALSE
  /\ wmode = "idle"
  /\ node = NULL
  /\ frames = <<>>
  /\ ret = Null
  /\ p = NoBuffer
  /\ blocks = 0

-----------------------------------------------------------------------------
\* Characters, and those that fmt adds.
When(c, w) == IF c THEN w ELSE <<>>
Comma == 44
Colon == 58
Tabs(n) == [k \in 1 .. n |-> TAB]
Bracket == [cJSON_Array |-> <<91, 93>>, cJSON_Object |-> <<123, 125>>]
Word == [cJSON_NULL |-> <<110, 117, 108, 108>>, cJSON_False |-> <<102, 97, 108, 115, 101>>,
         cJSON_True |-> <<116, 114, 117, 101>>]

\* A value has a type, and what its type needs: an int, a string without a 0 in it,
\* the values of an array, or those of an object with their keys.
IsValue(v) ==
  /\ v.type \in {"cJSON_Number", "cJSON_String"} \cup DOMAIN Word \cup DOMAIN Bracket
  /\ v.type = "cJSON_Number" => v.num[1] \in Int /\ -2147483647 - 1 <= v.num[1] /\ v.num[1] <= 2147483647
  /\ v.type = "cJSON_String" => v.str \in Seq(Char)
  /\ v.type \in DOMAIN Bracket => v.kids \in Seq(Values)
  /\ v.type = "cJSON_Object" => \A n \in DOMAIN v.kids : v.kids[n].key \in Seq(Char)

ASSUME ValuesAssumption == \A v \in Values : IsValue(v)

\* "%d".
Decimals(n) ==
  LET dec[k \in 0 .. n] == IF k < 10 THEN <<48 + k>> ELSE Append(dec[k \div 10], 48 + (k % 10))
  IN  dec[n]
Number(n) == IF n < 0 THEN <<45>> \o Decimals(-n) ELSE Decimals(n)

\* How deep node is nested.
Depth == Len(frames)

\* The text of a value that is not an array or object with values in it, and the
\* memory asked for it.  Of the numbers, only the integers are modelled.
IsLeaf(v) == v.type \notin DOMAIN Bracket \/ v.kids = <<>>
LeafText(v) ==
  CASE v.type \in DOMAIN Word  -> Word[v.type]
    [] v.type = "cJSON_Number" -> Number(v.num[1])
    [] v.type = "cJSON_String" -> Quoted(v.str)
    [] v.type = "cJSON_Array"  -> Bracket[v.type]
    [] v.type = "cJSON_Object" -> <<123>> \o When(fmt, <<NEWLINE>> \o Tabs(Depth)) \o <<125>>
LeafRoom(v) ==
  CASE v.type \in DOMAIN Word  -> Len(Word[v.type]) + 1
    [] v.type = "cJSON_Number" -> IF v.num[1] = 0 THEN 2 ELSE 21
    [] v.type = "cJSON_String" -> QuotedRoom(v.str)
    [] v.type = "cJSON_Array"  -> 3
    [] v.type = "cJSON_Object" -> IF fmt THEN Depth + 4 ELSE 3

-----------------------------------------------------------------------------
(***************************************************************************)
(* Without a buffer: the texts of the keys and values are kept in names and *)
(* entries until the text of the whole can be put together.                 *)
(***************************************************************************)

Frame(v) == [of |-> v, done |-> 0, start |-> p.offset, names |-> <<>>, entries |-> <<>>]
Top == Last(frames)
IsObject(v) == v.type = "cJSON_Object"

\* What a frame holds: the array entries, that of names, and the texts in them.
Filled(ts) == {i \in DOMAIN ts : ts[i] # Null}
Held(f) ==
  Cardinality(Filled(f.names)) + Cardinality(Filled(f.entries)) + IF IsObject(f.of) THEN 2 ELSE 1
Failed(f) == Filled(f.names) # DOMAIN f.names \/ Filled(f.entries) # DOMAIN f.entries

\* The text of the array or object, at the depth of its frame, and the memory
\* asked for it.
TextOf(f) ==
  LET last == Len(f.entries)
      inner == Depth
      Entry(i) ==
        IF IsObject(f.of)
          THEN When(fmt, Tabs(inner)) \o f.names[i][1] \o <<Colon>> \o When(fmt, <<TAB>>)
                 \o f.entries[i][1] \o When(i < last, <<Comma>>) \o When(fmt, <<NEWLINE>>)
          ELSE f.entries[i][1] \o When(i < last, <<Comma>> \o When(fmt, <<SPACE>>))
  IN  <<Bracket[f.of.type][1]>> \o When(fmt /\ IsObject(f.of), <<NEWLINE>>)
        \o FlattenSeq([i \in 1 .. last |-> Entry(i)])
        \o When(fmt /\ IsObject(f.of), Tabs(inner - 1)) \o <<Bracket[f.of.type][2]>>
Chars(f) == FoldLeft(LAMBDA n, t : n + Len(t[1]), 0, f.names \o f.entries)
RoomMut(f) ==
  Chars(f) + Len(f.entries) * (IF fmt THEN 3 ELSE 2) + IF IsObject(f.of) THEN 7 ELSE 5
Room(f) ==
  Chars(f) +
    IF IsObject(f.of)
      THEN 7 + (IF fmt THEN Depth ELSE 0) + Len(f.entries) * (IF fmt THEN 4 + Depth ELSE 2)
      ELSE 5 + Len(f.entries) * (IF fmt THEN 3 ELSE 2)

\* A text is written where room was asked for it.
Writes(w, room) == p' = [p EXCEPT !.stray = @ \/ Len(w) + 1 > room]

\* print_value returns r, with n blocks left.
Return(r, n) ==
  /\ ret' = r
  /\ blocks' = n
  /\ wmode' = IF frames' # <<>> THEN "after" ELSE IF r = Null THEN "unprintable" ELSE "printed"

PrintLeaf ==
  /\ wmode = "value" /\ ~buffered
  /\ IsLeaf(node)
  /\ UNCHANGED frames
  /\ \/ Return(Null, blocks) /\ UNCHANGED p
     \/ Return(Ptr(LeafText(node)), blocks + 1) /\ Writes(LeafText(node), LeafRoom(node))
  /\ UNCHANGED <<call, node>>

\* malloc for entries and, in print_object, names.
PrintEnter ==
  /\ wmode = "value" /\ ~buffered
  /\ ~IsLeaf(node)
  /\ \/ UNCHANGED frames /\ Return(Null, blocks)
     \/ /\ frames' = Append(frames, Frame(node))
        /\ wmode' = "frame"
        /\ blocks' = blocks + Held(Frame(node))
        /\ UNCHANGED ret
  /\ UNCHANGED <<call, node, p>>

\* The next key is printed, or not; its value is printed all the same.
More(f) == f.done < Len(f.of.kids)
PrintNext ==
  /\ wmode = "frame" /\ ~buffered
  /\ More(Top) /\ ~Failed(Top)
  /\ LET kid == Top.of.kids[Top.done + 1]
         name == Quoted(kid.key)
         next == [Top EXCEPT !.done = @ + 1]
         Named(t) == [next EXCEPT !.names = Append(@, t)]
     IN  /\ node' = kid
         /\ wmode' = "value"
         /\ IF ~IsObject(Top.of)
              THEN /\ frames' = Append(Front(frames), next)
                   /\ UNCHANGED <<blocks, p>>
              ELSE \/ /\ frames' = Append(Front(frames), Named(Null))
                      /\ UNCHANGED <<blocks, p>>
                   \/ /\ frames' = Append(Front(frames), Named(Ptr(name)))
                      /\ blocks' = blocks + 1
                      /\ Writes(name, QuotedRoom(kid.key))
  /\ UNCHANGED <<call, ret>>

PrintReturned ==
  /\ wmode = "after" /\ ~buffered
  /\ frames' = Append(Front(frames), [Top EXCEPT !.entries = Append(@, ret)])
  /\ wmode' = "frame"
  /\ UNCHANGED <<call, node, ret, p, blocks>>

\* malloc for the whole text; the texts of the parts are freed.
PrintCompose ==
  /\ wmode = "frame" /\ ~buffered
  /\ ~More(Top) /\ ~Failed(Top)
  /\ frames' = Front(frames)
  /\ Return(Ptr(TextOf(Top)), blocks + 1 - Held(Top))
  /\ Writes(TextOf(Top), Room(Top))
  /\ UNCHANGED <<call, node>>

\* Some malloc failed, that of a part or that of the whole text.
FreedMut(f) == IF Failed(f) THEN Held(f) - 1 ELSE Held(f)
Freed(f) == Held(f)
PrintAbort ==
  /\ wmode = "frame" /\ ~buffered
  /\ Failed(Top) \/ ~More(Top)
  /\ frames' = Front(frames)
  /\ Return(Null, blocks - Freed(Top))
  /\ UNCHANGED <<call, node, p>>

-----------------------------------------------------------------------------
(***************************************************************************)
(* With a buffer.                                                          *)
(***************************************************************************)

Unset == -1
pow2gt(x) ==
  LET pow[n \in 0 .. x] == IF n <= 1 THEN 1 ELSE 2 * pow[(n + 1) \div 2]
  IN  pow[x]

\* ensure(q, needed): there is room for needed more bytes, or the buffer is gone.
Ensure(q, needed) ==
  IF ~q.there \/ q.offset + needed <= Len(q.buffer) THEN {q}
  ELSE {[q EXCEPT !.there = FALSE, !.buffer = <<>>],
        [q EXCEPT !.buffer = @ \o [k \in 1 .. pow2gt(q.offset + needed) - Len(@) |-> Unset]]}

\* ensure(q, needed), then w is written and the offset moved forth.
Put(q, needed, w, forth) ==
  LET Write(r) == [there  |-> TRUE,
                   buffer |-> [k \in DOMAIN r.buffer |->
                                 IF k - r.offset \in DOMAIN w THEN w[k - r.offset] ELSE r.buffer[k]],
                   offset |-> r.offset + forth,
                   stray  |-> r.stray \/ r.offset + Len(w) > Len(r.buffer)]
  IN  {IF r.there THEN Write(r) ELSE r : r \in Ensure(q, needed)}

\* Where the string at offset n of a buffer ends.
EndOfString(b, n) == Min({k \in n + 1 .. Len(b) : b[k] \in {0, Unset}} \cup {Len(b) + 1})

\* update(q): the offset moves to the end of the string at it.
update(q) ==
  IF ~q.there THEN [q EXCEPT !.offset = 0]
  ELSE LET end == EndOfString(q.buffer, q.offset)
       IN  [q EXCEPT !.offset = end - 1,
                     !.stray = @ \/ end > Len(q.buffer) \/ q.buffer[end] = Unset]

\* The function for node returns r, or NULL when the buffer is gone.
BufferReturn(q, r) ==
  /\ p' = q
  /\ Return(IF q.there THEN Ptr(r) ELSE Null, IF q.there THEN 1 ELSE 0)

\* It returns NULL at once, or goes on.
BufferGoesOn(q, mode, f) ==
  IF ~q.there
    THEN frames' = Front(frames) /\ BufferReturn(q, 0) /\ UNCHANGED node
    ELSE /\ p' = q
         /\ wmode' = mode
         /\ frames' = Append(Front(frames), f)
         /\ node' = IF mode = "value" THEN f.of.kids[f.done] ELSE node
         /\ UNCHANGED <<ret, blocks>>

BufferLeaf ==
  /\ wmode = "value" /\ buffered
  /\ IsLeaf(node)
  /\ UNCHANGED frames
  /\ \E q \in Put(p, LeafRoom(node), Append(LeafText(node), 0), 0) : BufferReturn(q, p.offset)
  /\ UNCHANGED <<call, node>>

\* The opening bracket.
BufferOpen ==
  /\ wmode = "value" /\ buffered
  /\ ~IsLeaf(node)
  /\ LET brace == <<123>> \o When(fmt, <<NEWLINE>>)
     IN  \E q \in IF IsObject(node) THEN Put(p, Len(brace) + 1, Append(brace, 0), Len(brace))
                  ELSE Put(p, 1, <<91>>, 1) :
           IF ~q.there
             THEN UNCHANGED frames /\ BufferReturn(q, 0)
             ELSE /\ p' = q
                  /\ frames' = Append(frames, Frame(node))
                  /\ wmode' = "frame"
                  /\ UNCHANGED <<ret, blocks>>
  /\ UNCHANGED <<call, node>>

\* Tabs, the key and the colon; in an array, nothing.
BufferKey(key) ==
  UNION {UNION {Put(update(named), IF fmt THEN 2 ELSE 1, <<Colon>> \o When(fmt, <<TAB>>),
                    IF fmt THEN 2 ELSE 1)
                : named \in Put(indented, QuotedRoom(key), Append(Quoted(key), 0), 0)}
         : indented \in IF fmt THEN Put(p, Depth, Tabs(Depth), Depth) ELSE {p}}
BufferNext ==
  /\ wmode = "frame" /\ buffered
  /\ More(Top)
  /\ \E q \in IF IsObject(Top.of) THEN BufferKey(Top.of.kids[Top.done + 1].key) ELSE {p} :
       BufferGoesOn(q, "value", [Top EXCEPT !.done = @ + 1])
  /\ UNCHANGED call

\* What comes between two values, or after the last one of an object.
BufferAfter ==
  /\ wmode = "after" /\ buffered
  /\ LET w == IF IsObject(Top.of) THEN When(More(Top), <<Comma>>) \o When(fmt, <<NEWLINE>>)
              ELSE When(More(Top), <<Comma>> \o When(fmt, <<SPACE>>))
     IN  \E q \in IF IsObject(Top.of) \/ More(Top)
                    THEN Put(update(p), Len(w) + 1, Append(w, 0), Len(w))
                    ELSE {update(p)} :
           BufferGoesOn(q, "frame", Top)
  /\ UNCHANGED call

\* The closing bracket.  In print_object the loop that writes the tabs counts in
\* the variable that held the offset of the opening brace.
BufferClose ==
  /\ wmode = "frame" /\ buffered
  /\ ~More(Top)
  /\ frames' = Front(frames)
  /\ LET brace == When(fmt, Tabs(Depth - 1)) \o <<125, 0>>
     IN  \E q \in IF IsObject(Top.of) THEN Put(p, IF fmt THEN Depth + 1 ELSE 2, brace, 0)
                  ELSE Put(p, 2, <<93, 0>>, 0) :
           BufferReturn(q, IF IsObject(Top.of) /\ fmt THEN Depth - 1 ELSE Top.start)
  /\ UNCHANGED <<call, node>>

-----------------------------------------------------------------------------
\* cJSON_Print, cJSON_PrintUnformatted (prebuffer is NULL) and
\* cJSON_PrintBuffered, whose own malloc may fail.
PrintStart(v, format, prebuffer) ==
  /\ wmode = "idle"
  /\ tree' = v
  /\ fmt' = format
  /\ buffered' = (prebuffer # NULL)
  /\ wmode' = "value"
  /\ node' = v
  /\ \/ p' = p /\ blocks' = 0
     \/ /\ prebuffer # NULL
        /\ p' = [p EXCEPT !.there = TRUE, !.buffer = [k \in 1 .. prebuffer |-> Unset]]
        /\ blocks' = 1
  /\ UNCHANGED <<frames, ret>>

PrintStep ==
  \/ PrintLeaf \/ PrintEnter \/ PrintNext \/ PrintReturned \/ PrintCompose \/ PrintAbort
  \/ BufferLeaf \/ BufferOpen \/ BufferNext \/ BufferAfter \/ BufferClose

\* The text the caller gets.
Printed ==
  IF buffered THEN SubSeq(p.buffer, ret[1] + 1, EndOfString(p.buffer, ret[1]) - 1) ELSE ret[1]

\* Whichever malloc fails, the printer returns NULL and keeps nothing; when none
\* does, all that is left is the text it returns.
PrintOwnsText ==
  /\ wmode = "unprintable" => blocks = 0
  /\ wmode = "printed" => blocks = 1

\* In every mode and at every depth the printer asks for as much memory as it then
\* writes, and measures only strings it has ended.
PrintFits == ~p.stray
=============================================================================

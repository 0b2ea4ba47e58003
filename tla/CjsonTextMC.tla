---------------------------- MODULE CjsonTextMC ----------------------------
(***************************************************************************)
(* An instance of CjsonText for TLC.                                        *)
(***************************************************************************)
EXTENDS CjsonWriting

Val(type) == [type |-> type, key |-> NULL, str |-> NULL, num |-> <<0, 0>>, kids |-> <<>>]
Str(bytes) == [Val("cJSON_String") EXCEPT !.str = bytes]
Num(n) == [Val("cJSON_Number") EXCEPT !.num = <<n, 0>>]
Array(vs) == [Val("cJSON_Array") EXCEPT !.kids = vs]
Keyed(k, v) == [v EXCEPT !.key = k]
Object(vs) == [Val("cJSON_Object") EXCEPT !.kids = vs]

\* Strings: empty; plain; the characters that are escaped; code points at which
\* the length in UTF-8 changes, and next to the surrogates.
Strings == {<<>>, <<97, 32>>, <<34>>, <<92, 117>>, <<10, 1>>, <<31, 8, 127>>,
            <<194, 128>>, <<223, 191>>, <<224, 160, 128>>, <<237, 159, 191>>, <<238, 128, 128>>,
            <<239, 191, 191>>, <<240, 144, 128, 128>>, <<244, 143, 191, 191, 97>>}
Scalars == {Val("cJSON_NULL"), Val("cJSON_False"), Val("cJSON_True")}
             \cup {Num(n) : n \in {0, 7, -12, 300}} \cup {Str(s) : s \in Strings}

t == Val("cJSON_True")
Empty == {Array(<<>>), Object(<<>>)}
One == {Array(<<v>>) : v \in Empty \cup {Str(<<34>>)}}
         \cup {Object(<<Keyed(<<97>>, v)>>) : v \in Empty \cup {Num(7)}}
Two == {Array(<<v, w>>) : v \in Empty, w \in {t}}
         \cup {Object(<<Keyed(<<>>, v), Keyed(<<9>>, w)>>) : v \in {t}, w \in Empty}
Deep == {Array(<<t, v>>) : v \in One} \cup {Object(<<Keyed(<<97>>, v), Keyed(<<98>>, t)>>) : v \in One}
Deeper == {Array(<<v>>) : v \in Deep} \cup {Object(<<Keyed(<<97>>, t), Keyed(<<98>>, v)>>) : v \in Deep}
AllTrees == Scalars \cup Empty \cup One \cup Two \cup Deep \cup Deeper

\* The trees are five deep.
WithKids(vs) == vs \cup UNION {ToSet(v.kids) : v \in vs}
AllValues == WithKids(WithKids(WithKids(WithKids(AllTrees))))

Sizes == {NULL, 1, 12}

\* Every text of up to four of these characters: brackets, comma, colon, quote,
\* backslash, a letter, a digit, blank; numbers; and texts cut off at the end.
Alphabet == {91, 93, 123, 125, 44, 58, 34, 92, 117, 48, 32}
Numbers == {<<45>>, <<48, 49>>, <<49, 46, 53>>, <<49, 101, 43, 50>>, <<49, 46>>, <<50, 46, 53, 69, 45, 49>>}
Cut == UNION {{SubSeq(Write(v, st), 1, n) : n \in 1 .. Len(Write(v, st)) - 1} :
                v \in Deep \cup {Str(<<244, 143, 191, 191>>)}, st \in {s \in Style : s.escape}}
BadTexts == UNION {[1 .. n -> Alphabet] : n \in 0 .. 4} \cup Numbers \cup Cut
AllWritings == {Writing(v, style) : v \in AllTrees, style \in Style} \cup {AnyText(s) : s \in BadTexts}
=============================================================================

------------------------------ MODULE ConfigMC ------------------------------
(***************************************************************************)
(* An instance of Config for TLC, next to the reference.                   *)
(***************************************************************************)
EXTENDS Config, ConfigReference

Val(type) == [type |-> type, key |-> NULL, include |-> NULL, kids |-> <<>>]
Inc(f) == [Val("cJSON_String") EXCEPT !.include = f]
Arr(vs) == [Val("cJSON_Array") EXCEPT !.kids = vs]
Obj(vs) == [Val("cJSON_Object") EXCEPT !.kids = vs]
Keyed(k, v) == [v EXCEPT !.key = k]
A(v) == Keyed(<<"a">>, v)
B(v) == Keyed(<<"0">>, v)
one == Val("cJSON_Number")
yes == Val("cJSON_True")

\* For the lookups: {"a": [1, ["s"]], "a.a": true, "\\": {"[": 2, "a": null}}.
Plain ==
  Obj(<<A(Arr(<<one, Arr(<<Val("cJSON_String")>>)>>)),
        Keyed(<<"a", ".", "a">>, yes),
        Keyed(<<"\\">>, Obj(<<Keyed(<<"[">>, one), A(Val("cJSON_NULL"))>>))>>)

\* Includes in objects, in objects in arrays, where they are not done (in arrays
\* and in objects in objects), of a file that is not there, of the same file
\* twice; with a key that repeats; in a circle, and without one.
Names == {"plain", "nested", "inner", "leaf", "string", "repeated", "later", "itself", "there", "back", "none"}
Contents ==
  [f \in Names |->
     CASE f = "plain"    -> Plain
       [] f = "nested"   -> Obj(<<A(Inc("inner")),
                                  B(Arr(<<Inc("inner"), Obj(<<A(Inc("inner"))>>), Arr(<<Obj(<<B(Inc("leaf"))>>)>>)>>)),
                                  Keyed(<<"1">>, Obj(<<A(Inc("leaf"))>>)),
                                  Keyed(<<"]">>, Inc("none"))>>)
       [] f = "inner"    -> Arr(<<Obj(<<A(Inc("leaf")), B(Inc("string"))>>), one>>)
       [] f = "leaf"     -> Obj(<<A(yes)>>)
       [] f = "string"   -> Inc("leaf")
       [] f = "repeated" -> Obj(<<A(Inc("leaf")), B(yes), A(Inc("string"))>>)
       [] f = "later"    -> Obj(<<A(yes), A(Inc("leaf")), A(Inc("inner"))>>)
       [] f = "itself"   -> Obj(<<A(Inc("none")), B(Inc("itself"))>>)
       [] f = "there"    -> Arr(<<Obj(<<A(Inc("leaf")), B(Inc("back"))>>)>>)
       [] f = "back"     -> Obj(<<A(Inc("there"))>>)
       [] f = "none"     -> NULL]

\* Keys and subscripts, those of the document and a few others.
SomeKeys == {<<"a">>, <<"a", ".", "a">>, <<"\\">>, <<"[">>, <<"\\", "a">>, <<"0">>}
OneSegment == {<<"key", k>> : k \in SomeKeys} \cup {<<"sub", i>> : i \in 0 .. 2}
UpToThree == UNION {[1 .. n -> OneSegment] : n \in 1 .. 3}
FewSegments == [1 .. 4 -> {<<"key", <<"a">>>>, <<"key", <<"0">>>>, <<"sub", 0>>, <<"sub", 1>>}]
AllSegments == [f \in Names |-> IF f = "plain" THEN UpToThree ELSE FewSegments]

\* Every path of up to six characters, and what is left of a longer path when the
\* end is cut off.
Char == {".", "[", "]", "\\", "a", "0", "1"}
Short == UNION {[1 .. n -> Char] : n \in 0 .. 6}
Whole == {Render(segs) : segs \in UpToThree}
AllPaths == [f \in Names |-> IF f = "plain" THEN Short \cup {Front(p) : p \in Whole} ELSE {<<".">>}]
=============================================================================

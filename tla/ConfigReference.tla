-------------------------- MODULE ConfigReference --------------------------
(***************************************************************************)
(* What a configuration with includes stands for, as a definition on trees,  *)
(* and what loading it must come to.                                        *)
(***************************************************************************)
EXTENDS ConfigLoad

\* Where process_include looks in a document: the objects that are the root or
\* that arrays lead to, but no object inside another one.
RECURSIVE Objects(_)
Objects(v) ==
  CASE v.type = "cJSON_Object" -> {v}
    [] v.type = "cJSON_Array"  -> UNION {Objects(v.kids[i]) : i \in DOMAIN v.kids}
    [] OTHER                   -> {}

\* The files that a file includes.
Includes(f) ==
  IF Content[f] = NULL THEN {}
  ELSE UNION {{o.kids[i].include : i \in DOMAIN o.kids} : o \in Objects(Content[f])} \ {NULL}

\* The files that loading a file leads to, the file itself only through a cycle.
Leads ==
  [f \in File |-> {g \in File : \A S \in SUBSET File :
     Includes(f) \subseteq S /\ (\A h \in S : Includes(h) \subseteq S) => g \in S}]
Acyclic == {f \in File : \A g \in Leads[f] \cup {f} : g \notin Leads[g]}

\* The document with every include in it done.  In an object, the item that a
\* lookup of its key finds (the first one of that key) is the document included
\* under that key, the last one if there are several.
RECURSIVE Expanded(_)
Expanded(v) ==
  LET Same(i) == {k \in DOMAIN v.kids : v.kids[k].key = v.kids[i].key}
      Loadable(i) == {k \in Same(i) : v.kids[k].include # NULL /\ Content[v.kids[k].include] # NULL}
      Member(i) ==
        IF Loadable(i) # {} /\ i = Min(Same(i))
          THEN [Expanded(Content[v.kids[Max(Loadable(i))].include]) EXCEPT !.key = v.kids[i].key]
          ELSE v.kids[i]
  IN  [v EXCEPT !.kids = [i \in DOMAIN @ |-> IF v.type = "cJSON_Array" THEN Expanded(@[i]) ELSE Member(i)]]

-----------------------------------------------------------------------------
\* When the files do not include each other in a circle and there is memory, the
\* configuration is the file with every include of an object replaced by the
\* expanded document of that file, at any depth of arrays and with keys that
\* repeat; a file that cannot be read leaves its string in place.
IncludesExpanded ==
  phase = "loaded" /\ ~oom /\ conf \in Acyclic => doc = Expanded(Content[conf])

\* Loading comes to an end: the recursion overflows the stack only when files do
\* include each other in a circle, and then it does unless memory runs out before.
LoadReturns ==
  <>(/\ phase # "load"
     /\ phase = "overflow" => conf \notin Acyclic \/ StackDepth < Cardinality(File)
     /\ phase = "loaded" => conf \in Acyclic \/ oom)
=============================================================================

----------------------------- MODULE ConfigLoad -----------------------------
(***************************************************************************)
(* How the configuration is loaded (util_cjson.c): cJSON_loadfile reads and *)
(* parses a file, and process_include replaces the strings in it that say   *)
(* "IncludeJSON: file" by the document in that file, loaded the same way.    *)
(*                                                                         *)
(* A document is a tree of records: type, key, kids and, of a string, the    *)
(* file include_value finds in it.  CjsonParse has the parser and CjsonItems *)
(* the pointers; keys are compared without regard to case, so a key here is  *)
(* one in lower case.                                                       *)
(***************************************************************************)
EXTENDS Integers, Sequences, SequencesExt, FiniteSetsExt

CONSTANTS
  NULL,
  File,       \* file names
  Content,    \* of each file what cJSON_Parse makes of its first 65536 bytes: a
              \* tree, or NULL when it is missing, empty or no JSON
  Argv,       \* the file main is started with, one of these
  StackDepth  \* how many calls of cJSON_loadfile, each with a buffer of 64 KiB,
              \* the stack has room for

ASSUME LoadAssumption == Argv \subseteq File /\ StackDepth \in Nat \ {0}

VARIABLES
  conf,   \* argv[1]
  phase,  \* "load", or the outcome: "loaded", "unloadable" or "overflow" of the stack
  calls,  \* the calls of cJSON_loadfile under way: the file, its document, the node
          \* process_include is at and the number of the child it takes next
  doc,    \* the document, when it is loaded
  oom     \* history: a file could not be parsed for lack of memory

load_vars == <<conf, phase, calls, doc, oom>>

\* Nodes are named by the way to them: the numbers of the children to take.
NodeAt(tree, n) == FoldLeft(LAMBDA v, i : v.kids[i], tree, n)

\* The tree with v as its node n.
PutAt(tree, n, v) ==
  LET put[k \in 1 .. Len(n) + 1] ==
        IF k > Len(n) THEN v
        ELSE [NodeAt(tree, SubSeq(n, 1, k - 1)) EXCEPT !.kids[n[k]] = put[k + 1]]
  IN  put[1]

LoadInit ==
  /\ conf \in Argv
  /\ phase = "load"
  /\ calls = <<>>
  /\ doc = NULL
  /\ oom = FALSE

Call == Last(calls)
Node == NodeAt(Call.tree, Call.node)
\* The next child is next, and that of an include the one after it.
AdvancedMut(c) == IF NodeAt(c.tree, c.node).kids[c.next].include = NULL THEN [c EXCEPT !.next = @ + 1] ELSE c
Advanced(c) == [c EXCEPT !.next = @ + 1]

\* cJSON_ReplaceItemInObject: the first child with that key goes and v gets its
\* place and its key.
ReplacedMut(object, key, v) ==
  LET i == Max({k \in DOMAIN object.kids : object.kids[k].key = key})
  IN  [object EXCEPT !.kids[i] = [v EXCEPT !.key = key]]
Replaced(object, key, v) ==
  LET i == Min({k \in DOMAIN object.kids : object.kids[k].key = key})
  IN  [object EXCEPT !.kids[i] = [v EXCEPT !.key = key]]

\* cJSON_loadfile returns NULL to s, the calls under way.
LoadFails(s) ==
  IF s = <<>>
    THEN phase' = "unloadable" /\ UNCHANGED <<calls, doc>>
    ELSE calls' = Append(Front(s), Advanced(Last(s))) /\ UNCHANGED <<phase, doc>>

\* cJSON_loadfile(f) is called: it cannot read or parse the file, there is no
\* memory or no stack for it, or process_include starts at the root.
Loadfile(f) ==
  \/ /\ Len(calls) = StackDepth
     /\ phase' = "overflow"
     /\ UNCHANGED <<calls, doc, oom>>
  \/ /\ Len(calls) < StackDepth
     /\ LoadFails(calls)
     /\ IF Content[f] = NULL THEN UNCHANGED oom ELSE oom' = TRUE
  \/ /\ Len(calls) < StackDepth
     /\ Content[f] # NULL
     /\ calls' = Append(calls, [tree |-> Content[f], node |-> <<>>, next |-> 1])
     /\ UNCHANGED <<phase, doc, oom>>

\* main loads the configuration.
LoadConf ==
  /\ phase = "load"
  /\ calls = <<>>
  /\ Loadfile(conf)
  /\ UNCHANGED conf

\* process_include takes the next child of its object or array.
HasNext == phase = "load" /\ calls # <<>> /\ Call.next <= Len(Node.kids)
Child == Node.kids[Call.next]

\* A string of an object that names a file.
Include ==
  /\ HasNext
  /\ Node.type = "cJSON_Object"
  /\ Child.include # NULL
  /\ Loadfile(Child.include)
  /\ UNCHANGED conf

\* Anything else in an object, objects and arrays included, is left as it is.
Pass ==
  /\ HasNext
  /\ Node.type = "cJSON_Object"
  /\ Child.include = NULL
  /\ calls' = Append(Front(calls), Advanced(Call))
  /\ UNCHANGED <<conf, phase, doc, oom>>

\* process_include is called for each item of an array.
Descend ==
  /\ HasNext
  /\ Node.type = "cJSON_Array"
  /\ calls' = Append(Front(calls), [Call EXCEPT !.node = Append(@, Call.next), !.next = 1])
  /\ UNCHANGED <<conf, phase, doc, oom>>

\* process_include returns from an item of an array, or from the root: then the
\* document is that of the configuration or replaces the string that named it.
Finish ==
  /\ phase = "load" /\ calls # <<>> /\ Call.next > Len(Node.kids)
  /\ IF Call.node # <<>>
       THEN /\ calls' = Append(Front(calls), [Call EXCEPT !.node = Front(@), !.next = Last(Call.node) + 1])
            /\ UNCHANGED <<phase, doc>>
     ELSE IF Len(calls) = 1
       THEN calls' = <<>> /\ doc' = Call.tree /\ phase' = "loaded"
       ELSE /\ LET caller == calls[Len(calls) - 1]
                   object == NodeAt(caller.tree, caller.node)
                   key == object.kids[caller.next].key
                   tree == PutAt(caller.tree, caller.node, Replaced(object, key, Call.tree))
               IN  calls' = Append(Front(Front(calls)), Advanced([caller EXCEPT !.tree = tree]))
            /\ UNCHANGED <<phase, doc>>
  /\ UNCHANGED <<conf, oom>>

Load == LoadConf \/ Include \/ Pass \/ Descend \/ Finish
=============================================================================

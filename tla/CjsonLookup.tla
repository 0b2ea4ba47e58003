---------------------------- MODULE CjsonLookup ----------------------------
(***************************************************************************)
(* cJSON_lookup_obj (util_cjson.c), by which every component reads its      *)
(* configuration: a path such as .Carrier.Config or .Array1[4] is followed   *)
(* through a JSON document.  Each (tail) call of the function is one step.   *)
(*                                                                         *)
(* A path is a sequence of characters, as the function is about what the     *)
(* characters . [ ] and \ mean, and so is a key.                             *)
(***************************************************************************)
EXTENDS ConfigLoad

CONSTANTS
  DEFLT,      \* the deflt argument
  Paths,      \* of each configuration: paths passed in, well-formed or not
  Segments    \* and well-formed ones, as sequences of keys and subscripts

Digit == {"0", "1", "2", "3", "4", "5", "6", "7", "8", "9"}

VARIABLES
  path0,    \* the path the caller passed in
  named,    \* history: the segments it was written from, if any
  j, path,  \* the arguments of the call under way; j is a node of doc or NULL
  status,   \* "none", "called" or the outcome: "returned", "fault" when the call
            \* dereferences NULL, "overrun" when it reads past the end of the path
  result    \* what it returned: a node, NULL or DEFLT

lookup_vars == <<path0, named, j, path, status, result>>

LookupInit ==
  /\ path0 = <<>> /\ path = <<>>
  /\ named = <<>>
  /\ j = NULL
  /\ status = "none"
  /\ result = NULL

-----------------------------------------------------------------------------
Kids(n) == IF n = NULL THEN <<>> ELSE NodeAt(doc, n).kids
TypeOf(n) == NodeAt(doc, n).type

\* cJSON_GetObjectItem and cJSON_GetArrayItem, which accept NULL and any type.
GetObjectItem(n, key) ==
  LET found == {i \in DOMAIN Kids(n) : Kids(n)[i].key = key}
  IN  IF found = {} THEN NULL ELSE Append(n, Min(found))
GetArrayItem(n, i) == IF i + 1 \in DOMAIN Kids(n) THEN Append(n, i + 1) ELSE NULL

\* In a key, a character after a backslash stands for itself; the backslash goes.
EscapedMut(s) ==
  [i \in DOMAIN s |-> i > 1 /\ s[i - 1] = "\\"]
Escaped(s) ==
  LET esc[i \in 0 .. Len(s)] == i > 1 /\ s[i - 1] = "\\" /\ ~esc[i - 1]
  IN  [i \in DOMAIN s |-> esc[i]]

\* Where the key at the start of s ends: before . or [, or at the end of s.
KeyEnd(s) ==
  Min({Len(s) + 1} \cup {i \in DOMAIN s : ~Escaped(s)[i] /\ s[i] \in {".", "["}})

\* The key itself.
KeyOf(s) ==
  LET kept == {i \in 1 .. KeyEnd(s) - 1 : Escaped(s)[i] \/ s[i] # "\\"}
      at == SetToSortSeq(kept, <)
  IN  [i \in DOMAIN at |-> s[at[i]]]

\* A backslash at the very end of the path escapes the terminating 0 byte, and
\* keylen is one more than what is there.
Dangling(s) == KeyEnd(s) > Len(s) /\ s[Len(s)] = "\\" /\ ~Escaped(s)[Len(s)]

\* The first character of s that is not a digit.
SubEnd(s) == Min({Len(s) + 1} \cup {i \in DOMAIN s : s[i] \notin Digit})

\* atoi().
Value(d) == CHOOSE v \in 0 .. 9 : ToString(v) = d
atoi(s) == FoldLeft(LAMBDA n, d : 10 * n + Value(d), 0, s)

-----------------------------------------------------------------------------
(***************************************************************************)
(* The reference: paths are built from segments, each a key or a subscript. *)
(***************************************************************************)

IsKey(seg) == seg[1] = "key"

\* A segment as it is written in a path: . [ and \ in a key are escaped.
Escape(c) == IF c \in {".", "[", "\\"} THEN <<"\\", c>> ELSE <<c>>
Written(seg) ==
  IF IsKey(seg) THEN <<".">> \o FlattenSeq([i \in DOMAIN seg[2] |-> Escape(seg[2][i])])
  ELSE <<"[", ToString(seg[2]), "]">>
Render(segs) == FlattenSeq([i \in DOMAIN segs |-> Written(segs[i])])

\* Paths are strings; NULL and the default differ from the nodes, and each other.
ASSUME LookupAssumption ==
  /\ \A f \in Argv : Paths[f] \cup {Render(segs) : segs \in Segments[f]} \subseteq Seq(STRING)
  /\ NULL \notin Seq(Nat) /\ DEFLT \notin Seq(Nat) \cup {NULL}

\* The node a segment leads to.
Go(n, seg) ==
  IF IsKey(seg) THEN GetObjectItem(n, seg[2])
  ELSE IF n # NULL /\ TypeOf(n) = "cJSON_Array" THEN GetArrayItem(n, seg[2])
  ELSE NULL
Target(segs) == FoldLeft(Go, <<>>, segs)

-----------------------------------------------------------------------------
\* The call with the loaded document.
LookupCall ==
  /\ phase = "loaded"
  /\ status = "none"
  /\ \/ path0' \in Paths[conf] /\ UNCHANGED named
     \/ named' \in Segments[conf] /\ path0' = Render(named')
  /\ path' = path0'
  /\ j' = <<>>
  /\ status' = "called"
  /\ UNCHANGED result

Ends(how, r) ==
  /\ status' = how
  /\ result' = r
  /\ UNCHANGED <<path0, named, j, path>>
Returns(r) == Ends("returned", r)

\* The tail call, with rest as its path.
Calls(n, rest) ==
  /\ j' = n
  /\ path' = rest
  /\ UNCHANGED <<path0, named, status, result>>

Starts(c) == status = "called" /\ path # <<>> /\ path[1] = c

\* The path "." is the node itself.
LookupSelf ==
  /\ Starts(".")
  /\ Len(path) = 1
  /\ Returns(j)

LookupKeyMut ==
  /\ Starts(".")
  /\ Len(path) > 1
  /\ LET s == Tail(path)
         value == GetObjectItem(j, KeyOf(s))
     IN  \/ KeyEnd(s) > Len(s) /\ Returns(value)
         \/ KeyEnd(s) <= Len(s) /\ Calls(value, SubSeq(s, KeyEnd(s), Len(s)))
LookupKey ==
  /\ Starts(".")
  /\ Len(path) > 1
  /\ LET s == Tail(path)
         value == GetObjectItem(j, KeyOf(s))
     IN  \/ value = NULL /\ Returns(DEFLT)
         \/ /\ value # NULL
            /\ \/ Dangling(s) /\ Ends("overrun", NULL)
               \/ ~Dangling(s) /\ KeyEnd(s) > Len(s) /\ Returns(value)
               \/ KeyEnd(s) <= Len(s) /\ Calls(value, SubSeq(s, KeyEnd(s), Len(s)))

\* j->type is read before anything else.
LookupSub ==
  /\ Starts("[")
  /\ LET s == Tail(path)
         end == SubEnd(s)
         item == GetArrayItem(j, atoi(SubSeq(s, 1, end - 1)))
     IN  \/ j = NULL /\ Ends("fault", NULL)
         \/ j # NULL /\ TypeOf(j) # "cJSON_Array" /\ Returns(DEFLT)
         \/ /\ j # NULL /\ TypeOf(j) = "cJSON_Array"
            /\ \/ end > Len(s) /\ Returns(DEFLT)
               \/ end <= Len(s) /\ s[end] # "]" /\ Returns(DEFLT)
               \/ end = Len(s) /\ s[end] = "]" /\ Returns(item)
               \/ end < Len(s) /\ s[end] = "]" /\ Calls(item, SubSeq(s, end + 1, Len(s)))

\* Any other path is invalid.
LookupInvalid ==
  /\ status = "called"
  /\ ~Starts(".") /\ ~Starts("[")
  /\ Returns(DEFLT)

Lookup == LookupCall \/ LookupSelf \/ LookupKey \/ LookupSub \/ LookupInvalid

\* cJSON_lookup_int, _double, _str and _bool: the node found when its type is one
\* of types, the default otherwise.
Typed(types) == IF result \notin {NULL, DEFLT} /\ TypeOf(result) \in types THEN result ELSE DEFLT

-----------------------------------------------------------------------------
\* A subscript leads past the end of an array, and the path goes on with another.
Beyond(segs) ==
  \E i \in 1 .. Len(segs) - 1 :
    LET n == Target(SubSeq(segs, 1, i - 1))
    IN  /\ ~IsKey(segs[i]) /\ ~IsKey(segs[i + 1])
        /\ n # NULL /\ TypeOf(n) = "cJSON_Array"
        /\ GetArrayItem(n, segs[i][2]) = NULL

Scalar == {"cJSON_Number", "cJSON_String", "cJSON_True", "cJSON_False"}
Done == status \notin {"none", "called"}

\* A path written with the escapes the unit tests use leads to the node its keys
\* and subscripts name, and when there is no such node the typed functions return
\* their default; except that the lookup crashes, always, when a subscript past
\* the end of its array has another subscript right behind it.
PathFinds ==
  named # <<>> /\ Done =>
    IF Beyond(named) THEN status = "fault"
    ELSE LET target == Target(named)
         IN  /\ status = "returned"
             /\ Typed(Scalar) = IF target # NULL /\ TypeOf(target) \in Scalar THEN target ELSE DEFLT

\* A subscript, with its brackets, ends at character k of the path.
SubscriptEnds(k) ==
  /\ k \in DOMAIN path0 /\ path0[k] = "]"
  /\ \E i \in 1 .. k - 1 : path0[i] = "[" /\ \A h \in i + 1 .. k - 1 : path0[h] \in Digit

\* Whatever the path, well-formed or not, and the document: NULL is dereferenced
\* only at a subscript right behind another one, the end of the path is overrun only
\* when it is a backslash, and NULL instead of the default comes out only when the
\* path ends in a subscript, or in one and a dot.  So nothing of this happens on a
\* path of plain keys, as all those of the program are.
LookupSafe ==
  LET end == Len(path0)
  IN  /\ status = "fault" => \E k \in 1 .. end - 1 : SubscriptEnds(k) /\ path0[k + 1] = "["
      /\ status = "overrun" => end > 0 /\ path0[end] = "\\"
      /\ status = "returned" /\ result = NULL =>
           SubscriptEnds(end) \/ (SubscriptEnds(end - 1) /\ path0[end] = ".")
=============================================================================

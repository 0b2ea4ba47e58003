----------------------------- MODULE CjsonText -----------------------------
(***************************************************************************)
(* JSON texts, written and read by cJSON.c: what the printer writes is read  *)
(* back by the parser; a text somebody else wrote, with white space, escapes *)
(* or comments, is read as it is or minified before.                        *)
(***************************************************************************)
EXTENDS CjsonPrint, CjsonParse

CONSTANTS
  Trees,       \* the values printed
  Prebuffers,  \* the sizes passed to cJSON_PrintBuffered; NULL for the other functions
  Writings     \* texts of others: bytes, the tree they mean (NULL when nothing is said
               \* about it) and whether there are comments among them

ASSUME TreesAssumption == Trees \subseteq Values
ASSUME PrebuffersAssumption == Prebuffers \ {NULL} \subseteq Nat
ASSUME WritingsAssumption == \A w \in Writings : w.bytes \in Seq(Char)

VARIABLE meant \* history: the tree the text was written from, or NULL

text_vars == <<parse_vars, print_vars, meant>>

-----------------------------------------------------------------------------
(***************************************************************************)
(* cJSON_Minify.                                                           *)
(***************************************************************************)

Slash == 47
Star == 42

\* The place in s where cJSON_Minify goes on after place k, and what it keeps of s
\* in between: nothing of blanks and comments, strings as they are.
AfterLine(s, k) == Min({m \in k .. Len(s) : s[m] = NEWLINE} \cup {Len(s) + 1})
AfterComment(s, k) ==
  Min({m \in k .. Len(s) : s[m] = Star /\ At(s, m + 1) = Slash} \cup {Len(s) + 1}) + 2
MinifyStep(s, k) ==
  LET Keep(end) == [next |-> end + 1, kept |-> SubSeq(s, k, Min({end, Len(s)}))]
      Drop(next) == [next |-> next, kept |-> <<>>]
  IN  IF s[k] \in {SPACE, TAB, NEWLINE, 13} THEN Drop(k + 1)
      ELSE IF s[k] = Slash /\ At(s, k + 1) = Slash THEN Drop(AfterLine(s, k))
      ELSE IF s[k] = Slash /\ At(s, k + 1) = Star THEN Drop(AfterComment(s, k))
      ELSE IF s[k] = QUOTE THEN Keep(StringEnd(s, k))
      ELSE Keep(k)

\* The text it leaves, and whether it runs past the terminating 0 (in a string or
\* a comment that is not closed).
Minify(s) ==
  LET min[k \in 1 .. Len(s) + 3] ==
        IF k > Len(s) THEN [out |-> <<>>, past |-> k > Len(s) + 1]
        ELSE LET step == MinifyStep(s, k)
             IN  [min[step.next] EXCEPT !.out = step.kept \o @]
  IN  min[1]

-----------------------------------------------------------------------------
Init == ParseIdle /\ PrintIdle /\ meant = NULL

Idle == wmode = "idle" /\ pmode = "idle"

PrintTree ==
  /\ Idle
  /\ \E v \in Trees, format \in BOOLEAN, prebuffer \in Prebuffers :
       PrintStart(v, format, prebuffer) /\ meant' = v
  /\ UNCHANGED parse_vars

Printing == PrintStep /\ UNCHANGED <<parse_vars, meant>>

\* What was printed is parsed.
ReadBack ==
  /\ wmode = "printed"
  /\ \E null \in BOOLEAN : ParseStart(Printed, null)
  /\ UNCHANGED <<print_vars, meant>>

\* A text is parsed as it is, or minified and parsed.
Read ==
  /\ Idle
  /\ \E null \in BOOLEAN, w \in Writings :
       /\ meant' = w.means
       /\ \/ ~w.commented /\ ParseStart(w.bytes, null)
          \/ /\ w.means = NULL => ~Minify(w.bytes).past
             /\ ParseStart(Minify(w.bytes).out, null)
  /\ UNCHANGED print_vars

Parsing == Parse /\ UNCHANGED <<print_vars, meant>>

Next == PrintTree \/ Printing \/ ReadBack \/ Read \/ Parsing

Spec == Init /\ [][Next]_text_vars

-----------------------------------------------------------------------------
\* The parser gives back every value that the printer wrote, formatted or not and
\* in whichever mode, or that was written elsewhere with white space, escapes for
\* all characters, or comments that cJSON_Minify removed; it fails on such a text
\* only when malloc does.
RoundTrip ==
  meant # NULL => /\ pmode = "parsed" => Parsed = meant
                  /\ pmode = "failed" => oom
=============================================================================

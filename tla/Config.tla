------------------------------- MODULE Config -------------------------------
(***************************************************************************)
(* The configuration of a process: main loads it and the components look    *)
(* their settings up in what was loaded.                                    *)
(***************************************************************************)
EXTENDS CjsonLookup

vars == <<load_vars, lookup_vars>>

Init == LoadInit /\ LookupInit

Loading == Load /\ UNCHANGED lookup_vars
LookingUp == Lookup /\ UNCHANGED load_vars

Next == Loading \/ LookingUp

\* Loading is a sequential program that waits for nothing but files.
Spec == Init /\ [][Next]_vars /\ WF_vars(Loading)
=============================================================================

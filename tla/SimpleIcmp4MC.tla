--------------------------- MODULE SimpleIcmp4MC ---------------------------
(***************************************************************************)
(* Instances of SimpleIcmp4 for TLC: an active endpoint a, a passive one b. *)
(***************************************************************************)
EXTENDS SimpleIcmp4, TLC

CONSTANTS a, b

AtoB == (a :> b) @@ (b :> Stranger)
SameMagic == [e \in Endpoint |-> "Brutun2"]
Twice == [e \in Endpoint |-> 2]
OneEach == [e \in Endpoint |-> 1]

OfEach == [f \in Fault |-> 1]
=============================================================================

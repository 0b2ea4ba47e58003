---------------------------- MODULE SimpleUdpMC ----------------------------
(***************************************************************************)
(* Instances of SimpleUdp for TLC: an active endpoint a and a passive      *)
(* endpoint b.                                                             *)
(***************************************************************************)
EXTENDS SimpleUdpLink, TLC

\* a is configured with the address of b's first socket; b is passive.
AtoB == (a :> [host |-> b, port |-> 0]) @@ (b :> NoAddr)

OneSocket == (a :> 1) @@ (b :> 1)
TwoSockets == (a :> 2) @@ (b :> 1)

Once == (a :> 1) @@ (b :> 1)
Twice == (a :> 2) @@ (b :> 2)
ThreeTimes == (a :> 3) @@ (b :> 1)

OneWay3 == (a :> 3) @@ (b :> 0)
MostlyForth == (a :> 3) @@ (b :> 1)
MostlyBack == (a :> 1) @@ (b :> 3)

Faulty(kinds) == [f \in Fault |-> IF f \in kinds THEN 1 ELSE 0]
NoFault == Faulty({})
NetworkFaults == Faulty({"lose", "dup", "stray"})
LocalFaults == Faulty({"lose", "eintr", "rcvfail"})
RestartFaults == [Faulty({"lose"}) EXCEPT !["restart"] = 2]
=============================================================================

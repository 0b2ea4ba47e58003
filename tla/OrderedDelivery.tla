-------------------------- MODULE OrderedDelivery --------------------------
(***************************************************************************)
(* What a carrier promises one direction of the tunnel when the network    *)
(* keeps the order of datagrams: packets are numbered as they are accepted  *)
(* for sending; some of them come out, each at most once and in order.     *)
(***************************************************************************)
EXTENDS Naturals, Sequences

VARIABLES
  accepted,  \* packets whose sending is complete
  out        \* the numbers of the packets that came out

vars == <<accepted, out>>

Init == accepted = 0 /\ out = <<>>

Accept ==
  /\ accepted' = accepted + 1
  /\ UNCHANGED out

\* The packet being sent, number accepted, may come out already.
Deliver ==
  /\ \E s \in 0 .. accepted :
       /\ \A n \in DOMAIN out : out[n] < s
       /\ out' = Append(out, s)
  /\ UNCHANGED accepted

Next == Accept \/ Deliver

Spec == Init /\ [][Next]_vars
=============================================================================

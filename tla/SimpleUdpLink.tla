--------------------------- MODULE SimpleUdpLink ---------------------------
(***************************************************************************)
(* One direction of a pair of simple_udp carriers, seen from the tunnels:   *)
(* what endpoint a promises the tunnel of endpoint b.                      *)
(***************************************************************************)
EXTENDS SimpleUdp

CONSTANTS a, b

\* a's packets by serial: the one being sent has the number of those whose
\* sending is complete.
Link == INSTANCE OrderedDelivery WITH
          accepted <- serial[a],
          out <- [n \in DOMAIN delivered[b] |-> delivered[b][n].serial]

\* On a path that keeps the order, into a single socket, the carrier implements
\* OrderedDelivery: mod_send_packet, the network and thr_rcv together hand over
\* an increasing selection of the packets accepted, none of them twice.
ImplementsOrderedDelivery == Link!Spec
=============================================================================

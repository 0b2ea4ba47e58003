------------------------------ MODULE TunnelMC ------------------------------
(***************************************************************************)
(* Instances of Tunnel for TLC.                                            *)
(***************************************************************************)
EXTENDS Tunnel

\* A complete configuration with either carrier, and faulty ones.
UdpConf == [carrier |-> "simple_udp", mode |-> "tun", addrs |-> TRUE,
            ports |-> "some", remote |-> TRUE]
LoopConf == [carrier |-> "loop", mode |-> "tap", addrs |-> FALSE,
             ports |-> "illegal", remote |-> FALSE]
FaultyConfs ==
  {[UdpConf EXCEPT !.carrier = "none"], [UdpConf EXCEPT !.carrier = "unloadable"],
   [UdpConf EXCEPT !.mode = "other"], [UdpConf EXCEPT !.addrs = FALSE],
   [UdpConf EXCEPT !.ports = "illegal"], [UdpConf EXCEPT !.ports = "empty"],
   [UdpConf EXCEPT !.ports = "empty", !.remote = FALSE]}

EveryConf == {UdpConf, LoopConf} \cup FaultyConfs
UdpOnly == {UdpConf}
=============================================================================

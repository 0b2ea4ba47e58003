---------------------------- MODULE SimpleIcmp4 ----------------------------
(***************************************************************************)
(* The simple_icmp4 carrier (carrier/simple_icmp4/simple_icmp4.c): packets  *)
(* travel in ICMP echo requests.  The raw socket of a host gets every ICMP  *)
(* datagram that reaches it, the echo replies with which the other kernel   *)
(* answers its own packets included.                                        *)
(*                                                                         *)
(* A packet's payload is abstracted to its identity: the host that sent it  *)
(* and a number.                                                            *)
(***************************************************************************)
EXTENDS Integers, Sequences

CONSTANTS
  Endpoint,    \* the hosts that run brutun
  Stranger,    \* a host that runs something else
  Magic,       \* MagicWord of each endpoint
  NoMagic,     \* what else the 8 bytes may hold
  Remote,      \* RemoteAddress of each endpoint, Stranger when passive
  DupLevel,
  MaxPackets,  \* bound: packets each endpoint sends
  MaxFaults    \* bound: how often each kind of fault happens

\* The kinds of fault: a datagram lost, recvfrom failing, a datagram of some
\* other program (one shorter than the header, or a full one).
Fault == {"lose", "rcvfail", "short", "stray"}

Host == Endpoint \cup {Stranger}

ASSUME IcmpAssumption ==
  /\ Stranger \notin Endpoint
  /\ Magic \in [Endpoint -> STRING]
  /\ NoMagic \in STRING /\ \A e \in Endpoint : Magic[e] # NoMagic
  /\ Remote \in [Endpoint -> Host]
  /\ DupLevel \in [Endpoint -> Int]
  /\ MaxPackets \in [Endpoint -> Nat]
  /\ MaxFaults \in [Fault -> Nat]

Code == {"CODE_DATA", "CODE_PING"}
Buf == [magic : STRING, code : Code, echo : Nat, host : Host, id : Nat]
Datagram == [src : Host, type : {"ICMP_ECHO", "ICMP_ECHOREPLY"}, short : BOOLEAN,
             answered : BOOLEAN, buf : Buf]

VARIABLES
  peer_addr, peer_addr_len,   \* context_st; a length is 0 or 16
  sent, copy,                 \* mod_send_packet: packets so far, copies of this one
  ipbuf, from_addr, serial_prev,   \* thr_rcv
  inbox,      \* datagrams on their way to, or queued at, each raw socket
  faults,
  delivered   \* history: the packets handed to on_recv, in order

vars == <<peer_addr, peer_addr_len, sent, copy, ipbuf, from_addr, serial_prev,
          inbox, faults, delivered>>

\* A pthread's stack is fresh zero pages.
ZeroBuf == [magic |-> NoMagic, code |-> "CODE_DATA", echo |-> 0, host |-> Stranger, id |-> 0]

Init ==
  /\ peer_addr = Remote
  /\ peer_addr_len = [e \in Endpoint |-> IF Remote[e] = Stranger THEN 0 ELSE 16]
  /\ sent = [e \in Endpoint |-> 0]
  /\ copy = [e \in Endpoint |-> 0]
  /\ ipbuf = [e \in Endpoint |-> ZeroBuf]
  /\ from_addr = [e \in Endpoint |-> Stranger]
  /\ serial_prev = [e \in Endpoint |-> 0]
  /\ inbox = [e \in Endpoint |-> <<>>]
  /\ faults = [f \in Fault |-> 0]
  /\ delivered = [e \in Endpoint |-> <<>>]

Spend(f) ==
  /\ faults[f] < MaxFaults[f]
  /\ faults' = [faults EXCEPT ![f] = @ + 1]

-----------------------------------------------------------------------------
\* The static counter of mod_send_packet, which nothing ever increments.
serial == 0

\* htonl() of each half of a serial, cut down to 16 bits, and ntohl() of that:
\* the low 16 bits of each half are lost.
Half == 65536   \* 2 ^ 16
EchoOf(s) == (s \div Half) % Half
SerialOfMut(echo) == echo * Half - 1
SerialOf(echo) == echo * Half

Outgoing(e) ==
  [src |-> e, type |-> "ICMP_ECHO", short |-> FALSE, answered |-> FALSE,
   buf |-> [magic |-> Magic[e], code |-> "CODE_DATA", echo |-> EchoOf(serial),
            host |-> e, id |-> sent[e]]]

\* A packet is taken in, unless the peer's address is not known yet (the call
\* returns -1 and changes nothing); one iteration of the dup_level loop; the
\* return, at which the packet is done with.
SendCopy(e) ==
  /\ sent[e] < MaxPackets[e]
  /\ peer_addr_len[e] # 0
  /\ copy[e] < DupLevel[e]
  /\ copy' = [copy EXCEPT ![e] = @ + 1]
  /\ \/ /\ peer_addr[e] \in Endpoint
        /\ inbox' = [inbox EXCEPT ![peer_addr[e]] = Append(@, Outgoing(e))]
        /\ UNCHANGED faults
     \/ /\ peer_addr[e] \notin Endpoint
        /\ UNCHANGED <<inbox, faults>>
     \/ /\ Spend("lose")
        /\ UNCHANGED inbox
  /\ UNCHANGED <<peer_addr, peer_addr_len, sent, ipbuf, from_addr, serial_prev, delivered>>

SendEnd(e) ==
  /\ sent[e] < MaxPackets[e]
  /\ peer_addr_len[e] # 0
  /\ copy[e] >= DupLevel[e]
  /\ copy' = [copy EXCEPT ![e] = 0]
  /\ sent' = [sent EXCEPT ![e] = @ + 1]
  /\ UNCHANGED <<peer_addr, peer_addr_len, ipbuf, from_addr, serial_prev, inbox, faults,
                 delivered>>

-----------------------------------------------------------------------------
\* A datagram of another program: too short to reach the magic, or with other
\* bytes in its place.
Stray(e) ==
  /\ \E f \in {"short", "stray"} :
       /\ Spend(f)
       /\ inbox' = [inbox EXCEPT ![e] = Append(@,
            [src |-> Stranger, type |-> "ICMP_ECHO", short |-> f = "short", answered |-> FALSE,
             buf |-> [magic |-> NoMagic, code |-> "CODE_DATA", echo |-> 1,
                      host |-> Stranger, id |-> 0]])]
  /\ UNCHANGED <<peer_addr, peer_addr_len, sent, copy, ipbuf, from_addr, serial_prev,
                 delivered>>

\* The kernel of e answers an echo request that it also hands to the raw socket
\* (external; it may be told not to, or the reply may be lost).
EchoReply(e) ==
  /\ \E n \in DOMAIN inbox[e] :
       LET d == inbox[e][n]
       IN  /\ d.type = "ICMP_ECHO" /\ ~d.answered /\ d.src \in Endpoint
           /\ inbox' = [[inbox EXCEPT ![e][n].answered = TRUE] EXCEPT ![d.src] =
                          Append(@, [d EXCEPT !.src = e, !.type = "ICMP_ECHOREPLY"])]
  /\ UNCHANGED <<peer_addr, peer_addr_len, sent, copy, ipbuf, from_addr, serial_prev,
                 faults, delivered>>

\* The bytes in the buffer: a short datagram leaves the magic, the length and the
\* data of the one before in place, and overwrites the ICMP header only.
Filled(e, d) ==
  IF d.short THEN [ipbuf[e] EXCEPT !.code = d.buf.code, !.echo = d.buf.echo] ELSE d.buf

ForeignMut(e, b) == FALSE
Foreign(e, b) == b.magic # Magic[e]

RedundantMut(e, b) == FALSE
Redundant(e, b) == SerialOf(b.echo) = serial_prev[e]

\* The rest of the loop body of thr_rcv, on buffer b that came from host h.
Process(e, b, h) ==
  IF Foreign(e, b) \/ b.code # "CODE_DATA"
    THEN UNCHANGED <<peer_addr, peer_addr_len, serial_prev, delivered>>
    ELSE /\ peer_addr' = [peer_addr EXCEPT ![e] = h]
         /\ peer_addr_len' = [peer_addr_len EXCEPT ![e] = 16]
         /\ IF Redundant(e, b)
              THEN UNCHANGED <<serial_prev, delivered>>
              ELSE /\ serial_prev' = [serial_prev EXCEPT ![e] = SerialOf(b.echo)]
                   /\ delivered' = [delivered EXCEPT ![e] =
                                      Append(@, [host |-> b.host, id |-> b.id])]

\* poll() and recvfrom().
RcvFrom(e) ==
  /\ inbox[e] # <<>>
  /\ LET d == Head(inbox[e])
         buf == Filled(e, d)
     IN  /\ inbox' = [inbox EXCEPT ![e] = Tail(@)]
         /\ ipbuf' = [ipbuf EXCEPT ![e] = buf]
         /\ from_addr' = [from_addr EXCEPT ![e] = d.src]
         /\ Process(e, buf, d.src)
  /\ UNCHANGED <<sent, copy, faults>>

\* recvfrom() fails: only a length of 0 is tested for.
RcvFail(e) ==
  /\ inbox[e] # <<>>
  /\ Spend("rcvfail")
  /\ Process(e, ipbuf[e], from_addr[e])
  /\ UNCHANGED <<sent, copy, ipbuf, from_addr, inbox>>

Next ==
  \E e \in Endpoint : \/ SendCopy(e) \/ SendEnd(e) \/ RcvFrom(e) \/ RcvFail(e)
                    \/ Stray(e) \/ EchoReply(e)

Spec == Init /\ [][Next]_vars

-----------------------------------------------------------------------------
\* The type of every variable.
TypeOK ==
  /\ peer_addr \in [Endpoint -> Host]
  /\ peer_addr_len \in [Endpoint -> {0, 16}]
  /\ sent \in [Endpoint -> Nat]
  /\ copy \in [Endpoint -> Nat]
  /\ ipbuf \in [Endpoint -> Buf]
  /\ from_addr \in [Endpoint -> Host]
  /\ serial_prev \in [Endpoint -> Nat]
  /\ inbox \in [Endpoint -> Seq(Datagram)]
  /\ faults \in [Fault -> Nat]
  /\ delivered \in [Endpoint -> Seq([host : Host, id : Nat])]

\* The type of an ICMP datagram is not tested, and yet the tunnel does not get its
\* own packets back: the kernel's echo replies are taken for copies.  (So are the
\* peer's packets, since serial never changes.)  Only a datagram that ends before
\* the magic can make one of them look new.
NoEcho ==
  \A e \in Endpoint : \A n \in DOMAIN delivered[e] :
    delivered[e][n].host = e => faults["short"] > 0

\* The magic tells friend from stranger: the peer's address is the configured one
\* or one a packet with the right magic came from, even when recvfrom fails and a
\* buffer is looked at twice, unless a datagram ended before the magic.
PeerHasMagic ==
  \A e \in Endpoint :
    peer_addr_len[e] # 0 /\ peer_addr[e] \notin Endpoint => faults["short"] > 0
=============================================================================

-------------------------- MODULE SimpleUdpProofs --------------------------
(***************************************************************************)
(* Proofs about the simple_udp carrier, for any number of endpoints,       *)
(* sockets, copies and faults, and a network that loses, repeats and       *)
(* reorders datagrams; and, at the end, on a path that keeps the order of  *)
(* datagrams: what comes out, and what a restart of the peer costs.        *)
(***************************************************************************)
EXTENDS SimpleUdpLink, FiniteSetTheorems, SequenceTheorems, TLAPS

\* What the type invariant of the queues rests on: an arrival keeps a queue a
\* queue of datagrams, and not empty.
LEMMA ArrivalsType ==
  ASSUME NEW q \in Seq(Datagram), NEW d \in Datagram, NEW r \in Arrivals(q, d)
  PROVE  r \in Seq(Datagram) /\ r # <<>>
<1>1. PICK n \in Overtaken(q) : r = SubSeq(q, 1, n) \o <<d>> \o SubSeq(q, n + 1, Len(q))
  BY DEF Arrivals
<1>a. n \in 0 .. Len(q)
  BY DEF Overtaken
<1>2. SubSeq(q, 1, n) \in Seq(Datagram) /\ SubSeq(q, n + 1, Len(q)) \in Seq(Datagram)
  BY <1>a
<1>3. <<d>> \in Seq(Datagram) /\ Len(<<d>>) = 1
  OBVIOUS
<1>4. r \in Seq(Datagram)
  BY <1>1, <1>2, <1>3
<1>5. Len(r) > 0
  BY <1>1, <1>2, <1>3
<1> QED
  BY <1>4, <1>5

\* The type of the queues, a part of TypeOK.
QueuesOK ==
  /\ DOMAIN inbox = Endpoint
  /\ \A e \in Endpoint : inbox[e] \in [Socket(e) -> Seq(Datagram)]

\* An arrival at any address leaves the queues well typed and empties none.
LEMMA ArriveQueues ==
  ASSUME QueuesOK, NEW addr \in Address, NEW d \in Datagram, Arrive(addr, d)
  PROVE  /\ QueuesOK'
         /\ \A e \in Endpoint : \A k \in Socket(e) :
              inbox[e][k] # <<>> => inbox'[e][k] # <<>>
<1>1. CASE ~Bound(addr)
  BY <1>1 DEF Arrive, QueuesOK, Socket
<1>2. CASE Bound(addr)
  <2>1. addr.host \in Endpoint /\ addr.port \in Socket(addr.host)
    BY <1>2 DEF Bound
  <2>2. PICK q \in Arrivals(inbox[addr.host][addr.port], d) :
          inbox' = [inbox EXCEPT ![addr.host][addr.port] = q]
    BY <1>2 DEF Arrive
  <2>3. inbox[addr.host][addr.port] \in Seq(Datagram)
    BY <2>1 DEF QueuesOK
  <2>4. q \in Seq(Datagram) /\ q # <<>>
    BY <2>3, ArrivalsType
  <2>5. inbox' = [inbox EXCEPT ![addr.host] = [inbox[addr.host] EXCEPT ![addr.port] = q]]
    BY <2>2
  <2>6. [inbox[addr.host] EXCEPT ![addr.port] = q] \in [Socket(addr.host) -> Seq(Datagram)]
    BY <2>1, <2>4 DEF QueuesOK
  <2>7. \A e \in Endpoint : inbox'[e] = IF e = addr.host THEN [inbox[addr.host] EXCEPT ![addr.port] = q]
                                                     ELSE inbox[e]
    BY <2>5 DEF QueuesOK
  <2>8. QueuesOK'
    BY <2>5, <2>6, <2>7 DEF QueuesOK, Socket
  <2>9. ASSUME NEW e \in Endpoint, NEW k \in Socket(e), inbox[e][k] # <<>>
        PROVE  inbox'[e][k] # <<>>
    BY <2>1, <2>4, <2>7, <2>9 DEF QueuesOK
  <2> QED
    BY <2>8, <2>9
<1> QED
  BY <1>1, <1>2

\* The initial state is well typed and no socket is flagged.
LEMMA InitType == Init => TypeOK /\ RecvNeverBlocks
<1> SUFFICES ASSUME Init PROVE TypeOK /\ RecvNeverBlocks
  OBVIOUS
<1>1. NoAddr \in Address /\ ZeroBuf \in Datagram
  BY DEF NoAddr, Address, Port, NoPort, ZeroBuf, Datagram, Code
<1>2. \A e \in Endpoint : NrSockets[e] \in Nat /\ NrSockets[e] > 0
  BY ConstantsAssumption
<1> QED
  BY <1>1, <1>2, ConstantsAssumption
  DEF Init, TypeOK, RecvNeverBlocks, Socket, IN4, IN6, Fault

\* Address pieces used below: the addresses and datagrams the code builds are
\* well typed.
LEMMA ValueTypes ==
  /\ NoAddr \in Address /\ ZeroBuf \in Datagram
  /\ \A e \in Endpoint : NrSockets[e] \in Nat /\ NrSockets[e] > 0
  /\ \A e \in Endpoint : \A k \in Socket(e) : k \in Nat /\ [host |-> e, port |-> k] \in Address
  /\ \A d \in Datagram : Packet(d) \in PacketId
<1>1. NoAddr \in Address /\ ZeroBuf \in Datagram
  BY DEF NoAddr, Address, Port, NoPort, ZeroBuf, Datagram, Code
<1>2. \A e \in Endpoint : NrSockets[e] \in Nat /\ NrSockets[e] > 0
  BY ConstantsAssumption
<1>3. \A e \in Endpoint : \A k \in Socket(e) : k \in Nat /\ [host |-> e, port |-> k] \in Address
  BY <1>2 DEF Socket, Address, Port
<1>4. \A d \in Datagram : Packet(d) \in PacketId
  BY DEF Datagram, Packet, PacketId, Address
<1> QED
  BY <1>1, <1>2, <1>3, <1>4

\* The steps of mod_send_packet keep the state well typed.
LEMMA SendType ==
  ASSUME TypeOK, RecvNeverBlocks, NEW e \in Endpoint, Send(e)
  PROVE  TypeOK' /\ RecvNeverBlocks'
<1>1. CASE SendBegin(e)
  BY <1>1 DEF SendBegin, TypeOK, RecvNeverBlocks, Socket, shared, receiver, history
<1>2. CASE SendEnd(e)
  <2>1. serial' \in [Endpoint -> Nat] /\ spc' \in [Endpoint -> {"idle", "sending"}]
    BY <1>2 DEF SendEnd, TypeOK
  <2> QED
    BY <1>2, <2>1 DEF SendEnd, TypeOK, RecvNeverBlocks, Socket, shared, receiver, history
<1>3. CASE SendCopy(e)
  <2>1. NextSocket(e) \in Socket(e) /\ socket_id[e] \in Socket(e)
    BY ValueTypes DEF TypeOK, NextSocket, Socket
  <2>2. Outgoing(e) \in Datagram
    BY ValueTypes DEF TypeOK, Outgoing, Datagram, Code
  <2>3. /\ copy' \in [Endpoint -> Nat]
        /\ socket_id' \in [Endpoint -> Nat]
        /\ \A f \in Endpoint : socket_id'[f] \in Socket(f)
        /\ faults' \in [Fault -> Nat]
    <3>0. /\ copy' = [copy EXCEPT ![e] = copy[e] + 1]
          /\ \/ socket_id' = socket_id
             \/ socket_id' = [socket_id EXCEPT ![e] = NextSocket(e)]
      BY <1>3 DEF SendCopy
    <3>1. copy' \in [Endpoint -> Nat]
      <4>1. copy \in [Endpoint -> Nat]
        BY DEF TypeOK
      <4> QED
        BY <3>0, <4>1
    <3>2. /\ socket_id' \in [Endpoint -> Nat]
          /\ \A f \in Endpoint : socket_id'[f] \in Socket(f)
      <4>1. NextSocket(e) \in Nat
        BY <2>1, ValueTypes
      <4>2. socket_id \in [Endpoint -> Nat] /\ \A f \in Endpoint : socket_id[f] \in Socket(f)
        BY DEF TypeOK
      <4> QED
        BY <2>1, <3>0, <4>1, <4>2
    <3>3. faults' \in [Fault -> Nat]
      <4>1. faults \in [Fault -> Nat]
        BY DEF TypeOK
      <4>2. \/ faults' = faults
            \/ faults' = [faults EXCEPT !["lose"] = faults["lose"] + 1]
            \/ faults' = [faults EXCEPT !["eintr"] = faults["eintr"] + 1]
        BY <1>3 DEF SendCopy, Spend
      <4> QED
        BY <4>1, <4>2 DEF Fault
    <3> QED
      BY <3>1, <3>2, <3>3
  <2>4. /\ QueuesOK'
        /\ \A f \in Endpoint : \A k \in Socket(f) : inbox[f][k] # <<>> => inbox'[f][k] # <<>>
    <3>1. CASE Arrive(peer_addr[e], Outgoing(e))
      <4>1. peer_addr[e] \in Address /\ QueuesOK
        BY DEF TypeOK, QueuesOK
      <4> QED
        BY <3>1, <4>1, <2>2, ArriveQueues
    <3>2. CASE UNCHANGED inbox
      BY <3>2 DEF TypeOK, QueuesOK, Socket
    <3> QED
      BY <1>3, <3>1, <3>2 DEF SendCopy
  <2> QED
    BY <1>3, <2>3, <2>4 DEF SendCopy, TypeOK, QueuesOK, RecvNeverBlocks, Socket, shared, receiver, history
<1> QED
  BY <1>1, <1>2, <1>3 DEF Send

\* A datagram taken from a queue leaves the other queues alone.
LEMMA TakeQueues ==
  ASSUME QueuesOK, NEW e \in Endpoint, NEW k \in Socket(e), inbox[e][k] # <<>>,
         inbox' = [inbox EXCEPT ![e][k] = Tail(inbox[e][k])]
  PROVE  /\ QueuesOK'
         /\ Head(inbox[e][k]) \in Datagram
         /\ \A f \in Endpoint : \A j \in Socket(f) :
              f # e \/ j # k => inbox'[f][j] = inbox[f][j]
<1>1. inbox[e][k] \in Seq(Datagram)
  BY DEF QueuesOK
<1>2. Tail(inbox[e][k]) \in Seq(Datagram) /\ Head(inbox[e][k]) \in Datagram
  BY <1>1
<1>3. [inbox[e] EXCEPT ![k] = Tail(inbox[e][k])] \in [Socket(e) -> Seq(Datagram)]
  BY <1>2 DEF QueuesOK
<1>4. \A f \in Endpoint : inbox'[f] = IF f = e THEN [inbox[e] EXCEPT ![k] = Tail(inbox[e][k])]
                                             ELSE inbox[f]
  BY DEF QueuesOK
<1>5. DOMAIN inbox' = Endpoint
  BY DEF QueuesOK
<1>6. QueuesOK'
  BY <1>3, <1>4, <1>5 DEF QueuesOK, Socket
<1>7. \A f \in Endpoint : \A j \in Socket(f) :
        f # e \/ j # k => inbox'[f][j] = inbox[f][j]
  BY <1>4 DEF QueuesOK
<1> QED
  BY <1>2, <1>6, <1>7

\* The steps of thr_rcv keep the state well typed.  That recvfrom finds a
\* datagram in the socket it reads rests on RecvNeverBlocks.
LEMMA RcvType ==
  ASSUME TypeOK, RecvNeverBlocks, NEW e \in Endpoint, Rcv(e)
  PROVE  TypeOK' /\ RecvNeverBlocks'
<1>1. CASE RcvPoll(e)
  <2>1. Ready(e) \subseteq Socket(e) /\ Socket(e) \subseteq Nat
    BY ValueTypes DEF Ready
  <2>2. pfd' = [pfd EXCEPT ![e] = Ready(e)] /\ inbox' = inbox
    BY <1>1 DEF RcvPoll
  <2>3. pfd \in [Endpoint -> SUBSET Nat] /\ \A f \in Endpoint : pfd[f] \subseteq Socket(f)
    BY DEF TypeOK
  <2>4. pfd' \in [Endpoint -> SUBSET Nat] /\ \A f \in Endpoint : pfd'[f] \subseteq Socket(f)
    BY <2>1, <2>2, <2>3
  <2>5. RecvNeverBlocks'
    BY <2>2, <2>3 DEF RecvNeverBlocks, Ready
  <2> QED
    BY <1>1, <2>4, <2>5 DEF RcvPoll, TypeOK, Socket, shared, sender, history
<1>2. CASE RcvFrom(e)
  <2>1. PICK k \in pfd[e] :
          /\ pfd' = [pfd EXCEPT ![e] = pfd[e] \ {k}]
          /\ inbox' = [inbox EXCEPT ![e][k] = Tail(inbox[e][k])]
          /\ \E h \in SourceHosts(e, Head(inbox[e][k])) :
               from_addr' = [from_addr EXCEPT ![e] =
                               [host |-> h, port |-> Head(inbox[e][k]).src.port]]
          /\ from_addr_len' = [from_addr_len EXCEPT ![e] = IN6]
          /\ \E u \in Filled(e, Head(inbox[e][k])) : ubuf' = [ubuf EXCEPT ![e] = u]
          /\ \/ UNCHANGED <<rpc, memcpy, got>>
             \/ /\ rpc' = [rpc EXCEPT ![e] = "copy"]
                /\ memcpy' = [memcpy EXCEPT ![e] = AddrHalves(IN6)]
                /\ got' = [got EXCEPT ![e] = IF got[e] < 2 THEN got[e] + 1 ELSE got[e]]
    BY <1>2 DEF RcvFrom
  <2>2. k \in Socket(e) /\ inbox[e][k] # <<>> /\ QueuesOK
    BY DEF TypeOK, RecvNeverBlocks, QueuesOK
  <2>3. /\ QueuesOK'
        /\ Head(inbox[e][k]) \in Datagram
        /\ \A f \in Endpoint : \A j \in Socket(f) :
             f # e \/ j # k => inbox'[f][j] = inbox[f][j]
    BY <2>1, <2>2, TakeQueues
  <2>4. pfd \in [Endpoint -> SUBSET Nat] /\ \A f \in Endpoint : pfd[f] \subseteq Socket(f)
    BY DEF TypeOK
  <2>5. pfd' \in [Endpoint -> SUBSET Nat] /\ \A f \in Endpoint : pfd'[f] \subseteq Socket(f)
    BY <2>1, <2>4
  <2>6. RecvNeverBlocks'
    BY <2>1, <2>3, <2>4 DEF RecvNeverBlocks
  <2>7. from_addr' \in [Endpoint -> Address]
    <3>1. \A h \in SourceHosts(e, Head(inbox[e][k])) :
            [host |-> h, port |-> Head(inbox[e][k]).src.port] \in Address
      BY <2>3 DEF SourceHosts, Datagram, Address
    <3> QED
      BY <2>1, <3>1 DEF TypeOK
  <2>8. ubuf' \in [Endpoint -> Datagram]
    <3>1. ubuf \in [Endpoint -> Datagram]
      BY DEF TypeOK
    <3>2. \A u \in Datagram : [u EXCEPT !.code = "CODE_DATA"] \in Datagram
      BY DEF Datagram, Code
    <3>3. Filled(e, Head(inbox[e][k])) \subseteq Datagram
      BY <2>3, <3>1, <3>2 DEF Filled
    <3> QED
      BY <2>1, <3>1, <3>3
  <2>9. rpc' \in [Endpoint -> {"scan", "copy"}] /\ memcpy' \in [Endpoint -> SUBSET {"host", "port"}]
    <3>1. rpc \in [Endpoint -> {"scan", "copy"}] /\ memcpy \in [Endpoint -> SUBSET {"host", "port"}]
      BY DEF TypeOK
    <3> QED
      BY <2>1, <3>1 DEF AddrHalves
  <2>10. got' \in [Endpoint -> 0 .. 2]
    <3>1. got \in [Endpoint -> 0 .. 2]
      BY DEF TypeOK
    <3> QED
      BY <2>1, <3>1
  <2>11. from_addr_len' \in [Endpoint -> {IN4, IN6}]
    BY <2>1 DEF TypeOK
  <2> QED
    BY <1>2, <2>3, <2>5, <2>6, <2>7, <2>8, <2>9, <2>10, <2>11
    DEF RcvFrom, TypeOK, QueuesOK, Socket, shared, sender
<1>3. CASE RcvFail(e)
  <2>1. pfd' \in [Endpoint -> SUBSET Nat] /\ \A f \in Endpoint : pfd'[f] \subseteq pfd[f]
    BY <1>3 DEF RcvFail, TypeOK
  <2>2. rpc' \in [Endpoint -> {"scan", "copy"}] /\ memcpy' \in [Endpoint -> SUBSET {"host", "port"}]
    <3>1. rpc \in [Endpoint -> {"scan", "copy"}] /\ memcpy \in [Endpoint -> SUBSET {"host", "port"}]
      BY DEF TypeOK
    <3>2. \/ UNCHANGED <<rpc, memcpy>>
          \/ /\ rpc' = [rpc EXCEPT ![e] = "copy"]
             /\ memcpy' = [memcpy EXCEPT ![e] = AddrHalves(from_addr_len[e])]
      BY <1>3 DEF RcvFail
    <3> QED
      BY <3>1, <3>2 DEF AddrHalves
  <2>3. faults' \in [Fault -> Nat]
    <3>1. faults \in [Fault -> Nat] /\ faults' = [faults EXCEPT !["rcvfail"] = faults["rcvfail"] + 1]
      BY <1>3 DEF RcvFail, TypeOK, Spend
    <3>2. "rcvfail" \in Fault
      BY DEF Fault
    <3> QED
      BY <3>1, <3>2
  <2>4. RecvNeverBlocks'
    BY <1>3, <2>1 DEF RcvFail, RecvNeverBlocks
  <2> QED
    BY <1>3, <2>1, <2>2, <2>3, <2>4 DEF RcvFail, TypeOK, Socket, shared, sender, history
<1>4. CASE CopyAddr(e)
  <2>1. PICK h \in memcpy[e] :
          /\ memcpy' = [memcpy EXCEPT ![e] = memcpy[e] \ {h}]
          /\ peer_addr' = [peer_addr EXCEPT ![e] = [peer_addr[e] EXCEPT ![h] = from_addr[e][h]]]
    BY <1>4 DEF CopyAddr
  <2>2. h \in {"host", "port"} /\ peer_addr[e] \in Address /\ from_addr[e] \in Address
    BY DEF TypeOK
  <2>3. [peer_addr[e] EXCEPT ![h] = from_addr[e][h]] \in Address
    BY <2>2 DEF Address
  <2>4. peer_addr' \in [Endpoint -> Address] /\ memcpy' \in [Endpoint -> SUBSET {"host", "port"}]
    BY <2>1, <2>3 DEF TypeOK
  <2> QED
    BY <1>4, <2>4 DEF CopyAddr, TypeOK, RecvNeverBlocks, Socket, sender, history
<1>5. CASE Filter(e)
  <2>1. /\ ubuf[e] \in Datagram
        /\ delivered \in [Endpoint -> Seq(PacketId)]
        /\ received \in [Endpoint -> SUBSET PacketId]
        /\ serial_prev \in [Endpoint -> Nat]
    BY DEF TypeOK
  <2>2. Packet(ubuf[e]) \in PacketId /\ ubuf[e].serial \in Nat
    BY <2>1, ValueTypes DEF Datagram
  <2>3. received' \in [Endpoint -> SUBSET PacketId]
    BY <1>5, <2>1, <2>2 DEF Filter
  <2>4. delivered' \in [Endpoint -> Seq(PacketId)] /\ serial_prev' \in [Endpoint -> Nat]
    <3>1. \/ UNCHANGED <<serial_prev, delivered>>
          \/ /\ serial_prev' = [serial_prev EXCEPT ![e] = ubuf[e].serial]
             /\ delivered' = [delivered EXCEPT ![e] = Append(delivered[e], Packet(ubuf[e]))]
      BY <1>5 DEF Filter, Accept
    <3>2. Append(delivered[e], Packet(ubuf[e])) \in Seq(PacketId)
      BY <2>1, <2>2
    <3> QED
      BY <2>1, <2>2, <3>1, <3>2
  <2>5. rpc' \in [Endpoint -> {"scan", "copy"}] /\ peer_addr_len' \in [Endpoint -> {0, IN4, IN6}]
    BY <1>5 DEF Filter, TypeOK
  <2> QED
    BY <1>5, <2>3, <2>4, <2>5 DEF Filter, TypeOK, RecvNeverBlocks, Socket, sender
<1> QED
  BY <1>1, <1>2, <1>3, <1>4, <1>5 DEF Rcv

\* The network's own steps keep the state well typed.
LEMMA NetworkType ==
  ASSUME TypeOK, RecvNeverBlocks, NEW e \in Endpoint, NEW k \in Socket(e),
         Duplicate(e, k) \/ Stray(e, k)
  PROVE  TypeOK' /\ RecvNeverBlocks'
<1>1. [host |-> e, port |-> k] \in Address /\ QueuesOK
  BY ValueTypes DEF TypeOK, QueuesOK
<1>2. \E d \in Datagram : Arrive([host |-> e, port |-> k], d)
  <2>1. CASE Duplicate(e, k)
    <3>1. PICK n \in DOMAIN inbox[e][k] : Arrive([host |-> e, port |-> k], inbox[e][k][n])
      BY <2>1 DEF Duplicate
    <3>2. inbox[e][k] \in Seq(Datagram)
      BY DEF TypeOK
    <3>3. inbox[e][k][n] \in Datagram
      BY <3>2
    <3> QED
      BY <3>1, <3>3
  <2>2. CASE Stray(e, k)
    <3>1. PICK c \in Code :
            Arrive([host |-> e, port |-> k],
                   [src |-> [host |-> Stranger, port |-> 0], code |-> c, inc |-> 0, serial |-> 1])
      BY <2>2 DEF Stray
    <3>2. [src |-> [host |-> Stranger, port |-> 0], code |-> c, inc |-> 0, serial |-> 1] \in Datagram
      BY DEF Datagram, Address, Port
    <3> QED
      BY <3>1, <3>2
  <2> QED
    BY <2>1, <2>2
<1>3. /\ QueuesOK'
      /\ \A f \in Endpoint : \A j \in Socket(f) : inbox[f][j] # <<>> => inbox'[f][j] # <<>>
  BY <1>1, <1>2, ArriveQueues
<1>4. UNCHANGED <<shared, sender, receiver, history, inc>>
  BY DEF Duplicate, Stray
<1>5. faults' \in [Fault -> Nat]
  <2>1. faults \in [Fault -> Nat]
    BY DEF TypeOK
  <2>2. \E f \in {"dup", "stray"} : faults' = [faults EXCEPT ![f] = faults[f] + 1]
    BY DEF Duplicate, Stray, Spend
  <2> QED
    BY <2>1, <2>2 DEF Fault
<1> QED
  BY <1>3, <1>4, <1>5
  DEF TypeOK, QueuesOK, RecvNeverBlocks, Socket, shared, sender, receiver, history

\* A restart leaves the state well typed.
LEMMA RestartType ==
  ASSUME TypeOK, RecvNeverBlocks, NEW e \in Endpoint, Restart(e)
  PROVE  TypeOK' /\ RecvNeverBlocks'
<1>1. QueuesOK' /\ \A f \in Endpoint : f # e => inbox'[f] = inbox[f]
  <2>1. PICK queued \in [Socket(e) -> UNION {0 .. Len(inbox[e][k]) : k \in Socket(e)}] :
          /\ \A k \in Socket(e) : queued[k] <= Len(inbox[e][k])
          /\ inbox' = [inbox EXCEPT ![e] = [k \in Socket(e) |->
                         SubSeq(inbox[e][k], queued[k] + 1, Len(inbox[e][k]))]]
    BY DEF Restart
  <2>2. QueuesOK
    BY DEF TypeOK, QueuesOK
  <2>3. ASSUME NEW k \in Socket(e)
        PROVE  SubSeq(inbox[e][k], queued[k] + 1, Len(inbox[e][k])) \in Seq(Datagram)
    <3>1. inbox[e][k] \in Seq(Datagram)
      BY <2>2 DEF QueuesOK
    <3>2. \A j \in Socket(e) : Len(inbox[e][j]) \in Nat
      BY <2>2 DEF QueuesOK
    <3>3. queued[k] \in Nat
      BY <2>1, <3>2
    <3> QED
      BY <3>1, <3>3
  <2>4. inbox'[e] \in [Socket(e) -> Seq(Datagram)] /\ DOMAIN inbox' = Endpoint
    BY <2>1, <2>2, <2>3 DEF QueuesOK
  <2>5. \A f \in Endpoint : f # e => inbox'[f] = inbox[f]
    BY <2>1, <2>2 DEF QueuesOK
  <2> QED
    BY <2>2, <2>4, <2>5 DEF QueuesOK, Socket
<1>2. pfd' = [pfd EXCEPT ![e] = {}] /\ pfd \in [Endpoint -> SUBSET Nat]
  BY DEF Restart, TypeOK
<1>3. pfd' \in [Endpoint -> SUBSET Nat] /\ \A f \in Endpoint : pfd'[f] \subseteq pfd[f]
  BY <1>2
<1>4. RecvNeverBlocks'
  BY <1>1, <1>2 DEF RecvNeverBlocks
<1>5. Remote[e] \in Address /\ NoAddr \in Address /\ ZeroBuf \in Datagram /\ 0 \in Socket(e)
  BY ConstantsAssumption, ValueTypes DEF Socket
<1>6. peer_addr' \in [Endpoint -> Address] /\ peer_addr_len' \in [Endpoint -> {0, IN4, IN6}]
  BY <1>5 DEF Restart, TypeOK
<1>7. /\ socket_id' \in [Endpoint -> Nat] /\ \A f \in Endpoint : socket_id'[f] \in Socket(f)
  BY <1>5 DEF Restart, TypeOK
<1>8. /\ spc' \in [Endpoint -> {"idle", "sending"}]
      /\ copy' \in [Endpoint -> Nat] /\ serial' \in [Endpoint -> Nat]
      /\ serial_prev' \in [Endpoint -> Nat]
  BY DEF Restart, TypeOK
<1>9. rpc' \in [Endpoint -> {"scan", "copy"}] /\ memcpy' \in [Endpoint -> SUBSET {"host", "port"}]
  BY DEF Restart, TypeOK
<1>10. /\ ubuf' \in [Endpoint -> Datagram] /\ from_addr' \in [Endpoint -> Address]
       /\ from_addr_len' \in [Endpoint -> {IN4, IN6}]
  BY <1>5 DEF Restart, TypeOK
<1>11. inc' \in [Endpoint -> Nat] /\ faults' \in [Fault -> Nat]
  <2>1. inc' = [inc EXCEPT ![e] = inc[e] + 1] /\ faults' = [faults EXCEPT !["restart"] = faults["restart"] + 1]
    BY DEF Restart, Spend
  <2>2. inc \in [Endpoint -> Nat] /\ faults \in [Fault -> Nat] /\ "restart" \in Fault
    BY DEF TypeOK, Fault
  <2> QED
    BY <2>1, <2>2
<1>12. delivered' \in [Endpoint -> Seq(PacketId)] /\ received' \in [Endpoint -> SUBSET PacketId]
  <2>1. delivered' = [delivered EXCEPT ![e] = <<>>] /\ received' = [received EXCEPT ![e] = {}]
    BY DEF Restart
  <2>2. delivered \in [Endpoint -> Seq(PacketId)] /\ received \in [Endpoint -> SUBSET PacketId]
    BY DEF TypeOK
  <2> QED
    BY <2>1, <2>2
<1>13. got' \in [Endpoint -> 0 .. 2]
  <2>1. got' = [got EXCEPT ![e] = 0]
    BY DEF Restart
  <2>2. got \in [Endpoint -> 0 .. 2]
    BY DEF TypeOK
  <2> QED
    BY <2>1, <2>2, <1>5
<1>14. \A f \in Endpoint : pfd'[f] \subseteq Socket(f)
  BY <1>3 DEF TypeOK
<1> QED
  BY <1>1, <1>3, <1>4, <1>6, <1>7, <1>8, <1>9, <1>10, <1>11, <1>12, <1>13, <1>14
  DEF TypeOK, QueuesOK, Socket

\* Types together with RecvNeverBlocks are inductive.
LEMMA StepType == TypeOK /\ RecvNeverBlocks /\ [Next]_vars => TypeOK' /\ RecvNeverBlocks'
<1> SUFFICES ASSUME TypeOK, RecvNeverBlocks, [Next]_vars PROVE TypeOK' /\ RecvNeverBlocks'
  OBVIOUS
<1>1. ASSUME NEW e \in Endpoint, Send(e) PROVE TypeOK' /\ RecvNeverBlocks'
  BY <1>1, SendType
<1>2. ASSUME NEW e \in Endpoint, Rcv(e) PROVE TypeOK' /\ RecvNeverBlocks'
  BY <1>2, RcvType
<1>3. ASSUME NEW e \in Endpoint, Restart(e) PROVE TypeOK' /\ RecvNeverBlocks'
  BY <1>3, RestartType
<1>4. ASSUME NEW e \in Endpoint, NEW k \in Socket(e), Duplicate(e, k) \/ Stray(e, k)
      PROVE  TypeOK' /\ RecvNeverBlocks'
  BY <1>4, NetworkType
<1>5. CASE UNCHANGED vars
  BY <1>5 DEF vars, shared, sender, receiver, history, TypeOK, RecvNeverBlocks, Socket
<1> QED
  BY <1>1, <1>2, <1>3, <1>4, <1>5 DEF Next, Network

\* The type of every variable of the carrier, whatever the configuration.
THEOREM TypeCorrect == Spec => []TypeOK
<1>1. Init => TypeOK /\ RecvNeverBlocks
  BY InitType
<1>2. TypeOK /\ RecvNeverBlocks /\ [Next]_vars => (TypeOK /\ RecvNeverBlocks)'
  BY StepType
<1> QED
  BY <1>1, <1>2, PTL DEF Spec

\* thr_rcv never calls recvfrom on a socket that has no datagram, so the blocking
\* call always returns: for any number of sockets, and a network that delivers
\* between poll() and recvfrom() as it likes.
THEOREM NeverBlocks == Spec => []RecvNeverBlocks
<1>1. Init => TypeOK /\ RecvNeverBlocks
  BY InitType
<1>2. TypeOK /\ RecvNeverBlocks /\ [Next]_vars => (TypeOK /\ RecvNeverBlocks)'
  BY StepType
<1> QED
  BY <1>1, <1>2, PTL DEF Spec

-----------------------------------------------------------------------------
(***************************************************************************)
(* The duplicate filter.                                                   *)
(***************************************************************************)

\* The inductive invariant of the filter.
\* Every serial but 0 that reached the filter has come out of it, with one packet
\* or another.
SerialDelivered ==
  \A e \in Endpoint : \A p \in received[e] :
    p.serial # 0 => \E n \in DOMAIN delivered[e] : delivered[e][n].serial = p.serial

\* Nothing comes out of the filter that has not reached it.
DeliveredReceived ==
  \A e \in Endpoint : \A n \in DOMAIN delivered[e] : delivered[e][n] \in received[e]

FilterInv ==
  SerialPrevIsLast /\ NoAdjacentDuplicate /\ SerialDelivered /\ DeliveredReceived

\* The steps that leave the filter's state alone preserve the invariant.
LEMMA FilterUnchanged ==
  ASSUME FilterInv, UNCHANGED <<serial_prev, delivered, received>>
  PROVE  FilterInv'
BY DEF FilterInv, SerialPrevIsLast, NoAdjacentDuplicate, SerialDelivered, DeliveredReceived

\* A packet that arrives is either a copy of the last one handed over, or
\* becomes the last one.
LEMMA FilterStep ==
  ASSUME TypeOK, FilterInv, NEW e \in Endpoint, Filter(e)
  PROVE  FilterInv'
<1> DEFINE p == Packet(ubuf[e])
<1>1. /\ ubuf[e] \in Datagram
      /\ delivered \in [Endpoint -> Seq(PacketId)]
      /\ received \in [Endpoint -> SUBSET PacketId]
      /\ serial_prev \in [Endpoint -> Nat]
  BY DEF TypeOK
<1>2. p \in PacketId /\ p.serial = ubuf[e].serial /\ p.serial \in Nat
  BY <1>1, ValueTypes DEF Packet, Datagram
<1>3. received' = [received EXCEPT ![e] = received[e] \cup {p}]
  BY DEF Filter
<1>4. CASE Redundant(e)
  <2>1. UNCHANGED <<serial_prev, delivered>>
    BY <1>4 DEF Filter
  <2>2. p.serial = serial_prev[e]
    BY <1>2, <1>4 DEF Redundant
  <2>3. SerialPrevIsLast' /\ NoAdjacentDuplicate'
    BY <2>1 DEF FilterInv, SerialPrevIsLast, NoAdjacentDuplicate
  <2>4. p.serial # 0 => \E n \in DOMAIN delivered[e] : delivered[e][n].serial = p.serial
    <3>1. SUFFICES ASSUME p.serial # 0
                   PROVE  \E n \in DOMAIN delivered[e] : delivered[e][n].serial = p.serial
      OBVIOUS
    <3>2. delivered[e] # <<>> /\ p.serial = delivered[e][Len(delivered[e])].serial
      BY <2>2, <3>1 DEF FilterInv, SerialPrevIsLast
    <3>3. Len(delivered[e]) \in DOMAIN delivered[e]
      BY <1>1, <3>2
    <3> QED
      BY <3>2, <3>3
  <2>5. SerialDelivered'
    BY <1>1, <1>3, <2>1, <2>4 DEF FilterInv, SerialDelivered
  <2>6. DeliveredReceived'
    BY <1>1, <1>3, <2>1 DEF FilterInv, DeliveredReceived
  <2> QED
    BY <2>3, <2>5, <2>6 DEF FilterInv
<1>5. CASE ~Redundant(e)
  <2> DEFINE s == delivered[e]
             t == Append(delivered[e], p)
  <2>1. /\ serial_prev' = [serial_prev EXCEPT ![e] = p.serial]
        /\ delivered' = [delivered EXCEPT ![e] = t]
    BY <1>2, <1>5 DEF Filter, Accept
  <2>2. p.serial # serial_prev[e]
    BY <1>2, <1>5 DEF Redundant
  <2>3. /\ s \in Seq(PacketId) /\ t \in Seq(PacketId)
        /\ Len(t) = Len(s) + 1 /\ t[Len(s) + 1] = p
        /\ \A n \in 1 .. Len(s) : t[n] = s[n]
    BY <1>1, <1>2
  <2>4. /\ delivered'[e] = t /\ serial_prev'[e] = p.serial
        /\ \A f \in Endpoint : f # e => delivered'[f] = delivered[f] /\ serial_prev'[f] = serial_prev[f]
    BY <1>1, <2>1
  <2>5. SerialPrevIsLast'
    <3>1. t # <<>> /\ t[Len(t)].serial = p.serial
      <4> HIDE DEF t, p
      <4>1. t[Len(t)] = p
        BY <2>3
      <4>2. Len(t) # 0
        BY <2>3
      <4>3. t # <<>>
        BY <2>3, <4>2
      <4> QED
        BY <4>1, <4>3
    <3> QED
      BY <2>4, <3>1 DEF FilterInv, SerialPrevIsLast
  <2>6. NoAdjacentDuplicate'
    <3>1. ASSUME NEW n \in 2 .. Len(t) PROVE t[n].serial # t[n - 1].serial
      <4>1. CASE n \in 2 .. Len(s)
        <5>1. n \in 1 .. Len(s) /\ n - 1 \in 1 .. Len(s)
          BY <2>3, <4>1
        <5>2. s[n].serial # s[n - 1].serial
          BY <4>1 DEF FilterInv, NoAdjacentDuplicate
        <5> QED
          BY <2>3, <5>1, <5>2
      <4>2. CASE n = Len(s) + 1
        <5>1. s # <<>> /\ t[n] = p /\ t[n - 1] = s[Len(s)]
          BY <2>3, <3>1, <4>2
        <5>2. s[Len(s)].serial = serial_prev[e]
          BY <5>1 DEF FilterInv, SerialPrevIsLast
        <5> QED
          BY <5>1, <5>2, <2>2
      <4> QED
        BY <2>3, <3>1, <4>1, <4>2
    <3>2. ASSUME NEW f \in Endpoint, NEW n \in 2 .. Len(delivered'[f])
          PROVE  delivered'[f][n].serial # delivered'[f][n - 1].serial
      <4> HIDE DEF t, p, s
      <4>1. CASE f = e
        BY <2>4, <3>1, <3>2, <4>1
      <4>2. CASE f # e
        BY <2>4, <3>2, <4>2 DEF FilterInv, NoAdjacentDuplicate
      <4> QED
        BY <4>1, <4>2
    <3> QED
      BY <3>2 DEF NoAdjacentDuplicate
  <2>7. SerialDelivered'
    <3>1. DOMAIN s = 1 .. Len(s) /\ DOMAIN t = 1 .. Len(t) /\ Len(s) \in Nat
      BY <2>3
    <3>2. ASSUME NEW q \in received[e] \cup {p}, q.serial # 0
          PROVE  \E n \in DOMAIN t : t[n].serial = q.serial
      <4>1. CASE q = p
        BY <2>3, <3>1, <4>1
      <4>2. CASE q \in received[e]
        <5>1. PICK n \in DOMAIN s : s[n].serial = q.serial
          BY <3>2, <4>2 DEF FilterInv, SerialDelivered
        <5> QED
          BY <2>3, <3>1, <5>1
      <4> QED
        BY <4>1, <4>2
    <3>3. received'[e] = received[e] \cup {p} /\ \A f \in Endpoint : f # e => received'[f] = received[f]
      BY <1>1, <1>3
    <3> QED
      BY <2>4, <3>2, <3>3 DEF FilterInv, SerialDelivered
  <2>8. DeliveredReceived'
    <3>1. received'[e] = received[e] \cup {p} /\ \A f \in Endpoint : f # e => received'[f] = received[f]
      BY <1>1, <1>3
    <3>2. ASSUME NEW n \in DOMAIN t PROVE t[n] \in received'[e]
      <4>1. n \in 1 .. Len(s) \/ n = Len(s) + 1
        BY <2>3
      <4>2. DOMAIN s = 1 .. Len(s)
        BY <2>3
      <4> HIDE DEF t, p
      <4>3. CASE n = Len(s) + 1
        BY <2>3, <3>1, <4>3
      <4>4. CASE n \in 1 .. Len(s)
        <5>1. s[n] \in received[e]
          BY <4>2, <4>4 DEF FilterInv, DeliveredReceived
        <5> QED
          BY <2>3, <3>1, <4>4, <5>1
      <4> QED
        BY <4>1, <4>3, <4>4
    <3> HIDE DEF t, p
    <3> QED
      BY <2>4, <3>1, <3>2 DEF FilterInv, DeliveredReceived
  <2> QED
    BY <2>5, <2>6, <2>7, <2>8 DEF FilterInv
<1> QED
  BY <1>4, <1>5

\* A restart empties the filter along with its history.
LEMMA FilterRestart ==
  ASSUME TypeOK, FilterInv, NEW e \in Endpoint, Restart(e)
  PROVE  FilterInv'
<1>1. /\ delivered' = [delivered EXCEPT ![e] = <<>>]
      /\ received' = [received EXCEPT ![e] = {}]
      /\ serial_prev' = [serial_prev EXCEPT ![e] = 0]
  BY DEF Restart
<1>2. /\ delivered'[e] = <<>> /\ received'[e] = {} /\ serial_prev'[e] = 0
      /\ \A f \in Endpoint : f # e => /\ delivered'[f] = delivered[f]
                                      /\ received'[f] = received[f]
                                      /\ serial_prev'[f] = serial_prev[f]
  BY <1>1 DEF TypeOK
<1>3. SerialPrevIsLast'
  BY <1>2 DEF FilterInv, SerialPrevIsLast
<1>4. NoAdjacentDuplicate'
  <2>1. \A n \in 2 .. Len(delivered'[e]) : FALSE
    BY <1>2
  <2> QED
    BY <1>2, <2>1 DEF FilterInv, NoAdjacentDuplicate
<1>5. SerialDelivered'
  BY <1>2 DEF FilterInv, SerialDelivered
<1>6. DeliveredReceived'
  BY <1>2 DEF FilterInv, DeliveredReceived
<1> QED
  BY <1>3, <1>4, <1>5, <1>6 DEF FilterInv

\* Every step of the carrier preserves the invariant of the filter.
LEMMA FilterInvariant == TypeOK /\ FilterInv /\ [Next]_vars => FilterInv'
<1> SUFFICES ASSUME TypeOK, FilterInv, [Next]_vars PROVE FilterInv'
  OBVIOUS
<1>1. ASSUME NEW e \in Endpoint, Filter(e) PROVE FilterInv'
  BY <1>1, FilterStep
<1>2. ASSUME NEW e \in Endpoint, Restart(e) PROVE FilterInv'
  BY <1>2, FilterRestart
<1>3. ASSUME NEW e \in Endpoint,
             Send(e) \/ RcvPoll(e) \/ RcvFrom(e) \/ RcvFail(e) \/ CopyAddr(e)
      PROVE  FilterInv'
  <2>1. UNCHANGED <<serial_prev, delivered, received>>
    BY <1>3 DEF Send, SendBegin, SendCopy, SendEnd, RcvPoll, RcvFrom, RcvFail, CopyAddr,
                receiver, history
  <2> QED
    BY <2>1, FilterUnchanged
<1>4. ASSUME Network PROVE FilterInv'
  <2>1. UNCHANGED <<serial_prev, delivered, received>>
    BY <1>4 DEF Network, Duplicate, Stray, receiver, history
  <2> QED
    BY <2>1, FilterUnchanged
<1>5. CASE UNCHANGED vars
  <2>1. UNCHANGED <<serial_prev, delivered, received>>
    BY <1>5 DEF vars, receiver, history
  <2> QED
    BY <2>1, FilterUnchanged
<1> QED
  BY <1>1, <1>2, <1>3, <1>4, <1>5 DEF Next, Rcv

\* At first nothing is delivered and serial_prev is 0.
LEMMA FilterInit == Init => FilterInv
<1> SUFFICES ASSUME Init PROVE FilterInv
  OBVIOUS
<1>1. \A e \in Endpoint : delivered[e] = <<>> /\ received[e] = {} /\ serial_prev[e] = 0
  BY DEF Init
<1>2. \A e \in Endpoint : \A n \in 2 .. Len(delivered[e]) : FALSE
  BY <1>1
<1> QED
  BY <1>1, <1>2
  DEF FilterInv, SerialPrevIsLast, NoAdjacentDuplicate, SerialDelivered, DeliveredReceived

\* The tunnel never gets the same serial twice in a row, for any number of
\* endpoints, sockets and copies, and whatever is lost, repeated or reordered.
THEOREM NoDuplicateNextToItself == Spec => []NoAdjacentDuplicate
<1>1. Init => FilterInv
  BY FilterInit
<1>2. TypeOK /\ FilterInv /\ [Next]_vars => FilterInv'
  BY FilterInvariant
<1>3. FilterInv => NoAdjacentDuplicate
  BY DEF FilterInv
<1> QED
  BY <1>1, <1>2, <1>3, TypeCorrect, PTL DEF Spec

\* A packet that reaches the filter and is not numbered 0 comes out of it, unless
\* another packet that reached it since the endpoint started has the same serial:
\* one process as the only source loses no packet but the first to the filter.
THEOREM FilterLosesOnlyToNamesake == Spec => []LostOnlyToNamesake
<1>1. Init => FilterInv
  BY FilterInit
<1>2. TypeOK /\ FilterInv /\ [Next]_vars => FilterInv'
  BY FilterInvariant
<1>3. FilterInv => LostOnlyToNamesake
  <2> SUFFICES ASSUME FilterInv, NEW e \in Endpoint, NEW p \in received[e],
                      p.serial # 0, SerialOfItsOwn(e, p)
               PROVE  \E n \in DOMAIN delivered[e] : delivered[e][n] = p
    BY DEF LostOnlyToNamesake
  <2>1. PICK n \in DOMAIN delivered[e] : delivered[e][n].serial = p.serial
    BY DEF FilterInv, SerialDelivered
  <2>2. delivered[e][n] \in received[e]
    BY DEF FilterInv, DeliveredReceived
  <2>3. delivered[e][n] = p
    BY <2>1, <2>2 DEF SerialOfItsOwn
  <2> QED
    BY <2>3
<1> QED
  BY <1>1, <1>2, <1>3, TypeCorrect, PTL DEF Spec

-----------------------------------------------------------------------------
(***************************************************************************)
(* What thr_rcv keeps from one datagram to the next: the source address it *)
(* hands to mod_send_packet and the buffer that a failing recvfrom leaves  *)
(* as it was.                                                              *)
(*                                                                         *)
(* The datagrams in the queues of each endpoint: whatever set D[e] every   *)
(* datagram sent to e belongs to, the queues of e hold nothing else.       *)
(***************************************************************************)

QueuesHold(D) == \A e \in Endpoint : \A k \in Socket(e) : inbox[e][k] \in Seq(D[e])

\* A datagram of another program, as Stray sends it.
Other(c) == [src |-> [host |-> Stranger, port |-> 0], code |-> c, inc |-> 0, serial |-> 1]

\* A queue of elements of S stays one when it gets one more, when its head is
\* taken, and when only its end is left.
LEMMA QueueOf ==
  ASSUME NEW S, NEW q \in Seq(S)
  PROVE  /\ \A d \in S : \A n \in 0 .. Len(q) :
              SubSeq(q, 1, n) \o <<d>> \o SubSeq(q, n + 1, Len(q)) \in Seq(S)
         /\ q # <<>> => Tail(q) \in Seq(S) /\ Head(q) \in S
         /\ \A n \in 0 .. Len(q) : SubSeq(q, n + 1, Len(q)) \in Seq(S)
         /\ \A n \in DOMAIN q : q[n] \in S
<1>1. \A n \in 0 .. Len(q) : SubSeq(q, 1, n) \in Seq(S) /\ SubSeq(q, n + 1, Len(q)) \in Seq(S)
  OBVIOUS
<1>2. \A d \in S : <<d>> \in Seq(S)
  OBVIOUS
<1>3. ASSUME NEW d \in S, NEW n \in 0 .. Len(q)
      PROVE  SubSeq(q, 1, n) \o <<d>> \o SubSeq(q, n + 1, Len(q)) \in Seq(S)
  BY <1>1, <1>2
<1> QED
  BY <1>1, <1>3

LEMMA ArriveHold ==
  ASSUME QueuesOK, NEW D, QueuesHold(D), NEW addr \in Address, NEW d,
         addr.host \in Endpoint => d \in D[addr.host], Arrive(addr, d)
  PROVE  QueuesHold(D)'
<1>1. CASE ~Bound(addr)
  BY <1>1 DEF Arrive, QueuesHold
<1>2. CASE Bound(addr)
  <2>1. addr.host \in Endpoint /\ addr.port \in Socket(addr.host)
    BY <1>2 DEF Bound
  <2> DEFINE old == inbox[addr.host][addr.port]
  <2>2. PICK q \in Arrivals(old, d) : inbox' = [inbox EXCEPT ![addr.host][addr.port] = q]
    BY <1>2 DEF Arrive
  <2>3. old \in Seq(D[addr.host]) /\ d \in D[addr.host]
    BY <2>1 DEF QueuesHold
  <2>4. PICK n \in Overtaken(old) : q = SubSeq(old, 1, n) \o <<d>> \o SubSeq(old, n + 1, Len(old))
    BY DEF Arrivals
  <2>5. n \in 0 .. Len(old)
    BY <2>3 DEF Overtaken
  <2>6. q \in Seq(D[addr.host])
    BY <2>3, <2>4, <2>5, QueueOf
  <2>7. \A e \in Endpoint : \A k \in Socket(e) :
          inbox'[e][k] = IF e = addr.host /\ k = addr.port THEN q ELSE inbox[e][k]
    BY <2>1, <2>2 DEF QueuesOK
  <2> QED
    BY <2>6, <2>7 DEF QueuesHold
<1> QED
  BY <1>1, <1>2

LEMMA TakeHold ==
  ASSUME QueuesOK, NEW D, QueuesHold(D), NEW e \in Endpoint, NEW k \in Socket(e),
         inbox[e][k] # <<>>, inbox' = [inbox EXCEPT ![e][k] = Tail(inbox[e][k])]
  PROVE  QueuesHold(D)' /\ Head(inbox[e][k]) \in D[e]
<1>1. inbox[e][k] \in Seq(D[e])
  BY DEF QueuesHold
<1>2. Tail(inbox[e][k]) \in Seq(D[e]) /\ Head(inbox[e][k]) \in D[e]
  BY <1>1, QueueOf
<1>3. \A f \in Endpoint : \A j \in Socket(f) :
        inbox'[f][j] = IF f = e /\ j = k THEN Tail(inbox[e][k]) ELSE inbox[f][j]
  BY DEF QueuesOK
<1> QED
  BY <1>2, <1>3 DEF QueuesHold

\* What a restart leaves of a queue.
LEMMA RestartQueues ==
  ASSUME TypeOK, NEW e \in Endpoint, Restart(e)
  PROVE  /\ \A f \in Endpoint : f # e => inbox'[f] = inbox[f]
         /\ \A k \in Socket(e) : \E n \in 0 .. Len(inbox[e][k]) :
              inbox'[e][k] = SubSeq(inbox[e][k], n + 1, Len(inbox[e][k]))
<1>1. PICK queued \in [Socket(e) -> UNION {0 .. Len(inbox[e][k]) : k \in Socket(e)}] :
        /\ \A k \in Socket(e) : queued[k] <= Len(inbox[e][k])
        /\ inbox' = [inbox EXCEPT ![e] = [k \in Socket(e) |->
                       SubSeq(inbox[e][k], queued[k] + 1, Len(inbox[e][k]))]]
  BY DEF Restart
<1>2. \A k \in Socket(e) : Len(inbox[e][k]) \in Nat
  BY DEF TypeOK
<1>3. \A k \in Socket(e) : queued[k] \in Nat
  BY <1>1, <1>2
<1>4. \A k \in Socket(e) : queued[k] \in 0 .. Len(inbox[e][k])
  BY <1>1, <1>2, <1>3
<1>5. /\ \A f \in Endpoint : f # e => inbox'[f] = inbox[f]
      /\ \A k \in Socket(e) : inbox'[e][k] = SubSeq(inbox[e][k], queued[k] + 1, Len(inbox[e][k]))
  BY <1>1 DEF TypeOK
<1> QED
  BY <1>4, <1>5

LEMMA RestartHold ==
  ASSUME TypeOK, NEW D, QueuesHold(D), NEW e \in Endpoint, Restart(e)
  PROVE  QueuesHold(D)'
<1>1. SUFFICES ASSUME NEW k \in Socket(e) PROVE inbox'[e][k] \in Seq(D[e])
  BY RestartQueues DEF QueuesHold
<1>2. PICK n \in 0 .. Len(inbox[e][k]) :
        inbox'[e][k] = SubSeq(inbox[e][k], n + 1, Len(inbox[e][k]))
  BY RestartQueues
<1>3. inbox[e][k] \in Seq(D[e]) /\ Len(inbox[e][k]) \in Nat
  BY DEF QueuesHold
<1> QED
  BY <1>2, <1>3, QueueOf

\* The queues of every endpoint stay within D when the datagrams sent to it, and
\* those of other programs if there are any, are in it.
LEMMA QueuesHoldStep ==
  ASSUME TypeOK, RecvNeverBlocks, NEW D, QueuesHold(D), [Next]_vars,
         \A e \in Endpoint :
           /\ spc[e] = "sending" /\ peer_addr[e].host \in Endpoint
                => Outgoing(e) \in D[peer_addr[e].host]
           /\ MaxFaults["stray"] # 0 => \A c \in Code : Other(c) \in D[e]
  PROVE  QueuesHold(D)'
<1>0. QueuesOK
  BY DEF TypeOK, QueuesOK
<1>1. ASSUME NEW e \in Endpoint, SendCopy(e) PROVE QueuesHold(D)'
  <2>1. CASE Arrive(peer_addr[e], Outgoing(e))
    <3>1. peer_addr[e] \in Address /\ spc[e] = "sending"
      BY <1>1 DEF TypeOK, SendCopy
    <3> QED
      BY <1>0, <2>1, <3>1, ArriveHold
  <2>2. CASE UNCHANGED inbox
    BY <2>2 DEF QueuesHold
  <2> QED
    BY <1>1, <2>1, <2>2 DEF SendCopy
<1>2. ASSUME NEW e \in Endpoint, RcvFrom(e) PROVE QueuesHold(D)'
  <2>1. PICK k \in pfd[e] : inbox' = [inbox EXCEPT ![e][k] = Tail(inbox[e][k])]
    BY <1>2 DEF RcvFrom
  <2>2. k \in Socket(e) /\ inbox[e][k] # <<>>
    BY DEF TypeOK, RecvNeverBlocks
  <2> QED
    BY <1>0, <2>1, <2>2, TakeHold
<1>3. ASSUME NEW e \in Endpoint, Restart(e) PROVE QueuesHold(D)'
  BY <1>3, RestartHold
<1>4. ASSUME NEW e \in Endpoint, NEW k \in Socket(e), Duplicate(e, k) PROVE QueuesHold(D)'
  <2>1. PICK n \in DOMAIN inbox[e][k] : Arrive([host |-> e, port |-> k], inbox[e][k][n])
    BY <1>4 DEF Duplicate
  <2>2. inbox[e][k] \in Seq(D[e])
    BY DEF QueuesHold
  <2>3. inbox[e][k][n] \in D[e]
    BY <2>2
  <2>4. [host |-> e, port |-> k] \in Address
    BY ValueTypes
  <2> QED
    BY <1>0, <2>1, <2>3, <2>4, ArriveHold
<1>5. ASSUME NEW e \in Endpoint, NEW k \in Socket(e), Stray(e, k) PROVE QueuesHold(D)'
  <2>1. PICK c \in Code : Arrive([host |-> e, port |-> k], Other(c))
    BY <1>5 DEF Stray, Other
  <2>2. MaxFaults["stray"] # 0
    <3>1. faults["stray"] \in Nat /\ faults["stray"] < MaxFaults["stray"]
      BY <1>5 DEF Stray, Spend, TypeOK, Fault
    <3> QED
      BY <3>1
  <2>3. [host |-> e, port |-> k] \in Address
    BY ValueTypes
  <2> QED
    BY <1>0, <2>1, <2>2, <2>3, ArriveHold
<1>6. ASSUME UNCHANGED inbox PROVE QueuesHold(D)'
  BY <1>6 DEF QueuesHold
<1>7. ASSUME NEW e \in Endpoint,
             SendBegin(e) \/ SendEnd(e) \/ RcvPoll(e) \/ RcvFail(e) \/ CopyAddr(e) \/ Filter(e)
      PROVE  UNCHANGED inbox
  BY <1>7 DEF SendBegin, SendEnd, RcvPoll, RcvFail, CopyAddr, Filter
<1>8. CASE UNCHANGED vars
  BY <1>6, <1>8 DEF vars
<1> QED
  BY <1>1, <1>2, <1>3, <1>4, <1>5, <1>6, <1>7, <1>8 DEF Next, Send, Rcv, Network

\* What recvfrom on socket k does to the state of e when it takes d.
Took(e, k, d) ==
  /\ inbox[e][k] # <<>> /\ d = Head(inbox[e][k])
  /\ inbox' = [inbox EXCEPT ![e][k] = Tail(inbox[e][k])]
  /\ \E h \in SourceHosts(e, d) : from_addr'[e] = [host |-> h, port |-> d.src.port]
  /\ from_addr_len'[e] = IN6
  /\ ubuf'[e] \in Filled(e, d)
  /\ \/ rpc'[e] = rpc[e] /\ memcpy'[e] = memcpy[e] /\ got'[e] = got[e]
       /\ (d.code = "EMPTY" \/ ubuf'[e].code # "CODE_DATA")
     \/ /\ rpc'[e] = "copy" /\ memcpy'[e] = {"host", "port"}
        /\ got'[e] = IF got[e] < 2 THEN got[e] + 1 ELSE got[e]
  /\ \A f \in Endpoint : f # e =>
       /\ from_addr'[f] = from_addr[f] /\ from_addr_len'[f] = from_addr_len[f]
       /\ ubuf'[f] = ubuf[f] /\ rpc'[f] = rpc[f] /\ memcpy'[f] = memcpy[f]
       /\ got'[f] = got[f]
  /\ UNCHANGED <<peer_addr, peer_addr_len, sender, serial_prev, delivered, received, inc, faults>>

LEMMA RcvFromEffect ==
  ASSUME TypeOK, RecvNeverBlocks, NEW D, QueuesHold(D), NEW e \in Endpoint, RcvFrom(e)
  PROVE  \E k \in Socket(e) : \E d \in Datagram : d \in D[e] /\ Took(e, k, d)
<1> DEFINE hd(k) == Head(inbox[e][k])
<1>1. PICK k \in pfd[e] :
        /\ inbox' = [inbox EXCEPT ![e][k] = Tail(inbox[e][k])]
        /\ \E h \in SourceHosts(e, hd(k)) :
             from_addr' = [from_addr EXCEPT ![e] = [host |-> h, port |-> hd(k).src.port]]
        /\ from_addr_len' = [from_addr_len EXCEPT ![e] = IN6]
        /\ \E u \in Filled(e, hd(k)) :
             /\ ubuf' = [ubuf EXCEPT ![e] = u]
             /\ IF hd(k).code = "EMPTY" \/ u.code # "CODE_DATA"
                  THEN UNCHANGED <<rpc, memcpy, got>>
                  ELSE /\ rpc' = [rpc EXCEPT ![e] = "copy"]
                       /\ memcpy' = [memcpy EXCEPT ![e] = AddrHalves(IN6)]
                       /\ got' = [got EXCEPT ![e] = IF got[e] < 2 THEN got[e] + 1 ELSE got[e]]
  BY DEF RcvFrom
<1>2. k \in Socket(e) /\ inbox[e][k] # <<>> /\ inbox[e][k] \in Seq(Datagram)
  BY DEF TypeOK, RecvNeverBlocks
<1>3. inbox[e][k] \in Seq(D[e])
  BY <1>2 DEF QueuesHold
<1>4. hd(k) \in Datagram /\ hd(k) \in D[e]
  BY <1>2, <1>3, QueueOf
<1>5. UNCHANGED <<peer_addr, peer_addr_len, sender, serial_prev, delivered, received, inc, faults>>
  BY DEF RcvFrom, shared
<1> HIDE DEF hd
<1>6. PICK h \in SourceHosts(e, hd(k)) :
        from_addr' = [from_addr EXCEPT ![e] = [host |-> h, port |-> hd(k).src.port]]
  BY <1>1
<1>7. PICK u \in Filled(e, hd(k)) :
        /\ ubuf' = [ubuf EXCEPT ![e] = u]
        /\ IF hd(k).code = "EMPTY" \/ u.code # "CODE_DATA"
             THEN UNCHANGED <<rpc, memcpy, got>>
             ELSE /\ rpc' = [rpc EXCEPT ![e] = "copy"]
                  /\ memcpy' = [memcpy EXCEPT ![e] = AddrHalves(IN6)]
                  /\ got' = [got EXCEPT ![e] = IF got[e] < 2 THEN got[e] + 1 ELSE got[e]]
  BY <1>1
<1>8. /\ from_addr'[e] = [host |-> h, port |-> hd(k).src.port]
      /\ from_addr_len'[e] = IN6
      /\ ubuf'[e] = u
      /\ \A f \in Endpoint : f # e => /\ from_addr'[f] = from_addr[f]
                                      /\ from_addr_len'[f] = from_addr_len[f]
                                      /\ ubuf'[f] = ubuf[f]
  BY <1>1, <1>6, <1>7 DEF TypeOK
<1>9. /\ \/ rpc'[e] = rpc[e] /\ memcpy'[e] = memcpy[e] /\ got'[e] = got[e]
           /\ (hd(k).code = "EMPTY" \/ ubuf'[e].code # "CODE_DATA")
         \/ /\ rpc'[e] = "copy" /\ memcpy'[e] = {"host", "port"}
            /\ got'[e] = IF got[e] < 2 THEN got[e] + 1 ELSE got[e]
      /\ \A f \in Endpoint : f # e =>
           rpc'[f] = rpc[f] /\ memcpy'[f] = memcpy[f] /\ got'[f] = got[f]
  <2>1. CASE hd(k).code = "EMPTY" \/ u.code # "CODE_DATA"
    BY <1>7, <1>8, <2>1
  <2>2. CASE ~(hd(k).code = "EMPTY" \/ u.code # "CODE_DATA")
    BY <1>7, <1>8, <2>2 DEF TypeOK, AddrHalves
  <2> QED
    BY <2>1, <2>2
<1>10. hd(k) = Head(inbox[e][k])
  BY DEF hd
<1>11. ubuf'[e] \in Filled(e, hd(k))
  BY <1>7, <1>8
<1> USE <1>2, <1>4
<1> WITNESS k \in Socket(e)
<1> WITNESS hd(k) \in Datagram
<1>12. \E g \in SourceHosts(e, hd(k)) : from_addr'[e] = [host |-> g, port |-> hd(k).src.port]
  BY <1>8
<1>13. \A f \in Endpoint : f # e =>
         /\ from_addr'[f] = from_addr[f] /\ from_addr_len'[f] = from_addr_len[f]
         /\ ubuf'[f] = ubuf[f] /\ rpc'[f] = rpc[f] /\ memcpy'[f] = memcpy[f]
         /\ got'[f] = got[f]
  BY <1>8, <1>9
<1> QED
  BY <1>1, <1>2, <1>4, <1>5, <1>8, <1>9, <1>10, <1>11, <1>12, <1>13 DEF Took

\* What memcpy does to the address, by the half it writes.
LEMMA CopyAddrEffect ==
  ASSUME TypeOK, NEW e \in Endpoint, CopyAddr(e)
  PROVE  \E h \in {"host", "port"} :
           /\ h \in memcpy[e] /\ memcpy'[e] = memcpy[e] \ {h}
           /\ peer_addr'[e] \in Address /\ peer_addr'[e][h] = from_addr[e][h]
           /\ \A j \in {"host", "port"} : j # h => peer_addr'[e][j] = peer_addr[e][j]
           /\ \A f \in Endpoint : f # e => memcpy'[f] = memcpy[f] /\ peer_addr'[f] = peer_addr[f]
           /\ rpc[e] = "copy"
           /\ UNCHANGED <<peer_addr_len, sender, rpc, pfd, ubuf, from_addr, from_addr_len,
                          serial_prev, history, inbox, inc, faults>>
<1>1. PICK h \in memcpy[e] :
        /\ memcpy' = [memcpy EXCEPT ![e] = memcpy[e] \ {h}]
        /\ peer_addr' = [peer_addr EXCEPT ![e] = [peer_addr[e] EXCEPT ![h] = from_addr[e][h]]]
  BY DEF CopyAddr
<1>2. /\ h \in {"host", "port"} /\ peer_addr[e] \in Address /\ from_addr[e] \in Address
      /\ memcpy \in [Endpoint -> SUBSET {"host", "port"}] /\ peer_addr \in [Endpoint -> Address]
  BY DEF TypeOK
<1>3. /\ memcpy'[e] = memcpy[e] \ {h}
      /\ peer_addr'[e] = [peer_addr[e] EXCEPT ![h] = from_addr[e][h]]
      /\ \A f \in Endpoint : f # e => memcpy'[f] = memcpy[f] /\ peer_addr'[f] = peer_addr[f]
  BY <1>1, <1>2
<1>4. /\ peer_addr'[e] \in Address /\ peer_addr'[e][h] = from_addr[e][h]
      /\ \A j \in {"host", "port"} : j # h => peer_addr'[e][j] = peer_addr[e][j]
  BY <1>2, <1>3 DEF Address
<1> QED
  BY <1>2, <1>3, <1>4 DEF CopyAddr

\* What a restart does to the state of e, and that it leaves the other endpoints'
\* receivers alone.
LEMMA RestartEffect ==
  ASSUME TypeOK, NEW e \in Endpoint, Restart(e)
  PROVE  /\ peer_addr'[e] = Remote[e]
         /\ peer_addr_len'[e] = IF Remote[e] = NoAddr THEN 0 ELSE IN6
         /\ rpc'[e] = "scan" /\ ubuf'[e] = ZeroBuf /\ from_addr'[e] = NoAddr
         /\ from_addr_len'[e] = IN4 /\ memcpy'[e] = {} /\ serial_prev'[e] = 0
         /\ delivered'[e] = <<>> /\ received'[e] = {} /\ got'[e] = 0
         /\ spc'[e] = "idle" /\ serial'[e] = 0 /\ inc'[e] = inc[e] + 1
         /\ \A f \in Endpoint : f # e =>
              /\ peer_addr'[f] = peer_addr[f] /\ peer_addr_len'[f] = peer_addr_len[f]
              /\ rpc'[f] = rpc[f] /\ ubuf'[f] = ubuf[f] /\ from_addr'[f] = from_addr[f]
              /\ from_addr_len'[f] = from_addr_len[f] /\ memcpy'[f] = memcpy[f]
              /\ serial_prev'[f] = serial_prev[f] /\ delivered'[f] = delivered[f]
              /\ received'[f] = received[f] /\ got'[f] = got[f]
              /\ spc'[f] = spc[f] /\ serial'[f] = serial[f] /\ inc'[f] = inc[f]
<1>1. /\ peer_addr'[e] = Remote[e]
      /\ peer_addr_len'[e] = IF Remote[e] = NoAddr THEN 0 ELSE IN6
      /\ rpc'[e] = "scan" /\ ubuf'[e] = ZeroBuf /\ from_addr'[e] = NoAddr
  BY DEF Restart, TypeOK
<1>2. /\ from_addr_len'[e] = IN4 /\ memcpy'[e] = {} /\ serial_prev'[e] = 0
      /\ delivered'[e] = <<>> /\ received'[e] = {} /\ got'[e] = 0
      /\ spc'[e] = "idle" /\ serial'[e] = 0 /\ inc'[e] = inc[e] + 1
  BY DEF Restart, TypeOK
<1>3. \A f \in Endpoint : f # e =>
        /\ peer_addr'[f] = peer_addr[f] /\ peer_addr_len'[f] = peer_addr_len[f]
        /\ rpc'[f] = rpc[f] /\ ubuf'[f] = ubuf[f] /\ from_addr'[f] = from_addr[f]
  BY DEF Restart, TypeOK
<1>4. \A f \in Endpoint : f # e =>
        /\ from_addr_len'[f] = from_addr_len[f] /\ memcpy'[f] = memcpy[f]
        /\ serial_prev'[f] = serial_prev[f] /\ delivered'[f] = delivered[f]
        /\ received'[f] = received[f] /\ got'[f] = got[f]
        /\ spc'[f] = spc[f] /\ serial'[f] = serial[f] /\ inc'[f] = inc[f]
  BY DEF Restart, TypeOK
<1> QED
  BY <1>1, <1>2, <1>3, <1>4

\* What a failing recvfrom does: the buffer and the address of before are looked
\* at again.
LEMMA RcvFailEffect ==
  ASSUME TypeOK, NEW e \in Endpoint, RcvFail(e)
  PROVE  /\ rpc[e] = "scan"
         /\ MaxFaults["rcvfail"] # 0
         /\ \/ UNCHANGED <<rpc, memcpy>>
            \/ /\ ubuf[e].code = "CODE_DATA"
               /\ rpc'[e] = "copy" /\ memcpy'[e] = AddrHalves(from_addr_len[e])
               /\ \A f \in Endpoint : f # e => rpc'[f] = rpc[f] /\ memcpy'[f] = memcpy[f]
         /\ UNCHANGED <<shared, sender, ubuf, from_addr, from_addr_len, serial_prev,
                        history, inbox, inc>>
<1>1. MaxFaults["rcvfail"] # 0
  <2>1. faults["rcvfail"] \in Nat /\ faults["rcvfail"] < MaxFaults["rcvfail"]
    BY DEF RcvFail, Spend, TypeOK, Fault
  <2> QED
    BY <2>1
<1>2. \/ UNCHANGED <<rpc, memcpy>>
      \/ /\ ubuf[e].code = "CODE_DATA"
         /\ rpc'[e] = "copy" /\ memcpy'[e] = AddrHalves(from_addr_len[e])
         /\ \A f \in Endpoint : f # e => rpc'[f] = rpc[f] /\ memcpy'[f] = memcpy[f]
  BY DEF RcvFail, TypeOK
<1> QED
  BY <1>1, <1>2 DEF RcvFail

\* The steps that touch neither the receivers nor the addresses.
LEMMA OtherSteps ==
  ASSUME NEW e \in Endpoint, Send(e) \/ RcvPoll(e) \/ Network \/ UNCHANGED vars
  PROVE  UNCHANGED <<shared, rpc, ubuf, from_addr, from_addr_len, memcpy, serial_prev,
                     delivered, received, got>>
BY DEF Send, SendBegin, SendCopy, SendEnd, RcvPoll, Network, Duplicate, Stray, receiver, history,
       shared, vars

-----------------------------------------------------------------------------
(***************************************************************************)
(* The source address.                                                     *)
(***************************************************************************)

\* Every datagram carries the address of the socket it was sent from.
Known == {d \in Datagram : d.src.host # Junk /\ d.src.port # NoPort}
AllKnown == [e \in Endpoint |-> Known]

LEMMA KnownStep ==
  ASSUME TypeOK, RecvNeverBlocks, QueuesHold(AllKnown), [Next]_vars
  PROVE  QueuesHold(AllKnown)'
<1>1. ASSUME NEW e \in Endpoint PROVE Outgoing(e) \in Known
  <2>1. socket_id[e] \in Socket(e) /\ inc[e] \in Nat /\ serial[e] \in Nat
    BY DEF TypeOK
  <2>2. [host |-> e, port |-> socket_id[e]] \in Address /\ socket_id[e] \in Nat
    BY <2>1, ValueTypes
  <2>3. Outgoing(e) \in Datagram
    BY <2>1, <2>2 DEF Outgoing, Datagram, Code
  <2> QED
    BY <2>2, <2>3, ConstantsAssumption DEF Known, Outgoing, NoPort
<1>2. ASSUME NEW c \in Code PROVE Other(c) \in Known
  <2>1. Other(c) \in Datagram
    BY DEF Other, Datagram, Address, Port
  <2> QED
    BY <2>1, ConstantsAssumption DEF Known, Other, NoPort
<1> QED
  BY <1>1, <1>2, QueuesHoldStep DEF AllKnown

\* Two data datagrams put a whole address into from_addr and then into peer_addr:
\* the first one makes from_addr_len large enough for the second.
Heals(e) ==
  /\ got[e] >= 1 => from_addr_len[e] = IN6
  /\ got[e] = 2 => from_addr[e].host # Junk
  /\ got[e] = 2 /\ (rpc[e] = "scan" \/ "host" \notin memcpy[e]) => peer_addr[e].host # Junk

HealInv == \A e \in Endpoint : Heals(e)

LEMMA HealStep ==
  ASSUME TypeOK, RecvNeverBlocks, QueuesHold(AllKnown), HealInv, [Next]_vars
  PROVE  HealInv'
<1>0. \A f \in Endpoint : Heals(f) /\ got[f] \in 0 .. 2
  BY DEF HealInv, TypeOK
<1>1. ASSUME NEW e \in Endpoint, RcvFrom(e) PROVE HealInv'
  <2>0. PICK k \in Socket(e) : \E d \in Datagram : d \in AllKnown[e] /\ Took(e, k, d)
    BY <1>1, RcvFromEffect
  <2>1. PICK d \in Datagram : d \in AllKnown[e] /\ Took(e, k, d)
    BY <2>0
  <2>2. d.src.host # Junk
    BY <2>1 DEF AllKnown, Known
  <2>3. got[e] >= 1 => from_addr'[e].host # Junk
    <3>1. got[e] >= 1 => ~Truncated(e)
      BY <1>0 DEF Heals, Truncated, IN4, IN6
    <3>2. got[e] >= 1 => SourceHosts(e, d) = {d.src.host}
      BY <3>1 DEF SourceHosts
    <3> QED
      BY <2>1, <2>2, <3>2 DEF Took
  <2>4. got'[e] = 2 => got[e] >= 1
    BY <1>0, <2>1 DEF Took
  <2>5. Heals(e)'
    <3>1. CASE rpc'[e] = rpc[e] /\ memcpy'[e] = memcpy[e] /\ got'[e] = got[e]
      BY <1>0, <2>1, <2>3, <2>4, <3>1 DEF Heals, Took
    <3>2. CASE rpc'[e] = "copy" /\ memcpy'[e] = {"host", "port"}
      BY <2>1, <2>3, <2>4, <3>2 DEF Heals, Took
    <3> QED
      BY <2>1, <3>1, <3>2 DEF Took
  <2>6. \A f \in Endpoint : f # e => Heals(f)'
    BY <1>0, <2>1 DEF Heals, Took
  <2> QED
    BY <2>5, <2>6 DEF HealInv
<1>2. ASSUME NEW e \in Endpoint, RcvFail(e) PROVE HealInv'
  <2>1. UNCHANGED <<from_addr, from_addr_len, got, peer_addr>>
    BY <1>2, RcvFailEffect DEF shared, history
  <2>2. CASE UNCHANGED <<rpc, memcpy>>
    BY <1>0, <2>1, <2>2 DEF HealInv, Heals
  <2>3. CASE rpc'[e] = "copy" /\ memcpy'[e] = AddrHalves(from_addr_len[e])
             /\ \A f \in Endpoint : f # e => rpc'[f] = rpc[f] /\ memcpy'[f] = memcpy[f]
    <3>1. got[e] = 2 => "host" \in memcpy'[e]
      BY <1>0, <2>3 DEF Heals, AddrHalves
    <3>2. Heals(e)'
      BY <1>0, <2>1, <2>3, <3>1 DEF Heals
    <3>3. \A f \in Endpoint : f # e => Heals(f)'
      BY <1>0, <2>1, <2>3 DEF Heals
    <3> QED
      BY <3>2, <3>3 DEF HealInv
  <2> QED
    BY <1>2, <2>2, <2>3, RcvFailEffect
<1>3. ASSUME NEW e \in Endpoint, CopyAddr(e) PROVE HealInv'
  <2>1. PICK h \in {"host", "port"} :
          /\ h \in memcpy[e] /\ memcpy'[e] = memcpy[e] \ {h}
          /\ peer_addr'[e][h] = from_addr[e][h]
          /\ \A j \in {"host", "port"} : j # h => peer_addr'[e][j] = peer_addr[e][j]
          /\ \A f \in Endpoint : f # e => memcpy'[f] = memcpy[f] /\ peer_addr'[f] = peer_addr[f]
          /\ rpc[e] = "copy" /\ rpc' = rpc /\ from_addr' = from_addr
          /\ from_addr_len' = from_addr_len /\ got' = got
    BY <1>3, CopyAddrEffect DEF history
  <2>2. peer_addr'[e] \in Address /\ from_addr[e] \in Address
    BY <1>3, CopyAddrEffect DEF TypeOK
  <2>3. got[e] = 2 /\ "host" \notin memcpy'[e] => peer_addr'[e].host # Junk
    <3>1. CASE h = "host"
      BY <1>0, <2>1, <3>1 DEF Heals
    <3>2. CASE h = "port"
      BY <1>0, <2>1, <3>2 DEF Heals
    <3> QED
      BY <3>1, <3>2
  <2>4. Heals(e)'
    BY <1>0, <2>1, <2>3 DEF Heals
  <2>5. \A f \in Endpoint : f # e => Heals(f)'
    BY <1>0, <2>1 DEF Heals
  <2> QED
    BY <2>4, <2>5 DEF HealInv
<1>4. ASSUME NEW e \in Endpoint, Filter(e) PROVE HealInv'
  <2>1. /\ UNCHANGED <<peer_addr, from_addr, from_addr_len, memcpy, got>>
        /\ memcpy[e] = {} /\ rpc' = [rpc EXCEPT ![e] = "scan"]
    BY <1>4 DEF Filter
  <2>2. Heals(e)'
    BY <1>0, <2>1 DEF Heals, TypeOK
  <2>3. \A f \in Endpoint : f # e => Heals(f)'
    BY <1>0, <2>1 DEF Heals, TypeOK
  <2> QED
    BY <2>2, <2>3 DEF HealInv
<1>5. ASSUME NEW e \in Endpoint, Restart(e) PROVE HealInv'
  <2>1. Heals(e)'
    BY <1>5, RestartEffect DEF Heals
  <2>2. \A f \in Endpoint : f # e => Heals(f)'
    BY <1>0, <1>5, RestartEffect DEF Heals
  <2> QED
    BY <2>1, <2>2 DEF HealInv
<1>6. ASSUME NEW e \in Endpoint, Send(e) \/ RcvPoll(e) PROVE HealInv'
  BY <1>0, <1>6, OtherSteps DEF HealInv, Heals, shared
<1>7. ASSUME Network PROVE HealInv'
  BY <1>0, <1>7, OtherSteps DEF HealInv, Heals, shared
<1>8. CASE UNCHANGED vars
  BY <1>0, <1>8, OtherSteps DEF HealInv, Heals, shared
<1> QED
  BY <1>1, <1>2, <1>3, <1>4, <1>5, <1>6, <1>7, <1>8 DEF Next, Rcv

\* At the start the queues are empty and the buffers are zero.
LEMMA EmptyQueues == ASSUME NEW D, Init PROVE QueuesHold(D)
<1>1. \A e \in Endpoint : \A k \in Socket(e) : inbox[e][k] = <<>>
  BY DEF Init
<1>2. \A S : <<>> \in Seq(S)
  OBVIOUS
<1> QED
  BY <1>1, <1>2 DEF QueuesHold

LEMMA KnownInvariant == Spec => [](TypeOK /\ RecvNeverBlocks /\ QueuesHold(AllKnown))
<1>1. Init => QueuesHold(AllKnown)
  BY EmptyQueues
<1>2. TypeOK /\ RecvNeverBlocks /\ QueuesHold(AllKnown) /\ [Next]_vars => QueuesHold(AllKnown)'
  BY KnownStep
<1> QED
  BY <1>1, <1>2, TypeCorrect, NeverBlocks, PTL DEF Spec

\* The address learnt from the first data datagram may be cut short, from_addr being
\* too small for it; after the second one it is whole, whatever arrived or failed
\* in between.
THEOREM AddressHeals == Spec => []JunkHeals
<1>1. Init => HealInv
  BY DEF Init, HealInv, Heals
<1>2. TypeOK /\ RecvNeverBlocks /\ QueuesHold(AllKnown) /\ HealInv /\ [Next]_vars => HealInv'
  BY HealStep
<1>3. HealInv => JunkHeals
  BY DEF HealInv, Heals, JunkHeals
<1> QED
  BY <1>1, <1>2, <1>3, KnownInvariant, PTL DEF Spec

\* Which configurations the next theorem is about: an endpoint is passive, or it is
\* given a port and recvfrom does not fail on it.
Configured ==
  \A e \in Endpoint : Remote[e] = NoAddr \/ (Remote[e].port # NoPort /\ MaxFaults["rcvfail"] = 0)

\* The port is in peer_addr before the length is: thr_rcv has written it when it
\* gets to the line that publishes the length, from an address that has one.
Writes(e) ==
  /\ from_addr_len[e] = IN6 => from_addr[e].port # NoPort
  /\ rpc[e] = "copy" /\ from_addr_len[e] = IN6 /\ "port" \notin memcpy[e]
       => peer_addr[e].port # NoPort
  /\ peer_addr_len[e] = IN6 => peer_addr[e].port # NoPort
  /\ Remote[e] # NoAddr /\ rpc[e] = "copy" => from_addr_len[e] = IN6
  /\ Remote[e] = NoAddr /\ from_addr_len[e] = IN4 => peer_addr_len[e] # IN6

WriteInv == \A e \in Endpoint : Writes(e)

LEMMA WriteStep ==
  ASSUME Configured, TypeOK, RecvNeverBlocks, QueuesHold(AllKnown), WriteInv, [Next]_vars
  PROVE  WriteInv'
<1>0. \A f \in Endpoint : Writes(f)
  BY DEF WriteInv
<1>a. \A f \in Endpoint : from_addr_len[f] = IN4 \/ from_addr_len[f] = IN6
  BY DEF TypeOK
<1>b. \A f \in Endpoint : Remote[f] = NoAddr \/ (Remote[f].port # NoPort /\ MaxFaults["rcvfail"] = 0)
  BY DEF Configured
<1>1. ASSUME NEW e \in Endpoint, RcvFrom(e) PROVE WriteInv'
  <2>0. PICK k \in Socket(e) : \E d \in Datagram : d \in AllKnown[e] /\ Took(e, k, d)
    BY <1>1, RcvFromEffect
  <2>1. PICK d \in Datagram : d \in AllKnown[e] /\ Took(e, k, d)
    BY <2>0
  <2>2. d.src.port # NoPort
    BY <2>1 DEF AllKnown, Known
  <2>3. from_addr'[e].port # NoPort /\ from_addr_len'[e] = IN6
    BY <2>1, <2>2 DEF Took
  <2>4. rpc[e] = "scan"
    BY <1>1 DEF RcvFrom
  <2>5. Writes(e)'
    BY <1>0, <2>1, <2>3, <2>4 DEF Writes, Took, IN4, IN6
  <2>6. \A f \in Endpoint : f # e => Writes(f)'
    BY <1>0, <2>1 DEF Writes, Took
  <2> QED
    BY <2>5, <2>6 DEF WriteInv
<1>2. ASSUME NEW e \in Endpoint, RcvFail(e) PROVE WriteInv'
  <2>1. UNCHANGED <<from_addr, from_addr_len, peer_addr, peer_addr_len>> /\ MaxFaults["rcvfail"] # 0
    BY <1>2, RcvFailEffect DEF shared
  <2>2. CASE UNCHANGED <<rpc, memcpy>>
    BY <1>0, <2>1, <2>2 DEF WriteInv, Writes
  <2>3. CASE rpc'[e] = "copy" /\ memcpy'[e] = AddrHalves(from_addr_len[e])
             /\ \A f \in Endpoint : f # e => rpc'[f] = rpc[f] /\ memcpy'[f] = memcpy[f]
    <3>1. Remote[e] = NoAddr
      BY <1>b, <2>1
    <3>2. "port" \in memcpy'[e]
      BY <2>3 DEF AddrHalves
    <3>3. Writes(e)'
      BY <1>0, <2>1, <3>1, <3>2 DEF Writes
    <3>4. \A f \in Endpoint : f # e => Writes(f)'
      BY <1>0, <2>1, <2>3 DEF Writes
    <3> QED
      BY <3>3, <3>4 DEF WriteInv
  <2> QED
    BY <1>2, <2>2, <2>3, RcvFailEffect
<1>3. ASSUME NEW e \in Endpoint, CopyAddr(e) PROVE WriteInv'
  <2>1. PICK h \in {"host", "port"} :
          /\ h \in memcpy[e] /\ memcpy'[e] = memcpy[e] \ {h}
          /\ peer_addr'[e][h] = from_addr[e][h]
          /\ \A j \in {"host", "port"} : j # h => peer_addr'[e][j] = peer_addr[e][j]
          /\ \A f \in Endpoint : f # e => memcpy'[f] = memcpy[f] /\ peer_addr'[f] = peer_addr[f]
          /\ rpc[e] = "copy" /\ rpc' = rpc /\ from_addr' = from_addr
          /\ from_addr_len' = from_addr_len /\ peer_addr_len' = peer_addr_len
    BY <1>3, CopyAddrEffect DEF history
  <2>2. peer_addr'[e] \in Address /\ from_addr[e] \in Address
    BY <1>3, CopyAddrEffect DEF TypeOK
  <2>3. peer_addr_len[e] = IN6 => from_addr_len[e] = IN6
    BY <1>0, <1>a, <2>1 DEF Writes
  <2>4. Writes(e)'
    <3>1. CASE h = "host"
      BY <1>0, <2>1, <3>1 DEF Writes
    <3>2. CASE h = "port"
      BY <1>0, <2>1, <2>3, <3>2 DEF Writes
    <3> QED
      BY <3>1, <3>2
  <2>5. \A f \in Endpoint : f # e => Writes(f)'
    BY <1>0, <2>1 DEF Writes
  <2> QED
    BY <2>4, <2>5 DEF WriteInv
<1>4. ASSUME NEW e \in Endpoint, Filter(e) PROVE WriteInv'
  <2>1. /\ UNCHANGED <<peer_addr, from_addr, from_addr_len, memcpy>>
        /\ rpc[e] = "copy" /\ memcpy[e] = {} /\ rpc'[e] = "scan"
        /\ peer_addr_len'[e] = from_addr_len[e]
        /\ \A f \in Endpoint : f # e => rpc'[f] = rpc[f] /\ peer_addr_len'[f] = peer_addr_len[f]
    BY <1>4 DEF Filter, TypeOK
  <2>2. Writes(e)'
    BY <1>0, <2>1 DEF Writes, IN4, IN6
  <2>3. \A f \in Endpoint : f # e => Writes(f)'
    BY <1>0, <2>1 DEF Writes
  <2> QED
    BY <2>2, <2>3 DEF WriteInv
<1>5. ASSUME NEW e \in Endpoint, Restart(e) PROVE WriteInv'
  <2>1. Writes(e)'
    BY <1>b, <1>5, RestartEffect DEF Writes, IN4, IN6
  <2>2. \A f \in Endpoint : f # e => Writes(f)'
    BY <1>0, <1>5, RestartEffect DEF Writes
  <2> QED
    BY <2>1, <2>2 DEF WriteInv
<1>6. ASSUME NEW e \in Endpoint, Send(e) \/ RcvPoll(e) PROVE WriteInv'
  BY <1>0, <1>6, OtherSteps DEF WriteInv, Writes, shared
<1>7. ASSUME Network PROVE WriteInv'
  BY <1>0, <1>7, OtherSteps DEF WriteInv, Writes, shared
<1>8. CASE UNCHANGED vars
  BY <1>0, <1>8, OtherSteps DEF WriteInv, Writes, shared
<1> QED
  BY <1>1, <1>2, <1>3, <1>4, <1>5, <1>6, <1>7, <1>8 DEF Next, Rcv

\* mod_send_packet reads peer_addr and its length without a lock, at any moment of
\* the memcpy; yet it never finds the length of an address whose port is not there.
THEOREM PublishedAddress ==
  ASSUME Configured
  PROVE  Spec => []PublishedIsWritten
<1>1. Init => WriteInv
  BY DEF Configured, Init, WriteInv, Writes, IN4, IN6
<1>2. TypeOK /\ RecvNeverBlocks /\ QueuesHold(AllKnown) /\ WriteInv /\ [Next]_vars => WriteInv'
  BY WriteStep
<1>3. WriteInv => PublishedIsWritten
  BY DEF WriteInv, Writes, PublishedIsWritten
<1> QED
  BY <1>1, <1>2, <1>3, KnownInvariant, PTL DEF Spec

-----------------------------------------------------------------------------
(***************************************************************************)
(* The buffer.                                                             *)
(***************************************************************************)

\* Nobody but the peer sends to the sockets: all that arrives is a data packet.
Data == {d \in Datagram : d.code = "CODE_DATA"}
AllData == [e \in Endpoint |-> Data]

LEMMA DataStep ==
  ASSUME MaxFaults["stray"] = 0, TypeOK, RecvNeverBlocks, QueuesHold(AllData), [Next]_vars
  PROVE  QueuesHold(AllData)'
<1>1. ASSUME NEW e \in Endpoint PROVE Outgoing(e) \in Data
  <2>1. socket_id[e] \in Socket(e) /\ inc[e] \in Nat /\ serial[e] \in Nat
    BY DEF TypeOK
  <2>2. [host |-> e, port |-> socket_id[e]] \in Address
    BY <2>1, ValueTypes
  <2> QED
    BY <2>1, <2>2 DEF Data, Outgoing, Datagram, Code
<1> QED
  BY <1>1, QueuesHoldStep DEF AllData

\* The buffer holds a data packet, and between two datagrams it is the one that
\* serial_prev remembers.
BufInv ==
  \A e \in Endpoint : /\ ubuf[e].code = "CODE_DATA"
                      /\ rpc[e] = "scan" => ubuf[e].serial = serial_prev[e]

LEMMA BufStep ==
  ASSUME TypeOK, RecvNeverBlocks, QueuesHold(AllData), BufInv, [Next]_vars
  PROVE  BufInv'
<1>1. ASSUME NEW e \in Endpoint, RcvFrom(e) PROVE BufInv'
  <2>0. PICK k \in Socket(e) : \E d \in Datagram : d \in AllData[e] /\ Took(e, k, d)
    BY <1>1, RcvFromEffect
  <2>1. PICK d \in Datagram : d \in AllData[e] /\ Took(e, k, d)
    BY <2>0
  <2>2. d.code = "CODE_DATA"
    BY <2>1 DEF AllData, Data
  <2>3. \A u \in Filled(e, d) : u.code = "CODE_DATA"
    BY <2>2 DEF Filled, Datagram
  <2>4. ubuf'[e].code = "CODE_DATA" /\ rpc'[e] = "copy"
    BY <2>1, <2>2, <2>3 DEF Took
  <2> QED
    BY <2>1, <2>4 DEF BufInv, Took
<1>2. ASSUME NEW e \in Endpoint, RcvFail(e) PROVE BufInv'
  <2>1. UNCHANGED <<ubuf, serial_prev>> /\ rpc[e] = "scan"
    BY <1>2, RcvFailEffect
  <2>2. \A f \in Endpoint : rpc'[f] = rpc[f] \/ rpc'[f] = "copy"
    BY <1>2, RcvFailEffect
  <2> QED
    BY <2>1, <2>2 DEF BufInv
<1>3. ASSUME NEW e \in Endpoint, CopyAddr(e) PROVE BufInv'
  BY <1>3 DEF CopyAddr, BufInv
<1>4. ASSUME NEW e \in Endpoint, Filter(e) PROVE BufInv'
  <2>1. /\ ubuf' = ubuf /\ serial_prev'[e] = ubuf[e].serial
        /\ \A f \in Endpoint : f # e => rpc'[f] = rpc[f] /\ serial_prev'[f] = serial_prev[f]
    BY <1>4 DEF Filter, Redundant, Accept, TypeOK
  <2> QED
    BY <2>1 DEF BufInv
<1>5. ASSUME NEW e \in Endpoint, Restart(e) PROVE BufInv'
  BY <1>5, RestartEffect DEF BufInv, ZeroBuf
<1>6. ASSUME NEW e \in Endpoint, Send(e) \/ RcvPoll(e) PROVE BufInv'
  BY <1>6, OtherSteps DEF BufInv
<1>7. ASSUME Network PROVE BufInv'
  BY <1>7, OtherSteps DEF BufInv
<1>8. CASE UNCHANGED vars
  BY <1>8, OtherSteps DEF BufInv
<1> QED
  BY <1>1, <1>2, <1>3, <1>4, <1>5, <1>6, <1>7, <1>8 DEF Next, Rcv

LEMMA BufInvariant ==
  ASSUME MaxFaults["stray"] = 0
  PROVE  Spec => [](TypeOK /\ RecvNeverBlocks /\ QueuesHold(AllData) /\ BufInv)
<1>1. Init => QueuesHold(AllData) /\ BufInv
  BY EmptyQueues DEF Init, BufInv, ZeroBuf
<1>2. TypeOK /\ RecvNeverBlocks /\ QueuesHold(AllData) /\ [Next]_vars => QueuesHold(AllData)'
  BY DataStep
<1>3. TypeOK /\ RecvNeverBlocks /\ QueuesHold(AllData) /\ BufInv /\ [Next]_vars => BufInv'
  BY BufStep
<1> QED
  BY <1>1, <1>2, <1>3, TypeCorrect, NeverBlocks, PTL DEF Spec

\* A recvfrom that fails between two datagrams makes the filter look at the buffer
\* again, and it never finds a packet there that it would let through: nothing is
\* handed to the tunnel twice, as long as only the peer sends to the sockets.
THEOREM BufferIsStale ==
  ASSUME MaxFaults["stray"] = 0
  PROVE  Spec => []BufferIsLastAccepted
<1>1. BufInv => BufferIsLastAccepted
  BY DEF BufInv, BufferIsLastAccepted
<1> QED
  BY <1>1, BufInvariant, PTL

-----------------------------------------------------------------------------
(***************************************************************************)
(* A path that keeps the order, between endpoints that talk in pairs.      *)
(***************************************************************************)

CONSTANT Partner   \* the endpoint at the other end of each endpoint's path

\* The path: the network keeps the order and repeats nothing, nobody else sends to
\* the sockets, an endpoint is passive or configured with its partner's address, and
\* an endpoint that its partner sends to has one socket.  Datagrams may be lost,
\* sendto and recvfrom may fail and endpoints may be restarted.
OrderedPath ==
  /\ InOrder /\ MaxFaults["dup"] = 0 /\ MaxFaults["stray"] = 0
  /\ Partner \in [Endpoint -> Endpoint]
  /\ \A e \in Endpoint : /\ Partner[Partner[e]] = e
                         /\ Remote[e] = NoAddr \/ Remote[e].host = Partner[e]
                         /\ NrSockets[e] = 1 \/ MaxSerial[Partner[e]] = 0

-----------------------------------------------------------------------------
(***************************************************************************)
(* The order of datagrams and packets, by incarnation and serial.          *)
(***************************************************************************)

NotAfter(c, d) == c.inc < d.inc \/ (c.inc = d.inc /\ c.serial <= d.serial)

\* The datagrams of q come in the order they were sent in, none before lo or after hi.
Window(lo, q, hi) ==
  /\ NotAfter(lo, hi)
  /\ \A n \in DOMAIN q : NotAfter(lo, q[n]) /\ NotAfter(q[n], hi)
  /\ \A m, n \in DOMAIN q : m < n => NotAfter(q[m], q[n])

LEMMA NotAfterOrder ==
  ASSUME NEW c, NEW d, NEW g, c.inc \in Nat, d.inc \in Nat, g.inc \in Nat,
         c.serial \in Nat, d.serial \in Nat, g.serial \in Nat
  PROVE  NotAfter(c, c) /\ (NotAfter(c, d) /\ NotAfter(d, g) => NotAfter(c, g))
BY DEF NotAfter

\* A datagram that comes last, when the network keeps the order.
LEMMA InOrderArrival ==
  ASSUME InOrder, NEW q \in Seq(Datagram), NEW d \in Datagram, NEW r \in Arrivals(q, d)
  PROVE  /\ Len(r) = Len(q) + 1 /\ DOMAIN r = 1 .. Len(q) + 1
         /\ \A n \in 1 .. Len(q) : r[n] = q[n]
         /\ r[Len(q) + 1] = d
<1>1. r = SubSeq(q, 1, Len(q)) \o <<d>> \o SubSeq(q, Len(q) + 1, Len(q))
  BY DEF Arrivals, Overtaken
<1>2. SubSeq(q, 1, Len(q)) \in Seq(Datagram) /\ Len(SubSeq(q, 1, Len(q))) = Len(q)
      /\ \A n \in 1 .. Len(q) : SubSeq(q, 1, Len(q))[n] = q[n]
  OBVIOUS
<1>3. SubSeq(q, Len(q) + 1, Len(q)) \in Seq(Datagram) /\ Len(SubSeq(q, Len(q) + 1, Len(q))) = 0
  OBVIOUS
<1> DEFINE x == SubSeq(q, 1, Len(q))
           y == SubSeq(q, Len(q) + 1, Len(q))
<1>4. r = x \o <<d>> \o y /\ x \in Seq(Datagram) /\ y \in Seq(Datagram) /\ Len(x) = Len(q) /\ Len(y) = 0
  BY <1>1, <1>2, <1>3
<1>5. \A n \in 1 .. Len(q) : x[n] = q[n]
  BY <1>2
<1> HIDE DEF x, y
<1>6. x \o <<d>> \in Seq(Datagram) /\ Len(x \o <<d>>) = Len(q) + 1
      /\ (x \o <<d>>)[Len(q) + 1] = d /\ \A n \in 1 .. Len(q) : (x \o <<d>>)[n] = x[n]
  <2> DEFINE w == <<d>>
  <2>1. w \in Seq(Datagram) /\ Len(w) = 1 /\ w[1] = d
    OBVIOUS
  <2> HIDE DEF w
  <2>a. x \in Seq(Datagram) /\ Len(x) = Len(q) /\ Len(q) \in Nat
    BY <1>4
  <2>b. /\ x \o w \in Seq(Datagram) /\ Len(x \o w) = Len(x) + Len(w)
        /\ \A i \in 1 .. Len(x) + Len(w) : (x \o w)[i] = IF i <= Len(x) THEN x[i] ELSE w[i - Len(x)]
    BY <2>a, <2>1, ConcatProperties, SMTT(30)
  <2>2. x \o w \in Seq(Datagram) /\ Len(x \o w) = Len(q) + 1
    BY <2>a, <2>b, <2>1
  <2>3. \A n \in 1 .. Len(q) : (x \o w)[n] = x[n]
    BY <2>a, <2>b, <2>1
  <2>4. (x \o w)[Len(q) + 1] = d
    BY <2>a, <2>b, <2>1
  <2> QED
    BY <2>2, <2>3, <2>4 DEF w
<1> DEFINE z == x \o <<d>>
<1>7. z \in Seq(Datagram) /\ Len(z) = Len(q) + 1 /\ r = z \o y
      /\ z[Len(q) + 1] = d /\ \A n \in 1 .. Len(q) : z[n] = q[n]
  BY <1>4, <1>5, <1>6
<1> HIDE DEF z
<1>8. Len(r) = Len(q) + 1 /\ DOMAIN r = 1 .. Len(q) + 1 /\ \A n \in 1 .. Len(q) + 1 : r[n] = z[n]
  BY <1>4, <1>7
<1> QED
  BY <1>7, <1>8

LEMMA WindowArrival ==
  ASSUME InOrder, NEW lo \in Datagram, NEW hi \in Datagram, NEW q \in Seq(Datagram),
         Window(lo, q, hi), NEW r \in Arrivals(q, hi)
  PROVE  Window(lo, r, hi)
<1>1. /\ DOMAIN r = 1 .. Len(q) + 1 /\ r[Len(q) + 1] = hi
      /\ \A n \in 1 .. Len(q) : r[n] = q[n]
  BY InOrderArrival
<1>2. DOMAIN q = 1 .. Len(q) /\ Len(q) \in Nat
  OBVIOUS
<1>3. NotAfter(hi, hi)
  BY DEF NotAfter, Datagram
<1>4. \A n \in DOMAIN r : n = Len(q) + 1 \/ n \in 1 .. Len(q)
  BY <1>1, <1>2
<1>5. \A n \in DOMAIN r : NotAfter(lo, r[n]) /\ NotAfter(r[n], hi)
  BY <1>1, <1>2, <1>3, <1>4 DEF Window
<1>6. ASSUME NEW m \in DOMAIN r, NEW n \in DOMAIN r, m < n
      PROVE  NotAfter(r[m], r[n])
  <2>1. m \in 1 .. Len(q)
    BY <1>1, <1>2, <1>6
  <2>2. CASE n = Len(q) + 1
    BY <1>1, <1>5, <2>2
  <2>3. CASE n \in 1 .. Len(q)
    BY <1>1, <1>2, <1>6, <2>1, <2>3 DEF Window
  <2> QED
    BY <1>4, <2>2, <2>3
<1> QED
  BY <1>5, <1>6 DEF Window

LEMMA WindowTake ==
  ASSUME NEW lo \in Datagram, NEW hi \in Datagram, NEW q \in Seq(Datagram), q # <<>>,
         Window(lo, q, hi)
  PROVE  NotAfter(lo, Head(q)) /\ Window(Head(q), Tail(q), hi)
<1>1. 1 \in DOMAIN q /\ Head(q) = q[1]
  OBVIOUS
<1>2. \A n \in DOMAIN Tail(q) : n + 1 \in DOMAIN q /\ 1 < n + 1 /\ Tail(q)[n] = q[n + 1]
  OBVIOUS
<1>3. \A m, n \in DOMAIN Tail(q) : m < n => m + 1 < n + 1
  OBVIOUS
<1> QED
  BY <1>1, <1>2, <1>3 DEF Window

LEMMA WindowRest ==
  ASSUME NEW lo, NEW hi, NEW q \in Seq(Datagram), Window(lo, q, hi),
         NEW n \in 0 .. Len(q)
  PROVE  Window(lo, SubSeq(q, n + 1, Len(q)), hi)
<1> DEFINE r == SubSeq(q, n + 1, Len(q))
<1>1. \A m \in DOMAIN r : n + m \in DOMAIN q /\ r[m] = q[n + m]
  OBVIOUS
<1>2. \A m, k \in DOMAIN r : m < k => n + m < n + k
  OBVIOUS
<1> HIDE DEF r
<1>3. Window(lo, r, hi)
  BY <1>1, <1>2 DEF Window
<1> QED
  BY <1>3 DEF r

LEMMA WindowWidens ==
  ASSUME NEW lo \in Datagram, NEW hi \in Datagram, NEW q \in Seq(Datagram), Window(lo, q, hi),
         NEW lo2 \in Datagram, NEW hi2 \in Datagram, NotAfter(lo2, lo), NotAfter(hi, hi2)
  PROVE  Window(lo2, q, hi2)
<1>1. \A n \in DOMAIN q : q[n] \in Datagram
  BY QueueOf
<1>2. \A c, d, g \in Datagram : NotAfter(c, d) /\ NotAfter(d, g) => NotAfter(c, g)
  BY DEF NotAfter, Datagram
<1>3. NotAfter(lo2, hi2)
  BY <1>2 DEF Window
<1>4. \A n \in DOMAIN q : NotAfter(lo2, q[n]) /\ NotAfter(q[n], hi2)
  BY <1>1, <1>2 DEF Window
<1> QED
  BY <1>3, <1>4 DEF Window

-----------------------------------------------------------------------------
(***************************************************************************)
(* Who talks to whom.                                                      *)
(***************************************************************************)

\* Every datagram on its way to e is a data packet of its partner, and there is none
\* where e has several sockets.
FromPartner ==
  [e \in Endpoint |-> {d \in Datagram : /\ d.src.host = Partner[e]
                                       /\ d.code = "CODE_DATA"
                                       /\ NrSockets[e] = 1}]

\* The only address an endpoint comes to know is its partner's, or one cut short.
Paired(e) ==
  /\ peer_addr[e].host \in {Partner[e], Junk}
  /\ from_addr[e].host \in {Partner[e], Junk}
  /\ ubuf[e].src.host \in {Partner[e], Junk}
  /\ spc[e] = "sending" => serial[e] < MaxSerial[e]

PairInv == \A e \in Endpoint : Paired(e)

LEMMA OutgoingDatagram ==
  ASSUME TypeOK
  PROVE  \A e \in Endpoint : /\ Outgoing(e) \in Datagram
                            /\ Outgoing(e).inc = inc[e] /\ Outgoing(e).serial = serial[e]
<1> SUFFICES ASSUME NEW e \in Endpoint
             PROVE  /\ Outgoing(e) \in Datagram
                    /\ Outgoing(e).inc = inc[e] /\ Outgoing(e).serial = serial[e]
  OBVIOUS
<1>1. socket_id[e] \in Socket(e) /\ inc[e] \in Nat /\ serial[e] \in Nat
  BY DEF TypeOK
<1>2. [host |-> e, port |-> socket_id[e]] \in Address
  BY <1>1, ValueTypes
<1> QED
  BY <1>1, <1>2 DEF Outgoing, Datagram, Code

LEMMA PathQueues ==
  ASSUME OrderedPath, TypeOK, RecvNeverBlocks, PairInv, QueuesHold(FromPartner), [Next]_vars
  PROVE  QueuesHold(FromPartner)'
<1>1. ASSUME NEW e \in Endpoint, spc[e] = "sending", peer_addr[e].host \in Endpoint
      PROVE  Outgoing(e) \in FromPartner[peer_addr[e].host]
  <2>1. peer_addr[e].host = Partner[e]
    BY <1>1, ConstantsAssumption DEF PairInv, Paired
  <2>2. Partner[e] \in Endpoint /\ Partner[Partner[e]] = e
    BY DEF OrderedPath
  <2>3. serial[e] \in Nat /\ serial[e] < MaxSerial[e]
    BY <1>1 DEF PairInv, Paired, TypeOK
  <2>4. NrSockets[Partner[e]] = 1
    BY <2>2, <2>3 DEF OrderedPath
  <2>5. Outgoing(e) \in Datagram
    BY OutgoingDatagram
  <2>6. Outgoing(e).src.host = e /\ Outgoing(e).code = "CODE_DATA"
    BY DEF Outgoing
  <2> QED
    BY <2>1, <2>2, <2>4, <2>5, <2>6 DEF FromPartner
<1>2. MaxFaults["stray"] = 0
  BY DEF OrderedPath
<1> QED
  BY <1>1, <1>2, QueuesHoldStep

\* A datagram of the partner's fills the buffer.
LEMMA TookOnPath ==
  ASSUME NEW e \in Endpoint, NEW k, NEW d \in FromPartner[e], Took(e, k, d)
  PROVE  /\ ubuf'[e] = d /\ rpc'[e] = "copy"
         /\ d \in Datagram /\ d.src.host = Partner[e] /\ NrSockets[e] = 1
<1>1. d \in Datagram /\ d.src.host = Partner[e] /\ d.code = "CODE_DATA" /\ NrSockets[e] = 1
  BY DEF FromPartner
<1>2. [d EXCEPT !.code = "CODE_DATA"] = d
  BY <1>1 DEF Datagram
<1>3. \A u \in Filled(e, d) : u = d
  BY <1>1, <1>2 DEF Filled
<1> QED
  BY <1>1, <1>3 DEF Took

LEMMA PairStep ==
  ASSUME OrderedPath, TypeOK, RecvNeverBlocks, PairInv, QueuesHold(FromPartner), [Next]_vars
  PROVE  PairInv'
<1>0. \A f \in Endpoint : Paired(f)
  BY DEF PairInv
<1>1. ASSUME NEW e \in Endpoint, RcvFrom(e) PROVE PairInv'
  <2>0. PICK k \in Socket(e) : \E d \in Datagram : d \in FromPartner[e] /\ Took(e, k, d)
    BY <1>1, RcvFromEffect
  <2>1. PICK d \in Datagram : d \in FromPartner[e] /\ Took(e, k, d)
    BY <2>0
  <2>2. ubuf'[e] = d /\ d.src.host = Partner[e]
    BY <2>1, TookOnPath
  <2>3. from_addr'[e].host \in {Partner[e], Junk}
    BY <2>1, <2>2 DEF Took, SourceHosts
  <2>4. UNCHANGED <<peer_addr, spc, serial>>
    BY <2>1 DEF Took, sender
  <2>5. Paired(e)'
    BY <1>0, <2>2, <2>3, <2>4 DEF Paired
  <2>6. \A f \in Endpoint : f # e => Paired(f)'
    BY <1>0, <2>1, <2>4 DEF Paired, Took
  <2> QED
    BY <2>5, <2>6 DEF PairInv
<1>2. ASSUME NEW e \in Endpoint, RcvFail(e) PROVE PairInv'
  BY <1>0, <1>2 DEF RcvFail, PairInv, Paired, shared, sender
<1>3. ASSUME NEW e \in Endpoint, CopyAddr(e) PROVE PairInv'
  <2>1. PICK h \in {"host", "port"} :
          /\ peer_addr'[e][h] = from_addr[e][h]
          /\ \A j \in {"host", "port"} : j # h => peer_addr'[e][j] = peer_addr[e][j]
          /\ \A f \in Endpoint : f # e => peer_addr'[f] = peer_addr[f]
          /\ UNCHANGED <<from_addr, ubuf, spc, serial>>
    BY <1>3, CopyAddrEffect DEF sender
  <2>2. peer_addr'[e] \in Address /\ from_addr[e] \in Address /\ peer_addr[e] \in Address
    BY <1>3, CopyAddrEffect DEF TypeOK
  <2>3. peer_addr'[e].host \in {Partner[e], Junk}
    <3>1. CASE h = "host"
      BY <1>0, <2>1, <3>1 DEF Paired
    <3>2. CASE h = "port"
      BY <1>0, <2>1, <3>2 DEF Paired
    <3> QED
      BY <3>1, <3>2
  <2>4. Paired(e)'
    BY <1>0, <2>1, <2>3 DEF Paired
  <2>5. \A f \in Endpoint : f # e => Paired(f)'
    BY <1>0, <2>1 DEF Paired
  <2> QED
    BY <2>4, <2>5 DEF PairInv
<1>4. ASSUME NEW e \in Endpoint, Filter(e) \/ RcvPoll(e) PROVE PairInv'
  BY <1>0, <1>4 DEF Filter, RcvPoll, PairInv, Paired, shared, sender
<1>5. ASSUME NEW e \in Endpoint, Restart(e) PROVE PairInv'
  <2>1. Remote[e].host \in {Partner[e], Junk}
    BY DEF OrderedPath, NoAddr
  <2>2. Paired(e)'
    BY <1>5, <2>1, RestartEffect DEF Paired, ZeroBuf, NoAddr
  <2>3. \A f \in Endpoint : f # e => Paired(f)'
    BY <1>0, <1>5, RestartEffect DEF Paired
  <2> QED
    BY <2>2, <2>3 DEF PairInv
<1>6. ASSUME NEW e \in Endpoint, Send(e) PROVE PairInv'
  <2>1. UNCHANGED <<peer_addr, from_addr, ubuf>>
    BY <1>6 DEF Send, SendBegin, SendCopy, SendEnd, shared, receiver
  <2>2. \A f \in Endpoint : spc'[f] = "sending" => serial'[f] < MaxSerial[f]
    <3>1. CASE SendBegin(e)
      BY <1>0, <3>1 DEF SendBegin, Paired, TypeOK
    <3>2. CASE SendCopy(e)
      BY <1>0, <3>2 DEF SendCopy, Paired
    <3>3. CASE SendEnd(e)
      BY <1>0, <3>3 DEF SendEnd, Paired, TypeOK
    <3> QED
      BY <1>6, <3>1, <3>2, <3>3 DEF Send
  <2> QED
    BY <1>0, <2>1, <2>2 DEF PairInv, Paired
<1>7. ASSUME Network PROVE PairInv'
  BY <1>0, <1>7 DEF Network, Duplicate, Stray, PairInv, Paired, shared, sender, receiver
<1>8. CASE UNCHANGED vars
  BY <1>0, <1>8 DEF PairInv, Paired, vars, shared, sender, receiver
<1> QED
  BY <1>1, <1>2, <1>3, <1>4, <1>5, <1>6, <1>7, <1>8 DEF Next, Rcv

-----------------------------------------------------------------------------
(***************************************************************************)
(* The order of what is on its way.                                        *)
(***************************************************************************)

\* Between the datagram in the buffer of e and the packet its partner is at, the
\* queues hold datagrams in the order they were sent in.
InSequence(e) ==
  \A k \in Socket(e) : Window(ubuf[e], inbox[e][k], Outgoing(Partner[e]))

OrderInv == \A e \in Endpoint : InSequence(e)

\* A sender only goes on: to its next packet, or to its next incarnation.
LEMMA SenderGoesOn ==
  ASSUME TypeOK, TypeOK', [Next]_vars
  PROVE  \A f \in Endpoint : NotAfter(Outgoing(f), Outgoing(f)')
<1>0. \A f \in Endpoint :
        /\ Outgoing(f).inc = inc[f] /\ Outgoing(f).serial = serial[f]
        /\ Outgoing(f)'.inc = inc'[f] /\ Outgoing(f)'.serial = serial'[f]
        /\ inc[f] \in Nat /\ serial[f] \in Nat
  BY DEF Outgoing, TypeOK
<1>1. SUFFICES \A f \in Endpoint :
                 inc[f] < inc'[f] \/ (inc[f] = inc'[f] /\ serial[f] <= serial'[f])
  BY <1>0 DEF NotAfter
<1>2. ASSUME NEW e \in Endpoint, Send(e)
      PROVE  \A f \in Endpoint : inc[f] = inc'[f] /\ serial[f] <= serial'[f]
  <2>1. CASE SendBegin(e) \/ SendCopy(e)
    BY <1>0, <2>1 DEF SendBegin, SendCopy
  <2>2. CASE SendEnd(e)
    <3>1. serial' = [serial EXCEPT ![e] = serial[e] + 1] /\ inc' = inc
      BY <2>2 DEF SendEnd
    <3>2. serial \in [Endpoint -> Nat]
      BY DEF TypeOK
    <3> QED
      BY <3>1, <3>2
  <2> QED
    BY <1>2, <2>1, <2>2 DEF Send
<1>3. ASSUME NEW e \in Endpoint, Rcv(e)
      PROVE  \A f \in Endpoint : inc[f] = inc'[f] /\ serial[f] <= serial'[f]
  BY <1>0, <1>3 DEF Rcv, RcvPoll, RcvFrom, RcvFail, CopyAddr, Filter, sender
<1>4. ASSUME NEW e \in Endpoint, Restart(e)
      PROVE  \A f \in Endpoint : inc[f] < inc'[f] \/ (inc[f] = inc'[f] /\ serial[f] <= serial'[f])
  <2>1. inc'[e] = inc[e] + 1
    BY <1>4, RestartEffect
  <2>2. \A f \in Endpoint : f # e => inc'[f] = inc[f] /\ serial'[f] = serial[f]
    BY <1>4, RestartEffect
  <2> QED
    BY <1>0, <2>1, <2>2
<1>5. ASSUME Network \/ UNCHANGED vars
      PROVE  \A f \in Endpoint : inc[f] = inc'[f] /\ serial[f] <= serial'[f]
  <2>1. UNCHANGED <<inc, serial>>
    BY <1>5 DEF Network, Duplicate, Stray, vars, sender
  <2> QED
    BY <1>0, <2>1
<1> QED
  BY <1>2, <1>3, <1>4, <1>5 DEF Next

\* Only an arrival, recvfrom and a restart touch the queues of an endpoint.
LEMMA OrderStep ==
  ASSUME OrderedPath, TypeOK, TypeOK', RecvNeverBlocks, PairInv, QueuesHold(FromPartner),
         OrderInv, [Next]_vars
  PROVE  OrderInv'
<1> SUFFICES ASSUME NEW e \in Endpoint, NEW k \in Socket(e)
             PROVE  Window(ubuf'[e], inbox'[e][k], Outgoing(Partner[e])')
  BY DEF OrderInv, InSequence, Socket
<1> DEFINE f == Partner[e]
           lo == ubuf[e]
           hi == Outgoing(Partner[e])
           hi2 == Outgoing(Partner[e])'
           q == inbox[e][k]
<1>0. /\ f \in Endpoint /\ lo \in Datagram /\ ubuf'[e] \in Datagram
      /\ q \in Seq(Datagram) /\ inbox'[e][k] \in Seq(Datagram)
      /\ Window(lo, q, hi)
  <2>1. f \in Endpoint
    BY DEF OrderedPath
  <2>2. lo \in Datagram /\ q \in Seq(Datagram)
    BY DEF TypeOK
  <2>3. ubuf'[e] \in Datagram /\ inbox'[e][k] \in Seq(Datagram)
    BY DEF TypeOK, Socket
  <2>4. Window(lo, q, hi)
    BY DEF OrderInv, InSequence
  <2> QED
    BY <2>1, <2>2, <2>3, <2>4
<1>a. hi \in Datagram
  BY <1>0, OutgoingDatagram
<1>b. hi2 \in Datagram
  <2>1. socket_id'[f] \in Socket(f) /\ inc'[f] \in Nat /\ serial'[f] \in Nat
    BY <1>0 DEF TypeOK, Socket
  <2>2. [host |-> f, port |-> socket_id'[f]] \in Address
    BY <1>0, <2>1, ValueTypes
  <2> QED
    BY <2>1, <2>2 DEF Outgoing, Datagram, Code
<1>c. NotAfter(hi, hi2)
  BY <1>0, SenderGoesOn
<1>d. \A c \in Datagram : NotAfter(c, c)
  BY DEF NotAfter, Datagram
<1> HIDE DEF hi2, hi, lo
<1>1. ASSUME ubuf'[e] = ubuf[e], inbox'[e][k] = inbox[e][k]
      PROVE  Window(ubuf'[e], inbox'[e][k], hi2)
  BY <1>0, <1>1, <1>a, <1>b, <1>c, <1>d, WindowWidens DEF lo
<1>2. ASSUME NEW g \in Endpoint, SendCopy(g)
      PROVE  Window(ubuf'[e], inbox'[e][k], hi2)
  <2>1. ubuf' = ubuf /\ spc[g] = "sending"
    BY <1>2 DEF SendCopy, receiver
  <2>2. CASE inbox' = inbox
    BY <1>1, <2>1, <2>2
  <2>3. CASE Arrive(peer_addr[g], Outgoing(g))
    <3>1. CASE ~Bound(peer_addr[g])
      BY <1>1, <2>1, <2>3, <3>1 DEF Arrive
    <3>2. CASE Bound(peer_addr[g]) /\ ~(peer_addr[g].host = e /\ peer_addr[g].port = k)
      <4>1. inbox'[e][k] = inbox[e][k]
        <5> DEFINE h == peer_addr[g].host
                   j == peer_addr[g].port
        <5>1. PICK r \in Arrivals(inbox[h][j], Outgoing(g)) : inbox' = [inbox EXCEPT ![h][j] = r]
          BY <2>3, <3>2 DEF Arrive
        <5>2. DOMAIN inbox = Endpoint /\ h \in Endpoint /\ ~(h = e /\ j = k)
          BY <3>2 DEF Bound, TypeOK
        <5>3. inbox' = [inbox EXCEPT ![h] = [inbox[h] EXCEPT ![j] = r]]
          BY <5>1
        <5>4. k \in DOMAIN inbox[e]
          BY DEF TypeOK
        <5> HIDE DEF h, j
        <5> QED
          BY <5>2, <5>3, <5>4
      <4> QED
        BY <1>1, <2>1, <4>1
    <3>3. CASE Bound(peer_addr[g]) /\ peer_addr[g].host = e /\ peer_addr[g].port = k
      <4>1. g = f
        <5>1. peer_addr[g].host = Partner[g]
          BY <3>3, ConstantsAssumption DEF PairInv, Paired
        <5> QED
          BY <3>3, <5>1 DEF OrderedPath
      <4>2. PICK r \in Arrivals(q, hi) : inbox' = [inbox EXCEPT ![e][k] = r]
        BY <2>3, <3>3, <4>1 DEF Arrive, hi
      <4>3. inbox'[e][k] = r
        BY <4>2 DEF TypeOK
      <4>4. Window(lo, r, hi) /\ r \in Seq(Datagram)
        BY <1>0, <1>a, <4>2, <4>3, WindowArrival DEF OrderedPath
      <4> QED
        BY <1>0, <1>a, <1>b, <1>c, <1>d, <2>1, <4>3, <4>4, WindowWidens DEF lo
    <3> QED
      BY <3>1, <3>2, <3>3
  <2> QED
    BY <1>2, <2>2, <2>3 DEF SendCopy
<1>3. ASSUME NEW g \in Endpoint, RcvFrom(g)
      PROVE  Window(ubuf'[e], inbox'[e][k], hi2)
  <2>0. PICK j \in Socket(g) : \E d \in Datagram : d \in FromPartner[g] /\ Took(g, j, d)
    BY <1>3, RcvFromEffect
  <2>1. PICK d \in Datagram : d \in FromPartner[g] /\ Took(g, j, d)
    BY <2>0
  <2>2. ubuf'[g] = d /\ NrSockets[g] = 1
    BY <2>1, TookOnPath
  <2>3. inbox' = [inbox EXCEPT ![g][j] = Tail(inbox[g][j])] /\ d = Head(inbox[g][j])
        /\ inbox[g][j] # <<>> /\ \A h \in Endpoint : h # g => ubuf'[h] = ubuf[h]
    BY <2>1 DEF Took
  <2>4. CASE g # e
    <3>1. inbox'[e][k] = inbox[e][k] /\ ubuf'[e] = ubuf[e]
      BY <2>3, <2>4 DEF TypeOK
    <3> QED
      BY <1>1, <3>1
  <2>5. CASE g = e
    <3>1. j = k
      BY <2>2, <2>5 DEF Socket
    <3>2. inbox'[e][k] = Tail(q) /\ d = Head(q) /\ q # <<>>
      BY <2>3, <2>5, <3>1 DEF TypeOK
    <3>3. Window(d, Tail(q), hi)
      BY <1>0, <1>a, <3>2, WindowTake
    <3>4. Tail(q) \in Seq(Datagram)
      BY <1>0, <3>2
    <3> QED
      BY <1>a, <1>b, <1>c, <1>d, <2>2, <2>5, <3>2, <3>3, <3>4, WindowWidens
  <2> QED
    BY <2>4, <2>5
<1>4. ASSUME NEW g \in Endpoint, Restart(g)
      PROVE  Window(ubuf'[e], inbox'[e][k], hi2)
  <2>1. CASE g # e
    BY <1>1, <1>4, <2>1, RestartEffect, RestartQueues
  <2>2. CASE g = e
    <3>1. PICK n \in 0 .. Len(q) : inbox'[e][k] = SubSeq(q, n + 1, Len(q))
      BY <1>4, <2>2, RestartQueues
    <3>2. Window(lo, inbox'[e][k], hi)
      BY <1>0, <3>1, WindowRest
    <3>3. ubuf'[e] = ZeroBuf /\ ZeroBuf \in Datagram /\ NotAfter(ZeroBuf, lo)
      <4>1. ubuf'[e] = ZeroBuf /\ ZeroBuf \in Datagram
        BY <1>4, <2>2, RestartEffect, ValueTypes
      <4>2. ZeroBuf.inc = 0 /\ ZeroBuf.serial = 0 /\ lo.inc \in Nat /\ lo.serial \in Nat
        BY <1>0 DEF ZeroBuf, Datagram
      <4> QED
        BY <4>1, <4>2 DEF NotAfter
    <3> QED
      BY <1>0, <1>a, <1>b, <1>c, <3>2, <3>3, WindowWidens
  <2> QED
    BY <2>1, <2>2
<1>5. ASSUME NEW g \in Endpoint,
             SendBegin(g) \/ SendEnd(g) \/ RcvPoll(g) \/ RcvFail(g) \/ CopyAddr(g) \/ Filter(g)
      PROVE  UNCHANGED <<ubuf, inbox>>
  BY <1>5 DEF SendBegin, SendEnd, RcvPoll, RcvFail, CopyAddr, Filter, receiver
<1>6. ASSUME Network PROVE FALSE
  <2>1. faults["dup"] \in Nat /\ faults["stray"] \in Nat
    BY DEF TypeOK, Fault
  <2>2. faults["dup"] < MaxFaults["dup"] \/ faults["stray"] < MaxFaults["stray"]
    BY <1>6 DEF Network, Duplicate, Stray, Spend
  <2> QED
    BY <2>1, <2>2 DEF OrderedPath
<1>7. CASE UNCHANGED vars
  <2>1. ubuf' = ubuf /\ inbox' = inbox
    BY <1>7 DEF vars, receiver
  <2> QED
    BY <1>1, <2>1 DEF hi2
<1> QED
  BY <1>1, <1>2, <1>3, <1>4, <1>5, <1>6, <1>7 DEF Next, Send, Rcv, hi2

-----------------------------------------------------------------------------
(***************************************************************************)
(* What came out.                                                          *)
(***************************************************************************)

\* The packets handed to the tunnel of e.
Handed(e) == {delivered[e][n] : n \in DOMAIN delivered[e]}

\* The packets of its partner's that e has seen.
Seen(e) == {p \in received[e] : p.host = Partner[e]}

\* What e has seen was not sent after the packet in its buffer; if some of it is of
\* the same incarnation, so is the packet that serial_prev remembers; and of each
\* incarnation at most one packet was taken for a copy.
Sound(e) ==
  /\ \A p \in received[e] : p.host \in {Partner[e], Junk}
  /\ \A p \in Seen(e) : NotAfter(p, ubuf[e])
  /\ ubuf[e].src.host = Junk => Seen(e) = {}
  /\ \A p \in Seen(e) : p.inc = ubuf[e].inc =>
       \E r \in Seen(e) : r.inc = ubuf[e].inc /\ r.serial = serial_prev[e]
  /\ \A p, q \in Seen(e) \ Handed(e) : p.inc = q.inc => p = q

SoundInv == \A e \in Endpoint : Sound(e)

\* The packet handed over is one of those handed over.
LEMMA HandedGrows ==
  ASSUME NEW s \in Seq(PacketId), NEW p \in PacketId
  PROVE  {Append(s, p)[n] : n \in DOMAIN Append(s, p)} = {s[n] : n \in DOMAIN s} \cup {p}
<1>1. DOMAIN Append(s, p) = DOMAIN s \cup {Len(s) + 1} /\ Append(s, p)[Len(s) + 1] = p
  OBVIOUS
<1>2. \A n \in DOMAIN s : Append(s, p)[n] = s[n]
  OBVIOUS
<1> QED
  BY <1>1, <1>2

LEMMA SoundFilter ==
  ASSUME OrderedPath, TypeOK, PairInv, SoundInv, NEW e \in Endpoint, Filter(e)
  PROVE  Sound(e)'
<1> DEFINE p == Packet(ubuf[e])
<1>1. /\ ubuf[e] \in Datagram /\ p \in PacketId
      /\ p.host = ubuf[e].src.host /\ p.inc = ubuf[e].inc /\ p.serial = ubuf[e].serial
      /\ p = [host |-> p.host, inc |-> p.inc, serial |-> p.serial]
  BY ValueTypes DEF TypeOK, Packet
<1>2. Sound(e) /\ p.host \in {Partner[e], Junk}
  BY <1>1 DEF SoundInv, PairInv, Paired
<1>3. received'[e] = received[e] \cup {p} /\ ubuf' = ubuf /\ received[e] \subseteq PacketId
  BY DEF Filter, TypeOK
<1>4. serial_prev'[e] = p.serial
  BY <1>1 DEF Filter, Redundant, Accept, TypeOK
<1>5. \/ Redundant(e) /\ Handed(e)' = Handed(e)
      \/ ~Redundant(e) /\ Handed(e)' = Handed(e) \cup {p}
  <2>1. CASE Redundant(e)
    BY <2>1 DEF Filter, Handed
  <2>2. CASE ~Redundant(e)
    <3>1. delivered[e] \in Seq(PacketId) /\ delivered'[e] = Append(delivered[e], p)
      BY <2>2 DEF Filter, Accept, TypeOK
    <3> DEFINE t == Append(delivered[e], p)
    <3>2. {t[n] : n \in DOMAIN t} = Handed(e) \cup {p}
      BY <1>1, <3>1, HandedGrows DEF Handed
    <3> HIDE DEF p, t
    <3>3. Handed(e)' = {t[n] : n \in DOMAIN t}
      BY <3>1 DEF Handed, t
    <3> QED
      BY <2>2, <3>2, <3>3
  <2> QED
    BY <2>1, <2>2
<1>6. Partner[e] # Junk
  BY ConstantsAssumption DEF OrderedPath
<1> HIDE DEF p
<1>7. Seen(e)' = IF p.host = Partner[e] THEN Seen(e) \cup {p} ELSE Seen(e)
  BY <1>3 DEF Seen
<1>8. \A s \in received'[e] : s.host \in {Partner[e], Junk}
  BY <1>2, <1>3 DEF Sound
<1>9. \A s \in Seen(e)' : NotAfter(s, ubuf[e])
  <2>1. NotAfter(p, ubuf[e])
    BY <1>1 DEF NotAfter, Datagram
  <2> QED
    BY <1>2, <1>7, <2>1 DEF Sound
<1>10. ubuf[e].src.host = Junk => Seen(e)' = {}
  BY <1>1, <1>2, <1>6, <1>7 DEF Sound
<1>11. ASSUME NEW s \in Seen(e)', s.inc = ubuf[e].inc
       PROVE  \E r \in Seen(e)' : r.inc = ubuf[e].inc /\ r.serial = p.serial
  <2>1. p.host = Partner[e]
    BY <1>1, <1>2, <1>10, <1>11
  <2> QED
    BY <1>1, <1>7, <2>1
<1>12. ASSUME NEW s \in Seen(e)' \ Handed(e)', NEW t \in Seen(e)' \ Handed(e)', s.inc = t.inc
       PROVE  s = t
  <2>1. ASSUME NEW u \in Seen(e)' \ Handed(e)', u # p PROVE u \in Seen(e) \ Handed(e)
    BY <1>5, <1>7, <2>1
  <2>2. ASSUME NEW u \in Seen(e), p \in Seen(e)' \ Handed(e)', u.inc = p.inc
        PROVE  p \in Seen(e) \ Handed(e)
    <3>1. Redundant(e) /\ p \notin Handed(e)
      BY <1>5, <2>2
    <3>2. p.serial = serial_prev[e] /\ p.host = Partner[e]
      BY <1>1, <2>2, <3>1 DEF Redundant, Seen
    <3>3. PICK r \in Seen(e) : r.inc = ubuf[e].inc /\ r.serial = serial_prev[e]
      BY <1>1, <1>2, <2>2 DEF Sound
    <3>4. r \in PacketId /\ r.host = Partner[e]
      BY <1>3 DEF Seen
    <3>5. r = p
      BY <1>1, <3>2, <3>3, <3>4 DEF PacketId
    <3> QED
      BY <3>1, <3>3, <3>5
  <2>3. CASE s # p /\ t # p
    BY <1>2, <1>12, <2>1, <2>3 DEF Sound
  <2>4. CASE s = p /\ t # p
    BY <1>2, <1>12, <2>1, <2>2, <2>4 DEF Sound
  <2>5. CASE s # p /\ t = p
    BY <1>2, <1>12, <2>1, <2>2, <2>5 DEF Sound
  <2> QED
    BY <2>3, <2>4, <2>5
<1> QED
  BY <1>3, <1>4, <1>8, <1>9, <1>10, <1>11, <1>12 DEF Sound

LEMMA SoundTook ==
  ASSUME OrderedPath, TypeOK, PairInv, OrderInv, SoundInv, QueuesHold(FromPartner),
         NEW e \in Endpoint, NEW k \in Socket(e), NEW d \in FromPartner[e], Took(e, k, d)
  PROVE  Sound(e)'
<1>1. /\ Sound(e) /\ ubuf[e] \in Datagram /\ inbox[e][k] \in Seq(Datagram)
      /\ received[e] \subseteq PacketId
  BY DEF SoundInv, TypeOK
<1>2. ubuf'[e] = d /\ d \in Datagram /\ d.src.host = Partner[e]
  BY TookOnPath
<1>3. d = Head(inbox[e][k]) /\ inbox[e][k] # <<>>
      /\ UNCHANGED <<serial_prev, delivered, received>>
  BY DEF Took
<1>4. NotAfter(ubuf[e], d)
  <2>1. Window(ubuf[e], inbox[e][k], Outgoing(Partner[e]))
    BY DEF OrderInv, InSequence
  <2>2. 1 \in DOMAIN inbox[e][k] /\ d = inbox[e][k][1]
    BY <1>1, <1>3
  <2> QED
    BY <2>1, <2>2 DEF Window
<1>5. Seen(e)' = Seen(e) /\ Handed(e)' = Handed(e)
  BY <1>3 DEF Seen, Handed
<1>6. \A p \in Seen(e) : p.inc \in Nat /\ p.serial \in Nat /\ NotAfter(p, ubuf[e])
  BY <1>1 DEF Seen, Sound, PacketId
<1>7. /\ d.inc \in Nat /\ d.serial \in Nat
      /\ ubuf[e].inc \in Nat /\ ubuf[e].serial \in Nat
  BY <1>1, <1>2 DEF Datagram
<1>8. \A p \in Seen(e) : NotAfter(p, d)
  BY <1>4, <1>6, <1>7 DEF NotAfter
<1>9. \A p \in Seen(e) : p.inc = d.inc => p.inc = ubuf[e].inc
  BY <1>4, <1>6, <1>7 DEF NotAfter
<1>10. \A p \in Seen(e) : p.inc = d.inc =>
         \E r \in Seen(e) : r.inc = d.inc /\ r.serial = serial_prev[e]
  BY <1>1, <1>9 DEF Sound
<1>11. d.src.host # Junk
  BY <1>2, ConstantsAssumption DEF OrderedPath
<1> QED
  BY <1>1, <1>2, <1>3, <1>5, <1>8, <1>10, <1>11 DEF Sound

LEMMA SoundStep ==
  ASSUME OrderedPath, TypeOK, RecvNeverBlocks, PairInv, OrderInv, SoundInv,
         QueuesHold(FromPartner), [Next]_vars
  PROVE  SoundInv'
<1> SUFFICES ASSUME NEW e \in Endpoint PROVE Sound(e)'
  BY DEF SoundInv
<1>0. Sound(e)
  BY DEF SoundInv
<1>1. ASSUME ubuf'[e] = ubuf[e], serial_prev'[e] = serial_prev[e],
             delivered'[e] = delivered[e], received'[e] = received[e]
      PROVE  Sound(e)'
  BY <1>0, <1>1 DEF Sound, Seen, Handed
<1>2. ASSUME NEW g \in Endpoint, RcvFrom(g) PROVE Sound(e)'
  <2>0. PICK k \in Socket(g) : \E d \in Datagram : d \in FromPartner[g] /\ Took(g, k, d)
    BY <1>2, RcvFromEffect
  <2>1. PICK d \in Datagram : d \in FromPartner[g] /\ Took(g, k, d)
    BY <2>0
  <2>2. CASE g = e
    BY <2>1, <2>2, SoundTook
  <2>3. CASE g # e
    BY <1>1, <2>1, <2>3 DEF Took
  <2> QED
    BY <2>2, <2>3
<1>3. ASSUME NEW g \in Endpoint, Filter(g) PROVE Sound(e)'
  <2>1. CASE g = e
    BY <1>3, <2>1, SoundFilter
  <2>2. CASE g # e
    <3>1. ubuf' = ubuf /\ received'[e] = received[e]
      BY <1>3, <2>2 DEF Filter, TypeOK
    <3>2. serial_prev'[e] = serial_prev[e] /\ delivered'[e] = delivered[e]
      BY <1>3, <2>2 DEF Filter, Accept, TypeOK
    <3> QED
      BY <1>1, <3>1, <3>2
  <2> QED
    BY <2>1, <2>2
<1>4. ASSUME NEW g \in Endpoint, Restart(g) PROVE Sound(e)'
  <2>1. CASE g = e
    <3>1. received'[e] = {}
      BY <1>4, <2>1, RestartEffect
    <3> QED
      BY <3>1 DEF Sound, Seen
  <2>2. CASE g # e
    BY <1>1, <1>4, <2>2, RestartEffect
  <2> QED
    BY <2>1, <2>2
<1>5. ASSUME NEW g \in Endpoint, Send(g) \/ RcvPoll(g) PROVE Sound(e)'
  BY <1>1, <1>5, OtherSteps
<1>6. ASSUME NEW g \in Endpoint, RcvFail(g) \/ CopyAddr(g) PROVE Sound(e)'
  BY <1>1, <1>6 DEF RcvFail, CopyAddr, history
<1>7. ASSUME Network PROVE Sound(e)'
  BY <1>1, <1>7, OtherSteps
<1>8. CASE UNCHANGED vars
  BY <1>1, <1>8, OtherSteps
<1> QED
  BY <1>2, <1>3, <1>4, <1>5, <1>6, <1>7, <1>8 DEF Next, Rcv

\* What holds on an ordered path, whatever is lost and whoever is restarted.
PathInv ==
  /\ TypeOK /\ RecvNeverBlocks /\ FilterInv
  /\ PairInv /\ QueuesHold(FromPartner) /\ OrderInv /\ SoundInv

LEMMA PathInit == ASSUME OrderedPath, Init PROVE PathInv
<1>1. TypeOK /\ RecvNeverBlocks /\ FilterInv
  BY InitType, FilterInit
<1>2. QueuesHold(FromPartner)
  BY EmptyQueues
<1>3. PairInv
  BY DEF Init, PairInv, Paired, OrderedPath, ZeroBuf, NoAddr
<1>4. OrderInv
  <2> SUFFICES ASSUME NEW e \in Endpoint, NEW k \in Socket(e)
               PROVE  Window(ubuf[e], inbox[e][k], Outgoing(Partner[e]))
    BY DEF OrderInv, InSequence
  <2>1. inbox[e][k] = <<>> /\ DOMAIN inbox[e][k] = {}
    BY DEF Init
  <2>2. ubuf[e].inc = 0 /\ ubuf[e].serial = 0
    BY DEF Init, ZeroBuf
  <2>3. Outgoing(Partner[e]).inc = 0 /\ Outgoing(Partner[e]).serial = 0
    BY DEF Init, Outgoing, OrderedPath
  <2> QED
    BY <2>1, <2>2, <2>3 DEF Window, NotAfter
<1>5. SoundInv
  BY DEF Init, SoundInv, Sound, Seen
<1> QED
  BY <1>1, <1>2, <1>3, <1>4, <1>5 DEF PathInv

LEMMA PathInvariant == ASSUME OrderedPath PROVE Spec => []PathInv
<1>1. Init => PathInv
  BY PathInit
<1>2. PathInv /\ [Next]_vars => PathInv'
  <2> SUFFICES ASSUME PathInv, [Next]_vars PROVE PathInv'
    OBVIOUS
  <2> USE DEF PathInv
  <2>1. TypeOK' /\ RecvNeverBlocks' /\ FilterInv'
    BY StepType, FilterInvariant
  <2>2. PairInv' /\ QueuesHold(FromPartner)'
    BY PairStep, PathQueues
  <2>3. OrderInv' /\ SoundInv'
    BY <2>1, OrderStep, SoundStep
  <2> QED
    BY <2>1, <2>2, <2>3
<1> QED
  BY <1>1, <1>2, PTL DEF Spec

\* A restart of the peer costs at most one packet: of each of its incarnations, at
\* most one packet that arrived was taken for a copy of a packet that it is not.
THEOREM OneDropPerStart ==
  ASSUME OrderedPath
  PROVE  Spec => []OneFalseDropPerStart
<1>1. PathInv => OneFalseDropPerStart
  <2> SUFFICES ASSUME PathInv, NEW e \in Endpoint, NEW f \in Endpoint, NEW k \in 0 .. inc[f]
               PROVE  Cardinality({p \in received[e] :
                        /\ p.host = f /\ p.inc = k
                        /\ \A n \in DOMAIN delivered[e] : delivered[e][n] # p}) <= 1
    BY DEF OneFalseDropPerStart
  <2> DEFINE D == {p \in received[e] :
                     /\ p.host = f /\ p.inc = k
                     /\ \A n \in DOMAIN delivered[e] : delivered[e][n] # p}
  <2>1. D \subseteq Seen(e) \ Handed(e) /\ \A p \in D : p.inc = k
    <3>1. \A p \in D : p.host = Partner[e]
      BY ConstantsAssumption DEF PathInv, SoundInv, Sound
    <3> QED
      BY <3>1 DEF Seen, Handed
  <2>2. \A p, q \in D : p = q
    BY <2>1 DEF PathInv, SoundInv, Sound
  <2> HIDE DEF D
  <2>3. CASE D = {}
    <3>1. Cardinality(D) = 0
      BY <2>3, FS_EmptySet
    <3> QED
      BY <3>1 DEF D
  <2>4. CASE D # {}
    <3>1. PICK p \in D : TRUE
      BY <2>4
    <3>2. D = {p}
      BY <2>2, <3>1
    <3>3. Cardinality(D) = 1
      BY <3>2, FS_Singleton
    <3> QED
      BY <3>3 DEF D
  <2> QED
    BY <2>3, <2>4
<1> QED
  BY <1>1, PathInvariant, PTL

-----------------------------------------------------------------------------
(***************************************************************************)
(* Without restarts: the order of what comes out.                          *)
(***************************************************************************)

\* What was handed over comes in increasing order, up to the serial the filter
\* remembers, which is not beyond the packet in the buffer.
Increasing(e) ==
  /\ inc[e] = 0
  /\ serial_prev[e] <= ubuf[e].serial
  /\ \A n \in DOMAIN delivered[e] : delivered[e][n].serial <= serial_prev[e]
  /\ \A m, n \in DOMAIN delivered[e] :
       m < n => delivered[e][m].serial < delivered[e][n].serial

IncreaseInv == \A e \in Endpoint : Increasing(e)

\* No datagram is of a later incarnation than its sender.
LEMMA FirstIncarnation ==
  ASSUME OrderedPath, TypeOK, OrderInv, IncreaseInv, NEW e \in Endpoint
  PROVE  /\ ubuf[e].inc = 0 /\ ubuf[e].serial <= serial[Partner[e]]
         /\ \A k \in Socket(e) : \A n \in DOMAIN inbox[e][k] :
              inbox[e][k][n].inc = 0 /\ ubuf[e].serial <= inbox[e][k][n].serial
<1>1. Partner[e] \in Endpoint /\ inc[Partner[e]] = 0 /\ 0 \in Socket(e)
  BY ValueTypes DEF OrderedPath, IncreaseInv, Increasing, Socket
<1>2. Outgoing(Partner[e]).inc = 0 /\ Outgoing(Partner[e]).serial = serial[Partner[e]]
  BY <1>1 DEF Outgoing
<1>3. \A k \in Socket(e) : Window(ubuf[e], inbox[e][k], Outgoing(Partner[e]))
  BY DEF OrderInv, InSequence
<1>4. /\ ubuf[e].inc \in Nat /\ ubuf[e].serial \in Nat
      /\ \A k \in Socket(e) : inbox[e][k] \in Seq(Datagram)
  BY DEF TypeOK, Datagram
<1>5. \A k \in Socket(e) : \A n \in DOMAIN inbox[e][k] :
        inbox[e][k][n].inc \in Nat /\ inbox[e][k][n].serial \in Nat
  <2>1. \A k \in Socket(e) : \A n \in DOMAIN inbox[e][k] : inbox[e][k][n] \in Datagram
    BY <1>4, QueueOf
  <2> QED
    BY <2>1 DEF Datagram
<1>6. ubuf[e].inc = 0 /\ ubuf[e].serial <= serial[Partner[e]]
  BY <1>1, <1>2, <1>3, <1>4 DEF Window, NotAfter
<1>7. ASSUME NEW k \in Socket(e), NEW n \in DOMAIN inbox[e][k]
      PROVE  inbox[e][k][n].inc = 0 /\ ubuf[e].serial <= inbox[e][k][n].serial
  <2>1. /\ NotAfter(ubuf[e], inbox[e][k][n])
        /\ NotAfter(inbox[e][k][n], Outgoing(Partner[e]))
    BY <1>3 DEF Window
  <2> QED
    BY <1>2, <1>5, <1>6, <2>1 DEF NotAfter
<1> QED
  BY <1>6, <1>7

\* The serials of a sequence of packets are numbers.
LEMMA PacketSerials ==
  ASSUME NEW s \in Seq(PacketId)
  PROVE  /\ DOMAIN s = 1 .. Len(s) /\ Len(s) \in Nat
         /\ \A n \in 1 .. Len(s) : s[n].serial \in Nat
<1>1. DOMAIN s = 1 .. Len(s) /\ Len(s) \in Nat /\ \A n \in 1 .. Len(s) : s[n] \in PacketId
  OBVIOUS
<1>2. \A p \in PacketId : p.serial \in Nat
  BY DEF PacketId
<1> QED
  BY <1>1, <1>2

LEMMA IncreaseFilter ==
  ASSUME TypeOK, NEW e \in Endpoint, Increasing(e), Filter(e)
  PROVE  Increasing(e)'
<1> DEFINE p == Packet(ubuf[e])
           s == delivered[e]
<1>1. /\ ubuf[e].serial \in Nat /\ p.serial = ubuf[e].serial /\ p \in PacketId
      /\ serial_prev[e] \in Nat /\ s \in Seq(PacketId)
  BY ValueTypes DEF TypeOK, Packet, Datagram
<1>2. UNCHANGED <<ubuf, inc>>
  BY DEF Filter
<1>3. CASE Redundant(e)
  BY <1>2, <1>3 DEF Filter, Increasing
<1>4. CASE ~Redundant(e)
  <2>1. serial_prev'[e] = p.serial /\ delivered'[e] = Append(s, p)
    BY <1>1, <1>4 DEF Filter, Accept, TypeOK
  <2>2. serial_prev[e] < p.serial
    BY <1>1, <1>4 DEF Increasing, Redundant
  <2>3. /\ DOMAIN s = 1 .. Len(s) /\ Len(s) \in Nat
        /\ \A n \in DOMAIN s : s[n].serial \in Nat
    BY <1>1, PacketSerials
  <2> DEFINE t == Append(s, p)
  <2>4. /\ DOMAIN t = 1 .. Len(s) + 1 /\ t[Len(s) + 1] = p
        /\ \A n \in 1 .. Len(s) : t[n] = s[n]
    BY <1>1
  <2>5. /\ \A n \in DOMAIN s : s[n].serial <= serial_prev[e]
        /\ \A m, n \in DOMAIN s : m < n => s[m].serial < s[n].serial
    BY DEF Increasing
  <2> HIDE DEF t, p, s
  <2>6. \A n \in DOMAIN t : n = Len(s) + 1 \/ n \in DOMAIN s
    BY <2>3, <2>4
  <2>7. \A n \in DOMAIN s : t[n].serial < p.serial
    BY <1>1, <2>2, <2>3, <2>4, <2>5
  <2>8. \A n \in DOMAIN t : t[n].serial <= p.serial
    BY <1>1, <2>3, <2>4, <2>6, <2>7
  <2>9. ASSUME NEW m \in DOMAIN t, NEW n \in DOMAIN t, m < n
        PROVE  t[m].serial < t[n].serial
    <3>1. m \in DOMAIN s
      BY <2>3, <2>4, <2>9
    <3>2. CASE n = Len(s) + 1
      BY <2>4, <2>7, <3>1, <3>2
    <3>3. CASE n \in DOMAIN s
      BY <2>3, <2>4, <2>5, <2>9, <3>1, <3>3
    <3> QED
      BY <2>6, <3>2, <3>3
  <2>10. delivered'[e] = t
    BY <2>1 DEF t
  <2>11. inc'[e] = 0 /\ serial_prev'[e] <= ubuf'[e].serial
    BY <1>1, <1>2, <2>1 DEF Increasing
  <2> QED
    BY <2>1, <2>8, <2>9, <2>10, <2>11 DEF Increasing
<1> QED
  BY <1>3, <1>4

LEMMA IncreaseStep ==
  ASSUME OrderedPath, MaxFaults["restart"] = 0, PathInv, IncreaseInv, [Next]_vars
  PROVE  IncreaseInv'
<1> USE DEF PathInv
<1> SUFFICES ASSUME NEW e \in Endpoint PROVE Increasing(e)'
  BY DEF IncreaseInv
<1>0. Increasing(e)
  BY DEF IncreaseInv
<1>1. ASSUME ubuf'[e] = ubuf[e], serial_prev'[e] = serial_prev[e],
             delivered'[e] = delivered[e], inc'[e] = inc[e]
      PROVE  Increasing(e)'
  BY <1>0, <1>1 DEF Increasing
<1>2. ASSUME NEW g \in Endpoint, RcvFrom(g) PROVE Increasing(e)'
  <2>0. PICK k \in Socket(g) : \E d \in Datagram : d \in FromPartner[g] /\ Took(g, k, d)
    BY <1>2, RcvFromEffect
  <2>1. PICK d \in Datagram : d \in FromPartner[g] /\ Took(g, k, d)
    BY <2>0
  <2>2. CASE g # e
    BY <1>1, <2>1, <2>2 DEF Took
  <2>3. CASE g = e
    <3>1. ubuf'[e] = d
      BY <2>1, <2>3, TookOnPath
    <3>2. inbox[e][k] \in Seq(Datagram) /\ d = Head(inbox[e][k]) /\ inbox[e][k] # <<>>
      BY <2>1, <2>3 DEF Took, TypeOK
    <3>3. 1 \in DOMAIN inbox[e][k] /\ d = inbox[e][k][1]
      BY <3>2
    <3>4. ubuf[e].serial <= d.serial
      BY <2>3, <3>3, FirstIncarnation
    <3>5. ubuf[e].serial \in Nat /\ serial_prev[e] \in Nat /\ d.serial \in Nat
      BY DEF TypeOK, Datagram
    <3>6. serial_prev' = serial_prev /\ delivered' = delivered /\ inc' = inc
      BY <2>1 DEF Took
    <3> QED
      BY <1>0, <3>1, <3>4, <3>5, <3>6 DEF Increasing
  <2> QED
    BY <2>2, <2>3
<1>3. ASSUME NEW g \in Endpoint, Filter(g) PROVE Increasing(e)'
  <2>1. CASE g = e
    BY <1>0, <1>3, <2>1, IncreaseFilter
  <2>2. CASE g # e
    <3>1. ubuf' = ubuf /\ inc' = inc
      BY <1>3, <2>2 DEF Filter, TypeOK
    <3>2. serial_prev'[e] = serial_prev[e] /\ delivered'[e] = delivered[e]
      BY <1>3, <2>2 DEF Filter, Accept, TypeOK
    <3> QED
      BY <1>1, <3>1, <3>2
  <2> QED
    BY <2>1, <2>2
<1>4. ASSUME NEW g \in Endpoint, Restart(g) PROVE FALSE
  <2>1. faults["restart"] \in Nat /\ faults["restart"] < MaxFaults["restart"]
    BY <1>4 DEF Restart, Spend, TypeOK, Fault
  <2> QED
    BY <2>1
<1>5. ASSUME NEW g \in Endpoint, Send(g) PROVE Increasing(e)'
  <2>1. UNCHANGED <<ubuf, serial_prev, delivered, inc>>
    BY <1>5 DEF Send, SendBegin, SendCopy, SendEnd, receiver, history
  <2> QED
    BY <1>1, <2>1
<1>6. ASSUME NEW g \in Endpoint, RcvPoll(g) \/ RcvFail(g) \/ CopyAddr(g) PROVE Increasing(e)'
  BY <1>1, <1>6 DEF RcvPoll, RcvFail, CopyAddr, history
<1>7. ASSUME Network PROVE Increasing(e)'
  BY <1>1, <1>7 DEF Network, Duplicate, Stray, receiver, history
<1>8. CASE UNCHANGED vars
  BY <1>1, <1>8 DEF vars, receiver, history
<1> QED
  BY <1>2, <1>3, <1>4, <1>5, <1>6, <1>7, <1>8 DEF Next, Rcv

LEMMA IncreaseInvariant ==
  ASSUME OrderedPath, MaxFaults["restart"] = 0
  PROVE  Spec => [](PathInv /\ IncreaseInv)
<1>1. Init => IncreaseInv
  BY DEF Init, IncreaseInv, Increasing, ZeroBuf
<1>2. PathInv /\ IncreaseInv /\ [Next]_vars => IncreaseInv'
  BY IncreaseStep
<1> QED
  BY <1>1, <1>2, PathInvariant, PTL DEF Spec

\* On an ordered path whose ends are not restarted, the tunnel gets each packet at
\* most once and in the order the peer sent them.
THEOREM DeliveredInOrder ==
  ASSUME OrderedPath, MaxFaults["restart"] = 0
  PROVE  Spec => []InOrderOnce
<1>1. IncreaseInv => InOrderOnce
  BY DEF IncreaseInv, Increasing, InOrderOnce
<1> QED
  BY <1>1, IncreaseInvariant, PTL

\* The packets that came out, by serial.
Out == [n \in DOMAIN delivered[b] |-> delivered[b][n].serial]

LEMMA OutType ==
  ASSUME TypeOK, b \in Endpoint
  PROVE  Out \in Seq(Nat) /\ Len(Out) = Len(delivered[b])
         /\ \A n \in 1 .. Len(delivered[b]) : Out[n] = delivered[b][n].serial
<1>1. delivered[b] \in Seq(PacketId)
  BY DEF TypeOK
<1>2. /\ DOMAIN delivered[b] = 1 .. Len(delivered[b]) /\ Len(delivered[b]) \in Nat
      /\ \A n \in 1 .. Len(delivered[b]) : delivered[b][n].serial \in Nat
  BY <1>1, PacketSerials
<1>3. Out \in [1 .. Len(delivered[b]) -> Nat]
  BY <1>2 DEF Out
<1> QED
  BY <1>2, <1>3 DEF Out

\* Taking a packet out of the buffer of b hands over the next number of Link.
LEMMA LinkDeliver ==
  ASSUME OrderedPath, PathInv, IncreaseInv, TypeOK', a \in Endpoint, b = Partner[a], Filter(b)
  PROVE  Out' = Out \/ Link!Deliver
<1> USE DEF PathInv
<1>0. b \in Endpoint /\ Partner[b] = a
  BY DEF OrderedPath
<1>1. CASE Redundant(b)
  BY <1>1 DEF Filter, Out
<1>2. CASE ~Redundant(b)
  <2> DEFINE p == Packet(ubuf[b])
             s == delivered[b]
  <2>1. /\ ubuf[b].serial \in Nat /\ p.serial = ubuf[b].serial /\ p \in PacketId
        /\ serial_prev[b] \in Nat /\ s \in Seq(PacketId)
    BY <1>0, ValueTypes DEF TypeOK, Packet, Datagram
  <2>2. delivered'[b] = Append(s, p) /\ serial' = serial
    BY <1>0, <1>2, SMTT(30) DEF Filter, Accept, TypeOK, sender
  <2>3. p.serial \in 0 .. serial[a]
    <3>1. ubuf[b].serial <= serial[a] /\ serial[a] \in Nat
      BY <1>0, FirstIncarnation DEF TypeOK
    <3> QED
      BY <2>1, <3>1
  <2>4. serial_prev[b] < p.serial
    BY <1>0, <1>2, <2>1 DEF IncreaseInv, Increasing, Redundant
  <2>5. Out \in Seq(Nat) /\ Len(Out) = Len(s) /\ \A n \in 1 .. Len(s) : Out[n] = s[n].serial
    BY <1>0, OutType
  <2>6. /\ Out' \in Seq(Nat) /\ Len(Out') = Len(delivered'[b])
        /\ \A n \in 1 .. Len(delivered'[b]) : Out'[n] = delivered'[b][n].serial
    <3>1. delivered'[b] \in Seq(PacketId)
      BY <1>0 DEF TypeOK
    <3>2. /\ DOMAIN delivered'[b] = 1 .. Len(delivered'[b]) /\ Len(delivered'[b]) \in Nat
          /\ \A n \in 1 .. Len(delivered'[b]) : delivered'[b][n].serial \in Nat
      BY <3>1, PacketSerials
    <3>3. Out' \in [1 .. Len(delivered'[b]) -> Nat]
      BY <3>2 DEF Out
    <3> QED
      BY <3>2, <3>3 DEF Out
  <2>7. \A n \in DOMAIN Out : Out[n] < p.serial
    <3>1. \A n \in DOMAIN s : s[n].serial <= serial_prev[b]
      BY <1>0 DEF IncreaseInv, Increasing
    <3>2. DOMAIN s = 1 .. Len(s) /\ DOMAIN Out = 1 .. Len(s)
      BY <2>1, <2>5
    <3>3. \A n \in 1 .. Len(s) : s[n].serial \in Nat
      BY <2>1, PacketSerials
    <3> HIDE DEF s, p
    <3> QED
      BY <2>1, <2>4, <2>5, <3>1, <3>2, <3>3
  <2>8. Out' = Append(Out, p.serial)
    <3> DEFINE t == Append(s, p)
               u == Append(Out, p.serial)
    <3>1. /\ Len(t) = Len(s) + 1 /\ t[Len(s) + 1] = p /\ Len(s) \in Nat
          /\ \A n \in 1 .. Len(s) : t[n] = s[n]
      BY <2>1
    <3>2. p.serial \in Nat
      BY <2>1
    <3>3. /\ u \in Seq(Nat) /\ Len(u) = Len(Out) + 1 /\ u[Len(Out) + 1] = p.serial
          /\ \A n \in 1 .. Len(Out) : u[n] = Out[n]
      BY <2>5, <3>2
    <3>4. delivered'[b] = t
      BY <2>2
    <3> HIDE DEF t, u, s, p
    <3>5. Len(Out') = Len(u)
      BY <2>5, <2>6, <3>1, <3>3, <3>4
    <3>6. ASSUME NEW n \in 1 .. Len(Out') PROVE Out'[n] = u[n]
      <4>1. n \in 1 .. Len(t) /\ Out'[n] = t[n].serial
        BY <2>6, <3>4
      <4>2. CASE n = Len(s) + 1
        BY <2>5, <3>1, <3>3, <4>1, <4>2
      <4>3. CASE n \in 1 .. Len(s)
        BY <2>5, <3>1, <3>3, <4>1, <4>3
      <4> QED
        BY <3>1, <4>1, <4>2, <4>3
    <3> QED
      BY <2>6, <3>3, <3>5, <3>6, SeqEqual DEF u
  <2> HIDE DEF p, s
  <2> QED
    BY <2>2, <2>3, <2>7, <2>8 DEF Link!Deliver, Out
<1> QED
  BY <1>1, <1>2

LEMMA LinkStep ==
  ASSUME OrderedPath, MaxFaults["restart"] = 0, PathInv, IncreaseInv, TypeOK',
         a \in Endpoint, b = Partner[a], [Next]_vars
  PROVE  Link!Next \/ UNCHANGED <<serial[a], Out>>
<1> USE DEF PathInv
<1>0. b \in Endpoint
  BY DEF OrderedPath
<1>1. ASSUME NEW e \in Endpoint, SendBegin(e) \/ SendCopy(e)
      PROVE  UNCHANGED <<serial[a], Out>>
  BY <1>1 DEF SendBegin, SendCopy, history, Out
<1>2. ASSUME NEW e \in Endpoint, SendEnd(e)
      PROVE  Link!Accept \/ UNCHANGED <<serial[a], Out>>
  <2>1. Out' = Out
    BY <1>2 DEF SendEnd, history, Out
  <2>2. serial'[a] = IF a = e THEN serial[a] + 1 ELSE serial[a]
    BY <1>2 DEF SendEnd, TypeOK
  <2> QED
    BY <2>1, <2>2 DEF Link!Accept, Out
<1>3. ASSUME NEW e \in Endpoint, RcvPoll(e) \/ RcvFrom(e) \/ RcvFail(e) \/ CopyAddr(e)
      PROVE  UNCHANGED <<serial[a], Out>>
  BY <1>3 DEF RcvPoll, RcvFrom, RcvFail, CopyAddr, sender, history, Out
<1>4. ASSUME NEW e \in Endpoint, Filter(e)
      PROVE  Link!Deliver \/ UNCHANGED <<serial[a], Out>>
  <2>1. serial' = serial
    BY <1>4 DEF Filter, sender
  <2>2. CASE e = b
    BY <1>4, <2>1, <2>2, LinkDeliver
  <2>3. CASE e # b
    <3>1. delivered'[b] = delivered[b]
      <4>1. \/ delivered' = delivered
            \/ delivered' = [delivered EXCEPT ![e] = Append(delivered[e], Packet(ubuf[e]))]
        BY <1>4 DEF Filter, Accept
      <4>2. DOMAIN delivered = Endpoint
        BY DEF TypeOK
      <4> QED
        BY <1>0, <2>3, <4>1, <4>2
    <3> QED
      BY <2>1, <3>1 DEF Out
  <2> QED
    BY <2>2, <2>3
<1>5. ASSUME NEW e \in Endpoint, Restart(e) PROVE FALSE
  <2>1. faults["restart"] \in Nat /\ faults["restart"] < MaxFaults["restart"]
    BY <1>5 DEF Restart, Spend, TypeOK, Fault
  <2> QED
    BY <2>1
<1>6. ASSUME Network PROVE UNCHANGED <<serial[a], Out>>
  BY <1>6 DEF Network, Duplicate, Stray, sender, history, Out
<1>7. CASE UNCHANGED vars
  BY <1>7 DEF vars, sender, history, Out
<1> QED
  BY <1>1, <1>2, <1>3, <1>4, <1>5, <1>6, <1>7 DEF Next, Send, Rcv, Link!Next

\* On an ordered path whose ends are not restarted, the carrier implements
\* OrderedDelivery: what comes out at b is an increasing selection of the packets
\* accepted at a, none of them twice.
THEOREM LinkImplemented ==
  ASSUME OrderedPath, MaxFaults["restart"] = 0, a \in Endpoint, b = Partner[a]
  PROVE  Spec => ImplementsOrderedDelivery
<1>0. b \in Endpoint
  BY DEF OrderedPath
<1>1. Init => Link!Init
  BY <1>0 DEF Init, Link!Init
<1>2. PathInv /\ IncreaseInv /\ (PathInv /\ IncreaseInv)' /\ [Next]_vars => [Link!Next]_(Link!vars)
  <2> SUFFICES ASSUME PathInv, IncreaseInv, PathInv', [Next]_vars
               PROVE  Link!Next \/ UNCHANGED <<serial[a], Out>>
    BY DEF Link!vars, Out
  <2>1. TypeOK'
    BY DEF PathInv
  <2> QED
    BY <2>1, LinkStep
<1> QED
  BY <1>1, <1>2, IncreaseInvariant, PTL DEF Spec, ImplementsOrderedDelivery, Link!Spec
=============================================================================

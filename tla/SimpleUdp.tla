----------------------------- MODULE SimpleUdp -----------------------------
(***************************************************************************)
(* The simple_udp carrier (carrier/simple_udp/simple_udp.c): endpoints that *)
(* exchange numbered datagrams over UDP, each packet sent dup_level times.  *)
(*                                                                         *)
(* An endpoint runs two threads over one context_st:                       *)
(*   - the tun reader, inside mod_send_packet (variables spc, copy,        *)
(*     socket_id, serial);                                                 *)
(*   - thr_rcv (variables rpc, pfd, ubuf, from_addr, from_addr_len,        *)
(*     memcpy, serial_prev).                                               *)
(* They share peer_addr and peer_addr_len without a lock, so the memcpy    *)
(* into peer_addr is several steps here and sendto may read in between.    *)
(*                                                                         *)
(* A packet's payload is abstracted to its identity: the process that sent *)
(* it (host, incarnation) and its serial.  An address is a host and a      *)
(* port; a port is the index of the socket bound to it.                    *)
(***************************************************************************)
EXTENDS Integers, Sequences, FiniteSets

CONSTANTS
  Endpoint,   \* the hosts that run brutun
  Junk,       \* the host part of an address nobody wrote (indeterminate bytes)
  Stranger,   \* a host that runs something else
  NrSockets,  \* nr_sockets of each endpoint
  DupLevel,   \* dup_level of each endpoint
  Remote,     \* RemoteAddress/RemotePort of each endpoint, NoAddr when passive
  MaxSerial,  \* bound: packets an incarnation of each endpoint sends
  InOrder,    \* whether the network keeps the order of datagrams
  MaxFaults   \* bound: how often each kind of fault happens

\* The kinds of fault: a datagram lost on the way or refused by sendto, a
\* datagram duplicated by the network, sendto interrupted, recvfrom failing, a
\* datagram of some other program, an endpoint restarted.
Fault == {"lose", "dup", "eintr", "rcvfail", "stray", "restart"}

NoPort == -1
Port == Int
Address == [host : Endpoint \cup {Junk, Stranger}, port : Port]

\* sockaddr_storage as malloc left it.
NoAddr == [host |-> Junk, port |-> NoPort]

ASSUME ConstantsAssumption ==
  /\ Junk \notin Endpoint /\ Stranger \notin Endpoint /\ Junk # Stranger
  /\ NrSockets \in [Endpoint -> Nat \ {0}]
  /\ DupLevel \in [Endpoint -> Int]
  /\ Remote \in [Endpoint -> Address]
  /\ MaxSerial \in [Endpoint -> Nat]
  /\ InOrder \in BOOLEAN
  /\ MaxFaults \in [Fault -> Nat]

\* The code byte of a datagram; "EMPTY" stands for a datagram of length 0 and
\* "SHORT" for one that ends before the code byte.
Code == {"CODE_DATA", "CODE_PING", "EMPTY", "SHORT"}

Datagram == [src : Address, code : Code, inc : Nat, serial : Nat]

\* Address lengths: unset, sizeof(struct sockaddr_in), sizeof(struct sockaddr_in6).
IN4 == 16
IN6 == 28

VARIABLES
  peer_addr, peer_addr_len,           \* context_st, shared by the two threads
  spc, copy, socket_id, serial,       \* mod_send_packet and its statics
  rpc, pfd, ubuf, from_addr, from_addr_len, memcpy, serial_prev,  \* thr_rcv
  inbox,       \* datagrams on their way to, or queued at, each socket
  inc,         \* how often each endpoint was restarted
  faults,      \* faults so far, by kind
  delivered,   \* history: the packets handed to on_recv, in order
  received,    \* history: the packets that reached the duplicate filter
  got          \* history: data datagrams taken from the sockets, up to 2

shared == <<peer_addr, peer_addr_len>>
sender == <<spc, copy, socket_id, serial>>
receiver == <<rpc, pfd, ubuf, from_addr, from_addr_len, memcpy, serial_prev>>
history == <<delivered, received, got>>
vars == <<shared, sender, receiver, history, inbox, inc, faults>>

Socket(e) == 0 .. NrSockets[e] - 1

\* The identity of the packet a datagram carries.
PacketId == [host : Endpoint \cup {Junk, Stranger}, inc : Nat, serial : Nat]
Packet(d) == [host |-> d.src.host, inc |-> d.inc, serial |-> d.serial]

\* A pthread's stack is fresh zero pages: CODE_DATA is 0 and the serial is 0.
ZeroBuf == [src |-> NoAddr, code |-> "CODE_DATA", inc |-> 0, serial |-> 0]

Init ==
  /\ peer_addr = Remote
  /\ peer_addr_len = [e \in Endpoint |-> IF Remote[e] = NoAddr THEN 0 ELSE IN6]
  /\ spc = [e \in Endpoint |-> "idle"]
  /\ copy = [e \in Endpoint |-> 0]
  /\ socket_id = [e \in Endpoint |-> 0]
  /\ serial = [e \in Endpoint |-> 0]
  /\ rpc = [e \in Endpoint |-> "scan"]
  /\ pfd = [e \in Endpoint |-> {}]
  /\ ubuf = [e \in Endpoint |-> ZeroBuf]
  /\ from_addr = [e \in Endpoint |-> NoAddr]
  /\ from_addr_len = [e \in Endpoint |-> IN4]
  /\ memcpy = [e \in Endpoint |-> {}]
  /\ serial_prev = [e \in Endpoint |-> 0]
  /\ inbox = [e \in Endpoint |-> [k \in Socket(e) |-> <<>>]]
  /\ inc = [e \in Endpoint |-> 0]
  /\ faults = [f \in Fault |-> 0]
  /\ delivered = [e \in Endpoint |-> <<>>]
  /\ received = [e \in Endpoint |-> {}]
  /\ got = [e \in Endpoint |-> 0]

-----------------------------------------------------------------------------
(***************************************************************************)
(* The network (external).                                                 *)
(***************************************************************************)

Spend(f) ==
  /\ faults[f] < MaxFaults[f]
  /\ faults' = [faults EXCEPT ![f] = @ + 1]

\* The queues a queue becomes when d arrives: d comes last, or anywhere when
\* the network reorders.
Overtaken(q) == IF InOrder THEN {Len(q)} ELSE 0 .. Len(q)
Arrivals(q, d) ==
  {SubSeq(q, 1, n) \o <<d>> \o SubSeq(q, n + 1, Len(q)) : n \in Overtaken(q)}

\* Whether some socket is bound to address a.
Bound(a) == a.host \in Endpoint /\ a.port \in Socket(a.host)

\* d reaches the socket at address a, or disappears when there is none.
Arrive(a, d) ==
  IF Bound(a)
    THEN \E q \in Arrivals(inbox[a.host][a.port], d) :
           inbox' = [inbox EXCEPT ![a.host][a.port] = q]
    ELSE UNCHANGED inbox

\* The network delivers a copy of a datagram that is under way.
Duplicate(e, k) ==
  /\ Spend("dup")
  /\ \E n \in DOMAIN inbox[e][k] : Arrive([host |-> e, port |-> k], inbox[e][k][n])
  /\ UNCHANGED <<shared, sender, receiver, history, inc>>

\* A datagram of another program arrives, of any kind.
Stray(e, k) ==
  /\ Spend("stray")
  /\ \E c \in Code :
       Arrive([host |-> e, port |-> k],
              [src |-> [host |-> Stranger, port |-> 0], code |-> c,
               inc |-> 0, serial |-> 1])
  /\ UNCHANGED <<shared, sender, receiver, history, inc>>

-----------------------------------------------------------------------------
(***************************************************************************)
(* mod_send_packet, run by the tun reader.                                 *)
(***************************************************************************)

\* A packet is taken in.  With peer_addr_len 0 (or a packet over 65535 bytes)
\* the call returns -1 and changes nothing.
SendBegin(e) ==
  /\ spc[e] = "idle"
  /\ serial[e] < MaxSerial[e]
  /\ peer_addr_len[e] # 0
  /\ spc' = [spc EXCEPT ![e] = "sending"]
  /\ copy' = [copy EXCEPT ![e] = 0]
  /\ UNCHANGED <<shared, socket_id, serial, receiver, history, inbox, inc, faults>>

Outgoing(e) ==
  [src |-> [host |-> e, port |-> socket_id[e]], code |-> "CODE_DATA",
   inc |-> inc[e], serial |-> serial[e]]

NextSocketMut(e) == (socket_id[e] + 1) % (NrSockets[e] + 1)
NextSocket(e) == (socket_id[e] + 1) % NrSockets[e]

\* The condition of the dup_level loop.
CopiesLeftMut(e) == copy[e] < DupLevel[e] - 1
CopiesLeft(e) == copy[e] < DupLevel[e]

\* One iteration of the dup_level loop: the datagram is sent; it is lost or
\* sendto fails; or sendto is interrupted, which uses the iteration up but
\* leaves socket_id alone.
SendCopy(e) ==
  /\ spc[e] = "sending"
  /\ CopiesLeft(e)
  /\ copy' = [copy EXCEPT ![e] = @ + 1]
  /\ \/ /\ Arrive(peer_addr[e], Outgoing(e))
        /\ socket_id' = [socket_id EXCEPT ![e] = NextSocket(e)]
        /\ UNCHANGED faults
     \/ /\ Spend("lose")
        /\ socket_id' = [socket_id EXCEPT ![e] = NextSocket(e)]
        /\ UNCHANGED inbox
     \/ /\ Spend("eintr")
        /\ UNCHANGED <<inbox, socket_id>>
  /\ UNCHANGED <<shared, spc, serial, receiver, history, inc>>

SendEnd(e) ==
  /\ spc[e] = "sending"
  /\ ~CopiesLeft(e)
  /\ spc' = [spc EXCEPT ![e] = "idle"]
  /\ serial' = [serial EXCEPT ![e] = @ + 1]
  /\ UNCHANGED <<shared, copy, socket_id, receiver, history, inbox, inc, faults>>

-----------------------------------------------------------------------------
(***************************************************************************)
(* thr_rcv.                                                                *)
(***************************************************************************)

\* The sockets poll() flags with POLLIN.
ReadyMut(e) == Socket(e)
Ready(e) == {k \in Socket(e) : inbox[e][k] # <<>>}

\* poll() returns with some socket flagged; when it times out instead, the loop
\* starts over and nothing has changed.
RcvPoll(e) ==
  /\ rpc[e] = "scan"
  /\ pfd[e] = {}
  /\ Ready(e) # {}
  /\ pfd' = [pfd EXCEPT ![e] = Ready(e)]
  /\ UNCHANGED <<shared, sender, rpc, ubuf, from_addr, from_addr_len, memcpy,
                 serial_prev, history, inbox, inc, faults>>

\* The first socket flagged by poll() that the scan has not handled yet.
NextReady(e, k) == k \in pfd[e] /\ \A j \in pfd[e] : k <= j

\* from_addr has room for a sockaddr_in only and the sockets are AF_INET6: while
\* from_addr_len is still sizeof(from_addr) the kernel cuts the address short,
\* family and port arrive and the host part is whatever follows in memory.
TruncatedMut(e) == TRUE
Truncated(e) == from_addr_len[e] = IN4
SourceHosts(e, d) == IF Truncated(e) THEN {d.src.host, Junk} ELSE {d.src.host}

\* Once from_addr_len is 28 the kernel writes past from_addr.  Where the buffer
\* follows it, as gcc -O3 lays the frame out, the scope id (0) lands on the code
\* byte, making it CODE_DATA; with another layout the buffer is as received.  A
\* datagram that ends before the code leaves the one before it in the buffer.
Filled(e, d) ==
  LET kept == IF d.code \in {"EMPTY", "SHORT"} THEN ubuf[e] ELSE d
  IN  IF Truncated(e) THEN {kept} ELSE {kept, [kept EXCEPT !.code = "CODE_DATA"]}

\* The halves of the address that memcpy writes, in any order: the port lies in
\* the first 16 bytes, the host part mostly beyond them.
AddrHalvesMut(len) == IF len = IN6 THEN {"host"} ELSE {}
AddrHalves(len) == IF len = IN6 THEN {"host", "port"} ELSE {"port"}

\* recvfrom() on the next flagged socket, and the tests up to the memcpy.
RcvFrom(e) ==
  /\ rpc[e] = "scan"
  /\ \E k \in pfd[e] :
       /\ NextReady(e, k)
       /\ pfd' = [pfd EXCEPT ![e] = @ \ {k}]
       /\ inbox' = [inbox EXCEPT ![e][k] = Tail(@)]
       /\ LET d == Head(inbox[e][k])
          IN  /\ \E h \in SourceHosts(e, d) :
                   from_addr' = [from_addr EXCEPT ![e] = [host |-> h, port |-> d.src.port]]
              /\ from_addr_len' = [from_addr_len EXCEPT ![e] = IN6]
              /\ \E u \in Filled(e, d) :
                   /\ ubuf' = [ubuf EXCEPT ![e] = u]
                   /\ IF d.code = "EMPTY" \/ u.code # "CODE_DATA"
                        THEN UNCHANGED <<rpc, memcpy, got>>
                        ELSE /\ rpc' = [rpc EXCEPT ![e] = "copy"]
                             /\ memcpy' = [memcpy EXCEPT ![e] = AddrHalves(IN6)]
                             /\ got' = [got EXCEPT ![e] = IF @ < 2 THEN @ + 1 ELSE @]
  /\ UNCHANGED <<shared, sender, serial_prev, delivered, received, inc, faults>>

\* recvfrom() fails: only a length of 0 is tested for, so the buffer and the
\* address of the previous datagram are processed again.
RcvFail(e) ==
  /\ Spend("rcvfail")
  /\ rpc[e] = "scan"
  /\ \E k \in pfd[e] : NextReady(e, k) /\ pfd' = [pfd EXCEPT ![e] = @ \ {k}]
  /\ IF ubuf[e].code # "CODE_DATA"
       THEN UNCHANGED <<rpc, memcpy>>
       ELSE /\ rpc' = [rpc EXCEPT ![e] = "copy"]
            /\ memcpy' = [memcpy EXCEPT ![e] = AddrHalves(from_addr_len[e])]
  /\ UNCHANGED <<shared, sender, ubuf, from_addr, from_addr_len, serial_prev,
                 history, inbox, inc>>

\* memcpy(ctx->peer_addr, &from_addr, from_addr_len) writes one half.
CopyAddr(e) ==
  /\ rpc[e] = "copy"
  /\ \E h \in memcpy[e] :
       /\ memcpy' = [memcpy EXCEPT ![e] = @ \ {h}]
       /\ peer_addr' = [peer_addr EXCEPT ![e][h] = from_addr[e][h]]
  /\ UNCHANGED <<peer_addr_len, sender, rpc, pfd, ubuf, from_addr, from_addr_len,
                 serial_prev, history, inbox, inc, faults>>

RedundantNever(e) == FALSE
RedundantOlder(e) == ubuf[e].serial <= serial_prev[e]
Redundant(e) == ubuf[e].serial = serial_prev[e]

\* The packet in the buffer is new: remember its serial, hand it to on_recv.
AcceptMut(e) ==
  /\ UNCHANGED serial_prev
  /\ delivered' = [delivered EXCEPT ![e] = Append(@, Packet(ubuf[e]))]
Accept(e) ==
  /\ serial_prev' = [serial_prev EXCEPT ![e] = ubuf[e].serial]
  /\ delivered' = [delivered EXCEPT ![e] = Append(@, Packet(ubuf[e]))]

\* The rest of the loop body: publish the address length, then drop the packet
\* as redundant or remember its serial and hand it to on_recv.
Filter(e) ==
  /\ rpc[e] = "copy"
  /\ memcpy[e] = {}
  /\ rpc' = [rpc EXCEPT ![e] = "scan"]
  /\ peer_addr_len' = [peer_addr_len EXCEPT ![e] = from_addr_len[e]]
  /\ received' = [received EXCEPT ![e] = @ \cup {Packet(ubuf[e])}]
  /\ IF Redundant(e)
       THEN UNCHANGED <<serial_prev, delivered>>
       ELSE Accept(e)
  /\ UNCHANGED <<peer_addr, sender, pfd, ubuf, from_addr, from_addr_len, memcpy,
                 got, inbox, inc, faults>>

-----------------------------------------------------------------------------
\* The process ends at any moment and is started again: mod_init sets the
\* context up as at first, and the datagrams its old sockets held are gone.
Restart(e) ==
  /\ Spend("restart")
  /\ inc' = [inc EXCEPT ![e] = @ + 1]
  /\ peer_addr' = [peer_addr EXCEPT ![e] = Remote[e]]
  /\ peer_addr_len' = [peer_addr_len EXCEPT ![e] = IF Remote[e] = NoAddr THEN 0 ELSE IN6]
  /\ spc' = [spc EXCEPT ![e] = "idle"]
  /\ copy' = [copy EXCEPT ![e] = 0]
  /\ socket_id' = [socket_id EXCEPT ![e] = 0]
  /\ serial' = [serial EXCEPT ![e] = 0]
  /\ rpc' = [rpc EXCEPT ![e] = "scan"]
  /\ pfd' = [pfd EXCEPT ![e] = {}]
  /\ ubuf' = [ubuf EXCEPT ![e] = ZeroBuf]
  /\ from_addr' = [from_addr EXCEPT ![e] = NoAddr]
  /\ from_addr_len' = [from_addr_len EXCEPT ![e] = IN4]
  /\ memcpy' = [memcpy EXCEPT ![e] = {}]
  /\ serial_prev' = [serial_prev EXCEPT ![e] = 0]
  /\ \E queued \in [Socket(e) -> UNION {0 .. Len(inbox[e][k]) : k \in Socket(e)}] :
       /\ \A k \in Socket(e) : queued[k] <= Len(inbox[e][k])
       /\ inbox' = [inbox EXCEPT ![e] = [k \in Socket(e) |->
                      SubSeq(inbox[e][k], queued[k] + 1, Len(inbox[e][k]))]]
  /\ delivered' = [delivered EXCEPT ![e] = <<>>]
  /\ received' = [received EXCEPT ![e] = {}]
  /\ got' = [got EXCEPT ![e] = 0]

Send(e) == SendBegin(e) \/ SendCopy(e) \/ SendEnd(e)
Rcv(e) == RcvPoll(e) \/ RcvFrom(e) \/ RcvFail(e) \/ CopyAddr(e) \/ Filter(e)
Network == \E e \in Endpoint : \E k \in Socket(e) : Duplicate(e, k) \/ Stray(e, k)

Next ==
  \/ \E e \in Endpoint : Send(e) \/ Rcv(e) \/ Restart(e)
  \/ Network

Spec == Init /\ [][Next]_vars

\* The threads are preemptively scheduled: an enabled step of thr_rcv, or of a
\* mod_send_packet under way, is eventually taken.  Whether the tun device has
\* another packet, and every fault, is left to the environment.
Fairness ==
  \A e \in Endpoint :
    /\ WF_vars(RcvPoll(e)) /\ WF_vars(RcvFrom(e))
    /\ WF_vars(CopyAddr(e)) /\ WF_vars(Filter(e))
    /\ WF_vars(SendCopy(e)) /\ WF_vars(SendEnd(e))

FairSpec == Spec /\ Fairness

-----------------------------------------------------------------------------
(***************************************************************************)
(* Properties.                                                             *)
(***************************************************************************)

\* The type of every variable.
TypeOK ==
  /\ peer_addr \in [Endpoint -> Address]
  /\ peer_addr_len \in [Endpoint -> {0, IN4, IN6}]
  /\ spc \in [Endpoint -> {"idle", "sending"}]
  /\ copy \in [Endpoint -> Nat]
  /\ socket_id \in [Endpoint -> Nat]
  /\ \A e \in Endpoint : socket_id[e] \in Socket(e)
  /\ serial \in [Endpoint -> Nat]
  /\ rpc \in [Endpoint -> {"scan", "copy"}]
  /\ pfd \in [Endpoint -> SUBSET Nat]
  /\ \A e \in Endpoint : pfd[e] \subseteq Socket(e)
  /\ ubuf \in [Endpoint -> Datagram]
  /\ from_addr \in [Endpoint -> Address]
  /\ from_addr_len \in [Endpoint -> {IN4, IN6}]
  /\ memcpy \in [Endpoint -> SUBSET {"host", "port"}]
  /\ serial_prev \in [Endpoint -> Nat]
  /\ DOMAIN inbox = Endpoint
  /\ \A e \in Endpoint : inbox[e] \in [Socket(e) -> Seq(Datagram)]
  /\ inc \in [Endpoint -> Nat]
  /\ faults \in [Fault -> Nat]
  /\ delivered \in [Endpoint -> Seq(PacketId)]
  /\ received \in [Endpoint -> SUBSET PacketId]
  /\ got \in [Endpoint -> 0 .. 2]

\* A socket that poll() flagged still has a datagram when thr_rcv gets to it, so
\* recvfrom on the blocking socket returns and the scan never stalls.
RecvNeverBlocks ==
  \A e \in Endpoint : \A k \in pfd[e] : inbox[e][k] # <<>>

\* Whatever the network loses, repeats or reorders, the tunnel never gets the
\* same serial twice in a row: the filter of thr_rcv holds against copies that
\* arrive next to each other, on whichever sockets.
NoAdjacentDuplicate ==
  \A e \in Endpoint : \A n \in 2 .. Len(delivered[e]) :
    delivered[e][n].serial # delivered[e][n - 1].serial

\* No other packet that reached e since it started has the serial of p.
SerialOfItsOwn(e, p) == \A q \in received[e] : q.serial = p.serial => q = p

\* The filter of thr_rcv loses a packet only to a namesake: whatever the network
\* does, a packet that reached it since the endpoint started has been handed to
\* the tunnel, unless its serial is 0 or a datagram of another program or of
\* another incarnation came with the same serial and took its place.
LostOnlyToNamesake ==
  \A e \in Endpoint : \A p \in received[e] :
    p.serial # 0 /\ SerialOfItsOwn(e, p) => \E n \in DOMAIN delivered[e] : delivered[e][n] = p

\* What the filter remembers is the serial of the last packet it let through, on
\* which the two properties above rest.
SerialPrevIsLast ==
  \A e \in Endpoint :
    serial_prev[e] = IF delivered[e] = <<>> THEN 0
                     ELSE delivered[e][Len(delivered[e])].serial

\* The reader thread never sends to an address of which only the length is
\* there: thr_rcv writes the port before it publishes the length, without a
\* lock (as long as recvfrom does not fail before the first datagram).
PublishedIsWritten ==
  \A e \in Endpoint : peer_addr_len[e] = IN6 => peer_addr[e].port # NoPort

\* The address learnt from the first data datagram may be cut short (from_addr
\* is too small), but the second one repairs it, whatever came in between.
JunkHeals ==
  \A e \in Endpoint : got[e] = 2 /\ rpc[e] = "scan" => peer_addr[e].host # Junk

\* Between two datagrams the buffer of thr_rcv never holds a data packet the
\* filter would let through, so a recvfrom that fails (its result is only
\* compared with 0) hands nothing to the tunnel a second time.  It rests on the
\* peer being the only one that sends to the socket.
BufferIsLastAccepted ==
  \A e \in Endpoint :
    rpc[e] = "scan" /\ ubuf[e].code = "CODE_DATA" => ubuf[e].serial = serial_prev[e]

\* On a path that keeps the order, into a single socket, the tunnel gets each
\* packet at most once and in the order the peer sent them.
InOrderOnce ==
  \A e \in Endpoint : \A m, n \in DOMAIN delivered[e] :
    m < n => delivered[e][m].serial < delivered[e][n].serial

\* On such a path a restart of the peer costs at most one packet in the filter:
\* of each incarnation of the peer, at most one packet that arrived was taken
\* for a copy of a packet that it is not.
OneFalseDropPerStart ==
  \A e, f \in Endpoint : \A k \in 0 .. inc[f] :
    Cardinality({p \in received[e] : /\ p.host = f
                                     /\ p.inc = k
                                     /\ \A n \in DOMAIN delivered[e] : delivered[e][n] # p}) <= 1

\* With fewer faults than copies, every packet but serial 0 that e has sent to a
\* peer that does not answer is eventually handed to the peer's tunnel: the
\* purpose of dup_level.
EveryPacketArrives ==
  \A e, f \in Endpoint : \A s \in 1 .. MaxSerial[e] :
    Remote[e].host = f /\ serial[e] > s
      ~> \E n \in DOMAIN delivered[f] : delivered[f][n].serial = s

-----------------------------------------------------------------------------
(***************************************************************************)
(* What the comments and the README say of the carrier and the code does   *)
(* not do.                                                                 *)
(***************************************************************************)

\* "Drop redundent packet": what the filter of thr_rcv discards is a copy of a
\* packet the tunnel already got.
OnlyRedundantDropped ==
  \A e \in Endpoint : \A p \in received[e] :
    \E n \in DOMAIN delivered[e] : delivered[e][n] = p

\* "Drop redundent packet": the tunnel gets no packet twice.
RedundantDropped ==
  \A e \in Endpoint : \A m, n \in DOMAIN delivered[e] :
    m # n => delivered[e][m] # delivered[e][n]
=============================================================================

------------------------- MODULE SimpleIcmp4Proofs -------------------------
(***************************************************************************)
(* Proofs about the simple_icmp4 carrier, for any hosts, magic words,      *)
(* copies and faults.                                                      *)
(***************************************************************************)
EXTENDS SimpleIcmp4, TLAPS

\* The serial that every packet carries, 0, comes out of the header as it went in.
LEMMA EchoOfZero == EchoOf(serial) = 0 /\ SerialOf(0) = 0
BY DEF EchoOf, serial, SerialOf, Half

LEMMA SerialType == \A n \in Nat : SerialOf(n) \in Nat
BY DEF SerialOf, Half

\* Every packet that is sent is a datagram.
LEMMA OutgoingType ==
  ASSUME IcmpAssumption, TypeOK, NEW e \in Endpoint
  PROVE  Outgoing(e) \in Datagram
<1>1. EchoOf(serial) \in Nat
  BY EchoOfZero
<1>2. Magic[e] \in STRING /\ e \in Host /\ sent[e] \in Nat
  BY DEF IcmpAssumption, TypeOK, Host
<1> QED
  BY <1>1, <1>2 DEF Outgoing, Datagram, Buf, Code

\* What recvfrom leaves in the buffer is a buffer.
LEMMA FilledType ==
  ASSUME TypeOK, NEW e \in Endpoint, NEW d \in Datagram
  PROVE  Filled(e, d) \in Buf
<1>1. ipbuf[e] \in Buf /\ d.buf \in Buf
  BY DEF TypeOK, Datagram
<1> QED
  BY <1>1 DEF Filled, Buf

\* What Process touches keeps its type.
LEMMA ProcessType ==
  ASSUME TypeOK, NEW e \in Endpoint, NEW b \in Buf, NEW h \in Host, Process(e, b, h)
  PROVE  /\ peer_addr' \in [Endpoint -> Host]
         /\ peer_addr_len' \in [Endpoint -> {0, 16}]
         /\ serial_prev' \in [Endpoint -> Nat]
         /\ delivered' \in [Endpoint -> Seq([host : Host, id : Nat])]
<1>1. CASE Foreign(e, b) \/ b.code # "CODE_DATA"
  BY <1>1 DEF Process, TypeOK
<1>2. CASE ~(Foreign(e, b) \/ b.code # "CODE_DATA")
  <2>1. SerialOf(b.echo) \in Nat
    BY SerialType DEF Buf
  <2>2. [host |-> b.host, id |-> b.id] \in [host : Host, id : Nat]
    BY DEF Buf
  <2>3. delivered[e] \in Seq([host : Host, id : Nat])
    BY DEF TypeOK
  <2>4. Append(delivered[e], [host |-> b.host, id |-> b.id]) \in Seq([host : Host, id : Nat])
    BY <2>2, <2>3
  <2> QED
    BY <1>2, <2>1, <2>4 DEF Process, TypeOK
<1> QED
  BY <1>1, <1>2

\* A fault counter stays a natural number, and never goes back.
LEMMA SpendType ==
  ASSUME TypeOK, NEW f \in Fault, Spend(f)
  PROVE  /\ faults' \in [Fault -> Nat]
         /\ \A g \in Fault : faults'[g] >= faults[g]
BY DEF TypeOK, Spend

\* The inboxes after a datagram has arrived at one of them.
LEMMA ArriveType ==
  ASSUME TypeOK, NEW e \in Endpoint, NEW d \in Datagram,
         inbox' = [inbox EXCEPT ![e] = Append(@, d)]
  PROVE  inbox' \in [Endpoint -> Seq(Datagram)]
<1>1. Append(inbox[e], d) \in Seq(Datagram)
  BY DEF TypeOK
<1> QED
  BY <1>1 DEF TypeOK

\* A stray datagram.
StrayDatagram(f) ==
  [src |-> Stranger, type |-> "ICMP_ECHO", short |-> f = "short", answered |-> FALSE,
   buf |-> [magic |-> NoMagic, code |-> "CODE_DATA", echo |-> 1,
            host |-> Stranger, id |-> 0]]

LEMMA StrayType ==
  ASSUME IcmpAssumption, NEW f
  PROVE  StrayDatagram(f) \in Datagram
<1>1. (f = "short") \in BOOLEAN
  OBVIOUS
<1>2. NoMagic \in STRING /\ Stranger \in Host
  BY DEF IcmpAssumption, Host
<1>3. [magic |-> NoMagic, code |-> "CODE_DATA", echo |-> 1, host |-> Stranger, id |-> 0] \in Buf
  BY <1>2 DEF Buf, Code
<1> QED
  BY <1>1, <1>2, <1>3 DEF StrayDatagram, Datagram

\* What the kernel's reply to the n-th datagram of an inbox leaves there, and what
\* it sends back.
Answered(e, n) == [inbox[e] EXCEPT ![n].answered = TRUE]
Reply(e, d) == [d EXCEPT !.src = e, !.type = "ICMP_ECHOREPLY"]

LEMMA AnsweredType ==
  ASSUME TypeOK, NEW e \in Endpoint, NEW n \in DOMAIN inbox[e]
  PROVE  /\ inbox[e][n] \in Datagram
         /\ Answered(e, n) \in Seq(Datagram)
         /\ DOMAIN Answered(e, n) = DOMAIN inbox[e]
         /\ \A m \in DOMAIN inbox[e] :
              /\ Answered(e, n)[m].src = inbox[e][m].src
              /\ Answered(e, n)[m].short = inbox[e][m].short
              /\ Answered(e, n)[m].buf = inbox[e][m].buf
         /\ Reply(e, inbox[e][n]) \in Datagram
         /\ Reply(e, inbox[e][n]).src = e
         /\ Reply(e, inbox[e][n]).short = inbox[e][n].short
         /\ Reply(e, inbox[e][n]).buf = inbox[e][n].buf
<1>1. inbox[e] \in Seq(Datagram)
  BY DEF TypeOK
<1>2. inbox[e][n] \in Datagram
  BY <1>1
<1>3. Answered(e, n) = [inbox[e] EXCEPT ![n] = [inbox[e][n] EXCEPT !.answered = TRUE]]
  BY DEF Answered
<1>4. [inbox[e][n] EXCEPT !.answered = TRUE] \in Datagram
  BY <1>2 DEF Datagram
<1>5. Answered(e, n) \in Seq(Datagram) /\ DOMAIN Answered(e, n) = DOMAIN inbox[e]
  BY <1>1, <1>3, <1>4
<1>6. \A m \in DOMAIN inbox[e] :
        Answered(e, n)[m] = IF m = n THEN [inbox[e][n] EXCEPT !.answered = TRUE] ELSE inbox[e][m]
  BY <1>3
<1>7. \A m \in DOMAIN inbox[e] :
        /\ Answered(e, n)[m].src = inbox[e][m].src
        /\ Answered(e, n)[m].short = inbox[e][m].short
        /\ Answered(e, n)[m].buf = inbox[e][m].buf
  BY <1>2, <1>6 DEF Datagram
<1>8. e \in Host
  BY DEF Host
<1>9. Reply(e, inbox[e][n]) \in Datagram
  BY <1>2, <1>8 DEF Reply, Datagram
<1>10. /\ Reply(e, inbox[e][n]).src = e
       /\ Reply(e, inbox[e][n]).short = inbox[e][n].short
       /\ Reply(e, inbox[e][n]).buf = inbox[e][n].buf
  BY <1>2 DEF Reply, Datagram
<1> QED
  BY <1>2, <1>5, <1>7, <1>9, <1>10

\* The type invariant holds at the start.
LEMMA InitType == ASSUME IcmpAssumption, Init PROVE TypeOK
<1>1. ZeroBuf \in Buf
  BY DEF IcmpAssumption, ZeroBuf, Buf, Code, Host
<1>2. Stranger \in Host
  BY DEF Host
<1>3. <<>> \in Seq(Datagram) /\ <<>> \in Seq([host : Host, id : Nat])
  OBVIOUS
<1> QED
  BY <1>1, <1>2, <1>3 DEF Init, TypeOK, IcmpAssumption

\* A step of the kernel's: its reply goes to the inbox of the host it answers.
LEMMA EchoReplyType ==
  ASSUME TypeOK, NEW e \in Endpoint, EchoReply(e)
  PROVE  inbox' \in [Endpoint -> Seq(Datagram)]
<1>1. PICK n \in DOMAIN inbox[e] :
        /\ inbox[e][n].src \in Endpoint
        /\ inbox' = [[inbox EXCEPT ![e] = Answered(e, n)] EXCEPT ![inbox[e][n].src] =
                       Append(@, Reply(e, inbox[e][n]))]
  BY DEF EchoReply, Answered, Reply
<1>2. [inbox EXCEPT ![e] = Answered(e, n)] \in [Endpoint -> Seq(Datagram)]
  BY AnsweredType DEF TypeOK
<1>3. Append([inbox EXCEPT ![e] = Answered(e, n)][inbox[e][n].src], Reply(e, inbox[e][n]))
        \in Seq(Datagram)
  BY <1>1, <1>2, AnsweredType
<1> QED
  BY <1>1, <1>2, <1>3

\* Every step keeps the types.
LEMMA StepType == ASSUME IcmpAssumption, TypeOK, Next PROVE TypeOK'
<1>1. PICK e \in Endpoint : \/ SendCopy(e) \/ SendEnd(e) \/ RcvFrom(e) \/ RcvFail(e)
                            \/ Stray(e) \/ EchoReply(e)
  BY DEF Next
<1>2. CASE SendCopy(e)
  <2>1. copy' \in [Endpoint -> Nat]
    <3>1. copy' = [copy EXCEPT ![e] = copy[e] + 1]
      BY <1>2 DEF SendCopy
    <3>2. copy \in [Endpoint -> Nat]
      BY DEF TypeOK
    <3> QED
      BY <3>1, <3>2
  <2>2. inbox' \in [Endpoint -> Seq(Datagram)] /\ faults' \in [Fault -> Nat]
    <3>1. CASE peer_addr[e] \in Endpoint /\ faults' = faults
               /\ inbox' = [inbox EXCEPT ![peer_addr[e]] = Append(@, Outgoing(e))]
      BY <3>1, OutgoingType, ArriveType DEF TypeOK
    <3>2. CASE UNCHANGED <<inbox, faults>>
      BY <3>2 DEF TypeOK
    <3>3. CASE Spend("lose") /\ inbox' = inbox
      BY <3>3, SpendType DEF TypeOK, Fault
    <3> QED
      BY <1>2, <3>1, <3>2, <3>3 DEF SendCopy
  <2> QED
    BY <1>2, <2>1, <2>2 DEF SendCopy, TypeOK
<1>3. CASE SendEnd(e)
  <2>1. copy' = [copy EXCEPT ![e] = 0] /\ sent' = [sent EXCEPT ![e] = sent[e] + 1]
    BY <1>3 DEF SendEnd
  <2>2. copy \in [Endpoint -> Nat] /\ sent \in [Endpoint -> Nat]
    BY DEF TypeOK
  <2>3. copy' \in [Endpoint -> Nat]
    BY <2>1, <2>2
  <2>4. sent' \in [Endpoint -> Nat]
    BY <2>1, <2>2
  <2> QED
    BY <1>3, <2>3, <2>4 DEF SendEnd, TypeOK
<1>4. CASE RcvFrom(e)
  <2>1. inbox[e] \in Seq(Datagram) /\ inbox[e] # <<>>
    BY <1>4 DEF RcvFrom, TypeOK
  <2>2. Head(inbox[e]) \in Datagram /\ Tail(inbox[e]) \in Seq(Datagram)
    BY <2>1
  <2>3. Head(inbox[e]).src \in Host /\ Filled(e, Head(inbox[e])) \in Buf
    BY <2>2, FilledType DEF Datagram
  <2>4. Process(e, Filled(e, Head(inbox[e])), Head(inbox[e]).src)
    BY <1>4 DEF RcvFrom
  <2>5. inbox' \in [Endpoint -> Seq(Datagram)] /\ ipbuf' \in [Endpoint -> Buf]
    BY <1>4, <2>2, <2>3 DEF RcvFrom, TypeOK
  <2>6. from_addr' \in [Endpoint -> Host]
    BY <1>4, <2>3 DEF RcvFrom, TypeOK
  <2> QED
    BY <1>4, <2>3, <2>4, <2>5, <2>6, ProcessType DEF RcvFrom, TypeOK
<1>5. CASE RcvFail(e)
  <2>1. ipbuf[e] \in Buf /\ from_addr[e] \in Host
    BY DEF TypeOK
  <2>2. Process(e, ipbuf[e], from_addr[e]) /\ Spend("rcvfail")
    BY <1>5 DEF RcvFail
  <2> QED
    BY <1>5, <2>1, <2>2, ProcessType, SpendType DEF RcvFail, TypeOK, Fault
<1>6. CASE Stray(e)
  <2>1. PICK f \in {"short", "stray"} :
          Spend(f) /\ inbox' = [inbox EXCEPT ![e] = Append(@, StrayDatagram(f))]
    BY <1>6 DEF Stray, StrayDatagram
  <2>2. inbox' \in [Endpoint -> Seq(Datagram)]
    BY <2>1, StrayType, ArriveType
  <2>3. faults' \in [Fault -> Nat]
    BY <2>1, SpendType DEF Fault
  <2> QED
    BY <1>6, <2>2, <2>3 DEF Stray, TypeOK
<1>7. CASE EchoReply(e)
  BY <1>7, EchoReplyType DEF EchoReply, TypeOK
<1> QED
  BY <1>1, <1>2, <1>3, <1>4, <1>5, <1>6, <1>7

\* Every variable keeps its type, whatever the network and other programs send.
THEOREM TypeCorrect == Spec => []TypeOK
<1>1. TypeOK /\ [Next]_vars => TypeOK'
  <2> SUFFICES ASSUME TypeOK, [Next]_vars PROVE TypeOK'
    OBVIOUS
  <2>1. CASE Next
    BY <2>1, StepType, IcmpAssumption
  <2>2. CASE UNCHANGED vars
    BY <2>2 DEF vars, TypeOK
  <2> QED
    BY <2>1, <2>2
<1> QED
  BY <1>1, InitType, IcmpAssumption, PTL DEF Spec

-----------------------------------------------------------------------------
\* What is known of a datagram as long as none was cut short: it is whole, and
\* one that does not belong to another program carries the serial 0 and comes
\* from an endpoint.
Harmless(d) ==
  /\ ~d.short
  /\ \/ d.buf.magic = NoMagic
     \/ d.buf.echo = 0 /\ d.src \in Endpoint

HarmlessQueue(q) == \A n \in DOMAIN q : Harmless(q[n])

\* The same of what an endpoint has received: nothing it took for its own was new
\* (so nothing reached the tunnel), and every address it kept is an endpoint's.
Unharmed(e) ==
  /\ HarmlessQueue(inbox[e])
  /\ \/ ipbuf[e].magic = NoMagic
     \/ ipbuf[e].echo = 0 /\ from_addr[e] \in Endpoint
  /\ serial_prev[e] = 0
  /\ delivered[e] = <<>>
  /\ peer_addr_len[e] # 0 => peer_addr[e] \in Endpoint

MagicInv == faults["short"] = 0 => \A e \in Endpoint : Unharmed(e)

\* A queue of harmless datagrams stays one when one more arrives, and when its
\* head is taken.
LEMMA AppendHarmless ==
  ASSUME NEW q \in Seq(Datagram), NEW d \in Datagram, HarmlessQueue(q), Harmless(d)
  PROVE  HarmlessQueue(Append(q, d))
<1>1. \A n \in DOMAIN Append(q, d) : Append(q, d)[n] = IF n = Len(q) + 1 THEN d ELSE q[n]
  OBVIOUS
<1>2. \A n \in DOMAIN Append(q, d) : n = Len(q) + 1 \/ n \in DOMAIN q
  OBVIOUS
<1> QED
  BY <1>1, <1>2 DEF HarmlessQueue

LEMMA TailHarmless ==
  ASSUME NEW q \in Seq(Datagram), q # <<>>, HarmlessQueue(q)
  PROVE  HarmlessQueue(Tail(q)) /\ Harmless(Head(q))
<1>1. \A n \in DOMAIN Tail(q) : n + 1 \in DOMAIN q /\ Tail(q)[n] = q[n + 1]
  OBVIOUS
<1>2. 1 \in DOMAIN q /\ Head(q) = q[1]
  OBVIOUS
<1> QED
  BY <1>1, <1>2 DEF HarmlessQueue

\* Process on a buffer that holds another program's bytes does nothing, and on one
\* of the protocol it only learns the address of an endpoint.
LEMMA ProcessHarmless ==
  ASSUME IcmpAssumption, TypeOK, NEW e \in Endpoint, NEW b \in Buf, NEW h \in Host,
         Process(e, b, h),
         b.magic = NoMagic \/ (b.echo = 0 /\ h \in Endpoint),
         serial_prev[e] = 0
  PROVE  /\ serial_prev' = serial_prev
         /\ delivered' = delivered
         /\ \A f \in Endpoint : f # e => /\ peer_addr'[f] = peer_addr[f]
                                       /\ peer_addr_len'[f] = peer_addr_len[f]
         /\ (peer_addr'[e] = peer_addr[e] /\ peer_addr_len'[e] = peer_addr_len[e])
              \/ peer_addr'[e] \in Endpoint
<1>1. CASE Foreign(e, b) \/ b.code # "CODE_DATA"
  BY <1>1 DEF Process
<1>2. CASE ~(Foreign(e, b) \/ b.code # "CODE_DATA")
  <2>1. b.magic = Magic[e] /\ Magic[e] # NoMagic
    BY <1>2 DEF Foreign, IcmpAssumption
  <2>2. b.echo = 0 /\ h \in Endpoint
    BY <2>1
  <2>3. Redundant(e, b)
    BY <2>2, EchoOfZero DEF Redundant
  <2>4. /\ peer_addr' = [peer_addr EXCEPT ![e] = h]
        /\ peer_addr_len' = [peer_addr_len EXCEPT ![e] = 16]
        /\ UNCHANGED <<serial_prev, delivered>>
    BY <1>2, <2>3 DEF Process
  <2> QED
    BY <2>2, <2>4 DEF TypeOK
<1> QED
  BY <1>1, <1>2

\* At the start nothing is in flight, and the buffers are zero.
LEMMA MagicInit == ASSUME IcmpAssumption, Init PROVE MagicInv
<1> SUFFICES ASSUME NEW e \in Endpoint PROVE Unharmed(e)
  BY DEF MagicInv
<1>1. peer_addr_len[e] # 0 => peer_addr[e] \in Endpoint
  BY DEF Init, IcmpAssumption, Host
<1>2. ipbuf[e].magic = NoMagic
  BY DEF Init, ZeroBuf
<1>3. HarmlessQueue(inbox[e]) /\ serial_prev[e] = 0 /\ delivered[e] = <<>>
  BY DEF Init, HarmlessQueue
<1> QED
  BY <1>1, <1>2, <1>3 DEF Unharmed

\* A step that leaves everything but the inboxes alone.
LEMMA UnharmedByArrival ==
  ASSUME TypeOK, MagicInv, faults["short"] = 0,
         UNCHANGED <<peer_addr, peer_addr_len, ipbuf, from_addr, serial_prev, delivered>>,
         NEW e \in Endpoint, HarmlessQueue(inbox'[e])
  PROVE  Unharmed(e)'
BY DEF MagicInv, Unharmed

\* No step harms an endpoint before a datagram is cut short.
LEMMA MagicStep ==
  ASSUME IcmpAssumption, TypeOK, MagicInv, Next
  PROVE  MagicInv'
<1>1. PICK e \in Endpoint : \/ SendCopy(e) \/ SendEnd(e) \/ RcvFrom(e) \/ RcvFail(e)
                            \/ Stray(e) \/ EchoReply(e)
  BY DEF Next
<1> SUFFICES ASSUME faults'["short"] = 0, NEW f \in Endpoint PROVE Unharmed(f)'
  BY DEF MagicInv
<1>2. faults["short"] = 0
  <2>1. \A g \in Fault : Spend(g) => faults'["short"] >= faults["short"]
    BY SpendType DEF Fault
  <2>2. faults["short"] \in Nat /\ (faults' = faults \/ \E g \in Fault : Spend(g))
    BY <1>1 DEF TypeOK, SendCopy, SendEnd, RcvFrom, RcvFail, Stray, EchoReply, Fault
  <2> QED
    BY <2>1, <2>2
<1>3. \A g \in Endpoint : Unharmed(g) /\ HarmlessQueue(inbox[g]) /\ inbox[g] \in Seq(Datagram)
  BY <1>2 DEF MagicInv, Unharmed, TypeOK
<1>4. CASE SendCopy(e)
  <2>1. CASE peer_addr[e] \in Endpoint
             /\ inbox' = [inbox EXCEPT ![peer_addr[e]] = Append(@, Outgoing(e))]
    <3>1. Harmless(Outgoing(e))
      BY EchoOfZero DEF Harmless, Outgoing
    <3>2. HarmlessQueue(Append(inbox[peer_addr[e]], Outgoing(e)))
      BY <1>3, <2>1, <3>1, AppendHarmless, OutgoingType
    <3>3. HarmlessQueue(inbox'[f])
      BY <1>3, <2>1, <3>2 DEF TypeOK
    <3> QED
      BY <1>2, <1>4, <3>3, UnharmedByArrival DEF SendCopy
  <2>2. CASE inbox' = inbox
    BY <1>2, <1>3, <1>4, <2>2, UnharmedByArrival DEF SendCopy
  <2> QED
    BY <1>4, <2>1, <2>2 DEF SendCopy
<1>5. CASE SendEnd(e)
  BY <1>2, <1>3, <1>5, UnharmedByArrival DEF SendEnd
<1>6. CASE RcvFrom(e)
  <2> DEFINE d == Head(inbox[e])
             b == Filled(e, d)
  <2>1. inbox[e] # <<>> /\ inbox[e] \in Seq(Datagram) /\ d \in Datagram
    BY <1>3, <1>6 DEF RcvFrom
  <2>2. Harmless(d) /\ HarmlessQueue(Tail(inbox[e]))
    BY <1>3, <2>1, TailHarmless
  <2>3. b = d.buf /\ b \in Buf /\ d.src \in Host
    BY <2>1, <2>2 DEF Filled, Harmless, Datagram
  <2>4. b.magic = NoMagic \/ (b.echo = 0 /\ d.src \in Endpoint)
    BY <2>2, <2>3 DEF Harmless
  <2>5. Process(e, b, d.src) /\ serial_prev[e] = 0
    BY <1>3, <1>6 DEF RcvFrom, Unharmed
  <2>6. /\ inbox' = [inbox EXCEPT ![e] = Tail(@)]
        /\ ipbuf' = [ipbuf EXCEPT ![e] = b]
        /\ from_addr' = [from_addr EXCEPT ![e] = d.src]
    BY <1>6 DEF RcvFrom
  <2> HIDE DEF d, b
  <2>7. HarmlessQueue(inbox'[f])
    BY <1>3, <2>2, <2>6 DEF TypeOK
  <2>8. ipbuf'[f].magic = NoMagic \/ (ipbuf'[f].echo = 0 /\ from_addr'[f] \in Endpoint)
    BY <1>3, <2>4, <2>6 DEF TypeOK, Unharmed
  <2>9. /\ serial_prev' = serial_prev
        /\ delivered' = delivered
        /\ \A g \in Endpoint : g # e => /\ peer_addr'[g] = peer_addr[g]
                                      /\ peer_addr_len'[g] = peer_addr_len[g]
        /\ (peer_addr'[e] = peer_addr[e] /\ peer_addr_len'[e] = peer_addr_len[e])
             \/ peer_addr'[e] \in Endpoint
    BY <2>3, <2>4, <2>5, ProcessHarmless
  <2>10. peer_addr_len'[f] # 0 => peer_addr'[f] \in Endpoint
    BY <1>3, <2>9 DEF Unharmed
  <2> QED
    BY <1>3, <2>7, <2>8, <2>9, <2>10 DEF Unharmed
<1>7. CASE RcvFail(e)
  <2>1. Process(e, ipbuf[e], from_addr[e]) /\ serial_prev[e] = 0
    BY <1>3, <1>7 DEF RcvFail, Unharmed
  <2>2. ipbuf[e].magic = NoMagic \/ (ipbuf[e].echo = 0 /\ from_addr[e] \in Endpoint)
    BY <1>3 DEF Unharmed
  <2>3. ipbuf[e] \in Buf /\ from_addr[e] \in Host
    BY DEF TypeOK
  <2>4. UNCHANGED <<ipbuf, from_addr, inbox>>
    BY <1>7 DEF RcvFail
  <2>5. /\ serial_prev' = serial_prev
        /\ delivered' = delivered
        /\ \A g \in Endpoint : g # e => /\ peer_addr'[g] = peer_addr[g]
                                      /\ peer_addr_len'[g] = peer_addr_len[g]
        /\ (peer_addr'[e] = peer_addr[e] /\ peer_addr_len'[e] = peer_addr_len[e])
             \/ peer_addr'[e] \in Endpoint
    BY <2>1, <2>2, <2>3, ProcessHarmless
  <2>6. peer_addr_len'[f] # 0 => peer_addr'[f] \in Endpoint
    BY <1>3, <2>5 DEF Unharmed
  <2> QED
    BY <1>3, <2>4, <2>5, <2>6 DEF Unharmed
<1>8. CASE Stray(e)
  <2>1. PICK k \in {"short", "stray"} :
          Spend(k) /\ inbox' = [inbox EXCEPT ![e] = Append(@, StrayDatagram(k))]
    BY <1>8 DEF Stray, StrayDatagram
  <2>2. k # "short"
    BY <1>2, <2>1 DEF Spend, TypeOK, Fault
  <2>3. Harmless(StrayDatagram(k))
    BY <2>2 DEF Harmless, StrayDatagram
  <2>4. HarmlessQueue(Append(inbox[e], StrayDatagram(k)))
    BY <1>3, <2>3, StrayType, AppendHarmless
  <2>5. HarmlessQueue(inbox'[f])
    BY <1>3, <2>1, <2>4 DEF TypeOK
  <2> QED
    BY <1>2, <1>8, <2>5, UnharmedByArrival DEF Stray
<1>9. CASE EchoReply(e)
  <2>1. PICK n \in DOMAIN inbox[e] :
          /\ inbox[e][n].src \in Endpoint
          /\ inbox' = [[inbox EXCEPT ![e] = Answered(e, n)] EXCEPT ![inbox[e][n].src] =
                         Append(@, Reply(e, inbox[e][n]))]
    BY <1>9 DEF EchoReply, Answered, Reply
  <2>a. \A m \in DOMAIN inbox[e] : Harmless(inbox[e][m])
    BY <1>3 DEF HarmlessQueue
  <2>b. \A m \in DOMAIN Answered(e, n) : Harmless(Answered(e, n)[m])
    <3> SUFFICES ASSUME NEW m \in DOMAIN inbox[e] PROVE Harmless(Answered(e, n)[m])
      BY AnsweredType
    <3>1. /\ Answered(e, n)[m].src = inbox[e][m].src
          /\ Answered(e, n)[m].short = inbox[e][m].short
          /\ Answered(e, n)[m].buf = inbox[e][m].buf
      BY AnsweredType
    <3> QED
      BY <2>a, <3>1 DEF Harmless
  <2>2. HarmlessQueue(Answered(e, n)) /\ Answered(e, n) \in Seq(Datagram)
    BY <2>b, AnsweredType DEF HarmlessQueue
  <2>3. Harmless(Reply(e, inbox[e][n])) /\ Reply(e, inbox[e][n]) \in Datagram
    <3>1. /\ Reply(e, inbox[e][n]) \in Datagram
          /\ Reply(e, inbox[e][n]).src = e
          /\ Reply(e, inbox[e][n]).short = inbox[e][n].short
          /\ Reply(e, inbox[e][n]).buf = inbox[e][n].buf
      BY AnsweredType
    <3> QED
      BY <2>a, <3>1 DEF Harmless
  <2> DEFINE mid == [inbox EXCEPT ![e] = Answered(e, n)]
             h == inbox[e][n].src
  <2>4. \A g \in Endpoint : HarmlessQueue(mid[g]) /\ mid[g] \in Seq(Datagram)
    BY <1>3, <2>2 DEF TypeOK
  <2>5. HarmlessQueue(Append(mid[h], Reply(e, inbox[e][n])))
    BY <2>1, <2>3, <2>4, AppendHarmless
  <2>6. DOMAIN mid = Endpoint /\ h \in Endpoint
        /\ inbox' = [mid EXCEPT ![h] = Append(@, Reply(e, inbox[e][n]))]
    BY <2>1 DEF TypeOK
  <2> HIDE DEF mid, h
  <2>7. HarmlessQueue(inbox'[f])
    BY <2>4, <2>5, <2>6
  <2> QED
    BY <1>2, <1>9, <2>7, UnharmedByArrival DEF EchoReply
<1> QED
  BY <1>1, <1>4, <1>5, <1>6, <1>7, <1>8, <1>9

\* No endpoint is harmed before a datagram is cut short.
LEMMA MagicInvariant == Spec => [](TypeOK /\ MagicInv)
<1>1. MagicInv /\ TypeOK /\ [Next]_vars => MagicInv'
  <2> SUFFICES ASSUME TypeOK, MagicInv, [Next]_vars PROVE MagicInv'
    OBVIOUS
  <2>1. CASE Next
    BY <2>1, MagicStep, IcmpAssumption
  <2>2. CASE UNCHANGED vars
    BY <2>2 DEF vars, MagicInv, Unharmed
  <2> QED
    BY <2>1, <2>2
<1> QED
  BY <1>1, MagicInit, TypeCorrect, IcmpAssumption, PTL DEF Spec

\* The raw socket hears the echo replies to the endpoint's own packets, and thr_rcv
\* does not look at the type; yet as long as no datagram ends before the magic, the
\* tunnel never gets one of its own packets back.
THEOREM EchoesAreDropped == Spec => []NoEcho
<1>1. TypeOK /\ MagicInv => NoEcho
  <2> SUFFICES ASSUME TypeOK, MagicInv, NEW e \in Endpoint, NEW n \in DOMAIN delivered[e],
                      ~(faults["short"] > 0)
               PROVE  FALSE
    BY DEF NoEcho
  <2>1. faults["short"] \in Nat
    BY DEF TypeOK, Fault
  <2>2. delivered[e] = <<>>
    BY <2>1 DEF MagicInv, Unharmed
  <2> QED
    BY <2>2
<1> QED
  BY <1>1, MagicInvariant, PTL

\* The peer's address is the configured one or that of a host whose packet had the
\* right magic, even when recvfrom fails and the old buffer is looked at again, as
\* long as no datagram ends before the magic.
THEOREM PeersHaveMagic == Spec => []PeerHasMagic
<1>1. TypeOK /\ MagicInv => PeerHasMagic
  <2> SUFFICES ASSUME TypeOK, MagicInv, NEW e \in Endpoint, peer_addr_len[e] # 0,
                      peer_addr[e] \notin Endpoint, ~(faults["short"] > 0)
               PROVE  FALSE
    BY DEF PeerHasMagic
  <2>1. faults["short"] \in Nat
    BY DEF TypeOK, Fault
  <2> QED
    BY <2>1 DEF MagicInv, Unharmed
<1> QED
  BY <1>1, MagicInvariant, PTL

=============================================================================

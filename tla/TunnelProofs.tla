---------------------------- MODULE TunnelProofs ----------------------------
(***************************************************************************)
(* Proofs about the life of a brutun process: whenever the signal comes and *)
(* however the threads interleave, none of them touches what is gone, and   *)
(* the packets written to the device are the right ones and are counted.    *)
(***************************************************************************)
EXTENDS Tunnel, TLAPS

\* Where the threads can be.
MainPc == {"conf", "new", "init", "register", "tun", "configure", "start", "wait", "pause",
           "delete", "join_reader", "close", "destroy", "join_rcv", "unload", "free", "return"}
ThreadPc == {"none", "test", "poll", "send", "sent", "call", "check", "write", "count", "done"}
Idle == {"none", "done"}

\* Where the main thread is while the reader, or the receiver, may run.
ReaderSpan == {"wait", "pause", "delete", "join_reader"}
RcvSpan == ReaderSpan \cup {"register", "tun", "configure", "start", "close", "destroy", "join_rcv"}

\* The inductive invariant: what exists, and which threads may run, depending on
\* where the main thread is.
PcInv ==
  /\ pc \in [Thread -> MainPc \cup ThreadPc]
  /\ pc["main"] \in MainPc /\ pc["reader"] \in ThreadPc /\ pc["rcv"] \in ThreadPc
SpanInv ==
  /\ pc["reader"] \notin Idle => pc["main"] \in ReaderSpan
  /\ pc["rcv"] \notin Idle => pc["main"] \in RcvSpan
HeapInv ==
  /\ DOMAIN heap = Obj
  /\ pc["main"] = "init" => \A o \in Obj \ {"context"} : heap[o] = "live"
  /\ pc["main"] \in RcvSpan => \A o \in Obj : heap[o] = "live"
FdInv ==
  /\ pc["main"] \in ReaderSpan \cup {"start"} => tun_fd = TRUE /\ tun_open = TRUE
  /\ pc["main"] = "configure" => tun_open = TRUE
CallbackInv == pc["main"] \notin {"conf", "new", "init", "register"} => on_recv = TRUE

LifeInv ==
  /\ PcInv /\ SpanInv /\ HeapInv /\ FdInv /\ CallbackInv
  /\ CrashCauses

\* At first there is only the main thread.
LEMMA LifeInit == Init => LifeInv
BY DEF Init, LifeInv, PcInv, SpanInv, HeapInv, FdInv, CallbackInv,
       CrashCauses, Thread, MainPc, ThreadPc, Idle, ReaderSpan, RcvSpan, Obj

\* exit(), abort() and failed asserts change nothing but ended.
LEMMA LifeEnds ==
  ASSUME LifeInv, NEW how, Ends(how), how # "crash" \/ UnsetCallback \/ NoPortToSendFrom
  PROVE  LifeInv'
BY DEF Ends, fixed, device, flags, LifeInv, PcInv, SpanInv, HeapInv, FdInv, CallbackInv,
       CrashCauses, UnsetCallback, NoPortToSendFrom, Thread, Obj

\* The steps that set the tunnel up.
LEMMA LifeStart ==
  ASSUME LifeInv, ended = "no",
         LoadConf \/ LoadCarrier \/ InitCarrier \/ Register \/ TunAlloc \/ Configure \/ StartReader
  PROVE  LifeInv'
<1> USE DEF LifeInv, PcInv, SpanInv, HeapInv, FdInv, CallbackInv,
            CrashCauses, Thread, MainPc, ThreadPc, Idle, ReaderSpan, RcvSpan,
            Obj, At, Goto, Alloc, fixed, device, flags
<1>0. \A how \in {"abort", "exit1"} : Ends(how) => LifeInv'
  BY LifeEnds
<1>1. CASE LoadConf
  BY <1>0, <1>1 DEF LoadConf
<1>2. CASE LoadCarrier
  BY <1>0, <1>2 DEF LoadCarrier
<1>3. CASE InitCarrier
  BY <1>0, <1>3 DEF InitCarrier
<1>4. CASE Register
  BY <1>4 DEF Register
<1>5. CASE TunAlloc
  BY <1>0, <1>5 DEF TunAlloc
<1>7. CASE Configure
  <2>1. CASE Ends("abort")
    BY <1>0, <2>1
  <2>2. CASE ~Ends("abort")
    BY <1>7, <2>2, ZenonT(40) DEF Configure
  <2> QED
    BY <2>1, <2>2
<1>6. CASE StartReader
  BY <1>0, <1>6 DEF StartReader
<1> QED
  BY <1>1, <1>2, <1>3, <1>4, <1>5, <1>6, <1>7

\* The steps that wait and take the tunnel down.
LEMMA LifeStop ==
  ASSUME LifeInv,
         Wait \/ StopReader \/ JoinReader \/ CloseTun \/ StopCarrier \/ FreeContext
         \/ Unload \/ FreeTunnel \/ Return
  PROVE  LifeInv'
<1> USE DEF LifeInv, PcInv, SpanInv, HeapInv, FdInv, CallbackInv,
            CrashCauses, Thread, MainPc, ThreadPc, Idle, ReaderSpan, RcvSpan,
            Obj, At, Goto, Free, Joined, fixed, device, flags
<1>1. CASE Wait
  BY <1>1 DEF Wait
<1>2. CASE StopReader
  BY <1>2 DEF StopReader
<1>3. CASE JoinReader
  BY <1>3 DEF JoinReader
<1>4. CASE CloseTun
  BY <1>4 DEF CloseTun
<1>5. CASE StopCarrier
  BY <1>5 DEF StopCarrier
<1>6. CASE FreeContext
  BY <1>6 DEF FreeContext
<1>7. CASE Unload
  BY <1>7 DEF Unload
<1>8. CASE FreeTunnel
  BY <1>8 DEF FreeTunnel
<1>9. CASE Return
  BY <1>9, LifeEnds DEF Return
<1> QED
  BY <1>1, <1>2, <1>3, <1>4, <1>5, <1>6, <1>7, <1>8, <1>9

\* A step of the reader or the receiver that stays within the thread.
LEMMA LifeThread ==
  ASSUME LifeInv, ended = "no", NEW t \in {"reader", "rcv"}, pc[t] \notin Idle,
         NEW label \in ThreadPc, Goto(t, label),
         UNCHANGED <<heap, tun_fd, tun_open, on_recv, ended>>
  PROVE  LifeInv'
BY DEF LifeInv, PcInv, SpanInv, HeapInv, FdInv, CallbackInv, CrashCauses,
       Thread, Idle, Goto

\* A call of on_recv: the pointer is unset only while main is about to set it.
LEMMA LifeCallback ==
  ASSUME LifeInv, NEW t \in {"reader", "rcv"}, Callback(t)
  PROVE  LifeInv'
<1>1. CASE Call(t)
  <2>1. CASE on_recv = TRUE
    BY <1>1, <2>1, LifeThread DEF Call, At, Idle, ThreadPc, device, flags
  <2>2. CASE on_recv # TRUE
    <3>1. UnsetCallback
      BY <1>1, <2>2 DEF UnsetCallback, Call, At, LifeInv, CallbackInv, SpanInv, Idle, ReaderSpan, RcvSpan
    <3>2. CASE Ends("crash")
      BY <3>1, <3>2, LifeEnds
    <3>3. CASE Goto(t, "check") /\ UNCHANGED <<heap, tun_fd, tun_open, on_recv, ended>>
      BY <1>1, <3>3, LifeThread DEF Call, At, Idle, ThreadPc
    <3> QED
      BY <1>1, <3>2, <3>3 DEF Call, device, flags
  <2> QED
    BY <2>1, <2>2
<1>2. CASE CbTest(t)
  BY <1>2, LifeThread DEF CbTest, AfterCall, At, Idle, ThreadPc, device, flags
<1>3. CASE CbWrite(t)
  BY <1>3, LifeThread DEF CbWrite, At, Idle, ThreadPc, flags
<1>4. CASE CbCount(t)
  BY <1>4, LifeThread DEF CbCount, AfterCall, At, Idle, ThreadPc, device, flags
<1> QED
  BY <1>1, <1>2, <1>3, <1>4 DEF Callback

\* Every step of the process preserves the invariant.
LEMMA LifeStep == LifeInv /\ [Next]_vars => LifeInv'
<1> SUFFICES ASSUME LifeInv, [Next]_vars PROVE LifeInv'
  OBVIOUS
<1>1. CASE Main
  <2>1. CASE LoadConf \/ LoadCarrier \/ InitCarrier \/ Register \/ TunAlloc \/ Configure \/ StartReader
    BY <2>1, LifeStart DEF LoadConf, LoadCarrier, InitCarrier, Register, TunAlloc,
                             Configure, StartReader, At
  <2> QED
    BY <1>1, <2>1, LifeStop DEF Main
<1>2. CASE Reader
  <2>1. CASE LoopTest("reader")
    BY <2>1, LifeThread DEF LoopTest, At, Idle, ThreadPc, device, flags
  <2>2. CASE ReaderPoll
    BY <2>2, LifeThread DEF ReaderPoll, At, Idle, ThreadPc, device, flags
  <2>3. CASE ReaderSend
    <3>1. DividesByZero => NoPortToSendFrom
      BY <2>3 DEF DividesByZero, NoSockets, NoPortToSendFrom, ReaderSend, At
    <3>2. CASE DividesByZero /\ Ends("crash")
      BY <3>1, <3>2, LifeEnds
    <3>3. CASE ~(DividesByZero /\ Ends("crash"))
      <4>1. PICK label \in {"call", "sent"} : Goto("reader", label)
        BY <2>3, <3>3 DEF ReaderSend
      <4> QED
        BY <2>3, <3>3, <4>1, LifeThread DEF ReaderSend, At, Idle, ThreadPc, device, flags
    <3> QED
      BY <3>2, <3>3
  <2>4. CASE ReaderSent
    BY <2>4, LifeThread DEF ReaderSent, At, Idle, ThreadPc, device, flags
  <2> QED
    BY <1>2, <2>1, <2>2, <2>3, <2>4, LifeCallback DEF Reader
<1>3. CASE Rcv
  <2>1. CASE LoopTest("rcv")
    BY <2>1, LifeThread DEF LoopTest, At, Idle, ThreadPc, device, flags
  <2>2. CASE RcvPoll
    BY <2>2, LifeThread DEF RcvPoll, At, Idle, ThreadPc, device, flags
  <2> QED
    BY <1>3, <2>1, <2>2, LifeCallback DEF Rcv
<1>4. ASSUME NEW t \in Thread, Signal(t) PROVE LifeInv'
  <2>1. CASE pc[t] = "pause"
    <3>1. t = "main"
      BY <2>1 DEF Thread, LifeInv, PcInv, ThreadPc
    <3> QED
      BY <1>4, <2>1, <3>1
      DEF Signal, LifeInv, PcInv, SpanInv, HeapInv, FdInv, CallbackInv,
          CrashCauses, Running, Thread, MainPc, ReaderSpan, RcvSpan, Idle,
          device, flags
  <2>2. CASE pc[t] # "pause"
    <3>1. pc' = pc
      BY <1>4, <2>2 DEF Signal, LifeInv, PcInv
    <3> QED
      BY <1>4, <3>1
      DEF Signal, Running, LifeInv, PcInv, SpanInv, HeapInv, FdInv, CallbackInv,
          CrashCauses, device, flags
  <2> QED
    BY <2>1, <2>2
<1>5. CASE UNCHANGED vars
  BY <1>5 DEF vars, device, flags, LifeInv, PcInv, SpanInv, HeapInv, FdInv, CallbackInv,
              CrashCauses, UnsetCallback, NoPortToSendFrom, fixed
<1> QED
  BY <1>1, <1>2, <1>3, <1>4, <1>5 DEF Next

\* The invariant holds in every state of the process.
LEMMA LifeInvariant == Spec => []LifeInv
BY LifeInit, LifeStep, PTL DEF Spec

\* No thread touches the tunnel, the carrier, the module's code or the context
\* once tunnel_delete has begun to free them, for every configuration and every
\* interleaving.
THEOREM UseBeforeFree == Spec => []NoUseAfterFree
<1>1. LifeInv => NoUseAfterFree
  BY DEF LifeInv, SpanInv, HeapInv, NoUseAfterFree, Running, Idle, RcvSpan
<1> QED
  BY <1>1, LifeInvariant, PTL

\* The tun reader works on an open descriptor only.
THEOREM ReaderHasDevice == Spec => []ReaderFdOpen
<1>1. LifeInv => ReaderFdOpen
  BY DEF LifeInv, SpanInv, FdInv, ReaderFdOpen, Running, Idle
<1> QED
  BY <1>1, LifeInvariant, PTL

\* A process crashes only by a packet that arrives before carrier_load has
\* registered cb_recv, or by one to send when simple_udp has no port.
THEOREM CrashWindow == Spec => []CrashCauses
<1>1. LifeInv => CrashCauses
  BY DEF LifeInv
<1> QED
  BY <1>1, LifeInvariant, PTL

-----------------------------------------------------------------------------
(***************************************************************************)
(* Types, and what happens to a packet.                                    *)
(***************************************************************************)

\* Every variable has its type at first.
LEMMA TypeInit == Init => TypeOK
<1> SUFFICES ASSUME Init PROVE TypeOK
  OBVIOUS
<1>1. conf \in Conf /\ magic \in Key /\ peer_magic \in Key
  BY TunnelAssumption DEF Init
<1>2. /\ 0 \in 0 .. MaxCount
      /\ cnt_pkts_sent \in 0 .. MaxCount /\ cnt_pkts_recv \in 0 .. MaxCount
      /\ written \in 0 .. MaxCount
  BY TunnelAssumption DEF Init
<1> QED
  BY <1>1, <1>2 DEF Init, TypeOK, Thread, Obj

\* A counter stays below its bound.
LEMMA CountType == \A n \in 0 .. MaxCount : Count(n) \in 0 .. MaxCount
BY TunnelAssumption DEF Count

\* dec() makes a payload of a payload.
LEMMA DecType == magic \in Key => \A payload \in SUBSET Key : Dec(payload) \in SUBSET Key
BY DEF Dec

\* TypeOK is inductive as it stands.
LEMMA TypeStep == TypeOK /\ [Next]_vars => TypeOK'
<1> SUFFICES ASSUME TypeOK, [Next]_vars PROVE TypeOK'
  OBVIOUS
<1> USE DEF TypeOK, Thread, Obj, At, Goto, fixed, device, flags, stats
<1>0. ASSUME NEW how \in {"exit0", "exit1", "abort", "crash"}, Ends(how) PROVE TypeOK'
  BY <1>0 DEF Ends
<1>1. CASE Main
  <2>1. CASE LoadConf \/ LoadCarrier
    BY <1>0, <2>1 DEF LoadConf, LoadCarrier, Alloc
  <2>2. CASE InitCarrier
    <3>1. HasThread \in BOOLEAN
      BY DEF HasThread
    <3>2. CASE \E how \in {"abort", "exit1"} : Ends(how)
      BY <1>0, <3>2
    <3>3. CASE ~\E how \in {"abort", "exit1"} : Ends(how)
      BY <2>2, <3>1, <3>3 DEF InitCarrier, Alloc
    <3> QED
      BY <3>2, <3>3
  <2>0. ASSUME pc' \in [Thread -> MainPc \cup ThreadPc],
               tun_fd' \in BOOLEAN, tun_open' \in BOOLEAN, flag_loop' \in BOOLEAN,
               loop' \in BOOLEAN, on_recv' \in BOOLEAN,
               UNCHANGED <<fixed, tun_out, written, stats, heap, sig_exit_received, buf, ended>>
        PROVE  TypeOK'
    BY <2>0 DEF MainPc, ThreadPc
  <2>3. CASE Register
    BY <2>0, <2>3 DEF Register, MainPc, ThreadPc
  <2>4. CASE TunAlloc
    <3>1. CASE Ends("abort")
      BY <1>0, <3>1
    <3>2. CASE ~Ends("abort")
      <4>1. /\ pc' = [pc EXCEPT !["main"] = "configure"]
            /\ tun_open' = TRUE /\ UNCHANGED <<tun_fd, flag_loop, loop, on_recv>>
            /\ UNCHANGED <<fixed, tun_out, written, stats, heap, sig_exit_received, buf, ended>>
        BY <2>4, <3>2 DEF TunAlloc
      <4> QED
        BY <2>0, <4>1 DEF MainPc, ThreadPc
    <3> QED
      BY <3>1, <3>2
  <2>7. CASE Configure
    <3>1. CASE Ends("abort")
      BY <1>0, <3>1
    <3>2. CASE ~Ends("abort")
      <4>1. /\ pc' = [pc EXCEPT !["main"] = "start"]
            /\ tun_fd' = TRUE /\ UNCHANGED <<tun_open, flag_loop, loop, on_recv>>
            /\ UNCHANGED <<fixed, tun_out, written, stats, heap, sig_exit_received, buf, ended>>
        BY <2>7, <3>2 DEF Configure
      <4> QED
        BY <2>0, <4>1 DEF MainPc, ThreadPc
    <3> QED
      BY <3>1, <3>2
  <2>8. CASE StartReader
    <3>1. CASE Ends("abort")
      BY <1>0, <3>1
    <3>2. CASE ~Ends("abort")
      <4>1. /\ pc' = [pc EXCEPT !["main"] = "wait", !["reader"] = "test"]
            /\ flag_loop' = TRUE /\ UNCHANGED <<tun_fd, tun_open, loop, on_recv>>
            /\ UNCHANGED <<fixed, tun_out, written, stats, heap, sig_exit_received, buf, ended>>
        BY <2>8, <3>2 DEF StartReader
      <4> QED
        BY <2>0, <4>1 DEF MainPc, ThreadPc
    <3> QED
      BY <3>1, <3>2
  <2>9. CASE Wait
    BY <2>0, <2>9 DEF Wait, MainPc, ThreadPc
  <2>10. CASE StopReader
    BY <2>0, <2>10 DEF StopReader, MainPc, ThreadPc
  <2>11. CASE JoinReader
    BY <2>0, <2>11 DEF JoinReader, MainPc, ThreadPc
  <2>12. CASE CloseTun
    BY <2>0, <2>12 DEF CloseTun, MainPc, ThreadPc
  <2>13. CASE StopCarrier
    BY <2>0, <2>13 DEF StopCarrier, MainPc, ThreadPc
  <2>5. CASE FreeContext \/ Unload \/ FreeTunnel
    BY <2>5 DEF FreeContext, Unload, FreeTunnel, Free
  <2>6. CASE Return
    BY <1>0, <2>6 DEF Return
  <2> QED
    BY <1>1, <2>1, <2>2, <2>3, <2>4, <2>5, <2>6, <2>7, <2>8, <2>9, <2>10, <2>11, <2>12, <2>13
       DEF Main
<1>2. ASSUME NEW t \in {"reader", "rcv"}, Callback(t) PROVE TypeOK'
  <2>1. CASE Call(t)
    BY <1>0, <2>1 DEF Call
  <2>2. CASE CbTest(t)
    BY <2>2 DEF CbTest, AfterCall
  <2>3. CASE CbWrite(t)
    <3>1. ToTun(t) \in SUBSET Key /\ Count(written) \in 0 .. MaxCount
      BY CountType, DecType DEF ToTun
    <3> QED
      BY <2>3, <3>1 DEF CbWrite
  <2>4. CASE CbCount(t)
    BY <2>4, CountType DEF CbCount, AfterCall
  <2> QED
    BY <1>2, <2>1, <2>2, <2>3, <2>4 DEF Callback
<1>3. CASE LoopTest("reader") \/ LoopTest("rcv")
  BY <1>3 DEF LoopTest
<1>4. CASE ReaderPoll \/ RcvPoll
  <2>1. Dec({}) \in SUBSET Key /\ {peer_magic} \in SUBSET Key
    BY DecType
  <2> QED
    BY <1>4, <2>1 DEF ReaderPoll, RcvPoll
<1>5. CASE ReaderSend
  BY <1>0, <1>5 DEF ReaderSend
<1>6. CASE ReaderSent
  BY <1>6, CountType DEF ReaderSent
<1>7. ASSUME NEW t \in Thread, Signal(t) PROVE TypeOK'
  BY <1>7 DEF Signal
<1>8. CASE UNCHANGED vars
  BY <1>8 DEF vars
<1> QED
  BY <1>1, <1>2, <1>3, <1>4, <1>5, <1>6, <1>7, <1>8 DEF Next, Reader, Rcv

\* Every variable has its type, for all configurations, keys and counter bounds.
THEOREM TypeCorrect == Spec => []TypeOK
BY TypeInit, TypeStep, PTL DEF Spec

\* Which thread runs cb_recv: the receiver of simple_udp, or the reader when the
\* carrier is loop.  The reader then has at hand the packet it has encoded once.
InCallback == {"call", "check", "write", "count"}
CarrierInv ==
  /\ CallsBack => pc["rcv"] = "none"
  /\ pc["reader"] \in InCallback => CallsBack
  /\ CallsBack /\ pc["reader"] \in {"send", "call", "check", "write"} => buf["reader"] = {magic}

\* A packet is uncounted only while its thread is between write and count, and an
\* orderly end has main at its last step, when there is no such thread.
Counting == pc["reader"] = "count" \/ pc["rcv"] = "count"
CountInv ==
  /\ written <= IF Counting THEN cnt_pkts_recv + 1 ELSE cnt_pkts_recv
  /\ ended = "exit0" => pc["main"] = "return"

PacketInv == CarrierInv /\ LoopEchoes /\ CountInv

\* At first there is no packet.
LEMMA PacketInit == Init => PacketInv
BY DEF Init, PacketInv, CarrierInv, LoopEchoes, CountInv, Counting, CallsBack, InCallback, Thread

\* An end of the process concerns no packet.
LEMMA PacketEnds ==
  ASSUME PacketInv, NEW how, Ends(how), how = "exit0" => pc["main"] = "return"
  PROVE  PacketInv'
BY DEF Ends, PacketInv, CarrierInv, LoopEchoes, CountInv, Counting, CallsBack,
       fixed, device, stats

\* Neither does a step of main, which may start a thread, or a signal.
LEMMA PacketMain ==
  ASSUME TypeOK, PacketInv, ended = "no",
         \A t \in {"reader", "rcv"} :
           pc'[t] = pc[t] \/ (pc[t] \notin InCallback \cup {"send"} /\ pc'[t] = "test"),
         CallsBack => pc'["rcv"] = pc["rcv"],
         UNCHANGED <<conf, magic, buf, tun_out, written, cnt_pkts_recv, ended>>
  PROVE  PacketInv'
BY DEF PacketInv, CarrierInv, LoopEchoes, CountInv, Counting, CallsBack, InCallback

\* A step of a thread outside cb_recv.
LEMMA PacketThread ==
  ASSUME TypeOK, PacketInv, ended = "no", NEW t \in {"reader", "rcv"},
         NEW label \in {"test", "poll", "done", "sent"},
         pc[t] \in {"test", "poll", "send", "sent", "check"}, Goto(t, label),
         UNCHANGED <<conf, magic, buf, tun_out, written, cnt_pkts_recv, ended>>
  PROVE  PacketInv'
BY DEF TypeOK, PacketInv, CarrierInv, LoopEchoes, CountInv, Counting, CallsBack, InCallback,
       Goto, Thread

\* cb_recv: its packet is decoded, written and counted by the one thread there is.
LEMMA PacketCallback ==
  ASSUME TypeOK, PacketInv, NEW t \in {"reader", "rcv"}, Callback(t)
  PROVE  PacketInv'
<1> USE DEF TypeOK, PacketInv, CarrierInv, LoopEchoes, CountInv, Counting, CallsBack, InCallback,
            At, Goto, Thread, fixed, device, stats
<1>0. ended = "no"
  BY DEF Callback, Call, CbTest, CbWrite, CbCount
<1>1. CASE Call(t)
  <2>1. CASE Ends("crash")
    BY <2>1, PacketEnds
  <2>2. CASE ~Ends("crash")
    BY <1>0, <1>1, <2>2 DEF Call
  <2> QED
    BY <2>1, <2>2
<1>2. CASE CbTest(t)
  <2>1. CASE tun_fd
    BY <1>0, <1>2, <2>1 DEF CbTest
  <2>2. CASE ~tun_fd
    BY <1>0, <1>2, <2>2, PacketThread DEF CbTest, AfterCall
  <2> QED
    BY <2>1, <2>2
<1>3. CASE CbWrite(t)
  <2>1. CarrierInv'
    BY <1>3 DEF CbWrite
  <2>2. LoopEchoes'
    <3>1. CallsBack => t = "reader" /\ ToTun(t) = {}
      BY <1>3 DEF CbWrite, ToTun, Dec
    <3> QED
      BY <1>3, <3>1 DEF CbWrite
  <2>3. CountInv'
    <3>1. ~Counting /\ Counting'
      BY <1>3 DEF CbWrite
    <3>2. written' <= written + 1 /\ cnt_pkts_recv' = cnt_pkts_recv /\ ended' = ended
      BY <1>3, TunnelAssumption DEF CbWrite, Count
    <3>3. written' \in Int
      BY <1>3, TunnelAssumption DEF CbWrite, Count
    <3> QED
      BY <1>0, <3>1, <3>2, <3>3
  <2> QED
    BY <2>1, <2>2, <2>3
<1>4. CASE CbCount(t)
  <2>1. CarrierInv' /\ LoopEchoes'
    BY <1>4 DEF CbCount, AfterCall
  <2>2. CountInv'
    <3>1. Counting /\ ~Counting'
      BY <1>4 DEF CbCount, AfterCall
    <3>2. written' = written /\ ended' = ended /\ cnt_pkts_recv' = Count(cnt_pkts_recv)
      BY <1>4 DEF CbCount
    <3> QED
      BY <1>0, <3>1, <3>2, TunnelAssumption DEF Count
  <2> QED
    BY <2>1, <2>2
<1> QED
  BY <1>1, <1>2, <1>3, <1>4 DEF Callback

\* Every step of the process preserves the invariant.
LEMMA PacketStep == TypeOK /\ LifeInv /\ PacketInv /\ [Next]_vars => PacketInv'
<1> SUFFICES ASSUME TypeOK, LifeInv, PacketInv, [Next]_vars PROVE PacketInv'
  OBVIOUS
<1> USE DEF At, Goto, fixed, device, stats
<1>1. CASE Main
  <2>0. ended = "no" /\ pc \in [Thread -> MainPc \cup ThreadPc]
    BY <1>1 DEF Main, LoadConf, LoadCarrier, InitCarrier, Register, TunAlloc, Configure,
                StartReader, Wait, StopReader, JoinReader, CloseTun, StopCarrier, FreeContext,
                Unload, FreeTunnel, Return, TypeOK, MainPc, ThreadPc
  <2>1. ASSUME NEW label, pc' = [pc EXCEPT !["main"] = label],
               UNCHANGED <<fixed, tun_out, written, stats, buf, ended>>
        PROVE  PacketInv'
    BY <2>0, <2>1, PacketMain DEF Thread
  <2>2. CASE \E how \in {"abort", "exit1"} : Ends(how)
    BY <2>2, PacketEnds
  <2>3. CASE ~\E how \in {"abort", "exit1"} : Ends(how)
    <3>1. CASE LoadConf \/ LoadCarrier \/ Register \/ TunAlloc \/ Configure
      BY <2>1, <2>3, <3>1 DEF LoadConf, LoadCarrier, Register, TunAlloc, Configure
    <3>2. CASE Wait \/ StopReader \/ JoinReader \/ CloseTun \/ StopCarrier
      BY <2>1, <3>2 DEF Wait, StopReader, JoinReader, CloseTun, StopCarrier
    <3>3. CASE FreeContext \/ Unload \/ FreeTunnel
      BY <2>1, <3>3 DEF FreeContext, Unload, FreeTunnel
    <3>4. CASE Return
      BY <3>4, PacketEnds DEF Return
    <3>5. CASE InitCarrier
      <4>1. pc["rcv"] \in Idle
        BY <3>5 DEF InitCarrier, LifeInv, SpanInv, RcvSpan, ReaderSpan
      <4>2. /\ pc' = [pc EXCEPT !["main"] = "register",
                               !["rcv"] = IF HasThread THEN "test" ELSE pc["rcv"]]
            /\ UNCHANGED <<fixed, tun_out, written, stats, buf, ended>>
        BY <2>3, <3>5 DEF InitCarrier
      <4> QED
        BY <2>0, <4>1, <4>2, PacketMain DEF Thread, Idle, InCallback, HasThread, CallsBack
    <3>6. CASE StartReader
      <4>1. pc["reader"] \in Idle
        BY <3>6 DEF StartReader, LifeInv, SpanInv, ReaderSpan
      <4>2. /\ pc' = [pc EXCEPT !["main"] = "wait", !["reader"] = "test"]
            /\ UNCHANGED <<fixed, tun_out, written, stats, buf, ended>>
        BY <2>3, <3>6 DEF StartReader
      <4> QED
        BY <2>0, <4>1, <4>2, PacketMain DEF Thread, Idle, InCallback
    <3> QED
      BY <1>1, <3>1, <3>2, <3>3, <3>4, <3>5, <3>6 DEF Main
  <2> QED
    BY <2>2, <2>3
<1>2. CASE LoopTest("reader")
  BY <1>2, PacketThread DEF LoopTest
<1>3. CASE LoopTest("rcv")
  BY <1>3, PacketThread DEF LoopTest
<1>4. CASE ReaderPoll
  <2> USE DEF ReaderPoll
  <2>1. CASE pc' = [pc EXCEPT !["reader"] = "test"] /\ UNCHANGED buf
    BY <1>4, <2>1, PacketThread
  <2>2. CASE pc' = [pc EXCEPT !["reader"] = "send"] /\ buf' = [buf EXCEPT !["reader"] = Dec({})]
    <3>1. Dec({}) = {magic}
      BY DEF Dec
    <3> QED
      BY <1>4, <2>2, <3>1 DEF TypeOK, PacketInv, CarrierInv, LoopEchoes, CountInv, Counting,
                              CallsBack, InCallback, Thread
  <2> QED
    BY <1>4, <2>1, <2>2
<1>5. CASE ReaderSend
  <2>1. CASE Ends("crash")
    BY <2>1, PacketEnds
  <2>2. CASE ~Ends("crash") /\ CallsBack
    BY <1>5, <2>2 DEF ReaderSend, TypeOK, PacketInv, CarrierInv, LoopEchoes, CountInv, Counting,
                      CallsBack, InCallback, Thread
  <2>3. CASE ~Ends("crash") /\ ~CallsBack
    BY <1>5, <2>3, PacketThread DEF ReaderSend
  <2> QED
    BY <2>1, <2>2, <2>3
<1>6. CASE ReaderSent
  BY <1>6, PacketThread DEF ReaderSent
<1>7. CASE RcvPoll
  <2> USE DEF RcvPoll
  <2>1. CASE pc' = [pc EXCEPT !["rcv"] = "test"] /\ UNCHANGED buf
    BY <1>7, <2>1, PacketThread
  <2>2. CASE pc' = [pc EXCEPT !["rcv"] = "call"] /\ buf' = [buf EXCEPT !["rcv"] = {peer_magic}]
    BY <1>7, <2>2 DEF TypeOK, PacketInv, CarrierInv, LoopEchoes, CountInv, Counting,
                      CallsBack, InCallback, Thread
  <2> QED
    BY <1>7, <2>1, <2>2
<1>8. ASSUME NEW t \in Thread, Signal(t) PROVE PacketInv'
  <2>1. pc["reader"] # "pause" /\ pc["rcv"] # "pause" /\ pc \in [Thread -> MainPc \cup ThreadPc]
    BY DEF LifeInv, PcInv, ThreadPc
  <2>2. pc'["reader"] = pc["reader"] /\ pc'["rcv"] = pc["rcv"]
    BY <1>8, <2>1 DEF Signal, Thread
  <2> QED
    BY <1>8, <2>2, PacketMain DEF Signal, Running
<1>9. CASE UNCHANGED vars
  BY <1>9 DEF vars, PacketInv, CarrierInv, LoopEchoes, CountInv, Counting, CallsBack
<1> QED
  BY <1>1, <1>2, <1>3, <1>4, <1>5, <1>6, <1>7, <1>8, <1>9, PacketCallback DEF Next, Reader, Rcv

\* The invariant holds in every state of the process.
LEMMA PacketInvariant == Spec => []PacketInv
BY PacketInit, PacketStep, LifeInvariant, TypeCorrect, PTL DEF Spec

\* With the loop carrier the device gets back what was read from it, whenever the
\* tunnel goes down and whatever bytes tunnel_new left in the magic.
THEOREM LoopGivesBack == Spec => []LoopEchoes
<1>1. PacketInv => LoopEchoes
  BY DEF PacketInv
<1> QED
  BY <1>1, PacketInvariant, PTL

\* tunnel_delete never ends a thread between the write to the device and the count
\* of the packet: at an orderly end what was written has been counted.
THEOREM WrittenIsCounted == Spec => []NothingUncounted
<1>1. TypeOK /\ LifeInv /\ PacketInv => NothingUncounted
  BY DEF PacketInv, CountInv, Counting, NothingUncounted, LifeInv, SpanInv, Idle, RcvSpan, ReaderSpan
<1> QED
  BY <1>1, TypeCorrect, LifeInvariant, PacketInvariant, PTL
=============================================================================

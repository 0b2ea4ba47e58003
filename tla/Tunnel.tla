------------------------------- MODULE Tunnel -------------------------------
(***************************************************************************)
(* One brutun process (main.c, tunnel.c, carrier.c): the main thread sets   *)
(* up a tunnel, waits for a signal and takes the tunnel down; the tun       *)
(* reader thread and the carrier's receiver thread run in between.          *)
(*                                                                         *)
(* The carrier is simple_udp, of which only the thread and the callback     *)
(* matter here (SimpleUdp has the rest), or loop, which calls back from     *)
(* send_packet.  A payload is the set of keys an odd number of dec() calls  *)
(* applied to it: dec() is an exclusive or with a key stream.               *)
(***************************************************************************)
EXTENDS Integers, FiniteSets

CONSTANTS
  Confs,     \* the configurations the process may be started with
  Key,       \* values of the 8 bytes of tunnel_ctx.magic
  MaxCount   \* bound: the counters stick at this value

\* What tunnel_new and carrier_load look up in the configuration.
Conf == [carrier : {"none", "unloadable", "simple_udp", "loop"},
         mode    : {"tun", "tap", "other"},
         addrs   : BOOLEAN,   \* LocalAddr and PeerAddr are both there
         ports   : {"some", "empty", "illegal"},   \* LocalPort; "empty" is an array
         remote  : BOOLEAN]   \* RemoteAddress is there

ASSUME TunnelAssumption ==
  /\ Confs \subseteq Conf
  /\ Key # {}
  /\ MaxCount \in Nat

Thread == {"main", "reader", "rcv"}

\* What tunnel_new allocates; "module" is the code dlopen mapped.
Obj == {"tunnel", "carrier", "module", "context"}

VARIABLES
  conf,
  pc,          \* where each thread is
  heap,        \* "none", "live" or "freed"
  magic,       \* tunnel_ctx.magic
  tun_fd,      \* tunnel_ctx.tun_fd: whether it holds a descriptor (or -1)
  tun_open,    \* whether that descriptor is open
  flag_loop, loop,   \* the flags the two threads test
  on_recv,     \* whether the carrier's callback is set
  sig_exit_received,
  buf,         \* the payload each thread has at hand
  cnt_pkts_sent, cnt_pkts_recv,
  ended,       \* how the process ended, "no" while it runs
  peer_magic,  \* the magic of the process at the other end
  tun_out, written   \* history: payloads written to the tun device

fixed == <<conf, magic, peer_magic>>
device == <<tun_fd, tun_open, tun_out, written>>
flags == <<flag_loop, loop, on_recv>>
stats == <<cnt_pkts_sent, cnt_pkts_recv>>
vars == <<fixed, device, flags, stats, pc, heap, sig_exit_received, buf, ended>>

Init ==
  /\ conf \in Confs
  /\ pc = [t \in Thread |-> IF t = "main" THEN "conf" ELSE "none"]
  /\ heap = [o \in Obj |-> "none"]
  /\ magic \in Key
  /\ tun_fd = FALSE
  /\ tun_open = FALSE
  /\ flag_loop = FALSE
  /\ loop = FALSE
  /\ on_recv = FALSE
  /\ sig_exit_received = FALSE
  /\ buf = [t \in Thread |-> {}]
  /\ cnt_pkts_sent = 0
  /\ cnt_pkts_recv = 0
  /\ ended = "no"
  /\ peer_magic \in Key
  /\ tun_out = {}
  /\ written = 0

At(t, label) == ended = "no" /\ pc[t] = label
Goto(t, label) == pc' = [pc EXCEPT ![t] = label]
Alloc(objs) == heap' = [o \in Obj |-> IF o \in objs THEN "live" ELSE heap[o]]
Free(objs) == heap' = [o \in Obj |-> IF o \in objs THEN "freed" ELSE heap[o]]
CountMut(n) == n - 1
Count(n) == IF n < MaxCount THEN n + 1 ELSE n

\* exit(), abort() and a failed assert end all threads where they are.
Ends(how) ==
  /\ ended' = how
  /\ UNCHANGED <<fixed, device, flags, stats, pc, heap, sig_exit_received, buf>>

-----------------------------------------------------------------------------
(***************************************************************************)
(* The main thread: start.                                                 *)
(***************************************************************************)

\* main: the handlers are installed and the configuration is loaded, or not.
LoadConf ==
  /\ At("main", "conf")
  /\ \/ Ends("exit1")
     \/ /\ Goto("main", "new")
        /\ UNCHANGED <<fixed, device, flags, stats, heap, sig_exit_received, buf, ended>>

\* tunnel_new up to carrier_load, and carrier_load up to dlopen.  The magic of
\* the new tunnel_ctx is what malloc left there.
LoadCarrier ==
  /\ At("main", "new")
  /\ IF conf.carrier \in {"none", "unloadable"}
       THEN Ends("abort")
       ELSE /\ Goto("main", "init")
            /\ Alloc({"tunnel", "carrier", "module"})
            /\ UNCHANGED <<fixed, device, flags, stats, sig_exit_received, buf, ended>>

\* simple_udp has a receiver thread; loop has none, and calls back from
\* send_packet.
HasThread == conf.carrier = "simple_udp"
CallsBack == conf.carrier = "loop"

\* The carrier's init: simple_udp starts its receiver thread, with on_recv not
\* set yet, or cannot open its sockets or start the thread.  That there is no
\* port to open is not noticed.
NoSockets == HasThread /\ conf.ports = "empty"
InitCarrier ==
  /\ At("main", "init")
  /\ \/ HasThread /\ \E how \in {"abort", "exit1"} : Ends(how)
     \/ /\ HasThread => conf.ports # "illegal"
        /\ pc' = [pc EXCEPT !["main"] = "register",
                            !["rcv"] = IF HasThread THEN "test" ELSE @]
        /\ loop' = HasThread
        /\ Alloc({"context"})
        /\ UNCHANGED <<fixed, device, flag_loop, on_recv, stats, sig_exit_received, buf, ended>>

\* carrier_load's call of on_packet_receive.
RegisterMut ==
  /\ At("main", "register")
  /\ Goto("main", "tun")
  /\ UNCHANGED <<fixed, device, flags, stats, heap, sig_exit_received, buf, ended>>
Register ==
  /\ At("main", "register")
  /\ on_recv' = TRUE
  /\ Goto("main", "tun")
  /\ UNCHANGED <<fixed, device, flag_loop, loop, stats, heap, sig_exit_received, buf, ended>>

\* tunnel_new opens the tun device, unless the mode is unknown.
TunAlloc ==
  /\ At("main", "tun")
  /\ \/ Ends("abort")
     \/ /\ conf.mode # "other"
        /\ tun_open' = TRUE
        /\ Goto("main", "configure")
        /\ UNCHANGED <<fixed, tun_fd, tun_out, written, flags, stats, heap,
                       sig_exit_received, buf, ended>>

\* The commands that configure the device, whose failures are ignored; only then
\* does the tunnel get the descriptor.  Mode tun needs both addresses.
Configure ==
  /\ At("main", "configure")
  /\ IF conf.mode = "tun" /\ ~conf.addrs
       THEN Ends("abort")
       ELSE /\ tun_fd' = TRUE
            /\ Goto("main", "start")
            /\ UNCHANGED <<fixed, tun_open, tun_out, written, flags, stats, heap,
                           sig_exit_received, buf, ended>>

\* The end of tunnel_new: the tun reader is started.
StartReader ==
  /\ At("main", "start")
  /\ \/ Ends("abort")
     \/ /\ flag_loop' = TRUE
        /\ pc' = [pc EXCEPT !["main"] = "wait", !["reader"] = "test"]
        /\ UNCHANGED <<fixed, device, loop, on_recv, stats, heap, sig_exit_received, buf,
                       ended>>

-----------------------------------------------------------------------------
(***************************************************************************)
(* The main thread: wait for a signal, take the tunnel down.               *)
(***************************************************************************)

\* while (sig_exit_received == 0) pause(): the test and the call are two steps.
Wait ==
  /\ At("main", "wait")
  /\ Goto("main", IF sig_exit_received THEN "delete" ELSE "pause")
  /\ UNCHANGED <<fixed, device, flags, stats, heap, sig_exit_received, buf, ended>>

Running(t) == ended = "no" /\ pc[t] \notin {"none", "done"}

\* A signal is handled by some thread of the process; pause() returns when it is
\* the main thread's.
SignalMut(t) ==
  /\ Running(t)
  /\ sig_exit_received' = TRUE
  /\ UNCHANGED <<pc, fixed, device, flags, stats, heap, buf, ended>>
Signal(t) ==
  /\ Running(t)
  /\ sig_exit_received' = TRUE
  /\ pc' = [pc EXCEPT ![t] = IF @ = "pause" THEN "wait" ELSE @]
  /\ UNCHANGED <<fixed, device, flags, stats, heap, buf, ended>>

\* tunnel_delete: stop the reader.
StopReader ==
  /\ At("main", "delete")
  /\ flag_loop' = FALSE
  /\ Goto("main", "join_reader")
  /\ UNCHANGED <<fixed, device, loop, on_recv, stats, heap, sig_exit_received, buf, ended>>

\* pthread_join on a thread returns, or there is no such thread.
JoinedMut(t) == TRUE
Joined(t) == pc[t] \in {"none", "done"}

JoinReader ==
  /\ At("main", "join_reader")
  /\ Joined("reader")
  /\ tun_fd' = FALSE
  /\ Goto("main", "close")
  /\ UNCHANGED <<fixed, tun_open, tun_out, written, flags, stats, heap, sig_exit_received,
                 buf, ended>>

CloseTun ==
  /\ At("main", "close")
  /\ tun_open' = FALSE
  /\ Goto("main", "destroy")
  /\ UNCHANGED <<fixed, tun_fd, tun_out, written, flags, stats, heap, sig_exit_received, buf,
                 ended>>

\* carrier_unload: the carrier's destroy stops its thread, waits for it and frees
\* the context; then the module goes, then the carrier.
StopCarrier ==
  /\ At("main", "destroy")
  /\ loop' = FALSE
  /\ Goto("main", "join_rcv")
  /\ UNCHANGED <<fixed, device, flag_loop, on_recv, stats, heap, sig_exit_received, buf, ended>>

FreeContext ==
  /\ At("main", "join_rcv")
  /\ Joined("rcv")
  /\ Free({"context"})
  /\ Goto("main", "unload")
  /\ UNCHANGED <<fixed, device, flags, stats, sig_exit_received, buf, ended>>

Unload ==
  /\ At("main", "unload")
  /\ Free({"module", "carrier"})
  /\ Goto("main", "free")
  /\ UNCHANGED <<fixed, device, flags, stats, sig_exit_received, buf, ended>>

FreeTunnel ==
  /\ At("main", "free")
  /\ Free({"tunnel"})
  /\ Goto("main", "return")
  /\ UNCHANGED <<fixed, device, flags, stats, sig_exit_received, buf, ended>>

Return == At("main", "return") /\ Ends("exit0")

-----------------------------------------------------------------------------
(***************************************************************************)
(* The tun reader and the carrier's receiver.                              *)
(***************************************************************************)

Flag(t) == IF t = "reader" THEN flag_loop ELSE loop
LoopsMut(t) == TRUE
Loops(t) == Flag(t)

\* The condition of a thread's loop.
LoopTest(t) ==
  /\ t \in {"reader", "rcv"}
  /\ At(t, "test")
  /\ Goto(t, IF Loops(t) THEN "poll" ELSE "done")
  /\ UNCHANGED <<fixed, device, flags, stats, heap, sig_exit_received, buf, ended>>

\* dec() with the tunnel's magic.
Dec(payload) == (payload \cup {magic}) \ (payload \cap {magic})

\* thr_tun_reader: poll() times out or read() fails, or a packet is read and
\* encoded.
ReaderPoll ==
  /\ At("reader", "poll")
  /\ \/ Goto("reader", "test") /\ UNCHANGED buf
     \/ Goto("reader", "send") /\ buf' = [buf EXCEPT !["reader"] = Dec({})]
  /\ UNCHANGED <<fixed, device, flags, stats, heap, sig_exit_received, ended>>

\* send_packet of simple_udp (see SimpleUdp) divides by the number of sockets after
\* each sendto that was not interrupted, once there is an address to send to (which
\* a passive end without a socket never learns).
DividesByZero == NoSockets /\ conf.remote

\* send_packet of simple_udp, or of loop, which calls back with a copy of the packet.
ReaderSend ==
  /\ At("reader", "send")
  /\ \/ DividesByZero /\ Ends("crash")
     \/ /\ Goto("reader", IF CallsBack THEN "call" ELSE "sent")
        /\ UNCHANGED <<fixed, device, flags, stats, heap, sig_exit_received, buf, ended>>

ReaderSent ==
  /\ At("reader", "sent")
  /\ cnt_pkts_sent' = Count(cnt_pkts_sent)
  /\ Goto("reader", "test")
  /\ UNCHANGED <<fixed, device, flags, cnt_pkts_recv, heap, sig_exit_received, buf, ended>>

\* thr_rcv of simple_udp (see SimpleUdp): poll() times out or the datagram is
\* dropped, or the packet of the peer is handed over.
RcvPoll ==
  /\ At("rcv", "poll")
  /\ \/ Goto("rcv", "test") /\ UNCHANGED buf
     \/ ~NoSockets /\ Goto("rcv", "call") /\ buf' = [buf EXCEPT !["rcv"] = {peer_magic}]
  /\ UNCHANGED <<fixed, device, flags, stats, heap, sig_exit_received, ended>>

\* ctx->on_recv(...): a call through a pointer nobody has set yet crashes.
Call(t) ==
  /\ At(t, "call")
  /\ IF ~on_recv
       THEN Ends("crash")
       ELSE /\ Goto(t, "check")
            /\ UNCHANGED <<fixed, device, flags, stats, heap, sig_exit_received, buf, ended>>

AfterCall(t) == IF t = "reader" THEN "sent" ELSE "test"

\* cb_recv: tun_fd is tested, ...
CbTest(t) ==
  /\ At(t, "check")
  /\ Goto(t, IF tun_fd THEN "write" ELSE AfterCall(t))
  /\ UNCHANGED <<fixed, device, flags, stats, heap, sig_exit_received, buf, ended>>

ToTunMut(t) == buf[t]
ToTun(t) == Dec(buf[t])

\* ... read again and written to, with the payload decoded; tunnel_delete may
\* have closed it in between, and then the write fails, ...
CbWrite(t) ==
  /\ At(t, "write")
  /\ buf' = [buf EXCEPT ![t] = ToTun(t)]
  /\ \/ /\ tun_fd /\ tun_open
        /\ tun_out' = tun_out \cup {ToTun(t)}
        /\ written' = Count(written)
     \/ UNCHANGED <<tun_out, written>>
  /\ Goto(t, "count")
  /\ UNCHANGED <<fixed, tun_fd, tun_open, flags, stats, heap, sig_exit_received, ended>>

\* ... and the packet is counted, written or not.
CbCount(t) ==
  /\ At(t, "count")
  /\ cnt_pkts_recv' = Count(cnt_pkts_recv)
  /\ Goto(t, AfterCall(t))
  /\ UNCHANGED <<fixed, device, flags, cnt_pkts_sent, heap, sig_exit_received, buf, ended>>

-----------------------------------------------------------------------------
Main ==
  \/ LoadConf \/ LoadCarrier \/ InitCarrier \/ Register \/ TunAlloc \/ Configure
  \/ StartReader
  \/ Wait \/ StopReader \/ JoinReader \/ CloseTun \/ StopCarrier \/ FreeContext
  \/ Unload \/ FreeTunnel \/ Return
Callback(t) == Call(t) \/ CbTest(t) \/ CbWrite(t) \/ CbCount(t)
Reader == LoopTest("reader") \/ ReaderPoll \/ ReaderSend \/ ReaderSent \/ Callback("reader")
Rcv == LoopTest("rcv") \/ RcvPoll \/ Callback("rcv")

Next == Main \/ Reader \/ Rcv \/ \E t \in Thread : Signal(t)

Spec == Init /\ [][Next]_vars

\* The threads are preemptively scheduled, and poll() comes back after 100 ms at
\* the latest.
FairSpec == Spec /\ WF_vars(Main) /\ WF_vars(Reader) /\ WF_vars(Rcv)

-----------------------------------------------------------------------------
(***************************************************************************)
(* Properties.                                                             *)
(***************************************************************************)

\* The type of every variable.
TypeOK ==
  /\ conf \in Conf
  /\ pc \in [Thread -> {"conf", "new", "init", "register", "tun", "configure", "start", "wait", "pause",
                        "delete", "join_reader", "close", "destroy", "join_rcv", "unload",
                        "free", "return", "none", "test", "poll", "send", "sent", "call",
                        "check", "write", "count", "done"}]
  /\ heap \in [Obj -> {"none", "live", "freed"}]
  /\ magic \in Key /\ peer_magic \in Key
  /\ tun_fd \in BOOLEAN /\ tun_open \in BOOLEAN
  /\ flag_loop \in BOOLEAN /\ loop \in BOOLEAN /\ on_recv \in BOOLEAN
  /\ sig_exit_received \in BOOLEAN
  /\ buf \in [Thread -> SUBSET Key]
  /\ cnt_pkts_sent \in 0 .. MaxCount /\ cnt_pkts_recv \in 0 .. MaxCount
  /\ ended \in {"no", "exit0", "exit1", "abort", "crash"}
  /\ tun_out \subseteq SUBSET Key
  /\ written \in 0 .. MaxCount

\* While a thread runs, everything it may touch is there: tunnel_delete frees
\* the context, the module's code, the carrier and the tunnel only after the
\* threads that use them have ended, whenever the signal comes.
NoUseAfterFree ==
  /\ Running("reader") => \A o \in Obj : heap[o] = "live"
  /\ Running("rcv") => \A o \in Obj : heap[o] = "live"

\* The reader never polls or reads a descriptor that tunnel_delete has closed.
ReaderFdOpen == Running("reader") => tun_fd /\ tun_open

\* A process crashes for one of two reasons only.  simple_udp's receiver runs
\* before on_recv is set, and a packet arrives in that window; at no other time is
\* the pointer unset.  Or simple_udp was given an empty list of ports and a remote
\* address, and the reader has a packet to send; so it does not crash before the
\* tunnel is up.
UnsetCallback == pc["main"] = "register" /\ pc["rcv"] = "call"
NoPortToSendFrom == conf.ports = "empty" /\ conf.remote /\ pc["reader"] = "send"
CrashCauses == ended = "crash" => UnsetCallback \/ NoPortToSendFrom

\* When the process has ended in an orderly way, each packet that reached the
\* tun device has been counted: no thread is cut off between write and count.
NothingUncounted == ended = "exit0" => written <= cnt_pkts_recv

\* With the loop carrier the tun device gets back what was read from it: the
\* packet passes dec() in the reader and again in cb_recv, with one magic.
LoopEchoes == conf.carrier = "loop" => tun_out \subseteq {{}}

\* Once tunnel_delete has begun the process ends in an orderly way, however busy
\* the device and the network are, unless there is no port for what is still sent.
ShutdownCompletes ==
  pc["main"] = "delete" ~> (ended = "exit0" \/ (ended = "crash" /\ NoPortToSendFrom))

\* A signal that arrives between the test of sig_exit_received and pause() (or is
\* handled by another thread) is missed, but the process ends if the main thread
\* gets another one whenever it waits in pause().
FurtherSignalStops ==
  WF_vars(Signal("main")) => (sig_exit_received ~> ended # "no")

-----------------------------------------------------------------------------
(***************************************************************************)
(* What a test says and the code does not do.                              *)
(***************************************************************************)

\* The unit test of cryp.c: what dec() makes of an encoded packet is the packet
\* (for two processes that are configured alike).
PayloadIntact == tun_out \subseteq {{}}
=============================================================================

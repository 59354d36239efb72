-------------------------------- MODULE Dxe --------------------------------
(***************************************************************************)
(* The DMA engine driver, qhw_support/src/hal_dxe.c: channels as rings of  *)
(* descriptors taken from one pool, frames handed to the engine and taken  *)
(* from it, the interrupt handler, memory copies through the engine, and   *)
(* suspend and resume.                                                     *)
(*                                                                         *)
(* Three channels stand for the twelve: "TX" moves frames to the radio     *)
(* (H2B), "RX" brings them back (B2H), "H2H" copies memory.  Each channel  *)
(* is used by one task; tasks run one at a time and are interrupted only   *)
(* by the handler, and a copy holds the scheduler lock from its call to    *)
(* its return.  The engine runs beside all of them; it is external, and    *)
(* modelled as the code uses it: an enabled channel works through its ring *)
(* in order, clears VALID when a transfer is done and interrupts, and      *)
(* stops at a descriptor that is not VALID until it is enabled again.      *)
(***************************************************************************)
EXTENDS Integers, Sequences

CONSTANTS Bufs,        \* the buffers of the network pool and the heap
          None,        \* no buffer
          NDescs,      \* descriptors per channel, pcfg->nDescs
          TotalDescs,  \* NT_DXE_TOTAL_DESC_NO, 60 in the code
          HaltMax,     \* refused frames until the stall workaround, 100 in the code
          MaxRetry,    \* DXE_MAX_RETRY, 10 in the code
          Numbers,     \* received frames are numbered modulo Numbers
          MaxEvents    \* bound: suspends, deinits, spurious stops, failed configurations

Chan  == {"TX", "RX", "H2H"}
Descs == 0 .. TotalDescs - 1

ASSUME DxeAssumption ==
  /\ None \notin Bufs
  /\ NDescs \in [Chan -> Nat \ {0}]
  /\ TotalDescs \in Nat \ {0}
  /\ {HaltMax, MaxRetry, MaxEvents} \subseteq Nat
  /\ Numbers \in Nat /\ Numbers > NDescs["RX"]

VARIABLES
  halDxe,          \* "null", "partial" (allocated, not Configured) or "ready"
  pool,            \* first free descriptor: pFreeXfrDescPoolHead
  chConfigured,    \* per channel
  base,            \* per channel: its first descriptor
  pRingFreeHead,   \* per channel: offset of the descriptor the driver uses next
  staging,         \* per descriptor: StagingBuffer
  valid,           \* per descriptor: the VALID bit
  rx_buf,          \* the spare buffer of an RX channel with heap buffers
  heapType,        \* the RX channel's buffer_type is NT_DXE_BUF_HEAP
  dxe_halt_count, dxe_suspend, copy_ongoing,
  descl,           \* engine, per channel: offset of the descriptor it is at
  running,         \* engine, per channel: enabled
  irq,             \* engine: RX and H2H channels whose interrupt is raised
  pause, paused,   \* engine: the PAUSE request and PAUSED answer in DMA_CSR
  events,          \* bounded events so far
  isr, isrSrc,     \* step of the interrupt handler, channels it still serves
  pc,              \* step of a task's call: per channel, and the power task "PM"
  rxNotify,        \* the receive task has been notified
  wait_count,      \* polls of the suspend call in progress
  own,             \* per buffer: "free", "dxe" (the driver's) or "client"
  content,         \* per buffer: number of the received frame it holds, 0 once handed over
  arrived, got,    \* number of the last frame received by the engine, and handed over
  stale            \* the copy was started while the engine held one that was given up

driver == <<halDxe, pool, chConfigured, base, heapType>>
engine == <<descl, irq, pause, paused, events>>
handler == <<isr, isrSrc, rxNotify>>
bufs == <<own, content>>
rx == <<rx_buf, arrived, got>>
copy == <<copy_ongoing, stale>>
power == <<dxe_suspend, wait_count>>

vars == <<driver, pRingFreeHead, staging, valid, dxe_halt_count, running, engine,
          handler, pc, bufs, rx, copy, power>>

Free     == {b \in Bufs : own[b] = "free"}
D(c, k)  == base[c] + (k % NDescs[c])                     \* the ring is circular
Ring(c)  == {D(c, k) : k \in 0 .. NDescs[c] - 1}
HeadDesc(c) == D(c, pRingFreeHead[c])
Step(c, k) == (k + 1) % NDescs[c]
\* Tasks run when the handler does not; every other task waits for a copy.
Task     == isr = "off"
Others   == Task /\ pc["H2H"] = "idle"
Idle     == Task /\ \A t \in Chan \cup {"PM"} : pc[t] = "idle"
Unfinished == \E d \in Ring("H2H") : valid[d]
\* One of the events whose number is bounded.
Event    == events < MaxEvents /\ events' = events + 1
-----------------------------------------------------------------------------
(* Initialisation.                                                         *)

Init ==
  /\ halDxe = "null" /\ pool = 0 /\ heapType = FALSE
  /\ chConfigured = [c \in Chan |-> FALSE] /\ base = [c \in Chan |-> 0]
  /\ pRingFreeHead = [c \in Chan |-> 0] /\ descl = [c \in Chan |-> 0]
  /\ staging = [d \in Descs |-> None] /\ valid = [d \in Descs |-> FALSE]
  /\ rx_buf = None /\ dxe_halt_count = 0 /\ dxe_suspend = FALSE /\ copy_ongoing = FALSE
  /\ running = [c \in Chan |-> FALSE] /\ irq = {}
  /\ pause = FALSE /\ paused = FALSE /\ events = 0
  /\ isr = "off" /\ isrSrc = {} /\ rxNotify = FALSE
  /\ pc = [t \in Chan \cup {"PM"} |-> "idle"] /\ wait_count = 0
  /\ own = [b \in Bufs |-> "free"] /\ content = [b \in Bufs |-> 0]
  /\ arrived = 0 /\ got = 0 /\ stale = FALSE

\* The control block and its pools are allocated and the engine is started; a
\* failure leaves no control block or one that is not Configured.
nt_ndxe_init ==
  /\ Idle /\ halDxe # "ready"
  /\ halDxe' \in {"null", "partial", "ready"}
  /\ UNCHANGED <<pool, chConfigured, base, heapType, pRingFreeHead, staging, valid,
                 dxe_halt_count, running, engine, handler, pc, bufs, rx, copy, power>>

\* The engine is reset and every buffer the configured TX and RX channels hold is
\* freed.  The caller has stopped the tasks that use the channels.
nt_ndxe_deinit ==
  /\ Idle /\ halDxe = "ready" /\ Event
  /\ LET held == {staging[d] : d \in UNION {Ring(c) : c \in {x \in {"TX", "RX"} : chConfigured[x]}}}
                    \cup (IF heapType THEN {rx_buf} ELSE {})
     IN  own' = [b \in Bufs |-> IF b \in held THEN "free" ELSE own[b]]
  /\ halDxe' = "null" /\ pool' = 0 /\ heapType' = FALSE
  /\ chConfigured' = [c \in Chan |-> FALSE] /\ base' = [c \in Chan |-> 0]
  /\ pRingFreeHead' = [c \in Chan |-> 0] /\ descl' = [c \in Chan |-> 0]
  /\ staging' = [d \in Descs |-> None] /\ valid' = [d \in Descs |-> FALSE]
  /\ running' = [c \in Chan |-> FALSE] /\ irq' = {} /\ pause' = FALSE /\ paused' = FALSE
  /\ rx_buf' = None /\ dxe_suspend' = FALSE /\ rxNotify' = FALSE
  /\ arrived' = 0 /\ got' = 0 /\ content' = [b \in Bufs |-> 0]
  /\ UNCHANGED <<dxe_halt_count, isr, isrSrc, pc, copy, wait_count>>

\* k different free buffers for the first descriptors of the pool.
Supplies(k) == {f \in [0 .. k - 1 -> Free] : \A x, y \in 0 .. k - 1 : f[x] = f[y] => x = y}
Supply(k) == CHOOSE f \in Supplies(k) : TRUE
Supplied(k, d) == d \in pool .. pool + k - 1
Supply0(k) == {Supply(k)[x] : x \in 0 .. k - 1}

\* A channel takes NDescs[c] descriptors off the pool.
TakeDescs(c) ==
  /\ pool' = pool + NDescs[c]
  /\ base' = [base EXCEPT ![c] = pool]
  /\ pRingFreeHead' = [pRingFreeHead EXCEPT ![c] = 0]
  /\ descl' = [descl EXCEPT ![c] = 0]
  /\ chConfigured' = [chConfigured EXCEPT ![c] = TRUE]

CanConfig(c) ==
  /\ Others /\ halDxe = "ready" /\ ~chConfigured[c] /\ pc[c] = "idle"
  /\ TotalDescs - pool >= NDescs[c]

\* A TX or H2H channel.  StagingBuffer is left as it is.
nt_ndxe_config_channel(c) ==
  /\ c # "RX" /\ CanConfig(c)
  /\ TakeDescs(c)
  /\ UNCHANGED <<halDxe, heapType, staging, valid, dxe_halt_count, running, irq, pause,
                 paused, events, handler, pc, bufs, rx, copy, power>>

\* An RX channel: a staging buffer per descriptor, the spare buffer when they are
\* heap buffers (its allocation is not checked), all descriptors VALID, the
\* channel enabled.
ConfigRx ==
  /\ CanConfig("RX") /\ Supplies(NDescs["RX"]) # {}
  /\ TakeDescs("RX")
  /\ LET n    == NDescs["RX"]
         left == Free \ Supply0(n)
     IN  /\ staging' = [d \in Descs |-> IF Supplied(n, d) THEN Supply(n)[d - pool] ELSE staging[d]]
         /\ valid' = [d \in Descs |-> Supplied(n, d) \/ valid[d]]
         /\ heapType' \in BOOLEAN
         /\ rx_buf' \in {None} \cup (IF heapType' /\ left # {} THEN {CHOOSE b \in left : TRUE} ELSE {})
         /\ own' = [b \in Bufs |-> IF b \in Supply0(n) \cup {rx_buf'} THEN "dxe" ELSE own[b]]
  /\ running' = [running EXCEPT !["RX"] = TRUE]
  /\ UNCHANGED <<halDxe, dxe_halt_count, irq, pause, paused, events, handler, pc, content,
                 arrived, got, copy, power>>

\* The allocation for the k-th descriptor fails: the buffers of the ones before
\* it stay with descriptors that are still in the pool.
ConfigRxFails ==
  /\ CanConfig("RX") /\ Event
  /\ \E k \in 0 .. NDescs["RX"] - 1 :
        /\ Supplies(k) # {}
        /\ staging' = [d \in Descs |-> IF Supplied(k, d) THEN Supply(k)[d - pool] ELSE staging[d]]
        /\ own' = [b \in Bufs |-> IF b \in Supply0(k) THEN "dxe" ELSE own[b]]
  /\ UNCHANGED <<driver, pRingFreeHead, valid, dxe_halt_count, running, descl, irq, pause,
                 paused, handler, pc, content, rx, copy, power>>
-----------------------------------------------------------------------------
(* Handing frames to the engine.                                           *)

Usable(c) == halDxe = "ready" /\ chConfigured[c]

\* Seeded fault: refused frames are only counted.
RefuseOnly(c) ==
  /\ valid[HeadDesc(c)]
  /\ dxe_halt_count' = IF dxe_halt_count + 1 < HaltMax THEN dxe_halt_count + 1 ELSE 0
  /\ UNCHANGED <<valid, running>>

\* nt_ndxe_write_frame_to_transfer when the next descriptor is still VALID: the
\* frame is refused.  After HaltMax refusals the channel may have stalled: if the
\* engine is elsewhere in the ring every descriptor is made VALID
\* (nt_dxe_update_descctrl_in_lst), and the channel is enabled.
Refuse(c) ==
  /\ valid[HeadDesc(c)]
  /\ IF dxe_halt_count + 1 < HaltMax
     THEN dxe_halt_count' = dxe_halt_count + 1 /\ UNCHANGED <<valid, running>>
     ELSE /\ dxe_halt_count' = 0
          /\ valid' = [d \in Descs |-> valid[d] \/ /\ c # "H2H" /\ descl[c] # pRingFreeHead[c]
                                                   /\ d \in Ring(c)]
          /\ running' = [running EXCEPT ![c] = TRUE]

\* The same when it is free: the frame v goes into it and it becomes VALID.
Place(c, v) ==
  /\ ~valid[HeadDesc(c)]
  /\ staging' = [staging EXCEPT ![HeadDesc(c)] = v]
  /\ valid' = [valid EXCEPT ![HeadDesc(c)] = TRUE]
  /\ pRingFreeHead' = [pRingFreeHead EXCEPT ![c] = Step(c, pRingFreeHead[c])]
  /\ dxe_halt_count' = 0

\* ndxe_enable_dxe_desc, after VALID has been written: the channel is enabled.
Enable(c, next) ==
  /\ running' = [running EXCEPT ![c] = TRUE]
  /\ pc' = [pc EXCEPT ![c] = next]
  /\ UNCHANGED <<driver, pRingFreeHead, staging, valid, dxe_halt_count, engine, handler,
                 bufs, rx, copy, power>>

CanSend == Others /\ Usable("TX") /\ pc["TX"] = "idle" /\ ~dxe_suspend

\* Seeded fault: the descriptor's frame is freed after it has been replaced.
TxAcceptFreesNew ==
  /\ CanSend /\ Free # {}
  /\ LET b == CHOOSE x \in Free : TRUE
     IN  /\ Place("TX", b)
         /\ own' = [x \in Bufs |-> IF x = b THEN "free" ELSE own[x]]
  /\ pc' = [pc EXCEPT !["TX"] = "kick"]
  /\ UNCHANGED <<driver, running, engine, handler, content, rx, copy, power>>

\* A frame is accepted; the frame this descriptor carried before is freed.
TxAccept ==
  /\ CanSend /\ Free # {}
  /\ LET b == CHOOSE x \in Free : TRUE
     IN  /\ Place("TX", b)
         /\ own' = [x \in Bufs |-> IF x = b THEN "dxe"
                                   ELSE IF x = staging[HeadDesc("TX")] THEN "free" ELSE own[x]]
  /\ pc' = [pc EXCEPT !["TX"] = "kick"]
  /\ UNCHANGED <<driver, running, engine, handler, content, rx, copy, power>>

TxRefuse ==
  /\ CanSend /\ Refuse("TX")
  /\ UNCHANGED <<driver, pRingFreeHead, staging, engine, handler, pc, bufs, rx, copy, power>>

TxEnable == Others /\ pc["TX"] = "kick" /\ Enable("TX", "idle")
-----------------------------------------------------------------------------
(* Taking frames from the engine.  The task is notified by the callback of *)
(* the channel and then takes frames until there is none; it tries again   *)
(* when there is no replacement buffer (NDXE_NO_MEM_AVAILABLE).            *)

RxWake ==
  /\ Others /\ Usable("RX") /\ pc["RX"] = "idle" /\ rxNotify
  /\ rxNotify' = FALSE
  /\ pc' = [pc EXCEPT !["RX"] = "poll"]
  /\ UNCHANGED <<driver, pRingFreeHead, staging, valid, dxe_halt_count, running, engine,
                 isr, isrSrc, bufs, rx, copy, power>>

\* nt_ndxe_get_single_received_frame: NDXE_NO_PKTS_AVAILABLE.
RxEmpty ==
  /\ Others /\ pc["RX"] = "poll" /\ valid[HeadDesc("RX")]
  /\ Enable("RX", "idle")

\* nt_ndxe_get_single_received_frame: the frame is handed to the task, and its
\* descriptor gets a replacement: a new network buffer, or the spare buffer,
\* whose place the frame takes until the next call.
RxFrame ==
  /\ Others /\ pc["RX"] = "poll" /\ ~valid[HeadDesc("RX")]
  /\ heapType \/ Free # {}
  /\ LET stagBuff == IF heapType THEN rx_buf ELSE CHOOSE x \in Free : TRUE
         frame    == staging[HeadDesc("RX")]
     IN  /\ stagBuff # None
         /\ staging' = [staging EXCEPT ![HeadDesc("RX")] = stagBuff]
         /\ got' = content[frame]
         /\ content' = [content EXCEPT ![frame] = 0]
         /\ rx_buf' = IF heapType THEN frame ELSE rx_buf
         /\ own' = IF heapType THEN own
                   ELSE [own EXCEPT ![stagBuff] = "dxe", ![frame] = "client"]
  /\ valid' = [valid EXCEPT ![HeadDesc("RX")] = TRUE]
  /\ pRingFreeHead' = [pRingFreeHead EXCEPT !["RX"] = Step("RX", pRingFreeHead["RX"])]
  /\ pc' = [pc EXCEPT !["RX"] = "kick"]
  /\ UNCHANGED <<driver, dxe_halt_count, running, engine, handler, arrived, copy, power>>

RxEnable == Others /\ pc["RX"] = "kick" /\ Enable("RX", "poll")

\* External: the task is done with a network buffer.
ClientFree(b) ==
  /\ Others /\ own[b] = "client"
  /\ own' = [own EXCEPT ![b] = "free"]
  /\ UNCHANGED <<driver, pRingFreeHead, staging, valid, dxe_halt_count, running, engine,
                 handler, pc, content, rx, copy, power>>
-----------------------------------------------------------------------------
(* nt_dxe_memcpy.  The wait for an earlier transfer at its start never     *)
(* happens: copy_ongoing is clear whenever no copy is in progress.         *)

\* The copy gets a descriptor.
CopyCall ==
  /\ Others /\ Usable("H2H") /\ ~copy_ongoing /\ ~dxe_suspend
  /\ Place("H2H", None)
  /\ copy_ongoing' = TRUE
  /\ stale' = (Unfinished \/ "H2H" \in irq)
  /\ pc' = [pc EXCEPT !["H2H"] = "kick"]
  /\ UNCHANGED <<driver, running, engine, handler, bufs, rx, power>>

\* The ring is full: copy_ongoing is cleared again and the call returns NULL, as
\* it does, without any other effect, when the engine is suspended.
CopyRefused ==
  /\ Others /\ Usable("H2H") /\ ~copy_ongoing /\ ~dxe_suspend
  /\ Refuse("H2H")
  /\ UNCHANGED <<driver, pRingFreeHead, staging, engine, handler, pc, bufs, rx, copy, power>>

CopyEnable == Task /\ pc["H2H"] = "kick" /\ Enable("H2H", "wait")

\* Seeded fault: the flag is not reset after a timeout.
CopyWaitKeepsFlag ==
  /\ Task /\ pc["H2H"] = "wait"
  /\ pc' = [pc EXCEPT !["H2H"] = "idle"]
  /\ stale' = FALSE
  /\ UNCHANGED <<driver, pRingFreeHead, staging, valid, dxe_halt_count, running, engine,
                 handler, bufs, rx, copy_ongoing, power>>

\* The wait ends.  copy_ongoing has been cleared: the call returns dst.  Or
\* DXE_COPY_TIMEOUT_US have passed: the flag is reset, the call returns NULL, and
\* the descriptor stays with the engine.
CopyWaitEnds ==
  /\ Task /\ pc["H2H"] = "wait"
  /\ pc' = [pc EXCEPT !["H2H"] = "idle"]
  /\ copy_ongoing' = FALSE /\ stale' = FALSE
  /\ UNCHANGED <<driver, pRingFreeHead, staging, valid, dxe_halt_count, running, engine,
                 handler, bufs, rx, power>>
-----------------------------------------------------------------------------
(* The interrupt handler, ndxe_irq_handler: it reads the raised channels   *)
(* once and serves them in channel order, clearing each before calling its *)
(* callback.                                                               *)

NextChannel == IF "RX" \in isrSrc THEN "RX" ELSE "H2H"

IsrRead ==
  /\ isr = "off" /\ irq # {}
  /\ isr' = "clear" /\ isrSrc' = irq
  /\ UNCHANGED <<driver, pRingFreeHead, staging, valid, dxe_halt_count, running, engine,
                 rxNotify, pc, bufs, rx, copy, power>>

IsrClear ==
  /\ isr = "clear"
  /\ irq' = irq \ {NextChannel}
  /\ isr' = "call"
  /\ UNCHANGED <<driver, pRingFreeHead, staging, valid, dxe_halt_count, running, descl, pause,
                 paused, events, isrSrc, rxNotify, pc, bufs, rx, copy, power>>

\* Seeded fault: no callback while the engine is suspended.
IsrCallbackAwake ==
  /\ isr = "call"
  /\ copy_ongoing' = (copy_ongoing /\ (NextChannel # "H2H" \/ dxe_suspend))
  /\ rxNotify' = (rxNotify \/ (NextChannel = "RX" /\ ~dxe_suspend))
  /\ isrSrc' = isrSrc \ {NextChannel}
  /\ isr' = IF isrSrc = {NextChannel} THEN "off" ELSE "clear"
  /\ UNCHANGED <<driver, pRingFreeHead, staging, valid, dxe_halt_count, running, engine, pc,
                 bufs, rx, stale, power>>

\* cbfn: nt_dxe_cpy_done_handler for copies, the notification of the receive
\* task for RX (external).
IsrCallback ==
  /\ isr = "call"
  /\ copy_ongoing' = (copy_ongoing /\ NextChannel # "H2H")
  /\ rxNotify' = (rxNotify \/ NextChannel = "RX")
  /\ isrSrc' = isrSrc \ {NextChannel}
  /\ isr' = IF isrSrc = {NextChannel} THEN "off" ELSE "clear"
  /\ UNCHANGED <<driver, pRingFreeHead, staging, valid, dxe_halt_count, running, engine, pc,
                 bufs, rx, stale, power>>
-----------------------------------------------------------------------------
(* Suspend, resume and the preparation for sleep.                          *)

\* The channels are idle (between two transfers) and PAUSE is requested.
hal_dxe_suspend ==
  /\ Others /\ halDxe = "ready" /\ pc["PM"] = "idle" /\ Event
  /\ pause' = TRUE
  /\ wait_count' = 0
  /\ pc' = [pc EXCEPT !["PM"] = "poll"]
  /\ UNCHANGED <<driver, pRingFreeHead, staging, valid, dxe_halt_count, running, descl, irq,
                 paused, handler, bufs, rx, copy, dxe_suspend>>

\* Seeded fault: the engine counts as suspended when the reads are used up.
SuspendPollTrusting ==
  /\ Others /\ pc["PM"] = "poll"
  /\ dxe_suspend' = (dxe_suspend \/ paused \/ wait_count = MaxRetry)
  /\ IF paused \/ wait_count = MaxRetry
     THEN pc' = [pc EXCEPT !["PM"] = "idle"] /\ wait_count' = 0
     ELSE wait_count' = wait_count + 1 /\ UNCHANGED pc
  /\ UNCHANGED <<driver, pRingFreeHead, staging, valid, dxe_halt_count, running, engine,
                 handler, bufs, rx, copy>>

\* One read of PAUSED; after MaxRetry reads the call gives up, and PAUSE stays.
SuspendPoll ==
  /\ Others /\ pc["PM"] = "poll"
  /\ dxe_suspend' = (dxe_suspend \/ (paused /\ wait_count < MaxRetry))
  /\ IF paused \/ wait_count = MaxRetry
     THEN pc' = [pc EXCEPT !["PM"] = "idle"] /\ wait_count' = 0
     ELSE wait_count' = wait_count + 1 /\ UNCHANGED pc
  /\ UNCHANGED <<driver, pRingFreeHead, staging, valid, dxe_halt_count, running, engine,
                 handler, bufs, rx, copy>>

\* Nothing happens unless the suspend succeeded.
hal_dxe_resume ==
  /\ Others /\ halDxe = "ready" /\ pc["PM"] = "idle" /\ dxe_suspend
  /\ pause' = FALSE /\ paused' = FALSE /\ dxe_suspend' = FALSE
  /\ UNCHANGED <<driver, pRingFreeHead, staging, valid, dxe_halt_count, running, descl, irq,
                 events, handler, pc, bufs, rx, copy, wait_count>>

\* Seeded fault: the search for a filled descriptor starts at the ring's base.
ReconfigFromBase(c) ==
  /\ Others /\ Usable(c) /\ pc["PM"] = "idle" /\ dxe_suspend
  /\ LET filled == {k \in 0 .. NDescs[c] - 1 : ~valid[D(c, k)]}
     IN  pRingFreeHead' = IF c = "TX" \/ filled = {} THEN pRingFreeHead
                          ELSE [pRingFreeHead EXCEPT ![c] = CHOOSE k \in filled : \A x \in filled : k <= x]
  /\ valid' = [d \in Descs |-> valid[d] /\ ~(c = "TX" /\ d \in Ring(c))]
  /\ UNCHANGED <<driver, staging, dxe_halt_count, running, engine, handler, pc, bufs, rx,
                 copy, power>>

\* Called on the way to sleep.  RX: the head moves to the first descriptor that
\* holds a frame, if there is one.  TX: no descriptor stays VALID.
hal_dxe_desc_reconfig(c) ==
  /\ Others /\ Usable(c) /\ pc["PM"] = "idle" /\ dxe_suspend
  /\ LET filled == {k \in 0 .. NDescs[c] - 1 : ~valid[D(c, pRingFreeHead[c] + k)]}
     IN  pRingFreeHead' =
           IF c = "TX" \/ filled = {} THEN pRingFreeHead
           ELSE LET first == CHOOSE k \in filled : \A x \in filled : k <= x
                IN  [pRingFreeHead EXCEPT ![c] = (pRingFreeHead[c] + first) % NDescs[c]]
  /\ valid' = [d \in Descs |-> valid[d] /\ ~(c = "TX" /\ d \in Ring(c))]
  /\ UNCHANGED <<driver, staging, dxe_halt_count, running, engine, handler, pc, bufs, rx,
                 copy, power>>
-----------------------------------------------------------------------------
(* The engine (external).                                                  *)

At(c) == D(c, descl[c])
\* Frame numbers are 1 .. Numbers, round and round.
Following(n) == (n % Numbers) + 1

\* It completes the transfer of the descriptor it is at and interrupts; what the
\* callback of a TX channel does is outside this code, so that one is left out.
Transfer(c) ==
  /\ running[c] /\ ~paused /\ valid[At(c)]
  /\ valid' = [valid EXCEPT ![At(c)] = FALSE]
  /\ descl' = [descl EXCEPT ![c] = Step(c, descl[c])]
  /\ irq' = irq \cup ({c} \ {"TX"})
  /\ IF c = "RX"
     THEN /\ arrived' = Following(arrived)
          /\ content' = [content EXCEPT ![staging[At(c)]] = Following(arrived)]
     ELSE UNCHANGED <<arrived, content>>
  /\ UNCHANGED <<driver, pRingFreeHead, staging, dxe_halt_count, running, pause, paused, events,
                 handler, pc, own, rx_buf, got, copy, power>>

\* It stops at a descriptor that is not VALID; and "in some corner with
\* powersaving enabled" at one that is (hal_dxe.c:820).
Stop(c) ==
  /\ running[c] /\ ~paused
  /\ IF valid[At(c)] THEN c # "H2H" /\ Event
                     ELSE UNCHANGED events
  /\ running' = [running EXCEPT ![c] = FALSE]
  /\ UNCHANGED <<driver, pRingFreeHead, staging, valid, dxe_halt_count, descl, irq, pause,
                 paused, handler, pc, bufs, rx, copy, power>>

\* It answers a PAUSE request.
Paused ==
  /\ pause /\ ~paused
  /\ paused' = TRUE
  /\ UNCHANGED <<driver, pRingFreeHead, staging, valid, dxe_halt_count, running, descl, irq,
                 pause, events, handler, pc, bufs, rx, copy, power>>
-----------------------------------------------------------------------------
Handler == IsrRead \/ IsrClear \/ IsrCallback

Next ==
  \/ nt_ndxe_init \/ nt_ndxe_deinit \/ ConfigRx \/ ConfigRxFails
  \/ \E c \in Chan : nt_ndxe_config_channel(c) \/ Transfer(c) \/ Stop(c)
  \/ TxAccept \/ TxRefuse \/ TxEnable
  \/ RxWake \/ RxEmpty \/ RxFrame \/ RxEnable \/ \E b \in Bufs : ClientFree(b)
  \/ CopyCall \/ CopyRefused \/ CopyEnable \/ CopyWaitEnds
  \/ Handler
  \/ hal_dxe_suspend \/ SuspendPoll \/ hal_dxe_resume \/ Paused
  \/ \E c \in {"TX", "RX"} : hal_dxe_desc_reconfig(c)

Spec == Init /\ [][Next]_vars

\* The engine works, the handler and the calls in progress go on, a suspended
\* engine is resumed, and a sender whose frame was refused tries again.
Fairness ==
  /\ WF_vars(Transfer("TX")) /\ WF_vars(Paused) /\ WF_vars(Handler)
  /\ WF_vars(TxEnable) /\ WF_vars(TxRefuse)
  /\ WF_vars(CopyEnable \/ CopyWaitEnds)
  /\ WF_vars(SuspendPoll) /\ WF_vars(hal_dxe_resume)

FairSpec == Spec /\ Fairness
-----------------------------------------------------------------------------
(* Properties.                                                             *)

TypeOK ==
  /\ halDxe \in {"null", "partial", "ready"} /\ pool \in 0 .. TotalDescs
  /\ chConfigured \in [Chan -> BOOLEAN] /\ base \in [Chan -> Descs]
  /\ pRingFreeHead \in [Chan -> Nat] /\ descl \in [Chan -> Nat]
  /\ \A c \in Chan : pRingFreeHead[c] < NDescs[c] /\ descl[c] < NDescs[c]
  /\ staging \in [Descs -> Bufs \cup {None}] /\ valid \in [Descs -> BOOLEAN]
  /\ rx_buf \in Bufs \cup {None} /\ heapType \in BOOLEAN
  /\ own \in [Bufs -> {"free", "dxe", "client"}] /\ content \in [Bufs -> 0 .. Numbers]
  /\ arrived \in 0 .. Numbers /\ got \in 0 .. Numbers
  /\ running \in [Chan -> BOOLEAN] /\ irq \subseteq {"RX", "H2H"}
  /\ isr \in {"off", "clear", "call"} /\ isrSrc \subseteq {"RX", "H2H"}
  /\ pc \in [Chan \cup {"PM"} -> {"idle", "kick", "poll", "wait"}]
  /\ {dxe_suspend, copy_ongoing, stale, rxNotify, pause, paused} \subseteq BOOLEAN

\* The buffers of the rings are the driver's alone: whatever the engine may read
\* or write through a VALID descriptor, and the spare buffer, is neither free nor
\* with a client, and no two descriptors of the TX and RX rings share a buffer.
BufferSafe ==
  LET live == UNION {Ring(c) : c \in {x \in {"TX", "RX"} : chConfigured[x]}}
  IN  /\ \A d \in live : /\ staging[d] # None => own[staging[d]] = "dxe" /\ staging[d] # rx_buf
                         /\ valid[d] => staging[d] # None
                         /\ \A e \in live : staging[d] = staging[e] /\ d # e => staging[d] = None
      /\ rx_buf # None => own[rx_buf] = "dxe"

\* The task is handed the frames the engine received, each once and in order,
\* across the wrap of the ring, buffer shortages and the moves of the head before
\* sleep.
RxInOrder ==
  chConfigured["RX"] /\ ~valid[HeadDesc("RX")] => content[staging[HeadDesc("RX")]] = Following(got)

\* A received frame waits for nobody: an interrupt is raised or being served, or
\* the task is notified or at work.
NoLostRx ==
  chConfigured["RX"] /\ ~valid[HeadDesc("RX")] =>
     rxNotify \/ pc["RX"] # "idle" \/ "RX" \in irq \cup isrSrc

\* A copy that is about to be reported done is done: the engine has completed its
\* descriptor; unless it was started while the engine still held a copy that had
\* been given up, whose interrupt is then taken for its own.
CopyComplete ==
  /\ pc["H2H"] = "wait" /\ ~copy_ongoing =>
        stale \/ ~valid[D("H2H", pRingFreeHead["H2H"] + NDescs["H2H"] - 1)]
  /\ pc["H2H"] = "idle" => ~copy_ongoing

\* Between a suspend that succeeded and the resume the engine processes no
\* descriptor.
QuietWhileSuspended ==
  [][dxe_suspend /\ dxe_suspend' /\ descl' # descl => chConfigured' # chConfigured]_vars

\* A full TX ring gets room again, even when the engine stops by itself: refused
\* frames lead to the workaround.  Unless a suspend gave up waiting and left PAUSE
\* set; and only if copies cease, because they count and reset the same
\* dxe_halt_count.
PauseLeft  == pause /\ ~dxe_suspend /\ pc["PM"] = "idle"
TxFull     == Usable("TX") /\ valid[HeadDesc("TX")]
TxUnstalls ==
  <>[][~(CopyCall \/ CopyRefused)]_vars => (TxFull ~> (~TxFull \/ PauseLeft))
=============================================================================

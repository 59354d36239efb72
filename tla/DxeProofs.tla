----------------------------- MODULE DxeProofs ------------------------------
(***************************************************************************)
(* Proofs about the DMA engine driver for rings of any size and any number *)
(* of buffers: the inductive invariant, the steps that keep it, and each   *)
(* safety property of module Dxe.                                          *)
(***************************************************************************)
EXTENDS Dxe, TLAPS

-----------------------------------------------------------------------------
(* The inductive invariant.                                                *)

\* Configured channels have rings of their own below the pool's free part,
\* nothing in the free part is VALID, and only a configured channel is used.
RingInv ==
  /\ \A c \in Chan : chConfigured[c] => base[c] + NDescs[c] <= pool
  /\ \A c, e \in Chan : chConfigured[c] /\ chConfigured[e] /\ c # e =>
        base[c] + NDescs[c] <= base[e] \/ base[e] + NDescs[e] <= base[c]
  /\ \A d \in Descs : d >= pool => ~valid[d]
  /\ \A c \in Chan : running[c] \/ pc[c] # "idle" => chConfigured[c]

\* Every buffer a descriptor names, used or not, is the driver's, once.
HeldInv ==
  /\ \A d \in Descs : staging[d] # None => own[staging[d]] = "dxe" /\ staging[d] # rx_buf
  /\ \A d, e \in Descs : staging[d] # None /\ staging[d] = staging[e] => d = e
  /\ rx_buf # None => own[rx_buf] = "dxe"

\* RX descriptors always have a buffer.  TX descriptors have one once the head
\* has been round the ring; before that, those from the head on are not VALID.
FillInv ==
  /\ chConfigured["RX"] => \A x \in 0 .. NDescs["RX"] - 1 : staging[base["RX"] + x] # None
  /\ chConfigured["TX"] =>
        \/ \A x \in 0 .. NDescs["TX"] - 1 : staging[base["TX"] + x] # None
        \/ \A x \in 0 .. NDescs["TX"] - 1 :
              IF x < pRingFreeHead["TX"] THEN staging[base["TX"] + x] # None
                                         ELSE ~valid[base["TX"] + x]

\* The distance of offset x from the head of the RX ring, the number of the
\* frame k places after the last one handed over, and the engine's place and
\* the last number when m frames wait.
Behind(x) == IF x >= pRingFreeHead["RX"] THEN x - pRingFreeHead["RX"]
             ELSE x - pRingFreeHead["RX"] + NDescs["RX"]
Nth(k) == IF got + k <= Numbers THEN got + k ELSE got + k - Numbers
Ahead(m) == IF pRingFreeHead["RX"] + m < NDescs["RX"] THEN pRingFreeHead["RX"] + m
            ELSE pRingFreeHead["RX"] + m - NDescs["RX"]

\* m received frames wait: they are the m descriptors from the head on, in the
\* order of their numbers, and the engine is right behind them.
Waiting(m) ==
  /\ descl["RX"] = Ahead(m)
  /\ arrived = Nth(m)
  /\ \A x \in 0 .. NDescs["RX"] - 1 :
        /\ valid[base["RX"] + x] <=> Behind(x) >= m
        /\ Behind(x) < m => content[staging[base["RX"] + x]] = Nth(Behind(x) + 1)

RxInv ==
  /\ chConfigured["RX"] => \E m \in 0 .. NDescs["RX"] : Waiting(m)
  /\ ~chConfigured["RX"] => arrived = 0 /\ got = 0

\* The descriptor the copy in progress was placed in.
Last == D("H2H", pRingFreeHead["H2H"] + NDescs["H2H"] - 1)

\* The handler serves raised channels.  While a copy is in progress that began
\* with nothing left over, no other descriptor of its ring is VALID, and neither
\* an interrupt nor a cleared flag precedes its completion.
CopyInv ==
  /\ isr = "off" <=> isrSrc = {}
  /\ pc["H2H"] \in {"idle", "kick", "wait"}
  /\ pc["H2H"] = "idle" => ~copy_ongoing
  /\ pc["H2H"] # "idle" /\ ~stale =>
        /\ \A d \in Ring("H2H") : valid[d] => d = Last
        /\ ~copy_ongoing \/ "H2H" \in irq \cup isrSrc => ~valid[Last]

\* A driver that counts as suspended has seen the engine pause.
PauseInv == dxe_suspend => paused

BufInv == TypeOK /\ RingInv /\ HeldInv /\ FillInv

-----------------------------------------------------------------------------
(* Offsets in a ring.                                                      *)

LEMMA ModSmall == ASSUME NEW n \in Nat \ {0}, NEW x \in 0 .. n - 1 PROVE x % n = x
BY SMT

LEMMA ModWrap == ASSUME NEW n \in Nat \ {0}, NEW x \in 0 .. n - 1
                 PROVE (n + x) % n = x /\ n % n = 0
BY SMT

\* The ring of a channel is the interval of its descriptors.
LEMMA RingInterval ==
  ASSUME TypeOK, NEW c \in Chan
  PROVE  /\ NDescs[c] \in Nat \ {0} /\ base[c] \in Nat /\ pRingFreeHead[c] \in 0 .. NDescs[c] - 1
         /\ descl[c] \in 0 .. NDescs[c] - 1
         /\ \A x \in 0 .. NDescs[c] - 1 : D(c, x) = base[c] + x
         /\ Ring(c) = {base[c] + x : x \in 0 .. NDescs[c] - 1}
         /\ HeadDesc(c) = base[c] + pRingFreeHead[c]
         /\ At(c) = base[c] + descl[c]
<1>1. NDescs[c] \in Nat \ {0}
  BY DxeAssumption
<1>2. base[c] \in Nat /\ pRingFreeHead[c] \in 0 .. NDescs[c] - 1 /\ descl[c] \in 0 .. NDescs[c] - 1
  <2>1. /\ base[c] \in Descs /\ pRingFreeHead[c] \in Nat /\ descl[c] \in Nat
        /\ pRingFreeHead[c] < NDescs[c] /\ descl[c] < NDescs[c]
    BY ZenonT(40) DEF TypeOK
  <2> QED BY <1>1, <2>1 DEF Descs
<1>3. \A x \in 0 .. NDescs[c] - 1 : D(c, x) = base[c] + x
  BY ZenonT(40), <1>1, ModSmall DEF D
<1>4. Ring(c) = {base[c] + x : x \in 0 .. NDescs[c] - 1}
  BY ZenonT(40), <1>3 DEF Ring
<1> QED BY ZenonT(40), <1>1, <1>2, <1>3, <1>4 DEF HeadDesc, At

LEMMA StepIs ==
  ASSUME NEW c \in Chan, NEW x \in 0 .. NDescs[c] - 1
  PROVE  Step(c, x) = (IF x + 1 < NDescs[c] THEN x + 1 ELSE 0) /\ Step(c, x) \in 0 .. NDescs[c] - 1
<1>1. NDescs[c] \in Nat \ {0}
  BY ZenonT(40), DxeAssumption
<1>2. CASE x + 1 < NDescs[c]
  BY <1>1, <1>2, ModSmall DEF Step
<1>3. CASE x + 1 = NDescs[c]
  <2>1. NDescs[c] % NDescs[c] = 0
    BY ZenonT(40), <1>1, ModWrap
  <2> QED BY <1>1, <1>3, <2>1 DEF Step
<1> QED BY <1>1, <1>2, <1>3

LEMMA FollowingIs ==
  ASSUME NEW n \in 0 .. Numbers
  PROVE  Following(n) = (IF n < Numbers THEN n + 1 ELSE 1) /\ Following(n) \in 1 .. Numbers
<1>1. Numbers \in Nat \ {0}
  BY DxeAssumption DEF Chan
<1>2. CASE n < Numbers
  BY <1>1, <1>2, ModSmall DEF Following
<1>3. CASE n = Numbers
  <2>1. Numbers % Numbers = 0
    BY <1>1, ModWrap
  <2> QED BY <1>1, <1>3, <2>1 DEF Following
<1> QED BY <1>1, <1>2, <1>3

LEMMA PoolInt == ASSUME TypeOK PROVE pool \in Int /\ \A d \in Descs : d \in Int
<1>1. pool \in 0 .. TotalDescs
  BY ZenonT(40) DEF TypeOK
<1> QED BY <1>1 DEF Descs

\* The ring of a configured channel lies in the pool, apart from other rings.
LEMMA RingsApart ==
  ASSUME TypeOK, RingInv, NEW c \in Chan, chConfigured[c]
  PROVE  /\ \A x \in 0 .. NDescs[c] - 1 : base[c] + x \in Descs /\ base[c] + x < pool
         /\ \A e \in Chan \ {c} : chConfigured[e] =>
               \A x \in 0 .. NDescs[c] - 1, y \in 0 .. NDescs[e] - 1 : base[c] + x # base[e] + y
<1>1. \A e \in Chan : NDescs[e] \in Nat \ {0} /\ base[e] \in Nat
  BY ZenonT(40), RingInterval
<1>2. base[c] + NDescs[c] <= pool /\ pool \in 0 .. TotalDescs /\ TotalDescs \in Nat
  BY ZenonT(40), DxeAssumption DEF RingInv, TypeOK
<1>3. \A x \in 0 .. NDescs[c] - 1 : base[c] + x \in Descs /\ base[c] + x < pool
  BY <1>1, <1>2 DEF Descs
<1>4. ASSUME NEW e \in Chan \ {c}, chConfigured[e]
      PROVE  \A x \in 0 .. NDescs[c] - 1, y \in 0 .. NDescs[e] - 1 : base[c] + x # base[e] + y
  <2>1. base[c] + NDescs[c] <= base[e] \/ base[e] + NDescs[e] <= base[c]
    BY ZenonT(40), <1>4 DEF RingInv
  <2> QED BY <1>1, <2>1
<1> QED BY ZenonT(40), <1>3, <1>4

\* What is supplied are k different free buffers.
LEMMA SupplyIs ==
  ASSUME NEW k \in Nat, Supplies(k) # {}
  PROVE  /\ Supply(k) \in [0 .. k - 1 -> Free]
         /\ \A x, y \in 0 .. k - 1 : Supply(k)[x] = Supply(k)[y] => x = y
         /\ \A b : b \in Supply0(k) <=> \E x \in 0 .. k - 1 : b = Supply(k)[x]
         /\ Supply0(k) \subseteq Free
<1>1. Supply(k) \in Supplies(k)
  BY DEF Supply
<1>2. Supply(k) \in [0 .. k - 1 -> Free] /\ \A x, y \in 0 .. k - 1 : Supply(k)[x] = Supply(k)[y] => x = y
  BY ZenonT(40), <1>1 DEF Supplies
<1> QED BY ZenonT(40), <1>2 DEF Supply0

-----------------------------------------------------------------------------
(* The buffers.                                                            *)

\* Steps that leave rings, descriptors and buffers alone.
Quiet ==
  \/ nt_ndxe_init \/ \E c \in Chan : Stop(c)
  \/ TxEnable \/ RxWake \/ RxEmpty \/ RxEnable \/ CopyEnable \/ CopyWaitEnds
  \/ Handler
  \/ hal_dxe_suspend \/ SuspendPoll \/ hal_dxe_resume \/ Paused

LEMMA QuietBuf == ASSUME BufInv, Quiet PROVE BufInv'
<1> USE DEF Quiet, Handler, driver, engine, handler, bufs, rx, copy, power
<1>1. UNCHANGED <<pool, chConfigured, base, pRingFreeHead, staging, valid, rx_buf, own, content,
                  arrived, got, descl, heapType>>
  BY ZenonT(40) DEF nt_ndxe_init, Stop, TxEnable, RxWake, RxEmpty, RxEnable, CopyEnable, CopyWaitEnds,
         IsrRead, IsrClear, IsrCallback, hal_dxe_suspend, SuspendPoll, hal_dxe_resume, Paused, Enable
<1>2. /\ halDxe' \in {"null", "partial", "ready"}
      /\ irq' \subseteq {"RX", "H2H"} /\ isrSrc' \subseteq {"RX", "H2H"}
      /\ isr' \in {"off", "clear", "call"}
  BY ZenonT(40) DEF nt_ndxe_init, Stop, TxEnable, RxWake, RxEmpty, RxEnable, CopyEnable, CopyWaitEnds,
         IsrRead, IsrClear, IsrCallback, hal_dxe_suspend, SuspendPoll, hal_dxe_resume, Paused,
         Enable, BufInv, TypeOK
<1>3. dxe_suspend' \in BOOLEAN /\ copy_ongoing' \in BOOLEAN /\ stale' \in BOOLEAN
  BY ZenonT(40) DEF nt_ndxe_init, Stop, TxEnable, RxWake, RxEmpty, RxEnable, CopyEnable, CopyWaitEnds,
         IsrRead, IsrClear, IsrCallback, hal_dxe_suspend, SuspendPoll, hal_dxe_resume, Paused,
         Enable, BufInv, TypeOK
<1>4. rxNotify' \in BOOLEAN /\ pause' \in BOOLEAN /\ paused' \in BOOLEAN
  BY ZenonT(40) DEF nt_ndxe_init, Stop, TxEnable, RxWake, RxEmpty, RxEnable, CopyEnable, CopyWaitEnds,
         IsrRead, IsrClear, IsrCallback, hal_dxe_suspend, SuspendPoll, hal_dxe_resume, Paused,
         Enable, BufInv, TypeOK
<1>5. /\ running' \in [Chan -> BOOLEAN]
      /\ pc' \in [Chan \cup {"PM"} -> {"idle", "kick", "poll", "wait"}]
      /\ \A c \in Chan : running'[c] \/ pc'[c] # "idle" => chConfigured[c]
  <2> USE DEF BufInv, TypeOK, RingInv, Chan
  <2>1. CASE UNCHANGED <<running, pc>>
    BY ZenonT(40), <2>1
  <2>2. CASE TxEnable \/ RxEmpty \/ RxEnable \/ CopyEnable
    <3>1. PICK c \in Chan, next \in {"idle", "poll", "wait"} : pc[c] # "idle" /\ Enable(c, next)
      BY ZenonT(40), <2>2 DEF TxEnable, RxEmpty, RxEnable, CopyEnable
    <3>2. running' = [running EXCEPT ![c] = TRUE] /\ pc' = [pc EXCEPT ![c] = next]
      BY ZenonT(40), <3>1 DEF Enable
    <3>3. chConfigured[c]
      BY ZenonT(40), <3>1
    <3> QED BY ZenonT(40), <3>2, <3>3
  <2>3. CASE RxWake \/ CopyWaitEnds \/ hal_dxe_suspend \/ SuspendPoll
    <3>1. PICK t \in Chan \cup {"PM"}, next \in {"idle", "poll"} :
             /\ UNCHANGED running /\ pc' \in {pc, [pc EXCEPT ![t] = next]}
             /\ t = "PM" \/ pc[t] # "idle" \/ chConfigured[t]
      BY ZenonT(40), <2>3 DEF RxWake, CopyWaitEnds, hal_dxe_suspend, SuspendPoll, Usable
    <3> HIDE DEF Quiet
    <3>2. CASE pc' = pc
      BY ZenonT(40), <2>1, <3>1, <3>2
    <3>3. CASE pc' = [pc EXCEPT ![t] = next]
      <4>1. pc' \in [Chan \cup {"PM"} -> {"idle", "kick", "poll", "wait"}]
        BY ZenonT(40), <3>3
      <4>2. \A e \in Chan : pc'[e] # "idle" => pc[e] # "idle" \/ chConfigured[e]
        BY ZenonT(40), <3>1, <3>3
      <4> QED BY ZenonT(40), <3>1, <4>1, <4>2
    <3> QED BY ZenonT(40), <3>1, <3>2, <3>3
  <2>4. CASE \E c \in Chan : Stop(c)
    <3>1. PICK c \in Chan : running' = [running EXCEPT ![c] = FALSE] /\ UNCHANGED pc
      BY ZenonT(40), <2>4 DEF Stop
    <3> HIDE DEF Quiet
    <3> QED BY ZenonT(40), <3>1
  <2> QED BY ZenonT(40), <2>1, <2>2, <2>3, <2>4 DEF nt_ndxe_init, IsrRead, IsrClear, IsrCallback,
             hal_dxe_resume, Paused
<1>6. TypeOK'
  BY ZenonT(40), <1>1, <1>2, <1>3, <1>4, <1>5 DEF BufInv, TypeOK
<1>7. RingInv' /\ HeldInv' /\ FillInv'
  BY ZenonT(40), <1>1, <1>5 DEF BufInv, RingInv, HeldInv, FillInv
<1> QED BY ZenonT(40), <1>6, <1>7 DEF BufInv

LEMMA InitBuf == ASSUME Init PROVE BufInv
<1>1. \A c \in Chan : NDescs[c] \in Nat \ {0}
  BY ZenonT(40), DxeAssumption
<1>2. 0 \in Descs /\ 0 \in 0 .. TotalDescs /\ 0 \in 0 .. Numbers /\ 0 \in Nat
  BY DxeAssumption DEF Descs
<1>3. TypeOK
  <2>1. {dxe_suspend, copy_ongoing, stale, rxNotify, pause, paused} \subseteq BOOLEAN
    BY ZenonT(40) DEF Init
  <2>2. /\ chConfigured \in [Chan -> BOOLEAN] /\ running \in [Chan -> BOOLEAN]
        /\ valid \in [Descs -> BOOLEAN] /\ heapType \in BOOLEAN
        /\ pc \in [Chan \cup {"PM"} -> {"idle", "kick", "poll", "wait"}]
    BY ZenonT(40) DEF Init
  <2>3. \A c \in Chan : pRingFreeHead[c] < NDescs[c] /\ descl[c] < NDescs[c]
    BY <1>1 DEF Init
  <2> QED BY <1>2, <2>1, <2>2, <2>3 DEF Init, TypeOK
<1>4. RingInv
  <2>1. \A c \in Chan : ~chConfigured[c] /\ ~running[c] /\ pc[c] = "idle"
    BY ZenonT(40) DEF Init
  <2>2. \A d \in Descs : ~valid[d]
    BY ZenonT(40) DEF Init
  <2> QED BY ZenonT(40), <2>1, <2>2 DEF RingInv
<1>5. HeldInv
  BY ZenonT(40) DEF Init, HeldInv
<1>6. FillInv
  BY ZenonT(40) DEF Init, FillInv, Chan
<1> QED BY ZenonT(40), <1>3, <1>4, <1>5, <1>6 DEF BufInv

LEMMA DeinitBuf == ASSUME BufInv, nt_ndxe_deinit PROVE BufInv'
<1> USE DEF driver, engine, handler, bufs, rx, copy, power
<1>1. \A c \in Chan : NDescs[c] \in Nat \ {0}
  BY ZenonT(40), DxeAssumption
<1>2. 0 \in Descs /\ 0 \in 0 .. TotalDescs /\ 0 \in 0 .. Numbers /\ 0 \in Nat
  BY DxeAssumption DEF Descs
<1>3. own' \in [Bufs -> {"free", "dxe", "client"}]
  BY ZenonT(40) DEF nt_ndxe_deinit, BufInv, TypeOK
<1>4. TypeOK'
  <2>1. /\ dxe_suspend' \in BOOLEAN /\ copy_ongoing' \in BOOLEAN /\ stale' \in BOOLEAN
        /\ rxNotify' \in BOOLEAN /\ pause' \in BOOLEAN /\ paused' \in BOOLEAN
    BY ZenonT(40) DEF nt_ndxe_deinit, BufInv, TypeOK
  <2>2. /\ chConfigured' \in [Chan -> BOOLEAN] /\ running' \in [Chan -> BOOLEAN]
        /\ valid' \in [Descs -> BOOLEAN] /\ heapType' \in BOOLEAN
    BY ZenonT(40) DEF nt_ndxe_deinit
  <2>3. \A c \in Chan : pRingFreeHead'[c] < NDescs[c] /\ descl'[c] < NDescs[c]
    BY <1>1 DEF nt_ndxe_deinit
  <2> QED BY ZenonT(40), <1>2, <1>3, <2>1, <2>2, <2>3 DEF nt_ndxe_deinit, BufInv, TypeOK
<1>5. RingInv'
  <2>1. \A c \in Chan : ~chConfigured'[c] /\ ~running'[c] /\ pc'[c] = "idle"
    BY ZenonT(40) DEF nt_ndxe_deinit, Idle
  <2>2. \A d \in Descs : ~valid'[d]
    BY ZenonT(40) DEF nt_ndxe_deinit
  <2> QED BY ZenonT(40), <2>1, <2>2 DEF RingInv
<1>6. HeldInv'
  BY ZenonT(40) DEF nt_ndxe_deinit, HeldInv
<1>7. FillInv'
  BY ZenonT(40) DEF nt_ndxe_deinit, FillInv, Chan
<1> QED BY ZenonT(40), <1>4, <1>5, <1>6, <1>7 DEF BufInv

\* A channel's new ring.
LEMMA TakeDescsIs ==
  ASSUME TypeOK, RingInv, NEW c \in Chan, CanConfig(c), TakeDescs(c)
  PROVE  /\ NDescs[c] \in Nat \ {0} /\ pool \in Descs
         /\ pool' = pool + NDescs[c] /\ pool' \in 0 .. TotalDescs
         /\ base' \in [Chan -> Descs] /\ base'[c] = pool
         /\ pRingFreeHead' \in [Chan -> Nat] /\ descl' \in [Chan -> Nat]
         /\ \A e \in Chan : pRingFreeHead'[e] < NDescs[e] /\ descl'[e] < NDescs[e]
         /\ pRingFreeHead'[c] = 0 /\ descl'[c] = 0
         /\ chConfigured' \in [Chan -> BOOLEAN] /\ chConfigured'[c] /\ ~chConfigured[c]
         /\ \A e \in Chan \ {c} : /\ base'[e] = base[e] /\ chConfigured'[e] = chConfigured[e]
                                  /\ pRingFreeHead'[e] = pRingFreeHead[e] /\ descl'[e] = descl[e]
         /\ \A e \in Chan : chConfigured'[e] => base'[e] + NDescs[e] <= pool'
         /\ \A e, f \in Chan : chConfigured'[e] /\ chConfigured'[f] /\ e # f =>
              base'[e] + NDescs[e] <= base'[f] \/ base'[f] + NDescs[f] <= base'[e]
<1>1. NDescs[c] \in Nat \ {0} /\ pool \in Descs /\ pool' = pool + NDescs[c] /\ pool' \in 0 .. TotalDescs
  <2>1. NDescs[c] \in Nat \ {0} /\ TotalDescs \in Nat
    BY ZenonT(40), DxeAssumption
  <2>2. pool \in 0 .. TotalDescs /\ TotalDescs - pool >= NDescs[c] /\ pool' = pool + NDescs[c]
    BY ZenonT(40) DEF TypeOK, CanConfig, TakeDescs
  <2> QED BY <2>1, <2>2 DEF Descs
<1>2. base' \in [Chan -> Descs] /\ base'[c] = pool /\ \A e \in Chan \ {c} : base'[e] = base[e]
  BY ZenonT(40), <1>1 DEF TakeDescs, TypeOK
<1>3. /\ pRingFreeHead' \in [Chan -> Nat] /\ descl' \in [Chan -> Nat]
      /\ pRingFreeHead'[c] = 0 /\ descl'[c] = 0
      /\ \A e \in Chan \ {c} : pRingFreeHead'[e] = pRingFreeHead[e] /\ descl'[e] = descl[e]
  BY ZenonT(40) DEF TakeDescs, TypeOK
<1>4. \A e \in Chan : pRingFreeHead'[e] < NDescs[e] /\ descl'[e] < NDescs[e]
  BY <1>1, <1>3 DEF TypeOK
<1>5. /\ chConfigured' \in [Chan -> BOOLEAN] /\ chConfigured'[c] /\ ~chConfigured[c]
      /\ \A e \in Chan \ {c} : chConfigured'[e] = chConfigured[e]
  BY ZenonT(40) DEF TakeDescs, TypeOK, CanConfig
<1>6. \A e \in Chan : NDescs[e] \in Nat /\ base[e] \in Nat
  BY DxeAssumption DEF TypeOK, Descs
<1>7. pool \in Nat /\ pool' \in Nat /\ pool <= pool'
  BY <1>1 DEF Descs
<1>8. \A e \in Chan : chConfigured'[e] => base'[e] + NDescs[e] <= pool'
  BY <1>1, <1>2, <1>5, <1>6, <1>7 DEF RingInv
<1>9. ASSUME NEW e \in Chan, NEW f \in Chan, chConfigured'[e], chConfigured'[f], e # f
      PROVE  base'[e] + NDescs[e] <= base'[f] \/ base'[f] + NDescs[f] <= base'[e]
  <2>1. CASE e # c /\ f # c
    BY ZenonT(40), <2>1, <1>9, <1>2, <1>5 DEF RingInv
  <2>2. CASE e = c
    BY ZenonT(40), <2>2, <1>9, <1>2, <1>5, <1>6, <1>7 DEF RingInv
  <2>3. CASE f = c
    BY ZenonT(40), <2>3, <1>9, <1>2, <1>5, <1>6, <1>7 DEF RingInv
  <2> QED BY ZenonT(40), <2>1, <2>2, <2>3
<1> QED BY ZenonT(40), <1>1, <1>2, <1>3, <1>4, <1>5, <1>8, <1>9

LEMMA ConfigBuf == ASSUME BufInv, NEW c \in Chan, nt_ndxe_config_channel(c) PROVE BufInv'
<1> USE DEF driver, engine, handler, bufs, rx, copy, power
<1>0. TypeOK /\ RingInv /\ HeldInv /\ FillInv /\ CanConfig(c) /\ TakeDescs(c) /\ c # "RX"
  BY ZenonT(40) DEF BufInv, nt_ndxe_config_channel
<1>1. UNCHANGED <<halDxe, heapType, staging, valid, running, irq, pause, paused, isr, isrSrc,
                  rxNotify, pc, own, content, rx_buf, arrived, got, copy_ongoing, stale, dxe_suspend>>
  BY ZenonT(40) DEF nt_ndxe_config_channel
<1>2. TypeOK'
  BY ZenonT(40), <1>0, <1>1, TakeDescsIs DEF TypeOK
<1>3. HeldInv'
  BY ZenonT(40), <1>0, <1>1 DEF HeldInv
<1>4. RingInv'
  <2>1. \A d \in Descs : d >= pool' => ~valid'[d]
    <3>1. NDescs[c] \in Nat \ {0} /\ pool' = pool + NDescs[c]
      BY ZenonT(40), <1>0, TakeDescsIs
    <3>2. \A d \in Descs : d >= pool' => d >= pool
      BY <1>0, <3>1, PoolInt
    <3> QED BY ZenonT(40), <1>0, <1>1, <3>2 DEF RingInv
  <2>2. \A e \in Chan : running'[e] \/ pc'[e] # "idle" => chConfigured'[e]
    BY ZenonT(40), <1>0, <1>1, TakeDescsIs DEF RingInv
  <2> QED BY ZenonT(40), <2>1, <2>2, <1>0, TakeDescsIs DEF RingInv
<1>5. FillInv'
  <2>1. chConfigured'["RX"] => \A x \in 0 .. NDescs["RX"] - 1 : staging'[base'["RX"] + x] # None
    BY ZenonT(40), <1>0, <1>1, TakeDescsIs DEF FillInv, Chan
  <2>2. CASE c # "TX"
    BY ZenonT(40), <2>1, <2>2, <1>0, <1>1, TakeDescsIs DEF FillInv, Chan
  <2>3. CASE c = "TX"
    <3>1. /\ NDescs["TX"] \in Nat \ {0} /\ pool \in Descs /\ pool + NDescs["TX"] \in 0 .. TotalDescs
          /\ base'["TX"] = pool /\ pRingFreeHead'["TX"] = 0 /\ TotalDescs \in Nat
      BY ZenonT(40), <2>3, <1>0, TakeDescsIs, DxeAssumption
    <3>2. \A x \in 0 .. NDescs["TX"] - 1 : pool + x \in Descs /\ pool + x >= pool /\ ~(x < 0)
      BY <3>1 DEF Descs
    <3>3. \A x \in 0 .. NDescs["TX"] - 1 : ~valid'[base'["TX"] + x] /\ ~(x < pRingFreeHead'["TX"])
      BY ZenonT(40), <3>1, <3>2, <1>0, <1>1 DEF RingInv
    <3> QED BY ZenonT(40), <3>3, <2>1 DEF FillInv
  <2> QED BY ZenonT(40), <2>2, <2>3
<1> QED BY ZenonT(40), <1>2, <1>3, <1>4, <1>5 DEF BufInv

\* Buffers go to some descriptors of the pool: k of them, from the first on.
LEMMA SuppliedBuf ==
  ASSUME BufInv, NEW k \in Nat, Supplies(k) # {}, NEW spare \in Bufs \cup {None},
         spare \notin Supply0(k), spare # None => spare \in Free \/ spare = rx_buf,
         rx_buf' = spare,
         staging' = [d \in Descs |-> IF Supplied(k, d) THEN Supply(k)[d - pool] ELSE staging[d]],
         own' = [b \in Bufs |-> IF b \in Supply0(k) \cup {spare} THEN "dxe" ELSE own[b]]
  PROVE  /\ HeldInv' /\ staging' \in [Descs -> Bufs \cup {None}]
         /\ own' \in [Bufs -> {"free", "dxe", "client"}]
         /\ \A d \in Descs : IF Supplied(k, d) THEN staging'[d] # None ELSE staging'[d] = staging[d]
<1> DEFINE S == Supply(k)
<1>1. /\ S \in [0 .. k - 1 -> Free] /\ \A x, y \in 0 .. k - 1 : S[x] = S[y] => x = y
      /\ \A b : b \in Supply0(k) <=> \E x \in 0 .. k - 1 : b = S[x]
      /\ Supply0(k) \subseteq Free
  BY ZenonT(40), SupplyIs
<1>2. pool \in Nat /\ staging \in [Descs -> Bufs \cup {None}] /\ own \in [Bufs -> {"free", "dxe", "client"}]
  BY DxeAssumption DEF BufInv, TypeOK
<1>3. \A d \in Descs : Supplied(k, d) => d - pool \in 0 .. k - 1 /\ S[d - pool] \in Supply0(k)
  BY <1>1, <1>2 DEF Supplied, Descs
<1> HIDE DEF S
<1>4. Free \subseteq Bufs /\ None \notin Bufs /\ \A b \in Free : own[b] = "free"
  BY ZenonT(40), DxeAssumption DEF Free
<1>5. \A d \in Descs : IF Supplied(k, d) THEN staging'[d] = S[d - pool] ELSE staging'[d] = staging[d]
  BY ZenonT(40) DEF S
<1>6. \A d \in Descs : Supplied(k, d) => staging'[d] \in Supply0(k) /\ staging'[d] # None
  BY ZenonT(40), <1>1, <1>3, <1>4, <1>5
<1>7. \A b \in Bufs : own'[b] = IF b \in Supply0(k) \cup {spare} THEN "dxe" ELSE own[b]
  BY ZenonT(40)
<1>8. \A d \in Descs : staging[d] # None =>
         staging[d] \in Bufs /\ own[staging[d]] = "dxe" /\ staging[d] # rx_buf
  BY ZenonT(40), <1>2 DEF BufInv, HeldInv
<1>9. \A d \in Descs : staging'[d] # None => own'[staging'[d]] = "dxe" /\ staging'[d] # spare
  BY <1>1, <1>4, <1>5, <1>6, <1>7, <1>8
<1>10. ASSUME NEW d \in Descs, NEW e \in Descs, staging'[d] # None, staging'[d] = staging'[e]
       PROVE  d = e
  <2>1. CASE Supplied(k, d) /\ Supplied(k, e)
    <3>1. d - pool = e - pool
      BY <2>1, <1>1, <1>3, <1>5, <1>10
    <3> QED BY <3>1, <1>2 DEF Descs
  <2>2. CASE ~Supplied(k, d) /\ ~Supplied(k, e)
    BY ZenonT(40), <2>2, <1>5, <1>10 DEF BufInv, HeldInv
  <2>3. CASE Supplied(k, d) /\ ~Supplied(k, e)
    BY ZenonT(40), <2>3, <1>1, <1>4, <1>5, <1>6, <1>8, <1>10
  <2>4. CASE ~Supplied(k, d) /\ Supplied(k, e)
    BY ZenonT(40), <2>4, <1>1, <1>4, <1>5, <1>6, <1>8, <1>10
  <2> QED BY ZenonT(40), <2>1, <2>2, <2>3, <2>4
<1>11. spare # None => own'[spare] = "dxe"
  BY ZenonT(40), <1>7
<1>12. HeldInv'
  BY ZenonT(40), <1>9, <1>10, <1>11 DEF HeldInv
<1>13. staging' \in [Descs -> Bufs \cup {None}]
  BY ZenonT(40), <1>1, <1>2, <1>4, <1>5, <1>6
<1>14. own' \in [Bufs -> {"free", "dxe", "client"}]
  BY ZenonT(40), <1>2
<1> QED BY ZenonT(40), <1>5, <1>6, <1>12, <1>13, <1>14

LEMMA ConfigRxFailsBuf == ASSUME BufInv, ConfigRxFails PROVE BufInv'
<1> USE DEF driver, engine, handler, bufs, rx, copy, power
<1>0. TypeOK /\ RingInv /\ HeldInv /\ FillInv /\ CanConfig("RX")
  BY ZenonT(40) DEF BufInv, ConfigRxFails
<1>1. UNCHANGED <<halDxe, pool, chConfigured, base, heapType, pRingFreeHead, valid, running, descl,
                  irq, pause, paused, isr, isrSrc, rxNotify, pc, content, rx_buf, arrived, got,
                  copy_ongoing, stale, dxe_suspend>>
  BY ZenonT(40) DEF ConfigRxFails
<1>2. PICK k \in 0 .. NDescs["RX"] - 1 :
        /\ Supplies(k) # {}
        /\ staging' = [d \in Descs |-> IF Supplied(k, d) THEN Supply(k)[d - pool] ELSE staging[d]]
        /\ own' = [b \in Bufs |-> IF b \in Supply0(k) THEN "dxe" ELSE own[b]]
  BY ZenonT(40) DEF ConfigRxFails
<1>3. k \in Nat /\ pool \in Nat /\ rx_buf \in Bufs \cup {None}
  BY <1>0, DxeAssumption DEF Chan, TypeOK
<1>4. Supply0(k) \subseteq Free /\ None \notin Supply0(k)
  BY ZenonT(40), <1>0, <1>2, <1>3, SupplyIs, DxeAssumption DEF Free
<1>5. rx_buf \notin Supply0(k)
  BY ZenonT(40), <1>0, <1>4 DEF HeldInv, Free
<1>6. own' = [b \in Bufs |-> IF b \in Supply0(k) \cup {rx_buf} THEN "dxe" ELSE own[b]]
  <2>1. \A b \in Bufs : b = rx_buf => own[b] = "dxe"
    BY ZenonT(40), <1>0, DxeAssumption DEF HeldInv
  <2> QED BY ZenonT(40), <1>2, <2>1
<1>7. /\ HeldInv' /\ staging' \in [Descs -> Bufs \cup {None}]
      /\ own' \in [Bufs -> {"free", "dxe", "client"}]
      /\ \A d \in Descs : IF Supplied(k, d) THEN staging'[d] # None ELSE staging'[d] = staging[d]
  BY ZenonT(40), <1>1, <1>2, <1>3, <1>5, <1>6, SuppliedBuf
<1>8. TypeOK'
  BY ZenonT(40), <1>0, <1>1, <1>7 DEF TypeOK
<1>9. RingInv'
  BY ZenonT(40), <1>0, <1>1 DEF RingInv
<1>10. \A c \in Chan : chConfigured[c] => \A x \in 0 .. NDescs[c] - 1 : staging'[base[c] + x] = staging[base[c] + x]
  BY <1>0, <1>3, <1>7, RingsApart, RingInterval DEF Supplied
<1>11. FillInv'
  BY ZenonT(40), <1>0, <1>1, <1>10 DEF FillInv, Chan
<1> QED BY ZenonT(40), <1>7, <1>8, <1>9, <1>11 DEF BufInv

LEMMA ConfigRxBuf ==
  ASSUME BufInv, ConfigRx
  PROVE  /\ BufInv' /\ TakeDescs("RX") /\ CanConfig("RX")
         /\ \A x \in 0 .. NDescs["RX"] - 1 : valid'[base'["RX"] + x]
         /\ \A d \in Descs : d < pool => valid'[d] = valid[d]
<1> USE DEF driver, engine, handler, bufs, rx, copy, power
<1> DEFINE n == NDescs["RX"]
           left == Free \ Supply0(n)
<1>0. TypeOK /\ RingInv /\ HeldInv /\ FillInv /\ CanConfig("RX") /\ TakeDescs("RX") /\ Supplies(n) # {}
  BY ZenonT(40) DEF BufInv, ConfigRx
<1>1. UNCHANGED <<halDxe, irq, pause, paused, isr, isrSrc, rxNotify, pc, content, arrived, got,
                  copy_ongoing, stale, dxe_suspend>>
  BY ZenonT(40) DEF ConfigRx
<1>2. /\ staging' = [d \in Descs |-> IF Supplied(n, d) THEN Supply(n)[d - pool] ELSE staging[d]]
      /\ valid' = [d \in Descs |-> Supplied(n, d) \/ valid[d]]
      /\ heapType' \in BOOLEAN
      /\ rx_buf' \in {None} \cup (IF heapType' /\ left # {} THEN {CHOOSE b \in left : TRUE} ELSE {})
      /\ own' = [b \in Bufs |-> IF b \in Supply0(n) \cup {rx_buf'} THEN "dxe" ELSE own[b]]
      /\ running' = [running EXCEPT !["RX"] = TRUE]
  BY ZenonT(40) DEF ConfigRx
<1>3. n \in Nat /\ pool \in Nat
  BY <1>0, DxeAssumption DEF Chan, TypeOK
<1>4. Supply0(n) \subseteq Free /\ None \notin Supply0(n)
  BY ZenonT(40), <1>0, <1>3, SupplyIs, DxeAssumption DEF Free
<1>5. rx_buf' \in Bufs \cup {None} /\ rx_buf' \notin Supply0(n) /\ (rx_buf' # None => rx_buf' \in Free)
  BY ZenonT(40), <1>2, <1>4 DEF Free
<1> HIDE DEF left, n
<1>6. /\ HeldInv' /\ staging' \in [Descs -> Bufs \cup {None}]
      /\ own' \in [Bufs -> {"free", "dxe", "client"}]
      /\ \A d \in Descs : IF Supplied(n, d) THEN staging'[d] # None ELSE staging'[d] = staging[d]
  BY ZenonT(40), <1>0, <1>2, <1>3, <1>5, SuppliedBuf
<1>7. valid' \in [Descs -> BOOLEAN] /\ running' \in [Chan -> BOOLEAN]
  <2>1. valid' \in [Descs -> BOOLEAN]
    BY ZenonT(40), <1>2
  <2>2. running' \in [Chan -> BOOLEAN]
    BY ZenonT(40), <1>0, <1>2 DEF TypeOK
  <2> QED BY ZenonT(40), <2>1, <2>2
<1>8. TypeOK'
  BY ZenonT(40), <1>0, <1>1, <1>2, <1>5, <1>6, <1>7, TakeDescsIs DEF TypeOK, Chan
<1>9. \A d \in Descs : /\ Supplied(n, d) <=> pool <= d /\ d < pool'
                       /\ valid'[d] <=> Supplied(n, d) \/ valid[d]
  <2>1. pool' = pool + n
    BY ZenonT(40), <1>0, TakeDescsIs DEF Chan, n
  <2>2. \A d \in Descs : Supplied(n, d) <=> pool <= d /\ d < pool'
    BY <1>3, <2>1 DEF Supplied, Descs
  <2>3. \A d \in Descs : valid'[d] <=> Supplied(n, d) \/ valid[d]
    BY <1>2, Zenon
  <2> QED BY ZenonT(40), <2>2, <2>3
<1>10. RingInv'
  <2>1. \A d \in Descs : d >= pool' => ~valid'[d]
    <3>1. pool' = pool + n
      BY ZenonT(40), <1>0, TakeDescsIs DEF Chan, n
    <3> QED BY <1>0, <1>3, <1>9, <3>1 DEF RingInv, Descs
  <2>2. \A e \in Chan : running'[e] \/ pc'[e] # "idle" => chConfigured'[e]
    BY ZenonT(40), <1>0, <1>1, <1>2, TakeDescsIs DEF RingInv, Chan, TypeOK
  <2> QED BY ZenonT(40), <2>1, <2>2, <1>0, TakeDescsIs DEF RingInv, Chan
<1>11. \A x \in 0 .. NDescs["RX"] - 1 : base'["RX"] + x \in Descs /\ Supplied(n, base'["RX"] + x)
  <2>1. base'["RX"] = pool /\ pool + n \in 0 .. TotalDescs
    BY ZenonT(40), <1>0, TakeDescsIs DEF Chan, n
  <2> QED BY <1>3, <2>1, DxeAssumption DEF n, Supplied, Descs
<1>12. \A d \in Descs : d < pool => ~Supplied(n, d)
  BY <1>3 DEF Supplied, Descs
<1>13. chConfigured["TX"] => \A x \in 0 .. NDescs["TX"] - 1 :
          /\ staging'[base["TX"] + x] = staging[base["TX"] + x]
          /\ valid'[base["TX"] + x] <=> valid[base["TX"] + x]
  BY ZenonT(40), <1>0, <1>6, <1>9, <1>12, RingsApart DEF Chan
<1>14. FillInv'
  <2>1. \A x \in 0 .. NDescs["RX"] - 1 : staging'[base'["RX"] + x] # None
    BY ZenonT(40), <1>6, <1>11
  <2>2. /\ base'["TX"] = base["TX"] /\ chConfigured'["TX"] = chConfigured["TX"]
        /\ pRingFreeHead'["TX"] = pRingFreeHead["TX"]
    BY ZenonT(40), <1>0, TakeDescsIs DEF Chan
  <2>3. chConfigured'["TX"] =>
          \/ \A x \in 0 .. NDescs["TX"] - 1 : staging'[base'["TX"] + x] # None
          \/ \A x \in 0 .. NDescs["TX"] - 1 :
                IF x < pRingFreeHead'["TX"] THEN staging'[base'["TX"] + x] # None
                                            ELSE ~valid'[base'["TX"] + x]
    BY ZenonT(40), <2>2, <1>0, <1>13 DEF FillInv
  <2> QED BY ZenonT(40), <2>1, <2>3 DEF FillInv
<1>15. \A x \in 0 .. NDescs["RX"] - 1 : valid'[base'["RX"] + x]
  BY ZenonT(40), <1>9, <1>11
<1>16. \A d \in Descs : d < pool => valid'[d] = valid[d]
  BY <1>0, <1>7, <1>9, <1>12 DEF TypeOK
<1> QED BY ZenonT(40), <1>0, <1>6, <1>8, <1>10, <1>14, <1>15, <1>16 DEF BufInv

LEMMA TransferBuf ==
  ASSUME BufInv, NEW c \in Chan, Transfer(c)
  PROVE  /\ BufInv' /\ chConfigured[c] /\ At(c) \in Descs /\ base[c] + descl[c] = At(c)
         /\ valid[At(c)] /\ ~valid'[At(c)] /\ \A d \in Descs : valid'[d] => valid[d]
         /\ \A d \in Descs \ {At(c)} : valid'[d] = valid[d]
         /\ descl'[c] = (IF descl[c] + 1 < NDescs[c] THEN descl[c] + 1 ELSE 0)
         /\ \A e \in Chan \ {c} : descl'[e] = descl[e]
<1> USE DEF driver, engine, handler, bufs, rx, copy, power
<1>0. TypeOK /\ RingInv /\ HeldInv /\ FillInv
  BY DEF BufInv
<1>1. chConfigured[c]
  BY ZenonT(40), <1>0 DEF RingInv, Transfer
<1>2. At(c) = base[c] + descl[c] /\ descl[c] \in 0 .. NDescs[c] - 1 /\ At(c) \in Descs
  BY ZenonT(40), <1>0, <1>1, RingInterval, RingsApart
<1>3. valid' = [valid EXCEPT ![At(c)] = FALSE] /\ descl' = [descl EXCEPT ![c] = Step(c, descl[c])] /\ valid[At(c)]
  BY ZenonT(40) DEF Transfer
<1>4. /\ valid' \in [Descs -> BOOLEAN] /\ ~valid'[At(c)] /\ \A d \in Descs : valid'[d] => valid[d]
      /\ \A d \in Descs \ {At(c)} : valid'[d] = valid[d]
  BY ZenonT(40), <1>0, <1>2, <1>3 DEF TypeOK
<1>5. /\ descl' \in [Chan -> Nat] /\ \A e \in Chan : descl'[e] < NDescs[e]
      /\ descl'[c] = (IF descl[c] + 1 < NDescs[c] THEN descl[c] + 1 ELSE 0)
      /\ \A e \in Chan \ {c} : descl'[e] = descl[e]
  <2>1. /\ Step(c, descl[c]) = (IF descl[c] + 1 < NDescs[c] THEN descl[c] + 1 ELSE 0)
        /\ Step(c, descl[c]) \in 0 .. NDescs[c] - 1
    BY ZenonT(40), <1>2, StepIs
  <2>2. Step(c, descl[c]) \in Nat /\ Step(c, descl[c]) < NDescs[c]
    BY <2>1, DxeAssumption
  <2>3. /\ descl' \in [Chan -> Nat] /\ descl'[c] = Step(c, descl[c])
        /\ \A e \in Chan \ {c} : descl'[e] = descl[e]
    BY ZenonT(40), <1>0, <1>3, <2>2 DEF TypeOK
  <2> QED BY ZenonT(40), <1>0, <2>1, <2>2, <2>3 DEF TypeOK
<1>6. arrived' \in 0 .. Numbers /\ content' \in [Bufs -> 0 .. Numbers]
  <2>1. CASE c = "RX"
    <3>1. arrived' = Following(arrived) /\ content' = [content EXCEPT ![staging[At(c)]] = Following(arrived)]
      BY ZenonT(40), <2>1 DEF Transfer
    <3>2. Following(arrived) \in 0 .. Numbers
      BY <1>0, FollowingIs DEF TypeOK
    <3> QED BY ZenonT(40), <3>1, <3>2, <1>0 DEF TypeOK
  <2>2. CASE c # "RX"
    BY ZenonT(40), <2>2, <1>0 DEF Transfer, TypeOK
  <2> QED BY ZenonT(40), <2>1, <2>2
<1>7. irq' \subseteq {"RX", "H2H"}
  BY ZenonT(40), <1>0 DEF Transfer, TypeOK, Chan
<1>8. UNCHANGED <<halDxe, pool, chConfigured, base, heapType, pRingFreeHead, staging, running, pause,
                  paused, isr, isrSrc, rxNotify, pc, own, rx_buf, got, copy_ongoing, stale, dxe_suspend>>
  BY ZenonT(40) DEF Transfer
<1>9. TypeOK'
  BY ZenonT(40), <1>0, <1>4, <1>5, <1>6, <1>7, <1>8 DEF TypeOK
<1>10. RingInv' /\ HeldInv'
  BY ZenonT(40), <1>0, <1>4, <1>8 DEF RingInv, HeldInv
<1>11. FillInv'
  <2>1. chConfigured["TX"] => \A x \in 0 .. NDescs["TX"] - 1 : valid'[base["TX"] + x] => valid[base["TX"] + x]
    BY ZenonT(40), <1>0, <1>4, RingsApart DEF Chan
  <2> QED BY ZenonT(40), <1>0, <1>8, <2>1 DEF FillInv
<1> QED BY ZenonT(40), <1>1, <1>2, <1>3, <1>4, <1>5, <1>9, <1>10, <1>11 DEF BufInv

LEMMA RefuseBuf ==
  ASSUME BufInv, TxRefuse \/ CopyRefused
  PROVE  BufInv'
         /\ \A c \in {"RX", "H2H"} : chConfigured[c] =>
               \A x \in 0 .. NDescs[c] - 1 : valid'[base[c] + x] = valid[base[c] + x]
<1> USE DEF driver, engine, handler, bufs, rx, copy, power
<1>0. TypeOK /\ RingInv /\ HeldInv /\ FillInv
  BY DEF BufInv
<1>1. PICK c \in {"TX", "H2H"} : Usable(c) /\ Refuse(c)
  BY ZenonT(40) DEF TxRefuse, CopyRefused, CanSend
<1>2. UNCHANGED <<halDxe, pool, chConfigured, base, heapType, pRingFreeHead, staging, descl, irq, pause,
                  paused, isr, isrSrc, rxNotify, pc, own, content, rx_buf, arrived, got, copy_ongoing,
                  stale, dxe_suspend>>
  BY ZenonT(40) DEF TxRefuse, CopyRefused
<1>3. chConfigured[c] /\ c \in Chan /\ valid[HeadDesc(c)]
  BY ZenonT(40), <1>1 DEF Usable, Chan, Refuse
<1>4. /\ running' \in [Chan -> BOOLEAN] /\ \A e \in Chan : running'[e] => running[e] \/ e = c
  BY ZenonT(40), <1>0, <1>1, <1>3 DEF Refuse, TypeOK
<1>5. /\ valid' \in [Descs -> BOOLEAN]
      /\ \A d \in Descs : valid'[d] # valid[d] => c = "TX" /\ d \in Ring(c)
  <2>1. CASE UNCHANGED valid
    BY ZenonT(40), <2>1, <1>0 DEF TypeOK
  <2>2. CASE valid' = [d \in Descs |-> valid[d] \/ /\ c # "H2H" /\ descl[c] # pRingFreeHead[c]
                                                   /\ d \in Ring(c)]
    <3>1. valid' \in [Descs -> BOOLEAN]
      BY ZenonT(40), <2>2
    <3>2. \A d \in Descs : valid'[d] <=> (valid[d] \/ (c # "H2H" /\ descl[c] # pRingFreeHead[c] /\ d \in Ring(c)))
      BY <2>2, Zenon
    <3>3. \A d \in Descs : valid[d] \in BOOLEAN /\ valid'[d] \in BOOLEAN
      BY ZenonT(40), <1>0, <3>1 DEF TypeOK
    <3> QED BY ZenonT(40), <1>1, <3>1, <3>2, <3>3
  <2> QED BY ZenonT(40), <1>1, <2>1, <2>2 DEF Refuse
<1>6. TypeOK'
  BY ZenonT(40), <1>0, <1>2, <1>4, <1>5 DEF TypeOK
<1>7. HeldInv'
  BY ZenonT(40), <1>0, <1>2 DEF HeldInv
<1>8. Ring(c) = {base[c] + x : x \in 0 .. NDescs[c] - 1} /\ HeadDesc(c) = base[c] + pRingFreeHead[c]
      /\ pRingFreeHead[c] \in 0 .. NDescs[c] - 1
  BY ZenonT(40), <1>0, <1>3, RingInterval
<1>9. \A d \in Ring(c) : d \in Descs /\ d < pool
  BY ZenonT(40), <1>0, <1>3, <1>8, RingsApart
<1>10. RingInv'
  <2>1. pool \in Int /\ \A d \in Descs : d \in Int /\ valid'[d] \in BOOLEAN /\ valid[d] \in BOOLEAN
    BY ZenonT(40), <1>0, <1>5, PoolInt DEF TypeOK
  <2>2. \A d \in Descs : d >= pool => ~valid[d] /\ d \notin Ring(c)
    BY <1>0, <1>9, <2>1 DEF RingInv
  <2>3. \A d \in Descs : d >= pool' => ~valid'[d]
    BY ZenonT(40), <1>2, <1>5, <2>1, <2>2
  <2> QED BY ZenonT(40), <1>0, <1>2, <1>3, <1>4, <2>3 DEF RingInv
<1>11. FillInv'
  <2>1. CASE c = "TX"
    <3>1. valid[base["TX"] + pRingFreeHead["TX"]] /\ pRingFreeHead["TX"] \in 0 .. NDescs["TX"] - 1
      BY ZenonT(40), <2>1, <1>3, <1>8
    <3>2. chConfigured["RX"] => \A x \in 0 .. NDescs["RX"] - 1 : staging[base["RX"] + x] # None
      BY ZenonT(40), <1>0 DEF FillInv
    <3>3. ~(pRingFreeHead["TX"] < pRingFreeHead["TX"])
      BY <3>1, DxeAssumption DEF Chan
    <3>4. \A x \in 0 .. NDescs["TX"] - 1 : staging[base["TX"] + x] # None
      BY ZenonT(40), <2>1, <1>0, <1>3, <3>1, <3>3 DEF FillInv
    <3> QED BY ZenonT(40), <1>2, <3>2, <3>4 DEF FillInv
  <2>2. CASE c = "H2H"
    BY ZenonT(40), <2>2, <1>0, <1>2, <1>5, RingsApart DEF FillInv, Chan
  <2> QED BY ZenonT(40), <2>1, <2>2
<1>12. ASSUME NEW e \in {"RX", "H2H"}, chConfigured[e], NEW x \in 0 .. NDescs[e] - 1
       PROVE  valid'[base[e] + x] = valid[base[e] + x]
  <2>1. base[e] + x \in Descs
    BY ZenonT(40), <1>0, <1>12, RingsApart DEF Chan
  <2>2. CASE c = "H2H"
    BY ZenonT(40), <2>1, <2>2, <1>5
  <2>3. CASE c = "TX"
    <3>1. base[e] + x \notin Ring(c)
      BY <2>3, <1>0, <1>3, <1>8, <1>12, RingsApart DEF Chan
    <3> QED BY ZenonT(40), <2>1, <3>1, <1>5
  <2> QED BY ZenonT(40), <2>2, <2>3
<1> QED BY ZenonT(40), <1>6, <1>7, <1>10, <1>11, <1>12 DEF BufInv

-----------------------------------------------------------------------------
(* The steps that move buffers between rings, pools and tasks.             *)

\* A frame, or for a copy nothing, goes into the descriptor at the head.
LEMMA PlaceIs ==
  ASSUME BufInv, NEW c \in Chan, chConfigured[c], NEW v \in Bufs \cup {None}, Place(c, v)
  PROVE  LET h == pRingFreeHead[c]
             d == HeadDesc(c)
         IN  /\ d = base[c] + h /\ h \in 0 .. NDescs[c] - 1 /\ d \in Descs /\ d < pool /\ ~valid[d]
             /\ staging' \in [Descs -> Bufs \cup {None}] /\ valid' \in [Descs -> BOOLEAN]
             /\ staging'[d] = v /\ valid'[d]
             /\ \A e \in Descs \ {d} : staging'[e] = staging[e] /\ valid'[e] = valid[e]
             /\ pRingFreeHead' \in [Chan -> Nat]
             /\ pRingFreeHead'[c] = (IF h + 1 < NDescs[c] THEN h + 1 ELSE 0)
             /\ \A e \in Chan \ {c} : pRingFreeHead'[e] = pRingFreeHead[e]
             /\ \A e \in Chan : pRingFreeHead'[e] < NDescs[e]
             /\ \A e \in Chan \ {c} : chConfigured[e] =>
                  \A x \in 0 .. NDescs[e] - 1 : base[e] + x \in Descs \ {d}
<1>0. TypeOK /\ RingInv
  BY DEF BufInv
<1> DEFINE h == pRingFreeHead[c]
           d == HeadDesc(c)
<1>1. d = base[c] + h /\ h \in 0 .. NDescs[c] - 1
  BY ZenonT(40), <1>0, RingInterval
<1>2. d \in Descs /\ d < pool
  BY ZenonT(40), <1>0, <1>1, RingsApart
<1>3. /\ ~valid[d] /\ staging' = [staging EXCEPT ![d] = v] /\ valid' = [valid EXCEPT ![d] = TRUE]
      /\ pRingFreeHead' = [pRingFreeHead EXCEPT ![c] = Step(c, h)]
  BY ZenonT(40) DEF Place
<1>4. \A e \in Chan \ {c} : chConfigured[e] => \A x \in 0 .. NDescs[e] - 1 : base[e] + x \in Descs \ {d}
  BY ZenonT(40), <1>0, <1>1, RingsApart
<1> HIDE DEF d
<1>5. /\ staging' \in [Descs -> Bufs \cup {None}] /\ valid' \in [Descs -> BOOLEAN]
      /\ staging'[d] = v /\ valid'[d]
      /\ \A e \in Descs \ {d} : staging'[e] = staging[e] /\ valid'[e] = valid[e]
  BY ZenonT(40), <1>0, <1>2, <1>3 DEF TypeOK
<1>6. /\ Step(c, h) = (IF h + 1 < NDescs[c] THEN h + 1 ELSE 0)
      /\ Step(c, h) \in 0 .. NDescs[c] - 1
  BY ZenonT(40), <1>1, StepIs
<1>7. Step(c, h) \in Nat /\ Step(c, h) < NDescs[c]
  BY <1>6, DxeAssumption
<1>8. /\ pRingFreeHead' \in [Chan -> Nat] /\ pRingFreeHead'[c] = Step(c, h)
      /\ \A e \in Chan \ {c} : pRingFreeHead'[e] = pRingFreeHead[e]
  BY ZenonT(40), <1>0, <1>3, <1>7 DEF TypeOK
<1>9. \A e \in Chan : pRingFreeHead'[e] < NDescs[e]
  BY ZenonT(40), <1>0, <1>7, <1>8 DEF TypeOK
<1> QED BY ZenonT(40), <1>1, <1>2, <1>3, <1>4, <1>5, <1>6, <1>8, <1>9 DEF d

LEMMA TxAcceptBuf ==
  ASSUME BufInv, TxAccept
  PROVE  BufInv' /\ chConfigured["TX"] /\ \E v \in Bufs : Place("TX", v)
<1> USE DEF driver, engine, handler, bufs, rx, copy, power
<1> DEFINE d == HeadDesc("TX")
           h == pRingFreeHead["TX"]
<1>0. TypeOK /\ RingInv /\ HeldInv /\ FillInv /\ chConfigured["TX"] /\ "TX" \in Chan
  BY ZenonT(40) DEF BufInv, TxAccept, CanSend, Usable, Chan
<1>1. UNCHANGED <<halDxe, pool, chConfigured, base, heapType, running, descl, irq, pause, paused, isr,
                  isrSrc, rxNotify, content, rx_buf, arrived, got, copy_ongoing, stale, dxe_suspend>>
      /\ pc' = [pc EXCEPT !["TX"] = "kick"]
  BY ZenonT(40) DEF TxAccept
<1>2. PICK b \in Free :
        /\ Place("TX", b)
        /\ own' = [x \in Bufs |-> IF x = b THEN "dxe" ELSE IF x = staging[d] THEN "free" ELSE own[x]]
  BY ZenonT(40) DEF TxAccept
<1>3. b \in Bufs /\ own[b] = "free" /\ b # None
  BY ZenonT(40), DxeAssumption DEF Free
<1>4. /\ d = base["TX"] + h /\ h \in 0 .. NDescs["TX"] - 1 /\ d \in Descs /\ d < pool /\ ~valid[d]
      /\ staging' \in [Descs -> Bufs \cup {None}] /\ valid' \in [Descs -> BOOLEAN]
      /\ staging'[d] = b /\ valid'[d]
      /\ \A e \in Descs \ {d} : staging'[e] = staging[e] /\ valid'[e] = valid[e]
      /\ pRingFreeHead' \in [Chan -> Nat]
      /\ pRingFreeHead'["TX"] = (IF h + 1 < NDescs["TX"] THEN h + 1 ELSE 0)
      /\ \A e \in Chan : pRingFreeHead'[e] < NDescs[e]
      /\ \A e \in Chan \ {"TX"} : chConfigured[e] =>
            \A x \in 0 .. NDescs[e] - 1 : base[e] + x \in Descs \ {d}
  BY ZenonT(40), <1>0, <1>2, <1>3, PlaceIs
<1> HIDE DEF d, h
<1>5. own' \in [Bufs -> {"free", "dxe", "client"}]
  BY ZenonT(40), <1>0, <1>2 DEF TypeOK
<1>6. pc' \in [Chan \cup {"PM"} -> {"idle", "kick", "poll", "wait"}] /\ \A e \in Chan : pc'[e] # "idle" => pc[e] # "idle" \/ e = "TX"
  BY ZenonT(40), <1>0, <1>1 DEF TypeOK
<1>7. TypeOK'
  BY ZenonT(40), <1>0, <1>1, <1>4, <1>5, <1>6 DEF TypeOK
<1>8. HeldInv'
  <2>1. \A e \in Descs : staging[e] # None =>
           staging[e] \in Bufs /\ own[staging[e]] = "dxe" /\ staging[e] # rx_buf /\ staging[e] # b
    BY ZenonT(40), <1>0, <1>3 DEF HeldInv, TypeOK
  <2>2. \A e \in Descs \ {d} : staging[e] # None => staging[e] # staging[d]
    BY ZenonT(40), <1>0, <1>4 DEF HeldInv
  <2>3. rx_buf # None => rx_buf \in Bufs /\ own[rx_buf] = "dxe" /\ rx_buf # staging[d] /\ rx_buf # b
    BY ZenonT(40), <1>0, <1>3, <1>4 DEF HeldInv, TypeOK
  <2>4. own'[b] = "dxe" /\ \A x \in Bufs : x # b /\ x # staging[d] => own'[x] = own[x]
    BY ZenonT(40), <1>2, <1>3
  <2>5. \A e \in Descs : staging'[e] # None => own'[staging'[e]] = "dxe" /\ staging'[e] # rx_buf'
    <3>1. staging'[d] = b /\ own'[b] = "dxe" /\ b # rx_buf /\ rx_buf' = rx_buf
      BY ZenonT(40), <1>1, <1>3, <1>4, <2>3, <2>4
    <3>2. \A e \in Descs \ {d} : staging'[e] = staging[e]
      BY ZenonT(40), <1>4
    <3>3. \A e \in Descs \ {d} : staging[e] # None => own'[staging[e]] = "dxe" /\ staging[e] # rx_buf
      BY ZenonT(40), <2>1, <2>2, <2>4
    <3> QED BY ZenonT(40), <3>1, <3>2, <3>3
  <2>6. ASSUME NEW e \in Descs, NEW f \in Descs, staging'[e] # None, staging'[e] = staging'[f]
        PROVE  e = f
    <3>1. CASE e # d /\ f # d
      <4>1. staging[e] # None /\ staging[e] = staging[f]
        BY ZenonT(40), <1>4, <2>6, <3>1
      <4> QED BY ZenonT(40), <1>0, <4>1 DEF HeldInv
    <3>2. CASE e = d \/ f = d
      BY ZenonT(40), <1>3, <1>4, <2>1, <2>6, <3>2
    <3> QED BY ZenonT(40), <3>1, <3>2
  <2>7. rx_buf' # None => own'[rx_buf'] = "dxe"
    BY ZenonT(40), <1>1, <2>3, <2>4
  <2> QED BY ZenonT(40), <2>5, <2>6, <2>7 DEF HeldInv
<1>9. RingInv'
  <2>1. \A e \in Descs : e >= pool' => ~valid'[e]
    <3>1. d < pool
      BY ZenonT(40), <1>4
    <3>2. \A e \in Descs : e >= pool => e # d
      BY <1>0, <3>1, PoolInt
    <3> QED BY ZenonT(40), <1>0, <1>1, <1>4, <3>2 DEF RingInv
  <2> QED BY ZenonT(40), <1>0, <1>1, <1>6, <2>1 DEF RingInv
<1>10. FillInv'
  <2>1. chConfigured'["RX"] => \A x \in 0 .. NDescs["RX"] - 1 : staging'[base'["RX"] + x] # None
    BY ZenonT(40), <1>0, <1>1, <1>4 DEF FillInv, Chan
  <2>2. \A x \in 0 .. NDescs["TX"] - 1 :
          /\ base["TX"] + x \in Descs
          /\ staging[base["TX"] + x] # None => staging'[base["TX"] + x] # None
          /\ x = h => staging'[base["TX"] + x] # None
          /\ x # h => valid'[base["TX"] + x] = valid[base["TX"] + x]
    <3>1. \A x \in 0 .. NDescs["TX"] - 1 : base["TX"] + x \in Descs
      BY ZenonT(40), <1>0, RingsApart
    <3>2. d = base["TX"] + h /\ base["TX"] \in Nat /\ h \in 0 .. NDescs["TX"] - 1
      BY ZenonT(40), <1>0, <1>4, RingInterval
    <3>3. \A x \in 0 .. NDescs["TX"] - 1 : x # h => base["TX"] + x # d
      BY <3>2
    <3> QED BY ZenonT(40), <3>1, <3>3, <1>3, <1>4
  <2>3. NDescs["TX"] \in Nat \ {0} /\ h \in 0 .. NDescs["TX"] - 1
    BY ZenonT(40), DxeAssumption, <1>0, <1>4
  <2>4. CASE \A x \in 0 .. NDescs["TX"] - 1 : staging[base["TX"] + x] # None
    BY ZenonT(40), <1>1, <2>1, <2>2, <2>4 DEF FillInv
  <2>5. CASE \A x \in 0 .. NDescs["TX"] - 1 :
               IF x < h THEN staging[base["TX"] + x] # None ELSE ~valid[base["TX"] + x]
    <3>1. CASE h + 1 < NDescs["TX"]
      <4>1. pRingFreeHead'["TX"] = h + 1
        BY ZenonT(40), <1>4, <3>1
      <4>2. \A x \in 0 .. NDescs["TX"] - 1 : x = h \/ (x < h + 1 <=> x < h)
        BY <2>3
      <4>3. \A x \in 0 .. NDescs["TX"] - 1 : x < h + 1 => staging'[base["TX"] + x] # None
        BY ZenonT(40), <2>2, <2>5, <4>2
      <4>4. ~(h < h) /\ h < h + 1
        BY <2>3
      <4>5. \A x \in 0 .. NDescs["TX"] - 1 : ~(x < h + 1) => ~valid'[base["TX"] + x]
        BY ZenonT(40), <2>2, <2>5, <4>2, <4>4
      <4> QED BY ZenonT(40), <1>1, <2>1, <4>1, <4>3, <4>5 DEF FillInv
    <3>2. CASE h + 1 = NDescs["TX"]
      <4>1. \A x \in 0 .. NDescs["TX"] - 1 : x = h \/ x < h
        BY <2>3, <3>2
      <4>2. \A x \in 0 .. NDescs["TX"] - 1 : staging'[base["TX"] + x] # None
        BY ZenonT(40), <2>2, <2>5, <4>1
      <4> QED BY ZenonT(40), <1>1, <2>1, <4>2 DEF FillInv
    <3> QED BY <2>3, <3>1, <3>2
  <2> QED BY ZenonT(40), <1>0, <2>4, <2>5 DEF FillInv, h
<1> QED BY ZenonT(40), <1>0, <1>2, <1>3, <1>7, <1>8, <1>9, <1>10 DEF BufInv

LEMMA CopyCallBuf ==
  ASSUME BufInv, CopyCall
  PROVE  BufInv' /\ chConfigured["H2H"] /\ Place("H2H", None)
<1> USE DEF driver, engine, handler, bufs, rx, copy, power
<1> DEFINE d == HeadDesc("H2H")
<1>0. /\ TypeOK /\ RingInv /\ HeldInv /\ FillInv /\ chConfigured["H2H"] /\ "H2H" \in Chan
      /\ Place("H2H", None)
  BY ZenonT(40) DEF BufInv, CopyCall, Usable, Chan
<1>1. /\ UNCHANGED <<halDxe, pool, chConfigured, base, heapType, running, descl, irq, pause, paused, isr,
                     isrSrc, rxNotify, own, content, rx_buf, arrived, got, dxe_suspend>>
      /\ pc' = [pc EXCEPT !["H2H"] = "kick"]
  BY ZenonT(40) DEF CopyCall
<1>2. copy_ongoing' \in BOOLEAN /\ stale' \in BOOLEAN
  BY ZenonT(40) DEF CopyCall
<1>4. /\ d \in Descs /\ d < pool
      /\ staging' \in [Descs -> Bufs \cup {None}] /\ valid' \in [Descs -> BOOLEAN]
      /\ staging'[d] = None
      /\ \A e \in Descs \ {d} : staging'[e] = staging[e] /\ valid'[e] = valid[e]
      /\ pRingFreeHead' \in [Chan -> Nat]
      /\ \A e \in Chan \ {"H2H"} : pRingFreeHead'[e] = pRingFreeHead[e]
      /\ \A e \in Chan : pRingFreeHead'[e] < NDescs[e]
      /\ \A e \in Chan \ {"H2H"} : chConfigured[e] =>
            \A x \in 0 .. NDescs[e] - 1 : base[e] + x \in Descs \ {d}
  BY ZenonT(40), <1>0, PlaceIs
<1> HIDE DEF d
<1>6. /\ pc' \in [Chan \cup {"PM"} -> {"idle", "kick", "poll", "wait"}]
      /\ \A e \in Chan : pc'[e] # "idle" => pc[e] # "idle" \/ e = "H2H"
  BY ZenonT(40), <1>0, <1>1 DEF TypeOK
<1>7. TypeOK'
  BY ZenonT(40), <1>0, <1>1, <1>2, <1>4, <1>6 DEF TypeOK
<1>8. HeldInv'
  <2>1. own' = own /\ rx_buf' = rx_buf
    BY ZenonT(40), <1>1
  <2>2. staging'[d] = None /\ \A e \in Descs \ {d} : staging'[e] = staging[e]
    BY ZenonT(40), <1>4
  <2>3. HeldInv
    BY ZenonT(40), <1>0
  <2> QED BY ZenonT(40), <2>1, <2>2, <2>3 DEF HeldInv
<1>9. RingInv'
  <2>1. \A e \in Descs : e >= pool' => ~valid'[e]
    <3>1. d < pool
      BY ZenonT(40), <1>4
    <3>2. \A e \in Descs : e >= pool => e # d
      BY <1>0, <3>1, PoolInt
    <3> QED BY ZenonT(40), <1>0, <1>1, <1>4, <3>2 DEF RingInv
  <2> QED BY ZenonT(40), <1>0, <1>1, <1>6, <2>1 DEF RingInv
<1>10. FillInv'
  BY ZenonT(40), <1>0, <1>1, <1>4 DEF FillInv, Chan
<1> QED BY ZenonT(40), <1>0, <1>7, <1>8, <1>9, <1>10 DEF BufInv

\* What taking a received frame does to the ring.
LEMMA RxFrameIs ==
  ASSUME BufInv, RxFrame
  PROVE  LET h == pRingFreeHead["RX"]
             d == HeadDesc("RX")
             frame == staging[d]
         IN  /\ chConfigured["RX"] /\ d = base["RX"] + h /\ h \in 0 .. NDescs["RX"] - 1
             /\ d \in Descs /\ d < pool /\ ~valid[d] /\ frame \in Bufs
             /\ valid' \in [Descs -> BOOLEAN] /\ valid'[d]
             /\ \A e \in Descs \ {d} : valid'[e] = valid[e]
             /\ pRingFreeHead' \in [Chan -> Nat]
             /\ pRingFreeHead'["RX"] = (IF h + 1 < NDescs["RX"] THEN h + 1 ELSE 0)
             /\ \A e \in Chan \ {"RX"} : pRingFreeHead'[e] = pRingFreeHead[e]
             /\ \A e \in Chan : pRingFreeHead'[e] < NDescs[e]
             /\ \A e \in Chan \ {"RX"} : chConfigured[e] =>
                  \A x \in 0 .. NDescs[e] - 1 : base[e] + x \in Descs \ {d}
<1>0. TypeOK /\ RingInv /\ FillInv /\ "RX" \in Chan
  BY DEF BufInv, Chan
<1> DEFINE h == pRingFreeHead["RX"]
           d == HeadDesc("RX")
<1>1. chConfigured["RX"]
  BY ZenonT(40), <1>0 DEF RxFrame, RingInv
<1>2. d = base["RX"] + h /\ h \in 0 .. NDescs["RX"] - 1
  BY ZenonT(40), <1>0, RingInterval
<1>3. d \in Descs /\ d < pool /\ staging[d] \in Bufs
  <2>1. d \in Descs /\ d < pool
    BY ZenonT(40), <1>0, <1>1, <1>2, RingsApart
  <2>2. staging[d] # None
    BY ZenonT(40), <1>0, <1>1, <1>2 DEF FillInv
  <2>3. staging[d] \in Bufs \cup {None}
    BY ZenonT(40), <1>0, <2>1 DEF TypeOK
  <2> QED BY ZenonT(40), <2>1, <2>2, <2>3
<1>4. /\ ~valid[d] /\ valid' = [valid EXCEPT ![d] = TRUE]
      /\ pRingFreeHead' = [pRingFreeHead EXCEPT !["RX"] = Step("RX", h)]
  BY ZenonT(40) DEF RxFrame
<1>5. \A e \in Chan \ {"RX"} : chConfigured[e] => \A x \in 0 .. NDescs[e] - 1 : base[e] + x \in Descs \ {d}
  BY ZenonT(40), <1>0, <1>1, <1>2, RingsApart
<1> HIDE DEF d
<1>6. /\ valid' \in [Descs -> BOOLEAN] /\ valid'[d]
      /\ \A e \in Descs \ {d} : valid'[e] = valid[e]
  BY ZenonT(40), <1>0, <1>3, <1>4 DEF TypeOK
<1>7. /\ Step("RX", h) = (IF h + 1 < NDescs["RX"] THEN h + 1 ELSE 0)
      /\ Step("RX", h) \in 0 .. NDescs["RX"] - 1
  BY ZenonT(40), <1>0, <1>2, StepIs
<1>8. Step("RX", h) \in Nat /\ Step("RX", h) < NDescs["RX"]
  BY <1>0, <1>7, DxeAssumption
<1>9. /\ pRingFreeHead' \in [Chan -> Nat] /\ pRingFreeHead'["RX"] = Step("RX", h)
      /\ \A e \in Chan \ {"RX"} : pRingFreeHead'[e] = pRingFreeHead[e]
  BY ZenonT(40), <1>0, <1>4, <1>8 DEF TypeOK
<1>10. \A e \in Chan : pRingFreeHead'[e] < NDescs[e]
  BY ZenonT(40), <1>0, <1>8, <1>9 DEF TypeOK
<1> QED BY ZenonT(40), <1>1, <1>2, <1>3, <1>4, <1>5, <1>6, <1>7, <1>9, <1>10 DEF d

LEMMA RxFrameBuf ==
  ASSUME BufInv, RxFrame
  PROVE  /\ BufInv'
         /\ staging' \in [Descs -> Bufs \cup {None}] /\ staging'[HeadDesc("RX")] # staging[HeadDesc("RX")]
         /\ \A e \in Descs \ {HeadDesc("RX")} : staging'[e] = staging[e]
<1> USE DEF driver, engine, handler, bufs, rx, copy, power
<1> DEFINE d == HeadDesc("RX")
           frame == staging[d]
<1>0. TypeOK /\ RingInv /\ HeldInv /\ FillInv /\ "RX" \in Chan
  BY DEF BufInv, Chan
<1>1. /\ UNCHANGED <<halDxe, pool, chConfigured, base, heapType, running, descl, irq, pause, paused, isr,
                     isrSrc, rxNotify, arrived, copy_ongoing, stale, dxe_suspend>>
      /\ pc' = [pc EXCEPT !["RX"] = "kick"]
      /\ got' = content[frame] /\ content' = [content EXCEPT ![frame] = 0]
  BY ZenonT(40) DEF RxFrame
<1>2. PICK s :
        /\ s # None /\ s \in IF heapType THEN {rx_buf} ELSE Free
        /\ staging' = [staging EXCEPT ![d] = s]
        /\ rx_buf' = IF heapType THEN frame ELSE rx_buf
        /\ own' = IF heapType THEN own ELSE [own EXCEPT ![s] = "dxe", ![frame] = "client"]
  BY ZenonT(40) DEF RxFrame
<1>3. /\ chConfigured["RX"]
      /\ d \in Descs /\ d < pool /\ ~valid[d] /\ frame \in Bufs
      /\ valid' \in [Descs -> BOOLEAN] /\ valid'[d]
      /\ \A e \in Descs \ {d} : valid'[e] = valid[e]
      /\ pRingFreeHead' \in [Chan -> Nat]
      /\ \A e \in Chan \ {"RX"} : pRingFreeHead'[e] = pRingFreeHead[e]
      /\ \A e \in Chan : pRingFreeHead'[e] < NDescs[e]
      /\ \A e \in Chan \ {"RX"} : chConfigured[e] =>
            \A x \in 0 .. NDescs[e] - 1 : base[e] + x \in Descs \ {d}
  BY ZenonT(40), RxFrameIs
<1> HIDE DEF d
<1>4. s \in Bufs
  BY ZenonT(40), <1>0, <1>2 DEF TypeOK, Free
<1>5. /\ staging' \in [Descs -> Bufs \cup {None}] /\ staging'[d] = s
      /\ \A e \in Descs \ {d} : staging'[e] = staging[e]
  BY ZenonT(40), <1>0, <1>2, <1>3, <1>4 DEF TypeOK
<1>6. frame # None /\ own[frame] = "dxe" /\ frame # rx_buf
  BY ZenonT(40), <1>0, <1>3, DxeAssumption DEF HeldInv
<1>7. s # frame /\ \A e \in Descs : staging[e] # s
  BY ZenonT(40), <1>0, <1>2, <1>3, <1>6 DEF HeldInv, Free
<1> HIDE DEF frame
<1>8. rx_buf' \in Bufs \cup {None} /\ own' \in [Bufs -> {"free", "dxe", "client"}]
  <2>1. CASE heapType
    BY ZenonT(40), <2>1, <1>0, <1>2, <1>3 DEF TypeOK
  <2>2. CASE ~heapType
    BY ZenonT(40), <2>2, <1>0, <1>2, <1>3 DEF TypeOK
  <2> QED BY ZenonT(40), <2>1, <2>2
<1>9. got' \in 0 .. Numbers /\ content' \in [Bufs -> 0 .. Numbers]
  <2>1. 0 \in 0 .. Numbers
    BY DxeAssumption
  <2> QED BY ZenonT(40), <1>0, <1>1, <1>3, <2>1 DEF TypeOK
<1>10. /\ pc' \in [Chan \cup {"PM"} -> {"idle", "kick", "poll", "wait"}]
       /\ \A e \in Chan : pc'[e] # "idle" => pc[e] # "idle" \/ e = "RX"
  BY ZenonT(40), <1>0, <1>1 DEF TypeOK
<1>11. TypeOK'
  BY ZenonT(40), <1>0, <1>1, <1>3, <1>5, <1>8, <1>9, <1>10 DEF TypeOK
<1>12. HeldInv'
  <2>1. \A e \in Descs \ {d} : staging[e] # None =>
           staging[e] \in Bufs /\ own[staging[e]] = "dxe" /\ staging[e] # rx_buf /\ staging[e] # frame
    BY <1>0, <1>3 DEF HeldInv, TypeOK, frame
  <2>2. \A e, f \in Descs : staging'[e] # None /\ staging'[e] = staging'[f] => e = f
    <3>1. \A e, f \in Descs \ {d} : staging'[e] # None /\ staging'[e] = staging'[f] => e = f
      BY ZenonT(40), <1>0, <1>5 DEF HeldInv
    <3>2. \A e \in Descs \ {d} : staging'[e] # staging'[d]
      BY ZenonT(40), <1>5, <1>7
    <3> QED BY ZenonT(40), <3>1, <3>2
  <2>3. CASE heapType
    <3>1. s = rx_buf /\ rx_buf' = frame /\ own' = own
      BY ZenonT(40), <1>2, <2>3
    <3>2. \A e \in Descs : staging'[e] # None => own'[staging'[e]] = "dxe" /\ staging'[e] # rx_buf'
      BY ZenonT(40), <1>0, <1>2, <1>5, <1>7, <2>1, <3>1 DEF HeldInv
    <3> QED BY ZenonT(40), <1>6, <2>2, <3>1, <3>2 DEF HeldInv
  <2>4. CASE ~heapType
    <3>1. s \in Free /\ rx_buf' = rx_buf /\ own' = [own EXCEPT ![s] = "dxe", ![frame] = "client"]
      BY ZenonT(40), <1>2, <2>4
    <3>2. own[s] = "free"
      BY ZenonT(40), <3>1 DEF Free
    <3>3. own'[s] = "dxe" /\ \A x \in Bufs : x # s /\ x # frame => own'[x] = own[x]
      BY ZenonT(40), <1>0, <1>3, <1>4, <1>7, <3>1 DEF TypeOK
    <3>4. \A e \in Descs : staging'[e] # None => own'[staging'[e]] = "dxe" /\ staging'[e] # rx_buf'
      <4>1. s # rx_buf
        BY ZenonT(40), <1>0, <1>2, <3>2 DEF HeldInv
      <4> QED BY ZenonT(40), <1>5, <1>7, <2>1, <3>1, <3>3, <4>1
    <3>5. rx_buf' # None => own'[rx_buf'] = "dxe"
      <4>1. rx_buf # None => rx_buf \in Bufs /\ own[rx_buf] = "dxe" /\ rx_buf # frame /\ rx_buf # s
        BY ZenonT(40), <1>0, <1>6, <3>2 DEF HeldInv, TypeOK
      <4> QED BY ZenonT(40), <3>1, <3>3, <4>1
    <3> QED BY ZenonT(40), <2>2, <3>4, <3>5 DEF HeldInv
  <2> QED BY ZenonT(40), <2>3, <2>4
<1>13. RingInv'
  <2>1. \A e \in Descs : e >= pool' => ~valid'[e]
    <3>1. d < pool /\ pool \in Nat
      BY <1>0, <1>3, DxeAssumption DEF TypeOK
    <3>2. \A e \in Descs : e >= pool => e # d
      BY <3>1 DEF Descs
    <3> QED BY ZenonT(40), <1>0, <1>1, <1>3, <3>2 DEF RingInv
  <2> QED BY ZenonT(40), <1>0, <1>1, <1>3, <1>10, <2>1 DEF RingInv
<1>14. FillInv'
  <2>1. \A x \in 0 .. NDescs["RX"] - 1 : staging'[base'["RX"] + x] # None
    BY ZenonT(40), <1>0, <1>1, <1>2, <1>3, <1>5, RingsApart DEF FillInv
  <2>2. chConfigured["TX"] => \A x \in 0 .. NDescs["TX"] - 1 :
          staging'[base["TX"] + x] = staging[base["TX"] + x] /\ valid'[base["TX"] + x] = valid[base["TX"] + x]
    BY ZenonT(40), <1>3, <1>5 DEF Chan
  <2>3. pRingFreeHead'["TX"] = pRingFreeHead["TX"]
    BY ZenonT(40), <1>3 DEF Chan
  <2> QED BY ZenonT(40), <1>0, <1>1, <2>1, <2>2, <2>3 DEF FillInv
<1> QED BY ZenonT(40), <1>5, <1>7, <1>11, <1>12, <1>13, <1>14 DEF BufInv, d, frame

LEMMA ClientFreeBuf == ASSUME BufInv, NEW b \in Bufs, ClientFree(b) PROVE BufInv'
<1> USE DEF driver, engine, handler, bufs, rx, copy, power
<1>0. TypeOK /\ RingInv /\ HeldInv /\ FillInv
  BY DEF BufInv
<1>1. UNCHANGED <<halDxe, pool, chConfigured, base, heapType, pRingFreeHead, staging, valid, running,
                  descl, irq, pause, paused, isr, isrSrc, rxNotify, pc, content, rx_buf, arrived, got,
                  copy_ongoing, stale, dxe_suspend>>
  BY ZenonT(40) DEF ClientFree
<1>2. /\ own[b] = "client" /\ own' \in [Bufs -> {"free", "dxe", "client"}]
      /\ \A x \in Bufs \ {b} : own'[x] = own[x]
  BY ZenonT(40), <1>0 DEF ClientFree, TypeOK
<1>3. TypeOK'
  BY ZenonT(40), <1>0, <1>1, <1>2 DEF TypeOK
<1>4. RingInv' /\ FillInv'
  BY ZenonT(40), <1>0, <1>1 DEF RingInv, FillInv
<1>5. HeldInv'
  <2>1. (\A d \in Descs : staging[d] \in Bufs \cup {None}) /\ rx_buf \in Bufs \cup {None}
    BY ZenonT(40), <1>0 DEF TypeOK
  <2> QED BY ZenonT(40), <1>0, <1>1, <1>2, <2>1 DEF HeldInv
<1> QED BY ZenonT(40), <1>3, <1>4, <1>5 DEF BufInv

\* The frames that wait begin at the head, so the preparation for sleep, which
\* moves the head to the first of them, leaves it where it is.
LEMMA ReconfigHead ==
  ASSUME BufInv, RxInv, NEW c \in {"TX", "RX"}, hal_dxe_desc_reconfig(c)
  PROVE  pRingFreeHead' = pRingFreeHead
<1> DEFINE n == NDescs["RX"]
           h == pRingFreeHead["RX"]
           filled == {k \in 0 .. n - 1 : ~valid[D("RX", h + k)]}
<1>1. CASE c = "TX"
  BY ZenonT(40), <1>1 DEF hal_dxe_desc_reconfig
<1>2. CASE c = "RX"
  <2>1. chConfigured["RX"] /\ "RX" \in Chan /\ TypeOK
    BY ZenonT(40), <1>2 DEF hal_dxe_desc_reconfig, Usable, Chan, BufInv
  <2>2. PICK m \in 0 .. n : Waiting(m)
    BY ZenonT(40), <2>1 DEF RxInv
  <2>3. n \in Nat \ {0} /\ h \in 0 .. n - 1 /\ base["RX"] \in Nat
    BY ZenonT(40), <2>1, RingInterval
  <2>4. ASSUME NEW k \in 0 .. n - 1 PROVE valid[D("RX", h + k)] <=> k >= m
    <3>1. CASE h + k < n
      <4>1. D("RX", h + k) = base["RX"] + (h + k)
        BY <2>1, <2>3, <3>1, RingInterval
      <4>2. Behind(h + k) = k
        BY <2>3, <3>1 DEF Behind
      <4>3. h + k \in 0 .. NDescs["RX"] - 1
        BY <2>3, <3>1
      <4> QED BY ZenonT(40), <2>2, <4>1, <4>2, <4>3 DEF Waiting
    <3>2. CASE h + k >= n
      <4> DEFINE x == h + k - n
      <4>1. x \in 0 .. n - 1 /\ h + k = n + x /\ x < h
        BY <2>3, <3>2
      <4>2. D("RX", h + k) = base["RX"] + x
        BY ZenonT(40), <2>3, <4>1, ModWrap DEF D
      <4>3. Behind(x) = k
        BY <2>3, <4>1 DEF Behind
      <4> HIDE DEF x
      <4> QED BY ZenonT(40), <2>2, <4>1, <4>2, <4>3 DEF Waiting
    <3> QED BY <2>3, <3>1, <3>2
  <2>5. pRingFreeHead' = IF filled = {} THEN pRingFreeHead
                         ELSE LET first == CHOOSE k \in filled : \A x \in filled : k <= x
                              IN  [pRingFreeHead EXCEPT !["RX"] = (h + first) % n]
    BY <1>2 DEF hal_dxe_desc_reconfig
  <2>6. CASE m = 0
    <3>1. filled = {}
      BY <2>3, <2>4, <2>6
    <3> QED BY ZenonT(40), <2>5, <3>1
  <2>7. CASE m > 0
    <3>1. 0 \in filled /\ \A x \in filled : x \in Nat
      BY <2>3, <2>4, <2>7
    <3> HIDE DEF filled
    <3>2. (CHOOSE k \in filled : \A x \in filled : k <= x) = 0
      BY <3>1
    <3>3. (h + 0) % n = h
      BY <2>3, ModSmall
    <3>4. pRingFreeHead' = [pRingFreeHead EXCEPT !["RX"] = h]
      BY ZenonT(40), <2>5, <3>1, <3>2, <3>3
    <3> QED BY ZenonT(40), <2>1, <3>4 DEF TypeOK
  <2> QED BY <2>6, <2>7
<1> QED BY ZenonT(40), <1>1, <1>2

LEMMA ReconfigBuf ==
  ASSUME BufInv, RxInv, NEW c \in {"TX", "RX"}, hal_dxe_desc_reconfig(c)
  PROVE  /\ BufInv' /\ pRingFreeHead' = pRingFreeHead
         /\ \A e \in {"RX", "H2H"} : chConfigured[e] =>
               \A x \in 0 .. NDescs[e] - 1 : valid'[base[e] + x] = valid[base[e] + x]
<1> USE DEF driver, engine, handler, bufs, rx, copy, power
<1>0. TypeOK /\ RingInv /\ HeldInv /\ FillInv /\ c \in Chan /\ chConfigured[c]
  BY ZenonT(40) DEF BufInv, Chan, hal_dxe_desc_reconfig, Usable
<1>1. UNCHANGED <<halDxe, pool, chConfigured, base, heapType, pRingFreeHead, staging, running, descl, irq,
                  pause, paused, isr, isrSrc, rxNotify, pc, own, content, rx_buf, arrived, got,
                  copy_ongoing, stale, dxe_suspend>>
  BY ZenonT(40), ReconfigHead DEF hal_dxe_desc_reconfig
<1>2. valid' \in [Descs -> BOOLEAN]
  BY ZenonT(40) DEF hal_dxe_desc_reconfig
<1>3. \A d \in Descs : valid'[d] <=> valid[d] /\ ~(c = "TX" /\ d \in Ring(c))
  BY ZenonT(40) DEF hal_dxe_desc_reconfig
<1>4. TypeOK'
  BY ZenonT(40), <1>0, <1>1, <1>2 DEF TypeOK
<1>5. RingInv' /\ HeldInv'
  BY ZenonT(40), <1>0, <1>1, <1>3 DEF RingInv, HeldInv
<1>6. FillInv'
  <2>1. chConfigured["TX"] => \A x \in 0 .. NDescs["TX"] - 1 : valid'[base["TX"] + x] => valid[base["TX"] + x]
    BY ZenonT(40), <1>0, <1>3, RingsApart DEF Chan
  <2> QED BY ZenonT(40), <1>0, <1>1, <2>1 DEF FillInv
<1>7. ASSUME NEW e \in {"RX", "H2H"}, chConfigured[e], NEW x \in 0 .. NDescs[e] - 1
      PROVE  valid'[base[e] + x] = valid[base[e] + x]
  <2>1. base[e] + x \in Descs
    BY ZenonT(40), <1>0, <1>7, RingsApart DEF Chan
  <2>2. ~(c = "TX" /\ base[e] + x \in Ring(c))
    BY <1>0, <1>7, RingsApart, RingInterval DEF Chan
  <2>3. valid[base[e] + x] \in BOOLEAN /\ valid'[base[e] + x] \in BOOLEAN
    BY ZenonT(40), <1>0, <1>2, <2>1 DEF TypeOK
  <2> QED BY <1>3, <2>1, <2>2, <2>3
<1> QED BY ZenonT(40), <1>1, <1>4, <1>5, <1>6, <1>7 DEF BufInv

-----------------------------------------------------------------------------
(* Received frames.                                                        *)

\* The RX ring and its frames are left alone.
RxKept ==
  /\ chConfigured'["RX"] = chConfigured["RX"] /\ base'["RX"] = base["RX"]
  /\ pRingFreeHead'["RX"] = pRingFreeHead["RX"] /\ descl'["RX"] = descl["RX"]
  /\ got' = got /\ arrived' = arrived /\ content' = content
  /\ chConfigured["RX"] => \A x \in 0 .. NDescs["RX"] - 1 :
        /\ valid'[base["RX"] + x] = valid[base["RX"] + x]
        /\ staging'[base["RX"] + x] = staging[base["RX"] + x]

LEMMA KeptRx == ASSUME RxInv, RxKept PROVE RxInv'
<1>1. CASE ~chConfigured["RX"]
  BY ZenonT(40), <1>1 DEF RxInv, RxKept
<1>2. CASE chConfigured["RX"]
  <2>1. PICK m \in 0 .. NDescs["RX"] : Waiting(m)
    BY ZenonT(40), <1>2 DEF RxInv
  <2>2. \A x : Behind(x)' = Behind(x) /\ Nth(x)' = Nth(x) /\ Ahead(x)' = Ahead(x)
    BY ZenonT(40) DEF RxKept, Behind, Nth, Ahead
  <2>3. Waiting(m)'
    BY ZenonT(40), <1>2, <2>1, <2>2 DEF RxKept, Waiting
  <2> QED BY ZenonT(40), <1>2, <2>3 DEF RxKept, RxInv
<1> QED BY ZenonT(40), <1>1, <1>2

\* Steps that have no part in receiving.
LEMMA OtherKept ==
  ASSUME BufInv, RxInv,
         \/ Quiet \/ ConfigRxFails \/ TxRefuse \/ CopyRefused \/ TxAccept \/ CopyCall
         \/ \E c \in Chan : nt_ndxe_config_channel(c) \/ (c # "RX" /\ Transfer(c))
         \/ \E b \in Bufs : ClientFree(b)
         \/ \E c \in {"TX", "RX"} : hal_dxe_desc_reconfig(c)
  PROVE  RxKept
<1> USE DEF driver, engine, handler, bufs, rx, copy, power
<1>0. TypeOK /\ RingInv /\ "RX" \in Chan
  BY ZenonT(40) DEF BufInv, Chan
<1>1. CASE Quiet
  BY ZenonT(40), <1>1 DEF Quiet, RxKept, nt_ndxe_init, Stop, TxEnable, RxWake, RxEmpty, RxEnable, CopyEnable,
         CopyWaitEnds, Handler, IsrRead, IsrClear, IsrCallback, hal_dxe_suspend, SuspendPoll,
         hal_dxe_resume, Paused, Enable
<1>2. CASE ConfigRxFails
  BY ZenonT(40), <1>2 DEF ConfigRxFails, CanConfig, RxKept
<1>3. CASE TxRefuse \/ CopyRefused
  <2>1. UNCHANGED <<chConfigured, base, pRingFreeHead, staging, descl, got, arrived, content>>
    BY ZenonT(40), <1>3 DEF TxRefuse, CopyRefused
  <2> QED BY ZenonT(40), <1>3, <2>1, RefuseBuf DEF RxKept
<1>4. CASE TxAccept \/ CopyCall
  <2>1. PICK c \in {"TX", "H2H"}, v \in Bufs \cup {None} : chConfigured[c] /\ Place(c, v)
    BY ZenonT(40), <1>4, TxAcceptBuf, CopyCallBuf
  <2>2. UNCHANGED <<chConfigured, base, descl, got, arrived, content>>
    BY ZenonT(40), <1>4 DEF TxAccept, CopyCall
  <2>3. /\ \A e \in Descs \ {HeadDesc(c)} : staging'[e] = staging[e] /\ valid'[e] = valid[e]
        /\ pRingFreeHead'["RX"] = pRingFreeHead["RX"]
        /\ chConfigured["RX"] => \A x \in 0 .. NDescs["RX"] - 1 : base["RX"] + x \in Descs \ {HeadDesc(c)}
    BY <2>1, PlaceIs DEF Chan
  <2> QED BY ZenonT(40), <2>2, <2>3 DEF RxKept
<1>5. ASSUME NEW c \in Chan, nt_ndxe_config_channel(c) PROVE RxKept
  <2>1. CanConfig(c) /\ TakeDescs(c) /\ c # "RX"
    BY ZenonT(40), <1>5 DEF nt_ndxe_config_channel
  <2>2. UNCHANGED <<staging, valid, got, arrived, content>>
    BY ZenonT(40), <1>5 DEF nt_ndxe_config_channel
  <2> QED BY ZenonT(40), <1>0, <2>1, <2>2, TakeDescsIs DEF RxKept
<1>6. ASSUME NEW c \in Chan, c # "RX", Transfer(c) PROVE RxKept
  <2>1. UNCHANGED <<chConfigured, base, pRingFreeHead, staging, got, arrived, content>>
    BY ZenonT(40), <1>6 DEF Transfer
  <2>2. /\ chConfigured[c] /\ \A d \in Descs \ {At(c)} : valid'[d] = valid[d]
        /\ descl'["RX"] = descl["RX"]
    BY ZenonT(40), <1>0, <1>6, TransferBuf
  <2>3. chConfigured["RX"] => \A x \in 0 .. NDescs["RX"] - 1 : base["RX"] + x \in Descs \ {At(c)}
    <3>1. At(c) = base[c] + descl[c] /\ descl[c] \in 0 .. NDescs[c] - 1
      BY ZenonT(40), <1>0, RingInterval
    <3> QED BY ZenonT(40), <1>0, <1>6, <2>2, <3>1, RingsApart
  <2> QED BY ZenonT(40), <2>1, <2>2, <2>3 DEF RxKept
<1>7. CASE \E b \in Bufs : ClientFree(b)
  BY ZenonT(40), <1>7 DEF ClientFree, RxKept
<1>8. ASSUME NEW c \in {"TX", "RX"}, hal_dxe_desc_reconfig(c) PROVE RxKept
  <2>1. UNCHANGED <<chConfigured, base, staging, descl, got, arrived, content>>
    BY ZenonT(40), <1>8 DEF hal_dxe_desc_reconfig
  <2> QED BY ZenonT(40), <1>8, <2>1, ReconfigBuf DEF RxKept
<1> QED BY ZenonT(40), <1>1, <1>2, <1>3, <1>4, <1>5, <1>6, <1>7, <1>8

LEMMA ConfigRxRx == ASSUME BufInv, RxInv, ConfigRx PROVE RxInv'
<1> USE DEF rx
<1>0. TypeOK /\ RingInv /\ "RX" \in Chan /\ CanConfig("RX") /\ TakeDescs("RX")
      /\ \A x \in 0 .. NDescs["RX"] - 1 : valid'[base'["RX"] + x]
  BY ZenonT(40), ConfigRxBuf DEF BufInv, Chan
<1>1. /\ NDescs["RX"] \in Nat \ {0} /\ chConfigured'["RX"] /\ ~chConfigured["RX"]
      /\ pRingFreeHead'["RX"] = 0 /\ descl'["RX"] = 0
  BY ZenonT(40), <1>0, TakeDescsIs
<1>2. arrived' = 0 /\ got' = 0
  BY ZenonT(40), <1>1 DEF ConfigRx, RxInv
<1>3. Ahead(0)' = 0 /\ Nth(0)' = 0 /\ \A x \in 0 .. NDescs["RX"] - 1 : Behind(x)' = x
  BY <1>1, <1>2, DxeAssumption DEF Ahead, Nth, Behind
<1>4. Waiting(0)'
  BY <1>0, <1>1, <1>2, <1>3 DEF Waiting
<1> QED BY <1>1, <1>4 DEF RxInv

-----------------------------------------------------------------------------
(* Received frames and copies, and the theorems.                           *)

LEMMA TransferRx == ASSUME BufInv, RxInv, Transfer("RX") PROVE RxInv'
<1> DEFINE n == NDescs["RX"]
           h == pRingFreeHead["RX"]
           b == base["RX"]
<1>0. TypeOK /\ RingInv /\ HeldInv /\ FillInv /\ "RX" \in Chan
  BY DEF BufInv, Chan
<1>1. /\ chConfigured["RX"] /\ At("RX") \in Descs /\ b + descl["RX"] = At("RX")
      /\ valid[At("RX")] /\ ~valid'[At("RX")]
      /\ \A d \in Descs \ {At("RX")} : valid'[d] = valid[d]
      /\ descl'["RX"] = (IF descl["RX"] + 1 < n THEN descl["RX"] + 1 ELSE 0)
  BY ZenonT(40), <1>0, TransferBuf
<1>2. n \in Nat \ {0} /\ b \in Nat /\ h \in 0 .. n - 1 /\ descl["RX"] \in 0 .. n - 1
      /\ Numbers \in Nat /\ Numbers > n /\ got \in 0 .. Numbers /\ arrived \in 0 .. Numbers
  BY ZenonT(40), <1>0, RingInterval, DxeAssumption DEF TypeOK
<1>3. PICK m \in 0 .. n : Waiting(m)
  BY ZenonT(40), <1>1 DEF RxInv
<1>4. UNCHANGED <<chConfigured, base, pRingFreeHead, staging, got>>
  BY ZenonT(40) DEF Transfer, driver
<1>5. arrived' = Following(arrived) /\ content' = [content EXCEPT ![staging[At("RX")]] = Following(arrived)]
  BY ZenonT(40) DEF Transfer
<1>6. \A x : Behind(x)' = Behind(x) /\ Nth(x)' = Nth(x) /\ Ahead(x)' = Ahead(x)
  BY ZenonT(40), <1>4 DEF Behind, Nth, Ahead
<1>7. descl["RX"] = Ahead(m) /\ arrived = Nth(m)
  BY ZenonT(40), <1>3 DEF Waiting
\* The engine's descriptor is VALID, so there is room for the frame.
<1>8. m < n /\ Behind(descl["RX"]) = m
  <2>1. Behind(descl["RX"]) >= m
    BY ZenonT(40), <1>1, <1>2, <1>3 DEF Waiting
  <2>2. Behind(descl["RX"]) < n
    BY <1>2 DEF Behind
  <2>3. m < n
    BY <1>2, <2>1, <2>2 DEF Behind
  <2> QED BY <1>2, <1>7, <2>3 DEF Behind, Ahead
<1>9. descl'["RX"] = Ahead(m + 1)
  BY <1>1, <1>2, <1>7, <1>8 DEF Ahead
<1>10. Following(arrived) = Nth(m + 1)
  <2>1. Following(arrived) = (IF arrived < Numbers THEN arrived + 1 ELSE 1)
    BY ZenonT(40), <1>2, FollowingIs
  <2> QED BY <1>2, <1>7, <1>8, <2>1 DEF Nth
<1>11. ASSUME NEW x \in 0 .. n - 1
       PROVE  /\ valid'[b + x] <=> Behind(x) >= m + 1
              /\ Behind(x) < m + 1 => content'[staging[b + x]] = Nth(Behind(x) + 1)
  <2>1. b + x \in Descs /\ staging[b + x] \in Bufs /\ staging[At("RX")] \in Bufs
    <3>1. b + x \in Descs /\ staging[b + x] # None /\ staging[b + descl["RX"]] # None
      BY ZenonT(40), <1>0, <1>1, <1>2, RingsApart DEF FillInv
    <3>2. staging \in [Descs -> Bufs \cup {None}]
      BY ZenonT(40), <1>0 DEF TypeOK
    <3> QED BY ZenonT(40), <1>1, <3>1, <3>2
  <2>2. /\ valid[b + x] <=> Behind(x) >= m
        /\ Behind(x) < m => content[staging[b + x]] = Nth(Behind(x) + 1)
    BY ZenonT(40), <1>3 DEF Waiting
  <2>3. CASE x = descl["RX"]
    <3>1. content'[staging[b + x]] = Following(arrived)
      BY ZenonT(40), <1>0, <1>1, <1>5, <2>1, <2>3 DEF TypeOK
    <3> QED BY <1>1, <1>2, <1>8, <1>10, <2>3, <3>1
  <2>4. CASE x # descl["RX"]
    <3>1. b + x # At("RX")
      BY <1>1, <1>2, <2>4
    <3>2. staging[b + x] # staging[At("RX")]
      BY ZenonT(40), <1>0, <1>1, <2>1, <3>1, DxeAssumption DEF HeldInv
    <3>3. content'[staging[b + x]] = content[staging[b + x]]
      BY ZenonT(40), <1>0, <1>5, <2>1, <3>2 DEF TypeOK
    <3>4. valid'[b + x] = valid[b + x]
      BY ZenonT(40), <1>1, <2>1, <3>1
    <3>5. Behind(x) # m /\ Behind(x) \in Nat
      BY <1>2, <1>8, <2>4 DEF Behind
    <3> QED BY <1>2, <2>2, <3>3, <3>4, <3>5
  <2> QED BY ZenonT(40), <2>3, <2>4
<1>12. Waiting(m + 1)'
  BY ZenonT(40), <1>4, <1>5, <1>6, <1>9, <1>10, <1>11 DEF Waiting
<1>13. m + 1 \in 0 .. n
  BY <1>2, <1>8
<1> QED BY ZenonT(40), <1>1, <1>4, <1>12, <1>13 DEF RxInv

LEMMA RxFrameRx == ASSUME BufInv, RxInv, RxFrame PROVE RxInv'
<1> DEFINE n == NDescs["RX"]
           h == pRingFreeHead["RX"]
           b == base["RX"]
           d == HeadDesc("RX")
<1>0. TypeOK /\ RingInv /\ HeldInv /\ FillInv /\ "RX" \in Chan
  BY DEF BufInv, Chan
<1>1. /\ chConfigured["RX"] /\ d = b + h /\ d \in Descs /\ ~valid[d] /\ staging[d] \in Bufs /\ valid'[d]
      /\ \A e \in Descs \ {d} : valid'[e] = valid[e]
      /\ pRingFreeHead'["RX"] = (IF h + 1 < n THEN h + 1 ELSE 0)
  BY ZenonT(40), RxFrameIs
<1>2. n \in Nat \ {0} /\ b \in Nat /\ h \in 0 .. n - 1 /\ descl["RX"] \in 0 .. n - 1
      /\ Numbers \in Nat /\ Numbers > n /\ got \in 0 .. Numbers /\ arrived \in 0 .. Numbers
  BY ZenonT(40), <1>0, RingInterval, DxeAssumption DEF TypeOK
<1>3. PICK m \in 0 .. n : Waiting(m)
  BY ZenonT(40), <1>1 DEF RxInv
<1>4. UNCHANGED <<chConfigured, base, descl, arrived>>
  BY ZenonT(40) DEF RxFrame, driver, engine
<1>5. got' = content[staging[d]] /\ content' = [content EXCEPT ![staging[d]] = 0]
  BY ZenonT(40) DEF RxFrame
<1>6. \A e \in Descs \ {d} : staging'[e] = staging[e]
  BY ZenonT(40), RxFrameBuf
<1> HIDE DEF d
\* The head's descriptor is not VALID, so a frame waits, and it is the next one.
<1>7. m > 0 /\ got' = Nth(1)
  <2>1. Behind(h) = 0
    BY <1>2 DEF Behind
  <2>2. /\ valid[d] <=> Behind(h) >= m
        /\ Behind(h) < m => content[staging[d]] = Nth(Behind(h) + 1)
    BY ZenonT(40), <1>1, <1>2, <1>3 DEF Waiting
  <2> QED BY <1>1, <1>2, <1>5, <2>1, <2>2
<1>8. \A k \in 0 .. n - 1 : Nth(k)' = Nth(k + 1)
  BY <1>2, <1>7 DEF Nth
<1>9. Ahead(m - 1)' = Ahead(m)
  BY <1>1, <1>2, <1>7 DEF Ahead
<1>10. descl'["RX"] = Ahead(m - 1)' /\ arrived' = Nth(m - 1)'
  <2>1. Nth(m - 1)' = Nth(m)
    BY <1>2, <1>7, <1>8
  <2> QED BY ZenonT(40), <1>3, <1>4, <1>9, <2>1 DEF Waiting
<1>11. ASSUME NEW x \in 0 .. n - 1
       PROVE  /\ valid'[b + x] <=> Behind(x)' >= m - 1
              /\ Behind(x)' < m - 1 => content'[staging'[b + x]] = Nth(Behind(x) + 1)'
  <2>1. b + x \in Descs /\ staging[b + x] \in Bufs
    <3>1. b + x \in Descs /\ staging[b + x] # None
      BY ZenonT(40), <1>0, <1>1, <1>2, RingsApart DEF FillInv
    <3> QED BY ZenonT(40), <1>0, <3>1 DEF TypeOK
  <2>2. /\ valid[b + x] <=> Behind(x) >= m
        /\ Behind(x) < m => content[staging[b + x]] = Nth(Behind(x) + 1)
    BY ZenonT(40), <1>3 DEF Waiting
  <2>3. CASE x = h
    <3>1. Behind(x)' = n - 1
      BY <1>1, <1>2, <2>3 DEF Behind
    <3> QED BY <1>1, <1>2, <2>3, <3>1
  <2>4. CASE x # h
    <3>1. b + x # d
      BY <1>1, <1>2, <2>4
    <3>2. Behind(x)' = Behind(x) - 1 /\ Behind(x) \in 1 .. n - 1
      BY <1>1, <1>2, <2>4 DEF Behind
    <3>3. staging'[b + x] = staging[b + x] /\ valid'[b + x] = valid[b + x]
      BY ZenonT(40), <1>1, <1>6, <2>1, <3>1
    <3>4. staging[b + x] # staging[d]
      BY ZenonT(40), <1>0, <1>1, <2>1, <3>1, DxeAssumption DEF HeldInv
    <3>5. content'[staging'[b + x]] = content[staging[b + x]]
      BY ZenonT(40), <1>0, <1>5, <2>1, <3>3, <3>4 DEF TypeOK
    <3>6. Nth(Behind(x) + 1)' = Nth(Behind(x) + 1)
      BY <1>2, <1>7, <3>2 DEF Nth
    <3>7. (Behind(x) >= m <=> Behind(x) - 1 >= m - 1) /\ (Behind(x) < m <=> Behind(x) - 1 < m - 1)
          /\ Behind(x) - 1 + 1 = Behind(x)
      BY <1>7, <3>2
    <3> QED BY <2>2, <3>2, <3>3, <3>5, <3>6, <3>7
  <2> QED BY ZenonT(40), <2>3, <2>4
<1>12. Waiting(m - 1)'
  BY ZenonT(40), <1>4, <1>10, <1>11 DEF Waiting
<1>13. m - 1 \in 0 .. n
  BY <1>2, <1>7
<1> QED BY ZenonT(40), <1>1, <1>4, <1>12, <1>13 DEF RxInv

\* The receive task has been told of frames, or is about to be.
Aware == rxNotify \/ pc["RX"] # "idle" \/ "RX" \in irq \cup isrSrc

\* Only a task that has found no frame and a deinit end that.
LEMMA AwareStays ==
  ASSUME TypeOK, CopyInv, Next, Aware, ~RxEmpty, ~nt_ndxe_deinit
  PROVE  Aware'
<1> USE DEF driver, engine, handler, bufs, rx, copy, power
<1>1. CASE Handler
  <2>1. CASE IsrRead
    BY ZenonT(40), <1>1, <2>1 DEF IsrRead, Aware, CopyInv
  <2>2. CASE IsrClear
    BY ZenonT(40), <1>1, <2>2 DEF IsrClear, Aware, NextChannel
  <2>3. CASE IsrCallback
    <3>1. CASE rxNotify \/ NextChannel = "RX"
      BY ZenonT(40), <2>3, <3>1 DEF IsrCallback, Aware
    <3>2. CASE NextChannel # "RX"
      BY ZenonT(40), <2>3, <3>2 DEF IsrCallback, Aware, NextChannel
    <3> QED BY ZenonT(40), <3>1, <3>2
  <2> QED BY ZenonT(40), <1>1, <2>1, <2>2, <2>3 DEF Handler
<1>2. CASE \E c \in Chan : Transfer(c)
  BY <1>2 DEF Transfer, Aware
<1>3. CASE RxWake \/ RxFrame \/ RxEnable
  BY ZenonT(40), <1>3 DEF RxWake, RxFrame, RxEnable, Enable, Aware, TypeOK, Chan
<1>4. CASE TxAccept \/ TxEnable \/ CopyCall \/ CopyEnable \/ CopyWaitEnds \/ hal_dxe_suspend \/ SuspendPoll
  <2>1. UNCHANGED <<rxNotify, irq, isrSrc>>
    BY ZenonT(40), <1>4 DEF TxAccept, TxEnable, CopyCall, CopyEnable, CopyWaitEnds, hal_dxe_suspend, SuspendPoll, Enable
  <2>2. pc'["RX"] = pc["RX"]
    BY ZenonT(40), <1>4 DEF TxAccept, TxEnable, CopyCall, CopyEnable, CopyWaitEnds, hal_dxe_suspend, SuspendPoll,
       Enable, TypeOK, Chan
  <2> QED BY ZenonT(40), <2>1, <2>2 DEF Aware
<1>5. CASE UNCHANGED <<rxNotify, irq, isrSrc, pc>>
  BY ZenonT(40), <1>5 DEF Aware
<1> QED BY ZenonT(40), <1>1, <1>2, <1>3, <1>4, <1>5 DEF Next, nt_ndxe_init, ConfigRx, ConfigRxFails,
     nt_ndxe_config_channel, Stop, TxRefuse, ClientFree, CopyRefused, hal_dxe_resume, Paused,
     hal_dxe_desc_reconfig

\* A step that makes the head's descriptor a filled one raises the interrupt.
LEMMA NoLostRxStep ==
  ASSUME BufInv, BufInv', RxInv, CopyInv, NoLostRx, Next
  PROVE  NoLostRx'
<1> USE DEF driver, engine, handler, bufs, rx, copy, power
<1>0. TypeOK /\ RingInv /\ "RX" \in Chan /\ TypeOK' /\ RingInv'
  BY ZenonT(40) DEF BufInv, Chan
<1>1. NoLostRx <=> (chConfigured["RX"] /\ ~valid[HeadDesc("RX")] => Aware)
  BY ZenonT(40) DEF NoLostRx, Aware
<1>2. NoLostRx' <=> (chConfigured'["RX"] /\ ~valid'[HeadDesc("RX")'] => Aware')
  BY ZenonT(40) DEF NoLostRx, Aware
<1>3. /\ HeadDesc("RX") = base["RX"] + pRingFreeHead["RX"] /\ pRingFreeHead["RX"] \in 0 .. NDescs["RX"] - 1
      /\ HeadDesc("RX")' = base'["RX"] + pRingFreeHead'["RX"] /\ pRingFreeHead'["RX"] \in 0 .. NDescs["RX"] - 1
  <2>0. pRingFreeHead'["RX"] \in Nat /\ pRingFreeHead'["RX"] < NDescs["RX"]
    BY ZenonT(40), <1>0 DEF TypeOK
  <2>1. NDescs["RX"] \in Nat \ {0} /\ pRingFreeHead'["RX"] \in 0 .. NDescs["RX"] - 1
    BY <1>0, <2>0, DxeAssumption
  <2>2. HeadDesc("RX")' = base'["RX"] + pRingFreeHead'["RX"]
    BY ZenonT(40), <2>1, ModSmall DEF HeadDesc, D
  <2> QED BY ZenonT(40), <1>0, <2>1, <2>2, RingInterval
<1>4. CASE RxKept
  <2>1. chConfigured["RX"] => valid'[HeadDesc("RX")'] = valid[HeadDesc("RX")]
    BY ZenonT(40), <1>3, <1>4 DEF RxKept
  <2>2. CASE RxEmpty
    BY ZenonT(40), <1>2, <1>4, <2>1, <2>2 DEF RxEmpty, RxKept
  <2>3. CASE nt_ndxe_deinit
    BY ZenonT(40), <1>2, <2>3 DEF nt_ndxe_deinit, Chan
  <2>4. CASE ~RxEmpty /\ ~nt_ndxe_deinit
    BY ZenonT(40), <1>0, <1>1, <1>2, <1>4, <2>1, <2>4, AwareStays DEF RxKept
  <2> QED BY ZenonT(40), <2>2, <2>3, <2>4
<1>5. CASE nt_ndxe_deinit
  BY ZenonT(40), <1>2, <1>5 DEF nt_ndxe_deinit, Chan
<1>6. CASE ConfigRx
  BY ZenonT(40), <1>2, <1>3, <1>6, ConfigRxBuf
<1>7. CASE Transfer("RX")
  BY ZenonT(40), <1>2, <1>7 DEF Transfer, Aware
<1>8. CASE RxFrame
  BY ZenonT(40), <1>0, <1>2, <1>8 DEF RxFrame, Aware, TypeOK, Chan
<1>9. RxKept \/ nt_ndxe_deinit \/ ConfigRx \/ Transfer("RX") \/ RxFrame
  BY ZenonT(40), OtherKept DEF Next, Quiet
<1> QED BY ZenonT(40), <1>4, <1>5, <1>6, <1>7, <1>8, <1>9

-----------------------------------------------------------------------------
(* Copies.                                                                 *)

LEMMA LastIn == ASSUME TypeOK PROVE Last \in Ring("H2H") /\ At("H2H") \in Ring("H2H")
<1> DEFINE k == pRingFreeHead["H2H"] + NDescs["H2H"] - 1
<1>1. /\ NDescs["H2H"] \in Nat \ {0} /\ pRingFreeHead["H2H"] \in Nat /\ descl["H2H"] \in Nat
      /\ descl["H2H"] \in 0 .. NDescs["H2H"] - 1
      /\ Ring("H2H") = {base["H2H"] + x : x \in 0 .. NDescs["H2H"] - 1}
      /\ At("H2H") = base["H2H"] + descl["H2H"]
  BY RingInterval DEF Chan
<1>2. k \in Nat
  BY <1>1
<1> HIDE DEF k
<1>3. k % NDescs["H2H"] \in 0 .. NDescs["H2H"] - 1
  BY <1>1, <1>2
<1>4. Last = base["H2H"] + (k % NDescs["H2H"])
  BY ZenonT(40) DEF Last, D, k
<1> QED BY ZenonT(40), <1>1, <1>3, <1>4

\* While no copy is in progress nothing is claimed of one.
LEMMA IdleCopy ==
  ASSUME CopyInv, Others, pc'["H2H"] = pc["H2H"], UNCHANGED <<isr, isrSrc, copy_ongoing>>
  PROVE  CopyInv'
BY ZenonT(40) DEF CopyInv, Others

LEMMA CopyCallCopy == ASSUME BufInv, CopyInv, CopyCall PROVE CopyInv'
<1> DEFINE n == NDescs["H2H"]
           h == pRingFreeHead["H2H"]
           d == HeadDesc("H2H")
<1>0. TypeOK /\ "H2H" \in Chan /\ chConfigured["H2H"] /\ Place("H2H", None)
  BY ZenonT(40), CopyCallBuf DEF BufInv, Chan
<1>1. /\ UNCHANGED <<base, irq, isr, isrSrc>> /\ isr = "off"
      /\ pc'["H2H"] = "kick" /\ copy_ongoing' = TRUE
      /\ stale' = (Unfinished \/ "H2H" \in irq)
  BY ZenonT(40), <1>0 DEF CopyCall, Others, Task, driver, engine, handler, TypeOK
<1>2. /\ d = base["H2H"] + h /\ h \in 0 .. n - 1 /\ d \in Descs
      /\ \A e \in Descs \ {d} : valid'[e] = valid[e]
      /\ pRingFreeHead'["H2H"] = (IF h + 1 < n THEN h + 1 ELSE 0)
  BY ZenonT(40), <1>0, PlaceIs
<1>3. n \in Nat \ {0} /\ Ring("H2H") = {base["H2H"] + x : x \in 0 .. n - 1}
  BY ZenonT(40), <1>0, RingInterval
<1>4. Ring("H2H")' = Ring("H2H") /\ \A e \in Ring("H2H") : e \in Descs
  <2>1. Ring("H2H")' = Ring("H2H")
    BY ZenonT(40), <1>1 DEF Ring, D
  <2>2. \A e \in Ring("H2H") : e \in Descs
    BY ZenonT(40), <1>0, <1>3, RingsApart DEF BufInv
  <2> QED BY ZenonT(40), <2>1, <2>2
<1> HIDE DEF d
<1>5. Last' = d
  <2>1. Last' = base["H2H"] + ((pRingFreeHead'["H2H"] + n - 1) % n)
    BY ZenonT(40), <1>1 DEF Last, D
  <2>2. CASE h + 1 < n
    <3>1. pRingFreeHead'["H2H"] + n - 1 = n + h
      BY <1>2, <1>3, <2>2
    <3>2. (n + h) % n = h
      BY ZenonT(40), <1>2, <1>3, ModWrap
    <3> QED BY ZenonT(40), <1>2, <2>1, <3>1, <3>2
  <2>3. CASE h + 1 = n
    <3>1. pRingFreeHead'["H2H"] + n - 1 = h
      BY <1>2, <1>3, <2>3
    <3>2. h % n = h
      BY ZenonT(40), <1>2, <1>3, ModSmall
    <3> QED BY ZenonT(40), <1>2, <2>1, <3>1, <3>2
  <2> QED BY <1>2, <1>3, <2>2, <2>3
<1>6. ~stale' => "H2H" \notin irq' \cup isrSrc' /\ \A e \in Ring("H2H") : ~valid[e]
  BY ZenonT(40), <1>1 DEF Unfinished, CopyInv
<1>7. ~stale' => \A e \in Ring("H2H")' : valid'[e] => e = Last'
  BY ZenonT(40), <1>2, <1>4, <1>5, <1>6
<1> QED BY ZenonT(40), <1>1, <1>6, <1>7 DEF CopyInv

LEMMA TransferCopy == ASSUME BufInv, CopyInv, NEW c \in Chan, Transfer(c) PROVE CopyInv'
<1>0. TypeOK /\ RingInv /\ "H2H" \in Chan
  BY DEF BufInv, Chan
<1>1. /\ UNCHANGED <<base, pRingFreeHead, isr, isrSrc, pc, copy_ongoing, stale>>
      /\ irq' = irq \cup ({c} \ {"TX"})
  BY ZenonT(40) DEF Transfer, driver, handler, copy
<1>2. CASE pc["H2H"] = "idle" \/ stale
  BY ZenonT(40), <1>1, <1>2 DEF CopyInv
<1>3. CASE pc["H2H"] # "idle" /\ ~stale
  <2>1. chConfigured["H2H"]
    BY ZenonT(40), <1>0, <1>3 DEF RingInv
  <2>2. \A d \in Ring("H2H") : d \in Descs
    BY <1>0, <2>1, RingsApart, RingInterval
  <2>3. Ring("H2H")' = Ring("H2H") /\ Last' = Last
    BY ZenonT(40), <1>1 DEF Ring, D, Last
  <2>4. /\ \A d \in Descs : valid'[d] => valid[d]
        /\ valid[At(c)] /\ ~valid'[At(c)]
    BY ZenonT(40), TransferBuf
  <2>5. Last \in Ring("H2H") /\ At("H2H") \in Ring("H2H")
    BY ZenonT(40), <1>0, LastIn
  <2>6. \A d \in Ring("H2H") : valid[d] => d = Last
    BY ZenonT(40), <1>3 DEF CopyInv
  <2>7. ~copy_ongoing \/ "H2H" \in irq \cup isrSrc => ~valid[Last]
    BY ZenonT(40), <1>3 DEF CopyInv
  <2>8. c = "H2H" => ~valid'[Last]
    BY ZenonT(40), <2>4, <2>5, <2>6
  <2>9. ~copy_ongoing' \/ "H2H" \in irq' \cup isrSrc' => ~valid'[Last]
    BY ZenonT(40), <1>1, <2>2, <2>4, <2>5, <2>7, <2>8
  <2>10. \A d \in Ring("H2H") : valid'[d] => d = Last
    BY ZenonT(40), <2>2, <2>4, <2>6
  <2> QED BY ZenonT(40), <1>1, <2>3, <2>9, <2>10 DEF CopyInv
<1> QED BY ZenonT(40), <1>2, <1>3

LEMMA HandlerCopy == ASSUME BufInv, CopyInv, Handler PROVE CopyInv'
<1>0. isrSrc \subseteq {"RX", "H2H"} /\ copy_ongoing \in BOOLEAN
  BY ZenonT(40) DEF BufInv, TypeOK
<1>1. UNCHANGED <<base, pRingFreeHead, valid, pc, stale>>
  BY ZenonT(40) DEF Handler, IsrRead, IsrClear, IsrCallback, driver, copy
<1>2. Ring("H2H")' = Ring("H2H") /\ Last' = Last
  BY ZenonT(40), <1>1 DEF Ring, D, Last
<1>3. isr # "off" => NextChannel \in isrSrc
  BY ZenonT(40), <1>0 DEF NextChannel, CopyInv
<1>4. isr' = "off" <=> isrSrc' = {}
  <2>1. CASE IsrCallback
    BY ZenonT(40), <1>3, <2>1 DEF IsrCallback
  <2>2. CASE IsrRead \/ IsrClear
    BY ZenonT(40), <2>2 DEF IsrRead, IsrClear, CopyInv
  <2> QED BY ZenonT(40), <2>1, <2>2 DEF Handler
<1>5. copy_ongoing' => copy_ongoing
  BY ZenonT(40) DEF Handler, IsrRead, IsrClear, IsrCallback, copy
<1>6. ~copy_ongoing' \/ "H2H" \in irq' \cup isrSrc' => ~copy_ongoing \/ "H2H" \in irq \cup isrSrc
  <2>1. CASE IsrCallback
    BY ZenonT(40), <1>0, <1>3, <2>1 DEF IsrCallback, engine
  <2>2. CASE IsrRead \/ IsrClear
    BY ZenonT(40), <2>2 DEF IsrRead, IsrClear, copy, engine
  <2> QED BY ZenonT(40), <2>1, <2>2 DEF Handler
<1> QED BY ZenonT(40), <1>1, <1>2, <1>4, <1>5, <1>6 DEF CopyInv

LEMMA CopyStep == ASSUME BufInv, CopyInv, Next PROVE CopyInv'
<1> USE DEF driver, engine, handler, bufs, rx, copy, power
<1>1. CASE CopyEnable \/ CopyWaitEnds \/ (\E c \in Chan : Stop(c)) \/ Paused
  <2>1. UNCHANGED <<base, pRingFreeHead, valid, irq, isr, isrSrc>>
    BY ZenonT(40), <1>1 DEF CopyEnable, Enable, CopyWaitEnds, Stop, Paused
  <2>2. Ring("H2H")' = Ring("H2H") /\ Last' = Last
    BY ZenonT(40), <2>1 DEF Ring, D, Last
  <2>3. CASE CopyEnable
    <3>1. pc["H2H"] = "kick" /\ pc'["H2H"] = "wait" /\ UNCHANGED <<copy_ongoing, stale>>
      BY ZenonT(40), <2>3 DEF CopyEnable, Enable, BufInv, TypeOK, Chan
    <3> QED BY ZenonT(40), <2>1, <2>2, <3>1 DEF CopyInv
  <2>4. CASE CopyWaitEnds
    <3>1. pc'["H2H"] = "idle" /\ ~copy_ongoing'
      BY ZenonT(40), <2>4 DEF CopyWaitEnds, BufInv, TypeOK, Chan
    <3> QED BY ZenonT(40), <2>1, <2>2, <3>1 DEF CopyInv
  <2>5. CASE (\E c \in Chan : Stop(c)) \/ Paused
    <3>1. UNCHANGED <<pc, copy_ongoing, stale>>
      BY ZenonT(40), <2>5 DEF Stop, Paused
    <3> QED BY ZenonT(40), <2>1, <2>2, <3>1 DEF CopyInv
  <2> QED BY ZenonT(40), <1>1, <2>3, <2>4, <2>5
<1>2. CASE Handler \/ CopyCall \/ \E c \in Chan : Transfer(c)
  BY ZenonT(40), <1>2, HandlerCopy, CopyCallCopy, TransferCopy
<1>3. CASE TxAccept \/ TxEnable \/ RxWake \/ RxEmpty \/ RxFrame \/ RxEnable \/ hal_dxe_suspend \/ SuspendPoll
  <2>1. Others /\ UNCHANGED <<isr, isrSrc, copy_ongoing>>
    BY ZenonT(40), <1>3 DEF TxAccept, TxEnable, RxWake, RxEmpty, RxFrame, RxEnable, hal_dxe_suspend, SuspendPoll,
       CanSend, Enable
  <2>2. pc'["H2H"] = pc["H2H"]
    <3>1. PICK t \in {"TX", "RX", "PM"}, v \in {"idle", "kick", "poll"} :
             UNCHANGED pc \/ pc' = [pc EXCEPT ![t] = v]
      BY ZenonT(40), <1>3 DEF TxAccept, TxEnable, RxWake, RxEmpty, RxFrame, RxEnable, hal_dxe_suspend, SuspendPoll,
         Enable
    <3> QED BY ZenonT(40), <3>1 DEF BufInv, TypeOK, Chan
  <2> QED BY ZenonT(40), <2>1, <2>2, IdleCopy
<1>4. CASE \/ nt_ndxe_init \/ nt_ndxe_deinit \/ ConfigRx \/ ConfigRxFails \/ TxRefuse \/ CopyRefused
           \/ (\E c \in Chan : nt_ndxe_config_channel(c)) \/ hal_dxe_resume
           \/ (\E b \in Bufs : ClientFree(b)) \/ \E c \in {"TX", "RX"} : hal_dxe_desc_reconfig(c)
  <2>1. Others
    BY ZenonT(40), <1>4 DEF nt_ndxe_init, nt_ndxe_deinit, ConfigRx, ConfigRxFails, TxRefuse, CopyRefused,
       nt_ndxe_config_channel, hal_dxe_resume, ClientFree, hal_dxe_desc_reconfig, CanConfig, CanSend,
       Idle, Others, Chan
  <2>2. UNCHANGED <<pc, isr, isrSrc, copy_ongoing>>
    BY ZenonT(40), <1>4 DEF nt_ndxe_init, nt_ndxe_deinit, ConfigRx, ConfigRxFails, TxRefuse, CopyRefused,
       nt_ndxe_config_channel, hal_dxe_resume, ClientFree, hal_dxe_desc_reconfig
  <2> QED BY ZenonT(40), <2>1, <2>2, IdleCopy
<1> QED BY ZenonT(40), <1>1, <1>2, <1>3, <1>4 DEF Next

-----------------------------------------------------------------------------
(* The theorems.                                                           *)

IInv == BufInv /\ RxInv /\ NoLostRx /\ CopyInv /\ PauseInv

LEMMA BufStep == ASSUME BufInv, RxInv, Next PROVE BufInv'
BY ZenonT(40), QuietBuf, DeinitBuf, ConfigBuf, ConfigRxFailsBuf, ConfigRxBuf, TransferBuf, RefuseBuf, TxAcceptBuf,
   CopyCallBuf, RxFrameBuf, ClientFreeBuf, ReconfigBuf DEF Next, Quiet

LEMMA RxStep == ASSUME BufInv, RxInv, Next PROVE RxInv'
<1>1. CASE nt_ndxe_deinit
  BY ZenonT(40), <1>1 DEF nt_ndxe_deinit, RxInv, Chan
<1>2. CASE ConfigRx \/ Transfer("RX") \/ RxFrame
  BY ZenonT(40), <1>2, ConfigRxRx, TransferRx, RxFrameRx
<1>3. CASE RxKept
  BY ZenonT(40), <1>3, KeptRx
<1> QED BY ZenonT(40), <1>1, <1>2, <1>3, OtherKept DEF Next, Quiet

LEMMA PauseStep == ASSUME TypeOK, PauseInv, Next PROVE PauseInv'
<1> USE DEF driver, engine, handler, bufs, rx, copy, power
<1>1. CASE SuspendPoll
  BY ZenonT(40), <1>1 DEF SuspendPoll, PauseInv
<1>2. CASE hal_dxe_resume \/ nt_ndxe_deinit \/ Paused
  BY ZenonT(40), <1>2 DEF hal_dxe_resume, nt_ndxe_deinit, Paused, PauseInv
<1>3. CASE UNCHANGED <<dxe_suspend, paused>>
  BY ZenonT(40), <1>3 DEF PauseInv
<1> QED BY ZenonT(40), <1>1, <1>2, <1>3 DEF Next, Handler, nt_ndxe_init, ConfigRx, ConfigRxFails,
     nt_ndxe_config_channel, Transfer, Stop, TxAccept, TxRefuse, TxEnable, RxWake, RxEmpty, RxFrame,
     RxEnable, Enable, ClientFree, CopyCall, CopyRefused, CopyEnable, CopyWaitEnds, IsrRead, IsrClear,
     IsrCallback, hal_dxe_suspend, hal_dxe_desc_reconfig

\* The invariant is inductive.
THEOREM DxeInvariant == Spec => []IInv
<1> USE DEF driver, engine, handler, bufs, rx, copy, power
<1>1. Init => IInv
  <2> SUFFICES ASSUME Init PROVE IInv
    OBVIOUS
  <2>1. BufInv
    BY ZenonT(40), InitBuf
  <2>2. RxInv /\ NoLostRx
    BY ZenonT(40) DEF Init, RxInv, NoLostRx, Chan
  <2>3. CopyInv /\ PauseInv
    BY ZenonT(40) DEF Init, CopyInv, PauseInv, Chan
  <2> QED BY ZenonT(40), <2>1, <2>2, <2>3 DEF IInv
<1>2. IInv /\ [Next]_vars => IInv'
  <2> SUFFICES ASSUME IInv, [Next]_vars PROVE IInv'
    BY ZenonT(40)
  <2>1. CASE Next
    BY ZenonT(40), <2>1, BufStep, RxStep, NoLostRxStep, CopyStep, PauseStep DEF IInv, BufInv
  <2>2. CASE UNCHANGED vars
    <3>1. BufInv'
      BY ZenonT(40), <2>2 DEF vars, IInv, BufInv, TypeOK, RingInv, HeldInv, FillInv
    <3>2. RxInv' /\ NoLostRx'
      BY ZenonT(40), <2>2 DEF vars, IInv, RxInv, Waiting, Ahead, Nth, Behind, NoLostRx, HeadDesc, D
    <3>3. CopyInv' /\ PauseInv'
      BY ZenonT(40), <2>2 DEF vars, IInv, CopyInv, Ring, Last, D, PauseInv
    <3> QED BY ZenonT(40), <3>1, <3>2, <3>3 DEF IInv
  <2> QED BY ZenonT(40), <2>1, <2>2
<1> QED BY <1>1, <1>2, PTL DEF Spec

\* For any rings and buffers, what the engine may touch belongs to the driver and
\* to one descriptor, whatever the order of configurations (failed ones
\* included), transfers, refusals, suspends and deinits (hal_dxe.c).
THEOREM BuffersAreSafe == Spec => []BufferSafe
<1>1. IInv => BufferSafe
  <2> SUFFICES ASSUME IInv PROVE BufferSafe
    OBVIOUS
  <2> DEFINE live == UNION {Ring(c) : c \in {x \in {"TX", "RX"} : chConfigured[x]}}
  <2>1. TypeOK /\ RingInv /\ HeldInv /\ FillInv
    BY DEF IInv, BufInv
  <2>2. ASSUME NEW d \in live PROVE d \in Descs /\ (valid[d] => staging[d] # None)
    <3>1. PICK c \in {"TX", "RX"} : chConfigured[c] /\ d \in Ring(c)
      BY ZenonT(40), <2>2
    <3>2. PICK x \in 0 .. NDescs[c] - 1 : d = base[c] + x
      BY <2>1, <3>1, RingInterval DEF Chan
    <3>3. d \in Descs
      BY ZenonT(40), <2>1, <3>1, <3>2, RingsApart DEF Chan
    <3>4. valid[d] => staging[d] # None
      BY ZenonT(40), <2>1, <3>1, <3>2 DEF FillInv
    <3> QED BY ZenonT(40), <3>3, <3>4
  <2> HIDE DEF live
  <2>3. \A d \in live : staging[d] # None => own[staging[d]] = "dxe" /\ staging[d] # rx_buf
    BY ZenonT(40), <2>1, <2>2 DEF HeldInv
  <2>4. \A d, e \in live : staging[d] = staging[e] /\ d # e => staging[d] = None
    BY ZenonT(40), <2>1, <2>2 DEF HeldInv
  <2>5. rx_buf # None => own[rx_buf] = "dxe"
    BY ZenonT(40), <2>1 DEF HeldInv
  <2> QED BY ZenonT(40), <2>2, <2>3, <2>4, <2>5 DEF BufferSafe, live
<1> QED BY <1>1, DxeInvariant, PTL

\* For any ring size the receive task gets every frame once and in order, across
\* the wrap of the ring, shortages and the preparation for sleep
\* (nt_ndxe_get_single_received_frame, hal_dxe_desc_reconfig).
THEOREM FramesInOrder == Spec => []RxInOrder
<1>1. IInv => RxInOrder
  <2> SUFFICES ASSUME IInv, chConfigured["RX"], ~valid[HeadDesc("RX")]
               PROVE  content[staging[HeadDesc("RX")]] = Following(got)
    BY ZenonT(40) DEF RxInOrder
  <2> DEFINE h == pRingFreeHead["RX"]
  <2>1. /\ h \in 0 .. NDescs["RX"] - 1 /\ HeadDesc("RX") = base["RX"] + h
        /\ NDescs["RX"] \in Nat \ {0} /\ got \in 0 .. Numbers /\ Numbers \in Nat /\ Numbers > NDescs["RX"]
    BY ZenonT(40), RingInterval, DxeAssumption DEF IInv, BufInv, TypeOK, Chan
  <2>2. PICK m \in 0 .. NDescs["RX"] : Waiting(m)
    BY ZenonT(40) DEF IInv, RxInv
  <2>3. Behind(h) = 0
    BY <2>1 DEF Behind
  <2>4. content[staging[HeadDesc("RX")]] = Nth(1)
    BY <2>1, <2>2, <2>3 DEF Waiting
  <2>5. Following(got) = (IF got < Numbers THEN got + 1 ELSE 1)
    BY ZenonT(40), <2>1, FollowingIs
  <2> QED BY <2>1, <2>4, <2>5 DEF Nth
<1> QED BY <1>1, DxeInvariant, PTL

\* No received frame is left without a notification, although interrupts of one
\* channel coalesce and the task polls beside the handler (ndxe_irq_handler).
THEOREM FramesAreAnnounced == Spec => []NoLostRx
<1>1. IInv => NoLostRx
  BY DEF IInv
<1> QED BY <1>1, DxeInvariant, PTL

\* A copy reported done is done, unless the engine still held one that had been
\* given up when it began (nt_dxe_memcpy, nt_dxe_cpy_done_handler).
THEOREM CopiesComplete == Spec => []CopyComplete
<1>1. IInv => CopyComplete
  <2> SUFFICES ASSUME IInv PROVE CopyComplete
    OBVIOUS
  <2>1. CopyInv
    BY DEF IInv
  <2> QED BY ZenonT(40), <2>1 DEF CopyInv, CopyComplete, Last
<1> QED BY <1>1, DxeInvariant, PTL

\* From a suspend that succeeded to the resume the engine processes no descriptor
\* (hal_dxe_suspend, hal_dxe_resume).
THEOREM SuspendIsQuiet == Spec => QuietWhileSuspended
<1> USE DEF driver, engine, handler, bufs, rx, copy, power
<1> DEFINE Moved == dxe_suspend /\ dxe_suspend' /\ descl' # descl
<1>1. IInv /\ [Next]_vars => [Moved => chConfigured' # chConfigured]_vars
  <2> SUFFICES ASSUME IInv, Next, Moved PROVE chConfigured' # chConfigured
    BY ZenonT(40)
  <2>1. TypeOK /\ RingInv /\ paused
    BY ZenonT(40) DEF IInv, BufInv, PauseInv
  <2>2. ASSUME NEW c \in Chan, CanConfig(c), TakeDescs(c) PROVE chConfigured' # chConfigured
    BY ZenonT(40), <2>1, <2>2, TakeDescsIs
  <2>3. ~nt_ndxe_deinit /\ \A c \in Chan : ~Transfer(c)
    BY ZenonT(40), <2>1 DEF nt_ndxe_deinit, Transfer
  <2>4. CASE ConfigRx \/ \E c \in Chan : nt_ndxe_config_channel(c)
    BY ZenonT(40), <2>2, <2>4 DEF ConfigRx, nt_ndxe_config_channel, Chan
  <2>5. CASE ~ConfigRx /\ ~\E c \in Chan : nt_ndxe_config_channel(c)
    <3>1. descl' = descl
      BY ZenonT(40), <2>3, <2>5 DEF Next, Handler, nt_ndxe_init, ConfigRxFails,
         Stop, TxAccept, TxRefuse, TxEnable, RxWake, RxEmpty, RxFrame,
         RxEnable, Enable, ClientFree, CopyCall, CopyRefused, CopyEnable, CopyWaitEnds, IsrRead, IsrClear,
         IsrCallback, hal_dxe_suspend, SuspendPoll, hal_dxe_resume, Paused, hal_dxe_desc_reconfig
    <3> QED BY ZenonT(40), <3>1
  <2> QED BY ZenonT(40), <2>4, <2>5
<1> QED BY <1>1, DxeInvariant, PTL DEF Spec, QuietWhileSuspended
=============================================================================

---------------------------- MODULE RingRxProofs ----------------------------
(***************************************************************************)
(* Proofs about RingRx for every number of threads, rings, descriptors and *)
(* messages: the steps of ring_service_slave_init and ring_service_deinit  *)
(* keep the heap and the control block in agreement, the ring implements   *)
(* the FIFO channel, a lone receiver never sleeps on a message, and the    *)
(* callback drains the ring.                                               *)
(***************************************************************************)
EXTENDS RingRx, TLAPS

-----------------------------------------------------------------------------
(* The control block and the heap.                                         *)

\* While the call runs it is at one of its configurations.
CallInv ==
  step # "idle" => ~initialized /\ configs \in ConfigSet /\ i \in 1 .. Len(configs)

\* Blocks hang only off configured rings, and the only ring that has some
\* without being complete is the one the call was at.
OwnerInv ==
  \A r \in RingIds, p \in Parts : base[r][p] # 0 =>
     /\ step = "idle" => initialized
     /\ step # "idle" => r \in Configured
     /\ ring_status[r] = 1 \/ (step \in {"alloc", "cleanup"} /\ r = configs[i])

\* What the call has still to allocate is empty.
FreshInv ==
  step = "alloc" =>
     \A n \in i .. Len(configs), p \in Parts : n > i \/ p >= k => base[configs[n]][p] = 0

LifeInv == LifeTypeOK /\ HeapIsCtrl /\ CallInv /\ OwnerInv /\ FreshInv

\* A configuration names rings, each once.
LEMMA ConfigRange ==
  ASSUME NEW c \in ConfigSet
  PROVE  /\ Len(c) \in 1 .. MaxRings
         /\ \A n \in 1 .. Len(c) : c[n] \in RingIds
         /\ \A m, n \in 1 .. Len(c) : c[m] = c[n] => m = n
  BY ConfigsAssumption DEF RingIds

LEMMA InitLife == LifeInit => LifeInv
<1> SUFFICES ASSUME LifeInit PROVE LifeInv
  OBVIOUS
<1>1. LifeTypeOK
  <2>1. 1 \in 1 .. MaxRings /\ 1 \in Parts
    BY ConfigsAssumption DEF Parts
  <2>2. initialized \in BOOLEAN /\ heap \subseteq Blocks
    BY ZenonT(40) DEF LifeInit
  <2> QED BY ZenonT(40), <2>1, <2>2 DEF LifeInit, LifeTypeOK
<1>2. HeapIsCtrl
  BY DEF LifeInit, HeapIsCtrl
<1> QED BY ZenonT(40), <1>1, <1>2 DEF LifeInit, LifeInv, CallInv, OwnerInv, FreshInv

\* Clearing the control block after its blocks were freed.
LEMMA ClearedInv ==
  ASSUME LifeInv, NEW rings \in SUBSET RingIds, FreeRings(rings), ClearCtrl,
         \A r \in RingIds, p \in Parts : base[r][p] # 0 => r \in rings,
         step' = "idle", initialized' = FALSE, UNCHANGED <<configs, i, k>>
  PROVE  LifeInv'
<1>1. heap' = {}
  <2>1. heap \subseteq {base[r][p] : r \in rings, p \in Parts}
    BY DEF LifeInv, HeapIsCtrl
  <2> QED BY <2>1 DEF FreeRings
<1>2. LifeTypeOK'
  BY ZenonT(40), <1>1 DEF LifeInv, LifeTypeOK, ClearCtrl
<1>3. HeapIsCtrl'
  BY <1>1 DEF HeapIsCtrl, ClearCtrl
<1>4. OwnerInv'
  BY ZenonT(40) DEF OwnerInv, ClearCtrl
<1> QED BY ZenonT(40), <1>2, <1>3, <1>4 DEF LifeInv, CallInv, FreshInv

LEMMA AllocateInv ==
  ASSUME LifeInv, Allocate
  PROVE  LifeInv'
<1> DEFINE r0 == configs[i]
<1>0. /\ LifeTypeOK /\ HeapIsCtrl /\ OwnerInv /\ FreshInv /\ step = "alloc" /\ ~initialized
      /\ configs \in ConfigSet /\ i \in 1 .. Len(configs) /\ r0 \in RingIds /\ k \in Parts
      /\ Len(configs) \in 1 .. MaxRings
  BY ZenonT(40), ConfigRange DEF LifeInv, CallInv, Allocate, LifeTypeOK
<1>1. PICK b : /\ b \in Blocks /\ b \notin heap
               /\ base' = [base EXCEPT ![r0][k] = b] /\ heap' = heap \cup {b}
  <2>1. \E b \in Blocks : b \notin heap
    BY ZenonT(40), <1>0 DEF Allocate, LifeTypeOK
  <2> QED BY ZenonT(40), <2>1 DEF Allocate
<1>2. /\ UNCHANGED <<initialized, configs>>
      /\ ring_status' = IF k = 4 THEN [ring_status EXCEPT ![r0] = 1] ELSE ring_status
      /\ \/ k < 4 /\ k' = k + 1 /\ i' = i /\ step' = "alloc"
         \/ k = 4 /\ k' = 1 /\ i < Len(configs) /\ i' = i + 1 /\ step' = "alloc"
         \/ k = 4 /\ k' = 1 /\ i = Len(configs) /\ i' = i /\ step' = "gpio"
  BY <1>0 DEF Allocate, Parts
<1>3. /\ base' \in [RingIds -> [Parts -> Blocks \cup {0}]]
      /\ \A r \in RingIds, p \in Parts :
            base'[r][p] = IF r = r0 /\ p = k THEN b ELSE base[r][p]
  BY ZenonT(40), <1>0, <1>1 DEF LifeTypeOK
<1>4. LifeTypeOK'
  <2>1. i' \in 1 .. MaxRings /\ k' \in Parts
    <3>1. MaxRings \in Nat
      BY ZenonT(40), ConfigsAssumption
    <3> HIDE DEF r0
    <3> QED BY <1>0, <1>2, <3>1 DEF Parts
  <2> QED BY ZenonT(40), <1>0, <1>1, <1>2, <1>3, <2>1 DEF LifeTypeOK
<1>5. HeapIsCtrl'
  <2>1. base[r0][k] = 0 /\ b # 0
    <3>1. \A n \in i .. Len(configs), p \in Parts : n > i \/ p >= k => base[configs[n]][p] = 0
      BY ZenonT(40), <1>0 DEF FreshInv
    <3>2. i \in i .. Len(configs) /\ k >= k
      BY <1>0 DEF Parts
    <3>3. b # 0
      BY <1>1 DEF Blocks
    <3> QED BY ZenonT(40), <1>0, <3>1, <3>2, <3>3
  <2>2. heap' = {base'[r][p] : r \in RingIds, p \in Parts} \ {0}
    <3>1. \A x : x \in heap' => x \in {base'[r][p] : r \in RingIds, p \in Parts} \ {0}
      BY <1>0, <1>1, <1>3, <2>1 DEF HeapIsCtrl
    <3>2. \A x : x \in {base'[r][p] : r \in RingIds, p \in Parts} \ {0} => x \in heap'
      BY <1>0, <1>1, <1>3, <2>1 DEF HeapIsCtrl
    <3> QED BY <3>1, <3>2
  <2>3. \A r \in RingIds, p \in Parts : base[r][p] # b
    BY <1>0, <1>1, <2>1 DEF HeapIsCtrl
  <2> QED BY <1>0, <1>3, <2>2, <2>3 DEF HeapIsCtrl
<1>6. CallInv'
  BY <1>0, <1>2 DEF CallInv
<1>7. OwnerInv'
  <2>1. r0 \in Configured /\ Configured' = Configured
    BY ZenonT(40), <1>0, <1>2 DEF Configured
  <2>2. ASSUME NEW r \in RingIds, NEW p \in Parts, base'[r][p] # 0
        PROVE  r \in Configured /\ (ring_status'[r] = 1 \/ (step' = "alloc" /\ r = configs'[i']))
    <3>1. CASE r = r0
      BY ZenonT(40), <1>0, <1>2, <2>1, <3>1 DEF LifeTypeOK
    <3>2. CASE r # r0
      <4>1. base[r][p] # 0
        BY ZenonT(40), <1>3, <2>2, <3>2
      <4>2. r \in Configured /\ ring_status[r] = 1
        BY ZenonT(40), <1>0, <3>2, <4>1 DEF OwnerInv
      <4> QED BY ZenonT(40), <1>0, <1>2, <4>2 DEF LifeTypeOK
    <3> QED BY ZenonT(40), <3>1, <3>2
  <2>3. step' # "idle"
    BY ZenonT(40), <1>2
  <2> QED BY ZenonT(40), <2>1, <2>2, <2>3 DEF OwnerInv
<1>8. FreshInv'
  <2> SUFFICES ASSUME step' = "alloc", NEW n \in i' .. Len(configs), NEW p \in Parts,
                      n > i' \/ p >= k'
               PROVE  base'[configs[n]][p] = 0
    BY ZenonT(40), <1>2 DEF FreshInv
  <2>1. n \in i .. Len(configs) /\ (n > i \/ p > k)
    BY <1>0, <1>2 DEF Parts
  <2>2. base[configs[n]][p] = 0
    BY <1>0, <2>1 DEF FreshInv, Parts
  <2>3. configs[n] \in RingIds /\ (n > i => configs[n] # r0)
    BY <1>0, <2>1, ConfigRange
  <2> QED BY <1>0, <1>3, <2>1, <2>2, <2>3 DEF Parts
<1> QED BY ZenonT(40), <1>4, <1>5, <1>6, <1>7, <1>8 DEF LifeInv

\* Every step of the two functions preserves the invariant.
LEMMA LifeStep ==
  ASSUME LifeInv, Starting \/ Deinit
  PROVE  LifeInv'
<1>1. CASE InitCall
  <2>1. \A r \in RingIds, p \in Parts : base[r][p] = 0
    BY ZenonT(40), <1>1 DEF InitCall, LifeInv, OwnerInv
  <2>2. heap = {}
    BY <2>1 DEF LifeInv, HeapIsCtrl
  <2>3. LifeTypeOK'
    BY <1>1, ConfigsAssumption DEF InitCall, ClearCtrl, LifeInv, LifeTypeOK, Parts
  <2>4. HeapIsCtrl'
    BY <1>1, <2>2 DEF InitCall, ClearCtrl, HeapIsCtrl
  <2>5. CallInv'
    BY <1>1, ConfigRange DEF InitCall, CallInv
  <2>6. OwnerInv'
    BY ZenonT(40), <1>1 DEF InitCall, ClearCtrl, OwnerInv
  <2>7. FreshInv'
    BY ZenonT(40), <1>1, ConfigRange DEF InitCall, ClearCtrl, FreshInv
  <2> QED BY ZenonT(40), <2>3, <2>4, <2>5, <2>6, <2>7 DEF LifeInv
<1>2. CASE Allocate
  BY <1>2, AllocateInv
<1>3. CASE AllocateFails
  BY <1>3 DEF AllocateFails, ctrlVars, LifeInv, LifeTypeOK, HeapIsCtrl, CallInv, OwnerInv,
              FreshInv, Configured
<1>4. CASE Finish
  <2>1. /\ UNCHANGED <<base, ring_status, heap, configs, i, k>> /\ step = "gpio"
        /\ step' \in {"idle", "cleanup"} /\ initialized' \in BOOLEAN
        /\ step' = "idle" => initialized'
        /\ step' = "cleanup" => ~initialized'
    <3>1. CASE step' = "idle" /\ initialized' = TRUE
      BY ZenonT(40), <1>4, <3>1 DEF Finish, ctrlVars
    <3>2. CASE step' = "cleanup" /\ initialized' = initialized
      <4>1. initialized = FALSE
        BY ZenonT(40), <1>4 DEF Finish, LifeInv, CallInv, LifeTypeOK
      <4> QED BY ZenonT(40), <1>4, <3>2, <4>1 DEF Finish, ctrlVars
    <3> QED BY ZenonT(40), <1>4, <3>1, <3>2 DEF Finish
  <2>2. LifeTypeOK' /\ HeapIsCtrl'
    BY <2>1 DEF LifeInv, LifeTypeOK, HeapIsCtrl
  <2>3. CallInv' /\ FreshInv'
    BY ZenonT(40), <2>1 DEF LifeInv, CallInv, FreshInv
  <2>4. Configured' = Configured
    BY <2>1 DEF Configured
  <2>5. OwnerInv'
    BY ZenonT(40), <2>1, <2>4 DEF LifeInv, OwnerInv
  <2> QED BY ZenonT(40), <2>2, <2>3, <2>5 DEF LifeInv
<1>5. CASE Cleanup
  <2>1. Configured \subseteq RingIds
    BY ZenonT(40), <1>5, ConfigRange DEF Cleanup, LifeInv, CallInv, Configured
  <2>2. initialized' = FALSE
    BY ZenonT(40), <1>5 DEF Cleanup, LifeInv, CallInv, LifeTypeOK
  <2> QED BY ZenonT(40), <1>5, <2>1, <2>2, ClearedInv DEF Cleanup, LifeInv, OwnerInv
<1>6. CASE Deinit
  <2>1. \A r \in RingIds, p \in Parts : base[r][p] # 0 => ring_status[r] = 1
    BY ZenonT(40), <1>6 DEF Deinit, LifeInv, OwnerInv
  <2> QED BY ZenonT(40), <1>6, <2>1, ClearedInv DEF Deinit
<1> QED BY ZenonT(40), <1>1, <1>2, <1>3, <1>4, <1>5, <1>6 DEF Starting

-----------------------------------------------------------------------------
(* The ring.                                                               *)

Holding == {"check", "desc", "clear", "advance", "unlock"}
Reading == {"desc", "clear", "advance"}

\* The index after n, how far slot s is ahead of the read index, and the slot
\* of the next message the host will flag.
Nxt(n)     == IF n + 1 = DescCount THEN 0 ELSE n + 1
Dist(rd, s) == IF s >= rd THEN s - rd ELSE DescCount - (rd - s)
End == IF hostPc = "publish" THEN Nxt(tx_wr_idx) ELSE tx_wr_idx

\* rx_lock is owned by exactly the thread that is between lock and unlock.
LockInv == \A t \in Threads : pc[t] \in Holding <=> rx_lock = t

\* Calls are made, and the host works, while the service is up.
ActiveInv ==
  /\ \A t \in Threads : pc[t] # "idle" => Ready
  /\ hostPc # "idle" => Ready

\* The thread that owns the lock works on the slot at the read index, and once
\* it has found the VALID flag there is a message in it.
ReaderInv ==
  \A t \in Threads :
    /\ pc[t] \in Reading => idx[t] = tx_rd_idx
    /\ pc[t] = "clear" => flags[tx_rd_idx] = 1
    /\ pc[t] = "advance" => flags[tx_rd_idx] = 0 /\ tx_rd_idx # End

\* The slots from the read index up to End hold, in order, the messages not yet
\* delivered; they and no others are flagged, but for the one being taken.
ContentInv ==
  initialized =>
    /\ Len(accepted) = Len(delivered) + Dist(tx_rd_idx, End)
    /\ \A s \in Slots : Dist(tx_rd_idx, s) < Dist(tx_rd_idx, End) =>
          /\ buf[s] = accepted[Len(delivered) + Dist(tx_rd_idx, s) + 1]
          /\ flags[s] = 0 => s = tx_rd_idx /\ \E t \in Threads : pc[t] = "advance"
    /\ \A s \in Slots : flags[s] = 1 => Dist(tx_rd_idx, s) < Dist(tx_rd_idx, End)
    /\ hostPc = "flag" => /\ Dist(tx_rd_idx, tx_wr_idx) < DescCount - 1
                          /\ buf[tx_wr_idx] \in Messages

\* What was delivered is the beginning of what was accepted.
PrefixInv ==
  /\ Len(delivered) <= Len(accepted)
  /\ \A n \in 1 .. Len(delivered) : delivered[n] = accepted[n]

\* Either application threads receive or the callback does; the callback calls
\* ring_recv with K_NO_WAIT and a buffer of full size.
CallbackInv ==
  /\ callback => \A t \in Receivers : pc[t] = "idle"
  /\ ~callback => ~work /\ pc[WorkThread] = "idle"
  /\ call[WorkThread] = NoCall
  /\ pc[WorkThread] \notin {"sem", "relock"}

\* An unread message has an interrupt, a work item or the callback ahead of it,
\* and a callback that is about to find no VALID flag will be run again.
DrainInv ==
  /\ Ready /\ ~unseen /\ hostPc \notin {"publish", "raise"} /\ tx_rd_idx # tx_wr_idx =>
        irq \/ work \/ pc[WorkThread] # "idle"
  /\ pc[WorkThread] = "desc" /\ flags[tx_rd_idx] = 0 =>
        irq \/ work \/ hostPc \in {"publish", "raise"}

IInv == /\ TypeOK /\ LockInv /\ ActiveInv /\ ReaderInv /\ ContentInv /\ PrefixInv
        /\ CallbackInv /\ DrainInv /\ NoLostWakeup

-----------------------------------------------------------------------------
(* Arithmetic of the two indices.                                          *)

\* The wrap-around the code writes as a modulus.
LEMMA NextIdx ==
  ASSUME NEW n \in Slots
  PROVE  (n + 1) % DescCount = Nxt(n) /\ Nxt(n) \in Slots
  BY RxAssumption DEF Slots, Nxt

\* Distances are below DescCount and tell slots apart.
LEMMA DistRange ==
  ASSUME NEW rd \in Slots, NEW s \in Slots
  PROVE  /\ Dist(rd, s) \in 0 .. DescCount - 1
         /\ Dist(rd, s) = 0 <=> s = rd
         /\ \A q \in Slots : Dist(rd, s) = Dist(rd, q) => s = q
  BY RxAssumption DEF Slots, Dist

\* Flagging one more slot.
LEMMA DistGrows ==
  ASSUME NEW rd \in Slots, NEW s \in Slots, Dist(rd, s) < DescCount - 1
  PROVE  Dist(rd, Nxt(s)) = Dist(rd, s) + 1
  BY RxAssumption DEF Slots, Dist, Nxt

\* Taking one slot.
LEMMA DistShrinks ==
  ASSUME NEW rd \in Slots, NEW s \in Slots
  PROVE  Dist(Nxt(rd), s) = IF s = rd THEN DescCount - 1 ELSE Dist(rd, s) - 1
  BY RxAssumption DEF Slots, Dist, Nxt

\* The number of filled descriptors of ring_recv is a distance.
LEMMA AvailIsDist == RxAvail = Dist(tx_rd_idx, tx_wr_idx)
  BY DEF RxAvail, Dist

-----------------------------------------------------------------------------
\* The invariant holds while there has been no traffic.
LEMMA QuietIInv == TrafficInit => IInv
<1> SUFFICES ASSUME TrafficInit PROVE IInv
  OBVIOUS
<1> USE DEF TrafficInit, Threads
<1>0. 0 \in Slots /\ Dist(0, 0) = 0 /\ \A s \in Slots : Dist(0, s) >= 0
  BY RxAssumption, DistRange DEF Slots
<1>1. TypeOK
  <2>1. rx_sem \in 0 .. DescCount
    BY RxAssumption
  <2>2. /\ callback \in BOOLEAN /\ unseen \in BOOLEAN /\ irq \in BOOLEAN /\ work \in BOOLEAN
        /\ call \in [Threads -> [wait : BOOLEAN, small : BOOLEAN]]
    BY ZenonT(40) DEF NoCall
  <2> QED BY <1>0, <2>1, <2>2 DEF TypeOK, Steps, Results
<1>2. LockInv /\ ActiveInv /\ ReaderInv
  BY ZenonT(40), RxAssumption DEF LockInv, ActiveInv, ReaderInv, Holding, Reading
<1>3. ContentInv
  <2>1. End = 0 /\ Len(accepted) = 0 /\ Len(delivered) = 0 /\ \A s \in Slots : flags[s] = 0
    BY ZenonT(40) DEF End
  <2>2. \A s \in Slots : ~(Dist(0, s) < 0)
    BY DistRange, <1>0
  <2> QED BY <1>0, <2>1, <2>2 DEF ContentInv
<1>4. PrefixInv /\ CallbackInv /\ DrainInv /\ NoLostWakeup
  BY DEF PrefixInv, CallbackInv, DrainInv, NoLostWakeup
<1> QED BY ZenonT(40), <1>1, <1>2, <1>3, <1>4 DEF IInv

-----------------------------------------------------------------------------
(* One lemma per conjunct of the invariant.                                *)

\* The message at the read index, once its flag has been seen.
LEMMA TakenMessage ==
  ASSUME IInv, NEW t \in Threads, pc[t] = "advance"
  PROVE  /\ idx[t] = tx_rd_idx
         /\ Len(delivered) < Len(accepted)
         /\ buf[tx_rd_idx] = accepted[Len(delivered) + 1]
         /\ buf[tx_rd_idx] \in Messages
<1>1. initialized /\ TypeOK /\ ContentInv /\ idx[t] = tx_rd_idx /\ tx_rd_idx # End
  BY ZenonT(40) DEF IInv, ActiveInv, Ready, ReaderInv, Reading
<1>2. tx_rd_idx \in Slots /\ End \in Slots
  BY ZenonT(40), <1>1, NextIdx DEF TypeOK, End
<1>3. Dist(tx_rd_idx, tx_rd_idx) = 0 /\ Dist(tx_rd_idx, End) \in Nat /\ Dist(tx_rd_idx, End) > 0
  <2>1. Dist(tx_rd_idx, tx_rd_idx) = 0
    BY ZenonT(40), <1>2, DistRange
  <2>2. Dist(tx_rd_idx, End) \in 0 .. DescCount - 1 /\ Dist(tx_rd_idx, End) # 0
    BY ZenonT(40), <1>1, <1>2, DistRange
  <2> QED BY <2>1, <2>2, RxAssumption
<1>4. Len(accepted) = Len(delivered) + Dist(tx_rd_idx, End)
  BY ZenonT(40), <1>1 DEF ContentInv
<1>5. buf[tx_rd_idx] = accepted[Len(delivered) + 0 + 1]
  BY ZenonT(40), <1>1, <1>2, <1>3 DEF ContentInv
<1>6. Len(delivered) \in Nat /\ Len(accepted) \in Nat /\ accepted \in Seq(Messages)
  BY <1>1 DEF TypeOK
<1>7. Len(delivered) < Len(accepted) /\ Len(delivered) + 0 + 1 = Len(delivered) + 1
  BY <1>3, <1>4, <1>6
<1>8. accepted[Len(delivered) + 1] \in Messages
  BY <1>6, <1>7
<1> QED BY ZenonT(40), <1>1, <1>5, <1>7, <1>8

\* What a call leaves behind when it returns is well typed.
LEMMA ReturnType ==
  ASSUME TypeOK, NEW t \in Threads, NEW r \in Results, Return(t, r)
  PROVE  /\ pc' \in [Threads -> Steps] /\ ret' \in [Threads -> Results]
         /\ call' \in [Threads -> [wait : BOOLEAN, small : BOOLEAN]]
         /\ idx' \in [Threads -> Slots]
<1>1. 0 \in Slots /\ NoCall \in [wait : BOOLEAN, small : BOOLEAN]
  BY RxAssumption DEF Slots, NoCall
<1> QED BY ZenonT(40), <1>1 DEF TypeOK, Return, Goto, Steps

LEMMA TypeStep ==
  ASSUME IInv, Traffic, UNCHANGED lifeVars
  PROVE  TypeOK'
<1> USE RxAssumption DEF Steps, Results, Goto, idxVars, descVars, syncVars,
                         thrVars, devVars, hostVars, histVars
<1>0. TypeOK /\ 0 \in Slots
  BY DEF IInv, Slots
<1>1. ASSUME NEW t \in Threads, RecvCall(t) PROVE TypeOK'
  BY <1>0, <1>1 DEF RecvCall, TypeOK
<1>2. ASSUME NEW t \in Threads, RecvLock(t) PROVE TypeOK'
  BY ZenonT(40), <1>0, <1>2 DEF RecvLock, TypeOK
<1>3. ASSUME NEW t \in Threads, RecvLockTimeout(t) PROVE TypeOK'
  BY ZenonT(40), <1>0, <1>3, ReturnType DEF RecvLockTimeout, TypeOK
<1>4. ASSUME NEW t \in Threads, RecvCheck(t) PROVE TypeOK'
  <2>1. CASE RxAvail > 0 /\ idx' = [idx EXCEPT ![t] = tx_rd_idx] /\ Goto(t, "desc")
             /\ UNCHANGED <<rx_lock, call, ret>>
    BY ZenonT(40), <1>0, <1>4, <2>1 DEF RecvCheck, TypeOK
  <2>2. CASE Return(t, "empty") /\ rx_lock' = NoThread
    BY ZenonT(40), <1>0, <1>4, <2>2, ReturnType DEF RecvCheck, TypeOK
  <2>3. CASE rx_lock' = NoThread /\ Goto(t, "sem") /\ UNCHANGED <<call, idx, ret>>
    BY ZenonT(40), <1>0, <1>4, <2>3 DEF RecvCheck, TypeOK
  <2> QED BY ZenonT(40), <1>4, <2>1, <2>2, <2>3 DEF RecvCheck
<1>5. ASSUME NEW t \in Threads, RecvSemTake(t) PROVE TypeOK'
  BY <1>0, <1>5 DEF RecvSemTake, TypeOK
<1>6. ASSUME NEW t \in Threads, RecvSemTimeout(t) PROVE TypeOK'
  BY ZenonT(40), <1>0, <1>6, ReturnType DEF RecvSemTimeout, TypeOK
<1>7. ASSUME NEW t \in Threads, RecvRelock(t) PROVE TypeOK'
  BY ZenonT(40), <1>0, <1>7 DEF RecvRelock, TypeOK
<1>8. ASSUME NEW t \in Threads, RecvDesc(t) PROVE TypeOK'
  <2>1. CASE UNCHANGED <<rx_errors, rx_lock, call, idx, ret>>
    BY <1>0, <1>8, <2>1 DEF RecvDesc, TypeOK
  <2>2. CASE rx_errors' = rx_errors + 1 /\ rx_lock' = NoThread
             /\ (Return(t, "EINVAL") \/ Return(t, "EMSGSIZE"))
    <3>1. rx_errors' \in Nat
      BY <1>0, <2>2 DEF TypeOK
    <3> QED BY ZenonT(40), <1>0, <1>8, <2>2, <3>1, ReturnType DEF RecvDesc, TypeOK
  <2> QED BY ZenonT(40), <1>8, <2>1, <2>2 DEF RecvDesc
<1>9. ASSUME NEW t \in Threads, RecvClear(t) PROVE TypeOK'
  BY ZenonT(40), <1>0, <1>9 DEF RecvClear, TypeOK
<1>10. ASSUME NEW t \in Threads, RecvAdvance(t) PROVE TypeOK'
  <2>1. buf[idx[t]] \in Messages /\ tx_rd_idx' \in Slots
    BY <1>0, <1>10, TakenMessage, NextIdx DEF RecvAdvance, TypeOK
  <2> QED BY <1>0, <1>10, <2>1 DEF RecvAdvance, TypeOK
<1>11. ASSUME NEW t \in Threads, RecvUnlock(t) PROVE TypeOK'
  BY ZenonT(40), <1>0, <1>11, ReturnType DEF RecvUnlock, TypeOK
<1>12. CASE RxHandler
  <2>1. irq' \in BOOLEAN /\ work' \in BOOLEAN /\ unseen' \in BOOLEAN
    BY ZenonT(40), <1>0, <1>12 DEF RxHandler, TypeOK
  <2>2. rx_sem' \in 0 .. DescCount
    BY <1>0, <1>12 DEF RxHandler, TypeOK
  <2> QED BY ZenonT(40), <1>0, <1>12, <2>1, <2>2 DEF RxHandler, TypeOK
<1>13. CASE RxWorkHandler
  BY ZenonT(40), <1>0, <1>13 DEF RxWorkHandler, TypeOK, Threads
<1>14. CASE RegisterCallback
  BY ZenonT(40), <1>0, <1>14 DEF RegisterCallback, TypeOK
<1>15. CASE HostFill
  BY <1>0, <1>15 DEF HostFill, HostStep, TypeOK
<1>16. CASE HostFlag
  <2>1. buf[tx_wr_idx] \in Messages
    BY ZenonT(40), <1>16 DEF IInv, ActiveInv, Ready, ContentInv, HostFlag, HostStep
  <2> QED BY <1>0, <1>16, <2>1 DEF HostFlag, HostStep, TypeOK
<1>17. CASE HostPublish
  <2>1. tx_wr_idx' \in Slots
    BY <1>0, <1>17, NextIdx DEF HostPublish, TypeOK
  <2> QED BY ZenonT(40), <1>0, <1>17, <2>1 DEF HostPublish, HostStep, TypeOK
<1>18. CASE HostRaise
  BY ZenonT(40), <1>0, <1>18 DEF HostRaise, HostStep, TypeOK
<1>19. CASE HostRaiseOther
  <2>1. others' \in Nat /\ irq' = TRUE
    BY <1>0, <1>19 DEF HostRaiseOther, TypeOK
  <2> QED BY ZenonT(40), <1>0, <1>19, <2>1 DEF HostRaiseOther, TypeOK
<1> QED BY ZenonT(40), <1>1, <1>2, <1>3, <1>4, <1>5, <1>6, <1>7, <1>8, <1>9, <1>10, <1>11, <1>12, <1>13,
           <1>14, <1>15, <1>16, <1>17, <1>18, <1>19 DEF Traffic, RecvStep, Host

LEMMA LockStep ==
  ASSUME IInv, Traffic
  PROVE  LockInv'
<1> USE RxAssumption DEF Holding, Goto, Return, thrVars, syncVars
<1>0. TypeOK /\ LockInv
  BY DEF IInv
<1>1. ASSUME NEW t \in Threads, RecvCall(t) \/ RecvLock(t) \/ RecvLockTimeout(t) \/ RecvSemTake(t)
                               \/ RecvSemTimeout(t) \/ RecvRelock(t)
      PROVE  LockInv'
  <2>1. CASE RecvCall(t) \/ RecvLockTimeout(t) \/ RecvSemTake(t) \/ RecvSemTimeout(t)
    BY <1>0, <2>1 DEF TypeOK, LockInv, Threads, RecvCall, RecvLockTimeout, RecvSemTake, RecvSemTimeout
  <2>2. CASE RecvLock(t) \/ RecvRelock(t)
    BY <1>0, <2>2 DEF TypeOK, LockInv, Threads, RecvLock, RecvRelock
  <2> QED BY ZenonT(40), <1>1, <2>1, <2>2
<1>2. ASSUME NEW t \in Threads, RecvCheck(t) PROVE LockInv'
  BY ZenonT(40), <1>0, <1>2 DEF TypeOK, LockInv, Threads, RecvCheck
<1>3. ASSUME NEW t \in Threads, RecvDesc(t) PROVE LockInv'
  BY <1>0, <1>3 DEF TypeOK, LockInv, Threads, RecvDesc
<1>4. ASSUME NEW t \in Threads, RecvClear(t) \/ RecvAdvance(t) PROVE LockInv'
  BY ZenonT(40), <1>0, <1>4 DEF TypeOK, LockInv, Threads, RecvClear, RecvAdvance
<1>5. ASSUME NEW t \in Threads, RecvUnlock(t) PROVE LockInv'
  BY ZenonT(40), <1>0, <1>5 DEF TypeOK, LockInv, Threads, RecvUnlock
<1>6. CASE RxWorkHandler
  BY ZenonT(40), <1>0, <1>6 DEF TypeOK, LockInv, Threads, RxWorkHandler
<1>7. CASE RxHandler \/ RegisterCallback \/ Host
  BY ZenonT(40), <1>0, <1>7 DEF LockInv, RxHandler, RegisterCallback, Host, HostFill, HostFlag, HostPublish,
                    HostRaise, HostRaiseOther
<1> QED BY ZenonT(40), <1>1, <1>2, <1>3, <1>4, <1>5, <1>6, <1>7 DEF Traffic, RecvStep

LEMMA ActiveStep ==
  ASSUME IInv, Traffic, UNCHANGED lifeVars
  PROVE  ActiveInv'
<1> USE DEF Goto, Return, thrVars, hostVars, HostStep
<1>0. TypeOK /\ ActiveInv /\ Ready' = Ready
  BY ZenonT(40) DEF IInv, Ready, lifeVars
<1>1. ASSUME NEW t \in Threads, RecvCall(t) \/ RecvStep(t) PROVE ActiveInv'
  <2>1. Ready /\ hostPc' = hostPc
    BY ZenonT(40), <1>0, <1>1 DEF ActiveInv, RecvCall, RecvStep, RecvLock, RecvLockTimeout, RecvCheck,
       RecvSemTake, RecvSemTimeout, RecvRelock, RecvDesc, RecvClear, RecvAdvance, RecvUnlock
  <2> QED BY ZenonT(40), <1>0, <2>1 DEF ActiveInv
<1>2. CASE RxWorkHandler
  BY ZenonT(40), <1>0, <1>2 DEF TypeOK, ActiveInv, RxWorkHandler, Threads
<1>3. CASE RxHandler \/ RegisterCallback \/ Host
  BY ZenonT(40), <1>0, <1>3 DEF ActiveInv, RxHandler, RegisterCallback, Host, HostFill, HostFlag, HostPublish,
                    HostRaise, HostRaiseOther
<1> QED BY ZenonT(40), <1>1, <1>2, <1>3 DEF Traffic

\* A step of ring_recv leaves the callback's part of the state as it was.
LEMMA CallbackMove ==
  ASSUME TypeOK, CallbackInv, NEW t \in Threads, pc[t] # "idle",
         NEW n, Goto(t, n), t = WorkThread => n \notin {"sem", "relock"},
         UNCHANGED <<callback, work>>,
         call' = call \/ call' = [call EXCEPT ![t] = NoCall]
  PROVE  CallbackInv'
<1>1. call'[WorkThread] = NoCall
  BY ZenonT(40) DEF CallbackInv, TypeOK, Threads
<1>2. CASE t = WorkThread
  BY ZenonT(40), <1>1, <1>2, RxAssumption DEF CallbackInv, TypeOK, Threads, Goto
<1>3. CASE t # WorkThread
  BY ZenonT(40), <1>1, <1>3 DEF CallbackInv, TypeOK, Threads, Goto
<1> QED BY ZenonT(40), <1>2, <1>3

LEMMA CallbackStep ==
  ASSUME IInv, Traffic
  PROVE  CallbackInv'
<1> USE RxAssumption DEF Goto, Return, thrVars, devVars, NoCall
<1>0. TypeOK /\ CallbackInv
  BY DEF IInv
<1>1. ASSUME NEW t \in Threads, RecvCall(t) PROVE CallbackInv'
  BY ZenonT(40), <1>0, <1>1 DEF TypeOK, CallbackInv, RecvCall, Threads
<1>2. ASSUME NEW t \in Threads, RecvStep(t) PROVE CallbackInv'
  <2>1. pc[t] # "idle" /\ UNCHANGED <<callback, work>>
    BY ZenonT(40), <1>2 DEF RecvStep, RecvLock, RecvLockTimeout, RecvCheck, RecvSemTake, RecvSemTimeout,
       RecvRelock, RecvDesc, RecvClear, RecvAdvance, RecvUnlock
  <2>2. call' = call \/ call' = [call EXCEPT ![t] = NoCall]
    BY ZenonT(40), <1>2 DEF RecvStep, RecvLock, RecvLockTimeout, RecvCheck, RecvSemTake, RecvSemTimeout,
       RecvRelock, RecvDesc, RecvClear, RecvAdvance, RecvUnlock
  <2>3. t = WorkThread => ~call[t].wait /\ pc[t] \notin {"sem", "relock"}
    BY <1>0 DEF CallbackInv
  <2>4. \E n : Goto(t, n) /\ (t = WorkThread => n \notin {"sem", "relock"})
    <3>1. CASE RecvCheck(t)
      BY ZenonT(40), <2>3, <3>1 DEF RecvCheck
    <3>2. CASE RecvLock(t) \/ RecvClear(t) \/ RecvAdvance(t)
      BY ZenonT(40), <3>2 DEF RecvLock, RecvClear, RecvAdvance
    <3>3. CASE RecvLockTimeout(t) \/ RecvSemTimeout(t) \/ RecvUnlock(t)
      BY <3>3 DEF RecvLockTimeout, RecvSemTimeout, RecvUnlock
    <3>4. CASE RecvSemTake(t) \/ RecvRelock(t)
      BY ZenonT(40), <2>3, <3>4 DEF RecvSemTake, RecvRelock
    <3>5. CASE RecvDesc(t)
      BY ZenonT(40), <3>5 DEF RecvDesc
    <3> QED BY ZenonT(40), <1>2, <3>1, <3>2, <3>3, <3>4, <3>5 DEF RecvStep
  <2> QED BY ZenonT(40), <1>0, <2>1, <2>2, <2>4, CallbackMove
<1>3. CASE RxHandler
  BY ZenonT(40), <1>0, <1>3 DEF TypeOK, CallbackInv, RxHandler
<1>4. CASE RxWorkHandler
  BY ZenonT(40), <1>0, <1>4 DEF TypeOK, CallbackInv, RxWorkHandler, Threads
<1>5. CASE RegisterCallback
  BY ZenonT(40), <1>0, <1>5 DEF CallbackInv, RegisterCallback
<1>6. CASE Host
  BY <1>0, <1>6 DEF CallbackInv, Host, HostFill, HostFlag, HostPublish, HostRaise, HostRaiseOther
<1> QED BY ZenonT(40), <1>1, <1>2, <1>3, <1>4, <1>5, <1>6 DEF Traffic

\* Only one thread is between lock and unlock.
LEMMA OneHolder ==
  ASSUME LockInv, NEW t \in Threads, NEW u \in Threads, pc[t] \in Holding, pc[u] \in Holding
  PROVE  t = u
  BY DEF LockInv

\* The steps that leave descriptors, indices and messages alone.
Passive(t) == \/ RecvCall(t) \/ RecvLock(t) \/ RecvLockTimeout(t) \/ RecvCheck(t) \/ RecvSemTake(t)
              \/ RecvSemTimeout(t) \/ RecvRelock(t) \/ RecvDesc(t) \/ RecvUnlock(t)
Event == RxHandler \/ RxWorkHandler \/ RegisterCallback \/ HostRaise \/ HostRaiseOther

\* What they have in common.
LEMMA QuietStep ==
  ASSUME IInv, (\E t \in Threads : Passive(t)) \/ Event
  PROVE  /\ UNCHANGED <<tx_wr_idx, tx_rd_idx, flags, buf, accepted, delivered>>
         /\ End' = End
         /\ hostPc' = hostPc \/ (hostPc = "raise" /\ hostPc' = "idle")
         /\ \A u \in Threads : pc[u] = "advance" <=> pc'[u] = "advance"
<1> USE DEF Goto, Return, idxVars, descVars, thrVars, hostVars, histVars, HostStep
<1>0. pc \in [Threads -> Steps]
  BY ZenonT(40) DEF IInv, TypeOK
<1>1. ASSUME NEW t \in Threads, Passive(t)
      PROVE  /\ UNCHANGED <<tx_wr_idx, tx_rd_idx, flags, buf, accepted, delivered, hostPc>>
             /\ pc[t] # "advance" /\ \E n : n # "advance" /\ Goto(t, n)
  BY ZenonT(40), <1>1 DEF Passive, RecvCall, RecvLock, RecvLockTimeout, RecvCheck, RecvSemTake,
              RecvSemTimeout, RecvRelock, RecvDesc, RecvUnlock
<1>2. ASSUME NEW t \in Threads, Passive(t)
      PROVE  \A u \in Threads : pc[u] = "advance" <=> pc'[u] = "advance"
  BY ZenonT(40), <1>0, <1>1, <1>2
<1>3. CASE RxWorkHandler
  BY ZenonT(40), <1>0, <1>3 DEF RxWorkHandler, End, Threads
<1>4. CASE RxHandler \/ RegisterCallback \/ HostRaise \/ HostRaiseOther
  BY ZenonT(40), <1>4 DEF RxHandler, RegisterCallback, HostRaise, HostRaiseOther, End
<1> QED BY ZenonT(40), <1>1, <1>2, <1>3, <1>4 DEF Event, End

LEMMA ReaderStep ==
  ASSUME IInv, Traffic
  PROVE  ReaderInv'
<1> USE DEF Goto, Return, idxVars, descVars, thrVars, hostVars, histVars, HostStep
<1>0. TypeOK /\ LockInv /\ ReaderInv
  BY DEF IInv
<1>1. ASSUME NEW t \in Threads, Passive(t) PROVE ReaderInv'
  <2> SUFFICES ASSUME NEW u \in Threads
               PROVE  /\ pc'[u] \in Reading => idx'[u] = tx_rd_idx
                      /\ pc'[u] = "clear" => flags[tx_rd_idx] = 1
                      /\ pc'[u] = "advance" => pc[u] = "advance"
    BY ZenonT(40), <1>0, <1>1, QuietStep DEF ReaderInv
  <2>1. CASE u # t
    BY ZenonT(40), <1>0, <1>1, <2>1 DEF ReaderInv, TypeOK, Passive, RecvCall, RecvLock, RecvLockTimeout,
       RecvCheck, RecvSemTake, RecvSemTimeout, RecvRelock, RecvDesc, RecvUnlock
  <2>2. CASE u = t /\ RecvDesc(t)
    <3>1. idx[t] = tx_rd_idx /\ flags[tx_rd_idx] \in {0, 1}
      BY ZenonT(40), <1>0, <2>2 DEF ReaderInv, Reading, RecvDesc, TypeOK
    <3> QED BY ZenonT(40), <1>0, <2>2, <3>1 DEF Reading, RecvDesc, TypeOK
  <2>3. CASE u = t /\ ~RecvDesc(t)
    BY ZenonT(40), <1>0, <1>1, <2>3 DEF ReaderInv, TypeOK, Passive, Reading, RecvCall, RecvLock,
       RecvLockTimeout, RecvCheck, RecvSemTake, RecvSemTimeout, RecvRelock, RecvUnlock
  <2> QED BY ZenonT(40), <2>1, <2>2, <2>3
<1>2. CASE Event
  <2>1. UNCHANGED <<tx_rd_idx, flags, End, idx>>
    BY ZenonT(40), <1>2, QuietStep DEF Event, RxHandler, RxWorkHandler, RegisterCallback, HostRaise,
                           HostRaiseOther
  <2>2. \A u \in Threads : pc'[u] \in Reading => pc'[u] = pc[u]
    BY ZenonT(40), <1>0, <1>2 DEF Event, RxHandler, RxWorkHandler, RegisterCallback, HostRaise,
                      HostRaiseOther, TypeOK, Threads, Reading
  <2> QED BY ZenonT(40), <1>0, <2>1, <2>2 DEF ReaderInv, Reading
<1>3. ASSUME NEW t \in Threads, RecvClear(t) PROVE ReaderInv'
  <2>1. idx[t] = tx_rd_idx /\ flags[tx_rd_idx] = 1 /\ initialized
    BY ZenonT(40), <1>3 DEF IInv, ActiveInv, Ready, ReaderInv, Reading, RecvClear
  <2>2. tx_rd_idx # End
    <3>1. Dist(tx_rd_idx, tx_rd_idx) < Dist(tx_rd_idx, End)
      BY ZenonT(40), <2>1 DEF IInv, ContentInv, TypeOK
    <3>2. Dist(tx_rd_idx, tx_rd_idx) = 0
      BY ZenonT(40), <1>0, DistRange DEF TypeOK
    <3> QED BY <3>1, <3>2
  <2>3. \A u \in Threads : u # t => pc[u] \notin Reading
    BY ZenonT(40), <1>0, <1>3, OneHolder DEF RecvClear, Holding, Reading
  <2>4. UNCHANGED <<tx_rd_idx, End, idx>> /\ flags'[tx_rd_idx] = 0
    BY ZenonT(40), <1>0, <1>3, <2>1 DEF RecvClear, End, TypeOK
  <2> QED BY ZenonT(40), <1>0, <1>3, <2>1, <2>2, <2>3, <2>4 DEF ReaderInv, RecvClear, Reading, TypeOK
<1>4. ASSUME NEW t \in Threads, RecvAdvance(t) PROVE ReaderInv'
  <2>1. \A u \in Threads : u # t => pc[u] \notin Reading
    BY ZenonT(40), <1>0, <1>4, OneHolder DEF RecvAdvance, Holding, Reading
  <2>2. \A u \in Threads : pc'[u] \notin Reading
    BY ZenonT(40), <1>0, <1>4, <2>1 DEF RecvAdvance, TypeOK, Reading
  <2> QED BY ZenonT(40), <2>2 DEF ReaderInv, Reading
<1>5. CASE HostFill
  BY ZenonT(40), <1>0, <1>5 DEF HostFill, ReaderInv, End
<1>6. CASE HostFlag
  <2>1. /\ End = tx_wr_idx /\ End' = Nxt(tx_wr_idx)
        /\ Dist(tx_rd_idx, tx_wr_idx) < DescCount - 1
    BY ZenonT(40), <1>6 DEF IInv, ActiveInv, Ready, ContentInv, HostFlag, End
  <2>2. tx_rd_idx # End'
    <3>1. tx_rd_idx \in Slots /\ tx_wr_idx \in Slots /\ Nxt(tx_wr_idx) \in Slots
      BY ZenonT(40), <1>0, NextIdx DEF TypeOK
    <3>2. Dist(tx_rd_idx, Nxt(tx_wr_idx)) = Dist(tx_rd_idx, tx_wr_idx) + 1
      BY ZenonT(40), <2>1, <3>1, DistGrows
    <3>3. Dist(tx_rd_idx, tx_wr_idx) \in 0 .. DescCount - 1
      BY ZenonT(40), <3>1, DistRange
    <3>4. Dist(tx_rd_idx, tx_rd_idx) = 0
      BY ZenonT(40), <3>1, DistRange
    <3> QED BY <2>1, <3>2, <3>3, <3>4, RxAssumption
  <2>3. UNCHANGED <<tx_rd_idx, pc, idx>> /\ flags' = [flags EXCEPT ![tx_wr_idx] = 1]
    BY ZenonT(40), <1>6 DEF HostFlag
  <2> QED BY ZenonT(40), <1>0, <2>1, <2>2, <2>3 DEF ReaderInv, TypeOK
<1>7. CASE HostPublish
  <2>1. End' = End
    BY ZenonT(40), <1>0, <1>7, NextIdx DEF HostPublish, End, TypeOK
  <2> QED BY ZenonT(40), <1>0, <1>7, <2>1 DEF HostPublish, ReaderInv
<1> QED BY ZenonT(40), <1>1, <1>2, <1>3, <1>4, <1>5, <1>6, <1>7 DEF Traffic, RecvStep, Host, Passive, Event

LEMMA ContentStep ==
  ASSUME IInv, Traffic, UNCHANGED lifeVars
  PROVE  ContentInv'
<1> USE DEF Goto, idxVars, descVars, thrVars, hostVars, histVars, HostStep
<1> SUFFICES ASSUME initialized PROVE ContentInv'
  BY ZenonT(40) DEF ContentInv, lifeVars
<1>0. TypeOK /\ LockInv /\ ReaderInv /\ ContentInv /\ initialized' = initialized
  BY ZenonT(40) DEF IInv, lifeVars
<1> DEFINE rd == tx_rd_idx
           wr == tx_wr_idx
           a == Len(accepted)
           d == Len(delivered)
<1>01. /\ rd \in Slots /\ wr \in Slots /\ Nxt(wr) \in Slots /\ Nxt(rd) \in Slots
       /\ End \in Slots /\ DescCount \in Nat
       /\ a \in Nat /\ d \in Nat /\ a = d + Dist(rd, End)
  BY <1>0, NextIdx, RxAssumption DEF TypeOK, ContentInv, End
<1>02. \A s \in Slots : Dist(rd, s) \in 0 .. DescCount - 1 /\ (Dist(rd, s) = 0 <=> s = rd)
  BY ZenonT(40), <1>01, DistRange
<1>1. CASE (\E t \in Threads : Passive(t)) \/ Event
  BY ZenonT(40), <1>0, <1>1, QuietStep DEF ContentInv
<1>2. ASSUME NEW t \in Threads, RecvClear(t) PROVE ContentInv'
  <2>1. idx[t] = rd
    BY ZenonT(40), <1>0, <1>2 DEF ReaderInv, Reading, RecvClear
  <2>2. pc'[t] = "advance" /\ \A u \in Threads : pc[u] = "advance" => pc'[u] = "advance"
    BY ZenonT(40), <1>0, <1>2 DEF RecvClear, TypeOK
  <2>3. flags' = [flags EXCEPT ![rd] = 0]
    BY ZenonT(40), <1>2, <2>1 DEF RecvClear
  <2>4. UNCHANGED <<tx_rd_idx, tx_wr_idx, End, buf, accepted, delivered, hostPc>>
    BY ZenonT(40), <1>2 DEF RecvClear, End
  <2>5. \A s \in Slots : flags'[s] = IF s = rd THEN 0 ELSE flags[s]
    BY ZenonT(40), <1>0, <2>3 DEF TypeOK
  <2> QED BY <1>0, <2>2, <2>4, <2>5 DEF ContentInv
<1>3. ASSUME NEW t \in Threads, RecvAdvance(t) PROVE ContentInv'
  <2>1. /\ rd # End /\ flags[rd] = 0 /\ idx[t] = rd
        /\ buf[rd] = accepted[d + 1]
    BY ZenonT(40), <1>0, <1>3, TakenMessage DEF ReaderInv, RecvAdvance
  <2>2. rd' = Nxt(rd) /\ Len(delivered') = d + 1
    BY <1>0, <1>01, <1>3, <2>1, NextIdx DEF RecvAdvance, TypeOK
  <2>3. UNCHANGED <<tx_wr_idx, End, buf, flags, accepted, hostPc>>
    BY ZenonT(40), <1>3 DEF RecvAdvance, End
  <2>4. \A s \in Slots : Dist(rd', s) = IF s = rd THEN DescCount - 1 ELSE Dist(rd, s) - 1
    BY ZenonT(40), <1>01, <2>2, DistShrinks
  <2>5. Dist(rd', End) = Dist(rd, End) - 1 /\ Dist(rd, End) \in 1 .. DescCount - 1
    BY <1>01, <1>02, <2>1, <2>4
  <2>6. \A u \in Threads : pc[u] = "advance" => u = t
    BY ZenonT(40), <1>0, <1>3, OneHolder DEF RecvAdvance, Holding
  <2>7. a = Len(delivered') + Dist(rd', End)
    BY <1>01, <2>2, <2>5
  <2>8. ASSUME NEW s \in Slots, Dist(rd', s) < Dist(rd', End)
        PROVE  /\ buf[s] = accepted[Len(delivered') + Dist(rd', s) + 1]
               /\ flags[s] # 0
    <3>1. s # rd /\ Dist(rd', s) = Dist(rd, s) - 1 /\ Dist(rd, s) < Dist(rd, End)
      BY <1>01, <1>02, <2>4, <2>5, <2>8
    <3>2. buf[s] = accepted[d + Dist(rd, s) + 1] /\ flags[s] # 0
      BY ZenonT(40), <1>0, <3>1 DEF ContentInv
    <3>3. d + Dist(rd, s) + 1 = Len(delivered') + Dist(rd', s) + 1
      BY <1>01, <1>02, <2>2, <3>1
    <3> QED BY ZenonT(40), <3>2, <3>3
  <2>9. ASSUME NEW s \in Slots, flags[s] = 1
        PROVE  Dist(rd', s) < Dist(rd', End)
    <3>1. s # rd /\ Dist(rd, s) < Dist(rd, End)
      BY <1>0, <2>1, <2>9 DEF ContentInv
    <3> QED BY <1>01, <1>02, <2>4, <2>5, <3>1
  <2>10. hostPc = "flag" => Dist(rd', wr) < DescCount - 1 /\ buf[wr] \in Messages
    BY <1>0, <1>01, <1>02, <2>1, <2>4 DEF ContentInv, End
  <2> QED BY ZenonT(40), <1>0, <2>3, <2>7, <2>8, <2>9, <2>10 DEF ContentInv
<1>4. CASE HostFill
  <2>1. PICK m \in Messages : buf' = [buf EXCEPT ![wr] = m]
    BY ZenonT(40), <1>4 DEF HostFill
  <2>2. /\ UNCHANGED <<tx_rd_idx, tx_wr_idx, End, pc, flags, accepted, delivered>>
        /\ hostPc' = "flag" /\ End = wr
    BY ZenonT(40), <1>4 DEF HostFill, End
  <2>3. Dist(rd, wr) < DescCount - 1
    BY ZenonT(40), <1>4, AvailIsDist DEF HostFill
  <2>4. \A s \in Slots : Dist(rd, s) < Dist(rd, End) => buf'[s] = buf[s]
    BY <1>0, <1>01, <1>02, <2>1, <2>2 DEF TypeOK
  <2>5. buf'[wr] \in Messages
    BY ZenonT(40), <1>0, <1>01, <2>1 DEF TypeOK
  <2> QED BY ZenonT(40), <1>0, <2>2, <2>3, <2>4, <2>5 DEF ContentInv
<1>5. CASE HostFlag
  <2>1. /\ UNCHANGED <<tx_rd_idx, tx_wr_idx, pc, buf, delivered>>
        /\ hostPc' = "publish" /\ End = wr /\ End' = Nxt(wr)
        /\ flags' = [flags EXCEPT ![wr] = 1]
        /\ accepted' = Append(accepted, buf[wr])
    BY ZenonT(40), <1>5 DEF HostFlag, End
  <2>2. Dist(rd, wr) < DescCount - 1 /\ buf[wr] \in Messages
    BY ZenonT(40), <1>0, <1>5 DEF ContentInv, HostFlag
  <2>3. Dist(rd, End') = Dist(rd, wr) + 1
    BY ZenonT(40), <1>01, <2>1, <2>2, DistGrows
  <2>4. /\ Len(accepted') = a + 1 /\ accepted'[a + 1] = buf[wr]
        /\ \A n \in 1 .. a : accepted'[n] = accepted[n]
    BY <1>0, <2>1, <2>2 DEF TypeOK
  <2>5. \A s \in Slots : flags'[s] = IF s = wr THEN 1 ELSE flags[s]
    BY ZenonT(40), <1>0, <2>1 DEF TypeOK
  <2>6. \A s \in Slots : Dist(rd, s) = Dist(rd, wr) => s = wr
    BY ZenonT(40), <1>01, DistRange
  <2>7. ASSUME NEW s \in Slots, Dist(rd, s) < Dist(rd, End')
        PROVE  /\ buf[s] = accepted'[d + Dist(rd, s) + 1]
               /\ flags'[s] = 0 => s = rd /\ \E t \in Threads : pc[t] = "advance"
    <3>1. CASE s = wr
      BY <1>01, <2>1, <2>4, <2>5, <3>1
    <3>2. CASE s # wr
      <4>1. Dist(rd, s) < Dist(rd, End)
        BY <1>01, <1>02, <2>1, <2>3, <2>6, <2>7, <3>2
      <4>2. d + Dist(rd, s) + 1 \in 1 .. a
        BY <1>01, <1>02, <4>1
      <4> QED BY ZenonT(40), <1>0, <2>4, <2>5, <3>2, <4>1, <4>2 DEF ContentInv
    <3> QED BY ZenonT(40), <3>1, <3>2
  <2>8. ASSUME NEW s \in Slots, flags'[s] = 1
        PROVE  Dist(rd, s) < Dist(rd, End')
    <3>1. s = wr \/ Dist(rd, s) < Dist(rd, wr)
      BY ZenonT(40), <1>0, <2>1, <2>5, <2>8 DEF ContentInv
    <3> QED BY <1>01, <1>02, <2>3, <3>1
  <2>9. Len(accepted') = d + Dist(rd, End')
    BY <1>01, <1>02, <2>1, <2>3, <2>4
  <2> QED BY ZenonT(40), <1>0, <2>1, <2>7, <2>8, <2>9 DEF ContentInv
<1>6. CASE HostPublish
  <2>1. /\ UNCHANGED <<tx_rd_idx, End, pc, flags, buf, accepted, delivered>>
        /\ hostPc' = "raise"
    BY ZenonT(40), <1>01, <1>6, NextIdx DEF HostPublish, End
  <2> QED BY ZenonT(40), <1>0, <2>1 DEF ContentInv
<1> QED BY ZenonT(40), <1>1, <1>2, <1>3, <1>4, <1>5, <1>6 DEF Traffic, RecvStep, Host, Passive, Event

LEMMA PrefixStep ==
  ASSUME IInv, Traffic
  PROVE  PrefixInv'
<1> USE DEF idxVars, descVars, histVars
<1>0. PrefixInv /\ accepted \in Seq(Messages) /\ delivered \in Seq(Messages)
  BY ZenonT(40) DEF IInv, TypeOK
<1>1. ASSUME NEW t \in Threads, RecvAdvance(t) PROVE PrefixInv'
  <2>1. /\ Len(delivered) < Len(accepted) /\ buf[idx[t]] = accepted[Len(delivered) + 1]
        /\ buf[idx[t]] \in Messages
    BY ZenonT(40), <1>1, TakenMessage DEF RecvAdvance
  <2>2. UNCHANGED accepted /\ delivered' = Append(delivered, buf[idx[t]])
    BY ZenonT(40), <1>1 DEF RecvAdvance
  <2> QED BY <1>0, <2>1, <2>2 DEF PrefixInv
<1>2. CASE HostFlag
  <2>1. buf[tx_wr_idx] \in Messages
    BY ZenonT(40), <1>2 DEF IInv, ActiveInv, Ready, ContentInv, HostFlag, HostStep
  <2>2. accepted' = Append(accepted, buf[tx_wr_idx]) /\ UNCHANGED delivered
    BY ZenonT(40), <1>2 DEF HostFlag
  <2> QED BY <1>0, <2>1, <2>2 DEF PrefixInv
<1>3. CASE (\E t \in Threads : Passive(t) \/ RecvClear(t)) \/ Event \/ HostFill \/ HostPublish
  <2>1. UNCHANGED <<accepted, delivered>>
    BY ZenonT(40), <1>3, QuietStep DEF RecvClear, HostFill, HostPublish
  <2> QED BY ZenonT(40), <1>0, <2>1 DEF PrefixInv
<1> QED BY ZenonT(40), <1>1, <1>2, <1>3 DEF Traffic, RecvStep, Host, Passive, Event

\* The callback never finds the lock taken, never waits, and never lacks room.
LEMMA CallbackCalls ==
  ASSUME IInv, pc[WorkThread] # "idle"
  PROVE  /\ Ready /\ callback
         /\ ~call[WorkThread].wait /\ ~call[WorkThread].small
         /\ rx_lock \in {NoThread, WorkThread}
         /\ pc[WorkThread] = "lock" => rx_lock = NoThread
<1>1. Ready /\ callback /\ call[WorkThread] = NoCall
  BY ZenonT(40) DEF IInv, ActiveInv, CallbackInv, Threads
<1>2. \A t \in Receivers : rx_lock # t
  BY ZenonT(40), <1>1 DEF IInv, CallbackInv, LockInv, Holding, Threads
<1>3. rx_lock \in {NoThread, WorkThread}
  BY ZenonT(40), <1>2 DEF IInv, TypeOK, Threads
<1>4. pc[WorkThread] = "lock" => rx_lock # WorkThread
  BY ZenonT(40) DEF IInv, LockInv, Holding, Threads
<1> QED BY <1>1, <1>3, <1>4 DEF NoCall

LEMMA DrainStep ==
  ASSUME IInv, Traffic, UNCHANGED lifeVars
  PROVE  DrainInv'
<1> USE DEF Goto, Return, idxVars, descVars, thrVars, devVars, hostVars, HostStep
<1>0. /\ TypeOK /\ LockInv /\ CallbackInv /\ DrainInv /\ Ready' = Ready
      /\ WorkThread \in Threads
  BY ZenonT(40) DEF IInv, Ready, lifeVars, Threads
<1>01. RxAvail = 0 <=> tx_rd_idx = tx_wr_idx
  BY ZenonT(40), <1>0, AvailIsDist, DistRange DEF TypeOK
<1>1. ASSUME RecvStep(WorkThread) PROVE DrainInv'
  <2>0. pc[WorkThread] # "idle"
    BY ZenonT(40), <1>1 DEF RecvStep, RecvLock, RecvLockTimeout, RecvCheck, RecvSemTake, RecvSemTimeout,
       RecvRelock, RecvDesc, RecvClear, RecvAdvance, RecvUnlock
  <2>1. CASE RecvLock(WorkThread) \/ RecvClear(WorkThread) \/ RecvAdvance(WorkThread)
    <3>1. \E n \in {"check", "advance", "unlock"} : Goto(WorkThread, n)
      BY ZenonT(40), <2>1 DEF RecvLock, RecvClear, RecvAdvance
    <3>2. pc'[WorkThread] \notin {"idle", "desc"}
      BY ZenonT(40), <1>0, <3>1 DEF TypeOK
    <3> QED BY ZenonT(40), <3>2 DEF DrainInv
  <2>2. CASE RecvUnlock(WorkThread)
    <3>1. pc'[WorkThread] = "lock"
      BY ZenonT(40), <1>0, <2>2 DEF RecvUnlock, TypeOK
    <3> QED BY ZenonT(40), <3>1 DEF DrainInv
  <2>3. CASE RecvLockTimeout(WorkThread) \/ RecvSemTake(WorkThread) \/ RecvSemTimeout(WorkThread)
             \/ RecvRelock(WorkThread)
    BY ZenonT(40), <1>0, <2>0, <2>3, CallbackCalls DEF CallbackInv, RecvLockTimeout, RecvSemTake,
                                           RecvSemTimeout, RecvRelock
  <2>4. CASE RecvCheck(WorkThread)
    <3>1. UNCHANGED <<irq, work, unseen, hostPc, tx_rd_idx, tx_wr_idx, flags>>
      BY ZenonT(40), <2>4 DEF RecvCheck
    <3>2. CASE RxAvail = 0
      <4>1. pc'[WorkThread] = "idle"
        BY <1>0, <2>0, <2>4, <3>2, CallbackCalls DEF RecvCheck, TypeOK
      <4> QED BY ZenonT(40), <1>01, <3>1, <3>2, <4>1 DEF DrainInv
    <3>3. CASE RxAvail # 0
      <4>1. pc'[WorkThread] = "desc"
        BY ZenonT(40), <1>0, <2>4, <3>3 DEF RecvCheck, TypeOK
      <4>2. CASE hostPc = "publish"
        BY ZenonT(40), <3>1, <4>1, <4>2 DEF DrainInv
      <4>3. CASE hostPc # "publish"
        <5>1. initialized /\ ContentInv /\ tx_rd_idx \in Slots /\ tx_wr_idx \in Slots
          BY ZenonT(40), <1>0, <2>0, CallbackCalls DEF Ready, IInv, TypeOK
        <5>2. End = tx_wr_idx
          BY ZenonT(40), <4>3 DEF End
        <5>3. Dist(tx_rd_idx, tx_rd_idx) = 0 /\ Dist(tx_rd_idx, tx_wr_idx) > 0
          <6>1. Dist(tx_rd_idx, tx_rd_idx) = 0
            BY ZenonT(40), <5>1, DistRange
          <6>2. Dist(tx_rd_idx, tx_wr_idx) \in 0 .. DescCount - 1 /\ Dist(tx_rd_idx, tx_wr_idx) # 0
            BY ZenonT(40), <1>01, <3>3, <5>1, DistRange
          <6> QED BY <6>1, <6>2
        <5>4. flags[tx_rd_idx] = 0 => \E t \in Threads : pc[t] = "advance"
          BY ZenonT(40), <5>1, <5>2, <5>3 DEF ContentInv
        <5>5. \A t \in Threads : pc[t] # "advance"
          BY ZenonT(40), <1>0, <2>4, OneHolder DEF RecvCheck, Holding
        <5> QED BY ZenonT(40), <3>1, <4>1, <5>4, <5>5 DEF DrainInv
      <4> QED BY ZenonT(40), <4>2, <4>3
    <3> QED BY ZenonT(40), <3>2, <3>3
  <2>5. CASE RecvDesc(WorkThread)
    <3>1. UNCHANGED <<irq, work, unseen, hostPc, tx_rd_idx, tx_wr_idx, flags>>
      BY ZenonT(40), <2>5 DEF RecvDesc
    <3>2. idx[WorkThread] = tx_rd_idx
      BY ZenonT(40), <1>0, <2>5 DEF RecvDesc, IInv, ReaderInv, Reading
    <3>3. pc'[WorkThread] \in {"idle", "clear"}
      BY ZenonT(40), <1>0, <2>5 DEF RecvDesc, TypeOK
    <3>4. pc'[WorkThread] = "idle" => flags[tx_rd_idx] = 0
      BY ZenonT(40), <1>0, <2>0, <2>5, <3>2, CallbackCalls DEF RecvDesc, TypeOK
    <3>5. pc[WorkThread] = "desc"
      BY ZenonT(40), <2>5 DEF RecvDesc
    <3> QED BY ZenonT(40), <1>0, <3>1, <3>3, <3>4, <3>5 DEF DrainInv
  <2> QED BY ZenonT(40), <1>1, <2>1, <2>2, <2>3, <2>4, <2>5 DEF RecvStep
<1>2. ASSUME NEW t \in Threads, RecvCall(t) \/ RecvStep(t), t # WorkThread PROVE DrainInv'
  <2>1. pc'[WorkThread] = pc[WorkThread] /\ UNCHANGED <<irq, work, unseen, hostPc, tx_wr_idx>>
    BY ZenonT(40), <1>0, <1>2 DEF TypeOK, RecvCall, RecvStep, RecvLock, RecvLockTimeout, RecvCheck,
       RecvSemTake, RecvSemTimeout, RecvRelock, RecvDesc, RecvClear, RecvAdvance, RecvUnlock
  <2>2. CASE Passive(t)
    <3>1. UNCHANGED <<tx_rd_idx, flags>>
      BY ZenonT(40), <2>2, QuietStep
    <3> QED BY ZenonT(40), <1>0, <2>1, <3>1 DEF DrainInv
  <2>3. CASE RecvClear(t)
    <3>1. UNCHANGED tx_rd_idx /\ pc[WorkThread] # "desc"
      BY ZenonT(40), <1>0, <1>2, <2>3, OneHolder DEF RecvClear, Holding
    <3> QED BY ZenonT(40), <1>0, <2>1, <3>1 DEF DrainInv
  <2>4. CASE RecvAdvance(t)
    <3>1. pc[WorkThread] # "desc"
      BY ZenonT(40), <1>0, <1>2, <2>4, OneHolder DEF RecvAdvance, Holding
    <3>2. hostPc # "publish" => tx_rd_idx # tx_wr_idx
      BY ZenonT(40), <2>4 DEF IInv, ReaderInv, RecvAdvance, End
    <3> QED BY ZenonT(40), <1>0, <2>1, <3>1, <3>2 DEF DrainInv
  <2> QED BY ZenonT(40), <1>2, <2>2, <2>3, <2>4 DEF RecvStep, Passive
<1>3. CASE RxHandler
  <2>1. UNCHANGED <<pc, flags, tx_rd_idx, tx_wr_idx, hostPc, callback>>
    BY ZenonT(40), <1>3 DEF RxHandler
  <2>2. Ready /\ callback => work'
    BY ZenonT(40), <1>3 DEF RxHandler
  <2>3. Ready /\ ~callback => unseen'
    BY ZenonT(40), <1>3 DEF RxHandler
  <2> QED BY ZenonT(40), <1>0, <2>1, <2>2, <2>3, CallbackCalls DEF DrainInv
<1>4. CASE RxWorkHandler
  <2>1. /\ pc[WorkThread] = "idle" /\ UNCHANGED <<flags, tx_rd_idx, tx_wr_idx>>
        /\ pc'[WorkThread] # "desc"
        /\ Ready /\ RxAvail > 0 => pc'[WorkThread] = "lock"
    BY ZenonT(40), <1>0, <1>4 DEF RxWorkHandler, TypeOK
  <2>2. RxAvail > 0 \/ RxAvail = 0
    BY <1>0, AvailIsDist, DistRange DEF TypeOK
  <2> QED BY ZenonT(40), <1>0, <1>01, <2>1, <2>2 DEF DrainInv
<1>5. CASE RegisterCallback \/ HostFill
  BY ZenonT(40), <1>0, <1>5 DEF RegisterCallback, HostFill, DrainInv
<1>6. CASE HostFlag \/ HostPublish
  BY ZenonT(40), <1>6 DEF HostFlag, HostPublish, DrainInv
<1>7. CASE HostRaise \/ HostRaiseOther
  BY ZenonT(40), <1>7 DEF HostRaise, HostRaiseOther, DrainInv
<1>8. \A t \in Threads : RecvCall(t) => t # WorkThread
  BY ZenonT(40), RxAssumption DEF RecvCall
<1> QED BY ZenonT(40), <1>1, <1>2, <1>3, <1>4, <1>5, <1>6, <1>7, <1>8 DEF Traffic, Host

LEMMA WakeupStep ==
  ASSUME IInv, Traffic, UNCHANGED lifeVars
  PROVE  NoLostWakeup'
<1> USE DEF Goto, idxVars, syncVars, thrVars, devVars, hostVars, HostStep
<1>0. TypeOK /\ NoLostWakeup /\ Receivers \subseteq Threads
  BY DEF IInv, Threads
<1> SUFFICES ASSUME NEW t \in Receivers, pc'[t] = "sem",
                    \A u \in Receivers \ {t} : pc'[u] = "idle" /\ ret'[u] = "none",
                    tx_rd_idx' # tx_wr_idx'
             PROVE  rx_sem' > 0 \/ irq' \/ hostPc' \in {"publish", "raise"}
  BY ZenonT(40) DEF NoLostWakeup
<1>1. ASSUME NEW u \in Threads, RecvCall(u) \/ RecvStep(u) PROVE rx_sem' > 0 \/ irq' \/ hostPc' \in {"publish", "raise"}
  <2>1. UNCHANGED <<irq, hostPc, tx_wr_idx>>
    BY ZenonT(40), <1>1 DEF RecvCall, RecvStep, RecvLock, RecvLockTimeout, RecvCheck, RecvSemTake,
       RecvSemTimeout, RecvRelock, RecvDesc, RecvClear, RecvAdvance, RecvUnlock
  <2>2. CASE u = t
    <3>1. RecvCheck(u) /\ RxAvail = 0 /\ UNCHANGED tx_rd_idx
      BY ZenonT(40), <1>0, <1>1, <2>2 DEF TypeOK, RecvCall, RecvStep, RecvLock, RecvLockTimeout, RecvCheck,
         RecvSemTake, RecvSemTimeout, RecvRelock, RecvDesc, RecvClear, RecvAdvance, RecvUnlock,
         Return
    <3>2. tx_rd_idx = tx_wr_idx
      <4>1. tx_rd_idx \in Slots /\ tx_wr_idx \in Slots
        BY ZenonT(40), <1>0 DEF TypeOK
      <4>2. Dist(tx_rd_idx, tx_wr_idx) = 0
        BY ZenonT(40), <3>1, AvailIsDist
      <4> QED BY ZenonT(40), <4>1, <4>2, DistRange
    <3> QED BY ZenonT(40), <2>1, <3>1, <3>2
  <2>3. CASE u \in Receivers /\ u # t
    BY ZenonT(40), <1>0, <1>1, <2>3 DEF TypeOK, RecvCall, RecvStep, RecvLock, RecvLockTimeout, RecvCheck,
         RecvSemTake, RecvSemTimeout, RecvRelock, RecvDesc, RecvClear, RecvAdvance, RecvUnlock,
         Return
  <2>4. CASE u = WorkThread /\ u # t
    <3>1. pc[t] = "sem"
      BY ZenonT(40), <1>0, <1>1, <2>4 DEF TypeOK, RecvCall, RecvStep, RecvLock, RecvLockTimeout, RecvCheck,
         RecvSemTake, RecvSemTimeout, RecvRelock, RecvDesc, RecvClear, RecvAdvance, RecvUnlock,
         Return
    <3>2. pc[WorkThread] = "idle"
      BY ZenonT(40), <3>1 DEF IInv, CallbackInv
    <3> QED BY ZenonT(40), <1>1, <2>4, <3>2, RxAssumption DEF RecvCall, RecvStep, RecvLock, RecvLockTimeout,
         RecvCheck, RecvSemTake, RecvSemTimeout, RecvRelock, RecvDesc, RecvClear, RecvAdvance,
         RecvUnlock
  <2> QED BY ZenonT(40), <2>2, <2>3, <2>4 DEF Threads
<1>2. CASE RxHandler
  <2>1. Ready
    BY ZenonT(40), <1>0, <1>2 DEF RxHandler, IInv, ActiveInv
  <2>2. rx_sem' > 0
    BY <1>0, <1>2, <2>1, RxAssumption DEF RxHandler, TypeOK
  <2> QED BY ZenonT(40), <2>2
<1>3. CASE RxWorkHandler
  <2>1. t # WorkThread /\ \A u \in Receivers : u # WorkThread /\ pc'[u] = pc[u]
    BY ZenonT(40), <1>0, <1>3, RxAssumption DEF RxWorkHandler, TypeOK
  <2>2. UNCHANGED <<ret, tx_rd_idx, tx_wr_idx, rx_sem, irq, hostPc>>
    BY ZenonT(40), <1>3 DEF RxWorkHandler
  <2>3. pc[t] = "sem" /\ tx_rd_idx # tx_wr_idx
    BY ZenonT(40), <2>1, <2>2
  <2>4. \A u \in Receivers \ {t} : pc[u] = "idle" /\ ret[u] = "none"
    BY ZenonT(40), <2>1, <2>2
  <2>5. rx_sem > 0 \/ irq \/ hostPc \in {"publish", "raise"}
    BY ZenonT(40), <1>0, <2>3, <2>4 DEF NoLostWakeup
  <2> QED BY ZenonT(40), <2>2, <2>5
<1>4. CASE RegisterCallback \/ HostFill
  BY <1>0, <1>4 DEF RegisterCallback, HostFill, NoLostWakeup
<1>5. CASE HostFlag \/ HostPublish \/ HostRaise \/ HostRaiseOther
  BY ZenonT(40), <1>5 DEF HostFlag, HostPublish, HostRaise, HostRaiseOther
<1> QED BY ZenonT(40), <1>1, <1>2, <1>3, <1>4, <1>5 DEF Traffic, Host

-----------------------------------------------------------------------------
(* The theorems.                                                           *)

\* Stopping the service: nothing is under way, and nothing is claimed of a
\* service that is down.
LEMMA StopStep ==
  ASSUME IInv, Stop
  PROVE  IInv'
<1> USE DEF descVars, syncVars, thrVars, devVars, hostVars, histVars
<1>0. /\ UNCHANGED <<flags, buf, rx_lock, rx_sem, rx_errors, pc, call, idx, ret, callback, unseen,
                     irq, work, hostPc, others, accepted, delivered>>
      /\ hostPc = "idle" /\ \A t \in Threads : pc[t] = "idle"
      /\ tx_wr_idx' = 0 /\ tx_rd_idx' = 0 /\ ~initialized'
  BY ZenonT(40) DEF Stop, Deinit
<1>1. TypeOK'
  BY <1>0, RxAssumption DEF IInv, TypeOK, Slots
<1>2. LockInv' /\ PrefixInv' /\ CallbackInv'
  BY ZenonT(40), <1>0 DEF IInv, LockInv, PrefixInv, CallbackInv
<1>3. ActiveInv' /\ ReaderInv' /\ ContentInv'
  BY ZenonT(40), <1>0 DEF ActiveInv, ReaderInv, ContentInv, Reading
<1>4. DrainInv' /\ NoLostWakeup'
  BY ZenonT(40), <1>0 DEF DrainInv, NoLostWakeup, Ready, Threads
<1> QED BY ZenonT(40), <1>1, <1>2, <1>3, <1>4 DEF IInv

\* The invariant is inductive.
LEMMA RxInvariant == Spec => []IInv
<1>1. Init => IInv
  BY ZenonT(40), QuietIInv DEF Init
<1>2. IInv /\ [Next]_vars => IInv'
  <2> SUFFICES ASSUME IInv, [Next]_vars PROVE IInv'
    OBVIOUS
  <2>1. CASE Traffic /\ UNCHANGED lifeVars
    BY ZenonT(40), <2>1, TypeStep, LockStep, ActiveStep, ReaderStep, ContentStep, PrefixStep, CallbackStep,
       DrainStep, WakeupStep DEF IInv
  <2>2. CASE Start
    <3>1. TrafficInit'
      BY ZenonT(40), <2>2 DEF Start, TrafficInit, trafficVars, idxVars, descVars, syncVars, thrVars, devVars,
                  hostVars, histVars
    <3> QED BY <3>1, QuietIInv, PTL
  <2>3. CASE Stop
    BY ZenonT(40), <2>3, StopStep
  <2>4. CASE UNCHANGED vars
    <3>1. /\ UNCHANGED <<tx_wr_idx, tx_rd_idx, flags, buf, rx_lock, rx_sem, rx_errors>>
          /\ UNCHANGED <<pc, call, idx, ret, callback, unseen, irq, work, hostPc, others>>
          /\ UNCHANGED <<accepted, delivered, initialized, ring_status>>
      BY ZenonT(40), <2>4 DEF vars, trafficVars, lifeVars, idxVars, descVars, syncVars, thrVars, devVars,
         hostVars, histVars
    <3>2. TypeOK'
      BY ZenonT(40), <3>1 DEF IInv, TypeOK
    <3>3. LockInv' /\ ReaderInv'
      BY ZenonT(40), <3>1 DEF IInv, LockInv, ReaderInv, End
    <3>4. ActiveInv' /\ DrainInv'
      BY ZenonT(40), <3>1 DEF IInv, ActiveInv, DrainInv, Ready
    <3>5. ContentInv'
      BY ZenonT(40), <3>1 DEF IInv, ContentInv, End
    <3>6. PrefixInv' /\ CallbackInv' /\ NoLostWakeup'
      BY ZenonT(40), <3>1 DEF IInv, PrefixInv, CallbackInv, NoLostWakeup
    <3> QED BY ZenonT(40), <3>2, <3>3, <3>4, <3>5, <3>6 DEF IInv
  <2> QED BY ZenonT(40), <2>1, <2>2, <2>3, <2>4 DEF Next
<1> QED BY <1>1, <1>2, PTL DEF Spec

\* Whatever the number of threads, descriptors and rings, a thread that is the
\* only receiver never waits on rx_sem while a message it has not been told of
\* is in the ring (ring_recv and ring_rx_handler).
THEOREM LoneReceiverIsWoken == Spec => []NoLostWakeup
<1>1. IInv => NoLostWakeup
  BY DEF IInv
<1> QED BY <1>1, RxInvariant, PTL

\* Once interrupt, work item and callback have run, the ring is empty, for every
\* number of descriptors (ring_rx_handler, rx_work_handler, ring_recv).
THEOREM CallbackDrains == Spec => []CallbackDrained
<1>1. IInv => CallbackDrained
  <2> SUFFICES ASSUME IInv, Ready, callback, ~unseen, ~irq, ~work, pc[WorkThread] = "idle",
                      hostPc = "idle"
               PROVE  delivered = accepted
    BY DEF CallbackDrained
  <2>1. tx_rd_idx = tx_wr_idx /\ End = tx_rd_idx
    BY ZenonT(40) DEF IInv, DrainInv, End
  <2>2. Dist(tx_rd_idx, End) = 0
    BY ZenonT(40), <2>1, DistRange DEF IInv, TypeOK
  <2>3. Len(accepted) = Len(delivered)
    <3>1. Len(accepted) = Len(delivered) + 0
      BY ZenonT(40), <2>2 DEF IInv, ContentInv, Ready
    <3> QED BY <3>1 DEF IInv, TypeOK
  <2>4. \A n \in 1 .. Len(delivered) : delivered[n] = accepted[n]
    BY ZenonT(40) DEF IInv, PrefixInv
  <2> QED BY <2>3, <2>4 DEF IInv, TypeOK
<1> QED BY <1>1, RxInvariant, PTL

\* The ring implements the FIFO channel of DescCount - 1 messages: however many
\* threads call ring_recv and however stale their semaphore tokens are, nothing
\* is lost, duplicated, reordered or altered.
THEOREM RingRxIsFifo == Spec => ImplementsFifo
<1>1. Init => Channel!ChanInit
  BY ZenonT(40) DEF Init, TrafficInit, Channel!ChanInit
<1>2. IInv /\ [Next]_vars => [Channel!ChanNext]_(Channel!chanVars)
  <2> SUFFICES ASSUME IInv, [Next]_vars
               PROVE  Channel!Accept \/ Channel!Deliver \/ UNCHANGED <<accepted, delivered>>
    BY DEF Channel!ChanNext, Channel!chanVars
  <2> USE DEF idxVars, descVars, histVars
  <2>1. ASSUME NEW t \in Threads, RecvAdvance(t) PROVE Channel!Deliver
    BY ZenonT(40), <2>1, TakenMessage DEF RecvAdvance, Channel!Deliver
  <2>2. CASE HostFlag
    <3>1. /\ Len(accepted) = Len(delivered) + Dist(tx_rd_idx, tx_wr_idx)
          /\ Dist(tx_rd_idx, tx_wr_idx) < DescCount - 1
          /\ buf[tx_wr_idx] \in Messages
      BY ZenonT(40), <2>2 DEF IInv, ActiveInv, Ready, ContentInv, HostFlag, HostStep, End
    <3>2. Len(delivered) \in Nat /\ Dist(tx_rd_idx, tx_wr_idx) \in Int
      BY DistRange DEF IInv, TypeOK
    <3>3. Len(accepted) - Len(delivered) < DescCount - 1
      BY <3>1, <3>2
    <3> QED BY ZenonT(40), <2>2, <3>1, <3>3 DEF HostFlag, Channel!Accept
  <2>3. CASE (\E t \in Threads : Passive(t) \/ RecvClear(t)) \/ Event \/ HostFill \/ HostPublish
    BY ZenonT(40), <2>3, QuietStep DEF RecvClear, HostFill, HostPublish
  <2>4. CASE Start \/ Stop \/ UNCHANGED vars
    BY ZenonT(40), <2>4 DEF Start, Stop, vars, trafficVars
  <2> QED BY ZenonT(40), <2>1, <2>2, <2>3, <2>4 DEF Next, Traffic, RecvStep, Host, Passive, Event
<1> QED BY <1>1, <1>2, RxInvariant, PTL DEF Spec, ImplementsFifo, Channel!ChanSpec

\* Whichever step of ring_service_slave_init fails, and however often the service
\* is started and stopped, no block of the heap is lost, freed twice or shared.
THEOREM NoHeapLeak == Spec => []HeapIsCtrl
<1>1. Init => LifeInv
  BY ZenonT(40), InitLife DEF Init
<1>2. LifeInv /\ [Next]_vars => LifeInv'
  <2> SUFFICES ASSUME LifeInv, [Next]_vars PROVE LifeInv'
    OBVIOUS
  <2>1. CASE UNCHANGED lifeVars
    BY <2>1 DEF lifeVars, LifeInv, LifeTypeOK, HeapIsCtrl, CallInv, OwnerInv, FreshInv, Configured
  <2>2. CASE Start \/ Stop
    BY ZenonT(40), <2>2, LifeStep DEF Start, Stop
  <2> QED BY ZenonT(40), <2>1, <2>2 DEF Next, vars
<1>3. LifeInv => HeapIsCtrl
  BY DEF LifeInv
<1> QED BY <1>1, <1>2, <1>3, PTL DEF Spec
=============================================================================

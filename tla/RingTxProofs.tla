---------------------------- MODULE RingTxProofs ----------------------------
(***************************************************************************)
(* Proofs about RingTx for every number of threads, descriptors and        *)
(* messages: type correctness, that ring_send never overwrites a message   *)
(* the host has still to read, that the interrupt is never lost, and that  *)
(* the ring implements the FIFO channel.                                   *)
(***************************************************************************)
EXTENDS RingTx, TLAPS

Holding == {"read", "fill", "flag", "publish", "unlock"}
Writing == {"fill", "flag", "publish"}

\* The index after i, the number of published slots, and the slot of the k-th
\* message the host has still to read.
Nxt(i)       == IF i + 1 = DescCount THEN 0 ELSE i + 1
Used(wr, rd) == IF wr >= rd THEN wr - rd ELSE DescCount - (rd - wr)
Pos(rd, k)   == IF rd + k - 1 < DescCount THEN rd + k - 1 ELSE rd + k - 1 - DescCount

\* tx_lock is owned by exactly the thread that is between lock and unlock.
LockInv == \A t \in Threads : pc[t] \in Holding <=> tx_lock = t

\* A thread that writes a descriptor works on the slot at the write index,
\* and there is room for it.
WriterInv ==
  \A t \in Threads :
    /\ pc[t] # "idle" => msg[t] \in Messages
    /\ pc[t] \in Writing => /\ idx[t] = rx_wr_idx
                            /\ Used(rx_wr_idx, rx_rd_idx) < DescCount - 1
    /\ pc[t] \in {"flag", "publish"} => buf[idx[t]] = msg[t]
    /\ pc[t] = "publish" => flags[idx[t]] = 1

\* The published slots hold, in order, the messages not yet delivered.
ContentInv ==
  /\ Len(accepted) = Len(delivered) + Used(rx_wr_idx, rx_rd_idx)
  /\ \A k \in 1 .. Used(rx_wr_idx, rx_rd_idx) :
        /\ flags[Pos(rx_rd_idx, k)] = 1
        /\ buf[Pos(rx_rd_idx, k)] = accepted[Len(delivered) + k]

\* While the pin is low somebody is going to raise it, and an unread message
\* has a wake-up ahead of it.
PulseInv ==
  /\ pin = 0 => \E t \in Threads : pc[t] = "high"
  /\ rx_rd_idx # rx_wr_idx =>
       \/ hostAwake \/ hostEvent \/ pin = 0
       \/ \E t \in Threads : pc[t] \in {"unlock", "low"}

IInv == TypeOK /\ LockInv /\ WriterInv /\ ContentInv /\ PulseInv

-----------------------------------------------------------------------------
(* Arithmetic of the two indices.                                          *)

\* The wrap-around the code writes as a modulus.
LEMMA NextIdx ==
  ASSUME NEW i \in Slots
  PROVE  (i + 1) % DescCount = Nxt(i) /\ Nxt(i) \in Slots
  BY DescCountAssumption DEF Slots, Nxt

\* The published slots are numbered 1 .. Used, and none of them is the slot at
\* the write index.
LEMMA PosRange ==
  ASSUME NEW wr \in Slots, NEW rd \in Slots
  PROVE  /\ Used(wr, rd) \in Nat
         /\ \A k \in 1 .. Used(wr, rd) : Pos(rd, k) \in Slots /\ Pos(rd, k) # wr
  BY DescCountAssumption DEF Slots, Used, Pos

\* Publishing one slot.
LEMMA UsedGrows ==
  ASSUME NEW wr \in Slots, NEW rd \in Slots, Used(wr, rd) < DescCount - 1
  PROVE  /\ Used(Nxt(wr), rd) = Used(wr, rd) + 1
         /\ Pos(rd, Used(wr, rd) + 1) = wr
  BY DescCountAssumption DEF Slots, Used, Pos, Nxt

\* Taking one slot.
LEMMA UsedShrinks ==
  ASSUME NEW wr \in Slots, NEW rd \in Slots, rd # wr
  PROVE  /\ Used(wr, rd) >= 1
         /\ Used(wr, Nxt(rd)) = Used(wr, rd) - 1
         /\ Pos(rd, 1) = rd
         /\ \A k \in 1 .. Used(wr, rd) - 1 :
               Pos(Nxt(rd), k) = Pos(rd, k + 1) /\ Pos(rd, k + 1) # rd
  BY DescCountAssumption DEF Slots, Used, Pos, Nxt

-----------------------------------------------------------------------------
LEMMA InitIInv == Init => IInv
<1> SUFFICES ASSUME Init PROVE IInv
  OBVIOUS
<1>1. TypeOK
  <2>1. 0 \in Slots
    BY DescCountAssumption DEF Slots
  <2>2. hostEvent \in BOOLEAN /\ hostAwake \in BOOLEAN
    BY ZenonT(40) DEF Init
  <2> QED BY <2>1, <2>2 DEF Init, TypeOK, Steps
<1>2. LockInv /\ WriterInv /\ PulseInv
  BY ThreadAssumption DEF Init, LockInv, WriterInv, PulseInv, Holding, Writing
<1>3. ContentInv
  BY DEF Init, ContentInv, Used
<1> QED BY <1>1, <1>2, <1>3 DEF IInv

LEMMA NextType == TypeOK /\ WriterInv /\ ContentInv /\ [Next]_vars => TypeOK'
<1> SUFFICES ASSUME TypeOK, WriterInv, ContentInv, [Next]_vars PROVE TypeOK'
  OBVIOUS
<1> USE DescCountAssumption, ThreadAssumption DEF TypeOK, Steps, Goto, idxVars, descVars, hostVars
<1>1. ASSUME NEW t \in Threads, SendCall(t) PROVE TypeOK'
  BY <1>1 DEF SendCall
<1>2. ASSUME NEW t \in Threads, SendLock(t) PROVE TypeOK'
  BY ZenonT(40), <1>2 DEF SendLock
<1>3. ASSUME NEW t \in Threads, SendLockTimeout(t) PROVE TypeOK'
  BY ZenonT(40), <1>3 DEF SendLockTimeout
<1>4. ASSUME NEW t \in Threads, SendRead(t) PROVE TypeOK'
  BY <1>4 DEF SendRead
<1>5. ASSUME NEW t \in Threads, SendFill(t) PROVE TypeOK'
  BY ZenonT(40), <1>5 DEF SendFill
<1>6. ASSUME NEW t \in Threads, SendFlag(t) PROVE TypeOK'
  BY ZenonT(40), <1>6 DEF SendFlag
<1>7. ASSUME NEW t \in Threads, SendPublish(t) PROVE TypeOK'
  <2>1. msg[t] \in Messages
    BY ZenonT(40), <1>7 DEF SendPublish, WriterInv
  <2>2. rx_wr_idx' \in Slots
    BY <1>7, NextIdx DEF SendPublish
  <2> QED BY <1>7, <2>1, <2>2 DEF SendPublish
<1>8. ASSUME NEW t \in Threads, SendUnlock(t) PROVE TypeOK'
  BY ZenonT(40), <1>8 DEF SendUnlock
<1>9. ASSUME NEW t \in Threads, SendPulseLow(t) PROVE TypeOK'
  BY ZenonT(40), <1>9 DEF SendPulseLow
<1>10. ASSUME NEW t \in Threads, SendPulseHigh(t) PROVE TypeOK'
  BY ZenonT(40), <1>10 DEF SendPulseHigh
<1>11. CASE HostWake
  BY ZenonT(40), <1>11 DEF HostWake
<1>12. CASE HostTake
  <2> DEFINE n == Used(rx_wr_idx, rx_rd_idx)
  <2>1. n \in Nat /\ n >= 1 /\ Pos(rx_rd_idx, 1) = rx_rd_idx
    BY ZenonT(40), <1>12, UsedShrinks, PosRange DEF HostTake
  <2>2. buf[rx_rd_idx] = accepted[Len(delivered) + 1]
    BY <2>1 DEF ContentInv
  <2>3. Len(delivered) + 1 \in 1 .. Len(accepted)
    BY <2>1 DEF ContentInv
  <2>4. buf[rx_rd_idx] \in Messages
    BY <2>2, <2>3
  <2>5. rx_rd_idx' \in Slots
    BY ZenonT(40), <1>12, NextIdx DEF HostTake
  <2> QED BY <1>12, <2>4, <2>5 DEF HostTake
<1>13. CASE HostSleep
  BY ZenonT(40), <1>13 DEF HostSleep
<1>14. CASE UNCHANGED vars
  BY ZenonT(40), <1>14 DEF vars
<1> QED BY ZenonT(40), <1>1, <1>2, <1>3, <1>4, <1>5, <1>6, <1>7, <1>8, <1>9, <1>10,
           <1>11, <1>12, <1>13, <1>14 DEF Next, SendStep, HostStep

LEMMA NextLock == TypeOK /\ LockInv /\ [Next]_vars => LockInv'
<1> SUFFICES ASSUME TypeOK, LockInv, [Next]_vars PROVE LockInv'
  OBVIOUS
<1> USE ThreadAssumption DEF TypeOK, LockInv, Holding, Goto
<1>1. ASSUME NEW t \in Threads, SendCall(t) \/ SendStep(t) PROVE LockInv'
  BY ZenonT(40), <1>1 DEF SendCall, SendStep, SendLock, SendLockTimeout, SendRead, SendFill,
     SendFlag, SendPublish, SendUnlock, SendPulseLow, SendPulseHigh
<1>2. CASE HostStep \/ UNCHANGED vars
  BY ZenonT(40), <1>2 DEF HostStep, HostWake, HostTake, HostSleep, vars
<1> QED BY ZenonT(40), <1>1, <1>2 DEF Next

LEMMA NextWriter ==
  TypeOK /\ LockInv /\ WriterInv /\ [Next]_vars => WriterInv'
<1> SUFFICES ASSUME TypeOK, LockInv, WriterInv, [Next]_vars PROVE WriterInv'
  OBVIOUS
<1> USE DescCountAssumption DEF TypeOK, Goto, Writing
<1>1. ASSUME NEW t \in Threads, SendCall(t) \/ SendLock(t) \/ SendLockTimeout(t)
      PROVE  WriterInv'
  BY <1>1 DEF SendCall, SendLock, SendLockTimeout, WriterInv, idxVars, descVars
<1>2. ASSUME NEW t \in Threads, SendRead(t) PROVE WriterInv'
  BY <1>2 DEF SendRead, WriterInv, Used, TxAvail, Slots, idxVars, descVars
<1>3. ASSUME NEW t \in Threads, SendFill(t) \/ SendFlag(t) PROVE WriterInv'
  <2>1. \A u \in Threads : pc[u] \in Writing => u = t
    BY ZenonT(40), <1>3, ThreadAssumption DEF SendFill, SendFlag, LockInv, Holding
  <2> QED BY <1>3, <2>1 DEF SendFill, SendFlag, WriterInv, idxVars
<1>4. ASSUME NEW t \in Threads, SendPublish(t) PROVE WriterInv'
  <2>1. \A u \in Threads : pc[u] \in Writing => u = t
    BY <1>4, ThreadAssumption DEF SendPublish, LockInv, Holding
  <2>2. \A u \in Threads : pc'[u] \notin Writing
    BY ZenonT(40), <1>4, <2>1 DEF SendPublish
  <2> QED BY ZenonT(40), <1>4, <2>2 DEF SendPublish, WriterInv, descVars
<1>5. ASSUME NEW t \in Threads, SendUnlock(t) \/ SendPulseLow(t) \/ SendPulseHigh(t)
      PROVE  WriterInv'
  BY <1>5 DEF SendUnlock, SendPulseLow, SendPulseHigh, WriterInv, idxVars, descVars
<1>6. CASE HostTake
  <2>1. rx_rd_idx' = Nxt(rx_rd_idx) /\ rx_wr_idx' = rx_wr_idx /\ rx_rd_idx # rx_wr_idx
    BY ZenonT(40), <1>6, NextIdx DEF HostTake
  <2>2. /\ Used(rx_wr_idx', rx_rd_idx') = Used(rx_wr_idx, rx_rd_idx) - 1
        /\ Used(rx_wr_idx, rx_rd_idx) \in Nat
    BY ZenonT(40), <2>1, UsedShrinks, PosRange
  <2> QED BY <1>6, <2>1, <2>2 DEF HostTake, WriterInv
<1>7. CASE HostWake \/ HostSleep \/ UNCHANGED vars
  BY ZenonT(40), <1>7 DEF HostWake, HostSleep, vars, WriterInv, idxVars, descVars
<1> QED BY ZenonT(40), <1>1, <1>2, <1>3, <1>4, <1>5, <1>6, <1>7 DEF Next, SendStep, HostStep

LEMMA NextContent ==
  TypeOK /\ WriterInv /\ ContentInv /\ [Next]_vars => ContentInv'
<1> SUFFICES ASSUME TypeOK, WriterInv, ContentInv, [Next]_vars PROVE ContentInv'
  OBVIOUS
<1> DEFINE n == Used(rx_wr_idx, rx_rd_idx)
<1> USE DescCountAssumption DEF TypeOK
<1>0. n \in Nat /\ \A k \in 1 .. n : Pos(rx_rd_idx, k) \in Slots /\ Pos(rx_rd_idx, k) # rx_wr_idx
  BY ZenonT(40), PosRange
<1>1. ASSUME NEW t \in Threads, SendFill(t) \/ SendFlag(t) PROVE ContentInv'
  <2>1. idx[t] = rx_wr_idx
    BY ZenonT(40), <1>1 DEF SendFill, SendFlag, WriterInv, Writing
  <2>2. \A k \in 1 .. n : /\ flags'[Pos(rx_rd_idx, k)] = flags[Pos(rx_rd_idx, k)]
                          /\ buf'[Pos(rx_rd_idx, k)] = buf[Pos(rx_rd_idx, k)]
    BY ZenonT(40), <1>1, <1>0, <2>1 DEF SendFill, SendFlag
  <2> QED BY ZenonT(40), <1>1, <2>2 DEF SendFill, SendFlag, ContentInv, idxVars
<1>2. ASSUME NEW t \in Threads, SendPublish(t) PROVE ContentInv'
  <2>1. /\ idx[t] = rx_wr_idx /\ n < DescCount - 1 /\ msg[t] \in Messages
        /\ flags[rx_wr_idx] = 1 /\ buf[rx_wr_idx] = msg[t]
    BY ZenonT(40), <1>2 DEF SendPublish, WriterInv, Writing
  <2>2. rx_wr_idx' = Nxt(rx_wr_idx) /\ rx_rd_idx' = rx_rd_idx
    BY ZenonT(40), <1>2, <2>1, NextIdx DEF SendPublish
  <2>3. Used(rx_wr_idx', rx_rd_idx') = n + 1 /\ Pos(rx_rd_idx, n + 1) = rx_wr_idx
    BY ZenonT(40), <2>1, <2>2, UsedGrows
  <2>4. /\ Len(accepted') = Len(accepted) + 1
        /\ \A i \in 1 .. Len(accepted) : accepted'[i] = accepted[i]
        /\ accepted'[Len(accepted) + 1] = msg[t]
    BY <1>2, <2>1 DEF SendPublish
  <2>5. UNCHANGED <<flags, buf, delivered>>
    BY ZenonT(40), <1>2 DEF SendPublish, descVars
  <2>6. Len(accepted) = Len(delivered) + n
    BY ZenonT(40) DEF ContentInv
  <2>7. ASSUME NEW k \in 1 .. n + 1
        PROVE  /\ flags[Pos(rx_rd_idx, k)] = 1
               /\ buf[Pos(rx_rd_idx, k)] = accepted'[Len(delivered) + k]
    <3>1. CASE k = n + 1
      <4>1. Len(delivered) + k = Len(accepted) + 1
        BY <1>0, <2>6, <3>1
      <4> QED BY ZenonT(40), <2>1, <2>3, <2>4, <3>1, <4>1
    <3>2. CASE k \in 1 .. n
      <4>1. Len(delivered) + k \in 1 .. Len(accepted)
        BY <1>0, <2>6, <3>2
      <4> QED BY ZenonT(40), <2>4, <3>2, <4>1 DEF ContentInv
    <3> QED BY <1>0, <3>1, <3>2
  <2>8. Len(accepted') = Len(delivered) + (n + 1)
    BY <1>0, <2>4, <2>6
  <2> QED BY ZenonT(40), <2>2, <2>3, <2>5, <2>7, <2>8 DEF ContentInv
<1>3. CASE HostTake
  <2>1. rx_rd_idx' = Nxt(rx_rd_idx) /\ rx_wr_idx' = rx_wr_idx /\ rx_rd_idx # rx_wr_idx
    BY ZenonT(40), <1>3, NextIdx DEF HostTake
  <2>2. /\ n >= 1 /\ Used(rx_wr_idx', rx_rd_idx') = n - 1
        /\ \A k \in 1 .. n - 1 : /\ Pos(rx_rd_idx', k) = Pos(rx_rd_idx, k + 1)
                                 /\ Pos(rx_rd_idx, k + 1) # rx_rd_idx
    BY <2>1, UsedShrinks
  <2>3. Len(delivered') = Len(delivered) + 1 /\ accepted' = accepted
    BY <1>3 DEF HostTake
  <2>4. Len(accepted) = Len(delivered) + n
    BY ZenonT(40) DEF ContentInv
  <2>5. ASSUME NEW k \in 1 .. n - 1
        PROVE  /\ flags'[Pos(rx_rd_idx', k)] = 1
               /\ buf'[Pos(rx_rd_idx', k)] = accepted'[Len(delivered') + k]
    <3>1. k + 1 \in 1 .. n
      BY <1>0
    <3>2. /\ flags[Pos(rx_rd_idx, k + 1)] = 1
          /\ buf[Pos(rx_rd_idx, k + 1)] = accepted[Len(delivered) + (k + 1)]
      BY ZenonT(40), <3>1 DEF ContentInv
    <3>3. Len(delivered) + (k + 1) = Len(delivered') + k
      BY <1>0, <2>3
    <3>4. Pos(rx_rd_idx, k + 1) \in Slots
      BY ZenonT(40), <3>1, <1>0
    <3> QED BY ZenonT(40), <1>3, <2>2, <2>3, <3>2, <3>3, <3>4 DEF HostTake
  <2>6. Len(accepted') = Len(delivered') + (n - 1)
    BY <1>0, <2>3, <2>4
  <2> QED BY ZenonT(40), <2>2, <2>5, <2>6 DEF ContentInv
<1>4. ASSUME NEW t \in Threads,
             \/ SendCall(t) \/ SendLock(t) \/ SendLockTimeout(t) \/ SendRead(t)
             \/ SendUnlock(t) \/ SendPulseLow(t) \/ SendPulseHigh(t)
      PROVE ContentInv'
  BY ZenonT(40), <1>4 DEF SendCall, SendLock, SendLockTimeout, SendRead, SendUnlock, SendPulseLow,
     SendPulseHigh, ContentInv, idxVars, descVars
<1>5. CASE HostWake \/ HostSleep \/ UNCHANGED vars
  BY ZenonT(40), <1>5 DEF HostWake, HostSleep, vars, ContentInv, idxVars, descVars
<1> QED BY ZenonT(40), <1>1, <1>2, <1>3, <1>4, <1>5 DEF Next, SendStep, HostStep

LEMMA NextPulse == TypeOK /\ WriterInv /\ PulseInv /\ [Next]_vars => PulseInv'
<1> SUFFICES ASSUME TypeOK, WriterInv, PulseInv, [Next]_vars PROVE PulseInv'
  OBVIOUS
<1> USE DEF TypeOK, Goto, PulseInv
<1>1. ASSUME NEW t \in Threads,
             \/ SendCall(t) \/ SendLock(t) \/ SendLockTimeout(t) \/ SendRead(t)
             \/ SendFill(t) \/ SendFlag(t) \/ SendUnlock(t)
      PROVE PulseInv'
  BY ZenonT(40), <1>1 DEF SendCall, SendLock, SendLockTimeout, SendRead, SendFill, SendFlag,
     SendUnlock, idxVars, hostVars
<1>2. ASSUME NEW t \in Threads, SendPublish(t) PROVE PulseInv'
  BY ZenonT(40), <1>2 DEF SendPublish, hostVars
<1>3. ASSUME NEW t \in Threads, SendPulseLow(t) PROVE PulseInv'
  BY ZenonT(40), <1>3 DEF SendPulseLow
<1>4. ASSUME NEW t \in Threads, SendPulseHigh(t) PROVE PulseInv'
  <2>1. pin' = 1 /\ UNCHANGED <<rx_wr_idx, rx_rd_idx, hostAwake>>
    BY ZenonT(40), <1>4 DEF SendPulseHigh, idxVars
  <2>2. CASE pin = 0
    <3>1. hostEvent'
      BY ZenonT(40), <1>4, <2>2 DEF SendPulseHigh
    <3> QED BY <2>1, <3>1
  <2>3. CASE pin = 1
    <3>1. hostEvent => hostEvent'
      BY ZenonT(40), <1>4 DEF SendPulseHigh
    <3>2. \A u \in Threads : pc[u] \in {"unlock", "low"} => pc'[u] = pc[u]
      BY ZenonT(40), <1>4 DEF SendPulseHigh
    <3> QED BY <2>1, <2>3, <3>1, <3>2
  <2> QED BY ZenonT(40), <2>2, <2>3
<1>5. CASE HostStep \/ UNCHANGED vars
  BY ZenonT(40), <1>5 DEF HostStep, HostWake, HostTake, HostSleep, vars, idxVars, hostVars
<1> QED BY ZenonT(40), <1>1, <1>2, <1>3, <1>4, <1>5 DEF Next, SendStep

\* The conjunction of the five invariants is inductive.
THEOREM Inductive == Spec => []IInv
<1>1. Init => IInv
  BY InitIInv
<1>2. IInv /\ [Next]_vars => IInv'
  BY ZenonT(40), NextType, NextLock, NextWriter, NextContent, NextPulse DEF IInv
<1> QED BY <1>1, <1>2, PTL DEF Spec

\* Type correctness of every variable of the model, indices in range included.
THEOREM TypeCorrect == Spec => []TypeOK
<1>1. IInv => TypeOK
  BY DEF IInv
<1> QED BY <1>1, Inductive, PTL

\* A thread in ring_send never writes a buffer or descriptor the host has still
\* to read, and the host never sees a descriptor that is not filled in.
THEOREM SlotSafety == Spec => [](NoOverwrite /\ PublishedIsValid)
<1>1. IInv => NoOverwrite
  BY DescCountAssumption DEF IInv, TypeOK, WriterInv, NoOverwrite, Writing, Published,
     TxAvail, Used, Slots
<1>2. IInv => PublishedIsValid
  <2> SUFFICES ASSUME IInv, NEW s \in Slots, Published(s)
               PROVE  flags[s] = 1 /\ buf[s] \in Messages
    BY DEF PublishedIsValid
  <2> DEFINE k == IF s >= rx_rd_idx THEN s - rx_rd_idx + 1
                                    ELSE s - rx_rd_idx + 1 + DescCount
  <2>1. k \in 1 .. Used(rx_wr_idx, rx_rd_idx) /\ Pos(rx_rd_idx, k) = s
    BY DescCountAssumption DEF IInv, TypeOK, Published, Used, Pos, Slots
  <2>2. flags[s] = 1 /\ buf[s] = accepted[Len(delivered) + k]
    BY ZenonT(40), <2>1 DEF IInv, ContentInv
  <2>3. Len(delivered) + k \in 1 .. Len(accepted)
    BY <2>1, DescCountAssumption DEF IInv, TypeOK, ContentInv, Used, Slots
  <2> QED BY <2>2, <2>3 DEF IInv, TypeOK
<1> QED BY <1>1, <1>2, Inductive, PTL

\* An unread message always has a wake-up of the host ahead of it.
THEOREM InterruptSafety == Spec => []NoLostInterrupt
<1>1. IInv => NoLostInterrupt
  BY DEF IInv, PulseInv, NoLostInterrupt
<1> QED BY <1>1, Inductive, PTL

\* The ring implements the FIFO channel of capacity DescCount - 1: the write
\* index is where a message is accepted, the read index where it is delivered.
THEOREM Refinement == Spec => ImplementsFifo
<1>1. Init => Channel!ChanInit
  BY DEF Init, Channel!ChanInit
<1>2. IInv /\ [Next]_vars => [Channel!ChanNext]_(Channel!chanVars)
  <2> SUFFICES ASSUME IInv, [Next]_vars
               PROVE  Channel!ChanNext \/ UNCHANGED Channel!chanVars
    OBVIOUS
  <2> USE DescCountAssumption DEF IInv, TypeOK, Channel!chanVars
  <2>1. ASSUME NEW t \in Threads, SendPublish(t) PROVE Channel!Accept
    <3>1. msg[t] \in Messages /\ Used(rx_wr_idx, rx_rd_idx) < DescCount - 1
      BY ZenonT(40), <2>1 DEF SendPublish, WriterInv, Writing
    <3>2. Len(accepted) - Len(delivered) < DescCount - 1
      BY <3>1, PosRange DEF ContentInv
    <3> QED BY ZenonT(40), <2>1, <3>1, <3>2 DEF SendPublish, Channel!Accept
  <2>2. CASE HostTake
    <3>1. /\ Used(rx_wr_idx, rx_rd_idx) \in Nat /\ Used(rx_wr_idx, rx_rd_idx) >= 1
          /\ Pos(rx_rd_idx, 1) = rx_rd_idx
      BY ZenonT(40), <2>2, UsedShrinks, PosRange DEF HostTake
    <3>2. Len(delivered) < Len(accepted)
      BY <3>1 DEF ContentInv
    <3>3. buf[rx_rd_idx] = accepted[Len(delivered) + 1]
      BY <3>1 DEF ContentInv
    <3> QED BY ZenonT(40), <2>2, <3>2, <3>3 DEF HostTake, Channel!ChanNext, Channel!Deliver
  <2>3. ASSUME NEW t \in Threads,
               \/ SendCall(t) \/ SendLock(t) \/ SendLockTimeout(t) \/ SendRead(t)
               \/ SendFill(t) \/ SendFlag(t) \/ SendUnlock(t)
               \/ SendPulseLow(t) \/ SendPulseHigh(t)
        PROVE  UNCHANGED Channel!chanVars
    BY ZenonT(40), <2>3 DEF SendCall, SendLock, SendLockTimeout, SendRead, SendFill, SendFlag,
       SendUnlock, SendPulseLow, SendPulseHigh
  <2>4. CASE HostWake \/ HostSleep \/ UNCHANGED vars
    BY ZenonT(40), <2>4 DEF HostWake, HostSleep, vars
  <2> QED BY ZenonT(40), <2>1, <2>2, <2>3, <2>4 DEF Next, SendStep, HostStep, Channel!ChanNext
<1> QED BY <1>1, <1>2, Inductive, PTL DEF Spec, ImplementsFifo, Channel!ChanSpec
=============================================================================

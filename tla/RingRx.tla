------------------------------- MODULE RingRx -------------------------------
(***************************************************************************)
(* The host-to-slave direction of one shared-memory ring                   *)
(* (qring/src/ring_service_qcc730.c): ring_recv called by application      *)
(* threads, the interrupt handler ring_rx_handler, and the work-queue      *)
(* thread that runs rx_work_handler and the registered callback.  The host *)
(* and the callback are not part of the repository: the host follows the   *)
(* order ring_send has (buffer, VALID flag, index, interrupt), the         *)
(* callback calls ring_recv(K_NO_WAIT) until it returns no data.  Traffic  *)
(* runs while the service of RingLife is up.  One interrupt line serves    *)
(* all rings: the handler gives this ring's semaphore and submits its work *)
(* item for a message on another ring as well.                             *)
(***************************************************************************)
EXTENDS RingLife

CONSTANTS Ring,          \* the ring whose traffic is modelled
          Receivers,     \* application threads that call ring_recv
          WorkThread,    \* the thread of ring_work_q
          Messages,      \* payloads
          LongMessages,  \* payloads longer than a caller's small buffer
          DescCount,     \* tx_desc_count, also the limit of rx_sem
          MaxSends,      \* bound: messages the host sends in one behaviour
          MaxErrors,     \* bound: failing calls in one behaviour
          MaxOthers,     \* bound: messages on other rings in one behaviour
          NoThread, NoData

ASSUME RxAssumption == /\ Ring \in 0 .. MaxRings - 1
                       /\ DescCount \in Nat \ {0} /\ MaxSends \in Nat
                       /\ MaxOthers \in Nat /\ MaxErrors \in Nat
                       /\ LongMessages \subseteq Messages
                       /\ NoThread \notin Receivers \cup {WorkThread}
                       /\ WorkThread \notin Receivers

VARIABLES
  tx_wr_idx, tx_rd_idx,  \* indices of the control block (host writes wr, slave writes rd)
  flags, buf,            \* per descriptor: VALID, and the buffer behind it
  rx_lock, rx_sem,       \* the ring's mutex (owner) and counting semaphore
  rx_errors,             \* stats.rx_errors
  pc, call, idx,         \* per thread: next step, arguments, rd_idx it read
  ret,                   \* per thread: what its last call returned
  callback,              \* a callback is registered
  unseen,                \* history: the last interrupt was handled with no callback registered
  irq, work,             \* interrupt latched; rx_works[ring].work is queued
  hostPc,                \* the host's next step
  others,                \* messages the host has sent on other rings
  accepted, delivered    \* history: what the host flagged VALID, what ring_recv handed out

idxVars  == <<tx_wr_idx, tx_rd_idx>>
descVars == <<flags, buf>>
syncVars == <<rx_lock, rx_sem>>
thrVars  == <<pc, call, idx, ret>>
devVars  == <<callback, unseen, irq, work>>
hostVars == <<hostPc, others>>
histVars == <<accepted, delivered>>
trafficVars == <<idxVars, descVars, syncVars, rx_errors, thrVars, devVars, hostVars, histVars>>
vars == <<trafficVars, lifeVars>>

Slots   == 0 .. DescCount - 1
Threads == Receivers \cup {WorkThread}
Steps   == {"idle", "lock", "check", "sem", "relock", "desc", "clear", "advance", "unlock"}
Results == {"none", "data", "empty", "busy", "EINVAL", "EMSGSIZE"}

Goto(t, next) == pc' = [pc EXCEPT ![t] = next]

NoCall == [wait |-> FALSE, small |-> FALSE]

\* A call returns, its arguments and locals are gone; the callback goes on as
\* long as it is given data.
Return(t, r) ==
  /\ ret' = [ret EXCEPT ![t] = r]
  /\ call' = [call EXCEPT ![t] = NoCall]
  /\ idx' = [idx EXCEPT ![t] = 0]
  /\ Goto(t, IF t = WorkThread /\ r = "data" THEN "lock" ELSE "idle")
-----------------------------------------------------------------------------
(* Seeded faults: plausible slips, each caught by one of the properties.   *)

\* The descriptor is not cleared after the copy.
RecvClearForgotten(t) ==
  /\ pc[t] = "clear"
  /\ Goto(t, "advance")
  /\ UNCHANGED <<idxVars, descVars, syncVars, rx_errors, call, idx, ret, devVars,
                 hostVars, histVars>>

\* The semaphore is not given when a callback is absent.
RxHandlerNoGive ==
  /\ irq
  /\ irq' = FALSE
  /\ work' = (work \/ callback)
  /\ unseen' = ~callback
  /\ UNCHANGED <<callback, idxVars, descVars, syncVars, rx_errors, thrVars, hostVars, histVars>>

\* The work item is only queued when the semaphore was at zero.
RxHandlerCoalesced ==
  /\ irq
  /\ irq' = FALSE
  /\ rx_sem' = IF rx_sem < DescCount THEN rx_sem + 1 ELSE rx_sem
  /\ work' = (work \/ (callback /\ rx_sem = 0))
  /\ unseen' = ~callback
  /\ UNCHANGED <<callback, idxVars, descVars, rx_lock, rx_errors, thrVars, hostVars, histVars>>
-----------------------------------------------------------------------------
\* Filled descriptors as ring_recv and ring_get_rx_available compute them.
RxAvail == IF tx_wr_idx >= tx_rd_idx THEN tx_wr_idx - tx_rd_idx
                                     ELSE DescCount - (tx_rd_idx - tx_wr_idx)

\* The service is up and has this ring.
Ready == initialized /\ ring_status[Ring] = 1

TrafficInit ==
  /\ tx_wr_idx = 0 /\ tx_rd_idx = 0
  /\ flags = [s \in Slots |-> 0]
  /\ buf = [s \in Slots |-> NoData]
  /\ rx_lock = NoThread /\ rx_sem = 0
  /\ rx_errors = 0
  /\ pc = [t \in Threads |-> "idle"]
  /\ call = [t \in Threads |-> NoCall]
  /\ idx = [t \in Threads |-> 0]
  /\ ret = [t \in Threads |-> "none"]
  /\ callback = FALSE /\ unseen = FALSE
  /\ irq = FALSE /\ work = FALSE
  /\ hostPc = "idle" /\ others = 0
  /\ accepted = << >> /\ delivered = << >>

Init == LifeInit /\ TrafficInit

-----------------------------------------------------------------------------
(* ring_recv                                                               *)

\* The argument checks pass.  (A call they refuse returns having changed nothing.)
\* A ring with a callback is received from by its callback.
RecvCall(t) ==
  /\ pc[t] = "idle" /\ t \in Receivers /\ Ready /\ ~callback
  /\ rx_errors < MaxErrors
  /\ \E w, s \in BOOLEAN : call' = [call EXCEPT ![t] = [wait |-> w, small |-> s]]
  /\ ret' = [ret EXCEPT ![t] = "none"]
  /\ Goto(t, "lock")
  /\ UNCHANGED <<idxVars, descVars, syncVars, rx_errors, idx, devVars, hostVars, histVars>>

RecvLock(t) ==
  /\ pc[t] = "lock" /\ rx_lock = NoThread
  /\ rx_lock' = t
  /\ Goto(t, "check")
  /\ UNCHANGED <<idxVars, descVars, rx_sem, rx_errors, call, idx, ret, devVars, hostVars,
                 histVars>>

\* k_mutex_lock ran into the caller's timeout.
RecvLockTimeout(t) ==
  /\ pc[t] = "lock" /\ rx_lock # NoThread
  /\ Return(t, "busy")
  /\ UNCHANGED <<idxVars, descVars, syncVars, rx_errors, devVars, hostVars, histVars>>

\* Reads the indices.  An empty ring is 0 at once with K_NO_WAIT; otherwise the
\* lock is released and the semaphore waited for.
RecvCheck(t) ==
  /\ pc[t] = "check"
  /\ \/ /\ RxAvail > 0
        /\ idx' = [idx EXCEPT ![t] = tx_rd_idx]
        /\ Goto(t, "desc")
        /\ UNCHANGED <<rx_lock, call, ret>>
     \/ /\ RxAvail = 0 /\ ~call[t].wait
        /\ rx_lock' = NoThread
        /\ Return(t, "empty")
     \/ /\ RxAvail = 0 /\ call[t].wait
        /\ rx_lock' = NoThread
        /\ Goto(t, "sem")
        /\ UNCHANGED <<call, idx, ret>>
  /\ UNCHANGED <<idxVars, descVars, rx_sem, rx_errors, devVars, hostVars, histVars>>

RecvSemTake(t) ==
  /\ pc[t] = "sem" /\ rx_sem > 0
  /\ rx_sem' = rx_sem - 1
  /\ Goto(t, "relock")
  /\ UNCHANGED <<idxVars, descVars, rx_lock, rx_errors, call, idx, ret, devVars, hostVars,
                 histVars>>

RecvSemTimeout(t) ==
  /\ pc[t] = "sem" /\ rx_sem = 0
  /\ Return(t, "empty")
  /\ UNCHANGED <<idxVars, descVars, syncVars, rx_errors, devVars, hostVars, histVars>>

\* The lock is taken again and the indices read again, but the number of filled
\* descriptors is not computed again.
RecvRelock(t) ==
  /\ pc[t] = "relock" /\ rx_lock = NoThread
  /\ rx_lock' = t
  /\ idx' = [idx EXCEPT ![t] = tx_rd_idx]
  /\ Goto(t, "desc")
  /\ UNCHANGED <<idxVars, descVars, rx_sem, rx_errors, call, ret, devVars, hostVars, histVars>>

\* A descriptor that is not VALID and a message that does not fit are errors;
\* the message stays in the ring.
RecvDesc(t) ==
  /\ pc[t] = "desc"
  /\ LET invalid == flags[idx[t]] = 0
         tooLong == buf[idx[t]] \in LongMessages /\ call[t].small
     IN  IF invalid \/ tooLong
           THEN /\ rx_errors' = rx_errors + 1
                /\ rx_lock' = NoThread
                /\ Return(t, IF invalid THEN "EINVAL" ELSE "EMSGSIZE")
           ELSE /\ Goto(t, "clear")
                /\ UNCHANGED <<rx_errors, rx_lock, call, idx, ret>>
  /\ UNCHANGED <<idxVars, descVars, rx_sem, devVars, hostVars, histVars>>

RecvClear(t) ==
  /\ pc[t] = "clear"
  /\ flags' = [flags EXCEPT ![idx[t]] = 0]
  /\ Goto(t, "advance")
  /\ UNCHANGED <<idxVars, buf, syncVars, rx_errors, call, idx, ret, devVars, hostVars, histVars>>

\* The read index gives the descriptor back to the host.
RecvAdvance(t) ==
  /\ pc[t] = "advance"
  /\ tx_rd_idx' = (idx[t] + 1) % DescCount
  /\ delivered' = Append(delivered, buf[idx[t]])
  /\ Goto(t, "unlock")
  /\ UNCHANGED <<tx_wr_idx, descVars, syncVars, rx_errors, call, idx, ret, devVars,
                 hostVars, accepted>>

RecvUnlock(t) ==
  /\ pc[t] = "unlock"
  /\ rx_lock' = NoThread
  /\ Return(t, "data")
  /\ UNCHANGED <<idxVars, descVars, rx_sem, rx_errors, devVars, hostVars, histVars>>

-----------------------------------------------------------------------------
(* Interrupt and work queue                                                *)

\* ring_rx_handler: an interrupt, hence atomic for the threads it preempts.  It
\* does nothing once the service is down.
RxHandler ==
  /\ irq
  /\ irq' = FALSE
  /\ IF Ready
       THEN /\ rx_sem' = IF rx_sem < DescCount THEN rx_sem + 1 ELSE rx_sem
            /\ work' = (work \/ callback)
            /\ unseen' = ~callback
       ELSE UNCHANGED <<rx_sem, work, unseen>>
  /\ UNCHANGED <<callback, idxVars, descVars, rx_lock, rx_errors, thrVars, hostVars, histVars>>

\* rx_work_handler: the callback is skipped when the ring is empty or gone.
RxWorkHandler ==
  /\ work /\ pc[WorkThread] = "idle"
  /\ work' = FALSE
  /\ IF Ready /\ RxAvail > 0 THEN Goto(WorkThread, "lock") ELSE UNCHANGED pc
  /\ UNCHANGED <<callback, unseen, idxVars, descVars, syncVars, rx_errors, call, idx, ret, irq,
                 hostVars, histVars>>

\* ring_register_callback, at any time; the application has stopped receiving
\* itself.  Messages that are already in the ring are not announced.
RegisterCallback ==
  /\ Ready /\ ~callback
  /\ \A t \in Receivers : pc[t] = "idle"
  /\ callback' = TRUE
  /\ UNCHANGED <<unseen, irq, work, idxVars, descVars, syncVars, rx_errors, thrVars, hostVars,
                 histVars>>

-----------------------------------------------------------------------------
(* The host (external)                                                     *)

HostStep(from, to) == hostPc = from /\ hostPc' = to /\ UNCHANGED others

HostFill ==
  /\ Ready
  /\ HostStep("idle", "flag")
  /\ Len(accepted) < MaxSends
  /\ RxAvail < DescCount - 1
  /\ \E m \in Messages : buf' = [buf EXCEPT ![tx_wr_idx] = m]
  /\ UNCHANGED <<idxVars, flags, syncVars, rx_errors, thrVars, devVars, histVars>>

HostFlag ==
  /\ HostStep("flag", "publish")
  /\ flags' = [flags EXCEPT ![tx_wr_idx] = 1]
  /\ accepted' = Append(accepted, buf[tx_wr_idx])
  /\ UNCHANGED <<idxVars, buf, syncVars, rx_errors, thrVars, devVars, delivered>>

HostPublish ==
  /\ HostStep("publish", "raise")
  /\ tx_wr_idx' = (tx_wr_idx + 1) % DescCount
  /\ UNCHANGED <<tx_rd_idx, descVars, syncVars, rx_errors, thrVars, devVars, histVars>>

\* A second interrupt raised before the first is served is the same interrupt.
HostRaise ==
  /\ HostStep("raise", "idle")
  /\ irq' = TRUE
  /\ UNCHANGED <<callback, unseen, idxVars, descVars, syncVars, rx_errors, thrVars, work, histVars>>

\* A message on another ring raises the same interrupt.
HostRaiseOther ==
  /\ initialized /\ others < MaxOthers
  /\ \E r \in RingIds \ {Ring} : ring_status[r] = 1
  /\ others' = others + 1
  /\ irq' = TRUE
  /\ UNCHANGED <<callback, unseen, work, idxVars, descVars, syncVars, rx_errors, thrVars, hostPc,
                 histVars>>

-----------------------------------------------------------------------------
RecvStep(t) == \/ RecvLock(t) \/ RecvLockTimeout(t) \/ RecvCheck(t) \/ RecvSemTake(t)
               \/ RecvSemTimeout(t) \/ RecvRelock(t) \/ RecvDesc(t) \/ RecvClear(t)
               \/ RecvAdvance(t) \/ RecvUnlock(t)

Host == HostFill \/ HostFlag \/ HostPublish \/ HostRaise \/ HostRaiseOther

Traffic == \/ \E t \in Threads : RecvCall(t) \/ RecvStep(t)
           \/ RxHandler \/ RxWorkHandler \/ RegisterCallback
           \/ Host

\* The service is started, or started again after it was stopped unused.
\* (After traffic ring_work_q would be initialised while its thread runs.)
Start == TrafficInit /\ Starting /\ UNCHANGED trafficVars

\* ring_service_deinit takes no lock and stops no work: its caller has stopped
\* the host and the receiving threads, and runs below the cooperative thread of
\* the work queue.  An interrupt or a work item may still be pending.
Stop ==
  /\ Deinit
  /\ \A t \in Threads : pc[t] = "idle"
  /\ hostPc = "idle"
  /\ tx_wr_idx' = 0 /\ tx_rd_idx' = 0
  /\ UNCHANGED <<descVars, syncVars, rx_errors, thrVars, devVars, hostVars, histVars>>

Next == (Traffic /\ UNCHANGED lifeVars) \/ Start \/ Stop

Spec == Init /\ [][Next]_vars

-----------------------------------------------------------------------------
TypeOK ==
  /\ tx_wr_idx \in Slots /\ tx_rd_idx \in Slots
  /\ flags \in [Slots -> {0, 1}]
  /\ buf \in [Slots -> Messages \cup {NoData}]
  /\ rx_lock \in Threads \cup {NoThread}
  /\ rx_sem \in 0 .. DescCount
  /\ rx_errors \in Nat
  /\ pc \in [Threads -> Steps]
  /\ call \in [Threads -> [wait : BOOLEAN, small : BOOLEAN]]
  /\ idx \in [Threads -> Slots]
  /\ ret \in [Threads -> Results]
  /\ callback \in BOOLEAN /\ unseen \in BOOLEAN /\ irq \in BOOLEAN /\ work \in BOOLEAN
  /\ hostPc \in {"idle", "flag", "publish", "raise"} /\ others \in Nat
  /\ accepted \in Seq(Messages) /\ delivered \in Seq(Messages)

\* However many threads receive and however stale their semaphore tokens are,
\* the messages come out once each, in order and unaltered.
Channel == INSTANCE FifoChannel WITH Capacity <- DescCount - 1
ImplementsFifo == Channel!ChanSpec

\* The number of filled descriptors the indices stand for is exact, except
\* while the host is between the VALID flag and its index: there a thread let
\* through by a stale token may take the message early, and the read index runs
\* ahead of the write index by that one slot.
AvailExact ==
  LET unread == Len(accepted) - Len(delivered)
  IN  \/ ~initialized
      \/ hostPc # "publish" /\ RxAvail = unread
      \/ hostPc = "publish" /\ unread > 0 /\ RxAvail = unread - 1
      \/ hostPc = "publish" /\ unread = 0 /\ tx_rd_idx = (tx_wr_idx + 1) % DescCount

\* A thread that waits on the semaphore, and is the only one that receives, is
\* never left there with a message in the ring: between its look at the indices
\* and its wait the interrupt leaves a token behind.
NoLostWakeup ==
  \A t \in Receivers :
     /\ pc[t] = "sem"
     /\ \A u \in Receivers \ {t} : pc[u] = "idle" /\ ret[u] = "none"
     /\ tx_rd_idx # tx_wr_idx
     => rx_sem > 0 \/ irq \/ hostPc \in {"publish", "raise"}

\* A host that follows the protocol never makes ring_recv report an invalid
\* descriptor.
NoSpuriousError == \A t \in Threads : ret[t] # "EINVAL"

\* With a callback registered no message is left in the ring once interrupt,
\* work item and callback have run, although interrupts coalesce, a queued work
\* item is not queued again, the handler skips an empty ring and the callback
\* may have been registered with messages waiting: the first interrupt it sees
\* gets those too.
CallbackDrained ==
  Ready /\ callback /\ ~unseen /\ ~irq /\ ~work /\ pc[WorkThread] = "idle" /\ hostPc = "idle"
     => delivered = accepted
=============================================================================

------------------------------- MODULE RingTx -------------------------------
(***************************************************************************)
(* The slave-to-host direction of one shared-memory ring                   *)
(* (qring/src/ring_service_qcc730.c): ring_send called by several threads, *)
(* the GPIO pulse that tells the host, and the host that drains the ring.  *)
(* The host is not part of the repository; it is modelled from the control *)
(* block both sides share (qring/inc/ring_service.h).                      *)
(*                                                                         *)
(* Every access to the control block is a step of its own, so the host may *)
(* look at the ring between any two of them.                               *)
(***************************************************************************)
EXTENDS Integers, Sequences

CONSTANTS Threads,     \* threads that call ring_send
          Messages,    \* payloads of a legal length (1 .. rx_buf_size)
          DescCount,   \* rx_desc_count: descriptors of the ring
          MaxSends,    \* bound: messages put on the ring in one behaviour
          NoThread,    \* nobody owns tx_lock
          NoData       \* content of a buffer never written

ASSUME DescCountAssumption == DescCount \in Nat \ {0}
ASSUME ThreadAssumption == NoThread \notin Threads
ASSUME MaxSendsAssumption == MaxSends \in Nat

VARIABLES
  rx_wr_idx, rx_rd_idx,  \* indices of the control block (slave writes wr, host writes rd)
  flags, buf,            \* per descriptor: RING_DESC_FLAG_VALID, and the buffer behind it
  tx_lock,               \* owner of the ring's mutex
  pc, msg, idx,          \* per thread: next step, payload, wr_idx it read
  pin,                   \* PIN_INT_TO_HOST, 1 at rest
  hostEvent, hostAwake,  \* an edge the host has not served; the host is draining
  accepted, delivered    \* history: what ring_send published, what the host took

idxVars  == <<rx_wr_idx, rx_rd_idx>>
descVars == <<flags, buf>>
hostVars == <<hostEvent, hostAwake>>
vars == <<rx_wr_idx, rx_rd_idx, flags, buf, tx_lock, pc, msg, idx, pin, hostEvent,
          hostAwake, accepted, delivered>>

Slots == 0 .. DescCount - 1

Steps == {"idle", "lock", "read", "fill", "flag", "publish", "unlock", "low", "high"}

Goto(t, step) == pc' = [pc EXCEPT ![t] = step]

-----------------------------------------------------------------------------
(* Seeded faults: plausible slips in the code, each of which one of the    *)
(* properties below must catch.  They are no part of the specification.    *)

\* The slot that is kept free is forgotten.
TxAvailNoGap == IF rx_rd_idx > rx_wr_idx THEN rx_rd_idx - rx_wr_idx
                ELSE DescCount - (rx_wr_idx - rx_rd_idx)

\* tx_lock is not waited for.
SendLockIgnored(t) ==
  /\ pc[t] = "lock"
  /\ tx_lock' = t
  /\ Goto(t, "read")
  /\ UNCHANGED <<idxVars, descVars, msg, idx, pin, hostVars, accepted, delivered>>

\* The first edge is taken for the whole pulse: a pin that is low stays low.
SendPulseHighSkipped(t) ==
  /\ pc[t] = "high"
  /\ Goto(t, "idle")
  /\ UNCHANGED <<idxVars, descVars, tx_lock, msg, idx, pin, hostVars, accepted, delivered>>
-----------------------------------------------------------------------------
\* Free descriptors as ring_send and ring_get_tx_available compute them: one
\* descriptor is never used, so that full and empty differ.
TxAvail == IF rx_rd_idx > rx_wr_idx
             THEN rx_rd_idx - rx_wr_idx - 1
             ELSE DescCount - (rx_wr_idx - rx_rd_idx) - 1

Init == /\ rx_wr_idx = 0 /\ rx_rd_idx = 0
        /\ flags = [s \in Slots |-> 0]
        /\ buf = [s \in Slots |-> NoData]
        /\ tx_lock = NoThread
        /\ pc = [t \in Threads |-> "idle"]
        /\ msg = [t \in Threads |-> NoData]
        /\ idx = [t \in Threads |-> 0]
        /\ pin = 1
        /\ hostEvent = FALSE /\ hostAwake = FALSE
        /\ accepted = << >> /\ delivered = << >>

-----------------------------------------------------------------------------
(* ring_send                                                               *)

\* The argument checks pass.  (A call they refuse returns having changed nothing.)
SendCall(t) ==
  /\ pc[t] = "idle"
  /\ Len(accepted) < MaxSends
  /\ \E m \in Messages : msg' = [msg EXCEPT ![t] = m]
  /\ Goto(t, "lock")
  /\ UNCHANGED <<idxVars, descVars, tx_lock, idx, pin, hostVars, accepted, delivered>>

SendLock(t) ==
  /\ pc[t] = "lock" /\ tx_lock = NoThread
  /\ tx_lock' = t
  /\ Goto(t, "read")
  /\ UNCHANGED <<idxVars, descVars, msg, idx, pin, hostVars, accepted, delivered>>

\* k_mutex_lock ran into the caller's timeout: its error is returned.
SendLockTimeout(t) ==
  /\ pc[t] = "lock" /\ tx_lock # NoThread
  /\ Goto(t, "idle")
  /\ UNCHANGED <<idxVars, descVars, tx_lock, msg, idx, pin, hostVars, accepted, delivered>>

\* Reads both indices; a full ring is -EAGAIN at once, whatever the timeout.
SendRead(t) ==
  /\ pc[t] = "read"
  /\ IF TxAvail = 0
       THEN /\ tx_lock' = NoThread
            /\ Goto(t, "idle")
            /\ UNCHANGED idx
       ELSE /\ idx' = [idx EXCEPT ![t] = rx_wr_idx]
            /\ Goto(t, "fill")
            /\ UNCHANGED tx_lock
  /\ UNCHANGED <<idxVars, descVars, msg, pin, hostVars, accepted, delivered>>

SendFill(t) ==
  /\ pc[t] = "fill"
  /\ buf' = [buf EXCEPT ![idx[t]] = msg[t]]
  /\ Goto(t, "flag")
  /\ UNCHANGED <<idxVars, flags, tx_lock, msg, idx, pin, hostVars, accepted, delivered>>

SendFlag(t) ==
  /\ pc[t] = "flag"
  /\ flags' = [flags EXCEPT ![idx[t]] = 1]
  /\ Goto(t, "publish")
  /\ UNCHANGED <<idxVars, buf, tx_lock, msg, idx, pin, hostVars, accepted, delivered>>

\* The write index makes the descriptor the host's.
SendPublish(t) ==
  /\ pc[t] = "publish"
  /\ rx_wr_idx' = (idx[t] + 1) % DescCount
  /\ accepted' = Append(accepted, msg[t])
  /\ Goto(t, "unlock")
  /\ UNCHANGED <<rx_rd_idx, descVars, tx_lock, msg, idx, pin, hostVars, delivered>>

SendUnlock(t) ==
  /\ pc[t] = "unlock"
  /\ tx_lock' = NoThread
  /\ Goto(t, "low")
  /\ UNCHANGED <<idxVars, descVars, msg, idx, pin, hostVars, accepted, delivered>>

\* The interrupt pulse is given after the mutex is released, so the pulses of
\* two threads (of one ring or of two) overlap on the one pin.
SendPulseLow(t) ==
  /\ pc[t] = "low"
  /\ pin' = 0
  /\ Goto(t, "high")
  /\ UNCHANGED <<idxVars, descVars, tx_lock, msg, idx, hostVars, accepted, delivered>>

SendPulseHigh(t) ==
  /\ pc[t] = "high"
  /\ pin' = 1
  /\ hostEvent' = (hostEvent \/ pin = 0)
  /\ Goto(t, "idle")
  /\ UNCHANGED <<idxVars, descVars, tx_lock, msg, idx, hostAwake, accepted, delivered>>

-----------------------------------------------------------------------------
(* The host (external): woken by the rising edge that ends a pulse, it     *)
(* drains the ring and sleeps again.                                       *)

HostWake == /\ hostEvent /\ ~hostAwake
            /\ hostEvent' = FALSE /\ hostAwake' = TRUE
            /\ UNCHANGED <<idxVars, descVars, tx_lock, pc, msg, idx, pin, accepted, delivered>>

HostTake == /\ hostAwake /\ rx_rd_idx # rx_wr_idx
            /\ delivered' = Append(delivered, buf[rx_rd_idx])
            /\ flags' = [flags EXCEPT ![rx_rd_idx] = 0]
            /\ rx_rd_idx' = (rx_rd_idx + 1) % DescCount
            /\ UNCHANGED <<rx_wr_idx, buf, tx_lock, pc, msg, idx, pin, hostVars, accepted>>

HostSleep == /\ hostAwake /\ rx_rd_idx = rx_wr_idx
             /\ hostAwake' = FALSE
             /\ UNCHANGED <<idxVars, descVars, tx_lock, pc, msg, idx, pin, hostEvent,
                            accepted, delivered>>

-----------------------------------------------------------------------------
SendStep(t) == \/ SendLock(t) \/ SendLockTimeout(t) \/ SendRead(t) \/ SendFill(t)
               \/ SendFlag(t) \/ SendPublish(t) \/ SendUnlock(t)
               \/ SendPulseLow(t) \/ SendPulseHigh(t)

HostStep == HostWake \/ HostTake \/ HostSleep

Next == \/ \E t \in Threads : SendCall(t) \/ SendStep(t)
        \/ HostStep

Spec == Init /\ [][Next]_vars

\* A thread inside ring_send keeps being scheduled, and so does the host.
FairSpec == /\ Spec
            /\ \A t \in Threads : WF_vars(SendStep(t))
            /\ WF_vars(HostStep)

-----------------------------------------------------------------------------
TypeOK ==
  /\ rx_wr_idx \in Slots /\ rx_rd_idx \in Slots
  /\ flags \in [Slots -> {0, 1}]
  /\ buf \in [Slots -> Messages \cup {NoData}]
  /\ tx_lock \in Threads \cup {NoThread}
  /\ pc \in [Threads -> Steps]
  /\ msg \in [Threads -> Messages \cup {NoData}]
  /\ idx \in [Threads -> Slots]
  /\ pin \in {0, 1}
  /\ hostEvent \in BOOLEAN /\ hostAwake \in BOOLEAN
  /\ accepted \in Seq(Messages) /\ delivered \in Seq(Messages)

\* Slots between the two indices: what the host may still read.
Published(s) == IF rx_rd_idx <= rx_wr_idx
                  THEN rx_rd_idx <= s /\ s < rx_wr_idx
                  ELSE rx_rd_idx <= s \/ s < rx_wr_idx

\* ring_send writes a buffer or descriptor only while the slot is the slave's:
\* no message the host has still to read is ever overwritten.
NoOverwrite ==
  \A t \in Threads : pc[t] \in {"fill", "flag", "publish"} =>
     idx[t] = rx_wr_idx /\ ~Published(idx[t]) /\ TxAvail > 0

\* Whenever the host can see a descriptor, its VALID flag and its data are there.
PublishedIsValid ==
  \A s \in Slots : Published(s) => flags[s] = 1 /\ buf[s] \in Messages

\* A published message never waits for a sleeping host that nobody is going to
\* wake: the pulse given after the unlock is never lost, although the pulses of
\* two senders overlap on the pin.
NoLostInterrupt ==
  rx_rd_idx # rx_wr_idx =>
     \/ hostAwake \/ hostEvent
     \/ \E t \in Threads : pc[t] \in {"unlock", "low", "high"}

\* The ring implements the bounded FIFO channel, one slot being kept free.
Channel == INSTANCE FifoChannel WITH Capacity <- DescCount - 1
ImplementsFifo == Channel!ChanSpec

\* Every message ring_send acknowledged is eventually taken by the host.
AllDelivered == \A n \in 1 .. MaxSends :
                   (Len(accepted) >= n) ~> (Len(delivered) >= n)
=============================================================================

------------------------------ MODULE RingLife ------------------------------
(***************************************************************************)
(* Life cycle of the ring service: ring_service_slave_init, which takes    *)
(* four heap blocks per ring and gives everything back when one of its     *)
(* steps fails, and ring_service_deinit (qring/src/ring_service_qcc730.c). *)
(***************************************************************************)
EXTENDS Integers, Sequences

CONSTANTS MaxRings,   \* MAX_RINGS
          ConfigSet   \* configuration arrays callers pass: the ring ids, in order

ASSUME ConfigsAssumption ==
  /\ MaxRings \in Nat \ {0}
  /\ \A c \in ConfigSet :
        /\ c \in Seq(0 .. MaxRings - 1) /\ Len(c) \in 1 .. MaxRings
        /\ \A m, n \in 1 .. Len(c) : c[m] = c[n] => m = n

VARIABLES initialized,   \* g_ring_service.initialized
          base,          \* the control block's four base addresses per ring, 0 if none
          ring_status,   \* per ring: VALID or not
          heap,          \* blocks currently allocated
          configs,       \* the configuration of the last init call
          step, i, k     \* step of the init call, configuration and block it is at

lifeVars == <<initialized, base, ring_status, heap, configs, step, i, k>>
ctrlVars == <<base, ring_status>>

RingIds    == 0 .. MaxRings - 1
Parts      == 1 .. 4                     \* tx_desc, tx_buf, rx_desc, rx_buf
Blocks     == 1 .. 4 * MaxRings + 1      \* addresses: one more than ever needed
Configured == {configs[n] : n \in 1 .. Len(configs)}

\* memset(ctrl, 0, sizeof(*ctrl))
ClearCtrl == /\ base' = [r \in RingIds |-> [p \in Parts |-> 0]]
             /\ ring_status' = [r \in RingIds |-> 0]

\* free_ring_resources for each ring of a set.
FreeRings(rings) == heap' = heap \ {base[r][p] : r \in rings, p \in Parts}
-----------------------------------------------------------------------------
(* Seeded fault, no part of the specification.                             *)

\* The clean-up frees only the rings that were completed.
CleanupValidOnly ==
  /\ step = "cleanup"
  /\ FreeRings({r \in Configured : ring_status[r] = 1})
  /\ ClearCtrl
  /\ step' = "idle"
  /\ UNCHANGED <<initialized, configs, i, k>>

-----------------------------------------------------------------------------
LifeInit == /\ initialized = FALSE
            /\ base = [r \in RingIds |-> [p \in Parts |-> 0]]
            /\ ring_status = [r \in RingIds |-> 0]
            /\ heap = {}
            /\ configs = << >>
            /\ step = "idle" /\ i = 1 /\ k = 1

\* The checks of the arguments pass and the control block is cleared.  A call
\* on an initialized service is refused (-EALREADY).
InitCall ==
  /\ step = "idle" /\ ~initialized
  /\ configs' \in ConfigSet
  /\ ClearCtrl
  /\ step' = "alloc" /\ i' = 1 /\ k' = 1
  /\ UNCHANGED <<initialized, heap>>

\* The k-th allocation for the i-th configuration succeeds; the fourth one
\* completes the ring.
Allocate ==
  /\ step = "alloc" /\ heap # Blocks
  /\ LET b == CHOOSE x \in Blocks : x \notin heap
     IN  /\ base' = [base EXCEPT ![configs[i]][k] = b]
         /\ heap' = heap \cup {b}
  /\ ring_status' = IF k = 4 THEN [ring_status EXCEPT ![configs[i]] = 1] ELSE ring_status
  /\ IF k < 4 THEN k' = k + 1 /\ UNCHANGED <<i, step>>
     ELSE /\ k' = 1
          /\ IF i < Len(configs) THEN i' = i + 1 /\ UNCHANGED step
                                 ELSE step' = "gpio" /\ UNCHANGED i
  /\ UNCHANGED <<initialized, configs>>

AllocateFails ==
  /\ step = "alloc"
  /\ step' = "cleanup"
  /\ UNCHANGED <<initialized, ctrlVars, heap, configs, i, k>>

\* The GPIO is ready and configured, and the locks, semaphores, work queue and
\* work items are initialised; or one of them fails.
Finish ==
  /\ step = "gpio"
  /\ \/ step' = "idle" /\ initialized' = TRUE
     \/ step' = "cleanup" /\ UNCHANGED <<initialized, configs>>
  /\ UNCHANGED <<ctrlVars, heap, configs, i, k>>

Cleanup ==
  /\ step = "cleanup"
  /\ FreeRings(Configured)
  /\ ClearCtrl
  /\ step' = "idle"
  /\ UNCHANGED <<initialized, configs, i, k>>

Deinit ==
  /\ step = "idle" /\ initialized
  /\ FreeRings({r \in RingIds : ring_status[r] = 1})
  /\ ClearCtrl
  /\ initialized' = FALSE
  /\ UNCHANGED <<configs, step, i, k>>

Starting == InitCall \/ Allocate \/ AllocateFails \/ Finish \/ Cleanup

-----------------------------------------------------------------------------
LifeTypeOK == /\ initialized \in BOOLEAN
              /\ base \in [RingIds -> [Parts -> Blocks \cup {0}]]
              /\ ring_status \in [RingIds -> {0, 1}]
              /\ heap \subseteq Blocks
              /\ step \in {"idle", "alloc", "gpio", "cleanup"}
              /\ configs \in ConfigSet \cup {<< >>}
              /\ i \in 1 .. MaxRings /\ k \in Parts

\* Every block the service holds is reachable from the control block, and every
\* address in the control block is an allocated block of its own: whichever
\* step fails, no cycle of init and deinit leaks, frees twice or shares memory.
HeapIsCtrl ==
  /\ heap = {base[r][p] : r \in RingIds, p \in Parts} \ {0}
  /\ \A r, q \in RingIds, p, o \in Parts :
        base[r][p] # 0 /\ base[r][p] = base[q][o] => r = q /\ p = o
=============================================================================

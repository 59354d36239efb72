-------------------------------- MODULE Fpci --------------------------------
(***************************************************************************)
(* The power callback infrastructure: callbacks register for sleep and      *)
(* wake-up events, are kept sorted by priority, and are called in that      *)
(* order when an event is dispatched.  A callback may register itself again *)
(* while it is being called, as the flash driver's does: on POST_AWAKE it   *)
(* runs drv_flash_init, which registers it.                                 *)
(* Source: qsystem/src/wifi_fw_pwr_cb_infra.c.                              *)
(***************************************************************************)
EXTENDS Integers, Sequences, SequencesExt

CONSTANTS
    Callbacks,    \* the callback functions
    Priority,     \* the priority each registers with, 1 .. 255
    Events,       \* the events; a mask is a set of events
    FPCI_MAX_REG, \* length of the table
    SIZE_MAX,     \* the counter 0, decremented
    NoCb,         \* a null callback pointer
    NoEvent       \* nothing is being dispatched

ASSUME FpciAssumption ==
    /\ Priority \in [Callbacks -> Nat \ {0}]
    /\ FPCI_MAX_REG \in Nat \ {0}
    /\ SIZE_MAX \in Nat /\ SIZE_MAX > FPCI_MAX_REG
    /\ NoCb \notin Callbacks
    /\ NoEvent \notin Events

VARIABLES
    g_event_bin,      \* the table
    g_event_bin_ctr,  \* number of registrations
    evt,              \* the event being dispatched
    itter,            \* the index the dispatch loop has reached
    called,           \* the callbacks called in this dispatch
    registered,       \* what callers have registered and not deregistered
    strayed           \* some caller deregistered what it had not registered

tableVars == <<g_event_bin, g_event_bin_ctr>>
dispatchVars == <<evt, itter, called>>
fpciVars == <<tableVars, dispatchVars, registered, strayed>>

Masks == (SUBSET Events) \ {{}}

Empty == [evt_mask |-> {}, priority |-> 0, evt_cb |-> NoCb]

----------------------------------------------------------------------------
\* One comparison of sort_bubble in descending direction: neighbours are
\* exchanged unless the first is strictly greater.
CompareSwap(b, j) ==
    IF b[j].priority > b[j + 1].priority THEN b
    ELSE [b EXCEPT ![j] = b[j + 1], ![j + 1] = b[j]]

\* Seeded fault, no part of the specification: one pass over the table only.
SortBubbleOnePass(b) ==
    FoldLeft(CompareSwap, b, [j \in 1 .. FPCI_MAX_REG - 1 |-> j])

\* sort_bubble over the whole table.
SortBubble(b) ==
    LET pass(t, i) == FoldLeft(CompareSwap, t, [j \in 1 .. FPCI_MAX_REG - i |-> j])
    IN  FoldLeft(pass, b, [i \in 1 .. FPCI_MAX_REG - 1 |-> i])

\* Seeded fault, no part of the specification: the search for an earlier
\* registration of the callback is left out.
RegIndexAlwaysNew(cb) == g_event_bin_ctr + 1

\* Where fpci_evt_cb_reg writes: the callback's entry or the first free one.
RegIndex(cb) ==
    LET known == {i \in 1 .. g_event_bin_ctr : g_event_bin[i].evt_cb = cb}
    IN  IF known = {} THEN g_event_bin_ctr + 1 ELSE CHOOSE i \in known : \A k \in known : i <= k

\* fpci_evt_cb_reg; the table is full when one entry is left.
RegTable(cb, mask) ==
    LET i == RegIndex(cb)
    IN  /\ g_event_bin' = SortBubble([g_event_bin EXCEPT
                ![i] = [evt_mask |-> g_event_bin[i].evt_mask \cup mask,
                        priority |-> Priority[cb],
                        evt_cb |-> cb]])
        /\ g_event_bin_ctr' = IF i = g_event_bin_ctr + 1 THEN i ELSE g_event_bin_ctr
        /\ registered' = [registered EXCEPT ![cb] = @ \cup mask]

Register(cb, mask) ==
    IF g_event_bin_ctr < FPCI_MAX_REG - 1 THEN RegTable(cb, mask)
    ELSE UNCHANGED <<tableVars, registered>>

\* A caller registers a callback.
EvtCbReg(cb, mask) ==
    /\ evt = NoEvent
    /\ Register(cb, mask)
    /\ UNCHANGED <<dispatchVars, strayed>>

\* The end of fpci_evt_cb_dereg, for the entry i where the loop stopped: its
\* events are cleared and an entry without events is removed.
DeregTable(i, mask) ==
    LET left == g_event_bin[i].evt_mask \ mask
    IN  IF left = {}
        THEN /\ g_event_bin' = SortBubble([g_event_bin EXCEPT ![i] = Empty])
             /\ g_event_bin_ctr' = IF g_event_bin_ctr = 0 THEN SIZE_MAX ELSE g_event_bin_ctr - 1
        ELSE /\ g_event_bin' = [g_event_bin EXCEPT ![i] = [@ EXCEPT !.evt_mask = left]]
             /\ UNCHANGED g_event_bin_ctr

\* fpci_evt_cb_dereg.  If no entry matches, the loop ends one past the last
\* registration, and the test of the mask looks at that entry.
Deregister(cb, mask) ==
    LET match == {i \in 1 .. g_event_bin_ctr :
                    g_event_bin[i].evt_cb = cb /\ g_event_bin[i].evt_mask \cap mask # {}}
    IN  /\ IF match # {}
           THEN /\ DeregTable(CHOOSE i \in match : \A k \in match : i <= k, mask)
                /\ UNCHANGED strayed
           ELSE /\ DeregTable(g_event_bin_ctr + 1, {})
                /\ strayed' = TRUE
        /\ registered' = [registered EXCEPT ![cb] = @ \ mask]

\* A caller deregisters a callback.
EvtCbDereg(cb, mask) ==
    /\ evt = NoEvent
    /\ Deregister(cb, mask)
    /\ UNCHANGED dispatchVars

----------------------------------------------------------------------------
\* fpci_evt_dispatch is called by the power infrastructure.
EvtDispatch(e) ==
    /\ evt = NoEvent
    /\ evt' = e
    /\ itter' = 1
    /\ called' = <<>>
    /\ UNCHANGED <<tableVars, registered, strayed>>

\* One turn of its loop; a callback that is called may register itself again.
DispatchStep ==
    /\ evt # NoEvent
    /\ itter <= g_event_bin_ctr
    /\ itter' = itter + 1
    /\ LET entry == g_event_bin[itter]
       IN  IF evt \in entry.evt_mask /\ entry.evt_cb # NoCb
           THEN /\ called' = Append(called, entry.evt_cb)
                /\ \/ Register(entry.evt_cb, registered[entry.evt_cb])
                   \/ UNCHANGED <<tableVars, registered>>
           ELSE UNCHANGED <<tableVars, called, registered>>
    /\ UNCHANGED <<evt, strayed>>

DispatchEnd ==
    /\ evt # NoEvent
    /\ itter > g_event_bin_ctr
    /\ evt' = NoEvent
    /\ itter' = 1
    /\ called' = <<>>
    /\ UNCHANGED <<tableVars, registered, strayed>>

FpciInit ==
    /\ g_event_bin = [i \in 1 .. FPCI_MAX_REG |-> Empty]
    /\ g_event_bin_ctr = 0
    /\ evt = NoEvent
    /\ itter = 1
    /\ called = <<>>
    /\ registered = [cb \in Callbacks |-> {}]
    /\ strayed = FALSE

----------------------------------------------------------------------------
\* The table holds exactly the registrations that callers have made and not
\* taken back, and the entries past the counter are empty (fpci_evt_cb_reg ors
\* into the mask it finds there), as long as no caller has deregistered a
\* callback that was not registered for the event.
RegistryExact ==
    ~strayed =>
        /\ \A i \in g_event_bin_ctr + 1 .. FPCI_MAX_REG : g_event_bin[i] = Empty
        /\ \A cb \in Callbacks :
              LET entries == {i \in 1 .. g_event_bin_ctr : g_event_bin[i].evt_cb = cb}
              IN  IF registered[cb] = {} THEN entries = {}
                  ELSE \E i \in entries :
                          entries = {i} /\ g_event_bin[i].evt_mask = registered[cb]

\* When the dispatch loop ends, every callback registered for the event was
\* called exactly once, a higher priority first, although callbacks register
\* themselves again, and the table is sorted again, in the middle of the loop
\* (no stray deregistration having happened).
DispatchedOnce ==
    ~strayed /\ evt # NoEvent /\ itter > g_event_bin_ctr =>
        /\ \A cb \in Callbacks : evt \in registered[cb] <=> cb \in Range(called)
        /\ \A i, j \in DOMAIN called : i < j => Priority[called[i]] > Priority[called[j]]
=============================================================================

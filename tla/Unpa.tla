-------------------------------- MODULE Unpa --------------------------------
(***************************************************************************)
(* uNPA, the power-resource voting framework of qsystem: one resource,      *)
(* its clients, and the requests that the clients issue, try, cancel and    *)
(* withdraw by being destroyed.  Source: qsystem/src/unpa_client.c,         *)
(* unpa_resource.c, the update functions of qhw_support/src/nt_wifi_driver.c*)
(*                                                                          *)
(* A client is used by one thread at a time ("use must be serialised by     *)
(* caller", unpa.h), so a client stands for its thread: pc[c] is where that *)
(* thread is.  Everything between lock and unlock is split where another    *)
(* thread may look without the lock: a try_issue_request of another client  *)
(* stores its pending request at any moment.                                *)
(***************************************************************************)
EXTENDS Integers, FiniteSets

CONSTANTS
    Clients,      \* the clients that may be created
    Definitions,  \* resource definitions: their functions, client types and attributes
    ActiveMax,    \* definition->max, to which aggregates are clipped
    MaxRequest,   \* requests are 0 .. MaxRequest
    None          \* the lock has no owner

\* Client types, which index agg_state.
Types == {"REQUIRED", "SUPPRESSIBLE", "SLEEP"}

Fcns == {"min", "max", "binary", "or", "mem"}

\* The attributes of a resource that change the control flow.
ResourceAttributes == {"DRIVER_UNCONDITIONAL", "CLIENT_CHANGE_NOTIFY"}

\* One-time request attributes.
RequestAttributes == {"ADD_CLIENT", "REMOVE_CLIENT", "DROP_VOTE"}

DefinitionType ==
    [fcn : Fcns, driver : {"plain", "phy"}, client_types : SUBSET Types,
     attributes : SUBSET ResourceAttributes]

ASSUME UnpaAssumption ==
    /\ IsFiniteSet(Clients)
    /\ None \notin Clients
    /\ Definitions \subseteq DefinitionType
    /\ ActiveMax \in Nat
    /\ MaxRequest \in Nat

Requests == 0 .. MaxRequest

\* What an aggregate can be: a request, a count of clients or two bits.
AggValues == Requests \cup 0 .. Cardinality(Clients) \cup 0 .. 3

VARIABLES
    defn,             \* resource->definition
    clients,          \* resource->clients
    agg_state,        \* resource->agg_state, by client type
    active_state,     \* resource->active_state
    sleep_state,      \* resource->sleep_state
    lock,             \* resource->lock: the client whose thread owns it
    type,             \* client->type
    active_request,   \* client->active_request
    pending_request,  \* client->pending_request
    request_attr,     \* client->request_attr
    pc,               \* where the client's thread is
    arg,              \* the request of the call in progress
    destroying,       \* the call in progress is unpa_destroy_client
    driven            \* what the driver function was last told to apply

resourceVars == <<agg_state, active_state, sleep_state>>
clientVars == <<type, active_request, pending_request, request_attr>>
vars == <<defn, clients, resourceVars, lock, clientVars, pc, arg, destroying, driven>>

----------------------------------------------------------------------------
(***************************************************************************)
(* The update functions.  Each takes the vote v that client c is about to   *)
(* cast, updates the aggregate of c's type incrementally and returns it.    *)
(***************************************************************************)

\* The other clients of c's type that the walk over the list visits.
Others(c) == {d \in clients : d # c /\ type[d] = type[c]}

IsMinOf(m, v, S) ==
    /\ m = v \/ \E d \in S : m # 0 /\ m = active_request[d]
    /\ v # 0 => m # 0 /\ m <= v
    /\ \A d \in S : active_request[d] # 0 => m # 0 /\ m <= active_request[d]

IsMaxOf(m, v, S) ==
    /\ m = v \/ \E d \in S : m = active_request[d]
    /\ v <= m
    /\ \A d \in S : active_request[d] <= m

\* unpa_min_update_fcn: a smaller request wins at once, the loss of the
\* smallest one makes the client list be walked.
MinUpdate(c, v, m) ==
    LET agg == agg_state[type[c]] IN
    IF v # 0 /\ (agg = 0 \/ v < agg) THEN m = v
    ELSE IF agg = active_request[c] THEN IsMinOf(m, v, Others(c))
    ELSE m = agg

\* unpa_max_update_fcn
MaxUpdate(c, v, m) ==
    LET agg == agg_state[type[c]] IN
    IF v > agg THEN m = v
    ELSE IF agg = active_request[c] THEN IsMaxOf(m, v, Others(c))
    ELSE m = agg

NonZero(v) == IF v = 0 THEN 0 ELSE 1

\* unpa_binary_update_fcn: agg_state counts the non-zero votes.
BinaryUpdate(c, v, m) ==
    m = agg_state[type[c]] - NonZero(active_request[c]) + NonZero(v)

\* Bitwise or of a set of two-bit states.
OrOver(V) ==
    (IF \E v \in V : v % 2 = 1 THEN 1 ELSE 0) + (IF \E v \in V : v \div 2 = 1 THEN 2 ELSE 0)

\* wifiwur_update_fcn, wificfg_update_fcn and, for all but REQUIRED clients,
\* mem_update_fcn: computed afresh from the list.
OrUpdate(c, v, m) == m = OrOver({v} \cup {active_request[d] : d \in Others(c)})

UpdateFcn(c, v, m) ==
    \/ defn.fcn = "min" /\ MinUpdate(c, v, m)
    \/ defn.fcn = "max" /\ MaxUpdate(c, v, m)
    \/ defn.fcn = "binary" /\ BinaryUpdate(c, v, m)
    \/ defn.fcn = "or" /\ OrUpdate(c, v, m)
    \/ defn.fcn = "mem" /\ IF type[c] = "REQUIRED" THEN m = agg_state["REQUIRED"]
                           ELSE OrUpdate(c, v, m)

MIN(a, b) == IF a < b THEN a ELSE b
MAX(a, b) == IF a > b THEN a ELSE b

\* How the aggregates of two types make one state.
Combine(fcn, a, b) ==
    CASE fcn = "min" -> IF b = 0 THEN a ELSE IF a = 0 THEN b ELSE MIN(a, b)
      [] fcn = "max" -> MAX(a, b)
      [] fcn = "binary" -> IF MAX(a, b) > 0 THEN 1 ELSE 0
      [] OTHER -> OrOver({a, b})

SleepAgg(fcn, agg) == Combine(fcn, agg["REQUIRED"], agg["SLEEP"])

\* wifiwur_update_fcn and mem_update_fcn return the sleep state.
ActiveAgg(fcn, agg) ==
    IF fcn \in {"or", "mem"} THEN SleepAgg(fcn, agg)
    ELSE Combine(fcn, agg["REQUIRED"], agg["SUPPRESSIBLE"])

\* Seeded fault, no part of the specification: nothing is clipped.
ClipNothing(v) == v

Clip(v) == IF v > ActiveMax THEN ActiveMax ELSE v

\* What the driver functions return: the state they are given; only
\* phy_driver_fcn returns the sleep state to a SLEEP client.
DriverReturns(c, state, sleep) ==
    IF defn.driver = "phy" /\ type[c] = "SLEEP" THEN sleep ELSE state

----------------------------------------------------------------------------
Init ==
    /\ defn \in Definitions
    /\ clients = {}
    /\ agg_state = [t \in Types |-> 0]
    /\ active_state = 0
    /\ sleep_state = 0
    /\ lock = None
    /\ type = [c \in Clients |-> "REQUIRED"]
    /\ active_request = [c \in Clients |-> 0]
    /\ pending_request = [c \in Clients |-> 0]
    /\ request_attr = [c \in Clients |-> {}]
    /\ pc = [c \in Clients |-> "none"]
    /\ arg = [c \in Clients |-> 0]
    /\ destroying = [c \in Clients |-> FALSE]
    /\ driven = [active |-> 0, sleep |-> 0]

Goto(c, label) == pc' = [pc EXCEPT ![c] = label]

\* unpa_create_client: a zeroed client of a type the resource supports is
\* linked in and, if the resource asks for it, the driver is told of it.
CreateClient(c, t) ==
    /\ pc[c] = "none"
    /\ t \in defn.client_types
    /\ lock = None
    /\ clients' = clients \cup {c}
    /\ type' = [type EXCEPT ![c] = t]
    /\ active_request' = [active_request EXCEPT ![c] = 0]
    /\ pending_request' = [pending_request EXCEPT ![c] = 0]
    /\ request_attr' = [request_attr EXCEPT ![c] =
           IF "CLIENT_CHANGE_NOTIFY" \in defn.attributes THEN {"ADD_CLIENT"} ELSE {}]
    /\ Goto(c, "idle")
    /\ UNCHANGED <<defn, resourceVars, lock, arg, destroying, driven>>

\* unpa_issue_request and unpa_cancel_request up to the lock.  A request equal
\* to the active one is redundant and only resets the attributes.
IssueRequest(c, v, drop) ==
    /\ pc[c] = "idle"
    /\ drop => v = 0
    /\ IF v # active_request[c]
       THEN /\ request_attr' = IF drop THEN [request_attr EXCEPT ![c] = @ \cup {"DROP_VOTE"}]
                               ELSE request_attr
            /\ arg' = [arg EXCEPT ![c] = v]
            /\ Goto(c, "issue")
       ELSE /\ request_attr' = [request_attr EXCEPT ![c] = {}]
            /\ UNCHANGED <<arg, pc>>
    /\ UNCHANGED <<defn, clients, resourceVars, lock, type, active_request, pending_request,
                   destroying, driven>>

\* unpa_try_issue_request and unpa_try_cancel_request up to the try_lock: the
\* pending request is stored without the lock.
TryIssueRequest(c, v, drop) ==
    /\ pc[c] = "idle"
    /\ drop => v = 0
    /\ v # active_request[c]
    /\ request_attr' = IF drop THEN [request_attr EXCEPT ![c] = @ \cup {"DROP_VOTE"}]
                       ELSE request_attr
    /\ pending_request' = [pending_request EXCEPT ![c] = v]
    /\ Goto(c, "try")
    /\ UNCHANGED <<defn, clients, resourceVars, lock, type, active_request, arg, destroying,
                   driven>>

\* Seeded fault, no part of the specification: a client is unlinked and freed
\* without cancelling its request.
DestroyClientNoCancel(c) ==
    /\ pc[c] = "idle"
    /\ destroying' = [destroying EXCEPT ![c] = TRUE]
    /\ Goto(c, "unlink")
    /\ UNCHANGED <<defn, clients, resourceVars, lock, clientVars, arg, driven>>

\* unpa_destroy_client up to its first lock: it cancels the active request.
DestroyClient(c) ==
    /\ pc[c] = "idle"
    /\ destroying' = [destroying EXCEPT ![c] = TRUE]
    /\ IF active_request[c] # 0
       THEN /\ request_attr' = [request_attr EXCEPT ![c] = @ \cup {"DROP_VOTE"}]
            /\ arg' = [arg EXCEPT ![c] = 0]
            /\ Goto(c, "issue")
       ELSE /\ request_attr' = [request_attr EXCEPT ![c] = {}]
            /\ Goto(c, "unlink")
            /\ UNCHANGED arg
    /\ UNCHANGED <<defn, clients, resourceVars, lock, type, active_request, pending_request,
                   driven>>

\* The mutex is taken and the request becomes pending.
LockAndPend(c) ==
    /\ pc[c] = "issue"
    /\ lock = None
    /\ lock' = c
    /\ pending_request' = [pending_request EXCEPT ![c] = arg[c]]
    /\ arg' = [arg EXCEPT ![c] = 0]
    /\ Goto(c, "update")
    /\ UNCHANGED <<defn, clients, resourceVars, type, active_request, request_attr, destroying,
                   driven>>

\* qurt_mutex_try_lock succeeds.
TryLock(c) ==
    /\ pc[c] = "try"
    /\ lock = None
    /\ lock' = c
    /\ Goto(c, "update")
    /\ UNCHANGED <<defn, clients, resourceVars, clientVars, arg, destroying, driven>>

\* It fails: the call returns an error and the request stays pending.
TryLockFails(c) ==
    /\ pc[c] = "try"
    /\ lock # None
    /\ request_attr' = [request_attr EXCEPT ![c] = {}]
    /\ Goto(c, "idle")
    /\ UNCHANGED <<defn, clients, resourceVars, lock, type, active_request, pending_request,
                   arg, destroying, driven>>

----------------------------------------------------------------------------
\* Seeded fault, no part of the specification: a change of the sleep state
\* alone does not call the driver.
UpdateNeedsDriverActiveOnly(active, oldSleep, sleep) ==
    "DRIVER_UNCONDITIONAL" \in defn.attributes \/ active # active_state

\* The driver is called if it always wants to be or if a state changes.
UpdateNeedsDriver(active, oldSleep, sleep) ==
    \/ "DRIVER_UNCONDITIONAL" \in defn.attributes
    \/ active # active_state
    \/ oldSleep # sleep

\* unpa_update_resource up to the driver call: update function, clipping, and
\* the driver function if it is wanted.
UpdateResource(c) ==
    /\ pc[c] = "update"
    /\ \E m \in AggValues :
         /\ UpdateFcn(c, pending_request[c], m)
         /\ agg_state' = [agg_state EXCEPT ![type[c]] = m]
    /\ LET active == Clip(ActiveAgg(defn.fcn, agg_state'))
           sleep == Clip(SleepAgg(defn.fcn, agg_state'))
       IN /\ sleep_state' = sleep
          /\ IF UpdateNeedsDriver(active, sleep_state, sleep)
             THEN /\ active_state' = DriverReturns(c, active, sleep)
                  /\ driven' = [active |-> active, sleep |-> sleep]
             ELSE UNCHANGED <<active_state, driven>>
    /\ Goto(c, "commit")
    /\ UNCHANGED <<defn, clients, lock, clientVars, arg, destroying>>

\* The rest of unpa_update_resource and of the call: the request becomes the
\* active one, the resource is unlocked, the attributes are reset.
CommitRequest(c) ==
    /\ pc[c] = "commit"
    /\ active_request' = [active_request EXCEPT ![c] = pending_request[c]]
    /\ lock' = None
    /\ request_attr' = [request_attr EXCEPT ![c] = {}]
    /\ Goto(c, IF destroying[c] THEN "unlink" ELSE "idle")
    /\ UNCHANGED <<defn, clients, resourceVars, type, pending_request, arg, destroying, driven>>

\* The second locked part of unpa_destroy_client, and the free.
UnlinkClient(c) ==
    /\ pc[c] = "unlink"
    /\ lock = None
    /\ clients' = clients \ {c}
    /\ destroying' = [destroying EXCEPT ![c] = FALSE]
    /\ type' = [type EXCEPT ![c] = "REQUIRED"]
    /\ active_request' = [active_request EXCEPT ![c] = 0]
    /\ pending_request' = [pending_request EXCEPT ![c] = 0]
    /\ request_attr' = [request_attr EXCEPT ![c] = {}]
    /\ Goto(c, "none")
    /\ UNCHANGED <<defn, resourceVars, lock, arg, driven>>

ClientStep(c) ==
    \/ \E t \in Types : CreateClient(c, t)
    \/ \E v \in Requests, drop \in BOOLEAN : IssueRequest(c, v, drop)
    \/ \E v \in Requests, drop \in BOOLEAN : TryIssueRequest(c, v, drop)
    \/ DestroyClient(c)
    \/ LockAndPend(c)
    \/ TryLock(c)
    \/ TryLockFails(c)
    \/ UpdateResource(c)
    \/ CommitRequest(c)
    \/ UnlinkClient(c)

Next == \E c \in Clients : ClientStep(c)

Spec == Init /\ [][Next]_vars

----------------------------------------------------------------------------
Labels == {"none", "idle", "issue", "try", "update", "commit", "unlink"}

\* Every piece of state has its type; the aggregates that the incremental
\* update functions maintain stay in range (agg_state is unsigned, and the
\* counters of unpa_binary_update_fcn are decremented), and neither the
\* resource nor its driver ever gets a state above active_max.
TypeOK ==
    /\ defn \in Definitions
    /\ clients \in SUBSET Clients
    /\ agg_state \in [Types -> AggValues]
    /\ active_state \in 0 .. ActiveMax
    /\ sleep_state \in 0 .. ActiveMax
    /\ lock \in Clients \cup {None}
    /\ type \in [Clients -> Types]
    /\ active_request \in [Clients -> Requests]
    /\ pending_request \in [Clients -> Requests]
    /\ request_attr \in [Clients -> SUBSET RequestAttributes]
    /\ pc \in [Clients -> Labels]
    /\ arg \in [Clients -> Requests]
    /\ destroying \in [Clients -> BOOLEAN]
    /\ driven \in [active : 0 .. ActiveMax, sleep : 0 .. ActiveMax]

\* The votes as far as the aggregates are concerned: between the update and
\* the commit a client's vote is its pending request, otherwise the active one.
Votes ==
    [c \in Clients |-> IF pc[c] = "commit" THEN pending_request[c] ELSE active_request[c]]

\* m is what fcn is documented to make of the votes of the clients in S:
\* "the minimum of all active non-zero requests or 0", "the maximum of all
\* active requests", the number of non-zero requests, their bitwise or.
Aggregates(fcn, m, S, vote) ==
    CASE fcn = "min" -> /\ \A c \in S : vote[c] # 0 => m # 0 /\ m <= vote[c]
                        /\ m = 0 \/ \E c \in S : vote[c] = m
      [] fcn = "max" -> /\ \A c \in S : vote[c] <= m
                        /\ m = 0 \/ \E c \in S : vote[c] = m
      [] fcn = "binary" -> m = Cardinality({c \in S : vote[c] # 0})
      [] OTHER -> m = OrOver({vote[c] : c \in S})

\* The incremental aggregates are exact at every moment: each equals the
\* aggregate of the requests of the clients that exist, whoever issues, tries
\* and fails, cancels or is destroyed at the same time (unpa_resource.c
\* 97-239).  mem_update_fcn keeps no aggregate of REQUIRED clients.
AggExact ==
    \A t \in Types :
        IF defn.fcn = "mem" /\ t = "REQUIRED" THEN agg_state[t] = 0
        ELSE Aggregates(defn.fcn, agg_state[t], {c \in clients : type[c] = t}, Votes)

\* Whenever the resource is unlocked the driver has been told the clipped
\* aggregate of the current requests: the test that spares a driver call
\* (unpa_resource.c 41-44) never spares a needed one.
DriverUpToDate ==
    lock = None =>
        driven = [active |-> Clip(ActiveAgg(defn.fcn, agg_state)),
                  sleep |-> Clip(SleepAgg(defn.fcn, agg_state))]

\* The owner of the lock is the one client between lock and unlock.
Exclusive ==
    \A c \in Clients : pc[c] \in {"update", "commit"} <=> lock = c

\* A destroyed client's vote has been withdrawn before it is unlinked.
Withdrawn ==
    \A c \in Clients :
        /\ pc[c] = "none" <=> c \notin clients
        /\ destroying[c] => pc[c] \in {"issue", "update", "commit", "unlink"}
        /\ destroying[c] /\ pc[c] = "issue" => arg[c] = 0
        /\ destroying[c] /\ pc[c] \in {"update", "commit"} => pending_request[c] = 0
        /\ pc[c] = "unlink" => active_request[c] = 0

\* The inductive invariant.
IInv == TypeOK /\ Exclusive /\ Withdrawn /\ AggExact

\* What DriverUpToDate rests on: the states the resource remembers are the
\* ones the driver was told, and those are the clipped aggregates.
DriverCurrent ==
    /\ active_state = driven.active
    /\ sleep_state = driven.sleep
    /\ driven.active = Clip(ActiveAgg(defn.fcn, agg_state))
    /\ driven.sleep = Clip(SleepAgg(defn.fcn, agg_state))
=============================================================================

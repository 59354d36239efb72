----------------------------- MODULE UnpaProofs -----------------------------
(***************************************************************************)
(* The incremental aggregates of uNPA equal their documented reference for  *)
(* every set of clients, every request range and every interleaving.        *)
(***************************************************************************)
EXTENDS Unpa, FiniteSetTheorems, TLAPS

\* Nothing has voted yet: the initial aggregates are those of no clients.
LEMMA InitIInv == Init => IInv
<1> SUFFICES ASSUME Init PROVE IInv
  OBVIOUS
<1> USE UnpaAssumption
<1>1. TypeOK
  <2>1. 0 \in AggValues /\ 0 \in Requests
    BY DEF AggValues, Requests
  <2> QED
    BY <2>1 DEF Init, TypeOK, Types, Labels, RequestAttributes
<1>2. Exclusive /\ Withdrawn
  BY ZenonT(40) DEF Init, Exclusive, Withdrawn
<1>3. AggExact
  <2>1. \A t \in Types : {c \in clients : type[c] = t} = {} /\ agg_state[t] = 0
    BY ZenonT(40) DEF Init
  <2>2. \A vote : {vote[c] : c \in {}} = {} /\ {c \in {} : vote[c] # 0} = {}
    BY ZenonT(40)
  <2>3. OrOver({}) = 0
    BY DEF OrOver
  <2>4. Cardinality({}) = 0
    BY ZenonT(40), FS_EmptySet
  <2>5. \A fcn, vote : Aggregates(fcn, 0, {}, vote)
    BY ZenonT(40), <2>2, <2>3, <2>4 DEF Aggregates
  <2> QED
    BY ZenonT(40), <2>1, <2>5 DEF AggExact
<1> QED
  BY ZenonT(40), <1>1, <1>2, <1>3 DEF IInv

----------------------------------------------------------------------------
(* Facts about the operators.                                               *)

\* Aggregates are natural numbers.
LEMMA AggValuesNat == AggValues \subseteq Nat /\ Requests \subseteq Nat
<1>1. Cardinality(Clients) \in Nat
  BY ZenonT(40), UnpaAssumption, FS_CardinalityType
<1> QED
  BY <1>1, UnpaAssumption DEF AggValues, Requests

\* Two-bit or gives a natural number.
LEMMA OrNat == \A V : OrOver(V) \in 0 .. 3
BY DEF OrOver

\* Two aggregates combine into a natural number.
LEMMA CombineNat ==
    ASSUME NEW fcn, NEW a \in Nat, NEW b \in Nat
    PROVE  Combine(fcn, a, b) \in Nat
BY OrNat DEF Combine, MIN, MAX

\* A clipped state is one the resource can take.
LEMMA ClipRange ==
    ASSUME NEW v \in Nat
    PROVE  Clip(v) \in 0 .. ActiveMax
BY UnpaAssumption DEF Clip

\* Both clipped states of a resource are in its range.
LEMMA StatesInRange ==
    ASSUME NEW fcn, NEW agg \in [Types -> Nat]
    PROVE  /\ Clip(ActiveAgg(fcn, agg)) \in 0 .. ActiveMax
           /\ Clip(SleepAgg(fcn, agg)) \in 0 .. ActiveMax
<1>1. agg["REQUIRED"] \in Nat /\ agg["SUPPRESSIBLE"] \in Nat /\ agg["SLEEP"] \in Nat
  BY DEF Types
<1>2. SleepAgg(fcn, agg) \in Nat
  BY ZenonT(40), <1>1, CombineNat DEF SleepAgg
<1>3. ActiveAgg(fcn, agg) \in Nat
  BY ZenonT(40), <1>1, <1>2, CombineNat DEF ActiveAgg
<1> QED
  BY ZenonT(40), <1>2, <1>3, ClipRange

\* A zero vote does not count: adding to S, or removing from it, a client that
\* votes 0 leaves the aggregate as it was.
LEMMA ZeroVote ==
    ASSUME NEW fcn, NEW m \in Nat, NEW S \in SUBSET Clients, NEW T \in SUBSET Clients,
           NEW vote \in [Clients -> Nat], NEW c \in Clients, vote[c] = 0,
           T = S \cup {c} \/ T = S \ {c},
           Aggregates(fcn, m, S, vote)
    PROVE  Aggregates(fcn, m, T, vote)
<1>1. CASE fcn = "min"
  BY ZenonT(40), <1>1 DEF Aggregates
<1>2. CASE fcn = "max"
  BY <1>2 DEF Aggregates
<1>3. CASE fcn = "binary"
  <2>1. {d \in T : vote[d] # 0} = {d \in S : vote[d] # 0}
    BY ZenonT(40)
  <2> QED
    BY ZenonT(40), <1>3, <2>1 DEF Aggregates
<1>4. CASE fcn \notin {"min", "max", "binary"}
  <2> DEFINE V == {vote[d] : d \in S}
             W == {vote[d] : d \in T}
  <2>1. V \cup {0} = W \cup {0}
    BY ZenonT(40)
  <2>2. \A X : OrOver(X \cup {0}) = OrOver(X)
    BY DEF OrOver
  <2>3. OrOver(V) = OrOver(W)
    BY ZenonT(40), <2>1, <2>2
  <2> QED
    BY ZenonT(40), <1>4, <2>3 DEF Aggregates
<1> QED
  BY ZenonT(40), <1>1, <1>2, <1>3, <1>4

\* Aggregates depends on the votes of the clients in S only.
LEMMA SameVotes ==
    ASSUME NEW fcn, NEW m, NEW S, NEW vote, NEW w, \A c \in S : w[c] = vote[c],
           Aggregates(fcn, m, S, vote)
    PROVE  Aggregates(fcn, m, S, w)
<1>1. {w[c] : c \in S} = {vote[c] : c \in S}
  BY ZenonT(40)
<1>2. {c \in S : w[c] # 0} = {c \in S : vote[c] # 0}
  BY ZenonT(40)
<1> QED
  BY ZenonT(40), <1>1, <1>2 DEF Aggregates

----------------------------------------------------------------------------
(* The inductive step.                                                      *)

\* Every step keeps the types.
LEMMA NextType == IInv /\ [Next]_vars => TypeOK'
<1> SUFFICES ASSUME TypeOK, [Next]_vars PROVE TypeOK'
  BY DEF IInv
<1> USE UnpaAssumption
<1>1. 0 \in Requests
  BY DEF Requests
<1>2. CASE UNCHANGED vars
  BY ZenonT(40), <1>2 DEF vars, resourceVars, clientVars, TypeOK
<1>3. ASSUME NEW c \in Clients, NEW t \in Types, CreateClient(c, t) PROVE TypeOK'
  BY ZenonT(40), <1>1, <1>3 DEF CreateClient, Goto, TypeOK, Labels, RequestAttributes, resourceVars
<1>4. ASSUME NEW c \in Clients, NEW v \in Requests, NEW drop \in BOOLEAN, IssueRequest(c, v, drop)
      PROVE TypeOK'
  BY <1>4 DEF IssueRequest, Goto, TypeOK, Labels, RequestAttributes, resourceVars
<1>5. ASSUME NEW c \in Clients, NEW v \in Requests, NEW drop \in BOOLEAN, TryIssueRequest(c, v, drop)
      PROVE TypeOK'
  BY ZenonT(40), <1>5 DEF TryIssueRequest, Goto, TypeOK, Labels, RequestAttributes, resourceVars
<1>6. ASSUME NEW c \in Clients, DestroyClient(c) PROVE TypeOK'
  BY <1>1, <1>6 DEF DestroyClient, Goto, TypeOK, Labels, RequestAttributes, resourceVars
<1>7. ASSUME NEW c \in Clients, LockAndPend(c) PROVE TypeOK'
  BY ZenonT(40), <1>1, <1>7 DEF LockAndPend, Goto, TypeOK, Labels, resourceVars
<1>8. ASSUME NEW c \in Clients, TryLock(c) \/ TryLockFails(c) PROVE TypeOK'
  BY ZenonT(40), <1>8 DEF TryLock, TryLockFails, Goto, TypeOK, Labels, resourceVars, clientVars
<1>9. ASSUME NEW c \in Clients, UpdateResource(c) PROVE TypeOK'
  <2>1. agg_state' \in [Types -> AggValues]
    BY ZenonT(40), <1>9 DEF UpdateResource, TypeOK
  <2>2. agg_state' \in [Types -> Nat]
    BY ZenonT(40), <2>1, AggValuesNat
  <2>3. /\ Clip(ActiveAgg(defn.fcn, agg_state')) \in 0 .. ActiveMax
        /\ Clip(SleepAgg(defn.fcn, agg_state')) \in 0 .. ActiveMax
    BY ZenonT(40), <2>2, StatesInRange
  <2>4. /\ active_state' \in 0 .. ActiveMax
        /\ sleep_state' \in 0 .. ActiveMax
        /\ driven' \in [active : 0 .. ActiveMax, sleep : 0 .. ActiveMax]
    BY <1>9, <2>3 DEF UpdateResource, DriverReturns, TypeOK
  <2>5. pc' \in [Clients -> Labels]
    BY ZenonT(40), <1>9 DEF UpdateResource, Goto, TypeOK, Labels
  <2> QED
    BY ZenonT(40), <1>9, <2>1, <2>4, <2>5 DEF UpdateResource, TypeOK, clientVars
<1>10. ASSUME NEW c \in Clients, CommitRequest(c) PROVE TypeOK'
  BY ZenonT(40), <1>10 DEF CommitRequest, Goto, TypeOK, Labels, resourceVars
<1>11. ASSUME NEW c \in Clients, UnlinkClient(c) PROVE TypeOK'
  BY ZenonT(40), <1>1, <1>11 DEF UnlinkClient, Goto, TypeOK, Labels, Types, resourceVars
<1> QED
  BY ZenonT(40), <1>2, <1>3, <1>4, <1>5, <1>6, <1>7, <1>8, <1>9, <1>10, <1>11 DEF Next, ClientStep

\* The lock has one owner, and votes are withdrawn before a client goes.
LEMMA NextControl == IInv /\ [Next]_vars => Exclusive' /\ Withdrawn'
<1> SUFFICES ASSUME TypeOK, Exclusive, Withdrawn, [Next]_vars PROVE Exclusive' /\ Withdrawn'
  BY DEF IInv
<1> USE UnpaAssumption DEF Exclusive, Withdrawn, TypeOK, Labels, Goto
<1>2. CASE UNCHANGED vars
  BY ZenonT(40), <1>2 DEF vars, resourceVars, clientVars
<1>3. ASSUME NEW c \in Clients, NEW t \in Types, CreateClient(c, t) PROVE Exclusive' /\ Withdrawn'
  BY ZenonT(40), <1>3 DEF CreateClient
<1>4. ASSUME NEW c \in Clients, NEW v \in Requests, NEW drop \in BOOLEAN, IssueRequest(c, v, drop)
      PROVE Exclusive' /\ Withdrawn'
  BY ZenonT(40), <1>4 DEF IssueRequest
<1>5. ASSUME NEW c \in Clients, NEW v \in Requests, NEW drop \in BOOLEAN, TryIssueRequest(c, v, drop)
      PROVE Exclusive' /\ Withdrawn'
  BY ZenonT(40), <1>5 DEF TryIssueRequest
<1>6. ASSUME NEW c \in Clients, DestroyClient(c) PROVE Exclusive' /\ Withdrawn'
  BY <1>6 DEF DestroyClient
<1>7. ASSUME NEW c \in Clients, LockAndPend(c) PROVE Exclusive' /\ Withdrawn'
  BY ZenonT(40), <1>7 DEF LockAndPend
<1>8. ASSUME NEW c \in Clients, TryLock(c) \/ TryLockFails(c) PROVE Exclusive' /\ Withdrawn'
  BY <1>8 DEF TryLock, TryLockFails, clientVars
<1>9. ASSUME NEW c \in Clients, UpdateResource(c) PROVE Exclusive' /\ Withdrawn'
  BY ZenonT(40), <1>9 DEF UpdateResource, clientVars
<1>10. ASSUME NEW c \in Clients, CommitRequest(c) PROVE Exclusive' /\ Withdrawn'
  BY ZenonT(40), <1>10 DEF CommitRequest
<1>11. ASSUME NEW c \in Clients, UnlinkClient(c) PROVE Exclusive' /\ Withdrawn'
  BY ZenonT(40), <1>11 DEF UnlinkClient
<1> HIDE DEF Exclusive, Withdrawn, TypeOK, Labels, Goto
<1> QED
  BY ZenonT(40), <1>2, <1>3, <1>4, <1>5, <1>6, <1>7, <1>8, <1>9, <1>10, <1>11 DEF Next, ClientStep

\* The heart of the matter: if the aggregate was exact for the active requests,
\* what the update function makes of it is exact once c votes v.
LEMMA UpdateExact ==
    ASSUME TypeOK, NEW c \in Clients, NEW v \in Requests, NEW m \in AggValues,
           c \in clients, UpdateFcn(c, v, m), defn.fcn # "mem" \/ type[c] # "REQUIRED",
           Aggregates(defn.fcn, agg_state[type[c]], {d \in clients : type[d] = type[c]},
                      active_request)
    PROVE  Aggregates(defn.fcn, m, {d \in clients : type[d] = type[c]},
                      [active_request EXCEPT ![c] = v])
<1> DEFINE S == {d \in clients : type[d] = type[c]}
           w == [active_request EXCEPT ![c] = v]
           agg == agg_state[type[c]]
<1>1. /\ S \subseteq Clients /\ c \in S /\ agg \in Nat /\ m \in Nat /\ v \in Nat
      /\ active_request \in [Clients -> Nat]
      /\ w[c] = v
      /\ \A d \in S : d # c => w[d] = active_request[d]
      /\ \A d : d \in Others(c) <=> d \in S /\ d # c
  BY ZenonT(40), AggValuesNat DEF TypeOK, Others
<1>2. CASE defn.fcn = "max"
  <2>1. MaxUpdate(c, v, m)
    BY ZenonT(40), <1>2 DEF UpdateFcn
  <2>2. (\A d \in S : active_request[d] <= agg) /\ (agg = 0 \/ \E d \in S : active_request[d] = agg)
    BY ZenonT(40), <1>2 DEF Aggregates
  <2>3. CASE v > agg
    BY <1>1, <1>2, <2>1, <2>2, <2>3 DEF MaxUpdate, Aggregates
  <2>4. CASE ~(v > agg) /\ agg = active_request[c]
    BY ZenonT(40), <1>1, <1>2, <2>1, <2>2, <2>4 DEF MaxUpdate, IsMaxOf, Aggregates
  <2>5. CASE ~(v > agg) /\ agg # active_request[c]
    BY <1>1, <1>2, <2>1, <2>2, <2>5 DEF MaxUpdate, Aggregates
  <2> QED
    BY ZenonT(40), <2>3, <2>4, <2>5
<1>3. CASE defn.fcn = "min"
  <2>1. MinUpdate(c, v, m)
    BY ZenonT(40), <1>3 DEF UpdateFcn
  <2>2. /\ \A d \in S : active_request[d] # 0 => agg # 0 /\ agg <= active_request[d]
        /\ agg = 0 \/ \E d \in S : active_request[d] = agg
    BY ZenonT(40), <1>3 DEF Aggregates
  <2>3. CASE v # 0 /\ (agg = 0 \/ v < agg)
    BY <1>1, <1>3, <2>1, <2>2, <2>3 DEF MinUpdate, Aggregates
  <2>4. CASE ~(v # 0 /\ (agg = 0 \/ v < agg)) /\ agg = active_request[c]
    BY ZenonT(40), <1>1, <1>3, <2>1, <2>2, <2>4 DEF MinUpdate, IsMinOf, Aggregates
  <2>5. CASE ~(v # 0 /\ (agg = 0 \/ v < agg)) /\ agg # active_request[c]
    BY <1>1, <1>3, <2>1, <2>2, <2>5 DEF MinUpdate, Aggregates
  <2> QED
    BY ZenonT(40), <2>3, <2>4, <2>5
<1>4. CASE defn.fcn = "binary"
  <2> DEFINE A == {d \in S : active_request[d] # 0}
             B == {d \in S : w[d] # 0}
             R == {d \in S : d # c /\ active_request[d] # 0}
  <2>1. m = agg - NonZero(active_request[c]) + NonZero(v)
    BY ZenonT(40), <1>4 DEF UpdateFcn, BinaryUpdate
  <2>2. agg = Cardinality(A)
    BY ZenonT(40), <1>4 DEF Aggregates
  <2>3. IsFiniteSet(R) /\ Cardinality(R) \in Nat
    BY ZenonT(40), <1>1, UnpaAssumption, FS_Subset, FS_CardinalityType
  <2>4. c \notin R
    BY ZenonT(40)
  <2>5. Cardinality(R \cup {c}) = Cardinality(R) + 1
    BY ZenonT(40), <2>3, <2>4, FS_AddElement
  <2>6. A = (IF active_request[c] = 0 THEN R ELSE R \cup {c})
    BY ZenonT(40), <1>1
  <2>7. B = (IF v = 0 THEN R ELSE R \cup {c})
    BY ZenonT(40), <1>1
  <2>8. agg = Cardinality(R) + NonZero(active_request[c])
    <3> HIDE DEF A, B, R, S, w, agg
    <3>1. CASE active_request[c] = 0
      BY <3>1, <2>2, <2>3, <2>6 DEF NonZero
    <3>2. CASE active_request[c] # 0
      BY ZenonT(40), <3>2, <2>2, <2>3, <2>5, <2>6 DEF NonZero
    <3> QED
      BY ZenonT(40), <3>1, <3>2
  <2>9. Cardinality(B) = Cardinality(R) + NonZero(v)
    <3> HIDE DEF A, B, R, S, w, agg
    <3>1. CASE v = 0
      BY <3>1, <2>3, <2>7 DEF NonZero
    <3>2. CASE v # 0
      BY ZenonT(40), <3>2, <2>3, <2>5, <2>7 DEF NonZero
    <3> QED
      BY ZenonT(40), <3>1, <3>2
  <2>10. m = Cardinality(B)
    BY <2>1, <2>3, <2>8, <2>9 DEF NonZero
  <2> QED
    BY ZenonT(40), <1>4, <2>10 DEF Aggregates
<1>5. CASE defn.fcn \in {"or", "mem"}
  <2>1. m = OrOver({v} \cup {active_request[d] : d \in Others(c)})
    BY ZenonT(40), <1>5 DEF UpdateFcn, OrUpdate
  <2>2. {v} \cup {active_request[d] : d \in Others(c)} = {w[d] : d \in S}
    BY ZenonT(40), <1>1
  <2>3. m = OrOver({w[d] : d \in S})
    BY ZenonT(40), <2>1, <2>2
  <2> QED
    BY ZenonT(40), <1>5, <2>3 DEF Aggregates
<1>6. defn.fcn \in Fcns
  BY ZenonT(40), UnpaAssumption DEF TypeOK, DefinitionType
<1> QED
  BY ZenonT(40), <1>2, <1>3, <1>4, <1>5, <1>6 DEF Fcns

\* Every step keeps the aggregates exact.
LEMMA NextExact == IInv /\ [Next]_vars => AggExact'
<1> SUFFICES ASSUME IInv, [Next]_vars PROVE AggExact'
  OBVIOUS
<1> USE UnpaAssumption
<1>t. TypeOK /\ TypeOK' /\ Exclusive /\ Withdrawn /\ AggExact /\ Exclusive' /\ Withdrawn'
  BY ZenonT(40), NextType, NextControl DEF IInv
<1>v. Votes \in [Clients -> Nat] /\ Votes' \in [Clients -> Nat]
  BY ZenonT(40), <1>t, AggValuesNat DEF TypeOK, Votes
<1>a. agg_state \in [Types -> Nat]
  BY ZenonT(40), <1>t, AggValuesNat DEF TypeOK
<1>1. ASSUME defn' = defn, clients' = clients, type' = type, agg_state' = agg_state, Votes' = Votes
      PROVE  AggExact'
  BY ZenonT(40), <1>1, <1>t DEF AggExact
<1>2. CASE UNCHANGED vars
  BY ZenonT(40), <1>1, <1>2 DEF vars, resourceVars, clientVars, Votes
<1>3. ASSUME NEW c \in Clients, NEW t \in Types, CreateClient(c, t) PROVE AggExact'
  <2>1. c \notin clients /\ pc[c] = "none" /\ pc'[c] = "idle" /\ active_request'[c] = 0
    BY ZenonT(40), <1>3, <1>t DEF CreateClient, Withdrawn, Goto, TypeOK
  <2>2. Votes'[c] = 0 /\ \A d \in clients : Votes'[d] = Votes[d]
    BY ZenonT(40), <1>3, <1>t, <2>1 DEF CreateClient, Votes, Goto, TypeOK
  <2>3. \A s \in Types : {d \in clients' : type'[d] = s} =
            IF s = t THEN {d \in clients : type[d] = s} \cup {c} ELSE {d \in clients : type[d] = s}
    <3>1. clients' = clients \cup {c} /\ clients \subseteq Clients
      BY ZenonT(40), <1>3, <1>t DEF CreateClient, TypeOK
    <3>2. type'[c] = t /\ \A d \in clients : type'[d] = type[d]
      BY ZenonT(40), <1>3, <1>t, <2>1 DEF CreateClient, TypeOK
    <3> QED
      BY <3>1, <3>2, <2>1, Zenon
  <2>4. \A s \in Types : {d \in clients : type[d] = s} \in SUBSET Clients
    BY ZenonT(40), <1>t DEF TypeOK
  <2>5. agg_state' = agg_state /\ defn' = defn
    BY ZenonT(40), <1>3 DEF CreateClient, resourceVars
  <2>6. ASSUME NEW s \in Types, ~(defn.fcn = "mem" /\ s = "REQUIRED")
        PROVE  Aggregates(defn.fcn, agg_state[s], {d \in clients' : type'[d] = s}, Votes')
    <3>1. Aggregates(defn.fcn, agg_state[s], {d \in clients : type[d] = s}, Votes)
      BY ZenonT(40), <1>t, <2>6 DEF AggExact
    <3>2. Aggregates(defn.fcn, agg_state[s], {d \in clients : type[d] = s}, Votes')
      BY ZenonT(40), <3>1, <2>2, SameVotes
    <3>3. Aggregates(defn.fcn, agg_state[s], {d \in clients : type[d] = s} \cup {c}, Votes')
      BY ZenonT(40), <3>2, <2>2, <2>4, <1>v, <1>a, ZeroVote
    <3> QED
      BY ZenonT(40), <3>2, <3>3, <2>3
  <2> QED
    BY ZenonT(40), <2>5, <2>6, <1>t DEF AggExact
<1>4. ASSUME NEW c \in Clients, NEW v \in Requests, NEW drop \in BOOLEAN, IssueRequest(c, v, drop)
      PROVE AggExact'
  BY <1>1, <1>4, <1>t DEF IssueRequest, Goto, TypeOK, Votes, resourceVars
<1>5. ASSUME NEW c \in Clients, NEW v \in Requests, NEW drop \in BOOLEAN, TryIssueRequest(c, v, drop)
      PROVE AggExact'
  BY ZenonT(40), <1>1, <1>5, <1>t DEF TryIssueRequest, Goto, TypeOK, Votes, resourceVars
<1>6. ASSUME NEW c \in Clients, DestroyClient(c) PROVE AggExact'
  BY <1>1, <1>6, <1>t DEF DestroyClient, Goto, TypeOK, Votes, resourceVars
<1>7. ASSUME NEW c \in Clients, LockAndPend(c) PROVE AggExact'
  BY ZenonT(40), <1>1, <1>7, <1>t DEF LockAndPend, Goto, TypeOK, Votes, resourceVars
<1>8. ASSUME NEW c \in Clients, TryLock(c) \/ TryLockFails(c) PROVE AggExact'
  BY ZenonT(40), <1>1, <1>8, <1>t DEF TryLock, TryLockFails, Goto, TypeOK, Votes, resourceVars, clientVars
<1>9. ASSUME NEW c \in Clients, UpdateResource(c) PROVE AggExact'
  <2>1. pc[c] = "update" /\ lock = c /\ c \in clients
    BY ZenonT(40), <1>9, <1>t DEF UpdateResource, Exclusive, Withdrawn
  <2>2. Votes = active_request
    BY ZenonT(40), <2>1, <1>t DEF Exclusive, Votes, TypeOK
  <2>3. Votes' = [active_request EXCEPT ![c] = pending_request[c]]
    BY ZenonT(40), <1>9, <2>1, <1>t DEF UpdateResource, Exclusive, Votes, TypeOK, Goto, clientVars
  <2>4. defn' = defn /\ clients' = clients /\ type' = type
    BY ZenonT(40), <1>9 DEF UpdateResource, clientVars
  <2>5. PICK m \in AggValues : /\ UpdateFcn(c, pending_request[c], m)
                               /\ agg_state' = [agg_state EXCEPT ![type[c]] = m]
    BY ZenonT(40), <1>9 DEF UpdateResource
  <2>6. ASSUME NEW s \in Types, s # type[c], ~(defn.fcn = "mem" /\ s = "REQUIRED")
        PROVE  Aggregates(defn.fcn, agg_state'[s], {d \in clients : type[d] = s}, Votes')
    <3>1. Aggregates(defn.fcn, agg_state[s], {d \in clients : type[d] = s}, Votes)
      BY ZenonT(40), <1>t, <2>6 DEF AggExact
    <3>2. \A d \in {d \in clients : type[d] = s} : Votes'[d] = Votes[d]
      BY ZenonT(40), <2>2, <2>3, <2>6, <1>t DEF TypeOK
    <3>3. agg_state'[s] = agg_state[s]
      BY ZenonT(40), <2>5, <2>6, <1>t DEF TypeOK
    <3> QED
      BY ZenonT(40), <3>1, <3>2, <3>3, SameVotes
  <2>7. ASSUME ~(defn.fcn = "mem" /\ type[c] = "REQUIRED")
        PROVE  Aggregates(defn.fcn, agg_state'[type[c]], {d \in clients : type[d] = type[c]}, Votes')
    <3>1. type[c] \in Types /\ pending_request[c] \in Requests
      BY ZenonT(40), <1>t DEF TypeOK
    <3>2. Aggregates(defn.fcn, agg_state[type[c]], {d \in clients : type[d] = type[c]}, active_request)
      BY ZenonT(40), <1>t, <2>2, <2>7, <3>1 DEF AggExact
    <3>3. agg_state'[type[c]] = m
      BY ZenonT(40), <2>5, <3>1, <1>t DEF TypeOK
    <3> QED
      BY ZenonT(40), <1>t, <2>1, <2>3, <2>5, <2>7, <3>1, <3>2, <3>3, UpdateExact
  <2>8. ASSUME defn.fcn = "mem" PROVE agg_state'["REQUIRED"] = 0
    <3>1. agg_state["REQUIRED"] = 0
      BY ZenonT(40), <1>t, <2>8 DEF AggExact, Types
    <3>2. type[c] = "REQUIRED" => m = 0
      BY ZenonT(40), <2>5, <2>8, <3>1 DEF UpdateFcn
    <3> QED
      BY ZenonT(40), <2>5, <3>1, <3>2, <1>t DEF TypeOK, Types
  <2> QED
    BY ZenonT(40), <2>4, <2>6, <2>7, <2>8 DEF AggExact
<1>10. ASSUME NEW c \in Clients, CommitRequest(c) PROVE AggExact'
  <2>1. Votes' = Votes
    BY ZenonT(40), <1>10, <1>t DEF CommitRequest, Goto, TypeOK, Votes
  <2> QED
    BY ZenonT(40), <2>1, <1>1, <1>10 DEF CommitRequest, resourceVars
<1>11. ASSUME NEW c \in Clients, UnlinkClient(c) PROVE AggExact'
  <2>1. pc[c] = "unlink" /\ pc'[c] = "none" /\ active_request[c] = 0 /\ active_request'[c] = 0
    BY ZenonT(40), <1>11, <1>t DEF UnlinkClient, Withdrawn, Goto, TypeOK
  <2>2. Votes' = Votes /\ Votes[c] = 0
    BY ZenonT(40), <1>11, <1>t, <2>1 DEF UnlinkClient, Votes, Goto, TypeOK
  <2>3. \A s \in Types : {d \in clients' : type'[d] = s} = {d \in clients : type[d] = s} \ {c}
    BY ZenonT(40), <1>11, <1>t DEF UnlinkClient, TypeOK
  <2>4. \A s \in Types : {d \in clients : type[d] = s} \in SUBSET Clients
    BY ZenonT(40), <1>t DEF TypeOK
  <2>5. agg_state' = agg_state /\ defn' = defn
    BY ZenonT(40), <1>11 DEF UnlinkClient, resourceVars
  <2>6. ASSUME NEW s \in Types, ~(defn.fcn = "mem" /\ s = "REQUIRED")
        PROVE  Aggregates(defn.fcn, agg_state[s], {d \in clients' : type'[d] = s}, Votes')
    <3>1. Aggregates(defn.fcn, agg_state[s], {d \in clients : type[d] = s}, Votes)
      BY ZenonT(40), <1>t, <2>6 DEF AggExact
    <3>2. Aggregates(defn.fcn, agg_state[s], {d \in clients : type[d] = s} \ {c}, Votes)
      BY ZenonT(40), <3>1, <2>2, <2>4, <1>v, <1>a, ZeroVote
    <3> QED
      BY ZenonT(40), <3>2, <2>2, <2>3
  <2> QED
    BY ZenonT(40), <2>5, <2>6, <1>t DEF AggExact
<1> QED
  BY ZenonT(40), <1>2, <1>3, <1>4, <1>5, <1>6, <1>7, <1>8, <1>9, <1>10, <1>11 DEF Next, ClientStep

----------------------------------------------------------------------------
\* The invariant is inductive, so it holds of every behaviour: unpa_client.c
\* and unpa_resource.c keep it whatever the clients do and in whatever order.
THEOREM UnpaInductive == Spec => []IInv
<1>1. IInv /\ [Next]_vars => IInv'
  BY ZenonT(40), NextType, NextControl, NextExact DEF IInv
<1> QED
  BY InitIInv, <1>1, PTL DEF Spec

\* Type correctness, and no state above active_max.
THEOREM UnpaTypeCorrect == Spec => []TypeOK
<1>1. IInv => TypeOK
  BY DEF IInv
<1> QED
  BY <1>1, UnpaInductive, PTL

\* The incremental aggregates of unpa_min/max/binary_update_fcn and of the
\* or-ing update functions equal their reference at every moment.
THEOREM AggregationExact == Spec => []AggExact
<1>1. IInv => AggExact
  BY DEF IInv
<1> QED
  BY <1>1, UnpaInductive, PTL

\* With drivers that return the state they are given (all of nt_wifi_driver.c
\* but phy_driver_fcn), no needed driver call is ever spared.
THEOREM DriverCallsSuffice ==
    ASSUME \A d \in Definitions : d.driver = "plain"
    PROVE  Spec => []DriverUpToDate
<1> USE UnpaAssumption
<1>1. Init => DriverCurrent
  <2> SUFFICES ASSUME Init PROVE DriverCurrent
    OBVIOUS
  <2>1. OrOver({0, 0}) = 0
    BY DEF OrOver
  <2>2. Combine(defn.fcn, 0, 0) = 0
    BY <2>1 DEF Combine, MIN, MAX
  <2>3. SleepAgg(defn.fcn, agg_state) = 0 /\ ActiveAgg(defn.fcn, agg_state) = 0
    BY ZenonT(40), <2>2 DEF Init, SleepAgg, ActiveAgg, Types
  <2> QED
    BY <2>3 DEF Init, DriverCurrent, Clip
<1>2. IInv /\ DriverCurrent /\ [Next]_vars => DriverCurrent'
  <2> SUFFICES ASSUME TypeOK, DriverCurrent, [Next]_vars PROVE DriverCurrent'
    BY ZenonT(40) DEF IInv
  <2>1. ASSUME UNCHANGED <<defn, resourceVars, driven>> PROVE DriverCurrent'
    BY ZenonT(40), <2>1 DEF DriverCurrent, resourceVars
  <2>2. ASSUME NEW c \in Clients, UpdateResource(c) PROVE DriverCurrent'
    <3> DEFINE active == Clip(ActiveAgg(defn.fcn, agg_state'))
               sleep == Clip(SleepAgg(defn.fcn, agg_state'))
    <3>1. DriverReturns(c, active, sleep) = active
      BY ZenonT(40) DEF DriverReturns, TypeOK
    <3>2. defn' = defn /\ sleep_state' = sleep
      BY ZenonT(40), <2>2 DEF UpdateResource
    <3>3. CASE UpdateNeedsDriver(active, sleep_state, sleep)
      <4>1. active_state' = active /\ driven' = [active |-> active, sleep |-> sleep]
        BY ZenonT(40), <2>2, <3>1, <3>3 DEF UpdateResource
      <4> QED
        BY ZenonT(40), <3>2, <4>1 DEF DriverCurrent
    <3>4. CASE ~UpdateNeedsDriver(active, sleep_state, sleep)
      <4>1. active_state' = active_state /\ driven' = driven
        BY ZenonT(40), <2>2, <3>4 DEF UpdateResource
      <4>2. active = active_state /\ sleep_state = sleep
        BY ZenonT(40), <3>4 DEF UpdateNeedsDriver
      <4> QED
        BY ZenonT(40), <3>2, <4>1, <4>2 DEF DriverCurrent
    <3> QED
      BY ZenonT(40), <3>3, <3>4
  <2>3. ASSUME NEW c \in Clients, ClientStep(c), ~UpdateResource(c)
        PROVE  UNCHANGED <<defn, resourceVars, driven>>
    BY ZenonT(40), <2>3 DEF ClientStep, CreateClient, IssueRequest, TryIssueRequest, DestroyClient, LockAndPend,
                TryLock, TryLockFails, CommitRequest, UnlinkClient
  <2>4. CASE UNCHANGED vars
    BY ZenonT(40), <2>1, <2>4 DEF vars
  <2> QED
    BY ZenonT(40), <2>1, <2>2, <2>3, <2>4 DEF Next
<1>3. IInv /\ DriverCurrent => DriverUpToDate
  BY ZenonT(40) DEF IInv, TypeOK, DriverCurrent, DriverUpToDate
<1> QED
  BY <1>1, <1>2, <1>3, UnpaInductive, PTL DEF Spec
=============================================================================

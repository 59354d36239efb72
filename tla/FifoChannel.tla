---------------------------- MODULE FifoChannel ----------------------------
(***************************************************************************)
(* What one direction of a shared-memory ring promises its users: a        *)
(* bounded first-in first-out channel.  Nothing is lost, duplicated,       *)
(* reordered or altered, and at most Capacity messages are in flight.      *)
(* `accepted' is the sequence of messages the channel took                 *)
(* responsibility for, `delivered' what the other side was handed.         *)
(***************************************************************************)
EXTENDS Integers, Sequences

CONSTANTS Messages,   \* the payloads that can be exchanged
          Capacity    \* messages the channel holds at most

VARIABLES accepted, delivered

chanVars == <<accepted, delivered>>

ChanInit == accepted = << >> /\ delivered = << >>

\* The producer hands over one message; refused when the channel is full.
Accept == /\ Len(accepted) - Len(delivered) < Capacity
          /\ \E m \in Messages : accepted' = Append(accepted, m)
          /\ UNCHANGED delivered

\* The consumer is handed the oldest message not yet delivered.
Deliver == /\ Len(delivered) < Len(accepted)
           /\ delivered' = Append(delivered, accepted[Len(delivered) + 1])
           /\ UNCHANGED accepted

ChanNext == Accept \/ Deliver

ChanSpec == ChanInit /\ [][ChanNext]_chanVars
=============================================================================

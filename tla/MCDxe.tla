------------------------------- MODULE MCDxe -------------------------------
(***************************************************************************)
(* The driver, and writes of the resistive memory.  The two share nothing  *)
(* that is modelled, so the writes are made before the driver is first     *)
(* initialised: at other times they would only be repeated.                *)
(*                                                                         *)
(* The descriptor pool holds the RX ring, or the TX and the H2H ring.      *)
(***************************************************************************)
EXTENDS Dxe, RramWrite

Rings == [TX |-> 2, RX |-> 3, H2H |-> 2]
Starts == <<40, 44, 48, 64>>

MCInit == Init /\ RramInit
MCNext ==
  \/ call = NoCall /\ Next /\ UNCHANGED rramVars
  \/ halDxe = "null" /\ events = 0 /\ RramNext /\ UNCHANGED vars

MCSpec == MCInit /\ [][MCNext]_<<vars, rramVars>> /\ Fairness
=============================================================================

----------------------------- MODULE MCPower    -----------------------------
(***************************************************************************)
(* Power management for TLC: the resource aggregation of Unpa, and the      *)
(* sleep clock calibration with the callback table.  The two share no       *)
(* state, so each is explored while the other is in its initial state.      *)
(* Beside the calibration (priority 5) the flash driver (priority 10) and   *)
(* two other clients use the callback table.                                *)
(***************************************************************************)
EXTENDS MCUnpa, SleepCal

CONSTANTS flash, other, spare, FirstTemp

DistinctPriority == (flash :> 10) @@ (calib :> 5) @@ (other :> 7) @@ (spare :> 1)

\* Before calibration is first used the other clients register and deregister
\* as they like.  Once it is used they stay: no client, or all three, which
\* fills the table; with a full table there is no sleep.
Untouched == cal.prev_hbin = 0 /\ ~cal.sleep_mode_cal_enabled /\ cal.mode = "DISABLE"

OtherClients ==
    /\ Untouched /\ Client
    /\ \E cb \in Callbacks \ {calib}, mask \in {{preSleep}, AllEvents} :
          EvtCbReg(cb, mask) \/ EvtCbDereg(cb, mask)
    /\ UNCHANGED calVars

Bounded ==
    /\ Untouched => temp' = temp
    /\ ~Untouched' => \/ \A cb \in Callbacks \ {calib} : registered[cb] = {}
                      \/ /\ \A cb \in Callbacks \ {calib} : registered[cb] = AllEvents
                         /\ power = "awake" /\ power' = "awake"

\* What follows a stray deregistration, which leaves the table corrupt, or the
\* freeing of a running timer is not explored.
Corrupt == strayed \/ (cal.armed /\ ~cal.timer)

CalibrationNext ==
    \/ ~Corrupt /\ CalNext /\ Bounded
    \/ ~Corrupt /\ OtherClients
    \/ Corrupt /\ UNCHANGED <<calVars, fpciVars>>

powerVars == <<vars, calVars, fpciVars>>

PowerInit == Init /\ FpciInit /\ CalInit /\ temp = FirstTemp

PowerNext ==
    \/ /\ CalInit /\ FpciInit /\ temp = FirstTemp
       /\ Next
       /\ UNCHANGED <<calVars, fpciVars>>
    \/ /\ Init /\ defn = CHOOSE d \in Definitions : TRUE
       /\ CalibrationNext
       /\ UNCHANGED vars

PowerSpec == PowerInit /\ [][PowerNext]_powerVars
=============================================================================

----------------------------- MODULE MCWlanDrv -----------------------------
(* A small instance of the WLAN driver for TLC.                            *)
EXTENDS WlanDrv, TLC

CONSTANTS t1, t2

MCApps == {t1, t2}
MCOps == (t1 :> {"commit", "disconnect", "off", "on", "param"})
           @@ (t2 :> {"scan", "results", "profile", "plain"})
MCBufNum == [large |-> 1, small |-> 2]
\* Scaled: 1 s, 5 s, 15 s, 30 s and 600 s.
MCPeriod == [first |-> 0, inc1 |-> 1, inc2 |-> 1, inc3 |-> 2, max |-> 0, runs |-> 2]
=============================================================================

------------------------------ MODULE MCRingRx ------------------------------
(* The ring service from start to stop.  Init may fail at each of its steps *)
(* and be retried; the three rings of the code's own configuration carry    *)
(* traffic: two application threads that block, poll and time out, then     *)
(* perhaps a callback on the work queue.                                    *)
EXTENDS RingRx, TLC

CodeConfig   == <<0, 1, 2>>
OtherConfigs == {<<2, 1>>, <<1>>}
SomeConfigs  == {CodeConfig} \cup OtherConfigs

Symm == Permutations(Receivers)
=============================================================================

------------------------------- MODULE MCUnpa -------------------------------
(* Instances of Unpa for TLC.                                               *)
EXTENDS Unpa, TLC

CONSTANTS c1, c2, c3

Definition(fcn, driver, types, attributes) ==
    [fcn |-> fcn, driver |-> driver, client_types |-> types, attributes |-> attributes]

\* Every update function with a driver that returns the state it is given.  Only
\* `max' has clients of two types; the proofs in UnpaProofs cover the others.
PlainDefinitions ==
    {Definition("min", "plain", {"SLEEP"}, {}),
     Definition("or", "plain", {"SUPPRESSIBLE"}, {}),
     Definition("mem", "plain", {"REQUIRED"}, {}),
     Definition("max", "plain", {"SUPPRESSIBLE", "SLEEP"}, {}),
     Definition("binary", "plain", {"REQUIRED"},
                {"DRIVER_UNCONDITIONAL", "CLIENT_CHANGE_NOTIFY"})}

\* The "phydvr" resource of nt_wifi_driver.c.
PhyDefinition == {Definition("max", "phy", Types, {})}

Symm == Permutations(Clients)
=============================================================================

----------------------------- MODULE MCEventBus -----------------------------
(* An instance of EventBus for TLC: three modules, one of them deleted     *)
(* without its count and one registered for only one of two types.         *)
EXTENDS EventBus

CONSTANTS m1, m2, m3, stats, qos

Masks == [m \in {m1, m2, m3} |-> IF m = m2 THEN {qos} ELSE {stats, qos}]

FairSpec == BusSpec /\ BusFairness
=============================================================================

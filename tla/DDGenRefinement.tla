-------------------------- MODULE DDGenRefinement --------------------------
(***************************************************************************)
(* The loop of DDGen implements TrafficPool.  The loop steps the calls one *)
(* by one and erases in the middle of its iteration; seen from the pool,   *)
(* the whole tick happens when it begins.  While the loop is stepping, a   *)
(* call the tick has not reached therefore already counts as stepped,      *)
(* or as gone if this is the tick it times out in.                         *)
(***************************************************************************)
EXTENDS DDGen

Abstract(call) == [serial |-> call.serial, left |-> call.remaining]

Waiting == IF pc = "stepping" THEN {i \in DOMAIN calls : i >= NextToStep} ELSE {}

PoolView ==
    {Abstract(calls[i]) : i \in DOMAIN calls \ Waiting}
        \cup
    {Abstract(CallStep(calls[i], Step)) : i \in {j \in Waiting : StillHasTime(calls[j], Step)}}

Pool == INSTANCE TrafficPool WITH
            Durations <- {duration * Second : duration \in CallDurations},
            pool      <- PoolView,
            admitted  <- created,
            open      <- pc # "exited"

(* Every step of the loop is a step of the abstract pool or leaves it alone:  *)
(* in particular no erase makes a later call skip or repeat the tick.         *)
ImplementsTrafficPool == Pool!Spec
=============================================================================

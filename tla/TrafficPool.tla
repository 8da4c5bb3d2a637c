---------------------------- MODULE TrafficPool ----------------------------
(***************************************************************************)
(* What the simulation loop promises, without its vector, iterator, clock  *)
(* and signals: a pool of at most NumberOfCalls calls, admitted one at a   *)
(* time, that all tick together; a call leaves the pool in the tick that   *)
(* finds less than a step of time left to it; in the end the pool is       *)
(* dropped as it stands.                                                   *)
(***************************************************************************)
EXTENDS Integers, FiniteSets

CONSTANTS
    NumberOfCalls,    \* the capacity of the pool
    Durations,        \* the media times a call may be admitted with
    Step              \* the media time of one tick

VARIABLES
    pool,       \* the calls that are on: [serial, left]
    admitted,   \* how many calls were ever admitted
    open        \* FALSE once the pool has been dropped

vars == << pool, admitted, open >>

Init == pool = {} /\ admitted = 0 /\ open = TRUE

(* A new call takes the next serial number. *)
Admit ==
    /\ open
    /\ Cardinality(pool) < NumberOfCalls
    /\ \E left \in Durations : pool' = pool \cup {[serial |-> admitted, left |-> left]}
    /\ admitted' = admitted + 1
    /\ UNCHANGED open

(* All calls tick at once; those with less than a step left go. *)
Ticked(calls) ==
    {[serial |-> call.serial, left |-> call.left - Step] : call \in {c \in calls : c.left >= Step}}

Tick ==
    /\ open
    /\ pool' = Ticked(pool)
    /\ UNCHANGED << admitted, open >>

Drop ==
    /\ open
    /\ pool' = {}
    /\ open' = FALSE
    /\ UNCHANGED admitted

Next == Admit \/ Tick \/ Drop

Spec == Init /\ [][Next]_vars
=============================================================================

-------------------------- MODULE ConnectionQueue --------------------------
(***************************************************************************)
(* What the web server promises of the connections it accepts: they wait   *)
(* in line, at most Capacity of them, are taken in the order they came,    *)
(* each by one server, and closed by the server that took them.  One that  *)
(* finds the line full is turned away, which a server that is stopping may *)
(* do.                                                                     *)
(***************************************************************************)
EXTENDS Naturals, Sequences

CONSTANTS Servers, Capacity

VARIABLES
    arrived,    \* how many connections have come, numbered in that order
    line,       \* those that wait
    serving,    \* the connection each server has, 0 for none
    closed      \* those that were served

Init ==
    /\ arrived = 0
    /\ line = << >>
    /\ serving = [s \in Servers |-> 0]
    /\ closed = {}

Arrive ==
    /\ arrived' = arrived + 1
    /\ \/ Len(line) < Capacity /\ line' = Append(line, arrived + 1)
       \/ Len(line) = Capacity /\ UNCHANGED line
    /\ UNCHANGED << serving, closed >>

Take(s) ==
    /\ serving[s] = 0
    /\ line # << >>
    /\ serving' = [serving EXCEPT ![s] = Head(line)]
    /\ line' = Tail(line)
    /\ UNCHANGED << arrived, closed >>

Close(s) ==
    /\ serving[s] # 0
    /\ closed' = closed \cup {serving[s]}
    /\ serving' = [serving EXCEPT ![s] = 0]
    /\ UNCHANGED << arrived, line >>

Next == Arrive \/ \E s \in Servers : Take(s) \/ Close(s)

Spec == Init /\ [][Next]_<< arrived, line, serving, closed >>
=============================================================================

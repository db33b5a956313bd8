------------------------------ MODULE RoomSerial ------------------------------
(***************************************************************************)
(* What a per-room turn gate promises, whoever implements it: the turns of *)
(* one room run one at a time ("serializes concurrent turns per room",     *)
(* runtime/turn_coordinator.rs).  The gateway's in-flight set and the      *)
(* worker's room lock are each shown to implement this module.             *)
(***************************************************************************)
CONSTANTS Rooms, Turns

VARIABLE active     \* active[r]: the turns that hold room r's gate

Init == active = [r \in Rooms |-> {}]

\* A turn enters a room that no other turn occupies.
Enter(t, r) ==
    /\ active[r] = {}
    /\ active' = [active EXCEPT ![r] = {t}]

\* The turn that occupies a room leaves it.
Leave(t, r) ==
    /\ t \in active[r]
    /\ active' = [active EXCEPT ![r] = {}]

\* The process that keeps the gates stops: every turn is gone at once.
Crash == active' = [r \in Rooms |-> {}]

Next ==
    \/ \E t \in Turns, r \in Rooms : Enter(t, r) \/ Leave(t, r)
    \/ Crash

Spec == Init /\ [][Next]_active

===============================================================================

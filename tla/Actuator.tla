------------------------------ MODULE Actuator ------------------------------
(***************************************************************************)
(* What scripts/disco-relay promises the actuator, whatever becomes of the *)
(* shells that drive it: power reaches it in one direction at a time, it   *)
(* is cut before the direction changes, and it is given again only after   *)
(* the motor has stood still for a settle time (SETTLE_TIME).              *)
(***************************************************************************)

VARIABLES
  motor,   \* what the two terminals make the motor do
  rested   \* it has stood still for a settle time

Init == motor = "stop" /\ rested = FALSE

Settle == motor = "stop" /\ motor' = motor /\ rested' = TRUE

Start(d) ==
  /\ motor = "stop" /\ rested
  /\ motor' = d /\ rested' = FALSE

\* Power is cut: by the movement's end, a brake, or the mains.
Cut == motor' = "stop" /\ rested' = FALSE

Next == Settle \/ Cut \/ \E d \in {"up", "down"} : Start(d)

Spec == Init /\ [][Next]_<<motor, rested>>
=============================================================================

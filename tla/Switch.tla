-------------------------------- MODULE Switch --------------------------------
(***************************************************************************)
(* What `bella-flags toggle` promises: a switch that many calls flip, each *)
(* flip in one step and each told the state it has left the switch in.  A  *)
(* tmpfs that is full leaves the switch blank, one that cannot be written  *)
(* leaves it as it is, and the teller is none the wiser.                   *)
(***************************************************************************)
CONSTANTS Calls, Nothing

VARIABLES
  state,  \* "on", "off" or "blank"
  disk,   \* "ok", "full" or "unwritable"
  told    \* per call: the state it is being told, or Nothing

vars == <<state, disk, told>>

Init ==
  /\ state = "on" /\ disk \in {"ok", "full", "unwritable"}
  /\ told = [c \in Calls |-> Nothing]

Other(s) == IF s = "on" THEN "off" ELSE "on"

Tell(c) == told' = [told EXCEPT ![c] = Other(state)]

Flip(c)  == disk = "ok" /\ state' = Other(state) /\ Tell(c) /\ UNCHANGED disk
Blank(c) == disk = "full" /\ state' = "blank" /\ Tell(c) /\ UNCHANGED disk
Fail(c)  == disk = "unwritable" /\ Tell(c) /\ UNCHANGED <<state, disk>>

Heard(c) == told' = [told EXCEPT ![c] = Nothing] /\ UNCHANGED <<state, disk>>
FillOrFree == disk # "unwritable" /\ disk' \in {"ok", "full"} /\ UNCHANGED <<state, told>>

Next == FillOrFree \/ \E c \in Calls : Flip(c) \/ Blank(c) \/ Fail(c) \/ Heard(c)

Spec == Init /\ [][Next]_vars
=============================================================================

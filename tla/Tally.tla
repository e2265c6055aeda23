-------------------------------- MODULE Tally --------------------------------
(***************************************************************************)
(* What scripts/bella-survey promises: one count per option, a vote adds   *)
(* exactly one to the count the vote before it left, a reset zeroes all.   *)
(***************************************************************************)
EXTENDS Naturals

CONSTANTS Callers, Options

VARIABLES
  votes,  \* count of every option
  place   \* per caller: which vote for its option it cast since the reset, or 0

Init == votes = [o \in Options |-> 0] /\ place = [c \in Callers |-> 0]

Vote(c, o) ==
  /\ votes' = [votes EXCEPT ![o] = @ + 1]
  /\ place' = [place EXCEPT ![c] = votes[o] + 1]

Forget(c) == place' = [place EXCEPT ![c] = 0] /\ UNCHANGED votes

Reset ==
  /\ votes' = [o \in Options |-> 0]
  /\ place' = [c \in Callers |-> 0]

Next == Reset \/ \E c \in Callers : Forget(c) \/ \E o \in Options : Vote(c, o)

Spec == Init /\ [][Next]_<<votes, place>>
=============================================================================

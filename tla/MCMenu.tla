-------------------------------- MODULE MCMenu --------------------------------
(* Two callers: one dials everything, the other toggles.                     *)
EXTENDS Menu

CONSTANTS c1, c2

MCDials ==
  [c \in {c1, c2} |->
    IF c = c1 THEN {"1", "2", "3", "5", "7", "9", "411", "11", "001", "911", "other"}
              ELSE {"001"}]
=============================================================================

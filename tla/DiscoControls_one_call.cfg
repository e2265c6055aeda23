\* One call dialling 911, 811 and 11 over and over, no faults.
SPECIFICATION DFairSpec
CONSTANTS
  Callers = {c1}
  Pids = {p1, p2}
  NoPid = NoPid
  Faults = {}
INVARIANTS DTypeOK BrakePreempts PositionTruthful PowerIsOwned
PROPERTIES AlreadyThereAtRest CallReturns MotorRests

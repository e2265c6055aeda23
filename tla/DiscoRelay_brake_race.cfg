\* Two callers, no faults: a brake beside a start_move.
SPECIFICATION Spec
CONSTANTS
  Callers = {c1, c2}
  Pids = {p1, p2}
  NoPid = NoPid
  Faults = {}
INVARIANT BrakePreempts

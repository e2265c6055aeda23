\* Two callers, two pids, every fault.
SPECIFICATION Spec
CONSTANTS
  Callers = {c1, c2}
  Pids = {p1, p2}
  NoPid = NoPid
  Faults = {"kill9", "stop", "gpio", "reboot", "full"}
SYMMETRY Symmetry
INVARIANTS OneMover NeverBothOn IInv
PROPERTY MotorSpec

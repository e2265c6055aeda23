\* Two edits and a run for one of them; no faults.
SPECIFICATION NamedSpec
CONSTANTS
  Prompts = {p1, p2}
  MaxVersion = 2
  MaxFaults = 0
PROPERTY SuccessIsVoiced

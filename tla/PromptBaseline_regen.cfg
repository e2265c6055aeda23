\* Two prompts with three texts each, two faults.
SPECIFICATION FairSpec
CONSTANTS
  Prompts = {p1, p2}
  MaxVersion = 3
  MaxFaults = 2
INVARIANTS BTypeOK CurrentIsVoiced MtimeTells
PROPERTIES SuccessIsVoiced EditsArePublished

\* The budget and the tries are those of the dialplan.
SPECIFICATION FairSpec
CONSTANTS
  c1 = c1
  c2 = c2
  Calls = {c1, c2}
  Patient = {c1}
  Nothing = Nothing
  Faults = {"full", "unwritable", "helper"}
  Dials <- MCDials
  Budget = 70
  Highest = 3
  TriesMax = 3
INVARIANTS MTypeOK BudgetHolds GameIsFair
PROPERTIES SwitchSpec  EveryPathReturns

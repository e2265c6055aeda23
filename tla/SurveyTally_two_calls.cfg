\* Two calls, two options, scripts that may die.
SPECIFICATION FairSpec
CONSTANTS
  Callers = {c1, c2}
  Options = {o1, o2}
  Nobody = Nobody
  MaxVotes = 2
  Faults = TRUE
INVARIANTS IInv  OwnVoteCounts
PROPERTIES TallySpec VoterReturns
CHECK_DEADLOCK FALSE

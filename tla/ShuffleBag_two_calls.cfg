\* Two calls, three variants that come and go, a tmpfs that fills or is unusable,
\* programs that cannot be run.
SPECIFICATION FairSpec
CONSTANTS
  Calls = {c1, c2}
  Variants = {v1, v2, v3}
  Nothing = Nothing
  Faults = {"full", "unusable", "bare"}
INVARIANT IInv
PROPERTIES DealerSpec DistinctEntries PickEnds

\* Two overlapping callers, and two failures or resets.
SPECIFICATION Spec
CONSTANTS
  c1 = c1  c2 = c2  i1 = i1  i2 = i2  b1 = b1  b2 = b2
  Missing = Missing  Damaged = Damaged  NoId = NoId
  Caller <- MCCaller  Id <- MCId  Body <- MCBody  Rule <- MCRule
  InitialFiles <- MCInitialFiles  MaxRules = 2  MaxFaults = 2
SYMMETRY CallersAlike
INVARIANTS OneRulePerId FileMatchesRules
PROPERTIES OtherRulesKept
\* With a damaged file the router stays down.
CHECK_DEADLOCK FALSE

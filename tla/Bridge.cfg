SPECIFICATION Spec
CONSTANTS
  Owner = Owner  other = other  a1 = a1  a2 = a2  None = None
  Agents = {a1, a2}
  Profiles <- MCProfiles
  Issued <- MCIssued
  Limit = 2
  MaxOthers = 1
  Versions = {v1, v2}
  MaxCalls = 2
INVARIANTS ResolveTruthful ResolveComplete ReportsHold
CHECK_DEADLOCK FALSE

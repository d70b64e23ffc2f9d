CONSTANTS
  None = None
  Addr = {f, x}
  WebAdmin = {f}
  Found = {{f, x}}
  PDUs = {1, 2}
  Slots = {s1}
  Targets = {1, 2}
  Lists = {{1, 2}}
  MaxReqs = 2
  Units = {u}
  MaxJobs = 3
SPECIFICATION MCSpec
INVARIANTS SavedAfterApplied PlanComplete DoneApplied FlagsOwned OnePoller

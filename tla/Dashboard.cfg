CONSTANTS
  None = None
  PDUs = {1, 2}
  WithLogin = {1, 2}
  MaxActs = 4
  MaxClicks = 3
  MaxReads = 3
  NoData = NoData
SPECIFICATION MCSpec
INVARIANTS NavShown HoldsReturned FlagsHaveOwners BulkSound PageHonest
PROPERTIES CardSettles

CONSTANTS
  m = m
  s1 = s1
  s2 = s2
  Nil = Nil
  Hosts = {m}
  Slaves = {s1, s2}
  MasterOf <- OneChain
CHECK_DEADLOCK FALSE
SPECIFICATION FairSpec
INVARIANT DoneAccepted
PROPERTIES OnlyWorkingLoginStored JobReported

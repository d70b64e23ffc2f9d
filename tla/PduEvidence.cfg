\* Two PDUs: in two halls, one of them polled (deep), or both polled in one rack (wide).
CONSTANTS
  PDUs = {p, q}
  Polled = {p, q}
  OtherHall = q
  None = None
  Fresh = 1
  MaxNow = 4
  MaxPolls = 2
  MaxSweeps = 2
SPECIFICATION MCSpec
CONSTRAINT Small
INVARIANTS ConfirmedIsRecent TotalIsRecent EvidenceOfHall

CONSTANTS
  Alarms = {f}
  Dispatchers = {d}
  Users = {user}
  MaxIncidents = 2
  MaxCrashes = 1
  Nil = Nil
SPECIFICATION FairSpec
INVARIANTS ClosedByTechnician OneFreshIncident
PROPERTIES AlarmDispatched ResolvedCloses

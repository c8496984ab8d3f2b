\* One transaction, two owners in contention for the lifecycle lock, one failure and one stop.
SPECIFICATION Spec
CONSTANTS
  Owners = {o1, o2}
  Host = host
  Free = free
  MaxTransitions = 1
  MaxOutbox = 1
  MaxFaults = 1
  MaxCrashes = 1
PROPERTIES
  RestartConcludes

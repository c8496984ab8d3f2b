\* Three requests at a time, two contents under one key, two faults, one stop.
SPECIFICATION FairJobSpec
CONSTANTS
  Connections = {q1, q2, q3}
  Contents = {c1, c2}
  Nothing = nothing
  MaxFaults = 2
  MaxCrashes = 1
INVARIANTS
  JobTypeOK
  OneThread
  RunsWhatWasRecorded
PROPERTIES
  ImplementsRunOnce
  QueuedIsLaunched

\* An ordinary stream: up to two events between start and end, two progress
\* events before and two during the run, a heartbeat every second wake.
SPECIFICATION Spec
CONSTANTS
  MaxBody = 2
  MaxStages = 2
  WakesPerBeat = 2
  Probe = FALSE
INVARIANTS EventsInOrder BoundedSilence
PROPERTIES KeepsProtocol StreamSettles
CHECK_DEADLOCK FALSE

\* Two users of one session on two instances; one server that may push, one that may
\* not; one push and two turns, so that a push crosses a turn and its client's mirror
\* comes back with the next.
SPECIFICATION Spec
CONSTANTS
  Instances = {i1, i2}
  Users = {u1, u2}
  Sids = {s}
  Docs = {d1, d2}
  Servers = {map, other}
  Surfaces = {workspace}
  Activated = {map, other}
  Writable = {map}
  SurfaceWrites = TRUE
  MaxPushes = 1
  MaxTurns = 2
  None = None
SYMMETRY Symmetries
INVARIANTS TickedDocsWin
PROPERTIES PushesReachTurns 
CHECK_DEADLOCK FALSE

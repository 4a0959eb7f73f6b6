\* Two groups that admit one join a day, over two days, and one restart; a token
\* lives a whole day, the longest the bound is about (the code gives it a third).
SPECIFICATION Spec
CONSTANTS
  GroupIds = {g1, g2}
  Ips = {"a"}
  Uids = {u}
  WorkshopUser = workshop
  Caps = {1}
  Ttls = {1}
  Day = 3
  Lifetime = 3
  Capacity = 2
  Refill = 3
  LocalMode = FALSE
  MaxTime = 4
  MaxJoins = 4
  MaxRestarts = 1
  None = None
SYMMETRY CodeSymmetry
INVARIANTS LiveSessionsBounded BurstBounded
CHECK_DEADLOCK FALSE

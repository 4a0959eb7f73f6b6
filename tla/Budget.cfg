\* Two turns of one model call each, one turn of two calls and one that is not
\* gated, over two periods.
SPECIFICATION BudgetSpec
CONSTANTS
  a1 = a1
  a2 = a2
  b1 = b1
  c1 = c1
  alice = alice
  bob = bob
  Invs <- MCInvs
  Identities <- MCIdentities
  Registered = TRUE
  ConfigOf <- MCConfigOf
  IdentityOf <- MCIdentityOf
  CallsOf <- MCCallsOf
  Requests <- MCRequests
  DefaultOut = 1
  Cap = 5
  Soft = 4
  Window = 1
  PeriodLength = 2
  MaxTime = 2
  MaxExcess = 1
  Absent = Absent
SYMMETRY MCSymmetry
INVARIANT HeldWithinSpend
PROPERTY LetInUnderCap
CHECK_DEADLOCK FALSE

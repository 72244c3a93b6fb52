SPECIFICATION Spec
CONSTANTS
  a1 = a1
  Admins <- MCAdmins
  Requests <- MCRequests
  Limit = 1
  MaxBytes = 2
  MaxIds = 3
  MaxOps = 1
  MaxFaults = 1
INVARIANTS NeverOvercharged CrossingIsSeen
\* Once the bounds are spent and every request has answered, the loops only poll.
CHECK_DEADLOCK FALSE

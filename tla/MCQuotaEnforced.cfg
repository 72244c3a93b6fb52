SPECIFICATION FairSpec
CONSTANTS
  a1 = a1
  Admins <- MCAdmins
  Requests <- MCRequests
  Limit = 1
  MaxBytes = 1
  MaxIds = 3
  MaxOps = 1
  MaxFaults = 1
PROPERTIES OverIsDisabled
\* The ticker fires for ever; nothing else need happen.
CHECK_DEADLOCK FALSE

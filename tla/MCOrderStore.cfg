CONSTANTS
  Orders = {1, 2}
  MaxRecords = 3
  MaxFaults = 3
SPECIFICATION Spec
INVARIANTS OpensToAckedOrTried NeverRefused

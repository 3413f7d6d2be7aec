SPECIFICATION Spec
CONSTANTS
  alice = alice
  bob = bob
  g1 = g1
  g2 = g2
  NoKey = NoKey
  Keys <- OneKey
  Gates <- NoGate
  AdmissionCost = 2
  CostPerEvent = 0
  NamePrice = 1
  ChanCap = 2
  Failures = FALSE
  MaxInvoices = 2
  MaxSends = 4
  MaxCrashes = 0
CHECK_DEADLOCK FALSE
INVARIANT AdmittedCanWrite

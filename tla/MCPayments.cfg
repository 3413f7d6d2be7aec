SPECIFICATION FairSpec
CONSTANTS
  alice = alice
  bob = bob
  g1 = g1
  g2 = g2
  NoKey = NoKey
  Keys <- TwoKeys
  Gates <- OneGate
  AdmissionCost = 2
  CostPerEvent = 1
  NamePrice = 1
  ChanCap = 2
  Failures = TRUE
  MaxInvoices = 2
  MaxSends = 4
  MaxCrashes = 1
CHECK_DEADLOCK FALSE
INVARIANTS AdmittedHasPaid PaidOnly CreditedOnce OneOpenInvoice
PROPERTY PaidIsAdmitted

SPECIFICATION Spec
CONSTANTS
  first = first
  second = second
  sub = sub
  admin = admin
  NoGroup = NoGroup
  Lots = {first, second}
  Amount <- TwoInvoices
  Group <- SameSubscription
  Ops = {o1, o2}
  Prices = {0, 2}
  Opening = 0
  References = {admin}
  Bonus <- OneBonus
  Refunds = {1, 2}
  MaxTime = 2
  MaxAttempts = 2
SYMMETRY JobsInterchangeable
INVARIANTS
  TypeOK
  PeriodsNeverOverlap
  SpendableIsNeitherRefundedNorExpired
  EveryCreditAccounted
  RefundsDebitedOnce
PROPERTIES
  NeverSpendExpired
  ExpiredLotsNeverRefill

SPECIFICATION Spec
CONSTANTS
  first = first
  second = second
  sub = sub
  admin = admin
  NoGroup = NoGroup
  Lots = {first}
  Amount <- LargeInvoice
  Group <- OneInvoice
  Ops = {o1, o2}
  Prices = {1, 2}
  Opening = 2
  References = {}
  Bonus <- NoBonus
  Refunds = {2, 3}
  MaxTime = 1
  MaxAttempts = 1
SYMMETRY JobsInterchangeable
INVARIANTS
  PermanentPacksKeptSeparate

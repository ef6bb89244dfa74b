\* Two handlers, two keys, two amounts (one negative: the code takes any int),
\* up to three payment ids: retries after failures and conflicting requests
\* under one key all happen.  Deadlock is not checked: the bound on ids stops
\* a handler.
SPECIFICATION FairSpec
CONSTANTS
  Calls = {c1, c2}
  Keys = {k1, k2}
  Merchants = {m1}
  Amounts <- SmallAmounts
  NoCall = NoCall
  NoResult = NoResult
  MaxId = 3
INVARIANTS OneOutcomePerKey LedgerMatchesPayments
PROPERTY ChargeEnds
CHECK_DEADLOCK FALSE

\* Words of base 12: two-word integers hold up to 143, so that a total of 50
\* overflows after three ledgers. The owner funds the contract herself.
SPECIFICATION FairSpec
CONSTANTS
  Users = {alice}
  Self = Self
  None = None
  Supply = 55
  Totals = {0, 3, 50}
  Amounts = {5, 50}
  WORD = 12
  I128_MAX = 71
  INSTANCE_EXTEND_AMOUNT = 3
  INSTANCE_TTL_THRESHOLD = 2
  MIN_INSTANCE_TTL = 2
  MaxLedger = 5
INVARIANTS
  TypeOK
  VestedMatchesFormula
  ReleasedWithinSchedule
  ClaimHistoryIrrelevant
PROPERTY
  FundedScheduleCompletes

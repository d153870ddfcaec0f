\* One rule of one account; windows of two and of three ledgers, the latter longer
\* than the time to live a call leaves the entry.
SPECIFICATION Spec
CONSTANTS
  TokA = TokA
  TokB = TokB
  TokC = TokC
  Oracle = Oracle
  NoToken = NoToken
  Contracts <- MCContracts
  Malformed = Malformed
  NoPrice = NoPrice
  Accounts = {acc}
  RuleIds = {1}
  Limits = {0, 1, 2}
  Periods = {0, 2, 3}
  Params <- MCParams
  RuleTypes <- MCRuleTypes
  Contexts <- MCContexts
  Answers <- MCAnswers
  Decimals <- MCDecimals
  I128_MAX = 30
  MAX_HISTORY_ENTRIES = 3
  MAX_STALENESS_LEDGERS = 2
  LEDGER_CLOSE_TIME_SECS = 1
  MAX_TOKEN_DECIMALS = 1
  MAX_ORACLE_DECIMALS = 1
  POLICY_EXTEND_AMOUNT = 1
  POLICY_TTL_THRESHOLD = 0
  MIN_PERSISTENT_TTL = 1
  CloseTimes = {1}
  FirstLedger = 1
  MaxLedger = 5
INVARIANTS
  TypeOK
  CachedMatchesHistory
  RollingWindowBound
  LimitCheckExact
  ReopensAfterQuietPeriod
  TrueValueBounded
PROPERTIES
  NothingLiveForgotten
  KeepsBudget

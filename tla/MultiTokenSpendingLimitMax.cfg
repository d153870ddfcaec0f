\* A limit of i128::MAX, the largest the type allows, and amounts that reach it.
SPECIFICATION Spec
CONSTANTS
  TokA = TokA
  TokB = TokB
  TokC = TokC
  Oracle = Oracle
  NoToken = NoToken
  Contracts <- MCContracts
  Malformed = Malformed
  NoPrice = NoPrice
  Accounts = {acc}
  RuleIds = {1}
  Limits = {30}
  Periods = {0, 2, 3}
  Params <- MCParams
  RuleTypes <- MCRuleTypes
  Contexts <- HugeContexts
  Answers <- MCAnswers
  Decimals <- MCDecimals
  I128_MAX = 30
  MAX_HISTORY_ENTRIES = 3
  MAX_STALENESS_LEDGERS = 2
  LEDGER_CLOSE_TIME_SECS = 1
  MAX_TOKEN_DECIMALS = 1
  MAX_ORACLE_DECIMALS = 1
  POLICY_EXTEND_AMOUNT = 1
  POLICY_TTL_THRESHOLD = 0
  MIN_PERSISTENT_TTL = 1
  CloseTimes = {1}
  FirstLedger = 1
  MaxLedger = 5
INVARIANT
  CachedAlwaysMatches

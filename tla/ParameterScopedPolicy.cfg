\* One rule carries the conditions, in transactions with and without the
\* account's authorization; the entry can be archived and restored.
SPECIFICATION Spec
CONSTANTS
  SmartAccounts = {alice}
  RuleIds = {1}
  Signers = {key1}
  Values <- MCValues
  Params <- MCParams
  Contexts <- MCContexts
  MAX_FNS = 2
  MAX_CONDITIONS_PER_FN = 2
  EXTEND_AMOUNT = 3
  TTL_THRESHOLD = 2
  MIN_PERSISTENT_TTL = 2
  LedgerStep = 1
  MaxLedger = 4
INVARIANTS TypeOK KeptAlive
PROPERTY KeepsPromise

\* Two accounts, two functions, lists up to one entry over the limit, and
\* enough ledgers for an entry to be archived twice.
SPECIFICATION Spec
CONSTANTS
  SmartAccounts = {alice, bob}
  RuleIds = {1}
  Signers = {session_key}
  FnNames = {claim, withdraw}
  MAX_ALLOWED_FNS = 2
  MaxListLen = 3
  EXTEND_AMOUNT = 3
  TTL_THRESHOLD = 2
  MIN_PERSISTENT_TTL = 2
  LedgerStep = 1
  MaxLedger = 5
INVARIANTS TypeOK KeptAlive
PROPERTY KeepsPromise

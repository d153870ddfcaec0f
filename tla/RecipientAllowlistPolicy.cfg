\* Lists up to one recipient over the limit; enough ledgers for an entry to
\* be archived and restored.
SPECIFICATION Spec
CONSTANTS
  carol = carol
  dave = dave
  SmartAccounts = {alice, bob}
  RuleIds = {1}
  Signers = {key1}
  Addresses = {carol, dave}
  Contexts <- MCContexts
  MAX_ALLOWED_RECIPIENTS = 2
  MaxListLen = 3
  EXTEND_AMOUNT = 3
  TTL_THRESHOLD = 2
  MIN_PERSISTENT_TTL = 2
  LedgerStep = 1
  MaxLedger = 4
INVARIANT TypeOK
PROPERTY KeepsPromise

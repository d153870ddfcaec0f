\* Two owners, one session key and one target; an account that gets two more
\* rules, fills its registry with two contracts, is refused a third and has its
\* entries archived.
SPECIFICATION Spec
CONSTANTS
  Account = Account
  ThresholdPolicy = ThresholdPolicy
  SessionContract = SessionContract
  Owners = {olga, omar}
  SessionKeys = {sally}
  InitOwners = {olga, omar}
  InitThreshold = 1
  Targets = {dapp}
  FnNames = {claim, withdraw}
  WasmHashes = {w1}
  Salts = {salt1, salt2, salt3}
  None = None
  U32_MAX = 2
  MAX_ALLOWED_FNS = 1
  MaxListLen = 1
  EXTEND_AMOUNT = 2
  TTL_THRESHOLD = 1
  SMART_ACCOUNT_EXTEND_AMOUNT = 1
  SMART_ACCOUNT_TTL_THRESHOLD = 0
  MIN_PERSISTENT_TTL = 1
  MaxRules = 3
  DirectIds = {1}
  LedgerStep = 2
  MaxLedger = 3
VIEW MCView
SYMMETRY MCSymmetry
INVARIANTS TypeOK RegistryFaithful
PROPERTIES NoEscalation SessionConfined LockoutPermanent RulesKeepPromise
CHECK_DEADLOCK FALSE

SPECIFICATION Spec
CONSTANTS
  Params <- MCParams
  Requests <- MCRequests
  Deployed <- MCDeployed
  Configs <- MCConfigs
  None = None
  ED25519_LEN = 1
  P256_LEN = 2
  P256_PREFIX = 4
  MAX_SIGNERS = 3
  TTL_EXTEND = 1
  TTL_THRESHOLD = 0
  MIN_PERSISTENT_TTL = 1
  MaxLedger = 3
INVARIANTS
  TypeOK
  AddressIsIdentity
  CommittedConfiguration
  OneEventPerAccount
PROPERTIES
  EveryRequestAnswered

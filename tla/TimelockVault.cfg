\* Entries live 4 ledgers after a refresh that had at most 2 left; locks of
\* up to 7 ledgers outlive them.
SPECIFICATION FairSpec
CONSTANTS
  Users = {alice, bob}
  Vault = Vault
  None = None
  Supply = 2
  Amounts = {0, 1, 2}
  EXTEND_AMOUNT = 4
  TTL_THRESHOLD = 2
  MIN_PERSISTENT_TTL = 2
  MaxLedger = 7
INVARIANTS
  TypeOK
  KeeperSuffices
PROPERTIES
  LockHonoured
  FundsReachable

\* The keeper interval the source documents; the same instance as TimelockVault.cfg.
SPECIFICATION Spec
CONSTANTS
  Users = {alice, bob}
  Vault = Vault
  None = None
  Supply = 2
  Amounts = {0, 1, 2}
  EXTEND_AMOUNT = 4
  TTL_THRESHOLD = 2
  MIN_PERSISTENT_TTL = 2
  MaxLedger = 7
INVARIANT
  DocumentedKeeperSuffices

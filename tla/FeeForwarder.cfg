\* Two requests of two users, two fee tokens, approvals that expire, target
\* calls that move tokens, and one change of the roles.
SPECIFICATION Spec
CONSTANTS
  alice = alice
  bob = bob
  usdc = usdc
  eurc = eurc
  Users = {alice, bob}
  Tokens = {usdc, eurc}
  Operators = {manager, relayer}
  Manager = manager
  Executors = {relayer}
  Forwarder = Forwarder
  Outside = Outside
  Nonces = {1, 2}
  Requests <- MCRequests
  Fees <- MCFees
  Expirations = {2}
  PreApprovals = {2}
  Funds = 5
  MaxGranted = 1
  MaxRoleChanges = 1
  MaxLedger = 3
INVARIANTS TypeOK ChargedAsSigned AllowanceBounded WithinApprovals
CHECK_DEADLOCK FALSE

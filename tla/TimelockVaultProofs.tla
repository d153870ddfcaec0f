------------------------ MODULE TimelockVaultProofs ------------------------
(***************************************************************************)
(* Theorems about the timelock vault, for every time to live, every set of *)
(* users and every lock.                                                   *)
(***************************************************************************)
EXTENDS TimelockVault, TLAPS

(* A token transfer that the token admits keeps every balance a natural    *)
(* number, and takes tokens only from the sender.                          *)
LEMMA TransferLemma ==
  ASSUME balance \in [Addresses -> Nat],
         NEW from \in Addresses, NEW to \in Addresses, NEW amount \in Int,
         CanTransfer(from, amount)
  PROVE  /\ Transferred(from, to, amount) \in [Addresses -> Nat]
         /\ \A a \in Addresses \ {from} :
              Transferred(from, to, amount)[a] >= balance[a]
<1>1. amount \in Nat /\ balance[from] >= amount
  BY DEF CanTransfer
<1>2. ASSUME NEW a \in Addresses
      PROVE  balance[a] - (IF a = from THEN amount ELSE 0)
                        + (IF a = to THEN amount ELSE 0) \in Nat
  BY <1>1, <1>2
<1>3. QED
  BY <1>1, <1>2 DEF Transferred

(* extend_state_ttl leaves both configuration entries with more than       *)
(* TTL_THRESHOLD ledgers to live, whatever they had before.                *)
LEMMA ExtendLemma ==
  ASSUME ledger \in Int, NEW live \in [Entries -> Int]
  PROVE  /\ ExtendedStateTtl(live) \in [Entries -> Int]
         /\ \A entry \in StateEntries :
              ExtendedStateTtl(live)[entry] >= ledger + TTL_THRESHOLD + 1
<1>1. ASSUME NEW entry \in Entries
      PROVE  LET until == ExtendTtl(live[entry], ledger, TTL_THRESHOLD, EXTEND_AMOUNT)
             IN  until \in Int /\ until >= ledger + TTL_THRESHOLD + 1
  BY <1>1, VaultAssumption DEF ExtendTtl
<1>2. QED
  BY <1>1 DEF ExtendedStateTtl, Entries

-----------------------------------------------------------------------------
LEMMA TypeInit == Init => TypeOK
  BY VaultAssumption DEF Init, TypeOK, Deployed, Entries, Addresses

LEMMA TypeStep == TypeOK /\ [Next]_vars => TypeOK'
<1> SUFFICES ASSUME TypeOK, [Next]_vars PROVE TypeOK'
  OBVIOUS
<1> USE VaultAssumption
<1>1. ASSUME NEW u \in Users, NEW l \in 0..MaxLedger, Construct(u, l)
      PROVE  TypeOK'
  <2>1. [entry \in Entries |-> FreshLiveUntil(ledger, MIN_PERSISTENT_TTL)]
          \in [Entries -> Int]
    BY DEF TypeOK, FreshLiveUntil
  <2>2. live_until' \in [Entries -> Int]
    BY <1>1, <2>1, ExtendLemma DEF Construct, TypeOK
  <2>3. QED
    BY <1>1, <2>2 DEF Construct, TypeOK, Deployed, InFuture, Refresh
<1>2. CASE BumpTtl
  <2>1. live_until' \in [Entries -> Int]
    BY <1>2, ExtendLemma DEF BumpTtl, TypeOK
  <2>2. QED
    BY <1>2, <2>1 DEF BumpTtl, TypeOK, Deployed, Refresh
<1>3. ASSUME NEW u \in Users, NEW amount \in Amounts, DirectTransfer(u, amount)
      PROVE  TypeOK'
  <2>1. balance' \in [Addresses -> Nat]
    BY <1>3, TransferLemma DEF DirectTransfer, TypeOK, Addresses
  <2>2. QED
    BY <1>3, <2>1 DEF DirectTransfer, TypeOK, Deployed
<1>4. ASSUME NEW u \in Users, NEW amount \in Amounts,
             NEW authorized \in SUBSET Users, Deposit(u, amount, authorized)
      PROVE  TypeOK'
  <2>1. balance' \in [Addresses -> Nat]
    BY <1>4, TransferLemma DEF Deposit, TypeOK, Addresses
  <2>2. live_until' \in [Entries -> Int]
    BY <1>4, ExtendLemma DEF Deposit, TypeOK
  <2>3. QED
    BY <1>4, <2>1, <2>2 DEF Deposit, TypeOK, Deployed, Refresh
<1>5. ASSUME NEW to \in Addresses, NEW amount \in Amounts,
             NEW authorized \in SUBSET Users, Withdraw(to, amount, authorized)
      PROVE  TypeOK'
  <2>1. balance' \in [Addresses -> Nat]
    BY <1>5, TransferLemma DEF Withdraw, TypeOK, Addresses
  <2>2. live_until' \in [Entries -> Int]
    BY <1>5, ExtendLemma DEF Withdraw, TypeOK
  <2>3. QED
    BY <1>5, <2>1, <2>2 DEF Withdraw, TypeOK, Deployed, Refresh
<1>6. ASSUME NEW entries \in SUBSET Entries, Restore(entries)
      PROVE  TypeOK'
  BY <1>6 DEF Restore, TypeOK, Deployed, FreshLiveUntil
<1>7. CASE ExtendInstance
  BY <1>7 DEF ExtendInstance, TypeOK, Deployed, ExtendTtl, Entries
<1>8. CASE CloseLedger
  BY <1>8 DEF CloseLedger, TypeOK, Deployed
<1>9. CASE UNCHANGED vars
  BY <1>9 DEF vars, TypeOK, Deployed
<1>10. QED
  BY <1>1, <1>2, <1>3, <1>4, <1>5, <1>6, <1>7, <1>8, <1>9 DEF Next

(* Balances stay natural numbers and a deployed vault has a positive       *)
(* unlock ledger, through every constructor, bump_ttl, deposit and         *)
(* withdraw call.                                                          *)
THEOREM TypeCorrect == Spec => []TypeOK
<1>1. QED
  BY TypeInit, TypeStep, PTL DEF Spec

-----------------------------------------------------------------------------
(* Why a keeper is enough.  The last refresh left more than TTL_THRESHOLD  *)
(* ledgers, and it is at most longest_gap ledgers ago; restoring does not  *)
(* lower a live entry's time to live.                                      *)
FreshEnough ==
  Deployed =>
    /\ ledger - refreshed <= longest_gap
    /\ longest_gap <= TTL_THRESHOLD + 1
         => \A entry \in StateEntries :
              live_until[entry] >= refreshed + TTL_THRESHOLD + 1

LEMMA FreshInit == Init => FreshEnough
  BY DEF Init, FreshEnough, Deployed

LEMMA FreshStep == TypeOK /\ FreshEnough /\ [Next]_vars => FreshEnough'
<1> SUFFICES ASSUME TypeOK, FreshEnough, [Next]_vars PROVE FreshEnough'
  OBVIOUS
<1> USE VaultAssumption
<1>0. /\ ledger \in Int /\ refreshed \in Int /\ longest_gap \in Int
      /\ longest_gap >= 0
      /\ live_until \in [Entries -> Int]
      /\ StateEntries \subseteq Entries
  BY DEF TypeOK, Entries
<1>1. ASSUME NEW u \in Users, NEW l \in 0..MaxLedger, Construct(u, l)
      PROVE  FreshEnough'
  <2>1. [entry \in Entries |-> FreshLiveUntil(ledger, MIN_PERSISTENT_TTL)]
          \in [Entries -> Int]
    BY <1>0 DEF FreshLiveUntil
  <2>2. \A entry \in StateEntries : live_until'[entry] >= ledger + TTL_THRESHOLD + 1
    BY <1>0, <1>1, <2>1, ExtendLemma DEF Construct
  <2>3. QED
    BY <1>0, <1>1, <2>2 DEF Construct, FreshEnough, Refresh
<1>2. ASSUME \/ BumpTtl
             \/ \E u \in Users, amount \in Amounts, authorized \in SUBSET Users :
                  Deposit(u, amount, authorized)
             \/ \E to \in Addresses, amount \in Amounts, authorized \in SUBSET Users :
                  Withdraw(to, amount, authorized)
      PROVE  FreshEnough'
  <2>1. /\ live_until' = ExtendedStateTtl(live_until)
        /\ refreshed' = ledger
        /\ UNCHANGED <<ledger, longest_gap>>
    BY <1>2 DEF BumpTtl, Deposit, Withdraw, Refresh
  <2>2. \A entry \in StateEntries : live_until'[entry] >= ledger + TTL_THRESHOLD + 1
    BY <1>0, <2>1, ExtendLemma
  <2>3. QED
    BY <1>0, <2>1, <2>2 DEF FreshEnough
<1>3. ASSUME NEW u \in Users, NEW amount \in Amounts, DirectTransfer(u, amount)
      PROVE  FreshEnough'
  BY <1>3 DEF DirectTransfer, FreshEnough, Deployed
<1>4. ASSUME NEW entries \in SUBSET Entries, Restore(entries)
      PROVE  FreshEnough'
  <2>1. CASE longest_gap <= TTL_THRESHOLD + 1
    <3>1. \A entry \in StateEntries : Live(entry)
      BY <1>0, <1>4, <2>1 DEF FreshEnough, Restore, Live, IsLive
    <3>2. \A entry \in StateEntries : live_until'[entry] = live_until[entry]
      BY <1>0, <1>4, <3>1 DEF Restore, Archived
    <3>3. QED
      BY <1>0, <1>4, <3>2 DEF FreshEnough, Restore, Deployed
  <2>2. CASE ~(longest_gap <= TTL_THRESHOLD + 1)
    BY <1>4, <2>2 DEF FreshEnough, Restore, Deployed
  <2>3. QED
    BY <2>1, <2>2
<1>5. CASE ExtendInstance
  <2>1. \A entry \in StateEntries : live_until'[entry] = live_until[entry]
    BY <1>0, <1>5 DEF ExtendInstance, StateEntries
  <2>2. QED
    BY <1>5, <2>1 DEF ExtendInstance, FreshEnough, Deployed
<1>6. CASE CloseLedger
  BY <1>0, <1>6 DEF CloseLedger, FreshEnough, Deployed
<1>7. CASE UNCHANGED vars
  BY <1>7 DEF vars, FreshEnough, Deployed
<1>8. QED
  BY <1>1, <1>2, <1>3, <1>4, <1>5, <1>6, <1>7 DEF Next

(* A refreshing call at least once every TTL_THRESHOLD + 1 ledgers keeps   *)
(* Owner and UnlockLedger from ever being archived.                        *)
THEOREM KeeperCorrect == Spec => []KeeperSuffices
<1>1. TypeOK /\ FreshEnough => KeeperSuffices
  BY VaultAssumption
  DEF TypeOK, FreshEnough, KeeperSuffices, Live, IsLive, Entries
<1>2. QED
  BY <1>1, TypeInit, TypeStep, FreshInit, FreshStep, PTL DEF Spec

-----------------------------------------------------------------------------
(* The obligation of LockHonoured for one step.                            *)
LockStep ==
  Deployed /\ ledger < unlock_ledger =>
    /\ balance'[Vault] >= balance[Vault]
    /\ unlock_ledger' = unlock_ledger
    /\ owner' = owner

LEMMA LockStepLemma == TypeOK /\ [Next]_vars => LockStep
<1> SUFFICES ASSUME TypeOK, [Next]_vars, Deployed, ledger < unlock_ledger
             PROVE  /\ balance'[Vault] >= balance[Vault]
                    /\ unlock_ledger' = unlock_ledger
                    /\ owner' = owner
  BY DEF LockStep
<1> USE VaultAssumption
<1>0. /\ balance \in [Addresses -> Nat]
      /\ balance[Vault] \in Nat
      /\ Vault \in Addresses
      /\ ledger \in Int /\ unlock_ledger \in Int
  BY DEF TypeOK, Addresses
<1>1. ASSUME NEW u \in Users, NEW amount \in Amounts,
             \/ DirectTransfer(u, amount)
             \/ \E authorized \in SUBSET Users : Deposit(u, amount, authorized)
      PROVE  balance'[Vault] >= balance[Vault] /\ UNCHANGED <<unlock_ledger, owner>>
  <2>1. CanTransfer(u, amount) /\ balance' = Transferred(u, Vault, amount)
    BY <1>1 DEF DirectTransfer, Deposit
  <2>2. u \in Addresses /\ Vault \in Addresses \ {u} /\ amount \in Int
    BY DEF Addresses
  <2>3. balance'[Vault] >= balance[Vault]
    BY <1>0, <2>1, <2>2, TransferLemma
  <2>4. QED
    BY <1>1, <2>3 DEF DirectTransfer, Deposit
<1>2. ASSUME NEW to \in Addresses, NEW amount \in Amounts,
             NEW authorized \in SUBSET Users, Withdraw(to, amount, authorized)
      PROVE  FALSE
  BY <1>0, <1>2 DEF Withdraw, Unlocked
<1>3. ASSUME NEW u \in Users, NEW l \in 0..MaxLedger, Construct(u, l)
      PROVE  FALSE
  BY <1>3 DEF Construct
<1>4. ASSUME \/ BumpTtl
             \/ \E entries \in SUBSET Entries : Restore(entries)
             \/ ExtendInstance
             \/ CloseLedger
             \/ UNCHANGED vars
      PROVE  UNCHANGED <<balance, unlock_ledger, owner>>
  BY <1>4 DEF BumpTtl, Restore, ExtendInstance, CloseLedger, vars
<1>5. QED
  BY <1>0, <1>1, <1>2, <1>3, <1>4 DEF Next

(* The time lock, for every interleaving of calls and whoever signs them:  *)
(* before unlock_ledger no step takes tokens out of the vault, moves the   *)
(* lock or changes the owner.                                              *)
THEOREM LockCorrect == Spec => LockHonoured
<1>1. TypeOK /\ [Next]_vars => LockStep
  BY LockStepLemma
<1>2. QED
  BY <1>1, TypeInit, TypeStep, PTL DEF Spec, LockHonoured, LockStep
=============================================================================

---------------------------- MODULE PolicyProofs ----------------------------
(***************************************************************************)
(* Theorems about the three allowlisting policies, for every set of        *)
(* accounts, rules, functions, recipients and conditions, every limit on   *)
(* a list and every time to live.  They keep their data in the same way    *)
(* (PolicyStore), so what its operations preserve is proved once.          *)
(***************************************************************************)
EXTENDS SessionPolicy, TLAPS

CONSTANTS
  CallContexts,            \* contexts of the recipient and the scoped policy
  Addresses, MAX_ALLOWED_RECIPIENTS,
  Values, Params, MAX_FNS, MAX_CONDITIONS_PER_FN

Recipient == INSTANCE RecipientAllowlistPolicy WITH Contexts <- CallContexts

Scoped == INSTANCE ParameterScopedPolicy WITH Contexts <- CallContexts

-----------------------------------------------------------------------------
(* The store.  `Data` is what a policy stores, `Calls` what may pass.      *)

StoreInv(Data, Calls) == StoreTypeOK(Data, Calls) /\ KeptAlive

LEMMA StoreInitLemma ==
  ASSUME NEW Data, NEW Calls, StoreInit
  PROVE  StoreInv(Data, Calls)
  BY StoreAssumption DEF StoreInit, StoreInv, StoreTypeOK, KeptAlive

LEMMA StutterLemma ==
  ASSUME NEW Data, NEW Calls, StoreInv(Data, Calls), UNCHANGED storeVars
  PROVE  StoreInv(Data, Calls)'
  BY DEF StoreInv, StoreTypeOK, KeptAlive, storeVars

LEMMA CloseLemma ==
  ASSUME NEW Data, NEW Calls, StoreInv(Data, Calls), CloseLedger,
         authorized' \subseteq SmartAccounts
  PROVE  StoreInv(Data, Calls)'
<1>1. ledger' \in 1..MaxLedger /\ ledger' >= ledger
  BY StoreAssumption DEF CloseLedger, StoreInv, StoreTypeOK
<1>2. StoreTypeOK(Data, Calls)'
  BY <1>1 DEF CloseLedger, StoreInv, StoreTypeOK
<1>3. KeptAlive'
  BY DEF CloseLedger, StoreInv, KeptAlive
<1>4. QED
  BY <1>2, <1>3 DEF StoreInv

(* A new entry counts as unread, a replaced one keeps its lifetime.        *)
LEMMA PutLemma ==
  ASSUME NEW Data, NEW Calls, StoreInv(Data, Calls), NEW key \in Keys,
         NEW data \in Data, Put(key, data), ledger' = ledger,
         authorized' \subseteq SmartAccounts
  PROVE  StoreInv(Data, Calls)'
<1> USE StoreAssumption
<1>1. FreshLiveUntil(ledger, MIN_PERSISTENT_TTL) \in Nat
  BY DEF FreshLiveUntil, StoreInv, StoreTypeOK
<1>2. passed' \in [Keys -> SUBSET Calls]
  BY DEF Put, StoreInv, StoreTypeOK
<1>3. /\ DOMAIN store' = DOMAIN store \cup {key}
      /\ DOMAIN live_until' = DOMAIN store \cup {key}
      /\ DOMAIN last_read' = DOMAIN store \cup {key}
  BY DEF Put
<1>4. ASSUME NEW k \in DOMAIN store'
      PROVE  store'[k] \in Data /\ live_until'[k] \in Nat /\ last_read'[k] \in 0..ledger
  BY <1>1, <1>3 DEF Put, Has, StoreInv, StoreTypeOK
<1>5. StoreTypeOK(Data, Calls)'
  BY <1>2, <1>3, <1>4 DEF StoreInv, StoreTypeOK
<1>6. KeptAlive'
  BY DEF Put, Has, StoreInv, KeptAlive
<1>7. QED
  BY <1>5, <1>6 DEF StoreInv

LEMMA RemoveLemma ==
  ASSUME NEW Data, NEW Calls, StoreInv(Data, Calls), NEW key \in Keys,
         Remove(key), ledger' = ledger, authorized' \subseteq SmartAccounts
  PROVE  StoreInv(Data, Calls)'
<1>1. passed' \in [Keys -> SUBSET Calls]
  BY DEF Remove, StoreInv, StoreTypeOK
<1>2. StoreTypeOK(Data, Calls)'
  BY <1>1 DEF Remove, StoreInv, StoreTypeOK
<1>3. KeptAlive'
  BY DEF Remove, StoreInv, KeptAlive
<1>4. QED
  BY <1>2, <1>3 DEF StoreInv

(* An entry that is read stays in place, and lives longer than             *)
(* TTL_THRESHOLD ledgers from now.                                         *)
LEMMA ReadLemma ==
  ASSUME NEW Data, NEW Calls, StoreInv(Data, Calls), NEW key \in DOMAIN store,
         Read(key), ledger' = ledger, authorized' \subseteq SmartAccounts,
         passed' \in [Keys -> SUBSET Calls]
  PROVE  StoreInv(Data, Calls)'
<1> USE StoreAssumption
<1>1. /\ DOMAIN live_until = DOMAIN store /\ DOMAIN last_read = DOMAIN store
      /\ live_until[key] \in Nat /\ ledger \in Nat
  BY DEF StoreInv, StoreTypeOK
<1>2. LET until == ExtendTtl(live_until[key], ledger, TTL_THRESHOLD, EXTEND_AMOUNT)
      IN  until \in Nat /\ until > ledger + TTL_THRESHOLD
  BY <1>1 DEF ExtendTtl
<1>3. /\ store' = store
      /\ DOMAIN live_until' = DOMAIN store /\ DOMAIN last_read' = DOMAIN store
      /\ live_until'[key] \in Nat /\ live_until'[key] > ledger + TTL_THRESHOLD
      /\ last_read'[key] = ledger
      /\ \A k \in DOMAIN store \ {key} :
           live_until'[k] = live_until[k] /\ last_read'[k] = last_read[k]
  BY <1>1, <1>2 DEF Read
<1>4. StoreTypeOK(Data, Calls)'
  BY <1>1, <1>3 DEF StoreInv, StoreTypeOK
<1>5. KeptAlive'
  BY <1>3 DEF StoreInv, KeptAlive
<1>6. QED
  BY <1>4, <1>5 DEF StoreInv

(* The fresh lifetime of an archived entry ends after the old one did.     *)
LEMMA RestoreLemma ==
  ASSUME NEW Data, NEW Calls, StoreInv(Data, Calls), NEW key \in Keys,
         Restore(key), ledger' = ledger, authorized' \subseteq SmartAccounts
  PROVE  StoreInv(Data, Calls)'
<1> USE StoreAssumption
<1>1. /\ key \in DOMAIN store /\ DOMAIN live_until = DOMAIN store
      /\ live_until[key] \in Nat /\ ledger \in Nat /\ live_until[key] < ledger
  BY DEF StoreInv, StoreTypeOK, Restore, Accessible, Has, IsLive
<1>2. /\ DOMAIN live_until' = DOMAIN store
      /\ live_until'[key] \in Nat /\ live_until'[key] >= live_until[key]
      /\ \A k \in DOMAIN store \ {key} : live_until'[k] = live_until[k]
  BY <1>1 DEF Restore, FreshLiveUntil
<1>3. store' = store /\ passed' = passed /\ last_read' = last_read
  BY DEF Restore
<1>4. StoreTypeOK(Data, Calls)'
  BY <1>2, <1>3 DEF StoreInv, StoreTypeOK
<1>5. ASSUME NEW k \in DOMAIN store, last_read[k] > 0
      PROVE  live_until'[k] > last_read[k] + TTL_THRESHOLD
  <2>1. /\ live_until'[k] \in Nat /\ live_until[k] \in Nat /\ last_read[k] \in Nat
        /\ live_until'[k] >= live_until[k]
    BY <1>2 DEF StoreInv, StoreTypeOK
  <2>2. QED
    BY <1>5, <2>1 DEF StoreInv, KeptAlive
<1>6. KeptAlive'
  BY <1>3, <1>5 DEF KeptAlive
<1>7. QED
  BY <1>4, <1>6 DEF StoreInv

-----------------------------------------------------------------------------
(* The session policy.                                                     *)

Accepted == {fns \in FnLists : Len(fns) \in 1..MAX_ALLOWED_FNS}
Listable == {CallOf(fn_name) : fn_name \in FnNames}

SessionInv == StoreInv(Accepted, Listable)

LEMMA SessionStep == SessionInv /\ [Next]_vars => SessionInv'
<1> SUFFICES ASSUME SessionInv, [Next]_vars PROVE SessionInv'
  OBVIOUS
<1> USE DEF SessionInv
<1>1. CASE UNCHANGED vars
  BY <1>1, StutterLemma DEF vars
<1>2. CASE Next
  <2>1. authorized' \subseteq SmartAccounts
    BY <1>2 DEF Next
  <2>2. CASE CloseLedger
    BY <2>1, <2>2, CloseLemma
  <2>3. ASSUME NEW key \in Keys, NEW context_type \in ContextTypes,
               NEW allowed_fns \in FnLists, install(context_type, allowed_fns, key)
        PROVE  SessionInv'
    <3>1. allowed_fns \in Accepted /\ Put(key, allowed_fns) /\ ledger' = ledger
      BY <2>3 DEF install, Accepted
    <3>2. QED
      BY <2>1, <3>1, PutLemma
  <2>4. ASSUME NEW key \in Keys, NEW context \in Contexts,
               NEW authenticated_signers \in SUBSET Signers,
               enforce(context, authenticated_signers, key)
        PROVE  SessionInv'
    <3>1. key \in DOMAIN store /\ Read(key) /\ ledger' = ledger
      BY <2>4 DEF enforce, get_allowed_fns, Has
    <3>2. context \in Listable
      BY <2>4 DEF enforce, Contexts, Listable, CallOf
    <3>3. passed' \in [Keys -> SUBSET Listable]
      BY <2>4, <3>2 DEF enforce, StoreInv, StoreTypeOK
    <3>4. QED
      BY <2>1, <3>1, <3>3, ReadLemma
  <2>5. ASSUME NEW key \in Keys, uninstall(key) PROVE SessionInv'
    BY <2>1, <2>5, RemoveLemma DEF uninstall
  <2>6. ASSUME NEW key \in Keys, get_allowed_fns(key), UNCHANGED <<passed, ledger>>
        PROVE  SessionInv'
    <3>1. key \in DOMAIN store /\ Read(key) /\ passed' \in [Keys -> SUBSET Listable]
      BY <2>6 DEF get_allowed_fns, Has, StoreInv, StoreTypeOK
    <3>2. QED
      BY <2>1, <2>6, <3>1, ReadLemma
  <2>7. ASSUME NEW key \in Keys, Restore(key), UNCHANGED ledger PROVE SessionInv'
    BY <2>1, <2>7, RestoreLemma
  <2>8. QED
    BY <1>2, <2>2, <2>3, <2>4, <2>5, <2>6, <2>7 DEF Next
<1>3. QED
  BY <1>1, <1>2

LEMMA SessionInvariance == Spec => []SessionInv
<1>1. Init => SessionInv
  BY StoreInitLemma DEF Init, SessionInv
<1>2. QED
  BY <1>1, SessionStep, PTL DEF Spec

(* Every list install stores is one it accepts, entries and lifetimes go   *)
(* together, and only listable calls pass.                                 *)
THEOREM TypeCorrect == Spec => []TypeOK
<1>1. SessionInv => TypeOK
  BY DEF SessionInv, StoreInv, TypeOK, Accepted, Listable
<1>2. QED
  BY <1>1, SessionInvariance, PTL

(* An installation that enforce or get_allowed_fns touched stays live for  *)
(* TTL_THRESHOLD ledgers after that, through every later call, archival of *)
(* other entries and restoration.                                          *)
THEOREM KeptAliveCorrect == Spec => []KeptAlive
<1>1. SessionInv => KeptAlive
  BY DEF SessionInv, StoreInv
<1>2. QED
  BY <1>1, SessionInvariance, PTL

Granted == [key \in DOMAIN store |-> Admitted(store[key])]

LEMMA PromiseInit == Init => Lifecycle!Init
  BY DEF Init, StoreInit, Lifecycle!Init

LEMMA PromiseStep ==
  [Next]_vars => [Lifecycle!Next]_<<Granted, passed>>
<1> SUFFICES ASSUME [Next]_vars
    PROVE  Lifecycle!Next \/ UNCHANGED <<Granted, passed>>
  OBVIOUS
<1>1. ASSUME UNCHANGED <<store, passed>>
      PROVE  UNCHANGED <<Granted, passed>>
  BY <1>1 DEF Granted
<1>2. CASE UNCHANGED vars
  BY <1>1, <1>2 DEF vars, storeVars
<1>3. CASE Next
  <2>1. CASE CloseLedger
    BY <1>1, <2>1 DEF CloseLedger
  <2>2. ASSUME NEW key \in Keys, NEW context_type \in ContextTypes,
               NEW allowed_fns \in FnLists, install(context_type, allowed_fns, key)
        PROVE  Lifecycle!Next
    <3>1. key \notin DOMAIN Granted
      BY <2>2 DEF install, Has, Granted
    <3>2. DOMAIN Granted' = DOMAIN Granted \cup {key}
      BY <2>2 DEF install, Put, Granted
    <3>3. Granted'[key] \subseteq Listable
      BY <2>2 DEF install, Put, Granted, Admitted, Listable
    <3>4. \A k \in DOMAIN Granted \ {key} : Granted'[k] = Granted[k]
      BY <2>2 DEF install, Put, Granted
    <3>5. passed' = [passed EXCEPT ![key] = {}] /\ key[1] \in authorized'
      BY <2>2 DEF install, Put, RequireAuth
    <3>6. Lifecycle!Grant(key)
      BY <3>1, <3>2, <3>3, <3>4, <3>5
      DEF Lifecycle!Grant, Lifecycle!SetGrant, Granted, Listable
    <3>7. QED
      BY <3>5, <3>6 DEF Lifecycle!Next
  <2>3. ASSUME NEW key \in Keys, NEW context \in Contexts,
               NEW authenticated_signers \in SUBSET Signers,
               enforce(context, authenticated_signers, key)
        PROVE  Lifecycle!Next
    <3>1. PICK fn_name \in FnNames : context = CallOf(fn_name)
      BY <2>3 DEF enforce, Contexts
    <3>2. Lists(store[key], fn_name)
      BY <2>3, <3>1 DEF enforce, CallOf
    <3>3. key \in DOMAIN store /\ store' = store /\ key[1] \in authorized'
      BY <2>3 DEF enforce, get_allowed_fns, Has, Read, RequireAuth
    <3>4. context \in Granted[key]
      BY <3>1, <3>2, <3>3 DEF Granted, Admitted
    <3>5. Lifecycle!Use(key, context)
      BY <2>3, <3>3, <3>4 DEF Lifecycle!Use, Granted, enforce
    <3>6. context \in Listable
      BY <3>1 DEF Listable
    <3>7. QED
      BY <3>3, <3>5, <3>6 DEF Lifecycle!Next, Listable
  <2>4. ASSUME NEW key \in Keys, uninstall(key)
        PROVE  Lifecycle!Next
    <3>1. Lifecycle!Revoke(key)
      BY <2>4 DEF Lifecycle!Revoke, uninstall, Remove, Has
    <3>2. QED
      BY <2>4, <3>1 DEF Lifecycle!Next, uninstall, RequireAuth
  <2>5. ASSUME NEW key \in Keys, get_allowed_fns(key), UNCHANGED passed
        PROVE  UNCHANGED <<Granted, passed>>
    BY <1>1, <2>5 DEF get_allowed_fns, Read
  <2>6. ASSUME NEW key \in Keys, Restore(key)
        PROVE  UNCHANGED <<Granted, passed>>
    BY <1>1, <2>6 DEF Restore
  <2>7. QED
    BY <1>3, <2>1, <2>2, <2>3, <2>4, <2>5, <2>6 DEF Next
<1>4. QED
  BY <1>2, <1>3

(* The session policy implements the abstract policy: through every        *)
(* install, enforce, uninstall, read, archival and restoration, a call     *)
(* passes only while an installation made by the account lists it, and     *)
(* that installation changes only at the account's own word.               *)
THEOREM PromiseKept == Spec => KeepsPromise
<1>1. QED
  BY PromiseInit, PromiseStep, PTL
  DEF Spec, KeepsPromise, Lifecycle!Spec, Granted

-----------------------------------------------------------------------------
(* The recipient allowlist policy.  Its store is the one above.            *)

LEMMA RecipientStore ==
  ASSUME NEW key, NEW data, NEW Data, NEW Calls
  PROVE  /\ Recipient!Keys = Keys
         /\ Recipient!StoreInit <=> StoreInit
         /\ Recipient!CloseLedger <=> CloseLedger
         /\ Recipient!KeptAlive <=> KeptAlive
         /\ Recipient!StoreTypeOK(Data, Calls) <=> StoreTypeOK(Data, Calls)
         /\ Recipient!Put(key, data) <=> Put(key, data)
         /\ Recipient!Remove(key) <=> Remove(key)
         /\ Recipient!Read(key) <=> Read(key)
         /\ Recipient!Restore(key) <=> Restore(key)
         /\ Recipient!Has(key) <=> Has(key)
<1>1. Recipient!Keys = Keys
  BY DEF Recipient!Keys, Keys
<1>2. Recipient!StoreInit <=> StoreInit
  BY DEF Recipient!StoreInit, Recipient!Keys, StoreInit, Keys
<1>3. (Recipient!CloseLedger <=> CloseLedger) /\ (Recipient!KeptAlive <=> KeptAlive)
  BY DEF Recipient!CloseLedger, Recipient!KeptAlive, CloseLedger, KeptAlive
<1>4. Recipient!StoreTypeOK(Data, Calls) <=> StoreTypeOK(Data, Calls)
  BY DEF Recipient!StoreTypeOK, Recipient!Keys, StoreTypeOK, Keys
<1>5. (Recipient!Put(key, data) <=> Put(key, data)) /\ (Recipient!Has(key) <=> Has(key))
  BY DEF Recipient!Put, Recipient!Has, Recipient!FreshLiveUntil, Put, Has,
         FreshLiveUntil
<1>6. (Recipient!Remove(key) <=> Remove(key)) /\ (Recipient!Read(key) <=> Read(key))
  BY DEF Recipient!Remove, Recipient!Read, Recipient!ExtendTtl, Remove, Read,
         ExtendTtl
<1>7. Recipient!Restore(key) <=> Restore(key)
  BY DEF Recipient!Restore, Recipient!Accessible, Recipient!Has,
         Recipient!IsLive, Recipient!FreshLiveUntil, Restore, Accessible, Has,
         IsLive, FreshLiveUntil
<1>8. QED
  BY <1>1, <1>2, <1>3, <1>4, <1>5, <1>6, <1>7

Payable == {list \in Recipient!RecipientLists : Recipient!ValidList(list)}

RecipientInv == StoreInv(Payable, CallContexts)

LEMMA RecipientStep ==
  RecipientInv /\ [Recipient!Next]_storeVars => RecipientInv'
<1> SUFFICES ASSUME RecipientInv, [Recipient!Next]_storeVars PROVE RecipientInv'
  OBVIOUS
<1> USE DEF RecipientInv
<1>1. CASE UNCHANGED storeVars
  BY <1>1, StutterLemma
<1>2. CASE Recipient!Next
  <2>1. authorized' \subseteq SmartAccounts
    BY <1>2 DEF Recipient!Next
  <2>2. CASE Recipient!CloseLedger
    BY <2>1, <2>2, CloseLemma, RecipientStore
  <2>3. ASSUME NEW key \in Keys, NEW context_type,
               NEW list \in Recipient!RecipientLists,
               \/ Recipient!install(context_type, list, key)
               \/ Recipient!set_allowed_recipients(list, key)
        PROVE  RecipientInv'
    <3>1. list \in Payable /\ Recipient!Put(key, list) /\ ledger' = ledger
      BY <2>3 DEF Recipient!install, Recipient!set_allowed_recipients, Payable
    <3>2. Put(key, list)
      BY <3>1, RecipientStore
    <3>3. QED
      BY <2>1, <3>1, <3>2, PutLemma
  <2>4. ASSUME NEW key \in Keys, Recipient!get_allowed_recipients(key),
               ledger' = ledger, passed' \in [Keys -> SUBSET CallContexts]
        PROVE  RecipientInv'
    <3>1. Has(key) /\ Read(key)
      BY <2>4, RecipientStore DEF Recipient!get_allowed_recipients
    <3>2. QED
      BY <2>1, <2>4, <3>1, ReadLemma DEF Has
  <2>5. passed \in [Keys -> SUBSET CallContexts]
    BY DEF StoreInv, StoreTypeOK
  <2>6. ASSUME NEW key \in Keys, NEW context \in CallContexts, NEW signers,
               Recipient!enforce(context, signers, key)
        PROVE  RecipientInv'
    <3>1. passed' \in [Keys -> SUBSET CallContexts]
      BY <2>5, <2>6 DEF Recipient!enforce
    <3>2. QED
      BY <2>4, <2>6, <3>1 DEF Recipient!enforce
  <2>7. ASSUME NEW key \in Keys, Recipient!uninstall(key) PROVE RecipientInv'
    <3>1. Remove(key) /\ ledger' = ledger
      BY <2>7, RecipientStore DEF Recipient!uninstall
    <3>2. QED
      BY <2>1, <3>1, RemoveLemma
  <2>8. ASSUME NEW key \in Keys, Recipient!Restore(key), UNCHANGED ledger
        PROVE  RecipientInv'
    <3>1. Restore(key)
      BY <2>8, RecipientStore
    <3>2. QED
      BY <2>1, <2>8, <3>1, RestoreLemma
  <2>9. Recipient!Keys = Keys
    BY RecipientStore
  <2>10. QED
    BY <1>2, <2>2, <2>3, <2>4, <2>5, <2>6, <2>7, <2>8, <2>9 DEF Recipient!Next
<1>3. QED
  BY <1>1, <1>2

LEMMA RecipientInvariance == Recipient!Spec => []RecipientInv
<1>1. Recipient!Init => RecipientInv
  BY StoreInitLemma, RecipientStore DEF Recipient!Init, RecipientInv
<1>2. RecipientInv /\ [Recipient!Next]_Recipient!vars => RecipientInv'
  BY RecipientStep DEF Recipient!vars, Recipient!storeVars, storeVars
<1>3. QED
  BY <1>1, <1>2, PTL DEF Recipient!Spec

(* Every stored list of recipients is one install and                      *)
(* set_allowed_recipients accept: never empty, never over the limit.       *)
THEOREM RecipientTypeCorrect == Recipient!Spec => []Recipient!TypeOK
<1>1. RecipientInv => Recipient!TypeOK
  BY RecipientStore DEF RecipientInv, StoreInv, Payable, Recipient!TypeOK
<1>2. QED
  BY <1>1, RecipientInvariance, PTL

(* A list of recipients that was read, by enforce or the getter, stays     *)
(* live for TTL_THRESHOLD ledgers, replacements of the list included.      *)
THEOREM RecipientAliveCorrect == Recipient!Spec => []KeptAlive
<1>1. RecipientInv => KeptAlive
  BY DEF RecipientInv, StoreInv
<1>2. QED
  BY <1>1, RecipientInvariance, PTL

RecipientGranted ==
  [key \in DOMAIN store |->
     {context \in CallContexts :
        Recipient!Payee(context)
          \in {Recipient!AddressVal(store[key][i]) : i \in DOMAIN store[key]}}]

(* What enforce checks of a call decides exactly whether it is a transfer  *)
(* that pays a listed recipient: nothing else passes, and no such transfer *)
(* is refused for its other arguments or its place in the list.            *)
THEOREM RecipientExact ==
  ASSUME Recipient!ContextsAssumption, NEW context \in CallContexts, NEW list
  PROVE  Recipient!PaysListed(list, context)
           <=> Recipient!Payee(context) \in {Recipient!AddressVal(list[i]) : i \in DOMAIN list}
<1> DEFINE args == context.args
           Listed == {Recipient!AddressVal(list[i]) : i \in DOMAIN list}
<1>1. <<>> \notin Listed
  BY DEF Recipient!AddressVal
<1>2. CASE ~(context.variant = "Contract" /\ context.fn_name = "transfer")
  <2>1. Recipient!Payee(context) = <<>>
    BY <1>2 DEF Recipient!Payee
  <2>2. QED
    BY <1>1, <1>2, <2>1 DEF Recipient!PaysListed
<1>3. CASE context.variant = "Contract" /\ context.fn_name = "transfer"
  <2>1. /\ Len(args) \in Nat /\ DOMAIN args = 1..Len(args)
        /\ \A i \in DOMAIN args : args[i] = [type |-> args[i].type, value |-> args[i].value]
    BY <1>3, Recipient!ContextsAssumption
  <2>2. 2 \in DOMAIN args <=> Len(args) > 1
    BY <2>1
  <2>3. CASE 2 \notin DOMAIN args
    <3>1. Recipient!Payee(context) = <<>>
      BY <2>2, <2>3 DEF Recipient!Payee
    <3>2. QED
      BY <1>1, <2>3, <3>1 DEF Recipient!PaysListed
  <2>4. CASE 2 \in DOMAIN args
    <3>1. Recipient!Payee(context) = args[2]
      BY <1>3, <2>2, <2>4 DEF Recipient!Payee
    <3>2. ASSUME NEW i \in DOMAIN list
          PROVE  args[2] = Recipient!AddressVal(list[i])
                   <=> args[2].type = "Address" /\ list[i] = args[2].value
      BY <2>1, <2>4 DEF Recipient!AddressVal
    <3>3. args[2] \in Listed
            <=> args[2].type = "Address" /\ \E i \in DOMAIN list : list[i] = args[2].value
      BY <3>2
    <3>4. QED
      BY <1>3, <2>4, <3>1, <3>3 DEF Recipient!PaysListed
  <2>5. QED
    BY <2>3, <2>4
<1>4. QED
  BY <1>2, <1>3

LEMMA RecipientPromiseInit == Recipient!Init => Recipient!Lifecycle!Init
  BY DEF Recipient!Init, Recipient!StoreInit, Recipient!Lifecycle!Init

LEMMA RecipientPromiseStep ==
  ASSUME Recipient!ContextsAssumption
  PROVE  [Recipient!Next]_storeVars
           => [Recipient!Lifecycle!Next]_<<RecipientGranted, passed>>
<1> SUFFICES ASSUME [Recipient!Next]_storeVars
    PROVE  Recipient!Lifecycle!Next \/ UNCHANGED <<RecipientGranted, passed>>
  OBVIOUS
<1>1. ASSUME UNCHANGED <<store, passed>>
      PROVE  UNCHANGED <<RecipientGranted, passed>>
  BY <1>1 DEF RecipientGranted
<1>2. CASE UNCHANGED storeVars
  BY <1>1, <1>2 DEF storeVars
<1>3. CASE Recipient!Next
  <2>1. CASE Recipient!CloseLedger
    BY <1>1, <2>1 DEF Recipient!CloseLedger
  <2>2. ASSUME NEW key \in Recipient!Keys, NEW list, Recipient!Put(key, list)
        PROVE  Recipient!Lifecycle!SetGrant(key)
    <3>1. store' = [k \in DOMAIN store \cup {key} |-> IF k = key THEN list ELSE store[k]]
      BY <2>2 DEF Recipient!Put
    <3>2. DOMAIN RecipientGranted' = DOMAIN RecipientGranted \cup {key}
      BY <3>1 DEF RecipientGranted
    <3>3. RecipientGranted'[key] \subseteq CallContexts
      BY <3>1 DEF RecipientGranted
    <3>4. ASSUME NEW k \in DOMAIN RecipientGranted \ {key}
          PROVE  RecipientGranted'[k] = RecipientGranted[k]
      <4>1. k \in DOMAIN store /\ k \in DOMAIN store' /\ store'[k] = store[k]
        BY <3>1 DEF RecipientGranted
      <4>2. QED
        BY <4>1 DEF RecipientGranted
    <3>5. passed' = [passed EXCEPT ![key] = {}]
      BY <2>2 DEF Recipient!Put
    <3>6. QED
      BY <3>2, <3>3, <3>4, <3>5 DEF Recipient!Lifecycle!SetGrant, RecipientGranted
  <2>3. DOMAIN RecipientGranted = DOMAIN store
    BY DEF RecipientGranted
  <2>4. ASSUME NEW key \in Recipient!Keys, NEW context_type, NEW list,
               Recipient!install(context_type, list, key)
        PROVE  Recipient!Lifecycle!Next
    <3>1. Recipient!Lifecycle!Grant(key)
      BY <2>2, <2>3, <2>4
      DEF Recipient!install, Recipient!Has, Recipient!Lifecycle!Grant, RecipientGranted
    <3>2. QED
      BY <2>4, <3>1
      DEF Recipient!Lifecycle!Next, Recipient!install, Recipient!RequireAuth
  <2>5. ASSUME NEW key \in Recipient!Keys, NEW list,
               Recipient!set_allowed_recipients(list, key)
        PROVE  Recipient!Lifecycle!Next
    <3>1. Recipient!Lifecycle!Replace(key)
      BY <2>2, <2>3, <2>5
      DEF Recipient!set_allowed_recipients, Recipient!Has, Recipient!Lifecycle!Replace,
          RecipientGranted
    <3>2. QED
      BY <2>5, <3>1
      DEF Recipient!Lifecycle!Next, Recipient!set_allowed_recipients,
          Recipient!RequireAuth
  <2>6. ASSUME NEW key \in Recipient!Keys, NEW context \in CallContexts, NEW signers,
               Recipient!enforce(context, signers, key)
        PROVE  Recipient!Lifecycle!Next
    <3>1. key \in DOMAIN store /\ store' = store /\ key[1] \in authorized'
      BY <2>6 DEF Recipient!enforce, Recipient!get_allowed_recipients, Recipient!Has,
                  Recipient!Read, Recipient!RequireAuth
    <3>2. context \in RecipientGranted[key]
      <4>1. Recipient!PaysListed(store[key], context)
        BY <2>6 DEF Recipient!enforce
      <4>2. QED
        BY <3>1, <4>1, RecipientExact DEF RecipientGranted
    <3>3. Recipient!Lifecycle!Use(key, context)
      BY <2>6, <3>1, <3>2
      DEF Recipient!Lifecycle!Use, RecipientGranted, Recipient!enforce
    <3>4. QED
      BY <3>1, <3>3 DEF Recipient!Lifecycle!Next
  <2>7. ASSUME NEW key \in Recipient!Keys, Recipient!uninstall(key)
        PROVE  Recipient!Lifecycle!Next
    <3>1. /\ store' = [k \in DOMAIN store \ {key} |-> store[k]]
          /\ passed' = [passed EXCEPT ![key] = {}]
          /\ key \in DOMAIN store /\ key[1] \in authorized'
      BY <2>7 DEF Recipient!uninstall, Recipient!Remove, Recipient!Has,
                  Recipient!RequireAuth
    <3>2. RecipientGranted' = [k \in DOMAIN RecipientGranted \ {key} |-> RecipientGranted[k]]
      BY <3>1 DEF RecipientGranted
    <3>3. Recipient!Lifecycle!Revoke(key)
      BY <2>3, <3>1, <3>2 DEF Recipient!Lifecycle!Revoke, RecipientGranted
    <3>4. QED
      BY <3>1, <3>3 DEF Recipient!Lifecycle!Next
  <2>8. ASSUME NEW key, Recipient!get_allowed_recipients(key), UNCHANGED passed
        PROVE  UNCHANGED <<RecipientGranted, passed>>
    BY <1>1, <2>8 DEF Recipient!get_allowed_recipients, Recipient!Read
  <2>9. ASSUME NEW key, Recipient!Restore(key)
        PROVE  UNCHANGED <<RecipientGranted, passed>>
    BY <1>1, <2>9 DEF Recipient!Restore
  <2>10. QED
    BY <1>3, <2>1, <2>4, <2>5, <2>6, <2>7, <2>8, <2>9 DEF Recipient!Next
<1>4. QED
  BY <1>2, <1>3

(* The recipient allowlist policy implements the abstract policy with      *)
(* replacement: what passes is a transfer whose payee is in the list in    *)
(* force, and only the account installs, replaces or removes its list.     *)
THEOREM RecipientPromiseKept ==
  ASSUME Recipient!ContextsAssumption
  PROVE  Recipient!Spec => Recipient!KeepsPromise
<1>1. [Recipient!Next]_Recipient!vars
        => [Recipient!Lifecycle!Next]_<<RecipientGranted, passed>>
  BY RecipientPromiseStep DEF Recipient!vars, Recipient!storeVars, storeVars
<1>2. QED
  BY <1>1, RecipientPromiseInit, PTL
  DEF Recipient!Spec, Recipient!KeepsPromise, Recipient!Lifecycle!Spec, RecipientGranted

-----------------------------------------------------------------------------
(* The parameter-scoped policy.                                            *)

LEMMA ScopedStore ==
  ASSUME NEW key, NEW data, NEW Data, NEW Calls
  PROVE  /\ Scoped!Keys = Keys
         /\ Scoped!StoreInit <=> StoreInit
         /\ Scoped!CloseLedger <=> CloseLedger
         /\ Scoped!KeptAlive <=> KeptAlive
         /\ Scoped!StoreTypeOK(Data, Calls) <=> StoreTypeOK(Data, Calls)
         /\ Scoped!Put(key, data) <=> Put(key, data)
         /\ Scoped!Remove(key) <=> Remove(key)
         /\ Scoped!Read(key) <=> Read(key)
         /\ Scoped!Restore(key) <=> Restore(key)
         /\ Scoped!Has(key) <=> Has(key)
<1>1. Scoped!Keys = Keys
  BY DEF Scoped!Keys, Keys
<1>2. Scoped!StoreInit <=> StoreInit
  BY DEF Scoped!StoreInit, Scoped!Keys, StoreInit, Keys
<1>3. (Scoped!CloseLedger <=> CloseLedger) /\ (Scoped!KeptAlive <=> KeptAlive)
  BY DEF Scoped!CloseLedger, Scoped!KeptAlive, CloseLedger, KeptAlive
<1>4. Scoped!StoreTypeOK(Data, Calls) <=> StoreTypeOK(Data, Calls)
  BY DEF Scoped!StoreTypeOK, Scoped!Keys, StoreTypeOK, Keys
<1>5. (Scoped!Put(key, data) <=> Put(key, data)) /\ (Scoped!Has(key) <=> Has(key))
  BY DEF Scoped!Put, Scoped!Has, Scoped!FreshLiveUntil, Put, Has, FreshLiveUntil
<1>6. (Scoped!Remove(key) <=> Remove(key)) /\ (Scoped!Read(key) <=> Read(key))
  BY DEF Scoped!Remove, Scoped!Read, Scoped!ExtendTtl, Remove, Read, ExtendTtl
<1>7. Scoped!Restore(key) <=> Restore(key)
  BY DEF Scoped!Restore, Scoped!Accessible, Scoped!Has, Scoped!IsLive,
         Scoped!FreshLiveUntil, Restore, Accessible, Has, IsLive, FreshLiveUntil
<1>8. QED
  BY <1>1, <1>2, <1>3, <1>4, <1>5, <1>6, <1>7

Usable == {conditions \in Params : Scoped!ValidConditions(conditions)}

ScopedInv == StoreInv(Usable, CallContexts)

LEMMA ScopedStep == ScopedInv /\ [Scoped!Next]_storeVars => ScopedInv'
<1> SUFFICES ASSUME ScopedInv, [Scoped!Next]_storeVars PROVE ScopedInv'
  OBVIOUS
<1> USE DEF ScopedInv
<1>1. CASE UNCHANGED storeVars
  BY <1>1, StutterLemma
<1>2. CASE Scoped!Next
  <2>1. authorized' \subseteq SmartAccounts
    BY <1>2 DEF Scoped!Next
  <2>2. CASE Scoped!CloseLedger
    BY <2>1, <2>2, CloseLemma, ScopedStore
  <2>3. ASSUME NEW key \in Keys, NEW context_type, NEW conditions \in Params,
               Scoped!install(context_type, conditions, key)
        PROVE  ScopedInv'
    <3>1. conditions \in Usable /\ Scoped!Put(key, conditions) /\ ledger' = ledger
      BY <2>3 DEF Scoped!install, Usable
    <3>2. Put(key, conditions)
      BY <3>1, ScopedStore
    <3>3. QED
      BY <2>1, <3>1, <3>2, PutLemma
  <2>4. ASSUME NEW key \in Keys, Scoped!get_conditions(key),
               ledger' = ledger, passed' \in [Keys -> SUBSET CallContexts]
        PROVE  ScopedInv'
    <3>1. Has(key) /\ Read(key)
      BY <2>4, ScopedStore DEF Scoped!get_conditions
    <3>2. QED
      BY <2>1, <2>4, <3>1, ReadLemma DEF Has
  <2>5. passed \in [Keys -> SUBSET CallContexts]
    BY DEF StoreInv, StoreTypeOK
  <2>6. ASSUME NEW key \in Keys, NEW context \in CallContexts, NEW signers,
               Scoped!enforce(context, signers, key)
        PROVE  ScopedInv'
    <3>1. passed' \in [Keys -> SUBSET CallContexts]
      BY <2>5, <2>6 DEF Scoped!enforce
    <3>2. QED
      BY <2>4, <2>6, <3>1 DEF Scoped!enforce
  <2>7. ASSUME NEW key \in Keys, Scoped!uninstall(key) PROVE ScopedInv'
    <3>1. Remove(key) /\ ledger' = ledger
      BY <2>7, ScopedStore DEF Scoped!uninstall
    <3>2. QED
      BY <2>1, <3>1, RemoveLemma
  <2>8. ASSUME NEW key \in Keys, Scoped!Restore(key), UNCHANGED ledger
        PROVE  ScopedInv'
    <3>1. Restore(key)
      BY <2>8, ScopedStore
    <3>2. QED
      BY <2>1, <2>8, <3>1, RestoreLemma
  <2>9. Scoped!Keys = Keys
    BY ScopedStore
  <2>10. QED
    BY <1>2, <2>2, <2>3, <2>4, <2>5, <2>6, <2>7, <2>8, <2>9 DEF Scoped!Next
<1>3. QED
  BY <1>1, <1>2

LEMMA ScopedInvariance == Scoped!Spec => []ScopedInv
<1>1. Scoped!Init => ScopedInv
  BY StoreInitLemma, ScopedStore DEF Scoped!Init, ScopedInv
<1>2. ScopedInv /\ [Scoped!Next]_Scoped!vars => ScopedInv'
  BY ScopedStep DEF Scoped!vars, Scoped!storeVars, storeVars
<1>3. QED
  BY <1>1, <1>2, PTL DEF Scoped!Spec

(* Every stored map names 1 to MAX_FNS functions with 1 to                 *)
(* MAX_CONDITIONS_PER_FN conditions each, none of which orders addresses   *)
(* or symbols, so every operator enforce meets has a meaning.              *)
THEOREM ScopedTypeCorrect == Scoped!Spec => []Scoped!TypeOK
<1>1. ASSUME ScopedInv PROVE Scoped!TypeOK
  <2>1. \A key \in DOMAIN store : store[key] \in Usable
    BY <1>1 DEF ScopedInv, StoreInv, StoreTypeOK
  <2>2. StoreTypeOK(Params, CallContexts)
    BY <1>1, <2>1 DEF ScopedInv, StoreInv, StoreTypeOK, Usable
  <2>3. QED
    BY <2>1, <2>2, ScopedStore DEF Usable, Scoped!ValidConditions, Scoped!TypeOK
<1>2. QED
  BY <1>1, ScopedInvariance, PTL

(* Conditions that were read, by enforce or the getter, stay live for      *)
(* TTL_THRESHOLD ledgers.                                                  *)
THEOREM ScopedAliveCorrect == Scoped!Spec => []KeptAlive
<1>1. ScopedInv => KeptAlive
  BY DEF ScopedInv, StoreInv
<1>2. QED
  BY <1>1, ScopedInvariance, PTL

(* The comparisons of enforce decide membership in the set of values a     *)
(* condition means, operator by operator.                                  *)
LEMMA RegionLemma ==
  ASSUME Scoped!ContextsAssumption, NEW cond, Scoped!IsCondition(cond),
         cond.expected_value.type \in Scoped!UnorderedTypes
           => cond.operator \in {"Eq", "Neq"},
         NEW args \in Seq(Values)
  PROVE  Scoped!Passes(cond, args)
           <=> /\ cond.arg_index + 1 \in DOMAIN args
               /\ args[cond.arg_index + 1] \in Scoped!Region(cond)
<1> DEFINE e == cond.expected_value
           op == cond.operator
           actual == args[cond.arg_index + 1]
           typed == {v \in Values : v.type = e.type}
           below == {v \in typed : v.value < e.value}
           Compared == IF e.type \in Scoped!UnorderedTypes
                         THEN Scoped!compare_eq(actual, e, op)
                         ELSE Scoped!compare_ord(actual, e, op)
<1>1. cond.arg_index < Len(args) <=> cond.arg_index + 1 \in DOMAIN args
  BY DEF Scoped!IsCondition
<1>2. Scoped!Passes(cond, args) <=> cond.arg_index + 1 \in DOMAIN args /\ Compared
  BY <1>1 DEF Scoped!Passes
<1>3. ASSUME cond.arg_index + 1 \in DOMAIN args
      PROVE  Compared <=> actual \in Scoped!Region(cond)
  <2>1. actual \in Values /\ actual \in [type : STRING, value : Int]
    BY <1>3, Scoped!ContextsAssumption
  <2>2. e.value \in Int /\ e = [type |-> e.type, value |-> e.value]
    BY DEF Scoped!IsCondition, Scoped!ExpectedValues
  <2>3. /\ op \in {"Eq", "Neq", "Gt", "Gte", "Lt", "Lte"}
        /\ e.type \in Scoped!UnorderedTypes => op \in {"Eq", "Neq"}
    BY DEF Scoped!IsCondition, Scoped!Operators
  <2>4. Scoped!Region(cond)
          = CASE op = "Eq"  -> typed \cap {e}
              [] op = "Neq" -> typed \ {e}
              [] op = "Lt"  -> below
              [] op = "Lte" -> below \cup (typed \cap {e})
              [] op = "Gt"  -> typed \ (below \cup {e})
              [] op = "Gte" -> typed \ below
    BY DEF Scoped!Region
  <2> HIDE DEF e, op, actual
  <2>5. /\ op = "Eq"  => (Compared <=> actual.type = e.type /\ actual.value = e.value)
        /\ op = "Neq" => (Compared <=> actual.type = e.type /\ actual.value # e.value)
        /\ op = "Gt"  => (Compared <=> actual.type = e.type /\ actual.value > e.value)
        /\ op = "Gte" => (Compared <=> actual.type = e.type /\ actual.value >= e.value)
        /\ op = "Lt"  => (Compared <=> actual.type = e.type /\ actual.value < e.value)
        /\ op = "Lte" => (Compared <=> actual.type = e.type /\ actual.value <= e.value)
    BY <2>3 DEF Scoped!compare_eq, Scoped!compare_ord
  <2>6. /\ actual.value \in Int
        /\ actual = e <=> actual.type = e.type /\ actual.value = e.value
    BY <2>1, <2>2
  <2>7. /\ actual \in typed <=> actual.type = e.type
        /\ actual \in below <=> actual.type = e.type /\ actual.value < e.value
    BY <2>1
  <2> HIDE DEF typed, below, Compared
  <2>8. /\ op = "Eq"  => (Compared <=> actual \in typed \cap {e})
        /\ op = "Neq" => (Compared <=> actual \in typed \ {e})
        /\ op = "Lt"  => (Compared <=> actual \in below)
        /\ op = "Lte" => (Compared <=> actual \in below \cup (typed \cap {e}))
        /\ op = "Gt"  => (Compared <=> actual \in typed \ (below \cup {e}))
        /\ op = "Gte" => (Compared <=> actual \in typed \ below)
    BY <2>2, <2>5, <2>6, <2>7
  <2>9. QED
    BY <2>3, <2>4, <2>8
<1>4. QED
  BY <1>2, <1>3

(* What enforce checks of a call against conditions install accepts is     *)
(* exactly the set of calls they mean: none outside it passes, none inside *)
(* it is refused, for every operator, type and number of conditions.       *)
THEOREM ScopedExact ==
  ASSUME Scoped!ContextsAssumption, Scoped!ParamsAssumption,
         NEW conditions \in Params, Scoped!ValidConditions(conditions),
         NEW context \in CallContexts
  PROVE  (/\ context.variant = "Contract"
          /\ context.fn_name \in DOMAIN conditions
          /\ \A i \in DOMAIN conditions[context.fn_name] :
               Scoped!Passes(conditions[context.fn_name][i], context.args))
           <=> context \in Scoped!Admitted(conditions)
<1>1. ASSUME context.variant = "Contract", context.fn_name \in DOMAIN conditions,
             NEW i \in DOMAIN conditions[context.fn_name]
      PROVE  Scoped!Passes(conditions[context.fn_name][i], context.args)
               <=> LET cond == conditions[context.fn_name][i]
                   IN  /\ cond.arg_index + 1 \in DOMAIN context.args
                       /\ context.args[cond.arg_index + 1] \in Scoped!Region(cond)
  <2>1. context.args \in Seq(Values)
    BY <1>1, Scoped!ContextsAssumption
  <2>2. Scoped!IsCondition(conditions[context.fn_name][i])
    BY <1>1, Scoped!ParamsAssumption
  <2>3. conditions[context.fn_name][i].expected_value.type \in Scoped!UnorderedTypes
          => conditions[context.fn_name][i].operator \in {"Eq", "Neq"}
    BY <1>1 DEF Scoped!ValidConditions
  <2>4. QED
    BY <2>1, <2>2, <2>3, RegionLemma
<1>2. QED
  BY <1>1 DEF Scoped!Admitted

ScopedGranted == [key \in DOMAIN store |-> Scoped!Admitted(store[key])]

LEMMA ScopedPromiseInit == Scoped!Init => Scoped!Lifecycle!Init
  BY DEF Scoped!Init, Scoped!StoreInit, Scoped!Lifecycle!Init

LEMMA ScopedPromiseStep ==
  ASSUME Scoped!ContextsAssumption, Scoped!ParamsAssumption
  PROVE  ScopedInv /\ [Scoped!Next]_storeVars
           => [Scoped!Lifecycle!Next]_<<ScopedGranted, passed>>
<1> SUFFICES ASSUME ScopedInv, [Scoped!Next]_storeVars
    PROVE  Scoped!Lifecycle!Next \/ UNCHANGED <<ScopedGranted, passed>>
  OBVIOUS
<1>1. ASSUME UNCHANGED <<store, passed>>
      PROVE  UNCHANGED <<ScopedGranted, passed>>
  BY <1>1 DEF ScopedGranted
<1>2. CASE UNCHANGED storeVars
  BY <1>1, <1>2 DEF storeVars
<1>3. CASE Scoped!Next
  <2>1. CASE Scoped!CloseLedger
    BY <1>1, <2>1 DEF Scoped!CloseLedger
  <2>2. ASSUME NEW key \in Scoped!Keys, NEW context_type, NEW conditions,
               Scoped!install(context_type, conditions, key)
        PROVE  Scoped!Lifecycle!Next
    <3>1. /\ store' = [k \in DOMAIN store \cup {key} |->
                        IF k = key THEN conditions ELSE store[k]]
          /\ key \notin DOMAIN store /\ key[1] \in authorized'
          /\ passed' = [passed EXCEPT ![key] = {}]
      BY <2>2 DEF Scoped!install, Scoped!Put, Scoped!Has, Scoped!RequireAuth
    <3>2. /\ DOMAIN ScopedGranted' = DOMAIN ScopedGranted \cup {key}
          /\ key \notin DOMAIN ScopedGranted
      BY <3>1 DEF ScopedGranted
    <3>3. ScopedGranted'[key] \subseteq CallContexts
      BY <3>1 DEF ScopedGranted, Scoped!Admitted
    <3>4. ASSUME NEW k \in DOMAIN ScopedGranted \ {key}
          PROVE  ScopedGranted'[k] = ScopedGranted[k]
      <4>1. k \in DOMAIN store /\ k \in DOMAIN store' /\ store'[k] = store[k]
        BY <3>1 DEF ScopedGranted
      <4>2. QED
        BY <4>1 DEF ScopedGranted
    <3>5. Scoped!Lifecycle!Grant(key)
      BY <3>1, <3>2, <3>3, <3>4
      DEF Scoped!Lifecycle!Grant, Scoped!Lifecycle!SetGrant, ScopedGranted
    <3>6. QED
      BY <3>1, <3>5 DEF Scoped!Lifecycle!Next
  <2>3. ASSUME NEW key \in Scoped!Keys, NEW context \in CallContexts, NEW signers,
               Scoped!enforce(context, signers, key)
        PROVE  Scoped!Lifecycle!Next
    <3> DEFINE conds == store[key][context.fn_name]
    <3>1. key \in DOMAIN store /\ store' = store /\ key[1] \in authorized'
      BY <2>3 DEF Scoped!enforce, Scoped!get_conditions, Scoped!Has, Scoped!Read,
                  Scoped!RequireAuth
    <3>2. /\ context.variant = "Contract" /\ context.fn_name \in DOMAIN store[key]
          /\ \A i \in DOMAIN conds : Scoped!Passes(conds[i], context.args)
      BY <2>3 DEF Scoped!enforce
    <3>3. store[key] \in Params /\ Scoped!ValidConditions(store[key])
      BY <3>1 DEF ScopedInv, StoreInv, StoreTypeOK, Usable
    <3>4. context.args \in Seq(Values)
      BY <3>2, Scoped!ContextsAssumption
    <3>5. ASSUME NEW i \in DOMAIN conds
          PROVE  /\ conds[i].arg_index + 1 \in DOMAIN context.args
                 /\ context.args[conds[i].arg_index + 1] \in Scoped!Region(conds[i])
      <4>1. Scoped!IsCondition(conds[i])
        BY <3>2, <3>3, Scoped!ParamsAssumption
      <4>2. conds[i].expected_value.type \in Scoped!UnorderedTypes
              => conds[i].operator \in {"Eq", "Neq"}
        BY <3>2, <3>3 DEF Scoped!ValidConditions
      <4>3. Scoped!Passes(conds[i], context.args)
        BY <3>2
      <4> HIDE DEF conds
      <4>4. QED
        BY <3>4, <4>1, <4>2, <4>3, RegionLemma
    <3>6. context \in ScopedGranted[key]
      BY <3>1, <3>2, <3>5 DEF ScopedGranted, Scoped!Admitted
    <3>7. Scoped!Lifecycle!Use(key, context)
      BY <2>3, <3>1, <3>6 DEF Scoped!Lifecycle!Use, ScopedGranted, Scoped!enforce
    <3>8. QED
      BY <3>1, <3>7 DEF Scoped!Lifecycle!Next
  <2>4. ASSUME NEW key \in Scoped!Keys, Scoped!uninstall(key)
        PROVE  Scoped!Lifecycle!Next
    <3>1. /\ store' = [k \in DOMAIN store \ {key} |-> store[k]]
          /\ passed' = [passed EXCEPT ![key] = {}]
          /\ key \in DOMAIN store /\ key[1] \in authorized'
      BY <2>4 DEF Scoped!uninstall, Scoped!Remove, Scoped!Has, Scoped!RequireAuth
    <3>2. ScopedGranted' = [k \in DOMAIN ScopedGranted \ {key} |-> ScopedGranted[k]]
      BY <3>1 DEF ScopedGranted
    <3>3. Scoped!Lifecycle!Revoke(key)
      BY <3>1, <3>2 DEF Scoped!Lifecycle!Revoke, ScopedGranted
    <3>4. QED
      BY <3>1, <3>3 DEF Scoped!Lifecycle!Next
  <2>5. ASSUME NEW key, Scoped!get_conditions(key), UNCHANGED passed
        PROVE  UNCHANGED <<ScopedGranted, passed>>
    BY <1>1, <2>5 DEF Scoped!get_conditions, Scoped!Read
  <2>6. ASSUME NEW key, Scoped!Restore(key)
        PROVE  UNCHANGED <<ScopedGranted, passed>>
    BY <1>1, <2>6 DEF Scoped!Restore
  <2>7. QED
    BY <1>3, <2>1, <2>2, <2>3, <2>4, <2>5, <2>6 DEF Scoped!Next
<1>4. QED
  BY <1>2, <1>3

(* The parameter-scoped policy implements the abstract policy: what passes *)
(* has, for every condition on its function, an argument of the expected   *)
(* type in the region the condition means, and only the account installs   *)
(* or removes its conditions.                                              *)
THEOREM ScopedPromiseKept ==
  ASSUME Scoped!ContextsAssumption, Scoped!ParamsAssumption
  PROVE  Scoped!Spec => Scoped!KeepsPromise
<1>1. ScopedInv /\ [Scoped!Next]_Scoped!vars
        => [Scoped!Lifecycle!Next]_<<ScopedGranted, passed>>
  BY ScopedPromiseStep DEF Scoped!vars, Scoped!storeVars, storeVars
<1>2. QED
  BY <1>1, ScopedPromiseInit, ScopedInvariance, PTL
  DEF Scoped!Spec, Scoped!KeepsPromise, Scoped!Lifecycle!Spec, ScopedGranted
=============================================================================

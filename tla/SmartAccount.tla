---------------------------- MODULE SmartAccount ----------------------------
(***************************************************************************)
(* The smart account, composed with the two policies its wallets rely on:  *)
(* the threshold policy on the owners' Default rule and the session policy *)
(* on the rules of session keys.  A step is a transaction: somebody brings *)
(* the signatures of a set of keys and names a context rule, and the       *)
(* account checks them for the transaction's authorization context.        *)
(*                                                                         *)
(* The rule engine behind __check_auth and the management entry points is  *)
(* the account library's, modelled from how the account, its tests and its *)
(* documentation use it.  Signatures are taken to be unforgeable.  Keys    *)
(* keep their part: Default rules are given owners, other rules session    *)
(* keys, and no CallContract rule targets the account or a policy.         *)
(***************************************************************************)
EXTENDS Integers, Sequences, FiniteSets, SorobanStorage

CONSTANTS
  Account, ThresholdPolicy, SessionContract,  \* contract addresses
  Owners, SessionKeys,    \* signers
  InitOwners,             \* constructor argument: signers of the Default rule
  InitThreshold,          \* constructor argument: its threshold
  Targets,                \* contracts session rules are made for
  FnNames,                \* functions of the targets
  WasmHashes, Salts,      \* what deploy_contract and upgrade are given
  None,                   \* no expiry; no transaction
  U32_MAX,                \* 2^32 - 1 in the code
  MAX_ALLOWED_FNS, MaxListLen, EXTEND_AMOUNT, TTL_THRESHOLD,  \* of SessionPolicy
  SMART_ACCOUNT_EXTEND_AMOUNT, SMART_ACCOUNT_TTL_THRESHOLD,
  MIN_PERSISTENT_TTL,     \* time to live the host gives a new entry
  MaxRules,               \* bound: number of context rules ever added
  DirectIds,              \* bound: rule ids the owners name to the policy directly
  LedgerStep,             \* bound: number of ledgers that close at a time
  MaxLedger               \* bound: last ledger of a behaviour

ASSUME AccountAssumption ==
  /\ IsFiniteSet(Owners) /\ LedgerStep \in Nat
  /\ InitOwners \subseteq Owners /\ InitThreshold \in 1..Cardinality(InitOwners)
  /\ Owners \cap SessionKeys = {}
  /\ {Account, ThresholdPolicy, SessionContract} \cap Targets = {}
  /\ U32_MAX \in Nat /\ MaxRules \in Nat \ {0}
  /\ DirectIds \subseteq 0..(MaxRules - 1)

VARIABLES
  rules,              \* the context rules: id -> rule
  next_id,            \* the id of the next context rule
  threshold,          \* the threshold policy's entries for the account, by rule id
  code,               \* the account's own Wasm
  count,              \* DeployedContractCount, in instance storage
  records,            \* DeployedContract(index), in persistent storage
  record_live_until,  \* last ledger in which each record is live
  satellites,         \* history variable: what the account has deployed, in order
  session_auth,       \* history variable: the last transaction, if no owner signed it
  store, live_until, passed, last_read, authorized,  \* of SessionPolicy
  ledger

sessionVars == <<store, live_until, passed, last_read>>
ruleVars == <<rules, next_id, threshold>>
registryVars == <<count, records, record_live_until, satellites>>
vars == <<ruleVars, code, registryVars, session_auth, sessionVars, authorized, ledger>>

Signers == Owners \cup SessionKeys
RuleIds == 0..(MaxRules - 1)

Session == INSTANCE SessionPolicy WITH SmartAccounts <- {Account}
SessionKey(rule_id) == <<Account, rule_id>>

(* Authorization contexts, and the rule types that match them.             *)
Invoke(contract, fn_name) ==
  [variant |-> "Contract", contract |-> contract, fn_name |-> fn_name]
Create(wasm_hash) == [variant |-> "CreateContractHostFn", wasm_hash |-> wasm_hash]

DefaultType == [variant |-> "Default"]
RuleTypes ==
  {DefaultType}
    \cup {[variant |-> "CallContract", contract |-> target] : target \in Targets}
    \cup {[variant |-> "CreateContract", wasm_hash |-> hash] : hash \in WasmHashes}

KeysFor(context_type) == IF context_type = DefaultType THEN Owners ELSE SessionKeys

Without(f, x) == [y \in DOMAIN f \ {x} |-> f[y]]
With(f, x, v) == [y \in DOMAIN f \cup {x} |-> IF y = x THEN v ELSE f[y]]

-----------------------------------------------------------------------------
(* __check_auth for one context, but for the session policy's part.        *)

(* Mutant: a CallContract rule matches a call to any contract.             *)
MatchesAnyContract(context_type, context) ==
  CASE context_type.variant = "Default" -> TRUE
    [] context_type.variant = "CallContract" -> context.variant = "Contract"
    [] context_type.variant = "CreateContract" ->
         context.variant = "CreateContractHostFn" /\ context_type.wasm_hash = context.wasm_hash

Matches(context_type, context) ==
  CASE context_type.variant = "Default" -> TRUE
    [] context_type.variant = "CallContract" ->
         context.variant = "Contract" /\ context_type.contract = context.contract
    [] context_type.variant = "CreateContract" ->
         context.variant = "CreateContractHostFn" /\ context_type.wasm_hash = context.wasm_hash

Unexpired(rule) == rule.valid_until # None => ledger <= rule.valid_until

(* Mutant: a threshold above the number of signers is met by all of them.  *)
SignersSufficeCapped(rule_id, signers) ==
  LET rule == rules[rule_id]
  IN  /\ "threshold" \in rule.policies =>
           /\ rule_id \in DOMAIN threshold
           /\ \/ Cardinality(rule.signers \cap signers) >= threshold[rule_id]
              \/ rule.signers \subseteq signers
      /\ rule.policies = {} => rule.signers \subseteq signers

(* ThresholdPolicy::enforce; without a policy every signer has to sign.    *)
SignersSuffice(rule_id, signers) ==
  LET rule == rules[rule_id]
  IN  /\ "threshold" \in rule.policies =>
           /\ rule_id \in DOMAIN threshold
           /\ Cardinality(rule.signers \cap signers) >= threshold[rule_id]
      /\ rule.policies = {} => rule.signers \subseteq signers

NoteSigners(signers, context) ==
  session_auth' = IF signers \cap Owners = {} THEN [signers |-> signers, context |-> context]
                                             ELSE None

(* Mutant: the expiry is checked when the rule is added, not when used.    *)
CheckAuthStale(rule_id, signers, context) ==
  /\ rule_id \in DOMAIN rules
  /\ Matches(rules[rule_id].context_type, context)
  /\ SignersSuffice(rule_id, signers)
  /\ authorized' = {Account}
  /\ NoteSigners(signers, context)

check_auth(rule_id, signers, context) ==
  /\ rule_id \in DOMAIN rules
  /\ Matches(rules[rule_id].context_type, context)
  /\ Unexpired(rules[rule_id])
  /\ SignersSuffice(rule_id, signers)
  /\ authorized' = {Account}
  /\ NoteSigners(signers, context)

(* A call on a target, or through the account's own `execute`.  The rule's *)
(* session policy, if it has one, is asked too.                            *)
Call(rule_id, signers, contract, fn_name) ==
  /\ check_auth(rule_id, signers, Invoke(contract, fn_name))
  /\ IF "session" \in rules[rule_id].policies
       THEN Session!enforce(Invoke(contract, fn_name), rules[rule_id].signers \cap signers,
                            SessionKey(rule_id))
       ELSE UNCHANGED <<sessionVars, ledger>>
  /\ UNCHANGED <<ruleVars, code, registryVars>>

(* require_auth of the account for one of its own entry points: rules that *)
(* match it carry no session policy.                                       *)
SelfAuth(rule_id, signers, fn_name) == check_auth(rule_id, signers, Invoke(Account, fn_name))

-----------------------------------------------------------------------------
(* Context rules.  `fns` is the session policy's list, <<>> for none.      *)

add_context_rule(context_type, valid_until, signers, fns) ==
  /\ next_id \in RuleIds
  /\ signers # {}
  /\ valid_until # None => valid_until >= ledger
  /\ rules' = With(rules, next_id,
       [context_type |-> context_type, signers |-> signers, valid_until |-> valid_until,
        policies |-> IF fns = <<>> THEN {} ELSE {"session"}])
  /\ next_id' = next_id + 1
  /\ IF fns = <<>> THEN UNCHANGED <<sessionVars, ledger>>
                   ELSE Session!install(context_type.variant, fns, SessionKey(next_id))
  /\ UNCHANGED <<threshold, code, registryVars>>

(* A policy is uninstalled; one whose entry is gone has nothing to remove. *)
UninstallPolicy(rule_id, policy) ==
  /\ threshold' = IF policy = "threshold" THEN Without(threshold, rule_id) ELSE threshold
  /\ IF policy = "session" /\ Session!Has(SessionKey(rule_id))
       THEN Session!uninstall(SessionKey(rule_id))
       ELSE UNCHANGED <<sessionVars, ledger>>

(* A rule carries at most one policy here.                                 *)
remove_context_rule(rule_id) ==
  /\ rule_id \in DOMAIN rules
  /\ rules' = Without(rules, rule_id)
  /\ UninstallPolicy(rule_id, IF rules[rule_id].policies = {} THEN None
                              ELSE CHOOSE policy \in rules[rule_id].policies : TRUE)
  /\ UNCHANGED <<next_id, code, registryVars>>

batch_add_signer(rule_id, signers) ==
  /\ rule_id \in DOMAIN rules
  /\ signers # {} /\ signers \cap rules[rule_id].signers = {}
  /\ rules' = [rules EXCEPT ![rule_id].signers = @ \cup signers]
  /\ UNCHANGED <<next_id, threshold, code, registryVars, sessionVars, ledger>>

(* Mutant: the last signer of a rule may go.                               *)
RemoveSignerAny(rule_id, signer) ==
  /\ rule_id \in DOMAIN rules
  /\ signer \in rules[rule_id].signers
  /\ rules' = [rules EXCEPT ![rule_id].signers = @ \ {signer}]
  /\ UNCHANGED <<next_id, threshold, code, registryVars, sessionVars, ledger>>

(* Only the last signer of a rule without a policy is kept.                *)
remove_signer(rule_id, signer) ==
  /\ rule_id \in DOMAIN rules
  /\ signer \in rules[rule_id].signers
  /\ rules[rule_id].signers # {signer} \/ rules[rule_id].policies # {}
  /\ rules' = [rules EXCEPT ![rule_id].signers = @ \ {signer}]
  /\ UNCHANGED <<next_id, threshold, code, registryVars, sessionVars, ledger>>

add_policy(rule_id, fns) ==
  /\ rule_id \in DOMAIN rules
  /\ rules[rule_id].policies = {}
  /\ rules' = [rules EXCEPT ![rule_id].policies = {"session"}]
  /\ Session!install(rules[rule_id].context_type.variant, fns, SessionKey(rule_id))
  /\ UNCHANGED <<next_id, threshold, code, registryVars>>

remove_policy(rule_id, policy) ==
  /\ rule_id \in DOMAIN rules
  /\ policy \in rules[rule_id].policies
  /\ rules[rule_id].signers # {}
  /\ rules' = [rules EXCEPT ![rule_id].policies = @ \ {policy}]
  /\ UninstallPolicy(rule_id, policy)
  /\ UNCHANGED <<next_id, code, registryVars>>

(* ThresholdPolicy::set_threshold checks the new threshold against the     *)
(* rule the caller passes, which need not be the rule as it is now.        *)
set_threshold(rule_id, new_threshold, context_rule_signers) ==
  /\ rule_id \in DOMAIN threshold
  /\ new_threshold \in 1..Cardinality(context_rule_signers)
  /\ threshold' = [threshold EXCEPT ![rule_id] = new_threshold]
  /\ UNCHANGED <<rules, next_id, code, registryVars, sessionVars, ledger>>

(* The owners call the session policy directly, past the account's rules,  *)
(* with a context rule of their own making: it need not be one the account *)
(* has, and the account does not learn of the call.                        *)
DirectInstall(rule_id, fns) ==
  /\ Session!install("CallContract", fns, SessionKey(rule_id))
  /\ UNCHANGED <<ruleVars, code, registryVars>>

DirectUninstall(rule_id) ==
  Session!uninstall(SessionKey(rule_id)) /\ UNCHANGED <<ruleVars, code, registryVars>>

upgrade(new_wasm_hash) ==
  /\ code' = new_wasm_hash
  /\ UNCHANGED <<ruleVars, registryVars, sessionVars, ledger>>

-----------------------------------------------------------------------------
(* The registry of deployed contracts.  An address stands for the salt it  *)
(* is derived from; the host deploys nothing over an existing contract.    *)

(* Mutant: the record is written at the new count.                         *)
DeployContractOffByOne(wasm_hash, salt) ==
  /\ \A i \in DOMAIN satellites : satellites[i].address # salt
  /\ count < U32_MAX
  /\ count' = count + 1
  /\ records' = With(records, count + 1, [address |-> salt, wasm_hash |-> wasm_hash])
  /\ record_live_until' = With(record_live_until, count + 1, ledger)
  /\ satellites' = Append(satellites, [address |-> salt, wasm_hash |-> wasm_hash])
  /\ UNCHANGED <<ruleVars, code, sessionVars, ledger>>

deploy_contract(wasm_hash, salt) ==
  /\ \A i \in DOMAIN satellites : satellites[i].address # salt
  /\ count < U32_MAX
  /\ count' = count + 1
  /\ records' = With(records, count, [address |-> salt, wasm_hash |-> wasm_hash])
  /\ record_live_until' = With(record_live_until, count,
       ExtendTtl(FreshLiveUntil(ledger, MIN_PERSISTENT_TTL), ledger,
                 SMART_ACCOUNT_TTL_THRESHOLD, SMART_ACCOUNT_EXTEND_AMOUNT))
  /\ satellites' = Append(satellites, [address |-> salt, wasm_hash |-> wasm_hash])
  /\ UNCHANGED <<ruleVars, code, sessionVars, ledger>>

(* get_deployed_contract does not panic; anyone may call it.               *)
get_deployed_contract(index) ==
  /\ index \in DOMAIN records /\ IsLive(record_live_until[index], ledger)
  /\ record_live_until' = [record_live_until EXCEPT
       ![index] = ExtendTtl(@, ledger, SMART_ACCOUNT_TTL_THRESHOLD, SMART_ACCOUNT_EXTEND_AMOUNT)]
  /\ UNCHANGED <<ruleVars, code, count, records, satellites, sessionVars, ledger>>

RestoreRecord(index) ==
  /\ index \in DOMAIN records /\ ~IsLive(record_live_until[index], ledger)
  /\ record_live_until' = [record_live_until EXCEPT
       ![index] = FreshLiveUntil(ledger, MIN_PERSISTENT_TTL)]
  /\ UNCHANGED <<ruleVars, code, count, records, satellites, sessionVars, ledger>>

-----------------------------------------------------------------------------
(* The state __constructor leaves.                                         *)
Init ==
  /\ rules = [id \in {0} |->
       [context_type |-> DefaultType, signers |-> InitOwners, valid_until |-> None,
        policies |-> {"threshold"}]]
  /\ next_id = 1
  /\ threshold = [id \in {0} |-> InitThreshold]
  /\ code = None
  /\ count = 0
  /\ records = [index \in {} |-> None] /\ record_live_until = [index \in {} |-> 0]
  /\ satellites = <<>>
  /\ session_auth = None
  /\ Session!Init

(* The entry points that change the account, with what they are given.     *)
Management(rule_id, signers) ==
  \/ /\ SelfAuth(rule_id, signers, "add_context_rule")
     /\ \E context_type \in RuleTypes, until \in {None, ledger}, fns \in Session!FnLists :
          \E keys \in SUBSET KeysFor(context_type) :
            add_context_rule(context_type, until, keys, fns)
  \/ /\ SelfAuth(rule_id, signers, "upgrade")
     /\ \E hash \in WasmHashes : upgrade(hash)
  \/ \E id \in DOMAIN rules :
       \/ SelfAuth(rule_id, signers, "remove_context_rule") /\ remove_context_rule(id)
       \/ /\ SelfAuth(rule_id, signers, "batch_add_signer")
          /\ \E keys \in SUBSET KeysFor(rules[id].context_type) : batch_add_signer(id, keys)
       \/ /\ SelfAuth(rule_id, signers, "remove_signer")
          /\ \E signer \in rules[id].signers : remove_signer(id, signer)
       \/ /\ SelfAuth(rule_id, signers, "add_policy")
          /\ \E fns \in Session!FnLists : add_policy(id, fns)
       \/ /\ SelfAuth(rule_id, signers, "remove_policy")
          /\ \E policy \in rules[id].policies : remove_policy(id, policy)
       \/ /\ check_auth(rule_id, signers, Invoke(ThresholdPolicy, "set_threshold"))
          /\ \E keys \in SUBSET Owners, new_threshold \in 1..Cardinality(Owners) :
               set_threshold(id, new_threshold, keys)
  \/ /\ check_auth(rule_id, signers, Invoke(SessionContract, "install"))
     /\ \E id \in DirectIds, fns \in Session!FnLists : DirectInstall(id, fns)
  \/ /\ check_auth(rule_id, signers, Invoke(SessionContract, "uninstall"))
     /\ \E id \in RuleIds : DirectUninstall(id)

(* What needs no signature of the account.                                 *)
Unsigned ==
  /\ authorized' = {} /\ session_auth' = None
  /\ \/ \E index \in DOMAIN records : get_deployed_contract(index) \/ RestoreRecord(index)
     \/ \E id \in RuleIds :
          /\ \/ Session!get_allowed_fns(SessionKey(id)) /\ UNCHANGED <<passed, ledger>>
             \/ Session!Restore(SessionKey(id)) /\ UNCHANGED ledger
          /\ UNCHANGED <<ruleVars, code, registryVars>>
     \/ Session!CloseLedger /\ UNCHANGED <<ruleVars, code, registryVars>>

Next ==
  \/ \E signers \in SUBSET Signers, rule_id \in DOMAIN rules :
       \/ Management(rule_id, signers)
       \/ \E target \in Targets, fn_name \in FnNames : Call(rule_id, signers, target, fn_name)
       \/ Call(rule_id, signers, Account, "execute")
       \/ \E wasm_hash \in WasmHashes, salt \in Salts :
            check_auth(rule_id, signers, Create(wasm_hash)) /\ deploy_contract(wasm_hash, salt)
  \/ Unsigned

Spec == Init /\ [][Next]_vars

-----------------------------------------------------------------------------
(* Every rule keeps a signer or a policy, every threshold is positive, and *)
(* no rule has an id that is still to be given.                            *)
TypeOK ==
  /\ DOMAIN rules \subseteq 0..(next_id - 1) /\ next_id \in 1..MaxRules
  /\ \A id \in DOMAIN rules :
       /\ rules[id].context_type \in RuleTypes
       /\ rules[id].signers \subseteq KeysFor(rules[id].context_type)
       /\ rules[id].policies \subseteq {"threshold", "session"}
       /\ rules[id].signers # {} \/ rules[id].policies # {}
  /\ DOMAIN threshold \subseteq DOMAIN rules
  /\ \A id \in DOMAIN threshold : threshold[id] \in 1..Cardinality(Owners)
  /\ count \in 0..U32_MAX
  /\ DOMAIN record_live_until = DOMAIN records

(* The registry holds what the account deployed, in order and completely:  *)
(* clients find every satellite at an index below the count, whatever was  *)
(* archived, restored or upgraded in between.                              *)
RegistryFaithful ==
  /\ count = Len(satellites)
  /\ DOMAIN records = 0..(count - 1)
  /\ \A index \in DOMAIN records : records[index] = satellites[index + 1]
  /\ \A i, j \in DOMAIN satellites :
       satellites[i].address = satellites[j].address => i = j

(* A transaction that carries no owner's signature changes no rule, no     *)
(* threshold, no list of a session policy and not the account's code,      *)
(* whichever rules exist beside each other.                                *)
NoEscalation ==
  [][session_auth' # None => UNCHANGED <<ruleVars, code, store>>]_vars

(* What the owners have left open to session keys: the functions of a      *)
(* target by a CallContract rule in force, those its session policy lists  *)
(* if it has one; the Wasm of a CreateContract rule in force.              *)
OpenTo(signers) ==
  LET Reached(id) ==
        /\ Unexpired(rules[id])
        /\ rules[id].signers \cap signers # {} /\ rules[id].context_type # DefaultType
      Listed(id, fn_name) ==
        "session" \in rules[id].policies =>
          SessionKey(id) \in DOMAIN store /\ Session!Lists(store[SessionKey(id)], fn_name)
      Opened(id) ==
        IF rules[id].context_type.variant = "CallContract"
          THEN {Invoke(rules[id].context_type.contract, fn_name) :
                  fn_name \in {f \in FnNames : Listed(id, f)}}
          ELSE {Create(rules[id].context_type.wasm_hash)}
  IN  UNION {Opened(id) : id \in {i \in DOMAIN rules : Reached(i)}}

(* Session keys without an owner get only such contexts authorized: never  *)
(* one of a rule that has expired or was removed, of another target, or of *)
(* a session policy's list that is gone.                                   *)
SessionConfined ==
  [][session_auth' # None => session_auth'.context \in OpenTo(session_auth'.signers)]_vars

(* No Default rule can be met any more, whoever signs.                     *)
LockedOut ==
  \A id \in DOMAIN rules :
    rules[id].context_type = DefaultType =>
      \/ ~Unexpired(rules[id])
      \/ /\ "threshold" \in rules[id].policies
         /\ threshold[id] > Cardinality(rules[id].signers)

(* The account's documentation: a threshold above the number of signers    *)
(* locks the account permanently.  No session key, no restored entry and   *)
(* no direct call of a policy lets anybody change it again.                *)
LockoutPermanent == [][LockedOut => LockedOut' /\ UNCHANGED <<ruleVars, code, store>>]_vars

(* What a rule grants through the session policy: calls of its own target, *)
(* to the functions listed for its id, while the rule carries the policy   *)
(* and the list exists.                                                    *)
InForce ==
  {key \in DOMAIN store : key[2] \in DOMAIN rules /\ "session" \in rules[key[2]].policies}
GrantedBy(key) ==
  {Invoke(rules[key[2]].context_type.contract, fn_name) :
     fn_name \in {f \in FnNames : Session!Lists(store[key], f)}}

(* Account and session policy together keep the promise of PolicyLifecycle *)
(* although each keeps its half of the state: rule and list are added and  *)
(* removed one at a time, by the account or past it, archived and          *)
(* restored, and yet what passes was granted by both, a grant in force is  *)
(* never replaced, and nobody but the account makes or ends one.           *)
Lifecycle == INSTANCE PolicyLifecycle WITH
  Keys <- {Account} \X RuleIds,
  Calls <- {Invoke(target, fn_name) : target \in Targets, fn_name \in FnNames},
  Replaceable <- FALSE,
  grant <- [key \in InForce |-> GrantedBy(key)]

RulesKeepPromise == Lifecycle!Spec
=============================================================================

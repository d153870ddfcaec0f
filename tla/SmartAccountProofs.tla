------------------------ MODULE SmartAccountProofs ------------------------
(***************************************************************************)
(* Theorems about the smart account, for every set of owners, session      *)
(* keys, targets and functions and any number of rules.                    *)
(***************************************************************************)
EXTENDS SmartAccount, FiniteSetTheorems, TLAPS

(* What the properties rest on beside the types: a rule carries at most    *)
(* one policy, a session policy only where install accepts it, and the     *)
(* threshold policy has an entry exactly for the rules that carry it.      *)
RuleRecords ==
  [context_type : RuleTypes, signers : SUBSET Signers, valid_until : Nat \cup {None},
   policies : {{}, {"threshold"}, {"session"}}]

RuleInv ==
  /\ ledger \in Nat
  /\ rules \in [DOMAIN rules -> RuleRecords]
  /\ \A id \in DOMAIN rules :
       "session" \in rules[id].policies => rules[id].context_type.variant = "CallContract"
  /\ DOMAIN threshold = {id \in DOMAIN rules : "threshold" \in rules[id].policies}

IInv == TypeOK /\ RuleInv

-----------------------------------------------------------------------------
LEMMA VariantLemma ==
  ASSUME NEW t \in RuleTypes
  PROVE  \/ t = DefaultType /\ t.variant = "Default"
         \/ \E target \in Targets :
              t = [variant |-> "CallContract", contract |-> target]
              /\ t.variant = "CallContract" /\ t.contract = target
         \/ \E hash \in WasmHashes :
              t = [variant |-> "CreateContract", wasm_hash |-> hash]
              /\ t.variant = "CreateContract" /\ t.wasm_hash = hash
  BY DEF RuleTypes, DefaultType

(* A Default rule is met only with the signature of an owner.              *)
LEMMA DefaultNeedsOwner ==
  ASSUME IInv, NEW id \in DOMAIN rules, NEW signers \in SUBSET Signers,
         rules[id].context_type = DefaultType, SignersSuffice(id, signers)
  PROVE  signers \cap Owners # {}
<1> USE DEF IInv
<1>1. rules[id] \in RuleRecords /\ rules[id].signers \subseteq Owners
  BY DEF RuleInv, TypeOK, KeysFor
<1>2. "session" \notin rules[id].policies
  BY DEF RuleInv, DefaultType
<1>3. CASE rules[id].policies = {}
  <2>1. rules[id].signers # {} /\ rules[id].signers \subseteq signers
    BY <1>3 DEF TypeOK, SignersSuffice
  <2>2. QED
    BY <1>1, <2>1
<1>4. CASE rules[id].policies = {"threshold"}
  <2>1. id \in DOMAIN threshold /\ Cardinality(rules[id].signers \cap signers) >= threshold[id]
    BY <1>4 DEF SignersSuffice
  <2>2. threshold[id] \in Nat /\ threshold[id] >= 1
    BY <2>1 DEF TypeOK
  <2>3. rules[id].signers \cap signers # {}
    BY <2>1, <2>2, FS_EmptySet
  <2>4. QED
    BY <1>1, <2>3
<1>5. QED
  BY <1>1, <1>2, <1>3, <1>4 DEF RuleRecords

(* Only Default rules match the account's own entry points and those of    *)
(* the policies.                                                           *)
LEMMA OutsideNeedsDefault ==
  ASSUME IInv, NEW id \in DOMAIN rules, NEW contract, NEW fn_name, contract \notin Targets,
         Matches(rules[id].context_type, Invoke(contract, fn_name))
  PROVE  rules[id].context_type = DefaultType
<1>1. rules[id].context_type \in RuleTypes
  BY DEF IInv, TypeOK
<1>2. /\ Invoke(contract, fn_name).variant = "Contract"
      /\ Invoke(contract, fn_name).contract = contract
  BY DEF Invoke
<1> DEFINE t == rules[id].context_type
           c == Invoke(contract, fn_name)
<1>3. ASSUME NEW target \in Targets, t.variant = "CallContract", t.contract = target
      PROVE  FALSE
  BY <1>2, <1>3 DEF Matches
<1>4. ASSUME t.variant = "CreateContract"
      PROVE  FALSE
  BY <1>2, <1>4 DEF Matches
<1> HIDE DEF t, c
<1>5. t \in RuleTypes
  BY <1>1 DEF t
<1>6. t = DefaultType
  BY <1>3, <1>4, <1>5, VariantLemma
<1>7. QED
  BY <1>6 DEF t

(* So whatever manages the account is signed by an owner.                  *)
LEMMA OutsideNeedsOwner ==
  ASSUME IInv, NEW id \in DOMAIN rules, NEW signers \in SUBSET Signers,
         NEW contract, NEW fn_name, contract \notin Targets,
         check_auth(id, signers, Invoke(contract, fn_name))
  PROVE  /\ rules[id].context_type = DefaultType /\ Unexpired(rules[id])
         /\ SignersSuffice(id, signers)
         /\ session_auth' = None
<1>1. rules[id].context_type = DefaultType
  BY OutsideNeedsDefault DEF check_auth
<1>2. signers \cap Owners # {}
  BY <1>1, DefaultNeedsOwner DEF check_auth
<1>3. QED
  BY <1>1, <1>2 DEF check_auth, NoteSigners

-----------------------------------------------------------------------------
LEMMA InvInit == Init => IInv
<1> SUFFICES ASSUME Init PROVE IInv
  OBVIOUS
<1> USE AccountAssumption
<1>1. InitThreshold \in 1..Cardinality(Owners)
  <2>1. IsFiniteSet(InitOwners) /\ Cardinality(InitOwners) <= Cardinality(Owners)
    BY FS_Subset
  <2>2. Cardinality(InitOwners) \in Nat /\ Cardinality(Owners) \in Nat
    BY <2>1, FS_CardinalityType
  <2>3. QED
    BY <2>1, <2>2
<1>2. RuleInv
  BY DEF Init, RuleInv, RuleRecords, RuleTypes, DefaultType, Signers,
         Session!Init, Session!StoreInit
<1>3. TypeOK
  BY <1>1 DEF Init, TypeOK, RuleTypes, DefaultType, KeysFor
<1>4. QED
  BY <1>2, <1>3 DEF IInv

(* Adding or overwriting a rule.                                           *)
LEMMA PutRule ==
  ASSUME IInv, NEW id \in 0..(next_id' - 1), NEW rule \in RuleRecords,
         next_id' \in 1..MaxRules, next_id <= next_id',
         rules' = With(rules, id, rule),
         rule.signers \subseteq KeysFor(rule.context_type),
         rule.signers # {} \/ rule.policies # {},
         "session" \in rule.policies => rule.context_type.variant = "CallContract",
         DOMAIN threshold' \ {id} = DOMAIN threshold \ {id},
         id \in DOMAIN threshold' <=> "threshold" \in rule.policies,
         \A i \in DOMAIN threshold' : threshold'[i] \in 1..Cardinality(Owners),
         ledger' = ledger, count' = count, records' = records,
         record_live_until' = record_live_until
  PROVE  IInv'
<1> USE DEF IInv
<1>1. /\ DOMAIN rules' = DOMAIN rules \cup {id}
      /\ rules'[id] = rule
      /\ \A i \in DOMAIN rules \ {id} : rules'[i] = rules[i]
      /\ rules' \in [DOMAIN rules' -> RuleRecords]
  BY DEF With, RuleInv
<1>2. DOMAIN threshold' = {i \in DOMAIN rules' : "threshold" \in rules'[i].policies}
  BY <1>1 DEF RuleInv
<1>3. RuleInv'
  BY <1>1, <1>2 DEF RuleInv
<1>4. DOMAIN rules' \subseteq 0..(next_id' - 1)
  BY <1>1 DEF TypeOK
<1>5. \A i \in DOMAIN rules' :
        /\ rules'[i].context_type \in RuleTypes
        /\ rules'[i].signers \subseteq KeysFor(rules'[i].context_type)
        /\ rules'[i].policies \subseteq {"threshold", "session"}
        /\ rules'[i].signers # {} \/ rules'[i].policies # {}
  BY <1>1 DEF TypeOK, RuleRecords
<1>6. TypeOK'
  BY <1>2, <1>4, <1>5 DEF TypeOK
<1>7. QED
  BY <1>3, <1>6

(* Changing one field of a rule is putting the changed rule in its place.  *)
LEMMA ChangeRule ==
  ASSUME IInv, NEW id \in DOMAIN rules
  PROVE  /\ rules[id] \in RuleRecords
         /\ \A keys \in SUBSET Signers :
              LET rule == [rules[id] EXCEPT !.signers = keys]
              IN  /\ [rules EXCEPT ![id].signers = keys] = With(rules, id, rule)
                  /\ rule \in RuleRecords
                  /\ rule.signers = keys /\ rule.policies = rules[id].policies
                  /\ rule.context_type = rules[id].context_type
         /\ \A policies \in {{}, {"threshold"}, {"session"}} :
              LET rule == [rules[id] EXCEPT !.policies = policies]
              IN  /\ [rules EXCEPT ![id].policies = policies] = With(rules, id, rule)
                  /\ rule \in RuleRecords
                  /\ rule.signers = rules[id].signers /\ rule.policies = policies
                  /\ rule.context_type = rules[id].context_type
<1>1. rules[id] \in RuleRecords /\ rules \in [DOMAIN rules -> RuleRecords]
  BY DEF IInv, RuleInv
<1>2. ASSUME NEW keys \in SUBSET Signers
      PROVE  LET rule == [rules[id] EXCEPT !.signers = keys]
             IN  /\ [rules EXCEPT ![id].signers = keys] = With(rules, id, rule)
                 /\ rule \in RuleRecords
                 /\ rule.signers = keys /\ rule.policies = rules[id].policies
                 /\ rule.context_type = rules[id].context_type
  BY <1>1 DEF RuleRecords, With
<1>3. ASSUME NEW policies \in {{}, {"threshold"}, {"session"}}
      PROVE  LET rule == [rules[id] EXCEPT !.policies = policies]
             IN  /\ [rules EXCEPT ![id].policies = policies] = With(rules, id, rule)
                 /\ rule \in RuleRecords
                 /\ rule.signers = rules[id].signers /\ rule.policies = policies
                 /\ rule.context_type = rules[id].context_type
  BY <1>1 DEF RuleRecords, With
<1>4. QED
  BY <1>1, <1>2, <1>3

(* A rule in place keeps the facts PutRule asks for but for its own.       *)
LEMMA InPlace ==
  ASSUME IInv, NEW id \in DOMAIN rules
  PROVE  /\ id \in 0..(next_id - 1) /\ next_id \in 1..MaxRules /\ next_id <= next_id
         /\ id \in DOMAIN threshold <=> "threshold" \in rules[id].policies
         /\ \A i \in DOMAIN threshold : threshold[i] \in 1..Cardinality(Owners)
         /\ "session" \in rules[id].policies => rules[id].context_type.variant = "CallContract"
  BY DEF IInv, TypeOK, RuleInv

LEMMA AddRuleStep ==
  ASSUME IInv, NEW context_type \in RuleTypes, NEW until \in {None, ledger},
         NEW fns, NEW keys \in SUBSET KeysFor(context_type),
         add_context_rule(context_type, until, keys, fns)
  PROVE  IInv'
<1> DEFINE rule == [context_type |-> context_type, signers |-> keys, valid_until |-> until,
                    policies |-> IF fns = <<>> THEN {} ELSE {"session"}]
<1>1. next_id \in 0..(MaxRules - 1) /\ next_id' = next_id + 1 /\ next_id \in Nat
  BY DEF add_context_rule, RuleIds
<1>2. next_id \in 0..(next_id' - 1) /\ next_id' \in 1..MaxRules /\ next_id <= next_id'
  BY <1>1, AccountAssumption
<1>3. rule \in RuleRecords /\ rule.signers # {} /\ rule.signers \subseteq KeysFor(rule.context_type)
  BY DEF add_context_rule, RuleRecords, KeysFor, Signers, IInv, RuleInv
<1>4. rules' = With(rules, next_id, rule)
  BY DEF add_context_rule
<1>5. "session" \in rule.policies => context_type.variant = "CallContract"
  BY DEF add_context_rule, Session!install
<1>6. ledger' = ledger
  BY DEF add_context_rule, Session!install
<1>7. /\ threshold' = threshold /\ count' = count /\ records' = records
      /\ record_live_until' = record_live_until
  BY DEF add_context_rule, registryVars
<1>8. /\ next_id \notin DOMAIN threshold
      /\ \A i \in DOMAIN threshold : threshold[i] \in 1..Cardinality(Owners)
  BY <1>1 DEF IInv, TypeOK
<1>9. "threshold" \notin rule.policies
  OBVIOUS
<1>10. rule.context_type = context_type
  OBVIOUS
<1> HIDE DEF rule
<1>11. QED
  BY <1>2, <1>3, <1>4, <1>5, <1>6, <1>7, <1>8, <1>9, <1>10, PutRule

(* What becomes of the threshold policy's entries when a policy goes.      *)
LEMMA UninstallLemma ==
  ASSUME IInv, NEW id \in DOMAIN rules, NEW policy, UninstallPolicy(id, policy),
         policy \in rules[id].policies \/ rules[id].policies = {}
  PROVE  /\ DOMAIN threshold' = DOMAIN threshold \ {id}
         /\ \A i \in DOMAIN threshold' : threshold'[i] \in 1..Cardinality(Owners)
         /\ ledger' = ledger
<1>1. rules[id].policies \in {{}, {"threshold"}, {"session"}}
  BY DEF IInv, RuleInv, RuleRecords
<1>2. id \in DOMAIN threshold <=> "threshold" \in rules[id].policies
  BY DEF IInv, RuleInv
<1>3. \A i \in DOMAIN threshold : threshold[i] \in 1..Cardinality(Owners)
  BY DEF IInv, TypeOK
<1>4. ledger' = ledger
  BY DEF UninstallPolicy, Session!uninstall
<1>5. threshold' = Without(threshold, id) \/ (threshold' = threshold /\ id \notin DOMAIN threshold)
  BY <1>1, <1>2 DEF UninstallPolicy
<1>6. QED
  BY <1>3, <1>4, <1>5 DEF Without

LEMMA RemoveRuleStep ==
  ASSUME IInv, NEW id \in DOMAIN rules, remove_context_rule(id)
  PROVE  IInv'
<1> USE DEF IInv
<1>1. /\ DOMAIN threshold' = DOMAIN threshold \ {id}
      /\ \A i \in DOMAIN threshold' : threshold'[i] \in 1..Cardinality(Owners)
      /\ ledger' = ledger
  BY UninstallLemma DEF remove_context_rule
<1>2. /\ DOMAIN rules' = DOMAIN rules \ {id}
      /\ \A i \in DOMAIN rules' : rules'[i] = rules[i]
      /\ rules' \in [DOMAIN rules' -> RuleRecords]
  BY DEF remove_context_rule, Without, RuleInv
<1>3. RuleInv'
  BY <1>1, <1>2 DEF RuleInv
<1>4. TypeOK'
  BY <1>1, <1>2 DEF TypeOK, remove_context_rule, registryVars
<1>5. QED
  BY <1>3, <1>4

LEMMA AddSignerStep ==
  ASSUME IInv, NEW id \in DOMAIN rules, NEW keys \in SUBSET KeysFor(rules[id].context_type),
         batch_add_signer(id, keys)
  PROVE  IInv'
<1> DEFINE rule == [rules[id] EXCEPT !.signers = rules[id].signers \cup keys]
<1>1. rules[id].signers \cup keys \in SUBSET KeysFor(rules[id].context_type)
  BY DEF IInv, TypeOK
<1>2. rules[id].signers \cup keys \in SUBSET Signers
  BY <1>1 DEF KeysFor, Signers
<1>3. /\ rules' = With(rules, id, rule) /\ rule \in RuleRecords
      /\ rule.signers = rules[id].signers \cup keys /\ rule.policies = rules[id].policies
      /\ rule.context_type = rules[id].context_type
  BY <1>2, ChangeRule DEF batch_add_signer
<1> HIDE DEF rule
<1>4. rule.signers # {}
  BY <1>3 DEF batch_add_signer
<1>5. UNCHANGED <<next_id, threshold, count, records, record_live_until, ledger>>
  BY DEF batch_add_signer, registryVars
<1>6. QED
  BY <1>1, <1>3, <1>4, <1>5, InPlace, PutRule

LEMMA RemoveSignerStep ==
  ASSUME IInv, NEW id \in DOMAIN rules, NEW signer, remove_signer(id, signer)
  PROVE  IInv'
<1> DEFINE rule == [rules[id] EXCEPT !.signers = rules[id].signers \ {signer}]
<1>1. rules[id].signers \ {signer} \in SUBSET KeysFor(rules[id].context_type)
  BY DEF IInv, TypeOK
<1>2. rules[id].signers \ {signer} \in SUBSET Signers
  BY <1>1 DEF KeysFor, Signers
<1>3. /\ rules' = With(rules, id, rule) /\ rule \in RuleRecords
      /\ rule.signers = rules[id].signers \ {signer} /\ rule.policies = rules[id].policies
      /\ rule.context_type = rules[id].context_type
  BY <1>2, ChangeRule DEF remove_signer
<1>4. rule.signers # {} \/ rule.policies # {}
  BY <1>3 DEF remove_signer
<1> HIDE DEF rule
<1>5. UNCHANGED <<next_id, threshold, count, records, record_live_until, ledger>>
  BY DEF remove_signer, registryVars
<1>6. QED
  BY <1>1, <1>3, <1>4, <1>5, InPlace, PutRule

LEMMA AddPolicyStep ==
  ASSUME IInv, NEW id \in DOMAIN rules, NEW fns, add_policy(id, fns)
  PROVE  IInv'
<1> DEFINE rule == [rules[id] EXCEPT !.policies = {"session"}]
<1>1. /\ rules' = With(rules, id, rule) /\ rule \in RuleRecords
      /\ rule.signers = rules[id].signers /\ rule.policies = {"session"}
      /\ rule.context_type = rules[id].context_type
  BY ChangeRule DEF add_policy
<1>2. ledger' = ledger /\ rules[id].context_type.variant = "CallContract"
  BY DEF add_policy, Session!install
<1>3. id \notin DOMAIN threshold
  BY DEF add_policy, IInv, RuleInv
<1> HIDE DEF rule
<1>4. UNCHANGED <<next_id, threshold, count, records, record_live_until>>
  BY DEF add_policy, registryVars
<1>5. rules[id].signers \subseteq KeysFor(rules[id].context_type)
  BY DEF IInv, TypeOK
<1>6. QED
  BY <1>1, <1>2, <1>3, <1>4, <1>5, InPlace, PutRule

LEMMA RemovePolicyStep ==
  ASSUME IInv, NEW id \in DOMAIN rules, NEW policy, remove_policy(id, policy)
  PROVE  IInv'
<1> DEFINE rule == [rules[id] EXCEPT !.policies = {}]
<1>1. rules[id].policies \ {policy} = {}
  BY DEF remove_policy, IInv, RuleInv, RuleRecords
<1>2. /\ rules' = With(rules, id, rule) /\ rule \in RuleRecords
      /\ rule.signers = rules[id].signers /\ rule.policies = {}
      /\ rule.context_type = rules[id].context_type
  BY <1>1, ChangeRule DEF remove_policy
<1>3. /\ DOMAIN threshold' = DOMAIN threshold \ {id}
      /\ \A i \in DOMAIN threshold' : threshold'[i] \in 1..Cardinality(Owners)
      /\ ledger' = ledger
  BY UninstallLemma DEF remove_policy
<1> HIDE DEF rule
<1>4. UNCHANGED <<next_id, count, records, record_live_until>>
  BY DEF remove_policy, registryVars
<1>5. rules[id].signers # {} /\ rules[id].signers \subseteq KeysFor(rules[id].context_type)
  BY DEF IInv, TypeOK, remove_policy
<1>6. QED
  BY <1>2, <1>3, <1>4, <1>5, InPlace, PutRule

LEMMA SetThresholdStep ==
  ASSUME IInv, NEW id \in DOMAIN rules, NEW keys,
         NEW new_threshold \in 1..Cardinality(Owners), set_threshold(id, new_threshold, keys)
  PROVE  IInv'
<1>1. /\ DOMAIN threshold' = DOMAIN threshold
      /\ \A i \in DOMAIN threshold' : threshold'[i] \in 1..Cardinality(Owners)
  BY DEF set_threshold, IInv, TypeOK
<1>2. QED
  BY <1>1 DEF set_threshold, registryVars, IInv, TypeOK, RuleInv

(* Steps that leave the rules alone.                                       *)
LEMMA SameRules ==
  ASSUME IInv, UNCHANGED ruleVars, ledger' \in Nat, count' \in 0..U32_MAX,
         DOMAIN record_live_until' = DOMAIN records'
  PROVE  IInv'
  BY DEF IInv, TypeOK, RuleInv, ruleVars

LEMMA DeployStep ==
  ASSUME IInv, NEW wasm_hash, NEW salt, deploy_contract(wasm_hash, salt)
  PROVE  IInv'
<1>1. count' \in 0..U32_MAX
  BY AccountAssumption DEF deploy_contract, IInv, TypeOK
<1>2. DOMAIN record_live_until' = DOMAIN records'
  BY DEF deploy_contract, With, IInv, TypeOK
<1>3. QED
  BY <1>1, <1>2, SameRules DEF deploy_contract, IInv, RuleInv

LEMMA UnsignedStep ==
  ASSUME IInv, Unsigned
  PROVE  IInv' /\ UNCHANGED <<ruleVars, code, store>> /\ ledger' >= ledger
<1>0. count \in 0..U32_MAX /\ DOMAIN record_live_until = DOMAIN records /\ ledger \in Nat
  BY DEF IInv, TypeOK, RuleInv
<1>1. ASSUME NEW index, get_deployed_contract(index) \/ RestoreRecord(index)
      PROVE  IInv' /\ UNCHANGED <<ruleVars, code, store>> /\ ledger' >= ledger
  <2>1. /\ UNCHANGED <<ruleVars, code, count, records, sessionVars, ledger>>
        /\ DOMAIN record_live_until' = DOMAIN record_live_until
    BY <1>1 DEF get_deployed_contract, RestoreRecord
  <2>2. UNCHANGED store
    BY <2>1 DEF sessionVars
  <2>3. QED
    BY <1>0, <2>1, <2>2, SameRules
<1>2. ASSUME UNCHANGED <<ruleVars, code, registryVars>>, ledger' \in Nat, ledger' >= ledger,
             UNCHANGED store
      PROVE  IInv' /\ UNCHANGED <<ruleVars, code, store>> /\ ledger' >= ledger
  BY <1>0, <1>2, SameRules DEF registryVars
<1>3. ASSUME NEW key, Session!get_allowed_fns(key) \/ Session!Restore(key)
      PROVE  UNCHANGED store
  BY <1>3 DEF Session!get_allowed_fns, Session!Read, Session!Restore
<1>4. ASSUME Session!CloseLedger
      PROVE  ledger' \in Nat /\ ledger' >= ledger /\ UNCHANGED store
  BY <1>0, <1>4, AccountAssumption DEF Session!CloseLedger
<1>5. QED
  BY <1>0, <1>1, <1>2, <1>3, <1>4 DEF Unsigned

LEMMA CallStep ==
  ASSUME IInv, NEW rule_id, NEW signers, NEW contract, NEW fn_name,
         Call(rule_id, signers, contract, fn_name)
  PROVE  IInv' /\ UNCHANGED <<ruleVars, code, registryVars, store, ledger>>
<1>1. UNCHANGED <<store, ledger>>
  BY DEF Call, sessionVars, Session!enforce, Session!get_allowed_fns, Session!Read
<1>2. UNCHANGED <<ruleVars, code, registryVars>>
  BY DEF Call
<1>3. count \in 0..U32_MAX /\ DOMAIN record_live_until = DOMAIN records /\ ledger \in Nat
  BY DEF IInv, TypeOK, RuleInv
<1>4. QED
  BY <1>1, <1>2, <1>3, SameRules DEF registryVars

(* A management step is authorized through a Default rule, by an owner,    *)
(* and leaves the registry alone.                                          *)
LEMMA ManagementStep ==
  ASSUME IInv, NEW rule_id \in DOMAIN rules, NEW signers \in SUBSET Signers,
         Management(rule_id, signers)
  PROVE  /\ rules[rule_id].context_type = DefaultType /\ Unexpired(rules[rule_id])
         /\ SignersSuffice(rule_id, signers)
         /\ session_auth' = None
         /\ IInv' /\ UNCHANGED registryVars
<1> DEFINE Authorized ==
      /\ rules[rule_id].context_type = DefaultType /\ Unexpired(rules[rule_id])
      /\ SignersSuffice(rule_id, signers)
      /\ session_auth' = None
<1>1. Account \notin Targets /\ ThresholdPolicy \notin Targets /\ SessionContract \notin Targets
  BY AccountAssumption
<1>2. ASSUME NEW fn_name, SelfAuth(rule_id, signers, fn_name)
      PROVE  Authorized
  BY <1>1, <1>2, OutsideNeedsOwner DEF SelfAuth
<1>3. ASSUME check_auth(rule_id, signers, Invoke(ThresholdPolicy, "set_threshold"))
      PROVE  Authorized
  BY <1>1, <1>3, OutsideNeedsOwner
<1>4. ASSUME NEW fn_name, check_auth(rule_id, signers, Invoke(SessionContract, fn_name))
      PROVE  Authorized
  BY <1>1, <1>4, OutsideNeedsOwner
<1>5. Authorized
  <2> HIDE DEF Authorized
  <2>1. QED
    BY <1>2, <1>3, <1>4 DEF Management
<1> HIDE DEF Authorized
<1>0. count \in 0..U32_MAX /\ DOMAIN record_live_until = DOMAIN records /\ ledger \in Nat
  BY DEF IInv, TypeOK, RuleInv
<1>6. ASSUME NEW context_type \in RuleTypes, NEW until \in {None, ledger}, NEW fns,
             NEW keys \in SUBSET KeysFor(context_type),
             add_context_rule(context_type, until, keys, fns)
      PROVE  IInv' /\ UNCHANGED registryVars
  BY <1>6, AddRuleStep DEF add_context_rule
<1>7. ASSUME NEW hash, upgrade(hash)
      PROVE  IInv' /\ UNCHANGED registryVars
  <2>1. UNCHANGED <<ruleVars, registryVars, ledger>>
    BY <1>7 DEF upgrade
  <2>2. QED
    BY <1>0, <2>1, SameRules DEF registryVars
<1>8. ASSUME NEW id \in DOMAIN rules
      PROVE  /\ remove_context_rule(id) => IInv' /\ UNCHANGED registryVars
             /\ \A keys \in SUBSET KeysFor(rules[id].context_type) :
                  batch_add_signer(id, keys) => IInv' /\ UNCHANGED registryVars
             /\ \A signer : remove_signer(id, signer) => IInv' /\ UNCHANGED registryVars
             /\ \A fns : add_policy(id, fns) => IInv' /\ UNCHANGED registryVars
             /\ \A policy : remove_policy(id, policy) => IInv' /\ UNCHANGED registryVars
  <2>1. remove_context_rule(id) => IInv' /\ UNCHANGED registryVars
    BY RemoveRuleStep DEF remove_context_rule
  <2>2. \A keys \in SUBSET KeysFor(rules[id].context_type) :
          batch_add_signer(id, keys) => IInv' /\ UNCHANGED registryVars
    BY AddSignerStep DEF batch_add_signer
  <2>3. \A signer : remove_signer(id, signer) => IInv' /\ UNCHANGED registryVars
    BY RemoveSignerStep DEF remove_signer
  <2>4. \A fns : add_policy(id, fns) => IInv' /\ UNCHANGED registryVars
    BY AddPolicyStep DEF add_policy
  <2>5. \A policy : remove_policy(id, policy) => IInv' /\ UNCHANGED registryVars
    BY RemovePolicyStep DEF remove_policy
  <2>6. QED
    BY <2>1, <2>2, <2>3, <2>4, <2>5
<1>9. ASSUME NEW id \in DOMAIN rules, NEW keys, NEW new_threshold \in 1..Cardinality(Owners),
             set_threshold(id, new_threshold, keys)
      PROVE  IInv' /\ UNCHANGED registryVars
  BY <1>9, SetThresholdStep DEF set_threshold
<1>10. ASSUME NEW id, NEW fns, DirectInstall(id, fns) \/ DirectUninstall(id)
       PROVE  IInv' /\ UNCHANGED registryVars
  <2>1. UNCHANGED <<ruleVars, registryVars, ledger>>
    BY <1>10 DEF DirectInstall, DirectUninstall, Session!install, Session!uninstall
  <2>2. QED
    BY <1>0, <2>1, SameRules DEF registryVars
<1>11. IInv' /\ UNCHANGED registryVars
  BY <1>6, <1>7, <1>8, <1>9, <1>10 DEF Management
<1>12. QED
  BY <1>5, <1>11 DEF Authorized

LEMMA InvStep == IInv /\ [Next]_vars => IInv'
<1> SUFFICES ASSUME IInv, [Next]_vars PROVE IInv'
  OBVIOUS
<1>1. CASE UNCHANGED vars
  <2>1. UNCHANGED <<ruleVars, registryVars, ledger>>
    BY <1>1 DEF vars
  <2>2. QED
    BY <2>1, SameRules DEF registryVars, IInv, TypeOK, RuleInv
<1>2. CASE Unsigned
  BY <1>2, UnsignedStep
<1>3. ASSUME NEW signers \in SUBSET Signers, NEW rule_id \in DOMAIN rules,
             \/ Management(rule_id, signers)
             \/ \E contract, fn_name : Call(rule_id, signers, contract, fn_name)
             \/ \E wasm_hash, salt : deploy_contract(wasm_hash, salt)
      PROVE  IInv'
  BY <1>3, ManagementStep, CallStep, DeployStep
<1>4. QED
  BY <1>1, <1>2, <1>3 DEF Next

(* Every rule keeps a signer or a policy, its keys are of the kind its     *)
(* type is given, and a threshold belongs to a rule and is positive,       *)
(* through every management call, deployment and call of a session key.    *)
THEOREM TypeCorrect == Spec => []TypeOK
<1>1. IInv => TypeOK
  BY DEF IInv
<1>2. QED
  BY <1>1, InvInit, InvStep, PTL DEF Spec

-----------------------------------------------------------------------------
(* Who signs what.                                                         *)

EscalationStep == session_auth' # None => UNCHANGED <<ruleVars, code, store>>

LEMMA EscalationLemma == IInv /\ [Next]_vars => (EscalationStep \/ UNCHANGED vars)
<1> SUFFICES ASSUME IInv, Next, session_auth' # None
             PROVE  UNCHANGED <<ruleVars, code, store>>
  BY DEF EscalationStep
<1>1. CASE Unsigned
  BY <1>1, UnsignedStep
<1>2. ASSUME NEW signers \in SUBSET Signers, NEW rule_id \in DOMAIN rules,
             Management(rule_id, signers)
      PROVE  FALSE
  BY <1>2, ManagementStep
<1>3. ASSUME NEW rule_id, NEW signers, NEW contract, NEW fn_name,
             Call(rule_id, signers, contract, fn_name)
      PROVE  UNCHANGED <<ruleVars, code, store>>
  BY <1>3, CallStep
<1>4. ASSUME NEW wasm_hash, NEW salt, deploy_contract(wasm_hash, salt)
      PROVE  UNCHANGED <<ruleVars, code, store>>
  BY <1>4 DEF deploy_contract, sessionVars
<1>5. QED
  BY <1>1, <1>2, <1>3, <1>4 DEF Next

(* Session keys never manage the account: a transaction without an owner's *)
(* signature leaves rules, thresholds, session lists and code alone,       *)
(* whatever rules exist and whichever of them it names to __check_auth.    *)
THEOREM EscalationCorrect == Spec => NoEscalation
<1>1. IInv /\ [Next]_vars => [EscalationStep]_vars
  BY EscalationLemma
<1>2. QED
  BY <1>1, InvInit, InvStep, PTL DEF Spec, NoEscalation, EscalationStep

(* The signers a rule other than Default is met with include one of its    *)
(* own, where the session policy has been asked if the rule carries it.    *)
LEMMA SessionRuleSigned ==
  ASSUME IInv, NEW id \in DOMAIN rules, NEW signers, SignersSuffice(id, signers),
         "session" \in rules[id].policies => rules[id].signers \cap signers # {}
  PROVE  rules[id].signers \cap signers # {}
<1>1. rules[id].policies \in {{}, {"threshold"}, {"session"}}
  BY DEF IInv, RuleInv, RuleRecords
<1>2. CASE rules[id].policies = {}
  BY <1>2 DEF IInv, TypeOK, SignersSuffice
<1>3. CASE rules[id].policies = {"threshold"}
  <2>1. id \in DOMAIN threshold /\ Cardinality(rules[id].signers \cap signers) >= threshold[id]
    BY <1>3 DEF SignersSuffice
  <2>2. threshold[id] \in Nat /\ threshold[id] >= 1
    BY <2>1 DEF IInv, TypeOK
  <2>3. QED
    BY <2>1, <2>2, FS_EmptySet
<1>4. QED
  BY <1>1, <1>2, <1>3

LEMMA CallConfined ==
  ASSUME IInv, NEW signers \in SUBSET Signers, NEW id \in DOMAIN rules,
         NEW target, NEW fn_name \in FnNames, signers \cap Owners = {},
         Call(id, signers, target, fn_name)
  PROVE  Invoke(target, fn_name) \in OpenTo(signers)
<1> DEFINE c == Invoke(target, fn_name)
<1>1. /\ check_auth(id, signers, c) /\ SignersSuffice(id, signers) /\ Unexpired(rules[id])
      /\ Matches(rules[id].context_type, c)
  BY DEF Call, check_auth
<1>2. rules[id].context_type # DefaultType
  BY <1>1, DefaultNeedsOwner
<1>3. c.variant = "Contract" /\ c.contract = target
  BY DEF Invoke
<1>4. rules[id].context_type \in RuleTypes
  BY DEF IInv, TypeOK
<1>5. /\ rules[id].context_type.variant = "CallContract"
      /\ rules[id].context_type.contract = target
  <2>1. rules[id].context_type.variant # "CreateContract"
    BY <1>1, <1>3 DEF Matches
  <2>2. rules[id].context_type.variant = "CallContract"
    BY <1>2, <1>4, <2>1, VariantLemma
  <2>3. QED
    BY <1>1, <1>3, <2>2 DEF Matches
<1>6. "session" \in rules[id].policies =>
        /\ SessionKey(id) \in DOMAIN store
        /\ Session!Lists(store[SessionKey(id)], fn_name)
        /\ rules[id].signers \cap signers # {}
  BY DEF Call, Session!enforce, Session!get_allowed_fns, Session!Has, Invoke
<1>7. rules[id].signers \cap signers # {}
  BY <1>1, <1>6, SessionRuleSigned
<1> HIDE DEF c
<1>8. c = Invoke(rules[id].context_type.contract, fn_name)
  BY <1>5 DEF c
<1>9. c \in OpenTo(signers)
  BY <1>1, <1>2, <1>5, <1>6, <1>7, <1>8 DEF OpenTo
<1>10. QED
  BY <1>9 DEF c

LEMMA CreateConfined ==
  ASSUME IInv, NEW signers \in SUBSET Signers, NEW id \in DOMAIN rules,
         NEW wasm_hash, signers \cap Owners = {},
         check_auth(id, signers, Create(wasm_hash))
  PROVE  Create(wasm_hash) \in OpenTo(signers)
<1> DEFINE c == Create(wasm_hash)
<1>1. /\ SignersSuffice(id, signers) /\ Unexpired(rules[id])
      /\ Matches(rules[id].context_type, c)
  BY DEF check_auth
<1>2. rules[id].context_type # DefaultType
  BY <1>1, DefaultNeedsOwner
<1>3. c.variant = "CreateContractHostFn" /\ c.wasm_hash = wasm_hash
  BY DEF Create
<1>4. rules[id].context_type \in RuleTypes
  BY DEF IInv, TypeOK
<1>5. /\ rules[id].context_type.variant = "CreateContract"
      /\ rules[id].context_type.wasm_hash = wasm_hash
  <2>1. rules[id].context_type.variant # "CallContract"
    BY <1>1, <1>3 DEF Matches
  <2>2. rules[id].context_type.variant = "CreateContract"
    BY <1>2, <1>4, <2>1, VariantLemma
  <2>3. QED
    BY <1>1, <1>3, <2>2 DEF Matches
<1>6. "session" \notin rules[id].policies
  BY <1>5 DEF IInv, RuleInv
<1>7. rules[id].signers \cap signers # {}
  BY <1>1, <1>6, SessionRuleSigned
<1> HIDE DEF c
<1>8. c = Create(rules[id].context_type.wasm_hash)
  BY <1>5 DEF c
<1>9. c \in OpenTo(signers)
  BY <1>1, <1>2, <1>5, <1>7, <1>8 DEF OpenTo
<1>10. QED
  BY <1>9 DEF c

ConfinedStep == session_auth' # None => session_auth'.context \in OpenTo(session_auth'.signers)

LEMMA ConfinedLemma == IInv /\ [Next]_vars => (ConfinedStep \/ UNCHANGED vars)
<1> SUFFICES ASSUME IInv, Next, session_auth' # None
             PROVE  session_auth'.context \in OpenTo(session_auth'.signers)
  BY DEF ConfinedStep
<1>0. ASSUME NEW id, NEW signers, NEW context, check_auth(id, signers, context)
      PROVE  /\ signers \cap Owners = {}
             /\ session_auth'.signers = signers /\ session_auth'.context = context
  BY <1>0 DEF check_auth, NoteSigners
<1>1. CASE Unsigned
  BY <1>1 DEF Unsigned
<1>2. ASSUME NEW signers \in SUBSET Signers, NEW rule_id \in DOMAIN rules,
             Management(rule_id, signers)
      PROVE  FALSE
  BY <1>2, ManagementStep
<1>3. ASSUME NEW signers \in SUBSET Signers, NEW rule_id \in DOMAIN rules,
             NEW target \in Targets, NEW fn_name \in FnNames,
             Call(rule_id, signers, target, fn_name)
      PROVE  session_auth'.context \in OpenTo(session_auth'.signers)
  <2>1. check_auth(rule_id, signers, Invoke(target, fn_name))
    BY <1>3 DEF Call
  <2>2. QED
    BY <1>0, <1>3, <2>1, CallConfined
<1>4. ASSUME NEW signers \in SUBSET Signers, NEW rule_id \in DOMAIN rules,
             Call(rule_id, signers, Account, "execute")
      PROVE  FALSE
  <2>1. check_auth(rule_id, signers, Invoke(Account, "execute"))
    BY <1>4 DEF Call
  <2>2. QED
    BY <2>1, OutsideNeedsOwner, AccountAssumption
<1>5. ASSUME NEW signers \in SUBSET Signers, NEW rule_id \in DOMAIN rules,
             NEW wasm_hash, check_auth(rule_id, signers, Create(wasm_hash))
      PROVE  session_auth'.context \in OpenTo(session_auth'.signers)
  BY <1>0, <1>5, CreateConfined
<1>6. QED
  BY <1>1, <1>2, <1>3, <1>4, <1>5 DEF Next

(* What session keys get authorized lies inside what the owners have left  *)
(* open to them at that moment: a rule in force, its target, the functions *)
(* its session policy lists, or its Wasm.                                  *)
THEOREM ConfinedCorrect == Spec => SessionConfined
<1>1. IInv /\ [Next]_vars => [ConfinedStep]_vars
  BY ConfinedLemma
<1>2. QED
  BY <1>1, InvInit, InvStep, PTL DEF Spec, SessionConfined, ConfinedStep

-----------------------------------------------------------------------------
(* Lock-out.                                                               *)

LEMMA LockedNeedsNobody ==
  ASSUME IInv, LockedOut, NEW id \in DOMAIN rules, NEW signers,
         rules[id].context_type = DefaultType, Unexpired(rules[id])
  PROVE  ~SignersSuffice(id, signers)
<1> SUFFICES ASSUME SignersSuffice(id, signers) PROVE FALSE
  OBVIOUS
<1>1. "threshold" \in rules[id].policies /\ threshold[id] > Cardinality(rules[id].signers)
  BY DEF LockedOut
<1>2. id \in DOMAIN threshold /\ Cardinality(rules[id].signers \cap signers) >= threshold[id]
  BY <1>1 DEF SignersSuffice
<1>3. threshold[id] \in Nat
  BY <1>2 DEF IInv, TypeOK
<1>4. rules[id].signers \subseteq Owners
  BY DEF IInv, TypeOK, KeysFor
<1>5. IsFiniteSet(rules[id].signers)
  BY <1>4, FS_Subset, AccountAssumption
<1>6. /\ Cardinality(rules[id].signers \cap signers) <= Cardinality(rules[id].signers)
      /\ Cardinality(rules[id].signers \cap signers) \in Nat
      /\ Cardinality(rules[id].signers) \in Nat
  <2>1. rules[id].signers \cap signers \subseteq rules[id].signers
    OBVIOUS
  <2>2. QED
    BY <1>5, <2>1, FS_Subset, FS_CardinalityType
<1>7. QED
  BY <1>1, <1>2, <1>3, <1>6

(* With the rules as they are, later ledgers open nothing.                 *)
LEMMA LockedStays ==
  ASSUME IInv, LockedOut, UNCHANGED <<rules, threshold>>, ledger' \in Nat, ledger' >= ledger
  PROVE  LockedOut'
<1>1. ASSUME NEW id \in DOMAIN rules, ~Unexpired(rules[id])
      PROVE  ~Unexpired(rules[id])'
  <2>1. rules[id].valid_until \in Nat \cup {None} /\ ledger \in Nat
    BY DEF IInv, RuleInv, RuleRecords
  <2>2. QED
    BY <1>1, <2>1 DEF Unexpired
<1>2. QED
  BY <1>1 DEF LockedOut

LockoutStep == LockedOut => LockedOut' /\ UNCHANGED <<ruleVars, code, store>>

LEMMA LockoutLemma == IInv /\ [Next]_vars => (LockoutStep \/ UNCHANGED vars)
<1> SUFFICES ASSUME IInv, Next, LockedOut
             PROVE  LockedOut' /\ UNCHANGED <<ruleVars, code, store>>
  BY DEF LockoutStep
<1>0. IInv' /\ ledger' \in Nat
  BY InvStep DEF IInv, RuleInv
<1>1. UNCHANGED <<ruleVars, code, store>> /\ ledger' >= ledger
  <2>0. ledger \in Nat
    BY DEF IInv, RuleInv
  <2>1. CASE Unsigned
    BY <2>1, UnsignedStep
  <2>2. ASSUME NEW signers \in SUBSET Signers, NEW rule_id \in DOMAIN rules,
               Management(rule_id, signers)
        PROVE  FALSE
    BY <2>2, ManagementStep, LockedNeedsNobody
  <2>3. ASSUME NEW rule_id, NEW signers, NEW contract, NEW fn_name,
               Call(rule_id, signers, contract, fn_name)
        PROVE  UNCHANGED <<ruleVars, code, store>> /\ ledger' >= ledger
    BY <2>0, <2>3, CallStep
  <2>4. ASSUME NEW wasm_hash, NEW salt, deploy_contract(wasm_hash, salt)
        PROVE  UNCHANGED <<ruleVars, code, store>> /\ ledger' >= ledger
    BY <2>0, <2>4 DEF deploy_contract, sessionVars
  <2>5. QED
    BY <2>1, <2>2, <2>3, <2>4 DEF Next
<1>2. UNCHANGED <<rules, threshold>>
  BY <1>1 DEF ruleVars
<1>3. QED
  BY <1>0, <1>1, <1>2, LockedStays

(* An account whose Default rules have all expired or ask for more signers *)
(* than they have is locked for good: no transaction, of whoever signs,    *)
(* changes its rules, thresholds, session lists or code again.             *)
THEOREM LockoutCorrect == Spec => LockoutPermanent
<1>1. IInv /\ [Next]_vars => [LockoutStep]_vars
  BY LockoutLemma
<1>2. QED
  BY <1>1, InvInit, InvStep, PTL DEF Spec, LockoutPermanent, LockoutStep

-----------------------------------------------------------------------------
(* The registry.                                                           *)

RegistryInv ==
  /\ satellites \in Seq([address : Salts, wasm_hash : WasmHashes])
  /\ RegistryFaithful

LEMMA RegistryInit == Init => RegistryInv
  BY DEF Init, RegistryInv, RegistryFaithful

LEMMA RegistryDeploy ==
  ASSUME RegistryInv, NEW wasm_hash \in WasmHashes, NEW salt \in Salts,
         deploy_contract(wasm_hash, salt)
  PROVE  RegistryInv'
<1> DEFINE satellite == [address |-> salt, wasm_hash |-> wasm_hash]
<1>1. satellite \in [address : Salts, wasm_hash : WasmHashes] /\ satellite.address = salt
  OBVIOUS
<1>2. satellites' = Append(satellites, satellite) /\ count' = count + 1
  BY DEF deploy_contract
<1>3. /\ satellites' \in Seq([address : Salts, wasm_hash : WasmHashes])
      /\ Len(satellites') = Len(satellites) + 1
      /\ DOMAIN satellites' = 1..(Len(satellites) + 1)
      /\ \A i \in 1..Len(satellites) : satellites'[i] = satellites[i]
      /\ satellites'[Len(satellites) + 1] = satellite
  BY <1>1, <1>2 DEF RegistryInv
<1>4. count = Len(satellites) /\ count \in Nat /\ DOMAIN satellites = 1..count
  BY DEF RegistryInv, RegistryFaithful
<1>5. /\ DOMAIN records' = DOMAIN records \cup {count}
      /\ records'[count] = satellite
      /\ \A index \in DOMAIN records \ {count} : records'[index] = records[index]
  BY DEF deploy_contract, With
<1>6. DOMAIN records' = 0..(count' - 1)
  BY <1>2, <1>4, <1>5 DEF RegistryInv, RegistryFaithful
<1>7. ASSUME NEW index \in DOMAIN records' PROVE records'[index] = satellites'[index + 1]
  <2>1. CASE index = count
    BY <1>3, <1>4, <1>5, <2>1
  <2>2. CASE index # count
    <3>1. index \in DOMAIN records /\ index \in 0..(count - 1) /\ index + 1 \in 1..Len(satellites)
      BY <1>4, <1>5, <2>2 DEF RegistryInv, RegistryFaithful
    <3>2. QED
      BY <1>3, <1>5, <2>2, <3>1 DEF RegistryInv, RegistryFaithful
  <2>3. QED
    BY <2>1, <2>2
<1>8. ASSUME NEW i \in DOMAIN satellites', NEW j \in DOMAIN satellites',
             satellites'[i].address = satellites'[j].address
      PROVE  i = j
  <2>1. \A k \in 1..count : satellites[k].address # salt
    BY <1>4 DEF deploy_contract
  <2>2. CASE i \in 1..count /\ j \in 1..count
    BY <1>3, <1>4, <1>8, <2>2 DEF RegistryInv, RegistryFaithful
  <2>3. CASE ~(i \in 1..count /\ j \in 1..count)
    BY <1>1, <1>3, <1>4, <1>8, <2>1, <2>3
  <2>4. QED
    BY <2>2, <2>3
<1>9. QED
  BY <1>2, <1>3, <1>4, <1>6, <1>7, <1>8 DEF RegistryInv, RegistryFaithful

LEMMA RegistryStep == IInv /\ RegistryInv /\ [Next]_vars => RegistryInv'
<1> SUFFICES ASSUME IInv, RegistryInv, [Next]_vars PROVE RegistryInv'
  OBVIOUS
<1>1. ASSUME UNCHANGED <<count, records, satellites>> PROVE RegistryInv'
  BY <1>1 DEF RegistryInv, RegistryFaithful
<1>2. CASE UNCHANGED vars
  BY <1>1, <1>2 DEF vars, registryVars
<1>3. CASE Unsigned
  BY <1>1, <1>3 DEF Unsigned, get_deployed_contract, RestoreRecord, registryVars
<1>4. ASSUME NEW signers \in SUBSET Signers, NEW rule_id \in DOMAIN rules,
             \/ Management(rule_id, signers)
             \/ \E contract, fn_name : Call(rule_id, signers, contract, fn_name)
      PROVE  RegistryInv'
  <2>1. UNCHANGED registryVars
    BY <1>4, ManagementStep, CallStep
  <2>2. QED
    BY <1>1, <2>1 DEF registryVars
<1>5. ASSUME NEW wasm_hash \in WasmHashes, NEW salt \in Salts,
             deploy_contract(wasm_hash, salt)
      PROVE  RegistryInv'
  BY <1>5, RegistryDeploy
<1>6. QED
  BY <1>2, <1>3, <1>4, <1>5 DEF Next

(* The registry is the list of the account's deployments, in order and     *)
(* without gaps, whatever deploy_contract, restoration, upgrades and       *)
(* management calls are interleaved.                                       *)
THEOREM RegistryCorrect == Spec => []RegistryFaithful
<1>1. RegistryInv => RegistryFaithful
  BY DEF RegistryInv
<1>2. QED
  BY <1>1, InvInit, InvStep, RegistryInit, RegistryStep, PTL DEF Spec
-----------------------------------------------------------------------------
(* The refinement of PolicyLifecycle.  Account and policy keep their state *)
(* apart, so beside the types the promise rests on this: under a key that  *)
(* no rule and list hold in force together, nothing has passed.            *)

Reachable == {Invoke(target, fn_name) : target \in Targets, fn_name \in FnNames}

Promised == [key \in InForce |-> GrantedBy(key)]

PromiseInv ==
  /\ DOMAIN store \subseteq Session!Keys
  /\ passed \in [Session!Keys -> SUBSET Reachable]
  /\ \A key \in Session!Keys \ InForce : passed[key] = {}

(* What a step may leave as it is: a rule's type and policies, a list, and *)
(* what the two of them grant.                                             *)
RuleAlike(id) ==
  /\ id \in DOMAIN rules' <=> id \in DOMAIN rules
  /\ id \in DOMAIN rules => /\ rules'[id].policies = rules[id].policies
                            /\ rules'[id].context_type = rules[id].context_type

ListAlike(key) ==
  /\ key \in DOMAIN store' <=> key \in DOMAIN store
  /\ key \in DOMAIN store => store'[key] = store[key]

GrantAlike(key) ==
  /\ key \in InForce' <=> key \in InForce
  /\ key \in InForce => GrantedBy(key)' = GrantedBy(key)

LEMMA KeyLemma ==
  /\ \A id \in RuleIds : /\ SessionKey(id) \in Session!Keys
                         /\ SessionKey(id)[1] = Account /\ SessionKey(id)[2] = id
  /\ \A key \in Session!Keys : /\ key[2] \in RuleIds /\ key = SessionKey(key[2])
                               /\ key[1] = Account
  BY DEF SessionKey, Session!Keys

LEMMA RuleIdLemma == IInv => DOMAIN rules \subseteq RuleIds
  BY AccountAssumption DEF IInv, TypeOK, RuleIds

LEMMA AlikeLemma ==
  ASSUME NEW key \in Session!Keys, RuleAlike(key[2]), ListAlike(key)
  PROVE  GrantAlike(key)
<1>1. key \in InForce' <=> key \in InForce
  BY DEF InForce, RuleAlike, ListAlike
<1>2. ASSUME key \in InForce
      PROVE  GrantedBy(key)' = GrantedBy(key)
  BY <1>2 DEF InForce, RuleAlike, ListAlike, GrantedBy
<1>3. QED
  BY <1>1, <1>2 DEF GrantAlike

(* A rule in force leads to calls of its target only.                      *)
LEMMA ReachLemma ==
  ASSUME NEW t \in RuleTypes, t.variant = "CallContract", NEW S \in SUBSET FnNames
  PROVE  {Invoke(t.contract, fn_name) : fn_name \in S} \subseteq Reachable
<1>1. t.contract \in Targets
  BY VariantLemma
<1>2. QED
  BY <1>1 DEF Reachable

LEMMA AllAlike ==
  ASSUME PromiseInv, \A key \in Session!Keys : GrantAlike(key),
         DOMAIN store' \subseteq Session!Keys, passed' = passed
  PROVE  PromiseInv' /\ UNCHANGED <<Promised, passed>>
<1>1. InForce \subseteq Session!Keys /\ InForce' \subseteq Session!Keys
  BY DEF InForce, PromiseInv
<1>2. InForce' = InForce /\ \A key \in InForce : GrantedBy(key)' = GrantedBy(key)
  BY <1>1 DEF GrantAlike
<1>3. UNCHANGED Promised
  BY <1>2 DEF Promised
<1>4. PromiseInv'
  BY <1>2 DEF PromiseInv
<1>5. QED
  BY <1>3, <1>4

(* A step that concerns one key makes its grant, ends it, or happens while *)
(* the other half of it is missing.                                        *)
LEMMA OneKey ==
  ASSUME PromiseInv, IInv', NEW id \in RuleIds,
         \A key \in Session!Keys \ {SessionKey(id)} : GrantAlike(key),
         ~(SessionKey(id) \in InForce /\ SessionKey(id) \in InForce'),
         DOMAIN store' \subseteq Session!Keys,
         passed' = [passed EXCEPT ![SessionKey(id)] = {}],
         authorized' = {Account}
  PROVE  PromiseInv' /\ [Lifecycle!Next]_<<Promised, passed>>
<1> DEFINE key == SessionKey(id)
<1>0. key \in Session!Keys /\ key[1] = Account /\ key[2] = id
  BY KeyLemma
<1>1. InForce \subseteq Session!Keys /\ InForce' \subseteq Session!Keys
  BY DEF InForce, PromiseInv
<1>2. /\ InForce' \ {key} = InForce \ {key}
      /\ \A k \in InForce \ {key} : GrantedBy(k)' = GrantedBy(k)
  BY <1>1 DEF GrantAlike
<1>3. passed' \in [Session!Keys -> SUBSET Reachable] /\ passed'[key] = {}
  BY <1>0 DEF PromiseInv
<1> HIDE DEF key
<1>4. \A k \in Session!Keys \ {key} : passed'[k] = passed[k]
  BY <1>0 DEF PromiseInv, key
<1>5. PromiseInv'
  BY <1>1, <1>2, <1>3, <1>4 DEF PromiseInv
<1>6. /\ DOMAIN Promised = InForce /\ DOMAIN Promised' = InForce'
      /\ \A k \in InForce : Promised[k] = GrantedBy(k)
      /\ \A k \in InForce' : Promised'[k] = GrantedBy(k)'
  BY DEF Promised
<1>7. CASE key \notin InForce /\ key \in InForce'
  <2>1. /\ rules'[id].context_type \in RuleTypes
        /\ rules'[id].context_type.variant = "CallContract"
    BY <1>0, <1>7 DEF InForce, IInv, TypeOK, RuleInv
  <2>2. GrantedBy(key)' \subseteq Reachable
    BY <1>0, <2>1, ReachLemma DEF GrantedBy
  <2>3. /\ key \notin DOMAIN Promised
        /\ DOMAIN Promised' = DOMAIN Promised \cup {key}
        /\ Promised'[key] \subseteq Reachable
        /\ \A k \in DOMAIN Promised \ {key} : Promised'[k] = Promised[k]
    BY <1>2, <1>6, <1>7, <2>2
  <2>4. Lifecycle!Grant(key)
    BY <2>3 DEF Lifecycle!Grant, Lifecycle!SetGrant, Promised, Reachable, key
  <2>5. QED
    BY <1>0, <1>5, <2>4 DEF Lifecycle!Next, Session!Keys
<1>8. CASE key \in InForce /\ key \notin InForce'
  <2>1. DOMAIN Promised' = DOMAIN Promised \ {key}
    BY <1>2, <1>6, <1>8
  <2>2. Promised' = [k \in DOMAIN Promised \ {key} |-> Promised[k]]
    BY <1>2, <1>6, <2>1 DEF Promised
  <2>3. Lifecycle!Revoke(key)
    BY <1>8, <2>2 DEF Lifecycle!Revoke, Promised, key
  <2>4. QED
    BY <1>0, <1>5, <2>3 DEF Lifecycle!Next, Session!Keys
<1>9. CASE key \notin InForce /\ key \notin InForce'
  <2>1. InForce' = InForce /\ Promised' = Promised
    BY <1>2, <1>9 DEF Promised
  <2>2. passed' = passed
    BY <1>0, <1>9 DEF PromiseInv, key
  <2>3. QED
    BY <1>5, <2>1, <2>2
<1>10. QED
  BY <1>7, <1>8, <1>9 DEF key
(* What the session policy's operations do to the lists.                   *)
LEMMA InstallLists ==
  ASSUME PromiseInv, NEW variant, NEW fns, NEW id \in RuleIds,
         Session!install(variant, fns, SessionKey(id))
  PROVE  /\ SessionKey(id) \notin DOMAIN store
         /\ SessionKey(id) \in DOMAIN store'
         /\ \A key \in Session!Keys \ {SessionKey(id)} : ListAlike(key)
         /\ DOMAIN store' \subseteq Session!Keys
         /\ passed' = [passed EXCEPT ![SessionKey(id)] = {}]
<1>1. SessionKey(id) \in Session!Keys
  BY KeyLemma
<1>2. QED
  BY <1>1 DEF PromiseInv, Session!install, Session!Has, Session!Put, ListAlike

LEMMA UninstallLists ==
  ASSUME PromiseInv, NEW id \in RuleIds, Session!uninstall(SessionKey(id))
  PROVE  /\ SessionKey(id) \in DOMAIN store
         /\ SessionKey(id) \notin DOMAIN store'
         /\ \A key \in Session!Keys \ {SessionKey(id)} : ListAlike(key)
         /\ DOMAIN store' \subseteq Session!Keys
         /\ passed' = [passed EXCEPT ![SessionKey(id)] = {}]
  BY DEF PromiseInv, Session!uninstall, Session!Has, Session!Remove, ListAlike

(* Steps that touch neither the lists nor what a rule grants.              *)
LEMMA ListsUntouched ==
  ASSUME PromiseInv, UNCHANGED <<store, passed>>, \A id \in RuleIds : RuleAlike(id)
  PROVE  PromiseInv' /\ [Lifecycle!Next]_<<Promised, passed>>
<1>1. \A key \in Session!Keys : ListAlike(key)
  BY DEF ListAlike
<1>2. \A key \in Session!Keys : GrantAlike(key)
  BY <1>1, KeyLemma, AlikeLemma
<1>3. PromiseInv' /\ UNCHANGED <<Promised, passed>>
  BY <1>2, AllAlike DEF PromiseInv
<1>4. QED
  BY <1>3

(* Steps that add, change or remove one rule, with its list or alone.      *)
LEMMA OneRule ==
  ASSUME PromiseInv, NEW id \in RuleIds,
         \A i \in RuleIds \ {id} : RuleAlike(i),
         \A key \in Session!Keys \ {SessionKey(id)} : ListAlike(key)
  PROVE  \A key \in Session!Keys \ {SessionKey(id)} : GrantAlike(key)
<1> SUFFICES ASSUME NEW key \in Session!Keys \ {SessionKey(id)}
             PROVE  GrantAlike(key)
  OBVIOUS
<1>1. key[2] \in RuleIds \ {id}
  BY KeyLemma
<1>2. QED
  BY <1>1, AlikeLemma

LEMMA AddRulePromise ==
  ASSUME IInv, IInv', PromiseInv, authorized' = {Account},
         NEW context_type, NEW until, NEW keys, NEW fns,
         add_context_rule(context_type, until, keys, fns)
  PROVE  PromiseInv' /\ [Lifecycle!Next]_<<Promised, passed>>
<1> DEFINE id == next_id
<1>1. id \in RuleIds /\ id \notin DOMAIN rules
  BY DEF add_context_rule, IInv, TypeOK
<1>2. \A i \in RuleIds \ {id} : RuleAlike(i)
  BY DEF add_context_rule, With, RuleAlike
<1>3. SessionKey(id) \notin InForce
  BY <1>1, KeyLemma DEF InForce
<1>4. CASE fns = <<>>
  <2>1. UNCHANGED <<store, passed>>
    BY <1>4 DEF add_context_rule, sessionVars
  <2>2. rules'[id].policies = {}
    BY <1>4 DEF add_context_rule, With
  <2>3. SessionKey(id) \notin InForce'
    BY <1>1, <2>2, KeyLemma DEF InForce
  <2>4. \A key \in Session!Keys \ {SessionKey(id)} : GrantAlike(key)
    BY <1>1, <1>2, <2>1, OneRule DEF ListAlike
  <2>5. \A key \in Session!Keys : GrantAlike(key)
    BY <1>3, <2>3, <2>4 DEF GrantAlike
  <2>6. PromiseInv' /\ UNCHANGED <<Promised, passed>>
    BY <2>1, <2>5, AllAlike DEF PromiseInv
  <2>7. QED
    BY <2>6
<1>5. CASE fns # <<>>
  <2>1. Session!install(context_type.variant, fns, SessionKey(id))
    BY <1>5 DEF add_context_rule
  <2>2. \A key \in Session!Keys \ {SessionKey(id)} : GrantAlike(key)
    BY <1>1, <1>2, <2>1, InstallLists, OneRule
  <2>3. QED
    BY <1>1, <1>3, <2>1, <2>2, InstallLists, OneKey
<1>6. QED
  BY <1>4, <1>5

LEMMA AddPolicyPromise ==
  ASSUME IInv, IInv', PromiseInv, authorized' = {Account},
         NEW id \in DOMAIN rules, NEW fns, add_policy(id, fns)
  PROVE  PromiseInv' /\ [Lifecycle!Next]_<<Promised, passed>>
<1>1. id \in RuleIds
  BY RuleIdLemma
<1>2. \A i \in RuleIds \ {id} : RuleAlike(i)
  BY DEF add_policy, RuleAlike
<1>3. SessionKey(id) \notin InForce
  BY <1>1, KeyLemma DEF InForce, add_policy
<1>4. Session!install(rules[id].context_type.variant, fns, SessionKey(id))
  BY DEF add_policy
<1>5. \A key \in Session!Keys \ {SessionKey(id)} : GrantAlike(key)
  BY <1>1, <1>2, <1>4, InstallLists, OneRule
<1>6. QED
  BY <1>1, <1>3, <1>4, <1>5, InstallLists, OneKey

(* A rule or its policy goes: with the list, or after the list has gone.   *)
LEMMA UninstallPromise ==
  ASSUME IInv, IInv', PromiseInv, authorized' = {Account},
         NEW id \in DOMAIN rules, NEW policy, UninstallPolicy(id, policy),
         "session" \in rules[id].policies => policy = "session",
         id \in DOMAIN rules' => "session" \notin rules'[id].policies,
         \A i \in RuleIds \ {id} : RuleAlike(i)
  PROVE  PromiseInv' /\ [Lifecycle!Next]_<<Promised, passed>>
<1>1. id \in RuleIds
  BY RuleIdLemma
<1>2. SessionKey(id) \notin InForce'
  BY <1>1, KeyLemma DEF InForce
<1>3. CASE policy = "session" /\ SessionKey(id) \in DOMAIN store
  <2>1. Session!uninstall(SessionKey(id))
    BY <1>3 DEF UninstallPolicy, Session!Has
  <2>2. \A key \in Session!Keys \ {SessionKey(id)} : GrantAlike(key)
    BY <1>1, <2>1, UninstallLists, OneRule
  <2>3. QED
    BY <1>1, <1>2, <2>1, <2>2, UninstallLists, OneKey
<1>4. CASE ~(policy = "session" /\ SessionKey(id) \in DOMAIN store)
  <2>1. UNCHANGED <<store, passed>>
    BY <1>4 DEF UninstallPolicy, Session!Has, sessionVars
  <2>2. SessionKey(id) \notin InForce
    BY <1>1, <1>4, KeyLemma DEF InForce
  <2>3. \A key \in Session!Keys \ {SessionKey(id)} : GrantAlike(key)
    BY <1>1, <2>1, OneRule DEF ListAlike
  <2>4. \A key \in Session!Keys : GrantAlike(key)
    BY <1>2, <2>2, <2>3 DEF GrantAlike
  <2>5. PromiseInv' /\ UNCHANGED <<Promised, passed>>
    BY <2>1, <2>4, AllAlike DEF PromiseInv
  <2>6. QED
    BY <2>5
<1>5. QED
  BY <1>3, <1>4

LEMMA RemoveRulePromise ==
  ASSUME IInv, IInv', PromiseInv, authorized' = {Account},
         NEW id \in DOMAIN rules, remove_context_rule(id)
  PROVE  PromiseInv' /\ [Lifecycle!Next]_<<Promised, passed>>
<1> DEFINE policy == IF rules[id].policies = {} THEN None
                     ELSE CHOOSE p \in rules[id].policies : TRUE
<1>1. UninstallPolicy(id, policy)
  BY DEF remove_context_rule
<1>2. rules[id].policies \in {{}, {"threshold"}, {"session"}}
  BY DEF IInv, RuleInv, RuleRecords
<1>3. "session" \in rules[id].policies => policy = "session"
  BY <1>2
<1>4. id \notin DOMAIN rules' /\ \A i \in RuleIds \ {id} : RuleAlike(i)
  BY DEF remove_context_rule, Without, RuleAlike
<1> HIDE DEF policy
<1>5. QED
  BY <1>1, <1>3, <1>4, UninstallPromise

LEMMA RemovePolicyPromise ==
  ASSUME IInv, IInv', PromiseInv, authorized' = {Account},
         NEW id \in DOMAIN rules, NEW policy, remove_policy(id, policy)
  PROVE  PromiseInv' /\ [Lifecycle!Next]_<<Promised, passed>>
<1>1. rules[id] \in RuleRecords /\ rules \in [DOMAIN rules -> RuleRecords]
  BY DEF IInv, RuleInv
<1>2. "session" \in rules[id].policies => policy = "session"
  BY <1>1 DEF remove_policy, RuleRecords
<1>3. rules'[id].policies = rules[id].policies \ {policy}
  BY <1>1 DEF remove_policy, RuleRecords
<1>4. \A i \in RuleIds \ {id} : RuleAlike(i)
  BY DEF remove_policy, RuleAlike
<1>5. UninstallPolicy(id, policy)
  BY DEF remove_policy
<1>6. QED
  BY <1>2, <1>3, <1>4, <1>5, UninstallPromise

(* The owners call the policy past the account: the list comes or goes     *)
(* under a rule that stays as it is, or under none.                        *)
LEMMA DirectPromise ==
  ASSUME IInv, IInv', PromiseInv, authorized' = {Account},
         NEW id \in RuleIds, NEW fns, DirectInstall(id, fns) \/ DirectUninstall(id)
  PROVE  PromiseInv' /\ [Lifecycle!Next]_<<Promised, passed>>
<1>1. \A i \in RuleIds : RuleAlike(i)
  BY DEF DirectInstall, DirectUninstall, ruleVars, RuleAlike
<1>2. CASE DirectInstall(id, fns)
  <2>1. Session!install("CallContract", fns, SessionKey(id))
    BY <1>2 DEF DirectInstall
  <2>2. SessionKey(id) \notin InForce
    BY <2>1, InstallLists DEF InForce
  <2>3. \A key \in Session!Keys \ {SessionKey(id)} : GrantAlike(key)
    BY <1>1, <2>1, InstallLists, OneRule
  <2>4. QED
    BY <2>1, <2>2, <2>3, InstallLists, OneKey
<1>3. CASE DirectUninstall(id)
  <2>1. Session!uninstall(SessionKey(id))
    BY <1>3 DEF DirectUninstall
  <2>2. SessionKey(id) \notin InForce'
    BY <2>1, UninstallLists DEF InForce
  <2>3. \A key \in Session!Keys \ {SessionKey(id)} : GrantAlike(key)
    BY <1>1, <2>1, UninstallLists, OneRule
  <2>4. QED
    BY <2>1, <2>2, <2>3, UninstallLists, OneKey
<1>4. QED
  BY <1>2, <1>3
(* Managing the account with the rules' types and policies left in place.  *)
LEMMA OtherPromise ==
  ASSUME IInv, PromiseInv, NEW id \in DOMAIN rules, NEW x, NEW y,
         \/ batch_add_signer(id, x) \/ remove_signer(id, x)
         \/ set_threshold(id, x, y) \/ upgrade(x)
  PROVE  PromiseInv' /\ [Lifecycle!Next]_<<Promised, passed>>
<1>1. rules \in [DOMAIN rules -> RuleRecords]
  BY DEF IInv, RuleInv
<1>2. \A i \in RuleIds : RuleAlike(i)
  BY <1>1 DEF batch_add_signer, remove_signer, set_threshold, upgrade, ruleVars,
              RuleAlike, RuleRecords
<1>3. UNCHANGED <<store, passed>>
  BY DEF batch_add_signer, remove_signer, set_threshold, upgrade, sessionVars
<1>4. QED
  BY <1>2, <1>3, ListsUntouched

LEMMA ManagementPromise ==
  ASSUME IInv, PromiseInv, NEW rule_id \in DOMAIN rules, NEW signers \in SUBSET Signers,
         Management(rule_id, signers)
  PROVE  PromiseInv' /\ [Lifecycle!Next]_<<Promised, passed>>
<1> DEFINE Kept == PromiseInv' /\ [Lifecycle!Next]_<<Promised, passed>>
<1>1. IInv'
  BY ManagementStep
<1>2. authorized' = {Account}
  BY DEF Management, SelfAuth, check_auth
<1>3. ASSUME NEW context_type, NEW until, NEW keys, NEW fns,
             add_context_rule(context_type, until, keys, fns)
      PROVE  Kept
  BY <1>1, <1>2, <1>3, AddRulePromise
<1>4. ASSUME NEW id \in DOMAIN rules, remove_context_rule(id)
      PROVE  Kept
  BY <1>1, <1>2, <1>4, RemoveRulePromise
<1>5. ASSUME NEW id \in DOMAIN rules, NEW fns, add_policy(id, fns)
      PROVE  Kept
  BY <1>1, <1>2, <1>5, AddPolicyPromise
<1>6. ASSUME NEW id \in DOMAIN rules, NEW policy, remove_policy(id, policy)
      PROVE  Kept
  BY <1>1, <1>2, <1>6, RemovePolicyPromise
<1>7. ASSUME NEW id \in RuleIds, NEW fns, DirectInstall(id, fns) \/ DirectUninstall(id)
      PROVE  Kept
  BY <1>1, <1>2, <1>7, DirectPromise
<1>8. ASSUME NEW id \in DOMAIN rules, NEW x, NEW y,
             \/ batch_add_signer(id, x) \/ remove_signer(id, x)
             \/ set_threshold(id, x, y) \/ upgrade(x)
      PROVE  Kept
  BY <1>8, OtherPromise
<1>9. DirectIds \subseteq RuleIds
  BY AccountAssumption DEF RuleIds
<1> HIDE DEF Kept
<1>10. Kept
  BY <1>3, <1>4, <1>5, <1>6, <1>7, <1>8, <1>9 DEF Management
<1>11. QED
  BY <1>10 DEF Kept

(* A call through a rule with a session policy uses the rule's grant: the  *)
(* account has checked the target, the policy the function.                *)
LEMMA CallPromise ==
  ASSUME IInv, PromiseInv, NEW rule_id \in DOMAIN rules, NEW signers, NEW contract,
         NEW fn_name, contract \in Targets => fn_name \in FnNames,
         Call(rule_id, signers, contract, fn_name)
  PROVE  PromiseInv' /\ [Lifecycle!Next]_<<Promised, passed>>
<1> DEFINE context == Invoke(contract, fn_name)
           key == SessionKey(rule_id)
<1>1. UNCHANGED rules
  BY DEF Call, ruleVars
<1>2. CASE "session" \notin rules[rule_id].policies
  <2>1. UNCHANGED <<store, passed>>
    BY <1>2 DEF Call, sessionVars
  <2>2. QED
    BY <1>1, <2>1, ListsUntouched DEF RuleAlike
<1>3. CASE "session" \in rules[rule_id].policies
  <2>1. /\ rules[rule_id].context_type \in RuleTypes
        /\ rules[rule_id].context_type.variant = "CallContract"
    BY <1>3 DEF IInv, TypeOK, RuleInv
  <2>2. /\ context.variant = "Contract" /\ context.contract = contract
        /\ context.fn_name = fn_name
    BY DEF Invoke
  <2>3. rules[rule_id].context_type.contract = contract /\ contract \in Targets
    BY <2>1, <2>2, VariantLemma DEF Call, check_auth, Matches
  <2>4. fn_name \in FnNames /\ context \in Reachable
    BY <2>3 DEF Reachable
  <2>5. Session!enforce(context, rules[rule_id].signers \cap signers, key)
    BY <1>3 DEF Call
  <2>6. rule_id \in RuleIds /\ key \in Session!Keys /\ key[1] = Account /\ key[2] = rule_id
    BY RuleIdLemma, KeyLemma
  <2> HIDE DEF key
  <2>7. /\ key \in DOMAIN store /\ UNCHANGED store
        /\ Session!Lists(store[key], fn_name)
        /\ passed' = [passed EXCEPT ![key] = @ \cup {context}]
    BY <2>2, <2>5 DEF Session!enforce, Session!get_allowed_fns, Session!Has, Session!Read
  <2>8. key \in InForce /\ context \in GrantedBy(key)
    BY <1>3, <2>3, <2>4, <2>6, <2>7 DEF InForce, GrantedBy
  <2>9. InForce' = InForce /\ Promised' = Promised
    BY <1>1, <2>7 DEF InForce, Promised, GrantedBy
  <2> HIDE DEF context
  <2>10. PromiseInv'
    <3>1. passed' \in [Session!Keys -> SUBSET Reachable]
      BY <2>4, <2>6, <2>7 DEF PromiseInv
    <3>2. \A k \in Session!Keys \ {key} : passed'[k] = passed[k]
      BY <2>6, <2>7 DEF PromiseInv
    <3>3. QED
      BY <2>7, <2>8, <2>9, <3>1, <3>2 DEF PromiseInv
  <2>11. Lifecycle!Use(key, context)
    <3>1. key \in DOMAIN Promised /\ context \in Promised[key]
      BY <2>8 DEF Promised
    <3>2. QED
      BY <2>7, <2>9, <3>1 DEF Lifecycle!Use, Promised
  <2>12. key[1] \in authorized'
    BY <2>6 DEF Call, check_auth
  <2>13. Lifecycle!Next
    BY <2>4, <2>6, <2>11, <2>12 DEF Lifecycle!Next, Reachable, Session!Keys
  <2>14. QED
    BY <2>10, <2>13
<1>4. QED
  BY <1>2, <1>3

LEMMA RulesPromiseInit == Init => PromiseInv /\ Lifecycle!Init
<1> SUFFICES ASSUME Init PROVE PromiseInv /\ Lifecycle!Init
  OBVIOUS
<1>1. DOMAIN store = {} /\ passed = [key \in Session!Keys |-> {}]
  BY DEF Init, Session!Init, Session!StoreInit
<1>2. InForce = {}
  BY <1>1 DEF InForce
<1>3. PromiseInv
  BY <1>1 DEF PromiseInv
<1>4. Lifecycle!Init
  BY <1>1, <1>2 DEF Lifecycle!Init, Session!Keys
<1>5. QED
  BY <1>3, <1>4

LEMMA RulesPromiseStep ==
  IInv /\ PromiseInv /\ [Next]_vars => PromiseInv' /\ [Lifecycle!Next]_<<Promised, passed>>
<1> SUFFICES ASSUME IInv, PromiseInv, [Next]_vars
             PROVE  PromiseInv' /\ [Lifecycle!Next]_<<Promised, passed>>
  OBVIOUS
<1> DEFINE Kept == PromiseInv' /\ [Lifecycle!Next]_<<Promised, passed>>
<1>1. ASSUME UNCHANGED <<rules, store, passed>>
      PROVE  Kept
  BY <1>1, ListsUntouched DEF RuleAlike
<1>2. ASSUME NEW signers \in SUBSET Signers, NEW rule_id \in DOMAIN rules,
             Management(rule_id, signers)
      PROVE  Kept
  BY <1>2, ManagementPromise
<1>3. ASSUME NEW signers \in SUBSET Signers, NEW rule_id \in DOMAIN rules,
             \/ \E target \in Targets, fn_name \in FnNames :
                  Call(rule_id, signers, target, fn_name)
             \/ Call(rule_id, signers, Account, "execute")
      PROVE  Kept
  BY <1>3, CallPromise, AccountAssumption
<1> HIDE DEF Kept
<1>4. UNCHANGED vars => Kept
  BY <1>1 DEF vars, ruleVars, sessionVars
<1>5. ASSUME Unsigned PROVE Kept
  <2>1. UNCHANGED <<rules, store, passed>>
    BY <1>5 DEF Unsigned, get_deployed_contract, RestoreRecord, Session!get_allowed_fns,
                Session!Read, Session!Restore, Session!CloseLedger, ruleVars, sessionVars
  <2>2. QED
    BY <1>1, <2>1
<1>6. ASSUME NEW wasm_hash, NEW salt, deploy_contract(wasm_hash, salt)
      PROVE  Kept
  BY <1>1, <1>6 DEF deploy_contract, ruleVars, sessionVars
<1>7. Kept
  BY <1>2, <1>3, <1>4, <1>5, <1>6 DEF Next
<1>8. QED
  BY <1>7 DEF Kept

(* Account and session policy together implement the abstract policy,      *)
(* although a rule and its list live in two contracts and may be added and *)
(* removed one without the other: a call passes a session rule only while  *)
(* the rule carries the policy and a list made by the account names the    *)
(* function, on the rule's own target, and no list in force is replaced.   *)
THEOREM RulesPromiseKept == Spec => RulesKeepPromise
<1>1. QED
  BY InvInit, InvStep, RulesPromiseInit, RulesPromiseStep, PTL
  DEF Spec, RulesKeepPromise, Lifecycle!Spec, Promised
=============================================================================

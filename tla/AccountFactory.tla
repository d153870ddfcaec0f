--------------------------- MODULE AccountFactory ---------------------------
(***************************************************************************)
(* The account factory: it validates and canonicalizes the signers of an   *)
(* account, derives the account's address from them before the account     *)
(* exists, and deploys it there.  Anyone may ask for any account, any      *)
(* number of times; only the parameters decide which account it is.        *)
(*                                                                         *)
(* Bytes are numbers and byte strings sequences of them, with the lengths  *)
(* of the key formats scaled down.  SHA-256 and the host's derivation of a *)
(* contract address are taken to be free of collisions: an address is the  *)
(* preimage of its salt.                                                   *)
(***************************************************************************)
EXTENDS Integers, Sequences, Bags, SorobanStorage

CONSTANTS
  Params,             \* AccountInitParams the addresses are compared over
  Requests,           \* AccountInitParams some caller asks create_account for
  Deployed,           \* addresses that have code when the factory is deployed
  Configs,            \* FactoryConfig records its constructor may be given
  None,               \* an absent threshold or configuration
  ED25519_LEN,        \* 32 in the code
  P256_LEN,           \* 65 in the code
  P256_PREFIX,        \* 0x04 in the code
  MAX_SIGNERS,        \* the account library's limit per context rule
  TTL_EXTEND,         \* 1_555_200 in the code
  TTL_THRESHOLD,      \* 100 in the code
  MIN_PERSISTENT_TTL, \* time to live the host gives a new entry
  MaxLedger           \* bound: last ledger of a behaviour

(* `code` is 0 for Delegated, 1 for External Ed25519 and 2 for External    *)
(* WebAuthn; `data` is the key data or the encoded address.                *)
AccountSignerInit == [code : 0..2, data : Seq(Nat)]

ASSUME FactoryAssumption ==
  /\ Requests \subseteq Params
  /\ \A params \in Params : params.signers \in Seq(AccountSignerInit)
  /\ None \notin Nat /\ None \notin Configs /\ None \notin Deployed
  /\ MAX_SIGNERS \in Nat \ {0}
  /\ TTL_EXTEND \in Nat /\ TTL_THRESHOLD \in Nat
  /\ MIN_PERSISTENT_TTL \in Nat \ {0}
  /\ MaxLedger \in Nat \ {0}

VARIABLES
  config,      \* DataKey::Config of the factory
  accounts,    \* the deployed accounts: address -> constructor arguments
  live_until,  \* last ledger in which the factory or an account is live
  ledger,      \* the ledger sequence number
  created,     \* the bag of AccountCreated events published
  answered     \* history variable: requests create_account has answered

vars == <<config, accounts, live_until, ledger, created, answered>>

-----------------------------------------------------------------------------
(* Signers.                                                                *)

(* Mutant: a public key without a credential id passes.                    *)
ValidSignerShapeLoose(signer) ==
  /\ signer.code = 1 => Len(signer.data) = ED25519_LEN
  /\ signer.code = 2 => Len(signer.data) >= P256_LEN /\ signer.data[1] = P256_PREFIX

(* validate_signer_shape does not panic.                                   *)
ValidSignerShape(signer) ==
  /\ signer.code = 1 => Len(signer.data) = ED25519_LEN
  /\ signer.code = 2 => Len(signer.data) > P256_LEN /\ signer.data[1] = P256_PREFIX

(* Bytes::cmp and Address::cmp: lexicographic.                             *)
LexLess(a, b) ==
  \E n \in 0..Len(a) :
    /\ n < Len(b)
    /\ \A i \in 1..n : a[i] = b[i]
    /\ n < Len(a) => a[n + 1] < b[n + 1]

(* compare_signers(left, right) = Less                                     *)
SignerLess(left, right) ==
  \/ left.code < right.code
  \/ left.code = right.code /\ LexLess(left.data, right.data)

(* Where the scan for the place of `signer` stops: at the first element    *)
(* that is not less.                                                       *)
ScanStop(canonical, signer) ==
  CHOOSE idx \in 1..(Len(canonical) + 1) :
    /\ \A i \in 1..(idx - 1) : SignerLess(canonical[i], signer)
    /\ idx <= Len(canonical) => ~SignerLess(canonical[idx], signer)

MeetsDuplicate(canonical, signer) ==
  LET idx == ScanStop(canonical, signer)
  IN  idx <= Len(canonical) /\ canonical[idx] = signer

Inserted(canonical, signer) ==
  LET idx == ScanStop(canonical, signer)
  IN  SubSeq(canonical, 1, idx - 1) \o <<signer>>
        \o SubSeq(canonical, idx, Len(canonical))

(* canonicalize_signers: the canonical list after each number of signers.  *)
Canonicals(signers) ==
  LET canonical[k \in 0..Len(signers)] ==
        IF k = 0 THEN <<>> ELSE Inserted(canonical[k - 1], signers[k])
  IN  canonical

canonicalize_signers(signers) == Canonicals(signers)[Len(signers)]

DuplicateFree(signers) ==
  \A k \in 1..Len(signers) : ~MeetsDuplicate(Canonicals(signers)[k - 1], signers[k])

-----------------------------------------------------------------------------
(* normalize_params and the salt.                                          *)

ValidThreshold(threshold, signer_count) ==
  IF signer_count = 1 THEN threshold \in {None, 1}
                      ELSE threshold \in 1..signer_count

(* normalize_params does not panic.                                        *)
Normalizable(params) ==
  /\ params.signers # <<>>
  /\ \A i \in DOMAIN params.signers : ValidSignerShape(params.signers[i])
  /\ DuplicateFree(params.signers)
  /\ ValidThreshold(params.threshold, Len(params.signers))

normalize_params(params) ==
  [signers |-> canonicalize_signers(params.signers),
   effective_threshold |-> IF Len(params.signers) = 1 THEN 1 ELSE params.threshold,
   account_salt |-> params.account_salt]

(* Mutant: signer data without its length.                                 *)
EncodedSignerBare(signer) == <<signer.code>> \o signer.data

EncodedSigner(signer) == <<signer.code, Len(signer.data)>> \o signer.data

EncodedSigners(signers) ==
  LET encoded[k \in 0..Len(signers)] ==
        IF k = 0 THEN <<>> ELSE encoded[k - 1] \o EncodedSigner(signers[k])
  IN  encoded[Len(signers)]

compute_account_deploy_salt(normalized) ==
  <<normalized.account_salt, Len(normalized.signers)>>
    \o EncodedSigners(normalized.signers) \o <<normalized.effective_threshold>>

(* The requests that get past normalize_params, what it makes of them, and *)
(* the address get_account_address answers.                                *)
ValidParams == {params \in Params : Normalizable(params)}
Normalized == [params \in ValidParams |-> normalize_params(params)]
AccountAddress ==
  [params \in ValidParams |-> compute_account_deploy_salt(Normalized[params])]

-----------------------------------------------------------------------------
(* The constructor arguments of an account and what becomes of them.       *)

build_account_signers(signers) ==
  [i \in DOMAIN signers |->
     [verifier |-> CASE signers[i].code = 0 -> None
                     [] signers[i].code = 1 -> config.ed25519_verifier
                     [] signers[i].code = 2 -> config.webauthn_verifier,
      data |-> signers[i].data]]

(* Mutant: a single-signer account gets the threshold policy as well.      *)
build_account_policies_always(threshold, signer_count) ==
  [policy \in {config.threshold_policy} |-> threshold]

build_account_policies(threshold, signer_count) ==
  [policy \in IF signer_count > 1 THEN {config.threshold_policy} ELSE {} |-> threshold]

ConstructorArgs(normalized) ==
  [signers |-> build_account_signers(normalized.signers),
   policies |-> build_account_policies(normalized.effective_threshold,
                                       Len(normalized.signers))]

(* What a verifier's canonicalize_key returns: the WebAuthn verifier drops *)
(* the credential id.                                                      *)
CanonicalKey(signer) ==
  [signer EXCEPT !.data = IF signer.verifier = config.webauthn_verifier
                            THEN SubSeq(@, 1, P256_LEN) ELSE @]

(* The account's constructor adds its first context rule, which the        *)
(* account library refuses for too many signers, when two of them have the *)
(* same canonical key, or when the threshold policy refuses to install.    *)
ConstructorAccepts(args) ==
  /\ Len(args.signers) <= MAX_SIGNERS
  /\ \A p \in DOMAIN args.policies : args.policies[p] \in 1..Len(args.signers)
  /\ \A i, j \in DOMAIN args.signers :
       i # j => CanonicalKey(args.signers[i]) # CanonicalKey(args.signers[j])

-----------------------------------------------------------------------------
(* Actions.                                                                *)

(* The factory's own address; no salt preimage is empty.                   *)
Factory == <<>>

Live(entry) == IsLive(live_until[entry], ledger)

With(f, entry, value) ==
  [x \in DOMAIN f \cup {entry} |-> IF x = entry THEN value ELSE f[x]]

SingletonsOf(cfg) ==
  {cfg.ed25519_verifier, cfg.webauthn_verifier, cfg.threshold_policy}

Construct(cfg) ==
  /\ config = None
  /\ SingletonsOf(cfg) \subseteq Deployed
  /\ config' = cfg
  /\ live_until' = With(live_until, Factory,
                        ExtendTtl(FreshLiveUntil(ledger, MIN_PERSISTENT_TTL), ledger,
                                  TTL_THRESHOLD, TTL_EXTEND))
  /\ UNCHANGED <<accounts, ledger, created, answered>>

(* get_config of a live factory refreshes its instance.                    *)
Configured == config # None /\ Live(Factory)

ExtendedInstanceTtl ==
  ExtendTtl(live_until[Factory], ledger, TTL_THRESHOLD, TTL_EXTEND)

(* Mutant: create_account does not look for an existing account.           *)
ExecutableNever(address) == FALSE

(* address.executable().is_some()                                          *)
Executable(address) == address \in DOMAIN accounts

(* Mutant: the event is forgotten.                                         *)
PublishedNothing(account) == created

(* AccountCreated { account }.publish                                      *)
Published(account) == created (+) SetToBag({account})

(* deploy_v2 fails when the address is taken or the constructor panics.    *)
CanDeploy(address, args) == address \notin DOMAIN accounts /\ ConstructorAccepts(args)

CreateAccount(params) ==
  /\ Configured
  /\ params \in ValidParams
  /\ LET address == AccountAddress[params]
         args == ConstructorArgs(Normalized[params])
     IN /\ address \in DOMAIN accounts => Live(address)
        /\ \/ /\ Executable(address)
              /\ live_until' = [live_until EXCEPT ![Factory] = ExtendedInstanceTtl]
              /\ UNCHANGED <<accounts, created>>
           \/ /\ ~Executable(address)
              /\ CanDeploy(address, args)
              /\ accounts' = With(accounts, address, args)
              /\ live_until' =
                   With([live_until EXCEPT ![Factory] = ExtendedInstanceTtl],
                        address, FreshLiveUntil(ledger, MIN_PERSISTENT_TTL))
              /\ created' = Published(address)
  /\ answered' = answered \cup {params}
  /\ UNCHANGED <<config, ledger>>

(* get_verifier, get_threshold_policy                                      *)
GetSingleton ==
  /\ Configured
  /\ live_until' = [live_until EXCEPT ![Factory] = ExtendedInstanceTtl]
  /\ UNCHANGED <<config, accounts, ledger, created, answered>>

(* RestoreFootprint on an archived contract, by anyone.                    *)
Restore(entry) ==
  /\ entry \in DOMAIN live_until
  /\ ~Live(entry)
  /\ live_until' = [live_until EXCEPT
                      ![entry] = FreshLiveUntil(ledger, MIN_PERSISTENT_TTL)]
  /\ UNCHANGED <<config, accounts, ledger, created, answered>>

CloseLedger ==
  /\ ledger < MaxLedger
  /\ ledger' = ledger + 1
  /\ UNCHANGED <<config, accounts, live_until, created, answered>>

-----------------------------------------------------------------------------
Init ==
  /\ config = None
  /\ accounts = <<>>
  /\ live_until = <<>>
  /\ ledger = 1
  /\ created = EmptyBag
  /\ answered = {}

SomeConstruct == \E cfg \in Configs : Construct(cfg)
SomeRestore == \E entry \in DOMAIN live_until : Restore(entry)

Next ==
  \/ SomeConstruct
  \/ \E params \in Requests : CreateAccount(params)
  \/ GetSingleton
  \/ SomeRestore
  \/ CloseLedger

(* The factory gets deployed, whoever asked for an account repeats the     *)
(* call until it is answered, and archived contracts are restored.         *)
Fairness ==
  /\ WF_vars(SomeConstruct)
  /\ WF_vars(SomeRestore)
  /\ \A params \in Requests : WF_vars(CreateAccount(params))

Spec == Init /\ [][Next]_vars /\ Fairness

-----------------------------------------------------------------------------
(* Properties.                                                             *)

SignerSet(params) == {params.signers[i] : i \in DOMAIN params.signers}

(* Two requests are for the same account: the same signers in any order,   *)
(* the same salt, the same threshold, where a lone signer's is always 1.   *)
SameAccount(p, q) ==
  /\ SignerSet(p) = SignerSet(q)
  /\ p.account_salt = q.account_salt
  /\ Len(p.signers) = 1 \/ p.threshold = q.threshold

(* Every deployed account has at least one signer and at most MAX_SIGNERS, *)
(* well-formed keys, and a threshold its signers can reach.  (Which key a  *)
(* signer has is seen by its verifier, and the constructor does not keep   *)
(* the two verifiers apart.)                                               *)
TypeOK ==
  /\ config = None \/ SingletonsOf(config) \subseteq Deployed
  /\ DOMAIN live_until = (IF config = None THEN {} ELSE {Factory}) \cup DOMAIN accounts
  /\ \A a \in DOMAIN accounts :
       LET args == accounts[a] IN
         /\ Len(args.signers) \in 1..MAX_SIGNERS
         /\ config.ed25519_verifier # config.webauthn_verifier =>
              \A i \in DOMAIN args.signers :
                args.signers[i].verifier = config.webauthn_verifier
                  => Len(args.signers[i].data) > P256_LEN
         /\ \A p \in DOMAIN args.policies : args.policies[p] \in 1..Len(args.signers)
  /\ ledger \in 1..MaxLedger
  /\ answered \subseteq Requests

(* The derived address is the account's identity: among all valid          *)
(* requests, those with the address of an answered one are exactly those   *)
(* for the same account.  Input order and an omitted threshold of one do   *)
(* not matter; nothing else is confused, wherever one signer's data ends   *)
(* and the next begins.                                                    *)
AddressIsIdentity ==
  \A p \in answered, q \in ValidParams :
    AccountAddress[p] = AccountAddress[q] <=> SameAccount(p, q)

(* Whoever deployed it first, an account found at the address derived from *)
(* a request has exactly the request's signers, each with the verifier of  *)
(* its kind, and the request's threshold if and only if it has several.    *)
CommittedConfiguration ==
  \A p \in ValidParams :
    AccountAddress[p] \in DOMAIN accounts =>
      LET args == accounts[AccountAddress[p]]
          verifier(code) == CASE code = 0 -> None
                              [] code = 1 -> config.ed25519_verifier
                              [] code = 2 -> config.webauthn_verifier
      IN  /\ {<<args.signers[i].verifier, args.signers[i].data>> :
                i \in DOMAIN args.signers}
               = {<<verifier(s.code), s.data>> : s \in SignerSet(p)}
          /\ Len(args.signers) = Len(p.signers)
          /\ IF Len(p.signers) = 1
               THEN DOMAIN args.policies = {}
               ELSE /\ DOMAIN args.policies = {config.threshold_policy}
                    /\ args.policies[config.threshold_policy] = p.threshold

(* AccountCreated is published once for every account, by the call that    *)
(* deployed it, however many callers raced to create it.                   *)
OneEventPerAccount == created = SetToBag(DOMAIN accounts)

(* create_account is idempotent: every request whose account can exist is  *)
(* answered in the end, also when somebody else created the account first, *)
(* with its signers in another order.                                      *)
EveryRequestAnswered ==
  \A p \in Requests \cap ValidParams :
    config # None /\ ConstructorAccepts(ConstructorArgs(Normalized[p]))
      ~> p \in answered

(* The documentation's "All validation happens before deployment": what    *)
(* the factory accepts, and derives an address for, can be deployed.       *)
ValidatedBeforeDeployment ==
  config # None =>
    \A p \in Requests \cap ValidParams :
      ConstructorAccepts(ConstructorArgs(Normalized[p]))
=============================================================================

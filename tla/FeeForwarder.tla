---------------------------- MODULE FeeForwarder ----------------------------
(***************************************************************************)
(* The fee forwarder: a relayer with the executor role submits a call the  *)
(* user has signed and collects a fee for it in a token, never more than   *)
(* the user signed for.  A user signs the fee token, the largest fee, the  *)
(* expiration of the approval and the target call, but neither the fee     *)
(* charged nor the relayer.                                                *)
(*                                                                         *)
(* The target call runs with the forwarder as the invoking contract.  Its  *)
(* effect on the fee tokens is part of the step: it may move the user's    *)
(* own tokens, what the forwarder holds, or what the forwarder may take    *)
(* under an allowance.  If it fails the whole transaction fails, the fee   *)
(* included.                                                               *)
(*                                                                         *)
(* The repository holds the contract's entry points; the fee collection,   *)
(* the token allowlist and the roles behind them are those of the          *)
(* libraries it wraps, modelled from the way this code and its tests use   *)
(* them.                                                                   *)
(***************************************************************************)
EXTENDS Integers, FiniteSetsExt, Functions

CONSTANTS
  Users, Tokens,
  Operators,        \* addresses that may hold a role
  Manager,          \* constructor argument
  Executors,        \* constructor argument
  Forwarder,
  Outside,          \* stands for every other address
  Nonces,           \* bound: the requests that are ever signed
  Requests,         \* what users sign
  Fees,             \* the values of fee_amount relayers submit
  Expirations,      \* the expiration ledgers of approvals users make themselves
  PreApprovals,     \* and their amounts
  Funds,            \* each user's balance of each token
  MaxGranted,       \* bound on what a user approves in total before such an approval
  MaxRoleChanges,   \* bound on grants and revocations
  MaxLedger         \* bound: last ledger of a behaviour

Holders == Users \cup {Forwarder, Outside}

(* What a target call does to the fee tokens; one that leaves them alone   *)
(* transfers nothing.                                                      *)
Calls ==
  [fn : {"transfer", "transfer_from"}, token : Tokens, from : Holders, to : Holders,
   amount : Nat]

(* The signed arguments of forward, and whether the user also signed the   *)
(* approval and the target call as calls nested in it.                     *)
RequestType ==
  [user : Users, fee_token : Tokens, max_fee_amount : Int, expiration_ledger : Nat,
   target : Calls, signs_approve : BOOLEAN, signs_target : BOOLEAN]

ASSUME ForwarderAssumption ==
  /\ IsFiniteSet(Nonces)
  /\ Manager \in Operators /\ Executors \subseteq Operators
  /\ {Forwarder, Outside} \cap Users = {} /\ Forwarder # Outside
  /\ Requests \subseteq RequestType /\ Fees \subseteq Int
  /\ Expirations \subseteq Nat /\ PreApprovals \subseteq Nat
  /\ Funds \in Nat /\ MaxGranted \in Nat
  /\ MaxRoleChanges \in Nat /\ MaxLedger \in Nat \ {0}

VARIABLES
  role,          \* the holders of MANAGER_ROLE and EXECUTOR_ROLE
  role_changes,  \* number of grants and revocations so far
  allowed,       \* the enabled fee tokens
  balance,       \* token balances: <<token, holder>> -> amount
  allowance,     \* what the forwarder may take: <<token, user>> -> [amount, expiration]
  signed,        \* the requests signed so far: nonce -> request
  charged,       \* the requests executed so far: nonce -> fee collected
  approved,      \* history variable: largest amount approved at once
  granted,       \* history variable: sum of all amounts approved
  swept,         \* history variable: what sweeps sent to each user
  ledger

roles == <<role, role_changes>>
requests == <<signed, charged>>
approvals == <<allowance, approved, granted>>
vars == <<roles, allowed, balance, requests, approvals, swept, ledger>>

-----------------------------------------------------------------------------
(* #[only_role(operator, name)]: the operator authorizes the call and      *)
(* holds the role.  Transactions an operator has not authorized are left   *)
(* out: they fail.                                                         *)
OnlyRole(operator, name) == operator \in role[name]

(* The allowlist is off while it is empty.                                 *)
is_allowed_fee_token(token) == allowed = {} \/ token \in allowed

(* A token moves; from and to may be the same address.                     *)
Move(balances, token, from, to, amount) ==
  LET debited == [balances EXCEPT ![<<token, from>>] = @ - amount]
  IN  [debited EXCEPT ![<<token, to>>] = @ + amount]

(* Mutant: what is taken is not counted against the allowance.             *)
SpendNothing(allowances, entry, amount) == allowances

Spend(allowances, entry, amount) == [allowances EXCEPT ![entry].amount = @ - amount]

(* What is left of an allowance; nothing after its expiration.             *)
Live(entry) == IF entry.expiration >= ledger THEN entry.amount ELSE 0

(* Mutant: an approval adds to what is left of the last one.               *)
ApprovalAdding(request) ==
  LET last == allowance[<<request.fee_token, request.user>>]
  IN  IF Live(last) >= request.max_fee_amount
        THEN last
        ELSE [amount |-> Live(last) + request.max_fee_amount,
              expiration |-> request.expiration_ledger]

(* FeeAbstractionApproval::Lazy: the user's approval replaces an allowance *)
(* that does not cover the largest fee, and only that.                     *)
NeedsApproval(request) ==
  Live(allowance[<<request.fee_token, request.user>>]) < request.max_fee_amount

Approval(request) ==
  IF NeedsApproval(request)
    THEN [amount |-> request.max_fee_amount, expiration |-> request.expiration_ledger]
    ELSE allowance[<<request.fee_token, request.user>>]

(* Mutant: a fee that is not positive passes.                              *)
FeeBoundsAnySign(fee_amount, request) == fee_amount <= request.max_fee_amount

(* The bounds on the fee.                                                  *)
FeeBounds(fee_amount, request) == fee_amount > 0 /\ fee_amount <= request.max_fee_amount

-----------------------------------------------------------------------------
(* The target call, once the fee is paid, has what it needs: the balance,  *)
(* and the authorization of the forwarder, which invokes it, or of the     *)
(* user, or the allowance.                                                 *)
TargetSucceeds(request, balances, allowances) ==
  LET call == request.target
  IN  /\ call.amount <= balances[<<call.token, call.from>>]
      /\ \/ call.fn = "transfer" /\ call.from = Forwarder
         \/ call.fn = "transfer" /\ call.from = request.user /\ request.signs_target
         \/ /\ call.fn = "transfer_from" /\ call.from \in Users
            /\ call.amount <= Live(allowances[<<call.token, call.from>>])

TargetBalances(call, balances) == Move(balances, call.token, call.from, call.to, call.amount)

TargetAllowances(call, allowances) ==
  IF call.fn = "transfer_from"
    THEN Spend(allowances, <<call.token, call.from>>, call.amount) ELSE allowances

(* Mutant: the fee is kept although the target call failed.                *)
TryInvokeTarget(request, balances, allowances) ==
  IF TargetSucceeds(request, balances, allowances)
    THEN /\ balance' = TargetBalances(request.target, balances)
         /\ allowance' = TargetAllowances(request.target, allowances)
    ELSE balance' = balances /\ allowance' = allowances

(* The call of target_contract.target_fn(target_args): it succeeds, or     *)
(* there is no step.                                                       *)
InvokeTarget(request, balances, allowances) ==
  /\ TargetSucceeds(request, balances, allowances)
  /\ balance' = TargetBalances(request.target, balances)
  /\ allowance' = TargetAllowances(request.target, allowances)

(* The history of what users approved.                                     *)
RecordApproval(entry, amount) ==
  /\ approved' = [approved EXCEPT ![entry] = Max({@, amount})]
  /\ granted' = [granted EXCEPT ![entry] = @ + amount]

(* forward, with collect_fee_and_invoke: the user's signature is consumed, *)
(* the fee moves to the forwarder, and the target call runs.               *)
forward(nonce, fee_amount, relayer) ==
  LET request == signed[nonce]
      entry == <<request.fee_token, request.user>>
      paid == Move(balance, request.fee_token, request.user, Forwarder, fee_amount)
      left == Spend([allowance EXCEPT ![entry] = Approval(request)], entry, fee_amount)
  IN  /\ OnlyRole(relayer, "executor")
      /\ nonce \in DOMAIN signed \ DOMAIN charged
      /\ is_allowed_fee_token(request.fee_token)
      /\ FeeBounds(fee_amount, request)
      /\ fee_amount <= Approval(request).amount
      /\ fee_amount <= balance[entry]
      /\ InvokeTarget(request, paid, left)
      /\ IF NeedsApproval(request)
           THEN /\ request.signs_approve /\ request.expiration_ledger >= ledger
                /\ RecordApproval(entry, request.max_fee_amount)
           ELSE UNCHANGED <<approved, granted>>
      /\ charged' = [n \in DOMAIN charged \cup {nonce} |->
                       IF n = nonce THEN fee_amount ELSE charged[n]]
      /\ UNCHANGED <<roles, allowed, signed, swept, ledger>>

enable_fee_token(token, operator) ==
  /\ OnlyRole(operator, "manager")
  /\ allowed' = allowed \cup {token}
  /\ UNCHANGED <<roles, balance, requests, approvals, swept, ledger>>

disable_fee_token(token, operator) ==
  /\ OnlyRole(operator, "manager")
  /\ allowed' = allowed \ {token}
  /\ UNCHANGED <<roles, balance, requests, approvals, swept, ledger>>

(* Any address may be the recipient, the forwarder itself included.        *)
sweep_tokens(token, recipient, operator) ==
  LET amount == balance[<<token, Forwarder>>]
  IN  /\ OnlyRole(operator, "manager")
      /\ amount > 0
      /\ balance' = Move(balance, token, Forwarder, recipient, amount)
      /\ swept' = [entry \in Tokens \X Users |->
           IF entry = <<token, recipient>> THEN swept[entry] + amount ELSE swept[entry]]
      /\ UNCHANGED <<roles, allowed, requests, approvals, ledger>>

-----------------------------------------------------------------------------
(* The admin's grant_role and revoke_role.                                 *)
ChangeRole(name, holders) ==
  /\ role_changes < MaxRoleChanges
  /\ holders # role[name]
  /\ role' = [role EXCEPT ![name] = holders]
  /\ role_changes' = role_changes + 1
  /\ UNCHANGED <<allowed, balance, requests, approvals, swept, ledger>>

grant_role(account, name) == ChangeRole(name, role[name] \cup {account})
revoke_role(account, name) == ChangeRole(name, role[name] \ {account})

(* A user signs a request, once per nonce.                                 *)
Sign(nonce, request) ==
  /\ nonce \notin DOMAIN signed
  /\ signed' = [n \in DOMAIN signed \cup {nonce} |->
                  IF n = nonce THEN request ELSE signed[n]]
  /\ UNCHANGED <<roles, allowed, balance, charged, approvals, swept, ledger>>

(* A user approves the forwarder on the token itself.                      *)
PreApprove(token, user, amount, expiration) ==
  /\ expiration >= ledger
  /\ granted[<<token, user>>] <= MaxGranted
  /\ allowance' = [allowance EXCEPT
       ![<<token, user>>] = [amount |-> amount, expiration |-> expiration]]
  /\ RecordApproval(<<token, user>>, amount)
  /\ UNCHANGED <<roles, allowed, balance, requests, swept, ledger>>

CloseLedger ==
  /\ ledger < MaxLedger
  /\ ledger' = ledger + 1
  /\ UNCHANGED <<roles, allowed, balance, requests, approvals, swept>>

-----------------------------------------------------------------------------
(* The state the constructor leaves.                                       *)
Init ==
  /\ role = [manager |-> {Manager}, executor |-> Executors]
  /\ role_changes = 0
  /\ allowed = {}
  /\ balance = [entry \in Tokens \X Holders |-> IF entry[2] \in Users THEN Funds ELSE 0]
  /\ allowance = [entry \in Tokens \X Users |-> [amount |-> 0, expiration |-> 0]]
  /\ approved = [entry \in Tokens \X Users |-> 0]
  /\ granted = [entry \in Tokens \X Users |-> 0]
  /\ swept = [entry \in Tokens \X Users |-> 0]
  /\ signed = [nonce \in {} |-> {}]
  /\ charged = [nonce \in {} |-> 0]
  /\ ledger = 1

Next ==
  \/ \E nonce \in Nonces, request \in Requests : Sign(nonce, request)
  \/ \E nonce \in Nonces, relayer \in Operators, fee_amount \in Fees :
       forward(nonce, fee_amount, relayer)
  \/ \E token \in Tokens, user \in Users, amount \in PreApprovals, expiration \in Expirations :
       PreApprove(token, user, amount, expiration)
  \/ \E token \in Tokens, operator \in Operators :
       \/ enable_fee_token(token, operator)
       \/ disable_fee_token(token, operator)
       \/ \E recipient \in Holders : sweep_tokens(token, recipient, operator)
  \/ \E account \in Operators, name \in {"manager", "executor"} :
       grant_role(account, name) \/ revoke_role(account, name)
  \/ CloseLedger

Spec == Init /\ [][Next]_vars

-----------------------------------------------------------------------------
(* Every variable has its type; no balance and no allowance is negative.   *)
TypeOK ==
  /\ role \in [{"manager", "executor"} -> SUBSET Operators]
  /\ role_changes \in 0..MaxRoleChanges
  /\ allowed \subseteq Tokens
  /\ balance \in [Tokens \X Holders -> Nat]
  /\ \A entry \in Tokens \X Users :
       {allowance[entry].amount, approved[entry], granted[entry], swept[entry]} \subseteq Nat
  /\ DOMAIN charged \subseteq DOMAIN signed /\ DOMAIN signed \subseteq Nonces
  /\ ledger \in 1..MaxLedger

(* The executed requests that were charged to a user in a token; those     *)
(* whose target call moved the user's tokens out or brought some in, and   *)
(* those whose call drew on the forwarder's allowance.                     *)
Executed(token, user) ==
  {n \in DOMAIN charged : signed[n].fee_token = token /\ signed[n].user = user}
MovedOut(token, user) ==
  {n \in DOMAIN charged : signed[n].target.token = token /\ signed[n].target.from = user}
MovedIn(token, user) ==
  {n \in DOMAIN charged : signed[n].target.token = token /\ signed[n].target.to = user}
Drawn(token, user) ==
  {n \in MovedOut(token, user) : signed[n].target.fn = "transfer_from"}

MaxFee == [n \in DOMAIN signed |-> signed[n].max_fee_amount]
TargetAmount == [n \in DOMAIN signed |-> signed[n].target.amount]

FeesPaid(token, user) == SumFunctionOnSet(charged, Executed(token, user))
FeesSigned(token, user) == SumFunctionOnSet(MaxFee, Executed(token, user))
SentByCalls(token, user) == SumFunctionOnSet(TargetAmount, MovedOut(token, user))
GotByCalls(token, user) == SumFunctionOnSet(TargetAmount, MovedIn(token, user))
DrawnByCalls(token, user) == SumFunctionOnSet(TargetAmount, Drawn(token, user))

Settled(token, user) ==
  /\ balance[<<token, user>>] =
       Funds + swept[<<token, user>>] + GotByCalls(token, user)
         - SentByCalls(token, user) - FeesPaid(token, user)
  /\ FeesPaid(token, user) <= FeesSigned(token, user)
  /\ \A n \in MovedOut(token, user) \ Drawn(token, user) :
       signed[n].user = user /\ signed[n].signs_target

(* A user's balance is what it was, with the fees of the user's own        *)
(* executed requests, the target calls of executed requests and the sweeps *)
(* applied, each once and nothing else: no fee without its call and no     *)
(* call without its fee.  Fees stay within what the user signed for, an    *)
(* allowance left over from one request never lets another one charge      *)
(* more, and a call that moves a user's tokens otherwise than under the    *)
(* allowance is one that user signed.                                      *)
ChargedAsSigned == \A token \in Tokens, user \in Users : Settled(token, user)

(* Approvals do not accumulate: what the forwarder may take from a user in *)
(* a token never exceeds the largest amount the user approved at once, in  *)
(* however many requests the approval was renewed.                         *)
AllowanceBounded ==
  \A entry \in Tokens \X Users : allowance[entry].amount <= approved[entry]

WithinApproved(token, user) ==
  FeesPaid(token, user) + DrawnByCalls(token, user) + allowance[<<token, user>>].amount
    <= granted[<<token, user>>]

(* Everything that leaves a user as a fee or by a target call that draws   *)
(* on the forwarder's allowance, whoever signed the request, and all that  *)
(* can still be taken, together stay within what the user ever approved.   *)
WithinApprovals == \A token \in Tokens, user \in Users : WithinApproved(token, user)
=============================================================================

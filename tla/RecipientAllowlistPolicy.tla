---------------------- MODULE RecipientAllowlistPolicy ----------------------
(***************************************************************************)
(* The recipient allowlist policy: the signers of its context rule may     *)
(* call only `transfer`, and only to the recipients listed.  The list may  *)
(* be replaced while the policy is installed.                              *)
(***************************************************************************)
EXTENDS Sequences, PolicyStore

CONSTANTS
  Addresses,               \* addresses that may be listed or paid
  Contexts,                \* authorization contexts enforce may be asked about
  MAX_ALLOWED_RECIPIENTS,  \* 10 in the code
  MaxListLen               \* bound: longest list of recipients submitted

ASSUME RecipientAssumption == MAX_ALLOWED_RECIPIENTS \in Nat /\ MaxListLen \in Nat

(* A call argument is a value with its type.                               *)
AddressVal(address) == [type |-> "Address", value |-> address]

ASSUME ContextsAssumption ==
  \A context \in Contexts : context.variant = "Contract" =>
    /\ Len(context.args) \in Nat /\ DOMAIN context.args = 1..Len(context.args)
    /\ \A i \in DOMAIN context.args :
         LET arg == context.args[i] IN arg = [type |-> arg.type, value |-> arg.value]

(* RecipientAccountParams and RecipientData hold a Vec<Address>.           *)
RecipientLists == UNION {[1..n -> Addresses] : n \in 0..MaxListLen}

ContextTypes == {"Default", "CallContract", "CreateContract"}

vars == storeVars

-----------------------------------------------------------------------------
ValidList(allowed_recipients) == Len(allowed_recipients) \in 1..MAX_ALLOWED_RECIPIENTS

install(context_type, allowed_recipients, key) ==
  /\ RequireAuth(key[1])
  /\ context_type = "CallContract"
  /\ ValidList(allowed_recipients)
  /\ Accessible(key) /\ ~Has(key)
  /\ Put(key, allowed_recipients)
  /\ UNCHANGED ledger

(* Mutant: an empty list is taken for a cleared one.                       *)
SetRecipientsEmpty(allowed_recipients, key) ==
  /\ RequireAuth(key[1])
  /\ Len(allowed_recipients) <= MAX_ALLOWED_RECIPIENTS
  /\ Has(key) /\ Accessible(key)
  /\ Put(key, allowed_recipients)
  /\ UNCHANGED ledger

set_allowed_recipients(allowed_recipients, key) ==
  /\ RequireAuth(key[1])
  /\ ValidList(allowed_recipients)
  /\ Has(key) /\ Accessible(key)
  /\ Put(key, allowed_recipients)
  /\ UNCHANGED ledger

(* get_allowed_recipients does not panic; it answers store[key].           *)
get_allowed_recipients(key) == Has(key) /\ Accessible(key) /\ Read(key)

(* Mutant: any argument may hold the recipient.                            *)
PaysListedAnywhere(allowed_recipients, context) ==
  /\ context.variant = "Contract"
  /\ context.fn_name = "transfer"
  /\ \E i \in DOMAIN context.args, j \in DOMAIN allowed_recipients :
       context.args[i] = AddressVal(allowed_recipients[j])

(* What enforce checks of the context: `transfer`, with an address as its  *)
(* second argument, and that address listed.                               *)
PaysListed(allowed_recipients, context) ==
  /\ context.variant = "Contract"
  /\ context.fn_name = "transfer"
  /\ 2 \in DOMAIN context.args
  /\ context.args[2].type = "Address"
  /\ \E i \in DOMAIN allowed_recipients : allowed_recipients[i] = context.args[2].value

enforce(context, authenticated_signers, key) ==
  /\ RequireAuth(key[1])
  /\ authenticated_signers # {}
  /\ get_allowed_recipients(key)
  /\ PaysListed(store[key], context)
  /\ passed' = [passed EXCEPT ![key] = @ \cup {context}]
  /\ UNCHANGED ledger

uninstall(key) ==
  /\ RequireAuth(key[1])
  /\ Has(key) /\ Accessible(key)
  /\ Remove(key)
  /\ UNCHANGED ledger

-----------------------------------------------------------------------------
Init == StoreInit

Next ==
  /\ authorized' \in SUBSET SmartAccounts
  /\ \/ CloseLedger
     \/ \E key \in Keys :
          \/ \E context_type \in ContextTypes, list \in RecipientLists :
               install(context_type, list, key)
          \/ \E list \in RecipientLists : set_allowed_recipients(list, key)
          \/ \E context \in Contexts, authenticated_signers \in SUBSET Signers :
               enforce(context, authenticated_signers, key)
          \/ uninstall(key)
          \/ get_allowed_recipients(key) /\ UNCHANGED <<passed, ledger>>
          \/ Restore(key) /\ UNCHANGED ledger

Spec == Init /\ [][Next]_vars

-----------------------------------------------------------------------------
(* Every stored list is one install and set_allowed_recipients accept.     *)
TypeOK == StoreTypeOK({list \in RecipientLists : ValidList(list)}, Contexts)

(* Where a SEP-41 transfer(from, to, amount) pays; <<>> for another call.  *)
Payee(context) ==
  IF context.variant = "Contract" /\ context.fn_name = "transfer" /\ Len(context.args) > 1
    THEN context.args[2] ELSE <<>>

(* The contract keeps the promise of PolicyLifecycle, replacement of the   *)
(* list included: what passes is a transfer whose payee is in the list     *)
(* then in force, so one that only an earlier list admitted does not pass  *)
(* after set_allowed_recipients, and only the account changes its list.    *)
Lifecycle == INSTANCE PolicyLifecycle WITH
  Calls <- Contexts,
  Replaceable <- TRUE,
  grant <- [key \in DOMAIN store |->
              {context \in Contexts :
                 Payee(context) \in {AddressVal(store[key][i]) : i \in DOMAIN store[key]}}]

KeepsPromise == Lifecycle!Spec
=============================================================================

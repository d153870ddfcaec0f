--------------------------- MODULE SessionPolicy ---------------------------
(***************************************************************************)
(* The session policy: a context rule whose signers (session keys) may     *)
(* call only the functions listed when the policy was installed.           *)
(***************************************************************************)
EXTENDS Sequences, PolicyStore

CONSTANTS
  FnNames,          \* symbols that name functions
  MAX_ALLOWED_FNS,  \* 10 in the code
  MaxListLen        \* bound: longest allowed_fns of an installation

ASSUME SessionAssumption == MAX_ALLOWED_FNS \in Nat /\ MaxListLen \in Nat

(* SessionAccountParams and SessionData hold a Vec<Symbol>; the bound goes *)
(* past MAX_ALLOWED_FNS so that the limit is met.                          *)
FnLists == UNION {[1..n -> FnNames] : n \in 0..MaxListLen}

(* An authorization context: the invocation of a function, or the creation *)
(* of a contract.  The policy reads nothing else of it.                    *)
CallOf(fn_name) == [variant |-> "Contract", fn_name |-> fn_name]
Contexts == {CallOf(fn_name) : fn_name \in FnNames} \cup {[variant |-> "CreateContractHostFn"]}

ContextTypes == {"Default", "CallContract", "CreateContract"}

Lists(fns, fn_name) == \E i \in DOMAIN fns : fns[i] = fn_name

vars == storeVars

-----------------------------------------------------------------------------
(* Mutant: an archived entry counts as absent.                             *)
InstallOverArchived(context_type, allowed_fns, key) ==
  /\ RequireAuth(key[1])
  /\ context_type = "CallContract"
  /\ Len(allowed_fns) \in 1..MAX_ALLOWED_FNS
  /\ ~(Has(key) /\ Accessible(key))
  /\ Put(key, allowed_fns)
  /\ UNCHANGED ledger

(* Mutant: the bound on the list is off by one.                            *)
InstallOneMore(context_type, allowed_fns, key) ==
  /\ RequireAuth(key[1])
  /\ context_type = "CallContract"
  /\ Len(allowed_fns) \in 1..(MAX_ALLOWED_FNS + 1)
  /\ Accessible(key) /\ ~Has(key)
  /\ Put(key, allowed_fns)
  /\ UNCHANGED ledger

install(context_type, allowed_fns, key) ==
  /\ RequireAuth(key[1])
  /\ context_type = "CallContract"
  /\ Len(allowed_fns) \in 1..MAX_ALLOWED_FNS
  /\ Accessible(key) /\ ~Has(key)
  /\ Put(key, allowed_fns)
  /\ UNCHANGED ledger

(* Mutant: threshold and extension are swapped.                            *)
GetAllowedFnsSwapped(key) ==
  /\ Has(key) /\ Accessible(key)
  /\ live_until' = [live_until EXCEPT
       ![key] = ExtendTtl(@, ledger, EXTEND_AMOUNT, TTL_THRESHOLD)]
  /\ last_read' = [last_read EXCEPT ![key] = ledger]
  /\ UNCHANGED store

(* get_allowed_fns does not panic; what it answers is store[key].          *)
get_allowed_fns(key) == Has(key) /\ Accessible(key) /\ Read(key)

enforce(context, authenticated_signers, key) ==
  /\ RequireAuth(key[1])
  /\ authenticated_signers # {}
  /\ get_allowed_fns(key)
  /\ context.variant = "Contract" /\ Lists(store[key], context.fn_name)
  /\ passed' = [passed EXCEPT ![key] = @ \cup {context}]
  /\ UNCHANGED ledger

uninstall(key) ==
  /\ RequireAuth(key[1])
  /\ Has(key) /\ Accessible(key)
  /\ Remove(key)
  /\ UNCHANGED ledger

-----------------------------------------------------------------------------
Init == StoreInit

Next ==
  /\ authorized' \in SUBSET SmartAccounts
  /\ \/ CloseLedger
     \/ \E key \in Keys :
          \/ \E context_type \in ContextTypes, allowed_fns \in FnLists :
               install(context_type, allowed_fns, key)
          \/ \E context \in Contexts, authenticated_signers \in SUBSET Signers :
               enforce(context, authenticated_signers, key)
          \/ uninstall(key)
          \/ get_allowed_fns(key) /\ UNCHANGED <<passed, ledger>>
          \/ Restore(key) /\ UNCHANGED ledger

Spec == Init /\ [][Next]_vars

-----------------------------------------------------------------------------
(* Every stored list is one install accepts.                               *)
TypeOK ==
  StoreTypeOK({fns \in FnLists : Len(fns) \in 1..MAX_ALLOWED_FNS},
              {CallOf(fn_name) : fn_name \in FnNames})

(* The contract keeps the promise of PolicyLifecycle: a call passes only   *)
(* while an installation that lists its function is in force, archived     *)
(* entries included, and nothing but the account's own install and         *)
(* uninstall changes what is listed.                                       *)
Admitted(allowed_fns) == {CallOf(fn_name) : fn_name \in {f \in FnNames : Lists(allowed_fns, f)}}

Lifecycle == INSTANCE PolicyLifecycle WITH
  Calls <- {CallOf(fn_name) : fn_name \in FnNames},
  Replaceable <- FALSE,
  grant <- [key \in DOMAIN store |-> Admitted(store[key])]

KeepsPromise == Lifecycle!Spec
=============================================================================

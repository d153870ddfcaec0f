----------------------- MODULE ParameterScopedPolicy -----------------------
(***************************************************************************)
(* The parameter-scoped policy: the signers of its context rule may call   *)
(* only the functions it has conditions for, with arguments that meet all  *)
(* of them.  Arguments and expected values carry their type; the order of  *)
(* numbers is that of the integers, symbols and addresses are named by     *)
(* numbers whose order means nothing.                                      *)
(***************************************************************************)
EXTENDS Sequences, FiniteSets, PolicyStore

CONSTANTS
  Values,                 \* typed values: records [type, value]
  Params,                 \* conditions some installation is attempted with
  Contexts,               \* authorization contexts enforce may be asked about
  MAX_FNS,                \* 10 in the code
  MAX_CONDITIONS_PER_FN   \* 5 in the code

ASSUME ParameterAssumption == MAX_FNS \in Nat /\ MAX_CONDITIONS_PER_FN \in Nat

OrderedTypes == {"U32", "I32", "U64", "I64", "U128", "I128"}
UnorderedTypes == {"Sym", "Addr"}
Operators == {"Eq", "Neq", "Gt", "Gte", "Lt", "Lte"}
ContextTypes == {"Default", "CallContract", "CreateContract"}

(* The enum ExpectedValue, and Condition with its argument index from 0.   *)
ExpectedValues == [type : OrderedTypes \cup UnorderedTypes, value : Int]
IsCondition(cond) ==
  /\ cond.arg_index \in Nat
  /\ cond.operator \in Operators
  /\ cond.expected_value \in ExpectedValues

ASSUME ParamsAssumption ==
  \A params \in Params : \A fn_name \in DOMAIN params : \A i \in DOMAIN params[fn_name] :
    IsCondition(params[fn_name][i])

ASSUME ContextsAssumption ==
  /\ Values \subseteq [type : STRING, value : Int]
  /\ \A context \in Contexts :
       context.variant = "Contract" => context.args \in Seq(Values)

vars == storeVars

-----------------------------------------------------------------------------
(* Mutant: a value of another type is a different value.                   *)
CompareOrdMismatch(actual, expected, operator) ==
  IF actual.type # expected.type THEN operator = "Neq" ELSE
  CASE operator = "Eq"  -> actual.value = expected.value
    [] operator = "Neq" -> actual.value # expected.value
    [] operator = "Gt"  -> actual.value > expected.value
    [] operator = "Gte" -> actual.value >= expected.value
    [] operator = "Lt"  -> actual.value < expected.value
    [] operator = "Lte" -> actual.value <= expected.value

compare_ord(actual, expected, operator) ==
  /\ actual.type = expected.type
  /\ CASE operator = "Eq"  -> actual.value = expected.value
       [] operator = "Neq" -> actual.value # expected.value
       [] operator = "Gt"  -> actual.value > expected.value
       [] operator = "Gte" -> actual.value >= expected.value
       [] operator = "Lt"  -> actual.value < expected.value
       [] operator = "Lte" -> actual.value <= expected.value

compare_eq(actual, expected, operator) ==
  /\ actual.type = expected.type
  /\ \/ operator = "Eq" /\ actual.value = expected.value
     \/ operator = "Neq" /\ actual.value # expected.value

(* The body of enforce's loop; the index of a Rust Vec starts at 0.        *)
Passes(cond, args) ==
  /\ cond.arg_index < Len(args)
  /\ LET actual == args[cond.arg_index + 1]
     IN  IF cond.expected_value.type \in UnorderedTypes
           THEN compare_eq(actual, cond.expected_value, cond.operator)
           ELSE compare_ord(actual, cond.expected_value, cond.operator)

(* Mutant: the read does not extend the time to live.                      *)
GetConditionsNoExtend(key) ==
  /\ Has(key) /\ Accessible(key)
  /\ last_read' = [last_read EXCEPT ![key] = ledger]
  /\ UNCHANGED <<store, live_until>>

(* get_conditions does not panic; what it answers is store[key].           *)
get_conditions(key) == Has(key) /\ Accessible(key) /\ Read(key)

enforce(context, authenticated_signers, key) ==
  /\ RequireAuth(key[1])
  /\ authenticated_signers # {}
  /\ get_conditions(key)
  /\ context.variant = "Contract"
  /\ context.fn_name \in DOMAIN store[key]
  /\ LET fn_conditions == store[key][context.fn_name]
     IN  \A i \in DOMAIN fn_conditions : Passes(fn_conditions[i], context.args)
  /\ passed' = [passed EXCEPT ![key] = @ \cup {context}]
  /\ UNCHANGED ledger

(* Mutant: the operator of an address or symbol is not validated.          *)
ValidConditionsAnyOperator(conditions) ==
  /\ Cardinality(DOMAIN conditions) \in 1..MAX_FNS
  /\ \A fn_name \in DOMAIN conditions :
       Len(conditions[fn_name]) \in 1..MAX_CONDITIONS_PER_FN

(* install accepts the conditions.                                         *)
ValidConditions(conditions) ==
  /\ Cardinality(DOMAIN conditions) \in 1..MAX_FNS
  /\ \A fn_name \in DOMAIN conditions :
       /\ Len(conditions[fn_name]) \in 1..MAX_CONDITIONS_PER_FN
       /\ \A i \in DOMAIN conditions[fn_name] :
            conditions[fn_name][i].expected_value.type \in UnorderedTypes
              => conditions[fn_name][i].operator \in {"Eq", "Neq"}

install(context_type, conditions, key) ==
  /\ RequireAuth(key[1])
  /\ context_type = "CallContract"
  /\ ValidConditions(conditions)
  /\ Accessible(key) /\ ~Has(key)
  /\ Put(key, conditions)
  /\ UNCHANGED ledger

uninstall(key) ==
  /\ RequireAuth(key[1])
  /\ Has(key) /\ Accessible(key)
  /\ Remove(key)
  /\ UNCHANGED ledger

-----------------------------------------------------------------------------
Init == StoreInit

Next ==
  /\ authorized' \in SUBSET SmartAccounts
  /\ \/ CloseLedger
     \/ \E key \in Keys :
          \/ \E context_type \in ContextTypes, conditions \in Params :
               install(context_type, conditions, key)
          \/ \E context \in Contexts, authenticated_signers \in SUBSET Signers :
               enforce(context, authenticated_signers, key)
          \/ uninstall(key)
          \/ get_conditions(key) /\ UNCHANGED <<passed, ledger>>
          \/ Restore(key) /\ UNCHANGED ledger

Spec == Init /\ [][Next]_vars

-----------------------------------------------------------------------------
(* Every stored map of conditions is within both limits, and its operators *)
(* have a meaning: no address or symbol is ever ordered.                   *)
TypeOK ==
  /\ StoreTypeOK(Params, Contexts)
  /\ \A key \in DOMAIN store :
       /\ Cardinality(DOMAIN store[key]) \in 1..MAX_FNS
       /\ \A fn_name \in DOMAIN store[key] :
            /\ Len(store[key][fn_name]) \in 1..MAX_CONDITIONS_PER_FN
            /\ \A i \in DOMAIN store[key][fn_name] :
                 store[key][fn_name][i].expected_value.type \in UnorderedTypes
                   => store[key][fn_name][i].operator \in {"Eq", "Neq"}

(* The meaning of a condition: the set of values it lets through, all of   *)
(* the expected value's type.                                              *)
Region(cond) ==
  LET e == cond.expected_value
      typed == {v \in Values : v.type = e.type}
      below == {v \in typed : v.value < e.value}
  IN  CASE cond.operator = "Eq"  -> typed \cap {e}
        [] cond.operator = "Neq" -> typed \ {e}
        [] cond.operator = "Lt"  -> below
        [] cond.operator = "Lte" -> below \cup (typed \cap {e})
        [] cond.operator = "Gt"  -> typed \ (below \cup {e})
        [] cond.operator = "Gte" -> typed \ below

(* The calls a map of conditions means to admit.                           *)
Admitted(conditions) ==
  {context \in Contexts :
     /\ context.variant = "Contract"
     /\ context.fn_name \in DOMAIN conditions
     /\ \A i \in DOMAIN conditions[context.fn_name] :
          LET cond == conditions[context.fn_name][i]
          IN  cond.arg_index + 1 \in DOMAIN context.args
                /\ context.args[cond.arg_index + 1] \in Region(cond)}

(* The contract keeps the promise of PolicyLifecycle with that meaning:    *)
(* what passes lies in the region of every condition on its function, an   *)
(* argument of an unexpected type or one that is missing never does, and   *)
(* only the account installs or removes its conditions.                    *)
Lifecycle == INSTANCE PolicyLifecycle WITH
  Calls <- Contexts,
  Replaceable <- FALSE,
  grant <- [key \in DOMAIN store |-> Admitted(store[key])]

KeepsPromise == Lifecycle!Spec
=============================================================================

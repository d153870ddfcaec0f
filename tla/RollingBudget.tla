--------------------------- MODULE RollingBudget ---------------------------
(***************************************************************************)
(* What a spending limit over a rolling window promises, whatever it       *)
(* stores to keep it: a key has at most one budget, a limit and a number   *)
(* of ledgers, which stays as it is until it is closed; an amount is spent *)
(* only if all that was spent in the window ending now still fits the      *)
(* limit with it.  Histories, running totals, prices, capacities and the   *)
(* lifetimes of storage entries are not part of the promise.               *)
(***************************************************************************)
EXTENDS Integers

CONSTANTS
  Keys,      \* pairs of a smart account and a context rule id
  NoLimit,   \* from this number on, a limit stands for none
  MaxLedger  \* bound: last ledger of a behaviour

VARIABLES
  ledger,    \* the ledger sequence number
  budget,    \* the budgets in force: key -> [limit, period]
  spent      \* spent[key][l]: spent since the budget was opened, up to ledger l

Ledgers == 0..MaxLedger
Nothing == [l \in Ledgers |-> 0]

(* Spent in the `period` ledgers that end with the current one.            *)
InWindow(key) ==
  LET period == budget[key].period
  IN  spent[key][ledger] - spent[key][IF ledger > period THEN ledger - period ELSE 0]

Open(key) ==
  /\ key \notin DOMAIN budget
  /\ DOMAIN budget' = DOMAIN budget \cup {key}
  /\ budget'[key].limit > 0 /\ budget'[key].period > 0
  /\ \A k \in DOMAIN budget : budget'[k] = budget[k]
  /\ spent[key] = Nothing
  /\ UNCHANGED <<ledger, spent>>

Spend(key) ==
  LET amount == spent'[key][ledger] - spent[key][ledger]
  IN  /\ key \in DOMAIN budget
      /\ amount >= 0
      /\ budget[key].limit < NoLimit => InWindow(key) + amount <= budget[key].limit
      /\ spent' = [spent EXCEPT ![key] =
           [l \in Ledgers |-> @[l] + IF l >= ledger THEN amount ELSE 0]]
      /\ UNCHANGED <<ledger, budget>>

(* What was spent under a budget is forgotten with it.                     *)
Close(key) ==
  /\ key \in DOMAIN budget
  /\ budget' = [k \in DOMAIN budget \ {key} |-> budget[k]]
  /\ spent' = [spent EXCEPT ![key] = Nothing]
  /\ UNCHANGED ledger

Tick ==
  /\ ledger' = ledger + 1
  /\ UNCHANGED <<budget, spent>>

Init ==
  /\ budget = [key \in {} |-> {}]
  /\ spent = [key \in Keys |-> Nothing]

Next ==
  \/ \E key \in Keys : Open(key) \/ Spend(key) \/ Close(key)
  \/ Tick

Spec == Init /\ [][Next]_<<ledger, budget, spent>>
=============================================================================

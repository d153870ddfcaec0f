--------------------- MODULE MC_MultiTokenSpendingLimit ---------------------
(***************************************************************************)
(* Instances of MultiTokenSpendingLimit for TLC: a token of 0 decimals, a  *)
(* token of 1 decimal and one with too many, contexts and oracle answers   *)
(* that pass and that fail each check of enforce.                          *)
(***************************************************************************)
EXTENDS MultiTokenSpendingLimit, TLC

CONSTANTS
  TokA, TokB, TokC, Oracle, \* contracts with decimals()
  NoToken,                  \* an address without it
  Malformed,                \* an argument that is no i128
  Limits, Periods           \* parameters of the installations tried

MCDecimals == (TokA :> 0) @@ (TokB :> 1) @@ (TokC :> 3) @@ (Oracle :> 0)

MCContracts == {TokA, TokB, TokC, Oracle, NoToken}

MCRuleTypes == {"CallContract", "Default"}

MCParams ==
  [spending_limit_usd : Limits, period_ledgers : Periods,
   oracle_address : {Oracle, TokC},
   allowed_tokens : {<<TokA, TokB>>, <<>>, <<TokA, TokC>>, <<TokA, NoToken>>}]

Transfer(contract, fn_name, amount) ==
  [kind |-> "Contract", contract |-> contract, fn_name |-> fn_name,
   amount |-> amount]

(* Worth 1, 1.9, 0.9 and 0 dollars at price 1; the rest must be refused.   *)
MCContexts ==
  {Transfer(TokA, "transfer", 1), Transfer(TokB, "transfer", 19),
   Transfer(TokB, "transfer", 9), Transfer(TokA, "transfer", -1),
   Transfer(TokA, "transfer", Malformed), Transfer(TokA, "approve", 1),
   Transfer(TokC, "transfer", 1), [kind |-> "CreateContract"]}

(* One amount as large as the type: its product with a price of 2 overflows. *)
HugeContexts ==
  {Transfer(TokA, "transfer", 1), Transfer(TokA, "transfer", I128_MAX)}

MCAnswers ==
  {NoPrice} \cup [price : {-1, 0, 1, 2}, timestamp : 0..(MaxLedger + 1)]
=============================================================================

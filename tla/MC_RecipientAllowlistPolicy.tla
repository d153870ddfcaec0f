-------------------- MODULE MC_RecipientAllowlistPolicy --------------------
(* Contexts on which the recipient check could go wrong: too few           *)
(* arguments, a listed address in another place, an argument of another    *)
(* type, another function, another kind of context.                        *)
EXTENDS RecipientAllowlistPolicy

CONSTANTS carol, dave

MCAmount == [type |-> "I128", value |-> carol]

MCCall(fn_name, args) == [variant |-> "Contract", fn_name |-> fn_name, args |-> args]

MCContexts ==
  {MCCall("transfer", <<AddressVal(dave), AddressVal(carol), MCAmount>>),
   MCCall("transfer", <<AddressVal(carol), AddressVal(dave)>>),
   MCCall("transfer", <<AddressVal(carol), MCAmount, AddressVal(carol)>>),
   MCCall("transfer", <<AddressVal(carol)>>),
   MCCall("approve", <<AddressVal(dave), AddressVal(carol), MCAmount>>),
   [variant |-> "CreateContractHostFn"]}
=============================================================================

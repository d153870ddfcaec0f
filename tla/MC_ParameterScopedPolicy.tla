---------------------- MODULE MC_ParameterScopedPolicy ----------------------
(* Values of three types around the expected ones, every operator, and     *)
(* maps of conditions at and past both limits.                             *)
EXTENDS ParameterScopedPolicy

MCVal(type, value) == [type |-> type, value |-> value]

MCValues == {MCVal("I128", v) : v \in 1..3} \cup {MCVal("U32", 2), MCVal("Addr", 1), MCVal("Addr", 2)}

MCCond(arg_index, operator, type, value) ==
  [arg_index |-> arg_index, operator |-> operator, expected_value |-> MCVal(type, value)]

(* One condition with each operator on an amount and on an address; two    *)
(* conditions on one function; conditions on two functions; invalid maps.  *)
MCParams ==
  {[mint |-> <<MCCond(0, operator, "I128", 2)>>] : operator \in Operators}
    \cup {[mint |-> <<MCCond(0, operator, "Addr", 1)>>] : operator \in Operators}
    \cup {[mint |-> <<MCCond(0, "Gt", "I128", 1), MCCond(1, "Neq", "Addr", 1)>>],
          [mint |-> <<MCCond(1, "Neq", "Addr", 2)>>, burn |-> <<MCCond(0, "Lte", "I128", 2)>>],
          [mint |-> <<>>],
          [mint |-> <<MCCond(0, "Eq", "I128", 2), MCCond(0, "Eq", "I128", 2), MCCond(0, "Eq", "I128", 2)>>],
          [fn \in {"mint", "burn", "pay"} |-> <<MCCond(0, "Eq", "I128", 2)>>],
          [fn \in {} |-> <<>>]}

MCCall(fn_name, args) == [variant |-> "Contract", fn_name |-> fn_name, args |-> args]

MCContexts ==
  {MCCall("mint", <<v>>) : v \in MCValues}
    \cup {MCCall("mint", <<MCVal("I128", 2), v>>) : v \in MCValues}
    \cup {MCCall("mint", <<>>), MCCall("burn", <<MCVal("I128", 2)>>),
          MCCall("pay", <<MCVal("I128", 2)>>),
          [variant |-> "CreateContractHostFn"]}
=============================================================================

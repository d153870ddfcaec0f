-------------------------- MODULE MC_SmartAccount --------------------------
(***************************************************************************)
(* Owners, functions and salts are interchangeable: no definition tells    *)
(* one from another, and all owners are signers of the first rule.         *)
(*                                                                         *)
(* States that differ only in history variables are explored once.  No     *)
(* action reads passed, last_read, session_auth or authorized, no          *)
(* invariant names them, and the action properties name only their new     *)
(* values, which TLC checks for every step, also one to a state it knows.  *)
(* RulesKeepPromise compares the old and the new passed: every action adds *)
(* to it or clears it in the same way whatever it was.                     *)
(* The account's code is left out too: nothing reads it, and an upgrade    *)
(* changes nothing else, so every state explored has the first code.       *)
(* So are the lifetimes of the registry's records: they only decide        *)
(* whether a record is read or restored, and neither changes anything but  *)
(* its lifetime.                                                           *)
(***************************************************************************)
EXTENDS SmartAccount, TLC

MCSymmetry == Permutations(Owners) \cup Permutations(FnNames) \cup Permutations(Salts)

MCView == <<ruleVars, count, records, satellites, store, live_until, ledger>>
=============================================================================

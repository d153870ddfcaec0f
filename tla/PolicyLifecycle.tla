-------------------------- MODULE PolicyLifecycle --------------------------
(***************************************************************************)
(* What an allowlisting policy promises, whatever it lists: for every key  *)
(* (a smart account and one of its context rules) there is at most one     *)
(* grant, a set of calls; only the account itself makes, replaces or       *)
(* revokes it, an existing grant is never made a second time, and a call   *)
(* passes only while the grant in force admits it.  Ledgers, lifetimes and *)
(* archived entries are not part of the promise: time takes nothing away   *)
(* from a grant and adds nothing to it.                                    *)
(***************************************************************************)
CONSTANTS
  Keys,         \* pairs of a smart account and a context rule id
  Calls,        \* the calls a policy may be asked about
  Replaceable   \* may a grant be replaced while it is in force?

VARIABLES
  grant,        \* the grants in force: key -> set of calls
  passed,       \* the calls each key has passed since its grant was made
  authorized    \* the accounts that authorize the transaction

(* The key gets some set of calls, and nothing has passed under it yet.    *)
SetGrant(key) ==
  /\ DOMAIN grant' = DOMAIN grant \cup {key}
  /\ grant'[key] \subseteq Calls
  /\ \A k \in DOMAIN grant \ {key} : grant'[k] = grant[k]
  /\ passed' = [passed EXCEPT ![key] = {}]

Grant(key) == key \notin DOMAIN grant /\ SetGrant(key)

Replace(key) == Replaceable /\ key \in DOMAIN grant /\ SetGrant(key)

Revoke(key) ==
  /\ key \in DOMAIN grant
  /\ grant' = [k \in DOMAIN grant \ {key} |-> grant[k]]
  /\ passed' = [passed EXCEPT ![key] = {}]

Use(key, call) ==
  /\ key \in DOMAIN grant
  /\ call \in grant[key]
  /\ passed' = [passed EXCEPT ![key] = @ \cup {call}]
  /\ UNCHANGED grant

Init ==
  /\ grant = [key \in {} |-> {}]
  /\ passed = [key \in Keys |-> {}]

Next ==
  \E key \in Keys :
    /\ key[1] \in authorized'
    /\ \/ Grant(key)
       \/ Replace(key)
       \/ Revoke(key)
       \/ \E call \in Calls : Use(key, call)

Spec == Init /\ [][Next]_<<grant, passed>>
=============================================================================

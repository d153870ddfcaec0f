--------------------------- MODULE SorobanStorage ---------------------------
(***************************************************************************)
(* The part of the Soroban host the contracts' storage calls rely on.  A   *)
(* persistent or instance entry lives until the ledger `live_until`; past  *)
(* it the entry is archived: its value is kept, but every access traps     *)
(* until a RestoreFootprint operation brings it back with the minimum      *)
(* time to live.  The host is not part of the repository; these operators  *)
(* follow the way the contracts use extend_ttl, has, get and set.          *)
(***************************************************************************)
EXTENDS Integers

(* Is an entry that lives until ledger `live_until` accessible in `ledger`? *)
IsLive(live_until, ledger) == ledger <= live_until

(* The live-until ledger of an entry created or restored in `ledger`.      *)
FreshLiveUntil(ledger, min_ttl) == ledger + min_ttl - 1

(* extend_ttl(threshold, extend_to): an entry with at most `threshold`     *)
(* ledgers left is kept for `extend_to` ledgers from now; never shortened. *)
ExtendTtl(live_until, ledger, threshold, extend_to) ==
  IF live_until - ledger <= threshold /\ ledger + extend_to > live_until
    THEN ledger + extend_to
    ELSE live_until
=============================================================================

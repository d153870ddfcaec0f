--------------------------- MODULE MC_FeeForwarder ---------------------------
(* Requests whose target calls leave the tokens alone, move the user's own, *)
(* what the forwarder holds or what it may take from another user, and      *)
(* requests that lack a signature, a balance or a permission they need.     *)
EXTENDS FeeForwarder

CONSTANTS alice, bob, usdc, eurc

MCCall(fn, from, to, amount) ==
  [fn |-> fn, token |-> usdc, from |-> from, to |-> to, amount |-> amount]

MCRequest(user, token, max_fee_amount, expiration_ledger, target) ==
  [user |-> user, fee_token |-> token, max_fee_amount |-> max_fee_amount,
   expiration_ledger |-> expiration_ledger, target |-> target,
   signs_approve |-> TRUE, signs_target |-> TRUE]

MCFees == {-1, 0, 1, 3, 4}

MCNothing == MCCall("transfer", Forwarder, Outside, 0)
MCPayment == MCCall("transfer", alice, bob, 3)

MCRequests ==
  {MCRequest(alice, usdc, 3, 2, MCNothing),
   MCRequest(alice, usdc, 1, 1, MCPayment),
   MCRequest(alice, usdc, 1, 2, MCCall("transfer", bob, alice, 1)),
   MCRequest(alice, usdc, 3, 2, MCCall("transfer_from", alice, Forwarder, 1)),
   MCRequest(bob, usdc, 1, 2, MCCall("transfer_from", alice, bob, 2)),
   MCRequest(bob, eurc, 3, 2, MCCall("transfer", Forwarder, alice, 2)),
   [MCRequest(alice, usdc, 1, 2, MCPayment) EXCEPT !.signs_target = FALSE],
   [MCRequest(alice, usdc, 3, 2, MCNothing) EXCEPT !.signs_approve = FALSE]}
=============================================================================

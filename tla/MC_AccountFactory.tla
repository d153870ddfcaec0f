------------------------- MODULE MC_AccountFactory -------------------------
(***************************************************************************)
(* Small requests for the account factory.  With keys of one and public    *)
(* keys of two bytes, the credential ids are chosen so that the encodings  *)
(* of <<W1, W2>> and <<W3, W4>> would run into each other without lengths, *)
(* and W1 and W3 are two registrations of one passkey.                     *)
(***************************************************************************)
EXTENDS AccountFactory

Delegated(a) == [code |-> 0, data |-> a]
Ed25519(k) == [code |-> 1, data |-> k]
WebAuthn(k) == [code |-> 2, data |-> k]

D1 == Delegated(<<1>>)
E1 == Ed25519(<<1>>)
E2 == Ed25519(<<2>>)
W1 == WebAuthn(<<4, 1, 7>>)
W2 == WebAuthn(<<4, 2, 8, 2, 4, 3, 9>>)
W3 == WebAuthn(<<4, 1, 7, 2, 4, 2, 8>>)
W4 == WebAuthn(<<4, 3, 9>>)
BareKey == WebAuthn(<<4, 1>>)
BadPrefix == WebAuthn(<<3, 1, 7>>)
ShortKey == Ed25519(<<>>)

Request(signers, threshold, salt) ==
  [signers |-> signers, threshold |-> threshold, account_salt |-> salt]

(* Lone signers, well-formed or not, pairs and triples in every order and  *)
(* with repetitions, and the pairs whose encodings are alike.              *)
SignerLists ==
  {<<s>> : s \in {D1, E1, E2, W1, W2, BareKey, BadPrefix, ShortKey}}
    \cup {<<>>, <<W1, W2>>, <<W2, W1>>, <<W3, W4>>, <<W4, W3>>}
    \cup {D1, E1, W1} \X {D1, E1, W1}
    \cup {D1, E2, W1} \X {D1, E2, W1} \X {D1, E2, W1}

MCRequests ==
  {Request(<<E1>>, None, 1), Request(<<E1>>, 1, 1), Request(<<BareKey>>, None, 1),
   Request(<<W1, D1>>, 2, 1), Request(<<D1, W1>>, 2, 1),
   Request(<<W1, W2>>, 2, 1), Request(<<W4, W3>>, 2, 1),
   Request(<<E2, W1, D1>>, 2, 1), Request(<<D1, E1>>, None, 1)}

(* The same, and one passkey registered twice.                             *)
MCRequestsPasskey == MCRequests \cup {Request(<<W1, W3>>, 1, 1)}

MCParams ==
  MCRequestsPasskey \cup
    {Request(signers, threshold, 1) :
       signers \in SignerLists, threshold \in {None, 0, 1, 2, 3}}
    \cup {Request(signers, 2, 2) : signers \in SignerLists}

MCDeployed == {"ed25519", "webauthn", "threshold"}

MCConfigs ==
  [ed25519_verifier : {"ed25519", "nothing"}, webauthn_verifier : {"webauthn"},
   threshold_policy : {"threshold"}]
=============================================================================

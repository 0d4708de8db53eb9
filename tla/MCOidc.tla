------------------------------- MODULE MCOidc -------------------------------
(***************************************************************************)
(* Instances of Oidc for TLC: a provider that rotates between two signing  *)
(* keys, reusing a kid, and adds keys the verifier skips or fails on.      *)
(***************************************************************************)
EXTENDS Oidc

CONSTANTS k1, k2, s1, s2, alice

Jwk(kid, s, form) == [kid |-> kid, key |-> s, form |-> form]

Old == <<Jwk(k1, s1, "taken")>>
New == <<Jwk(k2, s2, "taken"), Jwk(k1, s1, "skipped")>>
Both == <<Jwk(k1, s1, "taken"), Jwk(k2, s2, "taken")>>
Reused == <<Jwk(k1, s1, "taken"), Jwk(k1, s2, "taken")>>
Broken == <<Jwk(k1, s1, "taken"), Jwk(k2, s2, "bad")>>

AllDocuments == {Old, New, Both, Reused, Broken}

Token(kid, s, v, c) == [kid |-> kid, key |-> s, valid |-> v, caller |-> c]

\* Good tokens of both keys, one under the other's kid, one that has expired
\* and one without a caller.
AllTokens ==
  {Token(k1, s1, TRUE, alice), Token(k2, s2, TRUE, alice),
   Token(k1, s2, TRUE, alice), Token(k1, s1, FALSE, alice),
   Token(k2, s2, TRUE, NoCaller)}

OneToken == {Token(k1, s1, TRUE, alice)}
=============================================================================

----------------------------- MODULE MCSessions -----------------------------
(* Sessions on small instances: identities are interchangeable.            *)
EXTENDS Sessions, TLC

Identities == Permutations(Logins) \cup Permutations(Tokens) \cup Permutations(Refreshes)
=============================================================================

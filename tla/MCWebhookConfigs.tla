--------------------------- MODULE MCWebhookConfigs ---------------------------
(* Two configurations of one domain, two names, two goroutines; bob does not *)
(* own the domain.                                                           *)
EXTENDS WebhookConfigs, TLC

CONSTANTS c1, c2, a1, a2, d1, n1, n2, alice, bob

MCOwner == d1 :> alice

Symmetry == Permutations({c1, c2}) \cup Permutations({a1, a2}) \cup Permutations({n1, n2})
=============================================================================

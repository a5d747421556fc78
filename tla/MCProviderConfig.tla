-------------------------- MODULE MCProviderConfig --------------------------
(* ProviderConfig with administrators and generations that are interchangeable. *)
EXTENDS ProviderConfig, TLC

Alike == Permutations(Admins) \cup Permutations(Calls)
=============================================================================

-------------------------- MODULE MCDeckLifecycle --------------------------
(* DeckLifecycle with decks, uploads and requests that are interchangeable. *)
EXTENDS DeckLifecycle, TLC

Alike == Permutations(Uploads) \cup Permutations(Requests) \cup Permutations(Decks)
=============================================================================

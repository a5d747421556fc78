------------------------------ MODULE MCStudy ------------------------------
(* Study for TLC: requests are alike, and so are the MCQs; the flashcards are *)
(* rated, the MCQs make tests.                                               *)
EXTENDS Study, TLC

FlashcardReviews == [c \in Cards |-> IF c \in Mcqs THEN 0 ELSE 2]

Alike == Permutations(Requests) \cup Permutations(Mcqs)
=============================================================================

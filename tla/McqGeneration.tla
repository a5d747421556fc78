--------------------------- MODULE McqGeneration ---------------------------
(***************************************************************************)
(* Generating MCQs from the flashcards of one deck, app/api/routers/       *)
(* content.py: the start handler (start_generate_mcqs_for_deck), the       *)
(* background thread it starts (_generate_mcqs_background), the handler    *)
(* that generates MCQs at once (generate_mcqs_for_deck), and the deletion  *)
(* of MCQs and of flashcards (bulk_delete_mcqs, bulk_delete_flashcards).   *)
(*                                                                         *)
(* Every action is one transaction, with the reads it is decided on.  What *)
(* a batch's provider call returns is chosen by the environment.  Cards    *)
(* are numbered in created_at order.  MCQs that are imported have no       *)
(* effect on anything here.                                                *)
(***************************************************************************)
EXTENDS Integers, FiniteSets

CONSTANTS
  MaxCards,    \* bound: flashcards ever added to the deck
  BatchSize,   \* batch_size of _generate_mcqs_background
  Gens,        \* bound: mcq_generations rows of interest at a time
  Starters,    \* start handlers that may be under way at a time
  Slow,        \* may a living run be older than ten minutes?
  MaxDeletes,  \* bound: deletions of MCQs or of a flashcard
  MaxCrashes   \* bound: restarts of the web process

ASSUME McqConstants ==
  /\ MaxCards \in Nat \ {0} /\ BatchSize \in Nat \ {0}
  /\ Slow \in BOOLEAN
  /\ MaxDeletes \in Nat /\ MaxCrashes \in Nat

Cards == 1 .. MaxCards

VARIABLES
  item,    \* per card: status of its deck_mcq_generation_items row, "none"
           \* without a row, "absent" before the card is added, "gone" after
           \* its deletion
  made,    \* per card: the MCQ sets it has
  direct,  \* there are MCQs that generate_mcqs_for_deck has made
  gen,     \* per row of mcq_generations: status, age, total and processed cards
  run,     \* per row: the thread that works on it
  start,   \* per handler: where it is, and the cards it has read
  resets,  \* history: deletions of generated MCQs
  deletes, crashes

mcqVars == <<item, made, direct, gen, run, start, resets, deletes, crashes>>

NoGen == [status |-> "free", old |-> FALSE, total |-> 0, processed |-> 0]
NoRun == [pc |-> "off", left |-> {}, singles |-> {}, before |-> 0, done |-> 0]
NoStart == [pc |-> "idle", seen |-> {}]

Deck == {c \in Cards : item[c] \notin {"absent", "gone"}}
InStatus(s) == {c \in Cards : item[c] = s}
InProgress == {g \in Gens : gen[g].status = "in_progress"}

Lowest(S) == CHOOSE c \in S : \A d \in S : c <= d
Batch(S) == {c \in S : Cardinality({d \in S : d < c}) < BatchSize}
Saved(S) == [c \in Cards |-> IF c \in S /\ made[c] < MaxDeletes + 2 THEN made[c] + 1 ELSE made[c]]

-----------------------------------------------------------------------------
(***************************************************************************)
(* Faults: plausible mistakes in the code, used by no specification.  Each *)
(* property below is known to fail when one of them takes the place of the *)
(* definition it is named after.                                           *)
(***************************************************************************)
\* The items of cards whose MCQs are saved keep their status.
FaultyMark(S, s) == [c \in Cards |-> IF c \in S /\ s # "completed" THEN s ELSE item[c]]

\* Only cards no run has touched are taken up.
FaultyPending == InStatus("notStarted")

\* A batch that fails is counted, and its cards are counted again one by one.
FaultyBatchFails(g) ==
  /\ run[g].pc = "batch"
  /\ run[g].left # {} /\ Batch(run[g].left) \subseteq Deck
  /\ LET batch == Batch(run[g].left)
     IN run' = [run EXCEPT ![g].pc = "single", ![g].left = @ \ batch,
                           ![g].singles = batch, ![g].done = @ + Cardinality(batch)]
  /\ UNCHANGED <<item, made, direct, gen, start, resets, deletes, crashes>>

\* The subtraction is turned round.
FaultyBefore == Cardinality(InStatus("failed") \cup InStatus("notStarted")) - Cardinality(Deck)

-----------------------------------------------------------------------------
Mark(S, s) == [c \in Cards |-> IF c \in S THEN s ELSE item[c]]

McqInit ==
  /\ item = [c \in Cards |-> "absent"]
  /\ made = [c \in Cards |-> 0]
  /\ direct = FALSE
  /\ gen = [g \in Gens |-> NoGen]
  /\ run = [g \in Gens |-> NoRun]
  /\ start = [s \in Starters |-> NoStart]
  /\ resets = 0
  /\ deletes = 0
  /\ crashes = 0

AddCard ==
  /\ InStatus("absent") # {}
  /\ item' = Mark({Lowest(InStatus("absent"))}, "none")
  /\ UNCHANGED <<made, direct, gen, run, start, resets, deletes, crashes>>

-----------------------------------------------------------------------------
(***************************************************************************)
(* The start handler: what is in progress is looked at, the missing items  *)
(* are added and the generation is added, each in its own transaction.     *)
(***************************************************************************)
\* An old generation whose counter stands still may be given up.
Replaceable(g) == gen[g].old /\ gen[g].processed < gen[g].total

\* A generation that is neither finished nor replaceable sends the request away.
Check(s) ==
  /\ start[s].pc = "idle"
  /\ Deck # {}
  /\ \/ InProgress = {} /\ UNCHANGED gen
     \/ \E g \in InProgress :
          /\ Replaceable(g)
          /\ gen' = [gen EXCEPT ![g].status = "failed"]
  /\ start' = [start EXCEPT ![s] = [pc |-> "items", seen |-> Deck]]
  /\ UNCHANGED <<item, made, direct, run, resets, deletes, crashes>>

\* A card that is gone breaks a foreign key, and the request fails.
AddItems(s) ==
  LET seen == start[s].seen IN
  /\ start[s].pc = "items"
  /\ IF seen \subseteq Deck
     THEN /\ item' = Mark(InStatus("none") \cap seen, "notStarted")
          /\ start' = [start EXCEPT ![s].pc = "generation"]
     ELSE /\ start' = [start EXCEPT ![s] = NoStart]
          /\ UNCHANGED item
  /\ UNCHANGED <<made, direct, gen, run, resets, deletes, crashes>>

\* A finished row whose thread is gone stands for a new one.
AddGeneration(s) ==
  /\ start[s].pc = "generation"
  /\ \E g \in Gens \ InProgress :
       /\ run[g] = NoRun
       /\ gen' = [gen EXCEPT ![g] =
            [status |-> "in_progress", old |-> FALSE, total |-> Cardinality(start[s].seen),
             processed |-> Cardinality(InStatus("completed"))]]
       /\ run' = [run EXCEPT ![g].pc = "load"]
  /\ start' = [start EXCEPT ![s] = NoStart]
  /\ UNCHANGED <<item, made, direct, resets, deletes, crashes>>

-----------------------------------------------------------------------------
(***************************************************************************)
(* The background thread.                                                  *)
(***************************************************************************)
Pending == InStatus("notStarted") \cup InStatus("failed")

\* completed_before: a card without an item counts as completed.
Before == Cardinality(Deck) - Cardinality(Pending)

Load(g) ==
  /\ run[g].pc = "load"
  /\ run' = [run EXCEPT ![g] = [NoRun EXCEPT !.pc = "batch", !.left = Pending,
                                            !.before = Before]]
  /\ gen' = [gen EXCEPT ![g].total = Cardinality(Deck), ![g].processed = Before]
  /\ UNCHANGED <<item, made, direct, start, resets, deletes, crashes>>

\* No usable credential, or an exception outside the provider calls.
GiveUp(g) ==
  /\ run[g].pc = "load"
  /\ gen' = [gen EXCEPT ![g].status = "failed"]
  /\ run' = [run EXCEPT ![g] = NoRun]
  /\ UNCHANGED <<item, made, direct, start, resets, deletes, crashes>>

\* One commit: the MCQs, the items and the counter of the generation.
SettleCards(g, S, s, rest) ==
  LET done == run[g].done + Cardinality(S)
  IN /\ item' = Mark(S, s)
     /\ run' = [run EXCEPT ![g] = [rest EXCEPT !.done = done]]
     /\ gen' = [gen EXCEPT ![g].processed = run[g].before + done]
     /\ UNCHANGED <<direct, start, resets, deletes, crashes>>

\* The cards the provider is asked about next.
AskedAbout(g) ==
  CASE run[g].pc = "batch"  -> Batch(run[g].left)
    [] run[g].pc = "single" -> {Lowest(run[g].singles)}
    [] OTHER -> {}

\* One of them is deleted.  Noticed when it is read again, this fails the
\* generation; noticed when its item is written, it leaves a session that
\* cannot even record the failure.
LoseCard(g) ==
  /\ ~(AskedAbout(g) \subseteq Deck)
  /\ gen' \in {gen, [gen EXCEPT ![g].status = "failed"]}
  /\ run' = [run EXCEPT ![g] = NoRun]
  /\ UNCHANGED <<item, made, direct, start, resets, deletes, crashes>>

\* The provider's pack for the batch; a pack may hold flashcards and no MCQs,
\* and a batch without text needs none.
BatchSucceeds(g) ==
  /\ run[g].pc = "batch"
  /\ run[g].left # {} /\ Batch(run[g].left) \subseteq Deck
  /\ LET batch == Batch(run[g].left)
     IN /\ made' \in {made, Saved(batch)}
        /\ SettleCards(g, batch, "completed", [run[g] EXCEPT !.left = @ \ batch])

BatchFails(g) ==
  /\ run[g].pc = "batch"
  /\ run[g].left # {} /\ Batch(run[g].left) \subseteq Deck
  /\ LET batch == Batch(run[g].left)
     IN run' = [run EXCEPT ![g].pc = "single", ![g].left = @ \ batch, ![g].singles = batch]
  /\ UNCHANGED <<item, made, direct, gen, start, resets, deletes, crashes>>

AfterSingle(g, c) ==
  LET rest == run[g].singles \ {c}
  IN [run[g] EXCEPT !.singles = rest, !.pc = IF rest = {} THEN "batch" ELSE "single"]

SingleSucceeds(g) ==
  /\ run[g].pc = "single" /\ Lowest(run[g].singles) \in Deck
  /\ LET c == Lowest(run[g].singles)
     IN made' \in {made, Saved({c})} /\ SettleCards(g, {c}, "completed", AfterSingle(g, c))

SingleFails(g) ==
  /\ run[g].pc = "single" /\ Lowest(run[g].singles) \in Deck
  /\ LET c == Lowest(run[g].singles)
     IN SettleCards(g, {c}, "failed", AfterSingle(g, c))
  /\ UNCHANGED made

Complete(g) ==
  /\ run[g].pc = "batch"
  /\ run[g].left = {}
  /\ gen' = [gen EXCEPT ![g].status = "completed"]
  /\ run' = [run EXCEPT ![g] = NoRun]
  /\ UNCHANGED <<item, made, direct, start, resets, deletes, crashes>>

-----------------------------------------------------------------------------
\* Ten minutes pass since the generation's started_at.
TurnOld(g) ==
  /\ g \in InProgress
  /\ ~gen[g].old
  /\ Slow \/ run[g].pc = "off"
  /\ gen' = [gen EXCEPT ![g].old = TRUE]
  /\ UNCHANGED <<item, made, direct, run, start, resets, deletes, crashes>>

\* generate_mcqs_for_deck: MCQs from the text of all cards, at once, without a
\* generation and without items.
GenerateDirectly ==
  /\ Deck # {} \/ direct \/ \E c \in Cards : made[c] > 0
  /\ direct' = TRUE
  /\ UNCHANGED <<item, made, gen, run, start, resets, deletes, crashes>>

\* Some generated MCQs are deleted, all those of the cards S among them.  It
\* makes every card's item start over.  The read of the items and the commit are
\* one step: an item that a run settles in between stays settled if it had not
\* started when it was read, as if the run had come after, and otherwise starts
\* over, as if it had come before.
DeleteMcqs ==
  /\ deletes < MaxDeletes
  /\ \E S \in SUBSET {c \in Cards : made[c] > 0}, d \in BOOLEAN :
       /\ d => direct
       /\ d \/ \E c \in Cards : made[c] > 0
       /\ made' = [c \in Cards |-> IF c \in S THEN 0 ELSE made[c]]
       /\ direct' = (direct /\ ~d)
  /\ item' = Mark(Pending \cup InStatus("completed"), "notStarted")
  /\ deletes' = deletes + 1
  /\ resets' = resets + 1
  /\ UNCHANGED <<gen, run, start, crashes>>

\* A flashcard is deleted, and its item with it; its MCQs stay.
DeleteCard ==
  /\ deletes < MaxDeletes
  /\ deletes' = deletes + 1
  /\ \E c \in Deck : item' = Mark({c}, "gone")
  /\ UNCHANGED <<made, direct, gen, run, start, resets, crashes>>

\* The threads are daemons of the web process.
Crash ==
  /\ crashes < MaxCrashes
  /\ crashes' = crashes + 1
  /\ run' = [g \in Gens |-> NoRun]
  /\ start' = [s \in Starters |-> NoStart]
  /\ UNCHANGED <<item, made, direct, gen, resets, deletes>>

RunStep(g) ==
  \/ Load(g) \/ GiveUp(g) \/ LoseCard(g) \/ BatchSucceeds(g) \/ BatchFails(g)
  \/ SingleSucceeds(g) \/ SingleFails(g) \/ Complete(g)

StartStep(s) == AddItems(s) \/ AddGeneration(s)

McqNext ==
  \/ AddCard \/ GenerateDirectly \/ DeleteMcqs \/ DeleteCard \/ Crash
  \/ \E s \in Starters : Check(s) \/ StartStep(s)
  \/ \E g \in Gens : RunStep(g) \/ TurnOld(g)

McqSpec == McqInit /\ [][McqNext]_mcqVars

\* Handlers and threads run, time passes, and a user keeps asking for MCQs with
\* a credential that works when it is asked for again and again.
FairMcqSpec ==
  /\ McqSpec
  /\ \A s \in Starters : WF_mcqVars(Check(s)) /\ WF_mcqVars(StartStep(s))
  /\ \A g \in Gens : WF_mcqVars(RunStep(g)) /\ SF_mcqVars(Load(g)) /\ WF_mcqVars(TurnOld(g))

-----------------------------------------------------------------------------
(***************************************************************************)
(* Properties.                                                             *)
(***************************************************************************)
\* Every row and every thread holds values of its columns and variables.
McqTypeOK ==
  /\ item \in [Cards -> {"absent", "none", "notStarted", "failed", "completed", "gone"}]
  /\ made \in [Cards -> 0 .. MaxDeletes + 2]
  /\ direct \in BOOLEAN
  /\ gen \in [Gens -> [status : {"free", "in_progress", "completed", "failed"},
                       old : BOOLEAN, total : 0 .. MaxCards, processed : 0 .. MaxCards]]
  /\ run \in [Gens -> [pc : {"off", "load", "batch", "single"},
                       left : SUBSET Cards, singles : SUBSET Cards,
                       before : 0 .. MaxCards, done : 0 .. MaxCards]]
  /\ start \in [Starters -> [pc : {"idle", "items", "generation"}, seen : SUBSET Cards]]
  /\ resets \in 0 .. MaxDeletes
  /\ deletes \in 0 .. MaxDeletes
  /\ crashes \in 0 .. MaxCrashes

\* The counter a browser shows as progress never passes the total, whatever a
\* batch, its singles, a deletion or a new card does to the items meanwhile.
ProgressWithinTotal == \A g \in Gens : gen[g].processed <= gen[g].total

\* No flashcard gets MCQs twice (README: reruns process only items not already
\* completed), through failed batches, restarts and reruns; every deletion of
\* generated MCQs lets the deck start over once.
EachCardOnce == \A c \in Cards : made[c] <= 1 + resets

\* Only cards whose MCQs were deleted get new ones.  (The code does not keep
\* this: deleting a single generated MCQ makes the whole deck start over.)
OnlyDeletedAreMadeAgain == \A c \in Cards : made[c] <= 1

\* A card without MCQs is taken up by a run as long as a user keeps asking
\* (README: failed items can be retried in later runs), through failures,
\* deletions and restarts.  The exception is a restart between the last batch of
\* a run and its end: that generation stays in progress, and every later
\* request is answered already_running.
TakenUp(c) == \E g \in Gens : c \in run[g].left \cup run[g].singles
Stranded(g) == /\ gen[g].status = "in_progress" /\ run[g].pc = "off"
               /\ gen[g].processed >= gen[g].total
UnfinishedIsTakenUp ==
  \A c \in Cards : item[c] \in {"none", "notStarted", "failed"}
    ~> (TakenUp(c) \/ item[c] \in {"completed", "gone"} \/ \E g \in Gens : Stranded(g))

=============================================================================

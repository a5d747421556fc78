------------------------------- MODULE Study -------------------------------
(***************************************************************************)
(* What students do with the cards of one deck: they rate them             *)
(* (services/review_service.py, fsrs/scheduler.py) and take tests made of  *)
(* its MCQs (services/tests.py, the test handlers of content.py), while    *)
(* cards are added, deleted and regenerated under them.                    *)
(*                                                                         *)
(* A handler reads (Read...), decides, and commits one transaction         *)
(* (Commit...); no row is locked and no row is read again, so what it read *)
(* is carried in req.  Foreign keys refuse a row whose target is gone and  *)
(* take along the rows whose target goes.  The stability and difficulty of *)
(* a card are left out: floating-point numbers that decide only how many   *)
(* days away "later" is.  Who may do what is the business of DeckAccess.   *)
(***************************************************************************)
EXTENDS Naturals, FiniteSets

CONSTANTS
  Cards,        \* identities of cards
  Mcqs,         \* those of card_type "mcq"
  Tests,        \* identities of tests
  Attempts,     \* identities of test attempts
  Users,
  Exempt,       \* system administrators
  Requests,     \* requests that may be under way at a time
  EnvLimit,     \* TEST_DAILY_LIMIT, 0 for none
  OrgLimit,     \* organizations.test_daily_limit, 0 for none
  Cooldown,     \* TEST_COOLDOWN_SECONDS, in ticks of the clock
  DayLength,    \* ticks in a day
  MaxClock,     \* bound: ticks
  MaxReviews    \* bound: a card with that many reviews is not rated again

ASSUME StudyAssumption ==
  /\ Mcqs \subseteq Cards /\ Exempt \subseteq Users
  /\ {EnvLimit, OrgLimit, Cooldown, MaxClock} \subseteq Nat
  /\ MaxReviews \in [Cards -> Nat]
  /\ DayLength \in Nat \ {0}
  /\ IsFiniteSet(Cards)

VARIABLES
  card,         \* row of cards: not yet, present, gone
  schedule,     \* row of card_states, NoRow when there is none
  reviews,      \* rows of reviews: how many, and how many of them "Again"
  test,         \* rows of tests and test_questions
  attempt,      \* rows of test_attempts and test_attempt_answers
  clock,
  req,          \* per request: what it read and is about to commit
  overlapped,   \* history: two requests have been under way together
  regenerated   \* history: the deck's content has been replaced

vars == <<card, schedule, reviews, test, attempt, clock, req, overlapped, regenerated>>

Statuses == {"absent", "present", "gone"}
States   == {"NEW", "LEARNING", "REVIEW", "RELEARNING"}

NoRow  == [reps |-> 0, lapses |-> 0, state |-> "NONE", due |-> "now"]
NewRow == [reps |-> 0, lapses |-> 0, state |-> "NEW",  due |-> "now"]
Rows   == [reps : Nat, lapses : Nat, state : States \cup {"NONE"}, due : {"now", "later"}]

NoReviews  == [all |-> 0, again |-> 0]
NoTest     == [status |-> "absent", size |-> 0, questions |-> {}]
NoAttempt  == [status |-> "absent"]
GoneTest   == [NoTest EXCEPT !.status = "gone"]
GoneAttempt == [status |-> "gone"]
Idle       == [op |-> "none"]

Init ==
  /\ card = [c \in Cards |-> "absent"]
  /\ schedule = [c \in Cards |-> NoRow]
  /\ reviews = [c \in Cards |-> NoReviews]
  /\ test = [t \in Tests |-> NoTest]
  /\ attempt = [a \in Attempts |-> NoAttempt]
  /\ clock = 0
  /\ req = [r \in Requests |-> Idle]
  /\ overlapped = FALSE /\ regenerated = FALSE

Present == {c \in Cards : card[c] = "present"}
Live    == {t \in Tests : test[t].status = "present"}
Made    == {a \in Attempts : attempt[a].status = "present"}

Receive(r, what) ==
  /\ req[r] = Idle
  /\ req' = [req EXCEPT ![r] = what]
  /\ overlapped' = (overlapped \/ \E s \in Requests \ {r} : req[s] # Idle)

Answer(r) == req' = [req EXCEPT ![r] = Idle] /\ UNCHANGED overlapped

-----------------------------------------------------------------------------
(* Cards come and go. *)

\* By hand, by an import or by a generation: the schedule rows come with the
\* cards, in one transaction.
AddCards(S) ==
  /\ S # {} /\ \A c \in S : card[c] = "absent"
  /\ card' = [c \in Cards |-> IF c \in S THEN "present" ELSE card[c]]
  /\ schedule' = [c \in Cards |-> IF c \in S THEN NewRow ELSE schedule[c]]
  /\ UNCHANGED <<reviews, test, attempt, clock, req, overlapped, regenerated>>

\* The rows of the cards S go; test_questions and answers go with their card
\* by ON DELETE CASCADE, the tests T with their attempts by statements.
Remove(S, T) ==
  /\ card' = [c \in Cards |-> IF c \in S THEN "gone" ELSE card[c]]
  /\ schedule' = [c \in Cards |-> IF c \in S THEN NoRow ELSE schedule[c]]
  /\ reviews' = [c \in Cards |-> IF c \in S THEN NoReviews ELSE reviews[c]]
  /\ test' = [t \in Tests |->
       IF t \in T THEN GoneTest ELSE [test[t] EXCEPT !.questions = @ \ S]]
  /\ attempt' = [a \in Attempts |->
       IF a \notin Made THEN attempt[a]
       ELSE IF attempt[a].test \in T THEN GoneAttempt
       ELSE [attempt[a] EXCEPT !.answered = @ \ S, !.correct = @ \ S]]

\* Mutant: the tests are not looked for, as if no card were in one.
FaultyAffected(S) == {}
Affected(S) == {t \in Live : test[t].questions \cap S # {}}

\* Flashcards and MCQs have a handler each: a selection is of one kind.
ReadDelete(r, S) ==
  /\ S # {} /\ S \subseteq Present
  /\ S \subseteq Mcqs \/ S \cap Mcqs = {}
  /\ Receive(r, [op |-> "delete", cards |-> S, tests |-> Affected(S)])
  /\ UNCHANGED <<card, schedule, reviews, test, attempt, clock, regenerated>>

CommitDelete(r) ==
  /\ req[r].op = "delete"
  /\ Remove(req[r].cards, req[r].tests)
  /\ Answer(r)
  /\ UNCHANGED <<clock, regenerated>>

\* A retry of the deck's upload deletes its cards and looks for no tests.
Regenerate ==
  /\ Present # {}
  /\ Remove(Present, {})
  /\ regenerated' = TRUE
  /\ UNCHANGED <<clock, req, overlapped>>

-----------------------------------------------------------------------------
(* Reviews. *)

\* Mutant: a card forgotten after reviews is learned as if it were new.
FaultyRated(row, again) ==
  [reps |-> row.reps + 1, lapses |-> row.lapses + (IF again THEN 1 ELSE 0),
   state |-> IF again THEN "LEARNING" ELSE "REVIEW",
   due |-> IF again THEN "now" ELSE "later"]

\* The scheduler: "Again" (1) is due at once, "Hard", "Good" and "Easy" (2..4)
\* in a day at least, however many lapses shorten the interval.
Rated(row, again) ==
  [reps   |-> row.reps + 1,
   lapses |-> row.lapses + (IF again THEN 1 ELSE 0),
   state  |-> IF ~again THEN "REVIEW" ELSE IF row.reps > 0 THEN "RELEARNING" ELSE "LEARNING",
   due    |-> IF again THEN "now" ELSE "later"]

ReadRate(r, c, again) ==
  /\ c \in Present /\ reviews[c].all < MaxReviews[c]
  /\ Receive(r, [op |-> "rate", card |-> c, again |-> again, row |-> schedule[c]])
  /\ UNCHANGED <<card, schedule, reviews, test, attempt, clock, regenerated>>

\* The UPDATE names the columns whose value differs from what was read; the
\* others keep what other requests wrote meanwhile.  A card without a row,
\* which none of the ways to add cards leaves, would get one first.
Updated(now, read, again) ==
  LET old == IF read = NoRow THEN NewRow ELSE read
      new == Rated(old, again)
  IN  [reps   |-> new.reps,
       lapses |-> IF again THEN new.lapses ELSE now.lapses,
       state  |-> IF new.state # old.state \/ read = NoRow THEN new.state ELSE now.state,
       due    |-> new.due]

\* Mutant: the first rating of a card is not recorded as a review.
FaultyReviewed(rev, read, again) ==
  IF read.reps = 0 THEN rev
  ELSE [all |-> rev.all + 1, again |-> rev.again + (IF again THEN 1 ELSE 0)]

Reviewed(rev, read, again) ==
  [all |-> rev.all + 1, again |-> rev.again + (IF again THEN 1 ELSE 0)]

\* The card is gone, or another request has inserted the row this one inserts.
RateFails(q) == q.card \notin Present \/ (q.row = NoRow /\ schedule[q.card] # NoRow)

CommitRate(r) ==
  /\ req[r].op = "rate"
  /\ LET q == req[r] IN
       /\ schedule' = IF RateFails(q) THEN schedule
                      ELSE [schedule EXCEPT ![q.card] = Updated(@, q.row, q.again)]
       /\ reviews' = IF RateFails(q) THEN reviews
                     ELSE [reviews EXCEPT ![q.card] = Reviewed(@, q.row, q.again)]
  /\ Answer(r)
  /\ UNCHANGED <<card, test, attempt, clock, regenerated>>

-----------------------------------------------------------------------------
(* Tests. *)

Today(t) == t \div DayLength = clock \div DayLength
ByUser(u) == {a \in Made : attempt[a].user = u}

DailyLimit == IF OrgLimit > 0 /\ OrgLimit < EnvLimit THEN OrgLimit ELSE EnvLimit

Throttled(u) ==
  /\ u \notin Exempt
  /\ \/ \E a \in ByUser(u) : attempt[a].at + Cooldown > clock
     \/ /\ EnvLimit > 0
        /\ Cardinality({a \in ByUser(u) : Today(attempt[a].at)}) >= DailyLimit

Pool == Present \cap Mcqs

\* The number asked for is cut from the shuffled MCQs: any of them, or none
\* when it is negative.
ReadCreate(r, u, S) ==
  /\ Pool # {} /\ S \subseteq Pool
  /\ ~Throttled(u)
  /\ Receive(r, [op |-> "create", user |-> u, cards |-> S])
  /\ UNCHANGED <<card, schedule, reviews, test, attempt, clock, regenerated>>

CommitCreate(r, t) ==
  /\ req[r].op = "create"
  /\ test[t].status = "absent"
  /\ test' = IF req[r].cards \subseteq Present
             THEN [test EXCEPT ![t] = [status |-> "present", size |-> Cardinality(req[r].cards),
                                       questions |-> req[r].cards]]
             ELSE test
  /\ Answer(r)
  /\ UNCHANGED <<card, schedule, reviews, attempt, clock, regenerated>>

\* The form says which questions it shows; anyone with access may send it, as
\* often as they like: the throttle is not asked.
ReadSubmit(r, u, t, asked, right) ==
  /\ t \in Live
  /\ asked \subseteq test[t].questions /\ right \subseteq asked
  /\ Receive(r, [op |-> "submit", user |-> u, test |-> t, asked |-> asked, right |-> right])
  /\ UNCHANGED <<card, schedule, reviews, test, attempt, clock, regenerated>>

CommitSubmit(r, a) ==
  /\ req[r].op = "submit"
  /\ attempt[a].status = "absent"
  /\ LET q == req[r] IN
       attempt' =
         IF q.test \in Live /\ q.asked \subseteq test[q.test].questions
         THEN [attempt EXCEPT ![a] =
                [status |-> "present", test |-> q.test, user |-> q.user, at |-> clock,
                 total |-> Cardinality(q.asked), score |-> Cardinality(q.right),
                 answered |-> q.asked, correct |-> q.right]]
         ELSE attempt
  /\ Answer(r)
  /\ UNCHANGED <<card, schedule, reviews, test, clock, regenerated>>

Tick ==
  /\ clock < MaxClock
  /\ clock' = clock + 1
  /\ UNCHANGED <<card, schedule, reviews, test, attempt, req, overlapped, regenerated>>

\* The process or the connection dies: the transaction is rolled back.
Die(r) ==
  /\ req[r] # Idle
  /\ Answer(r)
  /\ UNCHANGED <<card, schedule, reviews, test, attempt, clock, regenerated>>

Next ==
  \/ \E S \in SUBSET Cards : AddCards(S)
  \/ Regenerate \/ Tick
  \/ \E r \in Requests :
       \/ CommitRate(r) \/ CommitDelete(r) \/ Die(r)
       \/ \E S \in SUBSET Cards : ReadDelete(r, S)
       \/ \E c \in Cards, again \in BOOLEAN : ReadRate(r, c, again)
       \/ \E u \in Users, S \in SUBSET Cards : ReadCreate(r, u, S)
       \/ \E t \in Tests : CommitCreate(r, t)
       \/ \E u \in Users, t \in Tests :
            \E asked \in SUBSET test[t].questions : \E right \in SUBSET asked :
              ReadSubmit(r, u, t, asked, right)
       \/ \E a \in Attempts : CommitSubmit(r, a)

Spec == Init /\ [][Next]_vars

-----------------------------------------------------------------------------
TestRows ==
  [status : Statuses, size : Nat, questions : SUBSET Mcqs]
AttemptRows ==
  {NoAttempt, GoneAttempt} \cup
  [status : {"present"}, test : Tests, user : Users, at : Nat, total : Nat, score : Nat,
   answered : SUBSET Mcqs, correct : SUBSET Mcqs]
RequestRows ==
  {Idle} \cup
  [op : {"delete"}, cards : SUBSET Cards, tests : SUBSET Tests] \cup
  [op : {"rate"}, card : Cards, again : BOOLEAN, row : Rows] \cup
  [op : {"create"}, user : Users, cards : SUBSET Mcqs] \cup
  [op : {"submit"}, user : Users, test : Tests, asked : SUBSET Mcqs, right : SUBSET Mcqs]

\* Types; questions and answers are about MCQs only.
TypeOK ==
  /\ card \in [Cards -> Statuses]
  /\ schedule \in [Cards -> Rows]
  /\ reviews \in [Cards -> [all : Nat, again : Nat]]
  /\ test \in [Tests -> TestRows]
  /\ attempt \in [Attempts -> AttemptRows]
  /\ clock \in Nat
  /\ req \in [Requests -> RequestRows]
  /\ overlapped \in BOOLEAN /\ regenerated \in BOOLEAN

\* Whatever ratings overlap or fail half-way, a card's schedule never counts a
\* repetition or a lapse that no recorded review stands for.
CountsWithinReviews ==
  \A c \in Cards :
    /\ schedule[c].reps <= reviews[c].all
    /\ schedule[c].lapses <= reviews[c].again

\* A card with reviews has a schedule that has left NEW: two first ratings at a
\* time cannot leave reviews without the row they are about, nor reset it.
ReviewedIsScheduled ==
  \A c \in Cards :
    reviews[c].all > 0 => schedule[c].reps > 0 /\ schedule[c].state \in States \ {"NEW"}

\* As long as no two requests overlapped, the schedule is what the reviews make
\* it: all of them are counted, and the state says what was answered last.
SerialScheduleAgrees ==
  ~overlapped => \A c \in Present :
    LET s == schedule[c] IN
      /\ s.reps = reviews[c].all /\ s.lapses = reviews[c].again
      /\ s.state \in {"NONE", "NEW"} <=> s.reps = 0
      /\ s.state = "REVIEW" <=> s.due = "later"
      /\ s.state = "LEARNING" => s.reps = 1 /\ s.lapses = 1
      /\ s.state = "RELEARNING" => s.reps > 1 /\ s.lapses > 0

\* As long as no two requests overlapped and the deck was not regenerated, a
\* test has all its questions and an attempt all its answers: deleting cards
\* takes whole tests away or none of their questions.
SerialTestsAreWhole ==
  ~overlapped /\ ~regenerated =>
    /\ \A t \in Live : test[t].size = Cardinality(test[t].questions) /\ test[t].questions \subseteq Present
    /\ \A a \in Made : /\ attempt[a].total = Cardinality(attempt[a].answered)
                       /\ attempt[a].score = Cardinality(attempt[a].correct)

\* An attempt's result is final: it changes never, and goes only with its test.
ResultKept(a) ==
  \/ /\ attempt[a].test \notin Live'
     /\ attempt'[a] = GoneAttempt
  \/ /\ attempt'[a].status = "present"
     /\ \A f \in {"test", "user", "at", "total", "score"} : attempt'[a][f] = attempt[a][f]
AttemptsAreFinal == [][\A a \in Made : ResultKept(a)]_vars

-----------------------------------------------------------------------------
(* Claims of the code's documents that do not hold; the README tells how.  *)

\* README.md:88: at most that many tests per user and day.
DailyLimitHolds ==
  EnvLimit > 0 => \A u \in Users \ Exempt :
    Cardinality({a \in ByUser(u) : Today(attempt[a].at)}) <= DailyLimit

\* A repetition is a rating: a card never has more lapses than repetitions.
LapsesWithinReps == \A c \in Cards : schedule[c].lapses <= schedule[c].reps

\* The tests of a deck survive its regeneration whole.
TestsAreWhole == \A t \in Live : test[t].size = Cardinality(test[t].questions)
=============================================================================

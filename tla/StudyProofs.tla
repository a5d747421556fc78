---------------------------- MODULE StudyProofs ----------------------------
(***************************************************************************)
(* Theorems about reviews and tests in Study, for any cards, requests and  *)
(* order of their reads and commits.                                       *)
(*                                                                         *)
(* A commit writes what it computed from a row read earlier.  The counts   *)
(* are right because a read is never ahead of the reviews (ReadIsPast) and *)
(* reviews are only ever added while the card is there.  As long as no two *)
(* requests overlapped, what the one request read is still so when it      *)
(* commits (SerialReads): then nothing is forgotten, and a deletion takes  *)
(* every test its cards are in.                                            *)
(***************************************************************************)
EXTENDS Study, FiniteSetTheorems, TLAPS

Rates(r) == req[r].op = "rate"

\* What the argument needs to know of the types.
ScheduleTypes ==
  /\ card \in [Cards -> Statuses]
  /\ schedule \in [Cards -> Rows]
  /\ reviews \in [Cards -> [all : Nat, again : Nat]]
  /\ req = [r \in Requests |-> req[r]]
  /\ \A r \in Requests : Rates(r) =>
       req[r].card \in Cards /\ req[r].again \in BOOLEAN /\ req[r].row \in Rows

\* A card that is not there yet has neither schedule nor reviews.
AbsentIsClean ==
  \A c \in Cards : card[c] = "absent" => schedule[c] = NoRow /\ reviews[c] = NoReviews

Scheduled(row) == row.state \in States \ {"NEW"}

\* What a request has read of a card is not ahead of the card's reviews, and
\* a schedule that had left NEW has not returned to it.
ReadIsPast ==
  \A r \in Requests : Rates(r) =>
    LET c == req[r].card
        row == req[r].row
    IN  /\ card[c] # "absent"
        /\ card[c] = "present" =>
             /\ row.reps <= reviews[c].all
             /\ row.lapses <= reviews[c].again
             /\ Scheduled(row) => Scheduled(schedule[c])

IInv ==
  /\ ScheduleTypes
  /\ AbsentIsClean
  /\ ReadIsPast
  /\ CountsWithinReviews
  /\ ReviewedIsScheduled

reviewVars == <<card, schedule, reviews, req>>

LEMMA InitIInv == Init => IInv
  BY DEF Init, IInv, ScheduleTypes, AbsentIsClean, ReadIsPast, CountsWithinReviews,
         ReviewedIsScheduled, Rates, Idle, NoRow, NoReviews, Rows, Statuses, States

\* A step that neither writes cards, schedules and reviews nor receives a
\* rating keeps the invariant.
LEMMA OtherStep ==
  ASSUME IInv, UNCHANGED <<card, schedule, reviews>>,
         NEW r \in Requests, NEW what, what.op # "rate", req' = [req EXCEPT ![r] = what]
  PROVE  IInv'
  <1>1. \A s \in Requests : Rates(s)' => Rates(s) /\ req'[s] = req[s]
    BY DEF IInv, ScheduleTypes, Rates
  <1>2. ScheduleTypes'
    BY <1>1 DEF IInv, ScheduleTypes, Rates
  <1>3. ReadIsPast'
    BY <1>1 DEF IInv, ReadIsPast, Rates, Scheduled
  <1>4. QED
    BY <1>2, <1>3 DEF IInv, AbsentIsClean, CountsWithinReviews, ReviewedIsScheduled

\* A row given to cards that are not there yet, or taken from cards that go.
LEMMA CardsStep ==
  ASSUME IInv, NEW S \in SUBSET Cards, NEW st \in {"present", "gone"}, NEW row \in {NoRow, NewRow},
         st = "present" => \A c \in S : card[c] = "absent",
         st = "gone" => row = NoRow,
         card' = [c \in Cards |-> IF c \in S THEN st ELSE card[c]],
         schedule' = [c \in Cards |-> IF c \in S THEN row ELSE schedule[c]],
         reviews' = [c \in Cards |-> IF c \in S THEN NoReviews ELSE reviews[c]],
         req' = req
  PROVE  IInv'
  <1>1. NoRow \in Rows /\ NewRow \in Rows /\ NoReviews \in [all : Nat, again : Nat]
    BY DEF NoRow, NewRow, NoReviews, Rows, States
  <1>2. ScheduleTypes'
    BY <1>1 DEF IInv, ScheduleTypes, Rates, Statuses
  <1>3. AbsentIsClean'
    BY DEF IInv, AbsentIsClean
  <1>4. ReadIsPast'
    <2> SUFFICES ASSUME NEW r \in Requests, Rates(r), NEW c, c = req[r].card
                 PROVE  /\ card'[c] # "absent"
                        /\ card'[c] = "present" =>
                             /\ req[r].row.reps <= reviews'[c].all
                             /\ req[r].row.lapses <= reviews'[c].again
                             /\ Scheduled(req[r].row) => Scheduled(schedule'[c])
      BY DEF ReadIsPast, Rates, Scheduled
    <2>1. c \in Cards /\ card[c] # "absent"
      BY DEF IInv, ScheduleTypes, ReadIsPast
    <2>2. CASE c \in S
      BY <2>1, <2>2
    <2>3. CASE c \notin S
      BY <2>1, <2>3 DEF IInv, ReadIsPast
    <2>4. QED
      BY <2>2, <2>3
  <1>5. CountsWithinReviews'
    BY DEF IInv, CountsWithinReviews, NoRow, NewRow, NoReviews
  <1>6. ReviewedIsScheduled'
    BY DEF IInv, ReviewedIsScheduled, NoReviews
  <1>7. QED
    BY <1>2, <1>3, <1>4, <1>5, <1>6 DEF IInv

\* What a rating reads is what is there.
LEMMA ReadRateStep ==
  ASSUME IInv, NEW r \in Requests, NEW c \in Cards, NEW again \in BOOLEAN, ReadRate(r, c, again)
  PROVE  IInv'
  <1> DEFINE what == [op |-> "rate", card |-> c, again |-> again, row |-> schedule[c]]
  <1>1. /\ card[c] = "present"
        /\ req' = [req EXCEPT ![r] = what]
        /\ UNCHANGED <<card, schedule, reviews>>
    BY DEF ReadRate, Receive, Present
  <1>2. ScheduleTypes'
    BY <1>1 DEF IInv, ScheduleTypes, Rates
  <1>3. ReadIsPast'
    <2> SUFFICES ASSUME NEW s \in Requests, Rates(s)',
                        NEW d, d = req'[s].card, NEW row, row = req'[s].row
                 PROVE  /\ card[d] # "absent"
                        /\ card[d] = "present" =>
                             /\ row.reps <= reviews[d].all
                             /\ row.lapses <= reviews[d].again
                             /\ Scheduled(row) => Scheduled(schedule[d])
      BY <1>1 DEF ReadIsPast, Scheduled
    <2>1. CASE s = r
      BY <1>1, <2>1 DEF IInv, ScheduleTypes, CountsWithinReviews
    <2>2. CASE s # r
      <3>1. req'[s] = req[s] /\ Rates(s)
        BY <1>1, <2>2 DEF IInv, ScheduleTypes, Rates
      <3>2. QED
        BY <3>1 DEF IInv, ReadIsPast
    <2>3. QED
      BY <2>1, <2>2
  <1>4. QED
    BY <1>1, <1>2, <1>3 DEF IInv, AbsentIsClean, CountsWithinReviews, ReviewedIsScheduled

\* A row computed from one that was not ahead of the reviews is not ahead of
\* them once the review is added, and has left NEW for good.
LEMMA UpdatedRow ==
  ASSUME NEW now \in Rows, NEW read \in Rows, NEW again \in BOOLEAN,
         NEW rev \in [all : Nat, again : Nat],
         read.reps <= rev.all, read.lapses <= rev.again, now.lapses <= rev.again,
         Scheduled(read) => Scheduled(now)
  PROVE  /\ Updated(now, read, again) \in Rows
         /\ Reviewed(rev, read, again) \in [all : Nat, again : Nat]
         /\ Updated(now, read, again).reps > 0
         /\ Updated(now, read, again).reps <= Reviewed(rev, read, again).all
         /\ Updated(now, read, again).lapses <= Reviewed(rev, read, again).again
         /\ Scheduled(Updated(now, read, again))
  <1> DEFINE old == IF read = NoRow THEN NewRow ELSE read
             new == Rated(old, again)
             upd == Updated(now, read, again)
  <1>1. old \in Rows /\ old.reps <= rev.all /\ old.lapses <= rev.again
    BY DEF NewRow, Rows, States
  <1>2. /\ new \in Rows
        /\ new.reps = old.reps + 1
        /\ new.lapses = old.lapses + (IF again THEN 1 ELSE 0)
        /\ new.state \in States \ {"NEW"}
    BY <1>1 DEF Rated, Rows, States
  <1>3. /\ upd.reps = new.reps
        /\ upd.lapses = (IF again THEN new.lapses ELSE now.lapses)
        /\ upd.due = new.due
        /\ upd = [reps |-> upd.reps, lapses |-> upd.lapses, state |-> upd.state, due |-> upd.due]
    BY DEF Updated
  <1>4. Scheduled(upd)
    <2>1. CASE new.state # old.state \/ read = NoRow
      BY <1>2, <2>1 DEF Scheduled, Updated
    <2>2. CASE new.state = old.state /\ read # NoRow
      BY <1>2, <2>2 DEF Scheduled, Updated
    <2>3. QED
      BY <2>1, <2>2
  <1>5. upd \in Rows
    BY <1>2, <1>3, <1>4 DEF Rows, Scheduled
  <1>6. /\ Reviewed(rev, read, again).all = rev.all + 1
        /\ Reviewed(rev, read, again).again = rev.again + (IF again THEN 1 ELSE 0)
        /\ Reviewed(rev, read, again) \in [all : Nat, again : Nat]
    BY DEF Reviewed
  <1>7. upd.reps > 0 /\ upd.reps <= rev.all + 1
    BY <1>1, <1>2, <1>3 DEF Rows
  <1>8. upd.lapses <= rev.again + (IF again THEN 1 ELSE 0)
    BY <1>1, <1>2, <1>3 DEF Rows
  <1>9. QED
    BY <1>4, <1>5, <1>6, <1>7, <1>8

LEMMA CommitRateStep ==
  ASSUME IInv, NEW r \in Requests, CommitRate(r)
  PROVE  IInv'
  <1> DEFINE q == req[r]
             c == q.card
  <1>1. /\ c \in Cards /\ q.again \in BOOLEAN /\ q.row \in Rows
        /\ req' = [req EXCEPT ![r] = Idle]
        /\ UNCHANGED card
    BY DEF IInv, ScheduleTypes, CommitRate, Answer, Rates
  <1>2. CASE RateFails(q)
    <2>1. UNCHANGED <<schedule, reviews>>
      BY <1>2 DEF CommitRate
    <2>2. Idle.op # "rate"
      BY DEF Idle
    <2>3. QED
      BY <1>1, <2>1, <2>2, OtherStep
  <1>3. CASE ~RateFails(q)
    <2> DEFINE row == Updated(schedule[c], q.row, q.again)
               rev == Reviewed(reviews[c], q.row, q.again)
    <2>1. /\ card[c] = "present"
          /\ schedule' = [schedule EXCEPT ![c] = row]
          /\ reviews' = [reviews EXCEPT ![c] = rev]
      BY <1>3 DEF CommitRate, RateFails, Present
    <2>2. /\ row \in Rows /\ rev \in [all : Nat, again : Nat]
          /\ row.reps > 0 /\ row.reps <= rev.all /\ row.lapses <= rev.again
          /\ Scheduled(row)
      <3>1. /\ q.row.reps <= reviews[c].all /\ q.row.lapses <= reviews[c].again
            /\ Scheduled(q.row) => Scheduled(schedule[c])
        BY <2>1 DEF IInv, ReadIsPast, CommitRate, Rates
      <3>2. /\ schedule[c] \in Rows /\ reviews[c] \in [all : Nat, again : Nat]
            /\ schedule[c].lapses <= reviews[c].again
        BY <1>1 DEF IInv, ScheduleTypes, CountsWithinReviews
      <3>3. QED
        BY <1>1, <3>1, <3>2, UpdatedRow
    <2>3. \A s \in Requests : Rates(s)' => Rates(s) /\ req'[s] = req[s]
      BY <1>1 DEF IInv, ScheduleTypes, Rates, Idle
    <2>4. /\ reviews[c].all \in Nat /\ reviews[c].again \in Nat
          /\ rev.all = reviews[c].all + 1 /\ rev.again \in {reviews[c].again, reviews[c].again + 1}
      BY <1>1 DEF IInv, ScheduleTypes, Reviewed
    <2>5. ScheduleTypes'
      BY <1>1, <2>1, <2>2, <2>3 DEF IInv, ScheduleTypes, Rates
    <2>6. AbsentIsClean'
      BY <1>1, <2>1 DEF IInv, AbsentIsClean, ScheduleTypes
    <2>7. ReadIsPast'
      <3> SUFFICES ASSUME NEW s \in Requests, Rates(s),
                          NEW d, d = req[s].card, NEW read, read = req[s].row
                   PROVE  /\ card[d] # "absent"
                          /\ card[d] = "present" =>
                               /\ read.reps <= reviews'[d].all
                               /\ read.lapses <= reviews'[d].again
                               /\ Scheduled(read) => Scheduled(schedule'[d])
        BY <1>1, <2>3 DEF ReadIsPast, Scheduled
      <3>1. /\ d \in Cards /\ read.reps \in Nat /\ read.lapses \in Nat
            /\ card[d] # "absent"
            /\ card[d] = "present" => /\ read.reps <= reviews[d].all
                                      /\ read.lapses <= reviews[d].again
                                      /\ Scheduled(read) => Scheduled(schedule[d])
        BY DEF IInv, ScheduleTypes, ReadIsPast, Rows
      <3>2. CASE d = c
        BY <2>1, <2>2, <2>4, <3>1, <3>2 DEF IInv, ScheduleTypes
      <3>3. CASE d # c
        BY <2>1, <3>1, <3>3 DEF IInv, ScheduleTypes
      <3>4. QED
        BY <3>2, <3>3
    <2>8. CountsWithinReviews'
      BY <2>1, <2>2 DEF IInv, CountsWithinReviews, ScheduleTypes
    <2>9. ReviewedIsScheduled'
      BY <2>1, <2>2 DEF IInv, ReviewedIsScheduled, ScheduleTypes, Scheduled
    <2>10. QED
      BY <2>5, <2>6, <2>7, <2>8, <2>9 DEF IInv
  <1>4. QED
    BY <1>2, <1>3

LEMMA StepKeepsIInv ==
  ASSUME IInv, [Next]_vars
  PROVE  IInv'
  <1>1. ASSUME NEW S \in SUBSET Cards, AddCards(S)
        PROVE  IInv'
    <2>1. reviews' = [c \in Cards |-> IF c \in S THEN NoReviews ELSE reviews[c]]
      BY <1>1 DEF AddCards, IInv, AbsentIsClean, ScheduleTypes
    <2>2. QED
      BY <1>1, <2>1, CardsStep DEF AddCards
  <1>2. CASE Regenerate
    <2>1. Present \in SUBSET Cards
      BY DEF Present
    <2>2. QED
      BY <1>2, <2>1, CardsStep DEF Regenerate, Remove
  <1>3. CASE Tick \/ UNCHANGED vars
    BY <1>3 DEF Tick, vars, IInv, ScheduleTypes, AbsentIsClean, ReadIsPast, Rates, Scheduled,
                CountsWithinReviews, ReviewedIsScheduled
  <1>4. ASSUME NEW r \in Requests, NEW S \in SUBSET Cards, ReadDelete(r, S)
        PROVE  IInv'
    <2> DEFINE what == [op |-> "delete", cards |-> S, tests |-> Affected(S)]
    <2>1. what.op # "rate" /\ req' = [req EXCEPT ![r] = what] /\ UNCHANGED <<card, schedule, reviews>>
      BY <1>4 DEF ReadDelete, Receive
    <2> HIDE DEF what
    <2>2. QED
      BY <2>1, OtherStep
  <1>5. ASSUME NEW r \in Requests, CommitDelete(r)
        PROVE  IInv'
    <2>1. req[r].op = "delete" /\ req' = [req EXCEPT ![r] = Idle] /\ Idle.op # "rate"
      BY <1>5 DEF CommitDelete, Answer, Idle
    <2> DEFINE S == req[r].cards \cap Cards
    <2>2. /\ card' = [c \in Cards |-> IF c \in S THEN "gone" ELSE card[c]]
          /\ schedule' = [c \in Cards |-> IF c \in S THEN NoRow ELSE schedule[c]]
          /\ reviews' = [c \in Cards |-> IF c \in S THEN NoReviews ELSE reviews[c]]
      BY <1>5 DEF CommitDelete, Remove
    <2>3. \A s \in Requests : Rates(s)' => Rates(s) /\ req'[s] = req[s]
      BY <2>1 DEF IInv, ScheduleTypes, Rates
    <2>4. ScheduleTypes'
      BY <2>1, <2>2, <2>3
      DEF IInv, ScheduleTypes, Rates, Statuses, NoRow, NoReviews, Rows
    <2>5. AbsentIsClean'
      BY <2>2 DEF IInv, AbsentIsClean
    <2>6. CountsWithinReviews' /\ ReviewedIsScheduled'
      BY <2>2 DEF IInv, CountsWithinReviews, ReviewedIsScheduled, NoRow, NoReviews
    <2>7. ReadIsPast'
      <3> SUFFICES ASSUME NEW s \in Requests, Rates(s), NEW c, c = req[s].card
                   PROVE  /\ card'[c] # "absent"
                          /\ card'[c] = "present" =>
                               /\ req[s].row.reps <= reviews'[c].all
                               /\ req[s].row.lapses <= reviews'[c].again
                               /\ Scheduled(req[s].row) => Scheduled(schedule'[c])
        BY <2>3 DEF ReadIsPast, Scheduled
      <3>1. c \in Cards /\ card[c] # "absent"
        BY DEF IInv, ScheduleTypes, ReadIsPast
      <3>2. CASE c \in S
        BY <2>2, <3>1, <3>2
      <3>3. CASE c \notin S
        BY <2>2, <3>1, <3>3 DEF IInv, ReadIsPast
      <3>4. QED
        BY <3>2, <3>3
    <2>8. QED
      BY <2>4, <2>5, <2>6, <2>7 DEF IInv
  <1>6. ASSUME NEW r \in Requests, NEW u \in Users, NEW S \in SUBSET Cards, ReadCreate(r, u, S)
        PROVE  IInv'
    <2> DEFINE what == [op |-> "create", user |-> u, cards |-> S]
    <2>1. what.op # "rate" /\ req' = [req EXCEPT ![r] = what] /\ UNCHANGED <<card, schedule, reviews>>
      BY <1>6 DEF ReadCreate, Receive
    <2> HIDE DEF what
    <2>2. QED
      BY <2>1, OtherStep
  <1>7. ASSUME NEW r \in Requests, NEW u, NEW t, NEW asked, NEW right,
               ReadSubmit(r, u, t, asked, right)
        PROVE  IInv'
    <2> DEFINE what == [op |-> "submit", user |-> u, test |-> t, asked |-> asked, right |-> right]
    <2>1. what.op # "rate" /\ req' = [req EXCEPT ![r] = what] /\ UNCHANGED <<card, schedule, reviews>>
      BY <1>7 DEF ReadSubmit, Receive
    <2> HIDE DEF what
    <2>2. QED
      BY <2>1, OtherStep
  <1>8. ASSUME NEW r \in Requests,
               \/ Die(r)
               \/ \E t \in Tests : CommitCreate(r, t)
               \/ \E a \in Attempts : CommitSubmit(r, a)
        PROVE  IInv'
    <2>1. Idle.op # "rate" /\ req' = [req EXCEPT ![r] = Idle] /\ UNCHANGED <<card, schedule, reviews>>
      BY <1>8 DEF Die, CommitCreate, CommitSubmit, Answer, Idle
    <2>2. QED
      BY <2>1, OtherStep
  <1>9. QED
    BY <1>1, <1>2, <1>3, <1>4, <1>5, <1>6, <1>7, <1>8, ReadRateStep, CommitRateStep
    DEF Next

LEMMA AlwaysIInv == Spec => []IInv
  <1>1. IInv /\ [Next]_vars => IInv'
    BY StepKeepsIInv
  <1>2. QED
    BY InitIInv, <1>1, PTL DEF Spec

\* However ratings of a card overlap and fail, its schedule counts no
\* repetition and no lapse without a recorded review.
THEOREM CountsStayWithinReviews == Spec => []CountsWithinReviews
  BY AlwaysIInv, PTL DEF IInv

\* A card with reviews has a schedule row that has left NEW.
THEOREM ReviewedStaysScheduled == Spec => []ReviewedIsScheduled
  BY AlwaysIInv, PTL DEF IInv
-----------------------------------------------------------------------------
\* The part of the types the reviews do not need.
TestTypes ==
  /\ test \in [Tests -> TestRows]
  /\ attempt \in [Attempts -> AttemptRows]
  /\ clock \in Nat
  /\ req \in [Requests -> RequestRows]
  /\ overlapped \in BOOLEAN /\ regenerated \in BOOLEAN

\* Questions are finitely many.
LEMMA SizesAreNumbers == \A S \in SUBSET Mcqs : Cardinality(S) \in Nat
  BY StudyAssumption, FS_Subset, FS_CardinalityType

\* What a request of each kind carries.
LEMMA RequestFields ==
  ASSUME TestTypes, NEW r \in Requests
  PROVE  /\ req[r].op = "delete" => req[r].cards \in SUBSET Cards /\ req[r].tests \in SUBSET Tests
         /\ req[r].op = "create" => req[r].user \in Users /\ req[r].cards \in SUBSET Mcqs
         /\ req[r].op = "submit" =>
              /\ req[r].user \in Users /\ req[r].test \in Tests
              /\ req[r].asked \in SUBSET Mcqs /\ req[r].right \in SUBSET Mcqs
  BY DEF TestTypes, RequestRows, Idle

\* Removing cards and tests leaves rows that are smaller or gone.
LEMMA RemoveTypes ==
  ASSUME TestTypes, NEW S, NEW T, Remove(S, T)
  PROVE  test' \in [Tests -> TestRows] /\ attempt' \in [Attempts -> AttemptRows]
  <1>1. GoneTest \in TestRows
    BY DEF GoneTest, NoTest, TestRows, Statuses
  <1>2. ASSUME NEW t \in Tests
        PROVE  [test[t] EXCEPT !.questions = @ \ S] \in TestRows
    BY <1>2 DEF TestTypes, TestRows
  <1>3. ASSUME NEW a \in Made
        PROVE  [attempt[a] EXCEPT !.answered = @ \ S, !.correct = @ \ S] \in AttemptRows
    <2>1. /\ a \in Attempts /\ attempt[a] \in AttemptRows
          /\ attempt[a].status = "present"
      BY DEF Made, TestTypes
    <2>2. attempt[a] \in [status : {"present"}, test : Tests, user : Users, at : Nat,
                          total : Nat, score : Nat,
                          answered : SUBSET Mcqs, correct : SUBSET Mcqs]
      BY <2>1 DEF AttemptRows, NoAttempt, GoneAttempt
    <2>3. QED
      BY <2>2 DEF AttemptRows
  <1>4. GoneAttempt \in AttemptRows
    BY DEF AttemptRows
  <1>5. test' \in [Tests -> TestRows]
    BY <1>1, <1>2 DEF Remove, TestTypes
  <1>6. attempt' \in [Attempts -> AttemptRows]
    BY <1>3, <1>4 DEF Remove, TestTypes
  <1>7. QED
    BY <1>5, <1>6

\* A request that is received and one that is answered.
LEMMA RequestTypes ==
  ASSUME TestTypes, NEW r \in Requests
  PROVE  /\ \A what \in RequestRows :
              Receive(r, what) => req' \in [Requests -> RequestRows] /\ overlapped' \in BOOLEAN
         /\ Answer(r) => req' \in [Requests -> RequestRows] /\ overlapped' \in BOOLEAN
  BY DEF TestTypes, Receive, Answer, RequestRows

LEMMA StepKeepsTypes ==
  ASSUME IInv, TestTypes, [Next]_vars
  PROVE  TestTypes'
  <1> USE DEF TestTypes
  <1>1. ASSUME NEW S \in SUBSET Cards, AddCards(S)
        PROVE  TestTypes'
    BY <1>1 DEF AddCards
  <1>2. CASE Regenerate
    BY <1>2, RemoveTypes DEF Regenerate
  <1>3. CASE Tick \/ UNCHANGED vars
    BY <1>3 DEF Tick, vars
  <1>4. ASSUME NEW r \in Requests, NEW S \in SUBSET Cards, ReadDelete(r, S)
        PROVE  TestTypes'
    <2> DEFINE what == [op |-> "delete", cards |-> S, tests |-> Affected(S)]
    <2>1. what \in RequestRows
      BY DEF RequestRows, Affected, Live
    <2>2. Receive(r, what) /\ UNCHANGED <<test, attempt, clock, regenerated>>
      BY <1>4 DEF ReadDelete
    <2> HIDE DEF what
    <2>3. QED
      BY <2>1, <2>2, RequestTypes
  <1>5. ASSUME NEW r \in Requests, CommitDelete(r)
        PROVE  TestTypes'
    BY <1>5, RemoveTypes, RequestTypes DEF CommitDelete
  <1>6. ASSUME NEW r \in Requests, NEW c \in Cards, NEW again \in BOOLEAN, ReadRate(r, c, again)
        PROVE  TestTypes'
    <2> DEFINE what == [op |-> "rate", card |-> c, again |-> again, row |-> schedule[c]]
    <2>1. what \in RequestRows
      BY DEF RequestRows, IInv, ScheduleTypes
    <2>2. Receive(r, what) /\ UNCHANGED <<test, attempt, clock, regenerated>>
      BY <1>6 DEF ReadRate
    <2> HIDE DEF what
    <2>3. QED
      BY <2>1, <2>2, RequestTypes
  <1>7. ASSUME NEW r \in Requests, NEW u \in Users, NEW S \in SUBSET Cards, ReadCreate(r, u, S)
        PROVE  TestTypes'
    <2> DEFINE what == [op |-> "create", user |-> u, cards |-> S]
    <2>1. what \in RequestRows
      BY <1>7 DEF RequestRows, ReadCreate, Pool
    <2>2. Receive(r, what) /\ UNCHANGED <<test, attempt, clock, regenerated>>
      BY <1>7 DEF ReadCreate
    <2> HIDE DEF what
    <2>3. QED
      BY <2>1, <2>2, RequestTypes
  <1>8. ASSUME NEW r \in Requests, NEW t \in Tests, CommitCreate(r, t)
        PROVE  TestTypes'
    <2>1. test' \in [Tests -> TestRows]
      <3>1. req[r].cards \in SUBSET Mcqs
        BY <1>8, RequestFields DEF CommitCreate
      <3>2. [status |-> "present", size |-> Cardinality(req[r].cards),
             questions |-> req[r].cards] \in TestRows
        BY <3>1, SizesAreNumbers DEF TestRows, Statuses
      <3>3. QED
        BY <1>8, <3>2 DEF CommitCreate
    <2>2. QED
      BY <1>8, <2>1, RequestTypes DEF CommitCreate
  <1>9. ASSUME NEW r \in Requests, NEW u \in Users, NEW t \in Tests,
               NEW asked \in SUBSET test[t].questions, NEW right \in SUBSET asked,
               ReadSubmit(r, u, t, asked, right)
        PROVE  TestTypes'
    <2> DEFINE what == [op |-> "submit", user |-> u, test |-> t, asked |-> asked, right |-> right]
    <2>1. what \in RequestRows
      <3>1. test[t].questions \in SUBSET Mcqs
        BY DEF TestRows
      <3>2. asked \in SUBSET Mcqs /\ right \in SUBSET Mcqs
        BY <3>1
      <3>3. QED
        BY <3>2 DEF RequestRows
    <2>2. Receive(r, what) /\ UNCHANGED <<test, attempt, clock, regenerated>>
      BY <1>9 DEF ReadSubmit
    <2> HIDE DEF what
    <2>3. QED
      BY <2>1, <2>2, RequestTypes
  <1>10. ASSUME NEW r \in Requests, NEW a \in Attempts, CommitSubmit(r, a)
         PROVE  TestTypes'
    <2>1. attempt' \in [Attempts -> AttemptRows]
      <3> DEFINE q == req[r]
                 made == [status |-> "present", test |-> q.test, user |-> q.user, at |-> clock,
                          total |-> Cardinality(q.asked), score |-> Cardinality(q.right),
                          answered |-> q.asked, correct |-> q.right]
      <3>1. /\ q.user \in Users /\ q.test \in Tests
            /\ q.asked \in SUBSET Mcqs /\ q.right \in SUBSET Mcqs
        BY <1>10, RequestFields DEF CommitSubmit
      <3>2. made \in AttemptRows
        BY <3>1, SizesAreNumbers DEF AttemptRows
      <3>3. attempt' = attempt \/ attempt' = [attempt EXCEPT ![a] = made]
        BY <1>10 DEF CommitSubmit
      <3> HIDE DEF made
      <3>4. QED
        BY <3>2, <3>3
    <2>2. QED
      BY <1>10, <2>1, RequestTypes DEF CommitSubmit
  <1>11. ASSUME NEW r \in Requests, CommitRate(r) \/ Die(r)
         PROVE  TestTypes'
    BY <1>11, RequestTypes DEF CommitRate, Die
  <1>12. QED
    BY <1>1, <1>2, <1>3, <1>4, <1>5, <1>6, <1>7, <1>8, <1>9, <1>10, <1>11 DEF Next

\* Type correctness of all rows and requests, for any number of them.
THEOREM TypeCorrect == Spec => []TypeOK
  <1>1. Init => TestTypes
    <2>1. NoTest \in TestRows
      BY DEF NoTest, TestRows, Statuses
    <2>2. NoAttempt \in AttemptRows /\ Idle \in RequestRows
      BY DEF AttemptRows, RequestRows
    <2>3. SUFFICES ASSUME Init
                   PROVE  TestTypes
      OBVIOUS
    <2>4. test \in [Tests -> TestRows] /\ attempt \in [Attempts -> AttemptRows]
      BY <2>1, <2>2, <2>3 DEF Init
    <2>5. req \in [Requests -> RequestRows]
      BY <2>2, <2>3 DEF Init
    <2>6. QED
      BY <2>3, <2>4, <2>5 DEF Init, TestTypes
  <1>2. IInv /\ TestTypes /\ [Next]_vars => TestTypes'
    BY StepKeepsTypes
  <1>3. IInv /\ TestTypes => TypeOK
    BY DEF IInv, ScheduleTypes, TestTypes, TypeOK
  <1>4. QED
    BY <1>1, <1>2, <1>3, AlwaysIInv, PTL DEF Spec

\* The fields of an attempt that a report shows.
LEMMA RemoveKeepsResults ==
  ASSUME TestTypes, NEW S, NEW T \in SUBSET Tests, Remove(S, T), NEW a \in Made
  PROVE  ResultKept(a)
  <1>1. /\ a \in Attempts /\ attempt[a] \in AttemptRows
        /\ attempt[a].status = "present"
    BY DEF Made, TestTypes
  <1>2. attempt[a] \in [status : {"present"}, test : Tests, user : Users, at : Nat,
                        total : Nat, score : Nat,
                        answered : SUBSET Mcqs, correct : SUBSET Mcqs]
    BY <1>1 DEF AttemptRows, NoAttempt, GoneAttempt
  <1>3. CASE attempt[a].test \in T
    <2>1. attempt'[a] = GoneAttempt
      BY <1>1, <1>3 DEF Remove
    <2>2. test'[attempt[a].test] = GoneTest
      BY <1>2, <1>3 DEF Remove
    <2>3. QED
      BY <2>1, <2>2 DEF ResultKept, Live, GoneTest, NoTest
  <1>4. CASE attempt[a].test \notin T
    <2>1. attempt'[a] = [attempt[a] EXCEPT !.answered = @ \ S, !.correct = @ \ S]
      BY <1>1, <1>4 DEF Remove
    <2>2. QED
      BY <1>2, <2>1 DEF ResultKept
  <1>5. QED
    BY <1>3, <1>4

\* A result that was recorded never changes; it goes only with its test.
THEOREM ResultsAreFinal == Spec => AttemptsAreFinal
  <1> DEFINE Kept == \A a \in Made : ResultKept(a)
  <1>1. UNCHANGED attempt => Kept
    BY DEF Made, ResultKept
  <1>2. ASSUME TestTypes, Regenerate
        PROVE  Kept
    BY <1>2, RemoveKeepsResults DEF Regenerate
  <1>3. ASSUME TestTypes, NEW r \in Requests, CommitDelete(r)
        PROVE  Kept
    BY <1>3, RemoveKeepsResults, RequestFields DEF CommitDelete
  <1>4. ASSUME TestTypes, NEW r \in Requests, NEW b \in Attempts, CommitSubmit(r, b)
        PROVE  Kept
    BY <1>4 DEF TestTypes, CommitSubmit, Made, ResultKept
  <1>5. ASSUME TestTypes, [Next]_vars
        PROVE  [Kept]_vars
    <2> HIDE DEF Kept
    <2>1. Next => Kept
      BY <1>1, <1>2, <1>3, <1>4, <1>5
      DEF Next, AddCards, Tick, ReadDelete, ReadRate, CommitRate, ReadCreate, CommitCreate,
          ReadSubmit, Die
    <2>2. QED
      BY <1>5, <2>1
  <1>6. TypeOK => TestTypes
    BY DEF TypeOK, TestTypes
  <1>7. TypeOK /\ [Next]_vars => [Kept]_vars
    BY <1>5, <1>6
  <1>8. QED
    BY <1>7, TypeCorrect, PTL DEF Spec, AttemptsAreFinal
-----------------------------------------------------------------------------
(***************************************************************************)
(* One request at a time.  While no two requests have overlapped, what the *)
(* one under way has read is still there when it commits (SerialReads).    *)
(***************************************************************************)
ReadIsCurrent(r) ==
  /\ Rates(r) /\ req[r].card \in Present => req[r].row = schedule[req[r].card]
  /\ ~regenerated /\ req[r].op = "delete" => req[r].tests = Affected(req[r].cards)

SerialReads ==
  ~overlapped =>
    /\ \A r, s \in Requests : req[r] # Idle /\ req[s] # Idle => r = s
    /\ \A r \in Requests : ReadIsCurrent(r)

AllIdle == \A r \in Requests : req[r] = Idle

\* Whatever overlaps, a test asks about cards that are there, and an attempt
\* answers questions of a test that is there.
TestsStand ==
  /\ \A t \in Live : test[t].questions \subseteq Present
  /\ \A a \in Made :
       /\ attempt[a].test \in Live
       /\ attempt[a].answered \subseteq test[attempt[a].test].questions
       /\ attempt[a].correct \subseteq attempt[a].answered

\* The form's right answers are among those it gives.
RightAreAsked ==
  \A r \in Requests : req[r].op = "submit" => req[r].right \subseteq req[r].asked

AgainsAreReviews == \A c \in Cards : reviews[c].again <= reviews[c].all

Types == IInv /\ TestTypes

LEMMA AlwaysTypes == Spec => []Types
  <1>1. TypeOK => TestTypes
    BY DEF TypeOK, TestTypes
  <1>2. QED
    BY <1>1, TypeCorrect, AlwaysIInv, PTL DEF Types

\* Two requests that have overlapped have done so for good.
LEMMA OverlapStays ==
  ASSUME Types, [Next]_vars, ~overlapped'
  PROVE  ~overlapped
  BY DEF Next, vars, AddCards, Regenerate, Tick, ReadDelete, ReadRate, ReadCreate, ReadSubmit,
         CommitRate, CommitDelete, CommitCreate, CommitSubmit, Die, Receive, Answer

\* Once the only request is answered none is left.
LEMMA AnswerLeavesNone ==
  ASSUME Types, SerialReads, NEW r \in Requests, req[r] # Idle, Answer(r), ~overlapped'
  PROVE  AllIdle'
  BY DEF SerialReads, Answer, AllIdle, Types, TestTypes

\* What a request reads is what is there, and it is the only one.
LEMMA ReceiveReads ==
  ASSUME Types, NEW r \in Requests, NEW what, Receive(r, what), ~overlapped', what # Idle,
         UNCHANGED <<card, schedule, test, regenerated>>,
         what.op = "rate" => what.row = schedule[what.card],
         what.op = "delete" => what.tests = Affected(what.cards)
  PROVE  SerialReads'
  <1>1. /\ req'[r] = what
        /\ \A s \in Requests : s # r => req'[s] = Idle
    BY DEF Receive, Types, TestTypes
  <1>2. ASSUME NEW s \in Requests, s # r
        PROVE  ReadIsCurrent(s)'
    BY <1>1, <1>2 DEF ReadIsCurrent, Rates, Idle
  <1>3. ReadIsCurrent(r)'
    BY <1>1 DEF ReadIsCurrent, Rates, Affected, Live
  <1>4. QED
    BY <1>1, <1>2, <1>3 DEF SerialReads

\* Commits and deaths answer a request that is under way.
LEMMA AnswersEnd ==
  ASSUME Types, SerialReads, NEW r \in Requests, ~overlapped',
         \/ CommitRate(r) \/ CommitDelete(r) \/ Die(r)
         \/ \E t \in Tests : CommitCreate(r, t)
         \/ \E a \in Attempts : CommitSubmit(r, a)
  PROVE  SerialReads'
  <1>1. req[r] # Idle /\ Answer(r)
    BY DEF CommitRate, CommitDelete, Die, CommitCreate, CommitSubmit, Idle
  <1>2. AllIdle'
    BY <1>1, AnswerLeavesNone
  <1>3. QED
    BY <1>2 DEF AllIdle, SerialReads, ReadIsCurrent, Idle, Rates

\* No card a rating has read is added under it, and none is there once the
\* deck is regenerated.
LEMMA StepKeepsSerialReads ==
  ASSUME Types, SerialReads, [Next]_vars
  PROVE  SerialReads'
  <1> SUFFICES ASSUME ~overlapped'
               PROVE  SerialReads'
    BY DEF SerialReads
  <1>0. ~overlapped
    BY OverlapStays
  <1>1. ASSUME NEW S \in SUBSET Cards, AddCards(S)
        PROVE  SerialReads'
    <2>1. ASSUME NEW r \in Requests, Rates(r), req[r].card \in Present'
          PROVE  req[r].row = schedule'[req[r].card]
      <3>1. req[r].card \in Cards /\ card[req[r].card] # "absent"
        BY <2>1 DEF Types, IInv, ScheduleTypes, ReadIsPast
      <3>2. req[r].card \notin S /\ req[r].card \in Present
        BY <1>1, <2>1, <3>1 DEF AddCards, Present, Types, IInv, ScheduleTypes
      <3>3. schedule'[req[r].card] = schedule[req[r].card]
        BY <1>1, <3>1, <3>2 DEF AddCards
      <3>4. QED
        BY <1>0, <2>1, <3>2, <3>3 DEF SerialReads, ReadIsCurrent
    <2>2. \A r \in Requests : ReadIsCurrent(r)'
      BY <1>0, <1>1, <2>1 DEF AddCards, SerialReads, ReadIsCurrent, Rates, Affected, Live
    <2>3. \A r, s \in Requests : req'[r] # Idle /\ req'[s] # Idle => r = s
      BY <1>0, <1>1 DEF AddCards, SerialReads
    <2>4. QED
      BY <2>2, <2>3 DEF SerialReads
  <1>2. CASE Regenerate
    <2>1. Present' = {}
      BY <1>2 DEF Regenerate, Remove, Present
    <2>2. QED
      BY <1>0, <1>2, <2>1 DEF Regenerate, SerialReads, ReadIsCurrent, Rates
  <1>3. CASE Tick \/ UNCHANGED vars
    BY <1>0, <1>3 DEF Tick, vars, SerialReads, ReadIsCurrent, Rates, Present, Affected, Live
  <1>4. ASSUME NEW r \in Requests, NEW S \in SUBSET Cards, ReadDelete(r, S)
        PROVE  SerialReads'
    <2> DEFINE what == [op |-> "delete", cards |-> S, tests |-> Affected(S)]
    <2>1. /\ what # Idle /\ what.op = "delete" /\ what.tests = Affected(what.cards)
          /\ Receive(r, what) /\ UNCHANGED <<card, schedule, test, regenerated>>
      BY <1>4 DEF ReadDelete, Idle
    <2> HIDE DEF what
    <2>2. QED
      BY <2>1, ReceiveReads
  <1>5. ASSUME NEW r \in Requests, NEW c \in Cards, NEW again \in BOOLEAN, ReadRate(r, c, again)
        PROVE  SerialReads'
    <2> DEFINE what == [op |-> "rate", card |-> c, again |-> again, row |-> schedule[c]]
    <2>1. /\ what # Idle /\ what.op = "rate" /\ what.row = schedule[what.card]
          /\ Receive(r, what) /\ UNCHANGED <<card, schedule, test, regenerated>>
      BY <1>5 DEF ReadRate, Idle
    <2> HIDE DEF what
    <2>2. QED
      BY <2>1, ReceiveReads
  <1>6. ASSUME NEW r \in Requests, NEW u \in Users, NEW S \in SUBSET Cards, ReadCreate(r, u, S)
        PROVE  SerialReads'
    <2> DEFINE what == [op |-> "create", user |-> u, cards |-> S]
    <2>1. /\ what # Idle /\ what.op = "create"
          /\ Receive(r, what) /\ UNCHANGED <<card, schedule, test, regenerated>>
      BY <1>6 DEF ReadCreate, Idle
    <2> HIDE DEF what
    <2>2. QED
      BY <2>1, ReceiveReads
  <1>7. ASSUME NEW r \in Requests, NEW u, NEW t, NEW asked, NEW right,
               ReadSubmit(r, u, t, asked, right)
        PROVE  SerialReads'
    <2> DEFINE what == [op |-> "submit", user |-> u, test |-> t, asked |-> asked, right |-> right]
    <2>1. /\ what # Idle /\ what.op = "submit"
          /\ Receive(r, what) /\ UNCHANGED <<card, schedule, test, regenerated>>
      BY <1>7 DEF ReadSubmit, Idle
    <2> HIDE DEF what
    <2>2. QED
      BY <2>1, ReceiveReads
  <1>8. QED
    BY <1>1, <1>2, <1>3, <1>4, <1>5, <1>6, <1>7, AnswersEnd DEF Next

\* The row of a card all of whose ratings were one after the other.
SerialRow(row, rev) ==
  /\ row.reps = rev.all /\ row.lapses = rev.again
  /\ row.state \in {"NONE", "NEW"} <=> row.reps = 0
  /\ row.state = "REVIEW" <=> row.due = "later"
  /\ row.state = "LEARNING" => row.reps = 1 /\ row.lapses = 1
  /\ row.state = "RELEARNING" => row.reps > 1 /\ row.lapses > 0

\* Forgetting a card makes a row that is due, remembering it one that is not.
LEMMA ForgottenRow ==
  ASSUME NEW row, NEW rev, NEW all \in Nat, NEW again \in Nat, again <= all,
         rev.all = all + 1, rev.again = again + 1,
         row.reps = all + 1, row.lapses = again + 1, row.due = "now",
         row.state = IF all > 0 THEN "RELEARNING" ELSE "LEARNING"
  PROVE  SerialRow(row, rev)
  <1>1. CASE all = 0
    <2>1. again = 0 /\ row.state = "LEARNING"
      BY <1>1
    <2>2. QED
      BY <1>1, <2>1 DEF SerialRow
  <1>2. CASE all > 0
    BY <1>2 DEF SerialRow
  <1>3. QED
    BY <1>1, <1>2

LEMMA RememberedRow ==
  ASSUME NEW row, NEW rev, NEW all \in Nat, NEW again \in Nat,
         rev.all = all + 1, rev.again = again,
         row.reps = all + 1, row.lapses = again, row.due = "later", row.state = "REVIEW"
  PROVE  SerialRow(row, rev)
  BY DEF SerialRow

\* One more rating, of the row that is there.
LEMMA SerialRating ==
  ASSUME NEW row \in Rows, NEW again \in BOOLEAN, NEW rev \in [all : Nat, again : Nat],
         SerialRow(row, rev), rev.again <= rev.all
  PROVE  SerialRow(Updated(row, row, again), Reviewed(rev, row, again))
  <1> DEFINE old == IF row = NoRow THEN NewRow ELSE row
             new == Rated(old, again)
             upd == Updated(row, row, again)
             rvd == Reviewed(rev, row, again)
  <1>1. /\ row.lapses \in Nat /\ row.reps = rev.all /\ row.lapses = rev.again
        /\ rev.all \in Nat /\ rev.again \in Nat
    BY DEF Rows, SerialRow
  <1>2. old.reps = row.reps /\ old.lapses = row.lapses
    BY DEF NewRow, NoRow
  <1>3. upd.reps = new.reps /\ upd.due = new.due /\ upd.state = new.state
    BY DEF Updated
  <1>4. CASE again
    <2>1. /\ new.reps = row.reps + 1 /\ new.lapses = row.lapses + 1 /\ new.due = "now"
          /\ new.state = IF row.reps > 0 THEN "RELEARNING" ELSE "LEARNING"
      BY <1>2, <1>4 DEF Rated
    <2>2. upd.lapses = new.lapses
      BY <1>4 DEF Updated
    <2>3. rvd.all = rev.all + 1 /\ rvd.again = rev.again + 1
      BY <1>4 DEF Reviewed
    <2> HIDE DEF old, new, upd, rvd
    <2>4. SerialRow(upd, rvd)
      BY <1>1, <1>3, <2>1, <2>2, <2>3, ForgottenRow
    <2>5. QED
      BY <2>4 DEF upd, rvd
  <1>5. CASE ~again
    <2>1. new.reps = row.reps + 1 /\ new.due = "later" /\ new.state = "REVIEW"
      BY <1>2, <1>5 DEF Rated
    <2>2. upd.lapses = row.lapses
      BY <1>5 DEF Updated
    <2>3. rvd.all = rev.all + 1 /\ rvd.again = rev.again
      BY <1>1, <1>5 DEF Reviewed
    <2> HIDE DEF old, new, upd, rvd
    <2>4. SerialRow(upd, rvd)
      BY <1>1, <1>3, <2>1, <2>2, <2>3, RememberedRow
    <2>5. QED
      BY <2>4 DEF upd, rvd
  <1>6. QED
    BY <1>4, <1>5

SerialRows ==
  /\ AgainsAreReviews
  /\ ~overlapped => \A c \in Present : SerialRow(schedule[c], reviews[c])

LEMMA StepKeepsSerialRows ==
  ASSUME Types, SerialReads, SerialRows, [Next]_vars
  PROVE  SerialRows'
  <1>1. ASSUME NEW S \in SUBSET Cards, AddCards(S)
        PROVE  SerialRows'
    <2>1. SerialRow(NewRow, NoReviews)
      BY DEF SerialRow, NewRow, NoReviews
    <2>2. \A c \in S : reviews[c] = NoReviews
      BY <1>1 DEF AddCards, Types, IInv, AbsentIsClean
    <2>3. ASSUME ~overlapped, NEW c \in Present'
          PROVE  SerialRow(schedule'[c], reviews'[c])
      <3>1. c \in Cards /\ card'[c] = "present"
        BY DEF Present
      <3>2. CASE c \in S
        BY <1>1, <2>1, <2>2, <3>1, <3>2 DEF AddCards
      <3>3. CASE c \notin S
        BY <1>1, <2>3, <3>1, <3>3 DEF AddCards, SerialRows, Present
      <3>4. QED
        BY <3>2, <3>3
    <2>4. QED
      BY <1>1, <2>3 DEF AddCards, SerialRows, AgainsAreReviews
  <1>2. ASSUME NEW S, NEW T, Remove(S, T), ~overlapped' => ~overlapped
        PROVE  SerialRows'
    <2>1. AgainsAreReviews'
      <3>1. reviews' = [c \in Cards |-> IF c \in S THEN NoReviews ELSE reviews[c]]
        BY <1>2 DEF Remove
      <3>2. QED
        BY <3>1 DEF SerialRows, AgainsAreReviews, NoReviews
    <2>2. ASSUME NEW c \in Present'
          PROVE  c \in Present /\ schedule'[c] = schedule[c] /\ reviews'[c] = reviews[c]
      BY <1>2 DEF Remove, Present
    <2>3. QED
      BY <1>2, <2>1, <2>2 DEF SerialRows
  <1>3. ASSUME NEW r \in Requests, CommitRate(r)
        PROVE  SerialRows'
    <2> DEFINE q == req[r]
               c == q.card
               row == Updated(schedule[c], q.row, q.again)
               rev == Reviewed(reviews[c], q.row, q.again)
    <2>1. /\ Rates(r) /\ c \in Cards /\ q.again \in BOOLEAN /\ q.row \in Rows
          /\ schedule[c] \in Rows /\ reviews[c] \in [all : Nat, again : Nat]
          /\ UNCHANGED <<card, overlapped>>
      BY <1>3 DEF CommitRate, Answer, Rates, Types, IInv, ScheduleTypes
    <2>2. CASE RateFails(q)
      BY <1>3, <2>1, <2>2 DEF CommitRate, SerialRows, AgainsAreReviews, Present
    <2>3. CASE ~RateFails(q)
      <3>1. /\ c \in Present
            /\ schedule' = [schedule EXCEPT ![c] = row]
            /\ reviews' = [reviews EXCEPT ![c] = rev]
        BY <1>3, <2>3 DEF CommitRate, RateFails
      <3>2. reviews[c].again <= reviews[c].all
        BY <2>1 DEF SerialRows, AgainsAreReviews
      <3>3. rev.again <= rev.all
        BY <2>1, <3>2 DEF Reviewed
      <3>4. AgainsAreReviews'
        BY <2>1, <3>1, <3>3 DEF SerialRows, AgainsAreReviews, Types, IInv, ScheduleTypes
      <3>5. ASSUME ~overlapped
            PROVE  SerialRow(row, rev)
        <4>1. q.row = schedule[c] /\ SerialRow(schedule[c], reviews[c])
          BY <2>1, <3>1, <3>5 DEF SerialReads, ReadIsCurrent, SerialRows
        <4>2. QED
          BY <2>1, <3>2, <4>1, SerialRating
      <3>6. ASSUME ~overlapped, NEW d \in Present
            PROVE  SerialRow(schedule'[d], reviews'[d])
        <4>1. d \in Cards
          BY DEF Present
        <4>2. CASE d = c
          BY <2>1, <3>1, <3>5, <3>6, <4>2 DEF Types, IInv, ScheduleTypes
        <4>3. CASE d # c
          BY <3>1, <3>6, <4>1, <4>3 DEF SerialRows, Types, IInv, ScheduleTypes
        <4>4. QED
          BY <4>2, <4>3
      <3>7. Present' = Present
        BY <2>1 DEF Present
      <3>8. QED
        BY <2>1, <3>4, <3>6, <3>7 DEF SerialRows
    <2>4. QED
      BY <2>2, <2>3
  <1>4. ASSUME UNCHANGED <<card, schedule, reviews>>
        PROVE  SerialRows'
    BY <1>4, OverlapStays DEF SerialRows, AgainsAreReviews, Present
  <1>5. CASE Regenerate
    BY <1>2, <1>5, OverlapStays DEF Regenerate
  <1>6. ASSUME NEW r \in Requests, CommitDelete(r)
        PROVE  SerialRows'
    BY <1>2, <1>6, OverlapStays DEF CommitDelete
  <1>7. QED
    BY <1>1, <1>3, <1>4, <1>5, <1>6
    DEF Next, vars, Tick, ReadDelete, ReadRate, ReadCreate, ReadSubmit, CommitCreate,
        CommitSubmit, Die

LEMMA InitSerial == Init => SerialReads /\ SerialRows
  BY DEF Init, SerialReads, ReadIsCurrent, SerialRows, AgainsAreReviews, Present, Rates, Idle,
         NoReviews

LEMMA AlwaysSerial == Spec => [](SerialReads /\ SerialRows)
  <1>1. Types /\ SerialReads /\ SerialRows /\ [Next]_vars => (SerialReads /\ SerialRows)'
    BY StepKeepsSerialReads, StepKeepsSerialRows
  <1>2. QED
    BY <1>1, InitSerial, AlwaysTypes, PTL DEF Spec

\* As long as no two requests overlapped, a card's schedule is what its
\* reviews make it.
THEOREM SerialSchedules == Spec => []SerialScheduleAgrees
  <1>1. SerialRows => SerialScheduleAgrees
    BY DEF SerialRows, SerialScheduleAgrees, SerialRow
  <1>2. QED
    BY <1>1, AlwaysSerial, PTL

\* An attempt that was made, by its fields.
LEMMA MadeFields ==
  ASSUME TestTypes, NEW a \in Made
  PROVE  /\ a \in Attempts /\ attempt[a].test \in Tests
         /\ attempt[a] \in [status : {"present"}, test : Tests, user : Users, at : Nat,
                            total : Nat, score : Nat,
                            answered : SUBSET Mcqs, correct : SUBSET Mcqs]
  BY DEF Made, TestTypes, AttemptRows, NoAttempt, GoneAttempt

\* A test that stays loses no question that an answer is about, and an attempt
\* goes with its test.
LEMMA RemovedTests ==
  ASSUME TestTypes, NEW S, NEW T \in SUBSET Tests, Remove(S, T)
  PROVE  /\ \A t \in Live' : /\ t \in Live /\ t \notin T
                             /\ test'[t] = [test[t] EXCEPT !.questions = @ \ S]
         /\ \A a \in Made' :
              /\ a \in Made /\ attempt[a].test \notin T
              /\ attempt'[a] = [attempt[a] EXCEPT !.answered = @ \ S, !.correct = @ \ S]
         /\ \A t \in Live \ T : t \in Live'
  <1>1. GoneTest.status # "present" /\ GoneAttempt.status # "present"
    BY DEF GoneTest, NoTest, GoneAttempt
  <1>2. \A t \in Tests : test'[t] = IF t \in T THEN GoneTest
                                   ELSE [test[t] EXCEPT !.questions = @ \ S]
    BY DEF Remove
  <1>3. \A t \in Tests : [test[t] EXCEPT !.questions = @ \ S].status = test[t].status
    BY DEF TestTypes, TestRows
  <1>4. \A a \in Attempts : a \notin Made => attempt'[a].status # "present"
    BY DEF Remove, Made
  <1>5. \A a \in Made : attempt'[a] = IF attempt[a].test \in T THEN GoneAttempt
                        ELSE [attempt[a] EXCEPT !.answered = @ \ S, !.correct = @ \ S]
    BY DEF Remove, Made
  <1>6. \A t \in Live' : /\ t \in Live /\ t \notin T
                         /\ test'[t] = [test[t] EXCEPT !.questions = @ \ S]
    BY <1>1, <1>2, <1>3 DEF Live
  <1>7. \A a \in Made' : a \in Made /\ attempt[a].test \notin T
    BY <1>1, <1>4, <1>5 DEF Made
  <1>8. \A t \in Live \ T : t \in Live'
    BY <1>2, <1>3 DEF Live
  <1>9. QED
    BY <1>5, <1>6, <1>7, <1>8

LEMMA RemoveKeepsTestsStand ==
  ASSUME Types, TestsStand, NEW S, NEW T \in SUBSET Tests, Remove(S, T)
  PROVE  TestsStand'
  <1>1. ASSUME NEW t \in Live'
        PROVE  test'[t].questions = test[t].questions \ S /\ test'[t].questions \subseteq Present'
    <2>1. /\ t \in Live /\ t \in Tests /\ test[t] \in TestRows
          /\ test'[t] = [test[t] EXCEPT !.questions = @ \ S]
      BY <1>1, RemovedTests DEF Types, TestTypes, Live
    <2>2. test'[t].questions = test[t].questions \ S
      BY <2>1 DEF TestRows
    <2>3. Present' = Present \ S
      BY DEF Remove, Present
    <2>4. QED
      BY <2>1, <2>2, <2>3 DEF TestsStand
  <1>2. ASSUME NEW a \in Made'
        PROVE  /\ attempt'[a].test \in Live'
               /\ attempt'[a].answered \subseteq test'[attempt'[a].test].questions
               /\ attempt'[a].correct \subseteq attempt'[a].answered
    <2>1. /\ a \in Made /\ attempt[a].test \notin T
          /\ attempt'[a] = [attempt[a] EXCEPT !.answered = @ \ S, !.correct = @ \ S]
      BY <1>2, RemovedTests DEF Types
    <2>2. /\ attempt'[a].test = attempt[a].test
          /\ attempt'[a].answered = attempt[a].answered \ S
          /\ attempt'[a].correct = attempt[a].correct \ S
      BY <2>1, MadeFields DEF Types
    <2>3. /\ attempt[a].test \in Live
          /\ attempt[a].answered \subseteq test[attempt[a].test].questions
          /\ attempt[a].correct \subseteq attempt[a].answered
      BY <2>1 DEF TestsStand
    <2>4. attempt[a].test \in Live'
      BY <2>1, <2>3, RemovedTests DEF Types
    <2>5. QED
      BY <2>2, <2>3, <2>4, <1>1
  <1>3. QED
    BY <1>1, <1>2 DEF TestsStand

LEMMA StepKeepsRightAreAsked ==
  ASSUME Types, RightAreAsked, [Next]_vars
  PROVE  RightAreAsked'
  <1>1. ASSUME NEW r \in Requests, NEW what, req' = [req EXCEPT ![r] = what],
               what.op = "submit" => what.right \subseteq what.asked
        PROVE  RightAreAsked'
    BY <1>1 DEF RightAreAsked, Types, TestTypes
  <1>2. ASSUME NEW r \in Requests, Answer(r)
        PROVE  RightAreAsked'
    BY <1>1, <1>2 DEF Answer, Idle
  <1>3. ASSUME NEW r \in Requests, NEW u, NEW t, NEW asked, NEW right \in SUBSET asked,
               ReadSubmit(r, u, t, asked, right)
        PROVE  RightAreAsked'
    <2> DEFINE what == [op |-> "submit", user |-> u, test |-> t, asked |-> asked, right |-> right]
    <2>1. req' = [req EXCEPT ![r] = what] /\ what.right \subseteq what.asked
      BY <1>3 DEF ReadSubmit, Receive
    <2> HIDE DEF what
    <2>2. QED
      BY <1>1, <2>1
  <1>4. ASSUME NEW r \in Requests, NEW S \in SUBSET Cards, ReadDelete(r, S)
        PROVE  RightAreAsked'
    <2> DEFINE what == [op |-> "delete", cards |-> S, tests |-> Affected(S)]
    <2>1. req' = [req EXCEPT ![r] = what] /\ what.op # "submit"
      BY <1>4 DEF ReadDelete, Receive
    <2> HIDE DEF what
    <2>2. QED
      BY <1>1, <2>1
  <1>5. ASSUME NEW r \in Requests, NEW c \in Cards, NEW again \in BOOLEAN, ReadRate(r, c, again)
        PROVE  RightAreAsked'
    <2> DEFINE what == [op |-> "rate", card |-> c, again |-> again, row |-> schedule[c]]
    <2>1. req' = [req EXCEPT ![r] = what] /\ what.op # "submit"
      BY <1>5 DEF ReadRate, Receive
    <2> HIDE DEF what
    <2>2. QED
      BY <1>1, <2>1
  <1>6. ASSUME NEW r \in Requests, NEW u \in Users, NEW S \in SUBSET Cards, ReadCreate(r, u, S)
        PROVE  RightAreAsked'
    <2> DEFINE what == [op |-> "create", user |-> u, cards |-> S]
    <2>1. req' = [req EXCEPT ![r] = what] /\ what.op # "submit"
      BY <1>6 DEF ReadCreate, Receive
    <2> HIDE DEF what
    <2>2. QED
      BY <1>1, <2>1
  <1>7. ASSUME UNCHANGED req
        PROVE  RightAreAsked'
    BY <1>7 DEF RightAreAsked
  <1>8. QED
    BY <1>2, <1>3, <1>4, <1>5, <1>6, <1>7
    DEF Next, vars, AddCards, Regenerate, Tick, CommitRate, CommitDelete, CommitCreate,
        CommitSubmit, Die

LEMMA StepKeepsTestsStand ==
  ASSUME Types, TestsStand, RightAreAsked, [Next]_vars
  PROVE  TestsStand'
  <1>1. ASSUME NEW S \in SUBSET Cards, AddCards(S)
        PROVE  TestsStand'
    <2>1. Present \subseteq Present' /\ UNCHANGED <<test, attempt>>
      BY <1>1 DEF AddCards, Present
    <2>2. QED
      BY <2>1 DEF TestsStand, Live, Made
  <1>2. CASE Regenerate
    BY <1>2, RemoveKeepsTestsStand DEF Regenerate
  <1>3. ASSUME NEW r \in Requests, CommitDelete(r)
        PROVE  TestsStand'
    BY <1>3, RemoveKeepsTestsStand, RequestFields DEF CommitDelete, Types
  <1>4. ASSUME NEW r \in Requests, NEW t \in Tests, CommitCreate(r, t)
        PROVE  TestsStand'
    <2> DEFINE new == [status |-> "present", size |-> Cardinality(req[r].cards),
                       questions |-> req[r].cards]
    <2>1. /\ Present' = Present /\ attempt' = attempt /\ t \notin Live
          /\ \A s \in Tests \ {t} : test'[s] = test[s]
      BY <1>4 DEF CommitCreate, Present, Live, Types, TestTypes
    <2>2. t \in Live' => test'[t] = new /\ req[r].cards \subseteq Present
      BY <1>4, <2>1 DEF CommitCreate, Live, Types, TestTypes
    <2>3. new.questions = req[r].cards
      OBVIOUS
    <2> HIDE DEF new
    <2>4. \A s \in Live : s # t /\ s \in Live' /\ test'[s] = test[s]
      BY <2>1 DEF Live
    <2>5. \A s \in Live' : s \in Live \/ s = t
      BY <2>1 DEF Live
    <2>6. \A s \in Live' : test'[s].questions \subseteq Present'
      BY <2>1, <2>2, <2>3, <2>4, <2>5 DEF TestsStand
    <2>7. Made' = Made
      BY <2>1 DEF Made
    <2>8. QED
      BY <2>1, <2>4, <2>6, <2>7 DEF TestsStand
  <1>5. ASSUME NEW r \in Requests, NEW a \in Attempts, CommitSubmit(r, a)
        PROVE  TestsStand'
    <2> DEFINE q == req[r]
               new == [status |-> "present", test |-> q.test, user |-> q.user, at |-> clock,
                       total |-> Cardinality(q.asked), score |-> Cardinality(q.right),
                       answered |-> q.asked, correct |-> q.right]
    <2>1. /\ UNCHANGED <<card, test>> /\ a \notin Made
          /\ \A b \in Attempts \ {a} : attempt'[b] = attempt[b]
      BY <1>5 DEF CommitSubmit, Made, Types, TestTypes
    <2>2. a \in Made' => /\ attempt'[a] = new /\ q.test \in Live
                         /\ q.asked \subseteq test[q.test].questions
      BY <1>5, <2>1 DEF CommitSubmit, Made, Types, TestTypes
    <2>3. new.test = q.test /\ new.answered = q.asked /\ new.correct = q.right
      OBVIOUS
    <2> HIDE DEF new
    <2>4. q.right \subseteq q.asked
      BY <1>5 DEF CommitSubmit, RightAreAsked
    <2>5. QED
      BY <2>1, <2>2, <2>3, <2>4 DEF TestsStand, Live, Made, Present
  <1>6. ASSUME UNCHANGED <<card, test, attempt>>
        PROVE  TestsStand'
    BY <1>6 DEF TestsStand, Live, Made, Present
  <1>7. QED
    BY <1>1, <1>2, <1>3, <1>4, <1>5, <1>6
    DEF Next, vars, Tick, ReadDelete, ReadRate, ReadCreate, ReadSubmit, CommitRate, Die

\* The rows are whole: no test has lost a question, no attempt an answer.
WholeTests ==
  ~overlapped /\ ~regenerated =>
    /\ \A t \in Live : test[t].size = Cardinality(test[t].questions)
    /\ \A a \in Made : /\ attempt[a].total = Cardinality(attempt[a].answered)
                       /\ attempt[a].score = Cardinality(attempt[a].correct)

\* A deletion takes all the tests its cards are in, so that those which stay
\* lose nothing.
LEMMA RemoveKeepsWholeTests ==
  ASSUME Types, TestsStand, NEW S \in SUBSET Cards, Remove(S, Affected(S)),
         \A t \in Live : test[t].size = Cardinality(test[t].questions),
         \A a \in Made : /\ attempt[a].total = Cardinality(attempt[a].answered)
                         /\ attempt[a].score = Cardinality(attempt[a].correct)
  PROVE  /\ \A t \in Live' : test'[t].size = Cardinality(test'[t].questions)
         /\ \A a \in Made' : /\ attempt'[a].total = Cardinality(attempt'[a].answered)
                             /\ attempt'[a].score = Cardinality(attempt'[a].correct)
  <1>1. PICK T \in SUBSET Tests : T = Affected(S) /\ Remove(S, T)
    BY DEF Affected, Live
  <1>2. ASSUME NEW t \in Live, t \notin T
        PROVE  test[t].questions \cap S = {}
    BY <1>1, <1>2 DEF Affected
  <1>3. ASSUME NEW t \in Live'
        PROVE  test'[t].size = Cardinality(test'[t].questions)
    <2>1. /\ t \in Live /\ t \notin T
          /\ test'[t] = [test[t] EXCEPT !.questions = @ \ S]
      BY <1>1, <1>3, RemovedTests DEF Types
    <2>2. test[t] \in TestRows
      BY <2>1 DEF Types, TestTypes, Live
    <2>3. test'[t].size = test[t].size /\ test'[t].questions = test[t].questions \ S
      BY <2>1, <2>2 DEF TestRows
    <2>4. test[t].questions \ S = test[t].questions
      BY <1>2, <2>1
    <2>5. QED
      BY <2>1, <2>3, <2>4
  <1>4. ASSUME NEW a \in Made'
        PROVE  /\ attempt'[a].total = Cardinality(attempt'[a].answered)
               /\ attempt'[a].score = Cardinality(attempt'[a].correct)
    <2>1. /\ a \in Made /\ attempt[a].test \notin T
          /\ attempt'[a] = [attempt[a] EXCEPT !.answered = @ \ S, !.correct = @ \ S]
      BY <1>1, <1>4, RemovedTests DEF Types
    <2>2. /\ attempt'[a].total = attempt[a].total /\ attempt'[a].score = attempt[a].score
          /\ attempt'[a].answered = attempt[a].answered \ S
          /\ attempt'[a].correct = attempt[a].correct \ S
      BY <2>1, MadeFields DEF Types
    <2>3. /\ attempt[a].answered \cap S = {}
          /\ attempt[a].correct \cap S = {}
      BY <1>2, <2>1 DEF TestsStand
    <2>4. /\ attempt[a].answered \ S = attempt[a].answered
          /\ attempt[a].correct \ S = attempt[a].correct
      BY <2>3
    <2>5. QED
      BY <2>1, <2>2, <2>4
  <1>5. QED
    BY <1>3, <1>4

LEMMA DeleteKeepsWholeTests ==
  ASSUME Types, TestsStand, SerialReads, WholeTests, NEW r \in Requests, CommitDelete(r)
  PROVE  WholeTests'
  <1> SUFFICES ASSUME ~overlapped, ~regenerated
               PROVE  WholeTests'
    BY DEF WholeTests, CommitDelete, Answer
  <1>1. PICK S \in SUBSET Cards : S = req[r].cards
    BY RequestFields DEF CommitDelete, Types
  <1>2. req[r].tests = Affected(S)
    BY <1>1 DEF CommitDelete, SerialReads, ReadIsCurrent
  <1>3. Remove(S, Affected(S))
    BY <1>1, <1>2 DEF CommitDelete
  <1>4. QED
    BY <1>3, RemoveKeepsWholeTests DEF WholeTests

LEMMA StepKeepsWholeTests ==
  ASSUME Types, TestsStand, SerialReads, WholeTests, [Next]_vars
  PROVE  WholeTests'
  <1>1. ~overlapped' => ~overlapped
    BY OverlapStays
  <1>2. CASE Regenerate
    BY <1>2 DEF Regenerate, WholeTests
  <1>3. ASSUME NEW r \in Requests, NEW t \in Tests, CommitCreate(r, t)
        PROVE  WholeTests'
    <2> DEFINE new == [status |-> "present", size |-> Cardinality(req[r].cards),
                       questions |-> req[r].cards]
    <2>1. /\ UNCHANGED <<attempt, regenerated>> /\ t \notin Live
          /\ \A s \in Tests \ {t} : test'[s] = test[s]
      BY <1>3 DEF CommitCreate, Live, Types, TestTypes
    <2>2. t \in Live' => test'[t] = new
      BY <1>3, <2>1 DEF CommitCreate, Live, Types, TestTypes
    <2>3. new.size = Cardinality(new.questions)
      OBVIOUS
    <2> HIDE DEF new
    <2>4. QED
      BY <1>1, <2>1, <2>2, <2>3 DEF WholeTests, Live, Made
  <1>4. ASSUME NEW r \in Requests, NEW a \in Attempts, CommitSubmit(r, a)
        PROVE  WholeTests'
    <2> DEFINE q == req[r]
               new == [status |-> "present", test |-> q.test, user |-> q.user, at |-> clock,
                       total |-> Cardinality(q.asked), score |-> Cardinality(q.right),
                       answered |-> q.asked, correct |-> q.right]
    <2>1. /\ UNCHANGED <<test, regenerated>> /\ a \notin Made
          /\ \A b \in Attempts \ {a} : attempt'[b] = attempt[b]
      BY <1>4 DEF CommitSubmit, Made, Types, TestTypes
    <2>2. a \in Made' => attempt'[a] = new
      BY <1>4, <2>1 DEF CommitSubmit, Made, Types, TestTypes
    <2>3. new.total = Cardinality(new.answered) /\ new.score = Cardinality(new.correct)
      OBVIOUS
    <2> HIDE DEF new
    <2>4. QED
      BY <1>1, <2>1, <2>2, <2>3 DEF WholeTests, Live, Made
  <1>5. ASSUME UNCHANGED <<test, attempt, regenerated>>
        PROVE  WholeTests'
    BY <1>1, <1>5 DEF WholeTests, Live, Made
  <1>6. QED
    BY <1>2, <1>3, <1>4, <1>5, DeleteKeepsWholeTests
    DEF Next, vars, AddCards, Tick, ReadDelete, ReadRate, ReadCreate, ReadSubmit, CommitRate, Die

LEMMA AlwaysTestsStand == Spec => [](TestsStand /\ RightAreAsked)
  <1>1. Init => TestsStand /\ RightAreAsked
    BY DEF Init, TestsStand, RightAreAsked, Live, Made, NoTest, NoAttempt, Idle
  <1>2. Types /\ TestsStand /\ RightAreAsked /\ [Next]_vars => (TestsStand /\ RightAreAsked)'
    BY StepKeepsTestsStand, StepKeepsRightAreAsked
  <1>3. QED
    BY <1>1, <1>2, AlwaysTypes, PTL DEF Spec

\* As long as no two requests overlapped and the deck was not regenerated, a
\* test has all its questions and an attempt all its answers.
THEOREM SerialTests == Spec => []SerialTestsAreWhole
  <1>1. Init => WholeTests
    BY DEF Init, WholeTests, Live, Made, NoTest, NoAttempt
  <1>2. /\ Types /\ TestsStand /\ SerialReads /\ WholeTests /\ [Next]_vars
        => WholeTests'
    BY StepKeepsWholeTests
  <1>3. TestsStand /\ WholeTests => SerialTestsAreWhole
    BY DEF TestsStand, WholeTests, SerialTestsAreWhole
  <1>4. QED
    BY <1>1, <1>2, <1>3, AlwaysTypes, AlwaysTestsStand, AlwaysSerial, PTL DEF Spec
=============================================================================

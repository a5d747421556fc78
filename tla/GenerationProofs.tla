-------------------------- MODULE GenerationProofs --------------------------
(***************************************************************************)
(* Proofs about the two generators that call AI providers in batches:      *)
(* ChunkPasses, the cards of a file, and McqGeneration, a deck's MCQs.     *)
(*                                                                         *)
(* ChunkPasses, for any files, modes, providers and limits, whatever the   *)
(* providers answer: the counters stay within what the settings allow and  *)
(* no call waits for more time-outs than it may; with no more rounds than  *)
(* the code's own, rounds are left undone only behind dead ones in a row.  *)
(*                                                                         *)
(* McqGeneration, for any number of cards, batches of any size and any     *)
(* number of generations, requests, deletions and restarts: the counters   *)
(* are what their columns allow.  When requests come one at a time and no  *)
(* run outlives the ten minutes, one run works on the deck at a time, its  *)
(* progress stays within the total and no card gets MCQs more often than   *)
(* deletions make it start over.                                           *)
(***************************************************************************)
EXTENDS ChunkPasses, McqGeneration, TLAPS, FiniteSetTheorems,
        WellFoundedInduction

(* ChunkPasses *)

Most == MaxTransient + MaxTimeout + MaxOverloaded + MaxFormat

LEMMA ConstantsAreNumbers ==
  /\ Rounds \in Nat \ {0} /\ Permits \in Nat \ {0} /\ MaxTransient \in Nat \ {0}
  /\ MaxTimeout \in Nat \ {0} /\ MaxOverloaded \in Nat \ {0}
  /\ MaxFormat \in Nat \ {0} /\ MaxDeadRounds \in Nat \ {0}
  /\ IsFiniteSet(Modes) /\ Title \notin Modes /\ Modes # {}
BY ConstantsAssumption DEF Title

LEMMA MostIsNat == Most \in Nat /\ Most > 0 /\ MaxTimeout \in Nat /\ MaxTimeout > 0
BY ConstantsAreNumbers DEF Most

\* A kind of failure allows for fewer attempts than all kinds together.
LEMMA LimitBelowMost ==
  ASSUME NEW said
  PROVE  /\ Limit(said) \in 1 .. Most
         /\ IsTimeout(said) => Limit(said) = MaxTimeout
<1>1. IsTimeout(said) => IsTransient(said) /\ ~Is529(said) /\ ~IsFormat(said)
  BY DEF IsTimeout, IsTransient, Is529, IsFormat
<1>2. Limit(said) \in {MaxTransient, MaxTimeout, MaxOverloaded, MaxFormat, 1}
  BY DEF Limit
<1>3. IsTimeout(said) => Limit(said) = MaxTimeout
  BY <1>1 DEF Limit
<1> QED BY <1>2, <1>3, ConstantsAreNumbers DEF Most

-----------------------------------------------------------------------------
(* One call. *)

CallRecord ==
  [pc : {"waiting", "calling", "sleeping", "report", "count", "over"},
   attempt : 0 .. Most, timeouts : Nat, outcome : Outcomes \cup {"none"}, seen : Nat]

\* One more when it timed out.
LEMMA TimeoutsCount ==
  ASSUME NEW f \in Files, NEW m \in Calls, NEW said, pass[f][m].timeouts \in Nat
  PROVE  /\ IsTimeout(said) => Timeouts(f, m, said) = pass[f][m].timeouts + 1
         /\ ~IsTimeout(said) => Timeouts(f, m, said) = pass[f][m].timeouts
<1> DEFINE t == pass[f][m].timeouts
<1>1. IsTimeout(said) => Timeouts(f, m, said) = t + 1
  BY DEF Timeouts, IsTimeout
<1>2. ~IsTimeout(said) => Timeouts(f, m, said) = t + 0
  BY DEF Timeouts, IsTimeout
<1>3. t + 0 = t
  <2> HIDE DEF t
  <2>1. t \in Nat
    BY DEF t
  <2> QED BY <2>1
<1> QED BY <1>1, <1>2, <1>3

\* A call that goes on has an attempt left, and has timed out at most as often
\* as it was made and less often than it may.
CallFits(x) ==
  /\ x \in CallRecord
  /\ x.pc \in {"waiting", "sleeping"} =>
       x.attempt < Most /\ x.timeouts <= x.attempt /\ x.timeouts < MaxTimeout
  /\ x.pc = "calling" => x.timeouts < x.attempt /\ x.timeouts < MaxTimeout
  /\ x.timeouts <= MaxTimeout
  /\ x.pc \in {"report", "count"} => x.outcome \in Outcomes
  /\ x.pc # "count" => x.seen = 0

CallsFit == pass \in [Files -> [Calls -> CallRecord]] /\ \A f \in Files, m \in Calls : CallFits(pass[f][m])

LEMMA WaitingFits == CallFits(Waiting)
BY MostIsNat DEF CallFits, Waiting, CallRecord

\* A call becomes x.
Becomes(f, m, x) == pass' = [pass EXCEPT ![f][m] = x]

\* A step that leaves a call fitting leaves all calls fitting.
LEMMA OneCallChanges ==
  ASSUME CallsFit, NEW f \in Files, NEW m \in Calls, NEW x, CallFits(x),
         Becomes(f, m, x)
  PROVE  /\ CallsFit'
         /\ \A g \in Files, n \in Calls :
              pass'[g][n] = IF g = f /\ n = m THEN x ELSE pass[g][n]
<1>1. x \in CallRecord
  BY DEF CallFits
<1>2. pass' \in [Files -> [Calls -> CallRecord]]
  BY <1>1 DEF CallsFit, Becomes
<1>3. \A g \in Files, n \in Calls :
        pass'[g][n] = IF g = f /\ n = m THEN x ELSE pass[g][n]
  BY DEF CallsFit, Becomes
<1>4. \A g \in Files, n \in Calls : CallFits(pass'[g][n])
  BY <1>3 DEF CallsFit
<1>5. \A g \in Files, n \in Calls : CallFits(pass[g][n])'
  BY <1>4 DEF CallFits, CallRecord
<1> QED BY <1>2, <1>3, <1>5 DEF CallsFit

-----------------------------------------------------------------------------
(* The rounds and the row of a file. *)

RoundsFit ==
  /\ provider \in [Files -> Providers]
  /\ round \in [Files -> 1 .. Rounds]
  /\ dead \in [Files -> 0 .. MaxDeadRounds]
  /\ inRow \in [Files -> 0 .. Rounds]
  /\ ended \in [Files -> {"no", "untitled", "covered", "exhausted", "abandoned"}]

\* While a chunk goes on its dead rounds are rounds before this one, and when
\* every one of them was dead they came in a row.
DeadAreBefore ==
  \A f \in Files :
    /\ ended[f] = "no" =>
         /\ dead[f] < MaxDeadRounds /\ dead[f] < round[f] /\ inRow[f] < round[f]
         /\ dead[f] = round[f] - 1 => inRow[f] = dead[f]
    /\ Rounds <= MaxDeadRounds + 1 /\ ended[f] = "abandoned" /\ round[f] < Rounds
         => inRow[f] >= MaxDeadRounds

\* The passes of a file that are over, those of earlier rounds included.
Over(f) == {m \in Modes : pass[f][m].pc = "over"}
Told(f) == (round[f] - 1) * Cardinality(Modes) + Cardinality(Over(f))

\* The row never counts more passes than are over, and a pass has never read
\* more from it, although passes overwrite each other's counts.
RowsFit ==
  /\ row \in [Files -> [completed : Nat, failed : Nat]]
  /\ \A f \in Files :
       /\ row[f].completed <= Told(f) /\ row[f].failed <= Told(f)
       /\ \A m \in Calls : pass[f][m].seen <= Told(f)

Inv == CallsFit /\ RoundsFit /\ DeadAreBefore /\ RowsFit

LEMMA TimesIsNat ==
  ASSUME NEW k \in Nat, NEW n \in 1 .. Rounds
  PROVE  /\ (n - 1) * k \in Nat
         /\ (n - 1) * k + k = n * k
         /\ n * k <= Rounds * k
<1>1. Rounds \in Nat
  BY ConstantsAreNumbers
<1>2. PICK d \in Nat : Rounds = n + d
  <2>1. Rounds - n \in Nat /\ Rounds = n + (Rounds - n)
    BY <1>1
  <2> QED BY <2>1
<1>3. PICK e \in Nat : n = e + 1
  <2>1. n - 1 \in Nat /\ n = (n - 1) + 1
    OBVIOUS
  <2> QED BY <2>1
<1>4. d * k \in Nat /\ e * k \in Nat
  OBVIOUS
<1> QED BY <1>2, <1>3, <1>4

LEMMA ToldIsNat ==
  ASSUME RoundsFit, NEW f \in Files
  PROVE  /\ Cardinality(Modes) \in Nat
         /\ IsFiniteSet(Over(f)) /\ Cardinality(Over(f)) \in Nat
         /\ Cardinality(Over(f)) <= Cardinality(Modes)
         /\ Told(f) \in 0 .. Rounds * Cardinality(Modes)
<1>1. Cardinality(Modes) \in Nat
  BY ConstantsAreNumbers, FS_CardinalityType
<1>2. Over(f) \subseteq Modes
  BY DEF Over
<1>3. /\ IsFiniteSet(Over(f)) /\ Cardinality(Over(f)) \in Nat
      /\ Cardinality(Over(f)) <= Cardinality(Modes)
  BY <1>2, ConstantsAreNumbers, FS_Subset, FS_CardinalityType
<1>4. round[f] \in 1 .. Rounds
  BY DEF RoundsFit
<1>5. (round[f] - 1) * Cardinality(Modes) \in Nat
      /\ (round[f] - 1) * Cardinality(Modes) + Cardinality(Modes) <= Rounds * Cardinality(Modes)
  BY <1>1, <1>4, TimesIsNat
<1>6. Rounds * Cardinality(Modes) \in Nat
  BY <1>1, ConstantsAreNumbers
<1> QED BY <1>1, <1>3, <1>5, <1>6 DEF Told

-----------------------------------------------------------------------------
(* The steps of one call. *)

\* A call that is not over changes, and its file's row does not: Told grows or
\* stays, for every file.
LEMMA RowStays ==
  ASSUME Inv, CallsFit', NEW f \in Files, NEW m \in Calls, pass[f][m].pc # "over",
         \A g \in Files, n \in Calls :
           pass'[g][n] # pass[g][n] => g = f /\ n = m,
         pass'[f][m].seen <= Told(f),
         UNCHANGED <<round, row>>
  PROVE  RowsFit'
<1> SUFFICES ASSUME NEW g \in Files
             PROVE  /\ row[g].completed <= Told(g)' /\ row[g].failed <= Told(g)'
                    /\ \A n \in Calls : pass'[g][n].seen <= Told(g)'
  BY DEF Inv, RowsFit
<1>1. Modes \subseteq Calls
  BY DEF Calls
<1>2. Over(g) \subseteq Over(g)'
  BY <1>1 DEF Over
<1>3. RoundsFit /\ IsFiniteSet(Modes) /\ Over(g)' \subseteq Modes
  BY ConstantsAreNumbers DEF Inv, Over
<1>4. IsFiniteSet(Over(g)') /\ Cardinality(Over(g)') \in Nat
      /\ Cardinality(Over(g)) <= Cardinality(Over(g)') /\ Cardinality(Over(g)) \in Nat
  BY <1>2, <1>3, FS_Subset, FS_CardinalityType
<1>5. Told(g) \in Nat /\ Cardinality(Modes) \in Nat
  BY <1>3, ToldIsNat, ConstantsAreNumbers
<1>6. (round[g] - 1) * Cardinality(Modes) \in Nat
  BY <1>3, <1>5, TimesIsNat DEF RoundsFit
<1>7. Told(g)' = (round[g] - 1) * Cardinality(Modes) + Cardinality(Over(g)')
  BY DEF Told
<1>8. Told(g) <= Told(g)' /\ Told(g)' \in Nat
  BY <1>4, <1>6, <1>7 DEF Told
<1>9. \A n \in Calls : pass'[g][n].seen <= Told(g) /\ pass'[g][n].seen \in Nat
  <2> TAKE n \in Calls
  <2>1. pass'[g][n] \in CallRecord
    BY DEF CallsFit
  <2>2. pass'[g][n].seen \in Nat
    BY <2>1 DEF CallRecord
  <2>3. pass[g][n].seen <= Told(g)
    BY DEF Inv, RowsFit
  <2>4. pass'[g][n] = pass[g][n] \/ (g = f /\ n = m)
    OBVIOUS
  <2> QED BY <2>2, <2>3, <2>4
<1>10. row[g].completed \in Nat /\ row[g].failed \in Nat
       /\ row[g].completed <= Told(g) /\ row[g].failed <= Told(g)
  BY DEF Inv, RowsFit
<1> QED BY <1>5, <1>8, <1>9, <1>10

\* A call that changes without a look at the row, the rounds being left alone.
LEMMA CallStays ==
  ASSUME Inv, NEW f \in Files, NEW m \in Calls, pass[f][m].pc # "over",
         NEW x, CallFits(x), x.seen = 0, Becomes(f, m, x),
         UNCHANGED <<round, row>>
  PROVE  CallsFit' /\ RowsFit'
<1> CallsFit
  BY DEF Inv
<1>1. /\ CallsFit'
      /\ \A g \in Files, n \in Calls :
           pass'[g][n] = IF g = f /\ n = m THEN x ELSE pass[g][n]
  BY OneCallChanges
<1>2. Told(f) \in Nat
  BY ToldIsNat, ConstantsAreNumbers DEF Inv
<1>3. pass'[f][m].seen <= Told(f)
  BY <1>1, <1>2
<1>4. RowsFit'
  BY <1>1, <1>3, RowStays
<1> QED BY <1>1, <1>4

LEMMA RoundsStay ==
  ASSUME Inv, UNCHANGED <<provider, round, dead, inRow, ended>>
  PROVE  RoundsFit' /\ DeadAreBefore'
BY DEF Inv, RoundsFit, DeadAreBefore

LEMMA CallKeepsInv ==
  ASSUME Inv, NEW f \in Files, NEW m \in Calls, Call(f, m)
  PROVE  Inv'
<1> DEFINE x == [pass[f][m] EXCEPT !.pc = "calling", !.attempt = @ + 1]
<1>1. CallFits(pass[f][m]) /\ pass[f][m] \in CallRecord /\ pass[f][m].pc = "waiting"
  BY DEF Inv, CallsFit, Call, CallFits
<1>2. CallFits(x) /\ x.seen = 0
  <2>1. /\ pass[f][m].attempt \in 0 .. Most /\ pass[f][m].attempt < Most
        /\ pass[f][m].timeouts \in Nat /\ pass[f][m].timeouts <= pass[f][m].attempt
        /\ pass[f][m].timeouts < MaxTimeout
    BY <1>1 DEF CallFits, CallRecord
  <2>2. pass[f][m].attempt + 1 \in 0 .. Most
        /\ pass[f][m].timeouts < pass[f][m].attempt + 1
    BY <2>1, MostIsNat
  <2>3. x \in CallRecord
    BY <1>1, <2>2 DEF CallRecord
  <2>4. /\ x.pc = "calling" /\ x.attempt = pass[f][m].attempt + 1
        /\ x.timeouts = pass[f][m].timeouts /\ x.seen = pass[f][m].seen
    BY <1>1 DEF CallRecord
  <2>5. pass[f][m].seen = 0
    BY <1>1 DEF CallFits
  <2> QED BY <2>1, <2>2, <2>3, <2>4, <2>5, MostIsNat DEF CallFits
<1>3. Becomes(f, m, x)
  BY DEF Becomes, Call, Inv, CallsFit, CallRecord
<1>4. CallsFit' /\ RowsFit'
  BY <1>1, <1>2, <1>3, CallStays DEF Call
<1>5. RoundsFit' /\ DeadAreBefore'
  BY RoundsStay DEF Call
<1> QED BY <1>4, <1>5 DEF Inv

\* A time-out that is followed by another attempt was not the last one allowed.
LEMMA TryLaterKeepsInv ==
  ASSUME Inv, NEW f \in Files, NEW m \in Calls, TryLater(f, m)
  PROVE  Inv'
<1>1. CallFits(pass[f][m]) /\ pass[f][m] \in CallRecord /\ pass[f][m].pc = "calling"
  BY DEF Inv, CallsFit, TryLater, CallFits
<1>2. PICK said \in Heard(f, m) \ Answers(m) :
        /\ Retries(f, m, said)
        /\ pass' = [pass EXCEPT ![f][m].pc = "sleeping",
                                ![f][m].timeouts = Timeouts(f, m, said)]
  BY DEF TryLater
<1> DEFINE x == [pass[f][m] EXCEPT !.pc = "sleeping", !.timeouts = Timeouts(f, m, said)]
<1>3. pass[f][m].attempt < Limit(said) /\ Limit(said) \in 1 .. Most
      /\ (IsTimeout(said) => Limit(said) = MaxTimeout)
  BY <1>2, LimitBelowMost DEF Retries
<1>4. /\ Timeouts(f, m, said) \in Nat
      /\ Timeouts(f, m, said) <= pass[f][m].attempt
      /\ Timeouts(f, m, said) < MaxTimeout
  <2>1. pass[f][m].timeouts \in Nat /\ pass[f][m].attempt \in Nat
        /\ pass[f][m].timeouts < pass[f][m].attempt /\ pass[f][m].timeouts < MaxTimeout
    BY <1>1 DEF CallFits, CallRecord
  <2>2. CASE IsTimeout(said)
    BY <1>3, <2>1, <2>2, MostIsNat, TimeoutsCount
  <2>3. CASE ~IsTimeout(said)
    BY <2>1, <2>3, TimeoutsCount
  <2> QED BY <2>2, <2>3
<1>5. CallFits(x) /\ x.seen = 0
  <2>1. pass[f][m].attempt \in 0 .. Most /\ pass[f][m].attempt < Most
        /\ pass[f][m].seen = 0
    BY <1>1, <1>3, MostIsNat DEF CallFits, CallRecord
  <2>2. x \in CallRecord
    BY <1>1, <1>4 DEF CallRecord
  <2>3. /\ x.pc = "sleeping" /\ x.attempt = pass[f][m].attempt
        /\ x.timeouts = Timeouts(f, m, said) /\ x.seen = pass[f][m].seen
    BY <1>1 DEF CallRecord
  <2> QED BY <1>4, <2>1, <2>2, <2>3, MostIsNat DEF CallFits
<1>6. Becomes(f, m, x)
  BY <1>2 DEF Becomes, Inv, CallsFit, CallRecord
<1>7. CallsFit' /\ RowsFit'
  BY <1>1, <1>5, <1>6, CallStays DEF TryLater
<1>8. RoundsFit' /\ DeadAreBefore'
  BY RoundsStay DEF TryLater
<1> QED BY <1>7, <1>8 DEF Inv

LEMMA WakeKeepsInv ==
  ASSUME Inv, NEW f \in Files, NEW m \in Calls, Wake(f, m)
  PROVE  Inv'
<1> DEFINE x == [pass[f][m] EXCEPT !.pc = "waiting"]
<1>1. CallFits(pass[f][m]) /\ pass[f][m] \in CallRecord /\ pass[f][m].pc = "sleeping"
  BY DEF Inv, CallsFit, Wake, CallFits
<1>2. CallFits(x) /\ x.seen = 0
  BY <1>1 DEF CallFits, CallRecord
<1>3. Becomes(f, m, x)
  BY DEF Becomes, Wake, Inv, CallsFit, CallRecord
<1>4. CallsFit' /\ RowsFit'
  BY <1>1, <1>2, <1>3, CallStays DEF Wake
<1>5. RoundsFit' /\ DeadAreBefore'
  BY RoundsStay DEF Wake
<1> QED BY <1>4, <1>5 DEF Inv

\* The last attempt of a call may time out as well.
LEMMA LastTimeouts ==
  ASSUME Inv, NEW f \in Files, NEW m \in Calls, pass[f][m].pc = "calling", NEW said
  PROVE  Timeouts(f, m, said) \in Nat /\ Timeouts(f, m, said) <= MaxTimeout
<1>1. CallFits(pass[f][m]) /\ pass[f][m] \in CallRecord
  BY DEF Inv, CallsFit
<1>2. pass[f][m].timeouts \in Nat /\ pass[f][m].timeouts < MaxTimeout
  BY <1>1 DEF CallFits, CallRecord
<1> QED BY <1>2, MostIsNat, TimeoutsCount

LEMMA SettleKeepsInv ==
  ASSUME Inv, NEW f \in Files, NEW m \in Calls, Settle(f, m)
  PROVE  Inv'
<1>1. CallFits(pass[f][m]) /\ pass[f][m] \in CallRecord /\ pass[f][m].pc = "calling"
  BY DEF Inv, CallsFit, Settle, CallFits
<1>2. PICK said \in Heard(f, m) :
        pass' = [pass EXCEPT ![f][m] =
            [Waiting EXCEPT !.pc = "report", !.timeouts = Timeouts(f, m, said),
                            !.outcome = IF said \in Packs THEN said
                                        ELSE IF said = "no usable cards" THEN "empty"
                                        ELSE "failed"]]
  BY DEF Settle
<1> DEFINE outcome == IF said \in Packs THEN said
                      ELSE IF said = "no usable cards" THEN "empty" ELSE "failed"
           x == [Waiting EXCEPT !.pc = "report", !.timeouts = Timeouts(f, m, said),
                                !.outcome = outcome]
<1>3. Timeouts(f, m, said) \in Nat /\ Timeouts(f, m, said) <= MaxTimeout
  BY <1>1, LastTimeouts
<1>4. outcome \in Outcomes
  BY DEF Outcomes
<1>5. CallFits(x) /\ x.seen = 0
  <2> HIDE DEF outcome
  <2>1. Waiting \in CallRecord /\ Waiting.seen = 0 /\ Waiting.outcome = "none"
    BY WaitingFits DEF CallFits, Waiting
  <2>2. x \in CallRecord
    BY <1>3, <1>4, <2>1 DEF CallRecord
  <2>3. x.pc = "report" /\ x.timeouts = Timeouts(f, m, said) /\ x.seen = 0
        /\ x.outcome = outcome
    BY <2>1 DEF CallRecord
  <2> QED BY <1>3, <1>4, <2>2, <2>3, MostIsNat DEF CallFits
<1>6. CallsFit' /\ RowsFit'
  BY <1>1, <1>2, <1>5, CallStays DEF Settle, Becomes
<1>7. RoundsFit' /\ DeadAreBefore'
  BY RoundsStay DEF Settle
<1> QED BY <1>6, <1>7 DEF Inv

LEMMA SettleTitleKeepsInv ==
  ASSUME Inv, NEW f \in Files, SettleTitle(f)
  PROVE  Inv'
<1>1. /\ Title \in Calls /\ CallFits(pass[f][Title]) /\ pass[f][Title] \in CallRecord
      /\ pass[f][Title].pc = "calling"
  BY DEF Inv, CallsFit, SettleTitle, CallFits, Calls
<1>2. PICK said \in Heard(f, Title) :
        pass' = [pass EXCEPT ![f][Title] =
            [Waiting EXCEPT !.pc = "over", !.timeouts = Timeouts(f, Title, said)]]
  BY DEF SettleTitle
<1> DEFINE x == [Waiting EXCEPT !.pc = "over", !.timeouts = Timeouts(f, Title, said)]
<1>3. Timeouts(f, Title, said) \in Nat /\ Timeouts(f, Title, said) <= MaxTimeout
  BY <1>1, LastTimeouts
<1>4. CallFits(x) /\ x.seen = 0
  <2>1. Waiting \in CallRecord /\ Waiting.seen = 0 /\ Waiting.outcome = "none"
    BY WaitingFits DEF CallFits, Waiting
  <2>2. x \in CallRecord
    BY <1>3, <2>1 DEF CallRecord
  <2>3. x.pc = "over" /\ x.timeouts = Timeouts(f, Title, said) /\ x.seen = 0
        /\ x.outcome = "none"
    BY <2>1 DEF CallRecord
  <2> QED BY <1>3, <2>2, <2>3, MostIsNat DEF CallFits
<1>5. CallsFit' /\ RowsFit'
  BY <1>1, <1>2, <1>4, CallStays DEF SettleTitle, Becomes
<1>6. ended' = ended \/ ended' = [ended EXCEPT ![f] = "untitled"]
  BY DEF SettleTitle
<1>7. RoundsFit' /\ DeadAreBefore'
  BY <1>6 DEF Inv, RoundsFit, DeadAreBefore, SettleTitle
<1> QED BY <1>5, <1>7 DEF Inv

LEMMA ReadRowKeepsInv ==
  ASSUME Inv, NEW f \in Files, NEW m \in Calls, ReadRow(f, m)
  PROVE  Inv'
<1> DEFINE column == Column(pass[f][m].outcome)
           x == [pass[f][m] EXCEPT !.pc = "count", !.seen = row[f][column]]
<1>1. CallFits(pass[f][m]) /\ pass[f][m] \in CallRecord /\ pass[f][m].pc = "report"
  BY DEF Inv, CallsFit, ReadRow, CallFits
<1>2. row[f][column] \in Nat /\ row[f][column] <= Told(f)
  BY DEF Inv, RowsFit, Column
<1> HIDE DEF column
<1>3. x \in CallRecord
  BY <1>1, <1>2 DEF CallRecord
<1>4. /\ x.pc = "count" /\ x.seen = row[f][column]
      /\ x.timeouts = pass[f][m].timeouts /\ x.outcome = pass[f][m].outcome
  BY <1>1 DEF CallRecord
<1>5. CallFits(x)
  BY <1>1, <1>3, <1>4 DEF CallFits
<1>6. Becomes(f, m, x)
  BY DEF Becomes, ReadRow, Inv, CallsFit, CallRecord, column
<1> CallsFit
  BY DEF Inv
<1>7. /\ CallsFit'
      /\ \A g \in Files, n \in Calls :
           pass'[g][n] = IF g = f /\ n = m THEN x ELSE pass[g][n]
  BY <1>5, <1>6, OneCallChanges
<1>8. pass'[f][m].seen <= Told(f)
  BY <1>2, <1>4, <1>7
<1>9. RowsFit'
  <2>1. \A g \in Files, n \in Calls : pass'[g][n] # pass[g][n] => g = f /\ n = m
    BY <1>7
  <2>2. pass[f][m].pc # "over" /\ UNCHANGED <<round, row>>
    BY <1>1 DEF ReadRow
  <2> QED BY <1>7, <1>8, <2>1, <2>2, RowStays
<1>10. RoundsFit' /\ DeadAreBefore'
  BY RoundsStay DEF ReadRow
<1> QED BY <1>7, <1>9, <1>10 DEF Inv

\* The count that is written is at most one more than were told, and so many
\* are over now.
LEMMA WriteRowKeepsInv ==
  ASSUME Inv, NEW f \in Files, NEW m \in Calls, WriteRow(f, m), m # Title
  PROVE  Inv'
<1> DEFINE column == Column(pass[f][m].outcome)
           x == [pass[f][m] EXCEPT !.pc = "over", !.seen = 0]
<1>1. CallFits(pass[f][m]) /\ pass[f][m] \in CallRecord /\ pass[f][m].pc = "count"
  BY DEF Inv, CallsFit, WriteRow, CallFits
<1>2. x \in CallRecord
  BY <1>1 DEF CallRecord
<1>3. x.pc = "over" /\ x.seen = 0 /\ x.timeouts = pass[f][m].timeouts
  BY <1>1 DEF CallRecord
<1>4. CallFits(x)
  BY <1>1, <1>2, <1>3 DEF CallFits
<1>5. Becomes(f, m, x)
  BY DEF Becomes, WriteRow, Inv, CallsFit, CallRecord
<1> CallsFit /\ RoundsFit
  BY DEF Inv
<1>6. /\ CallsFit'
      /\ \A g \in Files, n \in Calls :
           pass'[g][n] = IF g = f /\ n = m THEN x ELSE pass[g][n]
  BY <1>4, <1>5, OneCallChanges
<1>7. /\ m \in Modes /\ m \notin Over(f) /\ Over(f)' = Over(f) \cup {m}
      /\ \A g \in Files \ {f} : Over(g)' = Over(g)
  <2>1. m \in Modes /\ Modes \subseteq Calls
    BY DEF Calls
  <2>2. m \notin Over(f)
    BY <1>1 DEF Over
  <2>3. Over(f)' = Over(f) \cup {m}
    BY <1>3, <1>6, <2>1 DEF Over
  <2>4. \A g \in Files \ {f} : Over(g)' = Over(g)
    BY <1>6, <2>1 DEF Over
  <2> QED BY <2>1, <2>2, <2>3, <2>4
<1>8. /\ Told(f)' = Told(f) + 1 /\ Told(f) \in Nat
      /\ \A g \in Files \ {f} : Told(g)' = Told(g) /\ Told(g) \in Nat
  <2>1. IsFiniteSet(Over(f)) /\ Cardinality(Over(f)) \in Nat
        /\ Cardinality(Modes) \in Nat /\ round[f] \in 1 .. Rounds
    BY ToldIsNat DEF RoundsFit
  <2>2. Cardinality(Over(f)') = Cardinality(Over(f)) + 1
    BY <1>7, <2>1, FS_AddElement
  <2>3. (round[f] - 1) * Cardinality(Modes) \in Nat
    BY <2>1, TimesIsNat
  <2>4. Told(f)' = (round[f] - 1) * Cardinality(Modes) + Cardinality(Over(f)')
    BY DEF Told, WriteRow
  <2>5. Told(f)' = Told(f) + 1
    BY <2>1, <2>2, <2>3, <2>4 DEF Told
  <2>6. \A g \in Files : Told(g) \in Nat
    BY ToldIsNat, ConstantsAreNumbers
  <2>7. \A g \in Files \ {f} : Told(g)' = Told(g)
    BY <1>7 DEF Told, WriteRow
  <2> QED BY <2>5, <2>6, <2>7
<1>9. pass[f][m].seen \in Nat /\ pass[f][m].seen <= Told(f)
  BY <1>1 DEF CallRecord, Inv, RowsFit
<1>10. row' = [row EXCEPT ![f][column] = pass[f][m].seen + 1]
       /\ column \in {"completed", "failed"}
  BY DEF WriteRow, Column
<1>11. row' \in [Files -> [completed : Nat, failed : Nat]]
  <2> HIDE DEF column
  <2> QED BY <1>9, <1>10 DEF Inv, RowsFit
<1>12. ASSUME NEW g \in Files
       PROVE  /\ row'[g].completed <= Told(g)' /\ row'[g].failed <= Told(g)'
              /\ \A n \in Calls : pass'[g][n].seen <= Told(g)'
  <2>1. /\ row[g].completed \in Nat /\ row[g].failed \in Nat
        /\ row[g].completed <= Told(g) /\ row[g].failed <= Told(g)
        /\ Told(g) \in Nat /\ Told(g) <= Told(g)'
    BY <1>8 DEF Inv, RowsFit
  <2>2. \A n \in Calls : pass[g][n].seen \in Nat /\ pass[g][n].seen <= Told(g)
    BY DEF Inv, RowsFit, CallsFit, CallRecord
  <2>3. \A n \in Calls : pass'[g][n].seen <= Told(g)'
    <3> TAKE n \in Calls
    <3>1. pass'[g][n] = x \/ pass'[g][n] = pass[g][n]
      BY <1>6
    <3>2. Told(g)' \in Nat
      BY <1>8
    <3> HIDE DEF x
    <3> QED BY <1>3, <2>1, <2>2, <3>1, <3>2
  <2>4. CASE g # f
    <3>1. row'[g] = row[g]
      BY <1>10, <2>4 DEF Inv, RowsFit
    <3> QED BY <1>8, <2>1, <2>3, <2>4, <3>1
  <2>5. CASE g = f
    <3>1. row'[f].completed \in {row[f].completed, pass[f][m].seen + 1}
          /\ row'[f].failed \in {row[f].failed, pass[f][m].seen + 1}
      <4> HIDE DEF column
      <4> QED BY <1>10 DEF Inv, RowsFit
    <3> QED BY <1>8, <1>9, <2>1, <2>3, <2>5, <3>1
  <2> QED BY <2>4, <2>5
<1>13. RowsFit'
  BY <1>11, <1>12 DEF RowsFit
<1>14. RoundsFit' /\ DeadAreBefore'
  BY RoundsStay DEF WriteRow
<1> QED BY <1>6, <1>13, <1>14 DEF Inv

-----------------------------------------------------------------------------
(* The steps of one round. *)

\* A round starts over, the title's call staying: what was over counts as a
\* round now.
LEMMA NewRoundFits ==
  ASSUME Inv, NEW f \in Files, RoundOver(f), round[f] < Rounds,
         round' = [round EXCEPT ![f] = @ + 1],
         pass' = [pass EXCEPT ![f] =
                   [m \in Calls |-> IF m = Title THEN pass[f][m] ELSE Waiting]],
         UNCHANGED row
  PROVE  CallsFit' /\ RowsFit'
<1> CallsFit /\ RoundsFit
  BY DEF Inv
<1>1. \A g \in Files, n \in Calls :
        pass'[g][n] = IF g = f /\ n # Title THEN Waiting ELSE pass[g][n]
  BY DEF CallsFit
<1>2. Waiting \in CallRecord
  BY WaitingFits DEF CallFits
<1>3. pass' \in [Files -> [Calls -> CallRecord]]
  BY <1>2 DEF CallsFit
<1>4. \A g \in Files, n \in Calls : CallFits(pass'[g][n])
  BY <1>1, WaitingFits DEF CallsFit
<1>5. CallsFit'
  <2>1. \A g \in Files, n \in Calls : CallFits(pass[g][n])'
    BY <1>4 DEF CallFits, CallRecord
  <2> QED BY <1>3, <2>1 DEF CallsFit
<1>6. Over(f) = Modes /\ Over(f)' = {} /\ \A g \in Files \ {f} : Over(g)' = Over(g)
  <2>1. Over(f) = Modes
    BY DEF Over, RoundOver
  <2>2. Modes \subseteq Calls /\ Title \notin Modes
    BY ConstantsAreNumbers DEF Calls
  <2>3. \A n \in Modes : pass'[f][n].pc = "waiting"
    BY <1>1, <2>2 DEF Waiting
  <2>4. Over(f)' = {}
    BY <2>3 DEF Over
  <2>5. \A g \in Files \ {f} : Over(g)' = Over(g)
    BY <1>1, <2>2 DEF Over
  <2> QED BY <2>1, <2>4, <2>5
<1>7. Cardinality(Modes) \in Nat /\ round[f] \in 1 .. Rounds /\ Rounds \in Nat
  BY ToldIsNat, ConstantsAreNumbers DEF RoundsFit
<1>8. Told(f)' = Told(f)
  <2>1. Told(f) = (round[f] - 1) * Cardinality(Modes) + Cardinality(Modes)
    BY <1>6 DEF Told
  <2>2. Told(f) = round[f] * Cardinality(Modes)
    BY <1>7, <2>1, TimesIsNat
  <2>3. round'[f] - 1 = round[f] /\ Cardinality({}) = 0
    BY <1>7, FS_EmptySet DEF RoundsFit
  <2>4. Told(f)' = (round'[f] - 1) * Cardinality(Modes) + Cardinality(Over(f)')
    BY DEF Told
  <2>5. round[f] * Cardinality(Modes) \in Nat
    BY <1>7
  <2> QED BY <1>6, <2>2, <2>3, <2>4, <2>5
<1>9. \A g \in Files : Told(g)' = Told(g)
  <2> TAKE g \in Files
  <2>1. CASE g = f
    BY <1>8, <2>1
  <2>2. CASE g # f
    <3>1. round'[g] = round[g] /\ Over(g)' = Over(g)
      BY <1>6, <2>2 DEF RoundsFit
    <3> QED BY <3>1 DEF Told
  <2> QED BY <2>1, <2>2
<1>10. \A g \in Files, n \in Calls : pass'[g][n].seen <= Told(g)
  <2> TAKE g \in Files, n \in Calls
  <2>1. Waiting.seen = 0 /\ Told(g) \in Nat
    BY ToldIsNat, ConstantsAreNumbers DEF Waiting
  <2>2. pass[g][n].seen <= Told(g)
    BY DEF Inv, RowsFit
  <2> QED BY <1>1, <2>1, <2>2
<1>11. RowsFit'
  BY <1>9, <1>10 DEF Inv, RowsFit
<1> QED BY <1>5, <1>11

LEMMA RowsUntouched ==
  ASSUME Inv, UNCHANGED <<pass, round, row>>
  PROVE  CallsFit' /\ RowsFit'
BY DEF Inv, CallsFit, CallFits, CallRecord, RowsFit, Told, Over

\* What comes after a round, whether it is another one or the end.
LEMMA NextRoundFits ==
  ASSUME Inv, NEW f \in Files, RoundOver(f), NextRound(f), UNCHANGED <<provider, row>>
  PROVE  /\ CallsFit' /\ RowsFit'
         /\ \/ round[f] < Rounds /\ round' = [round EXCEPT ![f] = @ + 1] /\ ended' = ended
            \/ round[f] = Rounds /\ round' = round /\ ended' = [ended EXCEPT ![f] = "covered"]
<1>1. round[f] \in 1 .. Rounds /\ Rounds \in Nat
  BY ConstantsAreNumbers DEF Inv, RoundsFit
<1>2. CASE round[f] < Rounds
  BY <1>2, NewRoundFits DEF NextRound
<1>3. CASE ~(round[f] < Rounds)
  <2>1. round[f] = Rounds
    BY <1>1, <1>3
  <2> QED BY <1>3, <2>1, RowsUntouched DEF NextRound
<1> QED BY <1>2, <1>3

LEMMA KeepCardsKeepsInv ==
  ASSUME Inv, NEW f \in Files, KeepCards(f)
  PROVE  Inv'
<1>1. /\ CallsFit' /\ RowsFit'
      /\ \/ round[f] < Rounds /\ round' = [round EXCEPT ![f] = @ + 1] /\ ended' = ended
         \/ round[f] = Rounds /\ round' = round /\ ended' = [ended EXCEPT ![f] = "covered"]
  BY NextRoundFits DEF KeepCards
<1>2. UNCHANGED <<provider, dead>> /\ inRow' = [inRow EXCEPT ![f] = 0] /\ ended[f] = "no"
  BY DEF KeepCards, RoundOver
<1>3. RoundsFit'
  BY <1>1, <1>2, ConstantsAreNumbers DEF Inv, RoundsFit
<1>4. DeadAreBefore'
  BY <1>1, <1>2, ConstantsAreNumbers DEF Inv, RoundsFit, DeadAreBefore
<1> QED BY <1>1, <1>3, <1>4 DEF Inv

LEMMA StopEarlyKeepsInv ==
  ASSUME Inv, NEW f \in Files, StopEarly(f)
  PROVE  Inv'
<1>1. CallsFit' /\ RowsFit'
  BY RowsUntouched DEF StopEarly, End
<1>2. RoundsFit' /\ DeadAreBefore'
  BY ConstantsAreNumbers DEF Inv, RoundsFit, DeadAreBefore, StopEarly, End
<1> QED BY <1>1, <1>2 DEF Inv

\* With at most MaxDeadRounds + 1 rounds, a provider that counts as down before
\* the last of them was dead in every round there was.
LEMMA DeadRoundKeepsInv ==
  ASSUME Inv, NEW f \in Files, DeadRound(f)
  PROVE  Inv'
<1>1. /\ dead' = [dead EXCEPT ![f] = @ + 1] /\ inRow' = [inRow EXCEPT ![f] = @ + 1]
      /\ ended[f] = "no" /\ UNCHANGED <<provider, row>>
  BY DEF DeadRound, RoundOver
<1>2. /\ dead[f] < MaxDeadRounds /\ dead[f] < round[f] /\ inRow[f] < round[f]
      /\ dead[f] = round[f] - 1 => inRow[f] = dead[f]
  BY <1>1 DEF Inv, DeadAreBefore
<1>3. /\ round[f] \in 1 .. Rounds /\ Rounds \in Nat /\ MaxDeadRounds \in Nat
      /\ dead[f] \in Nat /\ inRow[f] \in Nat
  BY ConstantsAreNumbers DEF Inv, RoundsFit
<1>4. CASE IsDown(f)
  <2>1. ended' = [ended EXCEPT ![f] = "abandoned"] /\ UNCHANGED <<pass, round>>
    BY <1>4 DEF DeadRound, End
  <2>2. CallsFit' /\ RowsFit'
    BY <1>1, <2>1, RowsUntouched
  <2>3. RoundsFit'
    BY <1>1, <1>2, <1>3, <2>1 DEF Inv, RoundsFit
  <2>4. Rounds <= MaxDeadRounds + 1 /\ round[f] < Rounds => inRow[f] + 1 >= MaxDeadRounds
    BY <1>2, <1>3, <1>4 DEF IsDown
  <2>5. DeadAreBefore'
    BY <1>1, <2>1, <2>4 DEF Inv, RoundsFit, DeadAreBefore
  <2> QED BY <2>2, <2>3, <2>5 DEF Inv
<1>5. CASE ~IsDown(f)
  <2>1. NextRound(f) /\ RoundOver(f)
    BY <1>5 DEF DeadRound
  <2>2. /\ CallsFit' /\ RowsFit'
        /\ \/ round[f] < Rounds /\ round' = [round EXCEPT ![f] = @ + 1] /\ ended' = ended
           \/ round[f] = Rounds /\ round' = round /\ ended' = [ended EXCEPT ![f] = "covered"]
    BY <1>1, <2>1, NextRoundFits
  <2>3. dead[f] + 1 < MaxDeadRounds
    BY <1>3, <1>5 DEF IsDown
  <2>4. RoundsFit'
    BY <1>1, <1>2, <1>3, <2>2, <2>3 DEF Inv, RoundsFit
  <2>5. DeadAreBefore'
    BY <1>1, <1>2, <1>3, <2>2, <2>3 DEF Inv, RoundsFit, DeadAreBefore
  <2> QED BY <2>2, <2>4, <2>5 DEF Inv
<1> QED BY <1>4, <1>5

-----------------------------------------------------------------------------
LEMMA InitEstablishesInv == Init => Inv
<1> SUFFICES ASSUME Init PROVE Inv
  OBVIOUS
<1>1. CallsFit
  BY WaitingFits DEF Init, CallsFit, CallFits
<1>2. RoundsFit /\ DeadAreBefore
  BY ConstantsAreNumbers DEF Init, RoundsFit, DeadAreBefore
<1>3. \A f \in Files : Told(f) \in Nat
  BY <1>2, ToldIsNat, ConstantsAreNumbers
<1>4. \A f \in Files, m \in Calls : pass[f][m].seen = 0
  BY DEF Init, Waiting
<1>5. RowsFit
  BY <1>3, <1>4 DEF Init, RowsFit
<1> QED BY <1>1, <1>2, <1>5 DEF Inv

LEMMA NextKeepsInv == Inv /\ [Next]_vars => Inv'
<1> SUFFICES ASSUME Inv, [Next]_vars PROVE Inv'
  OBVIOUS
<1>1. CASE UNCHANGED vars
  BY <1>1, RowsUntouched, RoundsStay DEF vars, Inv
<1>2. ASSUME NEW f \in Files, RoundStep(f)
      PROVE  Inv'
  BY <1>2, KeepCardsKeepsInv, StopEarlyKeepsInv, DeadRoundKeepsInv DEF RoundStep
<1>3. ASSUME NEW f \in Files, NEW m \in Calls, PassStep(f, m)
      PROVE  Inv'
  <2>1. CASE Call(f, m) \/ TryLater(f, m) \/ Wake(f, m)
    BY <2>1, CallKeepsInv, TryLaterKeepsInv, WakeKeepsInv
  <2>2. CASE m = Title /\ SettleTitle(f)
    BY <2>2, SettleTitleKeepsInv
  <2>3. CASE m # Title /\ (Settle(f, m) \/ ReadRow(f, m) \/ WriteRow(f, m))
    BY <2>3, SettleKeepsInv, ReadRowKeepsInv, WriteRowKeepsInv
  <2> QED BY <1>3, <2>1, <2>2, <2>3 DEF PassStep
<1> QED BY <1>1, <1>2, <1>3 DEF Next

LEMMA InvHolds == Spec => []Inv
BY InitEstablishesInv, NextKeepsInv, PTL DEF Spec

LEMMA InvGivesTypes == Inv => TypeOK
<1> SUFFICES ASSUME Inv PROVE TypeOK
  OBVIOUS
<1> DEFINE most == Rounds * Cardinality(Modes)
<1>1. \A f \in Files : Told(f) \in 0 .. most /\ most \in Nat
  <2>1. most \in Nat
    BY ConstantsAreNumbers, FS_CardinalityType
  <2> HIDE DEF most
  <2>2. \A f \in Files : Told(f) \in 0 .. most
    BY ToldIsNat DEF Inv, most
  <2> QED BY <2>1, <2>2
<1> HIDE DEF most
<1>2. \A f \in Files, m \in Calls :
        pass[f][m] \in CallRecord /\ pass[f][m].seen \in 0 .. most
  <2> TAKE f \in Files, m \in Calls
  <2>1. pass[f][m] \in CallRecord
    BY DEF Inv, CallsFit
  <2>2. pass[f][m].seen \in Nat
    BY <2>1 DEF CallRecord
  <2>3. pass[f][m].seen <= Told(f)
    BY DEF Inv, RowsFit
  <2> QED BY <1>1, <2>1, <2>2, <2>3
<1>3. pass \in [Files -> [Calls ->
       [pc : {"waiting", "calling", "sleeping", "report", "count", "over"},
        attempt : 0 .. Most, timeouts : Nat, outcome : Outcomes \cup {"none"},
        seen : 0 .. most]]]
  BY <1>2 DEF Inv, CallsFit, CallRecord
<1>4. row \in [Files -> [completed : 0 .. most, failed : 0 .. most]]
  <2>1. row \in [Files -> [completed : Nat, failed : Nat]]
    BY DEF Inv, RowsFit
  <2>2. \A f \in Files : row[f].completed <= Told(f) /\ row[f].failed <= Told(f)
    BY DEF Inv, RowsFit
  <2>3. \A f \in Files : row[f].completed \in 0 .. most /\ row[f].failed \in 0 .. most
    BY <1>1, <2>1, <2>2
  <2> QED BY <2>1, <2>3
<1> QED BY <1>3, <1>4 DEF Inv, RoundsFit, TypeOK, Most, most

\* The counters stay within the rounds and attempts the settings allow,
\* whatever the providers answer: a row never tells of more passes than there
\* were, though passes overwrite each other's counts.
THEOREM TypeCorrect == Spec => []TypeOK
BY InvHolds, InvGivesTypes, PTL

\* For any limits and any mixture of failures, a call does not wait for more
\* time-outs than MAX_TIMEOUT_RETRIES.
THEOREM CallsDoNotWaitForEver == Spec => []TimeoutsAreFew
<1>1. Inv => TimeoutsAreFew
  BY DEF Inv, CallsFit, CallFits, TimeoutsAreFew
<1> QED BY <1>1, InvHolds, PTL

\* With at most one round more than the dead rounds that are enough, as the
\* code's defaults have it (three and two), rounds that are left are given up
\* only when that many dead ones came in a row.
THEOREM FewRoundsAreGivenUpRightly ==
  ASSUME Rounds <= MaxDeadRounds + 1
  PROVE  Spec => []OnlyDeadProviderIsAbandoned
<1>1. Inv => OnlyDeadProviderIsAbandoned
  BY DEF Inv, DeadAreBefore, OnlyDeadProviderIsAbandoned
<1> QED BY <1>1, InvHolds, PTL

-----------------------------------------------------------------------------
-----------------------------------------------------------------------------
(* McqGeneration *)

LEMMA McqConstantsAreNumbers ==
  MaxCards \in Nat \ {0} /\ BatchSize \in Nat \ {0} /\ MaxDeletes \in Nat /\ MaxCrashes \in Nat
BY McqConstants

-----------------------------------------------------------------------------
(* Sets of cards. *)

LEMMA CardsCount ==
  ASSUME NEW S, S \subseteq Cards
  PROVE  /\ IsFiniteSet(S) /\ Cardinality(S) \in 0 .. MaxCards /\ Cardinality(S) \in Nat
         /\ \A T : T \subseteq S => Cardinality(T) <= Cardinality(S)
<1>1. IsFiniteSet(Cards) /\ Cardinality(Cards) = MaxCards
  BY McqConstantsAreNumbers, FS_Interval DEF Cards
<1>2. IsFiniteSet(S) /\ Cardinality(S) <= MaxCards /\ Cardinality(S) \in Nat
  BY <1>1, FS_Subset, FS_CardinalityType
<1>3. \A T : T \subseteq S => Cardinality(T) <= Cardinality(S)
  BY <1>2, FS_Subset
<1> QED BY <1>2, <1>3, McqConstantsAreNumbers

\* Cards that are taken out of a set are counted out of it.
LEMMA CardsTakenOut ==
  ASSUME NEW S, S \subseteq Cards, NEW T, T \subseteq S
  PROVE  Cardinality(S) = Cardinality(S \ T) + Cardinality(T)
<1>1. IsFiniteSet(S) /\ S \cap T = T
  BY CardsCount
<1>2. Cardinality(S \ T) = Cardinality(S) - Cardinality(T)
  BY <1>1, FS_Difference
<1>3. Cardinality(S) \in Nat /\ Cardinality(T) \in Nat
  BY CardsCount
<1> QED BY <1>2, <1>3

LEMMA LowestIsIn ==
  ASSUME NEW S, S \subseteq Cards, S # {}
  PROVE  Lowest(S) \in S /\ \A d \in S : Lowest(S) <= d
<1>1. IsWellFoundedOn(OpToRel(<, Nat), Nat)
  BY NatLessThanWellFounded, Zenon
<1> DEFINE R == OpToRel(<, Nat)
<1>2. \A x, y \in Nat : y < x => <<y, x>> \in R
  BY Zenon DEF OpToRel
<1>3. IsWellFoundedOn(R, Nat)
  BY <1>1, Zenon
<1> HIDE DEF R
<1>4. S \subseteq Nat
  BY McqConstantsAreNumbers DEF Cards
<1>5. PICK x \in S : \A y \in S : ~(<<y, x>> \in R)
  BY <1>3, <1>4, WFMin, Zenon
<1>6. \A y \in S : ~(y < x)
  BY <1>2, <1>4, <1>5, Zenon
<1>7. \A y \in S : x <= y
  BY <1>4, <1>6
<1> QED BY <1>7 DEF Lowest

\* A batch is some of the cards that are left, and one at least.
LEMMA BatchTakesCards ==
  ASSUME NEW S, S \subseteq Cards
  PROVE  Batch(S) \subseteq S /\ (S # {} => Batch(S) # {})
<1>1. Batch(S) \subseteq S
  BY DEF Batch
<1>2. ASSUME S # {} PROVE Batch(S) # {}
  <2>1. Lowest(S) \in S /\ \A d \in S : Lowest(S) <= d
    BY <1>2, LowestIsIn
  <2>2. {d \in S : d < Lowest(S)} = {}
    <3>1. \A c \in S : (\A d \in S : c <= d) => {d \in S : d < c} = {}
      <4> TAKE c \in S
      <4>1. \A d \in S : c \in Nat /\ d \in Nat
        BY McqConstantsAreNumbers DEF Cards
      <4>2. (\A d \in S : c <= d) => \A d \in S : ~(d < c)
        BY <4>1
      <4> QED BY <4>2
    <3> QED BY <2>1, <3>1
  <2>3. Cardinality({d \in S : d < Lowest(S)}) < BatchSize
    BY <2>2, FS_EmptySet, McqConstantsAreNumbers
  <2> QED BY <2>1, <2>3 DEF Batch
<1> QED BY <1>1, <1>2

-----------------------------------------------------------------------------
(* What a run has before it. *)

RunRecord ==
  [pc : {"off", "load", "batch", "single"}, left : SUBSET Cards, singles : SUBSET Cards,
   before : 0 .. MaxCards, done : 0 .. MaxCards]

\* The cards a run has counted and those it has still to count.
Sum(r) == r.before + r.done + Cardinality(r.left) + Cardinality(r.singles)

RunFits(r, total) ==
  /\ r \in RunRecord
  /\ r.pc \in {"off", "load"} => r.before = 0 /\ r.done = 0 /\ r.left = {} /\ r.singles = {}
  /\ r.pc \in {"batch", "single"} => Sum(r) <= total
  /\ r.pc = "batch" => r.singles = {}
  /\ r.pc = "single" => r.singles # {}
  /\ r.left \cap r.singles = {}

LEMMA NoRunFits == \A n : RunFits(NoRun, n)
BY McqConstantsAreNumbers DEF RunFits, NoRun, RunRecord

\* The fields of a run that works.
LEMMA RunNumbers ==
  ASSUME NEW r, NEW n \in 0 .. MaxCards, RunFits(r, n)
  PROVE  /\ r.left \subseteq Cards /\ r.singles \subseteq Cards
         /\ r.before \in Nat /\ r.done \in Nat
         /\ Cardinality(r.left) \in Nat /\ Cardinality(r.singles) \in Nat
<1>1. /\ r.left \subseteq Cards /\ r.singles \subseteq Cards
      /\ r.before \in Nat /\ r.done \in Nat
  BY McqConstantsAreNumbers DEF RunFits, RunRecord
<1> QED BY <1>1, CardsCount

\* A run that starts: what is done and what is pending make up the deck.
LEMMA LoadedFits ==
  /\ Before \in 0 .. Cardinality(Deck) /\ Cardinality(Deck) \in 0 .. MaxCards
  /\ RunFits([NoRun EXCEPT !.pc = "batch", !.left = Pending, !.before = Before],
             Cardinality(Deck))
<1> DEFINE r == [NoRun EXCEPT !.pc = "batch", !.left = Pending, !.before = Before]
<1>1. Deck \subseteq Cards /\ Pending \subseteq Deck
  BY DEF Deck, Pending, InStatus
<1>2. /\ Cardinality(Deck) \in 0 .. MaxCards /\ Cardinality(Deck) \in Nat
      /\ Cardinality(Pending) \in Nat /\ Cardinality(Pending) <= Cardinality(Deck)
  BY <1>1, CardsCount
<1>3. /\ Before \in 0 .. Cardinality(Deck) /\ Before \in 0 .. MaxCards
      /\ Before + Cardinality(Pending) = Cardinality(Deck)
  BY <1>2, McqConstantsAreNumbers DEF Before
<1>4. /\ r.pc = "batch" /\ r.left = Pending /\ r.singles = {} /\ r.before = Before
      /\ r.done = 0
  BY DEF NoRun
<1>5. r \in RunRecord
  <2>1. NoRun \in RunRecord
    BY NoRunFits DEF RunFits
  <2>2. Pending \in SUBSET Cards
    BY <1>1
  <2> HIDE DEF Before
  <2> QED BY <1>3, <2>1, <2>2 DEF RunRecord
<1>6. Sum(r) <= Cardinality(Deck)
  <2>1. Sum(r) = Before + 0 + Cardinality(Pending) + Cardinality({})
    BY <1>4 DEF Sum
  <2> QED BY <1>2, <1>3, <2>1, FS_EmptySet
<1> HIDE DEF r
<1>7. RunFits(r, Cardinality(Deck))
  BY <1>4, <1>5, <1>6 DEF RunFits
<1> QED BY <1>2, <1>3, <1>7 DEF r

\* A run that settles some cards it has before it, taken from left or singles.
LEMMA SettledFits ==
  ASSUME NEW r, NEW n \in 0 .. MaxCards, RunFits(r, n), r.pc \in {"batch", "single"},
         NEW rest, rest \in RunRecord, NEW S, S \subseteq Cards,
         rest.before = r.before, rest.done = r.done,
         Cardinality(rest.left) + Cardinality(rest.singles) + Cardinality(S)
           = Cardinality(r.left) + Cardinality(r.singles),
         rest.pc \in {"batch", "single"},
         rest.pc = "batch" => rest.singles = {},
         rest.pc = "single" => rest.singles # {},
         rest.left \cap rest.singles = {}
  PROVE  /\ RunFits([rest EXCEPT !.done = r.done + Cardinality(S)], n)
         /\ r.before + (r.done + Cardinality(S)) \in 0 .. n
<1> DEFINE x == [rest EXCEPT !.done = r.done + Cardinality(S)]
<1>1. /\ r.before \in Nat /\ r.done \in Nat
      /\ Cardinality(r.left) \in Nat /\ Cardinality(r.singles) \in Nat
      /\ Sum(r) <= n /\ n \in Nat /\ n <= MaxCards
  BY RunNumbers, McqConstantsAreNumbers DEF RunFits
<1>2. rest.left \subseteq Cards /\ rest.singles \subseteq Cards
  BY DEF RunRecord
<1>3. /\ Cardinality(S) \in Nat /\ Cardinality(rest.left) \in Nat
      /\ Cardinality(rest.singles) \in Nat
  BY <1>2, CardsCount
<1>4. r.before + (r.done + Cardinality(S)) + Cardinality(rest.left) + Cardinality(rest.singles) <= n
  BY <1>1, <1>3 DEF Sum
<1>5. /\ r.before + (r.done + Cardinality(S)) \in 0 .. n
      /\ r.done + Cardinality(S) \in 0 .. MaxCards
  BY <1>1, <1>3, <1>4, McqConstantsAreNumbers
<1>6. /\ x \in RunRecord /\ x.pc = rest.pc /\ x.left = rest.left /\ x.singles = rest.singles
      /\ x.before = r.before /\ x.done = r.done + Cardinality(S)
  BY <1>5 DEF RunRecord
<1> HIDE DEF x
<1>7. Sum(x) <= n
  BY <1>4, <1>6 DEF Sum
<1>8. RunFits(x, n)
  BY <1>6, <1>7 DEF RunFits
<1> QED BY <1>5, <1>8 DEF x

LEMMA BatchSettledFits ==
  ASSUME NEW r, NEW n \in 0 .. MaxCards, RunFits(r, n), r.pc = "batch"
  PROVE  /\ RunFits([[r EXCEPT !.left = @ \ Batch(r.left)]
                       EXCEPT !.done = r.done + Cardinality(Batch(r.left))], n)
         /\ r.before + (r.done + Cardinality(Batch(r.left))) \in 0 .. n
<1> DEFINE rest == [r EXCEPT !.left = @ \ Batch(r.left)]
           S == Batch(r.left)
<1>1. r \in RunRecord /\ r.left \subseteq Cards /\ r.singles = {}
  BY DEF RunFits, RunRecord
<1>2. S \subseteq r.left /\ S \subseteq Cards
  BY <1>1, BatchTakesCards
<1>3. Cardinality(r.left) = Cardinality(r.left \ S) + Cardinality(S)
  BY <1>1, <1>2, CardsTakenOut
<1>4. /\ rest \in RunRecord /\ rest.before = r.before /\ rest.done = r.done
      /\ rest.left = r.left \ S /\ rest.singles = {} /\ rest.pc = "batch"
  BY <1>1 DEF RunRecord
<1>5. Cardinality(rest.left) + Cardinality(rest.singles) + Cardinality(S)
        = Cardinality(r.left) + Cardinality(r.singles)
  <2>1. /\ Cardinality(r.left \ S) \in Nat /\ Cardinality(S) \in Nat
        /\ Cardinality(r.singles) \in Nat
    BY <1>1, <1>2, CardsCount
  <2> HIDE DEF rest, S
  <2> QED BY <1>1, <1>3, <1>4, <2>1
<1> HIDE DEF rest, S
<1>6. /\ RunFits([rest EXCEPT !.done = r.done + Cardinality(S)], n)
      /\ r.before + (r.done + Cardinality(S)) \in 0 .. n
  BY <1>2, <1>4, <1>5, SettledFits
<1> QED BY <1>6 DEF rest, S

\* A batch that failed is asked about card by card.
LEMMA BatchFailedFits ==
  ASSUME NEW r, NEW n \in 0 .. MaxCards, RunFits(r, n), r.pc = "batch", r.left # {}
  PROVE  RunFits([r EXCEPT !.pc = "single", !.left = @ \ Batch(r.left),
                           !.singles = Batch(r.left)], n)
<1> DEFINE S == Batch(r.left)
           x == [r EXCEPT !.pc = "single", !.left = @ \ S, !.singles = S]
<1>1. r \in RunRecord /\ r.left \subseteq Cards /\ r.singles = {} /\ Sum(r) <= n
  BY DEF RunFits, RunRecord
<1>2. S \subseteq r.left /\ S \subseteq Cards /\ S # {}
  BY <1>1, BatchTakesCards
<1> HIDE DEF S
<1>3. Cardinality(r.left) = Cardinality(r.left \ S) + Cardinality(S)
  BY <1>1, <1>2, CardsTakenOut
<1>4. /\ x \in RunRecord /\ x.before = r.before /\ x.done = r.done
      /\ x.left = r.left \ S /\ x.singles = S /\ x.pc = "single"
  BY <1>1, <1>2 DEF RunRecord
<1> HIDE DEF x
<1>5. Sum(x) = Sum(r)
  <2>1. /\ Cardinality(r.left \ S) \in Nat /\ Cardinality(S) \in Nat
        /\ r.before \in Nat /\ r.done \in Nat /\ Cardinality(r.singles) = 0
    BY <1>1, <1>2, CardsCount, RunNumbers, FS_EmptySet
  <2> QED BY <1>3, <1>4, <2>1 DEF Sum
<1>6. RunFits(x, n)
  BY <1>1, <1>2, <1>4, <1>5 DEF RunFits
<1> QED BY <1>6 DEF x, S

LEMMA SingleSettledFits ==
  ASSUME NEW g \in Gens, NEW n \in 0 .. MaxCards, RunFits(run[g], n),
         run[g].pc = "single", NEW c, c = Lowest(run[g].singles)
  PROVE  /\ c \in Cards /\ Cardinality({c}) = 1
         /\ RunFits([AfterSingle(g, c) EXCEPT !.done = run[g].done + Cardinality({c})], n)
         /\ run[g].before + (run[g].done + Cardinality({c})) \in 0 .. n
<1> DEFINE r == run[g]
           rest == AfterSingle(g, c)
<1>1. r \in RunRecord /\ r.left \subseteq Cards /\ r.singles \subseteq Cards /\ r.singles # {}
  BY DEF RunFits, RunRecord
<1>2. c \in r.singles /\ c \in Cards
  BY <1>1, LowestIsIn
<1>3. /\ Cardinality(r.singles) = Cardinality(r.singles \ {c}) + Cardinality({c})
      /\ Cardinality({c}) = 1
  <2>1. {c} \subseteq r.singles
    BY <1>2
  <2> HIDE DEF r
  <2>2. Cardinality(r.singles) = Cardinality(r.singles \ {c}) + Cardinality({c})
    BY <1>1, <2>1, CardsTakenOut
  <2> QED BY <2>2, FS_Singleton
<1>4. /\ rest \in RunRecord /\ rest.before = r.before /\ rest.done = r.done
      /\ rest.left = r.left /\ rest.singles = r.singles \ {c}
      /\ rest.pc = IF r.singles \ {c} = {} THEN "batch" ELSE "single"
  BY <1>1 DEF RunRecord, AfterSingle
<1>5. Cardinality(rest.left) + Cardinality(rest.singles) + Cardinality({c})
        = Cardinality(r.left) + Cardinality(r.singles)
  <2>1. /\ Cardinality(r.left) \in Nat /\ Cardinality(r.singles \ {c}) \in Nat
    BY <1>1, CardsCount
  <2> QED BY <1>3, <1>4, <2>1
<1> HIDE DEF rest
<1>6. /\ RunFits([rest EXCEPT !.done = r.done + Cardinality({c})], n)
      /\ r.before + (r.done + Cardinality({c})) \in 0 .. n
  <2>1. r.pc \in {"batch", "single"} /\ RunFits(r, n) /\ {c} \subseteq Cards
    BY <1>2
  <2>2. /\ rest.pc \in {"batch", "single"}
        /\ rest.pc = "batch" => rest.singles = {}
        /\ rest.pc = "single" => rest.singles # {}
        /\ rest.left \cap rest.singles = {}
    BY <1>4 DEF RunFits
  <2> HIDE DEF r
  <2> QED BY <1>4, <1>5, <2>1, <2>2, SettledFits
<1> QED BY <1>2, <1>3, <1>6 DEF rest

-----------------------------------------------------------------------------
(* The inductive invariant of any number of requests and runs. *)

ItemsOK ==
  /\ item \in [Cards -> {"absent", "none", "notStarted", "failed", "completed", "gone"}]
  /\ made \in [Cards -> 0 .. MaxDeletes + 2]
  /\ direct \in BOOLEAN

GenRecord == [status : {"free", "in_progress", "completed", "failed"}, old : BOOLEAN,
              total : 0 .. MaxCards, processed : 0 .. MaxCards]

GensOK ==
  /\ gen \in [Gens -> GenRecord]
  /\ run \in [Gens -> RunRecord]
  /\ \A g \in Gens : RunFits(run[g], gen[g].total)

StartsOK ==
  start \in [Starters -> [pc : {"idle", "items", "generation"}, seen : SUBSET Cards]]

CountsOK ==
  /\ resets \in Nat /\ deletes \in 0 .. MaxDeletes /\ crashes \in 0 .. MaxCrashes
  /\ resets <= deletes

Base == ItemsOK /\ GensOK /\ StartsOK /\ CountsOK

LEMMA BaseGivesTypes == Base => McqTypeOK
BY McqConstantsAreNumbers
   DEF Base, ItemsOK, GensOK, GenRecord, RunRecord, StartsOK, CountsOK, McqTypeOK

LEMMA InitEstablishesBase == McqInit => Base
<1> SUFFICES ASSUME McqInit PROVE Base
  OBVIOUS
<1>1. ItemsOK /\ CountsOK
  <2>1. 0 \in 0 .. MaxDeletes + 2 /\ 0 \in 0 .. MaxDeletes /\ 0 \in 0 .. MaxCrashes
    BY McqConstantsAreNumbers
  <2>2. ItemsOK
    BY <2>1 DEF McqInit, ItemsOK
  <2>3. CountsOK
    BY <2>1 DEF McqInit, CountsOK
  <2> QED BY <2>2, <2>3
<1>2. StartsOK
  BY DEF McqInit, StartsOK, NoStart
<1>3. \A g \in Gens : gen[g] = NoGen /\ run[g] = NoRun
  BY DEF McqInit
<1>4. NoGen \in GenRecord /\ NoRun \in RunRecord
  BY NoRunFits, McqConstantsAreNumbers DEF NoGen, GenRecord, RunFits
<1>5. GensOK
  BY <1>3, <1>4, NoRunFits DEF McqInit, GensOK
<1> QED BY <1>1, <1>2, <1>5 DEF Base

LEMMA MarkedIsItem ==
  ASSUME ItemsOK, NEW S, NEW s \in {"none", "notStarted", "failed", "completed", "gone"}
  PROVE  Mark(S, s) \in [Cards -> {"absent", "none", "notStarted", "failed", "completed", "gone"}]
BY DEF ItemsOK, Mark

LEMMA SavedIsMade ==
  ASSUME ItemsOK, NEW S
  PROVE  Saved(S) \in [Cards -> 0 .. MaxDeletes + 2]
BY McqConstantsAreNumbers DEF ItemsOK, Saved

\* One generation and its run change.
LEMMA OneRunChanges ==
  ASSUME GensOK, NEW g \in Gens,
         gen' \in [Gens -> GenRecord], \A h \in Gens \ {g} : gen'[h].total = gen[h].total,
         NEW x, run' = [run EXCEPT ![g] = x], RunFits(x, gen'[g].total)
  PROVE  GensOK'
<1>1. x \in RunRecord
  BY DEF RunFits
<1>2. run' \in [Gens -> RunRecord]
  BY <1>1 DEF GensOK
<1>3. ASSUME NEW h \in Gens PROVE RunFits(run'[h], gen'[h].total)
  <2>1. CASE h = g
    BY <2>1 DEF GensOK
  <2>2. CASE h # g
    BY <2>2 DEF GensOK
  <2> QED BY <2>1, <2>2
<1>4. \A h \in Gens : RunFits(run[h], gen[h].total)'
  BY <1>3 DEF RunFits, RunRecord, Sum
<1> QED BY <1>2, <1>4 DEF GensOK, GenRecord, RunRecord

\* Generations change and no run does, nor any total.
LEMMA NoRunChanges ==
  ASSUME GensOK, gen' \in [Gens -> GenRecord], \A h \in Gens : gen'[h].total = gen[h].total,
         UNCHANGED run
  PROVE  GensOK'
<1>1. \A h \in Gens : RunFits(run[h], gen[h].total)'
  BY DEF GensOK, RunFits, RunRecord, Sum
<1> QED BY <1>1 DEF GensOK, GenRecord, RunRecord

\* A generation is given up or completed, its other columns staying.
LEMMA StatusIsColumn ==
  ASSUME GensOK, NEW g \in Gens, NEW s \in {"failed", "completed"}
  PROVE  /\ [gen EXCEPT ![g].status = s] \in [Gens -> GenRecord]
         /\ \A h \in Gens : [gen EXCEPT ![g].status = s][h].total = gen[h].total
BY DEF GensOK, GenRecord

LEMMA ItemStepsKeepBase ==
  ASSUME Base, AddCard \/ GenerateDirectly \/ DeleteMcqs \/ DeleteCard
  PROVE  Base'
<1> USE DEF Base
<1>1. UNCHANGED <<gen, run, start, crashes>>
  BY DEF AddCard, GenerateDirectly, DeleteMcqs, DeleteCard
<1>2. GensOK' /\ StartsOK'
  <2>1. GensOK'
    BY <1>1, NoRunChanges DEF GensOK
  <2> QED BY <1>1, <2>1 DEF StartsOK
<1>3. CASE AddCard
  BY <1>1, <1>2, <1>3, MarkedIsItem DEF AddCard, ItemsOK, CountsOK
<1>4. CASE GenerateDirectly
  BY <1>1, <1>2, <1>4 DEF GenerateDirectly, ItemsOK, CountsOK
<1>5. CASE DeleteMcqs
  <2>1. item' = Mark(Pending \cup InStatus("completed"), "notStarted")
        /\ direct' \in BOOLEAN
        /\ deletes < MaxDeletes /\ deletes' = deletes + 1 /\ resets' = resets + 1
    BY <1>5 DEF DeleteMcqs, ItemsOK
  <2>2. made' \in [Cards -> 0 .. MaxDeletes + 2]
    BY <1>5, McqConstantsAreNumbers DEF DeleteMcqs, ItemsOK
  <2>3. ItemsOK'
    BY <2>1, <2>2, MarkedIsItem DEF ItemsOK
  <2>4. CountsOK'
    BY <1>1, <2>1, McqConstantsAreNumbers DEF CountsOK
  <2> QED BY <1>2, <2>3, <2>4
<1>6. CASE DeleteCard
  <2>1. ItemsOK'
    BY <1>6, MarkedIsItem DEF DeleteCard, ItemsOK
  <2>2. CountsOK'
    BY <1>6, McqConstantsAreNumbers DEF DeleteCard, CountsOK
  <2> QED BY <1>2, <2>1, <2>2
<1> QED BY <1>3, <1>4, <1>5, <1>6

LEMMA CheckKeepsBase ==
  ASSUME Base, NEW s \in Starters, Check(s)
  PROVE  Base'
<1>1. UNCHANGED <<item, made, direct, run, resets, deletes, crashes>>
  BY DEF Check
<1>2. GensOK'
  <2>1. CASE UNCHANGED gen
    BY <1>1, <2>1, NoRunChanges DEF Base, GensOK
  <2>2. CASE \E g \in InProgress : gen' = [gen EXCEPT ![g].status = "failed"]
    <3>1. PICK g \in Gens : gen' = [gen EXCEPT ![g].status = "failed"]
      BY <2>2 DEF InProgress
    <3>2. gen' \in [Gens -> GenRecord] /\ \A h \in Gens : gen'[h].total = gen[h].total
      BY <3>1, StatusIsColumn DEF Base
    <3> QED BY <1>1, <3>2, NoRunChanges DEF Base
  <2> QED BY <2>1, <2>2 DEF Check
<1>3. StartsOK'
  BY DEF Base, StartsOK, Check, Deck
<1> QED BY <1>1, <1>2, <1>3 DEF Base, ItemsOK, CountsOK

LEMMA AddItemsKeepsBase ==
  ASSUME Base, NEW s \in Starters, AddItems(s)
  PROVE  Base'
<1>1. UNCHANGED <<made, direct, gen, run, resets, deletes, crashes>>
  BY DEF AddItems
<1>2. GensOK'
  BY <1>1, NoRunChanges DEF Base, GensOK
<1>3. ItemsOK'
  BY <1>1, MarkedIsItem DEF Base, ItemsOK, AddItems
<1>4. StartsOK'
  BY DEF Base, StartsOK, AddItems, NoStart
<1> QED BY <1>1, <1>2, <1>3, <1>4 DEF Base, CountsOK

LEMMA AddGenerationKeepsBase ==
  ASSUME Base, NEW s \in Starters, AddGeneration(s)
  PROVE  Base'
<1>1. UNCHANGED <<item, made, direct, resets, deletes, crashes>>
  BY DEF AddGeneration
<1> DEFINE added == [status |-> "in_progress", old |-> FALSE,
                     total |-> Cardinality(start[s].seen),
                     processed |-> Cardinality(InStatus("completed"))]
<1>2. PICK g \in Gens : /\ run[g] = NoRun
                        /\ gen' = [gen EXCEPT ![g] = added]
                        /\ run' = [run EXCEPT ![g].pc = "load"]
  BY DEF AddGeneration
<1>3. added \in GenRecord
  <2>1. start[s].seen \subseteq Cards /\ InStatus("completed") \subseteq Cards
    BY DEF Base, StartsOK, InStatus
  <2>2. /\ Cardinality(start[s].seen) \in 0 .. MaxCards
        /\ Cardinality(InStatus("completed")) \in 0 .. MaxCards
    BY <2>1, CardsCount
  <2> QED BY <2>2 DEF GenRecord
<1>4. gen' \in [Gens -> GenRecord] /\ \A h \in Gens \ {g} : gen'[h].total = gen[h].total
  <2> HIDE DEF added
  <2> QED BY <1>2, <1>3 DEF Base, GensOK
<1>5. run' = [run EXCEPT ![g] = [NoRun EXCEPT !.pc = "load"]]
  BY <1>2 DEF Base, GensOK
<1>6. \A n : RunFits([NoRun EXCEPT !.pc = "load"], n)
  BY McqConstantsAreNumbers DEF RunFits, RunRecord, NoRun
<1> HIDE DEF added
<1>7. GensOK'
  BY <1>4, <1>5, <1>6, OneRunChanges DEF Base
<1>8. StartsOK'
  BY DEF Base, StartsOK, AddGeneration, NoStart
<1> QED BY <1>1, <1>7, <1>8 DEF Base, ItemsOK, CountsOK

-----------------------------------------------------------------------------
(* The steps of a run. *)

\* Two columns of a generation's row change.
LEMMA ColumnsChange ==
  ASSUME GensOK, NEW g \in Gens, NEW n \in 0 .. MaxCards
  PROVE  /\ [gen EXCEPT ![g].processed = n] \in [Gens -> GenRecord]
         /\ \A h \in Gens : [gen EXCEPT ![g].processed = n][h].total = gen[h].total
         /\ [gen EXCEPT ![g].processed = n][g].processed = n
BY DEF GensOK, GenRecord

LEMMA LoadKeepsBase ==
  ASSUME Base, NEW g \in Gens, Load(g)
  PROVE  Base'
<1> DEFINE x == [NoRun EXCEPT !.pc = "batch", !.left = Pending, !.before = Before]
<1>1. Before \in 0 .. MaxCards /\ Cardinality(Deck) \in 0 .. MaxCards
      /\ RunFits(x, Cardinality(Deck))
  <2>1. /\ Before \in 0 .. Cardinality(Deck) /\ Cardinality(Deck) \in 0 .. MaxCards
        /\ RunFits(x, Cardinality(Deck))
    BY LoadedFits
  <2> HIDE DEF x
  <2> QED BY <2>1, McqConstantsAreNumbers
<1>2. run' = [run EXCEPT ![g] = x]
      /\ gen' = [gen EXCEPT ![g].total = Cardinality(Deck), ![g].processed = Before]
      /\ UNCHANGED <<item, made, direct, start, resets, deletes, crashes>>
  BY DEF Load
<1> HIDE DEF x
<1>3. /\ gen' \in [Gens -> GenRecord] /\ gen'[g].total = Cardinality(Deck)
      /\ \A h \in Gens \ {g} : gen'[h].total = gen[h].total
  <2> HIDE DEF Before
  <2> QED BY <1>1, <1>2 DEF Base, GensOK, GenRecord
<1>4. GensOK'
  BY <1>1, <1>2, <1>3, OneRunChanges DEF Base
<1> QED BY <1>2, <1>4 DEF Base, ItemsOK, StartsOK, CountsOK

\* A run ends, whatever becomes of its generation's status.
LEMMA EndKeepsBase ==
  ASSUME Base, NEW g \in Gens,
         gen' \in {gen, [gen EXCEPT ![g].status = "failed"],
                   [gen EXCEPT ![g].status = "completed"]},
         run' = [run EXCEPT ![g] = NoRun],
         UNCHANGED <<item, made, direct, start, resets, deletes, crashes>>
  PROVE  Base'
<1>1. gen' \in [Gens -> GenRecord] /\ \A h \in Gens : gen'[h].total = gen[h].total
  <2>1. CASE gen' = gen
    BY <2>1 DEF Base, GensOK
  <2>2. ASSUME NEW s \in {"failed", "completed"}, gen' = [gen EXCEPT ![g].status = s]
        PROVE  gen' \in [Gens -> GenRecord] /\ \A h \in Gens : gen'[h].total = gen[h].total
    BY <2>2, StatusIsColumn DEF Base
  <2> QED BY <2>1, <2>2
<1>2. GensOK'
  BY <1>1, NoRunFits, OneRunChanges DEF Base
<1> QED BY <1>2 DEF Base, ItemsOK, StartsOK, CountsOK

\* Cards are settled: what SettleCards writes, with the facts about the run.
LEMMA SettleKeepsGens ==
  ASSUME Base, NEW g \in Gens, NEW S, NEW s, NEW rest, SettleCards(g, S, s, rest),
         RunFits([rest EXCEPT !.done = run[g].done + Cardinality(S)], gen[g].total),
         run[g].before + (run[g].done + Cardinality(S)) \in 0 .. gen[g].total
  PROVE  /\ GensOK' /\ StartsOK' /\ CountsOK'
         /\ gen'[g].processed <= gen'[g].total
         /\ \A h \in Gens \ {g} : gen'[h] = gen[h] /\ run'[h] = run[h]
         /\ gen'[g] = [gen[g] EXCEPT !.processed = run[g].before + (run[g].done + Cardinality(S))]
         /\ run'[g] = [rest EXCEPT !.done = run[g].done + Cardinality(S)]
<1> DEFINE x == [rest EXCEPT !.done = run[g].done + Cardinality(S)]
           n == run[g].before + (run[g].done + Cardinality(S))
<1>1. /\ run' = [run EXCEPT ![g] = x] /\ gen' = [gen EXCEPT ![g].processed = n]
      /\ UNCHANGED <<direct, start, resets, deletes, crashes>>
  BY DEF SettleCards
<1>2. gen[g].total \in 0 .. MaxCards /\ RunFits(x, gen[g].total)
      /\ n \in 0 .. gen[g].total
  BY DEF Base, GensOK, GenRecord
<1> HIDE DEF x, n
<1>3. n \in 0 .. MaxCards /\ n <= gen[g].total
  BY <1>2, McqConstantsAreNumbers
<1>4. gen' \in [Gens -> GenRecord] /\ \A h \in Gens : gen'[h].total = gen[h].total
      /\ gen'[g].processed = n
  BY <1>1, <1>3, ColumnsChange DEF Base
<1>5. GensOK'
  BY <1>1, <1>2, <1>4, OneRunChanges DEF Base
<1>6. /\ \A h \in Gens \ {g} : gen'[h] = gen[h] /\ run'[h] = run[h]
      /\ gen'[g] = [gen[g] EXCEPT !.processed = n] /\ run'[g] = x
  BY <1>1 DEF Base, GensOK
<1> QED BY <1>1, <1>3, <1>4, <1>5, <1>6 DEF Base, StartsOK, CountsOK, x, n

\* What a batch or a single does to the run, the generation and the items.
LEMMA BatchSucceedsFits ==
  ASSUME Base, NEW g \in Gens, BatchSucceeds(g)
  PROVE  /\ Base' /\ gen'[g].processed <= gen'[g].total
         /\ \A h \in Gens \ {g} : gen'[h] = gen[h] /\ run'[h] = run[h]
         /\ gen'[g].status = gen[g].status /\ gen'[g].old = gen[g].old
         /\ run'[g].pc = "batch" /\ run'[g].singles = {}
         /\ run'[g].left = run[g].left \ Batch(run[g].left)
<1> DEFINE S == Batch(run[g].left)
           rest == [run[g] EXCEPT !.left = @ \ S]
<1>1. /\ run[g].pc = "batch" /\ SettleCards(g, S, "completed", rest)
      /\ made' \in {made, Saved(S)}
  BY DEF BatchSucceeds
<1>2. RunFits(run[g], gen[g].total) /\ gen[g].total \in 0 .. MaxCards
  BY DEF Base, GensOK, GenRecord
<1>3. /\ RunFits([rest EXCEPT !.done = run[g].done + Cardinality(S)], gen[g].total)
      /\ run[g].before + (run[g].done + Cardinality(S)) \in 0 .. gen[g].total
  BY <1>1, <1>2, BatchSettledFits
<1>4. rest.pc = "batch" /\ rest.left = run[g].left \ S /\ rest.singles = {}
      /\ rest \in RunRecord
  BY <1>1, <1>2 DEF RunFits, RunRecord
<1> HIDE DEF S, rest
<1>5. /\ GensOK' /\ StartsOK' /\ CountsOK'
      /\ gen'[g].processed <= gen'[g].total
      /\ \A h \in Gens \ {g} : gen'[h] = gen[h] /\ run'[h] = run[h]
      /\ gen'[g] = [gen[g] EXCEPT !.processed = run[g].before + (run[g].done + Cardinality(S))]
      /\ run'[g] = [rest EXCEPT !.done = run[g].done + Cardinality(S)]
  BY <1>1, <1>3, SettleKeepsGens
<1>6. gen'[g].status = gen[g].status /\ gen'[g].old = gen[g].old
  BY <1>5 DEF Base, GensOK, GenRecord
<1>7. run'[g].pc = rest.pc /\ run'[g].left = rest.left /\ run'[g].singles = rest.singles
  BY <1>4, <1>5 DEF RunRecord
<1>8. item' = Mark(S, "completed") /\ UNCHANGED direct
  BY <1>1 DEF SettleCards
<1>9. ItemsOK'
  BY <1>1, <1>8, MarkedIsItem, SavedIsMade DEF Base, ItemsOK
<1> QED BY <1>4, <1>5, <1>6, <1>7, <1>9 DEF Base, S

LEMMA SingleFits ==
  ASSUME Base, NEW g \in Gens, SingleSucceeds(g) \/ SingleFails(g)
  PROVE  /\ Base' /\ gen'[g].processed <= gen'[g].total
         /\ \A h \in Gens \ {g} : gen'[h] = gen[h] /\ run'[h] = run[h]
         /\ gen'[g].status = gen[g].status /\ gen'[g].old = gen[g].old
         /\ run'[g].pc \in {"batch", "single"} /\ run'[g].left = run[g].left
         /\ run'[g].singles = run[g].singles \ {Lowest(run[g].singles)}
<1> DEFINE c == Lowest(run[g].singles)
           rest == AfterSingle(g, c)
<1>1. PICK s \in {"completed", "failed"} :
        run[g].pc = "single" /\ SettleCards(g, {c}, s, rest) /\ made' \in {made, Saved({c})}
  BY DEF SingleSucceeds, SingleFails
<1>2. RunFits(run[g], gen[g].total) /\ gen[g].total \in 0 .. MaxCards
  BY DEF Base, GensOK, GenRecord
<1>3. /\ RunFits([rest EXCEPT !.done = run[g].done + Cardinality({c})], gen[g].total)
      /\ run[g].before + (run[g].done + Cardinality({c})) \in 0 .. gen[g].total
  BY <1>1, <1>2, SingleSettledFits
<1>4. rest.pc \in {"batch", "single"} /\ rest.left = run[g].left
      /\ rest.singles = run[g].singles \ {c} /\ rest \in RunRecord
  BY <1>1, <1>2 DEF RunFits, RunRecord, AfterSingle
<1> HIDE DEF c, rest
<1>5. /\ GensOK' /\ StartsOK' /\ CountsOK'
      /\ gen'[g].processed <= gen'[g].total
      /\ \A h \in Gens \ {g} : gen'[h] = gen[h] /\ run'[h] = run[h]
      /\ gen'[g] = [gen[g] EXCEPT !.processed = run[g].before + (run[g].done + Cardinality({c}))]
      /\ run'[g] = [rest EXCEPT !.done = run[g].done + Cardinality({c})]
  BY <1>1, <1>3, SettleKeepsGens
<1>6. gen'[g].status = gen[g].status /\ gen'[g].old = gen[g].old
  BY <1>5 DEF Base, GensOK, GenRecord
<1>7. run'[g].pc = rest.pc /\ run'[g].left = rest.left /\ run'[g].singles = rest.singles
  BY <1>4, <1>5 DEF RunRecord
<1>8. item' = Mark({c}, s) /\ UNCHANGED direct
  BY <1>1 DEF SettleCards
<1>9. ItemsOK'
  BY <1>1, <1>8, MarkedIsItem, SavedIsMade DEF Base, ItemsOK
<1> QED BY <1>4, <1>5, <1>6, <1>7, <1>9 DEF Base, c

LEMMA BatchFailsKeepsBase ==
  ASSUME Base, NEW g \in Gens, BatchFails(g)
  PROVE  Base'
<1> DEFINE S == Batch(run[g].left)
           x == [run[g] EXCEPT !.pc = "single", !.left = @ \ S, !.singles = S]
<1>1. /\ run[g].pc = "batch" /\ run[g].left # {}
      /\ UNCHANGED <<item, made, direct, gen, start, resets, deletes, crashes>>
  BY DEF BatchFails
<1>2. run' = [run EXCEPT ![g] = x]
  BY DEF BatchFails, Base, GensOK, RunRecord
<1>3. RunFits(run[g], gen[g].total) /\ gen[g].total \in 0 .. MaxCards
  BY DEF Base, GensOK, GenRecord
<1>4. RunFits(x, gen[g].total)
  BY <1>1, <1>3, BatchFailedFits
<1> HIDE DEF x
<1>5. GensOK'
  BY <1>1, <1>2, <1>4, OneRunChanges DEF Base, GensOK
<1> QED BY <1>1, <1>5 DEF Base, ItemsOK, StartsOK, CountsOK

LEMMA RunStepKeepsBase ==
  ASSUME Base, NEW g \in Gens, RunStep(g)
  PROVE  Base'
<1>1. CASE Load(g)
  BY <1>1, LoadKeepsBase
<1>2. CASE GiveUp(g) \/ LoseCard(g) \/ Complete(g)
  BY <1>2, EndKeepsBase DEF GiveUp, LoseCard, Complete
<1>3. CASE BatchSucceeds(g) \/ SingleSucceeds(g) \/ SingleFails(g)
  BY <1>3, BatchSucceedsFits, SingleFits
<1>4. CASE BatchFails(g)
  BY <1>4, BatchFailsKeepsBase
<1> QED BY <1>1, <1>2, <1>3, <1>4 DEF RunStep

LEMMA TurnOldKeepsBase ==
  ASSUME Base, NEW g \in Gens, TurnOld(g)
  PROVE  Base'
<1>1. gen' = [gen EXCEPT ![g].old = TRUE]
      /\ UNCHANGED <<item, made, direct, run, start, resets, deletes, crashes>>
  BY DEF TurnOld
<1>2. gen' \in [Gens -> GenRecord] /\ \A h \in Gens : gen'[h].total = gen[h].total
  BY <1>1 DEF Base, GensOK, GenRecord
<1>3. GensOK'
  BY <1>1, <1>2, NoRunChanges DEF Base
<1> QED BY <1>1, <1>3 DEF Base, ItemsOK, StartsOK, CountsOK

LEMMA CrashKeepsBase ==
  ASSUME Base, Crash
  PROVE  Base'
<1>1. /\ crashes < MaxCrashes /\ crashes' = crashes + 1
      /\ run' = [g \in Gens |-> NoRun] /\ start' = [s \in Starters |-> NoStart]
      /\ UNCHANGED <<item, made, direct, gen, resets, deletes>>
  BY DEF Crash
<1>2. GensOK'
  <2>1. \A g \in Gens : RunFits(run'[g], gen'[g].total)
    BY <1>1, NoRunFits
  <2>2. \A g \in Gens : RunFits(run[g], gen[g].total)'
    BY <2>1 DEF RunFits, RunRecord, Sum
  <2>3. NoRun \in RunRecord
    BY NoRunFits DEF RunFits
  <2> QED BY <1>1, <2>2, <2>3 DEF Base, GensOK, GenRecord, RunRecord
<1>3. StartsOK'
  BY <1>1 DEF StartsOK, NoStart
<1>4. CountsOK'
  BY <1>1, McqConstantsAreNumbers DEF Base, CountsOK
<1> QED BY <1>1, <1>2, <1>3, <1>4 DEF Base, ItemsOK

LEMMA NextKeepsBase == Base /\ [McqNext]_mcqVars => Base'
<1> SUFFICES ASSUME Base, [McqNext]_mcqVars PROVE Base'
  OBVIOUS
<1>1. CASE UNCHANGED mcqVars
  <2>1. GensOK'
    BY <1>1, NoRunChanges DEF Base, GensOK, mcqVars
  <2> QED BY <1>1, <2>1 DEF Base, ItemsOK, StartsOK, CountsOK, mcqVars
<1>2. CASE AddCard \/ GenerateDirectly \/ DeleteMcqs \/ DeleteCard
  BY <1>2, ItemStepsKeepBase
<1>3. CASE Crash
  BY <1>3, CrashKeepsBase
<1>4. ASSUME NEW s \in Starters, Check(s) \/ StartStep(s) PROVE Base'
  BY <1>4, CheckKeepsBase, AddItemsKeepsBase, AddGenerationKeepsBase DEF StartStep
<1>5. ASSUME NEW g \in Gens, RunStep(g) \/ TurnOld(g) PROVE Base'
  BY <1>5, RunStepKeepsBase, TurnOldKeepsBase
<1> QED BY <1>1, <1>2, <1>3, <1>4, <1>5 DEF McqNext

LEMMA BaseHolds == McqSpec => []Base
BY InitEstablishesBase, NextKeepsBase, PTL DEF McqSpec

\* Every row and every thread holds values of its columns and variables, for
\* any number of requests and runs at a time: no counter leaves 0 .. MaxCards,
\* though runs count over each other's work.
THEOREM McqTypeCorrect == McqSpec => []McqTypeOK
BY BaseHolds, BaseGivesTypes, PTL

-----------------------------------------------------------------------------
(***************************************************************************)
(* One request at a time, and no run that is older than ten minutes.       *)
(***************************************************************************)
OneAtATime == (\A s, t \in Starters : s = t) /\ ~Slow

\* A run belongs to the one generation that is in progress; while a request is
\* being answered there is none, and the cards it has seen include those that
\* are completed.
OneRun ==
  /\ \A g \in Gens : run[g].pc # "off" => gen[g].status = "in_progress" /\ ~gen[g].old
  /\ \A g, h \in Gens :
       gen[g].status = "in_progress" /\ gen[h].status = "in_progress" => g = h
  /\ \A s \in Starters : start[s].pc # "idle" =>
       /\ \A g \in Gens : gen[g].status # "in_progress"
       /\ InStatus("completed") \subseteq start[s].seen

\* A card that is not completed, or that a run has before it, has no more MCQs
\* than deletions account for.
Unmade ==
  /\ \A c \in Cards : item[c] \notin {"completed", "gone"} => made[c] <= resets
  /\ \A g \in Gens : \A c \in run[g].left \cup run[g].singles : made[c] <= resets

Solo == Base /\ OneRun /\ ProgressWithinTotal /\ Unmade /\ EachCardOnce

\* Other runs are off, and have nothing before them.
LEMMA OthersAreOff ==
  ASSUME Base, OneRun, NEW g \in Gens, run[g].pc # "off", NEW h \in Gens \ {g}
  PROVE  /\ gen[h].status # "in_progress"
         /\ run[h].pc = "off" /\ run[h].left = {} /\ run[h].singles = {}
<1>1. gen[h].status # "in_progress" /\ run[h].pc = "off"
  BY DEF OneRun
<1>2. RunFits(run[h], gen[h].total)
  BY DEF Base, GensOK
<1> QED BY <1>1, <1>2 DEF RunFits

LEMMA NumbersOfSolo ==
  ASSUME Base
  PROVE  /\ resets \in Nat /\ \A c \in Cards : made[c] \in Nat
         /\ \A g \in Gens : gen[g].processed \in Nat /\ gen[g].total \in Nat
         /\ \A g \in Gens : run[g].left \subseteq Cards /\ run[g].singles \subseteq Cards
BY McqConstantsAreNumbers DEF Base, CountsOK, ItemsOK, GensOK, GenRecord, RunRecord

\* Saving MCQs for cards a run has before it.
LEMMA SavedOnce ==
  ASSUME Base, Unmade, EachCardOnce, NEW g \in Gens, NEW S,
         S \subseteq run[g].left \cup run[g].singles, made' \in {made, Saved(S)},
         UNCHANGED resets
  PROVE  /\ EachCardOnce'
         /\ \A c \in Cards \ S : made'[c] = made[c]
<1>1. \A c \in Cards \ S : made'[c] = made[c]
  BY DEF Saved, Base, ItemsOK
<1>2. \A c \in Cards : made'[c] = made[c] \/ (c \in S /\ made'[c] = made[c] + 1)
  BY DEF Saved, Base, ItemsOK
<1>3. \A c \in S : made[c] <= resets
  BY DEF Unmade
<1>4. \A c \in Cards : made'[c] <= 1 + resets
  BY <1>2, <1>3, NumbersOfSolo DEF EachCardOnce
<1> QED BY <1>1, <1>4 DEF EachCardOnce

LEMMA ItemStepsKeepSolo ==
  ASSUME Solo, AddCard \/ GenerateDirectly \/ DeleteMcqs \/ DeleteCard
  PROVE  OneRun' /\ ProgressWithinTotal' /\ Unmade' /\ EachCardOnce'
<1> USE DEF Solo
<1>1. UNCHANGED <<gen, run, start>>
  BY DEF AddCard, GenerateDirectly, DeleteMcqs, DeleteCard
<1>2. ProgressWithinTotal'
  BY <1>1 DEF ProgressWithinTotal
<1>3. \A c \in Cards : item'[c] = "completed" => item[c] = "completed"
  BY DEF AddCard, GenerateDirectly, DeleteMcqs, DeleteCard, Mark, Base, ItemsOK
<1>4. OneRun'
  BY <1>1, <1>3 DEF OneRun, InStatus
<1>5. CASE AddCard \/ GenerateDirectly \/ DeleteCard
  <2>1. UNCHANGED <<made, resets>>
    BY <1>5 DEF AddCard, GenerateDirectly, DeleteCard
  <2>2. \A c \in Cards : item'[c] \notin {"completed", "gone"}
          => item[c] \notin {"completed", "gone"}
    <3>1. CASE AddCard
      <4>1. InStatus("absent") \subseteq Cards /\ InStatus("absent") # {}
        BY <3>1 DEF AddCard, InStatus
      <4>2. Lowest(InStatus("absent")) \in InStatus("absent")
        BY <4>1, LowestIsIn
      <4> QED BY <3>1, <4>2 DEF AddCard, Mark, InStatus, Base, ItemsOK
    <3>2. CASE GenerateDirectly \/ DeleteCard
      BY <3>2 DEF GenerateDirectly, DeleteCard, Mark, Base, ItemsOK
    <3> QED BY <1>5, <3>1, <3>2
  <2> QED BY <1>1, <1>2, <1>4, <2>1, <2>2 DEF Unmade, EachCardOnce
<1>6. CASE DeleteMcqs
  <2>1. resets' = resets + 1
    BY <1>6 DEF DeleteMcqs
  <2>2. \A c \in Cards : made'[c] \in {0, made[c]}
    BY <1>6 DEF DeleteMcqs
  <2>3. \A c \in Cards : made'[c] <= resets' /\ made'[c] <= 1 + resets'
    BY <2>1, <2>2, NumbersOfSolo DEF EachCardOnce
  <2> QED BY <1>1, <1>2, <1>4, <2>3, NumbersOfSolo DEF Unmade, EachCardOnce
<1> QED BY <1>5, <1>6

LEMMA CheckKeepsSolo ==
  ASSUME OneAtATime, Solo, NEW s \in Starters, Check(s)
  PROVE  OneRun' /\ ProgressWithinTotal' /\ Unmade' /\ EachCardOnce'
<1> USE DEF Solo
<1>1. /\ UNCHANGED <<item, made, direct, run, resets, deletes, crashes>>
      /\ start' = [start EXCEPT ![s] = [pc |-> "items", seen |-> Deck]]
  BY DEF Check
<1>2. Unmade' /\ EachCardOnce'
  BY <1>1 DEF Unmade, EachCardOnce
<1>3. start'[s].seen = Deck /\ InStatus("completed") \subseteq Deck
  BY <1>1 DEF Base, StartsOK, InStatus, Deck
<1>4. \A t \in Starters : t = s
  BY DEF OneAtATime
<1>5. CASE InProgress = {} /\ UNCHANGED gen
  <2>1. \A g \in Gens : gen'[g].status # "in_progress"
    BY <1>5 DEF InProgress
  <2>2. OneRun'
    BY <1>1, <1>3, <1>4, <1>5, <2>1 DEF OneRun, InStatus
  <2> QED BY <1>2, <1>5, <2>2 DEF ProgressWithinTotal
<1>6. ASSUME NEW g \in InProgress, Replaceable(g), gen' = [gen EXCEPT ![g].status = "failed"]
      PROVE  OneRun' /\ ProgressWithinTotal'
  <2>1. g \in Gens /\ gen[g].status = "in_progress" /\ gen[g].old
    BY <1>6 DEF InProgress, Replaceable
  <2>2. run[g].pc = "off"
    BY <2>1 DEF OneRun
  <2>3. /\ gen'[g].status = "failed" /\ \A h \in Gens \ {g} : gen'[h] = gen[h]
        /\ gen'[g].processed = gen[g].processed /\ gen'[g].total = gen[g].total
    BY <1>6, <2>1 DEF Base, GensOK, GenRecord
  <2>4. \A h \in Gens : gen'[h].status # "in_progress"
    BY <2>1, <2>3 DEF OneRun
  <2>5. \A h \in Gens : run[h].pc = "off"
    BY <2>1, <2>2 DEF OneRun
  <2>6. OneRun'
    BY <1>1, <1>3, <1>4, <2>4, <2>5 DEF OneRun, InStatus
  <2>7. ProgressWithinTotal'
    BY <2>3 DEF ProgressWithinTotal
  <2> QED BY <2>6, <2>7
<1> QED BY <1>2, <1>5, <1>6 DEF Check

LEMMA AddItemsKeepsSolo ==
  ASSUME Solo, NEW s \in Starters, AddItems(s)
  PROVE  OneRun' /\ ProgressWithinTotal' /\ Unmade' /\ EachCardOnce'
<1> USE DEF Solo
<1>1. UNCHANGED <<made, direct, gen, run, resets, deletes, crashes>> /\ start[s].pc = "items"
  BY DEF AddItems
<1>2. ProgressWithinTotal' /\ EachCardOnce'
  BY <1>1 DEF ProgressWithinTotal, EachCardOnce
<1>3. /\ \A c \in Cards : item'[c] = "completed" => item[c] = "completed"
      /\ \A c \in Cards : item'[c] \notin {"completed", "gone"}
           => item[c] \notin {"completed", "gone"}
  BY DEF AddItems, Mark, InStatus, Base, ItemsOK
<1>4. Unmade'
  BY <1>1, <1>3 DEF Unmade
<1>5. \A t \in Starters : start'[t].pc # "idle" =>
        start[t].pc # "idle" /\ start'[t].seen = start[t].seen
  BY <1>1 DEF AddItems, NoStart, Base, StartsOK
<1>6. OneRun'
  BY <1>1, <1>3, <1>5 DEF OneRun, InStatus
<1> QED BY <1>2, <1>4, <1>6

LEMMA AddGenerationKeepsSolo ==
  ASSUME OneAtATime, Solo, NEW s \in Starters, AddGeneration(s)
  PROVE  OneRun' /\ ProgressWithinTotal' /\ Unmade' /\ EachCardOnce'
<1> USE DEF Solo
<1>1. UNCHANGED <<item, made, direct, resets, deletes, crashes>>
      /\ start[s].pc = "generation" /\ start' = [start EXCEPT ![s] = NoStart]
  BY DEF AddGeneration
<1> DEFINE added == [status |-> "in_progress", old |-> FALSE,
                     total |-> Cardinality(start[s].seen),
                     processed |-> Cardinality(InStatus("completed"))]
<1>2. PICK g \in Gens : /\ run[g] = NoRun
                        /\ gen' = [gen EXCEPT ![g] = added]
                        /\ run' = [run EXCEPT ![g].pc = "load"]
  BY DEF AddGeneration
<1>3. /\ gen'[g] = added /\ \A h \in Gens \ {g} : gen'[h] = gen[h] /\ run'[h] = run[h]
      /\ run'[g].left = {} /\ run'[g].singles = {}
  BY <1>2 DEF Base, GensOK, NoRun
<1>4. /\ \A h \in Gens : gen[h].status # "in_progress"
      /\ InStatus("completed") \subseteq start[s].seen
  BY <1>1 DEF OneRun
<1>5. \A h \in Gens : run[h].pc = "off"
  BY <1>4 DEF OneRun
<1>6. \A t \in Starters : start'[t].pc = "idle"
  BY <1>1 DEF OneAtATime, NoStart, Base, StartsOK
<1>7. OneRun'
  BY <1>3, <1>4, <1>5, <1>6 DEF OneRun
<1>8. Cardinality(InStatus("completed")) <= Cardinality(start[s].seen)
  BY <1>4, CardsCount DEF Base, StartsOK
<1>9. ProgressWithinTotal'
  BY <1>3, <1>8 DEF ProgressWithinTotal
<1>10. Unmade' /\ EachCardOnce'
  BY <1>1, <1>3 DEF Unmade, EachCardOnce
<1> QED BY <1>7, <1>9, <1>10

\* Steps that end a run, or do not touch one, and write no item.
LEMMA EndKeepsSolo ==
  ASSUME Solo, NEW g \in Gens, GiveUp(g) \/ LoseCard(g) \/ Complete(g)
  PROVE  OneRun' /\ ProgressWithinTotal' /\ Unmade' /\ EachCardOnce'
<1> USE DEF Solo
<1>1. /\ UNCHANGED <<item, made, start, resets>>
      /\ run' = [run EXCEPT ![g] = NoRun]
      /\ \/ gen' = gen
         \/ \E s \in {"failed", "completed"} : gen' = [gen EXCEPT ![g].status = s]
      /\ run[g].pc # "off"
  BY DEF GiveUp, LoseCard, Complete, AskedAbout
<1>2. /\ gen'[g].processed = gen[g].processed /\ gen'[g].total = gen[g].total
      /\ \A h \in Gens \ {g} : gen'[h] = gen[h] /\ run'[h] = run[h]
      /\ run'[g] = NoRun
  BY <1>1 DEF Base, GensOK, GenRecord
<1>3. \A h \in Gens : gen'[h].status = "in_progress" => gen[h].status = "in_progress"
  BY <1>1 DEF Base, GensOK, GenRecord
<1>4. OneRun'
  BY <1>1, <1>2, <1>3 DEF OneRun, NoRun, InStatus
<1>5. ProgressWithinTotal'
  BY <1>2 DEF ProgressWithinTotal
<1>6. Unmade' /\ EachCardOnce'
  BY <1>1, <1>2 DEF Unmade, EachCardOnce, NoRun
<1> QED BY <1>4, <1>5, <1>6

LEMMA LoadKeepsSolo ==
  ASSUME Solo, NEW g \in Gens, Load(g)
  PROVE  OneRun' /\ ProgressWithinTotal' /\ Unmade' /\ EachCardOnce'
<1> USE DEF Solo
<1> DEFINE x == [NoRun EXCEPT !.pc = "batch", !.left = Pending, !.before = Before]
<1>1. /\ UNCHANGED <<item, made, start, resets>> /\ run[g].pc = "load"
      /\ run' = [run EXCEPT ![g] = x]
      /\ gen' = [gen EXCEPT ![g].total = Cardinality(Deck), ![g].processed = Before]
  BY DEF Load
<1>2. /\ \A h \in Gens \ {g} : gen'[h] = gen[h] /\ run'[h] = run[h]
      /\ gen'[g].total = Cardinality(Deck) /\ gen'[g].processed = Before
      /\ gen'[g].status = gen[g].status /\ gen'[g].old = gen[g].old
      /\ run'[g].pc = "batch" /\ run'[g].left = Pending /\ run'[g].singles = {}
  <2> HIDE DEF Before, Pending
  <2> QED BY <1>1 DEF Base, GensOK, GenRecord, NoRun
<1>3. OneRun'
  <2>1. /\ \A h \in Gens : gen'[h].status = gen[h].status
        /\ \A h \in Gens : gen'[h].old = gen[h].old
        /\ \A h \in Gens : run'[h].pc # "off" => run[h].pc # "off"
    <3> HIDE DEF Before, Pending, x
    <3> QED BY <1>1, <1>2
  <2> OneRun
    BY DEF Solo
  <2>2. InStatus("completed")' = InStatus("completed")
    BY <1>1 DEF InStatus
  <2>3. start' = start
    BY <1>1
  <2> HIDE DEF Before, Pending, x
  <2>4. \A h \in Gens : run'[h].pc # "off" => gen'[h].status = "in_progress" /\ ~gen'[h].old
    BY <2>1 DEF OneRun
  <2>5. \A h, k \in Gens :
          gen'[h].status = "in_progress" /\ gen'[k].status = "in_progress" => h = k
    BY <2>1 DEF OneRun
  <2>6. \A s \in Starters : start'[s].pc # "idle" =>
          /\ \A h \in Gens : gen'[h].status # "in_progress"
          /\ InStatus("completed")' \subseteq start'[s].seen
    BY <2>1, <2>2, <2>3 DEF OneRun
  <2> QED BY <2>4, <2>5, <2>6 DEF OneRun
<1>4. Before <= Cardinality(Deck)
  BY LoadedFits
<1>5. ProgressWithinTotal'
  BY <1>2, <1>4 DEF ProgressWithinTotal
<1>6. \A c \in Pending : c \in Cards /\ made[c] <= resets
  BY DEF Pending, InStatus, Unmade
<1>7. Unmade' /\ EachCardOnce'
  BY <1>1, <1>2, <1>6 DEF Unmade, EachCardOnce
<1> QED BY <1>3, <1>5, <1>7

LEMMA BatchFailsKeepsSolo ==
  ASSUME Solo, NEW g \in Gens, BatchFails(g)
  PROVE  OneRun' /\ ProgressWithinTotal' /\ Unmade' /\ EachCardOnce'
<1> USE DEF Solo
<1>1. /\ UNCHANGED <<item, made, gen, start, resets>> /\ run[g].pc = "batch"
      /\ \A h \in Gens \ {g} : run'[h] = run[h]
      /\ run'[g].pc = "single"
      /\ run'[g].left \subseteq run[g].left /\ run'[g].singles = Batch(run[g].left)
  BY DEF BatchFails, Base, GensOK, RunRecord
<1>2. Batch(run[g].left) \subseteq run[g].left
  BY BatchTakesCards, NumbersOfSolo
<1>3. OneRun'
  BY <1>1 DEF OneRun, InStatus
<1>4. Unmade'
  BY <1>1, <1>2 DEF Unmade
<1> QED BY <1>1, <1>3, <1>4 DEF ProgressWithinTotal, EachCardOnce

\* Cards are settled by the one run there is.
LEMMA SettledKeepsSolo ==
  ASSUME Solo, NEW g \in Gens, NEW S, NEW s \in {"completed", "failed"},
         S \subseteq run[g].left \cup run[g].singles,
         run[g].pc # "off", run'[g].pc # "off",
         run'[g].left \cup run'[g].singles \subseteq (run[g].left \cup run[g].singles) \ S,
         \A h \in Gens \ {g} : gen'[h] = gen[h] /\ run'[h] = run[h],
         gen'[g].status = gen[g].status, gen'[g].old = gen[g].old,
         gen'[g].processed <= gen'[g].total,
         item' = Mark(S, s), s = "failed" => made' = made,
         made' \in {made, Saved(S)}, UNCHANGED <<start, resets>>
  PROVE  OneRun' /\ ProgressWithinTotal' /\ Unmade' /\ EachCardOnce'
<1> USE DEF Solo
<1>1. EachCardOnce' /\ \A c \in Cards \ S : made'[c] = made[c]
  BY SavedOnce
<1>2. gen[g].status = "in_progress"
  BY DEF OneRun
<1>3. \A t \in Starters : start'[t].pc = "idle"
  BY <1>2 DEF OneRun
<1>4. OneRun'
  BY <1>3 DEF OneRun
<1>5. ProgressWithinTotal'
  BY DEF ProgressWithinTotal
<1>6. \A c \in Cards : item'[c] \notin {"completed", "gone"} => made'[c] <= resets
  <2> TAKE c \in Cards
  <2>1. CASE c \in S
    BY <2>1 DEF Mark, Unmade
  <2>2. CASE c \notin S
    BY <1>1, <2>2 DEF Mark, Unmade
  <2> QED BY <2>1, <2>2
<1>7. ASSUME NEW h \in Gens, NEW c \in run'[h].left \cup run'[h].singles
      PROVE  made'[c] <= resets
  <2>1. CASE h = g
    <3>1. c \in (run[g].left \cup run[g].singles) \ S /\ c \in Cards
      BY <1>7, <2>1, NumbersOfSolo
    <3> QED BY <1>1, <3>1 DEF Unmade
  <2>2. CASE h # g
    <3>1. run'[h].left = {} /\ run'[h].singles = {}
      BY <2>2, OthersAreOff
    <3> QED BY <1>7, <3>1
  <2> QED BY <2>1, <2>2
<1>8. Unmade'
  BY <1>6, <1>7 DEF Unmade
<1> QED BY <1>1, <1>4, <1>5, <1>8

LEMMA BatchSucceedsKeepsSolo ==
  ASSUME Solo, NEW g \in Gens, BatchSucceeds(g)
  PROVE  OneRun' /\ ProgressWithinTotal' /\ Unmade' /\ EachCardOnce'
<1> DEFINE S == Batch(run[g].left)
<1>1. /\ gen'[g].processed <= gen'[g].total
      /\ \A h \in Gens \ {g} : gen'[h] = gen[h] /\ run'[h] = run[h]
      /\ gen'[g].status = gen[g].status /\ gen'[g].old = gen[g].old
      /\ run'[g].pc = "batch" /\ run'[g].singles = {}
      /\ run'[g].left = run[g].left \ S
  BY BatchSucceedsFits DEF Solo
<1>2. /\ run[g].pc = "batch" /\ item' = Mark(S, "completed")
      /\ made' \in {made, Saved(S)} /\ UNCHANGED <<start, resets>>
  BY DEF BatchSucceeds, SettleCards
<1>3. S \subseteq run[g].left
  BY BatchTakesCards, NumbersOfSolo DEF Solo
<1> HIDE DEF S
<1> QED BY <1>1, <1>2, <1>3, SettledKeepsSolo

LEMMA SingleKeepsSolo ==
  ASSUME Solo, NEW g \in Gens, SingleSucceeds(g) \/ SingleFails(g)
  PROVE  OneRun' /\ ProgressWithinTotal' /\ Unmade' /\ EachCardOnce'
<1> DEFINE c == Lowest(run[g].singles)
<1>1. /\ gen'[g].processed <= gen'[g].total
      /\ \A h \in Gens \ {g} : gen'[h] = gen[h] /\ run'[h] = run[h]
      /\ gen'[g].status = gen[g].status /\ gen'[g].old = gen[g].old
      /\ run'[g].pc \in {"batch", "single"} /\ run'[g].left = run[g].left
      /\ run'[g].singles = run[g].singles \ {c}
  BY SingleFits DEF Solo
<1>2. PICK s \in {"completed", "failed"} :
        /\ run[g].pc = "single" /\ item' = Mark({c}, s)
        /\ made' \in {made, Saved({c})} /\ (s = "failed" => made' = made)
        /\ UNCHANGED <<start, resets>>
  BY DEF SingleSucceeds, SingleFails, SettleCards
<1>3. c \in run[g].singles
  <2>1. run[g].singles \subseteq Cards /\ run[g].singles # {}
    BY <1>2, NumbersOfSolo DEF Solo, Base, GensOK, RunFits
  <2> QED BY <2>1, LowestIsIn
<1>4. c \notin run[g].left
  BY <1>3 DEF Solo, Base, GensOK, RunFits
<1> HIDE DEF c
<1> QED BY <1>1, <1>2, <1>3, <1>4, SettledKeepsSolo

LEMMA TurnOldKeepsSolo ==
  ASSUME OneAtATime, Solo, NEW g \in Gens, TurnOld(g)
  PROVE  OneRun' /\ ProgressWithinTotal' /\ Unmade' /\ EachCardOnce'
<1> USE DEF Solo
<1>1. /\ UNCHANGED <<item, made, run, start, resets>> /\ run[g].pc = "off"
      /\ gen' = [gen EXCEPT ![g].old = TRUE]
  BY DEF TurnOld, OneAtATime
<1>2. \A h \in Gens : /\ gen'[h].status = gen[h].status
                      /\ gen'[h].processed = gen[h].processed
                      /\ gen'[h].total = gen[h].total
                      /\ h # g => gen'[h] = gen[h]
  BY <1>1 DEF Base, GensOK, GenRecord
<1>3. OneRun'
  BY <1>1, <1>2 DEF OneRun, InStatus
<1> QED BY <1>1, <1>2, <1>3 DEF ProgressWithinTotal, Unmade, EachCardOnce

LEMMA CrashKeepsSolo ==
  ASSUME Solo, Crash
  PROVE  OneRun' /\ ProgressWithinTotal' /\ Unmade' /\ EachCardOnce'
BY DEF Solo, Crash, OneRun, ProgressWithinTotal, Unmade, EachCardOnce, NoRun, NoStart

LEMMA InitEstablishesSolo == McqInit => Solo
<1> SUFFICES ASSUME McqInit PROVE Solo
  OBVIOUS
<1>1. Base
  BY InitEstablishesBase
<1>2. OneRun
  BY DEF McqInit, OneRun, NoRun, NoGen, NoStart
<1>3. ProgressWithinTotal
  BY DEF McqInit, ProgressWithinTotal, NoGen
<1>4. Unmade /\ EachCardOnce
  BY DEF McqInit, Unmade, EachCardOnce, NoRun
<1> QED BY <1>1, <1>2, <1>3, <1>4 DEF Solo

LEMMA NextKeepsSolo ==
  ASSUME OneAtATime
  PROVE  Solo /\ [McqNext]_mcqVars => Solo'
<1> SUFFICES ASSUME Solo, [McqNext]_mcqVars
             PROVE  OneRun' /\ ProgressWithinTotal' /\ Unmade' /\ EachCardOnce'
  BY NextKeepsBase DEF Solo
<1>1. CASE UNCHANGED mcqVars
  BY <1>1 DEF mcqVars, Solo, OneRun, ProgressWithinTotal, Unmade, EachCardOnce, InStatus
<1>2. CASE AddCard \/ GenerateDirectly \/ DeleteMcqs \/ DeleteCard
  BY <1>2, ItemStepsKeepSolo
<1>3. CASE Crash
  BY <1>3, CrashKeepsSolo
<1>4. ASSUME NEW s \in Starters, Check(s) \/ StartStep(s)
      PROVE  OneRun' /\ ProgressWithinTotal' /\ Unmade' /\ EachCardOnce'
  BY <1>4, CheckKeepsSolo, AddItemsKeepsSolo, AddGenerationKeepsSolo DEF StartStep
<1>5. ASSUME NEW g \in Gens, TurnOld(g)
      PROVE  OneRun' /\ ProgressWithinTotal' /\ Unmade' /\ EachCardOnce'
  BY <1>5, TurnOldKeepsSolo
<1>6. ASSUME NEW g \in Gens, RunStep(g)
      PROVE  OneRun' /\ ProgressWithinTotal' /\ Unmade' /\ EachCardOnce'
  BY <1>6, EndKeepsSolo, LoadKeepsSolo, BatchFailsKeepsSolo, BatchSucceedsKeepsSolo,
     SingleKeepsSolo DEF RunStep
<1> QED BY <1>1, <1>2, <1>3, <1>4, <1>5, <1>6 DEF McqNext

LEMMA SoloHolds ==
  ASSUME OneAtATime
  PROVE  McqSpec => []Solo
BY InitEstablishesSolo, NextKeepsSolo, PTL DEF McqSpec

\* When requests come one at a time and no run outlives ten minutes, for any
\* deck, batch size, failures, deletions and restarts: the progress a browser
\* shows stays within the total ...
THEOREM SoloProgress ==
  ASSUME OneAtATime
  PROVE  McqSpec => []ProgressWithinTotal
<1>1. Solo => ProgressWithinTotal
  BY DEF Solo
<1> QED BY <1>1, SoloHolds, PTL

\* ... no card gets MCQs more often than deletions of MCQs let it start over ...
THEOREM SoloCardsOnce ==
  ASSUME OneAtATime
  PROVE  McqSpec => []EachCardOnce
<1>1. Solo => EachCardOnce
  BY DEF Solo
<1> QED BY <1>1, SoloHolds, PTL

\* ... and one run at a time works on the deck, under the one generation that
\* is in progress.
THEOREM SoloRuns ==
  ASSUME OneAtATime
  PROVE  McqSpec => [](\A g, h \in Gens : run[g].pc # "off" /\ run[h].pc # "off" => g = h)
<1>1. Solo => \A g, h \in Gens : run[g].pc # "off" /\ run[h].pc # "off" => g = h
  BY DEF Solo, OneRun
<1> QED BY <1>1, SoloHolds, PTL
=============================================================================

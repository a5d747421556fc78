---------------------------- MODULE ChunkPasses ----------------------------
(***************************************************************************)
(* How a file's title and one text chunk of it become a deck's name and    *)
(* cards, app/services/job_worker.py: a request for a title, then rounds   *)
(* of short AI passes, one per extraction mode, run in parallel by the     *)
(* file's mode executor (_generate_chunk_pack, _run_chunk_modes_parallel). *)
(* Each asks the provider through its adapter (app/services/               *)
(* ai_generation.py) under the process-wide cap, and tries again by what   *)
(* the adapter's exception says (_generate_text_with_retry,                *)
(* _generate_pack_with_retry); a pass then counts itself on the file's row *)
(* (_make_pass_progress_recorder).                                         *)
(*                                                                         *)
(* The cards themselves are left out: a reply is what the adapters tell    *)
(* apart, and what an exception says is the phrase the worker looks for    *)
(* in it, "other" if it finds none.                                        *)
(***************************************************************************)
EXTENDS Integers, FiniteSets

CONSTANTS
  Files,          \* the files in work at a time, one chunk each
  Modes,          \* DEFAULT_GENERATION_MODES: the extraction modes
  Providers,      \* the providers an administrator may choose
  Rounds,         \* ai_pass_rounds
  Permits,        \* ai_pass_concurrency
  MaxTransient,   \* MAX_TRANSIENT_RETRIES
  MaxTimeout,     \* MAX_TIMEOUT_RETRIES
  MaxOverloaded,  \* MAX_529_RETRIES
  MaxFormat,      \* MAX_AI_FORMAT_RETRIES
  MaxDeadRounds   \* MAX_CONSECUTIVE_FAILED_ROUNDS

ASSUME ConstantsAssumption ==
  /\ IsFiniteSet(Files) /\ IsFiniteSet(Modes) /\ Modes # {} /\ "title" \notin Modes
  /\ Providers \subseteq {"openai", "minimax", "claude", "deepseek", "opencode"}
  /\ \A n \in {Rounds, Permits, MaxTransient, MaxTimeout, MaxOverloaded,
               MaxFormat, MaxDeadRounds} : n \in Nat \ {0}

VARIABLES
  provider, \* per file: the adapter its job uses
  pass,   \* per file: the request for its title, and per mode the pass of this round
  round,  \* per file: round_index
  dead,   \* per file: consecutive_failed_rounds
  inRow,  \* per file: how many rounds up to now were dead, one after another
  ended,  \* per file: why the chunk's rounds ended
  row     \* per file: passes_completed and passes_failed of its row

vars == <<provider, pass, round, dead, inRow, ended, row>>

Title == "title"
Calls == Modes \cup {Title}

\* What a pass may answer: items with text, though the chunk may have them; or
\* only items whose text is white space, which merge_study_packs drops.
Packs == {"cards", "blank"}
Outcomes == Packs \cup {"empty", "failed"}

Waiting == [pc |-> "waiting", attempt |-> 0, timeouts |-> 0, outcome |-> "none", seen |-> 0]

Column(outcome) == IF outcome \in Packs THEN "completed" ELSE "failed"

Init ==
  /\ provider \in [Files -> Providers]
  /\ pass = [f \in Files |-> [m \in Calls |-> Waiting]]
  /\ round = [f \in Files |-> 1]
  /\ dead = [f \in Files |-> 0]
  /\ inRow = [f \in Files |-> 0]
  /\ ended = [f \in Files |-> "no"]
  /\ row = [f \in Files |-> [completed |-> 0, failed |-> 0]]

-----------------------------------------------------------------------------
(***************************************************************************)
(* The adapters.                                                           *)
(***************************************************************************)
\* Texts: JSON with items, with text or blank; with none that the parser keeps; of
\* another shape than it expects; and no JSON at all.
Texts == Packs \cup {"empty", "odd", "garbled"}

\* Other replies: a choice without text, no choice; a status of 429 or 500 to
\* 504 with an empty body; 529; another status; an error that names a passing
\* trouble (a reset connection, a rate limit); no reply in time.
Replies == Texts \cup {"silent", "nothing", "busy", "overloaded", "refused",
                       "hiccup", "timeout"}

\* What all adapters make of a reply: its text, or what their exception says.
Plain(reply) ==
  CASE reply = "refused" -> "other"
    [] reply = "silent" -> "empty response"
    [] reply = "nothing" -> "no choices"
    [] reply = "overloaded" -> "529 overloaded"
    [] reply = "timeout" -> "timed out"
    [] reply = "busy" -> "error (5xx)"
    [] OTHER -> reply

\* Without output the text is empty; errors are worded by the library.
OpenAI(reply) ==
  CASE reply \in {"silent", "nothing"} -> "garbled"
    [] reply = "busy" -> "other"
    [] OTHER -> Plain(reply)

\* The status is worded "API error: 503".
Minimax(reply) == IF reply = "busy" THEN "other" ELSE Plain(reply)

\* ... and the first item of an empty list is taken.
Claude(reply) == IF reply \in {"busy", "nothing"} THEN "other" ELSE Plain(reply)

\* The status is worded "API error (503)".
DeepSeek(reply) == Plain(reply)
OpenCode(reply) == Plain(reply)

\* generate_text.
Said(p, reply) ==
  CASE p = "openai" -> OpenAI(reply)
    [] p = "minimax" -> Minimax(reply)
    [] p = "claude" -> Claude(reply)
    [] p = "deepseek" -> DeepSeek(reply)
    [] p = "opencode" -> OpenCode(reply)

\* _parse_study_pack_json, for a pass; a title's text is returned as it is.
Parsed(said) ==
  CASE said = "empty" -> "no usable cards"
    [] said = "garbled" -> "invalid JSON"
    [] said = "odd" -> "other"
    [] OTHER -> said

\* What the loop of a call gets: an answer, or what an exception says.
Heard(f, m) ==
  {LET said == Said(provider[f], reply)
   IN IF m = Title THEN said ELSE Parsed(said) : reply \in Replies}

Answers(m) == IF m = Title THEN Texts ELSE Packs

-----------------------------------------------------------------------------
(***************************************************************************)
(* Faults: plausible mistakes in the code, used by no specification.  Each *)
(* property below is known to fail when one of them takes the place of the *)
(* definition it is named after.                                           *)
(***************************************************************************)
\* Every transient failure has the same limit.
FaultyIsTimeout(said) == FALSE

\* The pass starts over when its sleep ends.
FaultyWake(f, m) ==
  /\ pass[f][m].pc = "sleeping"
  /\ pass' = [pass EXCEPT ![f][m] = Waiting]
  /\ UNCHANGED <<provider, round, dead, inRow, ended, row>>

\* One dead round too many, and one too few.
FaultyIsDown(f) == dead[f] + 1 > MaxDeadRounds
HastyIsDown(f) == dead[f] + 2 >= MaxDeadRounds

-----------------------------------------------------------------------------
(***************************************************************************)
(* One pass.                                                               *)
(***************************************************************************)
InFlight == {x \in Files \X Calls : pass[x[1]][x[2]].pc = "calling"}

\* The permit is held for the call only, never while the pass sleeps.  The
\* title comes first.
Call(f, m) ==
  /\ pass[f][m].pc = "waiting" /\ ended[f] = "no"
  /\ m = Title \/ pass[f][Title].pc = "over"
  /\ Cardinality(InFlight) < Permits
  /\ pass' = [pass EXCEPT ![f][m].pc = "calling", ![f][m].attempt = @ + 1]
  /\ UNCHANGED <<provider, round, dead, inRow, ended, row>>

\* What the worker looks for in an exception.
IsTimeout(said) == said = "timed out"
IsTransient(said) == said \in {"error (5xx)", "hiccup"} \/ said = "timed out"
Is529(said) == said = "529 overloaded"
IsFormat(said) ==
  said \in {"invalid JSON", "empty response", "no choices", "no usable cards"}

\* How many attempts, of any kind, there may be when one fails like this.
Limit(said) ==
  CASE IsTransient(said) -> IF IsTimeout(said) THEN MaxTimeout ELSE MaxTransient
    [] Is529(said) -> MaxOverloaded
    [] IsFormat(said) -> MaxFormat
    [] OTHER -> 1

Retries(f, m, said) == pass[f][m].attempt < Limit(said)

Timeouts(f, m, said) == pass[f][m].timeouts + (IF said = "timed out" THEN 1 ELSE 0)

\* An attempt fails and another will follow.
TryLater(f, m) ==
  /\ pass[f][m].pc = "calling"
  /\ \E said \in Heard(f, m) \ Answers(m) :
       /\ Retries(f, m, said)
       /\ pass' = [pass EXCEPT ![f][m].pc = "sleeping",
                               ![f][m].timeouts = Timeouts(f, m, said)]
  /\ UNCHANGED <<provider, round, dead, inRow, ended, row>>

Wake(f, m) ==
  /\ pass[f][m].pc = "sleeping"
  /\ pass' = [pass EXCEPT ![f][m].pc = "waiting"]
  /\ UNCHANGED <<provider, round, dead, inRow, ended, row>>

\* The pass ends with a pack, or with the failure of its last attempt.
Settle(f, m) ==
  /\ pass[f][m].pc = "calling"
  /\ \E said \in Heard(f, m) :
       /\ said \in Packs \/ ~Retries(f, m, said)
       /\ pass' = [pass EXCEPT ![f][m] =
            [Waiting EXCEPT !.pc = "report", !.timeouts = Timeouts(f, m, said),
                            !.outcome = IF said \in Packs THEN said
                                        ELSE IF said = "no usable cards" THEN "empty"
                                        ELSE "failed"]]
  /\ UNCHANGED <<provider, round, dead, inRow, ended, row>>

\* The title's call ends.  Without a title in the answer, one is taken from the
\* document; if there is none the file fails.
SettleTitle(f) ==
  /\ pass[f][Title].pc = "calling"
  /\ \E said \in Heard(f, Title) :
       /\ said \in Texts \/ ~Retries(f, Title, said)
       /\ pass' = [pass EXCEPT ![f][Title] =
            [Waiting EXCEPT !.pc = "over", !.timeouts = Timeouts(f, Title, said)]]
       /\ \/ UNCHANGED ended
          \/ said \notin Packs /\ ended' = [ended EXCEPT ![f] = "untitled"]
  /\ UNCHANGED <<provider, round, dead, inRow, row>>

\* The recorder's session loads the row ...
ReadRow(f, m) ==
  /\ pass[f][m].pc = "report"
  /\ pass' = [pass EXCEPT ![f][m].pc = "count",
                          ![f][m].seen = row[f][Column(pass[f][m].outcome)]]
  /\ UNCHANGED <<provider, round, dead, inRow, ended, row>>

\* ... and commits one more than it read.
WriteRow(f, m) ==
  /\ pass[f][m].pc = "count"
  /\ row' = [row EXCEPT ![f][Column(pass[f][m].outcome)] = pass[f][m].seen + 1]
  /\ pass' = [pass EXCEPT ![f][m].pc = "over", ![f][m].seen = 0]
  /\ UNCHANGED <<provider, round, dead, inRow, ended>>

-----------------------------------------------------------------------------
(***************************************************************************)
(* One round.                                                              *)
(***************************************************************************)
RoundOver(f) == ended[f] = "no" /\ \A m \in Modes : pass[f][m].pc = "over"

Got(f, outcomes) == \E m \in Modes : pass[f][m].outcome \in outcomes
IsDead(f) == ~Got(f, Packs)

\* Some pass answered, and nothing of the answers is left.  What the chunk had
\* before is not looked at.
IsExhausted(f) == Got(f, {"blank"}) /\ ~Got(f, {"cards"})

\* With this dead round the provider counts as down.
IsDown(f) == dead[f] + 1 >= MaxDeadRounds

NextRound(f) ==
  IF round[f] < Rounds
    THEN /\ round' = [round EXCEPT ![f] = @ + 1]
         /\ pass' = [pass EXCEPT ![f] =
                      [m \in Calls |-> IF m = Title THEN pass[f][m] ELSE Waiting]]
         /\ UNCHANGED ended
    ELSE /\ ended' = [ended EXCEPT ![f] = "covered"]
         /\ UNCHANGED <<provider, round, pass>>

End(f, why) == ended' = [ended EXCEPT ![f] = why] /\ UNCHANGED <<provider, round, pass>>

\* A round that adds cards leaves the count of dead rounds as it is.
KeepCards(f) ==
  /\ RoundOver(f)
  /\ ~IsDead(f) /\ ~IsExhausted(f)
  /\ NextRound(f)
  /\ inRow' = [inRow EXCEPT ![f] = 0]
  /\ UNCHANGED <<provider, dead, row>>

StopEarly(f) ==
  /\ RoundOver(f)
  /\ ~IsDead(f) /\ IsExhausted(f)
  /\ End(f, "exhausted")
  /\ dead' = [dead EXCEPT ![f] = 0]
  /\ inRow' = [inRow EXCEPT ![f] = 0]
  /\ UNCHANGED <<provider, row>>

DeadRound(f) ==
  /\ RoundOver(f)
  /\ IsDead(f)
  /\ dead' = [dead EXCEPT ![f] = @ + 1]
  /\ inRow' = [inRow EXCEPT ![f] = @ + 1]
  /\ IF IsDown(f) THEN End(f, "abandoned") ELSE NextRound(f)
  /\ UNCHANGED <<provider, row>>

PassStep(f, m) ==
  \/ Call(f, m) \/ TryLater(f, m) \/ Wake(f, m)
  \/ m = Title /\ SettleTitle(f)
  \/ m # Title /\ (Settle(f, m) \/ ReadRow(f, m) \/ WriteRow(f, m))

RoundStep(f) == KeepCards(f) \/ StopEarly(f) \/ DeadRound(f)

Next == \E f \in Files : RoundStep(f) \/ \E m \in Calls : PassStep(f, m)

Spec == Init /\ [][Next]_vars

\* Requests time out, sleeps end and the threads are scheduled.
FairSpec ==
  /\ Spec
  /\ \A f \in Files : WF_vars(RoundStep(f)) /\ \A m \in Calls : WF_vars(PassStep(f, m))

-----------------------------------------------------------------------------
(***************************************************************************)
(* Properties.                                                             *)
(***************************************************************************)
\* The counters stay within the rounds and attempts the settings allow.
TypeOK ==
  /\ provider \in [Files -> Providers]
  /\ pass \in [Files -> [Calls ->
       [pc : {"waiting", "calling", "sleeping", "report", "count", "over"},
        attempt : 0 .. MaxTransient + MaxTimeout + MaxOverloaded + MaxFormat,
        timeouts : Nat, outcome : Outcomes \cup {"none"},
        seen : 0 .. Rounds * Cardinality(Modes)]]]
  /\ round \in [Files -> 1 .. Rounds]
  /\ dead \in [Files -> 0 .. MaxDeadRounds]
  /\ inRow \in [Files -> 0 .. Rounds]
  /\ ended \in [Files -> {"no", "untitled", "covered", "exhausted", "abandoned"}]
  /\ row \in [Files -> [completed : 0 .. Rounds * Cardinality(Modes),
                        failed : 0 .. Rounds * Cardinality(Modes)]]

\* However its attempts fail, a pass does not wait for more time-outs than
\* MAX_TIMEOUT_RETRIES: the limit of a kind of failure counts attempts of
\* every kind.
TimeoutsAreFew == \A f \in Files, m \in Calls : pass[f][m].timeouts <= MaxTimeout

\* Rounds that are left are given up only when two dead ones came in a row.
OnlyDeadProviderIsAbandoned ==
  \A f \in Files : ended[f] = "abandoned" /\ round[f] < Rounds => inRow[f] >= MaxDeadRounds

\* An exhausted chunk does not burn further provider calls: when every pass of
\* a round ends with an answer that holds nothing usable, no other round begins.
\* (The code does not keep this: README 3.3.)
ExhaustedChunkStops ==
  [][\A f \in Files :
       RoundOver(f) /\ (\A m \in Modes : pass[f][m].outcome \in {"empty", "blank"})
         => round'[f] = round[f]]_vars

\* A provider that is busy is asked again, whichever it is: "True for provider
\* hiccups that a retry usually clears".
\* (The code does not keep this: README 3.3.)
BusyIsRetried == \A p \in Providers : IsTransient(Parsed(Said(p, "busy")))

\* What the jobs page shows as passes done and failed are the passes there were.
\* (The code does not keep this: README 3.3.)
PassesAreCounted ==
  \A f \in Files : ended[f] \notin {"no", "untitled"} =>
    row[f].completed + row[f].failed = round[f] * Cardinality(Modes)

\* Whatever the provider answers, the title's request and the chunk's rounds come to an end: a pass
\* waits for a permit only as long as others are in flight, and none tries for ever.
ChunkEnds == \A f \in Files : <>(ended[f] # "no")

=============================================================================

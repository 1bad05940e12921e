------------------------------- MODULE Ladder -------------------------------
(***************************************************************************)
(* The summarizer ladder (summarizer.rs) and the health table it shares     *)
(* (store.rs, summarizer_health): which CLI a prompt goes to, on which      *)
(* model, what an answer says about the CLI, and when one is left alone. A  *)
(* run looks for newer models, makes a ladder and calls it again and again; *)
(* a search makes one of its own for an advisory call, whose outcome is     *)
(* recorded nowhere. Runs hold the run lock, so there is one at a time.     *)
(*                                                                         *)
(* Model 0 of a CLI is its pin, or the model the user named; the others are *)
(* the newer ones of the pin's family, in order. A call's answer is good,   *)
(* JSON of another shape than the prompt asks for ("content"), or anything  *)
(* else ("bad": a banner, an error, a timeout).                             *)
(***************************************************************************)
EXTENDS Naturals, FiniteSets

CONSTANTS
  Specs,      \* SPECS: the CLIs, in order
  Installed,  \* those on PATH
  Families,   \* those whose newer models can be listed
  Overridden, \* those the user named a model for
  Mode,       \* "auto", "off" or the one CLI to use
  MaxModel,   \* newer models a family may have
  Caller,     \* processes that make a ladder
  Advisory,   \* the searches among them
  Threshold,  \* FAILURES_BEFORE_COOLDOWN: 3
  RungsPerCall, \* MAX_RUNGS_PER_CALL: 2
  Sound,      \* CLIs whose model 0 never answers a run badly
  Good        \* newer models that never do, as <<CLI, model>>

Cli   == {Specs[i] : i \in DOMAIN Specs}
Model == 0..MaxModel
Nowhere == "nowhere"

ASSUME LadderAssumption ==
  /\ Installed \subseteq Cli /\ Families \subseteq Cli /\ Overridden \subseteq Cli /\ Sound \subseteq Cli
  /\ Mode \in {"auto", "off"} \cup Cli /\ Nowhere \notin Cli
  /\ MaxModel \in Nat /\ Threshold \in Nat \ {0} /\ RungsPerCall \in Nat \ {0}
  /\ Good \subseteq Cli \X (Model \ {0})
  /\ Advisory \subseteq Caller /\ Cardinality(Caller \ Advisory) <= 1

VARIABLES
  failures, cooling, \* per CLI: failures in a row, and cooldown_until lies ahead
  found, looked,     \* per CLI: the model last found, and less than a day ago
  mark,              \* per CLI: the model marked as failed within the week
  where,             \* the step each caller is at
  asking,            \* CLIs a run still looks newer models up for
  newest, fellBack,  \* per caller: its Discovered, and its fell_back
  left, preferred,   \* per caller: CLIs still to try, and which of them first
  tries,             \* per caller: rungs it has used
  cli, model         \* per caller: what it is calling

table  == <<failures, cooling>>
lookup == <<found, looked, mark>>
aiming == <<left, preferred, tries, cli, model>>
ladderVars == <<table, lookup, where, asking, newest, fellBack, aiming>>

LadderInit ==
  /\ failures = [c \in Cli |-> 0] /\ cooling = [c \in Cli |-> FALSE]
  /\ found = [c \in Cli |-> 0] /\ looked = [c \in Cli |-> FALSE] /\ mark = [c \in Cli |-> 0]
  /\ where = [p \in Caller |-> "idle"]
  /\ asking = {}
  /\ newest = [p \in Caller |-> [c \in Cli |-> 0]] /\ fellBack = [p \in Caller |-> {}]
  /\ left = [p \in Caller |-> {}] /\ preferred = [p \in Caller |-> Nowhere] /\ tries = [p \in Caller |-> 0]
  /\ cli = [p \in Caller |-> Nowhere] /\ model = [p \in Caller |-> 0]

Goes(p, from, to) == where[p] = from /\ where' = [where EXCEPT ![p] = to]

(* ----------------------- newer models, refresh_models ------------------- *)

Starts(p) ==
  /\ p \notin Advisory /\ Goes(p, "idle", "refresh")
  /\ asking' = {c \in Families \cap Installed : ~looked[c]}
  /\ UNCHANGED <<table, lookup, newest, fellBack, aiming>>

\* A lookup that fails leaves the pick and the date alone.
LookupFails(p, c) ==
  /\ where[p] = "refresh" /\ c \in asking
  /\ asking' = asking \ {c}
  /\ UNCHANGED <<table, lookup, where, newest, fellBack, aiming>>

\* The highest listed above the pin, or none; then the date.
Picks(p, c) ==
  /\ c \in asking /\ Goes(p, "refresh", "date")
  /\ \E m \in Model : found' = [found EXCEPT ![c] = m]
  /\ cli' = [cli EXCEPT ![p] = c]
  /\ UNCHANGED <<table, looked, mark, asking, newest, fellBack, left, preferred, tries, model>>

Dates(p) ==
  /\ Goes(p, "date", "refresh")
  /\ looked' = [looked EXCEPT ![cli[p]] = TRUE]
  /\ asking' = asking \ {cli[p]}
  /\ cli' = [cli EXCEPT ![p] = Nowhere]
  /\ UNCHANGED <<table, found, mark, newest, fellBack, left, preferred, tries, model>>

\* Discovered::read: a mark holds back the model it names, and no other.
Discovered == [c \in Cli |-> IF c \in Families /\ found[c] # mark[c] THEN found[c] ELSE 0]

\* Ladder::new; a search makes one without a lookup.
Makes(p) ==
  /\ IF p \in Advisory THEN Goes(p, "idle", "ready") ELSE Goes(p, "refresh", "ready") /\ asking = {}
  /\ newest' = [newest EXCEPT ![p] = Discovered]
  /\ fellBack' = [fellBack EXCEPT ![p] = {}]
  /\ UNCHANGED <<table, lookup, asking, aiming>>

(* ----------------------------- one call, run_with ------------------------ *)

\* The CLIs a call may go to when the work is that of one of them, or of none.
InReach(p, own) ==
  IF p \in Advisory THEN {own} \cap Cli ELSE IF Mode # "auto" THEN {Mode} ELSE Cli

\* Ladder::order: the CLI whose work it is, then the others in their order.
IsNext(p, c) ==
  /\ c \in left[p]
  /\ c = preferred[p] \/ preferred[p] \notin left[p]
  /\ c = preferred[p] \/ \A i, j \in DOMAIN Specs : Specs[i] = c /\ Specs[j] \in left[p] => i <= j

Calls(p) ==
  /\ Mode # "off"
  /\ Goes(p, "ready", "next")
  /\ \E own \in Cli \cup {Nowhere} :
       /\ left' = [left EXCEPT ![p] = InReach(p, own)]
       /\ preferred' = [preferred EXCEPT ![p] = own]
  /\ tries' = [tries EXCEPT ![p] = 0]
  /\ UNCHANGED <<table, lookup, asking, newest, fellBack, cli, model>>

Rungs(p) == IF p \in Advisory THEN 1 ELSE RungsPerCall

Available(c) == c \in Installed /\ ~cooling[c]

HasNext(p) == tries[p] < Rungs(p) /\ left[p] # {}

PassesOver(p, c) ==
  /\ where[p] = "next" /\ HasNext(p) /\ IsNext(p, c) /\ ~Available(c)
  /\ left' = [left EXCEPT ![p] = @ \ {c}]
  /\ UNCHANGED <<table, lookup, where, asking, newest, fellBack, preferred, tries, cli, model>>

\* model_choice: the user's, else the newest found unless it fell back.
Choice(p, c) == IF c \in Overridden \/ c \in fellBack[p] THEN 0 ELSE newest[p][c]

Tries(p, c) ==
  /\ HasNext(p) /\ IsNext(p, c) /\ Available(c)
  /\ Goes(p, "next", "wait")
  /\ left' = [left EXCEPT ![p] = @ \ {c}]
  /\ tries' = [tries EXCEPT ![p] = @ + 1]
  /\ cli' = [cli EXCEPT ![p] = c]
  /\ model' = [model EXCEPT ![p] = Choice(p, c)]
  /\ UNCHANGED <<table, lookup, asking, newest, fellBack, preferred>>

\* What a CLI may do with a prompt on a model; a search waits a few seconds
\* only, so any call of its may time out.
MayAnswer(p, c, m) ==
  {"good", "content"} \cup
  (IF p \notin Advisory /\ ((m = 0 /\ c \in Sound) \/ <<c, m>> \in Good) THEN {} ELSE {"bad"})

\* A call is over: nothing is kept of it.
Returns(p) ==
  /\ left' = [left EXCEPT ![p] = {}] /\ preferred' = [preferred EXCEPT ![p] = Nowhere]
  /\ tries' = [tries EXCEPT ![p] = 0]
  /\ cli' = [cli EXCEPT ![p] = Nowhere] /\ model' = [model EXCEPT ![p] = 0]

\* An answer of the wrong shape is the prompt's doing: the floor, no mark, and
\* no second rung.
WrongShape(p) ==
  /\ where[p] \in {"wait", "retry"} /\ where' = [where EXCEPT ![p] = "ready"]
  /\ "content" \in MayAnswer(p, cli[p], IF where[p] = "retry" THEN 0 ELSE model[p])
  /\ Returns(p)
  /\ UNCHANGED <<table, lookup, asking, newest, fellBack>>

RungAnswers(p) ==
  /\ Goes(p, "wait", "praise")
  /\ "good" \in MayAnswer(p, cli[p], model[p])
  /\ UNCHANGED <<table, lookup, asking, newest, fellBack, aiming>>

\* Mutant: a found model's failure is the CLI's.
FailsOutright(p) ==
  /\ Goes(p, "wait", "blame")
  /\ "bad" \in MayAnswer(p, cli[p], model[p])
  /\ UNCHANGED <<table, lookup, asking, newest, fellBack, aiming>>

\* A found model is not judged before the pin has had the same prompt.
FailsOn(p) ==
  /\ Goes(p, "wait", IF model[p] # 0 /\ p \notin Advisory THEN "retry" ELSE "blame")
  /\ "bad" \in MayAnswer(p, cli[p], model[p])
  /\ UNCHANGED <<table, lookup, asking, newest, fellBack, aiming>>

\* Mutant: the model found last is marked, whichever was called.
PinAnswersForTheLast(p) ==
  /\ Goes(p, "retry", "praise")
  /\ fellBack' = [fellBack EXCEPT ![p] = @ \cup {cli[p]}]
  /\ mark' = [mark EXCEPT ![cli[p]] = MaxModel]
  /\ UNCHANGED <<table, found, looked, asking, newest, aiming>>

\* The pin answers: the found model is set aside, for this ladder and, if the
\* mark can be written, for a week.
PinAnswers(p) ==
  /\ Goes(p, "retry", "praise")
  /\ fellBack' = [fellBack EXCEPT ![p] = @ \cup {cli[p]}]
  /\ \/ mark' = [mark EXCEPT ![cli[p]] = model[p]]
     \/ UNCHANGED mark
  /\ UNCHANGED <<table, found, looked, asking, newest, aiming>>

PinFails(p) ==
  /\ Goes(p, "retry", "blame")
  /\ "bad" \in MayAnswer(p, cli[p], 0)
  /\ UNCHANGED <<table, lookup, asking, newest, fellBack, aiming>>

\* record_summarizer_success, and the answer is the caller's.
Praises(p) ==
  /\ Goes(p, "praise", "ready") /\ Returns(p)
  /\ IF p \in Advisory THEN UNCHANGED <<table>>
     ELSE /\ failures' = [failures EXCEPT ![cli[p]] = 0]
          /\ cooling' = [cooling EXCEPT ![cli[p]] = FALSE]
  /\ UNCHANGED <<lookup, asking, newest, fellBack>>

\* record_summarizer_failure counts, and only then looks whether the breaker
\* opens. Past the threshold the count says nothing more, and is kept there.
Counts(p) ==
  /\ IF p \in Advisory THEN Goes(p, "blame", "next") /\ UNCHANGED failures
     ELSE /\ Goes(p, "blame", "counted")
          /\ failures' = [failures EXCEPT ![cli[p]] = IF @ = Threshold THEN @ ELSE @ + 1]
  /\ UNCHANGED <<cooling, lookup, asking, newest, fellBack, aiming>>

Benches(p) ==
  /\ Goes(p, "counted", "next")
  /\ cooling' = [cooling EXCEPT ![cli[p]] = @ \/ failures[cli[p]] >= Threshold]
  /\ UNCHANGED <<failures, lookup, asking, newest, fellBack, aiming>>

\* A read or write of the health table fails: the call ends with the error, and
\* what it had to say of the CLI is not, or only in part, on record.
TableFails(p) ==
  /\ \/ where[p] = "next" /\ HasNext(p)
     \/ where[p] \in {"praise", "blame", "counted"} /\ p \notin Advisory
  /\ where' = [where EXCEPT ![p] = "ready"]
  /\ Returns(p)
  /\ UNCHANGED <<table, lookup, asking, newest, fellBack>>

\* No rung is left: the floor.
GivesUp(p) ==
  /\ Goes(p, "next", "ready") /\ ~HasNext(p) /\ Returns(p)
  /\ UNCHANGED <<table, lookup, asking, newest, fellBack>>

LeavesLadder(p) ==
  /\ Goes(p, "ready", "idle")
  /\ newest' = [newest EXCEPT ![p] = [c \in Cli |-> 0]]
  /\ fellBack' = [fellBack EXCEPT ![p] = {}]
  /\ UNCHANGED <<table, lookup, asking, aiming>>

\* A process is killed wherever it is.
CallerKilled(p) ==
  /\ where[p] # "idle" /\ where' = [where EXCEPT ![p] = "idle"]
  /\ Returns(p)
  /\ asking' = IF p \in Advisory THEN asking ELSE {}
  /\ newest' = [newest EXCEPT ![p] = [c \in Cli |-> 0]]
  /\ fellBack' = [fellBack EXCEPT ![p] = {}]
  /\ UNCHANGED <<table, lookup>>

\* Half an hour, a day, a week.
CoolsDown(c) ==
  /\ cooling[c]
  /\ cooling' = [cooling EXCEPT ![c] = FALSE]
  /\ UNCHANGED <<failures, lookup, where, asking, newest, fellBack, aiming>>

LookupAges(c) ==
  /\ looked[c] /\ looked' = [looked EXCEPT ![c] = FALSE]
  /\ UNCHANGED <<table, found, mark, where, asking, newest, fellBack, aiming>>

MarkAges(c) ==
  /\ mark[c] # 0 /\ mark' = [mark EXCEPT ![c] = 0]
  /\ UNCHANGED <<table, found, looked, where, asking, newest, fellBack, aiming>>

LadderNext ==
  \/ \E p \in Caller, c \in Cli : LookupFails(p, c) \/ Picks(p, c) \/ PassesOver(p, c) \/ Tries(p, c)
  \/ \E p \in Caller :
       \/ Starts(p) \/ Dates(p) \/ Makes(p) \/ Calls(p)
       \/ WrongShape(p) \/ RungAnswers(p) \/ FailsOn(p) \/ PinAnswers(p) \/ PinFails(p)
       \/ Praises(p) \/ Counts(p) \/ Benches(p) \/ TableFails(p) \/ GivesUp(p)
       \/ LeavesLadder(p) \/ CallerKilled(p)
  \/ \E c \in Cli : CoolsDown(c) \/ LookupAges(c) \/ MarkAges(c)

LadderSpec == LadderInit /\ [][LadderNext]_ladderVars

(* ------------------------------- properties ----------------------------- *)

LadderTypeOK ==
  /\ failures \in [Cli -> 0..Threshold] /\ cooling \in [Cli -> BOOLEAN]
  /\ found \in [Cli -> Model] /\ looked \in [Cli -> BOOLEAN] /\ mark \in [Cli -> Model]
  /\ where \in [Caller -> {"idle", "refresh", "date", "ready", "next", "wait", "retry", "praise", "blame", "counted"}]
  /\ asking \subseteq Cli /\ newest \in [Caller -> [Cli -> Model]] /\ fellBack \in [Caller -> SUBSET Cli]
  /\ left \in [Caller -> SUBSET Cli] /\ preferred \in [Caller -> Cli \cup {Nowhere}] /\ tries \in [Caller -> 0..RungsPerCall]
  /\ cli \in [Caller -> Cli \cup {Nowhere}] /\ model \in [Caller -> Model]

\* A CLI whose tested model never answers a run badly is never charged with a
\* failure and never left alone, whatever newer models are listed for it, however
\* often it is too slow for a search, whatever cannot be recorded and whatever is
\* killed (run_with's retry on the pin, record's advisory case).
SoundVendorsStayInService == \A c \in Sound : failures[c] = 0 /\ ~cooling[c]

\* A newer model that never answers badly is never set aside: neither a prompt
\* it answers in another shape nor another model's failure marks it.
GoodModelsAreNotSetAside == \A c \in Cli : <<c, mark[c]>> \notin Good
=============================================================================

------------------------------- MODULE Lessons -------------------------------
(***************************************************************************)
(* What becomes of the lessons (knowledge pages) a store holds: the         *)
(* one-time cleanup, the daily labels of what it left, the move of old      *)
(* lessons to the machine and the undo of each (clean.rs); the fold of      *)
(* duplicates and the lessons a synthesis adds or withdraws                 *)
(* (consolidate.rs); and a person who forgets or corrects one at any time,  *)
(* under no lock (revise.rs).                                               *)
(*                                                                         *)
(* A lesson is its id, and ids are in the order of their minting. Those     *)
(* with one `fact` say the same thing. A line and its effect on the index   *)
(* are one step; what comes between them is EventIndex's. Everything but    *)
(* the person holds the run lock, so there is one runner.                   *)
(***************************************************************************)
EXTENDS Integers, FiniteSets

CONSTANTS
  Projects,   \* how many; the machine is place 0, and project 1 comes first
  Fact,
  Unsafe,     \* facts that machine_safe keeps in their project
  Beginnings, \* stores to begin with: places, facts and labels by id, fixed, flag, and
              \* `spent`, what of the bounds below is used up
  MaxId,      \* bound on lessons ever
  Batch,      \* BATCH: 40
  MaxCalls,   \* MAX_CALLS: 30
  LabelCalls, \* LABEL_CALLS: 5
  MaxRungs,   \* ledger rows one call may leave
  Patience,   \* answers in a row that fail before a batch is passed over: 3
  MaxActs,    \* bound on what a person does
  MaxVisits,  \* bound on a run's visits to a place
  MaxMishap   \* bound on kills

Id      == 1..MaxId
Machine == 0
Place   == 0..Projects
Labels  == {"project", "machine", "doomed"}
Stamp   == Nat \ {0} \* ids of runs

ASSUME LessonsAssumption ==
  /\ Projects \in Nat \ {0} /\ MaxId \in Nat /\ Batch \in Nat \ {0} /\ Unsafe \subseteq Fact
  /\ MaxCalls \in Nat \ {0} /\ LabelCalls \in Nat \ {0} /\ MaxRungs \in Nat \ {0}
  /\ Patience \in Nat \ {0} /\ MaxActs \in Nat /\ MaxVisits \in Nat /\ MaxMishap \in Nat /\ Fact # {}
  /\ \A s \in Beginnings :
       /\ \A i \in Id \cap DOMAIN s.place : s.place[i] \in Place
       /\ \A i \in Id \cap DOMAIN s.fact : s.fact[i] \in Fact
       /\ \A i \in Id \cap DOMAIN s.label : s.label[i] \in Labels \cup {"none"}
       /\ s.fixed \subseteq Id /\ s.flag \in BOOLEAN
       /\ s.spent.acts \in 0..MaxActs /\ s.spent.visits \in 0..MaxVisits /\ s.spent.mishaps \in 0..MaxMishap

VARIABLES
  home, fact, link,  \* per lesson: its place, what it says, the lesson it is a copy of
  shown,             \* per lesson: "none" yet, "live", "forgotten" by a person, "cleaned"
  label,             \* per lesson: its class and scope, or "none"
  fixed, restored,   \* lessons a person corrected; those a restore brought back
  tombs,             \* the cleanup's tombstones in the projects' logs
  flag, moveFlag,    \* knowledge_cleaned, machine_migrated
  saved,             \* clean_cursor, label_remainder, machine_cursor
  ledger, today,     \* rows of calls of the cleanup; of labels in the last day
  at, job, cur,      \* the runner: where it is, at what, its cursor in memory
  todo, doomed,      \* lessons in hand; those of them to withdraw
  verdict, back,     \* labels of the answer; lessons moved, or brought back from the move
  cause,             \* history: why each was last withdrawn
  stood,             \* history: those in hand that were corrected when they were judged
  acts, visits, mishaps

pages  == <<home, fact, link>>
words  == <<fixed, restored>>
marks  == <<flag, moveFlag, saved>>
calls  == <<ledger, today>>
memory == <<at, job, cur, todo, doomed, verdict, back>>
ghosts == <<cause, stood, acts, visits, mishaps>>
vars == <<pages, shown, label, words, tombs, marks, calls, memory, ghosts>>

Blank == [run |-> 0, project |-> 0, deduped |-> FALSE, after |-> 0, fails |-> 0,
          left |-> 0, stuck |-> 0]
NoVerdict == [i \in Id |-> "none"]

Init ==
  /\ \E s \in Beginnings :
       LET old(f, none) == [i \in Id |-> IF i \in DOMAIN f THEN f[i] ELSE none] IN
       /\ home = old(s.place, Machine)
       /\ fact = old(s.fact, CHOOSE f \in Fact : TRUE)
       /\ label = old(s.label, "none")
       /\ shown = [i \in Id |-> IF i \in DOMAIN s.place THEN "live" ELSE "none"]
       /\ fixed = s.fixed /\ flag = s.flag
       /\ acts = s.spent.acts /\ visits = s.spent.visits /\ mishaps = s.spent.mishaps
  /\ link = [i \in Id |-> 0]
  /\ restored = {} /\ tombs = {}
  /\ moveFlag = FALSE /\ saved = [j \in {"clean", "daily", "move"} |-> Blank]
  /\ ledger = 0 /\ today = 0
  /\ at = "off" /\ job = "clean" /\ cur = Blank
  /\ todo = {} /\ doomed = {} /\ verdict = NoVerdict /\ back = {}
  /\ cause = [i \in Id |-> "none"] /\ stood = {}

First(S)     == CHOOSE i \in S : \A j \in S : i <= j
Last(S)      == CHOOSE i \in S : \A j \in S : j <= i
FirstOf(S)   == {i \in S : Cardinality({j \in S : j < i}) < Batch}
Live         == {i \in Id : shown[i] = "live"}
In(p)        == {i \in Live : home[i] = p}
Unlabelled   == {i \in Live : label[i] = "none"}
Total        == Cardinality(Unlabelled)
UsedRuns     == {t.run : t \in tombs} \cup {saved[j].run : j \in DOMAIN saved}
FreshRun     == First((1..(Cardinality(UsedRuns) + 1)) \ UsedRuns)
Unminted     == {i \in Id : shown[i] = "none"}

Save(c) == saved' = [saved EXCEPT ![job] = c]

\* retire: a tombstone, and what it does to the row. Restores do not read the
\* machine's log, and never a tombstone without a run.
Withdraw(i, why, run) ==
  /\ shown' = [shown EXCEPT ![i] = IF @ = "forgotten" THEN @ ELSE "cleaned"]
  /\ tombs' = IF run = 0 \/ home[i] = Machine THEN tombs
              ELSE tombs \cup {[on |-> i, run |-> run, why |-> why]}
  /\ cause' = [cause EXCEPT ![i] = why]
  /\ UNCHANGED <<pages, words, stood, acts, visits, mishaps>>

\* A lesson is written, with the next id.
Mints(p, f, from, as) == LET i == First(Unminted) IN
  /\ Unminted # {}
  /\ home' = [home EXCEPT ![i] = p]
  /\ fact' = [fact EXCEPT ![i] = f]
  /\ link' = [link EXCEPT ![i] = from]
  /\ shown' = [shown EXCEPT ![i] = "live"]
  /\ label' = [label EXCEPT ![i] = as]

(* ------------------------- a run, and its turn at the cleanup ------------ *)

Rests == stood' = {} /\ UNCHANGED <<pages, shown, label, words, tombs, cause, acts, visits, mishaps>>

\* Where a pass goes on, with the cursor it had.
Resumes(as, c) == LET from == IF c.project = 0 THEN [c EXCEPT !.project = 1, !.after = 0, !.fails = 0] ELSE c IN
  /\ job' = as
  /\ cur' = from
  /\ at' = IF as = "clean" /\ ~from.deduped THEN "gather" ELSE "batch"

Starting ==
  /\ at = "off" /\ at' = "pass"
  /\ Rests /\ UNCHANGED <<marks, calls, job, cur, todo, doomed, verdict, back>>

\* pass, load_cursor.
Passes ==
  /\ at = "pass"
  /\ IF flag THEN at' = "daily" /\ UNCHANGED <<job, cur>>
     ELSE Resumes("clean", IF saved["clean"] # Blank THEN saved["clean"] ELSE [Blank EXCEPT !.run = FreshRun])
  /\ Rests /\ UNCHANGED <<marks, calls, todo, doomed, verdict, back>>

\* label_remainder, up to its loop: today's rows, what is left, whether a sweep
\* gave up on it, a run id for the day, and a count where a sweep begins.
Dailies == LET was == saved["daily"] IN
  /\ at = "daily"
  /\ IF today >= LabelCalls \/ Total = 0 \/ (was.stuck > 0 /\ Total <= was.stuck)
       THEN at' = "move" /\ UNCHANGED <<job, cur>>
       ELSE Resumes("daily", [was EXCEPT !.stuck = 0,
                                       !.run = IF today = 0 \/ @ = 0 THEN FreshRun ELSE @,
                                       !.left = IF was.project = 0 /\ was.after = 0 THEN Total ELSE @])
  /\ Rests /\ UNCHANGED <<marks, calls, todo, doomed, verdict, back>>

ToUpkeep == at' = "upkeep" /\ cur' = Blank

(* ------------------ duplicates: dedupe, fold_duplicate_knowledge ---------- *)

Here == IF job = "settle" \/ cur.project > Projects THEN Machine ELSE cur.project

\* The live lessons of the place; none where no model can compare them.
Gathers ==
  /\ at = "gather" /\ at' = "group"
  /\ todo' \in {In(Here), {}}
  /\ Rests /\ UNCHANGED <<marks, calls, job, cur, doomed, verdict, back>>

Twins(f) == {i \in todo : fact[i] = f}

\* The cleanup keeps the one opened most often, the fold the oldest, both one
\* that a person corrected.
Survivors(S) ==
  IF S \cap fixed # {} THEN {First(S \cap fixed)} ELSE IF job = "clean" THEN S ELSE {First(S)}

\* Mutant: nobody is kept; every one that a person did not correct is withdrawn.
DecidesForNobody(f) == LET S == Twins(f) IN
  /\ at = "group" /\ Cardinality(S) >= 2
  /\ todo' = todo \ S
  /\ doomed' = IF S \cap restored # {} THEN {} ELSE S \ fixed
  /\ at' = IF doomed' = {} THEN at ELSE "withdraw"
  /\ stood' = S \cap fixed
  /\ UNCHANGED <<pages, shown, label, words, tombs, cause, acts, visits, mishaps, marks, calls, job, cur, verdict, back>>

Decides(f) == LET S == Twins(f) IN
  /\ at = "group" /\ Cardinality(S) >= 2
  /\ todo' = todo \ S
  /\ \E s \in Survivors(S) : doomed' = IF S \cap restored # {} THEN {} ELSE S \ ({s} \cup fixed)
  /\ at' = IF doomed' = {} THEN at ELSE "withdraw"
  /\ stood' = S \cap fixed
  /\ UNCHANGED <<pages, shown, label, words, tombs, cause, acts, visits, mishaps, marks, calls, job, cur, verdict, back>>

Withdraws == LET i == First(doomed) IN
  /\ at = "withdraw"
  /\ Withdraw(i, "duplicate", cur.run)
  /\ doomed' = doomed \ {i}
  /\ at' = IF doomed' = {} THEN "group" ELSE at
  /\ UNCHANGED <<label, marks, calls, job, cur, todo, verdict, back>>

GroupsEnd ==
  /\ at = "group" /\ \A f \in Fact : Cardinality(Twins(f)) < 2
  /\ todo' = {}
  /\ CASE job = "clean" -> cur' = [cur EXCEPT !.deduped = TRUE] /\ Save(cur') /\ at' = "batch"
       [] job = "settle" -> ToUpkeep /\ UNCHANGED saved
       [] job = "fold" -> at' = (IF Here = Machine THEN "upkeep" ELSE "learn") /\ UNCHANGED <<cur, saved>>
  /\ Rests /\ UNCHANGED <<flag, moveFlag, calls, job, doomed, verdict, back>>

(* --------------------- labels: run_pass, label_remainder ----------------- *)

Batched == FirstOf({i \in In(cur.project) \cap Unlabelled : i > cur.after})
Daily   == job = "daily"

\* The ledger is counted, not what the cursor remembers.
Spent == IF Daily THEN today ELSE ledger
Limit == IF Daily THEN LabelCalls ELSE MaxCalls

\* A call leaves one row per rung it tried.
Asks(k) ==
  /\ at = "batch" /\ Spent < Limit /\ Batched # {}
  /\ at' = "asked" /\ todo' = Batched
  /\ IF Daily THEN today' = today + k /\ UNCHANGED ledger ELSE ledger' = ledger + k /\ UNCHANGED today
  /\ Rests /\ UNCHANGED <<marks, job, cur, doomed, verdict, back>>

\* No usable answer. The same batch is tried again by a later pass, until it is
\* passed over.
NoAnswer == LET tired == cur.fails + 1 >= Patience IN
  /\ at = "asked"
  /\ cur' = [cur EXCEPT !.fails = IF tired THEN 0 ELSE @ + 1, !.after = IF tired THEN Last(todo) ELSE @]
  /\ at' = IF Daily THEN "swept" ELSE "saving"
  /\ todo' = {}
  /\ Rests /\ UNCHANGED <<marks, calls, job, doomed, verdict, back>>

\* apply: what the answer says of each, and of whom it is believed - nobody a
\* person corrected, and nobody where it would withdraw too many.
Believed(v) == LET D == {i \in todo : v[i] = "doomed"} \ fixed IN
  IF Cardinality(D) * 10 > Cardinality(todo) * 8 THEN {} ELSE D

\* Mutant: who is corrected was read before the model was asked.
AnswersLate(v) ==
  /\ at = "asked"
  /\ verdict' = [i \in Id |-> IF i \in todo THEN v[i] ELSE "none"]
  /\ todo' = {i \in todo : v[i] # "none"}
  /\ doomed' = {i \in todo : v[i] = "doomed"} \ stood
  /\ stood' = todo \cap fixed
  /\ cur' = [cur EXCEPT !.after = Last(todo), !.fails = 0]
  /\ at' = "label"
  /\ UNCHANGED <<pages, shown, label, words, tombs, cause, acts, visits, mishaps, marks, calls, job, back>>

Answers(v) ==
  /\ at = "asked"
  /\ verdict' = [i \in Id |-> IF i \in todo THEN v[i] ELSE "none"]
  /\ todo' = {i \in todo : v[i] # "none"}
  /\ doomed' = Believed(v)
  /\ stood' = todo \cap fixed
  /\ cur' = [cur EXCEPT !.after = Last(todo), !.fails = 0]
  /\ at' = "label"
  /\ UNCHANGED <<pages, shown, label, words, tombs, cause, acts, visits, mishaps, marks, calls, job, back>>

\* The label first, then at most one tombstone.
LabelsOne == LET i == First(todo) IN
  /\ at = "label" /\ todo # {}
  /\ label' = [label EXCEPT ![i] = verdict[i]]
  /\ IF i \in doomed THEN at' = "strike" /\ UNCHANGED todo ELSE todo' = todo \ {i} /\ UNCHANGED at
  /\ UNCHANGED <<pages, shown, words, tombs, ghosts, marks, calls, job, cur, doomed, verdict, back>>

Strikes == LET i == First(todo) IN
  /\ at = "strike" /\ at' = "label"
  /\ Withdraw(i, "judged", cur.run)
  /\ todo' = todo \ {i} /\ doomed' = doomed \ {i}
  /\ UNCHANGED <<label, marks, calls, job, cur, verdict, back>>

SavesBatch ==
  /\ at = "label" /\ todo = {}
  /\ Save(cur)
  /\ at' = "batch" /\ verdict' = NoVerdict
  /\ Rests /\ UNCHANGED <<flag, moveFlag, calls, job, cur, todo, doomed, back>>

SavesFailure ==
  /\ at = "saving"
  /\ Save(cur) /\ ToUpkeep
  /\ Rests /\ UNCHANGED <<flag, moveFlag, calls, job, todo, doomed, verdict, back>>

\* The budget, the deadline, the calls of one pass, or no CLI that could
\* answer: a pass may stop before any call.
Stops ==
  /\ at = "batch"
  /\ IF Daily THEN at' = "swept" /\ UNCHANGED cur ELSE ToUpkeep
  /\ Rests /\ UNCHANGED <<marks, calls, job, todo, doomed, verdict, back>>

NextProject ==
  /\ at = "batch" /\ Spent < Limit /\ Batched = {} /\ cur.project < Projects
  /\ Resumes(job, [cur EXCEPT !.project = @ + 1, !.deduped = FALSE, !.after = 0, !.fails = 0])
  /\ Rests /\ UNCHANGED <<marks, calls, todo, doomed, verdict, back>>

\* Mutant: the cleanup is over when every lesson has a label.
FinishesLabelled ==
  /\ at = "batch" /\ ~Daily /\ Unlabelled = {}
  /\ ledger >= MaxCalls \/ (Batched = {} /\ cur.project = Projects)
  /\ flag' = TRUE /\ saved' = [saved EXCEPT !["clean"] = Blank]
  /\ ToUpkeep
  /\ Rests /\ UNCHANGED <<moveFlag, calls, job, todo, doomed, verdict, back>>

\* The last project is done, or the calls are used up.
Finishes ==
  /\ at = "batch" /\ ~Daily
  /\ ledger >= MaxCalls \/ (Batched = {} /\ cur.project = Projects)
  /\ flag' = TRUE /\ saved' = [saved EXCEPT !["clean"] = Blank]
  /\ ToUpkeep
  /\ Rests /\ UNCHANGED <<moveFlag, calls, job, todo, doomed, verdict, back>>

\* A whole sweep: one after which as many are left as before gives up on them.
SweepEnds ==
  /\ at = "batch" /\ Daily /\ today < LabelCalls /\ Batched = {} /\ cur.project = Projects
  /\ cur' = [cur EXCEPT !.stuck = IF Total >= cur.left THEN Total ELSE 0, !.project = 0, !.after = 0]
  /\ at' = "swept"
  /\ Rests /\ UNCHANGED <<marks, calls, job, todo, doomed, verdict, back>>

SavesSweep ==
  /\ at = "swept" /\ at' = "move"
  /\ Save(cur) /\ cur' = Blank
  /\ Rests /\ UNCHANGED <<flag, moveFlag, calls, job, todo, doomed, verdict, back>>

(* --------------------------- move_to_machine ----------------------------- *)

Unfinished == LET stuck == saved["daily"].stuck IN Total > 0 /\ ~(stuck > 0 /\ Total <= stuck)

\* Mutant: it does not wait for the labels of the remainder.
MovesAtOnce ==
  /\ at = "move"
  /\ IF moveFlag THEN ToUpkeep /\ UNCHANGED job
     ELSE /\ at' = "scan" /\ job' = "move"
          /\ cur' = [saved["move"] EXCEPT !.run = IF @ = 0 THEN FreshRun ELSE @]
  /\ Rests /\ UNCHANGED <<marks, calls, todo, doomed, verdict, back>>

Moves ==
  /\ at = "move"
  /\ IF moveFlag \/ Unfinished THEN ToUpkeep /\ UNCHANGED job
     ELSE /\ at' = "scan" /\ job' = "move"
          /\ cur' = [saved["move"] EXCEPT !.run = IF @ = 0 THEN FreshRun ELSE @]
  /\ Rests /\ UNCHANGED <<marks, calls, todo, doomed, verdict, back>>

\* machine_candidates. Which of them were restored or corrected is read once.
Candidates == {i \in Live : home[i] # Machine /\ label[i] = "machine" /\ i > cur.after}

Scans ==
  /\ at = "scan" /\ Candidates # {} /\ at' = "copy"
  /\ cur' = [cur EXCEPT !.after = Last(Candidates)]
  /\ todo' = {i \in Candidates \ (restored \cup fixed) : fact[i] \notin Unsafe}
  /\ stood' = Candidates \cap fixed
  /\ UNCHANGED <<pages, shown, label, words, tombs, cause, acts, visits, mishaps, marks, calls, job, doomed, verdict, back>>

\* A copy on the machine, then the tombstone of the old one.
Copies == LET i == First(todo) IN
  /\ at = "copy" /\ todo # {} /\ at' = "retire"
  /\ Mints(Machine, fact[i], i, "machine")
  /\ UNCHANGED <<words, tombs, ghosts, marks, calls, job, cur, todo, doomed, verdict, back>>

RetiresOld == LET i == First(todo) IN
  /\ at = "retire" /\ at' = "copy"
  /\ Withdraw(i, "moved", cur.run)
  /\ todo' = todo \ {i} /\ back' = back \cup {i}
  /\ UNCHANGED <<label, marks, calls, job, cur, doomed, verdict>>

SavesMove ==
  /\ at = "copy" /\ todo = {} /\ at' = "scan"
  /\ Save(cur)
  /\ Rests /\ UNCHANGED <<flag, moveFlag, calls, job, cur, todo, doomed, verdict, back>>

\* What was moved is folded with what the machine had.
Settles ==
  /\ IF back = {} THEN ToUpkeep /\ UNCHANGED job
     ELSE at' = "gather" /\ job' = "settle" /\ cur' = [Blank EXCEPT !.run = FreshRun]
  /\ back' = {}
  /\ Rests /\ UNCHANGED <<calls, todo, doomed, verdict>>

MoveEnds ==
  /\ at = "scan" /\ Candidates = {}
  /\ moveFlag' = TRUE /\ saved' = [saved EXCEPT !["move"] = Blank] /\ UNCHANGED flag
  /\ Settles

\* The budget or the deadline.
MoveBreaks == at = "scan" /\ UNCHANGED marks /\ Settles

(* ------------------------- the rest of a run, execute -------------------- *)

\* The projects in order, then the machine; one run may be for one project, end
\* at its deadline, or find nothing to serve.
Visits(p) ==
  /\ at = "upkeep" /\ p \in (cur.project + 1)..(Projects + 1)
  /\ visits < MaxVisits /\ visits' = visits + 1
  /\ at' = "gather" /\ job' = "fold"
  /\ cur' = [Blank EXCEPT !.project = p, !.run = FreshRun]
  /\ stood' = {}
  /\ UNCHANGED <<pages, shown, label, words, tombs, cause, acts, mishaps>>
  /\ UNCHANGED <<marks, calls, todo, doomed, verdict, back>>

Leaves ==
  /\ at = "upkeep" /\ at' = "off"
  /\ cur' = Blank /\ job' = "clean"
  /\ Rests /\ UNCHANGED <<marks, calls, todo, doomed, verdict, back>>

\* synthesize_knowledge, one lesson of an answer: on the lesson that has it, if
\* the title or the model that compares them finds it, or a new one. It is a
\* project's, or the machine's where it is safe.
Learns(f, p) ==
  /\ at = "learn" /\ at' = "upkeep"
  /\ p = cur.project \/ (p = Machine /\ f \notin Unsafe)
  /\ LET known == {i \in In(p) : fact[i] = f} IN
       \/ \E i \in known :
            /\ label' = IF p = Machine THEN label ELSE [label EXCEPT ![i] = "project"]
            /\ UNCHANGED <<pages, shown>>
       \/ Mints(p, f, 0, IF p = Machine THEN "machine" ELSE "project")
  /\ UNCHANGED <<words, tombs, ghosts, marks, calls, job, cur, todo, doomed, verdict, back>>

\* apply_recheck: one that a file edit made doubtful.
Rechecks(i) ==
  /\ at = "learn"
  /\ i \in In(cur.project) \ fixed
  /\ Withdraw(i, "judged", FreshRun)
  /\ UNCHANGED <<label, marks, calls, at, job, cur, todo, doomed, verdict, back>>

LearnsNothing ==
  /\ at = "learn" /\ at' = "upkeep"
  /\ Rests /\ UNCHANGED <<marks, calls, job, cur, todo, doomed, verdict, back>>

(* ------------------------------- brain restore --------------------------- *)

Restores(r) ==
  /\ at = "off" /\ acts < MaxActs
  /\ at' = "bring" /\ job' = "restore" /\ cur' = [Blank EXCEPT !.run = r]
  /\ todo' = {t.on : t \in {u \in tombs : u.run = r}} /\ back' = {}
  /\ acts' = acts + 1 /\ stood' = {}
  /\ UNCHANGED <<pages, shown, label, words, tombs, cause, visits, mishaps, marks, calls, doomed, verdict>>

\* Those a cleanup still holds withdrawn. A lesson back from the machine takes
\* its copies away.
Brings == LET i == First(todo) IN
  /\ at = "bring" /\ todo # {}
  /\ IF shown[i] = "cleaned"
       THEN /\ shown' = [shown EXCEPT ![i] = "live"]
            /\ restored' = restored \cup {i}
            /\ back' = IF [on |-> i, run |-> cur.run, why |-> "moved"] \in tombs THEN back \cup {i} ELSE back
       ELSE UNCHANGED <<shown, restored, back>>
  /\ todo' = todo \ {i}
  /\ UNCHANGED <<pages, label, fixed, tombs, ghosts, marks, calls, at, job, cur, doomed, verdict>>

CopiesOf(S) == {c \in Id : home[c] = Machine /\ link[c] \in S}

\* Mutant: the copies are left where they are.
LeavesCopies ==
  /\ at = "bring" /\ todo = {}
  /\ at' = "off" /\ job' = "clean" /\ cur' = Blank /\ back' = {}
  /\ Rests /\ UNCHANGED <<marks, calls, todo, doomed, verdict>>

\* retire_machine_copies, and the end of it.
SendsHome ==
  /\ at = "bring" /\ todo = {}
  /\ LET C == (CopiesOf(back) \cap Live) \ fixed IN
       IF C # {}
         THEN /\ Withdraw(First(C), "returned", 0)
              /\ UNCHANGED <<label, at, job, cur, back>>
         ELSE /\ at' = "off" /\ job' = "clean" /\ cur' = Blank /\ back' = {}
              /\ Rests
  /\ UNCHANGED <<marks, calls, todo, doomed, verdict>>

(* ------------------------ people, kills and days ------------------------- *)

Does == acts < MaxActs /\ acts' = acts + 1

Forgets(i) ==
  /\ Does
  /\ shown[i] \in {"live", "cleaned"}
  /\ shown' = [shown EXCEPT ![i] = "forgotten"]
  /\ UNCHANGED <<pages, label, words, tombs, cause, stood, visits, mishaps, marks, calls, memory>>

Corrects(i) ==
  /\ Does
  /\ i \in Live \ fixed
  /\ fixed' = fixed \cup {i}
  /\ UNCHANGED <<pages, shown, label, restored, tombs, cause, stood, visits, mishaps, marks, calls, memory>>

\* What a job had in hand is gone with it, and its cursor is as it was saved.
StopsFor(to) ==
  /\ mishaps < MaxMishap /\ mishaps' = mishaps + 1
  /\ at' = to /\ job' = "clean" /\ cur' = Blank
  /\ todo' = {} /\ doomed' = {} /\ verdict' = NoVerdict /\ back' = {}
  /\ stood' = {}
  /\ UNCHANGED <<pages, shown, label, words, tombs, cause, acts, visits, marks, calls>>

Killed == at # "off" /\ StopsFor("off")

\* A line or a row cannot be written or read: the job leaves by `?` where it is.
\* A restore ends with it; pass logs the error, goes on from the labels to the
\* move, and from anything else to the rest of the run.
StoreFails ==
  /\ at \notin {"off", "upkeep"}
  /\ StopsFor(IF job = "restore" THEN "off"
              ELSE IF at = "daily" \/ (Daily /\ at \in {"batch", "asked", "label", "strike", "swept"}) THEN "move"
              ELSE "upkeep")

\* A call of the labels is a day ago.
CallAges ==
  /\ today > 0 /\ today' = today - 1
  /\ UNCHANGED <<pages, shown, label, words, tombs, ghosts, marks, ledger, memory>>

Runs ==
  \/ Passes \/ Dailies \/ Gathers \/ (\E f \in Fact : Decides(f)) \/ Withdraws \/ GroupsEnd
  \/ NoAnswer \/ (\E v \in [todo -> Labels \cup {"none"}] : Answers(v))
  \/ LabelsOne \/ Strikes \/ SavesBatch \/ SavesFailure \/ Stops \/ SavesSweep \/ Moves \/ Copies \/ RetiresOld \/ SavesMove \/ MoveBreaks
  \/ (\E p \in 1..(Projects + 1) : Visits(p)) \/ Leaves
  \/ (\E f \in Fact, p \in Place : Learns(f, p)) \/ (\E i \in Id : Rechecks(i)) \/ LearnsNothing
  \/ Brings \/ SendsHome

\* What a run does while its time is not up.
GoesOn ==
  \/ (\E k \in 1..MaxRungs : Asks(k)) \/ NextProject \/ Finishes \/ SweepEnds
  \/ Scans \/ MoveEnds

Next ==
  \/ Starting \/ Runs \/ GoesOn
  \/ \E r \in {t.run : t \in tombs} : Restores(r)
  \/ \E i \in Id : Forgets(i) \/ Corrects(i)
  \/ Killed \/ StoreFails \/ CallAges

Spec == Init /\ [][Next]_vars

\* A run that was started goes on, runs keep being started, days pass, and a
\* run is not always out of time before it does anything.
Fairness == WF_vars(Runs) /\ WF_vars(Starting) /\ WF_vars(CallAges) /\ SF_vars(GoesOn)

LiveSpec == Spec /\ Fairness

(* ------------------------------- properties ------------------------------ *)

Cursor == [run : Nat, project : 0..(Projects + 1), deduped : BOOLEAN, after : 0..MaxId, fails : 0..(Patience - 1),
           left : 0..MaxId, stuck : 0..MaxId]

LessonsTypeOK ==
  /\ home \in [Id -> Place] /\ fact \in [Id -> Fact] /\ link \in [Id -> 0..MaxId]
  /\ shown \in [Id -> {"none", "live", "forgotten", "cleaned"}]
  /\ label \in [Id -> Labels \cup {"none"}] /\ verdict \in [Id -> Labels \cup {"none"}]
  /\ \A S \in {fixed, restored, todo, doomed, back, stood} : S \subseteq Id
  /\ tombs \subseteq [on : Id, run : Stamp, why : {"duplicate", "judged", "moved"}]
  /\ flag \in BOOLEAN /\ moveFlag \in BOOLEAN
  /\ cur \in Cursor /\ saved \in [{"clean", "daily", "move"} -> Cursor]
  /\ ledger \in 0..(MaxCalls - 1 + MaxRungs) /\ today \in 0..(LabelCalls - 1 + MaxRungs)
  /\ at \in {"off", "pass", "daily", "gather", "group", "withdraw", "batch", "asked", "label", "strike", "saving",
            "swept", "move", "scan", "copy", "retire", "upkeep", "learn", "bring"}
  /\ job \in {"clean", "daily", "move", "settle", "fold", "restore"}
  /\ cause \in [Id -> {"none", "duplicate", "judged", "moved", "returned"}]
  /\ acts \in 0..MaxActs /\ visits \in 0..MaxVisits /\ mishaps \in 0..MaxMishap

Gone(i, why) == shown[i] = "cleaned" /\ cause[i] \in why
Judged(f)    == \E i \in Id : fact[i] = f /\ (shown[i] = "forgotten" \/ Gone(i, {"judged"}))

\* What clean.rs says of the move's run id: it is on every tombstone of the
\* move, so that one restore undoes it.
MoveIsOneRun == \A t, u \in {v \in tombs : v.why = "moved"} : t.run = u.run

\* A fact is not lost to tidying. A project's lesson that was withdrawn for
\* another one - as its duplicate, or for the copy on the machine - still has
\* a live lesson of its fact in its project or on the machine, through every
\* fold, move, restore and kill, unless a person forgot the fact or a model
\* judged it; or the move was cut into two runs, of which one was undone.
FactsSurvive == \A i \in Id :
  (home[i] # Machine /\ Gone(i, {"duplicate", "moved"}) /\ ~Judged(fact[i]) /\ MoveIsOneRun)
    => \E j \in Live : fact[j] = fact[i] /\ home[j] \in {home[i], Machine}

\* The machine does not overrule a person: what it withdraws is never a lesson
\* that was corrected when it was looked at, and one that a restore brought
\* back is not folded or moved away again.
WhatPeopleSaidStands ==
  [][\A i \in Id : (shown[i] = "live" /\ shown'[i] = "cleaned")
       => (i \notin stood /\ (i \in restored => cause'[i] \in {"judged", "returned"}))]_vars

\* A lesson reads once: between runs, and where none was killed or stopped half
\* way by an error, no lesson is live beside its copy on the machine, unless a
\* person edited either.
LessonReadsOnce ==
  (at = "off" /\ mishaps = 0) =>
    \A c \in Live : (link[c] \in Live) => {c, link[c]} \cap fixed # {}

\* Where the cleanup is through, the move left no lesson behind: a lesson of
\* the machine that is live in a project is one a person corrected, one a
\* restore brought back, or names what is the project's own.
NoneLeftBehind == (moveFlag /\ restored = {}) =>
  \A i \in Live : (home[i] # Machine /\ label[i] = "machine") => (i \in fixed \/ fact[i] \in Unsafe)

\* The cleanup, the labels of what it left and the move come to an end,
\* whatever the models answer or fail to answer.
CleanupEnds == <>moveFlag
=============================================================================

------------------------------- MODULE Upkeep -------------------------------
(***************************************************************************)
(* What keeps the index small and moving without anyone asking: the daily   *)
(* second chance of parked sessions (maint.rs), the retention pass that     *)
(* drops old bodies a slice at a time (consolidate.rs, store.rs), and the   *)
(* compact window (maint.rs) in which the file is rewritten while hooks     *)
(* stand aside. A job is a consolidation run, which looks for a window once *)
(* it has ended, or `brain compact`, which opens one at once; reindex       *)
(* empties and refills the index under them.                                *)
(*                                                                         *)
(* The run lock is RunLock's, here held by one job; the note a run leaves   *)
(* at an open window, and the ask that keeps one closed, are RunQueue's.    *)
(***************************************************************************)
EXTENDS Integers, FiniteSets

CONSTANTS
  Job, Compact,   \* processes, and those that are `brain compact`
  Capture,        \* hooks, each with one event to log and index
  Sessions,       \* sessions that may be parked
  MaxRow,         \* rows of the events table
  Span, Slice,    \* RETENTION_SPAN, RETENTION_CHUNK: 20000 rowids, 200 bodies
  MinReclaim,     \* MIN_RECLAIM, in bodies
  UnparkLimit,    \* UNPARK_LIMIT: 3
  MaxFault,       \* bound on kills and failed writes
  MaxRebuild      \* bound on reindexes, each while no job runs

Row  == 1..MaxRow
Open == -1 \* retention_cursor is absent: no pass is under way
Nobody == "nobody"
Left == "left" \* the marker of a compactor that was killed

ASSUME UpkeepAssumption ==
  /\ Compact \subseteq Job /\ {Nobody, Left} \cap Job = {}
  /\ MaxRow \in Nat \ {0} /\ Span \in Nat \ {0} /\ Slice \in Nat \ {0}
  /\ MinReclaim \in Nat \ {0} /\ UnparkLimit \in Nat /\ MaxFault \in Nat /\ MaxRebuild \in Nat

VARIABLES
  stage,                \* where each job is
  runLock,              \* the job that holds it
  gate,                 \* the gate file: "none", "new", or "old" once stale
  marker,               \* the job whose window is open, or the marker a dead one left
  body,                 \* per row: "kept", "dropped", or "gone" while a reindex refills
  ripe,                 \* rows the rule drops if they have a body
  cursor, passDone,     \* retention_cursor; a pass finished less than a day ago
  dropped, settled,     \* retention_dropped_bytes, compact_dropped_bytes
  compacted, tried,     \* compact_done_at is set; compact_tried_at is less than a day old
  free,                 \* bodies dropped since the file was last rewritten
  from, slice, next,    \* the retention pass of the run that holds the lock
  base, caught,         \* the counter a compactor read; its catch-up worked
  parked, chances,      \* parked sessions; the times each was unparked
  unparked, chosen,     \* unpark_at is less than a day old; sessions this run goes through
  hookAt, saw, indexed, \* per hook: where it is and whose marker it saw; events indexed
  opened, revived,      \* history: automatic windows since tried; times each was revived
  mustReach, passedBy,         \* history: rows this pass must reach, rows one passed by
  promised,             \* history: events a window that succeeded answers for
  faults, rebuilds

lockFiles == <<runLock, gate, marker>>
notes     == <<cursor, passDone, dropped, settled, compacted, tried>>
rows      == <<body, ripe, free>>
step      == <<from, slice, next>>
try       == <<base, caught>>
chanceVars == <<parked, chances, unparked, chosen, revived>>
captures  == <<hookAt, saw, indexed, promised>>
passed    == <<mustReach, passedBy>>
counts    == <<opened, faults, rebuilds>>
upkeepVars == <<stage, lockFiles, notes, rows, step, try, chanceVars, captures, passed, counts>>

UpkeepInit ==
  /\ stage = [p \in Job |-> "off"]
  /\ runLock = Nobody /\ gate = "none" /\ marker = Nobody
  /\ body = [r \in Row |-> "kept"] /\ ripe = {} /\ free = 0
  /\ cursor = Open /\ passDone = FALSE /\ dropped = 0 /\ settled = 0
  /\ compacted = FALSE /\ tried = FALSE
  /\ from = 0 /\ slice = {} /\ next = 0 /\ base = 0 /\ caught = FALSE
  /\ parked \in SUBSET Sessions /\ chances = [s \in Sessions |-> 0] /\ unparked = FALSE /\ chosen = {}
  /\ hookAt = [h \in Capture |-> "new"] /\ saw = [h \in Capture |-> Nobody] /\ indexed = {}
  /\ opened = 0 /\ revived = [s \in Sessions |-> 0]
  /\ mustReach = {} /\ passedBy = {} /\ promised = {} /\ faults = 0 /\ rebuilds = 0

GoTo(p, here, there) == stage[p] = here /\ stage' = [stage EXCEPT ![p] = there]

Mishap == faults < MaxFault /\ faults' = faults + 1 /\ UNCHANGED <<opened, rebuilds>>

Logged == {h \in Capture : hookAt[h] # "new"}

(* -------------------------- a run: second chances ------------------------ *)

\* run_locked; one that meets a window stands aside (RunQueue).
RunStarts(p) ==
  /\ p \notin Compact /\ runLock = Nobody /\ marker = Nobody
  /\ GoTo(p, "off", "daily")
  /\ runLock' = p
  /\ UNCHANGED <<gate, marker, notes, rows, step, try, chanceVars, captures, passed, counts>>

\* Mutant: a session gets chances without end.
UnparksAnyway(p) ==
  /\ GoTo(p, "daily", IF unparked THEN "catchUp" ELSE "unpark")
  /\ chosen' = IF unparked THEN {} ELSE parked
  /\ UNCHANGED <<lockFiles, notes, rows, step, try, parked, chances, unparked, revived, captures, passed, counts>>

\* daily_in: once a day, the sessions parked for a day with a chance left.
Unparks(p) ==
  /\ GoTo(p, "daily", IF unparked THEN "catchUp" ELSE "unpark")
  /\ chosen' = IF unparked THEN {} ELSE {s \in parked : chances[s] < UnparkLimit}
  /\ UNCHANGED <<lockFiles, notes, rows, step, try, parked, chances, unparked, revived, captures, passed, counts>>

Chosen == CHOOSE s \in chosen : TRUE

\* The chance is counted before it is given.
CountsChance(p) ==
  /\ GoTo(p, "unpark", "revive") /\ chosen # {}
  /\ chances' = [chances EXCEPT ![Chosen] = @ + 1]
  /\ UNCHANGED <<lockFiles, notes, rows, step, try, parked, unparked, chosen, revived, captures, passed, counts>>

Revives(p) ==
  /\ GoTo(p, "revive", "unpark")
  /\ parked' = parked \ {Chosen}
  /\ revived' = [revived EXCEPT ![Chosen] = @ + 1]
  /\ chosen' = chosen \ {Chosen}
  /\ UNCHANGED <<lockFiles, notes, rows, step, try, chances, unparked, captures, passed, counts>>

\* A write that fails ends the loop; the day is stamped all the same.
UnparkFails(p) ==
  /\ stage[p] \in {"unpark", "revive"} /\ chosen # {}
  /\ stage' = [stage EXCEPT ![p] = "unpark"]
  /\ chosen' = {}
  /\ Mishap
  /\ UNCHANGED <<lockFiles, notes, rows, step, try, parked, chances, unparked, revived, captures, passed>>

StampsUnpark(p) ==
  /\ GoTo(p, "unpark", "catchUp") /\ chosen = {}
  /\ unparked' = TRUE
  /\ UNCHANGED <<lockFiles, notes, rows, step, try, parked, chances, chosen, revived, captures, passed, counts>>

\* A session that keeps failing is parked again.
Parks(s) ==
  /\ s \notin parked /\ parked' = parked \cup {s}
  /\ UNCHANGED <<stage, lockFiles, notes, rows, step, try, chances, unparked, chosen, revived, captures, passed, counts>>

\* execute begins with catch_up_index.
RunCatchesUp(p) ==
  /\ GoTo(p, "catchUp", "retain")
  /\ indexed' = indexed \cup Logged
  /\ UNCHANGED <<lockFiles, notes, rows, step, try, chanceVars, hookAt, saw, promised, passed, counts>>

(* ------------------------- a run: drop_old_bodies ------------------------ *)

ToDrop == {r \in ripe : body[r] = "kept"}

\* From the cursor, or from the first row: what a pass that starts there owes.
BeginsPass(p) ==
  /\ GoTo(p, "retain", IF passDone THEN "leave" ELSE "read")
  /\ from' = IF cursor = Open THEN 0 ELSE cursor
  /\ mustReach' = IF ~passDone /\ cursor = Open THEN ToDrop ELSE mustReach
  /\ UNCHANGED <<lockFiles, notes, rows, slice, next, try, chanceVars, captures, passedBy, counts>>

\* retention_step: the first Slice rows to drop in a window of Span rowids.
Matches(after) == {r \in ToDrop : r > after /\ r <= after + Span}
FirstSlice(S) == {r \in S : Cardinality({q \in S : q < r}) < Slice}

\* Mutant: a full slice skips the rest of its window too.
NextOfWindow(after, S) == after + Span

NextRow(after, S) ==
  IF Cardinality(S) = Slice THEN CHOOSE r \in S : \A q \in S : q <= r ELSE after + Span

ReadsSlice(p) == LET S == FirstSlice(Matches(from)) IN
  /\ GoTo(p, "read", "commit")
  /\ slice' = S /\ next' = NextRow(from, S)
  /\ UNCHANGED <<lockFiles, notes, rows, from, try, chanceVars, captures, passed, counts>>

AtEnd == \A r \in Row : body[r] # "gone" => r <= next

\* commit_retention_step: bodies, cursor and counters in one transaction. The
\* rule is not asked again. Then the next slice, or the budget is spent.
CommitsSlice(p) == LET D == {r \in slice : body[r] = "kept"} IN
  /\ stage[p] = "commit"
  /\ \E there \in IF AtEnd THEN {"finish"} ELSE {"read", "leave"} : stage' = [stage EXCEPT ![p] = there]
  /\ body' = [r \in Row |-> IF r \in D THEN "dropped" ELSE body[r]]
  /\ free' = free + Cardinality(D)
  /\ dropped' = dropped + Cardinality(D)
  /\ cursor' = next /\ from' = next /\ slice' = {}
  /\ UNCHANGED <<lockFiles, passDone, settled, compacted, tried, ripe, next, try, chanceVars, captures, passed, counts>>

\* finish_retention_pass.
FinishesPass(p) ==
  /\ GoTo(p, "finish", "leave")
  /\ cursor' = Open /\ passDone' = TRUE
  /\ passedBy' = mustReach \cap ToDrop /\ mustReach' = {}
  /\ UNCHANGED <<lockFiles, dropped, settled, compacted, tried, rows, step, try, chanceVars, captures, counts>>

\* A step that fails ends the pass for this run.
PassFails(p) ==
  /\ stage[p] \in {"read", "commit", "finish"} /\ stage' = [stage EXCEPT ![p] = "leave"]
  /\ slice' = {}
  /\ Mishap
  /\ UNCHANGED <<lockFiles, notes, rows, from, next, try, chanceVars, captures, passed>>

ForgetsSlice == from' = 0 /\ slice' = {} /\ next' = 0 /\ base' = 0 /\ caught' = FALSE /\ chosen' = {}

\* The run lets go of its lock; after_run follows.
RunLeaves(p) ==
  /\ GoTo(p, "leave", "look")
  /\ runLock' = Nobody
  /\ ForgetsSlice
  /\ UNCHANGED <<gate, marker, notes, rows, parked, chances, unparked, revived, captures, passed, counts>>

(* ------------------------------ the window ------------------------------- *)

Unsettled == IF dropped > settled THEN dropped - settled ELSE 0

\* CompactState::wanted and due. Whether the file is too large for what it would
\* give back (more than ten times that) is a choice.
Wanted(large) ==
  /\ cursor = Open
  /\ (~compacted /\ dropped > 0) \/ (~large /\ free + Unsettled >= MinReclaim)
Due(large) == Wanted(large) /\ ~tried

Looks(p) ==
  /\ \E large \in BOOLEAN : GoTo(p, "look", IF Due(large) THEN "gate" ELSE "off")
  /\ UNCHANGED <<lockFiles, notes, rows, step, try, chanceVars, captures, passed, counts>>

\* Gate::take: a gate older than a quarter of an hour is taken over.
TakesGate(p) ==
  /\ GoTo(p, "gate", "quiet") /\ gate # "new"
  /\ gate' = "new"
  /\ UNCHANGED <<runLock, marker, notes, rows, step, try, chanceVars, captures, passed, counts>>

GateIsTaken(p) ==
  /\ GoTo(p, "gate", "off") /\ gate = "new"
  /\ UNCHANGED <<lockFiles, notes, rows, step, try, chanceVars, captures, passed, counts>>

\* wait_quiet. A hook may log right after.
IsQuiet(p) ==
  /\ GoTo(p, "quiet", "lock")
  /\ UNCHANGED <<lockFiles, notes, rows, step, try, chanceVars, captures, passed, counts>>

\* Not quiet in time, or an ask is open, or the run lock is busy: the gate goes,
\* and the day is not spent.
StandsAside(p) ==
  /\ \/ stage[p] = "quiet"
     \/ stage[p] = "lock" /\ runLock # Nobody
  /\ stage' = [stage EXCEPT ![p] = "ungate"]
  /\ UNCHANGED <<lockFiles, notes, rows, step, try, chanceVars, captures, passed, counts>>

TakesLock(p) ==
  /\ GoTo(p, "lock", "second") /\ runLock = Nobody
  /\ runLock' = p
  /\ UNCHANGED <<gate, marker, notes, rows, step, try, chanceVars, captures, passed, counts>>

\* Mutant: what was due while waiting is rewritten.
OpensUnasked(p) == GoTo(p, "second", "open") /\ UNCHANGED tried

\* Held now: what was true while waiting may not be. A disk that cannot take
\* the rewrite spends the day.
SecondLook(p) ==
  \E large \in BOOLEAN :
    \/ Due(large) /\ GoTo(p, "second", "open") /\ UNCHANGED tried
    \/ Due(large) /\ GoTo(p, "second", "unlock") /\ tried' = TRUE
    \/ ~Due(large) /\ GoTo(p, "second", "unlock") /\ UNCHANGED tried

LooksAgain(p) ==
  /\ SecondLook(p)
  /\ UNCHANGED <<lockFiles, cursor, passDone, dropped, settled, compacted, rows, step, try, chanceVars, captures,
                 passed, counts>>

\* `brain compact`: no gate and no question whether it is due.
CompactStarts(p) ==
  /\ p \in Compact /\ runLock = Nobody
  /\ GoTo(p, "off", "open")
  /\ runLock' = p
  /\ UNCHANGED <<gate, marker, notes, rows, step, try, chanceVars, captures, passed, counts>>

\* compact_with reads the counter, and rewrite opens the window.
OpensWindow(p) ==
  /\ GoTo(p, "open", "rewrite")
  /\ base' = dropped /\ marker' = p
  /\ opened' = IF p \in Compact THEN opened ELSE opened + 1
  /\ UNCHANGED <<runLock, gate, notes, rows, step, caught, chanceVars, captures, passed, faults, rebuilds>>

Vacuums(p) ==
  /\ GoTo(p, "rewrite", "close")
  /\ free' = 0
  /\ UNCHANGED <<lockFiles, notes, body, ripe, step, try, chanceVars, captures, passed, counts>>

\* The text indexes, the disk, the rewrite or the cut: the window closes, and
\* the day is spent if that can be written down.
RewriteFails(p) ==
  /\ stage[p] \in {"rewrite", "close"} /\ stage' = [stage EXCEPT ![p] = "unlock"]
  /\ Mishap
  /\ marker' = Nobody
  /\ \/ tried' = TRUE
     \/ UNCHANGED tried
  /\ UNCHANGED <<runLock, gate, cursor, passDone, dropped, settled, compacted, rows, step, try, chanceVars, captures,
                 passed>>

\* Mutant: the window stays open over the catch-up.
ClosesLater(p) == GoTo(p, "close", "caught") /\ UNCHANGED marker

Closes(p) == GoTo(p, "close", "caught") /\ marker' = Nobody

CloseWindow(p) ==
  /\ Closes(p)
  /\ UNCHANGED <<runLock, gate, notes, rows, step, try, chanceVars, captures, passed, counts>>

\* catch_up_all: what the hooks gave up on. Its error is dropped.
WindowCatchesUp(p) ==
  /\ GoTo(p, "caught", "record")
  /\ \/ indexed' = indexed \cup Logged /\ caught' = TRUE /\ UNCHANGED counts
     \/ caught' = FALSE /\ UNCHANGED indexed /\ Mishap
  /\ UNCHANGED <<lockFiles, notes, rows, step, base, chanceVars, hookAt, saw, promised, passed>>

\* record_compact, best effort.
Records(p) ==
  /\ GoTo(p, "record", "unlock")
  /\ \/ compacted' = TRUE /\ tried' = TRUE /\ settled' = base /\ UNCHANGED counts
     \/ UNCHANGED <<compacted, tried, settled>> /\ Mishap
  /\ promised' = IF caught THEN promised \cup {h \in Capture : saw[h] = p} ELSE promised
  /\ UNCHANGED <<lockFiles, cursor, passDone, dropped, rows, step, try, chanceVars, hookAt, saw, indexed, passed>>

Unlocks(p) ==
  /\ GoTo(p, "unlock", IF p \in Compact THEN "off" ELSE "ungate")
  /\ runLock' = Nobody
  /\ ForgetsSlice
  /\ UNCHANGED <<gate, marker, notes, rows, parked, chances, unparked, revived, captures, passed, counts>>

\* Drop for Gate: the file goes, whoever made it.
DropsGate(p) ==
  /\ GoTo(p, "ungate", "off")
  /\ gate' = "none"
  /\ UNCHANGED <<runLock, marker, notes, rows, step, try, chanceVars, captures, passed, counts>>

(* ------------------------------ the hooks -------------------------------- *)

\* capture appends to the log, and only then looks at the marker.
Captures(h) ==
  /\ hookAt[h] = "new" /\ hookAt' = [hookAt EXCEPT ![h] = "logged"]
  /\ UNCHANGED <<stage, lockFiles, notes, rows, step, try, chanceVars, saw, indexed, promised, passed, counts>>

LooksAtMarker(h) ==
  /\ hookAt[h] = "logged" /\ hookAt' = [hookAt EXCEPT ![h] = "store"]
  /\ saw' = [saw EXCEPT ![h] = marker]
  /\ UNCHANGED <<stage, lockFiles, notes, rows, step, try, chanceVars, indexed, promised, passed, counts>>

Indexes(h) ==
  /\ hookAt[h] = "store" /\ hookAt' = [hookAt EXCEPT ![h] = "indexed"]
  /\ indexed' = indexed \cup {h}
  /\ UNCHANGED <<stage, lockFiles, notes, rows, step, try, chanceVars, saw, promised, passed, counts>>

\* The database is held for longer than the hook waits.
LeavesEvent(h) ==
  /\ hookAt[h] = "store" /\ hookAt' = [hookAt EXCEPT ![h] = "left"]
  /\ UNCHANGED <<stage, lockFiles, notes, rows, step, try, chanceVars, saw, indexed, promised, passed, counts>>

(* ------------------------- time, death and reindex ----------------------- *)

\* A row gets old, is consolidated, gets its vector; or somebody sees it.
Ripens(r) ==
  /\ r \notin ripe /\ ripe' = ripe \cup {r}
  /\ UNCHANGED <<stage, lockFiles, notes, body, free, step, try, chanceVars, captures, passed, counts>>

Surfaces(r) ==
  /\ r \in ripe /\ ripe' = ripe \ {r}
  /\ mustReach' = mustReach \ {r}
  /\ UNCHANGED <<stage, lockFiles, notes, body, free, step, try, chanceVars, captures, passedBy, counts>>

\* A day is over for the pass, for the windows, or for the parked.
DayPasses ==
  /\ \/ passDone /\ passDone' = FALSE /\ UNCHANGED <<tried, unparked, opened>>
     \/ tried /\ tried' = FALSE /\ opened' = 0 /\ UNCHANGED <<passDone, unparked>>
     \/ unparked /\ unparked' = FALSE /\ UNCHANGED <<passDone, tried, opened>>
  /\ UNCHANGED <<stage, lockFiles, cursor, dropped, settled, compacted, rows, step, try, parked, chances, chosen,
                 revived, captures, passed, faults, rebuilds>>

GateAges ==
  /\ gate = "new" /\ gate' = "old"
  /\ UNCHANGED <<stage, runLock, marker, notes, rows, step, try, chanceVars, captures, passed, counts>>

\* Half a minute after a kill.
MarkerExpires ==
  /\ marker = Left /\ marker' = Nobody
  /\ UNCHANGED <<stage, runLock, gate, notes, rows, step, try, chanceVars, captures, passed, counts>>

JobKilled(p) ==
  /\ stage[p] # "off" /\ stage' = [stage EXCEPT ![p] = "off"]
  /\ Mishap
  /\ runLock' = IF runLock = p THEN Nobody ELSE runLock
  /\ marker' = IF marker = p THEN Left ELSE marker
  /\ IF runLock = p THEN ForgetsSlice ELSE UNCHANGED <<step, try, chosen>>
  /\ UNCHANGED <<gate, notes, rows, parked, chances, unparked, revived, captures, passed>>

\* Store::clear forgets both kinds of notes.
ForgetsMarks ==
  /\ cursor' = Open /\ passDone' = FALSE /\ dropped' = 0
  /\ settled' = 0 /\ compacted' = FALSE /\ tried' = FALSE

NoJob == \A p \in Job : stage[p] = "off"

\* reindex; no lock keeps a job from running beside it, this bound does.
Clears ==
  /\ rebuilds < MaxRebuild /\ NoJob /\ rebuilds' = rebuilds + 1
  /\ ForgetsMarks
  /\ body' = [r \in Row |-> "gone"] /\ free' = 0
  /\ opened' = 0 /\ mustReach' = {}
  /\ indexed' = {}
  /\ UNCHANGED <<stage, lockFiles, ripe, step, try, chanceVars, hookAt, saw, promised, passedBy, faults>>

Rebuilding == \E r \in Row : body[r] = "gone"

Replays ==
  /\ Rebuilding
  /\ body' = [r \in Row |-> "kept"]
  /\ indexed' = indexed \cup Logged
  /\ UNCHANGED <<stage, lockFiles, notes, ripe, free, step, try, chanceVars, hookAt, saw, promised, passed, counts>>

UpkeepNext ==
  \/ \E p \in Job :
       \/ ~Rebuilding /\ RunStarts(p)
       \/ Unparks(p) \/ CountsChance(p) \/ Revives(p) \/ UnparkFails(p) \/ StampsUnpark(p)
       \/ RunCatchesUp(p) \/ BeginsPass(p) \/ ReadsSlice(p) \/ CommitsSlice(p) \/ FinishesPass(p)
       \/ PassFails(p) \/ RunLeaves(p)
       \/ Looks(p) \/ TakesGate(p) \/ GateIsTaken(p) \/ IsQuiet(p) \/ StandsAside(p) \/ TakesLock(p) \/ LooksAgain(p)
       \/ ~Rebuilding /\ CompactStarts(p)
       \/ OpensWindow(p) \/ Vacuums(p) \/ RewriteFails(p) \/ CloseWindow(p) \/ WindowCatchesUp(p) \/ Records(p)
       \/ Unlocks(p) \/ DropsGate(p) \/ JobKilled(p)
  \/ \E h \in Capture : Captures(h) \/ LooksAtMarker(h) \/ Indexes(h) \/ LeavesEvent(h)
  \/ \E r \in Row : Ripens(r) \/ Surfaces(r)
  \/ \E s \in Sessions : Parks(s)
  \/ DayPasses \/ GateAges \/ MarkerExpires \/ Clears \/ Replays

UpkeepSpec == UpkeepInit /\ [][UpkeepNext]_upkeepVars

(* ------------------------------- properties ----------------------------- *)

UpkeepTypeOK ==
  /\ stage \in [Job -> {"off", "daily", "unpark", "revive", "catchUp", "retain", "read", "commit", "finish", "leave",
                        "look", "gate", "quiet", "lock", "second", "open", "rewrite", "close", "caught", "record",
                        "unlock", "ungate"}]
  /\ runLock \in Job \cup {Nobody} /\ gate \in {"none", "new", "old"} /\ marker \in Job \cup {Nobody, Left}
  /\ body \in [Row -> {"kept", "dropped", "gone"}] /\ ripe \subseteq Row /\ free \in Nat
  /\ cursor \in {Open} \cup Nat /\ passDone \in BOOLEAN
  /\ dropped \in Nat /\ settled \in Nat /\ compacted \in BOOLEAN /\ tried \in BOOLEAN
  /\ from \in Nat /\ slice \subseteq Row /\ next \in Nat /\ base \in Nat /\ caught \in BOOLEAN
  /\ parked \subseteq Sessions /\ chances \in [Sessions -> 0..UnparkLimit] /\ unparked \in BOOLEAN
  /\ chosen \subseteq Sessions
  /\ hookAt \in [Capture -> {"new", "logged", "store", "indexed", "left"}]
  /\ saw \in [Capture -> Job \cup {Nobody, Left}] /\ indexed \subseteq Capture
  /\ opened \in Nat /\ revived \in [Sessions -> Nat] /\ mustReach \subseteq Row /\ passedBy \subseteq Row
  /\ promised \subseteq Capture /\ faults \in 0..MaxFault /\ rebuilds \in 0..MaxRebuild

\* Upkeep is rationed. The window opens by itself once a day, and once more for
\* each kill or failed write, however many compactors saw it due (try_window's
\* second look); and a session that keeps failing is revived at most
\* UnparkLimit times, killed or not (unpark counts before it revives).
UpkeepIsRationed ==
  /\ opened <= 1 + faults
  /\ \A s \in Sessions : revived[s] <= UnparkLimit

\* An event that a hook left to a window is in the index once that window's
\* catch-up has worked: the hook logs before it looks at the marker, and the
\* marker is gone before the catch-up reads the logs (capture, compact_with).
WindowAnswersForItsHooks ==
  \A h \in promised : hookAt[h] = "left" /\ ~Rebuilding => h \in indexed

\* A retention pass, over however many runs and restarts, passes by no row that
\* was to be dropped when it began and still is (retention_step's cursor); and
\* what was dropped since the last rewrite is never more than what the counters
\* say is still to be given back (commit_retention_step, record_compact, clear).
RetentionKeepsItsBooks == passedBy = {} /\ free <= Unsettled
=============================================================================

# Verification of rolepod-brain

`brain` is a memory for coding agents: hooks of the host program record what
happens in a session as lines of an append-only log, an index (SQLite) is
derived from the log, and `brain consolidate` runs, spawned in the background by
the hooks, turn the observations of a session into a summary, pages and lessons,
which other hooks inject into later sessions. Everything that is hard about it
comes from one fact: there is no daemon. Every hook, every run and every command
is a short-lived process of its own; any number of them overlap, any of them may
be killed between two statements, and they meet only in files and in one
database.

This directory holds TLA+ modules translated from the source, the TLC
configurations that check them on small instances, and proofs that TLAPS checks
for every value of the constants. `PROJECT.json` maps every definition to the
source lines it stands for, lists the runs, the mutants that show each property
can fail, the hazards, the findings and the theorems.

    tlc -workers 4 -config MCSessions.cfg MCSessions     one run
    tlapm SessionsProofs.tla                             one module of proofs

Paths below are relative to the repository.

## 1. Inventory

For each component: the state it keeps, its operations, whom it meets, what is
hard about it, and what makes it correct. `PROJECT.json` "components" says which
are modelled.

**Run lock** (`src/consolidate.rs`, `RunLock`). State: one file with the pid of
its maker, and its mtime. Operations: `take` (create_new, and once more after
removing a stale file), `touch`, `Drop`. Users: every consolidation run, ingest,
the restore of a cleanup, the compactor. Hard: judging a file stale takes three
separate system calls, removing it is a fourth; `touch` and `Drop` do not look
whose file it is; a killed run leaves its file and its pid may be worn by
another process. Correct: the file names a holder or a dead run; only a takeover
can break exclusion; a crashed run does not block for ever.

**Run queue** (`src/consolidate.rs` `run_in`, `run_idle_in`, `serve`,
`take_next_request`; `src/store.rs` for the table). State:
`consolidation_requests`, the run lock, the maintenance window and its note.
Operations: write an ask, consume it with its twins, hand it back, drop stale
asks, purge, drain. Hard: who is responsible for an ask that was written while
another run held the lock; an ask drained before its writer gets the lock;
budget, drain limit, errors and kills; holders that drain nothing. Correct: no
ask is served twice at once, an ask left open is explained, every run ends.

**Sessions** (`src/consolidate.rs` `drain_project`, `should_wait`,
`consolidate_session`; `src/store.rs` for `session_state` and the `consolidated`
flag). State: per session the pending observations, the row with claim, last
event, tier and attempts, the summaries in the log. Operations: list, gate,
claim, superseded check, read, call, append, index, mark, record, release, count
a failure, park, reopen. Hard: the claim goes stale under a live run, release is
unconditional, log, index, marks and row are four writes, what was listed is not
what is read. Correct: one narrative each, nothing leaves the pending list
untold, nobody's work is stranded.

**Event log and index** (`src/event.rs`, `src/store.rs` `index_event`,
`src/consolidate.rs` `catch_up_log`, `src/main.rs` `reindex`,
`src/portable.rs` `union_logs`). State: monthly files of lines, rows of the
index, a watermark per file. Hard: append without a lock, effects of a line in
several statements without a transaction, catch-up and rebuild under different
locks or none. Correct: a line is lost only where a merge overlaps its append or a torn
one is before it, the index holds nothing that was not in the log, the watermark
skips nothing, a forget stays, a rebuild reproduces the index.

**Capture hook** (`src/hook.rs`, `src/sanitize.rs`, `src/invocation.rs`). Reads
one payload, builds an event, appends, indexes, and may spawn a run. Hard: it
must answer fast, so the index write may give up. Correct: log first.

**Revisions** (`src/revise.rs`). Forget, correct, flag, retire: a check on the
index, a line in the log, its effect on the index. Hard: the check is of another
moment than the effect. Correct: a person's word is not lowered by automation.

**Cleanup** (`src/clean.rs`). State: three cursors and two flags in the index's
state table, rows of the call ledger, the tombstones in the projects' logs.
Operations, a slice of each in every run: fold the duplicates of a project and ask
a model to label its lessons, once, until the projects or the calls are used up;
label what that left, a few calls a day; move the lessons of the machine from their
projects, once; and `brain restore`, which undoes one run of any of these. Hard: a
run may be killed between any two lines; a person corrects or forgets under no lock
while a model is asked; folds and later lessons go on in between; a move that is
undone leaves its copies. Correct: the last lesson of a fact is not withdrawn, a
person's word stands, a lesson reads once, none is left behind, it comes to an end.

**Maintenance** (`src/maint.rs`; the pass in `src/consolidate.rs`
`drop_old_bodies` and `src/store.rs`). State: the gate file, the window marker,
the cursor of the retention pass, what it dropped and what the last rewrite took
into account, the dates of the last tries, a count of chances per parked session.
Operations: unpark once a day, drop old bodies a slice at a time, look whether a
rewrite is due, wait for quiet, open the window, rewrite the index in place
(`VACUUM`), catch up with what hooks logged meanwhile, record, close; reindex
empties and refills the index under all of them. Hard: the window is a marker
with an age; a hook that saw it open may write after it closed; a slice is read in
one statement and dropped in a later transaction, the counters are read before a
rewrite and recorded after it, and reindex is under no lock. Correct:
no row that was there when the pass began is passed by, a window answers for
every event a hook left to it, one automatic window a day, a chance is counted
before it is given.

**Summarizer ladder** (`src/summarizer.rs`; `src/store.rs` `summarizer_health`).
State: per CLI the failures in a row, a cooldown, the newer model last found with
its date, the model marked as failed; per process the ladder it made. Operations:
look newer models up once a day, order the rungs, call, retry on the pinned
model, record success, failure or wrong content. Hard: the table is shared by a
run and by searches, whose calls must leave no trace; a newer model that fails
must not be charged to the CLI whose pin works; a cooldown must end. Correct: a
CLI that answers well is never left alone, a good model never marked, at most two
rungs a call.

**Injection** (`src/inject.rs`, `src/hook.rs` `inject_for` and `deliver`,
`src/store.rs` for the ledger, `src/maint.rs` for the spill). State: per session
the ids shown (`injected`, with `active`), the files covered, the bytes spent;
`surfaced.jsonl` and its renamed twin; a pending-wipe file. Operations: build a
text, record it, spill what could not be recorded, reset after a wipe of the
context, fold. Hard: hooks of one session run at once and each checks the budget
before it spends; record, reset and fold are several statements; the spill is
renamed and emptied while hooks have it open. Correct: the budget binds, a byte
is charged once, what was shown is on record, a wipe leaves nothing held back
that the agent no longer has.

**Search and ranking** (`src/store.rs`, `src/embed.rs`, `src/rerank.rs`,
`src/xencoder.rs`, `src/tokenize.rs`, `src/onnx_external.rs`). Pure computation.

**Knowledge synthesis and wiki pages** (`src/consolidate.rs`). Lessons learned
from summaries, landed on the one that has the fact or written new, for the project
or the machine; the fold of duplicates; a recheck of those whose files were edited;
pages derived from the index, and hand edits taken back from them.

**Ingest** (`src/ingest.rs`), **export, import, sync** (`src/portable.rs`,
`src/sync.rs`), **team shelf** (`src/team.rs`). Documents cut into chunks that
replace older ones; logs of several machines merged by id; lessons shared in a
git repository.

**Hub** (`src/hub/server.rs`, `client.rs`, `endpoint.rs`). One resident process
that keeps the reranker loaded. State: a lock file of the operating system with a
pid in it, the socket, the marker of the query being scored and the records of
queries that died, notes of readiness, deaths and a wedge, spawn markers per
generation; in the process a queue, one worker, a count of work, the stage of its
retirement. Operations: start, recover, serve, score, retire (idle, new
executable, an older build asked to leave); of a search: probe, claim a spawn,
wait, send, give up, note a death or a wedge. Hard: a hub that leaves gives the
endpoint back before it has finished, so two are alive; a query that kills the
model call must not kill one hub after another; what a client saw of a hub is old
when it notes its death. Correct: the socket is the lock holder's, a request that
was taken is answered unless the process is killed, poison is blocked after so
many kills, nobody who serves is charged with a death, every search ends.

**Self-update** (`src/update.rs`; started by `src/maint.rs`). State: the binary
at its path and `brain.prev`; `update.installed`, `update.prev`, `update.bad` and
`update.failures` in the data directory, the bad list once more in the store; a
lock of the operating system. Operations: take the lock, decide, self-test, mark
bad, record, keep, place; a hook of a fresh install begins, ends, and at the third
failure in a row rolls back. Hard: the files are written plainly and one by one,
so a kill leaves them cut short or of different releases; several hooks reach the
limit at once; a hook that never came back must be told from one that still runs;
the store may be what the new release broke. Correct: what was rolled back never
returns, only a release that failed goes back and only to what it replaced, and a
release that always fails does go back.

**MCP server, setup, doctor, scopes, transcripts, history, config**. Request
loops over the above, editors of configuration files, pure derivations.

How they interact: a hook appends to the log and writes the index, then spawns a
run. A run takes the run lock, catches the index up, claims sessions, asks the
ladder, appends to the log and writes the index and the marks. Cleanup, ingest,
restore and compaction take the same lock; reindex and sync take none. The
compactor keeps runs out by its window and starts one again when it is done.

## 2. Modules

| module | models | extends |
|---|---|---|
| `RunLock` | the lock file, one system call per step | |
| `RunQueue` | asks and all holders of the lock | `RunLock` |
| `Sessions` | one session under several runs | |
| `EventIndex` | one project's log, its index, and everybody who writes them | |
| `Injection` | what one session is shown: ledger, spill, fold, wipe | |
| `Update` | the installed binary: update, watch over a fresh install, rollback | |
| `HubContract` | what the shared reranker promises its callers | |
| `Hub` | hubs and searches: election, endpoint, poison, retirement, client | `INSTANCE HubContract` |
| `Ladder` | which CLI and model a prompt goes to, and what an answer says of them | |
| `Upkeep` | second chances, the retention pass, the compact window, reindex | |
| `Lessons` | what becomes of the lessons: cleanup, labels, move, restore, fold, synthesis, people | |
| `RunQueueProofs`, `SessionsProofs`, `EventIndexProofs`, `InjectionProofs`, `UpdateProofs`, `HubProofs`, `UpkeepProofs`, `LessonsProofs` | theorems; those of `RunLock` are with those of `RunQueue`, those of `Ladder` with those of `Upkeep` | the module and `TLAPS` |
| `MCRunLock`, `MCRunQueue`, `MCSessions`, `MCEventIndex`, `MCInjection`, `MCUpdate`, `MCHub`, `MCLessons`, `MCStores`, `MCUpkeep`, `MCEnds` | the scenarios of the runs | the module; `MCUpkeep` extends `Ladder`, `Upkeep` and `Lessons`, `MCEnds` extends `MCLessons` with instances of `Hub` and `RunQueue` |

Operators commented `Mutant` are not part of any specification: each is a copy of
the action below it with a plausible bug, and shows that a property can fail.

### RunLock

A process is its pid. `lockFile` is the text of the file, `old` whether its mtime
is beyond `STALE`, `take` the place of each process in `take`, `statFresh` the
local `fresh` of `holder_is_alive`. `CreateNew`, `WritePid`, `AlreadyExists`, `Stat`,
`ReadHolder`, `RemoveStale` are its calls, `Touch` and `DropLock` are `touch` and
`Drop`. Making the file and writing the pid into it are two calls: `handle` is who
made the file that is at the path and has yet to write, and a pid written through
the handle of a file that was removed meanwhile goes nowhere. `Crash` kills a process
anywhere, also between these two; `GrowOld` is half an hour without a refresh, which
does not pass between them;
`WearPid` gives a dead run's pid to a process that answers `kill -0`. `stolen`
is a history variable.

### RunQueue

The table is `open`, `taken` and `what`; ids are those SQLite gives out for
`INTEGER PRIMARY KEY`, so a deleted newest id comes back. An ask's content is a
value that stands for its columns. Each process has a `Want`: an ask, the idle
sweep, a brief holder (ingest, restore), or the compactor. The actions follow
`run_in` and `run_idle_in` from top to bottom; `LetsGo` drops the lock before
`Looks` reads the oldest open ask, as the code does, and `Looks` precedes the
take of the lock. What a round does to sessions is an arbitrary set of them
becoming settled. `Refreshes` is `touch`. Each step between two calls of the lock
may be interleaved with anybody's.

### Sessions

Times are kept as what the code compares, never as numbers: `recent` (last run
within the debounce), `aged` (older than the backstop), `fresh` (newer than the
last failed attempt), `since` (runs that began before the last recorded run),
`claimOld` (claim older than `CLAIM_STALE_SECS`). One session stands for all,
because sessions share no row. `Listed` is `sessions_pending` with the parked
filter and, for the sweep, `is_idle_work`; `ShouldWait` is `should_wait`;
`Read`, `Call`, `Append`, `IndexSummary`, `Mark`, `Record`, `After` are
`consolidate_session`; `Errs` is every `?` on the way. A model's answer is a
choice per chunk. `settled`, `narrated`, `told`, `mishaps`, `lost` and `reopened` are
history: `lost` says that a live run's claim went to another one (past the stale
window or by `--force`), `reopened` that a done observation went back on the list.
`mishaps` counts what may cost another narrative: a kill, an error after a model's
page was written, a late hook that reopens, a settled session revived (two if a claim
was on the row), a claim taken from who has it, a claim released that is another's.

### EventIndex

A line is its writer and whether it can be read. One line, the target, is a
page, and the others revise it: `row` is its row, and `Revised` is what
`index_event` does to it for each kind of event. `index_event` is two steps
(`...Inserts`, `...Applies`), because it is several statements outside a
transaction, and so is `store.clear` (`Clears`, then `Unmarks`). A writer killed in
its append may leave half a line (`torn`), which makes the next line unreadable; a
sync writes what it has read and merged over whatever came meanwhile. `written` and
`beside` are history: whose line was ever whole in the log, and who appended between
a sync's reading and its writing. Writers mint an id (`Mint`), append (`Appends`) and index; the
catch-up reads from the watermark (`Opens`, `Probes`, `Marks`), a rebuild clears
and replays in `read_all`'s order, a sync merges first. `Casts` says which
processes a behaviour may have (the others are `away` all the time), `Alone`
which of them run only while no other does. A rebuild reproduces the index only
where `OutOfTurn` are away: who rebuilds or revises without having the machine for
itself, or may be stopped half way; only a cleanup revises among others, under the lock.

### Injection

One session, because sessions share no row. `active` and `known` are the rows of
`injected`, armed or any; `covered` and `spent` its file and its bytes. Each hook
goes through `capture_answering` from the opening of the store: `OpensStore`,
`LooksForWipe`, the three statements of `reset_injection_state` (`ResetsIds`,
`ResetsFiles`, `ResetsBytes`), then `Builds` a text by what `primer`, `for_file`,
`for_prompt` and `for_command` let through, and `deliver`: `Reserves` or
`Refused`, `Notes` one id at a time, `Delivers`; `RecordFails` and `CoverFails`
lead to the spill, whose opening and write are two steps because the file may be
renamed between them (`fd` says where the write goes). The folding run is
`fold_surfaced` with its two passes of `fold_and_empty`, read, transaction,
length check, truncation and rename each a step. Pointers have one width and a
text costs as many bytes as it has pointers; what a hook reads to build its text
is read at one moment; any write may fail, which stands for the maintenance
window (where a hook waits a moment) and for the busy timeout outside it. Lines
of `recalled` and `opened` ids take the same path and are left out. `shown` and
`context` are history: what the agent was ever given and what it still has;
`missed` collects lines that came too late to be folded, `mishap` what
`NoAmnesia` excuses, each named in the comment of the property.

### Update

A binary is its version. `bin` and `prevBin` are the two paths, `installed`,
`prevFile`, `badFile` and `failures` the four files, `badState` the list in the
store, `store` whether the process that holds `lock` could open it. An updater
goes through `unix_run` and `attempt`: `Launches`, `TakesLock` or `TurnedAway`,
`Decides`, then `Records` and `RecordsPrev` (`Record::installing`), `Keeps` and
`Places` (the two renames of `place`). Download, signature, age and self-test are
choices, because nothing here depends on more than their outcome. A hook is
watched from `Looks` (`hook_begin`) on: `Begins` counts those that are gone,
`Ends` counts how it went, and where the limit is reached `rollback` follows:
`ChecksPrev` or `LeavesIt`, `MarksInStore`, `MarksInFile`, `Swaps`, `Closes`,
`Forgets`. `Killed` may strike anywhere and leaves the file being written
empty; `failures` is written under its own lock and is one step. `came`,
`condemned`, `badEnds` and `cut` are history; `cut` says whether such a kill left `update.bad`
empty while it was to name again what had been rolled back before.

### Hub and HubContract

A hub is numbered in the order of its spawning, a request is one call of `rerank`
and one connection, a query is the hash of what is asked; time is a choice.
`main` is a hub's main thread: `TakeLock`, `Truncate`, `WritePid`, `Bind`,
`Record`, `Unmark` and what follows are `serve` from top to bottom, each write to
a file a step; `work` is the worker's loop with the poison marker before the call
and its removal after it; `stage` is the thread of each connection; `retire` is
how far `begin_retire` came. The client is `pc`: probe, spawn claim, wait, send,
the timeouts, the notes. Connections are within their cap and both sides speak one
protocol.

`HubContract` has three variables: the phase of each hub, the fate of each
request, who owes it. `Open`, `Take`, `Answer`, `Close`, `Leave`, `Die` are what a
caller may rely on: one hub takes requests at a time, one that leaves has answered
what it took, only a killed one loses any. `Hub!ImplementsContract` maps the hub's
state to them; `Hub` implements it.

### Ladder

Model 0 of a CLI is its pin, or the model the user named; the others are the newer
ones of the family. A run refreshes (`Starts`, `LookupFails`, `Picks`, `Dates`), makes
a ladder (`Makes`) and calls it; a call is one rung per step with its answer as a choice of
good, of another shape, or bad, recorded as the code does: `Praises`, `Counts`, `Benches`. A search is
advisory: it reads the table and writes nothing, and as it waits a few seconds only, any
call of its may time out, the pin of a sound CLI's included. `TableFails` is every `?`
behind a read or a write of the table: the call ends where it is.

### Upkeep

The run lock is held by one job. A run goes through its day (`Unparks`,
`CountsChance`, `Revives`, `StampsUnpark`), catches up, drops a slice of bodies
in a transaction with cursor and counters (`ReadsSlice`, `CommitsSlice`), and looks
for a window when it has ended; `brain compact` opens one at once. Whether the file is
more than ten times what a rewrite would give back is a choice at each look. The window
is gate, marker, quiet, rewrite, catch-up, record. A hook logs its event, then reads the
marker, and indexes unless the database is held.
`Clears` and `Replays` empty and refill the index at a time when no job runs. `VACUUM` is
atomic, as SQLite promises; how rows ripen and whether the disk has room are
choices. The history variables `mustReach`, `passedBy`, `promised`, `opened` and
`revived` say what a pass, a window and a day owe.

### Lessons

A lesson is its id, ids come in the order of their minting, and lessons with the
same `fact` are what the comparison of titles groups together; that no embedding
model is there to compare them is a choice of `Gathers`. `home` is its project or
the machine, `shown` the column `forgotten` (`"cleaned"` is 2, what a cleanup withdrew;
`"forgotten"` is 1, what a person did), `label` class and scope, `link` the lesson
it is a copy of, `tombs` the cleanup's tombstones with their run ids. Everything but
the person holds the run lock, so there is one runner, and `at` is where it is:
`pass`, then either `run_pass` (job `clean`) or `label_remainder` (`daily`) followed
by `move_to_machine` (`move`, and the fold after it, `settle`), then the fold and
the synthesis of the projects it visits (`fold`), or a `restore`. `cur` is the
cursor in memory, `saved` what is in the state table: only what was saved survives
`Killed`. `StoreFails` is a line or a row that cannot be written or read: the job leaves
by `?` where it is, and `pass` goes on with the move, or the run with its rest. The fold
and `dedupe` share `Gathers`, `Decides` and `Withdraws`, and differ
in `Survivors`. `Asks` spends rows of the ledger, `Answers` reads who was corrected
after the model has answered, `LabelsOne` and `Strikes` are two steps because they
are two lines. A class is kept only as what it does: the lesson stays in its project,
goes to the machine, or is withdrawn. Ids of runs are the smallest that is not in
use, which keeps their number small and tells them apart as ULIDs do. `cause` and
`stood` are history: why a lesson was last withdrawn, and who of those in hand was
corrected when they were judged.

`MCUpkeep` checks `Ladder`, `Upkeep` (in three parts, each with the processes, the
rows and the sessions it is about) and `Lessons` in one run, `MCEnds` the liveness
of `Lessons`, `Hub` and `RunQueue`: parts that share no state, of which a behaviour
has one. `MCSessions` does the same with two scenarios
of `Sessions`, a gentle and a rough one, and `MCStores` holds the stores `Lessons`
begins with: each has what shows one group of hazards, and a record of how much of
the bounds it has used up already.

## 3. Runs

| run | configuration | what it shows |
|---|---|---|
| `queue` | `MCRunQueue.cfg` | An ask run that may be killed and its pid worn, with two others: the idle sweep and an identical ask, the sweep and an ask of other content, the compactor and that ask, or the compactor, the sweep and the run `finish_yield` may start; errors, budget, drain limit. The lock file names a holder or the dead; exclusion breaks only by a takeover of a live holder's file; no ask is served twice at once; an ask left open is explained. 2.0 million states. |
| `sessions` | `MCSessions.cfg` | Gentle: a run that may be killed and an idle sweep, with errors. Rough: a forced run beside an ordinary one, claims that go stale under live runs, hooks that index late. In both nothing is lost, each further narrative costs a mishap of its own, two runs share a session only after a claim was lost, and only reopened work is stranded. |
| `index` | `MCEventIndex.cfg` | Five casts. In three, a page, a person's forget and a cleanup's at once, with a kill that may tear a line, failing writes and two of: a catch-up, one that may fail, a rebuild. In the fourth, synthesis, a person, a cleanup and a restore write about the page in turn and a sync merges another machine's. In the fifth a sync merges beside a person's forget, which may be killed, and the writer of another page. A line is lost only beside a merge or behind a torn one, the index holds nothing that was not in the log, the watermark tells the truth, the forget is never lowered, a line whose writer failed or died is indexed in the end, and where people take turns a rebuild gives back the same row. 343 thousand states. |
| `injection` | `MCInjection.cfg` | The primer after a wipe and a file hook, every write may fail, hook and fold may be killed: budget, single charge, record and no amnesia. 2.5 million states. |
| `update` | `MCUpdate.cfg` | An updater, two hooks, three releases of which the last always fails, one mishap anywhere: what was rolled back stays away, a rollback is earned, it goes from what failed to what that replaced, and what always fails is rolled back. 790 thousand states. |
| `hub` | `MCHub.cfg` | Two searches of two builds that ask what kills the model call, and two hubs, one leaving while the other takes over: the socket is the lock holder's or a dead hub's, a query kills no more hubs than the limit, a live holder is never charged with a death, and the whole implements `HubContract`. |
| `upkeep` | `MCUpkeep.cfg` | The ladder called by a run and a search; a retention pass with restarts and a reindex; two runs that unpark and look for a window; a run, `brain compact` and a hook; four stores of lessons under cleanup, labels, move, folds, synthesis, restores, a kill and a person. No mishap blames who answered, upkeep is rationed, a window answers for its hooks, retention skips nothing; no fact is lost to tidying, a lesson reads once, the move leaves none behind, and what a person said stands. 1.65 million states. |
| `ends` | `MCEnds.cfg` | The cleanup, its labels and the move, whatever the models answer, come to an end; a hub that began to retire goes away and every search ends, with one kill, new executable or passing of time anywhere; a run, the idle sweep, the compactor and the run it starts again all end. 119 thousand states. |
| `run_lock_two` | `MCRunLockTwo.cfg` | Finding: a run that met the file of one that then ended removes the file a third has just made; both hold the lock, and none was dead. |
| `lessons_split` | `MCLessons.cfg` | Finding: a move that was killed before it saved its cursor goes on under another run id. |
| `index_forget` | `MCEventIndexForget.cfg` | Finding: a forget whose writer died between row and effect never takes effect. |
| `injection_lesson` | `MCInjectionLesson.cfg` | Finding: a lesson shown before a context wipe is never offered again. |

### Bounds

- Processes: three at a time of five in `queue`, three in `run_lock_two`, each of which takes the
  lock once (a holder that ends, a run that met its file, a third that comes between), four of `RunQueue` in `ends` (one of each
  role and the run `finish_yield` starts), two runs in `Sessions` (every hazard
  there is a pair: claimer and taker-over, recorder and lister; the kill of one
  is what makes the other a third); in `EventIndex` three writers at once with one
  or two catch-ups and a rebuild (catch-ups exclude each other by the run lock and
  start again without limit; there are two where one of them may give up), four
  writers in turn with a catch-up and a sync, and two with a kill beside a sync (one
  that tears a line, one that lands on it or beside the merge), whose lines a catch-up
  reads when all are at rest.
- `MaxDrain = 1` (3 in the code): the sweep reaches the limit with the second ask it finds.
- `MaxEvent = 2` or `3`, `MinPending` 1 or 2, `ParkAfter` 1 or 2 (3 and 3 in the
  code): small enough that a session is listed, waits and is parked within the
  observations there are. `MaxEvent` is 3 where a session must be cut in two and
  not be quiet.
- Contents: a session without force, the same with force, and everything.
- `Kind` assigns the lines; the casts together have all seven kinds.
- `Hub`: two searches, one of each build (what one does to another needs two), two
  hubs where one must take over from the other and one where a search is to end;
  `CrashLimit = 1` instead of 2 (one record blocks, so two hubs show it; that the
  limit is a limit shows in the mutant), `DeathsToLock = 2` instead of 3, one
  mishap from outside, in `hub` when one of the two calls is never made.
- `Ladder`: two CLIs, one of which has newer models (two of them, so that one may
  be marked and another tried), `Threshold = 2` instead of 3, `RungsPerCall = 2` as in
  the code, one run and one search.
- `Upkeep`: three rows with a span of two and a slice of one (a pass has more than
  one span and a span more than one slice), `MinReclaim = 2`, one chance instead of
  three, one mishap, one reindex, which comes while no job runs (what it does
  beside one is said in section 4). The pass has one run and no sessions; the two
  runs have one session, the run with `brain compact` one hook, and in both one row
  may be dropped.
- `Lessons`: two projects and the machine, two facts of which one may not leave its
  project, six ids (two lessons, and room for copies and what a synthesis adds), `Batch = 2`
  (all of a store in one batch, so that the guard against withdrawing most of it
  counts), two calls for the cleanup and one a day, `Patience = 2` instead of 3, one
  visit of a run to a place, two acts of a person or one and a kill. The four stores of
  `MCStores` are a cleanup that has yet to run over duplicates of which one is
  corrected, a sweep of the daily labels, and two moves, one beside a kill and one
  beside two acts; the bounds each has already used up keep their product small.
- `Injection`: two hooks, one of which wipes and one that does not (every race
  there is between two hooks, or a hook and the fold), two interchangeable
  pointers (hence the symmetry: no property tells them apart, none is a liveness
  property), `Cap = 1`
  so that both together do not fit. The fold starts again without limit;
  `Rounds = 4` is the code's own. The same scenario with `Cap = 2`, where one text
  carries both pointers and its record fails between them, holds as well (11.2
  million states, four minutes on four workers); it is not listed because of its
  length.
- `Update`: one updater (two exclude each other by the lock, and one starts again
  without limit), two hooks (one that counts or waits while the other ends or rolls
  back), three releases (the one at first, a good one between, and one that fails
  every hook), `FailLimit = 2` instead of 3 (a row of failures, reached by two
  hooks or by one twice), `MaxMishap = 1`: one kill, failed rename, unrecorded end
  or run by hand within the hour. What two mishaps do is said in section 4.

No state is cut off by a constraint. `CHECK_DEADLOCK FALSE` is set everywhere:
the processes end, and a system in which all have ended has stopped rightly. A
configuration that finds a violation has the fewest processes that show it.

### Fairness

`RunQueue!Fairness` is weak fairness of each process's steps: a process that was
started keeps running, waits for nobody (the lock is tried, never waited for) and
has its model calls cut off by their own timeout. Captures, kills, `touch` and
the clock have none. `EventIndex!LiveSpec` adds strong fairness of a catch-up's
start: every session end and every session start on a backlog spawns a run, and
the lock it needs is free again and again because its holders end. Weak fairness
of a writer holds only once it has begun. `Update!Fairness` is weak fairness of
each updater's and hook's steps once it was started and of hooks coming (a release
is watched by the hooks of a host that is in use), and strong fairness of
`TakesLock` by a hook: an update runs once a day and its lock ends with it.
`Hub!LiveSpec` is weak fairness of each hub's threads and each search's steps,
and strong fairness of a client's giving up: threads of a started process run, and
every wait in the client has a deadline. `Lessons!Fairness` is weak fairness of a run's
steps, of runs being started and of days passing, and strong fairness of what a run
does while its time is not up: each invocation has ninety seconds for the cleanup, and
not every one is out of time before its first step.

## 4. Findings

The four `violation` runs each check one sentence of the repository against the
code: "One run at a time, machine-wide." (`run_lock_two`), "Rereading is safe,
because only ids the store lacks are indexed" (`index_forget`), and that without a
reset "the guard that stops us repeating ourselves would instead guarantee amnesia"
(`injection_lesson`: `lesson_for_command` asks for any row, the reset only
deactivates), and that the run id is on "every tombstone of the move"
(`lessons_split`: it is saved only with the cursor, after a batch). `PROJECT.json` "findings" quotes them with their lines.

The modules also state properties the code does not meet and no run lists; each
can be seen by adding it to a configuration:

- `RunLock!DeadRunBlocksNobodyPastTheTimeout`: a worn pid answers, and then the
  age of the file is not looked at.
- `RunQueue!NoAskIsLeftOpen` (brief holders drain nothing) and
  `RunQueue!NoYieldIsForgotten` (a note written after the compactor looked).
- `RunQueue!ServesWhatTheRowAsks`: a deleted newest row's id comes back, and a
  run that had looked at the old ask consumes the new one unread.
- `Sessions!FlooredStaysPending`: "the events stay unconsolidated so a working CLI
  redoes this later" (`src/consolidate.rs` 1360-1361); a session of which one part
  was written by a model and another by the floor is marked done whole.
- `Hub!CrashRecordsAreDeaths` and `Hub!OnlyDeathsAreCharged`: a hub that recovers
  while its predecessor still scores reads that one's marker as a death
  (`src/hub/server.rs` 311-312 says otherwise), and a client notes the death of a
  hub that left of its own accord (`src/hub/client.rs` 171-172).
- A reindex beside a run, which `MaxRebuild` keeps apart (`src/store.rs` 6448-6454):
  beside a compactor it leaves `compact_dropped_bytes` ahead of
  `retention_dropped_bytes`, beside a pass it leaves a cursor behind, and the rows
  below it are looked at only by the next pass.
- `Sessions!ForceNeverRetells` (a session settled as quiet after a model told
  it is reopened whole) and `Sessions!OnlyFailuresAreCounted` (a session found
  empty counts as written by the floor).
- `EventIndex!FlagsCountOnce` and `EventIndex!NewestCorrectionWins`: a catch-up
  and the writer itself both apply a line; two corrections reach the index in
  the other order than their ids.
- `Injection!FoldRearmsNothingWiped` (`src/maint.rs` 258-262): a line spilled
  before a context wipe and folded after it marks its ids as shown again.
- Not stated apart, but visible in `missed`: a line that lands between the length
  check and the truncation, or in the renamed file when the next spill is renamed
  over it, is lost, although `src/maint.rs` 259-261 says a later fold takes it.
  And a record that fails after its reservation is charged once more by the fold,
  which is why `BudgetBinds` has `folded` on its right.
- Not stated apart, but excused in `Update!CondemnedStaysAway` by `cut`: a hook is
  killed between its swap and the closing of the record, so the record is still fresh;
  another hook of that release, still running, rolls back too and is killed while it
  rewrites `update.bad`, which leaves it empty; if the store could be opened neither
  time, the release is installed again. It takes these two kills
  (`OneMishapIsNotEnough`); with one mishap, as in the run, nothing sets `cut`. The
  safety properties and the invariant of their proof hold with two mishaps as well
  (2.6 million states, liveness not checked).
- Not stated apart: `update.prev` is the version the updater was built as
  (`src/update.rs` 647). If the path was replaced after the updater was started and
  before it got the lock, `brain.prev` is another version than the record says, and
  a later rollback is refused.
- `EventIndex!NoAppendedLineIsLost` (`src/event.rs` 318-319): the half line of a
  writer killed in its append makes the next writer's line unreadable, though that one
  was told it is in the log, and what lands between a merge's reading and its writing
  is overwritten. `LossIsExplained` says that nothing else is lost.
- `EventIndex!WatermarkTellsTheTruth` where a rebuild may be killed: between the
  deletion of the rows and that of the watermarks, which `src/store.rs` 6448-6450 says
  must not be left behind, the statements of `clear` being in no transaction; and after
  it, where a catch-up has already moved the watermark over lines the rebuild still owed.
- `Lessons`, where the behaviour is excused or outside what the properties say: a
  restore that is killed before `retire_machine_copies` is not completed by another
  one, which finds nothing left to bring back, so a lesson and its copy stay live
  (`LessonReadsOnce` is stated for runs that neither a kill nor a store error stopped
  half way). A label is written before its tombstone; a kill or an error between the two leaves a lesson labelled for withdrawal and live,
  and no later pass looks at it. A lesson that a person forgets or corrects after the
  move has read its batch is copied to the machine all the same (`src/clean.rs` 618
  reads it once for a hundred). A lesson learned on the machine and folded into a copy
  is gone for the other projects when the move is restored, because the copy is
  withdrawn; tombstones of folds on the machine are in the machine's log, which a
  restore does not read (`src/clean.rs` 887: the known projects). A sweep that labelled
  some lessons but found as many new ones is taken for stuck (`src/clean.rs` 531). A
  day's run id is saved with the first batch, so a kill before it puts two ids into one
  day. A restored lesson may be withdrawn again by a label or a recheck, which ask only
  who was corrected.
- With other constants: `ClaimIsExclusive` where a live run may outlast its claim.

## 5. Proofs

Every theorem holds for all values of the constants that satisfy the named
assumptions of the module (`RunLockAssumption`, `NotAPid`, `RunQueueAssumption`,
`SessionsAssumption`, `EventIndexAssumption`, `InjectionAssumption`,
`UpdateAssumption`, `HubAssumption`, `LadderAssumption`, `UpkeepAssumption`,
`LessonsAssumption`), which TLC evaluates in the runs.

| module | theorem | of |
|---|---|---|
| `RunQueueProofs` | `LockTypeCorrect` | `LockSpec`, type correctness |
| | `FileNamesAHolder` | `FileNamesAHolderOrTheDead` |
| | `TakeoverIsTheOnlyBreak` | `OnlyATakeoverBreaksTheLock` |
| | `QueueTypeCorrect` | `TypeOK` |
| | `AskServedByOne` | `NoAskServedTwiceAtOnce` |
| | `OpenAsksExplained` | `OpenAsksAreExplained` |
| `SessionsProofs` | `SessionTypeCorrect` | `TypeOK` |
| | `NothingIsEverLost` | `NothingIsLost` |
| | `ClaimsAreSharedOnlyWhenLost` | `OnlyALostClaimIsShared` |
| | `WorkIsStrandedOnlyByReopening` | `OnlyReopenedWorkIsStranded` |
| | `EveryRetellingIsPaidFor` | `RetoldOnlyAfterAMishap` |
| | `PromptRunsAreExclusive` | `ClaimIsExclusive`, for runs that do not outlast their claim and are not forced |
| `EventIndexProofs` | `EventIndexTypeCorrect` | `TypeOK` |
| | `ForgetStands` | `ForgetIsFinal` |
| | `EveryLossIsExplained` | `LossIsExplained` |
| | `IndexHoldsOnlyTheLog` | `IndexIsDerived` |
| | `TheWatermarkIsTrue` | `WatermarkTellsTheTruth`, where nobody works during a sync and no rebuild is killed (`SyncsApart`, `RebuildsFinish`) |
| | `ReplayingCostsNothing` | `RebuildReproducesInTurn` |
| `InjectionProofs` | `InjectionTypeCorrect` | `TypeOK` |
| | `BudgetIsKept` | `BudgetBinds` |
| | `BytesAreOwedOnce` | `OwedOnce` |
| | `ShownIsOnRecord` | `NothingShownIsForgotten` |
| | `NothingIsForgottenAndHeldBack` | `NoAmnesia` |
| `UpdateProofs` | `UpdateTypeCorrect` | `TypeOK` |
| | `RollbackHadItComing` | `RollbackIsEarned` |
| | `CondemnedNeverReturns` | `CondemnedStaysAway` |
| | `OneMishapIsNotEnough` | that what was rolled back is at the path only after two mishaps |
| | `OnlyBackToWhatItReplaced` | `RollsBackWhatFailed` |
| `HubProofs` | `TypeCorrect` | `TypeOK` |
| | `EndpointHeld` | `EndpointIsHeld` |
| | `NotCharged` | `HolderIsNotCharged` |
| | `KillsStayLimited` | `KillsAreLimited` |
| | `ContractImplemented` | `ImplementsContract`: the refinement of `HubContract` |
| `UpkeepProofs` | `UpkeepTypeCorrect` | `UpkeepTypeOK` |
| | `UpkeepStaysRationed` | `UpkeepIsRationed` |
| | `LeftEventsAreAnswered` | `WindowAnswersForItsHooks` |
| | `PassesByNothing` | `RetentionKeepsItsBooks` |
| | `LadderTypeCorrect` | `LadderTypeOK` |
| | `SoundVendorStays` | `SoundVendorsStayInService` |
| | `GoodModelStays` | `GoodModelsAreNotSetAside` |
| `LessonsProofs` | `LessonsTypeCorrect` | `LessonsTypeOK` |
| | `NoFactIsLost` | `FactsSurvive` |
| | `NoLessonReadsTwice` | `LessonReadsOnce` |
| | `TheMoveLeavesNoneBehind` | `NoneLeftBehind` |
| | `PeopleAreNotOverruled` | `WhatPeopleSaidStands` |

The inductive invariants, and why they are needed:

- *Lock.* That the file names a holder or the dead is inductive with the types.
  That exclusion is broken only by a takeover needs more: while nothing was
  stolen, a holder's pid is in the file, or the file is blank and its one maker has yet
  to write (`HolderMadeTheFile`), so a create_new cannot succeed beside it.
- *Queue.* An ask that is being served is taken, and no two processes serve one
  id; new ids are above every row, and a row in use is not purged. The lock does
  not occur in the argument, which is why it holds even where the lock is broken.
- *Excuses.* `ExcuseInv`: an open ask is attended by a run that cannot end before it
  has looked at the open asks, or is excused. Whoever stops attending has looked after it let go of the
  lock and found nothing open, or leaves an excuse (a death, an error, a limit, a
  holder that drains nothing).
- *Sessions.* `NothingIsLost` alone is not inductive: a run between its append
  and its marks must be known to have a page in the log that links what it is
  about to mark, and a catch-up about to mark must hold only links of model
  pages. The invariant says, for each place of a run, where what it holds is
  already safe.
- *Exclusive claim.* `HolderWorks`: while no live run has lost its claim, a live run
  between claim and release is the one in the row. That a claim is never lost where
  it ages only under the dead and nobody forces is the corollary.
- *Stranding.* `StrandInv`: while nothing was reopened, the newest observation that
  the last recorded run covered is done, and a run that is about to record holds
  every observation it listed.
- *Retelling.* `RetoldInv` is a balance: for each observation, the narratives told,
  those that runs without the claim may still tell, and one more that the holder, or
  the next one, may tell, are together at most one and the mishaps. It needs `WorkInv`, which says what
  the lists of a run hold at each place. Trying to prove it showed mishaps that the
  model did not count and that only four or more runs bring about; they are counted now.
- *Log.* `WrittenFirst`: what is in the index, in hand or in a copy was in the log once,
  and a writer appends at most once (`AppendOnce`). `LossInv` is a balance: lines that were
  spoiled, with one more while the file ends in half a line, are no more than the writers
  killed in their append. That merges lose nothing else needs that a sync shows what the log
  shows but for what was appended beside it (`SyncsHoldTheLog`). For the replay
  `TruthInv` says more where syncs are apart and no writer is killed: the log has every line.
- *Watermark.* A line is covered if it has its row or a rebuild under way will give it
  one. `MarkInv`: what a catch-up has passed and what is below the watermark is
  covered - but between a merge and its rebuild's dropping of the watermark, when the
  log is another. That the index has the row is not inductive: a rebuild empties it under a
  catch-up that then moves the watermark.
- *Replay.* `Replay` is defined by recursion on the set of lines. That it exists, and
  what it gives, is argued from a least counterexample among the subsets of the finite
  `Writer` (`SmallestSet`, from the library's well-founded order on finite sets), for
  the induction theorems themselves take an operator. So: without the target there is
  no row, cleanups leave its wording, pages of others and later ids change nothing, and
  a revision minted last comes last (`ReplayOfOneMore`). `OrderInv` says who keeps to
  himself, who holds the lock, and that ids grow and are their writer's. Equality of row
  and replay is not inductive, for between its two statements a revision has its row and
  no effect: `RowIsReplayed` leaves such lines (`Halfway`) out. That the one which then takes
  effect comes last in the replay is `NewestRevises` for a writer and `RebuildsGoInOrder` for a
  rebuild; that a catch-up, which knows no order, never has a revision in hand is
  `WritersBringTheirs` and `CatchUpsBringPages`; that the target's own line is not
  inserted over what revised it is `NothingToRevise` and `TargetCameFirst`, where
  only cleanups may come before its writer has indexed it, and they leave the
  wording alone.
- *Budget.* `spent <= Cap + folded` needs an account of the open transaction:
  what it adds to `spent` it adds to `folded` when it commits, and nobody else
  writes meanwhile.
- *Debt.* `DebtInv` counts pairs of a spilled line and a pointer that has no row yet:
  what was charged and the pairs still to be folded are together never more than what
  was spilled, in the tables and, apart from them, in the open transaction.
- *Amnesia.* `AmnesiaInv`: what is armed the agent has, or a hook is about to give it,
  or a hook whose event wiped the context has not acted on it yet. That must be known
  not only where no wipe waits but also while a waiting one has been applied by a
  hook that is about to remove its file.
- *Record.* A hook that is about to deliver has each of its ids in a row or in a
  spill; while it notes them, those no longer on its list have a row; what the
  fold has read and not yet emptied has, or its transaction will give it, a row.
  Only then do emptying and renaming lose nothing but `missed`.
- *Rollback.* For the version in `update.failures`, the count together with the
  pids that will be found gone never exceeds the bad ends there really were; who
  is due, or past the limit on the way to the lock and the swap, has earned it.
  The count must be compared up to the limit, and the file must be known to hold
  only pids of hooks that were watched at that version.
- *Way back.* `StayInv` says what the files of the data directory have to do with each
  other and with whoever is under `update.lock`, which is one process at a time. Of the
  releases that were rolled back only the latest could come again, and the list has
  that one; a hook that goes back has found the record of its release, and is of the
  release at the path, unless that has gone back already, when path and `brain.prev`
  are the same. A release that comes later was never rolled back. `TwiceInv` adds that
  without a mishap the window is closed before the lock is free, so no hook rolls back
  what another one has.
- *Hub.* `EndpointInv` ties the socket, the lock, the title and the listener
  together at every place of the main thread: only who holds the lock unlinks or
  binds, and it gives the listener up first. `ChargeInv` bounds what a client may
  still note of a hub by what it read. `KillInv`: one hub at a time may write
  `hub.inflight`, a retired one with work in hand included; the marker is of what that
  hub scores; every kill of a query is in the crash record or still in the marker; and
  what was let in is below the limit. The refinement goes step by step: each action
  of `Hub` is shown, under the invariant, to be a step of `HubContract` or a stutter.
- *Ladder.* `SoundVendorsStayInService` needs where a call stands (`CallInv`: what is
  being called is in the ladder, the model is the pin or what was found), whom a
  failure would blame (`BlameInv`) and that a retry is on the pin (`RetryInv`).

- *Upkeep.* `UpkeepInv`: who is in a run or a window has the lock (`OneWorks`), so what
  it read of the counters, the cursor and the parked stays true until it uses it. A
  chance is counted before it is given, so between the two a session has been revived
  less often than its chances. One automatic window more than mishaps, and only where the day is
  spent or that window is still at work (`WindowsCount`). While a compactor is in its window
  the counter is what it read, and from the rewrite to the record no dropped body is left to
  reclaim (`BooksAgree`). What a pass owes is past the cursor, past what the run has
  read, or in its slice (`PassReaches`); that the cursor of a full slice leaves nothing out
  is `SliceReaches`, a fact about the first rows of a finite set, which the
  library's well-founded order on finite sets gives. That a window answers for its hooks
  rests on the order of two steps on either side (`HooksAreSeen`): a marker is of a window
  that has not caught up yet, and who has seen one has logged.
- *Lessons.* What is in hand was live when it was taken and only a person may have acted on
  it since (`InHand`); lessons to withdraw leave one of their fact behind. That is not yet
  inductive for `FactsSurvive`: the one left behind may be judged, moved or folded later, so
  `Told` follows it, and a copy is taken away only by a restore, which must be known to bring
  back every lesson of its run first (`Bringing`) - all the moved ones, if the move was one
  run. That a lesson reads once needs that a lesson with a tombstone is not live but where
  it was restored (`Records`): only then does what the move takes up have no tombstone of a fold,
  which a restore of the fold's run would undo without looking for copies. `NothingLeft`
  says that no label is due once the move has begun, and that up to its cursor everything is gone or
  may stay; the cleanup's flag (`Flags`) keeps `run_pass` from labelling after that.

Type correctness is proved for these modules and is, but for the three that `upkeep`
composes, not among the properties of their runs; `AllTypesOK` of that run is the
conjunction of what `LadderTypeCorrect`, `UpkeepTypeCorrect` and `LessonsTypeCorrect`
prove. Only model-checked: liveness (`EveryRunEnds`, `EveryLineIsIndexed`,
`BrokenIsRolledBack`, `RetiringHubsLeave`, `EveryCallEnds`, `CleanupIsOver`), which
is out of the prover's reach.

## 6. Not modelled

- Ranking, tokens, embeddings and the reranker's numbers: pure computation over one
  snapshot. What wording, widths and prompts look like: data no property tells apart.
- Downloads, encryption, archives, git remotes: I/O with one writer, whose outcome is
  a choice where a module needs it (`Update`).
- Wiki pages: what is written into the vault is derived from the index; an error in
  writing one is part of `Errs` in `Sessions`. The hand edits a run takes back from
  the pages (`adopt_hand_edits`) do keep state between processes and are in the plan.
- The team shelf, ingest's chunks, setup and uninstall, doctor, the MCP server,
  scopes, transcripts, history and configuration.
- Of the modelled parts: the operator's stop of a hub, peers of another protocol,
  the cap of connections, the ten minutes after which a request that was begun is
  given up (`REPLY_CEILING`) and the ageing of notes: a lockout, once there, stays (`Hub`); the spawn marker and the cap of the bad list
  (`Update`); `recalled` and `opened` lines (`Injection`); whether a synthesis is due
  and what it cites (`Lessons`).

File locks of the operating system and SQLite's transactions are taken to do what
they promise.

## 7. Plan

What is left, in the order of its worth:

1. **Pages.** Hand edits taken back from the vault, against folds and rewrites of the
   same page. Property: no edit a person made is overwritten.
2. **Team shelf and ingest.** Shared lessons read back by a rebuild; chunks that
   replace older ones under a kill.
3. **Setup.** Edits of the hosts' configuration, and their undoing.
4. **Proofs**: `RunLock` against an abstract mutex for takers that never judge a live
   holder stale.

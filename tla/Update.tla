------------------------------- MODULE Update -------------------------------
(***************************************************************************)
(* The self-update of the installed binary and its way back (update.rs). A *)
(* run of `brain update` puts a newer release over the binary's path, keeps *)
(* the old one as brain.prev, and leaves a record; hooks of the release     *)
(* just installed count how they end, and the one that finds too many       *)
(* failures puts brain.prev back and marks the release bad.                 *)
(*                                                                         *)
(* A binary is its version. Whether a release may be downloaded, verified   *)
(* and tried is a choice; what the store keeps beside the files of the data *)
(* directory is modelled for the bad list only, the rest is for doctor. A   *)
(* file that is opened and locked is both at once.                          *)
(***************************************************************************)
EXTENDS Integers, FiniteSets

CONSTANTS
  MaxVersion,  \* releases 1..MaxVersion
  Broken,      \* those whose every hook fails
  Hook,        \* pids of hooks
  Updater,     \* runs of `brain update`
  FailLimit,   \* FAIL_LIMIT
  MaxMishap    \* bound on kills, refused locks, failed renames and runs by hand

Version == 1..MaxVersion
Process == Hook \cup Updater
Free    == "free"

ASSUME UpdateAssumption ==
  /\ MaxVersion \in Nat \ {0} /\ Broken \subseteq Version
  /\ IsFiniteSet(Hook) /\ Hook \cap Updater = {} /\ Free \notin Process
  /\ FailLimit \in Nat \ {0} /\ MaxMishap \in Nat

VARIABLES
  bin,        \* version at the path of `brain`
  prevBin,    \* version of brain.prev; 0: there is none
  installed,  \* update.installed, and whether it says the last hour
  prevFile,   \* update.prev; 0: none, or cut short
  badFile,    \* update.bad
  badState,   \* update_bad in the store
  failures,   \* update.failures
  lock,       \* who holds update.lock
  store,      \* the holder of the lock could open the store
  latest,     \* the latest release
  pc, ver, cand, due,  \* each process's own: place, own version, candidate, due
  came,       \* history: what the path held before a version was placed
  condemned,  \* history: versions that were rolled back
  badEnds,    \* history: hooks of a version that failed, died or went unrecorded
  cut,        \* history: update.bad was cut short while it was to name such a version again
  mishaps     \* how many there were

fileVars  == <<prevFile, badFile, badState>>
local     == <<ver, cand, due>>
ghosts    == <<came, condemned, badEnds, cut>>
vars == <<bin, prevBin, installed, fileVars, failures, lock, store, latest, pc, local, ghosts, mishaps>>

NoRecord   == [version |-> 0, recent |-> FALSE]
NoFailures == [version |-> 0, count |-> 0, pids |-> {}]

Init ==
  /\ bin = 1 /\ prevBin = 0 /\ installed = NoRecord /\ prevFile = 0
  /\ badFile = {} /\ badState = {} /\ failures = NoFailures
  /\ lock = Free /\ store = TRUE /\ latest = 1
  /\ pc = [p \in Process |-> "idle"]
  /\ ver = [p \in Process |-> 0]
  /\ cand = [u \in Updater |-> 0]
  /\ due = [h \in Hook |-> FALSE]
  /\ came = [v \in Version |-> 0] /\ condemned = {}
  /\ badEnds = [v \in Version |-> 0] /\ cut = FALSE
  /\ mishaps = 0

Is(p, at)   == pc[p] = at
Move(p, to) == pc' = [pc EXCEPT ![p] = to]

\* A process that ends lets go of the lock, as one that dies does.
End(p) ==
  /\ Move(p, "idle")
  /\ ver' = [ver EXCEPT ![p] = 0]
  /\ cand' = IF p \in Updater THEN [cand EXCEPT ![p] = 0] ELSE cand
  /\ due' = IF p \in Hook THEN [due EXCEPT ![p] = FALSE] ELSE due
  /\ lock' = IF lock = p THEN Free ELSE lock
  /\ store' = IF lock = p THEN TRUE ELSE store

Mishap == mishaps < MaxMishap /\ mishaps' = mishaps + 1

\* Counts are compared with the limit only, so they stop there.
Capped(n) == IF n < FailLimit THEN n ELSE FailLimit
BadEnd(v) == badEnds' = [badEnds EXCEPT ![v] = Capped(@ + 1)]

BadList == badFile \cup (IF store THEN badState ELSE {})

(***************************************************************************)
(* update.lock, tried once                                                 *)
(***************************************************************************)
TakesLock(p) ==
  /\ Is(p, "lock") /\ lock = Free
  /\ lock' = p
  /\ store' \in BOOLEAN
  /\ Move(p, IF p \in Updater THEN "decide" ELSE "read")
  /\ UNCHANGED <<bin, prevBin, installed, fileVars, failures, latest, local, ghosts, mishaps>>

\* Another update is running; or the next hook will roll back.
TurnedAway(p) ==
  /\ Is(p, "lock") /\ lock # Free
  /\ End(p)
  /\ UNCHANGED <<bin, prevBin, installed, fileVars, failures, latest, ghosts, mishaps>>

\* Mutant: the version is only remembered where the store can be opened.
MarksInFileUnlessInStore(p) ==
  /\ Is(p, "markfile")
  /\ badFile' = badFile
  /\ Move(p, IF p \in Hook THEN "swap" ELSE "done")
  /\ UNCHANGED <<bin, prevBin, installed, prevFile, badState, failures, lock, store, latest, local, ghosts, mishaps>>

\* mark_bad: the list in the store, then in the file.
Marked(p) == IF p \in Updater THEN cand[p] ELSE ver[p]
MarksInStore(p) ==
  /\ Is(p, "mark")
  /\ badState' = IF store THEN BadList \cup {Marked(p)} ELSE badState
  /\ Move(p, "markfile")
  /\ UNCHANGED <<bin, prevBin, installed, prevFile, badFile, failures, lock, store, latest, local, ghosts, mishaps>>

MarksInFile(p) ==
  /\ Is(p, "markfile")
  /\ badFile' = BadList \cup {Marked(p)}
  /\ Move(p, IF p \in Hook THEN "swap" ELSE "done")
  /\ UNCHANGED <<bin, prevBin, installed, prevFile, badState, failures, lock, store, latest, local, ghosts, mishaps>>

(***************************************************************************)
(* brain update                                                            *)
(***************************************************************************)
\* Started once a day (spawn_update), when an install of the last run is past
\* its hour; sooner only by hand.
Launches(u) ==
  /\ Is(u, "idle")
  /\ IF installed.recent THEN Mishap ELSE UNCHANGED mishaps
  /\ ver' = [ver EXCEPT ![u] = bin]
  /\ Move(u, "lock")
  /\ UNCHANGED <<bin, prevBin, installed, fileVars, failures, lock, store, latest, cand, due, ghosts>>

\* decide, with the version this process was built as; what passes is put to
\* the self-test, and a release that fails it is marked bad.
Decides(u) ==
  /\ Is(u, "decide")
  /\ latest > ver[u] /\ latest \notin BadList
  /\ cand' = [cand EXCEPT ![u] = latest]
  /\ \E passed \in BOOLEAN : Move(u, IF passed THEN "record" ELSE "mark")
  /\ UNCHANGED <<bin, prevBin, installed, fileVars, failures, lock, store, latest, ver, due, ghosts, mishaps>>

\* Not newer, marked bad, too young; a download, a signature, a directory that
\* will not do.
StaysPut(u) ==
  /\ pc[u] \in {"decide", "done"}
  /\ End(u)
  /\ UNCHANGED <<bin, prevBin, installed, fileVars, failures, latest, ghosts, mishaps>>

\* installing: the record comes before the rename ...
Records(u) ==
  /\ Is(u, "record")
  /\ installed' = [version |-> cand[u], recent |-> TRUE]
  /\ Move(u, "recordprev")
  /\ UNCHANGED <<bin, prevBin, fileVars, failures, lock, store, latest, local, ghosts, mishaps>>

\* ... and calls what is replaced by this process's own version.
RecordsPrev(u) ==
  /\ Is(u, "recordprev")
  /\ prevFile' = ver[u]
  /\ Move(u, "keep")
  /\ UNCHANGED <<bin, prevBin, installed, badFile, badState, failures, lock, store, latest, local, ghosts, mishaps>>

\* place: what is at the path is linked as brain.prev ...
Keeps(u) ==
  /\ Is(u, "keep")
  /\ prevBin' = bin
  /\ Move(u, "place")
  /\ UNCHANGED <<bin, installed, fileVars, failures, lock, store, latest, local, ghosts, mishaps>>

\* ... and one rename puts the new one there.
Places(u) ==
  /\ Is(u, "place")
  /\ bin' = cand[u]
  /\ came' = [came EXCEPT ![cand[u]] = bin]
  /\ Move(u, "done")
  /\ UNCHANGED <<prevBin, installed, fileVars, failures, lock, store, latest, local, condemned, badEnds, cut, mishaps>>

PlaceFails(u) ==
  /\ pc[u] \in {"keep", "place"}
  /\ Mishap
  /\ Move(u, "done")
  /\ UNCHANGED <<bin, prevBin, installed, fileVars, failures, lock, store, latest, local, ghosts>>

(***************************************************************************)
(* The watch over a fresh install                                          *)
(***************************************************************************)
Execs(h) ==
  /\ Is(h, "idle")
  /\ ver' = [ver EXCEPT ![h] = bin]
  /\ Move(h, "look")
  /\ UNCHANGED <<bin, prevBin, installed, fileVars, failures, lock, store, latest, cand, due, ghosts, mishaps>>

InstalledRecently(v) == installed = [version |-> v, recent |-> TRUE]

\* hook_begin; a hook that is not watched does nothing here.
Looks(h) ==
  /\ Is(h, "look") /\ InstalledRecently(ver[h])
  /\ Move(h, "begin")
  /\ UNCHANGED <<bin, prevBin, installed, fileVars, failures, lock, store, latest, local, ghosts, mishaps>>

LooksAway(h) ==
  /\ Is(h, "look") /\ ~InstalledRecently(ver[h])
  /\ End(h)
  /\ UNCHANGED <<bin, prevBin, installed, fileVars, failures, latest, ghosts, mishaps>>

\* A process of that pid runs, if not the one that left it.
Alive(pid) == ~Is(pid, "idle")
Of(v) == IF failures.version = v THEN failures ELSE [NoFailures EXCEPT !.version = v]

\* Mutant: whoever has not ended yet counts as a failure.
BegunHasty(h) ==
  LET f    == Of(ver[h])
      gone == f.pids \ {h}
  IN [f EXCEPT !.count = Capped(@ + Cardinality(gone)), !.pids = {h}]

\* Failures::begin: who is gone without a word has failed.
Begun(h) ==
  LET f    == Of(ver[h])
      gone == {pid \in f.pids : pid # h /\ ~Alive(pid)}
  IN [f EXCEPT !.count = Capped(@ + Cardinality(gone)), !.pids = (@ \ gone) \cup {h}]

Begins(h) ==
  /\ Is(h, "begin")
  /\ failures' = Begun(h)
  /\ due' = [due EXCEPT ![h] = failures'.count >= FailLimit]
  /\ Move(h, "work")
  /\ UNCHANGED <<bin, prevBin, installed, fileVars, lock, store, latest, ver, cand, ghosts, mishaps>>

\* update.failures is locked for longer than a hook waits: no watch.
CannotBegin(h) ==
  /\ Is(h, "begin")
  /\ Mishap
  /\ End(h)
  /\ UNCHANGED <<bin, prevBin, installed, fileVars, failures, latest, ghosts>>

\* Mutant: an error that the hook survived is not counted.
EndedKindly(h, ok) ==
  [Of(ver[h]) EXCEPT !.count = IF ok THEN 0 ELSE @, !.pids = @ \ {h}]

\* Failures::end
Ended(h, ok) ==
  [Of(ver[h]) EXCEPT !.count = IF ok THEN 0 ELSE Capped(@ + 1), !.pids = @ \ {h}]

Ends(h) ==
  /\ Is(h, "work")
  /\ \E ok \in BOOLEAN :
       /\ ok => ver[h] \notin Broken
       /\ failures' = Ended(h, ok)
       /\ IF ok THEN UNCHANGED badEnds ELSE BadEnd(ver[h])
  /\ IF due[h] \/ failures'.count >= FailLimit
       THEN Move(h, "lock") /\ UNCHANGED <<lock, store, local>>
       ELSE End(h)
  /\ UNCHANGED <<bin, prevBin, installed, fileVars, latest, came, condemned, cut, mishaps>>

\* Its end goes unrecorded: its pid stays, and will be found gone.
CannotEnd(h) ==
  /\ Is(h, "work")
  /\ Mishap
  /\ BadEnd(ver[h])
  /\ IF due[h] THEN Move(h, "lock") /\ UNCHANGED <<lock, store, local>> ELSE End(h)
  /\ UNCHANGED <<bin, prevBin, installed, fileVars, failures, latest, came, condemned, cut>>

(***************************************************************************)
(* rollback, under the lock                                                *)
(***************************************************************************)
\* check_prev: brain.prev is what the record says was replaced.
Restorable == prevFile # 0 /\ prevBin = prevFile

\* Mutant: whether the record still names this release is not asked again.
ChecksOnlyPrev(h) ==
  /\ Is(h, "read") /\ Restorable
  /\ Move(h, "mark")
  /\ UNCHANGED <<bin, prevBin, installed, fileVars, failures, lock, store, latest, local, ghosts, mishaps>>

ChecksPrev(h) ==
  /\ Is(h, "read") /\ InstalledRecently(ver[h]) /\ Restorable
  /\ Move(h, "mark")
  /\ UNCHANGED <<bin, prevBin, installed, fileVars, failures, lock, store, latest, local, ghosts, mishaps>>

\* Another hook has rolled back meanwhile, or there is nothing to go back to.
LeavesIt(h) ==
  /\ Is(h, "read") /\ ~(InstalledRecently(ver[h]) /\ Restorable)
  /\ Move(h, "forget")
  /\ UNCHANGED <<bin, prevBin, installed, fileVars, failures, lock, store, latest, local, ghosts, mishaps>>

\* restore_prev
Swaps(h) ==
  /\ Is(h, "swap")
  /\ bin' = prevBin
  /\ condemned' = condemned \cup {ver[h]}
  /\ Move(h, "close")
  /\ UNCHANGED <<prevBin, installed, fileVars, failures, lock, store, latest, local, came, badEnds, cut, mishaps>>

SwapFails(h) ==
  /\ pc[h] \in {"read", "swap"}
  /\ Mishap
  /\ Move(h, "forget")
  /\ UNCHANGED <<bin, prevBin, installed, fileVars, failures, lock, store, latest, local, ghosts>>

\* The window is closed: what was restored is installed, since long ago.
Closes(h) ==
  /\ Is(h, "close")
  /\ installed' = [version |-> prevFile, recent |-> FALSE]
  /\ Move(h, "forget")
  /\ UNCHANGED <<bin, prevBin, fileVars, failures, lock, store, latest, local, ghosts, mishaps>>

Forgets(h) ==
  /\ Is(h, "forget")
  /\ failures' = NoFailures
  /\ End(h)
  /\ UNCHANGED <<bin, prevBin, installed, fileVars, latest, ghosts, mishaps>>

(***************************************************************************)
(* Kills, time, releases                                                   *)
(***************************************************************************)
\* A plain write truncates first: who dies in it leaves the file empty.
Killed(p) ==
  /\ ~Is(p, "idle")
  /\ Mishap
  /\ End(p)
  /\ IF Is(p, "work") THEN BadEnd(ver[p]) ELSE UNCHANGED badEnds
  /\ badFile' \in {badFile} \cup (IF Is(p, "markfile") THEN {{}} ELSE {})
  /\ cut' = (cut \/ (badFile' # badFile /\ Marked(p) \in condemned))
  /\ prevFile' \in {prevFile} \cup (IF Is(p, "recordprev") THEN {0} ELSE {})
  /\ installed' \in {installed} \cup (IF pc[p] \in {"record", "close"} THEN {NoRecord} ELSE {})
  /\ failures' \in {failures} \cup (IF pc[p] \in {"begin", "work"} THEN {NoFailures} ELSE {})
  /\ UNCHANGED <<bin, prevBin, badState, latest, came, condemned>>

GrowsOld ==
  /\ installed.recent
  /\ installed' = [installed EXCEPT !.recent = FALSE]
  /\ UNCHANGED <<bin, prevBin, fileVars, failures, lock, store, latest, pc, local, ghosts, mishaps>>

Publishes ==
  /\ latest < MaxVersion
  /\ latest' = latest + 1
  /\ UNCHANGED <<bin, prevBin, installed, fileVars, failures, lock, store, pc, local, ghosts, mishaps>>

UpdaterStep(u) ==
  \/ TakesLock(u) \/ TurnedAway(u) \/ Decides(u) \/ StaysPut(u)
  \/ MarksInStore(u) \/ MarksInFile(u) \/ Records(u) \/ RecordsPrev(u) \/ Keeps(u) \/ Places(u)

HookStep(h) ==
  \/ Execs(h) \/ Looks(h) \/ LooksAway(h) \/ Begins(h) \/ Ends(h) \/ TakesLock(h) \/ TurnedAway(h)
  \/ ChecksPrev(h) \/ LeavesIt(h) \/ MarksInStore(h) \/ MarksInFile(h) \/ Swaps(h) \/ Closes(h)
  \/ Forgets(h)

Next ==
  \/ \E u \in Updater : Launches(u) \/ UpdaterStep(u) \/ PlaceFails(u)
  \/ \E h \in Hook : HookStep(h) \/ CannotBegin(h) \/ CannotEnd(h) \/ SwapFails(h)
  \/ \E p \in Process : Killed(p)
  \/ GrowsOld \/ Publishes

Spec == Init /\ [][Next]_vars

\* Whoever was started goes on, hooks keep coming, and the lock, which is free
\* again and again, is not always taken by the others.
Fairness ==
  /\ \A u \in Updater : WF_vars(UpdaterStep(u))
  /\ \A h \in Hook : WF_vars(HookStep(h)) /\ SF_vars(TakesLock(h))

LiveSpec == Spec /\ Fairness

(***************************************************************************)
(* Properties                                                              *)
(***************************************************************************)
FilesTypeOK ==
  /\ bin \in Version /\ prevBin \in 0..MaxVersion /\ prevFile \in 0..MaxVersion
  /\ installed \in [version : 0..MaxVersion, recent : BOOLEAN]
  /\ badFile \subseteq Version /\ badState \subseteq Version
  /\ failures \in [version : 0..MaxVersion, count : 0..FailLimit, pids : SUBSET Hook]
  /\ lock \in Process \cup {Free} /\ store \in BOOLEAN
  /\ latest \in Version /\ mishaps \in 0..MaxMishap

ProcessTypeOK ==
  /\ pc \in [Process -> {"idle", "lock", "decide", "record", "recordprev", "keep", "place", "mark",
                         "markfile", "done", "look", "begin", "work", "read", "swap", "close",
                         "forget"}]
  /\ ver \in [Process -> 0..MaxVersion] /\ cand \in [Updater -> 0..MaxVersion]
  /\ due \in [Hook -> BOOLEAN]

HistoryTypeOK ==
  /\ came \in [Version -> 0..MaxVersion] /\ condemned \subseteq Version
  /\ badEnds \in [Version -> 0..FailLimit] /\ cut \in BOOLEAN

TypeOK == FilesTypeOK /\ ProcessTypeOK /\ HistoryTypeOK

\* "Bad before the swap: a crash in between still never reinstalls it"
\* (rollback): what was rolled back is never at the path again, whoever was
\* killed, and whether or not the store could be opened - unless a second kill
\* cut update.bad short when another hook went to roll it back again.
CondemnedStaysAway == bin \in condemned => cut

\* "One at a time ... another hook may have rolled back while this one waited"
\* (rollback): the path goes back only from the release whose hooks failed, to
\* what that release replaced - unless the list was cut short as above.
BackToWhatItReplaced == bin' < bin /\ ~cut => \E h \in Hook : Is(h, "swap") /\ ver[h] = bin /\ bin' = came[bin]
RollsBackWhatFailed == [][BackToWhatItReplaced]_vars

\* "Hooks in a row that must fail on a fresh install before it is rolled back"
\* (FAIL_LIMIT): whatever was rolled back, as many of its hooks had failed,
\* died, or ended without a word; one that still runs was not taken for dead.
RollbackIsEarned == \A v \in condemned : badEnds[v] >= FailLimit

\* A release whose every hook fails does not stay at the path for as long as
\* its record is fresh and what it replaced is at hand.
Stuck(v) == bin = v /\ InstalledRecently(v) /\ Restorable
BrokenIsRolledBack == \A v \in Broken : Stuck(v) ~> ~Stuck(v)
=============================================================================

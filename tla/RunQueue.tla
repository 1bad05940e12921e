------------------------------ MODULE RunQueue ------------------------------
(***************************************************************************)
(* `brain consolidate`: every invocation writes an ask into the table      *)
(* consolidation_requests, tries the run lock, and either stands aside or  *)
(* serves its own ask and then the asks that met the lock while it worked  *)
(* (consolidate.rs run_in, run_idle_in, serve, take_next_request; store.rs *)
(* for the table). The other holders of the lock - a document being        *)
(* ingested, a cleanup being restored, the compactor of the index - are    *)
(* processes of the same set.                                              *)
(*                                                                         *)
(* An ask's content stands for its (session, all, force, cwd), so two asks *)
(* with equal content are "identical" in the sense of the table's UPDATE.  *)
(***************************************************************************)
EXTENDS RunLock

CONSTANTS
  Work,       \* contents of asks
  Sessions,   \* contents that name one session, without force
  Want,       \* what each process is started for
  Spare,      \* processes that finish_yield may start
  MaxDrain,   \* MAX_DRAIN_ROUNDS (3 in the code)
  Mortal,     \* processes that may be killed
  MayFail,    \* whether a round may return an error
  MayOverrun  \* whether the run budget (6 minutes) may run out

IdleSweep == "idle sweep"    \* consolidate --idle
Brief     == "brief holder"  \* ingest and restore: hold the lock, drain nothing
Compactor == "compactor"     \* maint::after_run and brain compact
NoAsk     == 0               \* the synthetic ask of an idle sweep; no row has id 0

ASSUME RunQueueAssumption ==
  /\ Want \in [Run -> Work \cup {IdleSweep, Brief, Compactor}]
  /\ {IdleSweep, Brief, Compactor} \cap Work = {}
  /\ Sessions \subseteq Work
  /\ Spare \subseteq Run
  /\ \A p \in Spare : Want[p] \in Work
  /\ Mortal \subseteq Run
  /\ MaxDrain \in Nat
  /\ MayFail \in BOOLEAN /\ MayOverrun \in BOOLEAN

VARIABLES
  open,      \* ids of the asks whose consumed_at is NULL
  taken,     \* ids of the asks that were consumed
  what,      \* content of every row
  pending,   \* sessions with an unconsolidated observation
  pc,        \* where each process is
  cur,       \* id of the ask a process goes for or serves
  req,       \* content of that ask, as the process read it
  drained,   \* asks of others a holder has taken on
  window,    \* compactors with the maintenance window open
  yieldFile, \* the file a run leaves that met the window
  why        \* how each process ended

queueVars == <<open, taken, what, pending, pc, cur, req, drained, window, yieldFile, why>>
vars == <<lockVars, queueVars>>

Rows == open \cup taken
Pc == {"unborn", "new", "note", "ask", "lock", "elsewhere", "heal", "exec", "handback",
       "letgo", "look", "relock", "purge", "rewrite", "finish", "ended"}
Why == {"running", "yielded", "window", "drained", "short", "error", "crash",
        "elsewhere", "brief", "compact"}

\* Contents an ask run is started with, and those of the other holders.
Asks(p) == Want[p] \in Work

\* Which processes are started, somebody else decides.
Init ==
  /\ LockInit
  /\ open = {} /\ taken = {}
  /\ what = [i \in {} |-> IdleSweep]
  /\ pending \in SUBSET Sessions
  /\ pc \in [Run -> {"unborn", "new"}]
  /\ cur = [p \in Run |-> NoAsk]
  /\ req = [p \in Run |-> Want[p]]
  /\ drained = [p \in Run |-> 0]
  /\ window = {}
  /\ yieldFile = FALSE
  /\ why = [p \in Run |-> "running"]

Is(p, at)    == pc[p] = at /\ p \notin dead
Move(p, to)  == pc' = [pc EXCEPT ![p] = to]
\* A process that ends takes what it knew with it.
Forget(p)    ==
  /\ cur' = [cur EXCEPT ![p] = NoAsk]
  /\ req' = [req EXCEPT ![p] = Want[p]]
  /\ drained' = [drained EXCEPT ![p] = 0]
End(p, how)  == Move(p, "ended") /\ why' = [why EXCEPT ![p] = how] /\ Forget(p)
Serving(p)   == pc[p] \in {"heal", "exec", "handback"} /\ cur[p] # NoAsk
Ended(p)     == pc[p] = "ended"
AllEnded     == \A p \in Run : pc[p] \in {"ended", "unborn"}
tableVars    == <<open, taken, what>>

(***************************************************************************)
(* The table of asks                                                       *)
(***************************************************************************)
\* SQLite's rowid for a table without AUTOINCREMENT: one more than the
\* largest in use, so the id of a deleted newest row is given out again.
NextRowId(i) ==
  /\ \A j \in Rows : j < i
  /\ i = 1 \/ i - 1 \in Rows

\* add_consolidation_request
AddAsk(i, w) ==
  /\ open' = open \cup {i}
  /\ what' = [j \in DOMAIN what \cup {i} |-> IF j = i THEN w ELSE what[j]]
  /\ UNCHANGED taken

\* consume_consolidation_request on an open row: the row, and with it every
\* identical open ask.
Twins(i) == {j \in open : what[j] = what[i]}

\* Mutant: the UPDATE forgets consumed_at IS NULL.
ConsumeAgain(i) ==
  /\ i \in Rows
  /\ open' = open \ Twins(i)
  /\ taken' = taken \cup Twins(i)
  /\ UNCHANGED what

Consume(i) ==
  /\ i \in open
  /\ open' = open \ Twins(i)
  /\ taken' = taken \cup Twins(i)
  /\ UNCHANGED what

\* release_consolidation_request: this row only.
HandBack(i) ==
  /\ open' = open \cup (taken \cap {i})
  /\ taken' = taken \ {i}
  /\ UNCHANGED what

Delete(gone) ==
  /\ open' = open \ gone
  /\ taken' = taken \ gone
  /\ what' = [j \in DOMAIN what \ gone |-> what[j]]

\* drop_stale_asks: open asks for a session that has nothing pending.
StaleAsks == {i \in open : what[i] \in Sessions \ pending}

\* purge_consumed_requests: rows taken more than seven days ago. Whoever wrote
\* or served one of those has ended long since.
Purge == \E gone \in SUBSET {i \in taken : \A q \in Run : cur[q] # i} : Delete(gone)

(***************************************************************************)
(* run_in up to the lock                                                   *)
(***************************************************************************)
\* An open maintenance window: the run leaves no ask, only a note.
MeetsWindow(p) ==
  /\ Is(p, "new") /\ Asks(p)
  /\ window # {}
  /\ Move(p, "note")
  /\ UNCHANGED <<lockVars, tableVars, pending, cur, req, drained, window, yieldFile, why>>

NoteYield(p) ==
  /\ Is(p, "note")
  /\ yieldFile' = TRUE
  /\ End(p, "window")
  /\ UNCHANGED <<lockVars, tableVars, pending, window>>

Starts(p) ==
  /\ Is(p, "new") /\ Asks(p)
  /\ window = {}
  /\ Move(p, "ask")
  /\ UNCHANGED <<lockVars, tableVars, pending, cur, req, drained, window, yieldFile, why>>

\* The ask is on record before the lock is tried.
WritesAsk(p) ==
  /\ Is(p, "ask")
  /\ \E i \in 1..(Cardinality(Rows) + Cardinality(Run)) :
       /\ NextRowId(i)
       /\ AddAsk(i, Want[p])
       /\ cur' = [cur EXCEPT ![p] = i]
  /\ Move(p, "lock")
  /\ BeginTake(p)
  /\ UNCHANGED <<pending, req, drained, window, yieldFile, why>>

\* run_idle_in, ingest, restore: no ask and no look at the window.
StartsWithoutAsk(p) ==
  /\ Is(p, "new") /\ Want[p] \in {IdleSweep, Brief}
  /\ Move(p, "lock")
  /\ BeginTake(p)
  /\ UNCHANGED <<tableVars, pending, cur, req, drained, window, yieldFile, why>>

\* try_window: an open ask keeps the compactor from starting; `brain compact`
\* does not look, so an open ask does not have to.
CompactorStarts(p) ==
  /\ Is(p, "new") /\ Want[p] = Compactor
  /\ \/ Move(p, "lock") /\ BeginTake(p) /\ UNCHANGED <<why, cur, req, drained>>
     \/ open # {} /\ End(p, "yielded") /\ UNCHANGED lockVars
  /\ UNCHANGED <<tableVars, pending, window, yieldFile>>

TurnedAway(p) ==
  /\ Is(p, "lock")
  /\ LeaveRefused(p)
  /\ End(p, "yielded")
  /\ UNCHANGED <<tableVars, pending, window, yieldFile>>

\* Under the lock: the own ask is consumed ...
TakesOwnAsk(p) ==
  /\ Is(p, "lock") /\ Holds(p) /\ Asks(p)
  /\ Consume(cur[p])
  /\ Move(p, "heal")
  /\ UNCHANGED <<lockVars, pending, cur, req, drained, window, yieldFile, why>>

\* ... or it was, and then the run goes: purge, and the lock with the return.
AlreadyServed(p) ==
  /\ Is(p, "lock") /\ Holds(p) /\ Asks(p)
  /\ cur[p] \notin open
  /\ Move(p, "elsewhere")
  /\ Purge
  /\ UNCHANGED <<lockVars, pending, cur, req, drained, window, yieldFile, why>>

LeavesServed(p) ==
  /\ Is(p, "elsewhere")
  /\ DropLock(p)
  /\ End(p, "elsewhere")
  /\ UNCHANGED <<tableVars, pending, window, yieldFile>>

SweepHolds(p) ==
  /\ Is(p, "lock") /\ Holds(p) /\ Want[p] = IdleSweep
  /\ Move(p, "heal")
  /\ UNCHANGED <<lockVars, tableVars, pending, cur, req, drained, window, yieldFile, why>>

(***************************************************************************)
(* serve                                                                   *)
(***************************************************************************)
Heal(p) ==
  /\ Is(p, "heal")
  /\ Delete(StaleAsks)
  /\ Move(p, "exec")
  /\ UNCHANGED <<lockVars, pending, cur, req, drained, window, yieldFile, why>>

Refreshes(p) ==
  /\ Is(p, "exec")
  /\ Touch(p)
  /\ UNCHANGED queueVars

\* The sessions a round may settle: the one its ask names, or any.
InReach(p) == IF req[p] \in Sessions THEN {req[p]} ELSE Sessions

Finishes(p) ==
  /\ Is(p, "exec")
  /\ \E done \in SUBSET InReach(p) : pending' = pending \ done
  /\ Move(p, "letgo")
  /\ UNCHANGED <<lockVars, tableVars, cur, req, drained, window, yieldFile, why>>

\* A round with a deadline - a drained ask, or the sweep itself - may stop at
\* it; the ask goes back.
HasDeadline(p) == drained[p] > 0 \/ Want[p] = IdleSweep

Overruns(p) ==
  /\ Is(p, "exec")
  /\ MayOverrun /\ HasDeadline(p)
  /\ \E done \in SUBSET InReach(p) : pending' = pending \ done
  /\ Move(p, "handback")
  /\ UNCHANGED <<lockVars, tableVars, cur, req, drained, window, yieldFile, why>>

HandsBack(p) ==
  /\ Is(p, "handback")
  /\ HandBack(cur[p])
  /\ Move(p, "letgo")
  /\ why' = [why EXCEPT ![p] = "short"]
  /\ UNCHANGED <<lockVars, pending, cur, req, drained, window, yieldFile>>

\* A round that fails ends the run: the lock goes and the ask stays taken.
Fails(p) ==
  /\ Is(p, "exec")
  /\ MayFail
  /\ DropLock(p)
  /\ \/ /\ drained[p] > 0
        /\ Move(p, "purge") /\ why' = [why EXCEPT ![p] = "error"] /\ Forget(p)
     \/ drained[p] = 0 /\ End(p, "error")
  /\ UNCHANGED <<tableVars, pending, window, yieldFile>>

\* Mutant: a holder serves its own ask and goes.
LetsGoForGood(p) ==
  /\ Is(p, "letgo")
  /\ DropLock(p)
  /\ Move(p, "purge")
  /\ UNCHANGED <<tableVars, pending, cur, req, drained, window, yieldFile, why>>

\* The lock is let go of before the open asks are read.
LetsGo(p) ==
  /\ Is(p, "letgo")
  /\ DropLock(p)
  /\ IF why[p] = "short"
       THEN Move(p, "purge") /\ UNCHANGED why
       ELSE \/ drained[p] < MaxDrain /\ Move(p, "look") /\ UNCHANGED why
            \/ /\ drained[p] = MaxDrain \/ MayOverrun
               /\ Move(p, "purge")
               /\ why' = [why EXCEPT ![p] = "short"]
  /\ UNCHANGED <<tableVars, pending, cur, req, drained, window, yieldFile>>

\* take_next_request: the oldest open ask is read, then the lock is tried.
FindsNone(p) ==
  /\ Is(p, "look")
  /\ open = {}
  /\ Move(p, "purge")
  /\ UNCHANGED <<lockVars, tableVars, pending, cur, req, drained, window, yieldFile, why>>

Looks(p) ==
  /\ Is(p, "look")
  /\ \E i \in open :
       /\ \A j \in open : i <= j
       /\ cur' = [cur EXCEPT ![p] = i]
       /\ req' = [req EXCEPT ![p] = what[i]]
  /\ Move(p, "relock")
  /\ BeginTake(p)
  /\ UNCHANGED <<tableVars, pending, drained, window, yieldFile, why>>

LeavesToHolder(p) ==
  /\ Is(p, "relock")
  /\ LeaveRefused(p)
  /\ Move(p, "purge")
  /\ UNCHANGED <<tableVars, pending, cur, req, drained, window, yieldFile, why>>

TakesNext(p) ==
  /\ Is(p, "relock") /\ Holds(p)
  /\ Consume(cur[p])
  /\ drained' = [drained EXCEPT ![p] = @ + 1]
  /\ Move(p, "exec")
  /\ UNCHANGED <<lockVars, pending, cur, req, window, yieldFile, why>>

\* Mutant: the lock is tried again for the ask that is gone.
LooksAtTheSame(p) ==
  /\ Is(p, "relock") /\ Holds(p)
  /\ cur[p] \notin open
  /\ lockFile' = NoFile /\ handle' = {} /\ old' = FALSE
  /\ Goto(p, "create")
  /\ UNCHANGED <<statFresh, dead, worn, stolen, queueVars>>

\* Another holder took it between the read and the lock; look again.
LooksAgain(p) ==
  /\ Is(p, "relock")
  /\ cur[p] \notin open
  /\ DropLock(p)
  /\ Move(p, "look")
  /\ UNCHANGED <<tableVars, pending, cur, req, drained, window, yieldFile, why>>

Purges(p) ==
  /\ Is(p, "purge")
  /\ Purge
  /\ End(p, IF why[p] = "running" THEN "drained" ELSE why[p])
  /\ UNCHANGED <<lockVars, pending, window, yieldFile>>

(***************************************************************************)
(* The holders that drain nothing                                          *)
(***************************************************************************)
\* A compaction that is no longer due, or has no room, is brief too.
BriefHolds(p) ==
  /\ Is(p, "lock") /\ Want[p] \in {Brief, Compactor}
  /\ DropLock(p)
  /\ End(p, "brief")
  /\ UNCHANGED <<tableVars, pending, window, yieldFile>>

OpensWindow(p) ==
  /\ Is(p, "lock") /\ Holds(p) /\ Want[p] = Compactor
  /\ window' = window \cup {p}
  /\ Move(p, "rewrite")
  /\ UNCHANGED <<lockVars, tableVars, pending, cur, req, drained, yieldFile, why>>

\* The window closes inside rewrite(), the lock goes after the catch-up.
ClosesWindow(p) ==
  /\ Is(p, "rewrite") /\ p \in window
  /\ window' = window \ {p}
  /\ UNCHANGED <<lockVars, tableVars, pending, pc, cur, req, drained, yieldFile, why>>

CompactorLetsGo(p) ==
  /\ Is(p, "rewrite") /\ p \notin window
  /\ DropLock(p)
  /\ Move(p, "finish")
  /\ UNCHANGED <<tableVars, pending, cur, req, drained, window, yieldFile, why>>

\* finish_yield: a run that left its note is started again, as an --all.
FinishesYield(p) ==
  /\ Is(p, "finish")
  /\ yieldFile' = FALSE
  /\ \E born \in SUBSET {q \in Spare : pc[q] = "unborn"} :
       /\ IF yieldFile /\ \E q \in Spare : pc[q] = "unborn"
            THEN Cardinality(born) = 1
            ELSE born = {}
       /\ pc' = [q \in Run |-> IF q = p THEN "ended" ELSE IF q \in born THEN "new" ELSE pc[q]]
  /\ why' = [why EXCEPT ![p] = "compact"]
  /\ UNCHANGED <<lockVars, tableVars, pending, cur, req, drained, window>>

(***************************************************************************)
(* The world around                                                        *)
(***************************************************************************)
\* A hook captures an observation of a session.
Captures(s) ==
  /\ ~AllEnded
  /\ s \in Sessions \ pending
  /\ pending' = pending \cup {s}
  /\ UNCHANGED <<lockVars, tableVars, pc, cur, req, drained, window, yieldFile, why>>

\* A dead compactor's window means nothing once its marker has run out.
Killed(p) ==
  /\ p \in Mortal
  /\ pc[p] \notin {"unborn", "new", "ended"}
  /\ Crash(p)
  /\ End(p, "crash")
  /\ window' = window \ {p}
  /\ UNCHANGED <<tableVars, pending, yieldFile>>

LockMoves ==
  /\ \/ GrowOld
     \/ \E p \in Run : TakeStep(p) \/ WearPid(p)
  /\ UNCHANGED queueVars

RunStep(p) ==
  \/ MeetsWindow(p) \/ NoteYield(p) \/ Starts(p) \/ WritesAsk(p)
  \/ StartsWithoutAsk(p) \/ CompactorStarts(p) \/ TurnedAway(p) \/ TakesOwnAsk(p)
  \/ AlreadyServed(p) \/ LeavesServed(p) \/ SweepHolds(p) \/ Heal(p)
  \/ Finishes(p) \/ Overruns(p) \/ HandsBack(p) \/ Fails(p) \/ LetsGo(p)
  \/ FindsNone(p) \/ Looks(p) \/ LeavesToHolder(p) \/ TakesNext(p) \/ LooksAgain(p)
  \/ Purges(p) \/ BriefHolds(p) \/ OpensWindow(p) \/ ClosesWindow(p)
  \/ CompactorLetsGo(p) \/ FinishesYield(p)

Next ==
  \/ \E p \in Run : RunStep(p) \/ Refreshes(p) \/ Killed(p)
  \/ \E s \in Sessions : Captures(s)
  \/ LockMoves

Spec == Init /\ [][Next]_vars

\* A step of RunLock::take, with the asks as they are.
Takes(p) == TakeStep(p) /\ UNCHANGED queueVars

\* A process that was started keeps running: no step of it waits for another
\* process, and a model call is cut off by its own timeout.
Fairness ==
  \A p \in Run :
    WF_vars(RunStep(p)) /\ WF_vars(Takes(p))

LiveSpec == Spec /\ Fairness

(***************************************************************************)
(* Properties                                                              *)
(***************************************************************************)
QueueTypeOK ==
  /\ open \subseteq Nat \ {NoAsk} /\ taken \subseteq Nat \ {NoAsk}
  /\ what \in [Rows -> Work]
  /\ pending \subseteq Sessions
  /\ pc \in [Run -> Pc]
  /\ cur \in [Run -> Nat]
  /\ req \in [Run -> Work \cup {IdleSweep, Brief, Compactor}]
  /\ drained \in [Run -> 0..MaxDrain]
  /\ window \subseteq Run
  /\ yieldFile \in BOOLEAN
  /\ why \in [Run -> Why]

TypeOK == LockTypeOK /\ QueueTypeOK

\* No ask is served by two runs at once, and none that is being served is open
\* for a third: consume is one UPDATE guarded by consumed_at IS NULL, and this
\* holds even where the lock does not keep the runs apart.
NoAskServedTwiceAtOnce ==
  /\ \A p, q \in Run : Serving(p) /\ Serving(q) /\ cur[p] = cur[q] => p = q
  /\ \A p \in Run : Serving(p) => cur[p] \in taken \ open

\* When every run is gone and an ask is still open, some run was cut short (an
\* error, a kill, the budget, the drain limit), or one of the holders that
\* drain nothing was there: a document being ingested, a compaction, or a run
\* that left because its own ask had been served.
OpenAsksAreExplained ==
  AllEnded /\ open # {} =>
    \E p \in Run : why[p] \in {"short", "error", "crash", "elsewhere", "brief", "compact"}

\* Every run that was started comes to its end: no loop of takeovers, refusals
\* and asks that were taken meanwhile keeps one going for ever.
EveryRunEnds == <>[]AllEnded

\* "The holder reads what is still unconsumed once it lets go of the lock" (the
\* comment that opens run_in): when nothing was cut short, no ask is left open
\* once every run has ended.
NoAskIsLeftOpen == AllEnded => open = {}

\* "A run that stood aside used to take its request with it" (the same comment,
\* of what writing the ask down cured): what a run serves is what the row it
\* consumed asks for.
ServesWhatTheRowAsks ==
  \A p \in Run : Serving(p) => what[cur[p]] = req[p]

\* "A run that met the open window stood aside and left a file saying so. Now
\* the window is closed and the lock free: do what it would have done" (the
\* comment on finish_yield): no such file outlives the compactor.
NoYieldIsForgotten == AllEnded => ~yieldFile
=============================================================================

------------------------------ MODULE RunLock ------------------------------
(***************************************************************************)
(* The machine-wide run lock of `brain consolidate`: a file made with      *)
(* create_new that holds its maker's pid (consolidate.rs, struct RunLock). *)
(* The file is the only shared state; every file-system call is a step of  *)
(* its own, so a takeover interleaves with the other takers, with the      *)
(* holder's refresh and with its Drop.                                     *)
(***************************************************************************)
EXTENDS Naturals, FiniteSets

CONSTANTS
  Run,       \* processes that take the lock; a process is its pid
  Wearable,  \* pids that an unrelated process may wear after their run died
  CanAsk     \* whether `kill -0` can be started on this machine

ASSUME RunLockAssumption == Wearable \subseteq Run /\ CanAsk \in BOOLEAN

NoFile == "no file"
Blank  == "blank"    \* created, and its maker has not written its pid, or died before

ASSUME NotAPid == NoFile \notin Run /\ Blank \notin Run

VARIABLES
  lockFile,  \* text of the lock file
  handle,    \* who made the file at the path and has yet to write its pid into it
  old,       \* its mtime is more than STALE (30 minutes) away
  take,      \* where each process is in RunLock::take
  statFresh, \* `fresh` as read by each process's holder_is_alive
  dead,      \* processes killed outright: Drop never ran
  worn,      \* dead pids an unrelated process now wears
  stolen     \* history: a takeover removed the file of a live holder or maker

lockVars == <<lockFile, handle, old, take, statFresh, dead, worn, stolen>>

TakePc == {"out", "create", "write", "stat", "read", "remove", "held", "refused"}

LockInit ==
  /\ lockFile = NoFile
  /\ handle = {}
  /\ old = FALSE
  /\ take = [p \in Run |-> "out"]
  /\ statFresh = [p \in Run |-> FALSE]
  /\ dead = {}
  /\ worn = {}
  /\ stolen = FALSE

Holds(p)   == take[p] = "held"
Holders    == {p \in Run : Holds(p)}
At(p, pc)  == take[p] = pc
Goto(p, pc) == take' = [take EXCEPT ![p] = pc]

(***************************************************************************)
(* RunLock::take, one file-system call per step                            *)
(***************************************************************************)
BeginTake(p) ==
  /\ At(p, "out") /\ p \notin dead
  /\ Goto(p, "create")
  /\ UNCHANGED <<lockFile, handle, old, statFresh, dead, worn, stolen>>

\* Mutant: open(create) in place of open(create_new).
CreateOver(p) ==
  /\ At(p, "create")
  /\ lockFile' = Blank
  /\ handle' = handle \cup {p}
  /\ old' = FALSE
  /\ Goto(p, "write")
  /\ UNCHANGED <<statFresh, dead, worn, stolen>>

\* open(create_new)
CreateNew(p) ==
  /\ At(p, "create")
  /\ lockFile = NoFile
  /\ lockFile' = Blank
  /\ handle' = {p}
  /\ old' = FALSE
  /\ Goto(p, "write")
  /\ UNCHANGED <<statFresh, dead, worn, stolen>>

\* The pid goes through the open handle: into the file that was made, which is
\* no longer at the path if somebody removed it meanwhile.
WritePid(p) ==
  /\ At(p, "write")
  /\ IF p \in handle
       THEN lockFile' = p /\ old' = FALSE
       ELSE UNCHANGED <<lockFile, old>>
  /\ handle' = handle \ {p}
  /\ Goto(p, "held")
  /\ UNCHANGED <<statFresh, dead, worn, stolen>>

AlreadyExists(p) ==
  /\ At(p, "create")
  /\ lockFile # NoFile
  /\ Goto(p, "stat")
  /\ UNCHANGED <<lockFile, handle, old, statFresh, dead, worn, stolen>>

\* holder_is_alive, first half: is the file there, and its mtime recent?
Stat(p) ==
  /\ At(p, "stat")
  /\ statFresh' = [statFresh EXCEPT ![p] = lockFile # NoFile /\ ~old]
  /\ Goto(p, "read")
  /\ UNCHANGED <<lockFile, handle, old, dead, worn, stolen>>

\* What `kill -0` says of a pid.
Responds(q) == q \notin dead \/ q \in worn

\* holder_is_alive, second half: the clock decides for a file that cannot be
\* read or holds no pid, and for our own pid; otherwise the pid is asked.
LooksAlive(p) ==
  IF lockFile \in {NoFile, Blank, p} \/ ~CanAsk
    THEN statFresh[p]
    ELSE Responds(lockFile)

ReadHolder(p) ==
  /\ At(p, "read")
  /\ Goto(p, IF LooksAlive(p) THEN "refused" ELSE "remove")
  /\ statFresh' = [statFresh EXCEPT ![p] = FALSE]
  /\ UNCHANGED <<lockFile, handle, old, dead, worn, stolen>>

\* remove_file, whatever file is there by now, and take() again.
RemoveStale(p) ==
  /\ At(p, "remove")
  /\ stolen' = (stolen \/ handle # {} \/ \E q \in Holders : lockFile = q)
  /\ lockFile' = NoFile
  /\ handle' = {}
  /\ old' = FALSE
  /\ Goto(p, "create")
  /\ UNCHANGED <<statFresh, dead, worn>>

TakeStep(p) ==
  \/ CreateNew(p) \/ WritePid(p) \/ AlreadyExists(p) \/ Stat(p)
  \/ ReadHolder(p) \/ RemoveStale(p)

(***************************************************************************)
(* The holder                                                              *)
(***************************************************************************)
\* fs::write: it makes the file again if it is gone, and writes over another
\* run's pid if it is not.
Touch(p) ==
  /\ Holds(p)
  /\ lockFile' = p
  /\ old' = FALSE
  /\ UNCHANGED <<handle, take, statFresh, dead, worn, stolen>>

\* Mutant: Drop forgets the file.
DropLeavesFile(p) ==
  /\ Holds(p)
  /\ Goto(p, "out")
  /\ UNCHANGED <<lockFile, handle, old, statFresh, dead, worn, stolen>>

\* Drop: the file goes, whoever wrote it.
DropLock(p) ==
  /\ Holds(p)
  /\ lockFile' = NoFile
  /\ handle' = {}
  /\ old' = FALSE
  /\ Goto(p, "out")
  /\ UNCHANGED <<statFresh, dead, worn, stolen>>

LeaveRefused(p) ==
  /\ At(p, "refused")
  /\ Goto(p, "out")
  /\ UNCHANGED <<lockFile, handle, old, statFresh, dead, worn, stolen>>

(***************************************************************************)
(* Crashes and the clock                                                   *)
(***************************************************************************)
Die(p) == dead' = dead \cup {p} /\ Goto(p, "out")

\* Killed outright, at any point.
Crash(p) ==
  /\ p \notin dead
  /\ Die(p)
  /\ handle' = handle \ {p}
  /\ statFresh' = [statFresh EXCEPT ![p] = FALSE]
  /\ UNCHANGED <<lockFile, old, worn, stolen>>

\* Half an hour without a refresh; the two calls that make the file are not
\* that far apart.
GrowOld ==
  /\ lockFile # NoFile /\ ~old /\ handle = {}
  /\ old' = TRUE
  /\ UNCHANGED <<lockFile, handle, take, statFresh, dead, worn, stolen>>

\* An unrelated process is given a dead run's pid.
WearPid(p) ==
  /\ p \in dead \cap Wearable
  /\ worn' = worn \cup {p}
  /\ UNCHANGED <<lockFile, handle, old, take, statFresh, dead, stolen>>

LockNext ==
  \/ \E p \in Run :
       \/ BeginTake(p) \/ TakeStep(p) \/ Touch(p) \/ DropLock(p)
       \/ LeaveRefused(p) \/ Crash(p) \/ WearPid(p)
  \/ GrowOld

LockSpec == LockInit /\ [][LockNext]_lockVars

(***************************************************************************)
(* Properties                                                              *)
(***************************************************************************)
LockTypeOK ==
  /\ lockFile \in Run \cup {NoFile, Blank}
  /\ handle \subseteq Run
  /\ old \in BOOLEAN
  /\ take \in [Run -> TakePc]
  /\ statFresh \in [Run -> BOOLEAN]
  /\ dead \subseteq Run
  /\ worn \subseteq dead
  /\ stolen \in BOOLEAN

\* The pid in the file is always that of a run which holds the lock now or was
\* killed while it could have held it: a run that ended leaves no file behind,
\* through every race of takeover, refresh and Drop. This is what entitles
\* holder_is_alive to ask after the pid at all.
FileNamesAHolderOrTheDead ==
  \A p \in Run : lockFile = p => Holds(p) \/ p \in dead

\* Two runs hold the lock at once only if some takeover removed the file of a
\* run that holds the lock or has just made it: neither Drop nor touch nor a
\* crash can bring it about alone.
OnlyATakeoverBreaksTheLock ==
  ~stolen => \A p, q \in Holders : p = q

\* "A crashed run must not block the next one forever", and the clock answers
\* for "a pid a later process now wears" (the comments on RunLock and on
\* holder_is_alive): a taker that has seen a dead run's file to be more than
\* half an hour old is never turned away by it.
DeadRunBlocksNobodyPastTheTimeout ==
  [][\A p \in Run : ReadHolder(p) /\ take'[p] = "refused" =>
       ~(lockFile \in dead /\ ~statFresh[p])]_lockVars

\* "One run at a time, machine-wide" (the comment that opens run_in): no two
\* live processes hold the lock together.
OneRunAtATime == \A p, q \in Holders : p = q
=============================================================================

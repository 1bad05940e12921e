-------------------------- MODULE RunQueueProofs --------------------------
(***************************************************************************)
(* Proofs about the run lock, for any set of processes and whichever of    *)
(* them die; and about the asks and the runs that serve them, for any      *)
(* number of runs, any contents, and whichever runs die, fail or overrun.  *)
(***************************************************************************)
EXTENDS RunQueue, TLAPS

(***************************************************************************)
(* The run lock by itself                                                  *)
(***************************************************************************)
\* A dead process is in no call, and the file of an unbroken lock is the one
\* its holder made, or is yet blank and the one its maker writes into. Drop by a
\* run whose file was taken over, or a touch that writes over another run's pid,
\* need `stolen` first.
HolderMadeTheFile ==
  /\ \A p \in dead : take[p] = "out"
  /\ \A p \in handle : At(p, "write")
  /\ ~stolen =>
       /\ \A p \in Holders : lockFile = p
       /\ \A p \in Run : At(p, "write") => lockFile = Blank /\ handle = {p}

LockInv ==
  /\ LockTypeOK
  /\ FileNamesAHolderOrTheDead
  /\ HolderMadeTheFile

LEMMA InitLockInv == LockInit => LockInv
BY RunLockAssumption, NotAPid
   DEF LockInit, LockInv, LockTypeOK, TakePc, FileNamesAHolderOrTheDead,
       HolderMadeTheFile, Holders, Holds, At

\* One step of the lock keeps the invariant, action by action.
LEMMA StepLockInv == LockInv /\ [LockNext]_lockVars => LockInv'
<1> SUFFICES ASSUME LockInv, [LockNext]_lockVars PROVE LockInv'
  OBVIOUS
<1> USE RunLockAssumption, NotAPid
    DEF LockInv, LockTypeOK, TakePc, FileNamesAHolderOrTheDead,
        HolderMadeTheFile, Holders, Holds, At, Goto
<1>1. ASSUME NEW p \in Run, BeginTake(p) PROVE LockInv'
  BY <1>1 DEF BeginTake
<1>2. ASSUME NEW p \in Run, CreateNew(p) PROVE LockInv'
  <2>1. NoFile # Blank
    BY DEF NoFile, Blank
  <2>2. p \notin dead
    BY <1>2 DEF CreateNew
  <2>3. ~stolen => \A q \in Run : take[q] \notin {"write", "held"}
    BY <1>2, <2>1 DEF CreateNew
  <2>4. LockTypeOK' /\ FileNamesAHolderOrTheDead'
    BY <1>2 DEF CreateNew
  <2>5. HolderMadeTheFile'
    BY <1>2, <2>2, <2>3 DEF CreateNew
  <2>6. QED
    BY <2>4, <2>5
<1>2a. ASSUME NEW p \in Run, WritePid(p) PROVE LockInv'
  <2>1. /\ take[p] = "write" /\ p \notin dead /\ handle' = handle \ {p}
        /\ take' = [take EXCEPT ![p] = "held"]
        /\ UNCHANGED <<statFresh, dead, worn, stolen>>
    BY <1>2a DEF WritePid
  <2>2. lockFile' = p \/ lockFile' = lockFile
    BY <1>2a DEF WritePid
  <2>3. LockTypeOK' /\ FileNamesAHolderOrTheDead'
    BY <1>2a, <2>1, <2>2 DEF WritePid
  <2>4. ~stolen => p \in handle /\ lockFile' = p /\ \A q \in Run : q # p => take[q] \notin {"write", "held"}
    BY <1>2a, <2>1 DEF WritePid
  <2>5. HolderMadeTheFile'
    BY <2>1, <2>4
  <2>6. QED
    BY <2>3, <2>5
<1>3. ASSUME NEW p \in Run, AlreadyExists(p) PROVE LockInv'
  BY <1>3 DEF AlreadyExists
<1>4. ASSUME NEW p \in Run, Stat(p) PROVE LockInv'
  BY <1>4 DEF Stat
<1>5. ASSUME NEW p \in Run, ReadHolder(p) PROVE LockInv'
  BY <1>5 DEF ReadHolder
<1>6. ASSUME NEW p \in Run, RemoveStale(p) PROVE LockInv'
  BY <1>6 DEF RemoveStale
<1>7. ASSUME NEW p \in Run, Touch(p) PROVE LockInv'
  BY <1>7 DEF Touch
<1>8. ASSUME NEW p \in Run, DropLock(p) PROVE LockInv'
  BY <1>8 DEF DropLock
<1>9. ASSUME NEW p \in Run, LeaveRefused(p) PROVE LockInv'
  BY <1>9 DEF LeaveRefused
<1>10. ASSUME NEW p \in Run, Crash(p) PROVE LockInv'
  BY <1>10 DEF Crash, Die
<1>11. ASSUME NEW p \in Run, WearPid(p) PROVE LockInv'
  BY <1>11 DEF WearPid
<1>12. CASE GrowOld
  BY <1>12 DEF GrowOld
<1>13. CASE UNCHANGED lockVars
  BY <1>13 DEF lockVars
<1>14. QED
  BY <1>1, <1>2, <1>2a, <1>3, <1>4, <1>5, <1>6, <1>7, <1>8, <1>9, <1>10, <1>11, <1>12, <1>13
     DEF LockNext, TakeStep

\* The invariant holds in every state of the lock.
THEOREM LockInvariant == LockSpec => []LockInv
<1>1. LockInit => LockInv
  BY InitLockInv
<1>2. LockInv /\ [LockNext]_lockVars => LockInv'
  BY StepLockInv
<1>3. QED
  BY <1>1, <1>2, PTL DEF LockSpec

\* Type correctness of the lock.
THEOREM LockTypeCorrect == LockSpec => []LockTypeOK
<1>1. LockInv => LockTypeOK
  BY DEF LockInv
<1>2. QED
  BY <1>1, LockInvariant, PTL

\* The pid in the lock file is that of a holder or of a run that was killed,
\* through every race: what holder_is_alive relies on when it asks the pid.
THEOREM FileNamesAHolder == LockSpec => []FileNamesAHolderOrTheDead
<1>1. LockInv => FileNamesAHolderOrTheDead
  BY DEF LockInv
<1>2. QED
  BY <1>1, LockInvariant, PTL

\* Two runs hold the lock together only after a takeover removed the file of a
\* live holder: the check-then-remove in take() is the only way to break it.
THEOREM TakeoverIsTheOnlyBreak == LockSpec => []OnlyATakeoverBreaksTheLock
<1>1. LockInv => OnlyATakeoverBreaksTheLock
  BY DEF LockInv, HolderMadeTheFile, OnlyATakeoverBreaksTheLock
<1>2. QED
  BY <1>1, LockInvariant, PTL

(***************************************************************************)
(* The queue only ever moves the lock by the lock's own steps              *)
(***************************************************************************)
LEMMA RunStepMovesLock ==
  ASSUME NEW p \in Run, RunStep(p)
  PROVE  BeginTake(p) \/ DropLock(p) \/ LeaveRefused(p) \/ UNCHANGED lockVars
<1>1. CASE MeetsWindow(p)
  BY <1>1 DEF MeetsWindow
<1>2. CASE NoteYield(p)
  BY <1>2 DEF NoteYield
<1>3. CASE Starts(p)
  BY <1>3 DEF Starts
<1>4. CASE WritesAsk(p)
  BY <1>4 DEF WritesAsk
<1>5. CASE StartsWithoutAsk(p)
  BY <1>5 DEF StartsWithoutAsk
<1>6. CASE CompactorStarts(p)
  BY <1>6 DEF CompactorStarts
<1>7. CASE TurnedAway(p)
  BY <1>7 DEF TurnedAway
<1>8. CASE TakesOwnAsk(p)
  BY <1>8 DEF TakesOwnAsk
<1>9. CASE AlreadyServed(p)
  BY <1>9 DEF AlreadyServed
<1>10. CASE LeavesServed(p)
  BY <1>10 DEF LeavesServed
<1>11. CASE SweepHolds(p)
  BY <1>11 DEF SweepHolds
<1>12. CASE Heal(p)
  BY <1>12 DEF Heal
<1>13. CASE Finishes(p)
  BY <1>13 DEF Finishes
<1>14. CASE Overruns(p)
  BY <1>14 DEF Overruns
<1>15. CASE HandsBack(p)
  BY <1>15 DEF HandsBack
<1>16. CASE Fails(p)
  BY <1>16 DEF Fails
<1>17. CASE LetsGo(p)
  BY <1>17 DEF LetsGo
<1>18. CASE FindsNone(p)
  BY <1>18 DEF FindsNone
<1>19. CASE Looks(p)
  BY <1>19 DEF Looks
<1>20. CASE LeavesToHolder(p)
  BY <1>20 DEF LeavesToHolder
<1>21. CASE TakesNext(p)
  BY <1>21 DEF TakesNext
<1>22. CASE LooksAgain(p)
  BY <1>22 DEF LooksAgain
<1>23. CASE Purges(p)
  BY <1>23 DEF Purges
<1>24. CASE BriefHolds(p)
  BY <1>24 DEF BriefHolds
<1>25. CASE OpensWindow(p)
  BY <1>25 DEF OpensWindow
<1>26. CASE ClosesWindow(p)
  BY <1>26 DEF ClosesWindow
<1>27. CASE CompactorLetsGo(p)
  BY <1>27 DEF CompactorLetsGo
<1>28. CASE FinishesYield(p)
  BY <1>28 DEF FinishesYield
<1>29. QED
  BY <1>1, <1>2, <1>3, <1>4, <1>5, <1>6, <1>7, <1>8, <1>9, <1>10, <1>11, <1>12, <1>13, <1>14, <1>15, <1>16, <1>17, <1>18, <1>19, <1>20, <1>21, <1>22, <1>23, <1>24, <1>25, <1>26, <1>27, <1>28 DEF RunStep

LEMMA QueueStepIsLockStep == [Next]_vars => [LockNext]_lockVars
<1>1. ASSUME NEW p \in Run, RunStep(p) PROVE [LockNext]_lockVars
  BY <1>1, RunStepMovesLock DEF LockNext
<1>2. ASSUME NEW p \in Run, Refreshes(p) PROVE [LockNext]_lockVars
  BY <1>2 DEF Refreshes, LockNext
<1>3. ASSUME NEW p \in Run, Killed(p) PROVE [LockNext]_lockVars
  BY <1>3 DEF Killed, LockNext
<1>4. ASSUME NEW s \in Sessions, Captures(s) PROVE [LockNext]_lockVars
  BY <1>4 DEF Captures
<1>5. CASE LockMoves
  BY <1>5 DEF LockMoves, LockNext
<1>6. CASE UNCHANGED vars
  BY <1>6 DEF vars
<1>7. QED
  BY <1>1, <1>2, <1>3, <1>4, <1>5, <1>6 DEF Next

\* The runs use the lock as RunLock describes it: every behaviour of the queue
\* is a behaviour of the lock, so what is proved of the lock holds here.
THEOREM QueueUsesTheLock == Spec => LockSpec
<1>1. Init => LockInit
  BY DEF Init
<1>2. [Next]_vars => [LockNext]_lockVars
  BY QueueStepIsLockStep
<1>3. QED
  BY <1>1, <1>2, PTL DEF Spec, LockSpec

(***************************************************************************)
(* The asks                                                                *)
(***************************************************************************)
\* A holder looks for another ask only below the drain limit, so taking one
\* keeps within it.
LooksBelowTheLimit ==
  \A p \in Run : pc[p] \in {"look", "relock"} => drained[p] < MaxDrain

\* Only a run that has one goes for an ask of its own.
SweepHasNoAsk ==
  \A p \in Run :
    /\ pc[p] = "ask" => Asks(p)
    /\ Want[p] = IdleSweep /\ pc[p] \in {"unborn", "new", "lock"} => cur[p] = NoAsk

QueueInv ==
  /\ QueueTypeOK
  /\ NoAskServedTwiceAtOnce
  /\ LooksBelowTheLimit
  /\ SweepHasNoAsk

LEMMA InitQueueInv == Init => QueueInv
<1> SUFFICES ASSUME Init PROVE QueueInv
  OBVIOUS
<1>1. Rows = {} /\ what \in [{} -> Work]
  BY DEF Init, Rows
<1>2. QueueTypeOK
  <2>1. open \subseteq Nat \ {NoAsk} /\ taken \subseteq Nat \ {NoAsk}
    BY <1>1, RunQueueAssumption DEF Init, Pc, Why, NoAsk
  <2>2. what \in [Rows -> Work]
    BY <1>1, RunQueueAssumption DEF Init, Pc, Why, NoAsk
  <2>3. pending \subseteq Sessions
    BY <1>1, RunQueueAssumption DEF Init, Pc, Why, NoAsk
  <2>4. pc \in [Run -> Pc]
    BY <1>1, RunQueueAssumption DEF Init, Pc, Why, NoAsk
  <2>5. cur \in [Run -> Nat]
    BY <1>1, RunQueueAssumption DEF Init, Pc, Why, NoAsk
  <2>6. req \in [Run -> Work \cup {IdleSweep, Brief, Compactor}]
    BY <1>1, RunQueueAssumption DEF Init, Pc, Why, NoAsk
  <2>7. drained \in [Run -> 0..MaxDrain]
    BY <1>1, RunQueueAssumption DEF Init, Pc, Why, NoAsk
  <2>8. window \subseteq Run
    BY <1>1, RunQueueAssumption DEF Init, Pc, Why, NoAsk
  <2>9. yieldFile \in BOOLEAN
    BY <1>1, RunQueueAssumption DEF Init, Pc, Why, NoAsk
  <2>10. why \in [Run -> Why]
    BY <1>1, RunQueueAssumption DEF Init, Pc, Why, NoAsk
  <2>11. QED
    BY <2>1, <2>2, <2>3, <2>4, <2>5, <2>6, <2>7, <2>8, <2>9, <2>10 DEF QueueTypeOK
<1>3. NoAskServedTwiceAtOnce /\ LooksBelowTheLimit /\ SweepHasNoAsk
  BY DEF Init, NoAskServedTwiceAtOnce, Serving, LooksBelowTheLimit, SweepHasNoAsk
<1>4. QED
  BY <1>2, <1>3 DEF QueueInv

LEMMA RunStepQueueInv ==
  ASSUME QueueInv, NEW p \in Run, RunStep(p)
  PROVE  QueueInv'
<1> USE RunQueueAssumption
    DEF QueueInv, QueueTypeOK, Rows, Pc, Why, NoAskServedTwiceAtOnce, Serving,
        LooksBelowTheLimit, SweepHasNoAsk, Is, Move, Forget, tableVars, Asks, NoAsk
<1>1. CASE MeetsWindow(p)
  BY <1>1 DEF MeetsWindow
<1>2. CASE NoteYield(p)
  BY <1>2 DEF NoteYield, End
<1>3. CASE Starts(p)
  BY <1>3 DEF Starts
<1>4. CASE WritesAsk(p)
  <2>1. QueueTypeOK'
    <3>1. (open \subseteq Nat \ {NoAsk} /\ taken \subseteq Nat \ {NoAsk})'
      BY <1>4 DEF WritesAsk, AddAsk, NextRowId
    <3>2. (what \in [Rows -> Work])'
      BY <1>4 DEF WritesAsk, AddAsk, NextRowId
    <3>3. (pending \subseteq Sessions)'
      BY <1>4 DEF WritesAsk, AddAsk, NextRowId
    <3>4. (pc \in [Run -> Pc])'
      BY <1>4 DEF WritesAsk, AddAsk, NextRowId
    <3>5. (cur \in [Run -> Nat])'
      BY <1>4 DEF WritesAsk, AddAsk, NextRowId
    <3>6. (req \in [Run -> Work \cup {IdleSweep, Brief, Compactor}])'
      BY <1>4 DEF WritesAsk, AddAsk, NextRowId
    <3>7. (drained \in [Run -> 0..MaxDrain])'
      BY <1>4 DEF WritesAsk, AddAsk, NextRowId
    <3>8. (window \subseteq Run)'
      BY <1>4 DEF WritesAsk, AddAsk, NextRowId
    <3>9. (yieldFile \in BOOLEAN)'
      BY <1>4 DEF WritesAsk, AddAsk, NextRowId
    <3>10. (why \in [Run -> Why])'
      BY <1>4 DEF WritesAsk, AddAsk, NextRowId
    <3>11. QED
      BY <3>1, <3>2, <3>3, <3>4, <3>5, <3>6, <3>7, <3>8, <3>9, <3>10
  <2>2. NoAskServedTwiceAtOnce'
    BY <1>4 DEF WritesAsk, AddAsk, NextRowId
  <2>3. LooksBelowTheLimit'
    BY <1>4 DEF WritesAsk, AddAsk, NextRowId
  <2>4. SweepHasNoAsk'
    BY <1>4 DEF WritesAsk, AddAsk, NextRowId
  <2>5. QED
    BY <2>1, <2>2, <2>3, <2>4
<1>5. CASE StartsWithoutAsk(p)
  BY <1>5 DEF StartsWithoutAsk
<1>6. CASE CompactorStarts(p)
  BY <1>6 DEF CompactorStarts, End
<1>7. CASE TurnedAway(p)
  BY <1>7 DEF TurnedAway, End
<1>8. CASE TakesOwnAsk(p)
  <2>1. QueueTypeOK'
    BY <1>8 DEF TakesOwnAsk, Consume, Twins
  <2>2. NoAskServedTwiceAtOnce'
    BY <1>8 DEF TakesOwnAsk, Consume, Twins
  <2>3. LooksBelowTheLimit'
    BY <1>8 DEF TakesOwnAsk, Consume, Twins
  <2>4. SweepHasNoAsk'
    BY <1>8 DEF TakesOwnAsk, Consume, Twins
  <2>5. QED
    BY <2>1, <2>2, <2>3, <2>4
<1>9. CASE AlreadyServed(p)
  BY <1>9 DEF AlreadyServed, Purge, Delete
<1>10. CASE LeavesServed(p)
  BY <1>10 DEF LeavesServed, End
<1>11. CASE SweepHolds(p)
  BY <1>11 DEF SweepHolds
<1>12. CASE Heal(p)
  <2>1. QueueTypeOK'
    BY <1>12 DEF Heal, Delete, StaleAsks
  <2>2. NoAskServedTwiceAtOnce'
    BY <1>12 DEF Heal, Delete, StaleAsks
  <2>3. LooksBelowTheLimit'
    BY <1>12 DEF Heal, Delete, StaleAsks
  <2>4. SweepHasNoAsk'
    BY <1>12 DEF Heal, Delete, StaleAsks
  <2>5. QED
    BY <2>1, <2>2, <2>3, <2>4
<1>13. CASE Finishes(p)
  BY <1>13 DEF Finishes
<1>14. CASE Overruns(p)
  BY <1>14 DEF Overruns
<1>15. CASE HandsBack(p)
  <2>1. QueueTypeOK'
    BY <1>15 DEF HandsBack, HandBack
  <2>2. NoAskServedTwiceAtOnce'
    BY <1>15 DEF HandsBack, HandBack
  <2>3. LooksBelowTheLimit' /\ SweepHasNoAsk'
    BY <1>15 DEF HandsBack
  <2>4. QED
    BY <2>1, <2>2, <2>3
<1>16. CASE Fails(p)
  BY <1>16 DEF Fails, End
<1>17. CASE LetsGo(p)
  BY <1>17 DEF LetsGo
<1>18. CASE FindsNone(p)
  BY <1>18 DEF FindsNone
<1>19. CASE Looks(p)
  BY <1>19 DEF Looks
<1>20. CASE LeavesToHolder(p)
  BY <1>20 DEF LeavesToHolder
<1>21. CASE TakesNext(p)
  <2>1. QueueTypeOK'
    <3>1. (open \subseteq Nat \ {NoAsk} /\ taken \subseteq Nat \ {NoAsk})'
      BY <1>21 DEF TakesNext, Consume, Twins
    <3>2. (what \in [Rows -> Work])'
      BY <1>21 DEF TakesNext, Consume, Twins
    <3>3. (pending \subseteq Sessions)'
      BY <1>21 DEF TakesNext, Consume, Twins
    <3>4. (pc \in [Run -> Pc])'
      BY <1>21 DEF TakesNext, Consume, Twins
    <3>5. (cur \in [Run -> Nat])'
      BY <1>21 DEF TakesNext, Consume, Twins
    <3>6. (req \in [Run -> Work \cup {IdleSweep, Brief, Compactor}])'
      BY <1>21 DEF TakesNext, Consume, Twins
    <3>7. (drained \in [Run -> 0..MaxDrain])'
      BY <1>21 DEF TakesNext, Consume, Twins
    <3>8. (window \subseteq Run)'
      BY <1>21 DEF TakesNext, Consume, Twins
    <3>9. (yieldFile \in BOOLEAN)'
      BY <1>21 DEF TakesNext, Consume, Twins
    <3>10. (why \in [Run -> Why])'
      BY <1>21 DEF TakesNext, Consume, Twins
    <3>11. QED
      BY <3>1, <3>2, <3>3, <3>4, <3>5, <3>6, <3>7, <3>8, <3>9, <3>10
  <2>2. NoAskServedTwiceAtOnce'
    BY <1>21 DEF TakesNext, Consume, Twins
  <2>3. LooksBelowTheLimit'
    BY <1>21 DEF TakesNext, Consume, Twins
  <2>4. SweepHasNoAsk'
    BY <1>21 DEF TakesNext, Consume, Twins
  <2>5. QED
    BY <2>1, <2>2, <2>3, <2>4
<1>22. CASE LooksAgain(p)
  BY <1>22 DEF LooksAgain
<1>23. CASE Purges(p)
  BY <1>23 DEF Purges, Purge, Delete, End
<1>24. CASE BriefHolds(p)
  BY <1>24 DEF BriefHolds, End
<1>25. CASE OpensWindow(p)
  BY <1>25 DEF OpensWindow
<1>26. CASE ClosesWindow(p)
  BY <1>26 DEF ClosesWindow
<1>27. CASE CompactorLetsGo(p)
  BY <1>27 DEF CompactorLetsGo
<1>28. CASE FinishesYield(p)
  <2>1. QueueTypeOK'
    <3>1. (open \subseteq Nat \ {NoAsk} /\ taken \subseteq Nat \ {NoAsk})'
      BY <1>28 DEF FinishesYield
    <3>2. (what \in [Rows -> Work])'
      BY <1>28 DEF FinishesYield
    <3>3. (pending \subseteq Sessions)'
      BY <1>28 DEF FinishesYield
    <3>4. (pc \in [Run -> Pc])'
      BY <1>28 DEF FinishesYield
    <3>5. (cur \in [Run -> Nat])'
      BY <1>28 DEF FinishesYield
    <3>6. (req \in [Run -> Work \cup {IdleSweep, Brief, Compactor}])'
      BY <1>28 DEF FinishesYield
    <3>7. (drained \in [Run -> 0..MaxDrain])'
      BY <1>28 DEF FinishesYield
    <3>8. (window \subseteq Run)'
      BY <1>28 DEF FinishesYield
    <3>9. (yieldFile \in BOOLEAN)'
      BY <1>28 DEF FinishesYield
    <3>10. (why \in [Run -> Why])'
      BY <1>28 DEF FinishesYield
    <3>11. QED
      BY <3>1, <3>2, <3>3, <3>4, <3>5, <3>6, <3>7, <3>8, <3>9, <3>10
  <2>2. NoAskServedTwiceAtOnce'
    BY <1>28 DEF FinishesYield
  <2>3. LooksBelowTheLimit'
    BY <1>28 DEF FinishesYield
  <2>4. SweepHasNoAsk'
    BY <1>28 DEF FinishesYield
  <2>5. QED
    BY <2>1, <2>2, <2>3, <2>4
<1>29. QED
  BY <1>1, <1>2, <1>3, <1>4, <1>5, <1>6, <1>7, <1>8, <1>9, <1>10, <1>11, <1>12, <1>13, <1>14, <1>15, <1>16, <1>17, <1>18, <1>19, <1>20, <1>21, <1>22, <1>23, <1>24, <1>25, <1>26, <1>27, <1>28 DEF RunStep

LEMMA StepQueueInv == QueueInv /\ [Next]_vars => QueueInv'
<1> SUFFICES ASSUME QueueInv, [Next]_vars PROVE QueueInv'
  OBVIOUS
<1> USE RunQueueAssumption
    DEF QueueInv, QueueTypeOK, Rows, Pc, Why, NoAskServedTwiceAtOnce, Serving,
        LooksBelowTheLimit, SweepHasNoAsk, Asks, Move, NoAsk
<1>1. ASSUME NEW p \in Run, RunStep(p) PROVE QueueInv'
  BY <1>1, RunStepQueueInv
<1>2. ASSUME NEW p \in Run, Refreshes(p) PROVE QueueInv'
  BY <1>2 DEF Refreshes, queueVars
<1>3. ASSUME NEW p \in Run, Killed(p) PROVE QueueInv'
  BY <1>3 DEF Killed, End, Forget, tableVars
<1>4. ASSUME NEW s \in Sessions, Captures(s) PROVE QueueInv'
  BY <1>4 DEF Captures, tableVars
<1>5. CASE LockMoves
  BY <1>5 DEF LockMoves, queueVars
<1>6. CASE UNCHANGED vars
  BY <1>6 DEF vars, queueVars
<1>7. QED
  BY <1>1, <1>2, <1>3, <1>4, <1>5, <1>6 DEF Next

THEOREM QueueInvariant == Spec => []QueueInv
<1>1. Init => QueueInv
  BY InitQueueInv
<1>2. QueueInv /\ [Next]_vars => QueueInv'
  BY StepQueueInv
<1>3. QED
  BY <1>1, <1>2, PTL DEF Spec

\* Type correctness of the lock and the queue together.
THEOREM QueueTypeCorrect == Spec => []TypeOK
<1>1. QueueInv => QueueTypeOK
  BY DEF QueueInv
<1>2. QED
  BY <1>1, QueueInvariant, QueueUsesTheLock, LockTypeCorrect, PTL DEF TypeOK

\* No ask is served by two runs at once, although the lock does not keep two
\* runs from holding it together: the consuming UPDATE is what decides.
THEOREM AskServedByOne == Spec => []NoAskServedTwiceAtOnce
<1>1. QueueInv => NoAskServedTwiceAtOnce
  BY DEF QueueInv
<1>2. QED
  BY <1>1, QueueInvariant, PTL

(***************************************************************************)
(* The asks left behind                                                    *)
(***************************************************************************)
\* What explains an ask that is still open when every run has ended.
Excuse  == {"short", "error", "crash", "elsewhere", "brief", "compact"}
Excused == \E p \in Run : why[p] \in Excuse

\* Nobody is said to have ended before it has had the lock, or was turned away.
NotYetJudged ==
  \A p \in Run : pc[p] \in {"unborn", "new", "note", "ask", "lock"} => why[p] = "running"

\* A killed run is an excuse, and so is what it leaves in the lock file.
DeathIsAnExcuse ==
  /\ \A p \in dead : why[p] = "crash"
  /\ lockFile = Blank => Excused \/ handle # {}

\* Where a run is while it is in a call of the lock, or holds it.
InTheCall ==
  \A p \in Run :
    /\ take[p] \notin {"out", "held"} => pc[p] \in {"lock", "relock"}
    /\ Holds(p) => pc[p] \in {"lock", "relock", "elsewhere", "heal", "exec", "handback", "letgo", "rewrite"}

\* A run that cannot end before it has looked at the open asks, short of giving
\* an excuse: it holds the lock, is about to try it, or is about to look. One
\* that has met the lock of another is not: it leaves the asks to that one.
Attends(p) ==
  \/ pc[p] \in {"elsewhere", "heal", "exec", "handback", "letgo", "look", "rewrite", "finish"}
  \/ pc[p] \in {"lock", "relock"} /\ take[p] \in {"create", "write", "remove", "held"}

OpenAsksAreAttended == open # {} => Excused \/ \E p \in Run : Attends(p)

ExcuseInv == NotYetJudged /\ DeathIsAnExcuse /\ InTheCall /\ OpenAsksAreAttended

LEMMA InitExcuseInv == Init => ExcuseInv
BY NotAPid DEF Init, LockInit, ExcuseInv, NotYetJudged, DeathIsAnExcuse, InTheCall, OpenAsksAreAttended, Holds,
               NoFile, Blank

\* A run's own step: an excuse, once given, stands, and whoever stops attending
\* gives one or has found nothing open.
LEMMA RunStepKeepsExcuses ==
  ASSUME LockInv, QueueInv, ExcuseInv, NEW p \in Run, RunStep(p)
  PROVE  ExcuseInv'
<1> USE NotAPid
    DEF QueueInv, QueueTypeOK, LockInv, LockTypeOK, ExcuseInv, NotYetJudged, DeathIsAnExcuse, InTheCall,
        OpenAsksAreAttended, Attends, Excused, Excuse, Holds, Is, Move, Forget, tableVars,
        BeginTake, LeaveRefused, DropLock, At, Goto, lockVars, Pc, Why, TakePc
<1>1. CASE MeetsWindow(p)
  BY <1>1 DEF MeetsWindow
<1>2. CASE NoteYield(p)
  BY <1>2 DEF NoteYield, End
<1>3. CASE Starts(p)
  BY <1>3 DEF Starts
<1>4. CASE WritesAsk(p)
  BY <1>4 DEF WritesAsk, AddAsk
<1>5. CASE StartsWithoutAsk(p)
  BY <1>5 DEF StartsWithoutAsk
<1>6. CASE CompactorStarts(p)
  BY <1>6 DEF CompactorStarts, End
<1>7. CASE TurnedAway(p)
  BY <1>7 DEF TurnedAway, End
<1>8. CASE TakesOwnAsk(p)
  BY <1>8 DEF TakesOwnAsk
<1>9. CASE AlreadyServed(p)
  BY <1>9 DEF AlreadyServed
<1>10. CASE LeavesServed(p)
  BY <1>10 DEF LeavesServed, End
<1>11. CASE SweepHolds(p)
  BY <1>11 DEF SweepHolds
<1>12. CASE Heal(p)
  BY <1>12 DEF Heal
<1>13. CASE Finishes(p)
  BY <1>13 DEF Finishes
<1>14. CASE Overruns(p)
  BY <1>14 DEF Overruns
<1>15. CASE HandsBack(p)
  BY <1>15 DEF HandsBack, HandBack
<1>16. CASE Fails(p)
  BY <1>16 DEF Fails, End
<1>17. CASE LetsGo(p)
  <2>1. NotYetJudged' /\ InTheCall'
    BY <1>17 DEF LetsGo
  <2>2. DeathIsAnExcuse'
    <3>1. p \notin dead /\ dead' = dead /\ lockFile' = NoFile
      BY <1>17 DEF LetsGo
    <3>2. why' = why \/ why' = [why EXCEPT ![p] = "short"]
      BY <1>17 DEF LetsGo
    <3>3. \A q \in dead' : why'[q] = "crash"
      BY <3>1, <3>2
    <3>4. QED
      BY <3>1, <3>3 DEF NoFile, Blank
  <2>3. why'[p] \in Excuse \/ Attends(p)'
    BY <1>17 DEF LetsGo
  <2>4. OpenAsksAreAttended'
    BY <2>3
  <2>5. QED
    BY <2>1, <2>2, <2>4
<1>18. CASE FindsNone(p)
  BY <1>18 DEF FindsNone
<1>19. CASE Looks(p)
  BY <1>19 DEF Looks
<1>20. CASE LeavesToHolder(p)
  BY <1>20 DEF LeavesToHolder
<1>21. CASE TakesNext(p)
  BY <1>21 DEF TakesNext
<1>22. CASE LooksAgain(p)
  <2>1. p \notin dead /\ dead' = dead /\ lockFile' = NoFile /\ why' = why /\ NoFile # Blank
    BY <1>22 DEF LooksAgain, NoFile, Blank
  <2>2. NotYetJudged' /\ InTheCall'
    BY <1>22 DEF LooksAgain
  <2>3. DeathIsAnExcuse'
    BY <2>1
  <2>4. pc'[p] = "look"
    BY <1>22 DEF LooksAgain
  <2>5. OpenAsksAreAttended'
    BY <2>4
  <2>6. QED
    BY <2>2, <2>3, <2>5
<1>23. CASE Purges(p)
  <2>1. open' \subseteq open /\ UNCHANGED lockVars
    BY <1>23 DEF Purges, Purge, Delete
  <2>2. open # {} => Excused \/ \E q \in Run : q # p /\ Attends(q)
    BY <1>23 DEF Purges
  <2>3. QED
    <3>1. /\ pc' = [pc EXCEPT ![p] = "ended"] /\ pc[p] = "purge"
          /\ why' = [why EXCEPT ![p] = IF why[p] = "running" THEN "drained" ELSE why[p]]
      BY <1>23 DEF Purges, End
    <3>2. \A q \in Run : why[q] \in Excuse => why'[q] \in Excuse
      BY <3>1
    <3>3. Excused => Excused'
      BY <3>2
    <3>4. \A q \in Run : q # p /\ Attends(q) => Attends(q)'
      BY <2>1, <3>1
    <3>5. OpenAsksAreAttended'
      <4> HIDE DEF Excused, Attends, lockVars, LockInv, QueueInv
      <4>1. open' # {} => Excused' \/ \E q \in Run : Attends(q)'
        BY <2>1, <2>2, <3>3, <3>4
      <4>2. QED
        BY <4>1
    <3>6. NotYetJudged' /\ InTheCall'
      BY <2>1, <3>1
    <3>7. DeathIsAnExcuse'
      <4>1. dead' = dead /\ lockFile' = lockFile /\ handle' = handle
        BY <2>1
      <4>2. \A q \in dead : why[q] = "crash" => why'[q] = "crash"
        BY <3>1
      <4>3. QED
        BY <3>3, <4>1, <4>2
    <3>8. QED
      BY <3>5, <3>6, <3>7
<1>24. CASE BriefHolds(p)
  BY <1>24 DEF BriefHolds, End
<1>25. CASE OpensWindow(p)
  BY <1>25 DEF OpensWindow
<1>26. CASE ClosesWindow(p)
  BY <1>26 DEF ClosesWindow
<1>27. CASE CompactorLetsGo(p)
  <2>1. p \notin dead /\ dead' = dead /\ lockFile' = NoFile /\ why' = why /\ NoFile # Blank
    BY <1>27 DEF CompactorLetsGo, NoFile, Blank
  <2>2. NotYetJudged' /\ InTheCall'
    BY <1>27 DEF CompactorLetsGo
  <2>3. DeathIsAnExcuse'
    BY <2>1
  <2>4. pc'[p] = "finish"
    BY <1>27 DEF CompactorLetsGo
  <2>5. OpenAsksAreAttended'
    BY <2>4
  <2>6. QED
    BY <2>2, <2>3, <2>5
<1>28. CASE FinishesYield(p)
  BY <1>28 DEF FinishesYield
<1>29. QED
  BY <1>1, <1>2, <1>3, <1>4, <1>5, <1>6, <1>7, <1>8, <1>9, <1>10, <1>11, <1>12, <1>13, <1>14, <1>15, <1>16, <1>17, <1>18, <1>19, <1>20, <1>21, <1>22, <1>23, <1>24, <1>25, <1>26, <1>27, <1>28 DEF RunStep

LEMMA StepExcuseInv == LockInv /\ QueueInv /\ ExcuseInv /\ [Next]_vars => ExcuseInv'
<1> SUFFICES ASSUME LockInv, QueueInv, ExcuseInv, [Next]_vars PROVE ExcuseInv'
  OBVIOUS
<1> USE NotAPid
    DEF QueueInv, QueueTypeOK, LockInv, LockTypeOK, ExcuseInv, NotYetJudged, DeathIsAnExcuse, InTheCall,
        OpenAsksAreAttended, Attends, Excused, Excuse, Holds, Pc, Why, TakePc, At, Goto
<1>1. ASSUME NEW p \in Run, RunStep(p) PROVE ExcuseInv'
  BY <1>1, RunStepKeepsExcuses
<1>2. ASSUME NEW p \in Run, Refreshes(p) PROVE ExcuseInv'
  BY <1>2 DEF Refreshes, queueVars, Touch
<1>3. ASSUME NEW p \in Run, Killed(p) PROVE ExcuseInv'
  BY <1>3 DEF Killed, End, Forget, Move, tableVars, Crash, Die
<1>4. ASSUME NEW s \in Sessions, Captures(s) PROVE ExcuseInv'
  BY <1>4 DEF Captures, tableVars, lockVars
<1>5. CASE LockMoves
  <2>1. ASSUME GrowOld PROVE ExcuseInv'
    BY <1>5, <2>1 DEF LockMoves, queueVars, GrowOld
  <2>2. ASSUME NEW p \in Run, WearPid(p) PROVE ExcuseInv'
    BY <1>5, <2>2 DEF LockMoves, queueVars, WearPid
  <2>3. ASSUME NEW p \in Run, CreateNew(p) PROVE ExcuseInv'
    BY <1>5, <2>3 DEF LockMoves, queueVars, CreateNew
  <2>3a. ASSUME NEW p \in Run, WritePid(p) PROVE ExcuseInv'
    BY <1>5, <2>3a DEF LockMoves, queueVars, WritePid
  \* The file is a holder's or its maker's, and that one attends to what is open.
  <2>4. ASSUME NEW p \in Run, AlreadyExists(p) PROVE ExcuseInv'
    <3>1. lockFile \in Run \/ handle # {} \/ Excused
      BY <2>4 DEF AlreadyExists
    <3>2. Excused \/ \E q \in Run : q # p /\ take[q] \in {"write", "held"} /\ Attends(q)
      BY <3>1, <2>4 DEF AlreadyExists, FileNamesAHolderOrTheDead, HolderMadeTheFile
    <3>3. QED
      BY <1>5, <2>4, <3>2 DEF LockMoves, queueVars, AlreadyExists
  <2>5. ASSUME NEW p \in Run, Stat(p) PROVE ExcuseInv'
    BY <1>5, <2>5 DEF LockMoves, queueVars, Stat
  <2>6. ASSUME NEW p \in Run, ReadHolder(p) PROVE ExcuseInv'
    BY <1>5, <2>6 DEF LockMoves, queueVars, ReadHolder
  <2>7. ASSUME NEW p \in Run, RemoveStale(p) PROVE ExcuseInv'
    <3>1. /\ UNCHANGED queueVars /\ UNCHANGED dead /\ take' = [take EXCEPT ![p] = "create"]
          /\ take[p] = "remove" /\ lockFile' # Blank
      BY <1>5, <2>7 DEF LockMoves, RemoveStale, NoFile, Blank
    <3>2. QED
      BY <1>5, <3>1 DEF queueVars
  <2>8. QED
    BY <1>5, <2>1, <2>2, <2>3, <2>3a, <2>4, <2>5, <2>6, <2>7 DEF LockMoves, TakeStep
<1>6. CASE UNCHANGED vars
  BY <1>6 DEF vars, queueVars, lockVars
<1>7. QED
  BY <1>1, <1>2, <1>3, <1>4, <1>5, <1>6 DEF Next

THEOREM ExcuseInvariant == Spec => []ExcuseInv
<1>1. Init => ExcuseInv
  BY InitExcuseInv
<1>2. LockInv /\ QueueInv /\ ExcuseInv /\ [Next]_vars => ExcuseInv'
  BY StepExcuseInv
<1>3. QED
  BY <1>1, <1>2, LockInvariant, QueueUsesTheLock, QueueInvariant, PTL DEF Spec

\* An ask that is open when the last run ends has an explanation: the order of
\* writing the ask, trying the lock, letting go of it and looking leaves none
\* between the one who met the lock and the one who held it.
THEOREM OpenAsksExplained == Spec => []OpenAsksAreExplained
<1>1. ExcuseInv => OpenAsksAreExplained
  BY DEF ExcuseInv, OpenAsksAreAttended, OpenAsksAreExplained, AllEnded, Attends, Excused, Excuse
<1>2. QED
  BY <1>1, ExcuseInvariant, PTL
=============================================================================

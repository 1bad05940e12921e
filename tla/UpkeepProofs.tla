---------------------------- MODULE UpkeepProofs ----------------------------
(***************************************************************************)
(* Proofs about the daily upkeep, for any jobs, hooks, sessions and rows,   *)
(* any slice and span, and any number of kills and failed writes; and about *)
(* the ladder a run's prompts go to, for any CLIs, callers, models,         *)
(* threshold and mode. The two share no state.                              *)
(***************************************************************************)
EXTENDS Upkeep, Ladder, FiniteSetTheorems, WellFoundedInduction, TLAPS

(***************************************************************************)
(* Slices of rows                                                          *)
(***************************************************************************)
LEMMA RowsAreFinite ==
  ASSUME NEW S, S \subseteq Row
  PROVE  IsFiniteSet(S) /\ Cardinality(S) \in Nat
<1>1. IsFiniteSet(Row)
  BY UpkeepAssumption, FS_Interval DEF Row
<1> QED
  BY <1>1, FS_Subset, FS_CardinalityType

\* A set of rows has a first and a last one: of their sets of earlier rows, of
\* later rows, one is the smallest.
LEMMA FirstRow ==
  ASSUME NEW S, S \subseteq Row, S # {}
  PROVE  \E m \in S : \A k \in S : m <= k
<1> DEFINE R == StrictSubsetOrdering(S)
           T == {{q \in S : q < r} : r \in S}
<1>1. IsWellFoundedOn(R, SUBSET S)
  BY RowsAreFinite, FS_StrictSubsetOrderingWellFounded, FS_FiniteSubsetsOfFinite
<1>2. T \subseteq SUBSET S /\ T # {}
  OBVIOUS
<1>3. \E x \in T : \A y \in T : ~(<<y, x>> \in R)
  <2> HIDE DEF R, T
  <2> QED
    BY <1>1, <1>2, WFMin
<1>4. PICK m \in S : \A r \in S : ~(<<{q \in S : q < r}, {q \in S : q < m}>> \in R)
  BY <1>3
<1>5. ASSUME NEW k \in S, k < m PROVE FALSE
  <2>0. \A q \in S : q \in Int
    BY DEF Row
  <2>1. {q \in S : q < k} \subseteq {q \in S : q < m}
    BY <1>5, <2>0
  <2>2. k \in {q \in S : q < m} /\ k \notin {q \in S : q < k}
    BY <1>5, <2>0
  <2>3. <<{q \in S : q < k}, {q \in S : q < m}>> \in R
    BY <2>1, <2>2 DEF StrictSubsetOrdering
  <2> QED
    BY <1>4, <2>3
<1> QED
  BY <1>5, UpkeepAssumption DEF Row

LEMMA LastRow ==
  ASSUME NEW S, S \subseteq Row, S # {}
  PROVE  \E m \in S : \A k \in S : k <= m
<1> DEFINE D == {MaxRow + 1 - r : r \in S}
<1>1. D \subseteq Row /\ D # {}
  <2>1. \A r \in S : MaxRow + 1 - r \in 1..MaxRow
    BY UpkeepAssumption DEF Row
  <2> QED
    BY <2>1 DEF Row
<1>2. PICK d \in D : \A k \in D : d <= k
  <2> HIDE DEF D
  <2> QED
    BY <1>1, FirstRow
<1>3. PICK m \in S : d = MaxRow + 1 - m
  OBVIOUS
<1>4. ASSUME NEW k \in S PROVE MaxRow + 1 - m <= MaxRow + 1 - k
  BY <1>2, <1>3
<1>5. m \in Int /\ \A k \in S : k \in Int
  BY DEF Row
<1> QED
  BY <1>4, <1>5, UpkeepAssumption

\* What retention_step reads: the slice is the rows up to `next` that are to go,
\* whether its limit or the end of the window cut it off.
LEMMA SliceReaches ==
  ASSUME NEW M, M \subseteq Row, NEW after \in Nat, \A r \in M : r <= after + Span
  PROVE  /\ FirstSlice(M) \subseteq M
         /\ NextRow(after, FirstSlice(M)) \in Nat /\ NextRow(after, FirstSlice(M)) <= after + Span
         /\ \A r \in M : r <= NextRow(after, FirstSlice(M)) => r \in FirstSlice(M)
<1> DEFINE S == FirstSlice(M)
<1>1. S \subseteq M /\ S \subseteq Row
  BY DEF FirstSlice
<1>2. \A r \in M : r \in S <=> Cardinality({q \in M : q < r}) < Slice
  BY DEF FirstSlice
<1> HIDE DEF S
<1>3. Slice \in Nat /\ Slice > 0 /\ Span \in Nat /\ \A r \in M : r \in Nat
  BY UpkeepAssumption DEF Row
<1>4. CASE Cardinality(S) = Slice
  <2>1. S # {}
    BY <1>3, <1>4, FS_EmptySet
  <2>2. \E m \in S : \A q \in S : q <= m
    BY <1>1, <2>1, LastRow
  <2>3. PICK m \in S : (\A q \in S : q <= m) /\ NextRow(after, S) = m
    BY <1>4, <2>2 DEF NextRow
  <2>4. ASSUME NEW r \in M, r <= m PROVE r \in S
    <3> DEFINE A == {q \in M : q < r}
               B == {q \in M : q < m}
    <3>1. A \subseteq B
      BY <1>1, <1>3, <2>4
    <3>2. Cardinality(A) <= Cardinality(B) /\ Cardinality(A) \in Nat /\ Cardinality(B) \in Nat
      BY <3>1, RowsAreFinite, FS_Subset
    <3>3. Cardinality(B) < Slice
      BY <1>1, <1>2, <2>3
    <3> QED
      BY <1>2, <1>3, <3>2, <3>3
  <2> QED
    BY <1>1, <1>3, <2>3, <2>4 DEF S
<1>5. CASE Cardinality(S) # Slice
  <2>1. NextRow(after, S) = after + Span
    BY <1>5 DEF NextRow
  <2>2. M \subseteq S
    <3> SUFFICES ASSUME M \ S # {} PROVE FALSE
      OBVIOUS
    <3>1. PICK r \in M \ S : \A k \in M \ S : r <= k
      BY <1>3, FirstRow
    <3> DEFINE A == {q \in M : q < r}
    <3>2. A \subseteq S
      BY <1>3, <3>1
    <3>3. Cardinality(A) <= Cardinality(S) /\ Cardinality(S) \in Nat /\ Cardinality(A) \in Nat
      BY <1>1, <3>2, RowsAreFinite, FS_Subset
    <3>4. Cardinality(A) >= Slice
      BY <1>2, <1>3, <3>1, <3>3
    <3>5. Cardinality(S) > Slice
      BY <1>3, <1>5, <3>3, <3>4
    <3>6. PICK m \in S : \A q \in S : q <= m
      BY <1>1, <1>3, <3>5, LastRow, FS_EmptySet
    <3> DEFINE B == {q \in M : q < m}
    <3>7. S \ {m} \subseteq B
      BY <1>1, <1>3, <3>6
    <3>8. Cardinality(S \ {m}) = Cardinality(S) - 1
      BY <1>1, RowsAreFinite, FS_RemoveElement
    <3>9. Cardinality(S \ {m}) <= Cardinality(B) /\ Cardinality(B) \in Nat
      BY <3>7, RowsAreFinite, FS_Subset
    <3>10. Cardinality(B) < Slice
      BY <1>1, <1>2, <3>6
    <3> QED
      BY <1>3, <3>3, <3>5, <3>8, <3>9, <3>10
  <2> QED
    BY <1>1, <1>3, <2>1, <2>2 DEF S
<1> QED
  BY <1>4, <1>5

(***************************************************************************)
(* The invariant                                                           *)
(***************************************************************************)
\* Where a job has the run lock, and where its window is open or was.
Working  == {"daily", "unpark", "revive", "catchUp", "retain", "read", "commit", "finish", "leave", "second", "open",
             "rewrite", "close", "caught", "record", "unlock"}
InWindow == {"rewrite", "close", "caught", "record"}

OneWorks == \A p \in Job : stage[p] \in Working => runLock = p

\* A chance that was counted is the one that is given next.
ChancesCount ==
  /\ \A s \in Sessions : revived[s] <= chances[s]
  /\ \A p \in Job : stage[p] = "unpark" => \A s \in chosen : chances[s] < UnparkLimit
  /\ \A p \in Job : stage[p] = "revive" =>
       /\ chosen # {} /\ revived[Chosen] < chances[Chosen]
       /\ \A s \in chosen \ {Chosen} : chances[s] < UnparkLimit

\* One automatic window more than mishaps, and that one only where the day is
\* spent or the window is still at work.
AutomaticWindow == \E p \in Job \ Compact : stage[p] \in InWindow
WindowsCount ==
  /\ opened <= faults + 1
  /\ ~tried /\ ~AutomaticWindow => opened <= faults
  /\ \A p \in Job \ Compact : stage[p] = "open" => ~tried

\* Whoever saw the marker of a job had logged; a catch-up that comes after the
\* marker is gone has indexed what they logged.
HooksAreSeen ==
  /\ marker \in Job => stage[marker] \in {"rewrite", "close"}
  /\ \A h \in Capture : saw[h] \in Job => hookAt[h] \notin {"new", "logged"}
  /\ Rebuilding => NoJob
  /\ \A p \in Job : stage[p] = "record" /\ caught => \A h \in Capture : saw[h] = p => h \in indexed
  /\ \A h \in promised : saw[h] \in Job /\ (Rebuilding \/ h \in indexed)

\* What was dropped and not given back is on the counters; a rewrite settles
\* what was counted when it began, and nothing is dropped meanwhile.
BooksAgree ==
  /\ free + settled <= dropped
  /\ \A p \in Job : /\ stage[p] \in InWindow => base = dropped
                    /\ stage[p] \in {"close", "caught", "record"} => free = 0

\* What the pass still owes is past the cursor, past what the run has read, or
\* in its hands.
Owed == mustReach \cap ToDrop
PassReaches ==
  /\ passedBy = {} /\ mustReach \subseteq ripe
  /\ Rebuilding => mustReach = {}
  /\ cursor # Open => \A r \in Owed : r > cursor
  /\ \A p \in Job : /\ stage[p] = "read" => \A r \in Owed : r > from
                    /\ stage[p] = "commit" => \A r \in Owed : r > next \/ r \in slice
                    /\ stage[p] = "finish" => Owed = {}

UpkeepInv == UpkeepTypeOK /\ OneWorks /\ ChancesCount /\ WindowsCount /\ HooksAreSeen /\ BooksAgree /\ PassReaches

Stages == Working \cup {"off", "look", "gate", "quiet", "lock", "ungate"}

\* What a job does in its run, and what it does around and in its window.
RunStep(p) ==
  \/ ~Rebuilding /\ RunStarts(p)
  \/ Unparks(p) \/ CountsChance(p) \/ Revives(p) \/ UnparkFails(p) \/ StampsUnpark(p)
  \/ RunCatchesUp(p) \/ BeginsPass(p) \/ ReadsSlice(p) \/ CommitsSlice(p) \/ FinishesPass(p)
  \/ PassFails(p) \/ RunLeaves(p)
WindowStep(p) ==
  \/ Looks(p) \/ TakesGate(p) \/ GateIsTaken(p) \/ IsQuiet(p) \/ StandsAside(p) \/ TakesLock(p) \/ LooksAgain(p)
  \/ ~Rebuilding /\ CompactStarts(p)
  \/ OpensWindow(p) \/ Vacuums(p) \/ RewriteFails(p) \/ CloseWindow(p) \/ WindowCatchesUp(p) \/ Records(p)
  \/ Unlocks(p) \/ DropsGate(p) \/ JobKilled(p)
HookStep(h) == Captures(h) \/ LooksAtMarker(h) \/ Indexes(h) \/ LeavesEvent(h)
WorldStep ==
  \/ \E r \in Row : Ripens(r) \/ Surfaces(r)
  \/ \E s \in Sessions : Parks(s)
  \/ DayPasses \/ GateAges \/ MarkerExpires \/ Replays

LEMMA NextIsOneOf ==
  UpkeepNext => \/ \E p \in Job : RunStep(p) \/ WindowStep(p)
                \/ \E h \in Capture : HookStep(h)
                \/ WorldStep \/ Clears
BY DEF UpkeepNext, RunStep, WindowStep, HookStep, WorldStep

\* A job moves alone. It takes the run lock where nobody has it, and gives it
\* back with all it had in memory.
LEMMA JobMoves ==
  ASSUME UpkeepTypeOK, OneWorks, NEW p \in Job, RunStep(p) \/ WindowStep(p)
  PROVE  /\ stage'[p] \in Stages /\ stage' = [stage EXCEPT ![p] = stage'[p]]
         /\ \A q \in Job : q # p => stage'[q] = stage[q] /\ (runLock = q => runLock' = q)
         /\ stage'[p] \in Working => runLock' = p
<1>1. stage \in [Job -> Stages]
  BY DEF UpkeepTypeOK, Stages, Working
<1>2. \E there \in Stages : stage' = [stage EXCEPT ![p] = there]
  <2>1. CASE RunStep(p)
    BY <2>1
    DEF RunStep, RunStarts, Unparks, CountsChance, Revives, UnparkFails, StampsUnpark, RunCatchesUp, BeginsPass,
        ReadsSlice, CommitsSlice, FinishesPass, PassFails, RunLeaves, GoTo, Stages, Working
  <2>2. CASE WindowStep(p)
    BY <2>2
    DEF WindowStep, Looks, TakesGate, GateIsTaken, IsQuiet, StandsAside, TakesLock, LooksAgain, SecondLook,
        CompactStarts, OpensWindow, Vacuums, RewriteFails, CloseWindow, Closes, WindowCatchesUp, Records, Unlocks,
        DropsGate, JobKilled, GoTo, Stages, Working
  <2> QED
    BY <2>1, <2>2
<1>3. stage'[p] \in Stages /\ stage' = [stage EXCEPT ![p] = stage'[p]] /\ \A q \in Job : q # p => stage'[q] = stage[q]
  BY <1>1, <1>2
<1>4. /\ \A q \in Job : q # p => (runLock = q => runLock' = q)
      /\ stage'[p] \in Working => runLock' = p
  <2> USE <1>1 DEF GoTo, OneWorks
  <2>0. Nobody \notin Job
    BY UpkeepAssumption
  <2>1. CASE RunStep(p)
    <3>1. CASE RunStarts(p)
      BY <2>0, <3>1 DEF RunStarts
    <3>2. CASE RunLeaves(p)
      BY <2>0, <3>2 DEF RunLeaves, Working
    <3>3. CASE ~RunStarts(p) /\ ~RunLeaves(p)
      <4>1. UNCHANGED runLock /\ stage[p] \in Working
        BY <2>1, <3>3
        DEF RunStep, Unparks, CountsChance, Revives, UnparkFails, StampsUnpark, RunCatchesUp, BeginsPass, ReadsSlice,
            CommitsSlice, FinishesPass, PassFails, Working, lockFiles
      <4> QED
        BY <4>1
    <3> QED
      BY <3>1, <3>2, <3>3
  <2>2. CASE WindowStep(p)
    <3>1. CASE TakesLock(p) \/ CompactStarts(p)
      BY <2>0, <3>1 DEF TakesLock, CompactStarts
    <3>2. CASE Unlocks(p) \/ JobKilled(p)
      <4>1. stage'[p] \in {"off", "ungate"}
        BY <3>2 DEF Unlocks, JobKilled
      <4>2. (runLock' = Nobody /\ runLock = p) \/ runLock' = runLock
        BY <3>2 DEF Unlocks, JobKilled, Working
      <4> QED
        BY <2>0, <4>1, <4>2 DEF Working
    <3>3. CASE Looks(p) \/ TakesGate(p) \/ GateIsTaken(p) \/ IsQuiet(p) \/ StandsAside(p) \/ DropsGate(p)
      BY <1>3, <3>3 DEF Looks, TakesGate, GateIsTaken, IsQuiet, StandsAside, DropsGate, Working, lockFiles
    <3>4. CASE LooksAgain(p) \/ OpensWindow(p) \/ Vacuums(p) \/ RewriteFails(p) \/ CloseWindow(p)
               \/ WindowCatchesUp(p) \/ Records(p)
      <4>1. UNCHANGED runLock /\ stage[p] \in Working
        BY <3>4
        DEF LooksAgain, SecondLook, OpensWindow, Vacuums, RewriteFails, CloseWindow, Closes, WindowCatchesUp, Records,
            Working, lockFiles
      <4> QED
        BY <4>1
    <3> QED
      BY <2>2, <3>1, <3>2, <3>3, <3>4 DEF WindowStep
  <2> QED
    BY <2>1, <2>2
<1> QED
  BY <1>3, <1>4

LEMMA WorldWaits ==
  ASSUME UpkeepTypeOK, (\E h \in Capture : HookStep(h)) \/ WorldStep \/ Clears
  PROVE  UNCHANGED <<stage, runLock, step, try>>
BY DEF HookStep, Captures, LooksAtMarker, Indexes, LeavesEvent, WorldStep, Ripens, Surfaces, Parks, DayPasses,
       GateAges, MarkerExpires, Replays, Clears, lockFiles

LEMMA OneWorksStep ==
  ASSUME UpkeepTypeOK, OneWorks, [UpkeepNext]_upkeepVars
  PROVE  OneWorks'
<1>1. CASE UNCHANGED upkeepVars
  BY <1>1 DEF upkeepVars, lockFiles, OneWorks
<1>2. CASE \E p \in Job : RunStep(p) \/ WindowStep(p)
  <2>1. PICK p \in Job : RunStep(p) \/ WindowStep(p)
    BY <1>2
  <2> QED
    BY <2>1, JobMoves DEF OneWorks
<1>3. CASE (\E h \in Capture : HookStep(h)) \/ WorldStep \/ Clears
  BY <1>3, WorldWaits DEF OneWorks
<1> QED
  BY <1>1, <1>2, <1>3, NextIsOneOf

\* While a job works nobody else does.
LEMMA WorksAlone ==
  ASSUME OneWorks, NEW p \in Job, stage[p] \in Working
  PROVE  \A q \in Job : q # p => stage[q] \notin Working
BY DEF OneWorks

(***************************************************************************)
(* Second chances                                                          *)
(***************************************************************************)
LEMMA ChosenIsChosen == chosen # {} => Chosen \in chosen
BY DEF Chosen

LEMMA ChancesStep ==
  ASSUME UpkeepInv, [UpkeepNext]_upkeepVars
  PROVE  ChancesCount' /\ chances' \in [Sessions -> 0..UnparkLimit] /\ revived' \in [Sessions -> Nat]
<1>0. ChancesCount /\ OneWorks /\ UpkeepTypeOK
  BY DEF UpkeepInv
<1>1. /\ chances \in [Sessions -> 0..UnparkLimit] /\ revived \in [Sessions -> Nat]
      /\ chosen \subseteq Sessions /\ UnparkLimit \in Nat
  BY <1>0, UpkeepAssumption DEF UpkeepTypeOK
<1>2. ASSUME UNCHANGED <<chances, revived>>,
             \A q \in Job : stage'[q] \in {"unpark", "revive"} => stage[q] = stage'[q] /\ chosen' = chosen
      PROVE  ChancesCount' /\ chances' \in [Sessions -> 0..UnparkLimit] /\ revived' \in [Sessions -> Nat]
  BY <1>0, <1>1, <1>2 DEF ChancesCount, Chosen
<1>3. CASE UNCHANGED upkeepVars
  BY <1>2, <1>3 DEF upkeepVars, chanceVars
<1>4. CASE (\E h \in Capture : HookStep(h)) \/ WorldStep \/ Clears
  <2>1. UNCHANGED <<chances, revived, chosen>>
    BY <1>4
    DEF HookStep, Captures, LooksAtMarker, Indexes, LeavesEvent, WorldStep, Ripens, Surfaces, Parks, DayPasses,
        GateAges, MarkerExpires, Replays, Clears, chanceVars
  <2> QED
    BY <1>0, <1>2, <1>4, <2>1, WorldWaits
<1>5. ASSUME NEW p \in Job, RunStep(p) \/ WindowStep(p)
      PROVE  ChancesCount' /\ chances' \in [Sessions -> 0..UnparkLimit] /\ revived' \in [Sessions -> Nat]
  <2>0. /\ \A q \in Job : q # p => stage'[q] = stage[q]
        /\ stage[p] \in Working => \A q \in Job : q # p => stage'[q] \notin Working
    BY <1>0, <1>5, JobMoves, WorksAlone
  <2>1. CASE Unparks(p)
    <3>1. /\ stage[p] = "daily" /\ UNCHANGED <<chances, revived>> /\ stage'[p] # "revive"
          /\ stage'[p] = "unpark" => \A s \in chosen' : chances[s] < UnparkLimit
      BY <1>0, <2>1 DEF Unparks, GoTo, UpkeepTypeOK
    <3>2. \A q \in Job : stage'[q] # "revive" /\ (stage'[q] = "unpark" => q = p)
      BY <2>0, <3>1 DEF Working
    <3>3. \A s \in Sessions : revived'[s] <= chances'[s]
      BY <1>0, <3>1 DEF ChancesCount
    <3>4. \A q \in Job : stage'[q] = "unpark" => \A s \in chosen' : chances'[s] < UnparkLimit
      BY <3>1, <3>2
    <3> QED
      BY <1>1, <3>1, <3>2, <3>3, <3>4 DEF ChancesCount
  <2>2. CASE CountsChance(p)
    <3>1. /\ stage[p] = "unpark" /\ stage'[p] = "revive" /\ chosen # {} /\ UNCHANGED <<chosen, revived>>
          /\ chances' = [chances EXCEPT ![Chosen] = @ + 1]
      BY <1>0, <2>2 DEF CountsChance, GoTo, UpkeepTypeOK
    <3>2. Chosen \in chosen /\ Chosen' = Chosen
      BY <3>1 DEF Chosen
    <3>3. chances[Chosen] < UnparkLimit /\ chances[Chosen] \in Nat /\ Chosen \in Sessions
      BY <1>0, <1>1, <3>1, <3>2 DEF ChancesCount
    <3>4. \A s \in Sessions : chances'[s] = IF s = Chosen THEN chances[s] + 1 ELSE chances[s]
      BY <1>1, <3>1, <3>3
    <3>5. chances' \in [Sessions -> 0..UnparkLimit]
      BY <1>1, <3>1, <3>3
    <3>6. \A s \in Sessions : revived'[s] <= chances'[s] /\ (s = Chosen => revived'[s] < chances'[s])
      BY <1>0, <1>1, <3>1, <3>4 DEF ChancesCount
    <3>7. \A s \in chosen \ {Chosen} : chances'[s] < UnparkLimit
      BY <1>0, <1>1, <3>1, <3>4 DEF ChancesCount
    <3> QED
      BY <1>1, <2>0, <3>1, <3>2, <3>3, <3>5, <3>6, <3>7 DEF ChancesCount, Working
  <2>3. CASE Revives(p)
    <3>1. /\ stage[p] = "revive" /\ stage'[p] = "unpark" /\ UNCHANGED chances /\ chosen' = chosen \ {Chosen}
          /\ revived' = [revived EXCEPT ![Chosen] = @ + 1]
      BY <1>0, <2>3 DEF Revives, GoTo, UpkeepTypeOK
    <3>2. chosen # {} /\ revived[Chosen] < chances[Chosen] /\ \A s \in chosen \ {Chosen} : chances[s] < UnparkLimit
      BY <1>0, <3>1 DEF ChancesCount
    <3>3. Chosen \in Sessions
      BY <1>1, <3>2, ChosenIsChosen
    <3>4. revived' \in [Sessions -> Nat] /\ \A s \in Sessions : revived'[s] = IF s = Chosen THEN revived[s] + 1 ELSE revived[s]
      BY <1>1, <3>1, <3>3
    <3>5. \A s \in Sessions : revived'[s] <= chances'[s]
      BY <1>0, <1>1, <3>1, <3>2, <3>4 DEF ChancesCount
    <3> QED
      BY <1>1, <2>0, <3>1, <3>2, <3>4, <3>5 DEF ChancesCount, Working
  <2>4. CASE UnparkFails(p)
    <3>1. stage[p] \in Working /\ stage'[p] = "unpark" /\ UNCHANGED <<chances, revived>> /\ chosen' = {}
      BY <1>0, <2>4 DEF UnparkFails, UpkeepTypeOK, Working
    <3> QED
      BY <1>0, <1>1, <2>0, <3>1 DEF ChancesCount, Working
  <2>5. CASE ~Unparks(p) /\ ~CountsChance(p) /\ ~Revives(p) /\ ~UnparkFails(p)
    <3>1. CASE RunStep(p)
      <4>1. UNCHANGED <<chances, revived>> /\ (UNCHANGED chosen \/ stage[p] \in Working) /\ stage'[p] \notin {"unpark", "revive"}
        BY <1>0, <2>5, <3>1
        DEF RunStep, RunStarts, StampsUnpark, RunCatchesUp, BeginsPass, ReadsSlice, CommitsSlice, FinishesPass,
            PassFails, RunLeaves, GoTo, chanceVars, Working, UpkeepTypeOK
      <4> QED
        BY <1>2, <2>0, <4>1 DEF Working
    <3>2. CASE WindowStep(p)
      <4>1. UNCHANGED <<chances, revived>> /\ stage'[p] \notin {"unpark", "revive"}
        BY <1>0, <3>2
        DEF WindowStep, Looks, TakesGate, GateIsTaken, IsQuiet, StandsAside, TakesLock, LooksAgain, SecondLook,
            CompactStarts, OpensWindow, Vacuums, RewriteFails, CloseWindow, Closes, WindowCatchesUp, Records, Unlocks,
            DropsGate, JobKilled, GoTo, chanceVars, UpkeepTypeOK
      <4>2. UNCHANGED chosen \/ stage[p] \in Working \/ runLock = p
        BY <3>2
        DEF WindowStep, Looks, TakesGate, GateIsTaken, IsQuiet, StandsAside, TakesLock, LooksAgain, SecondLook,
            CompactStarts, OpensWindow, Vacuums, RewriteFails, CloseWindow, Closes, WindowCatchesUp, Records, Unlocks,
            DropsGate, JobKilled, GoTo, chanceVars, Working
      <4>3. runLock = p => \A q \in Job : q # p => stage'[q] \notin Working
        BY <1>0, <2>0 DEF OneWorks
      <4> QED
        BY <1>2, <2>0, <4>1, <4>2, <4>3 DEF Working
    <3> QED
      BY <1>5, <3>1, <3>2
  <2> QED
    BY <2>1, <2>2, <2>3, <2>4, <2>5
<1> QED
  BY <1>3, <1>4, <1>5, NextIsOneOf

(***************************************************************************)
(* Windows                                                                 *)
(***************************************************************************)
LEMMA WindowsStep ==
  ASSUME UpkeepInv, [UpkeepNext]_upkeepVars
  PROVE  WindowsCount' /\ opened' \in Nat /\ faults' \in 0..MaxFault
<1>0. WindowsCount /\ OneWorks /\ UpkeepTypeOK
  BY DEF UpkeepInv
<1>1. opened \in Nat /\ faults \in 0..MaxFault /\ MaxFault \in Nat /\ tried \in BOOLEAN
  BY <1>0, UpkeepAssumption DEF UpkeepTypeOK
<1>2. CASE UNCHANGED upkeepVars
  BY <1>0, <1>1, <1>2 DEF upkeepVars, notes, counts, WindowsCount, AutomaticWindow
<1>3. CASE (\E h \in Capture : HookStep(h)) \/ WorldStep \/ Clears
  <2>1. UNCHANGED <<stage, faults>>
    BY <1>0, <1>3, WorldWaits
    DEF HookStep, Captures, LooksAtMarker, Indexes, LeavesEvent, WorldStep, Ripens, Surfaces, Parks, DayPasses,
        GateAges, MarkerExpires, Replays, Clears, counts
  <2>2. UNCHANGED <<opened, tried>> \/ (opened' = 0 /\ tried' = FALSE)
    BY <1>3
    DEF HookStep, Captures, LooksAtMarker, Indexes, LeavesEvent, WorldStep, Ripens, Surfaces, Parks, DayPasses,
        GateAges, MarkerExpires, Replays, Clears, ForgetsMarks, counts, notes
  <2> QED
    BY <1>0, <1>1, <2>1, <2>2 DEF WindowsCount, AutomaticWindow
<1>4. ASSUME NEW p \in Job, RunStep(p) \/ WindowStep(p)
      PROVE  WindowsCount' /\ opened' \in Nat /\ faults' \in 0..MaxFault
  <2>0. /\ \A q \in Job : q # p => stage'[q] = stage[q]
        /\ stage[p] \in Working => \A q \in Job : q # p => stage'[q] \notin Working
    BY <1>0, <1>4, JobMoves, WorksAlone
  <2>1. ASSUME UNCHANGED <<opened, tried, faults>>, p \notin Compact => stage'[p] # "open" \/ ~tried,
               stage[p] \in InWindow => stage'[p] \in InWindow
        PROVE  WindowsCount' /\ opened' \in Nat /\ faults' \in 0..MaxFault
    <3>1. AutomaticWindow => AutomaticWindow'
      BY <2>0, <2>1 DEF AutomaticWindow
    <3>2. \A q \in Job \ Compact : stage'[q] = "open" => ~tried'
      BY <1>0, <2>0, <2>1 DEF WindowsCount
    <3> QED
      BY <1>0, <1>1, <2>1, <3>1, <3>2 DEF WindowsCount
  <2>2. ASSUME opened' = opened, faults' = faults + 1, faults < MaxFault, stage'[p] # "open",
               UNCHANGED tried \/ (tried' = TRUE /\ stage[p] \in Working)
        PROVE  WindowsCount' /\ opened' \in Nat /\ faults' \in 0..MaxFault
    <3>1. \A q \in Job \ Compact : stage'[q] = "open" => ~tried'
      BY <1>0, <2>0, <2>2 DEF WindowsCount, Working
    <3> QED
      BY <1>0, <1>1, <2>2, <3>1 DEF WindowsCount
  <2>3. ASSUME UNCHANGED <<opened, faults>>, tried' = TRUE, stage[p] \in Working, stage'[p] # "open"
        PROVE  WindowsCount' /\ opened' \in Nat /\ faults' \in 0..MaxFault
    <3>1. \A q \in Job \ Compact : stage'[q] # "open"
      BY <2>0, <2>3 DEF Working
    <3> QED
      BY <1>0, <1>1, <2>3, <3>1 DEF WindowsCount
  <2>4. CASE RunStep(p)
    <3>1. stage'[p] # "open" /\ stage[p] \notin InWindow /\ UNCHANGED tried
      BY <1>0, <2>4
      DEF RunStep, RunStarts, Unparks, CountsChance, Revives, UnparkFails, StampsUnpark, RunCatchesUp, BeginsPass,
          ReadsSlice, CommitsSlice, FinishesPass, PassFails, RunLeaves, GoTo, InWindow, UpkeepTypeOK, notes
    <3>2. UNCHANGED <<opened, faults>> \/ (opened' = opened /\ faults' = faults + 1 /\ faults < MaxFault)
      BY <2>4
      DEF RunStep, RunStarts, Unparks, CountsChance, Revives, UnparkFails, StampsUnpark, RunCatchesUp, BeginsPass,
          ReadsSlice, CommitsSlice, FinishesPass, PassFails, RunLeaves, Mishap, counts
    <3> QED
      BY <2>1, <2>2, <3>1, <3>2
  <2>5. CASE \/ Looks(p) \/ TakesGate(p) \/ GateIsTaken(p) \/ IsQuiet(p) \/ StandsAside(p) \/ TakesLock(p)
             \/ CompactStarts(p) \/ Vacuums(p) \/ CloseWindow(p) \/ Unlocks(p) \/ DropsGate(p)
    <3>1. /\ UNCHANGED <<opened, tried, faults>> /\ (stage'[p] # "open" \/ p \in Compact)
          /\ stage[p] \in InWindow => stage'[p] \in InWindow
      BY <1>0, <2>5
      DEF Looks, TakesGate, GateIsTaken, IsQuiet, StandsAside, TakesLock, CompactStarts, Vacuums, CloseWindow,
          Closes, Unlocks, DropsGate, GoTo, InWindow, UpkeepTypeOK, notes, counts
    <3> QED
      BY <2>1, <3>1
  <2>6. CASE LooksAgain(p)
    <3>1. UNCHANGED <<opened, faults>> /\ stage[p] = "second"
      BY <2>6 DEF LooksAgain, SecondLook, GoTo, counts
    <3>2. (UNCHANGED tried /\ (stage'[p] = "open" => ~tried)) \/ (tried' = TRUE /\ stage'[p] # "open")
      BY <1>0, <2>6 DEF LooksAgain, SecondLook, GoTo, Due, UpkeepTypeOK
    <3> QED
      BY <2>1, <2>3, <3>1, <3>2 DEF Working, InWindow
  <2>7. CASE OpensWindow(p)
    <3>1. /\ stage[p] = "open" /\ stage'[p] = "rewrite" /\ UNCHANGED <<tried, faults>>
          /\ opened' = IF p \in Compact THEN opened ELSE opened + 1
      BY <1>0, <2>7 DEF OpensWindow, GoTo, UpkeepTypeOK, notes
    <3>2. CASE p \in Compact
      BY <2>1, <3>1, <3>2 DEF InWindow
    <3>3. CASE p \notin Compact
      <4>1. ~tried /\ ~AutomaticWindow
        BY <1>0, <3>1, <3>3, WorksAlone DEF WindowsCount, AutomaticWindow, Working, InWindow
      <4>2. AutomaticWindow'
        BY <3>1, <3>3 DEF AutomaticWindow, InWindow
      <4>3. \A q \in Job \ Compact : stage'[q] # "open"
        BY <2>0, <3>1 DEF Working
      <4> QED
        BY <1>0, <1>1, <3>1, <3>3, <4>1, <4>2, <4>3 DEF WindowsCount
    <3> QED
      BY <3>2, <3>3
  <2>8. CASE RewriteFails(p) \/ JobKilled(p)
    <3>1. /\ opened' = opened /\ faults' = faults + 1 /\ faults < MaxFault /\ stage'[p] # "open"
          /\ UNCHANGED tried \/ (tried' = TRUE /\ stage[p] \in Working)
      BY <1>0, <2>8 DEF RewriteFails, JobKilled, Mishap, Working, UpkeepTypeOK, notes
    <3> QED
      BY <2>2, <3>1
  <2>9. CASE WindowCatchesUp(p) \/ Records(p)
    <3>1. stage[p] \in {"caught", "record"} /\ stage'[p] \in {"record", "unlock"} /\ (stage'[p] = "record" => UNCHANGED tried)
      BY <1>0, <2>9 DEF WindowCatchesUp, Records, GoTo, UpkeepTypeOK, notes
    <3>2. \/ UNCHANGED <<opened, faults>> /\ (stage'[p] = "record" \/ tried' = TRUE)
          \/ opened' = opened /\ faults' = faults + 1 /\ faults < MaxFault /\ UNCHANGED tried
      BY <1>0, <2>9 DEF WindowCatchesUp, Records, GoTo, Mishap, UpkeepTypeOK, notes, counts
    <3> QED
      BY <2>1, <2>2, <2>3, <3>1, <3>2 DEF Working, InWindow
  <2> QED
    BY <1>4, <2>4, <2>5, <2>6, <2>7, <2>8, <2>9 DEF WindowStep
<1> QED
  BY <1>2, <1>3, <1>4, NextIsOneOf

(***************************************************************************)
(* What hooks leave to a window                                            *)
(***************************************************************************)
LEMMA HooksStep ==
  ASSUME UpkeepInv, [UpkeepNext]_upkeepVars
  PROVE  HooksAreSeen'
<1>0. HooksAreSeen /\ OneWorks /\ UpkeepTypeOK
  BY DEF UpkeepInv
<1>1. {Nobody, Left} \cap Job = {} /\ Row # {}
  BY UpkeepAssumption DEF Row
<1>2. CASE UNCHANGED upkeepVars
  BY <1>0, <1>2 DEF upkeepVars, lockFiles, rows, try, captures, HooksAreSeen, Rebuilding, NoJob
<1>3. CASE \E h \in Capture : HookStep(h)
  <2>1. PICK h \in Capture : HookStep(h)
    BY <1>3
  <2>2. /\ UNCHANGED <<stage, marker, body, caught, promised>> /\ indexed \subseteq indexed'
        /\ \A g \in Capture : g # h => UNCHANGED <<hookAt[g], saw[g]>>
        /\ hookAt'[h] # "new"
        /\ \/ UNCHANGED saw /\ (hookAt[h] \notin {"new", "logged"} => hookAt'[h] \notin {"new", "logged"})
           \/ hookAt[h] = "logged" /\ hookAt'[h] = "store" /\ saw'[h] = marker
    BY <1>0, <2>1
    DEF HookStep, Captures, LooksAtMarker, Indexes, LeavesEvent, lockFiles, rows, try, UpkeepTypeOK
  <2>3. UNCHANGED <<Rebuilding, NoJob>>
    BY <2>2 DEF Rebuilding, NoJob
  <2>4. \A g \in Capture : saw'[g] \in Job => hookAt'[g] \notin {"new", "logged"}
    BY <1>0, <2>2 DEF HooksAreSeen
  <2>5. \A p \in Job : stage[p] = "record" => marker # p
    BY <1>0 DEF HooksAreSeen
  <2>6. \A p \in Job : stage'[p] = "record" /\ caught' => \A g \in Capture : saw'[g] = p => g \in indexed'
    BY <1>0, <2>2, <2>5 DEF HooksAreSeen
  <2>7. h \in promised => hookAt[h] # "logged"
    BY <1>0 DEF HooksAreSeen
  <2>8. \A g \in promised' : saw'[g] \in Job /\ (Rebuilding' \/ g \in indexed')
    BY <1>0, <2>2, <2>3, <2>7 DEF HooksAreSeen, UpkeepTypeOK
  <2> QED
    BY <1>0, <2>2, <2>3, <2>4, <2>6, <2>8 DEF HooksAreSeen
<1>4. CASE WorldStep \/ Clears
  <2>1. UNCHANGED <<stage, hookAt, saw, promised, try>> /\ (UNCHANGED marker \/ marker' = Nobody)
    BY <1>0, <1>4, WorldWaits
    DEF WorldStep, Ripens, Surfaces, Parks, DayPasses, GateAges, MarkerExpires, Replays, Clears, captures, lockFiles
  <2>2. CASE Clears
    <3>1. NoJob /\ Rebuilding'
      BY <1>1, <2>2 DEF Clears, Rebuilding
    <3> QED
      BY <1>0, <1>1, <2>1, <3>1 DEF HooksAreSeen, NoJob, try
  <2>3. CASE Replays
    <3>1. Rebuilding /\ ~Rebuilding' /\ NoJob /\ \A h \in Capture : hookAt[h] # "new" => h \in indexed'
      BY <1>0, <2>3 DEF Replays, Rebuilding, HooksAreSeen, Logged
    <3>2. \A h \in promised : h \in Capture
      BY <1>0 DEF UpkeepTypeOK
    <3> QED
      BY <1>0, <1>1, <2>1, <3>1, <3>2 DEF HooksAreSeen, NoJob, try
  <2>4. CASE WorldStep /\ ~Replays
    <3>1. UNCHANGED <<body, indexed>>
      BY <2>4 DEF WorldStep, Ripens, Surfaces, Parks, DayPasses, GateAges, MarkerExpires, rows, captures
    <3> QED
      BY <1>0, <1>1, <2>1, <3>1 DEF HooksAreSeen, Rebuilding, NoJob, try
  <2> QED
    BY <1>4, <2>2, <2>3, <2>4
<1>5. ASSUME NEW p \in Job, RunStep(p) \/ WindowStep(p) PROVE HooksAreSeen'
  <2>0. \A q \in Job : q # p => stage'[q] = stage[q]
    BY <1>0, <1>5, JobMoves
  <2>1. UNCHANGED <<hookAt, saw>> /\ indexed \subseteq indexed'
    BY <1>5
    DEF RunStep, RunStarts, Unparks, CountsChance, Revives, UnparkFails, StampsUnpark, RunCatchesUp, BeginsPass,
        ReadsSlice, CommitsSlice, FinishesPass, PassFails, RunLeaves,
        WindowStep, Looks, TakesGate, GateIsTaken, IsQuiet, StandsAside, TakesLock, LooksAgain, SecondLook,
        CompactStarts, OpensWindow, Vacuums, RewriteFails, CloseWindow, Closes, WindowCatchesUp, Records, Unlocks,
        DropsGate, JobKilled, captures
  <2>2. ~Rebuilding
    BY <1>0, <1>5
    DEF RunStep, Unparks, CountsChance, Revives, UnparkFails, StampsUnpark, RunCatchesUp, BeginsPass,
        ReadsSlice, CommitsSlice, FinishesPass, PassFails, RunLeaves,
        WindowStep, Looks, TakesGate, GateIsTaken, IsQuiet, StandsAside, TakesLock, LooksAgain, SecondLook,
        OpensWindow, Vacuums, RewriteFails, CloseWindow, Closes, WindowCatchesUp, Records, Unlocks,
        DropsGate, JobKilled, GoTo, HooksAreSeen, NoJob
  <2>3. ~Rebuilding'
    <3>1. UNCHANGED body \/ CommitsSlice(p)
      BY <1>5
      DEF RunStep, RunStarts, Unparks, CountsChance, Revives, UnparkFails, StampsUnpark, RunCatchesUp, BeginsPass,
          ReadsSlice, FinishesPass, PassFails, RunLeaves,
          WindowStep, Looks, TakesGate, GateIsTaken, IsQuiet, StandsAside, TakesLock, LooksAgain, SecondLook,
          CompactStarts, OpensWindow, Vacuums, RewriteFails, CloseWindow, Closes, WindowCatchesUp, Records, Unlocks,
          DropsGate, JobKilled, rows
    <3> QED
      BY <2>2, <3>1 DEF Rebuilding, CommitsSlice
  <2>4. ASSUME UNCHANGED promised, UNCHANGED marker \/ marker' \notin Job \/ (marker' = p /\ stage'[p] = "rewrite"),
               marker = p /\ UNCHANGED marker => stage'[p] \in {"rewrite", "close"},
               \A q \in Job : stage'[q] = "record" /\ caught' => stage[q] = "record" /\ UNCHANGED caught
        PROVE  HooksAreSeen'
    <3>1. marker' \in Job => stage'[marker'] \in {"rewrite", "close"}
      BY <1>0, <2>0, <2>4 DEF HooksAreSeen
    <3>2. \A q \in Job : stage'[q] = "record" /\ caught' => \A h \in Capture : saw'[h] = q => h \in indexed'
      BY <1>0, <2>1, <2>4 DEF HooksAreSeen
    <3> QED
      BY <1>0, <2>1, <2>2, <2>3, <2>4, <3>1, <3>2 DEF HooksAreSeen
  <2>5. CASE RunStep(p)
    <3>1. /\ UNCHANGED <<promised, marker>> /\ stage[p] \notin {"rewrite", "close"} /\ stage'[p] # "record"
          /\ UNCHANGED caught \/ caught' = FALSE
      BY <1>0, <2>5
      DEF RunStep, RunStarts, Unparks, CountsChance, Revives, UnparkFails, StampsUnpark, RunCatchesUp, BeginsPass,
          ReadsSlice, CommitsSlice, FinishesPass, PassFails, RunLeaves, GoTo, captures, lockFiles, try, ForgetsSlice,
          UpkeepTypeOK
    <3>2. marker # p
      BY <1>0, <3>1 DEF HooksAreSeen
    <3> QED
      BY <2>0, <2>4, <3>1, <3>2
  <2>6. CASE \/ Looks(p) \/ TakesGate(p) \/ GateIsTaken(p) \/ IsQuiet(p) \/ StandsAside(p) \/ TakesLock(p)
             \/ LooksAgain(p) \/ CompactStarts(p) \/ Unlocks(p) \/ DropsGate(p)
    <3>1. /\ UNCHANGED <<promised, marker>> /\ stage[p] \notin {"rewrite", "close"} /\ stage'[p] # "record"
          /\ UNCHANGED caught \/ caught' = FALSE
      BY <1>0, <2>6
      DEF Looks, TakesGate, GateIsTaken, IsQuiet, StandsAside, TakesLock, LooksAgain, SecondLook, CompactStarts,
          Unlocks, DropsGate, GoTo, captures, lockFiles, try, ForgetsSlice, UpkeepTypeOK
    <3>2. marker # p
      BY <1>0, <3>1 DEF HooksAreSeen
    <3> QED
      BY <2>0, <2>4, <3>1, <3>2
  <2>7. CASE OpensWindow(p) \/ Vacuums(p) \/ RewriteFails(p) \/ CloseWindow(p) \/ JobKilled(p)
    <3>1. /\ UNCHANGED promised /\ stage'[p] # "record" /\ (UNCHANGED caught \/ caught' = FALSE)
          /\ \/ UNCHANGED marker /\ (marker = p => stage'[p] \in {"rewrite", "close"})
             \/ marker' \notin Job
             \/ marker' = p /\ stage'[p] = "rewrite"
      BY <1>0, <1>1, <2>7
      DEF OpensWindow, Vacuums, RewriteFails, CloseWindow, Closes, JobKilled, GoTo, captures, lockFiles, try,
          ForgetsSlice, UpkeepTypeOK
    <3> QED
      BY <2>0, <2>4, <3>1
  <2>8. CASE WindowCatchesUp(p)
    <3>1. /\ stage[p] = "caught" /\ stage'[p] = "record" /\ UNCHANGED <<promised, marker>>
          /\ caught' => \A h \in Capture : hookAt[h] # "new" => h \in indexed'
      BY <1>0, <2>8 DEF WindowCatchesUp, GoTo, lockFiles, Logged, UpkeepTypeOK
    <3>2. marker # p
      BY <1>0, <3>1 DEF HooksAreSeen
    <3>3. marker' \in Job => stage'[marker'] \in {"rewrite", "close"}
      BY <1>0, <2>0, <3>1, <3>2 DEF HooksAreSeen
    <3>4. \A q \in Job : stage'[q] = "record" => q = p
      BY <1>0, <2>0, <3>1, WorksAlone DEF Working
    <3>5. caught' => \A h \in Capture : saw'[h] = p => h \in indexed'
      BY <1>0, <2>1, <3>1 DEF HooksAreSeen
    <3> QED
      BY <1>0, <2>1, <2>2, <2>3, <3>1, <3>3, <3>4, <3>5 DEF HooksAreSeen
  <2>9. CASE Records(p)
    <3>1. /\ stage[p] = "record" /\ stage'[p] = "unlock" /\ UNCHANGED marker
          /\ promised' = IF caught THEN promised \cup {h \in Capture : saw[h] = p} ELSE promised
      BY <1>0, <2>9 DEF Records, GoTo, lockFiles, UpkeepTypeOK
    <3>2. marker # p
      BY <1>0, <3>1 DEF HooksAreSeen
    <3>3. marker' \in Job => stage'[marker'] \in {"rewrite", "close"}
      BY <1>0, <2>0, <3>1, <3>2 DEF HooksAreSeen
    <3>4. \A q \in Job : stage'[q] # "record"
      BY <1>0, <2>0, <3>1, WorksAlone DEF Working
    <3>5. \A h \in promised' : saw'[h] \in Job /\ h \in indexed'
      BY <1>0, <2>1, <2>2, <3>1 DEF HooksAreSeen
    <3> QED
      BY <1>0, <2>1, <2>2, <2>3, <3>3, <3>4, <3>5 DEF HooksAreSeen
  <2> QED
    BY <1>5, <2>5, <2>6, <2>7, <2>8, <2>9 DEF WindowStep
<1> QED
  BY <1>2, <1>3, <1>4, <1>5, NextIsOneOf
(***************************************************************************)
(* The books                                                               *)
(***************************************************************************)
LEMMA BooksStep ==
  ASSUME UpkeepInv, [UpkeepNext]_upkeepVars
  PROVE  BooksAgree'
<1>0. BooksAgree /\ OneWorks /\ UpkeepTypeOK
  BY DEF UpkeepInv
<1>1. free \in Nat /\ settled \in Nat /\ dropped \in Nat /\ base \in Nat
  BY <1>0 DEF UpkeepTypeOK
<1>2. CASE UNCHANGED upkeepVars
  BY <1>0, <1>2 DEF upkeepVars, notes, rows, try, BooksAgree
<1>3. CASE (\E h \in Capture : HookStep(h)) \/ WorldStep \/ Clears
  <2>1. UNCHANGED <<stage, base>>
    BY <1>0, <1>3, WorldWaits DEF try
  <2>2. UNCHANGED <<free, settled, dropped>> \/ (NoJob /\ free' = 0 /\ settled' = 0 /\ dropped' = 0)
    BY <1>3
    DEF HookStep, Captures, LooksAtMarker, Indexes, LeavesEvent, WorldStep, Ripens, Surfaces, Parks, DayPasses,
        GateAges, MarkerExpires, Replays, Clears, ForgetsMarks, notes, rows
  <2> QED
    BY <1>0, <2>1, <2>2 DEF BooksAgree, NoJob, InWindow
<1>4. ASSUME NEW p \in Job, RunStep(p) \/ WindowStep(p) PROVE BooksAgree'
  <2>0. /\ \A q \in Job : q # p => stage'[q] = stage[q]
        /\ stage[p] \in Working => \A q \in Job : q # p => stage'[q] \notin Working
    BY <1>0, <1>4, JobMoves, WorksAlone
  <2>1. ASSUME free' + settled' <= dropped', stage[p] \in Working,
               stage'[p] \in InWindow => base' = dropped',
               stage'[p] \in {"close", "caught", "record"} => free' = 0
        PROVE  BooksAgree'
    <3>1. \A q \in Job : q # p => stage'[q] \notin InWindow
      BY <2>0, <2>1 DEF InWindow, Working
    <3> QED
      BY <2>1, <3>1 DEF BooksAgree, InWindow
  <2>2. ASSUME UNCHANGED <<free, settled, dropped>>, UNCHANGED base \/ stage[p] \in Working \/ runLock = p,
               stage'[p] \notin InWindow
        PROVE  BooksAgree'
    <3>1. \A q \in Job : stage'[q] \in InWindow => stage'[q] = stage[q] /\ UNCHANGED base
      BY <1>0, <2>0, <2>2, UpkeepAssumption DEF OneWorks, InWindow, Working
    <3> QED
      BY <1>0, <2>2, <3>1 DEF BooksAgree, InWindow
  <2>3. CASE RunStep(p) /\ ~CommitsSlice(p)
    <3>1. /\ UNCHANGED <<free, settled, dropped>> /\ (UNCHANGED base \/ stage[p] \in Working)
          /\ stage'[p] \notin InWindow
      BY <1>0, <2>3
      DEF RunStep, RunStarts, Unparks, CountsChance, Revives, UnparkFails, StampsUnpark, RunCatchesUp, BeginsPass,
          ReadsSlice, FinishesPass, PassFails, RunLeaves, GoTo, notes, rows, try, UpkeepTypeOK, InWindow, Working
    <3> QED
      BY <2>2, <3>1
  <2>4. CASE CommitsSlice(p)
    <3> DEFINE D == {r \in slice : body[r] = "kept"}
    <3>1. Cardinality(D) \in Nat
      BY <1>0, RowsAreFinite DEF UpkeepTypeOK
    <3>2. /\ free' = free + Cardinality(D) /\ dropped' = dropped + Cardinality(D) /\ UNCHANGED settled
          /\ stage[p] \in Working /\ stage'[p] \notin InWindow
      BY <1>0, <2>4 DEF CommitsSlice, Working, InWindow, UpkeepTypeOK
    <3>3. free' + settled' <= dropped'
      <4> HIDE DEF D
      <4> QED
        BY <1>0, <1>1, <3>1, <3>2 DEF BooksAgree
    <3> QED
      BY <2>1, <3>2, <3>3 DEF InWindow
  <2>5. CASE \/ Looks(p) \/ TakesGate(p) \/ GateIsTaken(p) \/ IsQuiet(p) \/ StandsAside(p) \/ TakesLock(p)
             \/ LooksAgain(p) \/ CompactStarts(p) \/ RewriteFails(p) \/ Unlocks(p) \/ DropsGate(p) \/ JobKilled(p)
    <3>1. /\ UNCHANGED <<free, settled, dropped>> /\ (UNCHANGED base \/ stage[p] \in Working \/ runLock = p)
          /\ stage'[p] \notin InWindow
      BY <1>0, <2>5
      DEF Looks, TakesGate, GateIsTaken, IsQuiet, StandsAside, TakesLock, LooksAgain, SecondLook, CompactStarts,
          RewriteFails, Unlocks, DropsGate, JobKilled, GoTo, notes, rows, try, UpkeepTypeOK, InWindow, Working
    <3> QED
      BY <2>2, <3>1
  <2>6. CASE OpensWindow(p) \/ Vacuums(p) \/ CloseWindow(p) \/ WindowCatchesUp(p) \/ Records(p)
    <3>1. /\ stage[p] \in Working /\ UNCHANGED dropped
          /\ \/ stage'[p] = "rewrite" /\ UNCHANGED <<free, settled>> /\ base' = dropped
             \/ stage[p] \in InWindow /\ UNCHANGED <<base, settled>> /\ free' = 0
             \/ /\ stage[p] \in {"close", "caught", "record"} /\ UNCHANGED <<base, free>>
                /\ settled' = settled \/ settled' = base
      BY <1>0, <2>6
      DEF OpensWindow, Vacuums, CloseWindow, Closes, WindowCatchesUp, Records, GoTo, notes, rows, try, UpkeepTypeOK,
          InWindow, Working
    <3>2. free' + settled' <= dropped'
      BY <1>0, <1>1, <3>1 DEF BooksAgree, InWindow
    <3>3. stage'[p] \in InWindow => base' = dropped'
      BY <1>0, <3>1 DEF BooksAgree, InWindow
    <3>4. stage'[p] \in {"close", "caught", "record"} => free' = 0
      BY <1>0, <3>1 DEF BooksAgree
    <3> QED
      BY <2>1, <3>1, <3>2, <3>3, <3>4
  <2> QED
    BY <1>4, <2>3, <2>4, <2>5, <2>6 DEF RunStep, WindowStep
<1> QED
  BY <1>2, <1>3, <1>4, NextIsOneOf

(***************************************************************************)
(* The retention pass                                                      *)
(***************************************************************************)
LEMMA PassStep ==
  ASSUME UpkeepInv, [UpkeepNext]_upkeepVars
  PROVE  PassReaches'
<1>0. PassReaches /\ OneWorks /\ HooksAreSeen /\ UpkeepTypeOK
  BY DEF UpkeepInv
<1>1. mustReach \subseteq Row /\ ripe \subseteq Row /\ slice \subseteq Row /\ \A r \in Row : r \in Nat /\ r > 0
  BY <1>0 DEF UpkeepTypeOK, Row
<1>2. ASSUME UNCHANGED <<stage, step, passedBy>>, mustReach' \subseteq ripe', Owed' \subseteq Owed,
             cursor' = cursor \/ cursor' = Open, Rebuilding' => mustReach' = {}
      PROVE  PassReaches'
  BY <1>0, <1>2 DEF PassReaches, step
<1>3. CASE UNCHANGED upkeepVars
  <2>1. UNCHANGED <<Owed, Rebuilding>>
    BY <1>3 DEF upkeepVars, rows, passed, Owed, ToDrop, Rebuilding
  <2> QED
    BY <1>0, <1>2, <1>3, <2>1 DEF upkeepVars, rows, notes, passed, PassReaches
<1>4. CASE (\E h \in Capture : HookStep(h)) \/ WorldStep \/ Clears
  <2>0. UNCHANGED <<stage, step, passedBy>>
    BY <1>0, <1>4, WorldWaits
    DEF HookStep, Captures, LooksAtMarker, Indexes, LeavesEvent, WorldStep, Ripens, Surfaces, Parks, DayPasses,
        GateAges, MarkerExpires, Replays, Clears, passed
  <2>1. CASE Clears
    <3>1. mustReach' = {} /\ cursor' = Open
      BY <2>1 DEF Clears, ForgetsMarks
    <3> QED
      BY <1>2, <2>0, <3>1 DEF Owed
  <2>2. CASE Replays
    <3>1. mustReach = {} /\ mustReach' = {} /\ UNCHANGED cursor
      BY <1>0, <2>2 DEF Replays, PassReaches, notes, passed
    <3> QED
      BY <1>2, <2>0, <3>1 DEF Owed
  <2>3. ASSUME NEW r \in Row, Ripens(r) PROVE PassReaches'
    <3>1. UNCHANGED <<mustReach, body, cursor>> /\ ripe' = ripe \cup {r} /\ r \notin ripe
      BY <2>3 DEF Ripens, notes, passed
    <3>2. Owed' \subseteq Owed
      BY <1>0, <3>1 DEF Owed, ToDrop, PassReaches
    <3> QED
      BY <1>0, <1>2, <2>0, <3>1, <3>2 DEF PassReaches, Rebuilding
  <2>4. ASSUME NEW r \in Row, Surfaces(r) PROVE PassReaches'
    <3>1. UNCHANGED <<body, cursor>> /\ ripe' = ripe \ {r} /\ mustReach' = mustReach \ {r}
      BY <2>4 DEF Surfaces, notes
    <3>2. Owed' \subseteq Owed
      BY <3>1 DEF Owed, ToDrop
    <3> QED
      BY <1>0, <1>2, <2>0, <3>1, <3>2 DEF PassReaches, Rebuilding
  <2>5. CASE (\E h \in Capture : HookStep(h)) \/ (\E s \in Sessions : Parks(s)) \/ DayPasses \/ GateAges \/ MarkerExpires
    <3>1. UNCHANGED <<mustReach, ripe, body, cursor>>
      BY <2>5
      DEF HookStep, Captures, LooksAtMarker, Indexes, LeavesEvent, Parks, DayPasses, GateAges, MarkerExpires,
          passed, rows, notes
    <3> QED
      BY <1>0, <1>2, <2>0, <3>1 DEF PassReaches, Rebuilding, Owed, ToDrop
  <2> QED
    BY <1>4, <2>1, <2>2, <2>3, <2>4, <2>5 DEF WorldStep
<1>5. ASSUME NEW p \in Job, RunStep(p) \/ WindowStep(p) PROVE PassReaches'
  <2>0. /\ \A q \in Job : q # p => stage'[q] = stage[q]
        /\ stage[p] \in Working => \A q \in Job : q # p => stage'[q] \notin Working
        /\ stage \in [Job -> Stages]
    BY <1>0, <1>5, JobMoves, WorksAlone DEF UpkeepTypeOK, Stages, Working
  <2>1. ~Rebuilding
    BY <1>0, <1>5
    DEF RunStep, Unparks, CountsChance, Revives, UnparkFails, StampsUnpark, RunCatchesUp, BeginsPass,
        ReadsSlice, CommitsSlice, FinishesPass, PassFails, RunLeaves,
        WindowStep, Looks, TakesGate, GateIsTaken, IsQuiet, StandsAside, TakesLock, LooksAgain, SecondLook,
        OpensWindow, Vacuums, RewriteFails, CloseWindow, Closes, WindowCatchesUp, Records, Unlocks,
        DropsGate, JobKilled, GoTo, HooksAreSeen, NoJob
  <2>2. ASSUME UNCHANGED <<mustReach, passedBy, ripe, body, cursor>>, stage'[p] \notin {"read", "commit", "finish"},
               UNCHANGED step \/ stage[p] \in Working \/ runLock = p
        PROVE  PassReaches'
    <3>1. UNCHANGED <<Owed, Rebuilding>>
      BY <2>2 DEF Owed, ToDrop, Rebuilding
    <3>2. \A q \in Job : stage'[q] \in {"read", "commit", "finish"} => stage[q] = stage'[q] /\ UNCHANGED step
      BY <1>0, <2>0, <2>2 DEF OneWorks, Working
    <3> QED
      BY <1>0, <2>2, <3>1, <3>2 DEF PassReaches, step
  <2>3. ASSUME stage[p] \in Working, passedBy' = {}, mustReach' \subseteq ripe', UNCHANGED <<body, ripe>>,
               cursor' # Open => \A r \in Owed' : r > cursor',
               stage'[p] = "read" => \A r \in Owed' : r > from',
               stage'[p] = "commit" => \A r \in Owed' : r > next' \/ r \in slice',
               stage'[p] # "finish"
        PROVE  PassReaches'
    <3>1. ~Rebuilding'
      BY <2>1, <2>3 DEF Rebuilding
    <3>2. \A q \in Job : stage'[q] \in {"read", "commit", "finish"} => q = p
      BY <2>0, <2>3 DEF Working
    <3> QED
      BY <2>3, <3>1, <3>2 DEF PassReaches
  <2>4. CASE BeginsPass(p)
    <3>1. /\ stage[p] = "retain" /\ stage'[p] \in {"leave", "read"} /\ UNCHANGED <<body, ripe, cursor, passedBy>>
          /\ from' = (IF cursor = Open THEN 0 ELSE cursor)
          /\ (mustReach' = ToDrop /\ cursor = Open) \/ mustReach' = mustReach
      BY <2>0, <2>4 DEF BeginsPass, GoTo, notes, rows
    <3>2. mustReach' \subseteq ripe' /\ Owed' \subseteq Row
      BY <1>0, <1>1, <3>1 DEF Owed, ToDrop, PassReaches
    <3>3. cursor' # Open => \A r \in Owed' : r > cursor'
      BY <1>0, <3>1 DEF Owed, ToDrop, PassReaches
    <3>4. \A r \in Owed' : r > from'
      BY <1>1, <3>1, <3>2, <3>3
    <3> QED
      BY <1>0, <2>3, <3>1, <3>2, <3>3, <3>4 DEF PassReaches, Working
  <2>5. CASE ReadsSlice(p)
    <3> DEFINE M == Matches(from)
    <3>1. /\ stage[p] = "read" /\ stage'[p] = "commit" /\ UNCHANGED <<body, ripe, cursor, mustReach, passedBy>>
          /\ slice' = FirstSlice(M) /\ next' = NextRow(from, FirstSlice(M))
      BY <2>0, <2>5 DEF ReadsSlice, GoTo, notes, rows, passed
    <3>2. M \subseteq Row /\ \A r \in M : r <= from + Span
      BY <1>1 DEF Matches, ToDrop
    <3>3. from \in Nat /\ Span \in Nat
      BY <1>0, UpkeepAssumption DEF UpkeepTypeOK
    <3>4. next' \in Nat /\ next' <= from + Span /\ \A r \in M : r <= next' => r \in slice'
      <4> HIDE DEF M
      <4> QED
        BY <3>1, <3>2, <3>3, SliceReaches
    <3>5. Owed' = Owed /\ Owed \subseteq Row /\ Owed \subseteq ToDrop
      BY <1>1, <3>1 DEF Owed, ToDrop
    <3>6. \A r \in Owed : r > from
      BY <1>0, <3>1 DEF PassReaches
    <3>7. ASSUME NEW r \in Owed, ~(r > next') PROVE r \in slice'
      <4>1. r \in M
        BY <1>1, <3>3, <3>4, <3>5, <3>6, <3>7 DEF Matches
      <4> QED
        BY <1>1, <3>4, <3>5, <3>7, <4>1
    <3>8. cursor' # Open => \A r \in Owed' : r > cursor'
      BY <1>0, <3>1, <3>5 DEF PassReaches
    <3>9. passedBy' = {} /\ mustReach' \subseteq ripe' /\ UNCHANGED <<body, ripe>>
      BY <1>0, <3>1 DEF PassReaches
    <3>10. stage'[p] = "commit" => \A r \in Owed' : r > next' \/ r \in slice'
      BY <3>5, <3>7
    <3> QED
      BY <2>3, <3>1, <3>8, <3>9, <3>10 DEF Working
  <2>6. CASE CommitsSlice(p)
    <3>1. /\ stage[p] = "commit" /\ stage'[p] \in {"read", "leave", "finish"} /\ (stage'[p] = "finish" => AtEnd)
          /\ UNCHANGED <<ripe, mustReach, passedBy>> /\ cursor' = next /\ from' = next
          /\ \A r \in Row : body'[r] = IF r \in slice /\ body[r] = "kept" THEN "dropped" ELSE body[r]
      BY <2>0, <2>6 DEF CommitsSlice, passed
    <3>2. Owed' \subseteq Owed \ slice
      BY <1>1, <3>1 DEF Owed, ToDrop
    <3>3. \A r \in Owed' : r > next
      BY <1>0, <3>1, <3>2 DEF PassReaches
    <3>4. stage'[p] = "finish" => Owed' = {}
      <4> SUFFICES ASSUME AtEnd, NEW r \in Owed' PROVE FALSE
        BY <3>1
      <4>1. r \in Row /\ body[r] # "gone"
        BY <1>1, <2>1, <3>2 DEF Owed, Rebuilding
      <4>2. r <= next /\ next \in Nat
        BY <1>0, <4>1 DEF AtEnd, UpkeepTypeOK
      <4> QED
        BY <1>1, <3>3, <4>1, <4>2
    <3>5. ~Rebuilding'
      BY <2>1, <3>1 DEF Rebuilding
    <3>6. \A q \in Job : stage'[q] \in {"read", "commit", "finish"} => q = p
      BY <2>0, <3>1 DEF Working
    <3> QED
      BY <1>0, <3>1, <3>3, <3>4, <3>5, <3>6 DEF PassReaches
  <2>7. CASE FinishesPass(p)
    <3>1. /\ stage[p] = "finish" /\ stage'[p] = "leave" /\ UNCHANGED <<body, ripe>> /\ cursor' = Open
          /\ passedBy' = Owed /\ mustReach' = {}
      BY <2>0, <2>7 DEF FinishesPass, GoTo, rows, Owed
    <3> QED
      BY <1>0, <2>3, <3>1 DEF PassReaches, Working
  <2>8. CASE RunStep(p) /\ ~BeginsPass(p) /\ ~ReadsSlice(p) /\ ~CommitsSlice(p) /\ ~FinishesPass(p)
    <3>1. /\ UNCHANGED <<mustReach, passedBy, ripe, body, cursor>> /\ stage'[p] \notin {"read", "commit", "finish"}
          /\ UNCHANGED step \/ stage[p] \in Working
      BY <2>0, <2>8
      DEF RunStep, RunStarts, Unparks, CountsChance, Revives, UnparkFails, StampsUnpark, RunCatchesUp, PassFails,
          RunLeaves, GoTo, notes, rows, passed, Working
    <3> QED
      BY <2>2, <3>1
  <2>9. CASE WindowStep(p)
    <3>1. /\ UNCHANGED <<mustReach, passedBy, ripe, body, cursor>> /\ stage'[p] \notin {"read", "commit", "finish"}
          /\ UNCHANGED step \/ stage[p] \in Working \/ runLock = p
      BY <2>0, <2>9
      DEF WindowStep, Looks, TakesGate, GateIsTaken, IsQuiet, StandsAside, TakesLock, LooksAgain, SecondLook,
          CompactStarts, OpensWindow, Vacuums, RewriteFails, CloseWindow, Closes, WindowCatchesUp, Records, Unlocks,
          DropsGate, JobKilled, GoTo, notes, rows, passed, Working
    <3> QED
      BY <2>2, <3>1
  <2> QED
    BY <1>5, <2>4, <2>5, <2>6, <2>7, <2>8, <2>9
<1> QED
  BY <1>3, <1>4, <1>5, NextIsOneOf

(***************************************************************************)
(* Types, and the theorems                                                 *)
(***************************************************************************)
LEMMA TypesStep ==
  ASSUME UpkeepInv, [UpkeepNext]_upkeepVars
  PROVE  UpkeepTypeOK'
<1>0. UpkeepTypeOK /\ OneWorks
  BY DEF UpkeepInv
<1>1. /\ chances' \in [Sessions -> 0..UnparkLimit] /\ revived' \in [Sessions -> Nat]
      /\ opened' \in Nat /\ faults' \in 0..MaxFault
  BY ChancesStep, WindowsStep
<1>2. stage' \in [Job -> Stages] /\ stage \in [Job -> Stages]
  <2>1. stage \in [Job -> Stages]
    BY <1>0 DEF UpkeepTypeOK, Stages, Working
  <2>2. CASE UNCHANGED upkeepVars
    BY <2>1, <2>2 DEF upkeepVars
  <2>3. CASE \E p \in Job : RunStep(p) \/ WindowStep(p)
    <3>1. PICK p \in Job : RunStep(p) \/ WindowStep(p)
      BY <2>3
    <3>2. stage'[p] \in Stages /\ stage' = [stage EXCEPT ![p] = stage'[p]]
      BY <1>0, <3>1, JobMoves
    <3> QED
      BY <2>1, <3>2
  <2>4. CASE (\E h \in Capture : HookStep(h)) \/ WorldStep \/ Clears
    BY <1>0, <2>1, <2>4, WorldWaits
  <2> QED
    BY <2>1, <2>2, <2>3, <2>4, NextIsOneOf
<1> DEFINE
  LocksOK ==
    /\ runLock \in Job \cup {Nobody} /\ gate \in {"none", "new", "old"} /\ marker \in Job \cup {Nobody, Left}
  MarksOK ==
    /\ cursor \in {Open} \cup Nat /\ passDone \in BOOLEAN
    /\ dropped \in Nat /\ settled \in Nat /\ compacted \in BOOLEAN /\ tried \in BOOLEAN
  RowsOK   == body \in [Row -> {"kept", "dropped", "gone"}] /\ ripe \subseteq Row /\ free \in Nat
  StepsOK  == from \in Nat /\ slice \subseteq Row /\ next \in Nat
  TriesOK  == base \in Nat /\ caught \in BOOLEAN
  ParkedOK == parked \subseteq Sessions /\ unparked \in BOOLEAN /\ chosen \subseteq Sessions
  HooksOK ==
    /\ hookAt \in [Capture -> {"new", "logged", "store", "indexed", "left"}]
    /\ saw \in [Capture -> Job \cup {Nobody, Left}] /\ indexed \subseteq Capture
    /\ promised \subseteq Capture
  ToldOK   == mustReach \subseteq Row /\ passedBy \subseteq Row /\ rebuilds \in 0..MaxRebuild
<1>3. LocksOK /\ MarksOK /\ RowsOK /\ StepsOK /\ TriesOK /\ ParkedOK /\ HooksOK /\ ToldOK
  BY <1>0 DEF UpkeepTypeOK
<1>4. CASE UNCHANGED upkeepVars
  BY <1>1, <1>2, <1>3, <1>4
  DEF upkeepVars, lockFiles, notes, rows, step, try, chanceVars, captures, passed, counts, UpkeepTypeOK, Stages, Working
<1>5. ASSUME NEW p \in Job, RunStep(p) PROVE UpkeepTypeOK'
  <2> DEFINE D == {r \in slice : body[r] = "kept"}
  <2>1. Cardinality(D) \in Nat
    BY <1>3, RowsAreFinite
  <2>2. ReadsSlice(p) => next' \in Nat /\ slice' \subseteq Row
    <3> SUFFICES ASSUME ReadsSlice(p) PROVE next' \in Nat /\ slice' \subseteq Row
      OBVIOUS
    <3> DEFINE M == Matches(from)
    <3>1. M \subseteq Row /\ (\A r \in M : r <= from + Span) /\ from \in Nat
      BY <1>3 DEF Matches, ToDrop
    <3>2. slice' = FirstSlice(M) /\ next' = NextRow(from, FirstSlice(M))
      BY DEF ReadsSlice
    <3> HIDE DEF M
    <3> QED
      BY <3>1, <3>2, SliceReaches
  <2>3. Chosen \in Sessions \/ chosen = {}
    BY <1>3, ChosenIsChosen
  <2>4. LocksOK'
    BY <1>3, <1>5
    DEF RunStep, RunStarts, Unparks, CountsChance, Revives, UnparkFails, StampsUnpark, RunCatchesUp, BeginsPass,
        ReadsSlice, CommitsSlice, FinishesPass, PassFails, RunLeaves, lockFiles
  <2>5. CommitsSlice(p) => MarksOK' /\ RowsOK'
    <3> SUFFICES ASSUME CommitsSlice(p) PROVE MarksOK' /\ RowsOK'
      OBVIOUS
    <3>1. free' = free + Cardinality(D) /\ dropped' = dropped + Cardinality(D)
      BY DEF CommitsSlice
    <3>2. free' \in Nat /\ dropped' \in Nat
      <4> HIDE DEF D
      <4> QED
        BY <1>3, <2>1, <3>1
    <3> QED
      BY <1>3, <3>2 DEF CommitsSlice
  <2>6. ~CommitsSlice(p) => MarksOK' /\ RowsOK'
    BY <1>3, <1>5
    DEF RunStep, RunStarts, Unparks, CountsChance, Revives, UnparkFails, StampsUnpark, RunCatchesUp, BeginsPass,
        ReadsSlice, FinishesPass, PassFails, RunLeaves, notes, rows
  <2>7. StepsOK' /\ TriesOK'
    <3>1. CASE BeginsPass(p)
      <4>1. UNCHANGED <<slice, next, base, caught>> /\ from' = IF cursor = Open THEN 0 ELSE cursor
        BY <3>1 DEF BeginsPass, try
      <4>2. from' \in Nat
        BY <1>3, <4>1
      <4> QED
        BY <1>3, <4>1, <4>2
    <3>2. CASE ~BeginsPass(p)
      <4>1. /\ from' \in {from, next, 0} /\ ((slice' \in {slice, {}} /\ next' \in {next, 0}) \/ ReadsSlice(p))
            /\ base' \in {base, 0} /\ caught' \in {caught, FALSE}
        BY <1>5, <3>2
        DEF RunStep, RunStarts, Unparks, CountsChance, Revives, UnparkFails, StampsUnpark, RunCatchesUp,
            ReadsSlice, CommitsSlice, FinishesPass, PassFails, RunLeaves, ForgetsSlice, step, try
      <4>2. caught' \in BOOLEAN
        BY <1>3, <4>1, Zenon
      <4> QED
        BY <1>3, <2>2, <4>1, <4>2
    <3> QED
      BY <3>1, <3>2
  <2>8. ParkedOK'
    BY <1>3, <1>5
    DEF RunStep, RunStarts, Unparks, CountsChance, Revives, UnparkFails, StampsUnpark, RunCatchesUp, BeginsPass,
        ReadsSlice, CommitsSlice, FinishesPass, PassFails, RunLeaves, ForgetsSlice, chanceVars
  <2>9. HooksOK'
    BY <1>3, <1>5
    DEF RunStep, RunStarts, Unparks, CountsChance, Revives, UnparkFails, StampsUnpark, RunCatchesUp, BeginsPass,
        ReadsSlice, CommitsSlice, FinishesPass, PassFails, RunLeaves, captures, Logged
  <2>10. ToldOK'
    BY <1>3, <1>5
    DEF RunStep, RunStarts, Unparks, CountsChance, Revives, UnparkFails, StampsUnpark, RunCatchesUp, BeginsPass,
        ReadsSlice, CommitsSlice, FinishesPass, PassFails, RunLeaves, passed, counts, Mishap, ToDrop
  <2> QED
    BY <1>1, <1>2, <2>4, <2>5, <2>6, <2>7, <2>8, <2>9, <2>10 DEF UpkeepTypeOK, Stages, Working
<1>6. ASSUME NEW p \in Job, WindowStep(p) PROVE UpkeepTypeOK'
  <2> USE DEF WindowStep, Looks, TakesGate, GateIsTaken, IsQuiet, StandsAside, TakesLock, LooksAgain, SecondLook,
        CompactStarts, OpensWindow, Vacuums, RewriteFails, CloseWindow, Closes, WindowCatchesUp, Records, Unlocks,
        DropsGate, JobKilled
  <2>1. LocksOK' /\ RowsOK'
    BY <1>3, <1>6 DEF lockFiles, rows
  <2>2. MarksOK'
    <3>1. /\ UNCHANGED <<cursor, passDone, dropped>> /\ (compacted' = compacted \/ compacted' = TRUE)
          /\ tried' = tried \/ tried' = TRUE
          /\ settled' = settled \/ settled' = base
      BY <1>6 DEF notes
    <3> QED
      BY <1>3, <3>1
  <2>3. StepsOK' /\ TriesOK'
    <3>1. /\ from' \in {from, 0} /\ slice' \in {slice, {}} /\ next' \in {next, 0}
          /\ base' \in {base, dropped, 0} /\ caught' \in {caught, FALSE, TRUE}
      BY <1>6 DEF step, try, ForgetsSlice
    <3>2. caught' \in BOOLEAN
      BY <1>3, <3>1, Zenon
    <3> QED
      BY <1>3, <3>1, <3>2
  <2>4. ParkedOK' /\ HooksOK'
    BY <1>3, <1>6 DEF chanceVars, captures, ForgetsSlice, Logged
  <2>5. ToldOK'
    BY <1>3, <1>6 DEF passed, counts, Mishap
  <2> QED
    BY <1>1, <1>2, <2>1, <2>2, <2>3, <2>4, <2>5 DEF UpkeepTypeOK, Stages, Working
<1>7. CASE (\E h \in Capture : HookStep(h)) \/ WorldStep \/ Clears
  <2> USE DEF HookStep, Captures, LooksAtMarker, Indexes, LeavesEvent, WorldStep, Ripens, Surfaces, Parks, DayPasses,
        GateAges, MarkerExpires, Replays, Clears
  <2>1. LocksOK' /\ StepsOK' /\ TriesOK'
    BY <1>3, <1>7 DEF lockFiles, step, try
  <2>2. RowsOK'
    BY <1>3, <1>7 DEF rows
  <2>3. ParkedOK' /\ HooksOK'
    <3>1. ParkedOK'
      BY <1>3, <1>7 DEF chanceVars
    <3>2. HooksOK'
      BY <1>3, <1>7 DEF captures, Logged
    <3> QED
      BY <3>1, <3>2
  <2>4. ToldOK'
    BY <1>3, <1>7, UpkeepAssumption DEF passed, counts
  <2>5. MarksOK'
    <3>1. /\ cursor' \in {cursor, Open} /\ dropped' \in {dropped, 0} /\ settled' \in {settled, 0}
          /\ passDone' \in {passDone, FALSE} /\ compacted' \in {compacted, FALSE} /\ tried' \in {tried, FALSE}
      BY <1>7 DEF notes, ForgetsMarks
    <3>2. passDone' \in BOOLEAN /\ compacted' \in BOOLEAN /\ tried' \in BOOLEAN
      BY <1>3, <3>1, Zenon
    <3> QED
      BY <1>3, <3>1, <3>2
  <2> QED
    BY <1>1, <1>2, <2>1, <2>2, <2>3, <2>4, <2>5 DEF UpkeepTypeOK, Stages, Working
<1> QED
  BY <1>4, <1>5, <1>6, <1>7, NextIsOneOf

LEMMA UpkeepInvHolds == UpkeepSpec => []UpkeepInv
<1>1. UpkeepInit => UpkeepInv
  <2> SUFFICES ASSUME UpkeepInit PROVE UpkeepInv
    OBVIOUS
  <2>1. UpkeepTypeOK
    <3>1. /\ stage \in [Job -> Stages] /\ body \in [Row -> {"kept", "dropped", "gone"}]
          /\ chances \in [Sessions -> 0..UnparkLimit] /\ revived \in [Sessions -> Nat]
      BY UpkeepAssumption DEF UpkeepInit, Stages, Working
    <3>2. /\ hookAt \in [Capture -> {"new", "logged", "store", "indexed", "left"}]
          /\ saw \in [Capture -> Job \cup {Nobody, Left}]
      BY DEF UpkeepInit
    <3>3. faults \in 0..MaxFault /\ rebuilds \in 0..MaxRebuild
      BY UpkeepAssumption DEF UpkeepInit
    <3> QED
      BY <3>1, <3>2, <3>3 DEF UpkeepInit, UpkeepTypeOK, Stages, Working
  <2>2. OneWorks /\ BooksAgree /\ WindowsCount
    BY UpkeepAssumption DEF UpkeepInit, OneWorks, BooksAgree, WindowsCount, AutomaticWindow, Working, InWindow
  <2>3. HooksAreSeen /\ ChancesCount
    BY UpkeepAssumption DEF UpkeepInit, HooksAreSeen, ChancesCount, Rebuilding
  <2>4. PassReaches
    BY DEF UpkeepInit, PassReaches, Owed, Rebuilding
  <2> QED
    BY <2>1, <2>2, <2>3, <2>4 DEF UpkeepInv
<1>2. UpkeepInv /\ [UpkeepNext]_upkeepVars => UpkeepInv'
  <2> SUFFICES ASSUME UpkeepInv, [UpkeepNext]_upkeepVars PROVE UpkeepInv'
    OBVIOUS
  <2>1. OneWorks'
    BY OneWorksStep DEF UpkeepInv
  <2> QED
    BY <2>1, TypesStep, ChancesStep, WindowsStep, HooksStep, BooksStep, PassStep DEF UpkeepInv
<1> QED
  BY <1>1, <1>2, PTL DEF UpkeepSpec

\* Every variable keeps to the values the code gives it.
THEOREM UpkeepTypeCorrect == UpkeepSpec => []UpkeepTypeOK
<1>1. UpkeepInv => UpkeepTypeOK
  BY DEF UpkeepInv
<1> QED
  BY <1>1, UpkeepInvHolds, PTL

\* However many compactors saw a window due, at most one opens by itself for a
\* day and for each mishap; a session gets at most UnparkLimit second chances,
\* whatever is killed and when (try_window, unpark).
THEOREM UpkeepStaysRationed == UpkeepSpec => []UpkeepIsRationed
<1>1. UpkeepInv => UpkeepIsRationed
  <2> SUFFICES ASSUME UpkeepInv PROVE UpkeepIsRationed
    OBVIOUS
  <2>1. opened <= faults + 1 /\ faults \in 0..MaxFault
    BY DEF UpkeepInv, WindowsCount, UpkeepTypeOK
  <2>2. /\ \A s \in Sessions : revived[s] <= chances[s]
        /\ chances \in [Sessions -> 0..UnparkLimit] /\ revived \in [Sessions -> Nat]
    BY DEF UpkeepInv, ChancesCount, UpkeepTypeOK
  <2> QED
    BY <2>1, <2>2, UpkeepAssumption DEF UpkeepIsRationed
<1> QED
  BY <1>1, UpkeepInvHolds, PTL

\* What a hook left to a window is in the index once that window's catch-up has
\* worked, but while a reindex refills it (capture, compact_with).
THEOREM LeftEventsAreAnswered == UpkeepSpec => []WindowAnswersForItsHooks
<1>1. UpkeepInv => WindowAnswersForItsHooks
  BY DEF UpkeepInv, HooksAreSeen, WindowAnswersForItsHooks
<1> QED
  BY <1>1, UpkeepInvHolds, PTL

\* For any number of rows, span and slice, a retention pass passes by no row it
\* was to drop, over however many runs and kills; and no dropped body is off the
\* counters that say when to compact (retention_step, commit_retention_step).
THEOREM PassesByNothing == UpkeepSpec => []RetentionKeepsItsBooks
<1>1. UpkeepInv => RetentionKeepsItsBooks
  <2> SUFFICES ASSUME UpkeepInv PROVE RetentionKeepsItsBooks
    OBVIOUS
  <2>1. passedBy = {}
    BY DEF UpkeepInv, PassReaches
  <2>2. free + settled <= dropped /\ free \in Nat /\ settled \in Nat /\ dropped \in Nat
    BY DEF UpkeepInv, BooksAgree, UpkeepTypeOK
  <2> QED
    BY <2>1, <2>2 DEF RetentionKeepsItsBooks, Unsettled
<1> QED
  BY <1>1, UpkeepInvHolds, PTL

(***************************************************************************)
(* The ladder: every variable keeps its type, a CLI whose tested model      *)
(* never answers badly is never charged or left alone, and a newer model    *)
(* that never does is never set aside. Both rest on what a caller may say   *)
(* of the CLI it has just called: it blames it only after its tested model  *)
(* failed, and it retries only after the newer one did.                     *)
(***************************************************************************)
\* Whoever calls a CLI, or writes down what came of it, names one.
CallInv ==
  \A p \in Caller : where[p] \in {"date", "wait", "retry", "praise", "blame", "counted"} => cli[p] \in Cli

\* Whoever is about to charge a CLI has had a bad answer from its tested model.
BlameInv == \A p \in Caller : p \notin Advisory /\ where[p] = "blame" => cli[p] \notin Sound

\* Whoever tries the tested model has had a bad answer from the newer one.
RetryInv == \A p \in Caller : where[p] = "retry" => <<cli[p], model[p]>> \notin Good

LadderInv ==
  LadderTypeOK /\ CallInv /\ BlameInv /\ RetryInv /\ SoundVendorsStayInService /\ GoodModelsAreNotSetAside


(* ------------------------------- the types ------------------------------ *)

LEMMA TypesFromTheStart == LadderInit => LadderTypeOK /\ CallInv
BY LadderAssumption DEF LadderInit, LadderTypeOK, CallInv, Model

LEMMA TypesAreKept == LadderTypeOK /\ CallInv /\ [LadderNext]_ladderVars => LadderTypeOK'
<1> SUFFICES ASSUME LadderTypeOK, CallInv, [LadderNext]_ladderVars PROVE LadderTypeOK'
  OBVIOUS
<1>1. ASSUME NEW p \in Caller, NEW c \in Cli, LookupFails(p, c)
      PROVE  LadderTypeOK'
  BY <1>1, LadderAssumption DEF LookupFails, LadderTypeOK, table, lookup, aiming, Model
<1>2. ASSUME NEW p \in Caller, NEW c \in Cli, Picks(p, c)
      PROVE  LadderTypeOK'
  BY <1>2, LadderAssumption DEF Picks, Goes, LadderTypeOK, table, lookup, aiming, Model
<1>3. ASSUME NEW p \in Caller, NEW c \in Cli, PassesOver(p, c)
      PROVE  LadderTypeOK'
  BY <1>3, LadderAssumption DEF PassesOver, IsNext, HasNext, LadderTypeOK, table, lookup, aiming, Model
<1>4. ASSUME NEW p \in Caller, NEW c \in Cli, Tries(p, c)
      PROVE  LadderTypeOK'
  BY <1>4, LadderAssumption DEF Tries, Goes, IsNext, HasNext, Rungs, Choice, LadderTypeOK, table, lookup, aiming, Model
<1>5. ASSUME NEW p \in Caller, Starts(p)
      PROVE  LadderTypeOK'
  BY <1>5, LadderAssumption DEF Starts, Goes, LadderTypeOK, table, lookup, aiming, Model
<1>6. ASSUME NEW p \in Caller, Dates(p)
      PROVE  LadderTypeOK'
  BY <1>6, LadderAssumption DEF Dates, Goes, LadderTypeOK, table, lookup, aiming, Model
<1>7. ASSUME NEW p \in Caller, Makes(p)
      PROVE  LadderTypeOK'
  <2>1. Discovered \in [Cli -> Model]
    BY LadderAssumption DEF Discovered, LadderTypeOK, Model
  <2>2. where' \in [Caller -> {"idle", "refresh", "date", "ready", "next", "wait", "retry", "praise", "blame", "counted"}]
    BY <1>7 DEF Makes, Goes, LadderTypeOK
  <2>3. newest' \in [Caller -> [Cli -> Model]]
    BY <1>7, <2>1 DEF Makes, LadderTypeOK
  <2>4. QED
    BY <1>7, <2>2, <2>3 DEF Makes, LadderTypeOK, table, lookup, aiming
<1>8. ASSUME NEW p \in Caller, Calls(p)
      PROVE  LadderTypeOK'
  BY <1>8, LadderAssumption DEF Calls, Goes, InReach, LadderTypeOK, table, lookup, aiming, Model
<1>9. ASSUME NEW p \in Caller, WrongShape(p)
      PROVE  LadderTypeOK'
  BY <1>9, LadderAssumption DEF WrongShape, Returns, LadderTypeOK, table, lookup, aiming, Model
<1>10. ASSUME NEW p \in Caller, RungAnswers(p)
      PROVE  LadderTypeOK'
  BY <1>10, LadderAssumption DEF RungAnswers, Goes, LadderTypeOK, table, lookup, aiming, Model
<1>11. ASSUME NEW p \in Caller, FailsOn(p)
      PROVE  LadderTypeOK'
  BY <1>11, LadderAssumption DEF FailsOn, Goes, LadderTypeOK, table, lookup, aiming, Model
<1>12. ASSUME NEW p \in Caller, PinAnswers(p)
      PROVE  LadderTypeOK'
  <2>1. where' \in [Caller -> {"idle", "refresh", "date", "ready", "next", "wait", "retry", "praise", "blame", "counted"}]
    BY <1>12 DEF PinAnswers, Goes, LadderTypeOK
  <2>2. mark' \in [Cli -> Model]
    BY <1>12 DEF PinAnswers, LadderTypeOK
  <2>3. cli[p] \in Cli
    BY <1>12 DEF PinAnswers, Goes, LadderTypeOK, CallInv
  <2>4. fellBack' \in [Caller -> SUBSET Cli]
    BY <1>12, <2>3 DEF PinAnswers, LadderTypeOK
  <2>5. QED
    BY <1>12, <2>1, <2>2, <2>4 DEF PinAnswers, LadderTypeOK, table, lookup, aiming
<1>13. ASSUME NEW p \in Caller, PinFails(p)
      PROVE  LadderTypeOK'
  BY <1>13, LadderAssumption DEF PinFails, Goes, LadderTypeOK, table, lookup, aiming, Model
<1>14. ASSUME NEW p \in Caller, Praises(p)
      PROVE  LadderTypeOK'
  <2>1. failures' \in [Cli -> 0..Threshold]
    BY <1>14, LadderAssumption DEF Praises, LadderTypeOK, table
  <2>2. cooling' \in [Cli -> BOOLEAN]
    BY <1>14 DEF Praises, LadderTypeOK, table
  <2>3. QED
    BY <1>14, <2>1, <2>2, LadderAssumption DEF Praises, Goes, Returns, LadderTypeOK, lookup, Model
<1>15. ASSUME NEW p \in Caller, Counts(p)
      PROVE  LadderTypeOK'
  <2>1. failures' \in [Cli -> 0..Threshold]
    <3>1. CASE p \in Advisory
      BY <1>15, <3>1 DEF Counts, LadderTypeOK
    <3>2. CASE p \notin Advisory
      <4>1. cli[p] \in Cli /\ failures[cli[p]] \in 0..Threshold
        BY <1>15, <3>2 DEF Counts, Goes, LadderTypeOK, CallInv
      <4>2. (IF failures[cli[p]] = Threshold THEN failures[cli[p]] ELSE failures[cli[p]] + 1) \in 0..Threshold
        BY <4>1, LadderAssumption
      <4>3. failures' = [failures EXCEPT ![cli[p]] =
               IF failures[cli[p]] = Threshold THEN failures[cli[p]] ELSE failures[cli[p]] + 1]
        BY <1>15, <3>2 DEF Counts
      <4>4. QED
        BY <4>2, <4>3 DEF LadderTypeOK
    <3>3. QED
      BY <3>1, <3>2
  <2>2. where' \in [Caller -> {"idle", "refresh", "date", "ready", "next", "wait", "retry", "praise", "blame", "counted"}]
    <3>1. where' = [where EXCEPT ![p] = "next"] \/ where' = [where EXCEPT ![p] = "counted"]
      BY <1>15 DEF Counts, Goes
    <3>2. QED
      BY <3>1 DEF LadderTypeOK
  <2>3. QED
    BY <1>15, <2>1, <2>2 DEF Counts, LadderTypeOK, table, lookup, aiming
<1>16. ASSUME NEW p \in Caller, Benches(p)
      PROVE  LadderTypeOK'
  BY <1>16, LadderAssumption DEF Benches, Goes, LadderTypeOK, table, lookup, aiming, Model
<1>17. ASSUME NEW p \in Caller, GivesUp(p)
      PROVE  LadderTypeOK'
  BY <1>17, LadderAssumption DEF GivesUp, Goes, Returns, LadderTypeOK, table, lookup, aiming, Model
<1>18. ASSUME NEW p \in Caller, LeavesLadder(p)
      PROVE  LadderTypeOK'
  BY <1>18, LadderAssumption DEF LeavesLadder, Goes, LadderTypeOK, table, lookup, aiming, Model
<1>19. ASSUME NEW p \in Caller, CallerKilled(p)
      PROVE  LadderTypeOK'
  BY <1>19, LadderAssumption DEF CallerKilled, Returns, LadderTypeOK, table, lookup, aiming, Model
<1>20. ASSUME NEW c \in Cli, CoolsDown(c)
      PROVE  LadderTypeOK'
  BY <1>20, LadderAssumption DEF CoolsDown, LadderTypeOK, table, lookup, aiming, Model
<1>21. ASSUME NEW c \in Cli, LookupAges(c)
      PROVE  LadderTypeOK'
  BY <1>21, LadderAssumption DEF LookupAges, LadderTypeOK, table, lookup, aiming, Model
<1>22. ASSUME NEW c \in Cli, MarkAges(c)
      PROVE  LadderTypeOK'
  BY <1>22, LadderAssumption DEF MarkAges, LadderTypeOK, table, lookup, aiming, Model
<1>23. CASE UNCHANGED ladderVars
  BY <1>23 DEF ladderVars, LadderTypeOK, table, lookup, aiming, Model
<1>24. ASSUME NEW p \in Caller, TableFails(p)
      PROVE  LadderTypeOK'
  BY <1>24, LadderAssumption DEF TableFails, Returns, LadderTypeOK, table, lookup, aiming, Model
<1>25. QED
  BY <1>1, <1>2, <1>3, <1>4, <1>5, <1>6, <1>7, <1>8, <1>9, <1>10, <1>11, <1>12, <1>13, <1>14, <1>15, <1>16, <1>17, <1>18, <1>19, <1>20, <1>21, <1>22, <1>23, <1>24 DEF LadderNext

LEMMA CallsAreKept == LadderTypeOK /\ CallInv /\ [LadderNext]_ladderVars => CallInv'
<1> SUFFICES ASSUME LadderTypeOK, CallInv, [LadderNext]_ladderVars PROVE CallInv'
  OBVIOUS
<1>1. ASSUME NEW p \in Caller, NEW c \in Cli, LookupFails(p, c)
      PROVE  CallInv'
  BY <1>1 DEF LookupFails, CallInv, LadderTypeOK, aiming
<1>2. ASSUME NEW p \in Caller, NEW c \in Cli, Picks(p, c)
      PROVE  CallInv'
  BY <1>2 DEF Picks, Goes, CallInv, LadderTypeOK, aiming
<1>3. ASSUME NEW p \in Caller, NEW c \in Cli, PassesOver(p, c)
      PROVE  CallInv'
  BY <1>3 DEF PassesOver, CallInv, LadderTypeOK, aiming
<1>4. ASSUME NEW p \in Caller, NEW c \in Cli, Tries(p, c)
      PROVE  CallInv'
  BY <1>4 DEF Tries, Goes, CallInv, LadderTypeOK, aiming
<1>5. ASSUME NEW p \in Caller, Starts(p)
      PROVE  CallInv'
  BY <1>5 DEF Starts, Goes, CallInv, LadderTypeOK, aiming
<1>6. ASSUME NEW p \in Caller, Dates(p)
      PROVE  CallInv'
  BY <1>6 DEF Dates, Goes, CallInv, LadderTypeOK, aiming
<1>7. ASSUME NEW p \in Caller, Makes(p)
      PROVE  CallInv'
  BY <1>7 DEF Makes, Goes, CallInv, LadderTypeOK, aiming
<1>8. ASSUME NEW p \in Caller, Calls(p)
      PROVE  CallInv'
  BY <1>8 DEF Calls, Goes, CallInv, LadderTypeOK, aiming
<1>9. ASSUME NEW p \in Caller, WrongShape(p)
      PROVE  CallInv'
  BY <1>9 DEF WrongShape, Returns, CallInv, LadderTypeOK, aiming
<1>10. ASSUME NEW p \in Caller, RungAnswers(p)
      PROVE  CallInv'
  BY <1>10 DEF RungAnswers, Goes, CallInv, LadderTypeOK, aiming
<1>11. ASSUME NEW p \in Caller, FailsOn(p)
      PROVE  CallInv'
  BY <1>11 DEF FailsOn, Goes, CallInv, LadderTypeOK, aiming
<1>12. ASSUME NEW p \in Caller, PinAnswers(p)
      PROVE  CallInv'
  BY <1>12 DEF PinAnswers, Goes, CallInv, LadderTypeOK, aiming
<1>13. ASSUME NEW p \in Caller, PinFails(p)
      PROVE  CallInv'
  BY <1>13 DEF PinFails, Goes, CallInv, LadderTypeOK, aiming
<1>14. ASSUME NEW p \in Caller, Praises(p)
      PROVE  CallInv'
  BY <1>14 DEF Praises, Goes, Returns, CallInv, LadderTypeOK, aiming
<1>15. ASSUME NEW p \in Caller, Counts(p)
      PROVE  CallInv'
  BY <1>15 DEF Counts, Goes, CallInv, LadderTypeOK, aiming
<1>16. ASSUME NEW p \in Caller, Benches(p)
      PROVE  CallInv'
  BY <1>16 DEF Benches, Goes, CallInv, LadderTypeOK, aiming
<1>17. ASSUME NEW p \in Caller, GivesUp(p)
      PROVE  CallInv'
  BY <1>17 DEF GivesUp, Goes, Returns, CallInv, LadderTypeOK, aiming
<1>18. ASSUME NEW p \in Caller, LeavesLadder(p)
      PROVE  CallInv'
  BY <1>18 DEF LeavesLadder, Goes, CallInv, LadderTypeOK, aiming
<1>19. ASSUME NEW p \in Caller, CallerKilled(p)
      PROVE  CallInv'
  BY <1>19 DEF CallerKilled, Returns, CallInv, LadderTypeOK, aiming
<1>20. ASSUME NEW c \in Cli, CoolsDown(c)
      PROVE  CallInv'
  BY <1>20 DEF CoolsDown, CallInv, LadderTypeOK, aiming
<1>21. ASSUME NEW c \in Cli, LookupAges(c)
      PROVE  CallInv'
  BY <1>21 DEF LookupAges, CallInv, LadderTypeOK, aiming
<1>22. ASSUME NEW c \in Cli, MarkAges(c)
      PROVE  CallInv'
  BY <1>22 DEF MarkAges, CallInv, LadderTypeOK, aiming
<1>23. CASE UNCHANGED ladderVars
  BY <1>23 DEF ladderVars, CallInv, LadderTypeOK, aiming
<1>24. ASSUME NEW p \in Caller, TableFails(p)
      PROVE  CallInv'
  BY <1>24 DEF TableFails, Returns, CallInv, LadderTypeOK, aiming
<1>25. QED
  BY <1>1, <1>2, <1>3, <1>4, <1>5, <1>6, <1>7, <1>8, <1>9, <1>10, <1>11, <1>12, <1>13, <1>14, <1>15, <1>16, <1>17, <1>18, <1>19, <1>20, <1>21, <1>22, <1>23, <1>24 DEF LadderNext

\* Every variable of the ladder keeps its type.
THEOREM LadderTypeCorrect == LadderSpec => []LadderTypeOK
<1>1. LadderInit => LadderTypeOK /\ CallInv
  BY TypesFromTheStart
<1>2. LadderTypeOK /\ CallInv /\ [LadderNext]_ladderVars => LadderTypeOK' /\ CallInv'
  BY TypesAreKept, CallsAreKept
<1>3. QED
  BY <1>1, <1>2, PTL DEF LadderSpec

(* --------------------- who is blamed, and who is marked ------------------ *)

LEMMA NobodyIsBlamedAtFirst == LadderInit => LadderInv
<1> SUFFICES ASSUME LadderInit PROVE LadderInv
  OBVIOUS
<1>1. LadderTypeOK /\ CallInv
  BY TypesFromTheStart
<1>2. BlameInv /\ RetryInv
  BY DEF LadderInit, BlameInv, RetryInv
<1>3. SoundVendorsStayInService
  BY LadderAssumption DEF LadderInit, SoundVendorsStayInService
<1>4. GoodModelsAreNotSetAside
  BY LadderAssumption DEF LadderInit, GoodModelsAreNotSetAside
<1>5. QED
  BY <1>1, <1>2, <1>3, <1>4 DEF LadderInv

LEMMA BlameIsKept ==
  LadderInv /\ [LadderNext]_ladderVars
    => BlameInv' /\ RetryInv' /\ SoundVendorsStayInService' /\ GoodModelsAreNotSetAside'
<1> SUFFICES ASSUME LadderInv, [LadderNext]_ladderVars
             PROVE  BlameInv' /\ RetryInv' /\ SoundVendorsStayInService' /\ GoodModelsAreNotSetAside'
  OBVIOUS
<1>1. ASSUME NEW p \in Caller, NEW c \in Cli, LookupFails(p, c)
      PROVE  BlameInv' /\ RetryInv' /\ SoundVendorsStayInService' /\ GoodModelsAreNotSetAside'
  BY <1>1, LadderAssumption DEF LookupFails, LadderInv, LadderTypeOK, BlameInv, RetryInv, SoundVendorsStayInService, GoodModelsAreNotSetAside, table, lookup, aiming
<1>2. ASSUME NEW p \in Caller, NEW c \in Cli, Picks(p, c)
      PROVE  BlameInv' /\ RetryInv' /\ SoundVendorsStayInService' /\ GoodModelsAreNotSetAside'
  BY <1>2, LadderAssumption DEF Picks, Goes, LadderInv, LadderTypeOK, BlameInv, RetryInv, SoundVendorsStayInService, GoodModelsAreNotSetAside, table, lookup, aiming
<1>3. ASSUME NEW p \in Caller, NEW c \in Cli, PassesOver(p, c)
      PROVE  BlameInv' /\ RetryInv' /\ SoundVendorsStayInService' /\ GoodModelsAreNotSetAside'
  BY <1>3, LadderAssumption DEF PassesOver, LadderInv, LadderTypeOK, BlameInv, RetryInv, SoundVendorsStayInService, GoodModelsAreNotSetAside, table, lookup, aiming
<1>4. ASSUME NEW p \in Caller, NEW c \in Cli, Tries(p, c)
      PROVE  BlameInv' /\ RetryInv' /\ SoundVendorsStayInService' /\ GoodModelsAreNotSetAside'
  BY <1>4, LadderAssumption DEF Tries, Goes, LadderInv, LadderTypeOK, BlameInv, RetryInv, SoundVendorsStayInService, GoodModelsAreNotSetAside, table, lookup, aiming
<1>5. ASSUME NEW p \in Caller, Starts(p)
      PROVE  BlameInv' /\ RetryInv' /\ SoundVendorsStayInService' /\ GoodModelsAreNotSetAside'
  BY <1>5, LadderAssumption DEF Starts, Goes, LadderInv, LadderTypeOK, BlameInv, RetryInv, SoundVendorsStayInService, GoodModelsAreNotSetAside, table, lookup, aiming
<1>6. ASSUME NEW p \in Caller, Dates(p)
      PROVE  BlameInv' /\ RetryInv' /\ SoundVendorsStayInService' /\ GoodModelsAreNotSetAside'
  BY <1>6, LadderAssumption DEF Dates, Goes, LadderInv, LadderTypeOK, BlameInv, RetryInv, SoundVendorsStayInService, GoodModelsAreNotSetAside, table, lookup, aiming
<1>7. ASSUME NEW p \in Caller, Makes(p)
      PROVE  BlameInv' /\ RetryInv' /\ SoundVendorsStayInService' /\ GoodModelsAreNotSetAside'
  BY <1>7, LadderAssumption DEF Makes, Goes, LadderInv, LadderTypeOK, BlameInv, RetryInv, SoundVendorsStayInService, GoodModelsAreNotSetAside, table, lookup, aiming
<1>8. ASSUME NEW p \in Caller, Calls(p)
      PROVE  BlameInv' /\ RetryInv' /\ SoundVendorsStayInService' /\ GoodModelsAreNotSetAside'
  BY <1>8, LadderAssumption DEF Calls, Goes, LadderInv, LadderTypeOK, BlameInv, RetryInv, SoundVendorsStayInService, GoodModelsAreNotSetAside, table, lookup, aiming
<1>9. ASSUME NEW p \in Caller, WrongShape(p)
      PROVE  BlameInv' /\ RetryInv' /\ SoundVendorsStayInService' /\ GoodModelsAreNotSetAside'
  BY <1>9, LadderAssumption DEF WrongShape, Returns, LadderInv, LadderTypeOK, BlameInv, RetryInv, SoundVendorsStayInService, GoodModelsAreNotSetAside, table, lookup, aiming
<1>10. ASSUME NEW p \in Caller, RungAnswers(p)
      PROVE  BlameInv' /\ RetryInv' /\ SoundVendorsStayInService' /\ GoodModelsAreNotSetAside'
  BY <1>10, LadderAssumption DEF RungAnswers, Goes, LadderInv, LadderTypeOK, BlameInv, RetryInv, SoundVendorsStayInService, GoodModelsAreNotSetAside, table, lookup, aiming
<1>11. ASSUME NEW p \in Caller, FailsOn(p)
      PROVE  BlameInv' /\ RetryInv' /\ SoundVendorsStayInService' /\ GoodModelsAreNotSetAside'
  BY <1>11, LadderAssumption DEF FailsOn, Goes, MayAnswer, LadderInv, LadderTypeOK, BlameInv, RetryInv, SoundVendorsStayInService, GoodModelsAreNotSetAside, table, lookup, aiming
<1>12. ASSUME NEW p \in Caller, PinAnswers(p)
      PROVE  BlameInv' /\ RetryInv' /\ SoundVendorsStayInService' /\ GoodModelsAreNotSetAside'
  BY <1>12, LadderAssumption DEF PinAnswers, Goes, LadderInv, LadderTypeOK, BlameInv, RetryInv, SoundVendorsStayInService, GoodModelsAreNotSetAside, table, lookup, aiming
<1>13. ASSUME NEW p \in Caller, PinFails(p)
      PROVE  BlameInv' /\ RetryInv' /\ SoundVendorsStayInService' /\ GoodModelsAreNotSetAside'
  BY <1>13, LadderAssumption DEF PinFails, Goes, MayAnswer, LadderInv, LadderTypeOK, BlameInv, RetryInv, SoundVendorsStayInService, GoodModelsAreNotSetAside, table, lookup, aiming
<1>14. ASSUME NEW p \in Caller, Praises(p)
      PROVE  BlameInv' /\ RetryInv' /\ SoundVendorsStayInService' /\ GoodModelsAreNotSetAside'
  <2>1. /\ where' = [where EXCEPT ![p] = "ready"] /\ cli' = [cli EXCEPT ![p] = Nowhere]
        /\ model' = [model EXCEPT ![p] = 0] /\ mark' = mark
        /\ failures' = failures \/ failures' = [failures EXCEPT ![cli[p]] = 0]
        /\ cooling' = cooling \/ cooling' = [cooling EXCEPT ![cli[p]] = FALSE]
    BY <1>14 DEF Praises, Goes, Returns, table, lookup
  <2>2. \A q \in Caller \ {p} : where'[q] = where[q] /\ cli'[q] = cli[q] /\ model'[q] = model[q]
    BY <2>1 DEF LadderInv, LadderTypeOK
  <2>4. where'[p] = "ready"
    BY <2>1 DEF LadderInv, LadderTypeOK
  <2>5. BlameInv' /\ RetryInv'
    BY <2>2, <2>4 DEF LadderInv, BlameInv, RetryInv
  <2>3. SoundVendorsStayInService' /\ GoodModelsAreNotSetAside'
    <3>1. failures \in [Cli -> 0..Threshold] /\ cooling \in [Cli -> BOOLEAN]
      BY DEF LadderInv, LadderTypeOK
    <3>2. \A c \in Cli : (failures[c] = 0 => failures'[c] = 0) /\ (~cooling[c] => ~cooling'[c])
      BY ONLY <2>1, <3>1
    <3>3. Sound \subseteq Cli
      BY LadderAssumption
    <3> QED
      BY <2>1, <3>2, <3>3 DEF LadderInv, SoundVendorsStayInService, GoodModelsAreNotSetAside
  <2>6. QED
    BY <2>3, <2>5
<1>15. ASSUME NEW p \in Caller, Counts(p)
      PROVE  BlameInv' /\ RetryInv' /\ SoundVendorsStayInService' /\ GoodModelsAreNotSetAside'
  BY <1>15, LadderAssumption DEF Counts, Goes, LadderInv, LadderTypeOK, BlameInv, RetryInv, SoundVendorsStayInService, GoodModelsAreNotSetAside, table, lookup, aiming
<1>16. ASSUME NEW p \in Caller, Benches(p)
      PROVE  BlameInv' /\ RetryInv' /\ SoundVendorsStayInService' /\ GoodModelsAreNotSetAside'
  BY <1>16, LadderAssumption DEF Benches, Goes, LadderInv, LadderTypeOK, BlameInv, RetryInv, SoundVendorsStayInService, GoodModelsAreNotSetAside, table, lookup, aiming
<1>17. ASSUME NEW p \in Caller, GivesUp(p)
      PROVE  BlameInv' /\ RetryInv' /\ SoundVendorsStayInService' /\ GoodModelsAreNotSetAside'
  BY <1>17, LadderAssumption DEF GivesUp, Goes, Returns, LadderInv, LadderTypeOK, BlameInv, RetryInv, SoundVendorsStayInService, GoodModelsAreNotSetAside, table, lookup, aiming
<1>18. ASSUME NEW p \in Caller, LeavesLadder(p)
      PROVE  BlameInv' /\ RetryInv' /\ SoundVendorsStayInService' /\ GoodModelsAreNotSetAside'
  BY <1>18, LadderAssumption DEF LeavesLadder, Goes, LadderInv, LadderTypeOK, BlameInv, RetryInv, SoundVendorsStayInService, GoodModelsAreNotSetAside, table, lookup, aiming
<1>19. ASSUME NEW p \in Caller, CallerKilled(p)
      PROVE  BlameInv' /\ RetryInv' /\ SoundVendorsStayInService' /\ GoodModelsAreNotSetAside'
  BY <1>19, LadderAssumption DEF CallerKilled, Returns, LadderInv, LadderTypeOK, BlameInv, RetryInv, SoundVendorsStayInService, GoodModelsAreNotSetAside, table, lookup, aiming
<1>20. ASSUME NEW c \in Cli, CoolsDown(c)
      PROVE  BlameInv' /\ RetryInv' /\ SoundVendorsStayInService' /\ GoodModelsAreNotSetAside'
  BY <1>20, LadderAssumption DEF CoolsDown, LadderInv, LadderTypeOK, BlameInv, RetryInv, SoundVendorsStayInService, GoodModelsAreNotSetAside, table, lookup, aiming
<1>21. ASSUME NEW c \in Cli, LookupAges(c)
      PROVE  BlameInv' /\ RetryInv' /\ SoundVendorsStayInService' /\ GoodModelsAreNotSetAside'
  BY <1>21, LadderAssumption DEF LookupAges, LadderInv, LadderTypeOK, BlameInv, RetryInv, SoundVendorsStayInService, GoodModelsAreNotSetAside, table, lookup, aiming
<1>22. ASSUME NEW c \in Cli, MarkAges(c)
      PROVE  BlameInv' /\ RetryInv' /\ SoundVendorsStayInService' /\ GoodModelsAreNotSetAside'
  BY <1>22, LadderAssumption DEF MarkAges, LadderInv, LadderTypeOK, BlameInv, RetryInv, SoundVendorsStayInService, GoodModelsAreNotSetAside, table, lookup, aiming
<1>23. CASE UNCHANGED ladderVars
  BY <1>23 DEF ladderVars, LadderInv, LadderTypeOK, BlameInv, RetryInv, SoundVendorsStayInService, GoodModelsAreNotSetAside, table, lookup, aiming
<1>24. ASSUME NEW p \in Caller, TableFails(p)
      PROVE  BlameInv' /\ RetryInv' /\ SoundVendorsStayInService' /\ GoodModelsAreNotSetAside'
  BY <1>24, LadderAssumption DEF TableFails, Returns, LadderInv, LadderTypeOK, BlameInv, RetryInv, SoundVendorsStayInService, GoodModelsAreNotSetAside, table, lookup, aiming
<1>25. QED
  BY <1>1, <1>2, <1>3, <1>4, <1>5, <1>6, <1>7, <1>8, <1>9, <1>10, <1>11, <1>12, <1>13, <1>14, <1>15, <1>16, <1>17, <1>18, <1>19, <1>20, <1>21, <1>22, <1>23, <1>24 DEF LadderNext

LEMMA LadderInvariant == LadderSpec => []LadderInv
<1>1. LadderInit => LadderInv
  BY NobodyIsBlamedAtFirst
<1>2. LadderInv /\ [LadderNext]_ladderVars => LadderInv'
  BY TypesAreKept, CallsAreKept, BlameIsKept DEF LadderInv
<1>3. QED
  BY <1>1, <1>2, PTL DEF LadderSpec

\* A CLI whose tested model never answers badly is never charged with a failure
\* and never put into a cooldown, whatever newer models are found for it,
\* whatever a search asks of it, and whoever is killed (Ladder::run_with,
\* Ladder::record, record_summarizer_failure).
THEOREM SoundVendorStays == LadderSpec => []SoundVendorsStayInService
<1>1. LadderInv => SoundVendorsStayInService
  BY DEF LadderInv
<1>2. QED
  BY <1>1, LadderInvariant, PTL

\* A newer model that never answers badly is never marked, whatever the models
\* before and after it do (the mark in Ladder::run_with, mark_holds).
THEOREM GoodModelStays == LadderSpec => []GoodModelsAreNotSetAside
<1>1. LadderInv => GoodModelsAreNotSetAside
  BY DEF LadderInv
<1>2. QED
  BY <1>1, LadderInvariant, PTL
=============================================================================

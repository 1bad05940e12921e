---------------------------- MODULE UpdateProofs ----------------------------
(***************************************************************************)
(* Proofs about the self-update, for any number of releases, hooks and     *)
(* updaters, any limit and any number of mishaps.                          *)
(***************************************************************************)
EXTENDS Update, FiniteSetTheorems, TLAPS

\* Whoever runs, runs a release.
RunsARelease == \A p \in Process : ~Is(p, "idle") => ver[p] \in Version

\* From its verdict to the rename, an updater has a candidate.
HasACandidate ==
  \A u \in Updater :
    pc[u] \in {"record", "recordprev", "keep", "place", "mark", "markfile"} => cand[u] \in Version

\* A hook that is past the look at brain.prev has one to go back to.
HasAPrev == \A h \in Hook : pc[h] \in {"mark", "markfile", "swap"} => prevBin \in Version

Typed == TypeOK /\ RunsARelease /\ HasACandidate /\ HasAPrev

(***************************************************************************)
(* Type correctness                                                        *)
(***************************************************************************)
LEMMA CappedIsBounded ==
  ASSUME NEW n \in Nat
  PROVE  Capped(n) \in 0..FailLimit
BY UpdateAssumption DEF Capped

LEMMA PidsAreFinite ==
  ASSUME NEW S \in SUBSET Hook
  PROVE  IsFiniteSet(S) /\ Cardinality(S) \in Nat
BY UpdateAssumption, FS_Subset, FS_CardinalityType

LEMMA TypedInit == Init => Typed
<1> SUFFICES ASSUME Init PROVE Typed
  OBVIOUS
<1> USE UpdateAssumption DEF Init
<1>1. 1 \in Version
  BY DEF Version
<1>2. FilesTypeOK
  BY <1>1 DEF FilesTypeOK, NoRecord, NoFailures
<1>3. ProcessTypeOK
  BY DEF ProcessTypeOK
<1>4. HistoryTypeOK
  <2>1. cut \in BOOLEAN
    OBVIOUS
  <2>2. came \in [Version -> 0..MaxVersion] /\ condemned \subseteq Version /\ badEnds \in [Version -> 0..FailLimit]
    OBVIOUS
  <2> QED
    BY <2>1, <2>2 DEF HistoryTypeOK
<1>5. RunsARelease /\ HasACandidate /\ HasAPrev
  BY DEF RunsARelease, HasACandidate, HasAPrev, Is, Process
<1> QED
  BY <1>2, <1>3, <1>4, <1>5 DEF Typed, TypeOK

\* A process that ends leaves the rest as it was.
LEMMA EndKeepsProcesses ==
  ASSUME Typed, NEW p \in Process, End(p)
  PROVE  /\ ProcessTypeOK' /\ RunsARelease' /\ HasACandidate'
         /\ (prevBin' = prevBin => HasAPrev')
         /\ lock' \in Process \cup {Free} /\ store' \in BOOLEAN
<1> USE DEF Typed, TypeOK, ProcessTypeOK, End, Move
<1>1. ProcessTypeOK'
  <2>1. 0 \in 0..MaxVersion
    BY UpdateAssumption
  <2> QED
    BY <2>1 DEF Process
<1>2. RunsARelease'
  BY DEF RunsARelease, Is
<1>3. HasACandidate'
  BY DEF HasACandidate, Process
<1>4. prevBin' = prevBin => HasAPrev'
  BY DEF HasAPrev, Process
<1>5. lock' \in Process \cup {Free} /\ store' \in BOOLEAN
  BY DEF FilesTypeOK
<1> QED
  BY <1>1, <1>2, <1>3, <1>4, <1>5

\* What a step that ends a process still has to show.
LEMMA EndIsTyped ==
  ASSUME Typed, NEW p \in Process, End(p), prevBin' = prevBin, latest' = latest,
         bin' = bin, prevFile' \in 0..MaxVersion,
         installed' \in [version : 0..MaxVersion, recent : BOOLEAN],
         badFile' \subseteq Version, badState' = badState,
         failures' \in [version : 0..MaxVersion, count : 0..FailLimit, pids : SUBSET Hook],
         mishaps' \in 0..MaxMishap, HistoryTypeOK'
  PROVE  Typed'
<1>1. FilesTypeOK'
  BY EndKeepsProcesses DEF Typed, TypeOK, FilesTypeOK
<1> QED
  BY <1>1, EndKeepsProcesses DEF Typed, TypeOK

LEMMA MishapIsBounded ==
  ASSUME FilesTypeOK, Mishap
  PROVE  mishaps' \in 0..MaxMishap
BY UpdateAssumption DEF FilesTypeOK, Mishap

LEMMA BadEndIsTyped ==
  ASSUME HistoryTypeOK, NEW v \in Version, BadEnd(v)
  PROVE  badEnds' \in [Version -> 0..FailLimit]
<1>1. Capped(badEnds[v] + 1) \in 0..FailLimit
  BY CappedIsBounded DEF HistoryTypeOK
<1> QED
  BY <1>1 DEF HistoryTypeOK, BadEnd

LEMMA MarkedIsARelease ==
  ASSUME Typed, NEW p \in Process, pc[p] \in {"mark", "markfile"}
  PROVE  Marked(p) \in Version /\ BadList \subseteq Version
<1>1. Marked(p) \in Version
  BY UpdateAssumption DEF Typed, RunsARelease, HasACandidate, Marked, Is, Process
<1> QED
  BY <1>1 DEF Typed, TypeOK, FilesTypeOK, BadList

\* Failures::begin and Failures::end leave a record of the same form.
LEMMA RecordsAreTyped ==
  ASSUME Typed, NEW h \in Hook, ver[h] \in Version, NEW ok \in BOOLEAN
  PROVE  /\ Of(ver[h]) \in [version : {ver[h]}, count : 0..FailLimit, pids : SUBSET Hook]
         /\ Begun(h) \in [version : {ver[h]}, count : 0..FailLimit, pids : SUBSET Hook]
         /\ Ended(h, ok) \in [version : {ver[h]}, count : 0..FailLimit, pids : SUBSET Hook]
<1> DEFINE f == Of(ver[h])
           gone == {pid \in f.pids : pid # h /\ ~Alive(pid)}
<1>1. f \in [version : {ver[h]}, count : 0..FailLimit, pids : SUBSET Hook]
  BY UpdateAssumption DEF Of, NoFailures, Typed, TypeOK, FilesTypeOK
<1> HIDE DEF f
<1>2. Cardinality(gone) \in Nat
  BY <1>1, PidsAreFinite
<1>3. Capped(f.count + Cardinality(gone)) \in 0..FailLimit /\ Capped(f.count + 1) \in 0..FailLimit
  BY <1>1, <1>2, CappedIsBounded
<1>4. Begun(h) = [f EXCEPT !.count = Capped(f.count + Cardinality(gone)), !.pids = (f.pids \ gone) \cup {h}]
  BY DEF Begun, f
<1>5. Ended(h, ok) = [f EXCEPT !.count = IF ok THEN 0 ELSE Capped(f.count + 1), !.pids = f.pids \ {h}]
  BY DEF Ended, f
<1>6. 0 \in 0..FailLimit
  BY UpdateAssumption
<1>7. gone \in SUBSET Hook
  BY <1>1
<1> HIDE DEF gone
<1>8. Begun(h) \in [version : {ver[h]}, count : 0..FailLimit, pids : SUBSET Hook]
  BY <1>1, <1>3, <1>4, <1>7
<1>9. Ended(h, ok) \in [version : {ver[h]}, count : 0..FailLimit, pids : SUBSET Hook]
  BY <1>1, <1>3, <1>5, <1>6
<1> QED
  BY <1>1, <1>8, <1>9 DEF f

\* A process that only moves on, to a place it may be in.
LEMMA MoveIsTyped ==
  ASSUME Typed, NEW p \in Process, ~Is(p, "idle"), UNCHANGED <<ver, cand>>,
         NEW to \in {"lock", "decide", "record", "recordprev", "keep", "place", "mark", "markfile",
                    "done", "look", "begin", "work", "read", "swap", "close", "forget"},
         Move(p, to), due' \in [Hook -> BOOLEAN],
         p \in Updater /\ to \in {"record", "recordprev", "keep", "place", "mark", "markfile"}
           => cand[p] \in Version,
         p \in Hook /\ to \in {"mark", "markfile", "swap"} => prevBin' \in Version,
         prevBin' = prevBin \/ prevBin' \in Version
  PROVE  ProcessTypeOK' /\ RunsARelease' /\ HasACandidate' /\ HasAPrev'
<1> USE DEF Typed, TypeOK, ProcessTypeOK, Move, Is
<1>1. ProcessTypeOK'
  OBVIOUS
<1>2. RunsARelease'
  BY DEF RunsARelease
<1>3. HasACandidate'
  BY DEF HasACandidate, Process
<1>4. HasAPrev'
  BY DEF HasAPrev, Process
<1> QED
  BY <1>1, <1>2, <1>3, <1>4

\* One updater's step: its own place, and what it writes.
LEMMA UpdaterIsTyped ==
  ASSUME Typed, NEW u \in Updater, Launches(u) \/ UpdaterStep(u) \/ PlaceFails(u)
  PROVE  Typed'
<1> USE UpdateAssumption DEF Is, Move, local, fileVars, ghosts
<1>0. u \in Process /\ u \notin Hook
  BY DEF Process
<1>a. ASSUME UNCHANGED ghosts PROVE HistoryTypeOK'
  BY <1>a DEF Typed, TypeOK, HistoryTypeOK
<1>b. ASSUME UNCHANGED <<installed, failures>>
      PROVE  /\ installed' \in [version : 0..MaxVersion, recent : BOOLEAN]
             /\ failures' \in [version : 0..MaxVersion, count : 0..FailLimit, pids : SUBSET Hook]
  BY <1>b DEF Typed, TypeOK, FilesTypeOK
<1>1. CASE Launches(u)
  <2>1. FilesTypeOK'
    BY <1>1, MishapIsBounded DEF Launches, Typed, TypeOK, FilesTypeOK
  <2>2. ProcessTypeOK'
    <3>1. Version \subseteq 0..MaxVersion
      BY DEF Version
    <3> QED
      BY <1>1, <1>0, <3>1 DEF Launches, Typed, TypeOK, FilesTypeOK, ProcessTypeOK
  <2>3. RunsARelease' /\ HasACandidate' /\ HasAPrev'
    BY <1>1, <1>0 DEF Launches, Typed, TypeOK, FilesTypeOK, ProcessTypeOK, RunsARelease, HasACandidate, HasAPrev
  <2> QED
    BY <1>1, <1>a, <2>1, <2>2, <2>3 DEF Launches, Typed, TypeOK
<1>2. CASE TakesLock(u)
  <2>1. FilesTypeOK' /\ ProcessTypeOK'
    BY <1>2, <1>0 DEF TakesLock, Typed, TypeOK, FilesTypeOK, ProcessTypeOK
  <2>2. RunsARelease' /\ HasACandidate' /\ HasAPrev'
    BY <1>2, <1>0 DEF TakesLock, Typed, TypeOK, ProcessTypeOK, RunsARelease, HasACandidate, HasAPrev
  <2> QED
    BY <1>2, <1>a, <2>1, <2>2 DEF TakesLock, Typed, TypeOK
<1>3. CASE TurnedAway(u) \/ StaysPut(u)
  <2>1. End(u) /\ UNCHANGED <<bin, prevBin, installed, fileVars, failures, latest, ghosts, mishaps>>
    BY <1>3 DEF TurnedAway, StaysPut
  <2> QED
    BY <2>1, <1>0, <1>a, <1>b, EndIsTyped DEF Typed, TypeOK, FilesTypeOK
<1>4. CASE Decides(u)
  <2>1. FilesTypeOK'
    BY <1>4 DEF Decides, Typed, TypeOK, FilesTypeOK
  <2>2. ProcessTypeOK'
    BY <1>4, <1>0 DEF Decides, Typed, TypeOK, FilesTypeOK, ProcessTypeOK, Version
  <2>3. RunsARelease' /\ HasACandidate' /\ HasAPrev'
    BY <1>4, <1>0 DEF Decides, Typed, TypeOK, FilesTypeOK, ProcessTypeOK, RunsARelease, HasACandidate, HasAPrev
  <2> QED
    BY <1>4, <1>a, <2>1, <2>2, <2>3 DEF Decides, Typed, TypeOK
<1>5. CASE MarksInStore(u) \/ MarksInFile(u)
  <2>1. pc[u] \in {"mark", "markfile"}
    BY <1>5 DEF MarksInStore, MarksInFile
  <2>2. Marked(u) \in Version /\ BadList \subseteq Version
    BY <2>1, <1>0, MarkedIsARelease
  <2>3. FilesTypeOK'
    BY <1>5, <1>0, <2>2 DEF MarksInStore, MarksInFile, Typed, TypeOK, FilesTypeOK
  <2>4. ProcessTypeOK' /\ RunsARelease' /\ HasACandidate' /\ HasAPrev'
    <3>1. due' \in [Hook -> BOOLEAN] /\ cand[u] \in Version
      BY <1>5, <2>1 DEF MarksInStore, MarksInFile, Typed, TypeOK, ProcessTypeOK, HasACandidate
    <3>2. CASE MarksInStore(u)
      BY <3>1, <3>2, <1>0, MoveIsTyped DEF MarksInStore
    <3>3. CASE MarksInFile(u)
      BY <3>1, <3>3, <1>0, MoveIsTyped DEF MarksInFile
    <3> QED
      BY <1>5, <3>2, <3>3
  <2> QED
    BY <1>5, <1>a, <2>3, <2>4 DEF MarksInStore, MarksInFile, Typed, TypeOK
<1>6. CASE Records(u) \/ RecordsPrev(u) \/ Keeps(u) \/ PlaceFails(u)
  <2>1. /\ cand[u] \in Version /\ ver[u] \in 0..MaxVersion /\ cand[u] \in 0..MaxVersion
        /\ bin \in Version /\ bin \in 0..MaxVersion
    BY <1>6, <1>0
    DEF Records, RecordsPrev, Keeps, PlaceFails, Typed, TypeOK, FilesTypeOK, ProcessTypeOK, HasACandidate, Version
  <2>2. FilesTypeOK'
    <3> USE DEF Typed, TypeOK, FilesTypeOK
    <3>1. CASE Records(u)
      BY <3>1, <2>1 DEF Records
    <3>2. CASE RecordsPrev(u)
      BY <3>2, <2>1 DEF RecordsPrev
    <3>3. CASE Keeps(u)
      BY <3>3, <2>1 DEF Keeps
    <3>4. CASE PlaceFails(u)
      BY <3>4, MishapIsBounded DEF PlaceFails
    <3> QED
      BY <1>6, <3>1, <3>2, <3>3, <3>4
  <2>3. ProcessTypeOK' /\ RunsARelease' /\ HasACandidate' /\ HasAPrev'
    <3>1. due' \in [Hook -> BOOLEAN]
      BY <1>6 DEF Records, RecordsPrev, Keeps, PlaceFails, Typed, TypeOK, ProcessTypeOK
    <3>2. CASE Records(u)
      BY <3>1, <3>2, <2>1, <1>0, MoveIsTyped DEF Records
    <3>3. CASE RecordsPrev(u)
      BY <3>1, <3>3, <2>1, <1>0, MoveIsTyped DEF RecordsPrev
    <3>4. CASE Keeps(u)
      BY <3>1, <3>4, <2>1, <1>0, MoveIsTyped DEF Keeps
    <3>5. CASE PlaceFails(u)
      BY <3>1, <3>5, <2>1, <1>0, MoveIsTyped DEF PlaceFails
    <3> QED
      BY <1>6, <3>2, <3>3, <3>4, <3>5
  <2> QED
    BY <1>6, <1>a, <2>2, <2>3 DEF Records, RecordsPrev, Keeps, PlaceFails, Typed, TypeOK
<1>7. CASE Places(u)
  <2>1. cand[u] \in Version /\ bin \in 0..MaxVersion
    BY <1>7 DEF Places, Typed, TypeOK, FilesTypeOK, HasACandidate, Version
  <2>2. FilesTypeOK'
    BY <1>7, <2>1 DEF Places, Typed, TypeOK, FilesTypeOK
  <2>3. HistoryTypeOK'
    BY <1>7, <2>1 DEF Places, Typed, TypeOK, HistoryTypeOK
  <2>4. due' \in [Hook -> BOOLEAN]
    BY <1>7 DEF Places, Typed, TypeOK, ProcessTypeOK
  <2>5. ProcessTypeOK' /\ RunsARelease' /\ HasACandidate' /\ HasAPrev'
    BY <1>7, <1>0, <2>1, <2>4, MoveIsTyped DEF Places
  <2> QED
    BY <2>2, <2>3, <2>5 DEF Typed, TypeOK
<1> QED
  BY <1>1, <1>2, <1>3, <1>4, <1>5, <1>6, <1>7 DEF UpdaterStep

\* One hook's step.
LEMMA HookIsTyped ==
  ASSUME Typed, NEW h \in Hook, HookStep(h) \/ CannotBegin(h) \/ CannotEnd(h) \/ SwapFails(h)
  PROVE  Typed'
<1> USE UpdateAssumption DEF local, fileVars, ghosts
<1>0. h \in Process /\ h \notin Updater
  BY DEF Process
<1>a. ASSUME UNCHANGED ghosts PROVE HistoryTypeOK'
  BY <1>a DEF Typed, TypeOK, HistoryTypeOK
<1>b. ASSUME UNCHANGED due PROVE due' \in [Hook -> BOOLEAN]
  BY <1>b DEF Typed, TypeOK, ProcessTypeOK
<1>c. ~Is(h, "idle") => ver[h] \in Version
  BY <1>0 DEF Typed, RunsARelease
<1>d. ASSUME ~Is(h, "idle"), NEW ok \in BOOLEAN, failures' = Begun(h) \/ failures' = Ended(h, ok)
      PROVE  failures' \in [version : 0..MaxVersion, count : 0..FailLimit, pids : SUBSET Hook]
  <2>1. failures' \in [version : {ver[h]}, count : 0..FailLimit, pids : SUBSET Hook]
    BY <1>c, <1>d, RecordsAreTyped
  <2>2. ver[h] \in 0..MaxVersion
    BY <1>c, <1>d DEF Version
  <2> QED
    BY <2>1, <2>2
<1>1. CASE Execs(h)
  <2> USE DEF Execs, Typed, TypeOK, Is, Move
  <2>1. bin \in Version /\ bin \in 0..MaxVersion
    BY DEF FilesTypeOK, Version
  <2>2. FilesTypeOK'
    BY <1>1 DEF FilesTypeOK
  <2>3. ProcessTypeOK'
    BY <1>1, <1>0, <2>1 DEF ProcessTypeOK
  <2>4. RunsARelease'
    BY <1>1, <1>0, <2>1 DEF ProcessTypeOK, RunsARelease
  <2>5. HasACandidate'
    BY <1>1, <1>0 DEF ProcessTypeOK, HasACandidate
  <2>6. HasAPrev'
    BY <1>1, <1>0 DEF ProcessTypeOK, HasAPrev
  <2> QED
    BY <1>1, <1>a, <2>2, <2>3, <2>4, <2>5, <2>6
<1>2. CASE Looks(h) \/ LeavesIt(h) \/ ChecksPrev(h) \/ TakesLock(h)
  <2>1. FilesTypeOK'
    BY <1>2, <1>0 DEF Looks, LeavesIt, ChecksPrev, TakesLock, Typed, TypeOK, FilesTypeOK
  <2>2. ProcessTypeOK' /\ RunsARelease' /\ HasACandidate' /\ HasAPrev'
    <3>1. due' \in [Hook -> BOOLEAN]
      BY <1>2, <1>b DEF Looks, LeavesIt, ChecksPrev, TakesLock
    <3>2. CASE Looks(h)
      BY <3>1, <3>2, <1>0, MoveIsTyped DEF Looks, Is
    <3>3. CASE LeavesIt(h)
      BY <3>1, <3>3, <1>0, MoveIsTyped DEF LeavesIt, Is
    <3>4. CASE ChecksPrev(h)
      <4>1. prevBin \in Version
        BY <3>4 DEF ChecksPrev, Restorable, Typed, TypeOK, FilesTypeOK, Version
      <4> QED
        BY <3>1, <3>4, <4>1, <1>0, MoveIsTyped DEF ChecksPrev, Is
    <3>5. CASE TakesLock(h)
      BY <3>1, <3>5, <1>0, MoveIsTyped DEF TakesLock, Is
    <3> QED
      BY <1>2, <3>2, <3>3, <3>4, <3>5
  <2> QED
    BY <1>2, <1>a, <2>1, <2>2 DEF Looks, LeavesIt, ChecksPrev, TakesLock, Typed, TypeOK
<1>3. CASE LooksAway(h) \/ TurnedAway(h)
  BY <1>3, <1>0, <1>a, EndIsTyped DEF LooksAway, TurnedAway, Typed, TypeOK, FilesTypeOK
<1>4. CASE Begins(h)
  <2>1. ~Is(h, "idle")
    BY <1>4 DEF Begins, Is
  <2>2. FilesTypeOK'
    <3>1. failures' \in [version : 0..MaxVersion, count : 0..FailLimit, pids : SUBSET Hook]
      BY <1>4, <2>1, <1>d DEF Begins
    <3> QED
      BY <1>4, <3>1 DEF Begins, Typed, TypeOK, FilesTypeOK
  <2>3. due' \in [Hook -> BOOLEAN]
    BY <1>4 DEF Begins, Typed, TypeOK, ProcessTypeOK
  <2>4. ProcessTypeOK' /\ RunsARelease' /\ HasACandidate' /\ HasAPrev'
    BY <1>4, <1>0, <2>1, <2>3, MoveIsTyped DEF Begins
  <2> QED
    BY <1>4, <1>a, <2>2, <2>4 DEF Begins, Typed, TypeOK
<1>5. CASE CannotBegin(h)
  BY <1>5, <1>0, <1>a, EndIsTyped, MishapIsBounded DEF CannotBegin, Typed, TypeOK, FilesTypeOK
<1>6. CASE Ends(h) \/ CannotEnd(h)
  <2>1. ~Is(h, "idle") /\ ver[h] \in Version
    BY <1>6, <1>c DEF Ends, CannotEnd, Is
  <2>2. failures' \in [version : 0..MaxVersion, count : 0..FailLimit, pids : SUBSET Hook]
    <3>1. CASE Ends(h)
      BY <3>1, <2>1, <1>d DEF Ends
    <3>2. CASE CannotEnd(h)
      BY <3>2 DEF CannotEnd, Typed, TypeOK, FilesTypeOK
    <3> QED
      BY <1>6, <3>1, <3>2
  <2>3. HistoryTypeOK'
    <3>1. badEnds' = badEnds \/ BadEnd(ver[h])
      BY <1>6 DEF Ends, CannotEnd
    <3>2. badEnds' \in [Version -> 0..FailLimit]
      BY <2>1, <3>1, BadEndIsTyped DEF Typed, TypeOK, HistoryTypeOK
    <3> QED
      BY <1>6, <3>2 DEF Ends, CannotEnd, Typed, TypeOK, HistoryTypeOK
  <2>4. mishaps' \in 0..MaxMishap
    BY <1>6, MishapIsBounded DEF Ends, CannotEnd, Typed, TypeOK, FilesTypeOK
  <2>5. /\ UNCHANGED <<bin, prevBin, installed, fileVars, latest>>
        /\ \/ Move(h, "lock") /\ UNCHANGED <<lock, store, local>>
           \/ End(h)
    BY <1>6 DEF Ends, CannotEnd
  <2>6. CASE End(h)
    BY <2>2, <2>3, <2>4, <2>5, <2>6, <1>0, EndIsTyped DEF Typed, TypeOK, FilesTypeOK
  <2>7. CASE Move(h, "lock") /\ UNCHANGED <<lock, store, local>>
    <3>1. FilesTypeOK'
      BY <2>2, <2>4, <2>5, <2>7 DEF Typed, TypeOK, FilesTypeOK
    <3>2. ProcessTypeOK' /\ RunsARelease' /\ HasACandidate' /\ HasAPrev'
      BY <2>1, <2>5, <2>7, <1>0, <1>b, MoveIsTyped
    <3> QED
      BY <2>3, <3>1, <3>2 DEF Typed, TypeOK
  <2> QED
    BY <2>5, <2>6, <2>7
<1>7. CASE MarksInStore(h) \/ MarksInFile(h)
  <2>1. pc[h] \in {"mark", "markfile"}
    BY <1>7 DEF MarksInStore, MarksInFile, Is
  <2>2. Marked(h) \in Version /\ BadList \subseteq Version /\ prevBin \in Version
    BY <2>1, <1>0, MarkedIsARelease DEF Typed, HasAPrev
  <2>3. FilesTypeOK'
    BY <1>7, <2>2 DEF MarksInStore, MarksInFile, Typed, TypeOK, FilesTypeOK
  <2>4. ProcessTypeOK' /\ RunsARelease' /\ HasACandidate' /\ HasAPrev'
    <3>1. due' \in [Hook -> BOOLEAN]
      BY <1>7, <1>b DEF MarksInStore, MarksInFile
    <3>2. CASE MarksInStore(h)
      BY <3>1, <3>2, <1>0, <2>2, MoveIsTyped DEF MarksInStore, Is
    <3>3. CASE MarksInFile(h)
      BY <3>1, <3>3, <1>0, <2>2, MoveIsTyped DEF MarksInFile, Is
    <3> QED
      BY <1>7, <3>2, <3>3
  <2> QED
    BY <1>7, <1>a, <2>3, <2>4 DEF MarksInStore, MarksInFile, Typed, TypeOK
<1>8. CASE Swaps(h) \/ SwapFails(h) \/ Closes(h)
  <2>1. due' \in [Hook -> BOOLEAN]
    BY <1>8, <1>b DEF Swaps, SwapFails, Closes
  <2>2. CASE Swaps(h)
    <3>1. prevBin \in Version /\ ver[h] \in Version
      BY <2>2, <1>c DEF Swaps, Is, Typed, HasAPrev
    <3>2. FilesTypeOK' /\ HistoryTypeOK'
      BY <2>2, <3>1 DEF Swaps, Typed, TypeOK, FilesTypeOK, HistoryTypeOK
    <3>3. ProcessTypeOK' /\ RunsARelease' /\ HasACandidate' /\ HasAPrev'
      BY <2>2, <2>1, <1>0, MoveIsTyped DEF Swaps, Is
    <3> QED
      BY <3>2, <3>3 DEF Typed, TypeOK
  <2>3. CASE SwapFails(h)
    <3>1. FilesTypeOK'
      BY <2>3, MishapIsBounded DEF SwapFails, Typed, TypeOK, FilesTypeOK
    <3>2. ProcessTypeOK' /\ RunsARelease' /\ HasACandidate' /\ HasAPrev'
      BY <2>3, <2>1, <1>0, MoveIsTyped DEF SwapFails, Is
    <3> QED
      BY <2>3, <1>a, <3>1, <3>2 DEF SwapFails, Typed, TypeOK
  <2>4. CASE Closes(h)
    <3>1. FilesTypeOK'
      BY <2>4 DEF Closes, Typed, TypeOK, FilesTypeOK
    <3>2. ProcessTypeOK' /\ RunsARelease' /\ HasACandidate' /\ HasAPrev'
      BY <2>4, <2>1, <1>0, MoveIsTyped DEF Closes, Is
    <3> QED
      BY <2>4, <1>a, <3>1, <3>2 DEF Closes, Typed, TypeOK
  <2> QED
    BY <1>8, <2>2, <2>3, <2>4
<1>9. CASE Forgets(h)
  <2>1. failures' \in [version : 0..MaxVersion, count : 0..FailLimit, pids : SUBSET Hook]
    BY <1>9 DEF Forgets, NoFailures
  <2> QED
    BY <1>9, <2>1, <1>0, <1>a, EndIsTyped DEF Forgets, Typed, TypeOK, FilesTypeOK
<1> QED
  BY <1>1, <1>2, <1>3, <1>4, <1>5, <1>6, <1>7, <1>8, <1>9 DEF HookStep

\* Whoever is killed, wherever it was.
LEMMA KilledIsTyped ==
  ASSUME Typed, NEW p \in Process, Killed(p)
  PROVE  Typed'
<1> USE UpdateAssumption DEF Killed, Typed, TypeOK, FilesTypeOK
<1>1. ver[p] \in Version
  BY DEF RunsARelease
<1>2. HistoryTypeOK'
  <2>1. badEnds' = badEnds \/ BadEnd(ver[p])
    OBVIOUS
  <2>2. badEnds' \in [Version -> 0..FailLimit]
    BY <1>1, <2>1, BadEndIsTyped DEF HistoryTypeOK
  <2> QED
    BY <2>2 DEF HistoryTypeOK
<1>3. /\ installed' \in [version : 0..MaxVersion, recent : BOOLEAN]
      /\ prevFile' \in 0..MaxVersion
      /\ badFile' \subseteq Version
  <2>1. installed' \in {installed, NoRecord} /\ prevFile' \in {prevFile, 0} /\ badFile' \in {badFile, {}}
    OBVIOUS
  <2>2. NoRecord \in [version : 0..MaxVersion, recent : BOOLEAN] /\ 0 \in 0..MaxVersion
    BY DEF NoRecord
  <2> QED
    BY <2>1, <2>2
<1>4. failures' \in [version : 0..MaxVersion, count : 0..FailLimit, pids : SUBSET Hook]
  BY DEF NoFailures
<1>5. mishaps' \in 0..MaxMishap
  BY MishapIsBounded
<1>6. End(p) /\ UNCHANGED <<bin, prevBin, badState, latest>>
  OBVIOUS
<1> QED
  BY <1>2, <1>3, <1>4, <1>5, <1>6, EndIsTyped

LEMMA TypedStep == Typed /\ [Next]_vars => Typed'
<1> SUFFICES ASSUME Typed, [Next]_vars PROVE Typed'
  OBVIOUS
<1> USE UpdateAssumption
<1>1. CASE \E u \in Updater : Launches(u) \/ UpdaterStep(u) \/ PlaceFails(u)
  BY <1>1, UpdaterIsTyped
<1>2. CASE \E h \in Hook : HookStep(h) \/ CannotBegin(h) \/ CannotEnd(h) \/ SwapFails(h)
  BY <1>2, HookIsTyped
<1>3. CASE \E p \in Process : Killed(p)
  BY <1>3, KilledIsTyped
<1>4. CASE GrowsOld \/ Publishes \/ UNCHANGED vars
  <2> USE DEF GrowsOld, Publishes, vars, fileVars, local, ghosts
  <2>1. FilesTypeOK'
    <3> USE DEF Typed, TypeOK, FilesTypeOK
    <3>1. CASE GrowsOld
      BY <3>1
    <3>2. CASE Publishes
      BY <3>2 DEF Version
    <3>3. CASE UNCHANGED vars
      BY <3>3
    <3> QED
      BY <1>4, <3>1, <3>2, <3>3
  <2>2. ProcessTypeOK' /\ HistoryTypeOK'
    BY <1>4 DEF Typed, TypeOK, ProcessTypeOK, HistoryTypeOK
  <2>3. RunsARelease' /\ HasACandidate' /\ HasAPrev'
    BY <1>4 DEF Typed, RunsARelease, HasACandidate, HasAPrev, Is
  <2> QED
    BY <2>1, <2>2, <2>3 DEF Typed, TypeOK
<1> QED
  BY <1>1, <1>2, <1>3, <1>4 DEF Next

LEMMA AlwaysTyped == Spec => []Typed
BY TypedInit, TypedStep, PTL DEF Spec

\* The variables keep their types: there is a release at the path whatever was
\* cut short, a rollback always has something to put there, and the count of
\* failures is never an impossible one.
THEOREM UpdateTypeCorrect == Spec => []TypeOK
<1>1. Typed => TypeOK
  BY DEF Typed
<1> QED
  BY <1>1, AlwaysTyped, PTL

(***************************************************************************)
(* What is rolled back had it coming                                       *)
(*                                                                         *)
(* The count in update.failures plus the pids it will find gone never      *)
(* exceed the hooks that really went wrong: a pid in the list is either a  *)
(* hook of that release still at work, or one that ended without a word.   *)
(***************************************************************************)
Silent == {pid \in failures.pids : ~(Is(pid, "work") /\ ver[pid] = failures.version)}

CountIsEarned ==
  failures.version \in Version =>
    Capped(failures.count + Cardinality(Silent)) <= badEnds[failures.version]

DueIsEarned == \A h \in Hook : due[h] => ~Is(h, "idle") /\ badEnds[ver[h]] >= FailLimit

WayBack == {"lock", "read", "mark", "markfile", "swap", "close", "forget"}
WayBackIsEarned == \A h \in Hook : pc[h] \in WayBack => badEnds[ver[h]] >= FailLimit

AllEarned == CountIsEarned /\ DueIsEarned /\ WayBackIsEarned /\ RollbackIsEarned

LEMMA CappedIsMonotone ==
  ASSUME NEW m \in Nat, NEW n \in Nat, m <= n
  PROVE  Capped(m) <= Capped(n)
BY UpdateAssumption DEF Capped

\* One more bad end makes up for one more in the count.
LEMMA OneMore ==
  ASSUME NEW n \in Nat, NEW b \in 0..FailLimit, Capped(n) <= b
  PROVE  Capped(n + 1) <= Capped(b + 1)
BY UpdateAssumption DEF Capped

LEMMA SilentIsSmall ==
  ASSUME NEW S \in SUBSET Hook, NEW T \in SUBSET S
  PROVE  Cardinality(T) \in Nat /\ Cardinality(S) \in Nat /\ Cardinality(T) <= Cardinality(S)
<1>1. IsFiniteSet(S) /\ IsFiniteSet(T)
  BY PidsAreFinite
<1> QED
  BY <1>1, FS_Subset, FS_CardinalityType

\* Bad ends are never taken back.
LEMMA BadEndsGrow ==
  ASSUME HistoryTypeOK, NEW v \in Version, UNCHANGED badEnds \/ BadEnd(v)
  PROVE  \A w \in Version : badEnds'[w] >= badEnds[w]
<1> SUFFICES ASSUME NEW w \in Version PROVE badEnds'[w] >= badEnds[w]
  OBVIOUS
<1>1. badEnds[w] \in 0..FailLimit /\ badEnds[v] \in 0..FailLimit
  BY DEF HistoryTypeOK
<1>2. Capped(badEnds[v] + 1) >= badEnds[v]
  BY <1>1, UpdateAssumption DEF Capped
<1>3. badEnds'[w] = badEnds[w] \/ (w = v /\ badEnds'[w] = Capped(badEnds[v] + 1))
  BY DEF HistoryTypeOK, BadEnd
<1> QED
  BY <1>1, <1>2, <1>3, UpdateAssumption

\* The count stays earned when the same hooks are at work.
LEMMA CountStaysEarned ==
  ASSUME Typed, CountIsEarned, UNCHANGED badEnds,
         failures' = failures \/ failures' = NoFailures,
         \A h \in Hook : Is(h, "work") => Is(h, "work")' /\ ver'[h] = ver[h]
  PROVE  CountIsEarned'
<1>1. CASE failures' = NoFailures
  BY <1>1, UpdateAssumption DEF CountIsEarned, NoFailures, Version
<1>2. CASE failures' = failures
  <2>1. failures.pids \in SUBSET Hook /\ failures.count \in Nat
    BY UpdateAssumption DEF Typed, TypeOK, FilesTypeOK
  <2>2. Silent' \subseteq Silent /\ Silent \in SUBSET Hook
    BY <1>2, <2>1 DEF Silent, Is
  <2>3. /\ Cardinality(Silent') \in Nat /\ Cardinality(Silent) \in Nat
        /\ Cardinality(Silent') <= Cardinality(Silent)
    BY <2>2, SilentIsSmall
  <2>4. Capped(failures.count + Cardinality(Silent')) <= Capped(failures.count + Cardinality(Silent))
    BY <2>1, <2>3, CappedIsMonotone
  <2>5. ASSUME failures.version \in Version
        PROVE  Capped(failures.count + Cardinality(Silent')) <= badEnds[failures.version]
    <3>1. /\ Capped(failures.count + Cardinality(Silent')) \in Nat
          /\ Capped(failures.count + Cardinality(Silent)) \in Nat
      BY <2>1, <2>3, CappedIsBounded, UpdateAssumption
    <3>2. badEnds[failures.version] \in Nat
      BY <2>5, UpdateAssumption DEF Typed, TypeOK, HistoryTypeOK
    <3> QED
      BY <2>4, <2>5, <3>1, <3>2 DEF CountIsEarned
  <2> QED
    BY <1>2, <2>5 DEF CountIsEarned
<1> QED
  BY <1>1, <1>2

\* A step in which no hook begins or ends its work disturbs nothing, if a hook
\* enters the way back only from the way back.
LEMMA QuietIsEarned ==
  ASSUME Typed, AllEarned, UNCHANGED badEnds, NEW p \in Process, ~Is(p, "work"),
         failures' = failures \/ failures' = NoFailures,
         \A h \in Hook : h # p => UNCHANGED <<pc[h], ver[h], due[h]>>,
         p \in Hook => /\ pc'[p] \in WayBack => pc[p] \in WayBack /\ ver'[p] = ver[p]
                       /\ due'[p] => due[p] /\ ver'[p] = ver[p] /\ ~Is(p, "idle")'
         ,
         condemned' = condemned
           \/ (p \in Hook /\ pc[p] \in WayBack /\ condemned' = condemned \cup {ver[p]})
  PROVE  AllEarned'
<1>1. CountIsEarned'
  <2>1. \A h \in Hook : Is(h, "work") => Is(h, "work")' /\ ver'[h] = ver[h]
    BY DEF Is
  <2> QED
    BY <2>1, CountStaysEarned DEF AllEarned
<1>2. DueIsEarned'
  BY DEF AllEarned, DueIsEarned, Is
<1>3. WayBackIsEarned'
  BY DEF AllEarned, WayBackIsEarned
<1>4. RollbackIsEarned'
  BY DEF AllEarned, WayBackIsEarned, RollbackIsEarned
<1> QED
  BY <1>1, <1>2, <1>3, <1>4 DEF AllEarned

\* A hook that ends without a word is one more to be found gone, and one more
\* that went wrong.
LEMMA WordlessEndIsEarned ==
  ASSUME Typed, AllEarned, NEW h \in Hook, Is(h, "work"), ~Is(h, "work")', BadEnd(ver[h]),
         failures' = failures \/ failures' = NoFailures,
         \A g \in Hook : g # h => UNCHANGED <<pc[g], ver[g]>>
  PROVE  CountIsEarned'
<1> DEFINE v == failures.version
<1>1. CASE failures' = NoFailures
  BY <1>1, UpdateAssumption DEF CountIsEarned, NoFailures, Version
<1>2. CASE failures' = failures /\ v \in Version
  <2>1. /\ failures.pids \in SUBSET Hook /\ failures.count \in Nat
        /\ badEnds \in [Version -> 0..FailLimit]
    BY UpdateAssumption DEF Typed, TypeOK, FilesTypeOK, HistoryTypeOK
  <2>2. Silent \in SUBSET Hook /\ IsFiniteSet(Silent) /\ Cardinality(Silent) \in Nat
    BY <2>1, PidsAreFinite DEF Silent
  <2>3. Capped(failures.count + Cardinality(Silent)) <= badEnds[v]
    BY <1>2 DEF AllEarned, CountIsEarned
  <2>4. CASE ver[h] = v
    <3>1. Silent' \subseteq Silent \cup {h}
      BY <1>2, <2>1 DEF Silent, Is
    <3>2. Silent \cup {h} \in SUBSET Hook
      BY <2>2
    <3>3. Cardinality(Silent \cup {h}) <= Cardinality(Silent) + 1
      <4>1. Cardinality(Silent \cup {h}) = IF h \in Silent THEN Cardinality(Silent) ELSE Cardinality(Silent) + 1
        BY <2>2, FS_AddElement
      <4> QED
        BY <2>2, <4>1
    <3>4. Cardinality(Silent') \in Nat /\ Cardinality(Silent') <= Cardinality(Silent) + 1
      BY <2>2, <3>1, <3>2, <3>3, SilentIsSmall
    <3>5. Capped(failures.count + Cardinality(Silent'))
            <= Capped((failures.count + Cardinality(Silent)) + 1)
      BY <2>1, <2>2, <3>4, CappedIsMonotone
    <3>6. Capped((failures.count + Cardinality(Silent)) + 1) <= Capped(badEnds[v] + 1)
      BY <1>2, <2>1, <2>2, <2>3, OneMore
    <3>7. badEnds'[v] = Capped(badEnds[v] + 1)
      BY <1>2, <2>1, <2>4 DEF BadEnd
    <3>8. /\ Capped(failures.count + Cardinality(Silent')) \in Nat
          /\ Capped((failures.count + Cardinality(Silent)) + 1) \in Nat
          /\ Capped(badEnds[v] + 1) \in Nat
      BY <1>2, <2>1, <2>2, <3>4, CappedIsBounded, UpdateAssumption
    <3>9. Capped(failures.count + Cardinality(Silent')) <= badEnds'[v]
      BY <3>5, <3>6, <3>7, <3>8
    <3> QED
      BY <1>2, <3>9 DEF CountIsEarned
  <2>5. CASE ver[h] # v
    <3>1. Silent' \subseteq Silent
      BY <1>2, <2>1, <2>5 DEF Silent, Is
    <3>2. Cardinality(Silent') \in Nat /\ Cardinality(Silent') <= Cardinality(Silent)
      BY <2>2, <3>1, SilentIsSmall
    <3>3. Capped(failures.count + Cardinality(Silent')) <= Capped(failures.count + Cardinality(Silent))
      BY <2>1, <2>2, <3>2, CappedIsMonotone
    <3>4. badEnds'[v] = badEnds[v]
      BY <1>2, <2>1, <2>5 DEF BadEnd
    <3>5. /\ Capped(failures.count + Cardinality(Silent')) \in Nat
          /\ Capped(failures.count + Cardinality(Silent)) \in Nat /\ badEnds[v] \in Nat
      BY <1>2, <2>1, <2>2, <3>2, CappedIsBounded, UpdateAssumption
    <3>6. Capped(failures.count + Cardinality(Silent')) <= badEnds'[v]
      BY <2>3, <3>3, <3>4, <3>5
    <3> QED
      BY <1>2, <3>6 DEF CountIsEarned
  <2> QED
    BY <2>4, <2>5
<1>3. CASE failures' = failures /\ v \notin Version
  BY <1>3 DEF CountIsEarned
<1> QED
  BY <1>1, <1>2, <1>3

\* The record a hook writes starts from the count of its own release.
LEMMA OwnRecordIsEarned ==
  ASSUME Typed, AllEarned, NEW v \in Version
  PROVE  LET f == Of(v)
             S == {pid \in f.pids : ~(Is(pid, "work") /\ ver[pid] = v)}
         IN  /\ f.version = v /\ f.count \in Nat /\ f.pids \in SUBSET Hook
             /\ S \in SUBSET Hook /\ IsFiniteSet(S) /\ Cardinality(S) \in Nat
             /\ Capped(f.count + Cardinality(S)) <= badEnds[v]
<1> DEFINE f == Of(v)
           S == {pid \in f.pids : ~(Is(pid, "work") /\ ver[pid] = v)}
<1>1. f.version = v /\ f.count \in Nat /\ f.pids \in SUBSET Hook
  BY UpdateAssumption DEF Of, NoFailures, Typed, TypeOK, FilesTypeOK
<1>2. S \in SUBSET Hook
  BY <1>1
<1>3. IsFiniteSet(S) /\ Cardinality(S) \in Nat
  BY <1>2, PidsAreFinite
<1>4. Capped(f.count + Cardinality(S)) <= badEnds[v]
  <2>1. CASE failures.version = v
    <3>1. f = failures /\ S = Silent
      BY <2>1 DEF Of, Silent
    <3> QED
      BY <2>1, <3>1 DEF AllEarned, CountIsEarned
  <2>2. CASE failures.version # v
    <3>1. f.count = 0 /\ f.pids = {}
      BY <2>2 DEF Of, NoFailures
    <3>2. S = {}
      BY <3>1
    <3>3. Cardinality(S) = 0
      BY <3>2, FS_EmptySet
    <3>4. Capped(0) = 0
      BY UpdateAssumption DEF Capped
    <3>5. badEnds[v] \in 0..FailLimit
      BY DEF Typed, TypeOK, HistoryTypeOK
    <3>6. f.count + Cardinality(S) = 0
      BY <3>1, <3>3
    <3> QED
      BY <3>4, <3>5, <3>6
  <2> QED
    BY <2>1, <2>2
<1> QED
  BY <1>1, <1>2, <1>3, <1>4

LEMMA CappedTwice ==
  ASSUME NEW m \in Nat, NEW n \in Nat
  PROVE  Capped(Capped(m) + n) = Capped(m + n)
BY UpdateAssumption DEF Capped

\* A count at the limit is a limit's worth of bad ends.
LEMMA LimitIsEarned ==
  ASSUME NEW c \in Nat, NEW n \in Nat, NEW b \in 0..FailLimit, c >= FailLimit, Capped(c + n) <= b
  PROVE  b >= FailLimit
BY UpdateAssumption DEF Capped

\* Failures::begin: those found gone move from the list to the count.
LEMMA BeginIsEarned ==
  ASSUME Typed, AllEarned, NEW h \in Hook, Begins(h)
  PROVE  AllEarned'
<1> DEFINE v == ver[h]
           f == Of(v)
           gone == {pid \in f.pids : pid # h /\ ~Alive(pid)}
           S == {pid \in f.pids : ~(Is(pid, "work") /\ ver[pid] = v)}
<1>0. h \in Process /\ v \in Version /\ badEnds[v] \in 0..FailLimit
  BY DEF Begins, Typed, TypeOK, HistoryTypeOK, RunsARelease, Is, Process
<1>1. /\ f.version = v /\ f.count \in Nat /\ f.pids \in SUBSET Hook
      /\ S \in SUBSET Hook /\ IsFiniteSet(S) /\ Cardinality(S) \in Nat
      /\ Capped(f.count + Cardinality(S)) <= badEnds[v]
  BY <1>0, OwnRecordIsEarned
<1>2. gone \subseteq S
  BY DEF Alive, Is
<1>3. IsFiniteSet(gone) /\ Cardinality(gone) \in Nat /\ Cardinality(gone) <= Cardinality(S)
  BY <1>1, <1>2, SilentIsSmall, PidsAreFinite
<1>4. /\ failures'.version = v
      /\ failures'.count = Capped(f.count + Cardinality(gone))
      /\ failures'.pids = (f.pids \ gone) \cup {h}
  <2>1. failures' = [f EXCEPT !.count = Capped(@ + Cardinality(gone)), !.pids = (@ \ gone) \cup {h}]
    BY DEF Begins, Begun
  <2>2. f \in [version : 0..MaxVersion, count : 0..FailLimit, pids : SUBSET Hook]
    BY <1>0, UpdateAssumption DEF Of, NoFailures, Typed, TypeOK, FilesTypeOK, Version
  <2> HIDE DEF f, gone
  <2> QED
    BY <1>1, <2>1, <2>2
<1>5. /\ UNCHANGED <<ver, badEnds, condemned>>
      /\ pc' = [pc EXCEPT ![h] = "work"]
      /\ due' = [due EXCEPT ![h] = failures'.count >= FailLimit]
  BY DEF Begins, Move, ghosts
<1>6. pc = [p \in Process |-> pc[p]] /\ due \in [Hook -> BOOLEAN] /\ Hook \subseteq Process
  BY DEF Typed, TypeOK, ProcessTypeOK, Process
<1>7. Silent' \subseteq S \ gone
  BY <1>0, <1>1, <1>4, <1>5, <1>6 DEF Silent, Is
<1> HIDE DEF S, gone, f, v
<1>8. S \ gone \in SUBSET Hook /\ Cardinality(S \ gone) = Cardinality(S) - Cardinality(gone)
  <2>1. Cardinality(S \ gone) = Cardinality(S) - Cardinality(S \cap gone)
    BY <1>1, FS_Difference
  <2>2. S \cap gone = gone
    BY <1>2
  <2> QED
    BY <1>1, <2>1, <2>2
<1>9. Cardinality(Silent') \in Nat /\ Cardinality(Silent') <= Cardinality(S) - Cardinality(gone)
  BY <1>7, <1>8, SilentIsSmall
<1>10. Capped(failures'.count + Cardinality(Silent')) <= badEnds[v]
  <2>1. Capped(failures'.count + Cardinality(Silent'))
          = Capped((f.count + Cardinality(gone)) + Cardinality(Silent'))
    <3>1. f.count + Cardinality(gone) \in Nat
      BY <1>1, <1>3
    <3> QED
      BY <1>4, <1>9, <3>1, CappedTwice
  <2>2. Capped((f.count + Cardinality(gone)) + Cardinality(Silent')) <= Capped(f.count + Cardinality(S))
    BY <1>1, <1>3, <1>9, CappedIsMonotone
  <2>3. /\ Capped((f.count + Cardinality(gone)) + Cardinality(Silent')) \in Nat
        /\ Capped(f.count + Cardinality(S)) \in Nat
    BY <1>1, <1>3, <1>9, CappedIsBounded, UpdateAssumption
  <2> QED
    BY <1>0, <1>1, <2>1, <2>2, <2>3
<1>11. failures'.count \in Nat
  BY <1>1, <1>3, <1>4, CappedIsBounded, UpdateAssumption
<1>12. failures'.count >= FailLimit => badEnds[v] >= FailLimit
  BY <1>0, <1>9, <1>10, <1>11, LimitIsEarned
<1>13. CountIsEarned'
  BY <1>4, <1>5, <1>10 DEF CountIsEarned
<1>14. DueIsEarned'
  BY <1>5, <1>6, <1>12 DEF AllEarned, DueIsEarned, Is, v
<1>15. WayBackIsEarned'
  BY <1>5, <1>6 DEF AllEarned, WayBackIsEarned, WayBack
<1>16. RollbackIsEarned'
  BY <1>5 DEF AllEarned, RollbackIsEarned
<1> QED
  BY <1>13, <1>14, <1>15, <1>16 DEF AllEarned

\* A hook that goes from its work to the way back was due, or its count is at
\* the limit; one that does not is over.
LEMMA LeavingWorkIsEarned ==
  ASSUME Typed, AllEarned, NEW h \in Hook, Is(h, "work"), UNCHANGED condemned,
         UNCHANGED badEnds \/ BadEnd(ver[h]), CountIsEarned',
         \/ End(h)
         \/ Move(h, "lock") /\ UNCHANGED local /\ (due[h] \/ badEnds'[ver[h]] >= FailLimit)
  PROVE  AllEarned'
<1>0. h \in Process /\ ver[h] \in Version /\ Hook \subseteq Process
  BY DEF Typed, RunsARelease, Is, Process
<1>1. \A v \in Version : badEnds'[v] >= badEnds[v] /\ badEnds'[v] \in Nat /\ badEnds[v] \in Nat
  <2>1. badEnds \in [Version -> 0..FailLimit] /\ badEnds' \in [Version -> 0..FailLimit]
    BY <1>0, BadEndIsTyped DEF Typed, TypeOK, HistoryTypeOK
  <2> QED
    BY <1>0, <2>1, BadEndsGrow, UpdateAssumption DEF Typed, TypeOK
<1>2. pc = [p \in Process |-> pc[p]] /\ ver \in [Process -> 0..MaxVersion] /\ due \in [Hook -> BOOLEAN]
  BY DEF Typed, TypeOK, ProcessTypeOK
<1>3. \A g \in Hook : g # h => UNCHANGED <<pc[g], ver[g], due[g]>>
  BY <1>0, <1>2 DEF End, Move, local
<1>4. \A g \in Hook : ~Is(g, "idle") => ver[g] \in Version
  BY <1>0 DEF Typed, RunsARelease
<1>5. CASE End(h)
  <2>1. pc'[h] = "idle" /\ due'[h] = FALSE
    BY <1>0, <1>2, <1>5 DEF End, Move
  <2>2. DueIsEarned'
    BY <1>1, <1>3, <1>4, <2>1, UpdateAssumption DEF AllEarned, DueIsEarned, Is
  <2>3. WayBackIsEarned'
    BY <1>1, <1>3, <1>4, <2>1, UpdateAssumption DEF AllEarned, WayBackIsEarned, WayBack, Is
  <2> QED
    BY <1>1, <2>2, <2>3, UpdateAssumption DEF AllEarned, RollbackIsEarned, Typed, TypeOK, HistoryTypeOK
<1>6. CASE Move(h, "lock") /\ UNCHANGED local /\ (due[h] \/ badEnds'[ver[h]] >= FailLimit)
  <2>1. pc'[h] = "lock" /\ ver'[h] = ver[h] /\ due'[h] = due[h]
    BY <1>0, <1>2, <1>6 DEF Move, local
  <2>2. badEnds'[ver[h]] >= FailLimit
    BY <1>0, <1>1, <1>6, UpdateAssumption DEF AllEarned, DueIsEarned
  <2>3. DueIsEarned'
    BY <1>1, <1>3, <1>4, <2>1, <2>2, UpdateAssumption DEF AllEarned, DueIsEarned, Is
  <2>4. WayBackIsEarned'
    BY <1>1, <1>3, <1>4, <2>1, <2>2, UpdateAssumption DEF AllEarned, WayBackIsEarned, WayBack, Is
  <2> QED
    BY <1>1, <2>3, <2>4, UpdateAssumption DEF AllEarned, RollbackIsEarned, Typed, TypeOK, HistoryTypeOK
<1> QED
  BY <1>5, <1>6

\* Failures::end: one less in the list, and one more in the count if it failed.
LEMMA EndIsEarned ==
  ASSUME Typed, AllEarned, NEW h \in Hook, Ends(h)
  PROVE  AllEarned'
<1> DEFINE v == ver[h]
           f == Of(v)
           S == {pid \in f.pids : ~(Is(pid, "work") /\ ver[pid] = v)}
<1>0. h \in Process /\ v \in Version /\ badEnds[v] \in 0..FailLimit
  BY DEF Ends, Typed, TypeOK, HistoryTypeOK, RunsARelease, Is, Process
<1>1. /\ f.version = v /\ f.count \in Nat /\ f.pids \in SUBSET Hook
      /\ S \in SUBSET Hook /\ IsFiniteSet(S) /\ Cardinality(S) \in Nat
      /\ Capped(f.count + Cardinality(S)) <= badEnds[v]
  BY <1>0, OwnRecordIsEarned
<1>2. PICK ok \in BOOLEAN :
        /\ failures' = Ended(h, ok)
        /\ IF ok THEN UNCHANGED badEnds ELSE BadEnd(v)
  BY DEF Ends
<1>3. /\ failures'.version = v
      /\ failures'.count = IF ok THEN 0 ELSE Capped(f.count + 1)
      /\ failures'.pids = f.pids \ {h}
  <2>1. failures' = [f EXCEPT !.count = IF ok THEN 0 ELSE Capped(@ + 1), !.pids = @ \ {h}]
    BY <1>2 DEF Ended
  <2>2. f \in [version : 0..MaxVersion, count : 0..FailLimit, pids : SUBSET Hook]
    BY <1>0, UpdateAssumption DEF Of, NoFailures, Typed, TypeOK, FilesTypeOK, Version
  <2> HIDE DEF f
  <2> QED
    BY <1>1, <2>1, <2>2
<1>4. /\ \/ Move(h, "lock") /\ UNCHANGED local /\ (due[h] \/ failures'.count >= FailLimit)
         \/ End(h)
      /\ UNCHANGED condemned
  BY DEF Ends
<1>5. pc = [p \in Process |-> pc[p]] /\ ver = [p \in Process |-> ver[p]] /\ Hook \subseteq Process
  BY DEF Typed, TypeOK, ProcessTypeOK, Process
<1>6. \A g \in Hook : g # h => UNCHANGED <<pc[g], ver[g]>>
  BY <1>0, <1>4, <1>5 DEF End, Move, local
<1>7. Silent' \subseteq S
  BY <1>1, <1>3, <1>6 DEF Silent, Is
<1>8. badEnds'[v] = IF ok THEN badEnds[v] ELSE Capped(badEnds[v] + 1)
  BY <1>0, <1>2 DEF BadEnd, Typed, TypeOK, HistoryTypeOK
<1>w. Is(h, "work")
  BY DEF Ends
<1> HIDE DEF S, f, v
<1>9. Cardinality(Silent') \in Nat /\ Cardinality(Silent') <= Cardinality(S)
  BY <1>1, <1>7, SilentIsSmall
<1>10. failures'.count \in Nat /\ badEnds'[v] \in 0..FailLimit
  <2>1. Capped(f.count + 1) \in 0..FailLimit /\ Capped(badEnds[v] + 1) \in 0..FailLimit
    BY <1>0, <1>1, CappedIsBounded, UpdateAssumption
  <2> QED
    BY <1>0, <1>3, <1>8, <2>1
<1>11. Capped(failures'.count + Cardinality(Silent')) <= badEnds'[v]
  <2>1. CASE ok
    <3>1. failures'.count + Cardinality(Silent') = Cardinality(Silent')
      BY <1>3, <1>9, <2>1
    <3>2. Capped(Cardinality(Silent')) <= Capped(f.count + Cardinality(S))
      BY <1>1, <1>9, CappedIsMonotone
    <3>3. Capped(Cardinality(Silent')) \in Nat /\ Capped(f.count + Cardinality(S)) \in Nat
      BY <1>1, <1>9, CappedIsBounded, UpdateAssumption
    <3> QED
      BY <1>0, <1>1, <1>8, <2>1, <3>1, <3>2, <3>3
  <2>2. CASE ~ok
    <3> DEFINE n == f.count + Cardinality(S)
               m == (f.count + 1) + Cardinality(Silent')
    <3>1. n \in Nat /\ m \in Nat /\ f.count + 1 \in Nat /\ n + 1 \in Nat /\ m <= n + 1
      BY <1>1, <1>9
    <3>2. Capped(failures'.count + Cardinality(Silent')) = Capped(m)
      BY <1>3, <1>9, <2>2, <3>1, CappedTwice
    <3>3. Capped(n) <= badEnds[v]
      BY <1>1
    <3> HIDE DEF n, m
    <3>4. Capped(m) <= Capped(n + 1)
      BY <3>1, CappedIsMonotone
    <3>5. Capped(n + 1) <= Capped(badEnds[v] + 1)
      BY <1>0, <3>1, <3>3, OneMore
    <3>6. Capped(m) \in Nat /\ Capped(n + 1) \in Nat /\ Capped(badEnds[v] + 1) \in Nat
      BY <1>0, <3>1, CappedIsBounded, UpdateAssumption
    <3> QED
      BY <1>8, <2>2, <3>2, <3>4, <3>5, <3>6
  <2> QED
    BY <2>1, <2>2
<1>12. failures'.count >= FailLimit => badEnds'[v] >= FailLimit
  BY <1>9, <1>10, <1>11, LimitIsEarned
<1>13. CountIsEarned'
  BY <1>3, <1>11 DEF CountIsEarned
<1>14. UNCHANGED badEnds \/ BadEnd(v)
  BY <1>2
<1> QED
  BY <1>w, <1>4, <1>12, <1>13, <1>14, LeavingWorkIsEarned DEF v

\* A hook whose end goes unrecorded, or that is killed at work.
LEMMA WordlessStepIsEarned ==
  ASSUME Typed, AllEarned, NEW h \in Hook, CannotEnd(h) \/ (Killed(h) /\ Is(h, "work"))
  PROVE  AllEarned'
<1>0. h \in Process /\ Hook \subseteq Process
  BY DEF Process
<1>1. /\ Is(h, "work") /\ BadEnd(ver[h]) /\ UNCHANGED condemned
      /\ failures' = failures \/ failures' = NoFailures
      /\ \/ End(h)
         \/ Move(h, "lock") /\ UNCHANGED local /\ due[h]
  BY DEF CannotEnd, Killed
<1>2. pc = [p \in Process |-> pc[p]] /\ ver = [p \in Process |-> ver[p]]
  BY DEF Typed, TypeOK, ProcessTypeOK
<1>3. ~Is(h, "work")' /\ \A g \in Hook : g # h => UNCHANGED <<pc[g], ver[g]>>
  BY <1>0, <1>1, <1>2 DEF End, Move, local, Is
<1>4. CountIsEarned'
  BY <1>1, <1>3, WordlessEndIsEarned
<1> QED
  BY <1>1, <1>4, LeavingWorkIsEarned

\* Every other step leaves the work of hooks alone.
LEMMA OtherStepIsEarned ==
  ASSUME Typed, AllEarned, NEW p \in Process, ~Is(p, "work"),
         \/ p \in Updater /\ (Launches(p) \/ UpdaterStep(p) \/ PlaceFails(p))
         \/ p \in Hook /\ (HookStep(p) \/ CannotBegin(p) \/ SwapFails(p)) /\ ~Begins(p)
         \/ Killed(p)
  PROVE  AllEarned'
<1> USE DEF ghosts, local, Is
<1>0. Hook \subseteq Process /\ Hook \cap Updater = {}
  BY UpdateAssumption DEF Process
<1>1. /\ pc = [q \in Process |-> pc[q]] /\ ver = [q \in Process |-> ver[q]]
      /\ due = [q \in Hook |-> due[q]]
  BY DEF Typed, TypeOK, ProcessTypeOK
<1>2. CASE Killed(p)
  <2>1. UNCHANGED <<badEnds, condemned>> /\ failures' \in {failures, NoFailures} /\ End(p)
    BY <1>2 DEF Killed
  <2>2. \A h \in Hook : h # p => UNCHANGED <<pc[h], ver[h], due[h]>>
    BY <1>0, <1>1, <2>1 DEF End, Move
  <2>3. p \in Hook => pc'[p] = "idle" /\ due'[p] = FALSE
    BY <1>0, <1>1, <2>1 DEF End, Move
  <2> QED
    BY <2>1, <2>2, <2>3, QuietIsEarned DEF WayBack
<1>3. CASE p \in Updater /\ (Launches(p) \/ UpdaterStep(p) \/ PlaceFails(p))
  <2>1. UNCHANGED <<badEnds, condemned, failures>>
    BY <1>3
    DEF Launches, UpdaterStep, PlaceFails, TakesLock, TurnedAway, Decides, StaysPut, MarksInStore,
        MarksInFile, Records, RecordsPrev, Keeps, Places
  <2>2. \/ End(p)
        \/ \E to : Move(p, to) /\ UNCHANGED due /\ \A h \in Hook : UNCHANGED ver[h]
    BY <1>0, <1>1, <1>3
    DEF Launches, UpdaterStep, PlaceFails, TakesLock, TurnedAway, Decides, StaysPut, MarksInStore,
        MarksInFile, Records, RecordsPrev, Keeps, Places
  <2>3. \A h \in Hook : h # p => UNCHANGED <<pc[h], ver[h], due[h]>>
    BY <1>0, <1>1, <1>3, <2>2 DEF End, Move
  <2> QED
    BY <1>0, <1>3, <2>1, <2>3, QuietIsEarned
<1>4. CASE p \in Hook /\ (HookStep(p) \/ CannotBegin(p) \/ SwapFails(p)) /\ ~Begins(p)
  <2> USE <1>4
  <2>1. CASE Execs(p) \/ Looks(p)
    <3>1. UNCHANGED <<badEnds, condemned, failures, due>>
      BY <2>1 DEF Execs, Looks
    <3>2. \A h \in Hook : h # p => UNCHANGED <<pc[h], ver[h], due[h]>>
      BY <1>0, <1>1, <2>1, <3>1 DEF Execs, Looks, Move
    <3>3. pc'[p] \in {"look", "begin"} /\ (due'[p] => due[p] /\ ver'[p] = ver[p])
      BY <1>0, <1>1, <2>1, <3>1 DEF Execs, Looks, Move, AllEarned, DueIsEarned
    <3> QED
      BY <3>1, <3>2, <3>3, QuietIsEarned DEF WayBack
  <2>2. CASE LooksAway(p) \/ TurnedAway(p) \/ CannotBegin(p) \/ Forgets(p)
    <3>1. UNCHANGED <<badEnds, condemned>> /\ failures' \in {failures, NoFailures} /\ End(p)
      BY <2>2 DEF LooksAway, TurnedAway, CannotBegin, Forgets
    <3>2. \A h \in Hook : h # p => UNCHANGED <<pc[h], ver[h], due[h]>>
      BY <1>0, <1>1, <3>1 DEF End, Move
    <3>3. pc'[p] = "idle" /\ due'[p] = FALSE
      BY <1>0, <1>1, <3>1 DEF End, Move
    <3> QED
      BY <3>1, <3>2, <3>3, QuietIsEarned DEF WayBack
  <2>3. CASE TakesLock(p) \/ ChecksPrev(p) \/ LeavesIt(p) \/ MarksInStore(p) \/ MarksInFile(p)
             \/ Swaps(p) \/ SwapFails(p) \/ Closes(p)
    <3>1. /\ UNCHANGED <<badEnds, failures, due, ver>> /\ pc[p] \in WayBack
          /\ condemned' = condemned \/ condemned' = condemned \cup {ver[p]}
      BY <2>3
      DEF TakesLock, ChecksPrev, LeavesIt, MarksInStore, MarksInFile, Swaps, SwapFails, Closes, WayBack
    <3>2. \E to \in WayBack : Move(p, to)
      BY <1>0, <2>3
      DEF TakesLock, ChecksPrev, LeavesIt, MarksInStore, MarksInFile, Swaps, SwapFails, Closes, WayBack
    <3>3. pc'[p] \in WayBack /\ \A h \in Hook : h # p => UNCHANGED <<pc[h], ver[h], due[h]>>
      BY <1>0, <1>1, <3>1, <3>2 DEF Move
    <3> QED
      BY <3>1, <3>3, QuietIsEarned DEF WayBack
  <2>4. ~Ends(p)
    BY DEF Ends
  <2> QED
    BY <2>1, <2>2, <2>3, <2>4 DEF HookStep
<1> QED
  BY <1>2, <1>3, <1>4

\* An updater has no hook's work to do.
OnlyHooksWork == \A u \in Updater : ~Is(u, "work")

LEMMA OnlyHooksWorkStep == Typed /\ OnlyHooksWork /\ [Next]_vars => OnlyHooksWork'
<1> SUFFICES ASSUME Typed, OnlyHooksWork, [Next]_vars, NEW u \in Updater PROVE ~Is(u, "work")'
  BY DEF OnlyHooksWork
<1> USE DEF Is, Move
<1>0. u \in Process /\ u \notin Hook /\ pc = [p \in Process |-> pc[p]] /\ pc[u] # "work"
  BY UpdateAssumption DEF Process, OnlyHooksWork, Typed, TypeOK, ProcessTypeOK
<1>1. CASE \E v \in Updater : Launches(v) \/ UpdaterStep(v) \/ PlaceFails(v)
  <2>1. PICK v \in Updater : Launches(v) \/ UpdaterStep(v) \/ PlaceFails(v)
    BY <1>1
  <2>2. End(v) \/ \E to : to # "work" /\ Move(v, to)
    BY <2>1, UpdateAssumption
    DEF Launches, UpdaterStep, PlaceFails, TakesLock, TurnedAway, Decides, StaysPut, MarksInStore,
        MarksInFile, Records, RecordsPrev, Keeps, Places
  <2> QED
    BY <1>0, <2>2 DEF End
<1>2. CASE \E h \in Hook : HookStep(h) \/ CannotBegin(h) \/ CannotEnd(h) \/ SwapFails(h)
  <2>1. PICK h \in Hook : End(h) \/ \E to : Move(h, to)
    BY <1>2
    DEF HookStep, CannotBegin, CannotEnd, SwapFails, Execs, Looks, LooksAway, Begins, Ends, TakesLock,
        TurnedAway, ChecksPrev, LeavesIt, MarksInStore, MarksInFile, Swaps, Closes, Forgets
  <2> QED
    BY <1>0, <2>1 DEF End
<1>3. CASE \E p \in Process : Killed(p)
  BY <1>0, <1>3 DEF Killed, End
<1>4. CASE GrowsOld \/ Publishes \/ UNCHANGED vars
  BY <1>0, <1>4 DEF GrowsOld, Publishes, vars
<1> QED
  BY <1>1, <1>2, <1>3, <1>4 DEF Next

LEMMA EarnedInit == Init => AllEarned
<1> SUFFICES ASSUME Init PROVE AllEarned
  OBVIOUS
<1>1. CountIsEarned
  BY UpdateAssumption DEF Init, CountIsEarned, NoFailures, Version
<1>2. DueIsEarned /\ WayBackIsEarned /\ RollbackIsEarned
  BY DEF Init, DueIsEarned, WayBackIsEarned, WayBack, RollbackIsEarned, Process
<1> QED
  BY <1>1, <1>2 DEF AllEarned

LEMMA EarnedStep == Typed /\ OnlyHooksWork /\ AllEarned /\ [Next]_vars => AllEarned'
<1> SUFFICES ASSUME Typed, OnlyHooksWork, AllEarned, [Next]_vars PROVE AllEarned'
  OBVIOUS
<1>1. CASE \E u \in Updater : Launches(u) \/ UpdaterStep(u) \/ PlaceFails(u)
  <2>1. PICK u \in Updater : Launches(u) \/ UpdaterStep(u) \/ PlaceFails(u)
    BY <1>1
  <2>2. u \in Process /\ ~Is(u, "work")
    BY <2>1
    DEF Process, Is, Launches, UpdaterStep, PlaceFails, TakesLock, TurnedAway, Decides, StaysPut,
        MarksInStore, MarksInFile, Records, RecordsPrev, Keeps, Places
  <2> QED
    BY <2>1, <2>2, OtherStepIsEarned
<1>2. CASE \E h \in Hook : HookStep(h) \/ CannotBegin(h) \/ CannotEnd(h) \/ SwapFails(h)
  <2>1. PICK h \in Hook : HookStep(h) \/ CannotBegin(h) \/ CannotEnd(h) \/ SwapFails(h)
    BY <1>2
  <2>2. CASE Begins(h)
    BY <2>2, BeginIsEarned
  <2>3. CASE Ends(h)
    BY <2>3, EndIsEarned
  <2>4. CASE CannotEnd(h)
    BY <2>4, WordlessStepIsEarned
  <2>5. CASE ~Begins(h) /\ ~Ends(h) /\ ~CannotEnd(h)
    <3>1. h \in Process /\ ~Is(h, "work")
      BY <2>1, <2>5
      DEF Process, Is, HookStep, CannotBegin, SwapFails, Execs, Looks, LooksAway, TakesLock, TurnedAway,
          ChecksPrev, LeavesIt, MarksInStore, MarksInFile, Swaps, Closes, Forgets
    <3> QED
      BY <2>1, <2>5, <3>1, OtherStepIsEarned
  <2> QED
    BY <2>2, <2>3, <2>4, <2>5
<1>3. CASE \E p \in Process : Killed(p)
  <2>1. PICK p \in Process : Killed(p)
    BY <1>3
  <2>2. CASE ~Is(p, "work")
    BY <2>1, <2>2, OtherStepIsEarned
  <2>3. CASE Is(p, "work") /\ p \in Hook
    BY <2>1, <2>3, WordlessStepIsEarned
  <2>4. Is(p, "work") => p \in Hook
    BY DEF OnlyHooksWork, Process
  <2> QED
    BY <2>2, <2>3, <2>4
<1>4. CASE GrowsOld \/ Publishes \/ UNCHANGED vars
  <2>1. UNCHANGED <<failures, badEnds, condemned, pc, ver, due>>
    BY <1>4 DEF GrowsOld, Publishes, vars, local, ghosts
  <2>2. CountIsEarned'
    BY <2>1, CountStaysEarned DEF AllEarned, Is
  <2> QED
    BY <2>1, <2>2 DEF AllEarned, DueIsEarned, WayBackIsEarned, RollbackIsEarned, Is
<1> QED
  BY <1>1, <1>2, <1>3, <1>4 DEF Next

\* Nothing is rolled back before FAIL_LIMIT of its hooks failed, died or ended
\* without a word (rollback, HookGuard::end): no live hook is ever counted, and
\* no death twice, whatever is killed, cut short or refused meanwhile.
THEOREM RollbackHadItComing == Spec => []RollbackIsEarned
<1>1. Init => OnlyHooksWork /\ AllEarned
  BY EarnedInit DEF Init, OnlyHooksWork, Is, Process
<1>2. Typed /\ OnlyHooksWork /\ AllEarned /\ [Next]_vars => (OnlyHooksWork /\ AllEarned)'
  BY OnlyHooksWorkStep, EarnedStep
<1>3. AllEarned => RollbackIsEarned
  BY DEF AllEarned
<1> QED
  BY <1>1, <1>2, <1>3, AlwaysTyped, PTL DEF Spec

(***************************************************************************)
(* What was rolled back stays away                                         *)
(***************************************************************************)
\* Where a process has update.lock; where an updater has a release to place;
\* where a process has one to mark.
Locked == {"decide", "record", "recordprev", "keep", "place", "mark", "markfile", "done", "read", "swap",
           "close", "forget"}
Installing == {"record", "recordprev", "keep", "place"}
Marking    == {"mark", "markfile"}

\* No version is known that is not published; what a fresh record says was
\* replaced is older than what it says is installed; brain.prev is what is at
\* the path, or what that replaced.
FilesAgree ==
  /\ bin <= latest /\ prevBin <= bin /\ installed.version <= latest /\ prevFile < latest
  /\ \A v \in condemned : v <= latest
  /\ installed.recent => prevFile < installed.version
  /\ prevBin \in {0, bin, came[bin]}

\* Neither binary was rolled back; the list knows the release that could come
\* again, and a fresh record can be of that one only; an older record of what
\* was rolled back is of the last time.
FilesAreGood ==
  /\ bin \notin condemned /\ prevBin \notin condemned
  /\ latest \in condemned => latest \in badFile /\ (installed.recent => installed.version = latest)
  /\ installed.version \in condemned => bin = prevBin

\* An updater has a newer release than its own, than what is at the path, and
\* than what the last record says was replaced; its record names it.
Newer(u) ==
  /\ pc[u] \in Installing \cup Marking => cand[u] <= latest
  /\ pc[u] \in Installing => ver[u] < cand[u] /\ bin <= cand[u] /\ prevFile < cand[u]
  /\ pc[u] \in Installing \ {"record"} => installed.version = cand[u]
  /\ pc[u] = "place" => prevBin = bin

\* A hook that rolls back has found the record of its release, and brain.prev
\* as the record has it; its release is on the list before the swap.
GoesBack(h) ==
  /\ pc[h] \in Marking \cup {"swap"} =>
       installed.version = ver[h] /\ prevFile # 0 /\ prevBin = prevFile /\ prevFile < ver[h]
  /\ pc[h] = "close" => prevFile = prevBin
  /\ pc[h] = "swap" => ver[h] \in badFile

\* Nobody installs what was rolled back; only the latest is rolled back twice;
\* a hook is of what is at the path, of one that was rolled back, or of one not
\* newer than brain.prev.
UpdaterIsGood(u) ==
  pc[u] \in Installing \cup Marking => latest \notin condemned /\ cand[u] \notin condemned
HookIsGood(h) ==
  /\ latest \in condemned /\ pc[h] \in Marking \cup {"swap"} => ver[h] = latest
  /\ ver[h] \in condemned \cup {bin} \/ ver[h] <= prevBin

Behaves(p) ==
  /\ pc[p] \in Locked => lock = p
  /\ ver[p] <= latest
  /\ p \in Updater => Newer(p) /\ (cut \/ UpdaterIsGood(p))
  /\ p \in Hook => GoesBack(p) /\ (cut \/ HookIsGood(p))

StayInv == FilesAgree /\ (cut \/ FilesAreGood) /\ \A p \in Process : Behaves(p)

LEMMA StayInit == Init => StayInv
<1> SUFFICES ASSUME Init PROVE StayInv
  OBVIOUS
<1>1. FilesAgree
  BY DEF Init, FilesAgree, NoRecord
<1>2. FilesAreGood
  BY DEF Init, FilesAreGood
<1>3. ASSUME NEW p \in Process PROVE Behaves(p)
  <2>1. pc[p] = "idle" /\ ver[p] = 0 /\ latest = 1 /\ prevBin = 0
    BY DEF Init
  <2>2. Newer(p) /\ UpdaterIsGood(p) /\ GoesBack(p) /\ HookIsGood(p)
    BY <2>1 DEF Newer, UpdaterIsGood, GoesBack, HookIsGood, Installing, Marking
  <2> QED
    BY <2>1, <2>2 DEF Behaves, Locked
<1> QED
  BY <1>1, <1>2, <1>3 DEF StayInv

\* Whoever is under the lock is alone there.
LEMMA AloneUnderTheLock ==
  ASSUME StayInv, NEW p \in Process, pc[p] \in Locked
  PROVE  lock = p /\ \A q \in Process : q # p => pc[q] \notin Locked
BY DEF StayInv, Behaves

SharedVars == <<bin, prevBin, prevFile, installed, badFile, latest, came, condemned, cut>>

\* p has moved; nobody else has, and nobody else has lost the lock.
Alone(p) ==
  \A q \in Process : q # p => /\ UNCHANGED <<pc[q], ver[q]>>
                              /\ q \in Updater => UNCHANGED cand[q]
                              /\ lock = q => lock' = q

\* What a step that touches no file still has to show.
LEMMA QuietStep ==
  ASSUME StayInv, NEW p \in Process, UNCHANGED SharedVars, Alone(p), Behaves(p)'
  PROVE  StayInv'
<1>1. FilesAgree' /\ (cut \/ FilesAreGood)'
  BY DEF StayInv, SharedVars, FilesAgree, FilesAreGood
<1>2. ASSUME NEW q \in Process, q # p PROVE Behaves(q)'
  <2>1. /\ UNCHANGED <<pc[q], ver[q]>> /\ (q \in Updater => UNCHANGED cand[q]) /\ (lock = q => lock' = q)
        /\ UNCHANGED SharedVars /\ Behaves(q)
    BY <1>2 DEF Alone, StayInv
  <2>2. q \in Updater => (Newer(q) => Newer(q)') /\ (UpdaterIsGood(q) => UpdaterIsGood(q)')
    BY <2>1 DEF Newer, UpdaterIsGood, SharedVars
  <2>3. (GoesBack(q) => GoesBack(q)') /\ (HookIsGood(q) => HookIsGood(q)')
    BY <2>1 DEF GoesBack, HookIsGood, SharedVars
  <2>4. (pc[q] \in Locked => lock = q)' /\ (ver[q] <= latest)' /\ (cut' <=> cut)
    BY <2>1 DEF Behaves, SharedVars
  <2> QED
    BY <2>1, <2>2, <2>3, <2>4 DEF Behaves
<1> QED
  BY <1>1, <1>2 DEF StayInv

\* What a step still has to show that a process takes under the lock.
LEMMA LockedStep ==
  ASSUME StayInv, NEW p \in Process, pc[p] \in Locked, Alone(p), UNCHANGED latest, Behaves(p)',
         FilesAgree', (cut \/ FilesAreGood)',
         \A h \in Hook : h # p /\ ~cut' => ~cut /\ (HookIsGood(h) => (ver[h] \in condemned \cup {bin} \/ ver[h] <= prevBin)')
  PROVE  StayInv'
<1>1. ASSUME NEW q \in Process, q # p PROVE Behaves(q)'
  <2>1. pc[q] \notin Locked /\ UNCHANGED <<pc[q], ver[q]>> /\ UNCHANGED latest /\ Behaves(q)
    BY <1>1, AloneUnderTheLock DEF Alone, StayInv
  <2>2. pc'[q] \notin Locked /\ (ver[q] <= latest)'
    BY <2>1 DEF Behaves
  <2>3. Newer(q)' /\ UpdaterIsGood(q)' /\ GoesBack(q)'
    BY <2>2 DEF Newer, UpdaterIsGood, GoesBack, Locked, Installing, Marking
  <2>4. q \in Hook /\ ~cut' => HookIsGood(q)'
    BY <1>1, <2>1, <2>2 DEF HookIsGood, Behaves, Locked, Marking
  <2> QED
    BY <2>2, <2>3, <2>4 DEF Behaves
<1> QED
  BY <1>1 DEF StayInv

\* A process that ends behaves.
LEMMA EndsAlone ==
  ASSUME Typed, NEW p \in Process, End(p), UNCHANGED <<latest, prevBin>>
  PROVE  Alone(p) /\ Behaves(p)'
<1>1. pc'[p] = "idle" /\ ver'[p] = 0
  BY DEF End, Move, Typed, TypeOK, ProcessTypeOK
<1>2. \A q \in Process : q # p => UNCHANGED <<pc[q], ver[q]>> /\ (q \in Updater => UNCHANGED cand[q])
  BY DEF End, Move, Typed, TypeOK, ProcessTypeOK, Process
<1>3. \A q \in Process : q # p => (lock = q => lock' = q)
  BY DEF End
<1>4. (ver[p] <= latest)' /\ (ver[p] <= prevBin)'
  BY <1>1 DEF Typed, TypeOK, FilesTypeOK, Version
<1>5. Newer(p)' /\ UpdaterIsGood(p)' /\ GoesBack(p)' /\ HookIsGood(p)'
  BY <1>1, <1>4 DEF Newer, UpdaterIsGood, GoesBack, HookIsGood, Installing, Marking
<1> QED
  BY <1>1, <1>2, <1>3, <1>4, <1>5 DEF Alone, Behaves, Locked

LEMMA MovesAlone ==
  ASSUME Typed, NEW p \in Process, NEW to, Move(p, to),
         \A q \in Process : q # p => UNCHANGED ver[q] /\ (q \in Updater => UNCHANGED cand[q]),
         lock' = lock \/ (lock = Free /\ lock' = p)
  PROVE  Alone(p) /\ pc'[p] = to
<1>1. pc'[p] = to /\ \A q \in Process : q # p => UNCHANGED pc[q]
  BY DEF Move, Typed, TypeOK, ProcessTypeOK
<1>2. \A q \in Process : q # p => (lock = q => lock' = q)
  BY UpdateAssumption
<1> QED
  BY <1>1, <1>2 DEF Alone

LEMMA EndIsQuiet ==
  ASSUME Typed, StayInv, NEW p \in Process, End(p), UNCHANGED SharedVars
  PROVE  StayInv'
BY EndsAlone, QuietStep DEF SharedVars

\* mark_bad: once the file is written, the list has the version, and all it had.
LEMMA MarkStays ==
  ASSUME Typed, StayInv, NEW p \in Process, MarksInStore(p) \/ MarksInFile(p)
  PROVE  StayInv'
<1> DEFINE to == IF Is(p, "mark") THEN "markfile" ELSE IF p \in Hook THEN "swap" ELSE "done"
<1>1. /\ pc[p] \in Marking /\ Move(p, to)
      /\ UNCHANGED <<bin, prevBin, prevFile, installed, latest, lock, came, condemned, cut, ver, cand>>
      /\ badFile' = badFile \/ badFile' = BadList \cup {Marked(p)}
      /\ Is(p, "markfile") => badFile' = BadList \cup {Marked(p)}
  BY DEF MarksInStore, MarksInFile, Marking, Is, local, ghosts
<1>2. badFile \subseteq badFile' /\ (p \in Hook /\ Is(p, "markfile") => ver[p] \in badFile')
  BY <1>1, UpdateAssumption DEF BadList, Marked
<1>3. Alone(p) /\ pc'[p] = to
  BY <1>1, MovesAlone
<1>4. Behaves(p)
  BY DEF StayInv
<1>5. (pc[p] \in Locked => lock = p)' /\ (ver[p] <= latest)'
  BY <1>1, <1>4 DEF Behaves, Marking, Locked
<1>6. ASSUME p \in Updater PROVE Newer(p)' /\ (cut \/ UpdaterIsGood(p))'
  <2>1. pc'[p] \in {"markfile", "done"} /\ Newer(p) /\ (cut \/ UpdaterIsGood(p))
    BY <1>3, <1>4, <1>6, UpdateAssumption DEF Behaves
  <2> QED
    BY <1>1, <2>1 DEF Newer, UpdaterIsGood, Installing, Marking
<1>7. ASSUME p \in Hook PROVE GoesBack(p)' /\ (cut \/ HookIsGood(p))'
  <2>1. GoesBack(p) /\ (cut \/ HookIsGood(p)) /\ pc'[p] \in {"markfile", "swap"}
    BY <1>3, <1>4, <1>7 DEF Behaves
  <2>2. pc'[p] = "swap" => ver[p] \in badFile'
    BY <1>1, <1>2, <1>3, <1>7 DEF Is, Marking
  <2>3. GoesBack(p)'
    BY <1>1, <2>1, <2>2 DEF GoesBack, Marking
  <2>4. (cut \/ HookIsGood(p))'
    BY <1>1, <2>1 DEF HookIsGood, Marking
  <2> QED
    BY <2>3, <2>4
<1>8. Behaves(p)'
  BY <1>5, <1>6, <1>7 DEF Behaves
<1>9. FilesAgree' /\ (cut \/ FilesAreGood)'
  BY <1>1, <1>2 DEF StayInv, FilesAgree, FilesAreGood
<1> QED
  BY <1>1, <1>3, <1>8, <1>9, LockedStep DEF HookIsGood, Locked, Marking

LEMMA UpdaterStays ==
  ASSUME Typed, StayInv, NEW u \in Updater, Launches(u) \/ UpdaterStep(u) \/ PlaceFails(u)
  PROVE  StayInv'
<1>0. u \in Process /\ u \notin Hook /\ Behaves(u) /\ Newer(u) /\ (cut \/ UpdaterIsGood(u))
  BY UpdateAssumption DEF Process, StayInv, Behaves
<1>1. FilesAgree /\ (cut \/ FilesAreGood) /\ Hook \subseteq Process
  BY DEF StayInv, Process
<1>2. /\ bin \in Nat /\ prevBin \in Nat /\ latest \in Nat /\ prevFile \in Nat
      /\ installed.version \in Nat /\ cand[u] \in Nat /\ ver[u] \in Nat
  BY <1>0 DEF Typed, TypeOK, FilesTypeOK, ProcessTypeOK, Version
<1> USE UpdateAssumption DEF Is
<1>3. CASE TurnedAway(u) \/ StaysPut(u)
  BY <1>0, <1>3, EndIsQuiet DEF TurnedAway, StaysPut, SharedVars, fileVars, ghosts
<1>4. CASE MarksInStore(u) \/ MarksInFile(u)
  BY <1>0, <1>4, MarkStays
<1>5. CASE Launches(u) \/ TakesLock(u) \/ PlaceFails(u)
  <2>1. UNCHANGED SharedVars /\ UNCHANGED cand
    BY <1>5 DEF Launches, TakesLock, PlaceFails, SharedVars, fileVars, ghosts, local
  <2>2. \E to \in {"lock", "decide", "done"} :
          /\ Move(u, to) /\ (to # "lock" => lock' = u)
          /\ lock' = lock \/ (lock = Free /\ lock' = u)
    BY <1>0, <1>5 DEF Launches, TakesLock, PlaceFails, Behaves, Locked
  <2>3. ver'[u] \in {ver[u], bin} /\ \A q \in Process : q # u => UNCHANGED ver[q]
    BY <1>0, <1>5 DEF Launches, TakesLock, PlaceFails, local, Typed, TypeOK, ProcessTypeOK
  <2>4. Alone(u) /\ pc'[u] \in {"lock", "decide", "done"} /\ (pc'[u] # "lock" => lock' = u)
    BY <1>0, <2>1, <2>2, <2>3, MovesAlone
  <2>5. (ver[u] <= latest)'
    BY <1>0, <1>1, <2>1, <2>3 DEF SharedVars, Behaves, FilesAgree
  <2>6. Newer(u)' /\ UpdaterIsGood(u)'
    BY <2>4 DEF Newer, UpdaterIsGood, Installing, Marking
  <2>7. Behaves(u)'
    BY <1>0, <2>4, <2>5, <2>6 DEF Behaves, Locked
  <2> QED
    BY <1>0, <2>1, <2>4, <2>7, QuietStep
<1>6. CASE Decides(u)
  <2>1. UNCHANGED SharedVars /\ UNCHANGED <<lock, ver>> /\ pc[u] = "decide" /\ ver[u] < latest /\ latest \notin badFile
    BY <1>2, <1>6 DEF Decides, SharedVars, fileVars, ghosts, BadList
  <2>2. \E to \in {"record", "mark"} : Move(u, to)
    BY <1>6 DEF Decides
  <2>3. cand'[u] = latest /\ \A q \in Updater : q # u => UNCHANGED cand[q]
    BY <1>6 DEF Decides, Typed, TypeOK, ProcessTypeOK
  <2>4. Alone(u) /\ pc'[u] \in {"record", "mark"}
    BY <1>0, <2>1, <2>2, <2>3, MovesAlone
  <2>5. Newer(u)'
    BY <1>1, <1>2, <2>1, <2>3, <2>4 DEF Newer, Installing, Marking, SharedVars, FilesAgree
  <2>6. (cut \/ UpdaterIsGood(u))'
    BY <1>1, <2>1, <2>3, <2>4 DEF UpdaterIsGood, SharedVars, FilesAreGood
  <2>7. Behaves(u)'
    BY <1>0, <2>1, <2>5, <2>6 DEF Behaves, Locked, SharedVars
  <2> QED
    BY <1>0, <2>1, <2>4, <2>7, QuietStep
<1>7. CASE Records(u) \/ RecordsPrev(u) \/ Keeps(u) \/ Places(u)
  <2>1. pc[u] \in Installing /\ UNCHANGED <<badFile, latest, lock, ver, cand, condemned, cut>>
    BY <1>7 DEF Records, RecordsPrev, Keeps, Places, Installing, fileVars, local, ghosts
  <2>2. \E to \in {"recordprev", "keep", "place", "done"} : Move(u, to)
    BY <1>7 DEF Records, RecordsPrev, Keeps, Places
  <2>3. Alone(u) /\ pc'[u] \in {"recordprev", "keep", "place", "done"}
    BY <1>0, <2>1, <2>2, MovesAlone
  <2>4. lock' = u /\ (ver[u] <= latest)'
    BY <1>0, <2>1 DEF Behaves, Installing, Locked
  <2>5. cand[u] <= latest /\ ver[u] < cand[u] /\ bin <= cand[u] /\ prevFile < cand[u]
    BY <1>0, <2>1 DEF Newer
  <2>6. cut \/ (latest \notin condemned /\ cand[u] \notin condemned)
    BY <1>0, <2>1 DEF UpdaterIsGood
  <2>7. CASE Records(u)
    <3>1. /\ installed'.version = cand[u] /\ installed'.recent /\ pc'[u] = "recordprev"
          /\ UNCHANGED <<bin, prevBin, prevFile, came>>
      BY <1>0, <2>7 DEF Records, fileVars, ghosts, Move, Typed, TypeOK, ProcessTypeOK
    <3>2. FilesAgree' /\ (cut \/ FilesAreGood)'
      BY <1>1, <2>1, <2>5, <2>6, <3>1 DEF FilesAgree, FilesAreGood
    <3>3. Newer(u)' /\ (cut \/ UpdaterIsGood(u))'
      BY <2>1, <2>5, <2>6, <3>1 DEF Newer, UpdaterIsGood, Installing, Marking
    <3> QED
      BY <1>0, <2>1, <2>3, <2>4, <3>1, <3>2, <3>3, LockedStep DEF Behaves, HookIsGood, Installing, Locked
  <2>8. CASE RecordsPrev(u)
    <3>1. /\ prevFile' = ver[u] /\ pc'[u] = "keep" /\ pc[u] = "recordprev"
          /\ UNCHANGED <<bin, prevBin, installed, came>>
      BY <1>0, <2>8 DEF RecordsPrev, fileVars, ghosts, Move, Typed, TypeOK, ProcessTypeOK
    <3>2. installed.version = cand[u]
      BY <1>0, <3>1 DEF Newer, Installing
    <3>3. FilesAgree' /\ (cut \/ FilesAreGood)'
      BY <1>1, <1>2, <2>1, <2>5, <3>1, <3>2 DEF FilesAgree, FilesAreGood
    <3>4. Newer(u)' /\ (cut \/ UpdaterIsGood(u))'
      BY <2>1, <2>5, <2>6, <3>1, <3>2 DEF Newer, UpdaterIsGood, Installing, Marking
    <3> QED
      BY <1>0, <2>1, <2>3, <2>4, <3>1, <3>3, <3>4, LockedStep DEF Behaves, HookIsGood, Installing, Locked
  <2>9. CASE Keeps(u)
    <3>1. /\ prevBin' = bin /\ pc'[u] = "place" /\ pc[u] = "keep"
          /\ UNCHANGED <<bin, prevFile, installed, came>>
      BY <1>0, <2>9 DEF Keeps, fileVars, ghosts, Move, Typed, TypeOK, ProcessTypeOK
    <3>2. installed.version = cand[u]
      BY <1>0, <3>1 DEF Newer, Installing
    <3>3. FilesAgree' /\ (cut \/ FilesAreGood)'
      BY <1>1, <1>2, <2>1, <3>1 DEF FilesAgree, FilesAreGood
    <3>4. Newer(u)' /\ (cut \/ UpdaterIsGood(u))'
      BY <2>1, <2>5, <2>6, <3>1, <3>2 DEF Newer, UpdaterIsGood, Installing, Marking
    <3>5. \A h \in Hook : HookIsGood(h) => (ver[h] \in condemned \cup {bin} \/ ver[h] <= prevBin)'
      <4> SUFFICES ASSUME NEW h \in Hook, HookIsGood(h), ver[h] <= prevBin PROVE ver[h] <= bin
        BY <2>1, <3>1 DEF HookIsGood
      <4> QED
        BY <1>1, <1>2 DEF FilesAgree, Typed, TypeOK, ProcessTypeOK, Process
    <3> QED
      BY <1>0, <2>1, <2>3, <2>4, <3>3, <3>4, <3>5, LockedStep DEF Behaves, Installing, Locked
  <2>10. CASE Places(u)
    <3>1. /\ bin' = cand[u] /\ pc'[u] = "done" /\ pc[u] = "place"
          /\ UNCHANGED <<prevBin, prevFile, installed>>
      BY <1>0, <2>10 DEF Places, fileVars, Move, Typed, TypeOK, ProcessTypeOK
    <3>2. prevBin = bin /\ installed.version = cand[u]
      BY <1>0, <3>1 DEF Newer, Installing
    <3>3. came'[bin'] = bin
      <4>1. cand[u] \in Version
        BY <3>1 DEF Typed, HasACandidate
      <4> QED
        BY <2>10, <4>1 DEF Places, Typed, TypeOK, HistoryTypeOK
    <3>4. FilesAgree' /\ (cut \/ FilesAreGood)'
      BY <1>1, <2>1, <2>5, <2>6, <3>1, <3>2, <3>3 DEF FilesAgree, FilesAreGood
    <3>5. Newer(u)' /\ UpdaterIsGood(u)'
      BY <3>1 DEF Newer, UpdaterIsGood, Installing, Marking
    <3>6. \A h \in Hook : HookIsGood(h) => (ver[h] \in condemned \cup {bin} \/ ver[h] <= prevBin)'
      <4> SUFFICES ASSUME NEW h \in Hook, ver[h] = bin PROVE ver[h] <= prevBin
        BY <2>1, <3>1 DEF HookIsGood
      <4> QED
        BY <1>2, <3>2
    <3> QED
      BY <1>0, <2>1, <2>3, <2>4, <3>4, <3>5, <3>6, LockedStep DEF Behaves, Installing, Locked
  <2> QED
    BY <1>7, <2>7, <2>8, <2>9, <2>10
<1> QED
  BY <1>3, <1>4, <1>5, <1>6, <1>7 DEF UpdaterStep

\* Quiet steps of a hook: it goes to a place where it has found nothing yet, or
\* where it has nothing left to do but to forget the failures.
LEMMA HookMovesOn ==
  ASSUME Typed, StayInv, NEW h \in Hook, UNCHANGED SharedVars, UNCHANGED cand,
         NEW to \in {"look", "begin", "work", "lock", "read", "forget"}, Move(h, to),
         \A q \in Process : q # h => UNCHANGED ver[q],
         ver'[h] \in {ver[h], bin},
         lock' = lock \/ (lock = Free /\ lock' = h), to \in {"read", "forget"} => lock' = h
  PROVE  StayInv'
<1>0. h \in Process /\ h \notin Updater /\ Behaves(h) /\ FilesAgree
  BY UpdateAssumption DEF Process, StayInv
<1>1. Alone(h) /\ pc'[h] = to
  BY <1>0, MovesAlone
<1>2. (ver[h] <= latest)' /\ (pc[h] \in Locked => lock = h)'
  BY <1>0, <1>1 DEF Behaves, FilesAgree, SharedVars, Locked
<1>3. GoesBack(h)'
  BY <1>1 DEF GoesBack, Marking
<1>4. (cut \/ HookIsGood(h))'
  BY <1>0, <1>1 DEF Behaves, HookIsGood, Marking, SharedVars
<1> QED
  BY <1>0, <1>1, <1>2, <1>3, <1>4, QuietStep DEF Behaves

\* restore_prev takes back what is at the path, and nothing else.
LEMMA SwapTakesBack ==
  ASSUME Typed, StayInv, NEW h \in Hook, Is(h, "swap"), ~cut, prevBin # bin
  PROVE  ver[h] = bin /\ prevBin = came[bin] /\ prevBin < bin
<1>0. h \in Process /\ ver[h] \in Nat /\ bin \in Nat /\ prevBin \in Nat
  BY DEF Process, Typed, TypeOK, FilesTypeOK, ProcessTypeOK, Version
<1>1. installed.version = ver[h] /\ prevFile # 0 /\ prevBin = prevFile /\ prevFile < ver[h]
  BY <1>0 DEF StayInv, Behaves, GoesBack, Is
<1>2. ver[h] \in condemned \cup {bin}
  BY <1>0, <1>1 DEF StayInv, Behaves, HookIsGood
<1>3. ver[h] \notin condemned
  BY <1>1 DEF StayInv, FilesAreGood
<1> QED
  BY <1>0, <1>1, <1>2, <1>3 DEF StayInv, FilesAgree

LEMMA HookStays ==
  ASSUME Typed, StayInv, NEW h \in Hook, HookStep(h) \/ CannotBegin(h) \/ CannotEnd(h) \/ SwapFails(h)
  PROVE  StayInv'
<1>0. h \in Process /\ h \notin Updater /\ Behaves(h) /\ GoesBack(h) /\ (cut \/ HookIsGood(h))
  BY UpdateAssumption DEF Process, StayInv, Behaves
<1>1. FilesAgree /\ (cut \/ FilesAreGood)
  BY DEF StayInv
<1>2. /\ bin \in Nat /\ prevBin \in Nat /\ latest \in Nat /\ prevFile \in Nat
      /\ installed.version \in Nat /\ \A q \in Process : ver[q] \in Nat
  BY DEF Typed, TypeOK, FilesTypeOK, ProcessTypeOK, Version
<1> USE DEF Is
<1>3. CASE LooksAway(h) \/ TurnedAway(h) \/ Forgets(h) \/ CannotBegin(h)
  BY <1>0, <1>3, EndIsQuiet DEF LooksAway, TurnedAway, Forgets, CannotBegin, SharedVars, fileVars, ghosts
<1>4. CASE MarksInStore(h) \/ MarksInFile(h)
  BY <1>0, <1>4, MarkStays
<1>5. CASE Ends(h) \/ CannotEnd(h)
  <2>1. UNCHANGED SharedVars
    BY <1>5 DEF Ends, CannotEnd, SharedVars, fileVars
  <2>2. End(h) \/ (Move(h, "lock") /\ UNCHANGED <<lock, ver, cand>>)
    BY <1>5 DEF Ends, CannotEnd, local
  <2> QED
    BY <1>0, <2>1, <2>2, EndIsQuiet, HookMovesOn
<1>6. CASE Execs(h) \/ Looks(h) \/ Begins(h) \/ TakesLock(h) \/ LeavesIt(h) \/ SwapFails(h)
  <2>1. UNCHANGED SharedVars /\ UNCHANGED cand
    BY <1>6 DEF Execs, Looks, Begins, TakesLock, LeavesIt, SwapFails, SharedVars, fileVars, ghosts, local
  <2>2. \E to \in {"look", "begin", "work", "lock", "read", "forget"} :
          /\ Move(h, to)
          /\ lock' = lock \/ (lock = Free /\ lock' = h)
          /\ to \in {"read", "forget"} => lock' = h
    BY <1>0, <1>6 DEF Execs, Looks, Begins, TakesLock, LeavesIt, SwapFails, Behaves, Locked
  <2>3. ver'[h] \in {ver[h], bin} /\ \A q \in Process : q # h => UNCHANGED ver[q]
    BY <1>0, <1>6 DEF Execs, Looks, Begins, TakesLock, LeavesIt, SwapFails, local, Typed, TypeOK, ProcessTypeOK
  <2> QED
    BY <2>1, <2>2, <2>3, HookMovesOn
<1>7. CASE ChecksPrev(h)
  <2>1. UNCHANGED SharedVars /\ UNCHANGED <<ver, cand, lock>> /\ Move(h, "mark") /\ pc[h] = "read"
    BY <1>7 DEF ChecksPrev, SharedVars, fileVars, ghosts, local
  <2>2. installed.version = ver[h] /\ installed.recent /\ prevFile # 0 /\ prevBin = prevFile
    BY <1>7 DEF ChecksPrev, InstalledRecently, Restorable
  <2>3. Alone(h) /\ pc'[h] = "mark"
    BY <1>0, <2>1, MovesAlone
  <2>4. GoesBack(h)'
    BY <1>1, <2>1, <2>2, <2>3 DEF GoesBack, FilesAgree, SharedVars, Marking
  <2>5. (cut \/ HookIsGood(h))'
    BY <1>0, <1>1, <2>1, <2>2, <2>3 DEF HookIsGood, FilesAreGood, SharedVars
  <2>6. Behaves(h)'
    BY <1>0, <2>1, <2>3, <2>4, <2>5 DEF Behaves, Locked, SharedVars
  <2> QED
    BY <1>0, <2>1, <2>3, <2>6, QuietStep
<1>8. CASE Swaps(h)
  <2>1. /\ bin' = prevBin /\ condemned' = condemned \cup {ver[h]} /\ pc[h] = "swap" /\ Move(h, "close")
        /\ UNCHANGED <<prevBin, prevFile, installed, badFile, latest, lock, ver, cand, came, cut>>
    BY <1>8 DEF Swaps, fileVars, local
  <2>2. Alone(h) /\ pc'[h] = "close"
    BY <1>0, <2>1, MovesAlone
  <2>3. installed.version = ver[h] /\ prevBin = prevFile /\ prevFile < ver[h] /\ ver[h] \in badFile
    BY <1>0, <2>1 DEF GoesBack
  <2>4. ver[h] <= latest /\ lock = h
    BY <1>0, <2>1 DEF Behaves, Locked
  <2>5. FilesAgree'
    BY <1>1, <1>2, <2>1, <2>3, <2>4 DEF FilesAgree
  <2>6. (cut \/ FilesAreGood)'
    <3> SUFFICES ASSUME ~cut PROVE FilesAreGood'
      BY <2>1
    <3>1. prevBin # ver[h]
      BY <1>0, <1>2, <2>3
    <3> QED
      BY <1>1, <2>1, <2>3, <3>1 DEF FilesAreGood
  <2>7. Behaves(h)'
    <3>1. GoesBack(h)'
      BY <2>1, <2>2, <2>3 DEF GoesBack, Marking
    <3>2. HookIsGood(h)'
      BY <2>1, <2>2 DEF HookIsGood, Marking
    <3> QED
      BY <1>0, <2>1, <2>2, <2>4, <3>1, <3>2 DEF Behaves
  <2>8. ASSUME NEW g \in Hook, ~cut, HookIsGood(g)
        PROVE  (ver[g] \in condemned \cup {bin} \/ ver[g] <= prevBin)'
    BY <1>8, <2>1, <2>8, SwapTakesBack DEF HookIsGood
  <2> QED
    BY <1>0, <2>1, <2>2, <2>5, <2>6, <2>7, <2>8, LockedStep DEF Locked
<1>9. CASE Closes(h)
  <2>1. /\ installed' = [version |-> prevFile, recent |-> FALSE] /\ pc[h] = "close" /\ Move(h, "forget")
        /\ UNCHANGED <<bin, prevBin, prevFile, badFile, latest, lock, ver, cand, came, condemned, cut>>
    BY <1>9 DEF Closes, fileVars, local, ghosts
  <2>2. Alone(h) /\ pc'[h] = "forget" /\ prevFile = prevBin
    BY <1>0, <2>1, MovesAlone DEF GoesBack
  <2>3. installed'.version = prevFile /\ ~installed'.recent
    BY <2>1
  <2>4. FilesAgree' /\ (cut \/ FilesAreGood)'
    BY <1>1, <1>2, <2>1, <2>2, <2>3 DEF FilesAgree, FilesAreGood
  <2>5. GoesBack(h)' /\ (cut \/ HookIsGood(h))'
    BY <1>0, <2>1, <2>2 DEF GoesBack, HookIsGood, Marking
  <2>6. Behaves(h)'
    BY <1>0, <2>1, <2>5 DEF Behaves, Locked
  <2> QED
    BY <1>0, <2>1, <2>2, <2>4, <2>6, LockedStep DEF HookIsGood, Locked
<1> QED
  BY <1>3, <1>4, <1>5, <1>6, <1>7, <1>8, <1>9 DEF HookStep

\* A kill cuts short what was being written; where that is update.bad, the list
\* is empty, and the version it was to name is the only one that could be missed.
LEMMA KilledStays ==
  ASSUME Typed, StayInv, NEW p \in Process, Killed(p)
  PROVE  StayInv'
<1>0. Behaves(p) /\ FilesAgree /\ (cut \/ FilesAreGood) /\ p \notin Hook \cap Updater
  BY UpdateAssumption DEF StayInv
<1>1. End(p) /\ UNCHANGED <<bin, prevBin, latest, came, condemned>>
  BY DEF Killed
<1>2. /\ badFile' = badFile \/ (pc[p] = "markfile" /\ badFile' = {})
      /\ prevFile' = prevFile \/ (pc[p] = "recordprev" /\ prevFile' = 0)
      /\ installed' = installed \/ (pc[p] \in {"record", "close"} /\ installed' = NoRecord)
      /\ cut' <=> cut \/ (badFile' # badFile /\ Marked(p) \in condemned)
  BY DEF Killed, Is
<1>3. Alone(p) /\ Behaves(p)'
  BY <1>1, EndsAlone
<1>4. CASE UNCHANGED <<badFile, prevFile, installed>>
  <2>1. cut' <=> cut
    BY <1>2, <1>4
  <2>2. cut' = cut
    BY <2>1 DEF Killed, Typed, TypeOK, HistoryTypeOK
  <2> QED
    BY <1>1, <1>4, <2>2, EndIsQuiet DEF SharedVars
<1>5. CASE ~UNCHANGED <<badFile, prevFile, installed>>
  <2>1. pc[p] \in Locked
    BY <1>2, <1>5 DEF Locked
  <2>2. /\ bin \in Nat /\ prevBin \in Nat /\ latest \in Nat /\ prevFile \in Nat /\ 0 < latest
        /\ installed.version \in Nat /\ 0 \notin condemned
    BY DEF Typed, TypeOK, FilesTypeOK, HistoryTypeOK, Version
  <2>3. /\ prevFile' = prevFile \/ prevFile' = 0
        /\ \/ installed' = installed
           \/ installed'.version = 0 /\ ~installed'.recent
    BY <1>2 DEF NoRecord
  <2>4. installed.recent /\ prevFile' # prevFile => 0 < installed.version
    BY <1>0, <2>2 DEF FilesAgree
  <2>5. FilesAgree'
    BY <1>0, <1>1, <2>2, <2>3, <2>4 DEF FilesAgree
  <2>6. (cut \/ FilesAreGood)'
    <3> SUFFICES ASSUME ~cut' PROVE FilesAreGood'
      OBVIOUS
    <3>1. ~cut /\ FilesAreGood /\ (badFile' # badFile => Marked(p) \notin condemned)
      BY <1>0, <1>2
    <3>2. ASSUME latest \in condemned PROVE badFile' = badFile
      <4> SUFFICES ASSUME badFile' # badFile PROVE FALSE
        OBVIOUS
      <4>1. pc[p] = "markfile" /\ Marked(p) \notin condemned
        BY <1>2, <3>1
      <4>2. CASE p \in Updater
        BY <1>0, <3>1, <3>2, <4>1, <4>2 DEF Behaves, UpdaterIsGood, Marking
      <4>3. CASE p \in Hook
        <5>1. ver[p] = latest
          BY <1>0, <3>1, <3>2, <4>1, <4>3 DEF Behaves, HookIsGood, Marking
        <5> QED
          BY <1>0, <3>2, <4>1, <4>3, <5>1 DEF Marked
      <4> QED
        BY <4>2, <4>3 DEF Process
    <3> QED
      BY <1>1, <2>2, <2>3, <3>1, <3>2 DEF FilesAreGood
  <2>7. ~cut' => ~cut
    BY <1>2
  <2>8. \A h \in Hook : HookIsGood(h) /\ h # p => (ver[h] \in condemned \cup {bin} \/ ver[h] <= prevBin)'
    BY <1>1, <1>3 DEF HookIsGood, Alone, Process
  <2> QED
    BY <1>1, <1>3, <2>1, <2>5, <2>6, <2>7, <2>8, LockedStep
<1> QED
  BY <1>4, <1>5

\* Time and releases: a record grows old, and the release that comes is newer
\* than any that was rolled back.
LEMMA WorldStays ==
  ASSUME Typed, StayInv, GrowsOld \/ Publishes \/ UNCHANGED vars
  PROVE  StayInv'
<1>0. UNCHANGED <<bin, prevBin, prevFile, badFile, lock, pc, ver, cand, came, condemned, cut>>
  BY DEF GrowsOld, Publishes, vars, fileVars, local, ghosts
<1>1. installed'.version = installed.version /\ (installed'.recent => installed.recent)
  BY DEF GrowsOld, Publishes, vars, Typed, TypeOK, FilesTypeOK
<1>2. latest' = latest \/ (latest' = latest + 1 /\ installed' = installed)
  BY DEF GrowsOld, Publishes, vars
<1>3. FilesAgree /\ (cut \/ FilesAreGood)
  BY DEF StayInv
<1>4. /\ bin \in Nat /\ latest \in Nat /\ prevFile \in Nat /\ installed.version \in Nat
      /\ condemned \subseteq Nat /\ \A p \in Process : ver[p] \in Nat
  BY DEF Typed, TypeOK, FilesTypeOK, ProcessTypeOK, HistoryTypeOK, Version
<1>5. FilesAgree' /\ latest <= latest' /\ (latest' \in condemned => latest' = latest)
  BY <1>0, <1>1, <1>2, <1>3, <1>4 DEF FilesAgree
<1>6. (cut \/ FilesAreGood)'
  BY <1>0, <1>1, <1>3, <1>5 DEF FilesAreGood
<1>7. ASSUME NEW p \in Process PROVE Behaves(p)'
  <2>1. Behaves(p)
    BY DEF StayInv
  <2>2. p \in Updater => cand[p] \in Nat
    BY DEF Typed, TypeOK, ProcessTypeOK
  <2>3. p \in Updater /\ Newer(p) => Newer(p)'
    BY <1>0, <1>1, <1>2, <1>4, <1>5, <2>2 DEF Newer
  <2>4. UpdaterIsGood(p) => UpdaterIsGood(p)'
    BY <1>0, <1>5 DEF UpdaterIsGood
  <2>5. GoesBack(p) => GoesBack(p)'
    BY <1>0, <1>1 DEF GoesBack
  <2>6. HookIsGood(p) => HookIsGood(p)'
    BY <1>0, <1>5 DEF HookIsGood
  <2>7. (ver[p] <= latest)'
    BY <1>0, <1>2, <1>4, <2>1 DEF Behaves
  <2> QED
    BY <1>0, <2>1, <2>3, <2>4, <2>5, <2>6, <2>7 DEF Behaves
<1> QED
  BY <1>5, <1>6, <1>7 DEF StayInv

LEMMA StayStep == Typed /\ StayInv /\ [Next]_vars => StayInv'
BY UpdaterStays, HookStays, KilledStays, WorldStays DEF Next

LEMMA AlwaysStays == Spec => []StayInv
BY StayInit, StayStep, AlwaysTyped, PTL DEF Spec

\* What was rolled back is not at the path again, whatever order hooks, updaters
\* and kills come in: the list that `decide` reads has the only release it could
\* bring back before that one is swapped out, or a second kill has cut the list
\* short while it was to be named again (rollback, mark_bad, decide).
THEOREM CondemnedNeverReturns == Spec => []CondemnedStaysAway
<1>1. StayInv => CondemnedStaysAway
  BY DEF StayInv, FilesAreGood, CondemnedStaysAway
<1> QED
  BY <1>1, AlwaysStays, PTL

\* Only a hook of the release at the path takes it back, and only to what that
\* release replaced (rollback, restore_prev, place): no updater goes back, and a
\* hook that waited for the lock while another rolled back does nothing.
THEOREM OnlyBackToWhatItReplaced == Spec => RollsBackWhatFailed
<1>1. Typed /\ StayInv /\ [Next]_vars => [BackToWhatItReplaced]_vars
  <2> SUFFICES ASSUME Typed, StayInv, Next, bin' < bin, ~cut
               PROVE  \E h \in Hook : Is(h, "swap") /\ ver[h] = bin /\ bin' = came[bin]
    BY DEF BackToWhatItReplaced
  <2>1. bin \in Nat
    BY DEF Typed, TypeOK, FilesTypeOK, Version
  <2>2. CASE \E u \in Updater : Launches(u) \/ UpdaterStep(u) \/ PlaceFails(u)
    <3>1. PICK u \in Updater : Launches(u) \/ UpdaterStep(u) \/ PlaceFails(u)
      BY <2>2
    <3>2. bin' = bin \/ (bin' = cand[u] /\ pc[u] = "place")
      BY <3>1
      DEF Launches, UpdaterStep, PlaceFails, TakesLock, TurnedAway, Decides, StaysPut, MarksInStore,
          MarksInFile, Records, RecordsPrev, Keeps, Places, Is
    <3>3. u \in Process /\ (pc[u] = "place" => bin <= cand[u] /\ cand[u] \in Nat)
      BY DEF StayInv, Behaves, Newer, Installing, Process, Typed, TypeOK, ProcessTypeOK
    <3> QED
      BY <2>1, <3>2, <3>3
  <2>3. CASE \E h \in Hook : HookStep(h) \/ CannotBegin(h) \/ CannotEnd(h) \/ SwapFails(h)
    <3>1. PICK h \in Hook : HookStep(h) \/ CannotBegin(h) \/ CannotEnd(h) \/ SwapFails(h)
      BY <2>3
    <3>2. bin' = bin \/ (bin' = prevBin /\ Is(h, "swap"))
      BY <3>1
      DEF HookStep, CannotBegin, CannotEnd, SwapFails, Execs, Looks, LooksAway, Begins, Ends, TakesLock,
          TurnedAway, ChecksPrev, LeavesIt, MarksInStore, MarksInFile, Swaps, Closes, Forgets
    <3>3. bin' = prevBin /\ Is(h, "swap") /\ prevBin # bin
      BY <2>1, <3>2
    <3> QED
      BY <3>3, SwapTakesBack
  <2>4. CASE (\E p \in Process : Killed(p)) \/ GrowsOld \/ Publishes
    BY <2>1, <2>4 DEF Killed, GrowsOld, Publishes
  <2> QED
    BY <2>2, <2>3, <2>4 DEF Next
<1> QED
  BY <1>1, AlwaysTyped, AlwaysStays, PTL DEF Spec, RollsBackWhatFailed

(***************************************************************************)
(* ... and it takes two mishaps for it to come back                        *)
(***************************************************************************)
\* As long as nothing went wrong, whoever swapped closes the window before the
\* lock is free, so that no record of what was rolled back is found.
WindowIsClosed ==
  mishaps = 0 =>
    /\ installed.version \in condemned => \E h \in Hook : Is(h, "close")
    /\ \A h \in Hook : pc[h] \in Marking \cup {"swap"} => ver[h] \notin condemned
CutTakesTwo == cut => 2 <= mishaps
TwiceInv == WindowIsClosed /\ CutTakesTwo

LEMMA TwiceInit == Init => TwiceInv
BY DEF Init, TwiceInv, WindowIsClosed, CutTakesTwo

\* What a step that is no mishap still has to show.
LEMMA NoMishapStep ==
  ASSUME Typed, TwiceInv, NEW p \in Process, UNCHANGED <<mishaps, cut, installed, condemned>>,
         \A h \in Hook : h # p => UNCHANGED <<pc[h], ver[h]>>,
         p \in Hook => pc[p] # "close",
         p \in Hook /\ mishaps = 0 /\ pc'[p] \in Marking \cup {"swap"} => ver'[p] \notin condemned
  PROVE  TwiceInv'
<1>1. CutTakesTwo'
  BY DEF TwiceInv, CutTakesTwo
<1>2. WindowIsClosed'
  <2> SUFFICES ASSUME mishaps = 0 PROVE WindowIsClosed'
    BY DEF WindowIsClosed
  <2>1. installed.version \in condemned => \E h \in Hook : Is(h, "close")'
    BY DEF TwiceInv, WindowIsClosed, Is
  <2>2. \A h \in Hook : pc'[h] \in Marking \cup {"swap"} => ver'[h] \notin condemned
    BY DEF TwiceInv, WindowIsClosed
  <2> QED
    BY <2>1, <2>2 DEF WindowIsClosed, Is
<1> QED
  BY <1>1, <1>2 DEF TwiceInv

LEMMA UpdaterTwice ==
  ASSUME Typed, StayInv, TwiceInv, NEW u \in Updater, Launches(u) \/ UpdaterStep(u) \/ PlaceFails(u)
  PROVE  TwiceInv'
<1>0. u \in Process /\ u \notin Hook /\ Hook \subseteq Process /\ mishaps \in Nat
  BY UpdateAssumption DEF Process, Typed, TypeOK, FilesTypeOK
<1>1. UNCHANGED <<cut, condemned>> /\ (mishaps' = mishaps \/ mishaps' = mishaps + 1)
  BY DEF Launches, UpdaterStep, PlaceFails, TakesLock, TurnedAway, Decides, StaysPut, MarksInStore,
         MarksInFile, Records, RecordsPrev, Keeps, Places, Mishap, ghosts
<1>2. \A h \in Hook : UNCHANGED <<pc[h], ver[h]>>
  <2>1. End(u) \/ ((\E to : Move(u, to)) /\ (ver' = ver \/ ver' = [ver EXCEPT ![u] = bin]))
    BY DEF Launches, UpdaterStep, PlaceFails, TakesLock, TurnedAway, Decides, StaysPut, MarksInStore,
           MarksInFile, Records, RecordsPrev, Keeps, Places, local
  <2> QED
    BY <1>0, <2>1 DEF End, Move, Typed, TypeOK, ProcessTypeOK
<1>3. CASE mishaps' = mishaps + 1
  BY <1>0, <1>1, <1>3 DEF TwiceInv, WindowIsClosed, CutTakesTwo
<1>4. CASE Records(u)
  <2>1. pc[u] = "record" /\ installed'.version = cand[u] /\ UNCHANGED mishaps
    BY <1>4 DEF Records, Is
  <2>2. mishaps = 0 => installed'.version \notin condemned
    BY <1>0, <2>1 DEF StayInv, Behaves, UpdaterIsGood, Installing, TwiceInv, CutTakesTwo
  <2> QED
    BY <1>1, <1>2, <2>1, <2>2 DEF TwiceInv, WindowIsClosed, CutTakesTwo
<1>5. CASE mishaps' = mishaps /\ ~Records(u)
  <2>1. UNCHANGED installed
    BY <1>5
    DEF Launches, UpdaterStep, PlaceFails, TakesLock, TurnedAway, Decides, StaysPut, MarksInStore,
        MarksInFile, Records, RecordsPrev, Keeps, Places
  <2> QED
    BY <1>0, <1>1, <1>2, <1>5, <2>1, NoMishapStep
<1> QED
  BY <1>1, <1>3, <1>4, <1>5

LEMMA HookTwice ==
  ASSUME Typed, StayInv, TwiceInv, NEW h \in Hook,
         HookStep(h) \/ CannotBegin(h) \/ CannotEnd(h) \/ SwapFails(h)
  PROVE  TwiceInv'
<1>0. h \in Process /\ Hook \subseteq Process /\ mishaps \in Nat /\ Behaves(h)
  BY DEF Process, Typed, TypeOK, FilesTypeOK, StayInv
<1>1. UNCHANGED cut /\ (mishaps' = mishaps \/ mishaps' = mishaps + 1)
  BY DEF HookStep, CannotBegin, CannotEnd, SwapFails, Execs, Looks, LooksAway, Begins, Ends, TakesLock,
         TurnedAway, ChecksPrev, LeavesIt, MarksInStore, MarksInFile, Swaps, Closes, Forgets, Mishap, ghosts
<1>2. \A g \in Hook : g # h => UNCHANGED <<pc[g], ver[g]>>
  <2>1. End(h) \/ ((\E to : Move(h, to)) /\ (ver' = ver \/ ver' = [ver EXCEPT ![h] = bin]))
    BY DEF HookStep, CannotBegin, CannotEnd, SwapFails, Execs, Looks, LooksAway, Begins, Ends, TakesLock,
           TurnedAway, ChecksPrev, LeavesIt, MarksInStore, MarksInFile, Swaps, Closes, Forgets, local
  <2> QED
    BY <1>0, <2>1 DEF End, Move, Typed, TypeOK, ProcessTypeOK
<1>3. CASE mishaps' = mishaps + 1
  BY <1>0, <1>1, <1>3 DEF TwiceInv, WindowIsClosed, CutTakesTwo
<1>4. CASE Swaps(h)
  <2>1. /\ pc[h] = "swap" /\ pc'[h] = "close" /\ UNCHANGED <<installed, ver, mishaps>>
        /\ condemned' = condemned \cup {ver[h]}
    BY <1>0, <1>4 DEF Swaps, Move, Is, local, Typed, TypeOK, ProcessTypeOK
  <2>2. \A g \in Hook : pc'[g] \notin Marking \cup {"swap"}
    BY <1>0, <1>2, <2>1, AloneUnderTheLock DEF Locked, Marking
  <2> QED
    BY <1>1, <2>1, <2>2 DEF TwiceInv, WindowIsClosed, CutTakesTwo, Is
<1>5. CASE Closes(h)
  <2>1. pc[h] = "close" /\ installed'.version = prevFile /\ UNCHANGED <<condemned, mishaps>> /\ pc'[h] = "forget"
    BY <1>0, <1>5 DEF Closes, Move, Is, ghosts, Typed, TypeOK, ProcessTypeOK
  <2>2. mishaps = 0 => installed'.version \notin condemned
    BY <1>0, <2>1 DEF StayInv, FilesAreGood, Behaves, GoesBack, TwiceInv, CutTakesTwo
  <2>3. \A g \in Hook : pc'[g] \notin Marking \cup {"swap"}
    BY <1>0, <1>2, <2>1, AloneUnderTheLock DEF Locked, Marking
  <2> QED
    BY <1>1, <2>1, <2>2, <2>3 DEF TwiceInv, WindowIsClosed, CutTakesTwo
<1>6. CASE mishaps' = mishaps /\ ~Swaps(h) /\ ~Closes(h)
  <2>1. UNCHANGED <<installed, condemned>> /\ pc[h] # "close"
    BY <1>0, <1>6
    DEF HookStep, CannotBegin, CannotEnd, SwapFails, Execs, Looks, LooksAway, Begins, Ends, TakesLock,
        TurnedAway, ChecksPrev, LeavesIt, MarksInStore, MarksInFile, Swaps, Closes, Forgets, ghosts, Is, Mishap
  <2>2. ASSUME mishaps = 0, pc'[h] \in Marking \cup {"swap"} PROVE ver'[h] \notin condemned
    <3>1. \/ MarksInStore(h) \/ MarksInFile(h) \/ ChecksPrev(h)
          \/ End(h)
          \/ \E to \in {"look", "begin", "work", "lock", "read", "decide", "forget"} : Move(h, to)
      BY <1>6
      DEF HookStep, CannotBegin, CannotEnd, SwapFails, Execs, Looks, LooksAway, Begins, Ends, TakesLock,
          TurnedAway, LeavesIt, Forgets
    <3>2. CASE MarksInStore(h) \/ MarksInFile(h)
      BY <2>2, <3>2 DEF MarksInStore, MarksInFile, local, Is, Marking, TwiceInv, WindowIsClosed
    <3>3. CASE ChecksPrev(h)
      <4>1. pc[h] = "read" /\ installed.version = ver[h] /\ ver' = ver
        BY <3>3 DEF ChecksPrev, InstalledRecently, local, Is
      <4>2. \A g \in Hook : pc[g] # "close"
        BY <1>0, <4>1, AloneUnderTheLock DEF Locked
      <4> QED
        BY <2>2, <4>1, <4>2 DEF TwiceInv, WindowIsClosed, Is
    <3>4. CASE End(h) \/ \E to \in {"look", "begin", "work", "lock", "read", "decide", "forget"} : Move(h, to)
      BY <1>0, <2>2, <3>4 DEF End, Move, Marking, Typed, TypeOK, ProcessTypeOK
    <3> QED
      BY <3>1, <3>2, <3>3, <3>4
  <2> QED
    BY <1>0, <1>1, <1>2, <1>6, <2>1, <2>2, NoMishapStep
<1> QED
  BY <1>1, <1>3, <1>4, <1>5, <1>6

LEMMA TwiceStep == Typed /\ StayInv /\ TwiceInv /\ [Next]_vars => TwiceInv'
<1> SUFFICES ASSUME Typed, StayInv, TwiceInv, [Next]_vars PROVE TwiceInv'
  OBVIOUS
<1>1. CASE \E p \in Process : Killed(p)
  <2>1. PICK p \in Process : Killed(p)
    BY <1>1
  <2>2. mishaps \in Nat /\ mishaps' = mishaps + 1
    BY <2>1 DEF Killed, Mishap, Typed, TypeOK, FilesTypeOK
  <2>3. ASSUME ~cut, cut' PROVE mishaps # 0
    <3>1. badFile' # badFile /\ Marked(p) \in condemned /\ pc[p] = "markfile"
      BY <2>1, <2>3 DEF Killed, Is
    <3>2. p \in Hook
      BY <2>1, <2>3, <3>1 DEF StayInv, Behaves, UpdaterIsGood, Marking, Marked, Process
    <3>3. Marked(p) = ver[p]
      BY <3>2, UpdateAssumption DEF Marked
    <3> QED
      BY <3>1, <3>2, <3>3 DEF TwiceInv, WindowIsClosed, Marking
  <2> QED
    BY <2>2, <2>3 DEF TwiceInv, WindowIsClosed, CutTakesTwo
<1>2. CASE GrowsOld \/ Publishes \/ UNCHANGED vars
  <2>1. UNCHANGED <<mishaps, cut, condemned, pc, ver>>
    BY <1>2 DEF GrowsOld, Publishes, vars, local, ghosts
  <2>2. installed'.version = installed.version
    BY <1>2 DEF GrowsOld, Publishes, vars, Typed, TypeOK, FilesTypeOK
  <2> QED
    BY <2>1, <2>2 DEF TwiceInv, WindowIsClosed, CutTakesTwo, Is
<1> QED
  BY <1>1, <1>2, UpdaterTwice, HookTwice DEF Next

\* One kill, refused lock or failed rename never brings back what was rolled
\* back: the list is written before the swap, and is cut short while it is to
\* name the same release again only after a first hook died between its swap and
\* the close of the window (rollback, mark_bad).
THEOREM OneMishapIsNotEnough == Spec => [](bin \in condemned => 2 <= mishaps)
<1>1. StayInv /\ TwiceInv => (bin \in condemned => 2 <= mishaps)
  BY DEF StayInv, FilesAreGood, TwiceInv, CutTakesTwo
<1> QED
  BY <1>1, TwiceInit, TwiceStep, AlwaysTyped, AlwaysStays, PTL DEF Spec

=============================================================================

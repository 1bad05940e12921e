-------------------------- MODULE InjectionProofs --------------------------
(***************************************************************************)
(* Proofs about one session's ledger, its spill and the fold, for any      *)
(* number of hooks and pointers, any budget, and whoever is killed.        *)
(***************************************************************************)
EXTENDS Injection, FiniteSetTheorems, TLAPS

(***************************************************************************)
(* Type correctness                                                        *)
(***************************************************************************)
\* A text has finitely many pointers.
LEMMA CostIsNat ==
  ASSUME NEW S \in SUBSET Pointer
  PROVE  Cost(S) \in Nat
<1>1. IsFiniteSet(S)
  BY InjectionAssumption, FS_Subset
<1> QED
  BY <1>1, FS_CardinalityType DEF Cost

\* What a spill holds are pointers.
LEMMA IdsArePointers ==
  ASSUME NEW s \in Seq(Line)
  PROVE  IdsOf(s) \subseteq Pointer
<1>1. \A i \in DOMAIN s : s[i] \in Line
  OBVIOUS
<1> QED
  BY <1>1 DEF IdsOf, Line

LEMMA TailIsASpill ==
  ASSUME NEW s \in Seq(Line), NEW n \in Nat
  PROVE  SubSeq(s, n + 1, Len(s)) \in Seq(Line)
OBVIOUS

\* Folding a line into a transaction keeps its type.
LEMMA FoldedIsATransaction ==
  ASSUME NEW line \in Line, NEW t \in Txn, t.active \subseteq t.known
  PROVE  Folded(line, t) \in Txn /\ Folded(line, t).active \subseteq Folded(line, t).known
<1>1. Cost(line.ids) \in Nat
  BY CostIsNat DEF Line
<1>2. CASE line.kind = "file"
  BY <1>2 DEF Folded, Txn
<1>3. CASE line.kind # "file"
  <2> DEFINE due == IF line.ids \subseteq t.known THEN 0 ELSE Cost(line.ids)
  <2>1. due \in Nat
    BY <1>1
  <2>2. Folded(line, t) = [active |-> t.active \cup line.ids, known |-> t.known \cup line.ids,
                           covered |-> t.covered, spent |-> t.spent + due, bytes |-> t.bytes + due]
    BY <1>3 DEF Folded
  <2> HIDE DEF due
  <2>3. t.active \cup line.ids \in SUBSET Pointer /\ t.known \cup line.ids \in SUBSET Pointer
    BY DEF Txn, Line
  <2>4. t.covered \in BOOLEAN /\ t.spent + due \in Nat /\ t.bytes + due \in Nat
    BY <2>1 DEF Txn
  <2> QED
    BY <2>2, <2>3, <2>4 DEF Txn
<1> QED
  BY <1>2, <1>3

LEMMA TypeInit == Init => TypeOK
<1> SUFFICES ASSUME Init PROVE TypeOK
  OBVIOUS
<1> USE DEF Init
<1>1. PICK S \in SUBSET Pointer :
        /\ active = S /\ known = S /\ shown = S /\ spent = Cost(S)
        /\ wipeFile \in BOOLEAN
        /\ context = IF wipeFile THEN {} ELSE S
  OBVIOUS
<1>2. <<>> \in Seq(Line)
  OBVIOUS
<1>3. StoreTypeOK
  BY <1>1, <1>2, CostIsNat DEF StoreTypeOK
<1>4. HookTypeOK
  BY DEF HookTypeOK
<1>5. FoldTypeOK
  BY <1>2 DEF FoldTypeOK, Rounds
<1>6. HistoryTypeOK
  <2>1. context \subseteq shown /\ shown \subseteq Pointer
    BY <1>1
  <2>2. folded \in Nat /\ owed \in Int /\ missed \subseteq Pointer
    OBVIOUS
  <2>3. mishap \in BOOLEAN
    BY Zenon
  <2> QED
    BY <2>1, <2>2, <2>3 DEF HistoryTypeOK
<1> QED
  BY <1>3, <1>4, <1>5, <1>6 DEF TypeOK

\* A hook that only moves on, or ends, leaves its variables well typed.
LEMMA EndKeepsTypes ==
  ASSUME HookTypeOK, NEW p \in Hook, End(p)
  PROVE  HookTypeOK'
BY DEF HookTypeOK, End, Move

\* A line is a spill's line whichever of the two it is.
LEMMA OutIsALine ==
  ASSUME HookTypeOK, NEW p \in Hook
  PROVE  Out(p) \in Line /\ Out(p).ids \in SUBSET Pointer
BY DEF HookTypeOK, Out, Line

\* Nothing but a hook's own state and the pending wipe changes.
LEMMA QuietHookSteps ==
  ASSUME TypeOK, NEW p \in Hook,
         OpensStore(p) \/ LooksForWipe(p) \/ ResetFails(p) \/ ClearsWipe(p) \/ Pends(p)
         \/ StaysSilent(p) \/ CannotOpen(p) \/ CoverFails(p) \/ Refused(p) \/ RecordFails(p)
         \/ OpensSpill(p) \/ HookKilled(p)
  PROVE  TypeOK'
<1> USE DEF TypeOK, storeVars, fileVars, local, foldVars, accounts, ghosts
<1>1. StoreTypeOK' /\ FoldTypeOK' /\ HistoryTypeOK'
  <2> USE DEF StoreTypeOK, FoldTypeOK, HistoryTypeOK
  <2>1. CASE OpensStore(p) \/ LooksForWipe(p) \/ ResetFails(p) \/ ClearsWipe(p)
    BY <2>1 DEF OpensStore, LooksForWipe, ResetFails, ClearsWipe
  <2>2. CASE Pends(p)
    BY <2>2 DEF Pends
  <2>3. CASE CannotOpen(p)
    BY <2>3 DEF CannotOpen
  <2>4. CASE StaysSilent(p) \/ CoverFails(p) \/ Refused(p) \/ RecordFails(p)
    BY <2>4 DEF StaysSilent, CoverFails, Refused, RecordFails
  <2>5. CASE OpensSpill(p) \/ HookKilled(p)
    BY <2>5 DEF OpensSpill, HookKilled
  <2> QED
    BY <2>1, <2>2, <2>3, <2>4, <2>5
<1>2. HookTypeOK'
  <2>1. CASE CannotOpen(p) \/ StaysSilent(p) \/ Refused(p) \/ HookKilled(p)
    BY <2>1, EndKeepsTypes DEF CannotOpen, StaysSilent, Refused, HookKilled
  <2> USE DEF HookTypeOK, Move
  <2>2. CASE OpensStore(p)
    BY <2>2 DEF OpensStore
  <2>3. CASE LooksForWipe(p)
    <3>1. wipeFile \in BOOLEAN
      BY DEF StoreTypeOK
    <3> QED
      BY <2>3, <3>1 DEF LooksForWipe
  <2>4. CASE ResetFails(p) \/ ClearsWipe(p) \/ CoverFails(p) \/ RecordFails(p)
    BY <2>4 DEF ResetFails, ClearsWipe, CoverFails, RecordFails
  <2>5. CASE Pends(p)
    BY <2>5 DEF Pends
  <2>6. CASE OpensSpill(p)
    BY <2>6 DEF OpensSpill
  <2> QED
    BY <2>1, <2>2, <2>3, <2>4, <2>5, <2>6
<1> QED
  BY <1>1, <1>2

\* Steps that write the index, the spill or the context.
LEMMA BusyHookSteps ==
  ASSUME TypeOK, NEW p \in Hook,
         Fires(p) \/ ResetsIds(p) \/ ResetsFiles(p) \/ ResetsBytes(p) \/ Builds(p) \/ Covers(p)
         \/ Reserves(p) \/ Notes(p) \/ Delivers(p) \/ WritesSpill(p)
  PROVE  TypeOK'
<1> USE DEF TypeOK, storeVars, fileVars, local, foldVars, accounts, ghosts
<1>1. CASE Fires(p)
  BY <1>1 DEF Fires, StoreTypeOK, HookTypeOK, FoldTypeOK, HistoryTypeOK, Move
<1>2. CASE ResetsIds(p)
  BY <1>2 DEF ResetsIds, StoreTypeOK, HookTypeOK, FoldTypeOK, HistoryTypeOK, Move
<1>3. CASE ResetsFiles(p)
  BY <1>3 DEF ResetsFiles, StoreTypeOK, HookTypeOK, FoldTypeOK, HistoryTypeOK, Move
<1>4. CASE ResetsBytes(p)
  BY <1>4 DEF ResetsBytes, StoreTypeOK, HookTypeOK, FoldTypeOK, HistoryTypeOK, Move
<1>5. CASE Builds(p)
  BY <1>5 DEF Builds, StoreTypeOK, HookTypeOK, FoldTypeOK, HistoryTypeOK, Move
<1>6. CASE Covers(p)
  BY <1>6 DEF Covers, StoreTypeOK, HookTypeOK, FoldTypeOK, HistoryTypeOK, Move
<1>7. CASE Reserves(p)
  <2>1. Cost(ids[p]) \in Nat
    BY CostIsNat DEF HookTypeOK
  <2> QED
    BY <1>7, <2>1 DEF Reserves, StoreTypeOK, HookTypeOK, FoldTypeOK, HistoryTypeOK, Move
<1>8. CASE Notes(p)
  BY <1>8 DEF Notes, StoreTypeOK, HookTypeOK, FoldTypeOK, HistoryTypeOK, Move
<1>9. CASE Delivers(p)
  <2>1. HookTypeOK'
    BY <1>9, EndKeepsTypes DEF Delivers
  <2> QED
    BY <1>9, <2>1 DEF Delivers, StoreTypeOK, HookTypeOK, FoldTypeOK, HistoryTypeOK
<1>10. CASE WritesSpill(p)
  <2>1. Out(p) \in Line /\ Out(p).ids \in SUBSET Pointer /\ Cost(Out(p).ids) \in Nat
    BY OutIsALine, CostIsNat
  <2>2. surfaced' \in Seq(Line) /\ folding' \in Seq(Line)
    BY <1>10, <2>1 DEF WritesSpill, StoreTypeOK
  <2>3. owed' \in Int /\ missed' \subseteq Pointer
    BY <1>10, <2>1 DEF WritesSpill, Owes, HistoryTypeOK
  <2>4. HookTypeOK'
    BY <1>10 DEF WritesSpill, HookTypeOK, Move, AfterSpill
  <2> QED
    BY <1>10, <2>2, <2>3, <2>4 DEF WritesSpill, StoreTypeOK, FoldTypeOK, HistoryTypeOK
<1> QED
  BY <1>1, <1>2, <1>3, <1>4, <1>5, <1>6, <1>7, <1>8, <1>9, <1>10

LEMMA FoldStepKeepsTypes ==
  ASSUME TypeOK, FoldStep
  PROVE  TypeOK'
<1> USE DEF TypeOK, storeVars, fileVars, local, hookVars, accounts, ghosts, FAt
<1>1. <<>> \in Seq(Line)
  OBVIOUS
<1>2. CASE FoldStarts \/ FoldEnds \/ FoldFails \/ FolderKilled \/ Checks
  <2>1. FoldTypeOK'
    <3>1. CASE FoldEnds \/ FoldFails \/ FolderKilled
      <4>1. GiveUp
        BY <3>1 DEF FoldEnds, FoldFails, FolderKilled
      <4>2. fpc' = "idle" /\ txn' = NoTxn /\ phase' \in 1..2 /\ done' \in Nat /\ round' \in 1..Rounds
        BY <4>1 DEF GiveUp, Rounds
      <4>3. buf' \in Seq(Line)
        BY <1>1, <4>1 DEF GiveUp
      <4> QED
        BY <4>2, <4>3 DEF FoldTypeOK
    <3>2. CASE FoldStarts
      BY <3>2 DEF FoldStarts, FoldTypeOK
    <3>3. CASE Checks
      <4>1. round' \in 1..Rounds
        BY <3>3 DEF Checks, FoldTypeOK, Rounds
      <4>2. fpc' \in {"empty", "read", "leave"} /\ txn = NoTxn
        BY <3>3 DEF Checks, FoldTypeOK
      <4> QED
        BY <3>3, <4>1, <4>2 DEF Checks, FoldTypeOK
    <3> QED
      BY <1>2, <3>1, <3>2, <3>3
  <2> QED
    BY <1>2, <2>1 DEF FoldStarts, FoldEnds, FoldFails, FolderKilled, Checks, StoreTypeOK, HookTypeOK, HistoryTypeOK
<1>3. CASE Reads
  <2>1. buf' \in Seq(Line) /\ done' \in Nat
    BY <1>3, TailIsASpill DEF Reads, StoreTypeOK, FoldTypeOK
  <2> QED
    BY <1>3, <2>1 DEF Reads, StoreTypeOK, HookTypeOK, FoldTypeOK, HistoryTypeOK
<1>4. CASE Begins
  <2>1. txn' \in Txn /\ txn'.active \subseteq txn'.known
    BY <1>4 DEF Begins, StoreTypeOK, Txn
  <2> QED
    BY <1>4, <2>1 DEF Begins, StoreTypeOK, HookTypeOK, FoldTypeOK, HistoryTypeOK
<1>5. CASE FoldsLine
  <2>1. Head(buf) \in Line /\ Tail(buf) \in Seq(Line)
    BY <1>5 DEF FoldsLine, FoldTypeOK
  <2>2. txn' \in Txn /\ txn'.active \subseteq txn'.known
    BY <1>5, <2>1, FoldedIsATransaction DEF FoldsLine, FoldTypeOK
  <2> QED
    BY <1>5, <2>1, <2>2 DEF FoldsLine, StoreTypeOK, HookTypeOK, FoldTypeOK, HistoryTypeOK
<1>6. CASE Commits
  <2>1. txn \in Txn /\ txn.active \subseteq txn.known
    BY <1>6 DEF Commits, FoldTypeOK
  <2> QED
    BY <1>6, <2>1 DEF Commits, StoreTypeOK, HookTypeOK, FoldTypeOK, HistoryTypeOK, Txn
<1>7. CASE Empties
  <2>1. Unread \subseteq Pointer
    BY TailIsASpill, IdsArePointers DEF Unread, StoreTypeOK, FoldTypeOK
  <2> QED
    BY <1>1, <1>7, <2>1 DEF Empties, StoreTypeOK, HookTypeOK, FoldTypeOK, HistoryTypeOK
<1>8. CASE Renames
  <2>1. Unread \subseteq Pointer
    BY TailIsASpill, IdsArePointers DEF Unread, StoreTypeOK, FoldTypeOK
  <2>2. surfaced' \in Seq(Line) /\ folding' \in Seq(Line) /\ missed' \subseteq Pointer
    BY <1>1, <1>8, <2>1 DEF Renames, StoreTypeOK, HistoryTypeOK
  <2>3. fd' \in [Hook -> {"none", "surfaced", "folding", "gone"}]
    BY <1>8 DEF Renames, HookTypeOK
  <2> QED
    BY <1>8, <2>2, <2>3 DEF Renames, StoreTypeOK, HookTypeOK, FoldTypeOK, HistoryTypeOK, Rounds
<1> QED
  BY <1>2, <1>3, <1>4, <1>5, <1>6, <1>7, <1>8 DEF FoldStep

LEMMA TypeStutter ==
  ASSUME TypeOK, UNCHANGED vars
  PROVE  TypeOK'
BY DEF vars, storeVars, fileVars, local, hookVars, foldVars, accounts, ghosts,
       TypeOK, StoreTypeOK, HookTypeOK, FoldTypeOK, HistoryTypeOK

\* The ledger, the spill, the hooks and the fold keep their types: an id is
\* armed only where it has a row, and a transaction is open only while the run
\* folds lines.
THEOREM InjectionTypeCorrect == Spec => []TypeOK
<1>1. TypeOK /\ [Next]_vars => TypeOK'
  BY QuietHookSteps, BusyHookSteps, FoldStepKeepsTypes, TypeStutter DEF Next, HookStep
<1> QED
  BY TypeInit, <1>1, PTL DEF Spec

(***************************************************************************)
(* The budget                                                              *)
(***************************************************************************)
\* What a transaction will write is what the table holds, and the bytes it
\* folds.
TxnAccounts == fpc = "lines" => txn.spent = spent + txn.bytes

BudgetInv == BudgetBinds /\ TxnAccounts

\* A line that is folded changes both sums by the same amount.
LEMMA FoldedAccounts ==
  ASSUME NEW line \in Line, NEW t \in Txn, NEW n \in Nat, t.spent = n + t.bytes
  PROVE  Folded(line, t).spent = n + Folded(line, t).bytes
<1>1. Cost(line.ids) \in Nat
  BY CostIsNat DEF Line
<1>2. CASE line.kind = "file"
  BY <1>2 DEF Folded, Txn
<1>3. CASE line.kind # "file"
  <2> DEFINE due == IF line.ids \subseteq t.known THEN 0 ELSE Cost(line.ids)
  <2>1. due \in Nat
    BY <1>1
  <2>2. Folded(line, t).spent = t.spent + due /\ Folded(line, t).bytes = t.bytes + due
    BY <1>3 DEF Folded
  <2> HIDE DEF due
  <2> QED
    BY <2>1, <2>2 DEF Txn
<1> QED
  BY <1>2, <1>3

LEMMA BudgetInit == Init => BudgetInv
<1> SUFFICES ASSUME Init PROVE BudgetInv
  OBVIOUS
<1>1. PICK S \in SUBSET Pointer : Cost(S) <= Cap /\ spent = Cost(S)
  BY DEF Init
<1>2. Cost(S) \in Nat /\ Cap \in Nat
  BY CostIsNat, InjectionAssumption
<1>3. spent <= Cap + folded
  BY <1>1, <1>2 DEF Init
<1>4. fpc # "lines"
  BY DEF Init
<1> QED
  BY <1>3, <1>4 DEF BudgetInv, BudgetBinds, TxnAccounts

\* Only a reset, a reservation and a commit touch what was spent.
LEMMA HookStepKeepsBudget ==
  ASSUME TypeOK, BudgetInv, NEW p \in Hook, HookStep(p)
  PROVE  BudgetInv'
<1> USE DEF storeVars, foldVars, accounts, ghosts, Free
<1>1. CASE Reserves(p)
  <2>1. fpc # "lines" /\ fpc' = fpc
    BY <1>1 DEF Reserves
  <2>2. spent' <= Cap /\ folded' = folded
    BY <1>1 DEF Reserves
  <2>3. folded \in Nat /\ Cap \in Nat /\ Cost(ids[p]) \in Nat /\ spent \in Nat
    BY CostIsNat, InjectionAssumption DEF TypeOK, HistoryTypeOK, StoreTypeOK, HookTypeOK
  <2>4. spent' \in Nat
    BY <1>1, <2>3 DEF Reserves
  <2>5. spent' <= Cap + folded'
    BY <2>2, <2>3, <2>4
  <2> QED
    BY <2>1, <2>5 DEF BudgetInv, BudgetBinds, TxnAccounts
<1>2. CASE ResetsBytes(p)
  <2>1. fpc # "lines" /\ fpc' = fpc /\ spent' = 0 /\ folded' = 0
    BY <1>2 DEF ResetsBytes
  <2>2. 0 <= Cap + 0
    BY InjectionAssumption
  <2> QED
    BY <2>1, <2>2 DEF BudgetInv, BudgetBinds, TxnAccounts
<1>3. CASE ~Reserves(p) /\ ~ResetsBytes(p)
  <2>1. UNCHANGED <<spent, folded, txn, fpc>>
    BY <1>3 DEF HookStep, Fires, CannotOpen, OpensStore, LooksForWipe, ResetsIds, ResetsFiles, ResetFails,
       ClearsWipe, Pends, StaysSilent, Builds, Covers, CoverFails, Refused, Notes, RecordFails, Delivers,
       OpensSpill, WritesSpill, HookKilled
  <2> QED
    BY <2>1 DEF BudgetInv, BudgetBinds, TxnAccounts
<1> QED
  BY <1>1, <1>2, <1>3

LEMMA FoldStepKeepsBudget ==
  ASSUME TypeOK, BudgetInv, FoldStep
  PROVE  BudgetInv'
<1> USE DEF storeVars, accounts, ghosts, FAt
<1>1. CASE Begins
  <2>1. txn'.spent = spent /\ txn'.bytes = 0 /\ spent' = spent /\ folded' = folded
    BY <1>1 DEF Begins
  <2>2. spent \in Nat
    BY DEF TypeOK, StoreTypeOK
  <2> QED
    BY <2>1, <2>2 DEF BudgetInv, BudgetBinds, TxnAccounts
<1>2. CASE FoldsLine
  <2>1. Head(buf) \in Line /\ txn \in Txn /\ spent \in Nat
    BY <1>2 DEF FoldsLine, TypeOK, FoldTypeOK, StoreTypeOK
  <2>2. txn.spent = spent + txn.bytes
    BY <1>2 DEF FoldsLine, BudgetInv, TxnAccounts
  <2>3. txn'.spent = spent + txn'.bytes
    BY <1>2, <2>1, <2>2, FoldedAccounts DEF FoldsLine
  <2> QED
    BY <1>2, <2>3 DEF FoldsLine, BudgetInv, BudgetBinds, TxnAccounts
<1>3. CASE Commits
  <2>1. spent' = spent + txn.bytes /\ folded' = folded + txn.bytes
    BY <1>3 DEF Commits, BudgetInv, TxnAccounts
  <2>2. txn.bytes \in Nat /\ spent \in Nat /\ folded \in Nat /\ Cap \in Nat
    BY <1>3, InjectionAssumption DEF Commits, TypeOK, FoldTypeOK, StoreTypeOK, HistoryTypeOK, Txn
  <2>3. spent' <= Cap + folded'
    BY <2>1, <2>2 DEF BudgetInv, BudgetBinds
  <2>4. fpc' # "lines"
    BY <1>3 DEF Commits
  <2> QED
    BY <2>3, <2>4 DEF BudgetInv, BudgetBinds, TxnAccounts
<1>4. CASE ~Begins /\ ~FoldsLine /\ ~Commits
  <2>1. UNCHANGED <<spent, folded>> /\ fpc' # "lines"
    BY <1>4 DEF FoldStep, FoldStarts, Reads, FoldFails, Checks, Empties, Renames, FoldEnds, FolderKilled, GiveUp
  <2> QED
    BY <2>1 DEF BudgetInv, BudgetBinds, TxnAccounts
<1> QED
  BY <1>1, <1>2, <1>3, <1>4

\* However many hooks read the same remaining budget, what they record never
\* takes the session past its cap; only a fold may.
THEOREM BudgetIsKept == Spec => []BudgetBinds
<1>1. TypeOK /\ BudgetInv /\ [Next]_vars => BudgetInv'
  <2>1. ASSUME BudgetInv, UNCHANGED vars
        PROVE  BudgetInv'
    BY <2>1 DEF vars, storeVars, foldVars, accounts, ghosts, BudgetInv, BudgetBinds, TxnAccounts
  <2> QED
    BY <2>1, HookStepKeepsBudget, FoldStepKeepsBudget DEF Next
<1>2. BudgetInv => BudgetBinds
  BY DEF BudgetInv
<1> QED
  BY BudgetInit, <1>1, <1>2, InjectionTypeCorrect, PTL DEF Spec

(***************************************************************************)
(* What was shown is on record                                             *)
(***************************************************************************)
OnRecord == known \cup Spilled \cup missed

\* Where a hook stands with what it is going to show.
NotedSoFar == \A p \in Hook : pc[p] = "note" => ids[p] \ todo[p] \subseteq known
ReadyToShow == \A p \in Hook : pc[p] = "deliver" => ids[p] \subseteq OnRecord
WritesSomewhere == \A p \in Hook : pc[p] \in {"write", "writefile"} => fd[p] # "none"

\* Where the fold stands with the lines it has read.
ReadLines == {i \in DOMAIN folding : i <= done}
ReadIds == UNION {folding[i].ids : i \in ReadLines}
FoldedSoFar ==
  /\ done <= Len(folding)
  /\ fpc \in {"idle", "read", "check", "empty", "leave"} => ReadIds \subseteq known
  /\ fpc = "begin" => ReadIds \subseteq known \cup IdsOf(buf)
  /\ fpc = "lines" => ReadIds \subseteq txn.known \cup IdsOf(buf) /\ known \subseteq txn.known

RecordInv ==
  /\ NothingShownIsForgotten /\ NotedSoFar /\ ReadyToShow /\ WritesSomewhere /\ FoldedSoFar

LEMMA AppendedIds ==
  ASSUME NEW s \in Seq(Line), NEW line \in Line
  PROVE  IdsOf(Append(s, line)) = IdsOf(s) \cup line.ids
<1> DEFINE t == Append(s, line)
<1>1. DOMAIN t = DOMAIN s \cup {Len(s) + 1} /\ t[Len(s) + 1] = line
  OBVIOUS
<1>2. \A i \in DOMAIN s : t[i] = s[i]
  OBVIOUS
<1> HIDE DEF t
<1> QED
  BY <1>1, <1>2 DEF IdsOf

LEMMA HeadAndTailIds ==
  ASSUME NEW s \in Seq(Line), s # <<>>
  PROVE  IdsOf(s) \subseteq Head(s).ids \cup IdsOf(Tail(s))
<1> SUFFICES ASSUME NEW i \in DOMAIN s
             PROVE  s[i].ids \subseteq Head(s).ids \cup IdsOf(Tail(s))
  BY DEF IdsOf
<1>1. CASE i = 1
  BY <1>1
<1>2. CASE i # 1
  <2>1. i - 1 \in DOMAIN Tail(s) /\ Tail(s)[i - 1] = s[i]
    BY <1>2
  <2> QED
    BY <2>1 DEF IdsOf
<1> QED
  BY <1>1, <1>2

\* A line of the file has been read, or is among those that follow.
LEMMA ReadOrUnread ==
  ASSUME TypeOK
  PROVE  IdsOf(folding) \subseteq ReadIds \cup Unread
<1> DEFINE rest == SubSeq(folding, done + 1, Len(folding))
<1>0. folding \in Seq(Line) /\ done \in Nat
  BY DEF TypeOK, StoreTypeOK, FoldTypeOK
<1> SUFFICES ASSUME NEW i \in DOMAIN folding
             PROVE  folding[i].ids \subseteq ReadIds \cup IdsOf(rest)
  BY DEF IdsOf, Unread
<1>1. CASE i <= done
  BY <1>1 DEF ReadIds, ReadLines
<1>2. CASE ~(i <= done)
  <2>1. i - done \in DOMAIN rest /\ rest[i - done] = folding[i]
    BY <1>0, <1>2
  <2> HIDE DEF rest
  <2> QED
    BY <2>1 DEF IdsOf
<1> QED
  BY <1>1, <1>2

\* At the start of a file nothing is read.
LEMMA NothingRead ==
  ASSUME folding' \in Seq(Line), done' = 0
  PROVE  ReadIds' = {}
<1>1. ReadLines' = {}
  BY DEF ReadLines
<1> QED
  BY <1>1 DEF ReadIds

LEMMA NoIds == IdsOf(<<>>) = {}
BY DEF IdsOf

(***************************************************************************)
(* How a hook's step moves what it is going to show                        *)
(***************************************************************************)
LEMMA HookStepIsLocal ==
  ASSUME TypeOK, NEW p \in Hook, HookStep(p), NEW q \in Hook, q # p
  PROVE  pc'[q] = pc[q] /\ ids'[q] = ids[q] /\ todo'[q] = todo[q] /\ fd'[q] = fd[q]
<1> USE DEF TypeOK, HookTypeOK, Move, End, local
<1>1. CASE \/ Fires(p) \/ CannotOpen(p) \/ OpensStore(p) \/ LooksForWipe(p) \/ ResetsIds(p)
           \/ ResetsFiles(p) \/ ResetsBytes(p) \/ ResetFails(p) \/ ClearsWipe(p) \/ Pends(p)
  BY <1>1 DEF Fires, CannotOpen, OpensStore, LooksForWipe, ResetsIds, ResetsFiles, ResetsBytes,
     ResetFails, ClearsWipe, Pends
<1>2. CASE \/ StaysSilent(p) \/ Builds(p) \/ Covers(p) \/ CoverFails(p) \/ Reserves(p)
           \/ Refused(p) \/ Notes(p) \/ RecordFails(p) \/ Delivers(p)
  BY <1>2 DEF StaysSilent, Builds, Covers, CoverFails, Reserves, Refused, Notes, RecordFails, Delivers
<1>3. CASE OpensSpill(p) \/ WritesSpill(p) \/ HookKilled(p)
  BY <1>3 DEF OpensSpill, WritesSpill, HookKilled
<1> QED
  BY <1>1, <1>2, <1>3 DEF HookStep

\* Which steps lead to the places the invariant speaks of.
LEMMA HowAHookGetsThere ==
  ASSUME TypeOK, NEW p \in Hook, HookStep(p)
  PROVE  /\ pc'[p] = "deliver" => Notes(p) \/ WritesSpill(p)
         /\ pc'[p] = "note" => Reserves(p) \/ Notes(p)
         /\ pc'[p] \in {"write", "writefile"} => OpensSpill(p)
<1> USE DEF TypeOK, HookTypeOK, Move, End
<1>1. CASE \/ Fires(p) \/ CannotOpen(p) \/ OpensStore(p) \/ LooksForWipe(p) \/ ResetsIds(p)
           \/ ResetsFiles(p) \/ ResetsBytes(p) \/ ResetFails(p) \/ ClearsWipe(p) \/ Pends(p)
  BY <1>1 DEF Fires, CannotOpen, OpensStore, LooksForWipe, ResetsIds, ResetsFiles, ResetsBytes,
     ResetFails, ClearsWipe, Pends
<1>2. CASE \/ StaysSilent(p) \/ Builds(p) \/ Covers(p) \/ CoverFails(p)
           \/ Refused(p) \/ RecordFails(p) \/ Delivers(p) \/ HookKilled(p)
  BY <1>2 DEF StaysSilent, Builds, Covers, CoverFails, Refused, RecordFails, Delivers, HookKilled
<1>3. CASE Reserves(p) \/ Notes(p)
  BY <1>3 DEF Reserves, Notes
<1>4. CASE OpensSpill(p)
  BY <1>4 DEF OpensSpill
<1>5. CASE WritesSpill(p)
  BY <1>5 DEF WritesSpill, AfterSpill
<1> QED
  BY <1>1, <1>2, <1>3, <1>4, <1>5 DEF HookStep

\* A row is never removed, not even by a reset.
LEMMA HookStepKeepsRows ==
  ASSUME NEW p \in Hook, HookStep(p)
  PROVE  /\ known \subseteq known'
         /\ ~Notes(p) => known' = known
         /\ UNCHANGED foldVars
         /\ ~WritesSpill(p) => UNCHANGED <<surfaced, folding, missed>>
<1> USE DEF storeVars, fileVars, accounts, ghosts
<1>1. CASE \/ Fires(p) \/ CannotOpen(p) \/ OpensStore(p) \/ LooksForWipe(p) \/ ResetsIds(p)
           \/ ResetsFiles(p) \/ ResetsBytes(p) \/ ResetFails(p) \/ ClearsWipe(p) \/ Pends(p)
  BY <1>1 DEF Fires, CannotOpen, OpensStore, LooksForWipe, ResetsIds, ResetsFiles, ResetsBytes,
     ResetFails, ClearsWipe, Pends
<1>2. CASE \/ StaysSilent(p) \/ Builds(p) \/ Covers(p) \/ CoverFails(p) \/ Reserves(p)
           \/ Refused(p) \/ Notes(p) \/ RecordFails(p) \/ Delivers(p)
  BY <1>2 DEF StaysSilent, Builds, Covers, CoverFails, Reserves, Refused, Notes, RecordFails, Delivers
<1>3. CASE OpensSpill(p) \/ WritesSpill(p) \/ HookKilled(p)
  BY <1>3 DEF OpensSpill, WritesSpill, HookKilled
<1> QED
  BY <1>1, <1>2, <1>3 DEF HookStep

\* A spilled line goes to a file that will be read, or counts as missed.
LEMMA WriteIsOnRecord ==
  ASSUME TypeOK, RecordInv, NEW p \in Hook, WritesSpill(p)
  PROVE  OnRecord \cup Out(p).ids \subseteq OnRecord'
<1> USE DEF storeVars
<1>1. Out(p) \in Line
  BY OutIsALine DEF TypeOK
<1>2. surfaced \in Seq(Line) /\ folding \in Seq(Line)
  BY DEF TypeOK, StoreTypeOK
<1>3. fd[p] \in {"surfaced", "folding", "gone"}
  BY DEF WritesSpill, RecordInv, WritesSomewhere, TypeOK, HookTypeOK
<1>4. known' = known
  BY DEF WritesSpill
<1>5. CASE fd[p] = "surfaced"
  <2>1. IdsOf(surfaced') = IdsOf(surfaced) \cup Out(p).ids /\ folding' = folding /\ missed' = missed
    BY <1>1, <1>2, <1>5, AppendedIds DEF WritesSpill
  <2> QED
    BY <1>4, <2>1 DEF OnRecord, Spilled
<1>6. CASE fd[p] = "folding"
  <2>1. IdsOf(folding') = IdsOf(folding) \cup Out(p).ids /\ surfaced' = surfaced /\ missed' = missed
    BY <1>1, <1>2, <1>6, AppendedIds DEF WritesSpill
  <2> QED
    BY <1>4, <2>1 DEF OnRecord, Spilled
<1>7. CASE fd[p] = "gone"
  <2>1. missed' = missed \cup Out(p).ids /\ surfaced' = surfaced /\ folding' = folding
    BY <1>7 DEF WritesSpill
  <2> QED
    BY <1>4, <2>1 DEF OnRecord, Spilled
<1> QED
  BY <1>3, <1>5, <1>6, <1>7

LEMMA HookStepKeepsRecord ==
  ASSUME TypeOK, RecordInv, NEW p \in Hook, HookStep(p)
  PROVE  OnRecord \subseteq OnRecord'
<1>1. CASE WritesSpill(p)
  BY <1>1, WriteIsOnRecord
<1>2. CASE ~WritesSpill(p)
  BY <1>2, HookStepKeepsRows DEF OnRecord, Spilled
<1> QED
  BY <1>1, <1>2

\* A hook's write can only add to a file the fold has read up to `done`.
LEMMA HookStepKeepsFold ==
  ASSUME TypeOK, RecordInv, NEW p \in Hook, HookStep(p)
  PROVE  FoldedSoFar'
<1> USE DEF foldVars
<1>1. UNCHANGED foldVars /\ known \subseteq known'
  BY HookStepKeepsRows
<1>2. folding \in Seq(Line) /\ done \in Nat /\ done <= Len(folding)
  BY DEF TypeOK, StoreTypeOK, FoldTypeOK, RecordInv, FoldedSoFar
<1>3. done' <= Len(folding') /\ ReadIds' = ReadIds
  <2>1. CASE folding' = folding
    BY <1>1, <1>2, <2>1 DEF ReadIds, ReadLines
  <2>2. CASE folding' # folding
    <3>1. WritesSpill(p) /\ folding' = Append(folding, Out(p))
      BY <2>2, HookStepKeepsRows DEF WritesSpill
    <3>2. Out(p) \in Line
      BY OutIsALine DEF TypeOK
    <3>3. Len(folding') = Len(folding) + 1 /\ DOMAIN folding' = DOMAIN folding \cup {Len(folding) + 1}
      BY <1>2, <3>1, <3>2
    <3>4. \A i \in DOMAIN folding : folding'[i] = folding[i]
      BY <1>2, <3>1, <3>2
    <3>5. ReadLines' = ReadLines
      BY <1>1, <1>2, <3>3 DEF ReadLines
    <3>6. ReadIds' = ReadIds
      BY <3>4, <3>5 DEF ReadIds, ReadLines
    <3> QED
      BY <1>1, <1>2, <3>3, <3>6
  <2> QED
    BY <2>1, <2>2
<1>4. fpc = "lines" => known' = known
  BY HookStepKeepsRows DEF Notes, Free
<1> QED
  BY <1>1, <1>3, <1>4 DEF RecordInv, FoldedSoFar

LEMMA HookStepKeepsRecordInv ==
  ASSUME TypeOK, RecordInv, NEW p \in Hook, HookStep(p)
  PROVE  RecordInv'
<1> USE DEF storeVars, Move
<1>1. OnRecord \subseteq OnRecord' /\ known \subseteq known'
  BY HookStepKeepsRecord, HookStepKeepsRows
<1>2. NothingShownIsForgotten'
  <2>1. CASE Delivers(p)
    <3>1. shown' = shown \cup ids[p] /\ pc[p] = "deliver"
      BY <2>1 DEF Delivers, Is
    <3> QED
      BY <1>1, <3>1 DEF RecordInv, ReadyToShow, NothingShownIsForgotten, OnRecord
  <2>2. CASE ~Delivers(p)
    <3>1. shown' = shown
      BY <2>2 DEF HookStep, Fires, CannotOpen, OpensStore, LooksForWipe, ResetsIds, ResetsFiles, ResetsBytes,
         ResetFails, ClearsWipe, Pends, StaysSilent, Builds, Covers, CoverFails, Reserves, Refused, Notes,
         RecordFails, OpensSpill, WritesSpill, HookKilled, ghosts
    <3> QED
      BY <1>1, <3>1 DEF RecordInv, NothingShownIsForgotten, OnRecord
  <2> QED
    BY <2>1, <2>2
<1>3. NotedSoFar'
  <2> SUFFICES ASSUME NEW q \in Hook, pc'[q] = "note"
               PROVE  ids'[q] \ todo'[q] \subseteq known'
    BY DEF NotedSoFar
  <2>1. CASE q # p
    BY <1>1, <2>1, HookStepIsLocal DEF RecordInv, NotedSoFar
  <2>2. CASE q = p /\ Reserves(p)
    BY <2>2 DEF Reserves, TypeOK, HookTypeOK
  <2>3. CASE q = p /\ Notes(p)
    BY <2>3 DEF Notes, Is, TypeOK, HookTypeOK, RecordInv, NotedSoFar
  <2> QED
    BY <2>1, <2>2, <2>3, HowAHookGetsThere
<1>4. ReadyToShow'
  <2> SUFFICES ASSUME NEW q \in Hook, pc'[q] = "deliver"
               PROVE  ids'[q] \subseteq OnRecord'
    BY DEF ReadyToShow
  <2>1. CASE q # p
    BY <1>1, <2>1, HookStepIsLocal DEF RecordInv, ReadyToShow
  <2>2. CASE q = p /\ Notes(p)
    <3>1. PICK i \in todo[p] : known' = known \cup {i} /\ pc' = [pc EXCEPT ![p] = IF todo[p] = {i} THEN "deliver" ELSE "note"]
      BY <2>2 DEF Notes
    <3>2. todo[p] = {i}
      BY <2>2, <3>1 DEF TypeOK, HookTypeOK
    <3>3. ids[p] \ todo[p] \subseteq known /\ ids' = ids
      BY <2>2 DEF Notes, Is, RecordInv, NotedSoFar
    <3>4. ids'[p] \subseteq known'
      BY <3>1, <3>2, <3>3
    <3> QED
      BY <2>2, <3>4 DEF OnRecord
  <2>3. CASE q = p /\ WritesSpill(p)
    <3>1. pc[p] = "write" /\ ids' = ids
      BY <2>3 DEF WritesSpill, AfterSpill, Out, TypeOK, HookTypeOK
    <3>2. Out(p).ids = ids[p]
      BY <3>1 DEF Out
    <3> QED
      BY <2>3, <3>1, <3>2, WriteIsOnRecord
  <2> QED
    BY <2>1, <2>2, <2>3, HowAHookGetsThere
<1>5. WritesSomewhere'
  <2> SUFFICES ASSUME NEW q \in Hook, pc'[q] \in {"write", "writefile"}
               PROVE  fd'[q] # "none"
    BY DEF WritesSomewhere
  <2>1. CASE q # p
    BY <2>1, HookStepIsLocal DEF RecordInv, WritesSomewhere
  <2>2. CASE q = p
    <3>1. OpensSpill(p)
      BY <2>2, HowAHookGetsThere
    <3> QED
      BY <2>2, <3>1 DEF OpensSpill, TypeOK, HookTypeOK
  <2> QED
    BY <2>1, <2>2
<1> QED
  BY <1>2, <1>3, <1>4, <1>5, HookStepKeepsFold DEF RecordInv

\* The fold drops a line only once its ids have rows, or counts it as missed.
LEMMA FoldStepKeepsRecord ==
  ASSUME TypeOK, RecordInv, FoldStep
  PROVE  OnRecord \subseteq OnRecord' /\ known \subseteq known'
<1> USE DEF storeVars, fileVars, accounts, ghosts, FAt
<1>1. CASE Commits
  <2>1. known \subseteq known'
    BY <1>1 DEF Commits, RecordInv, FoldedSoFar
  <2> QED
    BY <1>1, <2>1 DEF Commits, OnRecord, Spilled
<1>2. CASE Empties
  <2>1. IdsOf(folding) \subseteq known \cup missed'
    <3>1. ReadIds \subseteq known /\ missed' = missed \cup Unread
      BY <1>2 DEF Empties, RecordInv, FoldedSoFar
    <3> QED
      BY <3>1, ReadOrUnread
  <2> QED
    BY <1>2, <2>1 DEF Empties, OnRecord, Spilled
<1>3. CASE Renames
  <2>1. CASE SpillExists
    <3>1. folding' = surfaced /\ missed' = missed \cup Unread /\ known' = known
      BY <1>3, <2>1 DEF Renames
    <3>2. IdsOf(folding) \subseteq known \cup missed'
      <4>1. ReadIds \subseteq known
        BY <1>3 DEF Renames, RecordInv, FoldedSoFar
      <4> QED
        BY <3>1, <4>1, ReadOrUnread
    <3>3. IdsOf(surfaced) \subseteq Spilled'
      BY <3>1 DEF Spilled
    <3> QED
      BY <3>1, <3>2, <3>3 DEF OnRecord, Spilled
  <2>2. CASE ~SpillExists
    BY <1>3, <2>2 DEF Renames, OnRecord, Spilled
  <2> QED
    BY <2>1, <2>2
<1>4. CASE ~Commits /\ ~Empties /\ ~Renames
  <2>1. UNCHANGED <<known, surfaced, folding, missed>>
    BY <1>4 DEF FoldStep, FoldStarts, Reads, Begins, FoldsLine, FoldFails, Checks, FoldEnds, FolderKilled
  <2> QED
    BY <2>1 DEF OnRecord, Spilled
<1> QED
  BY <1>1, <1>2, <1>3, <1>4

LEMMA FoldStepKeepsFold ==
  ASSUME TypeOK, RecordInv, FoldStep
  PROVE  FoldedSoFar'
<1> USE DEF storeVars, fileVars, accounts, ghosts, FAt
<1>0. /\ folding \in Seq(Line) /\ surfaced \in Seq(Line) /\ buf \in Seq(Line)
      /\ done \in Nat /\ done <= Len(folding)
  BY DEF TypeOK, StoreTypeOK, FoldTypeOK, RecordInv, FoldedSoFar
<1>1. CASE FoldStarts \/ Checks
  <2>1. UNCHANGED <<known, folding, done>> /\ fpc \in {"idle", "check"} /\ fpc' \in {"read", "empty", "leave"}
    BY <1>1 DEF FoldStarts, Checks
  <2>2. ReadIds' = ReadIds
    BY <2>1 DEF ReadIds, ReadLines
  <2> QED
    BY <1>0, <2>1, <2>2 DEF RecordInv, FoldedSoFar
<1>2. CASE Reads
  <2>1. ReadIds' \subseteq IdsOf(folding)
    BY <1>2 DEF Reads, ReadIds, ReadLines, IdsOf
  <2>2. buf' = SubSeq(folding, done + 1, Len(folding)) /\ known' = known /\ fpc' = "begin" /\ fpc = "read"
        /\ done' = Len(folding) /\ folding' = folding
    BY <1>2 DEF Reads
  <2>3. IdsOf(folding) \subseteq ReadIds \cup IdsOf(buf')
    BY <2>2, ReadOrUnread DEF Unread
  <2>4. done' <= Len(folding')
    BY <1>0, <2>2
  <2> QED
    BY <2>1, <2>2, <2>3, <2>4 DEF RecordInv, FoldedSoFar
<1>3. CASE Begins
  <2>1. ReadIds' = ReadIds /\ IdsOf(buf') = IdsOf(buf) /\ txn'.known = known /\ known' = known
        /\ fpc = "begin" /\ fpc' = "lines" /\ done' = done /\ folding' = folding
    BY <1>3 DEF Begins, ReadIds, ReadLines
  <2> QED
    BY <2>1 DEF RecordInv, FoldedSoFar
<1>4. CASE FoldsLine
  <2>1. ReadIds' = ReadIds /\ known' = known /\ fpc = "lines" /\ fpc' = "lines" /\ done' = done /\ folding' = folding
    BY <1>4 DEF FoldsLine, ReadIds, ReadLines
  <2>2. Head(buf) \in Line
    BY <1>0, <1>4 DEF FoldsLine
  <2>3. txn'.known = txn.known \cup Head(buf).ids
    <3>1. CASE Head(buf).kind = "file"
      <4>1. Head(buf).ids = {}
        BY <2>2, <3>1 DEF Line
      <4>2. txn'.known = txn.known
        BY <1>4, <3>1 DEF FoldsLine, Folded, TypeOK, FoldTypeOK, Txn
      <4> QED
        BY <4>1, <4>2
    <3>2. CASE Head(buf).kind # "file"
      BY <1>4, <3>2 DEF FoldsLine, Folded
    <3> QED
      BY <3>1, <3>2
  <2>4. IdsOf(buf) \subseteq Head(buf).ids \cup IdsOf(buf')
    BY <1>0, <1>4, HeadAndTailIds DEF FoldsLine
  <2> QED
    BY <2>1, <2>3, <2>4 DEF RecordInv, FoldedSoFar
<1>5. CASE Commits
  <2>1. ReadIds' = ReadIds /\ known' = txn.known /\ fpc = "lines" /\ fpc' \in {"leave", "check"} /\ done' = done
        /\ folding' = folding /\ IdsOf(buf) = {}
    BY <1>5, NoIds DEF Commits, ReadIds, ReadLines
  <2> QED
    BY <2>1 DEF RecordInv, FoldedSoFar
<1>6. CASE Empties \/ Renames \/ FoldEnds \/ FoldFails \/ FolderKilled
  <2>1. folding' \in Seq(Line) /\ done' = 0 /\ fpc' \in {"leave", "read", "idle"}
    <3>1. <<>> \in Seq(Line)
      OBVIOUS
    <3>2. folding' \in {<<>>, surfaced, folding}
      BY <1>6 DEF Empties, Renames, FoldEnds, FoldFails, FolderKilled
    <3>3. done' = 0 /\ fpc' \in {"leave", "read", "idle"}
      BY <1>6 DEF Empties, Renames, FoldEnds, FoldFails, FolderKilled, GiveUp
    <3> QED
      BY <1>0, <3>1, <3>2, <3>3
  <2>2. ReadIds' = {} /\ 0 <= Len(folding')
    BY <2>1, NothingRead
  <2> QED
    BY <2>1, <2>2 DEF FoldedSoFar
<1> QED
  BY <1>1, <1>2, <1>3, <1>4, <1>5, <1>6 DEF FoldStep

LEMMA FoldStepKeepsRecordInv ==
  ASSUME TypeOK, RecordInv, FoldStep
  PROVE  RecordInv'
<1>1. OnRecord \subseteq OnRecord' /\ known \subseteq known'
  BY FoldStepKeepsRecord
<1>2. UNCHANGED <<pc, ids, todo, shown>>
  BY DEF FoldStep, FoldStarts, Reads, Begins, FoldsLine, Commits, FoldFails, Checks, Empties, Renames,
     FoldEnds, FolderKilled, hookVars, local, ghosts
<1>3. NothingShownIsForgotten' /\ NotedSoFar' /\ ReadyToShow'
  BY <1>1, <1>2 DEF RecordInv, NothingShownIsForgotten, NotedSoFar, ReadyToShow, OnRecord
<1>4. WritesSomewhere'
  <2>1. CASE Renames
    BY <1>2, <2>1 DEF Renames, RecordInv, WritesSomewhere, TypeOK, HookTypeOK
  <2>2. CASE ~Renames
    <3>1. fd' = fd
      BY <2>2 DEF FoldStep, FoldStarts, Reads, Begins, FoldsLine, Commits, FoldFails, Checks, Empties,
         FoldEnds, FolderKilled, hookVars, local
    <3> QED
      BY <1>2, <3>1 DEF RecordInv, WritesSomewhere
  <2> QED
    BY <2>1, <2>2
<1> QED
  BY <1>3, <1>4, FoldStepKeepsFold DEF RecordInv

LEMMA RecordInit == Init => RecordInv
<1> SUFFICES ASSUME Init PROVE RecordInv
  OBVIOUS
<1>1. shown = known
  BY DEF Init
<1>2. NothingShownIsForgotten
  BY <1>1 DEF NothingShownIsForgotten
<1>3. NotedSoFar /\ ReadyToShow /\ WritesSomewhere
  BY DEF Init, NotedSoFar, ReadyToShow, WritesSomewhere
<1>4. FoldedSoFar
  <2>1. folding = <<>> /\ done = 0 /\ fpc = "idle"
    BY DEF Init
  <2>2. ReadIds = {} /\ done <= Len(folding)
    BY <2>1 DEF ReadIds, ReadLines
  <2> QED
    BY <2>1, <2>2 DEF FoldedSoFar
<1> QED
  BY <1>2, <1>3, <1>4 DEF RecordInv

\* Whatever the agent was shown has a row, or waits in a spill file, however
\* often the fold fails or is killed - but for lines that came too late.
THEOREM ShownIsOnRecord == Spec => []NothingShownIsForgotten
<1>1. TypeOK /\ RecordInv /\ [Next]_vars => RecordInv'
  <2>1. ASSUME RecordInv, UNCHANGED vars
        PROVE  RecordInv'
    BY <2>1 DEF vars, storeVars, fileVars, hookVars, local, foldVars, accounts, ghosts, RecordInv,
       NothingShownIsForgotten, Spilled, NotedSoFar, ReadyToShow, OnRecord, WritesSomewhere, FoldedSoFar,
       ReadIds, ReadLines
  <2> QED
    BY <2>1, HookStepKeepsRecordInv, FoldStepKeepsRecordInv DEF Next
<1>2. RecordInv => NothingShownIsForgotten
  BY DEF RecordInv
<1> QED
  BY RecordInit, <1>1, <1>2, InjectionTypeCorrect, PTL DEF Spec
(***************************************************************************)
(* Bytes are owed once                                                     *)
(***************************************************************************)
\* Each pointer of each line of a file that shows an id without a row: what a
\* fold of the file may still charge.
Pending(f, rec) ==
  {e \in (1..Len(f)) \X Pointer : e[2] \in f[e[1]].ids /\ ~(f[e[1]].ids \subseteq rec)}
Due(rec) == Cardinality(Pending(surfaced, rec)) + Cardinality(Pending(folding, rec))

\* The lines a fold goes through are the last it has read of the file.
BufIsOfTheFile ==
  fpc \in {"begin", "lines"} =>
    /\ Len(buf) <= done /\ done <= Len(folding)
    /\ \A i \in 1..Len(buf) : buf[i] = folding[done - Len(buf) + i]

\* What was spilled and not yet folded pays for all that is still due, also as
\* it will be when the open transaction is committed.
CoveredByDebt == owed >= Due(known)
CoveredInTxn  == fpc = "lines" => owed >= Due(txn.known) + txn.bytes /\ known \subseteq txn.known

DebtInv == BufIsOfTheFile /\ CoveredByDebt /\ CoveredInTxn

LEMMA PendingIsFinite ==
  ASSUME NEW f \in Seq(Line), NEW rec
  PROVE  IsFiniteSet(Pending(f, rec)) /\ Cardinality(Pending(f, rec)) \in Nat
<1>1. IsFiniteSet(1..Len(f)) /\ IsFiniteSet(Pointer)
  BY FS_Interval, InjectionAssumption
<1>2. IsFiniteSet((1..Len(f)) \X Pointer)
  BY <1>1, FS_Product
<1>3. Pending(f, rec) \in SUBSET ((1..Len(f)) \X Pointer)
  BY DEF Pending
<1>4. IsFiniteSet(Pending(f, rec))
  BY <1>2, <1>3, FS_Subset
<1> QED
  BY <1>4, FS_CardinalityType

LEMMA NothingIsPending ==
  ASSUME NEW rec
  PROVE  Cardinality(Pending(<<>>, rec)) = 0
<1>1. Pending(<<>>, rec) = {}
  BY DEF Pending
<1> QED
  BY <1>1, FS_EmptySet

\* The more rows there are, the less is due.
LEMMA RowsPay ==
  ASSUME NEW f \in Seq(Line), NEW rec, NEW more, rec \subseteq more
  PROVE  Cardinality(Pending(f, more)) <= Cardinality(Pending(f, rec))
<1>1. Pending(f, more) \in SUBSET Pending(f, rec)
  BY DEF Pending
<1> QED
  BY <1>1, PendingIsFinite, FS_Subset

\* The pointers of one line, each with its line.
LEMMA PairsOfALine ==
  ASSUME NEW i \in Nat, NEW S \in SUBSET Pointer
  PROVE  IsFiniteSet({i} \X S) /\ Cardinality({i} \X S) = Cost(S)
<1>1. IsFiniteSet({i}) /\ Cardinality({i}) = 1
  BY FS_Singleton
<1>2. IsFiniteSet(S) /\ Cost(S) \in Nat
  BY InjectionAssumption, FS_Subset, CostIsNat
<1>3. IsFiniteSet({i} \X S) /\ Cardinality({i} \X S) = 1 * Cost(S)
  BY <1>1, <1>2, FS_Product DEF Cost
<1> QED
  BY <1>2, <1>3

\* A new line adds no more than it shows.
LEMMA AppendedIsDue ==
  ASSUME NEW f \in Seq(Line), NEW line \in Line, NEW rec
  PROVE  Cardinality(Pending(Append(f, line), rec)) <= Cardinality(Pending(f, rec)) + Cost(line.ids)
<1> DEFINE g == Append(f, line)
           n == Len(f) + 1
<1>1. g \in Seq(Line) /\ Len(g) = n /\ g[n] = line /\ \A i \in 1..Len(f) : g[i] = f[i]
  OBVIOUS
<1>2. line.ids \in SUBSET Pointer /\ Len(f) \in Nat /\ n \in Nat
  BY DEF Line
<1> HIDE DEF g, n
<1>3. Pending(g, rec) \subseteq Pending(f, rec) \cup ({n} \X line.ids)
  <2> SUFFICES ASSUME NEW i \in 1..Len(g), NEW x \in Pointer, x \in g[i].ids, ~(g[i].ids \subseteq rec)
               PROVE  <<i, x>> \in Pending(f, rec) \cup ({n} \X line.ids)
    BY DEF Pending
  <2>1. CASE i = n
    BY <1>1, <2>1
  <2>2. CASE i # n
    <3>1. i \in 1..Len(f)
      BY <1>1, <1>2, <2>2 DEF n
    <3> QED
      BY <1>1, <3>1 DEF Pending
  <2> QED
    BY <2>1, <2>2
<1>4. /\ IsFiniteSet(Pending(f, rec)) /\ Cardinality(Pending(f, rec)) \in Nat
      /\ IsFiniteSet({n} \X line.ids) /\ Cardinality({n} \X line.ids) = Cost(line.ids)
  BY <1>2, PendingIsFinite, PairsOfALine
<1> DEFINE A == Pending(f, rec)
           B == {n} \X line.ids
<1>5. /\ IsFiniteSet(A \cup B)
      /\ Cardinality(A \cup B) = Cardinality(A) + Cardinality(B) - Cardinality(A \cap B)
  BY <1>4, FS_Union
<1>6. Cardinality(A \cap B) \in Nat
  BY <1>4, FS_Intersection, FS_CardinalityType
<1>7. Cardinality(Pending(g, rec)) <= Cardinality(A \cup B)
  BY <1>3, <1>5, FS_Subset
<1>8. Cardinality(Pending(g, rec)) \in Nat /\ Cost(line.ids) \in Nat
  BY <1>1, <1>2, PendingIsFinite, CostIsNat
<1> HIDE DEF A, B
<1> QED
  BY <1>4, <1>5, <1>6, <1>7, <1>8 DEF A, B, g

\* A line that is folded is due no more.
LEMMA FoldedIsPaid ==
  ASSUME NEW f \in Seq(Line), NEW rec, NEW i \in 1..Len(f), ~(f[i].ids \subseteq rec)
  PROVE  Cardinality(Pending(f, rec \cup f[i].ids)) + Cost(f[i].ids) <= Cardinality(Pending(f, rec))
<1> DEFINE A == Pending(f, rec \cup f[i].ids)
           B == {i} \X f[i].ids
           C == Pending(f, rec)
<1>1. f[i].ids \in SUBSET Pointer /\ i \in Nat
  BY DEF Line
<1>2. A \cup B \in SUBSET C
  BY <1>1 DEF Pending
<1>3. A \cap B = {}
  BY DEF Pending
<1>4. IsFiniteSet(A) /\ Cardinality(A) \in Nat /\ IsFiniteSet(C) /\ Cardinality(C) \in Nat
  BY PendingIsFinite
<1>5. IsFiniteSet(B) /\ Cardinality(B) = Cost(f[i].ids) /\ Cost(f[i].ids) \in Nat
  BY <1>1, PairsOfALine, CostIsNat
<1> HIDE DEF A, B, C
<1>6. Cardinality(A \cup B) = Cardinality(A) + Cardinality(B) - Cardinality(A \cap B)
  BY <1>4, <1>5, FS_Union
<1>7. Cardinality(A \cap B) = 0
  BY <1>3, FS_EmptySet
<1>8. Cardinality(A \cup B) <= Cardinality(C)
  BY <1>2, <1>4, FS_Subset
<1>9. Cardinality(A) + Cost(f[i].ids) <= Cardinality(C)
  BY <1>4, <1>5, <1>6, <1>7, <1>8
<1> QED
  BY <1>9 DEF A, C

LEMMA DebtsAreNumbers ==
  ASSUME TypeOK
  PROVE  /\ surfaced \in Seq(Line) /\ folding \in Seq(Line) /\ buf \in Seq(Line) /\ owed \in Int /\ done \in Nat
         /\ \A rec : Cardinality(Pending(surfaced, rec)) \in Nat /\ Cardinality(Pending(folding, rec)) \in Nat
         /\ fpc = "lines" => txn.bytes \in Nat
<1>1. surfaced \in Seq(Line) /\ folding \in Seq(Line) /\ buf \in Seq(Line) /\ owed \in Int /\ done \in Nat
  BY DEF TypeOK, StoreTypeOK, FoldTypeOK, HistoryTypeOK
<1> QED
  BY <1>1, PendingIsFinite DEF TypeOK, FoldTypeOK, Txn

\* A spilled line is owed as far as it will ever be due.
LEMMA WriteIsOwed ==
  ASSUME TypeOK, NEW p \in Hook, WritesSpill(p), NEW rec
  PROVE  /\ owed' \in Int /\ owed' - owed \in Nat
         /\ Cardinality(Pending(surfaced', rec)) \in Nat /\ Cardinality(Pending(folding', rec)) \in Nat
         /\ Cardinality(Pending(surfaced', rec)) + Cardinality(Pending(folding', rec)) + owed <= Due(rec) + owed'
<1> DEFINE line == Out(p)
<1>1. line \in Line /\ Cost(line.ids) \in Nat
  BY OutIsALine, CostIsNat DEF TypeOK
<1>2. owed' = owed + Cost(line.ids)
  BY DEF WritesSpill, Owes
<1>3. /\ surfaced' = surfaced \/ surfaced' = Append(surfaced, line)
      /\ folding' = folding \/ folding' = Append(folding, line)
      /\ surfaced' = surfaced \/ folding' = folding
  BY DEF WritesSpill
<1> HIDE DEF line
<1> DEFINE S == Cardinality(Pending(surfaced, rec))
           F == Cardinality(Pending(folding, rec))
           S1 == Cardinality(Pending(surfaced', rec))
           F1 == Cardinality(Pending(folding', rec))
<1>4. owed \in Int /\ S \in Nat /\ F \in Nat
  BY DebtsAreNumbers
<1>5. S1 \in Nat /\ F1 \in Nat
  <2>1. Append(surfaced, line) \in Seq(Line) /\ Append(folding, line) \in Seq(Line)
    BY <1>1, DebtsAreNumbers
  <2>2. surfaced' \in Seq(Line) /\ folding' \in Seq(Line)
    BY <1>3, <2>1, DebtsAreNumbers
  <2> QED
    BY <2>2, PendingIsFinite
<1>6. S1 = S \/ (S1 <= S + Cost(line.ids) /\ F1 = F)
  BY <1>1, <1>3, AppendedIsDue, DebtsAreNumbers
<1>7. F1 = F \/ F1 <= F + Cost(line.ids)
  BY <1>1, <1>3, AppendedIsDue, DebtsAreNumbers
<1>8. Due(rec) = S + F
  BY DEF Due
<1> HIDE DEF S, F, S1, F1
<1>9. S1 + F1 + owed <= S + F + owed'
  BY <1>1, <1>2, <1>4, <1>5, <1>6, <1>7
<1> QED
  BY <1>1, <1>2, <1>4, <1>5, <1>8, <1>9 DEF S1, F1

LEMMA HookStepKeepsTheDebt ==
  ASSUME TypeOK, DebtInv, NEW p \in Hook, HookStep(p)
  PROVE  DebtInv'
<1> USE DEF foldVars
<1>1. UNCHANGED foldVars /\ known \subseteq known' /\ (fpc = "lines" => known' = known)
  BY HookStepKeepsRows DEF Notes, Free
<1>2. BufIsOfTheFile'
  <2>1. folding' = folding \/ folding' = Append(folding, Out(p))
    BY HookStepKeepsRows DEF WritesSpill
  <2>2. folding \in Seq(Line) /\ Out(p) \in Line /\ buf \in Seq(Line) /\ done \in Nat
    BY DebtsAreNumbers, OutIsALine DEF TypeOK
  <2>3. Len(folding) <= Len(folding') /\ \A i \in 1..Len(folding) : folding'[i] = folding[i]
    BY <2>1, <2>2
  <2>4. Len(folding) \in Nat /\ Len(folding') \in Nat /\ Len(buf) \in Nat
    BY <2>1, <2>2
  <2>5. fpc \in {"begin", "lines"} => \A i \in 1..Len(buf) : done - Len(buf) + i \in 1..Len(folding)
    BY <2>2, <2>4 DEF DebtInv, BufIsOfTheFile
  <2> QED
    BY <1>1, <2>2, <2>3, <2>4, <2>5 DEF DebtInv, BufIsOfTheFile
<1>3. CASE WritesSpill(p)
  <2>1. known' = known
    BY <1>3 DEF WritesSpill, storeVars
  <2>2. owed' >= Due(known)'
    <3>1. /\ Cardinality(Pending(surfaced', known)) + Cardinality(Pending(folding', known)) + owed
                <= Due(known) + owed'
          /\ Cardinality(Pending(surfaced', known)) \in Nat /\ Cardinality(Pending(folding', known)) \in Nat
          /\ owed' \in Int
      BY <1>3, WriteIsOwed
    <3>2. owed \in Int /\ Due(known) \in Nat /\ owed >= Due(known)
      BY DebtsAreNumbers DEF DebtInv, CoveredByDebt, Due
    <3>3. Due(known)' = Cardinality(Pending(surfaced', known)) + Cardinality(Pending(folding', known))
      BY <2>1 DEF Due
    <3> QED
      BY <3>1, <3>2, <3>3
  <2>3. fpc = "lines" => owed' >= Due(txn.known)' + txn.bytes
    <3> SUFFICES ASSUME fpc = "lines" PROVE owed' >= Due(txn.known)' + txn.bytes
      OBVIOUS
    <3>1. /\ Cardinality(Pending(surfaced', txn.known)) + Cardinality(Pending(folding', txn.known)) + owed
                <= Due(txn.known) + owed'
          /\ Cardinality(Pending(surfaced', txn.known)) \in Nat /\ Cardinality(Pending(folding', txn.known)) \in Nat
          /\ owed' \in Int
      BY <1>3, WriteIsOwed
    <3>2. owed \in Int /\ Due(txn.known) \in Nat /\ txn.bytes \in Nat /\ owed >= Due(txn.known) + txn.bytes
      BY DebtsAreNumbers DEF DebtInv, CoveredInTxn, Due
    <3>3. Due(txn.known)' = Cardinality(Pending(surfaced', txn.known)) + Cardinality(Pending(folding', txn.known))
      BY <1>1 DEF Due
    <3> QED
      BY <3>1, <3>2, <3>3
  <2> QED
    BY <1>1, <1>2, <2>1, <2>2, <2>3 DEF DebtInv, CoveredByDebt, CoveredInTxn
<1>4. CASE ~WritesSpill(p)
  <2>1. UNCHANGED <<surfaced, folding, owed>>
    <3>1. owed' = owed
      BY <1>4 DEF HookStep, Fires, CannotOpen, OpensStore, LooksForWipe, ResetsIds, ResetsFiles, ResetsBytes,
         ResetFails, ClearsWipe, Pends, StaysSilent, Builds, Covers, CoverFails, Reserves, Refused, Notes,
         RecordFails, Delivers, OpensSpill, HookKilled, ghosts, accounts
    <3> QED
      BY <1>4, <3>1, HookStepKeepsRows
  <2>2. owed >= Due(known)'
    <3>1. /\ Cardinality(Pending(surfaced, known')) <= Cardinality(Pending(surfaced, known))
          /\ Cardinality(Pending(folding, known')) <= Cardinality(Pending(folding, known))
      BY <1>1, RowsPay, DebtsAreNumbers
    <3> QED
      BY <2>1, <3>1, DebtsAreNumbers DEF DebtInv, CoveredByDebt, Due
  <2>3. fpc = "lines" => Due(txn.known)' = Due(txn.known)
    BY <1>1, <2>1 DEF Due
  <2> QED
    BY <1>1, <1>2, <2>1, <2>2, <2>3 DEF DebtInv, CoveredByDebt, CoveredInTxn
<1> QED
  BY <1>3, <1>4

\* The line that a transaction takes up is one of the file.
LEMMA LineIsCharged ==
  ASSUME TypeOK, DebtInv, FoldsLine
  PROVE  /\ owed >= Due(txn'.known) + txn'.bytes /\ known \subseteq txn'.known
<1> DEFINE line == Head(buf)
           j == done - Len(buf) + 1
<1>1. /\ buf \in Seq(Line) /\ buf # <<>> /\ folding \in Seq(Line) /\ surfaced \in Seq(Line)
      /\ txn \in Txn /\ done \in Nat /\ owed \in Int
      /\ owed >= Due(txn.known) + txn.bytes /\ known \subseteq txn.known
  BY DebtsAreNumbers DEF FoldsLine, FAt, TypeOK, FoldTypeOK, DebtInv, CoveredInTxn
<1>2. line \in Line /\ line = buf[1] /\ Len(buf) \in Nat /\ 1 \in 1..Len(buf)
  BY <1>1
<1>3. line = folding[j] /\ j \in 1..Len(folding)
  BY <1>1, <1>2 DEF FoldsLine, FAt, DebtInv, BufIsOfTheFile
<1>4. txn' = Folded(line, txn) /\ line.ids \in SUBSET Pointer
  BY <1>2 DEF FoldsLine, Line
<1> HIDE DEF line, j
<1>5. CASE line.kind = "file"
  <2>1. txn'.known = txn.known /\ txn'.bytes = txn.bytes
    BY <1>1, <1>4, <1>5 DEF Folded, Txn
  <2> QED
    BY <1>1, <2>1
<1>6. CASE line.kind # "file" /\ line.ids \subseteq txn.known
  <2>1. txn'.known = txn.known \cup line.ids /\ txn'.bytes = txn.bytes + 0
    BY <1>4, <1>6 DEF Folded
  <2>2. txn'.known = txn.known /\ txn'.bytes = txn.bytes
    BY <1>1, <1>6, <2>1 DEF Txn
  <2> QED
    BY <1>1, <2>2
<1>7. CASE line.kind # "file" /\ ~(line.ids \subseteq txn.known)
  <2>1. txn'.known = txn.known \cup line.ids /\ txn'.bytes = txn.bytes + Cost(line.ids)
    BY <1>4, <1>7 DEF Folded
  <2> DEFINE S == Cardinality(Pending(surfaced, txn.known))
             F == Cardinality(Pending(folding, txn.known))
             S1 == Cardinality(Pending(surfaced, txn.known \cup line.ids))
             F1 == Cardinality(Pending(folding, txn.known \cup line.ids))
  <2>2. S \in Nat /\ F \in Nat /\ S1 \in Nat /\ F1 \in Nat
    BY DebtsAreNumbers
  <2>3. S1 <= S
    BY <1>1, RowsPay
  <2>4. F1 + Cost(line.ids) <= F
    BY <1>1, <1>3, <1>7, FoldedIsPaid
  <2>5. Cost(line.ids) \in Nat /\ txn.bytes \in Nat
    BY <1>1, <1>4, CostIsNat DEF Txn
  <2>6. Due(txn.known) = S + F /\ Due(txn'.known) = S1 + F1
    BY <2>1 DEF Due
  <2> HIDE DEF S, F, S1, F1
  <2>7. owed >= Due(txn'.known) + txn'.bytes
    BY <1>1, <2>1, <2>2, <2>3, <2>4, <2>5, <2>6
  <2> QED
    BY <1>1, <2>1, <2>7
<1> QED
  BY <1>5, <1>6, <1>7

LEMMA FoldStepKeepsTheDebt ==
  ASSUME TypeOK, DebtInv, FoldStep
  PROVE  DebtInv'
<1> USE DebtsAreNumbers DEF storeVars, fileVars, accounts, ghosts, FAt
<1>1. CASE FoldStarts \/ Checks
  <2>1. UNCHANGED <<known, surfaced, folding, owed>> /\ fpc' \notin {"begin", "lines"}
    BY <1>1 DEF FoldStarts, Checks
  <2> QED
    BY <2>1 DEF DebtInv, BufIsOfTheFile, CoveredByDebt, CoveredInTxn, Due
<1>2. CASE Reads
  <2>1. UNCHANGED <<known, surfaced, folding, owed>> /\ fpc' = "begin"
        /\ buf' = SubSeq(folding, done + 1, Len(folding)) /\ done' = Len(folding)
    BY <1>2 DEF Reads
  <2>2. Len(folding) \in Nat
    OBVIOUS
  <2>3. CASE done <= Len(folding)
    <3>1. Len(buf') = Len(folding) - done
      BY <2>1, <2>2, <2>3
    <3>2. \A i \in 1..Len(buf') : buf'[i] = folding[done + i]
      BY <2>1, <2>2, <2>3
    <3>3. \A i \in 1..Len(buf') : done' - Len(buf') + i = done + i
      BY <2>1, <2>2, <3>1
    <3>4. Len(buf') <= done' /\ done' <= Len(folding')
      BY <2>1, <2>2, <2>3, <3>1
    <3>5. \A i \in 1..Len(buf') : buf'[i] = folding'[done' - Len(buf') + i]
      BY <2>1, <3>2, <3>3
    <3>6. BufIsOfTheFile'
      BY <3>4, <3>5 DEF BufIsOfTheFile
    <3> QED
      BY <2>1, <3>6 DEF DebtInv, CoveredByDebt, CoveredInTxn, Due
  <2>4. CASE ~(done <= Len(folding))
    <3>1. buf' = <<>>
      BY <2>1, <2>2, <2>4
    <3>2. BufIsOfTheFile'
      <4>1. Len(buf') = 0 /\ 1..Len(buf') = {}
        BY <3>1
      <4>2. 0 <= done' /\ done' <= Len(folding')
        BY <2>1, <2>2
      <4> QED
        BY <4>1, <4>2 DEF BufIsOfTheFile
    <3> QED
      BY <2>1, <3>2 DEF DebtInv, CoveredByDebt, CoveredInTxn, Due
  <2> QED
    BY <2>3, <2>4
<1>3. CASE Begins
  <2>1. UNCHANGED <<known, surfaced, folding, owed, buf, done>> /\ fpc = "begin" /\ fpc' = "lines"
        /\ txn'.known = known /\ txn'.bytes = 0
    BY <1>3 DEF Begins
  <2>2. owed' >= Due(txn.known)' + txn'.bytes
    BY <2>1 DEF DebtInv, CoveredByDebt, Due
  <2> QED
    BY <2>1, <2>2 DEF DebtInv, BufIsOfTheFile, CoveredByDebt, CoveredInTxn, Due
<1>4. CASE FoldsLine
  <2>1. UNCHANGED <<known, surfaced, folding, owed, done>> /\ fpc = "lines" /\ fpc' = "lines"
        /\ buf' = Tail(buf) /\ buf # <<>>
    BY <1>4 DEF FoldsLine
  <2>2. Len(buf') = Len(buf) - 1 /\ Len(buf) \in Nat /\ \A i \in 1..Len(buf') : buf'[i] = buf[i + 1]
    BY <2>1
  <2>3. BufIsOfTheFile'
    <3>1. /\ Len(buf) <= done /\ done <= Len(folding)
          /\ \A i \in 1..Len(buf) : buf[i] = folding[done - Len(buf) + i]
      BY <2>1 DEF DebtInv, BufIsOfTheFile
    <3>2. \A i \in 1..Len(buf') : i + 1 \in 1..Len(buf) /\ done - Len(buf) + (i + 1) = done - Len(buf') + i
      BY <2>2
    <3>3. \A i \in 1..Len(buf') : buf'[i] = folding[done - Len(buf') + i]
      BY <2>2, <3>1, <3>2
    <3> QED
      BY <2>1, <2>2, <3>1, <3>3 DEF BufIsOfTheFile
  <2>4. owed >= Due(txn'.known) + txn'.bytes /\ known \subseteq txn'.known
    BY <1>4, LineIsCharged
  <2> QED
    BY <2>1, <2>3, <2>4 DEF DebtInv, CoveredByDebt, CoveredInTxn, Due
<1>5. CASE Commits
  <2>1. known' = txn.known /\ owed' = owed - txn.bytes /\ UNCHANGED <<surfaced, folding>>
        /\ fpc = "lines" /\ fpc' \notin {"begin", "lines"}
    BY <1>5 DEF Commits
  <2>2. owed' >= Due(known)'
    BY <2>1 DEF DebtInv, CoveredInTxn, Due
  <2> QED
    BY <2>1, <2>2 DEF DebtInv, BufIsOfTheFile, CoveredByDebt, CoveredInTxn
<1>6. CASE Empties \/ Renames \/ FoldEnds \/ FoldFails \/ FolderKilled
  <2>1. known' = known /\ owed' = owed /\ fpc' \notin {"begin", "lines"}
    BY <1>6 DEF Empties, Renames, FoldEnds, FoldFails, FolderKilled, GiveUp
  <2>2. \/ surfaced' = surfaced /\ folding' \in {folding, <<>>}
        \/ surfaced' = <<>> /\ folding' = surfaced
    BY <1>6 DEF Empties, Renames, FoldEnds, FoldFails, FolderKilled
  <2>3. Cardinality(Pending(<<>>, known)) = 0
    BY NothingIsPending
  <2>4. owed' >= Due(known)'
    BY <2>1, <2>2, <2>3 DEF DebtInv, CoveredByDebt, Due
  <2> QED
    BY <2>1, <2>4 DEF DebtInv, BufIsOfTheFile, CoveredByDebt, CoveredInTxn
<1> QED
  BY <1>1, <1>2, <1>3, <1>4, <1>5, <1>6 DEF FoldStep

\* A session is never charged for more bytes than were spilled for it, however
\* often a fold goes over the same lines, is rolled back or is killed.
THEOREM BytesAreOwedOnce == Spec => []OwedOnce
<1>1. Init => DebtInv
  <2> SUFFICES ASSUME Init PROVE DebtInv
    OBVIOUS
  <2>1. surfaced = <<>> /\ folding = <<>> /\ fpc = "idle" /\ owed = 0
    BY DEF Init
  <2> QED
    BY <2>1, NothingIsPending DEF DebtInv, BufIsOfTheFile, CoveredByDebt, CoveredInTxn, Due
<1>2. TypeOK /\ DebtInv /\ [Next]_vars => DebtInv'
  <2>1. ASSUME DebtInv, UNCHANGED vars
        PROVE  DebtInv'
    BY <2>1 DEF vars, storeVars, fileVars, foldVars, accounts, ghosts, DebtInv, BufIsOfTheFile, CoveredByDebt,
       CoveredInTxn, Due
  <2> QED
    BY <2>1, HookStepKeepsTheDebt, FoldStepKeepsTheDebt DEF Next
<1>3. TypeOK /\ DebtInv => OwedOnce
  BY DebtsAreNumbers DEF DebtInv, CoveredByDebt, Due, OwedOnce
<1> QED
  BY <1>1, <1>2, <1>3, InjectionTypeCorrect, PTL DEF Spec
(***************************************************************************)
(* No amnesia                                                              *)
(***************************************************************************)
\* Hooks that are about to give the agent what they have noted.
Underway == {p \in Hook : pc[p] \in {"note", "spill", "write", "deliver"}}
OnTheWay == UNION {ids[p] : p \in Underway}

\* A hook whose event wiped the context and that has not yet acted on it.
Wiping(p) == p \in Wipers /\ pc[p] \in {"open", "wipe", "resetids", "pend"}

\* A hook that has applied a wipe and is about to remove its file.
Applied(p) == waiting[p] /\ pc[p] \in {"resetfiles", "resetbytes", "clear"}

\* What is armed the agent has, or is being given; or a wipe is under way.
Accounted == active \subseteq context \cup OnTheWay \/ \E p \in Hook : Wiping(p)

\* That is so where no wipe waits, and also while one waits that is applied.
\* What a hook notes it is going to show, and only one that saw the file of a
\* wipe removes it.
AmnesiaInv ==
  /\ ~mishap /\ (~wipeFile \/ \E p \in Hook : Applied(p)) => Accounted
  /\ \A p \in Hook : pc[p] = "note" => todo[p] \subseteq ids[p]
  /\ \A p \in Hook : pc[p] = "clear" => waiting[p]

\* A step of a hook that arms nothing, wipes nothing and shows nothing.
LEMMA AccountedStays ==
  ASSUME TypeOK, NEW p \in Hook, HookStep(p), Accounted, active' = active, context \subseteq context',
         Wiping(p) => Wiping(p)',
         p \in Underway => p \in Underway' /\ ids'[p] = ids[p]
  PROVE  Accounted'
<1>1. CASE active \subseteq context \cup OnTheWay
  <2>1. \A q \in Underway : q \in Underway' /\ ids'[q] = ids[q]
    BY HookStepIsLocal DEF Underway
  <2>2. OnTheWay \subseteq OnTheWay'
    BY <2>1 DEF OnTheWay
  <2> QED
    BY <1>1, <2>2 DEF Accounted
<1>2. CASE \E q \in Hook : Wiping(q)
  BY <1>2, HookStepIsLocal DEF Accounted, Wiping
<1> QED
  BY <1>1, <1>2 DEF Accounted

\* Whose wipe has been applied does not change by another's step.
LEMMA AppliedIsOwn ==
  ASSUME TypeOK, NEW p \in Hook, HookStep(p), NEW q \in Hook, q # p
  PROVE  Applied(q)' <=> Applied(q)
<1> USE DEF TypeOK, HookTypeOK, End, local
<1>1. waiting'[q] = waiting[q]
  <2>1. CASE \/ Fires(p) \/ CannotOpen(p) \/ OpensStore(p) \/ LooksForWipe(p) \/ ResetsIds(p)
             \/ ResetsFiles(p) \/ ResetsBytes(p) \/ ResetFails(p) \/ ClearsWipe(p) \/ Pends(p)
    BY <2>1 DEF Fires, CannotOpen, OpensStore, LooksForWipe, ResetsIds, ResetsFiles, ResetsBytes,
       ResetFails, ClearsWipe, Pends
  <2>2. CASE \/ StaysSilent(p) \/ Builds(p) \/ Covers(p) \/ CoverFails(p) \/ Reserves(p)
             \/ Refused(p) \/ Notes(p) \/ RecordFails(p) \/ Delivers(p)
    BY <2>2 DEF StaysSilent, Builds, Covers, CoverFails, Reserves, Refused, Notes, RecordFails, Delivers
  <2>3. CASE OpensSpill(p) \/ WritesSpill(p) \/ HookKilled(p)
    BY <2>3 DEF OpensSpill, WritesSpill, HookKilled
  <2> QED
    BY <2>1, <2>2, <2>3 DEF HookStep
<1> QED
  BY <1>1, HookStepIsLocal DEF Applied

\* Steps that leave no hook's event, ledger or context other than it was.
LEMMA QuietStepsAccount ==
  ASSUME TypeOK, AmnesiaInv, NEW p \in Hook,
         OpensStore(p) \/ LooksForWipe(p) \/ ResetsFiles(p) \/ ResetsBytes(p) \/ ResetFails(p) \/ ClearsWipe(p)
         \/ StaysSilent(p) \/ Builds(p) \/ Covers(p) \/ CoverFails(p) \/ Reserves(p) \/ Refused(p)
         \/ RecordFails(p) \/ OpensSpill(p) \/ WritesSpill(p)
  PROVE  ~mishap' /\ (~wipeFile' \/ \E q \in Hook : Applied(q)') => Accounted'
<1> USE DEF TypeOK, HookTypeOK, Move, End, local, storeVars, fileVars, ghosts, accounts
<1>0. HookStep(p)
  BY DEF HookStep
<1> SUFFICES ASSUME ~mishap', ~wipeFile' \/ \E q \in Hook : Applied(q)'
             PROVE  Accounted'
  OBVIOUS
<1>1. active' = active /\ context' = context /\ mishap' = mishap
  <2>1. CASE \/ OpensStore(p) \/ LooksForWipe(p) \/ ResetsFiles(p) \/ ResetsBytes(p) \/ ResetFails(p)
             \/ ClearsWipe(p) \/ StaysSilent(p) \/ Builds(p)
    BY <2>1 DEF OpensStore, LooksForWipe, ResetsFiles, ResetsBytes, ResetFails, ClearsWipe, StaysSilent, Builds
  <2>2. CASE \/ Covers(p) \/ CoverFails(p) \/ Reserves(p) \/ Refused(p)
             \/ RecordFails(p) \/ OpensSpill(p) \/ WritesSpill(p)
    BY <2>2 DEF Covers, CoverFails, Reserves, Refused, RecordFails, OpensSpill, WritesSpill
  <2> QED
    BY <2>1, <2>2
<1>2. ~wipeFile \/ \E q \in Hook : Applied(q)
  <2>1. CASE ClearsWipe(p)
    BY <2>1 DEF ClearsWipe, Is, Applied, AmnesiaInv
  <2>2. CASE ~ClearsWipe(p)
    <3>1. wipeFile' = wipeFile
      BY <2>2 DEF OpensStore, LooksForWipe, ResetsFiles, ResetsBytes, ResetFails, StaysSilent, Builds,
         Covers, CoverFails, Reserves, Refused, RecordFails, OpensSpill, WritesSpill
    <3>2. Applied(p)' => Applied(p)
      <4>1. CASE OpensStore(p) \/ LooksForWipe(p) \/ ResetsFiles(p) \/ ResetsBytes(p) \/ ResetFails(p)
        BY <4>1 DEF OpensStore, LooksForWipe, ResetsFiles, ResetsBytes, ResetFails, Resetting, Is, Applied
      <4>2. CASE \/ StaysSilent(p) \/ Builds(p) \/ Covers(p) \/ CoverFails(p) \/ Reserves(p) \/ Refused(p)
                 \/ RecordFails(p) \/ OpensSpill(p)
        BY <4>2 DEF StaysSilent, Builds, Covers, CoverFails, Reserves, Refused, RecordFails, OpensSpill, Is, Applied
      <4>3. CASE WritesSpill(p)
        BY <4>3 DEF WritesSpill, AfterSpill, Applied
      <4> QED
        BY <2>2, <4>1, <4>2, <4>3
    <3> QED
      BY <1>0, <3>1, <3>2, AppliedIsOwn
  <2> QED
    BY <2>1, <2>2
<1>3. Accounted
  BY <1>1, <1>2 DEF AmnesiaInv
<1>4. Wiping(p) => Wiping(p)'
  <2>1. CASE OpensStore(p)
    BY <2>1, InjectionAssumption DEF OpensStore, Is, Wiping
  <2>2. CASE LooksForWipe(p)
    BY <2>2 DEF LooksForWipe, Is, Wiping
  <2>3. CASE ResetFails(p)
    BY <2>3 DEF ResetFails, Resetting, Wiping
  <2>4. CASE ~OpensStore(p) /\ ~LooksForWipe(p) /\ ~ResetFails(p)
    BY <2>4 DEF ResetsFiles, ResetsBytes, ClearsWipe, StaysSilent, Builds, Covers, CoverFails, Reserves, Refused,
       RecordFails, OpensSpill, WritesSpill, Is, Wiping
  <2> QED
    BY <2>1, <2>2, <2>3, <2>4
<1>5. p \in Underway => p \in Underway' /\ ids'[p] = ids[p]
  <2>1. CASE RecordFails(p)
    BY <2>1 DEF RecordFails, Underway
  <2>2. CASE OpensSpill(p)
    BY <2>2 DEF OpensSpill, Is, Underway
  <2>3. CASE WritesSpill(p)
    BY <2>3 DEF WritesSpill, AfterSpill, Out, Underway
  <2>4. CASE ~RecordFails(p) /\ ~OpensSpill(p) /\ ~WritesSpill(p)
    BY <2>4 DEF OpensStore, LooksForWipe, ResetsFiles, ResetsBytes, ResetFails, Resetting, ClearsWipe, StaysSilent,
       Builds, Covers, CoverFails, Reserves, Refused, Is, Underway
  <2> QED
    BY <2>1, <2>2, <2>3, <2>4
<1> QED
  BY <1>0, <1>1, <1>3, <1>4, <1>5, AccountedStays

LEMMA HookStepKeepsMemory ==
  ASSUME TypeOK, AmnesiaInv, NEW p \in Hook, HookStep(p)
  PROVE  AmnesiaInv'
<1> USE DEF Move, local, storeVars, fileVars, ghosts, accounts
<1>1. \A q \in Hook : pc'[q] = "note" => todo'[q] \subseteq ids'[q]
  <2> SUFFICES ASSUME NEW q \in Hook, pc'[q] = "note" PROVE todo'[q] \subseteq ids'[q]
    OBVIOUS
  <2>1. CASE q # p
    BY <2>1, HookStepIsLocal DEF AmnesiaInv
  <2>2. CASE q = p /\ Reserves(p)
    BY <2>2 DEF Reserves, TypeOK, HookTypeOK
  <2>3. CASE q = p /\ Notes(p)
    BY <2>3 DEF Notes, Is, TypeOK, HookTypeOK, AmnesiaInv
  <2> QED
    BY <2>1, <2>2, <2>3, HowAHookGetsThere
<1>2. \A q \in Hook : pc'[q] = "clear" => waiting'[q]
  <2> SUFFICES ASSUME NEW q \in Hook, pc'[q] = "clear" PROVE waiting'[q]
    OBVIOUS
  <2> USE DEF TypeOK, HookTypeOK, End
  <2>1. CASE q # p
    BY <2>1, HookStepIsLocal, AppliedIsOwn DEF AmnesiaInv, Applied
  <2>2. CASE q = p /\ ~ResetsBytes(p)
    <3>1. CASE \/ Fires(p) \/ CannotOpen(p) \/ OpensStore(p) \/ LooksForWipe(p) \/ ResetsIds(p)
               \/ ResetsFiles(p) \/ ResetFails(p) \/ ClearsWipe(p) \/ Pends(p)
      BY <2>2, <3>1 DEF Fires, CannotOpen, OpensStore, LooksForWipe, ResetsIds, ResetsFiles,
         ResetFails, ClearsWipe, Pends
    <3>2. CASE \/ StaysSilent(p) \/ Builds(p) \/ Covers(p) \/ CoverFails(p) \/ Reserves(p)
               \/ Refused(p) \/ Notes(p) \/ RecordFails(p) \/ Delivers(p)
      BY <2>2, <3>2 DEF StaysSilent, Builds, Covers, CoverFails, Reserves, Refused, Notes, RecordFails, Delivers
    <3>3. CASE OpensSpill(p) \/ WritesSpill(p) \/ HookKilled(p)
      BY <2>2, <3>3 DEF OpensSpill, WritesSpill, AfterSpill, HookKilled
    <3> QED
      BY <2>2, <3>1, <3>2, <3>3 DEF HookStep
  <2>3. CASE q = p /\ ResetsBytes(p)
    BY <2>3 DEF ResetsBytes
  <2> QED
    BY <2>1, <2>2, <2>3
<1>3. ~mishap' /\ (~wipeFile' \/ \E q \in Hook : Applied(q)') => Accounted'
  <2> USE DEF TypeOK, HookTypeOK, End
  <2>1. CASE Fires(p)
    <3>1. CASE p \in Wipers
      <4>1. Wiping(p)'
        BY <2>1, <3>1 DEF Fires, Wiping
      <4> QED
        BY <4>1 DEF Accounted
    <3>2. CASE p \notin Wipers
      <4>1. UNCHANGED <<active, context, mishap, wipeFile, waiting>> /\ pc'[p] = "open" /\ pc[p] = "new"
        BY <2>1, <3>2 DEF Fires, Is
      <4>2. Applied(p)' <=> Applied(p)
        BY <4>1 DEF Applied
      <4>3. ~Wiping(p) /\ p \notin Underway
        BY <3>2, <4>1 DEF Wiping, Underway
      <4> QED
        BY <4>1, <4>2, <4>3, AppliedIsOwn, AccountedStays DEF AmnesiaInv
    <3> QED
      BY <3>1, <3>2
  <2>2. CASE CannotOpen(p)
    <3> SUFFICES ASSUME ~mishap', ~wipeFile' \/ \E q \in Hook : Applied(q)' PROVE Accounted'
      OBVIOUS
    <3>1. UNCHANGED <<active, context>> /\ pc[p] = "open" /\ pc'[p] = "ended" /\ ~mishap
      BY <2>2 DEF CannotOpen, Is
    <3>2. ~Applied(p) /\ ~Applied(p)' /\ p \notin Underway
      BY <3>1 DEF Applied, Underway
    <3>3. CASE p \in Wipers
      <4>1. wipeFile' /\ ~Removing(p)
        BY <2>2, <3>3 DEF CannotOpen
      <4>2. PICK q \in Hook : Applied(q)'
        BY <4>1
      <4>3. q # p /\ Applied(q)
        BY <3>2, <4>2, AppliedIsOwn
      <4>4. Removing(p)
        BY <4>3 DEF Applied, Removing, Resetting, Is
      <4> QED
        BY <4>1, <4>4
    <3>4. CASE p \notin Wipers
      <4>1. wipeFile' = wipeFile
        BY <2>2, <3>4 DEF CannotOpen, StoreTypeOK
      <4>2. ~Wiping(p)
        BY <3>4 DEF Wiping
      <4>3. ~wipeFile \/ \E q \in Hook : Applied(q)
        BY <3>2, <4>1, AppliedIsOwn
      <4> QED
        BY <3>1, <3>2, <4>2, <4>3, AccountedStays DEF AmnesiaInv
    <3> QED
      BY <3>3, <3>4
  <2>3. CASE ResetsIds(p)
    <3>1. active' = {}
      BY <2>3 DEF ResetsIds
    <3> QED
      BY <3>1 DEF Accounted
  <2>4. CASE Pends(p)
    <3> SUFFICES ASSUME ~mishap', ~wipeFile' \/ \E q \in Hook : Applied(q)' PROVE Accounted'
      OBVIOUS
    <3>1. wipeFile' /\ ~Removing(p) /\ pc'[p] = "build"
      BY <2>4 DEF Pends
    <3>2. PICK q \in Hook : Applied(q)'
      BY <3>1
    <3>3. q # p
      BY <3>1, <3>2 DEF Applied
    <3>4. Applied(q)
      BY <3>2, <3>3, AppliedIsOwn
    <3>5. Removing(p)
      BY <3>3, <3>4 DEF Applied, Removing, Resetting, Is
    <3> QED
      BY <3>1, <3>5
  <2>5. CASE Notes(p)
    <3> SUFFICES ASSUME ~mishap', ~wipeFile' \/ \E q \in Hook : Applied(q)' PROVE Accounted'
      OBVIOUS
    <3>1. PICK i \in todo[p] : active' = active \cup {i}
      BY <2>5 DEF Notes
    <3>2. UNCHANGED <<context, mishap, wipeFile, waiting, ids>> /\ pc[p] = "note" /\ pc'[p] \in {"note", "deliver"}
      BY <2>5 DEF Notes, Is
    <3>3. ~Applied(p) /\ ~Applied(p)'
      BY <3>2 DEF Applied
    <3>4. Accounted
      BY <3>2, <3>3, AppliedIsOwn DEF AmnesiaInv
    <3>5. \A q \in Underway : q \in Underway' /\ ids'[q] = ids[q]
      BY <3>2, HookStepIsLocal DEF Underway
    <3>6. OnTheWay \subseteq OnTheWay' /\ p \in Underway'
      BY <3>2, <3>5 DEF OnTheWay, Underway
    <3>7. i \in OnTheWay'
      BY <3>1, <3>2, <3>6 DEF AmnesiaInv, OnTheWay
    <3>8. \A q \in Hook : Wiping(q) => Wiping(q)'
      BY <3>2, HookStepIsLocal DEF Wiping
    <3> QED
      BY <3>1, <3>2, <3>4, <3>6, <3>7, <3>8 DEF Accounted
  <2>6. CASE Delivers(p)
    <3> SUFFICES ASSUME ~mishap', ~wipeFile' \/ \E q \in Hook : Applied(q)' PROVE Accounted'
      OBVIOUS
    <3>1. /\ UNCHANGED <<active, mishap, wipeFile>> /\ context' = context \cup ids[p]
          /\ pc[p] = "deliver" /\ pc'[p] = "ended"
      BY <2>6 DEF Delivers, Is
    <3>2. ~Applied(p) /\ ~Applied(p)'
      BY <3>1 DEF Applied
    <3>3. Accounted
      BY <3>1, <3>2, AppliedIsOwn DEF AmnesiaInv
    <3>4. \A q \in Underway \ {p} : q \in Underway' /\ ids'[q] = ids[q]
      BY HookStepIsLocal DEF Underway
    <3>5. OnTheWay \subseteq ids[p] \cup OnTheWay'
      BY <3>4 DEF OnTheWay
    <3>6. \A q \in Hook : Wiping(q) => Wiping(q)'
      BY <3>1, HookStepIsLocal DEF Wiping
    <3> QED
      BY <3>1, <3>3, <3>5, <3>6 DEF Accounted
  <2>7. CASE HookKilled(p)
    BY <2>7 DEF HookKilled
  <2> QED
    BY <2>1, <2>2, <2>3, <2>4, <2>5, <2>6, <2>7, QuietStepsAccount DEF HookStep
<1> QED
  BY <1>1, <1>2, <1>3 DEF AmnesiaInv

\* The fold arms only what its commit checks against the context.
LEMMA FoldStepKeepsMemory ==
  ASSUME TypeOK, AmnesiaInv, FoldStep
  PROVE  AmnesiaInv'
<1> USE DEF storeVars, fileVars, hookVars, local, ghosts, accounts
<1>1. UNCHANGED <<pc, ids, todo, waiting, context, wipeFile>>
  BY DEF FoldStep, FoldStarts, Reads, Begins, FoldsLine, Commits, FoldFails, Checks, Empties, Renames,
     FoldEnds, FolderKilled
<1>2. /\ mishap => mishap'
      /\ ~mishap' => active' \subseteq active \cup context \cup Delivering
  <2>1. CASE Commits
    <3>1. active' = txn.active /\ mishap' = (mishap \/ ~(txn.active \ active \subseteq context \cup Delivering))
      BY <2>1 DEF Commits
    <3> QED
      BY <3>1
  <2>2. CASE ~Commits
    <3>1. active' = active /\ mishap' = mishap
      BY <2>2 DEF FoldStep, FoldStarts, Reads, Begins, FoldsLine, FoldFails, Checks, Empties, Renames,
         FoldEnds, FolderKilled
    <3> QED
      BY <3>1
  <2> QED
    BY <2>1, <2>2
<1>3. Delivering \subseteq OnTheWay /\ OnTheWay' = OnTheWay
  BY <1>1 DEF Delivering, OnTheWay, Underway
<1>4. ~mishap' /\ Accounted => Accounted'
  BY <1>1, <1>2, <1>3 DEF Accounted, Wiping
<1> QED
  BY <1>1, <1>2, <1>4 DEF AmnesiaInv, Applied

\* For any hooks, wipes and folds: with no hook on its way and no wipe waiting,
\* nothing the agent lost is held back as shown.
THEOREM NothingIsForgottenAndHeldBack == Spec => []NoAmnesia
<1>1. Init => AmnesiaInv
  <2> SUFFICES ASSUME Init PROVE AmnesiaInv
    OBVIOUS
  <2>1. \A p \in Hook : pc[p] = "new"
    BY DEF Init
  <2>2. ~wipeFile => active \subseteq context
    BY DEF Init
  <2> QED
    BY <2>1, <2>2 DEF AmnesiaInv, Applied, Accounted
<1>2. TypeOK /\ AmnesiaInv /\ [Next]_vars => AmnesiaInv'
  <2>1. ASSUME AmnesiaInv, UNCHANGED vars
        PROVE  AmnesiaInv'
    BY <2>1 DEF vars, storeVars, fileVars, hookVars, local, ghosts, accounts, AmnesiaInv, Applied, Accounted,
       OnTheWay, Underway, Wiping
  <2> QED
    BY <2>1, HookStepKeepsMemory, FoldStepKeepsMemory DEF Next
<1>3. AmnesiaInv => NoAmnesia
  <2> SUFFICES ASSUME AmnesiaInv, AllEnded, ~wipeFile, ~mishap PROVE active \subseteq context
    BY DEF NoAmnesia
  <2>1. Underway = {} /\ ~\E p \in Hook : Wiping(p)
    BY DEF AllEnded, Underway, Wiping
  <2>2. OnTheWay = {}
    BY <2>1 DEF OnTheWay
  <2> QED
    BY <2>1, <2>2 DEF AmnesiaInv, Accounted
<1> QED
  BY <1>1, <1>2, <1>3, InjectionTypeCorrect, PTL DEF Spec
=============================================================================

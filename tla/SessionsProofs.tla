--------------------------- MODULE SessionsProofs ---------------------------
(***************************************************************************)
(* Proofs about one session and the runs that summarize it, for any number *)
(* of runs and of observations, whichever of them are quiet, late, forced, *)
(* slow or killed.                                                         *)
(***************************************************************************)
EXTENDS Sessions, FiniteSetTheorems, TLAPS

(***************************************************************************)
(* Type correctness                                                        *)
(***************************************************************************)
\* Sets of observations are finite, so counting them gives a number.
LEMMA EventsAreFinite ==
  ASSUME NEW S \in SUBSET Event
  PROVE  IsFiniteSet(S)
<1>1. MaxEvent \in Int /\ 1 \in Int
  BY SessionsAssumption
<1>2. IsFiniteSet(1..MaxEvent)
  BY <1>1, FS_Interval
<1> QED
  BY <1>2, FS_Subset DEF Event

LEMMA CountIsNat ==
  ASSUME NEW S \in SUBSET Event
  PROVE  Cardinality(S) \in Nat
BY EventsAreFinite, FS_CardinalityType

\* A chunk holds nothing that the session does not.
LEMMA ChunksAreOfTheSession ==
  ASSUME NEW S, NEW chunks \in Chunks(S)
  PROVE  UNION chunks \subseteq S
BY DEF Chunks

\* A page that is indexed stays a page.
LEMMA SeenPageIsAPage ==
  ASSUME NEW page \in PageType
  PROVE  [page EXCEPT !.seen = TRUE] \in PageType
BY DEF PageType

LEMMA TypeInit == Init => TypeOK
<1> SUFFICES ASSUME Init PROVE TypeOK
  OBVIOUS
<1>1. StoreTypeOK
  BY DEF Init, StoreTypeOK, RowType, EmptyRow, Tier
<1>2. RunTypeOK
  BY DEF Init, RunTypeOK, Tier, Pc
<1>3. HistoryTypeOK
  BY DEF Init, HistoryTypeOK
<1> QED
  BY <1>1, <1>2, <1>3 DEF TypeOK

\* A run's step keeps the types, one case per action.
LEMMA RunStepKeepsTypes ==
  ASSUME TypeOK, NEW p \in Run, RunStep(p)
  PROVE  TypeOK'
<1> USE SessionsAssumption DEF TypeOK, StoreTypeOK, RunTypeOK, HistoryTypeOK, RowType
<1>1. CASE Begin(p)
  BY <1>1 DEF Begin, Pc, Move, Is, Tier, vars, storeVars, clockVars, ownVars, ghosts
<1>2. CASE CatchUp(p)
  <2> USE <1>2 DEF CatchUp, Move, Is, Pc, Tier, vars, storeVars, clockVars, ownVars, ghosts
  <2>1. StoreTypeOK'
    <3>1. \A page \in pages : [page EXCEPT !.seen = TRUE] \in PageType
      BY SeenPageIsAPage
    <3>2. pages' \subseteq PageType
      BY <3>1
    <3> QED
      BY <3>2
  <2>2. RunTypeOK'
    <3>1. Links(ByModel(Unseen)) \subseteq Event
      BY DEF Links, ByModel, Unseen, PageType
    <3> QED
      BY <3>1
  <2>3. HistoryTypeOK'
    OBVIOUS
  <2> QED
    BY <2>1, <2>2, <2>3
<1>21. CASE CatchUpMarks(p)
  BY <1>21 DEF CatchUpMarks, Pc, Move, Is, Tier, vars, storeVars, clockVars, ownVars, ghosts
<1>3. CASE Revive(p)
  <2> USE <1>3 DEF Revive, Reopens, EmptyRow, Move, Is, Pc, Tier, vars, storeVars, clockVars, ownVars, ghosts
  <2>1. StoreTypeOK'
    <3>1. row' \in RowType
      BY DEF RowType
    <3> QED
      BY <3>1
  <2>2. RunTypeOK'
    OBVIOUS
  <2>3. HistoryTypeOK'
    <3>1. mishaps' \in Nat
      OBVIOUS
    <3>2. lost' \in BOOLEAN /\ reopened' \in BOOLEAN
      OBVIOUS
    <3> QED
      BY <3>1, <3>2
  <2> QED
    BY <2>1, <2>2, <2>3
<1>4. CASE List(p)
  BY <1>4, CountIsNat DEF List, Listed, Newest, Pc, Move, Is, Tier, vars, storeVars, clockVars, ownVars, ghosts
<1>5. CASE ListsNothing(p)
  BY <1>5 DEF ListsNothing, Pc, Move, Is, Tier, vars, storeVars, clockVars, ownVars, ghosts
<1>6. CASE Gate(p)
  BY <1>6 DEF Gate, Pc, Move, Is, Tier, vars, storeVars, clockVars, ownVars, ghosts
<1>7. CASE Claim(p)
  <2> USE <1>7 DEF Claim, Move, Is, Pc, Tier, vars, storeVars, clockVars, ownVars, ghosts
  <2>1. StoreTypeOK'
    <3>1. row' \in RowType
      BY DEF RowType
    <3> QED
      BY <3>1
  <2>2. RunTypeOK'
    OBVIOUS
  <2>3. HistoryTypeOK'
    <3>1. mishaps' \in Nat
      OBVIOUS
    <3>2. lost' \in BOOLEAN /\ reopened' \in BOOLEAN
      OBVIOUS
    <3> QED
      BY <3>1, <3>2
  <2> QED
    BY <2>1, <2>2, <2>3
<1>8. CASE FindsClaimed(p)
  BY <1>8 DEF FindsClaimed, Pc, Move, Is, Tier, vars, storeVars, clockVars, ownVars, ghosts
<1>9. CASE LeavesSuperseded(p)
  <2> USE <1>9 DEF LeavesSuperseded, FreeClaim, Move, Is, Pc, Tier, vars, storeVars, clockVars, ownVars, ghosts
  <2>1. StoreTypeOK'
    <3>1. row' \in RowType
      BY DEF RowType
    <3> QED
      BY <3>1
  <2>2. RunTypeOK'
    OBVIOUS
  <2>3. HistoryTypeOK'
    <3>1. mishaps' \in Nat
      OBVIOUS
    <3> QED
      BY <3>1
  <2> QED
    BY <2>1, <2>2, <2>3
<1>10. CASE GoesAhead(p)
  BY <1>10 DEF GoesAhead, Pc, Move, Is, Tier, vars, storeVars, clockVars, ownVars, ghosts
<1>11. CASE Read(p)
  BY <1>11 DEF Read, Quiet, Pc, Move, Is, Tier, vars, storeVars, clockVars, ownVars, ghosts
<1>12. CASE Call(p)
  <2> USE <1>12 DEF Call, Move, Is, Pc, Tier, vars, storeVars, clockVars, ownVars, ghosts
  <2>1. StoreTypeOK'
    OBVIOUS
  <2>2. RunTypeOK'
    OBVIOUS
  <2>3. HistoryTypeOK'
    <3>1. PICK chunks \in Chunks(got[p]) : \E answered \in SUBSET chunks :
                 narrated' = narrated \cup UNION answered
      OBVIOUS
    <3>2. UNION chunks \subseteq got[p]
      BY <3>1, ChunksAreOfTheSession
    <3> QED
      BY <3>1, <3>2
  <2> QED
    BY <2>1, <2>2, <2>3
<1>13. CASE Errs(p)
  BY <1>13 DEF Errs, Pc, Move, Is, Tier, vars, storeVars, clockVars, ownVars, ghosts
<1>14. CASE Append(p)
  <2> USE <1>14 DEF Append, Move, Is, Pc, Tier, vars, storeVars, clockVars, ownVars, ghosts
  <2>1. StoreTypeOK'
    <3>1. [links |-> got[p], tier |-> tier[p], seen |-> FALSE] \in PageType
      BY DEF PageType
    <3>2. pages' \subseteq PageType
      BY <3>1
    <3> QED
      BY <3>2
  <2>2. RunTypeOK'
    OBVIOUS
  <2>3. HistoryTypeOK'
    <3>1. told' \in [Event -> Nat]
      OBVIOUS
    <3> QED
      BY <3>1
  <2> QED
    BY <2>1, <2>2, <2>3
<1>15. CASE IndexSummary(p)
  <2> USE <1>15 DEF IndexSummary, Move, Is, Pc, Tier, vars, storeVars, clockVars, ownVars, ghosts
  <2>1. StoreTypeOK'
    <3>1. [links |-> got[p], tier |-> tier[p], seen |-> FALSE] \in PageType
      BY DEF PageType
    <3>2. pages' \subseteq PageType
      BY <3>1, SeenPageIsAPage
    <3> QED
      BY <3>2
  <2>2. RunTypeOK'
    OBVIOUS
  <2>3. HistoryTypeOK'
    OBVIOUS
  <2> QED
    BY <2>1, <2>2, <2>3
<1>16. CASE Mark(p)
  BY <1>16 DEF Mark, Pc, Move, Is, Tier, vars, storeVars, clockVars, ownVars, ghosts
<1>17. CASE Record(p)
  BY <1>17 DEF Record, Pc, Move, Is, Tier, vars, storeVars, clockVars, ownVars, ghosts
<1>18. CASE After(p)
  BY <1>18 DEF After, Pc, Move, Is, Tier, vars, storeVars, clockVars, ownVars, ghosts
<1>19. CASE Release(p)
  <2> USE <1>19 DEF Release, FreeClaim, Move, Is, Pc, Tier, vars, storeVars, clockVars, ownVars, ghosts
  <2>1. StoreTypeOK'
    <3>1. row' \in RowType
      BY DEF RowType
    <3> QED
      BY <3>1
  <2>2. RunTypeOK'
    OBVIOUS
  <2>3. HistoryTypeOK'
    <3>1. mishaps' \in Nat
      OBVIOUS
    <3> QED
      BY <3>1
  <2> QED
    BY <2>1, <2>2, <2>3
<1>20. CASE Note(p)
  <2> USE <1>20 DEF Note, Move, Is, Pc, Tier, vars, storeVars, clockVars, ownVars, ghosts
  <2>1. StoreTypeOK'
    <3>1. row' \in RowType
      BY DEF RowType
    <3> QED
      BY <3>1
  <2>2. RunTypeOK'
    OBVIOUS
  <2>3. HistoryTypeOK'
    OBVIOUS
  <2> QED
    BY <2>1, <2>2, <2>3
<1> QED
  BY <1>1, <1>2, <1>3, <1>4, <1>5, <1>6, <1>7, <1>8, <1>9, <1>10, <1>11, <1>12, <1>13, <1>14, <1>15, <1>16, <1>17, <1>18, <1>19, <1>20, <1>21 DEF RunStep

\* So does every other step: capture, a late hook, a kill, the clock.
LEMMA OtherStepKeepsTypes ==
  ASSUME TypeOK,
         \/ Capture \/ Debounced \/ EventsAge \/ ClaimAges
         \/ \E e \in Event : HookIndexes(e) \/ HookGivesUp(e)
         \/ \E p \in Run : Killed(p)
  PROVE  TypeOK'
<1> USE SessionsAssumption DEF TypeOK, StoreTypeOK, RunTypeOK, HistoryTypeOK,
        vars, storeVars, clockVars, ownVars, ghosts
<1>1. CASE Capture
  <2>1. Cardinality(logged) \in Nat
    BY CountIsNat
  <2>2. Cardinality(logged) + 1 \in Event
    BY <1>1, <2>1 DEF Capture, Event
  <2> QED
    BY <1>1, <2>2 DEF Capture
<1>2. CASE Debounced
  BY <1>2 DEF Debounced
<1>3. CASE EventsAge
  BY <1>3 DEF EventsAge
<1>4. CASE ClaimAges
  BY <1>4 DEF ClaimAges
<1>5. ASSUME NEW e \in Event, HookIndexes(e) PROVE TypeOK'
  <2>1. StoreTypeOK' /\ RunTypeOK'
    BY <1>5 DEF HookIndexes
  <2>2. mishaps' \in Nat
    BY <1>5 DEF HookIndexes
  <2>3. reopened' \in BOOLEAN
    BY <1>5 DEF HookIndexes
  <2> QED
    BY <1>5, <2>1, <2>2, <2>3 DEF HookIndexes
<1>6. ASSUME NEW e \in Event, HookGivesUp(e) PROVE TypeOK'
  BY <1>6 DEF HookGivesUp
<1>7. ASSUME NEW p \in Run, Killed(p) PROVE TypeOK'
  BY <1>7 DEF Killed
<1> QED
  BY <1>1, <1>2, <1>3, <1>4, <1>5, <1>6, <1>7

LEMMA StutterKeepsTypes == TypeOK /\ UNCHANGED vars => TypeOK'
BY DEF TypeOK, StoreTypeOK, RunTypeOK, HistoryTypeOK, vars, storeVars, clockVars,
       ownVars, ghosts, RowType, PageType

\* Every variable keeps its type, for all runs, observations and switches.
THEOREM SessionTypeCorrect == Spec => []TypeOK
<1>1. TypeOK /\ [Next]_vars => TypeOK'
  BY RunStepKeepsTypes, OtherStepKeepsTypes, StutterKeepsTypes DEF Next
<1> QED
  BY TypeInit, <1>1, PTL DEF Spec

(***************************************************************************)
(* Nothing is lost                                                         *)
(***************************************************************************)
\* A run about to mark what a model summarized, itself or by the pages its
\* catch-up met, has the page in the log. This is what NothingIsLost lacks to
\* be inductive.
Marking(p) == (pc[p] = "mark" /\ tier[p] = "model") \/ pc[p] = "catchmark"
MarksAreBacked ==
  \A p \in Run : Marking(p) => got[p] \subseteq Links(ByModel(pages))

LossInv == TypeOK /\ NothingIsLost /\ MarksAreBacked

\* What a set of pages links only grows when the set does, and being seen
\* changes nothing about it.
LEMMA ModelLinksGrow ==
  ASSUME NEW S, NEW T, \A page \in S : \E twin \in T : twin.links = page.links /\ twin.tier = page.tier
  PROVE  Links(ByModel(S)) \subseteq Links(ByModel(T))
BY DEF Links, ByModel

\* Only capture, the catch-up, a reopening, the index and the marks touch what
\* the invariant is about.
LEMMA RunStepLosesNothing ==
  ASSUME LossInv, NEW p \in Run, RunStep(p)
  PROVE  NothingIsLost' /\ MarksAreBacked'
<1> USE DEF LossInv, TypeOK, StoreTypeOK, RunTypeOK, NothingIsLost, MarksAreBacked,
        Marking, Is, Move, storeVars, clockVars, ownVars, ghosts
<1>1. CASE CatchUp(p)
  <2>1. Links(ByModel(pages)) \subseteq Links(ByModel(pages'))
    <3>1. \A page \in pages : [page EXCEPT !.seen = TRUE] \in pages'
      BY <1>1 DEF CatchUp
    <3>2. \A page \in pages : page \in PageType
      OBVIOUS
    <3>3. \A page \in PageType : /\ [page EXCEPT !.seen = TRUE].links = page.links
                                 /\ [page EXCEPT !.seen = TRUE].tier = page.tier
      BY DEF PageType
    <3> QED
      BY <3>1, <3>2, <3>3, ModelLinksGrow
  <2>2. Links(ByModel(Unseen)) \subseteq Links(ByModel(pages))
    BY DEF Links, ByModel, Unseen
  <2>3. NothingIsLost'
    BY <1>1, <2>1, <2>2 DEF CatchUp
  <2>4. MarksAreBacked'
    <3>1. got'[p] = Links(ByModel(Unseen))
      BY <1>1 DEF CatchUp
    <3>2. \A q \in Run : q # p => (Marking(q)' => Marking(q)) /\ got'[q] = got[q]
      BY <1>1 DEF CatchUp
    <3>3. \A q \in Run : Marking(q)' => got'[q] \subseteq Links(ByModel(pages))
      BY <2>2, <3>1, <3>2
    <3> QED
      BY <2>1, <3>3
  <2> QED
    BY <2>3, <2>4
<1>2. CASE Append(p)
  <2>1. pages \subseteq pages' /\ UNCHANGED <<settled, indexed, pending, got, tier>>
    BY <1>2 DEF Append
  <2>2. Links(ByModel(pages)) \subseteq Links(ByModel(pages'))
    BY <2>1 DEF Links, ByModel
  <2>3. \A q \in Run : Marking(q)' => Marking(q)
    BY <1>2 DEF Append
  <2> QED
    BY <2>1, <2>2, <2>3
<1>3. CASE IndexSummary(p)
  <2> DEFINE mine == [links |-> got[p], tier |-> tier[p], seen |-> FALSE]
             done == [links |-> got[p], tier |-> tier[p], seen |-> TRUE]
  <2>1. pages' = (pages \ {mine}) \cup {done}
    BY <1>3 DEF IndexSummary
  <2>2. Links(ByModel(pages)) \subseteq Links(ByModel(pages'))
    <3>1. done.links = mine.links /\ done.tier = mine.tier /\ done \in pages'
      BY <2>1
    <3>2. ASSUME NEW page \in pages
          PROVE  \E twin \in pages' : twin.links = page.links /\ twin.tier = page.tier
      <4>1. CASE page = mine
        BY <3>1, <4>1
      <4>2. CASE page # mine
        <5>1. page \in pages'
          BY <2>1, <4>2
        <5> QED
          BY <5>1
      <4> QED
        BY <4>1, <4>2
    <3> QED
      BY <3>2, ModelLinksGrow
  <2>3. tier[p] = "model" => got[p] \subseteq Links(ByModel(pages'))
    <3>1. done \in pages' /\ done.links = got[p] /\ done.tier = tier[p]
      BY <2>1
    <3> HIDE DEF done
    <3> QED
      BY <3>1 DEF Links, ByModel
  <2>4. UNCHANGED <<settled, indexed, pending, got, tier>>
    BY <1>3 DEF IndexSummary
  <2>5. NothingIsLost'
    BY <2>2, <2>4
  <2>6. MarksAreBacked'
    <3>1. \A q \in Run : Marking(q)' /\ q # p => Marking(q)
      BY <1>3 DEF IndexSummary
    <3>2. Marking(p)' => tier[p] = "model"
      BY <1>3 DEF IndexSummary
    <3> QED
      BY <2>2, <2>3, <2>4, <3>1, <3>2
  <2> QED
    BY <2>5, <2>6
<1>21. CASE CatchUpMarks(p)
  <2>1. NothingIsLost'
    BY <1>21 DEF CatchUpMarks, Links, ByModel
  <2>2. MarksAreBacked'
    BY <1>21 DEF CatchUpMarks
  <2> QED
    BY <2>1, <2>2
<1>4. CASE Mark(p)
  <2>1. NothingIsLost'
    BY <1>4 DEF Mark, Links, ByModel
  <2>2. MarksAreBacked'
    BY <1>4 DEF Mark
  <2> QED
    BY <2>1, <2>2
<1>5. CASE Read(p)
  <2>1. \A q \in Run : Marking(q)' => Marking(q) /\ q # p
    BY <1>5 DEF Read
  <2> QED
    BY <1>5, <2>1 DEF Read
<1>6. CASE Begin(p)
  BY <1>6 DEF Begin
<1>7. CASE Revive(p)
  BY <1>7 DEF Revive, Reopens
<1>8. CASE List(p)
  BY <1>8 DEF List
<1>9. CASE ListsNothing(p)
  BY <1>9 DEF ListsNothing
<1>10. CASE Gate(p)
  BY <1>10 DEF Gate
<1>11. CASE Claim(p)
  BY <1>11 DEF Claim
<1>12. CASE FindsClaimed(p)
  BY <1>12 DEF FindsClaimed
<1>13. CASE LeavesSuperseded(p)
  BY <1>13 DEF LeavesSuperseded, FreeClaim
<1>14. CASE GoesAhead(p)
  BY <1>14 DEF GoesAhead
<1>15. CASE Call(p)
  BY <1>15 DEF Call
<1>16. CASE Errs(p)
  BY <1>16 DEF Errs
<1>17. CASE Record(p)
  BY <1>17 DEF Record
<1>18. CASE After(p)
  BY <1>18 DEF After
<1>19. CASE Release(p)
  BY <1>19 DEF Release, FreeClaim
<1>20. CASE Note(p)
  BY <1>20 DEF Note
<1> QED
  BY <1>1, <1>2, <1>3, <1>4, <1>5, <1>6, <1>7, <1>8, <1>9, <1>10, <1>11, <1>12, <1>13, <1>14, <1>15, <1>16, <1>17, <1>18, <1>19, <1>20, <1>21 DEF RunStep

LEMMA OtherStepLosesNothing ==
  ASSUME LossInv,
         \/ Capture \/ Debounced \/ EventsAge \/ ClaimAges \/ UNCHANGED vars
         \/ \E e \in Event : HookIndexes(e) \/ HookGivesUp(e)
         \/ \E p \in Run : Killed(p)
  PROVE  NothingIsLost' /\ MarksAreBacked'
<1>1. UNCHANGED <<pages, settled, pc, tier, got>>
  BY DEF Capture, Debounced, EventsAge, ClaimAges, HookIndexes, HookGivesUp, Killed,
         vars, storeVars, clockVars, ownVars, ghosts
<1>2. indexed' \ pending' \subseteq indexed \ pending
  BY DEF Capture, Debounced, EventsAge, ClaimAges, HookIndexes, HookGivesUp, Killed,
         vars, storeVars, clockVars, ownVars, ghosts
<1> QED
  BY <1>1, <1>2 DEF LossInv, NothingIsLost, MarksAreBacked, Marking

\* "The ladder degrades quality, never data", whatever dies, fails, overlaps or
\* comes late: an observation that is off the pending list was settled or is
\* linked by a model's summary in the log.
THEOREM NothingIsEverLost == Spec => []NothingIsLost
<1>1. Init => LossInv
  BY TypeInit DEF Init, LossInv, NothingIsLost, MarksAreBacked, Marking
<1>2. LossInv /\ [Next]_vars => LossInv'
  <2> SUFFICES ASSUME LossInv, [Next]_vars PROVE LossInv'
    OBVIOUS
  <2>1. TypeOK'
    BY RunStepKeepsTypes, OtherStepKeepsTypes, StutterKeepsTypes DEF Next, LossInv
  <2>2. NothingIsLost' /\ MarksAreBacked'
    BY RunStepLosesNothing, OtherStepLosesNothing DEF Next
  <2> QED
    BY <2>1, <2>2 DEF LossInv
<1>3. LossInv => NothingIsLost
  BY DEF LossInv
<1> QED
  BY <1>1, <1>2, <1>3, PTL DEF Spec

(***************************************************************************)
(* The claim                                                               *)
(***************************************************************************)
\* As long as no live run lost its claim, a live run between claim and release
\* is the one the row names: that is why the unconditional release can only
\* take a claim away from a run that shares it already.
HolderWorks == ~lost => \A p \in Run : Works(p) => row.claim = p

ClaimInv == TypeOK /\ HolderWorks

LEMMA RunStepKeepsClaim ==
  ASSUME ClaimInv, NEW r \in Run, RunStep(r)
  PROVE  HolderWorks'
<1> USE SessionsAssumption DEF ClaimInv, HolderWorks, TypeOK, StoreTypeOK, RunTypeOK, HistoryTypeOK,
        RowType, Works, Is, Move, storeVars, clockVars, ownVars, ghosts
<1>1. CASE Begin(r)
  BY <1>1 DEF Begin
<1>2. CASE CatchUp(r)
  BY <1>2 DEF CatchUp
<1>3. CASE CatchUpMarks(r)
  BY <1>3 DEF CatchUpMarks
<1>4. CASE Revive(r)
  BY <1>4 DEF Revive, Reopens
<1>5. CASE List(r)
  BY <1>5 DEF List
<1>6. CASE ListsNothing(r)
  BY <1>6 DEF ListsNothing
<1>7. CASE Gate(r)
  BY <1>7 DEF Gate
<1>8. CASE Claim(r)
  BY <1>8 DEF Claim
<1>9. CASE FindsClaimed(r)
  BY <1>9 DEF FindsClaimed
<1>10. CASE LeavesSuperseded(r)
  BY <1>10 DEF LeavesSuperseded, FreeClaim
<1>11. CASE GoesAhead(r)
  BY <1>11 DEF GoesAhead
<1>12. CASE Read(r)
  BY <1>12 DEF Read
<1>13. CASE Call(r)
  BY <1>13 DEF Call
<1>14. CASE Errs(r)
  BY <1>14 DEF Errs
<1>15. CASE Append(r)
  BY <1>15 DEF Append
<1>16. CASE IndexSummary(r)
  BY <1>16 DEF IndexSummary
<1>17. CASE Mark(r)
  BY <1>17 DEF Mark
<1>18. CASE Record(r)
  BY <1>18 DEF Record
<1>19. CASE After(r)
  BY <1>19 DEF After
<1>20. CASE Release(r)
  BY <1>20 DEF Release, FreeClaim
<1>21. CASE Note(r)
  BY <1>21 DEF Note
<1> QED
  BY <1>1, <1>2, <1>3, <1>4, <1>5, <1>6, <1>7, <1>8, <1>9, <1>10, <1>11, <1>12, <1>13, <1>14, <1>15, <1>16, <1>17, <1>18, <1>19, <1>20, <1>21 DEF RunStep

LEMMA OtherStepKeepsClaim ==
  ASSUME ClaimInv,
         \/ Capture \/ Debounced \/ EventsAge \/ ClaimAges \/ UNCHANGED vars
         \/ \E e \in Event : HookIndexes(e) \/ HookGivesUp(e)
         \/ \E p \in Run : Killed(p)
  PROVE  HolderWorks'
<1>1. UNCHANGED <<row, pc, lost>> /\ dead \subseteq dead'
  BY DEF Capture, Debounced, EventsAge, ClaimAges, HookIndexes, HookGivesUp, Killed,
         vars, storeVars, clockVars, ownVars, ghosts
<1> QED
  BY <1>1 DEF ClaimInv, HolderWorks, Works

LEMMA ClaimInvariant == Spec => []ClaimInv
<1>1. Init => ClaimInv
  BY TypeInit DEF Init, ClaimInv, HolderWorks, Works
<1>2. ClaimInv /\ [Next]_vars => ClaimInv'
  <2> SUFFICES ASSUME ClaimInv, [Next]_vars PROVE ClaimInv'
    OBVIOUS
  <2>1. TypeOK'
    BY RunStepKeepsTypes, OtherStepKeepsTypes, StutterKeepsTypes DEF Next, ClaimInv
  <2>2. HolderWorks'
    BY RunStepKeepsClaim, OtherStepKeepsClaim DEF Next
  <2> QED
    BY <2>1, <2>2 DEF ClaimInv
<1> QED
  BY <1>1, <1>2, PTL DEF Spec

\* "Take exclusive rights to consolidate one session": the one conditional
\* upsert keeps any number of runs apart, kills, takeovers of the dead and
\* unconditional releases included; only a claim that a live run lost, to the
\* stale window or to --force, is shared.
THEOREM ClaimsAreSharedOnlyWhenLost == Spec => []OnlyALostClaimIsShared
<1>1. ClaimInv => OnlyALostClaimIsShared
  BY DEF ClaimInv, HolderWorks, OnlyALostClaimIsShared, ClaimIsExclusive
<1> QED
  BY <1>1, ClaimInvariant, PTL

\* The one condition on the code: no live run holds its claim for longer than
\* CLAIM_STALE_SECS, and no --force deletes the row under it. Then a claim
\* counts as stale only when its run is dead, and none is ever lost.
PromptRuns == ~SlowRuns /\ Forced = {}

PromptInv ==
  /\ TypeOK
  /\ ~lost
  /\ claimOld => row.claim \in dead
  /\ \A p \in Run : pc[p] # "revive"

LEMMA RunStepLosesNoClaim ==
  ASSUME PromptInv, PromptRuns, NEW r \in Run, RunStep(r)
  PROVE  /\ ~lost'
         /\ claimOld' => row'.claim \in dead'
         /\ \A p \in Run : pc'[p] # "revive"
<1> USE SessionsAssumption DEF PromptInv, PromptRuns, TypeOK, StoreTypeOK, RunTypeOK, RowType,
        Is, Move, storeVars, clockVars, ownVars, ghosts
<1>1. CASE Begin(r)
  BY <1>1 DEF Begin
<1>2. CASE CatchUp(r)
  BY <1>2 DEF CatchUp
<1>3. CASE CatchUpMarks(r)
  BY <1>3 DEF CatchUpMarks
<1>4. CASE Revive(r)
  BY <1>4 DEF Revive
<1>5. CASE List(r)
  BY <1>5 DEF List
<1>6. CASE ListsNothing(r)
  BY <1>6 DEF ListsNothing
<1>7. CASE Gate(r)
  BY <1>7 DEF Gate
<1>8. CASE Claim(r)
  BY <1>8 DEF Claim
<1>9. CASE FindsClaimed(r)
  BY <1>9 DEF FindsClaimed
<1>10. CASE LeavesSuperseded(r)
  BY <1>10 DEF LeavesSuperseded, FreeClaim
<1>11. CASE GoesAhead(r)
  BY <1>11 DEF GoesAhead
<1>12. CASE Read(r)
  BY <1>12 DEF Read
<1>13. CASE Call(r)
  BY <1>13 DEF Call
<1>14. CASE Errs(r)
  BY <1>14 DEF Errs
<1>15. CASE Append(r)
  BY <1>15 DEF Append
<1>16. CASE IndexSummary(r)
  BY <1>16 DEF IndexSummary
<1>17. CASE Mark(r)
  BY <1>17 DEF Mark
<1>18. CASE Record(r)
  BY <1>18 DEF Record
<1>19. CASE After(r)
  BY <1>19 DEF After
<1>20. CASE Release(r)
  BY <1>20 DEF Release, FreeClaim
<1>21. CASE Note(r)
  BY <1>21 DEF Note
<1> QED
  BY <1>1, <1>2, <1>3, <1>4, <1>5, <1>6, <1>7, <1>8, <1>9, <1>10, <1>11, <1>12, <1>13, <1>14, <1>15, <1>16, <1>17, <1>18, <1>19, <1>20, <1>21 DEF RunStep

LEMMA OtherStepLosesNoClaim ==
  ASSUME PromptInv, PromptRuns,
         \/ Capture \/ Debounced \/ EventsAge \/ ClaimAges \/ UNCHANGED vars
         \/ \E e \in Event : HookIndexes(e) \/ HookGivesUp(e)
         \/ \E p \in Run : Killed(p)
  PROVE  /\ ~lost'
         /\ claimOld' => row'.claim \in dead'
         /\ \A p \in Run : pc'[p] # "revive"
<1>1. UNCHANGED <<row, pc, lost>> /\ dead \subseteq dead'
  BY DEF Capture, Debounced, EventsAge, ClaimAges, HookIndexes, HookGivesUp, Killed,
         vars, storeVars, clockVars, ownVars, ghosts
<1>2. claimOld' => claimOld \/ row.claim \in dead
  BY DEF Capture, Debounced, EventsAge, ClaimAges, HookIndexes, HookGivesUp, Killed,
         vars, storeVars, clockVars, ownVars, ghosts, PromptRuns
<1> QED
  BY <1>1, <1>2 DEF PromptInv

\* The corollary for the runs the code expects: those that keep to the stale
\* window and were not started with --force are never two at once.
THEOREM PromptRunsAreExclusive ==
  ASSUME PromptRuns
  PROVE  Spec => []ClaimIsExclusive
<1>1. Init => PromptInv
  BY TypeInit DEF Init, PromptInv
<1>2. PromptInv /\ [Next]_vars => PromptInv'
  <2> SUFFICES ASSUME PromptInv, [Next]_vars PROVE PromptInv'
    OBVIOUS
  <2>1. TypeOK'
    BY RunStepKeepsTypes, OtherStepKeepsTypes, StutterKeepsTypes DEF Next, PromptInv
  <2> QED
    BY <2>1, RunStepLosesNoClaim, OtherStepLosesNoClaim DEF PromptInv, Next
<1>3. PromptInv /\ OnlyALostClaimIsShared => ClaimIsExclusive
  BY DEF PromptInv, OnlyALostClaimIsShared
<1> QED
  BY <1>1, <1>2, <1>3, ClaimsAreSharedOnlyWhenLost, PTL DEF Spec

(***************************************************************************)
(* What a run read and what it records                                     *)
(***************************************************************************)
\* Observations are logged in turn, so a new one is in no set yet.
CapturedInTurn == logged = 1..Cardinality(logged)

\* What a run holds between reading and marking is in the index, and so is the
\* newest observation it was listed with.
Listing    == {"gate", "claim", "check", "read", "call", "append", "index", "mark", "record"}
Holding    == {"call", "append", "index", "mark"}
GotIsIndexed    == \A p \in Run : pc[p] \in Holding => got[p] \subseteq indexed
ListedIsIndexed == \A p \in Run : pc[p] \in Listing => newest[p] \in indexed

\* The ladder's tier is a model's or the floor's, and stays so up to the index.
LadderTier == \A p \in Run : pc[p] \in {"append", "index"} => tier[p] \in {"model", "rule-based"}

WorkInv == TypeOK /\ CapturedInTurn /\ GotIsIndexed /\ ListedIsIndexed /\ LadderTier

LEMMA WorkInit == Init => WorkInv
<1> SUFFICES ASSUME Init PROVE WorkInv
  OBVIOUS
<1>1. CapturedInTurn
  BY FS_EmptySet DEF Init, CapturedInTurn
<1> QED
  BY <1>1, TypeInit DEF Init, WorkInv, GotIsIndexed, ListedIsIndexed, LadderTier, Holding, Listing

LEMMA RunStepKeepsWork ==
  ASSUME WorkInv, NEW p \in Run, RunStep(p)
  PROVE  CapturedInTurn' /\ GotIsIndexed' /\ ListedIsIndexed' /\ LadderTier'
<1> USE DEF WorkInv, TypeOK, StoreTypeOK, RunTypeOK, CapturedInTurn, GotIsIndexed, ListedIsIndexed, LadderTier,
        Holding, Listing, Is, Move, storeVars, clockVars, ownVars, ghosts
<1>1. CASE Begin(p)
  BY <1>1 DEF Begin
<1>2. CASE CatchUp(p)
  BY <1>2 DEF CatchUp
<1>3. CASE CatchUpMarks(p)
  BY <1>3 DEF CatchUpMarks
<1>4. CASE Revive(p)
  BY <1>4 DEF Revive, Reopens
<1>5. CASE List(p)
  BY <1>5 DEF List, Listed, Newest
<1>6. CASE ListsNothing(p)
  BY <1>6 DEF ListsNothing
<1>7. CASE Gate(p)
  BY <1>7 DEF Gate
<1>8. CASE Claim(p)
  BY <1>8 DEF Claim
<1>9. CASE FindsClaimed(p)
  BY <1>9 DEF FindsClaimed
<1>10. CASE LeavesSuperseded(p)
  BY <1>10 DEF LeavesSuperseded, FreeClaim
<1>11. CASE GoesAhead(p)
  BY <1>11 DEF GoesAhead
<1>12. CASE Read(p)
  <2>1. GotIsIndexed'
    BY <1>12 DEF Read
  <2>2. CapturedInTurn' /\ ListedIsIndexed' /\ LadderTier'
    BY <1>12 DEF Read
  <2> QED
    BY <2>1, <2>2
<1>13. CASE Call(p)
  BY <1>13 DEF Call
<1>14. CASE Errs(p)
  BY <1>14 DEF Errs
<1>15. CASE Append(p)
  BY <1>15 DEF Append
<1>16. CASE IndexSummary(p)
  BY <1>16 DEF IndexSummary
<1>17. CASE Mark(p)
  BY <1>17 DEF Mark
<1>18. CASE Record(p)
  BY <1>18 DEF Record
<1>19. CASE After(p)
  BY <1>19 DEF After
<1>20. CASE Release(p)
  BY <1>20 DEF Release, FreeClaim
<1>21. CASE Note(p)
  BY <1>21 DEF Note
<1> QED
  BY <1>1, <1>2, <1>3, <1>4, <1>5, <1>6, <1>7, <1>8, <1>9, <1>10, <1>11, <1>12, <1>13, <1>14, <1>15, <1>16, <1>17, <1>18, <1>19, <1>20, <1>21 DEF RunStep

\* A hook's event is new to every set, and the index only grows.
LEMMA NextEventIsNew ==
  ASSUME TypeOK, CapturedInTurn
  PROVE  Cardinality(logged) \in Nat /\ Cardinality(logged) + 1 \notin logged
<1>1. Cardinality(logged) \in Nat
  BY CountIsNat DEF TypeOK, StoreTypeOK
<1> QED
  BY <1>1 DEF CapturedInTurn

LEMMA OtherStepKeepsWork ==
  ASSUME WorkInv,
         \/ Capture \/ Debounced \/ EventsAge \/ ClaimAges \/ UNCHANGED vars
         \/ \E e \in Event : HookIndexes(e) \/ HookGivesUp(e)
         \/ \E p \in Run : Killed(p)
  PROVE  CapturedInTurn' /\ GotIsIndexed' /\ ListedIsIndexed' /\ LadderTier'
<1>1. UNCHANGED <<pc, got, newest, tier>> /\ indexed \subseteq indexed'
  BY DEF Capture, Debounced, EventsAge, ClaimAges, HookIndexes, HookGivesUp, Killed,
         vars, storeVars, clockVars, ownVars, ghosts
<1>2. GotIsIndexed' /\ ListedIsIndexed' /\ LadderTier'
  BY <1>1 DEF WorkInv, GotIsIndexed, ListedIsIndexed, LadderTier
<1>3. CapturedInTurn'
  <2>1. CASE UNCHANGED logged
    BY <2>1 DEF WorkInv, CapturedInTurn
  <2>2. CASE Capture
    <3>1. IsFiniteSet(logged)
      BY EventsAreFinite DEF WorkInv, TypeOK, StoreTypeOK
    <3>2. logged' = logged \cup {Cardinality(logged) + 1}
      BY <2>2 DEF Capture
    <3>3. Cardinality(logged) \in Nat /\ Cardinality(logged) + 1 \notin logged
      BY NextEventIsNew DEF WorkInv
    <3>4. Cardinality(logged') = Cardinality(logged) + 1
      BY <3>1, <3>2, <3>3, FS_AddElement
    <3> QED
      BY <3>2, <3>3, <3>4 DEF WorkInv, CapturedInTurn
  <2> QED
    BY <2>1, <2>2 DEF Debounced, EventsAge, ClaimAges, HookIndexes, HookGivesUp, Killed, vars
<1> QED
  BY <1>2, <1>3

LEMMA StepKeepsWork == WorkInv /\ [Next]_vars => WorkInv'
<1> SUFFICES ASSUME WorkInv, [Next]_vars PROVE WorkInv'
  OBVIOUS
<1>1. TypeOK'
  BY RunStepKeepsTypes, OtherStepKeepsTypes, StutterKeepsTypes DEF Next, WorkInv
<1>2. CapturedInTurn' /\ GotIsIndexed' /\ ListedIsIndexed' /\ LadderTier'
  BY RunStepKeepsWork, OtherStepKeepsWork DEF Next
<1> QED
  BY <1>1, <1>2 DEF WorkInv

(***************************************************************************)
(* No work is stranded                                                     *)
(***************************************************************************)
\* Unless an observation that was done came back, the newest observation a
\* run was listed with is done, or in its hands, until it is recorded; and the
\* one a model-backed or settled row names stays done.
Done == indexed \ pending
RunsAreOnIt ==
  \A p \in Run : /\ pc[p] \in Holding => newest[p] \in got[p] \cup Done
                 /\ pc[p] = "record" /\ tier[p] # "rule-based" => newest[p] \in Done
RecordedIsDone == row.last # 0 /\ row.tier # "rule-based" => row.last \in Done
StrandInv == WorkInv /\ (~reopened => RunsAreOnIt /\ RecordedIsDone)

LEMMA RunStepStrandsNothing ==
  ASSUME StrandInv, ~reopened', NEW p \in Run, RunStep(p)
  PROVE  RunsAreOnIt' /\ RecordedIsDone'
<1> USE DEF StrandInv, WorkInv, TypeOK, StoreTypeOK, RunTypeOK, RowType, GotIsIndexed, ListedIsIndexed, LadderTier,
        RunsAreOnIt, RecordedIsDone, Done, Holding, Listing, Is, Move, storeVars, clockVars, ownVars, ghosts
<1>1. CASE Begin(p)
  BY <1>1 DEF Begin
<1>2. CASE CatchUp(p)
  BY <1>2 DEF CatchUp
<1>3. CASE CatchUpMarks(p)
  BY <1>3 DEF CatchUpMarks
<1>4. CASE Revive(p)
  BY <1>4 DEF Revive, Reopens
<1>5. CASE List(p)
  BY <1>5 DEF List, Listed, Newest
<1>6. CASE ListsNothing(p)
  BY <1>6 DEF ListsNothing
<1>7. CASE Gate(p)
  BY <1>7 DEF Gate
<1>8. CASE Claim(p)
  BY <1>8 DEF Claim
<1>9. CASE FindsClaimed(p)
  BY <1>9 DEF FindsClaimed
<1>10. CASE LeavesSuperseded(p)
  BY <1>10 DEF LeavesSuperseded, FreeClaim
<1>11. CASE GoesAhead(p)
  BY <1>11 DEF GoesAhead
<1>12. CASE Read(p)
  BY <1>12 DEF Read
<1>13. CASE Call(p)
  BY <1>13 DEF Call
<1>14. CASE Errs(p)
  BY <1>14 DEF Errs
<1>15. CASE Append(p)
  BY <1>15 DEF Append
<1>16. CASE IndexSummary(p)
  BY <1>16 DEF IndexSummary
<1>17. CASE Mark(p)
  BY <1>17 DEF Mark
<1>18. CASE Record(p)
  BY <1>18 DEF Record
<1>19. CASE After(p)
  BY <1>19 DEF After
<1>20. CASE Release(p)
  BY <1>20 DEF Release, FreeClaim
<1>21. CASE Note(p)
  BY <1>21 DEF Note
<1> QED
  BY <1>1, <1>2, <1>3, <1>4, <1>5, <1>6, <1>7, <1>8, <1>9, <1>10, <1>11, <1>12, <1>13, <1>14, <1>15, <1>16, <1>17, <1>18, <1>19, <1>20, <1>21 DEF RunStep

LEMMA OtherStepStrandsNothing ==
  ASSUME StrandInv, ~reopened',
         \/ Capture \/ Debounced \/ EventsAge \/ ClaimAges \/ UNCHANGED vars
         \/ \E e \in Event : HookIndexes(e) \/ HookGivesUp(e)
         \/ \E p \in Run : Killed(p)
  PROVE  RunsAreOnIt' /\ RecordedIsDone'
<1>1. UNCHANGED <<row, pc, got, newest, tier>> /\ ~reopened
  BY DEF Capture, Debounced, EventsAge, ClaimAges, HookIndexes, HookGivesUp, Killed,
         vars, storeVars, clockVars, ownVars, ghosts
<1>2. Done \subseteq Done'
  <2>1. CASE Capture
    <3>1. Cardinality(logged) + 1 \notin indexed
      BY NextEventIsNew DEF StrandInv, WorkInv, TypeOK, StoreTypeOK
    <3> QED
      BY <2>1, <3>1 DEF Capture, Done
  <2>2. CASE \E e \in Event : HookIndexes(e)
    BY <2>2 DEF HookIndexes, Done
  <2> QED
    BY <2>1, <2>2 DEF Debounced, EventsAge, ClaimAges, HookGivesUp, Killed, Done,
       vars, storeVars, clockVars, ownVars, ghosts
<1> QED
  BY <1>1, <1>2 DEF StrandInv, RunsAreOnIt, RecordedIsDone

\* "makes the backlog permanently stale" (should_wait) takes an observation that
\* was done and went back on the list: whatever dies, fails, overlaps or loses
\* its claim, no other newest observation is held back for good.
THEOREM WorkIsStrandedOnlyByReopening == Spec => []OnlyReopenedWorkIsStranded
<1>1. Init => StrandInv
  BY WorkInit DEF Init, StrandInv, RunsAreOnIt, RecordedIsDone, EmptyRow, Holding
<1>2. StrandInv /\ [Next]_vars => StrandInv'
  <2> SUFFICES ASSUME StrandInv, [Next]_vars PROVE StrandInv'
    OBVIOUS
  <2>1. WorkInv'
    BY StepKeepsWork DEF StrandInv
  <2>2. ~reopened' => RunsAreOnIt' /\ RecordedIsDone'
    BY RunStepStrandsNothing, OtherStepStrandsNothing DEF Next
  <2> QED
    BY <2>1, <2>2 DEF StrandInv
<1>3. StrandInv => OnlyReopenedWorkIsStranded
  <2> SUFFICES ASSUME StrandInv, hasRow, Newest(row.last, pending), row.tier # "rule-based", ~reopened
               PROVE  FALSE
    BY DEF OnlyReopenedWorkIsStranded
  <2>1. row.last \in Event
    BY DEF StrandInv, WorkInv, TypeOK, StoreTypeOK, Newest
  <2>2. row.last # 0
    BY <2>1, SessionsAssumption DEF Event
  <2> QED
    BY <2>2 DEF StrandInv, RecordedIsDone, Done, Newest
<1> QED
  BY <1>1, <1>2, <1>3, PTL DEF Spec

(***************************************************************************)
(* Every further narrative is paid for                                     *)
(***************************************************************************)
\* A run that may yet append a model's summary of e.
MayTell(p, e) ==
  /\ p \notin dead
  /\ \/ pc[p] \in {"check", "read"}
     \/ pc[p] \in {"call", "append"} /\ e \in got[p]

\* Those of them the row does not name.
Extra(e) == {p \in Run : MayTell(p, e) /\ row.claim # p}

\* Whether e may yet be read by a run, and whether the run the row names, or
\* the next one, may tell it.
Open(e) == e \notin indexed \/ e \in pending
Told(p, e) == pc[p] \in {"index", "mark"} /\ tier[p] = "model" /\ e \in got[p]
Due(e) ==
  \/ row.claim = Nobody /\ Open(e)
  \/ /\ row.claim \in Run \ dead
     /\ \/ pc[row.claim] \in {"call", "append"} /\ e \in got[row.claim]
        \/ Open(e) /\ ~Told(row.claim, e)
DueCount(e) == IF Due(e) THEN 1 ELSE 0

\* The balance: what was told of e and what may yet be told without another
\* mishap never exceeds one narrative and one for every mishap so far.
Balanced ==
  \A e \in Event : /\ IsFiniteSet(Extra(e))
                   /\ told[e] + Cardinality(Extra(e)) + DueCount(e) <= 1 + mishaps
RetoldInv == WorkInv /\ Balanced

\* A finite set that shrinks, gains at most one element, or loses one.
LEMMA CountShrinks ==
  ASSUME NEW S, NEW T \in SUBSET S, IsFiniteSet(S)
  PROVE  /\ IsFiniteSet(T) /\ Cardinality(T) \in Nat /\ Cardinality(S) \in Nat
         /\ Cardinality(T) <= Cardinality(S)
BY FS_Subset, FS_CardinalityType

LEMMA CountGrows ==
  ASSUME NEW S, NEW x, NEW T \in SUBSET (S \cup {x}), IsFiniteSet(S)
  PROVE  /\ IsFiniteSet(T) /\ Cardinality(T) \in Nat /\ Cardinality(S) \in Nat
         /\ Cardinality(T) <= Cardinality(S) + 1
<1>1. Cardinality(S) \in Nat
  BY FS_CardinalityType
<1>2. IsFiniteSet(S \cup {x}) /\ Cardinality(S \cup {x}) <= Cardinality(S) + 1
  BY <1>1, FS_AddElement
<1>3. /\ IsFiniteSet(T) /\ Cardinality(T) \in Nat /\ Cardinality(S \cup {x}) \in Nat
      /\ Cardinality(T) <= Cardinality(S \cup {x})
  BY <1>2, CountShrinks
<1> QED
  BY <1>1, <1>2, <1>3

LEMMA CountDrops ==
  ASSUME NEW S, NEW x \in S, NEW T \in SUBSET (S \ {x}), IsFiniteSet(S)
  PROVE  /\ IsFiniteSet(T) /\ Cardinality(T) \in Nat /\ Cardinality(S) \in Nat
         /\ Cardinality(T) + 1 <= Cardinality(S)
<1>1. Cardinality(S) \in Nat
  BY FS_CardinalityType
<1>2. IsFiniteSet(S \ {x}) /\ Cardinality(S \ {x}) = Cardinality(S) - 1
  BY FS_RemoveElement
<1>3. /\ IsFiniteSet(T) /\ Cardinality(T) \in Nat /\ Cardinality(S \ {x}) \in Nat
      /\ Cardinality(T) <= Cardinality(S \ {x})
  BY <1>2, CountShrinks
<1> QED
  BY <1>1, <1>2, <1>3

\* The balance of one observation, and the three ways a step keeps it: it adds
\* nothing, it pays for what it adds with a mishap, or it tells what was due.
BalancedFor(e) == IsFiniteSet(Extra(e)) /\ told[e] + Cardinality(Extra(e)) + DueCount(e) <= 1 + mishaps

LEMMA BalanceTypes ==
  ASSUME TypeOK, TypeOK', NEW e \in Event
  PROVE  /\ told[e] \in Nat /\ told[e]' \in Nat /\ mishaps \in Nat /\ mishaps' \in Nat
         /\ DueCount(e) \in {0, 1} /\ DueCount(e)' \in {0, 1}
BY DEF TypeOK, HistoryTypeOK, DueCount

LEMMA NothingAdded ==
  ASSUME TypeOK, TypeOK', NEW e \in Event, BalancedFor(e),
         told[e]' = told[e], mishaps' = mishaps, Extra(e)' \subseteq Extra(e), Due(e)' => Due(e)
  PROVE  BalancedFor(e)'
<1>1. /\ IsFiniteSet(Extra(e)') /\ Cardinality(Extra(e)') \in Nat /\ Cardinality(Extra(e)) \in Nat
      /\ Cardinality(Extra(e)') <= Cardinality(Extra(e))
  BY CountShrinks DEF BalancedFor
<1>2. DueCount(e)' <= DueCount(e)
  BY DEF DueCount
<1> QED
  BY <1>1, <1>2, BalanceTypes DEF BalancedFor

LEMMA PaidFor ==
  ASSUME TypeOK, TypeOK', NEW e \in Event, NEW x, BalancedFor(e), told' = told,
         \/ mishaps' = mishaps + 1 /\ Extra(e)' \subseteq Extra(e)
         \/ mishaps' = mishaps + 1 /\ Extra(e)' \subseteq Extra(e) \cup {x} /\ (Due(e)' => Due(e))
         \/ mishaps' = mishaps + 2 /\ Extra(e)' \subseteq Extra(e) \cup {x}
  PROVE  BalancedFor(e)'
<1>1. CASE mishaps' = mishaps + 1 /\ Extra(e)' \subseteq Extra(e)
  <2>1. /\ IsFiniteSet(Extra(e)') /\ Cardinality(Extra(e)') \in Nat /\ Cardinality(Extra(e)) \in Nat
        /\ Cardinality(Extra(e)') <= Cardinality(Extra(e))
    BY <1>1, CountShrinks DEF BalancedFor
  <2> QED
    BY <1>1, <2>1, BalanceTypes DEF BalancedFor
<1>2. CASE \/ mishaps' = mishaps + 1 /\ Extra(e)' \subseteq Extra(e) \cup {x} /\ (Due(e)' => Due(e))
           \/ mishaps' = mishaps + 2 /\ Extra(e)' \subseteq Extra(e) \cup {x}
  <2>1. /\ IsFiniteSet(Extra(e)') /\ Cardinality(Extra(e)') \in Nat /\ Cardinality(Extra(e)) \in Nat
        /\ Cardinality(Extra(e)') <= Cardinality(Extra(e)) + 1
    BY <1>2, CountGrows DEF BalancedFor
  <2>2. DueCount(e)' + mishaps + 1 <= DueCount(e) + mishaps'
    BY <1>2, BalanceTypes DEF DueCount
  <2> QED
    BY <2>1, <2>2, BalanceTypes DEF BalancedFor
<1> QED
  BY <1>1, <1>2

LEMMA ToldWhatWasDue ==
  ASSUME TypeOK, TypeOK', NEW e \in Event, NEW x, BalancedFor(e),
         told[e]' = told[e] + 1, mishaps' = mishaps,
         \/ Extra(e)' \subseteq Extra(e) /\ Due(e) /\ ~Due(e)'
         \/ x \in Extra(e) /\ Extra(e)' \subseteq Extra(e) \ {x} /\ (Due(e)' => Due(e))
  PROVE  BalancedFor(e)'
<1>1. CASE Extra(e)' \subseteq Extra(e) /\ Due(e) /\ ~Due(e)'
  <2>1. /\ IsFiniteSet(Extra(e)') /\ Cardinality(Extra(e)') \in Nat /\ Cardinality(Extra(e)) \in Nat
        /\ Cardinality(Extra(e)') <= Cardinality(Extra(e))
    BY <1>1, CountShrinks DEF BalancedFor
  <2>2. DueCount(e) = 1 /\ DueCount(e)' = 0
    BY <1>1 DEF DueCount
  <2> QED
    BY <2>1, <2>2, BalanceTypes DEF BalancedFor
<1>2. CASE x \in Extra(e) /\ Extra(e)' \subseteq Extra(e) \ {x} /\ (Due(e)' => Due(e))
  <2>1. /\ IsFiniteSet(Extra(e)') /\ Cardinality(Extra(e)') \in Nat /\ Cardinality(Extra(e)) \in Nat
        /\ Cardinality(Extra(e)') + 1 <= Cardinality(Extra(e))
    BY <1>2, CountDrops DEF BalancedFor
  <2>2. DueCount(e)' <= DueCount(e)
    BY <1>2 DEF DueCount
  <2> QED
    BY <2>1, <2>2, BalanceTypes DEF BalancedFor
<1> QED
  BY <1>1, <1>2

\* A run loses the row's naming to a takeover or a foreign release: if it may
\* yet tell e, what was due stays at most that.
LEMMA RunStepKeepsBalance ==
  ASSUME WorkInv, TypeOK', NEW e \in Event, BalancedFor(e), NEW p \in Run, RunStep(p)
  PROVE  BalancedFor(e)'
<1> USE SessionsAssumption DEF WorkInv, TypeOK, StoreTypeOK, RunTypeOK, RowType, GotIsIndexed, Holding,
        Extra, Due, MayTell, Open, Told, Is, Move, storeVars, clockVars, ownVars, ghosts
<1>1. CASE Begin(p)
  <2>1. told' = told /\ mishaps' = mishaps
    BY <1>1 DEF Begin
  <2>2. Extra(e)' \subseteq Extra(e)
    BY <1>1 DEF Begin
  <2>3. Due(e)' => Due(e)
    BY <1>1 DEF Begin
  <2> QED
    BY <2>1, <2>2, <2>3, NothingAdded
<1>2. CASE CatchUp(p)
  <2>1. told' = told /\ mishaps' = mishaps
    BY <1>2 DEF CatchUp
  <2>2. Extra(e)' \subseteq Extra(e)
    BY <1>2 DEF CatchUp
  <2>3. Due(e)' => Due(e)
    BY <1>2 DEF CatchUp
  <2> QED
    BY <2>1, <2>2, <2>3, NothingAdded
<1>3. CASE CatchUpMarks(p)
  <2>1. told' = told /\ mishaps' = mishaps
    BY <1>3 DEF CatchUpMarks
  <2>2. Extra(e)' \subseteq Extra(e)
    BY <1>3 DEF CatchUpMarks
  <2>3. Due(e)' => Due(e)
    BY <1>3 DEF CatchUpMarks
  <2> QED
    BY <2>1, <2>2, <2>3, NothingAdded
<1>4. CASE Revive(p)
  <2>1. told' = told
    BY <1>4 DEF Revive
  <2>2. CASE ~Reopens
    <3>1. mishaps' = mishaps
      BY <1>4, <2>2 DEF Revive
    <3>2. Extra(e)' \subseteq Extra(e)
      BY <1>4, <2>2 DEF Revive
    <3>3. Due(e)' => Due(e)
      BY <1>4, <2>2 DEF Revive
    <3> QED
      BY <2>1, <3>1, <3>2, <3>3, NothingAdded
  <2>3. CASE Reopens /\ row.claim = Nobody
    <3>1. mishaps' = mishaps + 1
      BY <1>4, <2>3 DEF Revive
    <3>2. Extra(e)' \subseteq Extra(e)
      BY <1>4, <2>3 DEF Revive, EmptyRow
    <3> QED
      BY <2>1, <3>1, <3>2, PaidFor
  <2>4. CASE Reopens /\ row.claim # Nobody
    <3>1. mishaps' = mishaps + 2
      BY <1>4, <2>4 DEF Revive
    <3>2. Extra(e)' \subseteq Extra(e) \cup {row.claim}
      BY <1>4, <2>4 DEF Revive, EmptyRow
    <3> QED
      BY <2>1, <3>1, <3>2, PaidFor
  <2> QED
    BY <2>2, <2>3, <2>4
<1>5. CASE List(p)
  <2>1. told' = told /\ mishaps' = mishaps
    BY <1>5 DEF List, Listed, Newest
  <2>2. Extra(e)' \subseteq Extra(e)
    BY <1>5 DEF List, Listed, Newest
  <2>3. Due(e)' => Due(e)
    BY <1>5 DEF List, Listed, Newest
  <2> QED
    BY <2>1, <2>2, <2>3, NothingAdded
<1>6. CASE ListsNothing(p)
  <2>1. told' = told /\ mishaps' = mishaps
    BY <1>6 DEF ListsNothing
  <2>2. Extra(e)' \subseteq Extra(e)
    BY <1>6 DEF ListsNothing
  <2>3. Due(e)' => Due(e)
    BY <1>6 DEF ListsNothing
  <2> QED
    BY <2>1, <2>2, <2>3, NothingAdded
<1>7. CASE Gate(p)
  <2>1. told' = told /\ mishaps' = mishaps
    BY <1>7 DEF Gate
  <2>2. Extra(e)' \subseteq Extra(e)
    BY <1>7 DEF Gate
  <2>3. Due(e)' => Due(e)
    BY <1>7 DEF Gate
  <2> QED
    BY <2>1, <2>2, <2>3, NothingAdded
<1>8. CASE Claim(p)
  <2> USE <1>8 DEF Claim
  <2>1. told' = told
    OBVIOUS
  <2>2. CASE row.claim = Nobody
    <3>1. mishaps' = mishaps
      BY <2>2
    <3>2. Extra(e)' \subseteq Extra(e)
      BY <2>2
    <3>3. Due(e)' => Due(e)
      BY <2>2
    <3> QED
      BY <2>1, <3>1, <3>2, <3>3, NothingAdded
  <2>3. CASE row.claim # Nobody
    <3>1. mishaps' = mishaps + 1
      BY <2>3
    <3>2. Extra(e)' \subseteq Extra(e) \cup {row.claim}
      BY <2>3
    <3>3. Extra(e)' \subseteq Extra(e) \/ (Due(e)' => Due(e))
      BY <2>3
    <3> QED
      BY <2>1, <3>1, <3>2, <3>3, PaidFor
  <2> QED
    BY <2>2, <2>3
<1>9. CASE FindsClaimed(p)
  <2>1. told' = told /\ mishaps' = mishaps
    BY <1>9 DEF FindsClaimed
  <2>2. Extra(e)' \subseteq Extra(e)
    BY <1>9 DEF FindsClaimed
  <2>3. Due(e)' => Due(e)
    BY <1>9 DEF FindsClaimed
  <2> QED
    BY <2>1, <2>2, <2>3, NothingAdded
<1>10. CASE LeavesSuperseded(p)
  <2> USE <1>10 DEF LeavesSuperseded, FreeClaim
  <2>1. told' = told
    OBVIOUS
  <2>2. CASE row.claim \in {Nobody, p}
    <3>1. mishaps' = mishaps
      BY <2>2
    <3>2. Extra(e)' \subseteq Extra(e)
      BY <2>2
    <3>3. Due(e)' => Due(e)
      BY <2>2
    <3> QED
      BY <2>1, <3>1, <3>2, <3>3, NothingAdded
  <2>3. CASE row.claim \notin {Nobody, p}
    <3>1. mishaps' = mishaps + 1
      BY <2>3
    <3>2. Extra(e)' \subseteq Extra(e) \cup {row.claim}
      BY <2>3
    <3>3. Extra(e)' \subseteq Extra(e) \/ (Due(e)' => Due(e))
      BY <2>3
    <3> QED
      BY <2>1, <3>1, <3>2, <3>3, PaidFor
  <2> QED
    BY <2>2, <2>3
<1>11. CASE GoesAhead(p)
  <2>1. told' = told /\ mishaps' = mishaps
    BY <1>11 DEF GoesAhead
  <2>2. Extra(e)' \subseteq Extra(e)
    BY <1>11 DEF GoesAhead
  <2>3. Due(e)' => Due(e)
    BY <1>11 DEF GoesAhead
  <2> QED
    BY <2>1, <2>2, <2>3, NothingAdded
<1>12. CASE Read(p)
  <2>1. told' = told /\ mishaps' = mishaps
    BY <1>12 DEF Read
  <2>2. Extra(e)' \subseteq Extra(e)
    BY <1>12 DEF Read
  <2>3. Due(e)' => Due(e)
    BY <1>12 DEF Read
  <2> QED
    BY <2>1, <2>2, <2>3, NothingAdded
<1>13. CASE Call(p)
  <2>1. told' = told /\ mishaps' = mishaps
    BY <1>13 DEF Call
  <2>2. Extra(e)' \subseteq Extra(e)
    BY <1>13 DEF Call
  <2>3. Due(e)' => Due(e)
    BY <1>13 DEF Call
  <2> QED
    BY <2>1, <2>2, <2>3, NothingAdded
<1>14. CASE Errs(p)
  <2> USE <1>14 DEF Errs
  <2>1. told' = told /\ Extra(e)' \subseteq Extra(e)
    OBVIOUS
  <2>2. CASE pc[p] = "index" \/ (pc[p] = "mark" /\ tier[p] = "model")
    <3>1. mishaps' = mishaps + 1
      BY <2>2
    <3> QED
      BY <2>1, <3>1, PaidFor
  <2>3. CASE ~(pc[p] = "index" \/ (pc[p] = "mark" /\ tier[p] = "model"))
    <3>1. mishaps' = mishaps
      BY <2>3
    <3>2. Due(e)' => Due(e)
      BY <2>3
    <3> QED
      BY <2>1, <3>1, <3>2, NothingAdded
  <2> QED
    BY <2>2, <2>3
<1>15. CASE Append(p)
  <2> USE <1>15 DEF Append
  <2>1. mishaps' = mishaps
    OBVIOUS
  <2>2. CASE tier[p] = "model" /\ e \in got[p]
    <3>1. told[e]' = told[e] + 1
      BY <2>2 DEF HistoryTypeOK
    <3>2. CASE row.claim = p
      <4>1. Extra(e)' \subseteq Extra(e)
        BY <3>2
      <4>2. Due(e) /\ ~Due(e)'
        BY <2>2, <3>2
      <4> QED
        BY <2>1, <3>1, <4>1, <4>2, ToldWhatWasDue
    <3>3. CASE row.claim # p
      <4>1. p \in Extra(e) /\ Extra(e)' \subseteq Extra(e) \ {p}
        BY <2>2, <3>3
      <4>2. Due(e)' => Due(e)
        BY <3>3
      <4> QED
        BY <2>1, <3>1, <4>1, <4>2, ToldWhatWasDue
    <3> QED
      BY <3>2, <3>3
  <2>3. CASE ~(tier[p] = "model" /\ e \in got[p])
    <3>1. told[e]' = told[e]
      BY <2>3 DEF HistoryTypeOK
    <3>2. Extra(e)' \subseteq Extra(e)
      OBVIOUS
    <3>3. Due(e)' => Due(e)
      BY <2>3
    <3> QED
      BY <2>1, <3>1, <3>2, <3>3, NothingAdded
  <2> QED
    BY <2>2, <2>3
<1>16. CASE IndexSummary(p)
  <2>1. told' = told /\ mishaps' = mishaps
    BY <1>16 DEF IndexSummary
  <2>2. Extra(e)' \subseteq Extra(e)
    BY <1>16 DEF IndexSummary
  <2>3. Due(e)' => Due(e)
    BY <1>16 DEF IndexSummary
  <2> QED
    BY <2>1, <2>2, <2>3, NothingAdded
<1>17. CASE Mark(p)
  <2>1. told' = told /\ mishaps' = mishaps
    BY <1>17 DEF Mark
  <2>2. Extra(e)' \subseteq Extra(e)
    BY <1>17 DEF Mark
  <2>3. Due(e)' => Due(e)
    BY <1>17 DEF Mark
  <2> QED
    BY <2>1, <2>2, <2>3, NothingAdded
<1>18. CASE Record(p)
  <2>1. told' = told /\ mishaps' = mishaps
    BY <1>18 DEF Record
  <2>2. Extra(e)' \subseteq Extra(e)
    BY <1>18 DEF Record
  <2>3. Due(e)' => Due(e)
    BY <1>18 DEF Record
  <2> QED
    BY <2>1, <2>2, <2>3, NothingAdded
<1>19. CASE After(p)
  <2>1. told' = told /\ mishaps' = mishaps
    BY <1>19 DEF After
  <2>2. Extra(e)' \subseteq Extra(e)
    BY <1>19 DEF After
  <2>3. Due(e)' => Due(e)
    BY <1>19 DEF After
  <2> QED
    BY <2>1, <2>2, <2>3, NothingAdded
<1>20. CASE Release(p)
  <2> USE <1>20 DEF Release, FreeClaim
  <2>1. told' = told
    OBVIOUS
  <2>2. CASE row.claim \in {Nobody, p}
    <3>1. mishaps' = mishaps
      BY <2>2
    <3>2. Extra(e)' \subseteq Extra(e)
      BY <2>2
    <3>3. Due(e)' => Due(e)
      BY <2>2
    <3> QED
      BY <2>1, <3>1, <3>2, <3>3, NothingAdded
  <2>3. CASE row.claim \notin {Nobody, p}
    <3>1. mishaps' = mishaps + 1
      BY <2>3
    <3>2. Extra(e)' \subseteq Extra(e) \cup {row.claim}
      BY <2>3
    <3>3. Extra(e)' \subseteq Extra(e) \/ (Due(e)' => Due(e))
      BY <2>3
    <3> QED
      BY <2>1, <3>1, <3>2, <3>3, PaidFor
  <2> QED
    BY <2>2, <2>3
<1>21. CASE Note(p)
  <2>1. told' = told /\ mishaps' = mishaps
    BY <1>21 DEF Note
  <2>2. Extra(e)' \subseteq Extra(e)
    BY <1>21 DEF Note
  <2>3. Due(e)' => Due(e)
    BY <1>21 DEF Note
  <2> QED
    BY <2>1, <2>2, <2>3, NothingAdded
<1> QED
  BY <1>1, <1>2, <1>3, <1>4, <1>5, <1>6, <1>7, <1>8, <1>9, <1>10, <1>11, <1>12, <1>13, <1>14, <1>15, <1>16, <1>17, <1>18, <1>19, <1>20, <1>21 DEF RunStep

LEMMA OtherStepKeepsBalance ==
  ASSUME WorkInv, TypeOK', NEW e \in Event, BalancedFor(e),
         \/ Capture \/ Debounced \/ EventsAge \/ ClaimAges \/ UNCHANGED vars
         \/ \E f \in Event : HookIndexes(f) \/ HookGivesUp(f)
         \/ \E p \in Run : Killed(p)
  PROVE  BalancedFor(e)'
<1>1. UNCHANGED <<row, pc, got, tier, told>> /\ dead \subseteq dead'
  BY DEF Capture, Debounced, EventsAge, ClaimAges, HookIndexes, HookGivesUp, Killed,
         vars, storeVars, clockVars, ownVars, ghosts
<1>2. Extra(e)' \subseteq Extra(e)
  BY <1>1 DEF Extra, MayTell
<1>3. CASE \E f \in Event : HookIndexes(f) /\ f \in indexed \ pending
  <2>1. mishaps' = mishaps + 1
    BY <1>3 DEF HookIndexes
  <2> QED
    BY <1>1, <1>2, <2>1, PaidFor DEF WorkInv
<1>4. CASE ~ \E f \in Event : HookIndexes(f) /\ f \in indexed \ pending
  <2>1. mishaps' = mishaps
    BY <1>4 DEF Capture, Debounced, EventsAge, ClaimAges, HookIndexes, HookGivesUp, Killed,
       vars, storeVars, clockVars, ownVars, ghosts
  <2>2. Open(e)' => Open(e)
    <3>1. CASE Capture
      <4>1. Cardinality(logged) + 1 \notin indexed
        BY NextEventIsNew DEF WorkInv, TypeOK, StoreTypeOK
      <4> QED
        BY <3>1, <4>1 DEF Capture, Open
    <3>2. CASE \E f \in Event : HookIndexes(f)
      BY <1>4, <3>2 DEF HookIndexes, Open
    <3> QED
      BY <3>1, <3>2 DEF Debounced, EventsAge, ClaimAges, HookGivesUp, Killed, Open,
         vars, storeVars, clockVars, ownVars, ghosts
  <2>3. Due(e)' => Due(e)
    BY <1>1, <2>2 DEF Due, Told
  <2> QED
    BY <1>1, <1>2, <2>1, <2>3, NothingAdded DEF WorkInv
<1> QED
  BY <1>3, <1>4

\* Each further narrative of an observation costs a mishap of its own, for any
\* number of runs that overlap, fail, die, lose their claims or are forced.
THEOREM EveryRetellingIsPaidFor == Spec => []RetoldOnlyAfterAMishap
<1>1. Init => RetoldInv
  <2> SUFFICES ASSUME Init PROVE RetoldInv
    OBVIOUS
  <2>1. ASSUME NEW e \in Event PROVE IsFiniteSet(Extra(e)) /\ told[e] + Cardinality(Extra(e)) + DueCount(e) <= 1 + mishaps
    <3>1. Extra(e) = {} /\ told[e] = 0 /\ mishaps = 0 /\ DueCount(e) \in {0, 1}
      BY DEF Init, Extra, MayTell, DueCount
    <3> QED
      BY <3>1, FS_EmptySet
  <2> QED
    BY <2>1, WorkInit DEF RetoldInv, Balanced
<1>2. RetoldInv /\ [Next]_vars => RetoldInv'
  <2> SUFFICES ASSUME RetoldInv, [Next]_vars PROVE RetoldInv'
    OBVIOUS
  <2>1. WorkInv'
    BY StepKeepsWork DEF RetoldInv
  <2>2. ASSUME NEW e \in Event PROVE BalancedFor(e)'
    <3>1. WorkInv /\ TypeOK' /\ BalancedFor(e)
      BY <2>1 DEF RetoldInv, Balanced, BalancedFor, WorkInv
    <3> QED
      BY <3>1, RunStepKeepsBalance, OtherStepKeepsBalance DEF Next
  <2> QED
    BY <2>1, <2>2 DEF RetoldInv, Balanced, BalancedFor
<1>3. RetoldInv => RetoldOnlyAfterAMishap
  <2> SUFFICES ASSUME RetoldInv, NEW e \in Event PROVE told[e] <= 1 + mishaps
    BY DEF RetoldOnlyAfterAMishap
  <2>1. told[e] \in Nat /\ mishaps \in Nat /\ DueCount(e) \in Nat /\ Cardinality(Extra(e)) \in Nat
    BY FS_CardinalityType DEF RetoldInv, Balanced, WorkInv, TypeOK, HistoryTypeOK, DueCount
  <2> QED
    BY <2>1 DEF RetoldInv, Balanced
<1> QED
  BY <1>1, <1>2, <1>3, PTL DEF Spec
=============================================================================

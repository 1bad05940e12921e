---------------------------- MODULE LessonsProofs ----------------------------
(***************************************************************************)
(* Proofs about the lessons of a store, for any number of projects, lessons *)
(* and facts, any stores to begin with, any limits, and whatever a person   *)
(* does and whichever runs are killed meanwhile.                            *)
(***************************************************************************)
EXTENDS Lessons, FiniteSetTheorems, WellFoundedInduction, TLAPS

(***************************************************************************)
(* First and last of some ids, and a run id that is free                   *)
(***************************************************************************)
LEMMA SomeIds ==
  ASSUME NEW S, S \subseteq Id
  PROVE  IsFiniteSet(S) /\ Cardinality(S) \in 0..MaxId
<1>1. IsFiniteSet(Id) /\ Cardinality(Id) = MaxId
  BY LessonsAssumption, FS_Interval DEF Id
<1>2. IsFiniteSet(S) /\ Cardinality(S) <= Cardinality(Id)
  BY <1>1, FS_Subset
<1> QED
  BY <1>1, <1>2, FS_CardinalityType, LessonsAssumption

\* Of the sets of earlier ones, or of later ones, one is the smallest.
LEMMA FirstIsThere ==
  ASSUME NEW S, S \subseteq Nat, IsFiniteSet(S), S # {}
  PROVE  First(S) \in S /\ \A j \in S : First(S) <= j
<1> DEFINE R == StrictSubsetOrdering(S)
           T == {{q \in S : q < r} : r \in S}
<1>1. IsWellFoundedOn(R, SUBSET S)
  BY FS_StrictSubsetOrderingWellFounded, FS_FiniteSubsetsOfFinite
<1>2. T \subseteq SUBSET S /\ T # {}
  OBVIOUS
<1>3. \E x \in T : \A y \in T : ~(<<y, x>> \in R)
  <2> HIDE DEF R, T
  <2> QED
    BY <1>1, <1>2, WFMin
<1>4. PICK m \in S : \A r \in S : ~(<<{q \in S : q < r}, {q \in S : q < m}>> \in R)
  BY <1>3
<1>5. ASSUME NEW k \in S, k < m PROVE FALSE
  <2>0. k \in Int /\ m \in Int /\ \A q \in S : q \in Int
    OBVIOUS
  <2>1. \A q \in S : q < k => q < m
    BY <1>5, <2>0
  <2>2. k \in {q \in S : q < m} /\ k \notin {q \in S : q < k}
    BY <1>5, <2>0
  <2>3. <<{q \in S : q < k}, {q \in S : q < m}>> \in R
    BY <2>1, <2>2 DEF StrictSubsetOrdering
  <2> QED
    BY <1>4, <2>3
<1>6. \E i \in S : \A j \in S : i <= j
  BY <1>5
<1> QED
  BY <1>6 DEF First

LEMMA LastIsThere ==
  ASSUME NEW S, S \subseteq Nat, IsFiniteSet(S), S # {}
  PROVE  Last(S) \in S
<1> DEFINE R == StrictSubsetOrdering(S)
           T == {{q \in S : q > r} : r \in S}
<1>1. IsWellFoundedOn(R, SUBSET S)
  BY FS_StrictSubsetOrderingWellFounded, FS_FiniteSubsetsOfFinite
<1>2. T \subseteq SUBSET S /\ T # {}
  OBVIOUS
<1>3. \E x \in T : \A y \in T : ~(<<y, x>> \in R)
  <2> HIDE DEF R, T
  <2> QED
    BY <1>1, <1>2, WFMin
<1>4. PICK m \in S : \A r \in S : ~(<<{q \in S : q > r}, {q \in S : q > m}>> \in R)
  BY <1>3
<1>5. ASSUME NEW k \in S, k > m PROVE FALSE
  <2>0. k \in Int /\ m \in Int /\ \A q \in S : q \in Int
    OBVIOUS
  <2>1. \A q \in S : q > k => q > m
    BY <1>5, <2>0
  <2>2. k \in {q \in S : q > m} /\ k \notin {q \in S : q > k}
    BY <1>5, <2>0
  <2>3. <<{q \in S : q > k}, {q \in S : q > m}>> \in R
    BY <2>1, <2>2 DEF StrictSubsetOrdering
  <2> QED
    BY <1>4, <2>3
<1>6. \E i \in S : \A j \in S : j <= i
  BY <1>5
<1> QED
  BY <1>6 DEF Last

LEMMA FirstId ==
  ASSUME NEW S, S \subseteq Id, S # {}
  PROVE  First(S) \in S /\ Last(S) \in S
<1>0. IsFiniteSet(S)
  BY SomeIds
<1>1. S \subseteq Nat /\ IsFiniteSet(S)
  BY <1>0 DEF Id
<1>2. First(S) \in S
  BY <1>1, FirstIsThere
<1>3. Last(S) \in S
  BY <1>1, LastIsThere
<1> QED
  BY <1>2, <1>3

\* There are more numbers up to one above how many are used than are used.
LEMMA FreshRunIsFree ==
  ASSUME LessonsTypeOK, IsFiniteSet({t.run : t \in tombs})
  PROVE  FreshRun \in Stamp
<1> DEFINE n == Cardinality(UsedRuns)
           Free == (1..(n + 1)) \ UsedRuns
<1>1. IsFiniteSet(UsedRuns)
  <2>1. UsedRuns = {t.run : t \in tombs} \cup {saved["clean"].run} \cup {saved["daily"].run} \cup {saved["move"].run}
    BY DEF UsedRuns, LessonsTypeOK
  <2>2. \A S, x : IsFiniteSet(S) => IsFiniteSet(S \cup {x})
    BY FS_AddElement
  <2> QED
    BY <2>1, <2>2
<1>2. n \in Nat
  BY <1>1, FS_CardinalityType
<1>3. IsFiniteSet(1..(n + 1)) /\ Cardinality(1..(n + 1)) = n + 1
  <2> HIDE DEF n
  <2> QED
    BY <1>2, FS_Interval
<1>4. Free # {}
  <2> SUFFICES ASSUME 1..(n + 1) \subseteq UsedRuns PROVE FALSE
    OBVIOUS
  <2>1. Cardinality(1..(n + 1)) <= n
    BY <1>1, FS_Subset
  <2> QED
    BY <1>2, <1>3, <2>1
<1>5. Free \subseteq Nat /\ IsFiniteSet(Free) /\ Free \subseteq Nat \ {0}
  <2>1. Free \subseteq 1..(n + 1)
    OBVIOUS
  <2>2. IsFiniteSet(Free)
    BY <1>3, <2>1, FS_Subset
  <2> QED
    BY <1>2, <2>2
<1>6. First(Free) \in Free
  <2> HIDE DEF Free
  <2> QED
    BY <1>4, <1>5, FirstIsThere
<1> QED
  BY <1>5, <1>6 DEF FreshRun, Stamp
(***************************************************************************)
(* The invariant                                                           *)
(***************************************************************************)
\* What the runner is at, where it is.
Turns ==
  /\ at \in {"gather", "group", "withdraw"} => job \in {"clean", "settle", "fold"}
  /\ at \in {"batch", "asked", "label", "strike"} => job \in {"clean", "daily"}
  /\ at \in {"gather", "group", "withdraw", "batch", "asked", "label", "strike"} /\ job \in {"clean", "daily"} =>
       cur.project \in 1..Projects
  /\ at = "saving" => job = "clean" /\ cur.project <= Projects
  /\ at = "swept" => job = "daily" /\ cur.project <= Projects
  /\ at = "learn" => cur.project \in 1..Projects
  /\ at \in {"scan", "copy", "retire"} => job = "move" /\ cur.run # 0 /\ cur.project <= Projects
  /\ at = "bring" => cur.run # 0
  /\ \A j \in {"clean", "daily", "move"} : saved[j].project <= Projects

\* Lessons in hand were live when they were taken, and since then only a person
\* may have acted on them. What is to be withdrawn is nothing a person corrected
\* or brought back; another one of its fact stays.
InHand ==
  /\ at \in {"group", "withdraw", "asked", "label", "strike", "copy", "retire"} =>
       \A i \in todo \cup doomed : shown[i] \in {"live", "forgotten"}
  /\ at \notin {"withdraw", "label", "strike"} => doomed = {}
  /\ at \in {"group", "withdraw"} => \A i \in todo : home[i] = Here
  /\ at = "withdraw" =>
       /\ doomed # {} /\ doomed \cap (stood \cup restored) = {} /\ doomed \cap todo = {}
       /\ \A i \in doomed : \E s \in Id \ doomed :
            shown[s] \in {"live", "forgotten"} /\ home[s] = home[i] /\ fact[s] = fact[i]
  /\ at \in {"label", "strike"} => doomed \subseteq todo /\ doomed \cap stood = {}
  /\ at \in {"asked", "label", "strike"} => \A i \in todo : home[i] # Machine
  /\ at = "asked" => todo # {}
  /\ at = "strike" => todo # {} /\ First(todo) \in doomed
  /\ at \in {"copy", "retire"} =>
       /\ todo \cap (stood \cup restored) = {}
       /\ \A i \in todo : home[i] # Machine /\ \A t \in tombs : t.on # i
  /\ at = "retire" =>
       /\ todo # {}
       /\ \E c \in Id : shown[c] \in {"live", "forgotten"} /\ home[c] = Machine /\ fact[c] = fact[First(todo)]
  /\ at \in {"learn", "bring"} => stood = {}

\* A restore takes up all that one run withdrew.
Bringing == at = "bring" =>
  /\ \A i \in todo : \E t \in tombs : t.on = i /\ t.run = cur.run
  /\ \A t \in tombs : t.run = cur.run => t.on \in todo \/ shown[t.on] # "cleaned"
  /\ \A b \in back : [on |-> b, run |-> cur.run, why |-> "moved"] \in tombs

\* Tombstones are of a project's lessons, and of no live one but those a restore
\* brought back; copies are on the machine, of lessons that there are.
Records ==
  /\ IsFiniteSet({t.run : t \in tombs})
  /\ \A t \in tombs : home[t.on] # Machine /\ shown[t.on] # "none" /\ (shown[t.on] = "live" => t.on \in restored)
  /\ \A c \in Id : link[c] # 0 => shown[c] # "none" /\ home[c] = Machine /\ shown[link[c]] # "none"

\* What becomes of a lesson that has a live copy, and nobody corrected either: it
\* is withdrawn by the move alone, about to be, or its copies are taken away.
ReadOnce == mishaps = 0 =>
  \A c, i \in Id : link[c] = i /\ shown[c] = "live" /\ {c, i} \cap fixed = {} =>
    \/ shown[i] = "forgotten"
    \/ shown[i] = "cleaned" /\ \A t \in tombs : t.on = i => t.why = "moved"
    \/ at = "retire" /\ i = First(todo)
    \/ at = "bring" /\ i \in back

\* A duplicate leaves one of its fact behind, in its place: live, or withdrawn by
\* something that is no duplicate. What was moved leaves one on the machine.
Standing(j) == shown[j] \in {"live", "forgotten"}
Told ==
  /\ \A i \in Id : home[i] # Machine /\ Gone(i, {"duplicate"}) =>
       \E j \in Id : home[j] = home[i] /\ fact[j] = fact[i] /\ (Standing(j) \/ Gone(j, {"moved", "judged"}))
  /\ MoveIsOneRun => \A i \in Id : home[i] # Machine /\ Gone(i, {"moved"}) =>
       \E j \in Id : home[j] = Machine /\ fact[j] = fact[i] /\ Standing(j)
  /\ \A i \in Id : home[i] # Machine /\ Gone(i, {"moved"}) => \E t \in tombs : t.on = i /\ t.why = "moved"

\* The cleanup is done before anything is moved.
Flags ==
  /\ moveFlag \/ saved["move"].after > 0 => flag
  /\ at \in {"daily", "swept", "move", "scan", "copy", "retire"} => flag
  /\ job = "daily" /\ at \in {"batch", "asked", "label", "strike"} => flag
  /\ job = "clean" /\ at \in {"gather", "group", "withdraw", "batch", "asked", "label", "strike", "saving"} => ~flag

\* Until a restore brings something back: once the move has begun nothing is
\* labelled any more, and up to its cursor nothing is left but what it may leave
\* and what it has in hand.
MoveBegun == moveFlag \/ saved["move"].after > 0 \/ at \in {"scan", "copy", "retire"}
Cleared(n, S) ==
  \A i \in Live : home[i] # Machine /\ label[i] = "machine" /\ i <= n => i \in fixed \cup S \/ fact[i] \in Unsafe
NothingLeft == restored = {} =>
  /\ MoveBegun => ~Unfinished
  /\ at \in {"batch", "asked", "label", "strike", "swept"} => ~MoveBegun
  /\ Cleared(saved["move"].after, {})
  /\ at = "scan" => Cleared(cur.after, {})
  /\ at \in {"copy", "retire"} => Cleared(cur.after, todo)
  /\ moveFlag => Cleared(MaxId, {})

LessonsInv ==
  LessonsTypeOK /\ Turns /\ InHand /\ Bringing /\ Records /\ ReadOnce /\ Told /\ Flags /\ NothingLeft

\* Steps that change no lesson and no record of one.
Minds ==
  \/ Starting \/ Passes \/ Dailies \/ Gathers \/ (\E f \in Fact : Decides(f)) \/ GroupsEnd
  \/ (\E k \in 1..MaxRungs : Asks(k)) \/ NoAnswer \/ (\E v \in [todo -> Labels \cup {"none"}] : Answers(v))
  \/ SavesBatch \/ SavesFailure \/ Stops \/ NextProject \/ Finishes \/ SweepEnds \/ SavesSweep
  \/ Moves \/ Scans \/ SavesMove \/ MoveEnds \/ MoveBreaks
  \/ (\E p \in 1..(Projects + 1) : Visits(p)) \/ Leaves \/ LearnsNothing
  \/ (\E r \in {t.run : t \in tombs} : Restores(r)) \/ Killed \/ StoreFails \/ CallAges

\* Steps that do.
Touches ==
  \/ LabelsOne \/ Copies \/ (\E f \in Fact, p \in Place : Learns(f, p))
  \/ Withdraws \/ Strikes \/ RetiresOld \/ (\E i \in Id : Rechecks(i)) \/ Brings \/ SendsHome
  \/ \E i \in Id : Forgets(i) \/ Corrects(i)

LEMMA NextIsOneOf == Next => Minds \/ Touches
BY DEF Next, Runs, GoesOn, Minds, Touches

LEMMA MindsOnly == Minds => UNCHANGED <<pages, shown, label, words, tombs, cause>>
BY DEF Minds, Starting, Passes, Dailies, Gathers, Decides, GroupsEnd, Asks, NoAnswer, Answers, SavesBatch,
       SavesFailure, Stops, NextProject, Finishes, SweepEnds, SavesSweep, Moves, Scans, SavesMove, MoveEnds,
       MoveBreaks, Settles, Visits, Leaves, LearnsNothing, Restores, Killed, StoreFails, StopsFor, CallAges, Rests, ghosts

\* What is taken in hand is there.
LEMMA InHandIsThere ==
  ASSUME LessonsInv
  PROVE  /\ todo # {} => First(todo) \in todo /\ Last(todo) \in todo
         /\ doomed # {} => First(doomed) \in doomed
         /\ Unminted # {} => First(Unminted) \in Unminted
         /\ Candidates # {} => Last(Candidates) \in Candidates
         /\ \A C \in SUBSET Id : C # {} => First(C) \in C
         /\ FreshRun \in Stamp /\ Total \in 0..MaxId
<1>1. todo \subseteq Id /\ doomed \subseteq Id /\ Unminted \subseteq Id /\ Candidates \subseteq Id
      /\ Unlabelled \subseteq Id
  BY DEF LessonsInv, LessonsTypeOK, Unminted, Candidates, Live, Unlabelled
<1>2. FreshRun \in Stamp
  BY FreshRunIsFree DEF LessonsInv, Records
<1>3. Total \in 0..MaxId
  BY <1>1, SomeIds DEF Total
<1> QED
  BY <1>1, <1>2, <1>3, FirstId

(***************************************************************************)
(* Types                                                                   *)
(***************************************************************************)
Pages   == /\ home \in [Id -> Place] /\ fact \in [Id -> Fact] /\ link \in [Id -> 0..MaxId]
           /\ shown \in [Id -> {"none", "live", "forgotten", "cleaned"}]
           /\ label \in [Id -> Labels \cup {"none"}]
           /\ cause \in [Id -> {"none", "duplicate", "judged", "moved", "returned"}]
           /\ fixed \subseteq Id /\ restored \subseteq Id
           /\ tombs \subseteq [on : Id, run : Stamp, why : {"duplicate", "judged", "moved"}]
Hand    == /\ verdict \in [Id -> Labels \cup {"none"}]
           /\ todo \subseteq Id /\ doomed \subseteq Id /\ back \subseteq Id /\ stood \subseteq Id
Cursors == cur \in Cursor /\ saved \in [{"clean", "daily", "move"} -> Cursor]
Bits    == flag \in BOOLEAN /\ moveFlag \in BOOLEAN
Counts  == /\ ledger \in 0..(MaxCalls - 1 + MaxRungs) /\ today \in 0..(LabelCalls - 1 + MaxRungs)
           /\ acts \in 0..MaxActs /\ visits \in 0..MaxVisits /\ mishaps \in 0..MaxMishap
Where   == /\ at \in {"off", "pass", "daily", "gather", "group", "withdraw", "batch", "asked", "label", "strike",
                     "saving", "swept", "move", "scan", "copy", "retire", "upkeep", "learn", "bring"}
           /\ job \in {"clean", "daily", "move", "settle", "fold", "restore"}

LEMMA TypesInGroups ==
  /\ LessonsTypeOK <=> (Pages /\ Hand /\ Cursors /\ Bits /\ Counts /\ Where)
  /\ LessonsTypeOK' <=> (Pages /\ Hand /\ Cursors /\ Bits /\ Counts /\ Where)'
BY DEF LessonsTypeOK, Pages, Hand, Cursors, Bits, Counts, Where

LEMMA MindsKeepHand ==
  ASSUME LessonsInv, Minds
  PROVE  Hand'
<1>1. Hand /\ tombs \subseteq [on : Id, run : Stamp, why : {"duplicate", "judged", "moved"}]
  BY DEF LessonsInv, LessonsTypeOK, Hand
<1>2. In(Here) \subseteq Id /\ Batched \subseteq Id /\ Candidates \subseteq Id
  BY DEF In, Live, Batched, FirstOf, Candidates, Unlabelled
<1>3. NoVerdict \in [Id -> Labels \cup {"none"}]
  BY DEF NoVerdict
<1>4. CASE \E f \in Fact : Decides(f)
  BY <1>1, <1>4 DEF Hand, Decides, Twins
<1>5. CASE \E v \in [todo -> Labels \cup {"none"}] : Answers(v)
  BY <1>1, <1>5 DEF Hand, Answers, Believed
<1>6. CASE \E r \in {t.run : t \in tombs} : Restores(r)
  BY <1>1, <1>6 DEF Hand, Restores
<1>7. CASE ~ \/ \E f \in Fact : Decides(f)
             \/ \E v \in [todo -> Labels \cup {"none"}] : Answers(v)
             \/ \E r \in {t.run : t \in tombs} : Restores(r)
  BY <1>1, <1>2, <1>3, <1>7
  DEF Hand, Minds, Starting, Passes, Dailies, Gathers, GroupsEnd, Asks, NoAnswer, SavesBatch,
      SavesFailure, Stops, NextProject, Finishes, SweepEnds, SavesSweep, Moves, Scans, SavesMove, MoveEnds,
      MoveBreaks, Settles, Visits, Leaves, LearnsNothing, Killed, StoreFails, StopsFor, CallAges, Rests, ghosts, memory
<1> QED
  BY <1>4, <1>5, <1>6, <1>7

LEMMA MindsKeepCounts ==
  ASSUME LessonsInv, Minds
  PROVE  Counts' /\ Bits' 
<1>1. Counts /\ Bits
  BY DEF LessonsInv, LessonsTypeOK, Counts, Bits
<1>2. CASE \E k \in 1..MaxRungs : Asks(k)
  BY <1>1, <1>2, LessonsAssumption DEF Counts, Bits, Asks, Spent, Limit, Rests, marks
<1>3. CASE Killed \/ StoreFails \/ CallAges
  BY <1>1, <1>3, LessonsAssumption DEF Counts, Bits, Killed, StoreFails, StopsFor, CallAges, marks, calls, ghosts
<1>4. CASE \E r \in {t.run : t \in tombs} : Restores(r)
  BY <1>1, <1>4, LessonsAssumption DEF Counts, Bits, Restores, marks, calls
<1>5. CASE \E p \in 1..(Projects + 1) : Visits(p)
  BY <1>1, <1>5, LessonsAssumption DEF Counts, Bits, Visits, marks, calls
<1>6. UNCHANGED <<ledger, today, acts, visits, mishaps>> \/ (\E k \in 1..MaxRungs : Asks(k)) \/ Killed \/ StoreFails \/ CallAges
        \/ (\E r \in {t.run : t \in tombs} : Restores(r)) \/ (\E p \in 1..(Projects + 1) : Visits(p))
  BY DEF Minds, Starting, Passes, Dailies, Gathers, Decides, GroupsEnd, NoAnswer, Answers, SavesBatch,
      SavesFailure, Stops, NextProject, Finishes, SweepEnds, SavesSweep, Moves, Scans, SavesMove, MoveEnds,
      MoveBreaks, Settles, Leaves, LearnsNothing, Rests, calls, ghosts
<1>7. flag' \in {flag, TRUE} /\ moveFlag' \in {moveFlag, TRUE}
  BY DEF Minds, Starting, Passes, Dailies, Gathers, Decides, GroupsEnd, NoAnswer, Answers, SavesBatch,
      SavesFailure, Stops, NextProject, Finishes, SweepEnds, SavesSweep, Moves, Scans, SavesMove, MoveEnds,
      MoveBreaks, Settles, Leaves, LearnsNothing, marks, Asks, Killed, StoreFails, StopsFor, CallAges, Restores, Visits
<1>8. Bits'
  BY <1>1, <1>7, Zenon DEF Bits
<1>9. CASE UNCHANGED <<ledger, today, acts, visits, mishaps>>
  BY <1>1, <1>8, <1>9 DEF Counts
<1> QED
  BY <1>2, <1>3, <1>4, <1>5, <1>6, <1>8, <1>9

LEMMA MindsKeepWhere ==
  ASSUME LessonsInv, Minds
  PROVE  Where'
<1>1. Where /\ Turns
  BY DEF LessonsInv, LessonsTypeOK, Where
<1>2. CASE GroupsEnd
  BY <1>1, <1>2, Zenon DEF Where, GroupsEnd, ToUpkeep, Turns
<1>3. CASE Minds /\ ~GroupsEnd
  BY <1>1, <1>3
  DEF Where, Minds, Starting, Passes, Dailies, Gathers, Decides, Asks, NoAnswer, Answers, SavesBatch,
      SavesFailure, Stops, NextProject, Finishes, SweepEnds, SavesSweep, Moves, Scans, SavesMove, MoveEnds,
      MoveBreaks, Settles, Visits, Leaves, LearnsNothing, Restores, Killed, StoreFails, StopsFor, CallAges, memory, ToUpkeep, Resumes
<1> QED
  BY <1>2, <1>3

LEMMA CursorOf ==
  ASSUME NEW c \in Cursor, NEW r \in Nat, NEW p \in 0..(Projects + 1), NEW d \in BOOLEAN, NEW a \in 0..MaxId,
         NEW n \in 0..(Patience - 1), NEW l \in 0..MaxId, NEW s \in 0..MaxId
  PROVE  /\ [c EXCEPT !.run = r] \in Cursor /\ [c EXCEPT !.deduped = d] \in Cursor
         /\ [c EXCEPT !.after = a] \in Cursor
         /\ [c EXCEPT !.fails = n, !.after = a] \in Cursor /\ [c EXCEPT !.after = a, !.fails = n] \in Cursor
         /\ [c EXCEPT !.project = p, !.after = a, !.fails = n] \in Cursor
         /\ [c EXCEPT !.project = p, !.deduped = d, !.after = a, !.fails = n] \in Cursor
         /\ [c EXCEPT !.stuck = s, !.project = p, !.after = a] \in Cursor
         /\ [c EXCEPT !.stuck = s, !.run = r, !.left = l] \in Cursor
         /\ [c EXCEPT !.project = p, !.run = r] \in Cursor
BY DEF Cursor

LEMMA BlankIsCursor == Blank \in Cursor
BY LessonsAssumption DEF Blank, Cursor

\* Where a pass goes on, in some project.
LEMMA ResumesAt ==
  ASSUME NEW as, NEW c \in Cursor, c.project <= Projects, Resumes(as, c)
  PROVE  /\ cur' \in Cursor /\ cur'.project \in 1..Projects /\ job' = as
         /\ cur'.stuck = c.stuck /\ cur'.left = c.left /\ cur'.run = c.run
         /\ at' \in {"gather", "batch"} /\ (as # "clean" => at' = "batch")
<1> DEFINE from == IF c.project = 0 THEN [c EXCEPT !.project = 1, !.after = 0, !.fails = 0] ELSE c
<1>1. 1 \in 0..(Projects + 1) /\ 0 \in 0..MaxId /\ 0 \in 0..(Patience - 1) /\ Projects \in Nat \ {0}
  BY LessonsAssumption
<1>2. [c EXCEPT !.project = 1, !.after = 0, !.fails = 0] \in Cursor
  BY <1>1 DEF Cursor
<1>3. c.project \in Nat
  BY LessonsAssumption DEF Cursor
<1>4. from \in Cursor /\ from.project \in 1..Projects /\ from.stuck = c.stuck /\ from.left = c.left /\ from.run = c.run
  BY <1>1, <1>2, <1>3 DEF Cursor
<1>5. cur' = from /\ job' = as /\ at' = IF as = "clean" /\ ~from.deduped THEN "gather" ELSE "batch"
  BY DEF Resumes
<1> QED
  BY <1>4, <1>5

\* The cursor in memory after a quiet step, and the saved ones.
LEMMA MindsKeepCursors ==
  ASSUME LessonsInv, Minds
  PROVE  Cursors'
<1>1. Cursors /\ Turns /\ Where
  BY DEF LessonsInv, LessonsTypeOK, Cursors, Where
<1>2. FreshRun \in Nat /\ Total \in 0..MaxId /\ Blank \in Cursor
  BY InHandIsThere, BlankIsCursor DEF Stamp
<1>3. (todo # {} => Last(todo) \in 0..MaxId) /\ (Candidates # {} => Last(Candidates) \in 0..MaxId)
  <2>1. todo \subseteq Id /\ Candidates \subseteq Id /\ Id \subseteq 0..MaxId
    BY LessonsAssumption DEF LessonsInv, LessonsTypeOK, Candidates, Live, Id
  <2> QED
    BY <2>1, InHandIsThere
<1>4. /\ 0 \in 0..MaxId /\ 0 \in 0..(Patience - 1) /\ Projects \in Nat \ {0} /\ Patience \in Nat \ {0}
      /\ 0 \in 0..(Projects + 1) /\ TRUE \in BOOLEAN /\ FALSE \in BOOLEAN
  BY LessonsAssumption
<1>5. saved["clean"] \in Cursor /\ saved["daily"] \in Cursor /\ saved["move"] \in Cursor
  BY <1>1 DEF Cursors
<1>6. /\ saved["clean"].project <= Projects /\ saved["daily"].project <= Projects
      /\ saved["daily"].run \in Nat /\ saved["daily"].left \in 0..MaxId /\ cur.run \in Nat
      /\ cur.fails \in 0..(Patience - 1) /\ cur.after \in 0..MaxId /\ cur.project \in 0..(Projects + 1)
      /\ cur.left \in 0..MaxId
  BY <1>1, <1>5 DEF Cursors, Cursor, Turns
<1>7. cur' \in Cursor
  <2>1. CASE Passes
    <3>1. [Blank EXCEPT !.run = FreshRun] \in Cursor /\ [Blank EXCEPT !.run = FreshRun].project = 0
      BY <1>2 DEF Cursor, Blank
    <3>2. CASE flag
      BY <2>1, <3>2, <1>1 DEF Passes, Cursors
    <3>3. CASE ~flag /\ saved["clean"] # Blank
      <4>1. Resumes("clean", saved["clean"])
        BY <2>1, <3>3 DEF Passes
      <4> QED
        BY <4>1, <1>5, <1>6, ResumesAt
    <3>4. CASE ~flag /\ saved["clean"] = Blank
      <4> DEFINE c == [Blank EXCEPT !.run = FreshRun]
      <4>1. Resumes("clean", c) /\ c \in Cursor /\ c.project <= Projects
        BY <2>1, <3>1, <3>4, <1>4 DEF Passes
      <4> HIDE DEF c
      <4> QED
        BY <4>1, ResumesAt
    <3> QED
      BY <3>2, <3>3, <3>4
  <2>2. CASE Dailies
    <3> DEFINE c == [saved["daily"] EXCEPT
                       !.stuck = 0, !.run = IF today = 0 \/ @ = 0 THEN FreshRun ELSE @,
                       !.left = IF saved["daily"].project = 0 /\ saved["daily"].after = 0 THEN Total ELSE @]
    <3>1. c \in Cursor /\ c.project <= Projects
      BY <1>2, <1>4, <1>5, <1>6 DEF Cursor
    <3>2. cur' = cur \/ Resumes("daily", c)
      BY <2>2 DEF Dailies
    <3> HIDE DEF c
    <3> QED
      BY <3>1, <3>2, <1>1, ResumesAt DEF Cursors
  <2>3. CASE NextProject
    <3> DEFINE c == [cur EXCEPT !.project = @ + 1, !.deduped = FALSE, !.after = 0, !.fails = 0]
    <3>1. cur.project < Projects /\ Resumes(job, c)
      BY <2>3 DEF NextProject
    <3>2. cur.project + 1 \in 0..(Projects + 1) /\ cur.project + 1 <= Projects /\ cur \in Cursor
      BY <3>1, <1>1, <1>4, <1>6 DEF Cursors
    <3>3. c \in Cursor
      BY <3>2, <1>4, CursorOf
    <3>4. c.project = cur.project + 1
      BY <3>2 DEF Cursor
    <3> HIDE DEF c
    <3> QED
      BY <3>1, <3>2, <3>3, <3>4, ResumesAt
  <2>4. CASE NoAnswer
    <3>1. todo # {}
      BY <2>4 DEF NoAnswer, LessonsInv, InHand
    <3> DEFINE tired == cur.fails + 1 >= Patience
               n == IF tired THEN 0 ELSE cur.fails + 1
               a == IF tired THEN Last(todo) ELSE cur.after
    <3>2. n \in 0..(Patience - 1) /\ a \in 0..MaxId /\ cur \in Cursor
      BY <3>1, <1>1, <1>3, <1>4, <1>6 DEF Cursors
    <3>3. cur' = [cur EXCEPT !.fails = n, !.after = a]
      BY <2>4, <3>2 DEF NoAnswer, Cursor
    <3> HIDE DEF n, a
    <3>4. [cur EXCEPT !.fails = n, !.after = a] \in Cursor
      BY <3>2 DEF Cursor
    <3> QED
      BY <3>3, <3>4
  <2>5. CASE \E v \in [todo -> Labels \cup {"none"}] : Answers(v)
    <3>1. todo # {}
      BY <2>5 DEF Answers, LessonsInv, InHand
    <3>2. cur' = [cur EXCEPT !.after = Last(todo), !.fails = 0] /\ Last(todo) \in 0..MaxId /\ cur \in Cursor
      BY <2>5, <3>1, <1>1, <1>3 DEF Answers, Cursors
    <3>3. [cur EXCEPT !.after = Last(todo), !.fails = 0] \in Cursor
      BY <3>2, <1>4 DEF Cursor
    <3> QED
      BY <3>2, <3>3
  <2>6. CASE SweepEnds
    BY <2>6, <1>1, <1>2, <1>4 DEF SweepEnds, Cursors, Cursor
  <2>7. CASE Moves \/ Scans
    BY <2>7, <1>1, <1>2, <1>3, <1>5 DEF Moves, Scans, ToUpkeep, Cursors, Cursor
  <2>8. CASE \E p \in 1..(Projects + 1) : Visits(p)
    <3>1. PICK p \in 1..(Projects + 1) : Visits(p)
      BY <2>8
    <3>2. p \in 0..(Projects + 1)
      BY <3>1, <1>4
    <3> QED
      BY <3>1, <3>2, <1>2 DEF Visits, Blank, Cursor
  <2>9. CASE \E r \in {t.run : t \in tombs} : Restores(r)
    <3>1. PICK t \in tombs : Restores(t.run)
      BY <2>9
    <3>2. t.run \in Nat
      BY DEF LessonsInv, LessonsTypeOK, Stamp
    <3> QED
      BY <3>1, <3>2, <1>2 DEF Restores, Blank, Cursor
  <2>10. CASE GroupsEnd
    <3>1. cur' \in {cur, Blank, [cur EXCEPT !.deduped = TRUE]}
      BY <2>10, <1>1, Zenon DEF GroupsEnd, ToUpkeep, Turns
    <3>2. [cur EXCEPT !.deduped = TRUE] \in Cursor
      BY <1>1, <1>4 DEF Cursors, Cursor
    <3> QED
      BY <3>1, <3>2, <1>1, <1>2 DEF Cursors
  <2>11. CASE MoveEnds \/ MoveBreaks
    BY <2>11, <1>2 DEF MoveEnds, MoveBreaks, Settles, ToUpkeep, Blank, Cursor
  <2>12. cur' \in {cur, Blank} \/ Passes \/ Dailies \/ NextProject \/ NoAnswer
           \/ (\E v \in [todo -> Labels \cup {"none"}] : Answers(v)) \/ SweepEnds \/ (Moves \/ Scans)
           \/ (\E p \in 1..(Projects + 1) : Visits(p)) \/ (\E r \in {t.run : t \in tombs} : Restores(r))
           \/ GroupsEnd \/ (MoveEnds \/ MoveBreaks)
    BY DEF Minds, Starting, Gathers, Decides, Asks, SavesBatch,
       SavesFailure, Stops, Finishes, SavesSweep, SavesMove,
       Leaves, LearnsNothing, Killed, StoreFails, StopsFor, CallAges, memory, ToUpkeep
  <2>13. CASE cur' \in {cur, Blank}
    BY <2>13, <1>1, <1>2 DEF Cursors
  <2> QED
    BY <2>1, <2>2, <2>3, <2>4, <2>5, <2>6, <2>7, <2>8, <2>9, <2>10, <2>11, <2>12, <2>13
<1>8. saved' = saved \/ (\E j \in {"clean", "daily", "move"}, c \in {cur, cur', Blank} : saved' = [saved EXCEPT ![j] = c])
  <2>1. CASE GroupsEnd
    BY <2>1, <1>1, Zenon DEF GroupsEnd, Turns, Save
  <2>2. CASE Minds /\ ~GroupsEnd
    BY <2>2, <1>1
    DEF Minds, Starting, Passes, Dailies, Gathers, Decides, Asks, NoAnswer, Answers, SavesBatch,
      SavesFailure, Stops, NextProject, Finishes, SweepEnds, SavesSweep, Moves, Scans, SavesMove, MoveEnds,
      MoveBreaks, Settles, Visits, Leaves, LearnsNothing, Restores, Killed, StoreFails, StopsFor, CallAges, marks, Save, Turns
  <2> QED
    BY <2>1, <2>2
<1> QED
  BY <1>1, <1>2, <1>7, <1>8 DEF Cursors

\* What one withdrawal does.
LEMMA WithdrawIs ==
  ASSUME LessonsInv, NEW i \in Id, NEW why \in {"duplicate", "judged", "moved", "returned"}, NEW run \in Nat,
         why = "returned" => run = 0, Withdraw(i, why, run)
  PROVE  /\ \A j \in Id : j # i => shown'[j] = shown[j] /\ cause'[j] = cause[j]
         /\ shown'[i] = (IF shown[i] = "forgotten" THEN "forgotten" ELSE "cleaned") /\ cause'[i] = why
         /\ tombs' = IF run = 0 \/ home[i] = Machine THEN tombs
                     ELSE tombs \cup {[on |-> i, run |-> run, why |-> why]}
         /\ UNCHANGED <<home, fact, link, fixed, restored, stood, acts, visits, mishaps>>
         /\ shown' \in [Id -> {"none", "live", "forgotten", "cleaned"}]
         /\ cause' \in [Id -> {"none", "duplicate", "judged", "moved", "returned"}]
         /\ tombs' \subseteq [on : Id, run : Stamp, why : {"duplicate", "judged", "moved"}]
<1>1. /\ shown \in [Id -> {"none", "live", "forgotten", "cleaned"}]
      /\ cause \in [Id -> {"none", "duplicate", "judged", "moved", "returned"}]
      /\ tombs \subseteq [on : Id, run : Stamp, why : {"duplicate", "judged", "moved"}]
  BY DEF LessonsInv, LessonsTypeOK
<1>2. /\ shown' = [shown EXCEPT ![i] = IF @ = "forgotten" THEN @ ELSE "cleaned"]
      /\ cause' = [cause EXCEPT ![i] = why]
      /\ tombs' = IF run = 0 \/ home[i] = Machine THEN tombs
                  ELSE tombs \cup {[on |-> i, run |-> run, why |-> why]}
      /\ UNCHANGED <<home, fact, link, fixed, restored, stood, acts, visits, mishaps>>
  BY DEF Withdraw, pages, words
<1>3. run # 0 => why \in {"duplicate", "judged", "moved"} /\ run \in Stamp
  BY DEF Stamp
<1>4. shown' \in [Id -> {"none", "live", "forgotten", "cleaned"}]
  BY <1>1, <1>2
<1>5. cause' \in [Id -> {"none", "duplicate", "judged", "moved", "returned"}]
  BY <1>1, <1>2
<1>6. tombs' \subseteq [on : Id, run : Stamp, why : {"duplicate", "judged", "moved"}]
  BY <1>1, <1>2, <1>3
<1>7. \A j \in Id : j # i => shown'[j] = shown[j] /\ cause'[j] = cause[j]
  BY <1>1, <1>2
<1>8. shown'[i] = (IF shown[i] = "forgotten" THEN "forgotten" ELSE "cleaned") /\ cause'[i] = why
  BY <1>1, <1>2
<1> QED
  BY <1>2, <1>4, <1>5, <1>6, <1>7, <1>8

\* What writing a lesson does.
LEMMA MintsIs ==
  ASSUME LessonsInv, NEW p \in Place, NEW f \in Fact, NEW from \in 0..MaxId, NEW as \in Labels, Mints(p, f, from, as)
  PROVE  \E n \in Id :
           /\ n = First(Unminted) /\ shown[n] = "none"
           /\ home'[n] = p /\ fact'[n] = f /\ link'[n] = from /\ shown'[n] = "live" /\ label'[n] = as
           /\ \A j \in Id : j # n => /\ home'[j] = home[j] /\ fact'[j] = fact[j] /\ link'[j] = link[j]
                                     /\ shown'[j] = shown[j] /\ label'[j] = label[j]
           /\ home' \in [Id -> Place] /\ fact' \in [Id -> Fact] /\ link' \in [Id -> 0..MaxId]
           /\ shown' \in [Id -> {"none", "live", "forgotten", "cleaned"}]
           /\ label' \in [Id -> Labels \cup {"none"}]
<1> DEFINE n == First(Unminted)
<1>1. /\ home \in [Id -> Place] /\ fact \in [Id -> Fact] /\ link \in [Id -> 0..MaxId]
      /\ shown \in [Id -> {"none", "live", "forgotten", "cleaned"}]
      /\ label \in [Id -> Labels \cup {"none"}]
  BY DEF LessonsInv, LessonsTypeOK
<1>2. n \in Unminted
  BY InHandIsThere DEF Mints
<1>3. n \in Id /\ shown[n] = "none"
  BY <1>2 DEF Unminted
<1>4. /\ home' = [home EXCEPT ![n] = p] /\ fact' = [fact EXCEPT ![n] = f] /\ link' = [link EXCEPT ![n] = from]
      /\ shown' = [shown EXCEPT ![n] = "live"] /\ label' = [label EXCEPT ![n] = as]
  BY DEF Mints
<1> HIDE DEF n
<1>5. home' \in [Id -> Place] /\ fact' \in [Id -> Fact] /\ link' \in [Id -> 0..MaxId]
  BY <1>1, <1>3, <1>4
<1>6. shown' \in [Id -> {"none", "live", "forgotten", "cleaned"}] /\ label' \in [Id -> Labels \cup {"none"}]
  BY <1>1, <1>3, <1>4
<1>7. home'[n] = p /\ fact'[n] = f /\ link'[n] = from /\ shown'[n] = "live" /\ label'[n] = as
  BY <1>1, <1>3, <1>4
<1>8. \A j \in Id : j # n => /\ home'[j] = home[j] /\ fact'[j] = fact[j] /\ link'[j] = link[j]
                             /\ shown'[j] = shown[j] /\ label'[j] = label[j]
  BY <1>1, <1>3, <1>4
<1> QED
  BY <1>3, <1>5, <1>6, <1>7, <1>8 DEF n

\* Each of the steps that withdraw a lesson withdraws one, and which.
LEMMA WithdrawnIs ==
  ASSUME LessonsInv
  PROVE  /\ Withdraws => First(doomed) \in doomed /\ First(doomed) \in Id
         /\ Strikes => First(todo) \in todo /\ First(todo) \in Id
         /\ RetiresOld => First(todo) \in todo /\ First(todo) \in Id
         /\ cur.run \in Nat /\ FreshRun \in Nat
         /\ \A C : C = (CopiesOf(back) \cap Live) \ fixed /\ C # {} =>
              First(C) \in C /\ First(C) \in Id
<1>1. todo \subseteq Id /\ doomed \subseteq Id /\ cur \in Cursor
  BY DEF LessonsInv, LessonsTypeOK
<1>2. FreshRun \in Nat
  BY InHandIsThere DEF Stamp
<1>3. cur.run \in Nat
  BY <1>1 DEF Cursor
<1>4. at = "withdraw" => doomed # {}
  BY DEF LessonsInv, InHand
<1>5. at \in {"strike", "retire"} => todo # {}
  BY DEF LessonsInv, InHand
<1>6. (CopiesOf(back) \cap Live) \ fixed \subseteq Id
  BY DEF Live
<1> QED
  BY <1>1, <1>2, <1>3, <1>4, <1>5, <1>6, InHandIsThere DEF Withdraws, Strikes, RetiresOld

\* They change no flag, no saved cursor and no count of calls.
LEMMA TouchesOnly ==
  Touches => UNCHANGED <<flag, moveFlag, saved, ledger, today, verdict>>
BY DEF Touches, LabelsOne, Copies, Learns, Withdraws, Strikes, RetiresOld, Rechecks, Brings, SendsHome,
       Forgets, Corrects, marks, calls, memory

LEMMA TouchesKeepTypes ==
  ASSUME LessonsInv, Touches
  PROVE  LessonsTypeOK'
<1>1. Pages /\ Hand /\ Cursors /\ Bits /\ Counts /\ Where
  BY TypesInGroups DEF LessonsInv
<1>2. /\ "duplicate" \in {"duplicate", "judged", "moved", "returned"}
      /\ "judged" \in {"duplicate", "judged", "moved", "returned"}
      /\ "moved" \in {"duplicate", "judged", "moved", "returned"}
      /\ "returned" \in {"duplicate", "judged", "moved", "returned"}
      /\ 0 \in Nat /\ 0 \in 0..MaxId /\ Machine \in Place /\ Id \subseteq 0..MaxId
  BY LessonsAssumption DEF Machine, Place, Id
<1>13. Bits'
  <2>1. flag' = flag /\ moveFlag' = moveFlag
    BY TouchesOnly
  <2> QED
    BY <1>1, <2>1, Zenon DEF Bits
<1> USE <1>13, TypesInGroups
<1>3. CASE Withdraws
  <2>1. Withdraw(First(doomed), "duplicate", cur.run) /\ label' = label
    BY <1>3 DEF Withdraws
  <2>2. Pages'
    BY <1>1, <1>2, <1>3, <2>1, WithdrawnIs, WithdrawIs DEF Pages
  <2>3. (Hand /\ Cursors /\ Counts /\ Where)'
    BY <1>1, <1>3, <2>1
    DEF Withdraws, Withdraw, words, pages, marks, calls, Hand, Cursors, Counts, Where
  <2> QED
    BY <2>2, <2>3
<1>4. CASE Strikes
  <2>1. Withdraw(First(todo), "judged", cur.run) /\ label' = label
    BY <1>4 DEF Strikes
  <2>2. Pages'
    BY <1>1, <1>2, <1>4, <2>1, WithdrawnIs, WithdrawIs DEF Pages
  <2>3. (Hand /\ Cursors /\ Counts /\ Where)'
    BY <1>1, <1>4, <2>1
    DEF Strikes, Withdraw, words, pages, marks, calls, Hand, Cursors, Counts, Where
  <2> QED
    BY <2>2, <2>3
<1>5. CASE RetiresOld
  <2>1. Withdraw(First(todo), "moved", cur.run) /\ label' = label
    BY <1>5 DEF RetiresOld
  <2>2. Pages'
    BY <1>1, <1>2, <1>5, <2>1, WithdrawnIs, WithdrawIs DEF Pages
  <2>3. (Hand /\ Cursors /\ Counts /\ Where)'
    BY <1>1, <1>5, <2>1, WithdrawnIs
    DEF RetiresOld, Withdraw, words, pages, marks, calls, Hand, Cursors, Counts, Where
  <2> QED
    BY <2>2, <2>3
<1>6. ASSUME NEW i \in Id, Rechecks(i) PROVE LessonsTypeOK'
  <2>1. Withdraw(i, "judged", FreshRun) /\ label' = label
    BY <1>6 DEF Rechecks
  <2>2. Pages'
    BY <1>1, <1>2, <1>6, <2>1, WithdrawnIs, WithdrawIs DEF Pages
  <2>3. (Hand /\ Cursors /\ Counts /\ Where)'
    BY <1>1, <1>6, <2>1
    DEF Rechecks, Withdraw, words, pages, marks, calls, Hand, Cursors, Counts, Where
  <2> QED
    BY <2>2, <2>3
<1>7. CASE SendsHome
  <2> DEFINE C == (CopiesOf(back) \cap Live) \ fixed
  <2>1. CASE C # {}
    <3>1. Withdraw(First(C), "returned", 0) /\ UNCHANGED <<label, at, job, cur, back>>
          /\ UNCHANGED <<marks, calls, todo, doomed, verdict>>
      BY <1>7, <2>1 DEF SendsHome
    <3>2. First(C) \in Id
      BY <2>1, WithdrawnIs
    <3>3. Pages'
      BY <1>1, <1>2, <3>1, <3>2, WithdrawIs DEF Pages
    <3>4. (Hand /\ Cursors /\ Counts /\ Where)'
      BY <1>1, <3>1
      DEF Withdraw, words, pages, marks, calls, Hand, Cursors, Counts, Where
    <3> QED
      BY <3>3, <3>4
  <2>2. CASE C = {}
    <3>1. /\ at' = "off" /\ job' = "clean" /\ cur' = Blank /\ back' = {} /\ Rests
          /\ UNCHANGED <<marks, calls, todo, doomed, verdict>>
      BY <1>7, <2>2 DEF SendsHome
    <3>2. (Pages /\ Hand /\ Cursors /\ Counts /\ Where)'
      BY <1>1, <3>1, BlankIsCursor
      DEF Rests, words, pages, marks, calls, Pages, Hand, Cursors, Counts, Where
    <3> QED
      BY <3>2
  <2> QED
    BY <2>1, <2>2
<1>8. CASE LabelsOne
  <2>1. First(todo) \in Id /\ verdict[First(todo)] \in Labels \cup {"none"}
    BY <1>1, <1>8, InHandIsThere DEF LabelsOne, Hand
  <2>2. Pages'
    BY <1>1, <1>8, <2>1 DEF LabelsOne, Pages, pages, words, ghosts
  <2>3. (Hand /\ Cursors /\ Counts /\ Where)'
    BY <1>1, <1>8 DEF LabelsOne, marks, calls, ghosts, Hand, Cursors, Counts, Where
  <2> QED
    BY <2>2, <2>3
<1>9. CASE Copies
  <2>1. First(todo) \in Id /\ fact[First(todo)] \in Fact /\ First(todo) \in 0..MaxId /\ "machine" \in Labels
    BY <1>1, <1>2, <1>9, InHandIsThere DEF Copies, Hand, Pages, Labels
  <2>2. Mints(Machine, fact[First(todo)], First(todo), "machine")
        /\ UNCHANGED <<words, tombs, ghosts, marks, calls, job, cur, todo, doomed, verdict, back>> /\ at' = "retire"
    BY <1>9 DEF Copies
  <2>3. Pages'
    BY <1>1, <1>2, <2>1, <2>2, MintsIs DEF Pages, words, ghosts
  <2>4. (Hand /\ Cursors /\ Counts /\ Where)'
    BY <1>1, <2>2 DEF marks, calls, ghosts, Hand, Cursors, Counts, Where
  <2> QED
    BY <2>3, <2>4
<1>10. ASSUME NEW f \in Fact, NEW p \in Place, Learns(f, p) PROVE LessonsTypeOK'
  <2>1. /\ at' = "upkeep"
        /\ UNCHANGED <<words, tombs, ghosts, marks, calls, job, cur, todo, doomed, verdict, back>>
    BY <1>10 DEF Learns
  <2>2. CASE Mints(p, f, 0, IF p = Machine THEN "machine" ELSE "project")
    <3>1. (IF p = Machine THEN "machine" ELSE "project") \in Labels
      BY DEF Labels
    <3>2. Pages'
      BY <1>1, <1>2, <2>1, <2>2, <3>1, MintsIs DEF Pages, words, ghosts
    <3>3. (Hand /\ Cursors /\ Counts /\ Where)'
      BY <1>1, <2>1 DEF marks, calls, ghosts, Hand, Cursors, Counts, Where
    <3> QED
      BY <3>2, <3>3
  <2>3. CASE \E i \in In(p) : /\ label' = IF p = Machine THEN label ELSE [label EXCEPT ![i] = "project"]
                              /\ UNCHANGED <<pages, shown>>
    <3>1. label' \in [Id -> Labels \cup {"none"}]
      BY <1>1, <2>3 DEF Pages, In, Live, Labels
    <3>2. (Pages /\ Hand /\ Cursors /\ Counts /\ Where)'
      BY <1>1, <2>1, <2>3, <3>1
      DEF Pages, words, marks, calls, ghosts, pages, Hand, Cursors, Counts, Where
    <3> QED
      BY <3>2
  <2> QED
    BY <1>10, <2>2, <2>3 DEF Learns
<1>11. CASE Brings
  <2>1. First(todo) \in Id
    BY <1>1, <1>11, InHandIsThere DEF Brings, Hand
  <2>2. /\ UNCHANGED <<pages, label, fixed, tombs, ghosts, marks, calls, at, job, cur, doomed, verdict>>
        /\ todo' = todo \ {First(todo)}
        /\ shown' \in {shown, [shown EXCEPT ![First(todo)] = "live"]}
        /\ restored' \in {restored, restored \cup {First(todo)}}
        /\ back' \in {back, back \cup {First(todo)}}
    BY <1>11 DEF Brings
  <2>3. Pages'
    BY <1>1, <2>1, <2>2 DEF Pages, pages, ghosts
  <2>4. (Hand /\ Cursors /\ Counts /\ Where)'
    BY <1>1, <2>1, <2>2 DEF marks, calls, ghosts, Hand, Cursors, Counts, Where
  <2> QED
    BY <2>3, <2>4
<1>12. ASSUME NEW i \in Id, Forgets(i) \/ Corrects(i) PROVE LessonsTypeOK'
  <2>1. Pages'
    BY <1>1, <1>12 DEF Forgets, Corrects, Pages, pages, words
  <2>2. Counts'
    BY <1>1, <1>12, LessonsAssumption DEF Forgets, Corrects, Does, Counts, calls
  <2>3. (Hand /\ Cursors /\ Where)'
    BY <1>1, <1>12 DEF Forgets, Corrects, memory, marks, Hand, Cursors, Where
  <2> QED
    BY <2>1, <2>2, <2>3
<1> QED
  BY <1>3, <1>4, <1>5, <1>6, <1>7, <1>8, <1>9, <1>10, <1>11, <1>12 DEF Touches

LEMMA TypesStep ==
  ASSUME LessonsInv, Next
  PROVE  LessonsTypeOK'
<1>1. ASSUME Minds PROVE LessonsTypeOK'
  <2>1. Pages
    BY TypesInGroups DEF LessonsInv
  <2>2. Pages'
    BY <1>1, <2>1, MindsOnly DEF Pages, pages, words
  <2> QED
    BY <1>1, <2>2, MindsKeepHand, MindsKeepCounts, MindsKeepWhere, MindsKeepCursors, TypesInGroups
<1> QED
  BY <1>1, NextIsOneOf, TouchesKeepTypes

\* Where the labels of a day go on, and where the next project begins.
LEMMA DailiesResumes ==
  ASSUME LessonsInv, Dailies
  PROVE  \/ at' = "move" /\ UNCHANGED <<job, cur>>
         \/ /\ at' = "batch" /\ job' = "daily" /\ cur' \in Cursor /\ cur'.project \in 1..Projects
            /\ Total # 0 /\ ~(saved["daily"].stuck > 0 /\ Total <= saved["daily"].stuck)
            /\ today < LabelCalls
<1> DEFINE c == [saved["daily"] EXCEPT
                   !.stuck = 0, !.run = IF today = 0 \/ @ = 0 THEN FreshRun ELSE @,
                   !.left = IF saved["daily"].project = 0 /\ saved["daily"].after = 0 THEN Total ELSE @]
<1>1. /\ saved["daily"] \in Cursor /\ saved["daily"].project <= Projects /\ FreshRun \in Nat
      /\ Total \in 0..MaxId /\ 0 \in 0..MaxId /\ today \in Int /\ LabelCalls \in Int
  BY InHandIsThere, LessonsAssumption DEF LessonsInv, LessonsTypeOK, Turns, Stamp
<1>2. c \in Cursor /\ c.project <= Projects
  BY <1>1 DEF Cursor
<1>3. \/ at' = "move" /\ UNCHANGED <<job, cur>>
      \/ /\ Resumes("daily", c)
         /\ ~(today >= LabelCalls) /\ Total # 0 /\ ~(saved["daily"].stuck > 0 /\ Total <= saved["daily"].stuck)
  BY DEF Dailies
<1> HIDE DEF c
<1> QED
  BY <1>1, <1>2, <1>3, ResumesAt

LEMMA NextProjectResumes ==
  ASSUME LessonsInv, NextProject
  PROVE  /\ cur' \in Cursor /\ cur'.project \in 1..Projects /\ job' = job /\ at' \in {"gather", "batch"}
         /\ (job # "clean" => at' = "batch")
<1> DEFINE c == [cur EXCEPT !.project = @ + 1, !.deduped = FALSE, !.after = 0, !.fails = 0]
<1>1. cur \in Cursor /\ cur.project \in 0..(Projects + 1) /\ cur.project < Projects /\ Projects \in Nat
      /\ 0 \in 0..MaxId /\ 0 \in 0..(Patience - 1) /\ FALSE \in BOOLEAN /\ cur.project + 1 \in 0..(Projects + 1)
  BY LessonsAssumption DEF LessonsInv, LessonsTypeOK, NextProject, Cursor
<1>2. c \in Cursor
  BY <1>1, CursorOf
<1>3. c.project = cur.project + 1
  BY <1>1 DEF Cursor
<1>4. Resumes(job, c)
  BY DEF NextProject
<1> HIDE DEF c
<1> QED
  BY <1>1, <1>2, <1>3, <1>4, ResumesAt

(***************************************************************************)
(* What the runner is at, where it is                                      *)
(***************************************************************************)
TurnsNow ==
  /\ at \in {"gather", "group", "withdraw"} => job \in {"clean", "settle", "fold"}
  /\ at \in {"batch", "asked", "label", "strike"} => job \in {"clean", "daily"}
  /\ at \in {"gather", "group", "withdraw", "batch", "asked", "label", "strike"} /\ job \in {"clean", "daily"} =>
       cur.project \in 1..Projects
  /\ at = "saving" => job = "clean" /\ cur.project <= Projects
  /\ at = "swept" => job = "daily" /\ cur.project <= Projects
  /\ at = "learn" => cur.project \in 1..Projects
  /\ at \in {"scan", "copy", "retire"} => job = "move" /\ cur.run # 0 /\ cur.project <= Projects
  /\ at = "bring" => cur.run # 0
TurnsSaved == \A j \in {"clean", "daily", "move"} : saved[j].project <= Projects

LEMMA TouchesTurn ==
  ASSUME Touches
  PROVE  LET Same == job' = job /\ cur' = cur
         IN \/ Same /\ at' = at
            \/ Same /\ at = "withdraw" /\ at' = "group"
            \/ Same /\ at = "label" /\ at' = "strike"
            \/ Same /\ at = "strike" /\ at' = "label"
            \/ Same /\ at = "copy" /\ at' = "retire"
            \/ Same /\ at = "retire" /\ at' = "copy"
            \/ Same /\ at' = "upkeep"
            \/ at' = "off"
BY DEF Touches, LabelsOne, Copies, Learns, Withdraws, Strikes, RetiresOld, Rechecks, Brings, SendsHome,
       Forgets, Corrects, memory

LEMMA TurnsStep ==
  ASSUME LessonsInv, Next
  PROVE  Turns'
<1>1. LessonsTypeOK /\ TurnsNow /\ TurnsSaved /\ LessonsTypeOK'
  BY TypesStep DEF LessonsInv, Turns, TurnsNow, TurnsSaved
<1>2. cur \in Cursor /\ cur' \in Cursor /\ Projects \in Nat \ {0} /\ saved \in [{"clean", "daily", "move"} -> Cursor]
  BY <1>1, LessonsAssumption DEF LessonsTypeOK
<1>3. /\ saved["clean"] \in Cursor /\ saved["daily"] \in Cursor /\ saved["move"] \in Cursor
      /\ saved["clean"].project <= Projects /\ saved["daily"].project <= Projects /\ saved["move"].project <= Projects
  BY <1>1, <1>2 DEF TurnsSaved
<1>4. Blank.project = 0 /\ Blank \in Cursor
  BY BlankIsCursor DEF Blank
<1>5. FreshRun # 0
  BY InHandIsThere DEF LessonsInv, Stamp
<1>6. ASSUME Touches PROVE TurnsNow' /\ saved' = saved
  <2>1. saved' = saved
    BY <1>6, TouchesOnly
  <2> QED
    BY <1>1, <1>6, <2>1, TouchesTurn DEF TurnsNow
<1>7. ASSUME Minds PROVE Turns'
  <2>1. TurnsSaved'
    <3>1. CASE SavesBatch \/ SavesFailure \/ SavesSweep \/ SavesMove
      <4>1. cur.project <= Projects
        BY <1>1, <1>2, <3>1 DEF SavesBatch, SavesFailure, SavesSweep, SavesMove, TurnsNow, Cursor
      <4>2. saved' = [saved EXCEPT ![job] = cur]
        BY <3>1 DEF SavesBatch, SavesFailure, SavesSweep, SavesMove, Save
      <4> QED
        BY <1>1, <1>2, <4>1, <4>2 DEF TurnsSaved
    <3>2. CASE GroupsEnd
      <4>1. \/ saved' = saved
            \/ job = "clean" /\ saved' = [saved EXCEPT ![job] = [cur EXCEPT !.deduped = TRUE]]
        BY <3>2, <1>1, Zenon DEF GroupsEnd, TurnsNow, Save
      <4>2. job = "clean" => [cur EXCEPT !.deduped = TRUE].project = cur.project /\ cur.project <= Projects
        BY <1>1, <1>2, <3>2 DEF GroupsEnd, TurnsNow, Cursor
      <4> HIDE DEF TurnsNow
      <4> QED
        BY <1>1, <1>2, <4>1, <4>2 DEF TurnsSaved
    <3>3. CASE Finishes \/ MoveEnds
      BY <1>1, <1>2, <1>4, <3>3 DEF Finishes, MoveEnds, TurnsSaved
    <3>4. saved' = saved \/ (SavesBatch \/ SavesFailure \/ SavesSweep \/ SavesMove) \/ GroupsEnd
            \/ (Finishes \/ MoveEnds)
      BY <1>7 DEF Minds, Starting, Passes, Dailies, Gathers, Decides, Asks, NoAnswer, Answers,
        Stops, NextProject, SweepEnds, Moves, Scans,
        MoveBreaks, Visits, Leaves, LearnsNothing, Restores, Killed, StoreFails, StopsFor, CallAges, marks
    <3> QED
      BY <1>1, <3>1, <3>2, <3>3, <3>4 DEF TurnsSaved
  <2>2. TurnsNow'
    <3>1. CASE Passes
      <4>1. CASE flag
        BY <3>1, <4>1 DEF Passes, TurnsNow
      <4>2. CASE ~flag /\ saved["clean"] # Blank
        <5>1. Resumes("clean", saved["clean"])
          BY <3>1, <4>2 DEF Passes
        <5> QED
          BY <5>1, <1>3, ResumesAt DEF TurnsNow
      <4>3. CASE ~flag /\ saved["clean"] = Blank
        <5> DEFINE c == [Blank EXCEPT !.run = FreshRun]
        <5>1. Resumes("clean", c)
          BY <3>1, <4>3 DEF Passes
        <5>2. c \in Cursor
          BY <1>4, InHandIsThere DEF Cursor, Stamp
        <5>3. c.project <= Projects
          BY <1>2 DEF Blank
        <5> HIDE DEF c
        <5> QED
          BY <5>1, <5>2, <5>3, ResumesAt DEF TurnsNow
      <4> QED
        BY <4>1, <4>2, <4>3
    <3>2. CASE Dailies
      <4>1. \/ at' = "move"
            \/ cur'.project \in 1..Projects /\ job' = "daily" /\ at' = "batch"
        BY <3>2, DailiesResumes
      <4> QED
        BY <4>1 DEF TurnsNow
    <3>3. CASE NextProject
      <4>1. cur'.project \in 1..Projects /\ job' = job /\ at' \in {"gather", "batch"} /\ (job # "clean" => at' = "batch")
        BY <3>3, NextProjectResumes
      <4>2. job \in {"clean", "daily"}
        BY <1>1, <3>3 DEF NextProject, TurnsNow
      <4> QED
        BY <4>1, <4>2 DEF TurnsNow
    <3>4. CASE GroupsEnd
      <4>1. \/ job = "clean" /\ cur' = [cur EXCEPT !.deduped = TRUE] /\ at' = "batch" /\ job' = job
            \/ at' = "upkeep"
            \/ job = "fold" /\ at' = "learn" /\ cur' = cur /\ Here # Machine
        BY <1>1, <3>4, Zenon DEF GroupsEnd, TurnsNow, ToUpkeep
      <4>2. [cur EXCEPT !.deduped = TRUE].project = cur.project /\ cur.project \in 0..(Projects + 1)
        BY <1>2 DEF Cursor
      <4>3. job = "fold" /\ Here # Machine => cur.project \in 1..Projects
        BY <1>2, <4>2 DEF Here, Machine
      <4>4. at = "group"
        BY <3>4 DEF GroupsEnd
      <4>5. CASE at' = "batch"
        <5>1. job = "clean" /\ job' = "clean" /\ cur'.project = cur.project
          BY <4>1, <4>2, <4>5
        <5>2. cur.project \in 1..Projects
          BY <1>1, <4>4, <5>1 DEF TurnsNow
        <5> QED
          BY <4>5, <5>1, <5>2 DEF TurnsNow
      <4>6. CASE at' # "batch"
        <5>1. at' = "upkeep" \/ (at' = "learn" /\ cur' = cur /\ cur.project \in 1..Projects)
          BY <4>1, <4>3, <4>6
        <5> QED
          BY <5>1 DEF TurnsNow
      <4> QED
        BY <4>5, <4>6
    <3>5. CASE NoAnswer \/ (\E v \in [todo -> Labels \cup {"none"}] : Answers(v)) \/ SweepEnds
      <4>1. at \in {"batch", "asked"} => job \in {"clean", "daily"} /\ cur.project \in 1..Projects
        BY <1>1 DEF TurnsNow
      <4>2. CASE NoAnswer
        <5>1. cur'.project = cur.project /\ at = "asked" /\ job' = job /\ at' = IF job = "daily" THEN "swept" ELSE "saving"
          BY <1>2, <4>2 DEF NoAnswer, Daily, Cursor
        <5> QED
          BY <1>2, <4>1, <5>1 DEF TurnsNow
      <4>3. CASE \E v \in [todo -> Labels \cup {"none"}] : Answers(v)
        <5>1. cur'.project = cur.project /\ at = "asked" /\ job' = job /\ at' = "label"
          BY <1>2, <4>3 DEF Answers, Cursor
        <5> QED
          BY <1>2, <4>1, <5>1 DEF TurnsNow
      <4>4. CASE SweepEnds
        <5>1. cur'.project = 0 /\ job' = "daily" /\ job = "daily" /\ at' = "swept"
          BY <1>2, <4>4 DEF SweepEnds, Daily, Cursor
        <5> QED
          BY <1>2, <5>1 DEF TurnsNow
      <4> QED
        BY <3>5, <4>2, <4>3, <4>4
    <3>6. CASE Moves \/ Scans
      BY <1>1, <1>2, <1>3, <1>5, <3>6 DEF Moves, Scans, TurnsNow, Cursor, ToUpkeep
    <3>7. CASE Starting \/ Gathers \/ (\E f \in Fact : Decides(f)) \/ (\E k \in 1..MaxRungs : Asks(k)) \/ SavesBatch
                \/ Stops \/ SavesSweep \/ SavesMove \/ LearnsNothing \/ CallAges
      BY <1>1, <1>2, <3>7
      DEF Starting, Gathers, Decides, Asks, SavesBatch, Stops, SavesSweep, SavesMove, LearnsNothing, CallAges, TurnsNow,
          ToUpkeep, memory, Daily, Cursor
    <3>8. CASE SavesFailure \/ Finishes \/ MoveEnds \/ MoveBreaks \/ (\E p \in 1..(Projects + 1) : Visits(p)) \/ Leaves
                \/ Killed \/ StoreFails
      BY <3>8 DEF SavesFailure, Finishes, MoveEnds, MoveBreaks, Settles, Visits, Leaves, Killed, StoreFails, StopsFor, ToUpkeep, TurnsNow
    <3>9. CASE \E r \in {t.run : t \in tombs} : Restores(r)
      <4>1. PICK t \in tombs : Restores(t.run)
        BY <3>9
      <4>2. t.run # 0
        BY <1>1 DEF LessonsTypeOK, Stamp
      <4> QED
        BY <4>1, <4>2 DEF Restores, TurnsNow, Blank
    <3> QED
      BY <1>7, <3>1, <3>2, <3>3, <3>4, <3>5, <3>6, <3>7, <3>8, <3>9 DEF Minds
  <2> QED
    BY <2>1, <2>2 DEF Turns, TurnsNow, TurnsSaved
<1>8. TurnsSaved' /\ TurnsNow' => Turns'
  BY DEF Turns, TurnsNow, TurnsSaved
<1>9. saved' = saved => TurnsSaved'
  BY <1>1 DEF TurnsSaved
<1> QED
  BY <1>6, <1>7, <1>8, <1>9, NextIsOneOf

(***************************************************************************)
(* The flags                                                               *)
(***************************************************************************)
\* Which saved cursor a quiet step changes.
LEMMA MindsSave ==
  ASSUME LessonsInv, Minds
  PROVE  /\ saved'["move"] = saved["move"] \/ (SavesMove /\ saved'["move"] = cur) \/ (MoveEnds /\ saved'["move"] = Blank)
         /\ saved'["daily"] = saved["daily"] \/ (at \in {"label", "swept"} /\ job = "daily" /\ saved'["daily"] = cur)
<1>1. saved \in [{"clean", "daily", "move"} -> Cursor] /\ Turns
  BY DEF LessonsInv, LessonsTypeOK
<1>2. CASE SavesBatch \/ SavesFailure \/ SavesSweep \/ SavesMove
  <2>1. /\ job \in {"clean", "daily", "move"} /\ saved' = [saved EXCEPT ![job] = cur]
        /\ job = "move" <=> at = "copy"
        /\ job = "daily" => at \in {"label", "swept"}
    BY <1>1, <1>2 DEF SavesBatch, SavesFailure, SavesSweep, SavesMove, Save, Turns
  <2>2. at = "copy" => SavesMove
    BY <1>2 DEF SavesBatch, SavesFailure, SavesSweep
  <2> QED
    BY <1>1, <2>1, <2>2
<1>3. CASE GroupsEnd
  <2>1. saved' = saved \/ (job = "clean" /\ saved' = [saved EXCEPT ![job] = cur'])
    BY <1>1, <1>3, Zenon DEF GroupsEnd, Turns, Save
  <2> QED
    BY <1>1, <2>1
<1>4. CASE Finishes
  BY <1>1, <1>4 DEF Finishes
<1>5. CASE MoveEnds
  BY <1>1, <1>5 DEF MoveEnds
<1>6. saved' = saved \/ (SavesBatch \/ SavesFailure \/ SavesSweep \/ SavesMove) \/ GroupsEnd \/ Finishes \/ MoveEnds
  BY DEF Minds, Starting, Passes, Dailies, Gathers, Decides, Asks, NoAnswer, Answers,
      Stops, NextProject, SweepEnds, Moves, Scans,
      MoveBreaks, Visits, Leaves, LearnsNothing, Restores, Killed, StoreFails, StopsFor, CallAges, marks
<1> QED
  BY <1>2, <1>3, <1>4, <1>5, <1>6

\* Where a quiet step leads.
LEMMA MindsTurn ==
  ASSUME LessonsInv, Minds
  PROVE  \/ at' = at /\ job' = job
         \/ at' \in {"off", "upkeep"}
         \/ at = "off" /\ at' = "pass" /\ job' = job
         \/ at = "pass" /\ flag /\ at' = "daily" /\ job' = job
         \/ at = "pass" /\ ~flag /\ at' \in {"gather", "batch"} /\ job' = "clean"
         \/ at = "daily" /\ at' = "move" /\ job' = job
         \/ /\ at = "daily" \/ (job = "daily" /\ at \in {"batch", "asked", "label", "strike", "swept"})
            /\ at' = "move" /\ job' = "clean"
         \/ at = "daily" /\ at' = "batch" /\ job' = "daily"
         \/ at = "gather" /\ at' = "group" /\ job' = job
         \/ at = "group" /\ at' = "withdraw" /\ job' = job
         \/ at = "group" /\ at' = "batch" /\ job' = job /\ job = "clean"
         \/ at = "group" /\ at' = "learn" /\ job' = job /\ job = "fold"
         \/ at = "batch" /\ at' = "asked" /\ job' = job
         \/ at \in {"batch", "asked"} /\ at' = "swept" /\ job' = job /\ job = "daily"
         \/ at = "asked" /\ at' = "saving" /\ job' = job /\ job = "clean"
         \/ at = "asked" /\ at' = "label" /\ job' = job
         \/ at = "label" /\ at' = "batch" /\ job' = job
         \/ at = "batch" /\ at' \in {"gather", "batch"} /\ job' = job /\ (job # "clean" => at' = "batch")
         \/ at = "swept" /\ at' = "move" /\ job' = job
         \/ at = "move" /\ at' = "scan" /\ job' = "move"
         \/ at = "scan" /\ at' = "copy" /\ job' = job
         \/ at = "copy" /\ at' = "scan" /\ job' = job
         \/ at = "scan" /\ at' = "gather" /\ job' = "settle"
         \/ at = "upkeep" /\ at' = "gather" /\ job' = "fold"
         \/ at = "off" /\ at' = "bring" /\ job' = "restore"
<1>1. Turns /\ saved \in [{"clean", "daily", "move"} -> Cursor]
  BY DEF LessonsInv, LessonsTypeOK
<1>2. CASE Passes
  <2>1. \/ flag /\ at' = "daily" /\ job' = job
        \/ ~flag /\ job' = "clean" /\ at' \in {"gather", "batch"}
    BY <1>2, Zenon DEF Passes, Resumes
  <2> QED
    BY <1>2, <2>1 DEF Passes
<1>3. CASE Dailies
  BY <1>3, DailiesResumes DEF Dailies
<1>4. CASE NextProject
  BY <1>4, NextProjectResumes DEF NextProject
<1>5. CASE GroupsEnd
  <2>1. \/ job = "clean" /\ at' = "batch" /\ job' = job
        \/ at' = "upkeep"
        \/ job = "fold" /\ at' = "learn" /\ job' = job
    BY <1>1, <1>5, Zenon DEF GroupsEnd, Turns, ToUpkeep
  <2> QED
    BY <1>5, <2>1 DEF GroupsEnd
<1>6. CASE NoAnswer \/ (\E v \in [todo -> Labels \cup {"none"}] : Answers(v)) \/ SweepEnds \/ Stops
  BY <1>1, <1>6 DEF NoAnswer, Answers, SweepEnds, Stops, Daily, ToUpkeep, Turns
<1>7. CASE Starting \/ Gathers \/ (\E f \in Fact : Decides(f)) \/ (\E k \in 1..MaxRungs : Asks(k)) \/ SavesBatch
             \/ SavesFailure \/ Finishes \/ SavesSweep
  BY <1>7 DEF Starting, Gathers, Decides, Asks, SavesBatch, SavesFailure, Finishes, SavesSweep, ToUpkeep
<1>8. CASE Moves \/ Scans \/ SavesMove \/ MoveEnds \/ MoveBreaks
  BY <1>8 DEF Moves, Scans, SavesMove, MoveEnds, MoveBreaks, Settles, ToUpkeep
<1>9. CASE \/ (\E p \in 1..(Projects + 1) : Visits(p)) \/ Leaves \/ LearnsNothing
           \/ (\E r \in {t.run : t \in tombs} : Restores(r)) \/ Killed \/ CallAges
  BY <1>9 DEF Visits, Leaves, LearnsNothing, Restores, Killed, StopsFor, CallAges, memory
<1>10. CASE StoreFails
  BY <1>10 DEF StoreFails, StopsFor, Daily
<1> QED
  BY <1>2, <1>3, <1>4, <1>5, <1>6, <1>7, <1>8, <1>9, <1>10 DEF Minds

LEMMA FlagsStep ==
  ASSUME LessonsInv, Next
  PROVE  Flags'
<1>1. Flags /\ Turns
  BY DEF LessonsInv
<1>2. CASE Touches
  <2>1. UNCHANGED <<flag, moveFlag, saved>>
    BY <1>2, TouchesOnly
  <2>2. /\ at' \in {"daily", "swept", "move", "scan", "copy", "retire"} =>
             at \in {"daily", "swept", "move", "scan", "copy", "retire"}
        /\ job' = "daily" /\ at' \in {"batch", "asked", "label", "strike"} =>
             job = "daily" /\ at \in {"batch", "asked", "label", "strike"}
        /\ job' = "clean" /\ at' \in {"gather", "group", "withdraw", "batch", "asked", "label", "strike", "saving"} =>
             job = "clean" /\ at \in {"gather", "group", "withdraw", "batch", "asked", "label", "strike", "saving"}
    BY <1>2, TouchesTurn
  <2> QED
    BY <1>1, <2>1, <2>2, Zenon DEF Flags
<1>3. CASE Minds
  <2>1. saved'["move"].after > 0 => saved["move"].after > 0 \/ at = "copy"
    <3>1. ~(Blank.after > 0)
      BY DEF Blank
    <3> QED
      BY <1>3, <3>1, MindsSave DEF SavesMove
  <2>2. moveFlag' = moveFlag \/ at = "scan"
    BY <1>3 DEF Minds, Starting, Passes, Dailies, Gathers, Decides, GroupsEnd, NoAnswer, Answers, SavesBatch,
      SavesFailure, Stops, NextProject, Finishes, SweepEnds, SavesSweep, Moves, Scans, SavesMove, MoveEnds,
      MoveBreaks, Settles, Leaves, LearnsNothing, marks, Asks, Killed, StoreFails, StopsFor, CallAges, Restores, Visits
  <2>3. flag' = flag \/ (flag' = TRUE /\ at' = "upkeep")
    BY <1>3 DEF Minds, Starting, Passes, Dailies, Gathers, Decides, GroupsEnd, NoAnswer, Answers, SavesBatch,
      SavesFailure, Stops, NextProject, Finishes, SweepEnds, SavesSweep, Moves, Scans, SavesMove, MoveEnds, ToUpkeep,
      MoveBreaks, Settles, Leaves, LearnsNothing, marks, Asks, Killed, StoreFails, StopsFor, CallAges, Restores, Visits
  <2>4. at' \in {"daily", "swept", "move", "scan", "copy", "retire"} =>
          \/ at \in {"daily", "swept", "move", "scan", "copy", "retire"}
          \/ at = "pass" /\ flag
          \/ job = "daily" /\ at \in {"batch", "asked", "label", "strike"}
    BY <1>3, MindsTurn
  <2>5. job' = "daily" /\ at' \in {"batch", "asked", "label", "strike"} =>
          \/ job = "daily" /\ at \in {"batch", "asked", "label", "strike"}
          \/ at = "daily"
    BY <1>1, <1>3, MindsTurn DEF Turns
  <2>6. job' = "clean" /\ at' \in {"gather", "group", "withdraw", "batch", "asked", "label", "strike", "saving"} =>
          /\ \/ job = "clean" /\ at \in {"gather", "group", "withdraw", "batch", "asked", "label", "strike", "saving"}
             \/ at = "pass" /\ ~flag
          /\ at' # "upkeep"
    BY <1>3, MindsTurn
  <2>7. flag => flag'
    BY <2>3, Zenon
  <2>8. ~flag /\ at' # "upkeep" => ~flag'
    BY <2>3, Zenon
  <2>9. flag => Flags' \/ (job' = "clean" /\ at' \in {"gather", "group", "withdraw", "batch", "asked", "label", "strike", "saving"})
    BY <2>7, Zenon DEF Flags
  <2>10. CASE flag
    <3>1. ~(job' = "clean" /\ at' \in {"gather", "group", "withdraw", "batch", "asked", "label", "strike", "saving"})
      BY <1>1, <2>6, <2>10, Zenon DEF Flags
    <3> QED
      BY <2>9, <2>10, <3>1
  <2>11. CASE ~flag
    <3>1. /\ ~moveFlag /\ ~(saved["move"].after > 0)
          /\ at \notin {"daily", "swept", "move", "scan", "copy", "retire"}
          /\ ~(job = "daily" /\ at \in {"batch", "asked", "label", "strike"})
      BY <1>1, <2>11, Zenon DEF Flags
    <3>2. /\ ~moveFlag' /\ ~(saved'["move"].after > 0)
      BY <2>1, <2>2, <3>1
    <3>3. /\ at' \notin {"daily", "swept", "move", "scan", "copy", "retire"}
          /\ ~(job' = "daily" /\ at' \in {"batch", "asked", "label", "strike"})
      BY <2>4, <2>5, <2>11, <3>1
    <3> QED
      BY <2>6, <2>8, <2>11, <3>2, <3>3, Zenon DEF Flags
  <2> QED
    BY <2>10, <2>11
<1> QED
  BY <1>2, <1>3, NextIsOneOf

(***************************************************************************)
(* What a step that is not quiet does to the lessons                       *)
(***************************************************************************)
Withdrawing(i, why, run) ==
  /\ Withdraw(i, why, run) /\ label' = label /\ (why = "returned" => run = 0)
  /\ \/ Withdraws /\ at = "withdraw" /\ i \in doomed /\ doomed' = doomed \ {i} /\ why = "duplicate" /\ run = cur.run
     \/ Strikes /\ at = "strike" /\ i = First(todo) /\ i \in todo /\ i \in doomed /\ why = "judged" /\ run = cur.run
     \/ RetiresOld /\ at = "retire" /\ i = First(todo) /\ i \in todo /\ why = "moved" /\ run = cur.run /\ run # 0
     \/ Rechecks(i) /\ at = "learn" /\ i \in In(cur.project) \ fixed /\ why = "judged"
     \/ SendsHome /\ at = "bring" /\ todo = {} /\ back' = back /\ todo' = todo /\ i \in (CopiesOf(back) \cap Live) \ fixed
        /\ why = "returned" /\ at' = at /\ cur' = cur
Copying  == /\ Copies /\ at = "copy" /\ First(todo) \in todo
            /\ Mints(Machine, fact[First(todo)], First(todo), "machine") /\ UNCHANGED <<words, tombs, cause, mishaps, todo>>
            /\ at' = "retire"
Learning(f, p) == /\ Learns(f, p) /\ at = "learn" /\ at' = "upkeep"
                  /\ Mints(p, f, 0, IF p = Machine THEN "machine" ELSE "project")
                  /\ UNCHANGED <<words, tombs, cause, mishaps>>
Marking  == /\ LabelsOne \/ (\E f \in Fact, p \in Place : Learns(f, p) /\ UNCHANGED <<pages, shown>>)
               \/ (SendsHome /\ at = "bring" /\ at' = "off" /\ todo = {} /\ (CopiesOf(back) \cap Live) \ fixed = {})
            /\ UNCHANGED <<pages, shown, words, tombs, cause, mishaps>>

LEMMA TouchesAre ==
  ASSUME LessonsInv, Touches
  PROVE  \/ \E i \in Id, why \in {"duplicate", "judged", "moved", "returned"}, run \in Nat : Withdrawing(i, why, run)
         \/ Copying
         \/ \E f \in Fact, p \in Place : Learning(f, p)
         \/ Marking \/ Brings \/ (\E i \in Id : Forgets(i)) \/ (\E i \in Id : Corrects(i))
<1>1. CASE Withdraws
  <2>1. First(doomed) \in doomed /\ First(doomed) \in Id /\ cur.run \in Nat
    BY <1>1, WithdrawnIs
  <2>2. Withdrawing(First(doomed), "duplicate", cur.run)
    BY <1>1, <2>1 DEF Withdrawing, Withdraws
  <2> QED
    BY <2>1, <2>2
<1>2. CASE Strikes
  <2>1. First(todo) \in todo /\ First(todo) \in Id /\ cur.run \in Nat
    BY <1>2, WithdrawnIs
  <2>2. First(todo) \in doomed
    BY <1>2 DEF Strikes, LessonsInv, InHand
  <2>3. Withdrawing(First(todo), "judged", cur.run)
    BY <1>2, <2>1, <2>2 DEF Withdrawing, Strikes
  <2> QED
    BY <2>1, <2>3
<1>3. CASE RetiresOld
  <2>1. First(todo) \in todo /\ First(todo) \in Id /\ cur.run \in Nat
    BY <1>3, WithdrawnIs
  <2>2. cur.run # 0
    BY <1>3 DEF RetiresOld, LessonsInv, Turns
  <2>3. Withdrawing(First(todo), "moved", cur.run)
    BY <1>3, <2>1, <2>2 DEF Withdrawing, RetiresOld
  <2> QED
    BY <2>1, <2>3
<1>4. ASSUME NEW i \in Id, Rechecks(i) PROVE Withdrawing(i, "judged", FreshRun) /\ FreshRun \in Nat
  <2>1. FreshRun \in Nat
    BY WithdrawnIs
  <2> QED
    BY <1>4, <2>1 DEF Withdrawing, Rechecks
<1>5. CASE SendsHome
  <2> DEFINE C == (CopiesOf(back) \cap Live) \ fixed
  <2>1. CASE C # {}
    <3>1. First(C) \in C /\ First(C) \in Id
      BY <2>1, WithdrawnIs
    <3>2. at = "bring" /\ todo = {} /\ todo' = todo /\ Withdraw(First(C), "returned", 0)
          /\ UNCHANGED <<label, at, job, cur, back>>
      BY <1>5, <2>1 DEF SendsHome
    <3>3. Withdrawing(First(C), "returned", 0)
      BY <1>5, <3>1, <3>2 DEF Withdrawing
    <3>4. 0 \in Nat
      OBVIOUS
    <3> QED
      BY <3>1, <3>3, <3>4
  <2>2. CASE C = {}
    <3>1. at = "bring" /\ todo = {} /\ at' = "off" /\ Rests
      BY <1>5, <2>2 DEF SendsHome
    <3>2. Marking
      BY <1>5, <2>2, <3>1 DEF Marking, Rests
    <3> QED
      BY <3>2
  <2> QED
    BY <2>1, <2>2
<1>6. CASE Copies
  <2>1. First(todo) \in todo
    BY <1>6, InHandIsThere DEF Copies
  <2> QED
    BY <1>6, <2>1 DEF Copies, Copying, ghosts
<1>7. ASSUME NEW f \in Fact, NEW p \in Place, Learns(f, p) PROVE Learning(f, p) \/ Marking
  BY <1>7 DEF Learns, Learning, Marking, ghosts
<1>8. CASE LabelsOne
  BY <1>8 DEF LabelsOne, Marking, ghosts
<1> QED
  BY <1>1, <1>2, <1>3, <1>4, <1>5, <1>6, <1>7, <1>8 DEF Touches

\* Withdrawals and new lessons, in terms of the lessons alone.
LEMMA WithdrawingIs ==
  ASSUME LessonsInv, NEW i \in Id, NEW why \in {"duplicate", "judged", "moved", "returned"}, NEW run \in Nat,
         Withdrawing(i, why, run)
  PROVE  /\ \A j \in Id : j # i => shown'[j] = shown[j] /\ cause'[j] = cause[j]
         /\ shown'[i] = (IF shown[i] = "forgotten" THEN "forgotten" ELSE "cleaned") /\ cause'[i] = why
         /\ tombs' = IF run = 0 \/ home[i] = Machine THEN tombs
                     ELSE tombs \cup {[on |-> i, run |-> run, why |-> why]}
         /\ UNCHANGED <<home, fact, link, label, fixed, restored, mishaps>>
BY WithdrawIs DEF Withdrawing

LEMMA CopyingIs ==
  ASSUME LessonsInv, Copying
  PROVE  \E n \in Id :
           /\ shown[n] = "none" /\ home'[n] = Machine /\ fact'[n] = fact[First(todo)] /\ link'[n] = First(todo)
           /\ shown'[n] = "live" /\ label'[n] = "machine" /\ First(todo) \in Id
           /\ \A j \in Id : j # n => /\ home'[j] = home[j] /\ fact'[j] = fact[j] /\ link'[j] = link[j]
                                     /\ shown'[j] = shown[j] /\ label'[j] = label[j]
           /\ UNCHANGED <<fixed, restored, tombs, cause, mishaps, todo>>
<1>1. First(todo) \in Id /\ First(todo) \in 0..MaxId /\ Machine \in Place
  BY LessonsAssumption DEF Copying, LessonsInv, LessonsTypeOK, Id, Machine, Place
<1>2. fact[First(todo)] \in Fact /\ "machine" \in Labels
  BY <1>1 DEF LessonsInv, LessonsTypeOK, Labels
<1> QED
  BY SMTT(20), <1>1, <1>2, MintsIs DEF Copying, words

LEMMA LearningIs ==
  ASSUME LessonsInv, NEW f \in Fact, NEW p \in Place, Learning(f, p)
  PROVE  \E n \in Id :
           /\ shown[n] = "none" /\ home'[n] = p /\ fact'[n] = f /\ link'[n] = 0
           /\ shown'[n] = "live" /\ label'[n] = (IF p = Machine THEN "machine" ELSE "project")
           /\ \A j \in Id : j # n => /\ home'[j] = home[j] /\ fact'[j] = fact[j] /\ link'[j] = link[j]
                                     /\ shown'[j] = shown[j] /\ label'[j] = label[j]
           /\ UNCHANGED <<fixed, restored, tombs, cause, mishaps>>
<1>1. 0 \in 0..MaxId /\ (IF p = Machine THEN "machine" ELSE "project") \in Labels
  BY LessonsAssumption DEF Labels
<1> QED
  BY <1>1, MintsIs DEF Learning, words

(***************************************************************************)
(* The records                                                             *)
(***************************************************************************)
LEMMA RecordsStep ==
  ASSUME LessonsInv, Next
  PROVE  Records'
<1>1. Records /\ LessonsTypeOK
  BY DEF LessonsInv
<1>2. \A t \in tombs : t.on \in Id /\ t = [on |-> t.on, run |-> t.run, why |-> t.why]
  BY <1>1 DEF LessonsTypeOK
<1>3. \A c \in Id : link[c] # 0 => link[c] \in Id
  BY <1>1, LessonsAssumption DEF LessonsTypeOK, Id
<1>4. CASE Minds
  <2>1. UNCHANGED <<home, fact, link, shown, label, fixed, restored, tombs, cause>>
    BY <1>4, MindsOnly DEF pages, words
  <2> QED
    BY <1>1, <2>1 DEF Records
<1>5. ASSUME NEW i \in Id, NEW why \in {"duplicate", "judged", "moved", "returned"}, NEW run \in Nat,
             Withdrawing(i, why, run)
      PROVE  Records'
  <2> DEFINE tomb == [on |-> i, run |-> run, why |-> why]
  <2>1. /\ \A j \in Id : j # i => shown'[j] = shown[j]
        /\ shown'[i] \in {"forgotten", "cleaned"}
        /\ tombs' = tombs \/ (home[i] # Machine /\ tombs' = tombs \cup {tomb})
        /\ UNCHANGED <<home, fact, link, label, fixed, restored>>
    BY <1>5, WithdrawingIs
  <2>2. IsFiniteSet({t.run : t \in tombs'})
    <3>1. {t.run : t \in tombs'} \in {{t.run : t \in tombs}, {t.run : t \in tombs} \cup {run}}
      BY <2>1
    <3> QED
      BY <1>1, <3>1, FS_AddElement DEF Records
  <2>3. \A t \in tombs' : home[t.on] # Machine /\ shown'[t.on] # "none" /\ (shown'[t.on] = "live" => t.on \in restored)
    BY <1>1, <1>2, <2>1 DEF Records
  <2>4. \A c \in Id : link[c] # 0 => shown'[c] # "none" /\ home[c] = Machine /\ shown'[link[c]] # "none"
    BY <1>1, <1>3, <2>1 DEF Records
  <2> QED
    BY <2>1, <2>2, <2>3, <2>4 DEF Records
<1>6. CASE Copying
  <2>1. First(todo) \in Id /\ shown[First(todo)] # "none"
    BY <1>1, <1>6 DEF Copying, LessonsInv, InHand, LessonsTypeOK
  <2>2. 0 \notin Id
    BY DEF Id
  <2> QED
    BY <1>1, <1>2, <1>3, <1>6, <2>1, <2>2, CopyingIs DEF Records
<1>7. ASSUME NEW f \in Fact, NEW p \in Place, Learning(f, p) PROVE Records'
  <2>1. PICK n \in Id : /\ shown[n] = "none" /\ link'[n] = 0 /\ shown'[n] = "live" /\ UNCHANGED <<restored, tombs>>
                        /\ \A j \in Id : j # n => home'[j] = home[j] /\ link'[j] = link[j] /\ shown'[j] = shown[j]
    BY <1>7, LearningIs
  <2> QED
    BY <1>1, <1>2, <1>3, <2>1 DEF Records
<1>8. CASE Marking
  BY <1>1, <1>8 DEF Marking, pages, words, Records
<1>9. CASE Brings
  <2>1. First(todo) \in Id
    BY <1>1, <1>9, InHandIsThere DEF Brings, LessonsTypeOK
  <2>2. /\ UNCHANGED <<home, fact, link, tombs>>
        /\ \A j \in Id : j # First(todo) => shown'[j] = shown[j]
        /\ restored \subseteq restored'
        /\ shown'[First(todo)] = shown[First(todo)] \/ (shown'[First(todo)] = "live" /\ First(todo) \in restored')
    BY <1>1, <1>9, <2>1 DEF Brings, pages, LessonsTypeOK
  <2> QED
    BY <1>1, <1>2, <1>3, <2>1, <2>2 DEF Records
<1>10. ASSUME NEW i \in Id, Forgets(i) PROVE Records'
  <2>1. /\ UNCHANGED <<home, fact, link, tombs, restored>> /\ shown'[i] = "forgotten"
        /\ \A j \in Id : j # i => shown'[j] = shown[j]
    BY <1>1, <1>10 DEF Forgets, pages, words, LessonsTypeOK
  <2> QED
    BY <1>1, <1>2, <1>3, <2>1 DEF Records
<1>11. ASSUME NEW i \in Id, Corrects(i) PROVE Records'
  BY <1>1, <1>11 DEF Corrects, pages, Records
<1> QED
  BY <1>4, <1>5, <1>6, <1>7, <1>8, <1>9, <1>10, <1>11, NextIsOneOf, TouchesAre

(***************************************************************************)
(* What tells a fact                                                       *)
(***************************************************************************)
\* Whoever is withdrawn was standing, and what stands beside it.
LEMMA WithdrawnStood ==
  ASSUME LessonsInv, NEW i \in Id, NEW why \in {"duplicate", "judged", "moved", "returned"}, NEW run \in Nat,
         Withdrawing(i, why, run)
  PROVE  /\ Standing(i)
         /\ why = "duplicate" => \E s \in Id \ {i} : Standing(s) /\ home[s] = home[i] /\ fact[s] = fact[i]
         /\ why = "judged" => home[i] # Machine
         /\ why = "moved" => /\ home[i] # Machine /\ run # 0
                             /\ \E c \in Id : Standing(c) /\ home[c] = Machine /\ fact[c] = fact[i]
         /\ why = "returned" => /\ home[i] = Machine /\ todo = {} /\ at = "bring"
                                /\ \E b : [on |-> b, run |-> cur.run, why |-> "moved"] \in tombs
<1>1. InHand /\ Bringing /\ Turns /\ LessonsTypeOK
  BY DEF LessonsInv
<1>2. CASE why = "duplicate"
  <2>1. i \in doomed /\ at = "withdraw"
    BY <1>2 DEF Withdrawing
  <2> QED
    BY <1>1, <1>2, <2>1 DEF InHand, Standing
<1>3. CASE why = "judged"
  <2>1. CASE at = "strike" /\ i \in todo
    BY <1>1, <1>3, <2>1 DEF InHand, Standing
  <2>2. CASE at = "learn" /\ i \in In(cur.project)
    BY <1>1, <1>3, <2>2 DEF Turns, In, Live, Standing, Machine
  <2> QED
    BY <1>3, <2>1, <2>2 DEF Withdrawing
<1>4. CASE why = "moved"
  <2>1. i = First(todo) /\ i \in todo /\ at = "retire" /\ run # 0
    BY <1>4 DEF Withdrawing
  <2> QED
    BY <1>1, <1>4, <2>1 DEF InHand, Standing
<1>5. CASE why = "returned"
  <2>1. at = "bring" /\ todo = {} /\ i \in CopiesOf(back) \cap Live
    BY <1>5 DEF Withdrawing
  <2>2. home[i] = Machine /\ link[i] \in back /\ shown[i] = "live"
    BY <2>1 DEF CopiesOf, Live
  <2> QED
    BY <1>1, <1>5, <2>1, <2>2 DEF Bringing, Standing
<1> QED
  BY <1>2, <1>3, <1>4, <1>5

DuplicateTold(i) == home[i] # Machine /\ Gone(i, {"duplicate"}) =>
  \E j \in Id : home[j] = home[i] /\ fact[j] = fact[i] /\ (Standing(j) \/ Gone(j, {"moved", "judged"}))
MoveTold(i) == home[i] # Machine /\ Gone(i, {"moved"}) =>
  \E j \in Id : home[j] = Machine /\ fact[j] = fact[i] /\ Standing(j)
MoveRecorded(i) == home[i] # Machine /\ Gone(i, {"moved"}) => \E t \in tombs : t.on = i /\ t.why = "moved"

LEMMA ToldStep ==
  ASSUME LessonsInv, Next
  PROVE  Told'
<1>1. /\ \A i \in Id : DuplicateTold(i) /\ MoveRecorded(i)
      /\ MoveIsOneRun => \A i \in Id : MoveTold(i)
      /\ LessonsTypeOK
  BY DEF LessonsInv, Told, DuplicateTold, MoveTold, MoveRecorded
<1>2. SUFFICES /\ \A i \in Id : DuplicateTold(i)' /\ MoveRecorded(i)'
               /\ MoveIsOneRun' => \A i \in Id : MoveTold(i)'
  BY DEF Told, DuplicateTold, MoveTold, MoveRecorded
<1>3. tombs \subseteq tombs' => (MoveIsOneRun' => MoveIsOneRun)
  BY DEF MoveIsOneRun
<1>4. ASSUME NEW i \in Id, NEW why \in {"duplicate", "judged", "moved", "returned"}, NEW run \in Nat,
             Withdrawing(i, why, run)
      PROVE  /\ \A k \in Id : DuplicateTold(k)' /\ MoveRecorded(k)'
             /\ MoveIsOneRun' => \A k \in Id : MoveTold(k)'
  <2>1. /\ \A j \in Id : j # i => shown'[j] = shown[j] /\ cause'[j] = cause[j]
        /\ shown'[i] = (IF shown[i] = "forgotten" THEN "forgotten" ELSE "cleaned") /\ cause'[i] = why
        /\ tombs' = IF run = 0 \/ home[i] = Machine THEN tombs
                    ELSE tombs \cup {[on |-> i, run |-> run, why |-> why]}
        /\ UNCHANGED <<home, fact>>
    BY <1>4, WithdrawingIs
  <2>2. /\ Standing(i)
        /\ why = "duplicate" => \E s \in Id \ {i} : Standing(s) /\ home[s] = home[i] /\ fact[s] = fact[i]
        /\ why = "judged" => home[i] # Machine
        /\ why = "moved" => /\ home[i] # Machine /\ run # 0
                            /\ \E c \in Id : Standing(c) /\ home[c] = Machine /\ fact[c] = fact[i]
        /\ why = "returned" => /\ home[i] = Machine /\ todo = {} /\ at = "bring"
                               /\ \E b : [on |-> b, run |-> cur.run, why |-> "moved"] \in tombs
    BY <1>4, WithdrawnStood
  <2>3. \A j \in Id : j # i => (Standing(j)' <=> Standing(j)) /\ (\A w : Gone(j, w)' <=> Gone(j, w))
    BY <2>1 DEF Standing, Gone
  <2>4. Standing(i)' \/ Gone(i, {why})'
    BY <2>1 DEF Standing, Gone
  <2>5. \A w : ~Gone(i, w)
    BY <2>2 DEF Standing, Gone
  <2>6. \A k \in Id : Gone(k, {"moved"})' => Gone(k, {"moved"}) \/ (k = i /\ why = "moved")
    BY <2>1, <2>3 DEF Gone
  <2>7. \A k \in Id : Gone(k, {"duplicate"})' => Gone(k, {"duplicate"}) \/ (k = i /\ why = "duplicate")
    BY <2>1, <2>3 DEF Gone
  <2>8. ASSUME NEW k \in Id, home[k] # Machine, Gone(k, {"duplicate"})'
        PROVE  \E j \in Id : home[j] = home[k] /\ fact[j] = fact[k] /\ (Standing(j) \/ Gone(j, {"moved", "judged"}))'
    <3>1. CASE k = i
      BY <2>2, <2>3, <2>5, <2>7, <2>8, <3>1
    <3>2. CASE k # i
      <4>1. PICK j \in Id : home[j] = home[k] /\ fact[j] = fact[k] /\ (Standing(j) \/ Gone(j, {"moved", "judged"}))
        BY <1>1, <2>3, <2>8, <3>2 DEF DuplicateTold
      <4>2. CASE j # i
        BY <2>3, <4>1, <4>2
      <4>3. CASE j = i
        <5>1. CASE why = "duplicate"
          <6>1. PICK s \in Id \ {i} : Standing(s) /\ home[s] = home[i] /\ fact[s] = fact[i]
            BY <2>2, <5>1
          <6> QED
            BY <2>3, <4>1, <4>3, <6>1
        <5>2. CASE why \in {"judged", "moved"}
          <6>1. (Standing(i) \/ Gone(i, {"moved", "judged"}))'
            BY <2>4, <5>2 DEF Gone
          <6> QED
            BY <4>1, <4>3, <6>1
        <5>3. CASE why = "returned"
          BY <2>2, <2>8, <4>1, <4>3, <5>3
        <5> QED
          BY <5>1, <5>2, <5>3
      <4> QED
        BY <4>2, <4>3
    <3> QED
      BY <3>1, <3>2
  <2>9. ASSUME MoveIsOneRun, NEW k \in Id, home[k] # Machine, Gone(k, {"moved"})'
        PROVE  \E j \in Id : home[j] = Machine /\ fact[j] = fact[k] /\ Standing(j)'
    <3>1. CASE Gone(k, {"moved"})
      <4>1. PICK j \in Id : home[j] = Machine /\ fact[j] = fact[k] /\ Standing(j)
        BY <1>1, <2>9, <3>1 DEF MoveTold
      <4>2. CASE j # i
        BY <2>3, <4>1, <4>2
      <4>3. CASE j = i
        <5>1. CASE why = "duplicate"
          BY <2>2, <2>3, <4>1, <4>3, <5>1
        <5>2. CASE why = "returned"
          <6>1. PICK b : [on |-> b, run |-> cur.run, why |-> "moved"] \in tombs
            BY <2>2, <5>2
          <6>2. PICK t \in tombs : t.on = k /\ t.why = "moved"
            BY <1>1, <2>9, <3>1 DEF MoveRecorded
          <6>3. t.run = cur.run
            BY <2>9, <6>1, <6>2 DEF MoveIsOneRun
          <6>4. shown[k] # "cleaned"
            BY <2>2, <5>2, <6>2, <6>3 DEF LessonsInv, Bringing
          <6> QED
            BY <3>1, <6>4 DEF Gone
        <5> QED
          BY <2>2, <4>1, <4>3, <5>1, <5>2
      <4> QED
        BY <4>2, <4>3
    <3>2. CASE ~Gone(k, {"moved"})
      <4>1. k = i /\ why = "moved"
        BY <2>6, <2>9, <3>2
      <4>2. PICK c \in Id : Standing(c) /\ home[c] = Machine /\ fact[c] = fact[i]
        BY <2>2, <4>1
      <4> QED
        BY <2>3, <2>9, <4>1, <4>2
    <3> QED
      BY <3>1, <3>2
  <2>10. ASSUME NEW k \in Id, home[k] # Machine, Gone(k, {"moved"})'
         PROVE  \E t \in tombs' : t.on = k /\ t.why = "moved"
    <3>1. CASE Gone(k, {"moved"})
      BY <1>1, <2>1, <2>10, <3>1 DEF MoveRecorded
    <3>2. CASE k = i /\ why = "moved"
      <4> DEFINE tomb == [on |-> i, run |-> run, why |-> why]
      <4>1. tomb \in tombs'
        BY <2>1, <2>2, <3>2
      <4>2. tomb.on = k /\ tomb.why = "moved"
        BY <3>2
      <4> QED
        BY <4>1, <4>2
    <3> QED
      BY <2>6, <2>10, <3>1, <3>2
  <2>11. \A k \in Id : home'[k] = home[k] /\ fact'[k] = fact[k]
    BY <2>1
  <2>12. tombs \subseteq tombs'
    BY <2>1
  <2> QED
    BY <1>3, <2>1, <2>8, <2>9, <2>10, <2>12 DEF DuplicateTold, MoveTold, MoveRecorded
\* Other steps withdraw nothing, and whoever stood stands.
<1>5. ASSUME tombs' = tombs,
             \A k \in Id : /\ \A w : Gone(k, w)' => Gone(k, w)
                           /\ shown[k] # "none" => /\ home'[k] = home[k] /\ fact'[k] = fact[k]
                                                   /\ Standing(k) => Standing(k)'
                                                   /\ \A w : Gone(k, w) => Gone(k, w)' \/ Standing(k)'
      PROVE  /\ \A k \in Id : DuplicateTold(k)' /\ MoveRecorded(k)'
             /\ MoveIsOneRun' => \A k \in Id : MoveTold(k)'
  <2>1. \A k \in Id : Standing(k) \/ (\E w : Gone(k, w)) => shown[k] # "none"
    BY DEF Standing, Gone
  <2>2. ASSUME NEW k \in Id PROVE DuplicateTold(k)'
    BY <1>1, <1>5, <2>1, <2>2 DEF DuplicateTold
  <2>3. ASSUME NEW k \in Id PROVE MoveRecorded(k)'
    BY <1>1, <1>5, <2>1, <2>3 DEF MoveRecorded
  <2>4. ASSUME MoveIsOneRun, NEW k \in Id PROVE MoveTold(k)'
    BY <1>1, <1>5, <2>1, <2>4 DEF MoveTold
  <2>5. MoveIsOneRun' => MoveIsOneRun
    BY <1>3, <1>5
  <2> QED
    BY <2>2, <2>3, <2>4, <2>5
<1>6. CASE Minds
  <2>1. UNCHANGED <<home, fact, shown, tombs, cause>>
    BY <1>6, MindsOnly DEF pages
  <2> QED
    BY <1>5, <2>1 DEF Standing, Gone
<1>7. CASE Copying
  <2>1. PICK n \in Id : /\ shown[n] = "none" /\ shown'[n] = "live" /\ UNCHANGED <<tombs, cause>>
                        /\ \A j \in Id : j # n => home'[j] = home[j] /\ fact'[j] = fact[j] /\ shown'[j] = shown[j]
    BY <1>7, CopyingIs
  <2> QED
    BY <1>5, <2>1 DEF Standing, Gone
<1>8. ASSUME NEW f \in Fact, NEW p \in Place, Learning(f, p)
      PROVE  /\ \A k \in Id : DuplicateTold(k)' /\ MoveRecorded(k)'
             /\ MoveIsOneRun' => \A k \in Id : MoveTold(k)'
  <2>1. PICK n \in Id : /\ shown[n] = "none" /\ shown'[n] = "live" /\ UNCHANGED <<tombs, cause>>
                        /\ \A j \in Id : j # n => home'[j] = home[j] /\ fact'[j] = fact[j] /\ shown'[j] = shown[j]
    BY <1>8, LearningIs
  <2> QED
    BY <1>5, <2>1 DEF Standing, Gone
<1>9. CASE Marking \/ \E i \in Id : Corrects(i)
  <2>1. UNCHANGED <<home, fact, shown, tombs, cause>>
    BY <1>9 DEF Marking, Corrects, pages
  <2> QED
    BY <1>5, <2>1 DEF Standing, Gone
<1>10. CASE Brings \/ \E i \in Id : Forgets(i)
  <2>1. /\ UNCHANGED <<home, fact, tombs, cause>>
        /\ \E i : shown' \in {shown, [shown EXCEPT ![i] = "live"], [shown EXCEPT ![i] = "forgotten"]}
    BY <1>10 DEF Brings, Forgets, pages, ghosts
  <2>2. \A k \in Id : shown'[k] \in {shown[k], "live", "forgotten"}
    BY <1>1, <2>1 DEF LessonsTypeOK
  <2> QED
    BY <1>5, <2>1, <2>2 DEF Standing, Gone
<1> QED
  BY <1>4, <1>6, <1>7, <1>8, <1>9, <1>10, NextIsOneOf, TouchesAre

(***************************************************************************)
(* A restore in hand, and lessons that read once                           *)
(***************************************************************************)
\* Of the quiet steps, those amid a retirement or a restore.
LEMMA MindsAmid ==
  ASSUME Minds, at \in {"retire", "bring"}
  PROVE  Killed \/ StoreFails \/ (CallAges /\ UNCHANGED <<at, job, cur, todo, back>>)
BY DEF Minds, Starting, Passes, Dailies, Gathers, Decides, GroupsEnd, Asks, NoAnswer, Answers, SavesBatch,
       SavesFailure, Stops, NextProject, Finishes, SweepEnds, SavesSweep, Moves, Scans, SavesMove, MoveEnds,
       MoveBreaks, Visits, Leaves, LearnsNothing, Restores, CallAges, memory

LEMMA BringingStep ==
  ASSUME LessonsInv, Next
  PROVE  Bringing'
<1>1. Bringing /\ LessonsTypeOK /\ Records
  BY DEF LessonsInv
<1>2. SUFFICES ASSUME at' = "bring" PROVE Bringing'
  BY DEF Bringing
<1>3. CASE Minds
  <2>1. at = "off" \/ at = "bring"
    BY <1>2, <1>3, MindsTurn
  <2>2. CASE at = "bring"
    <3>1. UNCHANGED <<cur, todo, back, shown, tombs>>
      BY <1>2, <1>3, <2>2, MindsAmid, MindsOnly DEF Killed, StoreFails, StopsFor
    <3> QED
      BY <1>1, <2>2, <3>1 DEF Bringing
  <2>3. CASE at = "off"
    <3>1. PICK r \in {t.run : t \in tombs} : Restores(r)
      BY <1>2, <1>3, <2>3 DEF Minds, Starting, Passes, Dailies, Gathers, Decides, GroupsEnd, Asks, NoAnswer, Answers,
         SavesBatch, SavesFailure, Stops, NextProject, Finishes, SweepEnds, SavesSweep, Moves, Scans, SavesMove,
         MoveEnds, MoveBreaks, Visits, Leaves, LearnsNothing, Killed, StoreFails, StopsFor, CallAges, memory
    <3>2. /\ cur'.run = r /\ todo' = {t.on : t \in {u \in tombs : u.run = r}} /\ back' = {} /\ UNCHANGED <<shown, tombs>>
      BY <3>1 DEF Restores, Blank
    <3> QED
      BY <3>2 DEF Bringing
  <2> QED
    BY <2>1, <2>2, <2>3
<1>4. ASSUME NEW i \in Id, NEW why \in {"duplicate", "judged", "moved", "returned"}, NEW run \in Nat,
             Withdrawing(i, why, run)
      PROVE  Bringing'
  <2>1. at = "bring" /\ SendsHome /\ why = "returned" /\ i \in CopiesOf(back) /\ back' = back /\ todo' = todo /\ cur' = cur
    BY <1>2, <1>4 DEF Withdrawing, Withdraws, Strikes, RetiresOld, Rechecks
  <2>2. /\ tombs' = tombs /\ \A j \in Id : j # i => shown'[j] = shown[j]
    BY <1>4, <2>1, WithdrawingIs DEF Withdrawing
  <2>3. \A t \in tombs : t.on # i /\ t.on \in Id
    BY <1>1, <2>1 DEF Records, CopiesOf, LessonsTypeOK
  <2> QED
    BY <1>1, <2>1, <2>2, <2>3 DEF Bringing
<1>5. CASE Brings
  <2>1. First(todo) \in Id /\ at = "bring"
    BY <1>1, <1>5, InHandIsThere DEF Brings, LessonsTypeOK
  <2>2. /\ todo' = todo \ {First(todo)} /\ UNCHANGED <<tombs, cur>>
        /\ \A j \in Id : j # First(todo) => shown'[j] = shown[j]
        /\ shown'[First(todo)] # "cleaned"
        /\ \A b \in back' : b \in back \/ [on |-> b, run |-> cur.run, why |-> "moved"] \in tombs
    BY <1>1, <1>5, <2>1 DEF Brings, LessonsTypeOK
  <2>3. \A t \in tombs : t.on \in Id
    BY <1>1 DEF LessonsTypeOK
  <2> QED
    BY <1>1, <2>1, <2>2, <2>3 DEF Bringing
<1>6. ASSUME NEW i \in Id, Forgets(i) \/ Corrects(i) PROVE Bringing'
  <2>1. UNCHANGED <<at, cur, todo, back, tombs>> /\ shown' \in {shown, [shown EXCEPT ![i] = "forgotten"]}
    BY <1>6 DEF Forgets, Corrects, memory
  <2>2. \A t \in tombs : shown'[t.on] \in {shown[t.on], "forgotten"}
    BY <1>1, <2>1 DEF LessonsTypeOK
  <2> QED
    BY <1>1, <1>2, <2>1, <2>2 DEF Bringing
<1>7. CASE Copying \/ (\E f \in Fact, p \in Place : Learning(f, p)) \/ Marking
  BY <1>2, <1>7 DEF Copying, Learning, Marking, LabelsOne, Learns
<1> QED
  BY <1>3, <1>4, <1>5, <1>6, <1>7, NextIsOneOf, TouchesAre

ReadsOnce(c, i) == link[c] = i /\ shown[c] = "live" /\ {c, i} \cap fixed = {} =>
  \/ shown[i] = "forgotten"
  \/ shown[i] = "cleaned" /\ \A t \in tombs : t.on = i => t.why = "moved"
  \/ at = "retire" /\ i = First(todo)
  \/ at = "bring" /\ i \in back

LEMMA ReadOnceStep ==
  ASSUME LessonsInv, Next
  PROVE  ReadOnce'
<1>1. LessonsTypeOK /\ Records /\ InHand /\ Bringing
  BY DEF LessonsInv
<1>2. mishaps \in Nat
  BY <1>1, LessonsAssumption DEF LessonsTypeOK
<1>3. SUFFICES ASSUME mishaps = 0, mishaps' = 0, NEW c \in Id, NEW i \in Id PROVE ReadsOnce(c, i)'
  <2>1. mishaps' = 0 => mishaps = 0
    <3>1. mishaps' \in {mishaps, mishaps + 1}
      <4>1. CASE Minds
        BY <4>1 DEF Minds, Starting, Passes, Dailies, Gathers, Decides, GroupsEnd, Asks, NoAnswer, Answers, SavesBatch,
           SavesFailure, Stops, NextProject, Finishes, SweepEnds, SavesSweep, Moves, Scans, SavesMove, MoveEnds,
           MoveBreaks, Settles, Visits, Leaves, LearnsNothing, Restores, Killed, StoreFails, StopsFor, CallAges, Rests, ghosts
      <4>2. CASE Touches
        BY <4>2 DEF Touches, LabelsOne, Copies, Learns, Withdraws, Withdraw, Strikes, RetiresOld, Rechecks, Brings,
           SendsHome, Rests, Forgets, Corrects, ghosts
      <4> QED
        BY <4>1, <4>2, NextIsOneOf
    <3> QED
      BY <1>2, <3>1
  <2> QED
    BY <2>1 DEF ReadOnce, ReadsOnce
<1>4. ReadsOnce(c, i)
  BY <1>3 DEF LessonsInv, ReadOnce, ReadsOnce
<1>5. link[c] = i => home[c] = Machine /\ shown[c] # "none" /\ shown[i] # "none" /\ i # 0
  BY <1>1 DEF Records, Id
<1>6. CASE Minds
  <2>1. UNCHANGED <<link, shown, fixed, tombs>>
    BY <1>6, MindsOnly DEF pages, words
  <2>2. ~Killed /\ ~StoreFails
    BY <1>2, <1>3 DEF Killed, StoreFails, StopsFor
  <2>3. at \in {"retire", "bring"} => UNCHANGED <<at, todo, back>>
    BY <1>6, <2>2, MindsAmid
  <2> QED
    BY <1>4, <2>1, <2>3 DEF ReadsOnce
<1>7. ASSUME NEW w \in Id, NEW why \in {"duplicate", "judged", "moved", "returned"}, NEW run \in Nat,
             Withdrawing(w, why, run)
      PROVE  ReadsOnce(c, i)'
  <2>1. /\ \A j \in Id : j # w => shown'[j] = shown[j]
        /\ shown'[w] = (IF shown[w] = "forgotten" THEN "forgotten" ELSE "cleaned")
        /\ \A t \in tombs' : t \in tombs \/ (t.on = w /\ t.why = why)
        /\ UNCHANGED <<link, fixed>>
    BY <1>7, WithdrawingIs
  <2>2. shown[w] \in {"live", "forgotten"}
    BY <1>7, WithdrawnStood DEF Standing
  <2>3. CASE at = "retire" /\ i = First(todo)
    <3>1. w = i /\ why = "moved" /\ \A t \in tombs : t.on # i
      BY <1>1, <1>7, <2>3 DEF Withdrawing, InHand
    <3> QED
      BY <2>1, <3>1 DEF ReadsOnce
  <2>4. CASE at = "bring" /\ i \in back
    <3>1. at' = "bring" /\ back' = back
      BY <1>7, <2>4 DEF Withdrawing
    <3> QED
      BY <2>4, <3>1 DEF ReadsOnce
  <2> QED
    BY <1>4, <2>1, <2>2, <2>3, <2>4 DEF ReadsOnce
<1>8. CASE Copying
  <2>1. PICK n \in Id : /\ shown[n] = "none" /\ link'[n] = First(todo) /\ UNCHANGED <<fixed, tombs, todo>>
                        /\ \A j \in Id : j # n => link'[j] = link[j] /\ shown'[j] = shown[j]
    BY <1>8, CopyingIs
  <2>2. at = "copy" /\ at' = "retire"
    BY <1>8 DEF Copying
  <2> QED
    BY <1>4, <1>5, <2>1, <2>2 DEF ReadsOnce
<1>9. ASSUME NEW f \in Fact, NEW p \in Place, Learning(f, p) PROVE ReadsOnce(c, i)'
  <2>1. PICK n \in Id : /\ shown[n] = "none" /\ link'[n] = 0 /\ UNCHANGED <<fixed, tombs>>
                        /\ \A j \in Id : j # n => link'[j] = link[j] /\ shown'[j] = shown[j]
    BY <1>9, LearningIs
  <2>2. at = "learn" /\ i # 0
    BY <1>9 DEF Learning, Id
  <2> QED
    BY <1>4, <1>5, <2>1, <2>2 DEF ReadsOnce
<1>10. CASE Marking
  <2>1. UNCHANGED <<link, shown, fixed, tombs>>
    BY <1>10 DEF Marking, pages, words
  <2>2. at # "retire"
    BY <1>10 DEF Marking, LabelsOne, Learns
  <2>3. ASSUME at = "bring", i \in back, link[c] = i, shown[c] = "live", {c, i} \cap fixed = {} PROVE FALSE
    <3>1. (CopiesOf(back) \cap Live) \ fixed = {}
      BY <1>10, <2>3 DEF Marking, LabelsOne, Learns
    <3> QED
      BY <1>5, <2>3, <3>1 DEF CopiesOf, Live
  <2> QED
    BY <1>4, <2>1, <2>2, <2>3 DEF ReadsOnce
<1>11. CASE Brings
  <2> DEFINE b == First(todo)
  <2>1. b \in todo /\ b \in Id /\ at = "bring" /\ at' = "bring" /\ UNCHANGED <<link, fixed, tombs>>
    BY <1>1, <1>11, InHandIsThere DEF Brings, LessonsTypeOK, pages
  <2>2. /\ \A j \in Id : j # b => shown'[j] = shown[j]
        /\ shown[b] # "cleaned" => shown'[b] = shown[b]
        /\ back \subseteq back'
        /\ shown[b] = "cleaned" /\ [on |-> b, run |-> cur.run, why |-> "moved"] \in tombs => b \in back'
    BY <1>1, <1>11, <2>1 DEF Brings, LessonsTypeOK
  <2> HIDE DEF b
  <2>3. PICK t \in tombs : t.on = b /\ t.run = cur.run
    BY <1>1, <2>1 DEF Bringing
  <2>4. t = [on |-> b, run |-> cur.run, why |-> t.why] /\ home[b] # Machine
    BY <1>1, <2>3 DEF LessonsTypeOK, Records
  <2>5. CASE link[c] = i /\ shown'[c] = "live" /\ {c, i} \cap fixed = {}
    <3>1. c # b /\ shown[c] = "live"
      BY <1>5, <2>2, <2>4, <2>5
    <3>2. CASE i = b /\ shown[i] = "cleaned"
      <4>1. (\A u \in tombs : u.on = i => u.why = "moved") \/ i \in back
        BY <1>4, <2>1, <2>5, <3>1, <3>2 DEF ReadsOnce
      <4>2. i \in back'
        BY <2>2, <2>3, <2>4, <3>2, <4>1
      <4> QED
        BY <2>1, <4>2 DEF ReadsOnce
    <3>3. CASE i # b \/ shown[i] # "cleaned"
      <4>1. shown'[i] = shown[i]
        BY <2>2, <3>3
      <4> QED
        BY <1>4, <2>1, <2>2, <2>5, <3>1, <4>1 DEF ReadsOnce
    <3> QED
      BY <3>2, <3>3
  <2>6. CASE ~(link[c] = i /\ shown'[c] = "live" /\ {c, i} \cap fixed = {})
    BY <2>1, <2>6 DEF ReadsOnce
  <2> QED
    BY <2>5, <2>6
<1>12. ASSUME NEW k \in Id, Forgets(k) PROVE ReadsOnce(c, i)'
  <2>1. /\ UNCHANGED <<link, fixed, tombs, at, todo, back>> /\ shown'[k] = "forgotten"
        /\ \A j \in Id : j # k => shown'[j] = shown[j]
    BY <1>1, <1>12 DEF Forgets, pages, words, memory, LessonsTypeOK
  <2> QED
    BY <1>4, <2>1 DEF ReadsOnce
<1>13. ASSUME NEW k \in Id, Corrects(k) PROVE ReadsOnce(c, i)'
  <2>1. UNCHANGED <<link, shown, tombs, at, todo, back>> /\ fixed \subseteq fixed'
    BY <1>13 DEF Corrects, pages, memory
  <2> QED
    BY <1>4, <2>1 DEF ReadsOnce
<1> QED
  BY <1>6, <1>7, <1>8, <1>9, <1>10, <1>11, <1>12, <1>13, NextIsOneOf, TouchesAre

(***************************************************************************)
(* Lessons in hand                                                         *)
(***************************************************************************)
LEMMA InHandMinds ==
  ASSUME LessonsInv, Minds
  PROVE  InHand'
<1>1. InHand /\ LessonsTypeOK /\ Turns /\ Records
  BY DEF LessonsInv
<1>2. UNCHANGED <<home, fact, shown, restored, tombs>>
  BY MindsOnly DEF pages, words
<1>3. CASE Gathers
  <2>1. /\ at' = "group" /\ todo' \subseteq In(Here) /\ doomed' = {} /\ Here' = Here
    BY <1>1, <1>3 DEF Gathers, InHand, Here
  <2> QED
    BY <1>2, <2>1 DEF InHand, In, Live
<1>4. ASSUME NEW f \in Fact, Decides(f) PROVE InHand'
  <2> DEFINE S == Twins(f)
  <2>1. /\ S \subseteq todo /\ \A i \in S : fact[i] = f /\ home[i] = Here /\ i \in Id /\ shown[i] \in {"live", "forgotten"}
        /\ doomed = {} /\ Here' = Here /\ at = "group"
    BY <1>1, <1>4 DEF Twins, Decides, InHand, LessonsTypeOK, Here
  <2>2. S # {}
    <3>1. Cardinality(S) >= 2
      BY <1>4 DEF Decides
    <3>2. Cardinality({}) = 0
      BY FS_EmptySet
    <3>3. CASE S = {}
      <4>1. Cardinality(S) = 0
        BY <3>2, <3>3
      <4> QED
        BY <3>1, <4>1
    <3> QED
      BY <3>3
  <2>3. Survivors(S) \subseteq S
    <3>1. S \cap fixed # {} => First(S \cap fixed) \in S \cap fixed
      BY <2>1, FirstId
    <3>2. First(S) \in S
      BY <2>1, <2>2, FirstId
    <3> QED
      BY <3>1, <3>2 DEF Survivors
  <2>4. /\ todo' = todo \ S /\ stood' = S \cap fixed
        /\ \E s \in S : doomed' = IF S \cap restored # {} THEN {} ELSE S \ ({s} \cup fixed)
        /\ at' = IF doomed' = {} THEN "group" ELSE "withdraw"
    BY <1>4, <2>1, <2>3 DEF Decides
  <2> HIDE DEF S
  <2>5. PICK s \in S : doomed' = {} \/ (S \cap restored = {} /\ doomed' = S \ ({s} \cup fixed))
    BY <2>4
  <2>6. CASE doomed' = {}
    BY <1>1, <1>2, <2>1, <2>4, <2>6 DEF InHand
  <2>7. CASE doomed' # {}
    <3>1. at' = "withdraw" /\ doomed' \subseteq S /\ doomed' \cap (stood' \cup restored') = {} /\ doomed' \cap todo' = {}
      BY <1>2, <2>4, <2>5, <2>7
    <3>2. \A i \in doomed' : /\ s \in Id \ doomed' /\ shown'[s] \in {"live", "forgotten"}
                             /\ home'[s] = home'[i] /\ fact'[s] = fact'[i]
      BY <1>2, <2>1, <2>5
    <3>3. \A i \in todo' \cup doomed' : shown'[i] \in {"live", "forgotten"}
      BY <1>1, <1>2, <2>1, <2>4, <3>1 DEF InHand
    <3>4. \A i \in todo' : home'[i] = Here'
      BY <1>1, <1>2, <2>1, <2>4 DEF InHand
    <3> QED
      BY <2>7, <3>1, <3>2, <3>3, <3>4 DEF InHand
  <2> QED
    BY <2>6, <2>7
<1>5. CASE GroupsEnd
  <2>1. at' \in {"batch", "upkeep", "learn"} /\ doomed' = {} /\ stood' = {}
    <3>1. at' \in {"batch", "upkeep", "learn"}
      BY <1>1, <1>5, Zenon DEF GroupsEnd, Turns, ToUpkeep
    <3>2. doomed' = doomed /\ at = "group" /\ stood' = {}
      BY <1>5 DEF GroupsEnd, Rests
    <3> QED
      BY <1>1, <3>1, <3>2 DEF InHand
  <2> QED
    BY <2>1 DEF InHand
<1>6. CASE \E k \in 1..MaxRungs : Asks(k)
  <2>1. at = "batch" /\ at' = "asked" /\ todo' = Batched /\ Batched # {} /\ doomed' = {}
    BY <1>1, <1>6 DEF Asks, InHand
  <2>2. \A i \in Batched : shown[i] = "live" /\ home[i] # Machine
    BY <1>1, <2>1 DEF Batched, FirstOf, In, Live, Turns, Machine
  <2> QED
    BY <1>2, <2>1, <2>2 DEF InHand
<1>7. CASE NoAnswer
  <2>1. at' \in {"swept", "saving"} /\ todo' = {} /\ doomed' = {}
    BY <1>1, <1>7 DEF NoAnswer, InHand
  <2> QED
    BY <2>1 DEF InHand
<1>8. CASE \E v \in [todo -> Labels \cup {"none"}] : Answers(v)
  <2>1. PICK v \in [todo -> Labels \cup {"none"}] : Answers(v)
    BY <1>8
  <2>2. at = "asked" /\ at' = "label" /\ todo' = {i \in todo : v[i] # "none"} /\ stood' = todo \cap fixed
    BY <2>1 DEF Answers
  <2>3. doomed' \subseteq {i \in todo : v[i] = "doomed"} \ fixed
    BY <2>1 DEF Answers, Believed
  <2>4. doomed' \subseteq todo' /\ todo' \subseteq todo /\ doomed' \cap stood' = {}
    BY <2>2, <2>3
  <2>5. \A i \in todo' \cup doomed' : shown'[i] \in {"live", "forgotten"} /\ home'[i] # Machine
    BY <1>1, <1>2, <2>2, <2>4 DEF InHand
  <2> QED
    BY <2>2, <2>4, <2>5 DEF InHand
<1>9. CASE SavesBatch
  <2>1. at' = "batch" /\ doomed' = {}
    BY <1>1, <1>9 DEF SavesBatch, InHand
  <2> QED
    BY <2>1 DEF InHand
<1>10. CASE Scans
  <2>1. /\ at' = "copy" /\ doomed' = {} /\ stood' = Candidates \cap fixed
        /\ todo' \subseteq Candidates \ (restored \cup fixed)
    BY <1>1, <1>10 DEF Scans, InHand
  <2>2. \A i \in Candidates : shown[i] = "live" /\ home[i] # Machine
    BY DEF Candidates, Live
  <2>3. \A i \in todo' : \A t \in tombs : t.on # i
    BY <1>1, <2>1, <2>2 DEF Records
  <2> QED
    BY <1>2, <2>1, <2>2, <2>3 DEF InHand
<1>11. CASE \E r \in {t.run : t \in tombs} : Restores(r)
  <2>1. at' = "bring" /\ doomed' = {} /\ stood' = {}
    BY <1>1, <1>11 DEF Restores, InHand
  <2> QED
    BY <2>1 DEF InHand
<1>12. CASE Killed \/ StoreFails
  BY <1>12 DEF Killed, StoreFails, StopsFor, InHand
<1>13. CASE CallAges
  <2>1. UNCHANGED <<at, job, cur, todo, doomed, stood>>
    BY <1>13 DEF CallAges, memory, ghosts
  <2> QED
    BY <1>1, <1>2, <2>1 DEF InHand, Here
<1>14. CASE SavesMove \/ MoveEnds \/ MoveBreaks \/ Moves
  <2>1. at' \in {"scan", "upkeep", "gather"} /\ doomed' = doomed /\ at \in {"copy", "scan", "move"}
    BY <1>14 DEF SavesMove, MoveEnds, MoveBreaks, Moves, Settles, ToUpkeep
  <2> QED
    BY <1>1, <2>1 DEF InHand
<1>15. CASE Passes \/ Dailies \/ NextProject
  <2>1. at' \in {"daily", "gather", "batch", "move"} /\ doomed' = doomed /\ at \in {"pass", "daily", "batch"}
    BY <1>15, Zenon DEF Passes, Dailies, NextProject, Resumes
  <2> QED
    BY <1>1, <2>1 DEF InHand
<1>16. CASE Starting \/ SavesFailure \/ Stops \/ Finishes \/ SweepEnds \/ SavesSweep
            \/ (\E p \in 1..(Projects + 1) : Visits(p)) \/ Leaves \/ LearnsNothing
  <2>1. /\ at' \in {"pass", "upkeep", "swept", "move", "gather", "off"} /\ doomed' = doomed
        /\ at \notin {"withdraw", "label", "strike"}
    BY <1>16 DEF Starting, SavesFailure, Stops, Finishes, SweepEnds, SavesSweep, Visits, Leaves, LearnsNothing, ToUpkeep
  <2> QED
    BY <1>1, <2>1 DEF InHand
<1> QED
  BY <1>3, <1>4, <1>5, <1>6, <1>7, <1>8, <1>9, <1>10, <1>11, <1>12, <1>13, <1>14, <1>15, <1>16 DEF Minds

LEMMA InHandTouches ==
  ASSUME LessonsInv, Touches
  PROVE  InHand'
<1>1. InHand /\ LessonsTypeOK /\ Turns /\ Records
  BY DEF LessonsInv
<1>2. todo \subseteq Id /\ doomed \subseteq Id
  BY <1>1 DEF LessonsTypeOK
<1>3. ASSUME NEW w \in Id, NEW why \in {"duplicate", "judged", "moved", "returned"}, NEW run \in Nat,
             Withdrawing(w, why, run)
      PROVE  InHand'
  <2>1. /\ \A j \in Id : j # w => shown'[j] = shown[j]
        /\ \A t \in tombs' : t \in tombs \/ t.on = w
        /\ UNCHANGED <<home, fact, restored>>
    BY <1>3, WithdrawingIs
  <2>2. stood' = stood
    BY <1>3 DEF Withdrawing, Withdraw
  <2>3. CASE Withdraws
    <3>1. /\ at = "withdraw" /\ w \in doomed /\ doomed' = doomed \ {w} /\ todo' = todo /\ Here' = Here
          /\ at' = IF doomed' = {} THEN "group" ELSE "withdraw"
      BY <1>3, <2>3 DEF Withdrawing, Withdraws, Strikes, RetiresOld, Rechecks, SendsHome, Here
    <3>2. \A i \in todo' \cup doomed' : shown'[i] \in {"live", "forgotten"}
      BY <1>1, <1>2, <2>1, <3>1 DEF InHand
    <3>3. \A i \in todo' : home'[i] = Here'
      BY <1>1, <2>1, <3>1 DEF InHand
    <3>4. doomed' \cap (stood' \cup restored') = {} /\ doomed' \cap todo' = {}
      BY <1>1, <2>1, <2>2, <3>1 DEF InHand
    <3>5. \A i \in doomed' : \E s \in Id \ doomed' :
            shown'[s] \in {"live", "forgotten"} /\ home'[s] = home'[i] /\ fact'[s] = fact'[i]
      BY <1>1, <1>2, <2>1, <3>1 DEF InHand
    <3>6. CASE doomed' = {}
      BY <3>1, <3>2, <3>3, <3>6 DEF InHand
    <3>7. CASE doomed' # {}
      BY <3>1, <3>2, <3>3, <3>4, <3>5, <3>7 DEF InHand
    <3> QED
      BY <3>6, <3>7
  <2>4. CASE Strikes
    <3>1. /\ at = "strike" /\ w \in todo /\ doomed' = doomed \ {w} /\ todo' = todo \ {w} /\ at' = "label"
      BY <1>3, <2>4 DEF Withdrawing, Withdraws, Strikes, RetiresOld, Rechecks, SendsHome
    <3> QED
      BY <1>1, <1>2, <2>1, <2>2, <3>1 DEF InHand
  <2>5. CASE RetiresOld
    <3>1. /\ at = "retire" /\ w \in todo /\ doomed' = doomed /\ todo' = todo \ {w} /\ at' = "copy"
      BY <1>3, <2>5 DEF Withdrawing, Withdraws, Strikes, RetiresOld, Rechecks, SendsHome
    <3>2. doomed' = {}
      BY <1>1, <3>1 DEF InHand
    <3>3. \A i \in todo' : shown'[i] \in {"live", "forgotten"} /\ home'[i] # Machine /\ \A t \in tombs' : t.on # i
      BY <1>1, <1>2, <2>1, <3>1 DEF InHand
    <3>4. todo' \cap (stood' \cup restored') = {}
      BY <1>1, <2>1, <2>2, <3>1 DEF InHand
    <3> QED
      BY <3>1, <3>2, <3>3, <3>4 DEF InHand
  <2>6. CASE ~(Withdraws \/ Strikes \/ RetiresOld)
    <3>1. at \in {"learn", "bring"} /\ at' = at /\ doomed' = doomed
      BY <1>3, <2>6 DEF Withdrawing, Rechecks, SendsHome
    <3> QED
      BY <1>1, <2>2, <3>1 DEF InHand
  <2> QED
    BY <2>3, <2>4, <2>5, <2>6
<1>4. CASE Copying
  <2>1. PICK n \in Id : /\ shown[n] = "none" /\ home'[n] = Machine /\ fact'[n] = fact[First(todo)] /\ shown'[n] = "live"
                        /\ \A j \in Id : j # n => home'[j] = home[j] /\ fact'[j] = fact[j] /\ shown'[j] = shown[j]
                        /\ UNCHANGED <<restored, tombs, todo>> /\ First(todo) \in Id
    BY <1>4, CopyingIs
  <2>2. at = "copy" /\ at' = "retire" /\ First(todo) \in todo /\ UNCHANGED <<stood, doomed>>
    BY <1>4 DEF Copying, Copies, ghosts
  <2>3. \A i \in todo \cup doomed : i \in Id /\ shown[i] \in {"live", "forgotten"} /\ i # n
    BY <1>1, <1>2, <2>1, <2>2 DEF InHand
  <2>4. \A i \in todo : shown'[i] \in {"live", "forgotten"} /\ home'[i] # Machine /\ \A t \in tombs : t.on # i
    BY <1>1, <2>1, <2>2, <2>3 DEF InHand
  <2>5. shown'[n] = "live" /\ home'[n] = Machine /\ fact'[n] = fact'[First(todo)]
    BY <2>1, <2>2, <2>3
  <2>6. doomed' = {} /\ todo' \cap (stood' \cup restored') = {}
    BY <1>1, <2>1, <2>2 DEF InHand
  <2>7. First(todo') = First(todo) /\ todo' # {}
    BY <2>1, <2>2
  <2> QED
    BY <2>1, <2>2, <2>4, <2>5, <2>6, <2>7 DEF InHand
<1>5. ASSUME NEW f \in Fact, NEW p \in Place, Learns(f, p) PROVE InHand'
  <2>1. at = "learn" /\ at' = "upkeep" /\ doomed' = doomed
    BY <1>5 DEF Learns
  <2> QED
    BY <1>1, <2>1 DEF InHand
<1>6. CASE LabelsOne
  <2>1. First(todo) \in todo
    BY <1>6, InHandIsThere DEF LabelsOne
  <2>2. /\ at = "label" /\ UNCHANGED <<home, shown, doomed, stood>>
        /\ \/ First(todo) \in doomed /\ at' = "strike" /\ todo' = todo
           \/ First(todo) \notin doomed /\ at' = "label" /\ todo' = todo \ {First(todo)}
    BY <1>6 DEF LabelsOne, pages, ghosts
  <2>3. doomed' \subseteq todo' /\ todo' \subseteq todo /\ doomed' \cap stood' = {}
    BY <1>1, <2>2 DEF InHand
  <2>4. \A i \in todo' : shown'[i] \in {"live", "forgotten"} /\ home'[i] # Machine
    BY <1>1, <2>2, <2>3 DEF InHand
  <2>5. at' = "strike" => todo' # {} /\ First(todo') \in doomed'
    BY <2>1, <2>2
  <2> QED
    BY <2>2, <2>3, <2>4, <2>5 DEF InHand
<1>7. CASE SendsHome /\ at' = "off"
  <2>1. at = "bring" /\ doomed' = doomed
    BY <1>7 DEF SendsHome
  <2> QED
    BY <1>1, <1>7, <2>1 DEF InHand
<1>8. CASE Brings
  <2>1. at = "bring" /\ at' = "bring" /\ UNCHANGED <<doomed, stood>>
    BY <1>8 DEF Brings, ghosts
  <2> QED
    BY <1>1, <2>1 DEF InHand
<1>9. ASSUME NEW k \in Id, Forgets(k) PROVE InHand'
  <2>1. /\ UNCHANGED <<home, fact, restored, tombs, at, job, cur, todo, doomed, stood>> /\ shown'[k] = "forgotten"
        /\ \A j \in Id : j # k => shown'[j] = shown[j]
    BY <1>1, <1>9 DEF Forgets, pages, words, memory, LessonsTypeOK
  <2>2. \A j \in Id : shown[j] \in {"live", "forgotten"} => shown'[j] \in {"live", "forgotten"}
    BY <2>1
  <2> QED
    BY <1>1, <1>2, <2>1, <2>2 DEF InHand, Here
<1>10. ASSUME NEW k \in Id, Corrects(k) PROVE InHand'
  <2>1. UNCHANGED <<home, fact, shown, restored, tombs, at, job, cur, todo, doomed, stood>>
    BY <1>10 DEF Corrects, pages, memory
  <2> QED
    BY <1>1, <2>1 DEF InHand, Here
<1>11. Marking => LabelsOne \/ (\E f \in Fact, p \in Place : Learns(f, p)) \/ (SendsHome /\ at' = "off")
  BY DEF Marking
<1>12. \A f, p : Learning(f, p) => Learns(f, p)
  BY DEF Learning
<1> QED
  BY <1>3, <1>4, <1>5, <1>6, <1>7, <1>8, <1>9, <1>10, <1>11, <1>12, TouchesAre

LEMMA InHandStep == LessonsInv /\ Next => InHand'
BY InHandMinds, InHandTouches, NextIsOneOf

(***************************************************************************)
(* Nothing left behind                                                     *)
(***************************************************************************)
Remains(i) == shown[i] = "live" /\ home[i] # Machine /\ label[i] = "machine"

\* Where fewer are without a label, what was finished is.
LEMMA StaysFinished ==
  ASSUME LessonsInv, Unlabelled' \subseteq Unlabelled, saved'["daily"] = saved["daily"], ~Unfinished
  PROVE  ~Unfinished'
<1>1. Unlabelled \subseteq Id
  BY DEF Unlabelled, Live
<1>2. IsFiniteSet(Unlabelled) /\ Total \in Nat
  BY <1>1, SomeIds DEF Total
<1>3. Total' <= Total /\ IsFiniteSet(Unlabelled')
  BY <1>2, FS_Subset DEF Total
<1>4. Total' \in Nat
  BY <1>3, FS_CardinalityType DEF Total
<1>5. saved["daily"].stuck \in Int
  BY DEF LessonsInv, LessonsTypeOK, Cursor
<1>6. ~(Total > 0) \/ (saved["daily"].stuck > 0 /\ Total <= saved["daily"].stuck)
  BY DEF Unfinished
<1>7. ~(Total' > 0) \/ (saved'["daily"].stuck > 0 /\ Total' <= saved'["daily"].stuck)
  BY <1>2, <1>3, <1>4, <1>5, <1>6
<1> QED
  BY <1>7 DEF Unfinished

LEMMA NothingLeftMinds ==
  ASSUME LessonsInv, Minds
  PROVE  NothingLeft'
<1>1. LessonsTypeOK /\ Turns /\ Flags /\ NothingLeft /\ InHand
  BY DEF LessonsInv
<1>2. UNCHANGED <<home, fact, shown, label, fixed, restored>>
  BY MindsOnly DEF pages, words
<1>3. SUFFICES ASSUME restored = {} PROVE NothingLeft'
  BY <1>2 DEF NothingLeft
<1>4. /\ MoveBegun => ~Unfinished
      /\ at \in {"batch", "asked", "label", "strike", "swept"} => ~MoveBegun
      /\ Cleared(saved["move"].after, {})
      /\ at = "scan" => Cleared(cur.after, {})
      /\ at \in {"copy", "retire"} => Cleared(cur.after, todo)
      /\ moveFlag => Cleared(MaxId, {})
  BY <1>1, <1>3 DEF NothingLeft
<1>5. Live' = Live /\ Unlabelled' = Unlabelled
  BY <1>2 DEF Live, Unlabelled
<1>6. \A n, S : Cleared(n, S) => Cleared(n, S)'
  BY <1>2, <1>5 DEF Cleared
\* The steps that lead to the move, or stay in it.
<1>7. at' = "scan" => \/ Moves /\ ~Unfinished /\ cur'.after = saved["move"].after
                      \/ SavesMove /\ cur' = cur
                      \/ at = "scan" /\ cur' = cur
  <2>1. SUFFICES ASSUME at' = "scan"
                 PROVE  \/ Moves /\ ~Unfinished /\ cur'.after = saved["move"].after
                        \/ SavesMove /\ cur' = cur
                        \/ at = "scan" /\ cur' = cur
    OBVIOUS
  <2>2. at \in {"scan", "move", "copy"}
    BY <2>1, MindsTurn
  <2>3. Moves \/ SavesMove \/ CallAges
    BY <2>1, <2>2 DEF Minds, Starting, Passes, Dailies, Gathers, Decides, GroupsEnd, Asks, NoAnswer, Answers, SavesBatch,
       SavesFailure, Stops, NextProject, Finishes, SweepEnds, SavesSweep, Scans, MoveEnds,
       MoveBreaks, Settles, ToUpkeep, Visits, Leaves, LearnsNothing, Restores, Killed, StoreFails, StopsFor
  <2>4. CASE Moves
    <3>1. /\ ~Unfinished /\ cur' = [saved["move"] EXCEPT !.run = IF @ = 0 THEN FreshRun ELSE @]
      BY <2>1, <2>4 DEF Moves, ToUpkeep
    <3>2. saved["move"] \in Cursor
      BY <1>1 DEF LessonsTypeOK
    <3>3. cur'.after = saved["move"].after
      BY <3>1, <3>2 DEF Cursor
    <3> QED
      BY <2>4, <3>1, <3>3
  <2> QED
    BY <2>1, <2>3, <2>4 DEF SavesMove, CallAges, memory
<1>8. at' \in {"copy", "retire"} => Scans \/ (at' = at /\ UNCHANGED <<cur, todo>>)
  <2>1. SUFFICES ASSUME at' \in {"copy", "retire"} PROVE Scans \/ (at' = at /\ UNCHANGED <<cur, todo>>)
    OBVIOUS
  <2>2. at \in {"scan", "copy", "retire"}
    BY <2>1, MindsTurn
  <2>3. Scans \/ CallAges
    BY <2>1, <2>2 DEF Minds, Starting, Passes, Dailies, Gathers, Decides, GroupsEnd, Asks, NoAnswer, Answers, SavesBatch,
       SavesFailure, Stops, NextProject, Finishes, SweepEnds, SavesSweep, Moves, SavesMove, MoveEnds,
       MoveBreaks, Settles, ToUpkeep, Visits, Leaves, LearnsNothing, Restores, Killed, StoreFails, StopsFor
  <2> QED
    BY <2>3 DEF CallAges, memory
<1>9. moveFlag' = moveFlag \/ MoveEnds
  BY DEF Minds, Starting, Passes, Dailies, Gathers, Decides, GroupsEnd, NoAnswer, Answers, SavesBatch,
      SavesFailure, Stops, NextProject, Finishes, SweepEnds, SavesSweep, Moves, Scans, SavesMove,
      MoveBreaks, Settles, Leaves, LearnsNothing, marks, Asks, Killed, StoreFails, StopsFor, CallAges, Restores, Visits
<1>10. saved'["move"].after > 0 => saved["move"].after > 0 \/ at = "copy"
  <2>1. ~(Blank.after > 0)
    BY DEF Blank
  <2> QED
    BY <2>1, MindsSave DEF SavesMove
<1>11. MoveBegun' => MoveBegun \/ (at = "move" /\ ~Unfinished)
  <2>1. CASE moveFlag' /\ ~moveFlag
    BY <1>9, <2>1 DEF MoveEnds, MoveBegun
  <2>2. CASE saved'["move"].after > 0
    BY <1>10, <2>2 DEF MoveBegun
  <2>3. CASE at' \in {"scan", "copy", "retire"}
    BY <1>7, <1>8, <2>3 DEF MoveBegun, Moves, SavesMove, Scans
  <2> QED
    BY <2>1, <2>2, <2>3, Zenon DEF MoveBegun
<1>12. MoveBegun' => ~Unfinished'
  <2>1. CASE saved'["daily"] = saved["daily"]
    BY <1>4, <1>5, <1>11, <2>1, StaysFinished
  <2>2. CASE saved'["daily"] # saved["daily"]
    <3>1. at \in {"label", "swept"}
      BY <2>2, MindsSave
    <3> QED
      BY <1>4, <1>11, <3>1
  <2> QED
    BY <2>1, <2>2
<1>13. at' \in {"batch", "asked", "label", "strike", "swept"} => ~MoveBegun'
  <2>1. SUFFICES ASSUME at' \in {"batch", "asked", "label", "strike", "swept"} PROVE ~MoveBegun'
    OBVIOUS
  <2>2. \/ at \in {"batch", "asked", "label", "strike", "swept"}
        \/ at = "pass" /\ ~flag
        \/ at = "daily" /\ at' = "batch"
        \/ at = "group" /\ job = "clean"
    BY <2>1, MindsTurn
  <2>3. CASE at = "daily" /\ at' = "batch"
    <3>1. Dailies
      BY <2>3 DEF Minds, Starting, Passes, Gathers, Decides, GroupsEnd, Asks, NoAnswer, Answers, SavesBatch,
       SavesFailure, Stops, NextProject, Finishes, SweepEnds, SavesSweep, Moves, Scans, SavesMove, MoveEnds,
       MoveBreaks, Visits, Leaves, LearnsNothing, Restores, Killed, StoreFails, StopsFor, CallAges, memory
    <3>2. Total # 0 /\ ~(saved["daily"].stuck > 0 /\ Total <= saved["daily"].stuck)
      BY <2>3, <3>1, DailiesResumes
    <3>3. Total \in 0..MaxId
      BY InHandIsThere
    <3>4. Unfinished
      BY <3>2, <3>3 DEF Unfinished
    <3> QED
      BY <1>4, <1>11, <2>3, <3>4
  <2>4. CASE (at = "pass" /\ ~flag) \/ (at = "group" /\ job = "clean")
    <3>1. ~flag
      BY <1>1, <2>4, Zenon DEF Flags
    <3>2. ~MoveBegun
      BY <1>1, <2>4, <3>1, Zenon DEF Flags, MoveBegun
    <3> QED
      BY <1>11, <2>4, <3>2
  <2> QED
    BY <1>4, <1>11, <2>2, <2>3, <2>4
\* What is left.
<1>14. Cleared(saved["move"].after, {})'
  <2>1. CASE saved'["move"] = saved["move"]
    BY <1>4, <1>6, <2>1
  <2>2. CASE SavesMove /\ saved'["move"] = cur
    BY <1>4, <1>6, <2>2 DEF SavesMove
  <2>3. CASE saved'["move"] = Blank
    <3>1. \A i \in Id : ~(i <= 0)
      BY DEF Id
    <3>2. Blank.after = 0
      BY DEF Blank
    <3> QED
      BY <2>3, <3>1, <3>2 DEF Cleared, Live
  <2> QED
    BY <2>1, <2>2, <2>3, MindsSave
<1>15. at' = "scan" => Cleared(cur.after, {})'
  BY <1>4, <1>6, <1>7 DEF SavesMove
<1>16. at' \in {"copy", "retire"} => Cleared(cur.after, todo)'
  <2>1. CASE at' = at /\ UNCHANGED <<cur, todo>>
    BY <1>4, <1>6, <2>1
  <2>2. CASE Scans
    <3>1. /\ at = "scan" /\ todo' = {i \in Candidates \ (restored \cup fixed) : fact[i] \notin Unsafe}
      BY <2>2 DEF Scans
    <3>2. ASSUME NEW i \in Live, home[i] # Machine, label[i] = "machine" PROVE i \in fixed \cup todo' \/ fact[i] \in Unsafe
      <4>1. CASE i <= cur.after
        BY <1>4, <3>1, <3>2, <4>1 DEF Cleared
      <4>2. CASE ~(i <= cur.after)
        <5>1. i \in Id /\ cur.after \in Int
          BY <1>1 DEF Live, LessonsTypeOK, Cursor
        <5>2. i \in Candidates
          BY <3>2, <4>2, <5>1 DEF Candidates, Id
        <5> QED
          BY <1>3, <3>1, <5>2
      <4> QED
        BY <4>1, <4>2
    <3> QED
      BY <1>2, <1>5, <3>2 DEF Cleared
  <2> QED
    BY <1>8, <2>1, <2>2
<1>17. moveFlag' => Cleared(MaxId, {})'
  <2>1. CASE moveFlag' = moveFlag
    BY <1>4, <1>6, <2>1, Zenon
  <2>2. CASE MoveEnds
    <3>1. ASSUME NEW i \in Live, home[i] # Machine, label[i] = "machine" PROVE i \in fixed \cup {} \/ fact[i] \in Unsafe
      <4>1. i \in Id /\ cur.after \in Int
        BY <1>1 DEF Live, LessonsTypeOK, Cursor
      <4>2. i <= cur.after
        BY <2>2, <3>1, <4>1 DEF MoveEnds, Candidates, Id
      <4> QED
        BY <1>4, <2>2, <3>1, <4>2 DEF Cleared, MoveEnds
    <3> QED
      BY <1>2, <1>5, <3>1 DEF Cleared
  <2> QED
    BY <1>9, <2>1, <2>2
<1> QED
  BY <1>12, <1>13, <1>14, <1>15, <1>16, <1>17, Zenon DEF NothingLeft

\* Nothing is brought back, and no lesson loses its label or gets the machine's.
NoneMore ==
  /\ restored = {} /\ fixed \subseteq fixed' /\ Unlabelled' \subseteq Unlabelled
  /\ \A i \in Id : Remains(i)' => Remains(i) /\ home'[i] = home[i] /\ fact'[i] = fact[i]

LEMMA NothingLeftTouches ==
  ASSUME LessonsInv, Touches
  PROVE  NothingLeft'
<1>1. LessonsTypeOK /\ Turns /\ NothingLeft /\ InHand /\ Records
  BY DEF LessonsInv
<1>2. SUFFICES ASSUME restored' = {} PROVE NothingLeft'
  BY DEF NothingLeft
<1>3. UNCHANGED <<moveFlag, saved>>
  BY TouchesOnly
\* No lesson of a project gets the machine's label, but where labels are given.
<1>4. CASE ~LabelsOne
  <2>1. NoneMore
    <3>1. ASSUME NEW w \in Id, NEW why \in {"duplicate", "judged", "moved", "returned"}, NEW run \in Nat,
                 Withdrawing(w, why, run)
          PROVE  NoneMore
      <4>1. /\ \A j \in Id : j # w => shown'[j] = shown[j]
            /\ shown'[w] \in {"forgotten", "cleaned"}
            /\ UNCHANGED <<home, fact, label, fixed, restored>>
        BY <3>1, WithdrawingIs
      <4> QED
        BY <1>2, <4>1 DEF NoneMore, Remains, Unlabelled, Live
    <3>2. CASE Copying
      <4>1. PICK n \in Id :
              /\ home'[n] = Machine /\ label'[n] = "machine"
              /\ \A j \in Id : j # n => /\ home'[j] = home[j] /\ fact'[j] = fact[j]
                                        /\ shown'[j] = shown[j] /\ label'[j] = label[j]
              /\ UNCHANGED <<fixed, restored>>
        BY <3>2, CopyingIs
      <4> QED
        BY <1>2, <4>1 DEF NoneMore, Remains, Unlabelled, Live
    <3>3. ASSUME NEW f \in Fact, NEW p \in Place, Learning(f, p) PROVE NoneMore
      <4>1. PICK n \in Id :
              /\ home'[n] = p /\ label'[n] = (IF p = Machine THEN "machine" ELSE "project")
              /\ \A j \in Id : j # n => /\ home'[j] = home[j] /\ fact'[j] = fact[j]
                                        /\ shown'[j] = shown[j] /\ label'[j] = label[j]
              /\ UNCHANGED <<fixed, restored>>
        BY <3>3, LearningIs
      <4> QED
        BY <1>2, <4>1 DEF NoneMore, Remains, Unlabelled, Live
    <3>4. CASE Marking
      <4>1. UNCHANGED <<home, fact, shown, fixed, restored>>
        BY <3>4 DEF Marking, pages, words
      <4>2. label' = label \/ (\E i \in Id : label' = [label EXCEPT ![i] = "project"])
        <5>1. CASE \E f \in Fact, p \in Place : Learns(f, p) /\ UNCHANGED <<pages, shown>>
          <6>1. PICK f \in Fact, p \in Place : Learns(f, p) /\ UNCHANGED <<pages, shown>>
            BY <5>1
          <6>2. ~Mints(p, f, 0, IF p = Machine THEN "machine" ELSE "project")
            <7>1. ASSUME Mints(p, f, 0, IF p = Machine THEN "machine" ELSE "project") PROVE FALSE
              <8>1. First(Unminted) \in Unminted
                BY <7>1, InHandIsThere DEF Mints
              <8>2. shown'[First(Unminted)] = "live" /\ shown[First(Unminted)] = "none"
                BY <1>1, <7>1, <8>1 DEF Mints, Unminted, LessonsTypeOK
              <8> QED
                BY <6>1, <8>2
            <7> QED
              BY <7>1
          <6>3. \E i \in In(p) : label' = IF p = Machine THEN label ELSE [label EXCEPT ![i] = "project"]
            BY <6>1, <6>2 DEF Learns
          <6> QED
            BY <6>3 DEF In, Live
        <5>2. CASE SendsHome /\ at' = "off"
          BY <5>2 DEF SendsHome, Rests
        <5> QED
          BY <1>4, <3>4, <5>1, <5>2 DEF Marking
      <4>3. \A i \in Id : label'[i] \in {label[i], "project"}
        BY <1>1, <4>2 DEF LessonsTypeOK
      <4> QED
        BY <1>2, <4>1, <4>3 DEF NoneMore, Remains, Unlabelled, Live
    <3>5. CASE Brings
      <4>1. UNCHANGED <<home, fact, label, fixed>> /\ shown' = shown /\ restored' = restored
        BY <1>2, <3>5 DEF Brings, pages
      <4> QED
        BY <1>2, <4>1 DEF NoneMore, Remains, Unlabelled, Live
    <3>6. ASSUME NEW k \in Id, Forgets(k) PROVE NoneMore
      <4>1. /\ UNCHANGED <<home, fact, label, fixed, restored>> /\ shown'[k] = "forgotten"
            /\ \A j \in Id : j # k => shown'[j] = shown[j]
        BY <1>1, <3>6 DEF Forgets, pages, words, LessonsTypeOK
      <4> QED
        BY <1>2, <4>1 DEF NoneMore, Remains, Unlabelled, Live
    <3>7. ASSUME NEW k \in Id, Corrects(k) PROVE NoneMore
      <4>1. /\ UNCHANGED <<home, fact, shown, label, restored>> /\ fixed \subseteq fixed'
        BY <3>7 DEF Corrects, pages
      <4> QED
        BY <1>2, <4>1 DEF NoneMore, Remains, Unlabelled, Live
    <3> QED
      BY <3>1, <3>2, <3>3, <3>4, <3>5, <3>6, <3>7, TouchesAre
  <2>2. /\ MoveBegun => ~Unfinished
        /\ at \in {"batch", "asked", "label", "strike", "swept"} => ~MoveBegun
        /\ Cleared(saved["move"].after, {})
        /\ at = "scan" => Cleared(cur.after, {})
        /\ at \in {"copy", "retire"} => Cleared(cur.after, todo)
        /\ moveFlag => Cleared(MaxId, {})
    BY <1>1, <2>1 DEF NoneMore, NothingLeft
  <2>3. MoveBegun' => MoveBegun
    <3>1. at' \in {"scan", "copy", "retire"} => at \in {"scan", "copy", "retire"}
      BY TouchesTurn
    <3> QED
      BY <1>3, <3>1, Zenon DEF MoveBegun
  <2>4. \A n, S : Cleared(n, S) => Cleared(n, S)'
    BY <2>1 DEF NoneMore, Cleared, Remains, Live
  <2>5. MoveBegun' => ~Unfinished'
    BY <1>3, <2>1, <2>2, <2>3, StaysFinished DEF NoneMore
  <2>6. at' \in {"batch", "asked", "label", "strike", "swept"} => ~MoveBegun'
    <3>1. at' \in {"batch", "asked", "label", "strike", "swept"} => at \in {"batch", "asked", "label", "strike", "swept"}
      BY TouchesTurn
    <3> QED
      BY <2>2, <2>3, <3>1
  <2>7. at' = "scan" => Cleared(cur.after, {})'
    <3>1. at' = "scan" => at = "scan" /\ cur' = cur
      BY TouchesTurn
    <3> QED
      BY <2>2, <2>4, <3>1
  <2>8. at' \in {"copy", "retire"} => Cleared(cur.after, todo)'
    <3>1. SUFFICES ASSUME at' \in {"copy", "retire"} PROVE Cleared(cur.after, todo)'
      OBVIOUS
    <3>2. cur' = cur /\ at \in {"copy", "retire"}
      BY <3>1, TouchesTurn
    <3>3. \A i \in Id : Remains(i)' /\ i <= cur.after => i \in fixed' \cup todo \/ fact'[i] \in Unsafe
      BY <2>1, <2>2, <3>2 DEF NoneMore, Cleared, Remains, Live
    <3>4. \A i \in todo : i \in todo' \/ ~Remains(i)'
      <4>1. CASE RetiresOld
        <5>1. First(todo) \in Id /\ todo' = todo \ {First(todo)}
              /\ Withdraw(First(todo), "moved", cur.run)
          BY <4>1, WithdrawnIs DEF RetiresOld
        <5>2. shown' = [shown EXCEPT ![First(todo)] = IF @ = "forgotten" THEN @ ELSE "cleaned"]
          BY <5>1 DEF Withdraw
        <5>3. shown'[First(todo)] # "live"
          BY <1>1, <5>1, <5>2 DEF LessonsTypeOK
        <5> QED
          BY <5>1, <5>3 DEF Remains
      <4>2. CASE ~RetiresOld
        <5>1. todo' = todo
          BY <3>1, <3>2, <1>4, <4>2 DEF Touches, Copies, Learns, Withdraws, Strikes, Rechecks, Brings, SendsHome,
             Forgets, Corrects, memory
        <5> QED
          BY <5>1
      <4> QED
        BY <4>1, <4>2
    <3> QED
      BY <3>2, <3>3, <3>4 DEF Cleared, Remains, Live
  <2>9. moveFlag' => Cleared(MaxId, {})'
    BY <1>3, <2>2, <2>4, Zenon
  <2>10. Cleared(saved["move"].after, {})'
    BY <1>3, <2>2, <2>4
  <2> QED
    BY <2>5, <2>6, <2>7, <2>8, <2>9, <2>10, Zenon DEF NothingLeft
<1>5. CASE LabelsOne
  <2>1. at = "label" /\ at' \in {"label", "strike"} /\ restored' = restored
    BY <1>5 DEF LabelsOne, words
  <2>2. ~MoveBegun
    BY <1>1, <1>2, <2>1 DEF NothingLeft
  <2>3. ~MoveBegun'
    BY <1>3, <2>1, <2>2, Zenon DEF MoveBegun
  <2>4. ~(saved'["move"].after > 0) /\ ~moveFlag'
    BY <2>3 DEF MoveBegun
  <2>5. saved'["move"].after \in Nat
    BY <1>1, <1>3, LessonsAssumption DEF LessonsTypeOK, Cursor
  <2>6. Cleared(saved["move"].after, {})'
    BY <2>4, <2>5 DEF Cleared, Live, Id
  <2> QED
    BY <2>1, <2>3, <2>4, <2>6, Zenon DEF NothingLeft
<1> QED
  BY <1>4, <1>5

LEMMA NothingLeftStep == LessonsInv /\ Next => NothingLeft'
BY NothingLeftMinds, NothingLeftTouches, NextIsOneOf

(***************************************************************************)
(* The theorems                                                            *)
(***************************************************************************)
LEMMA LessonsInit == Init => LessonsInv
<1> SUFFICES ASSUME Init PROVE LessonsInv
  OBVIOUS
<1>1. PICK s \in Beginnings :
        /\ home = [i \in Id |-> IF i \in DOMAIN s.place THEN s.place[i] ELSE Machine]
        /\ fact = [i \in Id |-> IF i \in DOMAIN s.fact THEN s.fact[i] ELSE CHOOSE f \in Fact : TRUE]
        /\ label = [i \in Id |-> IF i \in DOMAIN s.label THEN s.label[i] ELSE "none"]
        /\ shown = [i \in Id |-> IF i \in DOMAIN s.place THEN "live" ELSE "none"]
        /\ fixed = s.fixed /\ flag = s.flag
        /\ acts = s.spent.acts /\ visits = s.spent.visits /\ mishaps = s.spent.mishaps
  BY DEF Init
<1>2. /\ link = [i \in Id |-> 0] /\ restored = {} /\ tombs = {}
      /\ moveFlag = FALSE /\ saved = [j \in {"clean", "daily", "move"} |-> Blank]
      /\ ledger = 0 /\ today = 0
      /\ at = "off" /\ job = "clean" /\ cur = Blank
      /\ todo = {} /\ doomed = {} /\ verdict = NoVerdict /\ back = {}
      /\ cause = [i \in Id |-> "none"] /\ stood = {}
  BY DEF Init
<1>3. /\ \A i \in Id \cap DOMAIN s.place : s.place[i] \in Place
      /\ \A i \in Id \cap DOMAIN s.fact : s.fact[i] \in Fact
      /\ \A i \in Id \cap DOMAIN s.label : s.label[i] \in Labels \cup {"none"}
      /\ s.fixed \subseteq Id /\ s.flag \in BOOLEAN
      /\ s.spent.acts \in 0..MaxActs /\ s.spent.visits \in 0..MaxVisits /\ s.spent.mishaps \in 0..MaxMishap
  BY LessonsAssumption
<1>4. LessonsTypeOK
  <2>1. Pages
    <3>1. Machine \in Place /\ (CHOOSE f \in Fact : TRUE) \in Fact /\ 0 \in 0..MaxId
      BY LessonsAssumption DEF Machine, Place
    <3>2. home \in [Id -> Place]
      BY <1>1, <1>3, <3>1
    <3>3. fact \in [Id -> Fact]
      BY <1>1, <1>3, <3>1
    <3>4. label \in [Id -> Labels \cup {"none"}]
      BY <1>1, <1>3
    <3>5. shown \in [Id -> {"none", "live", "forgotten", "cleaned"}]
      BY <1>1
    <3>6. link \in [Id -> 0..MaxId] /\ cause \in [Id -> {"none", "duplicate", "judged", "moved", "returned"}]
      BY <1>2, <3>1
    <3> QED
      BY <1>1, <1>2, <1>3, <3>2, <3>3, <3>4, <3>5, <3>6 DEF Pages
  <2>2. Hand
    BY <1>2 DEF Hand, NoVerdict
  <2>3. Cursors
    BY <1>2, BlankIsCursor DEF Cursors
  <2>4. Bits
    BY <1>1, <1>2, <1>3, Zenon DEF Bits
  <2>5. Counts
    BY <1>1, <1>2, <1>3, LessonsAssumption DEF Counts
  <2>6. Where
    BY <1>2 DEF Where
  <2> QED
    BY <2>1, <2>2, <2>3, <2>4, <2>5, <2>6, TypesInGroups
<1>5. Turns
  BY <1>2, LessonsAssumption DEF Turns, Blank
<1>6. InHand /\ Bringing
  BY <1>2 DEF InHand, Bringing
<1>7. Records
  <2>1. {t.run : t \in tombs} = {}
    BY <1>2
  <2> QED
    BY <1>2, <2>1, FS_EmptySet DEF Records
<1>8. ReadOnce
  <2>1. \A i \in Id : i # 0
    BY DEF Id
  <2> QED
    BY <1>2, <2>1 DEF ReadOnce
<1>9. Told
  BY <1>2 DEF Told, Gone
<1>10. ~(saved["move"].after > 0) /\ saved["move"].after = 0
  BY <1>2 DEF Blank
<1>11. Flags
  BY <1>2, <1>10, Zenon DEF Flags
<1>12. NothingLeft
  <2>1. ~MoveBegun
    BY <1>2, <1>10, Zenon DEF MoveBegun
  <2>2. Cleared(saved["move"].after, {})
    BY <1>10 DEF Cleared, Live, Id
  <2> QED
    BY <1>2, <2>1, <2>2, Zenon DEF NothingLeft
<1> QED
  BY <1>4, <1>5, <1>6, <1>7, <1>8, <1>9, <1>11, <1>12 DEF LessonsInv

LEMMA LessonsStep == LessonsInv /\ [Next]_vars => LessonsInv'
<1> SUFFICES ASSUME LessonsInv, [Next]_vars PROVE LessonsInv'
  OBVIOUS
<1>1. CASE Next
  BY <1>1, TypesStep, TurnsStep, InHandStep, BringingStep, RecordsStep, ReadOnceStep, ToldStep, FlagsStep, NothingLeftStep
  DEF LessonsInv
<1>2. CASE UNCHANGED vars
  <2>1. /\ UNCHANGED <<home, fact, link, shown, label, fixed, restored, tombs, cause, flag, moveFlag, saved>>
        /\ UNCHANGED <<ledger, today, at, job, cur, todo, doomed, verdict, back, stood, acts, visits, mishaps>>
    BY <1>2 DEF vars, pages, words, marks, calls, memory, ghosts
  <2>2. (Turns /\ Flags)'
    BY <2>1, Zenon DEF LessonsInv, Turns, Flags
  <2>3. (InHand /\ Bringing)'
    BY <2>1 DEF LessonsInv, InHand, Bringing, Here
  <2>4. (Records /\ ReadOnce)'
    BY <2>1 DEF LessonsInv, Records, ReadOnce
  <2>5. Told'
    BY <2>1 DEF LessonsInv, Told, Gone, Standing, MoveIsOneRun
  <2>6. NothingLeft'
    BY <2>1, Zenon DEF LessonsInv, NothingLeft, MoveBegun, Unfinished, Total, Unlabelled, Cleared, Live
  <2>7. LessonsTypeOK'
    BY <2>1, Zenon DEF LessonsInv, LessonsTypeOK
  <2> QED
    BY <2>2, <2>3, <2>4, <2>5, <2>6, <2>7 DEF LessonsInv
<1> QED
  BY <1>1, <1>2

\* The lessons, the runner's cursor and what it has in hand keep their types, and
\* the counts stay within their bounds.
THEOREM LessonsTypeCorrect == Spec => []LessonsTypeOK
<1>1. LessonsInv => LessonsTypeOK
  BY DEF LessonsInv
<1> QED
  BY <1>1, LessonsInit, LessonsStep, PTL DEF Spec

\* Tidying loses no fact: whatever folds, moves, restores and kills come in
\* between, a lesson that was withdrawn as a duplicate or for its copy on the
\* machine has a live lesson of its fact, unless a person forgot the fact, a
\* model judged it, or the move was cut into two runs (clean.rs, consolidate.rs).
THEOREM NoFactIsLost == Spec => []FactsSurvive
<1>1. LessonsInv => FactsSurvive
  <2> SUFFICES ASSUME LessonsInv, NEW i \in Id, home[i] # Machine, Gone(i, {"duplicate", "moved"}),
                      ~Judged(fact[i]), MoveIsOneRun
               PROVE  \E j \in Live : fact[j] = fact[i] /\ home[j] \in {home[i], Machine}
    BY DEF FactsSurvive
  <2>1. \A j \in Id : fact[j] = fact[i] => ~Gone(j, {"judged"}) /\ (Standing(j) => j \in Live)
    BY DEF Judged, Standing, Live
  <2>2. ASSUME NEW k \in Id, home[k] # Machine, Gone(k, {"moved"}), fact[k] = fact[i]
        PROVE  \E j \in Live : fact[j] = fact[i] /\ home[j] \in {home[i], Machine}
    <3>1. PICK j \in Id : home[j] = Machine /\ fact[j] = fact[k] /\ Standing(j)
      BY <2>2 DEF LessonsInv, Told
    <3> QED
      BY <2>1, <2>2, <3>1
  <2>3. CASE Gone(i, {"moved"})
    BY <2>2, <2>3
  <2>4. CASE Gone(i, {"duplicate"})
    <3>1. PICK j \in Id : home[j] = home[i] /\ fact[j] = fact[i] /\ (Standing(j) \/ Gone(j, {"moved", "judged"}))
      BY <2>4 DEF LessonsInv, Told
    <3>2. Gone(j, {"moved", "judged"}) => Gone(j, {"moved"}) \/ Gone(j, {"judged"})
      BY DEF Gone
    <3> QED
      BY <2>1, <2>2, <3>1, <3>2
  <2> QED
    BY <2>3, <2>4 DEF Gone
<1> QED
  BY <1>1, LessonsInit, LessonsStep, PTL DEF Spec

\* Where no run was killed, no lesson is live beside its copy on the machine
\* between runs, unless a person corrected either: the copy is written, the old
\* one withdrawn, and a restore takes away the copies of what it brings back.
THEOREM NoLessonReadsTwice == Spec => []LessonReadsOnce
<1>1. LessonsInv => LessonReadsOnce
  <2> SUFFICES ASSUME LessonsInv, at = "off", mishaps = 0, NEW c \in Live, link[c] \in Live, {c, link[c]} \cap fixed = {}
               PROVE  FALSE
    BY DEF LessonReadsOnce
  <2>1. c \in Id /\ link[c] \in Id /\ shown[c] = "live" /\ shown[link[c]] = "live"
    BY DEF Live
  <2> QED
    BY <2>1 DEF LessonsInv, ReadOnce
<1> QED
  BY <1>1, LessonsInit, LessonsStep, PTL DEF Spec

\* Where the move is through and nothing was brought back, it left no lesson of
\* the machine in a project but those a person corrected and those that name what
\* is the project's own: it begins when no label is due, and its cursor passes
\* over nothing (move_to_machine, label_remainder).
THEOREM TheMoveLeavesNoneBehind == Spec => []NoneLeftBehind
<1>1. LessonsInv => NoneLeftBehind
  <2> SUFFICES ASSUME LessonsInv, moveFlag, restored = {}, NEW i \in Live, home[i] # Machine, label[i] = "machine"
               PROVE  i \in fixed \/ fact[i] \in Unsafe
    BY DEF NoneLeftBehind
  <2>1. Cleared(MaxId, {})
    BY DEF LessonsInv, NothingLeft
  <2>2. i \in Id /\ i <= MaxId
    BY LessonsAssumption DEF Live, Id
  <2> QED
    BY <2>1, <2>2 DEF Cleared
<1> QED
  BY <1>1, LessonsInit, LessonsStep, PTL DEF Spec

\* No step withdraws a lesson that was corrected when it was looked at, and none
\* folds or moves away what a restore brought back (dedupe, apply,
\* move_to_machine, apply_recheck).
THEOREM PeopleAreNotOverruled == Spec => WhatPeopleSaidStands
<1> DEFINE Stands == \A i \in Id : (shown[i] = "live" /\ shown'[i] = "cleaned")
                        => (i \notin stood /\ (i \in restored => cause'[i] \in {"judged", "returned"}))
<1>1. LessonsInv /\ [Next]_vars => [Stands]_vars
  <2> SUFFICES ASSUME LessonsInv, Next, NEW i \in Id, shown[i] = "live", shown'[i] = "cleaned"
               PROVE  i \notin stood /\ (i \in restored => cause'[i] \in {"judged", "returned"})
    OBVIOUS
  <2>1. LessonsTypeOK /\ InHand
    BY DEF LessonsInv
  <2>2. ~Minds
    BY MindsOnly
  <2>3. ASSUME NEW w \in Id, NEW why \in {"duplicate", "judged", "moved", "returned"}, NEW run \in Nat,
               Withdrawing(w, why, run)
        PROVE  i \notin stood /\ (i \in restored => cause'[i] \in {"judged", "returned"})
    <3>1. w = i /\ cause'[i] = why
      BY <2>3, WithdrawingIs
    <3>2. CASE at = "withdraw" /\ i \in doomed
      BY <2>1, <3>2 DEF InHand
    <3>3. CASE at = "strike" /\ i \in doomed /\ why = "judged"
      BY <2>1, <3>1, <3>3 DEF InHand
    <3>4. CASE at = "retire" /\ i \in todo
      BY <2>1, <3>4 DEF InHand
    <3>5. CASE at \in {"learn", "bring"} /\ why \in {"judged", "returned"}
      BY <2>1, <3>1, <3>5 DEF InHand
    <3> QED
      BY <2>3, <3>1, <3>2, <3>3, <3>4, <3>5 DEF Withdrawing
  <2>4. ~Copying
    BY CopyingIs
  <2>5. ASSUME NEW f \in Fact, NEW p \in Place PROVE ~Learning(f, p)
    BY LearningIs
  <2>6. ~Marking
    BY DEF Marking
  <2>7. ~Brings
    <3>1. ASSUME Brings PROVE shown'[i] # "cleaned"
      <4>1. shown' \in {shown, [shown EXCEPT ![First(todo)] = "live"]}
        BY <3>1 DEF Brings
      <4> QED
        BY <2>1, <4>1 DEF LessonsTypeOK
    <3> QED
      BY <3>1
  <2>8. ASSUME NEW k \in Id PROVE ~Forgets(k) /\ ~Corrects(k)
    BY <2>1 DEF Forgets, Corrects, LessonsTypeOK
  <2> QED
    BY <2>2, <2>3, <2>4, <2>5, <2>6, <2>7, <2>8, NextIsOneOf, TouchesAre
<1> QED
  BY <1>1, LessonsInit, LessonsStep, PTL DEF Spec, WhatPeopleSaidStands

=============================================================================

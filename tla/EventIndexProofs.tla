-------------------------- MODULE EventIndexProofs --------------------------
(***************************************************************************)
(* Proofs about the event log and its index, for any writers, catch-ups    *)
(* and rebuilds, whatever is killed, fails or merges, unless a theorem     *)
(* says otherwise.                                                         *)
(***************************************************************************)
EXTENDS EventIndex, FiniteSetTheorems, TLAPS, WellFoundedInduction

(***************************************************************************)
(* Type correctness                                                        *)
(***************************************************************************)
\* What index_event writes is a row.
LEMMA WithRowIsARow ==
  ASSUME NEW old \in RowType, NEW w \in Writer
  PROVE  WithRow(w, old) \in RowType
<1> USE EventIndexAssumption DEF RowType
<1>1. [NoRow EXCEPT !.here = TRUE, !.text = Target] \in RowType
  <2>1. NoRow \in RowType
    BY DEF NoRow
  <2>2. \A r \in RowType : [r EXCEPT !.here = TRUE, !.text = Target] \in RowType
    OBVIOUS
  <2> QED
    BY <2>1, <2>2
<1>2. [old EXCEPT !.text = Target] \in RowType
  OBVIOUS
<1> QED
  BY <1>1, <1>2 DEF WithRow

LEMMA RevisedIsARow ==
  ASSUME NEW old \in RowType, NEW w \in Writer
  PROVE  Revised(w, old) \in RowType
<1> USE DEF RowType
<1>1. [old EXCEPT !.text = w, !.fixedBy = w] \in RowType
  OBVIOUS
<1>2. [old EXCEPT !.conf = @ + 1] \in RowType
  OBVIOUS
<1>3. [old EXCEPT !.conf = old.conf + 1, !.text = w, !.fixedBy = w] \in RowType
  <2>1. old.conf + 1 \in Int
    OBVIOUS
  <2>2. \A i \in Int : [old EXCEPT !.conf = i, !.text = w, !.fixedBy = w] \in RowType
    OBVIOUS
  <2> QED
    BY <2>1, <2>2
<1>4. [old EXCEPT !.conf = @ - 1] \in RowType
  OBVIOUS
<1>5. [old EXCEPT !.label = w] \in RowType /\ [old EXCEPT !.text = Nothing] \in RowType
  OBVIOUS
<1>6. [old EXCEPT !.forgotten = 1] \in RowType
  OBVIOUS
<1>7. [old EXCEPT !.forgotten = IF @ = 1 THEN 1 ELSE 2] \in RowType
  OBVIOUS
<1>8. [old EXCEPT !.forgotten = IF @ = 2 THEN 0 ELSE @] \in RowType
  OBVIOUS
<1> HIDE DEF RowType
<1> QED
  BY <1>1, <1>2, <1>3, <1>4, <1>5, <1>6, <1>7, <1>8 DEF Revised

\* Only whole lines can be read, and a writer wrote each of them.
LEMMA LineFacts ==
  ASSUME NEW line \in Line, line.ok
  PROVE  line.by \in Writer
BY DEF Line, HalfLine

LEMMA ReadableAreWriters ==
  ASSUME log \in Seq(Line)
  PROVE  Readable \subseteq Writer
BY LineFacts DEF Readable, Lines

\* How many ids were minted is a number.
LEMMA MintedIsNat ==
  Cardinality({v \in Writer : born[v] # 0}) \in Nat
<1>1. IsFiniteSet({v \in Writer : born[v] # 0})
  BY EventIndexAssumption, FS_Subset
<1> QED
  BY <1>1, FS_CardinalityType

\* What a merge has to write is finite.
LEMMA LinesAreFinite ==
  ASSUME NEW s \in Seq(Line)
  PROVE  IsFiniteSet({s[i] : i \in DOMAIN s} \cup Brought)
<1> DEFINE Read == {s[i] : i \in DOMAIN s}
<1>1. IsFiniteSet(Read)
  <2>1. IsFiniteSet(1..Len(s))
    <3>1. Len(s) \in Int /\ 1 \in Int
      OBVIOUS
    <3> QED
      BY <3>1, FS_Interval
  <2>2. DOMAIN s = 1..Len(s)
    OBVIOUS
  <2> DEFINE f == [i \in 1..Len(s) |-> s[i]]
  <2>3. f \in Surjection(1..Len(s), Read)
    BY <2>2 DEF Surjection
  <2> HIDE DEF f, Read
  <2> QED
    BY <2>1, <2>3, FS_Surjection
<1>2. IsFiniteSet(Brought)
  <2> DEFINE Alien == {v \in Writer : Kind[v] = Foreign}
             g == [w \in Alien |-> [by |-> w, ok |-> TRUE]]
  <2>1. IsFiniteSet(Alien)
    BY EventIndexAssumption, FS_Subset
  <2>2. g \in Surjection(Alien, Brought)
    BY DEF Surjection, Brought
  <2> HIDE DEF g, Alien
  <2> QED
    BY <2>1, <2>2, FS_Surjection
<1> QED
  BY <1>1, <1>2, FS_Union

\* A merge writes lines, in a sequence.
LEMMA MergeIsASequence ==
  ASSUME NEW s \in Seq(Line), NEW t \in InOrder({s[i] : i \in DOMAIN s} \cup Brought)
  PROVE  t \in Seq(Line)
<1> DEFINE Read == {s[i] : i \in DOMAIN s}
           All == Read \cup Brought
<1>1. Read \subseteq Line
  OBVIOUS
<1>2. Brought \subseteq Line
  <2>1. \A w \in Writer : [by |-> w, ok |-> TRUE] \in Line
    BY DEF Line
  <2> QED
    BY <2>1 DEF Brought
<1>5. IsFiniteSet(All)
  BY LinesAreFinite
<1>6. Cardinality(All) \in Nat
  BY <1>5, FS_CardinalityType
<1>7. t \in [1..Cardinality(All) -> Line]
  BY <1>1, <1>2 DEF InOrder
<1> DEFINE n == Cardinality(All)
<1>8. n \in Nat /\ t \in [1..n -> Line]
  BY <1>6, <1>7
<1> HIDE DEF n
<1> QED
  BY <1>8

\* What index_event does keeps the index's types.
LEMMA InsertKeepsTypes ==
  ASSUME TypeOK, NEW p \in Process, InsertsRow(p)
  PROVE  rows' \subseteq Writer /\ row' \in RowType
BY WithRowIsARow DEF TypeOK, InsertsRow

LEMMA ApplyKeepsTypes ==
  ASSUME TypeOK, NEW p \in Process, Applies(p)
  PROVE  row' \in RowType
BY RevisedIsARow DEF TypeOK, Applies

LEMMA TypeInit == Init => TypeOK
<1> SUFFICES ASSUME Init PROVE TypeOK
  OBVIOUS
<1> USE EventIndexAssumption DEF Init
<1>1. row \in RowType
  BY DEF RowType, NoRow
<1>2. mark \in [end : Nat, last : Line]
  BY DEF NoMark, Line
<1>3. <<>> \in Seq(Line)
  OBVIOUS
<1>4. log \in Seq(Line) /\ copy \in [Process -> Seq(Line)]
  BY <1>3
<1>5. pos \in [Process -> Nat] /\ born \in [Writer -> Nat]
  OBVIOUS
<1>6. at \in [Process -> Writer] /\ todo \in [Process -> SUBSET Writer]
  OBVIOUS
<1>7. pc \in [Process -> {"idle", "append", "insert", "apply", "probe", "merge", "clear",
                          "unmark", "read", "next", "done", "dead", "away"}]
  OBVIOUS
<1> QED
  BY <1>1, <1>2, <1>4, <1>5, <1>6, <1>7 DEF TypeOK

LEMMA WriterStepKeepsTypes ==
  ASSUME TypeOK, NEW w \in Writer, WriterStep(w)
  PROVE  TypeOK'
<1> USE DEF TypeOK, Process, Is, Move, Release, fileVars, indexVars, ownVars, history
<1>1. CASE Mint(w)
  BY <1>1, MintedIsNat DEF Mint
<1>2. CASE Appends(w)
  <2>1. [by |-> w, ok |-> ~torn] \in Line
    BY DEF Line
  <2>2. log' \in Seq(Line)
    BY <1>2, <2>1 DEF Appends
  <2>3. pc' \in [Process -> {"idle", "append", "insert", "apply", "probe", "merge", "clear",
                             "unmark", "read", "next", "done", "dead", "away"}]
    BY <1>2 DEF Appends
  <2> QED
    BY <1>2, <2>2, <2>3 DEF Appends
<1>3. CASE WriterInserts(w)
  BY <1>3, InsertKeepsTypes DEF WriterInserts
<1>4. CASE WriterApplies(w)
  BY <1>4, ApplyKeepsTypes DEF WriterApplies
<1>5. CASE WriterFails(w)
  BY <1>5 DEF WriterFails
<1> QED
  BY <1>1, <1>2, <1>3, <1>4, <1>5 DEF WriterStep

\* What a catch-up does to its own variables when it ends.
LEMMA ClosingKeepsTypes ==
  ASSUME TypeOK, NEW c \in CatchUps, Closes(c), Move(c, "idle")
  PROVE  /\ lock' \in Writer \cup CatchUps \cup {Free}
         /\ pc' \in [Process -> {"idle", "append", "insert", "apply", "probe", "merge", "clear",
                                 "unmark", "read", "next", "done", "dead", "away"}]
         /\ at' \in [Process -> Writer]
         /\ copy' \in [Process -> Seq(Line)]
         /\ pos' \in [Process -> Nat]
         /\ todo' \in [Process -> SUBSET Writer]
<1> USE DEF TypeOK, Closes, Move, Release
<1>1. <<>> \in Seq(Line)
  OBVIOUS
<1>2. copy' \in [Process -> Seq(Line)]
  BY <1>1
<1>3. at' \in [Process -> Writer]
  BY EventIndexAssumption
<1> QED
  BY <1>2, <1>3

LEMMA CatchUpStepKeepsTypes ==
  ASSUME TypeOK, NEW c \in CatchUps, CatchUpStep(c)
  PROVE  TypeOK'
<1> USE DEF TypeOK, Process, Is, Move, Release, Closes, fileVars, indexVars, ownVars, history
<1>1. CASE Opens(c)
  BY <1>1 DEF Opens
<1>2. CASE Probes(c)
  <2> DEFINE line == copy[c][pos[c] + 1]
  <2>1. line \in Line
    BY <1>2 DEF Probes
  <2>2. line.ok => line.by \in Writer
    BY <2>1, LineFacts
  <2>3. at' \in [Process -> Writer]
    BY <1>2, <2>2 DEF Probes
  <2>4. pos' \in [Process -> Nat]
    <3>1. pos' = pos \/ pos' = [pos EXCEPT ![c] = pos[c] + 1]
      BY <1>2 DEF Probes
    <3>2. pos \in [Process -> Nat] /\ pos[c] \in Nat
      BY <1>2
    <3> HIDE DEF TypeOK, Process
    <3> QED
      BY <3>1, <3>2
  <2>5. pc' = pc \/ pc' = [pc EXCEPT ![c] = "insert"]
    BY <1>2 DEF Probes
  <2>6. pc' \in [Process -> {"idle", "append", "insert", "apply", "probe", "merge", "clear",
                             "unmark", "read", "next", "done", "dead", "away"}]
    BY <2>5
  <2> QED
    BY <1>2, <2>3, <2>4, <2>6 DEF Probes
<1>3. CASE CatchUpInserts(c)
  BY <1>3, InsertKeepsTypes DEF CatchUpInserts
<1>4. CASE CatchUpApplies(c)
  BY <1>4, ApplyKeepsTypes DEF CatchUpApplies
<1>5. CASE Marks(c)
  <2>1. NoMark \in [end : Nat, last : Line]
    BY DEF NoMark, Line
  <2>2. pos[c] # 0 /\ ~(pos[c] > Len(log)) => log[pos[c]] \in Line
    OBVIOUS
  <2>3. mark' \in [end : Nat, last : Line]
    BY <1>5, <2>1, <2>2 DEF Marks
  <2>4. Closes(c) /\ Move(c, "idle")
    BY <1>5 DEF Marks
  <2> QED
    BY <1>5, <2>3, <2>4, ClosingKeepsTypes DEF Marks
<1>6. CASE GivesUp(c)
  BY <1>6, ClosingKeepsTypes DEF GivesUp
<1> QED
  BY <1>1, <1>2, <1>3, <1>4, <1>5, <1>6 DEF CatchUpStep

LEMMA RebuildStepKeepsTypes ==
  ASSUME TypeOK, NEW r \in Rebuilders, RebuildStep(r)
  PROVE  TypeOK'
<1> USE DEF TypeOK, Process, Is, Move, Release, fileVars, indexVars, ownVars, history
<1>1. CASE ReadsLog(r)
  <2>1. HalfLine \in Line
    BY DEF Line
  <2> QED
    BY <1>1, <2>1 DEF ReadsLog
<1>2. CASE Merges(r)
  <2>1. PICK s \in InOrder({copy[r][i] : i \in DOMAIN copy[r]} \cup Brought) :
          \/ log' = s /\ torn' = FALSE /\ Move(r, "clear")
          \/ /\ \E n \in 0..Len(s) : log' = SubSeq(s, 1, n) /\ torn' \in {FALSE, n < Len(s)}
             /\ Move(r, "dead")
    BY <1>2 DEF Merges
  <2>2. copy[r] \in Seq(Line)
    OBVIOUS
  <2>3. s \in Seq(Line)
    BY <2>1, <2>2, MergeIsASequence
  <2>4. log' \in Seq(Line) /\ torn' \in BOOLEAN
    <3>1. \A n \in 0..Len(s) : SubSeq(s, 1, n) \in Seq(Line) /\ (n < Len(s)) \in BOOLEAN
      BY <2>3
    <3>2. CASE log' = s /\ torn' = FALSE
      BY <2>3, <3>2
    <3>3. ASSUME NEW n \in 0..Len(s), log' = SubSeq(s, 1, n), torn' \in {FALSE, n < Len(s)}
          PROVE  log' \in Seq(Line) /\ torn' \in BOOLEAN
      BY <3>1, <3>3
    <3> QED
      BY <2>1, <3>2, <3>3
  <2>5. pc' \in [Process -> {"idle", "append", "insert", "apply", "probe", "merge", "clear",
                             "unmark", "read", "next", "done", "dead", "away"}]
    BY <2>1
  <2>6. Readable' \subseteq Writer
    BY <2>4, ReadableAreWriters, LineFacts DEF Readable, Lines
  <2>7. written' \subseteq Writer
    BY <1>2, <2>6 DEF Merges
  <2> QED
    BY <1>2, <2>4, <2>5, <2>7 DEF Merges
<1>3. CASE Clears(r)
  <2>1. NoRow \in RowType
    BY DEF NoRow, RowType
  <2> QED
    BY <1>3, <2>1 DEF Clears
<1>9. CASE Unmarks(r)
  <2>1. NoMark \in [end : Nat, last : Line]
    BY DEF NoMark, Line
  <2> QED
    BY <1>9, <2>1 DEF Unmarks
<1>4. CASE ReadsAll(r)
  BY <1>4, ReadableAreWriters DEF ReadsAll
<1>5. CASE Takes(r)
  BY <1>5 DEF Takes
<1>6. CASE RebuildInserts(r)
  BY <1>6, InsertKeepsTypes DEF RebuildInserts
<1>7. CASE RebuildApplies(r)
  BY <1>7, ApplyKeepsTypes DEF RebuildApplies
<1>8. CASE RebuildEnds(r)
  BY <1>8 DEF RebuildEnds
<1> QED
  BY <1>1, <1>2, <1>3, <1>4, <1>5, <1>6, <1>7, <1>8, <1>9 DEF RebuildStep

LEMMA KilledKeepsTypes ==
  ASSUME TypeOK, NEW p \in Process, Killed(p)
  PROVE  TypeOK'
BY EventIndexAssumption DEF TypeOK, Killed, Is, Move, Release, fileVars, indexVars, ownVars, history

\* Every variable has its type, in particular: what is in the index, what a
\* rebuild has still to do and whose line anyone indexes is always a writer's.
THEOREM EventIndexTypeCorrect == Spec => []TypeOK
<1>1. Init => TypeOK
  BY TypeInit
<1>2. TypeOK /\ [Next]_vars => TypeOK'
  <2> SUFFICES ASSUME TypeOK, [Next]_vars PROVE TypeOK'
    OBVIOUS
  <2>1. CASE UNCHANGED vars
    BY <2>1 DEF TypeOK, vars, fileVars, indexVars, ownVars, history
  <2>2. CASE Next
    BY <2>2, WriterStepKeepsTypes, CatchUpStepKeepsTypes, RebuildStepKeepsTypes,
       KilledKeepsTypes DEF Next
  <2> QED
    BY <2>1, <2>2
<1> QED
  BY <1>1, <1>2, PTL DEF Spec

(***************************************************************************)
(* A user's forget                                                         *)
(***************************************************************************)
\* The row changes only where someone indexes or a rebuild clears.
LEMMA WhoTouchesTheRow ==
  ASSUME [Next]_vars
  PROVE  \/ UNCHANGED row
         \/ \E p \in Process : InsertsRow(p) \/ Applies(p)
         \/ \E r \in Rebuilders : Clears(r)
<1> USE DEF indexVars, Process
<1>1. CASE UNCHANGED vars
  BY <1>1 DEF vars
<1>2. ASSUME NEW w \in Writer, WriterStep(w)
      PROVE  UNCHANGED row \/ InsertsRow(w) \/ Applies(w)
  BY <1>2 DEF WriterStep, Mint, Appends, WriterInserts, WriterApplies, WriterFails
<1>3. ASSUME NEW c \in CatchUps, CatchUpStep(c)
      PROVE  UNCHANGED row \/ InsertsRow(c) \/ Applies(c)
  BY <1>3 DEF CatchUpStep, Opens, Probes, CatchUpInserts, CatchUpApplies, Marks, GivesUp
<1>4. ASSUME NEW r \in Rebuilders, RebuildStep(r)
      PROVE  UNCHANGED row \/ InsertsRow(r) \/ Applies(r) \/ Clears(r)
  BY <1>4 DEF RebuildStep, ReadsLog, Merges, Unmarks, ReadsAll, Takes, RebuildInserts, RebuildApplies,
     RebuildEnds
<1>5. ASSUME NEW p \in Process, Killed(p) PROVE UNCHANGED row
  BY <1>5 DEF Killed
<1> QED
  BY <1>1, <1>2, <1>3, <1>4, <1>5 DEF Next

\* A row that is not there has no mark to lose: the row appears unmarked.
AbsentIsBlank == ~row.here => row = NoRow

LEMMA AbsentIsBlankStep ==
  ASSUME TypeOK, AbsentIsBlank, [Next]_vars
  PROVE  AbsentIsBlank'
<1> USE DEF AbsentIsBlank, indexVars
<1>1. ASSUME NEW p \in Process, InsertsRow(p) PROVE AbsentIsBlank'
  BY <1>1 DEF InsertsRow, WithRow, NoRow, TypeOK, RowType
<1>2. ASSUME NEW p \in Process, Applies(p) PROVE AbsentIsBlank'
  BY <1>2 DEF Applies, Revised, TypeOK, RowType
<1>3. CASE UNCHANGED row
  BY <1>3
<1>4. ASSUME NEW r \in Rebuilders, Clears(r) PROVE AbsentIsBlank'
  BY <1>4 DEF Clears
<1> QED
  BY <1>1, <1>2, <1>3, <1>4, WhoTouchesTheRow

\* Neither statement of index_event lowers it, whichever line is indexed.
LEMMA IndexingKeepsAForget ==
  ASSUME TypeOK, AbsentIsBlank, NEW p \in Process, row.forgotten = 1
  PROVE  /\ InsertsRow(p) => row'.forgotten = 1
         /\ Applies(p) => row'.forgotten = 1
<1> USE DEF TypeOK, RowType
<1>1. row.here
  BY DEF AbsentIsBlank, NoRow
<1>2. InsertsRow(p) => row'.forgotten = 1
  BY <1>1 DEF InsertsRow, WithRow
<1>3. Applies(p) => row'.forgotten = 1
  BY DEF Applies, Revised
<1> QED
  BY <1>2, <1>3

\* A forget the user asked for stands until a rebuild takes the row away: no
\* cleanup, no restore and no line indexed late or twice lowers it.
THEOREM ForgetStands == Spec => ForgetIsFinal
<1>1. Init => AbsentIsBlank
  BY DEF Init, AbsentIsBlank
<1>2. TypeOK /\ AbsentIsBlank /\ [Next]_vars => AbsentIsBlank'
  BY AbsentIsBlankStep
<1>3. TypeOK /\ AbsentIsBlank /\ [Next]_vars => [ForgetStays]_vars
  BY WhoTouchesTheRow, IndexingKeepsAForget DEF ForgetStays
<1> QED
  BY <1>1, <1>2, <1>3, EventIndexTypeCorrect, PTL DEF Spec, ForgetIsFinal

(***************************************************************************)
(* A sync keeps to itself                                                  *)
(***************************************************************************)
\* Every sync that is there runs while no other process does and is not killed.
\* It is what some theorems below ask for: a writer that appends between the
\* reading and the writing of a merge loses its line.
SyncsApart == \A r \in Syncs : Is(r, "away") \/ r \in Alone \ Mortal

\* From the reading of the log to the clearing of the index nobody else works.
SyncIsAlone ==
  \A r \in Syncs : pc[r] \in {"merge", "clear", "unmark"} => \A q \in Process \ {r} : AtRest(q)

\* What the assumption on the constants says of who is who.
LEMMA NobodyIsTwo ==
  Writer \cap CatchUps = {} /\ Writer \cap Rebuilders = {} /\ CatchUps \cap Rebuilders = {}
BY EventIndexAssumption

Acts(p) ==
  \/ p \in Writer /\ WriterStep(p)
  \/ p \in CatchUps /\ CatchUpStep(p)
  \/ p \in Rebuilders /\ RebuildStep(p)
  \/ Killed(p)

LEMMA NextIsSomeone == Next => \E p \in Process : Acts(p)
BY DEF Next, Acts, Process

\* Who is at rest begins only in its turn.
LEMMA RestersBeginInTurn ==
  ASSUME NEW p \in Process, AtRest(p), Acts(p)
  PROVE  HasTheTurn(p)
<1> USE NobodyIsTwo DEF AtRest, Is
<1>1. ~Killed(p)
  BY DEF Killed
<1>2. CASE p \in Writer /\ WriterStep(p)
  BY <1>2 DEF WriterStep, Mint, Appends, WriterInserts, WriterApplies, WriterFails
<1>3. CASE p \in CatchUps /\ CatchUpStep(p)
  BY <1>3 DEF CatchUpStep, Opens, Probes, CatchUpInserts, CatchUpApplies, Marks, GivesUp
<1>4. CASE p \in Rebuilders /\ RebuildStep(p)
  BY <1>4 DEF RebuildStep, ReadsLog, Merges, Clears, Unmarks, ReadsAll, Takes, RebuildInserts, RebuildApplies,
     RebuildEnds
<1> QED
  BY <1>1, <1>2, <1>3, <1>4 DEF Acts

\* A step is of one process, and moves no other.
LEMMA OneMoves ==
  ASSUME TypeOK, NEW p \in Process, Acts(p)
  PROVE  \A q \in Process \ {p} : pc'[q] = pc[q]
<1> USE DEF TypeOK, Move
<1>1. CASE p \in Writer /\ WriterStep(p)
  BY <1>1 DEF WriterStep, Mint, Appends, WriterInserts, WriterApplies, WriterFails
<1>2. CASE p \in CatchUps /\ CatchUpStep(p)
  BY <1>2 DEF CatchUpStep, Opens, Probes, CatchUpInserts, CatchUpApplies, Marks, GivesUp
<1>3. CASE p \in Rebuilders /\ RebuildStep(p)
  BY <1>3 DEF RebuildStep, ReadsLog, Merges, Clears, Unmarks, ReadsAll, Takes, RebuildInserts, RebuildApplies,
     RebuildEnds
<1>4. CASE Killed(p)
  BY <1>4 DEF Killed
<1> QED
  BY <1>1, <1>2, <1>3, <1>4 DEF Acts

\* Who is away stays away, and nobody goes away.
LEMMA AwayStays ==
  ASSUME TypeOK, NEW p \in Process, Acts(p)
  PROVE  pc[p] # "away" /\ pc'[p] # "away"
<1> USE NobodyIsTwo DEF TypeOK, AtRest, Is, Move
<1>1. CASE p \in Writer /\ WriterStep(p)
  BY <1>1 DEF WriterStep, Mint, Appends, WriterInserts, WriterApplies, WriterFails
<1>2. CASE p \in CatchUps /\ CatchUpStep(p)
  BY <1>2 DEF CatchUpStep, Opens, Probes, CatchUpInserts, CatchUpApplies, Marks, GivesUp
<1>3. CASE p \in Rebuilders /\ RebuildStep(p)
  BY <1>3 DEF RebuildStep, ReadsLog, Merges, Clears, Unmarks, ReadsAll, Takes, RebuildInserts, RebuildApplies,
     RebuildEnds
<1>4. CASE Killed(p)
  BY <1>4 DEF Killed
<1> QED
  BY <1>1, <1>2, <1>3, <1>4 DEF Acts

\* The dead act no more.
LEMMA TheDeadRest ==
  ASSUME NEW p \in Process, Acts(p)
  PROVE  pc[p] # "dead"
BY NobodyIsTwo DEF Acts, Killed, AtRest, WriterStep, Mint, Appends, WriterInserts, WriterApplies, WriterFails,
   CatchUpStep, Opens, Probes, CatchUpInserts, CatchUpApplies, Marks, GivesUp,
   RebuildStep, ReadsLog, Merges, Clears, Unmarks, ReadsAll, Takes, RebuildInserts, RebuildApplies,
   RebuildEnds, Is

LEMMA SyncsStayApart ==
  ASSUME TypeOK, [Next]_vars, SyncsApart'
  PROVE  SyncsApart
<1>1. CASE UNCHANGED vars
  BY <1>1 DEF SyncsApart, Is, vars
<1>2. ASSUME NEW p \in Process, Acts(p) PROVE SyncsApart
  BY <1>2, OneMoves, AwayStays, EventIndexAssumption DEF SyncsApart, Is, Process
<1> QED
  BY <1>1, <1>2, NextIsSomeone

LEMMA NobodyDisturbsASync ==
  ASSUME SyncsApart, SyncIsAlone, NEW r \in Syncs,
         pc[r] \in {"merge", "clear", "unmark"}, NEW p \in Process, Acts(p)
  PROVE  p = r
<1> SUFFICES ASSUME p # r PROVE FALSE
  OBVIOUS
<1>1. AtRest(p) /\ ~AtRest(r) /\ r \in Process
  BY EventIndexAssumption DEF SyncIsAlone, AtRest, Process
<1>2. HasTheTurn(p)
  BY <1>1, RestersBeginInTurn
<1> QED
  BY <1>1, <1>2 DEF HasTheTurn, SyncsApart, Is

LEMMA SyncStaysAlone ==
  ASSUME TypeOK, SyncsApart, SyncIsAlone, NEW p \in Process, Acts(p)
  PROVE  SyncIsAlone'
<1> SUFFICES ASSUME NEW r \in Syncs, pc'[r] \in {"merge", "clear", "unmark"}, NEW q \in Process \ {r}
             PROVE  AtRest(q)'
  BY DEF SyncIsAlone
<1>1. r \in Rebuilders /\ r \in Process /\ r \notin Writer /\ r \notin CatchUps
  BY EventIndexAssumption DEF Process
<1>2. CASE pc[r] \in {"merge", "clear", "unmark"}
  <2>1. p = r
    BY <1>2, NobodyDisturbsASync
  <2> QED
    BY <1>2, <2>1, OneMoves DEF SyncIsAlone, AtRest
<1>3. CASE pc[r] \notin {"merge", "clear", "unmark"}
  <2>1. p = r
    BY <1>1, <1>3, OneMoves
  <2>2. ReadsLog(r)
    <3>1. RebuildStep(r)
      BY <1>1, <2>1 DEF Acts, Killed, Move, TypeOK
    <3> QED
      BY <1>1, <1>3, <3>1 DEF RebuildStep, Merges, Clears, Unmarks, ReadsAll, Takes, RebuildInserts,
         RebuildApplies,
         RebuildEnds, Is, Move, TypeOK
  <2>3. AtRest(q)
    BY <2>2 DEF ReadsLog, HasTheTurn, SyncsApart, Is
  <2> QED
    BY <2>1, <2>3, OneMoves DEF AtRest
<1> QED
  BY <1>2, <1>3

(***************************************************************************)
(* Whatever anyone indexes was in the log first                            *)
(***************************************************************************)
\* What is in the index, what a process has in hand and what it holds of the
\* log was in the log at some time.
WrittenFirst ==
  /\ Readable \subseteq written /\ rows \subseteq written
  /\ \A p \in Process : Is(p, "append") => p \in Writer /\ at[p] = p
  /\ \A p \in Process : pc[p] \in {"insert", "apply"} => at[p] \in written
  /\ \A p \in Process : \A i \in DOMAIN copy[p] : copy[p][i].ok => copy[p][i].by \in written
  /\ \A p \in Process : todo[p] \subseteq written

LEMMA ReadableFacts ==
  /\ \A i \in DOMAIN log : log[i].ok => log[i].by \in Readable
  /\ UNCHANGED log => Readable' = Readable
BY DEF Readable, Lines

\* An append adds nothing else to what can be read, whole or not.
LEMMA WhatAnAppendAdds ==
  ASSUME TypeOK, NEW w \in Writer, NEW b \in BOOLEAN, log' = Append(log, [by |-> w, ok |-> b])
  PROVE  Readable \subseteq Readable' /\ Readable' \subseteq Readable \cup {w}
<1> USE DEF TypeOK
<1>1. DOMAIN log \subseteq DOMAIN log' /\ \A i \in DOMAIN log : log'[i] = log[i]
  OBVIOUS
<1>2. \A i \in DOMAIN log' \ DOMAIN log : log'[i] = [by |-> w, ok |-> b]
  OBVIOUS
<1>3. Lines \subseteq Lines' /\ Lines' \subseteq Lines \cup {[by |-> w, ok |-> b]}
  BY <1>1, <1>2 DEF Lines
<1> QED
  BY <1>3 DEF Readable

\* An append of a whole line adds its id to what can be read.
LEMMA AppendIsReadable ==
  ASSUME log \in Seq(Line), NEW w \in Writer, log' = Append(log, [by |-> w, ok |-> TRUE])
  PROVE  Readable \subseteq Readable' /\ w \in Readable'
<1>1. DOMAIN log \subseteq DOMAIN log' /\ \A i \in DOMAIN log : log'[i] = log[i]
  OBVIOUS
<1>2. Len(log) + 1 \in DOMAIN log' /\ log'[Len(log) + 1] = [by |-> w, ok |-> TRUE]
  OBVIOUS
<1>3. Lines \subseteq Lines'
  BY <1>1 DEF Lines
<1>4. [by |-> w, ok |-> TRUE] \in Lines'
  BY <1>2 DEF Lines
<1> QED
  BY <1>3, <1>4 DEF Readable

LEMMA WritersWriteFirst ==
  ASSUME TypeOK, WrittenFirst, NEW w \in Writer, WriterStep(w)
  PROVE  WrittenFirst'
<1> USE DEF TypeOK, WrittenFirst, Process, Is, Move, fileVars, indexVars, ownVars, history
<1>1. CASE Mint(w)
  BY <1>1, ReadableFacts DEF Mint
<1>2. CASE Appends(w)
  <2>1. Readable' \subseteq Readable \cup {w}
    BY <1>2, WhatAnAppendAdds DEF Appends
  <2>2. at[w] = w
    BY <1>2 DEF Appends
  <2> QED
    BY <1>2, <2>1, <2>2 DEF Appends
<1>3. CASE WriterInserts(w)
  BY <1>3, ReadableFacts DEF WriterInserts, InsertsRow
<1>4. CASE WriterApplies(w)
  BY <1>4, ReadableFacts DEF WriterApplies
<1>5. CASE WriterFails(w)
  BY <1>5, ReadableFacts DEF WriterFails
<1> QED
  BY <1>1, <1>2, <1>3, <1>4, <1>5 DEF WriterStep

LEMMA ClosedCopies ==
  ASSUME TypeOK, NEW c \in CatchUps, Closes(c)
  PROVE  \A p \in Process : copy'[p] = copy[p] \/ DOMAIN copy'[p] = {}
<1>1. DOMAIN <<>> = {}
  OBVIOUS
<1>2. \A p \in Process : copy'[p] = copy[p] \/ copy'[p] = <<>>
  BY DEF TypeOK, Closes, Process
<1> QED
  BY <1>1, <1>2

LEMMA CatchUpsIndexWhatWasWritten ==
  ASSUME TypeOK, WrittenFirst, NEW c \in CatchUps, CatchUpStep(c)
  PROVE  WrittenFirst'
<1> USE NobodyIsTwo DEF TypeOK, WrittenFirst, Process, Is, Move, Closes, fileVars, indexVars, ownVars, history
<1>1. CASE Opens(c)
  BY <1>1, ReadableFacts DEF Opens
<1>2. CASE Probes(c)
  <2> DEFINE line == copy[c][pos[c] + 1]
  <2>1. copy[c] \in Seq(Line) /\ pos[c] \in Nat /\ pos[c] < Len(copy[c])
    BY <1>2 DEF Probes
  <2>2. pos[c] + 1 \in DOMAIN copy[c]
    BY <2>1
  <2>3. line.ok => line.by \in written
    BY <2>2
  <2>4. Readable' = Readable /\ UNCHANGED <<rows, written, copy, todo>>
    BY <1>2, ReadableFacts DEF Probes
  <2>5. \/ UNCHANGED <<pc, at>>
        \/ pc' = [pc EXCEPT ![c] = "insert"] /\ at' = [at EXCEPT ![c] = line.by] /\ line.ok
    BY <1>2 DEF Probes
  <2> HIDE DEF line
  <2> QED
    BY <2>3, <2>4, <2>5
<1>3. CASE CatchUpInserts(c)
  <2>1. at[c] \in written
    BY <1>3 DEF CatchUpInserts
  <2>2. rows' \subseteq written
    BY <1>3, <2>1 DEF CatchUpInserts, InsertsRow
  <2> QED
    BY <1>3, <2>2, ReadableFacts DEF CatchUpInserts
<1>4. CASE CatchUpApplies(c)
  BY <1>4, ReadableFacts DEF CatchUpApplies
<1>5. CASE Marks(c)
  BY <1>5, ReadableFacts, ClosedCopies DEF Marks
<1>6. CASE GivesUp(c)
  BY <1>6, ReadableFacts, ClosedCopies DEF GivesUp
<1> QED
  BY <1>1, <1>2, <1>3, <1>4, <1>5, <1>6 DEF CatchUpStep

\* As many different members as a set has are all of it: a merge by an uncut
\* sync writes every line there was.
LEMMA MergeIsOnto ==
  ASSUME NEW S, IsFiniteSet(S), NEW s \in InOrder(S)
  PROVE  \A x \in S : \E i \in DOMAIN s : s[i] = x
<1>1. Cardinality(S) \in Nat
  BY FS_CardinalityType
<1> DEFINE n == Cardinality(S)
<1>2. n \in Nat /\ s \in [1..n -> S] /\ \A i, j \in 1..n : i < j => s[i] # s[j]
  BY <1>1 DEF InOrder
<1>3. IsFiniteSet(1..n) /\ Cardinality(1..n) = n
  <2>1. 1 \in Int /\ n \in Int
    BY <1>2
  <2>2. IsFiniteSet(1..n) /\ Cardinality(1..n) = IF 1 > n THEN 0 ELSE n - 1 + 1
    BY <2>1, FS_Interval
  <2> QED
    BY <1>2, <2>2
<1> HIDE DEF n
<1>4. \A i, j \in 1..n : s[i] = s[j] => i = j
  BY <1>2
<1>5. s \in Injection(1..n, S)
  BY <1>2, <1>4 DEF Injection, IsInjective
<1>6. s \in Surjection(1..n, S)
  BY <1>3, <1>5, FS_Injection DEF n
<1> QED
  BY <1>2, <1>6 DEF Surjection

\* Half a line that a sync takes for one shows nothing.
LEMMA WhatASyncReads ==
  ASSUME NEW s \in Seq(Line), NEW t \in {s, Append(s, HalfLine)}
  PROVE  /\ \A i \in DOMAIN t : t[i].ok => i \in DOMAIN s /\ t[i] = s[i]
         /\ \A i \in DOMAIN s : i \in DOMAIN t /\ t[i] = s[i]
<1>1. CASE t = s
  BY <1>1
<1>2. CASE t = Append(s, HalfLine)
  <2>1. DOMAIN s = 1..Len(s) /\ DOMAIN t = 1..(Len(s) + 1) /\ Len(s) \in Nat
    BY <1>2
  <2>2. \A i \in 1..Len(s) : t[i] = s[i]
    BY <1>2
  <2>3. t[Len(s) + 1] = HalfLine
    BY <1>2
  <2>4. ~HalfLine.ok
    BY DEF HalfLine
  <2> QED
    BY <2>1, <2>2, <2>3, <2>4
<1> QED
  BY <1>1, <1>2

LEMMA RebuildsIndexWhatWasWritten ==
  ASSUME TypeOK, WrittenFirst, NEW r \in Rebuilders, RebuildStep(r)
  PROVE  WrittenFirst'
<1> USE NobodyIsTwo DEF TypeOK, WrittenFirst, Process, Is, Move, fileVars, indexVars, ownVars, history
<1>1. CASE ReadsLog(r)
  <2>1. \A i \in DOMAIN copy'[r] : copy'[r][i].ok => copy'[r][i].by \in written
    <3>1. copy'[r] \in {log, Append(log, HalfLine)}
      BY <1>1 DEF ReadsLog
    <3>4. log \in Seq(Line)
      OBVIOUS
    <3>2. \A i \in DOMAIN copy'[r] : copy'[r][i].ok => i \in DOMAIN log /\ copy'[r][i] = log[i]
      <4> HIDE DEF TypeOK, WrittenFirst
      <4> QED
        BY <3>1, <3>4, WhatASyncReads
    <3>3. \A i \in DOMAIN log : log[i].ok => log[i].by \in written
      BY ReadableFacts
    <3> HIDE DEF TypeOK, WrittenFirst
    <3> QED
      BY <3>2, <3>3
  <2>2. \A p \in Process \ {r} : copy'[p] = copy[p]
    BY <1>1 DEF ReadsLog
  <2>3. Readable' = Readable /\ UNCHANGED <<rows, at, todo, written>> /\ pc' = [pc EXCEPT ![r] = "merge"]
    BY <1>1, ReadableFacts DEF ReadsLog
  <2> QED
    BY <2>1, <2>2, <2>3
<1>2. CASE Merges(r)
  <2>1. written' = written \cup Readable' /\ UNCHANGED <<rows, at, todo>>
    BY <1>2 DEF Merges
  <2>2. pc' \in {[pc EXCEPT ![r] = "clear"], [pc EXCEPT ![r] = "dead"]}
    BY <1>2 DEF Merges
  <2>3. copy' = [copy EXCEPT ![r] = <<>>] /\ DOMAIN <<>> = {}
    BY <1>2 DEF Merges
  <2>4. \A p \in Process : copy'[p] = copy[p] \/ DOMAIN copy'[p] = {}
    BY <2>3
  <2> QED
    BY <2>1, <2>2, <2>4
<1>3. CASE Clears(r)
  BY <1>3, ReadableFacts DEF Clears
<1>4. CASE Unmarks(r)
  BY <1>4, ReadableFacts DEF Unmarks
<1>5. CASE ReadsAll(r)
  BY <1>5, ReadableFacts DEF ReadsAll
<1>6. CASE Takes(r)
  <2>1. PICK w \in todo[r] : /\ at' = [at EXCEPT ![r] = w]
                             /\ todo' = [todo EXCEPT ![r] = @ \ {w}]
    BY <1>6 DEF Takes
  <2>2. w \in written /\ Readable' = Readable
    BY <1>6, ReadableFacts DEF Takes
  <2>3. \A p \in Process : todo'[p] \subseteq todo[p]
    BY <2>1
  <2>4. pc' = [pc EXCEPT ![r] = "insert"] /\ UNCHANGED <<rows, written, copy>>
    BY <1>6 DEF Takes
  <2> QED
    BY <2>1, <2>2, <2>3, <2>4
<1>7. CASE RebuildInserts(r)
  <2>1. at[r] \in written
    BY <1>7 DEF RebuildInserts
  <2>2. rows' \subseteq written
    BY <1>7, <2>1 DEF RebuildInserts, InsertsRow
  <2> QED
    BY <1>7, <2>2, ReadableFacts DEF RebuildInserts
<1>8. CASE RebuildApplies(r)
  BY <1>8, ReadableFacts DEF RebuildApplies
<1>9. CASE RebuildEnds(r)
  BY <1>9, ReadableFacts DEF RebuildEnds
<1> QED
  BY <1>1, <1>2, <1>3, <1>4, <1>5, <1>6, <1>7, <1>8, <1>9 DEF RebuildStep

LEMMA KillsWriteNothing ==
  ASSUME TypeOK, WrittenFirst, NEW p \in Process, Killed(p)
  PROVE  WrittenFirst'
BY ReadableFacts DEF TypeOK, WrittenFirst, Is, Move, Killed, indexVars, ownVars, history

LEMMA WrittenFirstInvariant == Spec => []WrittenFirst
<1>1. Init => WrittenFirst
  <2> SUFFICES ASSUME Init PROVE WrittenFirst
    OBVIOUS
  <2>1. DOMAIN <<>> = {}
    OBVIOUS
  <2>2. \A p \in Process : DOMAIN copy[p] = {} /\ todo[p] = {} /\ pc[p] \in {"idle", "away"}
    BY <2>1 DEF Init
  <2>3. Readable = {} /\ rows = {}
    BY <2>1 DEF Init, Readable, Lines
  <2> QED
    BY <2>2, <2>3 DEF WrittenFirst, Is
<1>2. TypeOK /\ WrittenFirst /\ [Next]_vars => WrittenFirst'
  <2> SUFFICES ASSUME TypeOK, WrittenFirst, [Next]_vars PROVE WrittenFirst'
    OBVIOUS
  <2>1. CASE UNCHANGED vars
    BY <2>1, ReadableFacts DEF WrittenFirst, Is, vars, fileVars, indexVars, ownVars, history
  <2>2. CASE Next
    BY <2>2, WritersWriteFirst, CatchUpsIndexWhatWasWritten, RebuildsIndexWhatWasWritten, KillsWriteNothing
       DEF Next
  <2> QED
    BY <2>1, <2>2
<1> QED
  BY <1>1, <1>2, EventIndexTypeCorrect, PTL DEF Spec

\* The index holds nothing that was not in the log before, whatever merges,
\* tears or is killed: what a rebuild could not give it again, the log has lost.
THEOREM IndexHoldsOnlyTheLog == Spec => []IndexIsDerived
<1>1. WrittenFirst => IndexIsDerived
  BY DEF WrittenFirst, IndexIsDerived, Lost
<1> QED
  BY <1>1, WrittenFirstInvariant, PTL

(***************************************************************************)
(* What the log loses                                                      *)
(***************************************************************************)
\* Who a sequence of lines shows.
Shown(s) == {w \in Writer : \E i \in DOMAIN s : s[i].ok /\ s[i].by = w}
Foreigners == {w \in Writer : Kind[w] = Foreign}

LEMMA ReadableIsShown ==
  ASSUME TypeOK
  PROVE  Readable = Shown(log)
BY LineFacts DEF TypeOK, Readable, Lines, Shown

\* A whole merge shows what the sync has read, what it brings, and no more.
LEMMA WhatAMergeShows ==
  ASSUME NEW s \in Seq(Line), NEW t \in InOrder({s[i] : i \in DOMAIN s} \cup Brought)
  PROVE  Shown(t) = Shown(s) \cup Foreigners
<1> DEFINE S == {s[i] : i \in DOMAIN s} \cup Brought
<1>1. IsFiniteSet(S)
  BY LinesAreFinite
<1>2. \A x \in S : \E i \in DOMAIN t : t[i] = x
  BY <1>1, MergeIsOnto
<1>3. \A i \in DOMAIN t : t[i] \in S
  <2>1. Cardinality(S) \in Nat
    BY <1>1, FS_CardinalityType
  <2>2. t \in [1..Cardinality(S) -> S]
    BY DEF InOrder
  <2> HIDE DEF S
  <2> QED
    BY <2>2
<1>4. Shown(t) = {w \in Writer : \E x \in S : x.ok /\ x.by = w}
  BY <1>2, <1>3 DEF Shown
<1>5. {w \in Writer : \E x \in Brought : x.ok /\ x.by = w} = Foreigners
  <2>1. \A x \in Brought : x.ok /\ x.by \in Foreigners
    BY DEF Brought, Foreigners
  <2>2. \A w \in Foreigners : [by |-> w, ok |-> TRUE] \in Brought
    BY DEF Brought, Foreigners
  <2>3. \A w \in Foreigners : w \in Writer /\ \E x \in Brought : x.ok /\ x.by = w
    BY <2>2 DEF Foreigners
  <2> QED
    BY <2>1, <2>3
<1>6. {w \in Writer : \E x \in {s[i] : i \in DOMAIN s} : x.ok /\ x.by = w} = Shown(s)
  BY DEF Shown
<1> QED
  BY <1>4, <1>5, <1>6

NoSyncDied == \A r \in Syncs : ~Is(r, "dead")

\* A sync holds what the log shows, but for what was appended beside a sync.
SyncsHoldTheLog ==
  \A r \in Syncs : Is(r, "merge") =>
    Shown(copy[r]) \ (beside \cup Foreigners) = Readable \ (beside \cup Foreigners)

\* What a sync has brought stays; each other writer appends at most once, after
\* it minted.
BroughtStays == written \cap Foreigners \subseteq Readable
AppendOnce ==
  \A w \in Writer :
    /\ pc[w] = "idle" /\ w \notin Foreigners => w \notin written
    /\ pc[w] = "append" => w \notin written /\ w \notin Foreigners /\ born[w] # 0
    /\ born[w] # 0 => w \notin Foreigners

\* Each line that was spoiled used up the half line of somebody killed.
Spoiled == Lost \ beside
Balanced ==
  /\ torn => Cardinality(Spoiled) + 1 <= Cardinality(KilledInAppend)
  /\ Cardinality(Spoiled) <= Cardinality(KilledInAppend)

LossInv == SyncsHoldTheLog /\ BroughtStays /\ Balanced

LEMMA LossSetsAreFinite ==
  ASSUME TypeOK
  PROVE  /\ IsFiniteSet(Spoiled) /\ IsFiniteSet(KilledInAppend)
         /\ Cardinality(Spoiled) \in Nat /\ Cardinality(KilledInAppend) \in Nat
<1>1. Spoiled \subseteq Writer /\ KilledInAppend \subseteq Writer
  BY DEF TypeOK, Spoiled, Lost, KilledInAppend
<1> QED
  BY <1>1, EventIndexAssumption, FS_Subset, FS_CardinalityType

\* A process's own variables are its own.
LEMMA OthersKeepTheirs ==
  ASSUME TypeOK, NEW p \in Process, Acts(p), NEW q \in Process \ {p}
  PROVE  at'[q] = at[q] /\ copy'[q] = copy[q] /\ pos'[q] = pos[q]
<1> USE DEF TypeOK, Move, ownVars, history
<1>1. CASE p \in Writer /\ WriterStep(p)
  BY <1>1 DEF WriterStep, Mint, Appends, WriterInserts, WriterApplies, WriterFails
<1>2. CASE p \in CatchUps /\ CatchUpStep(p)
  <2>1. CASE Marks(p) \/ GivesUp(p)
    BY <2>1 DEF Marks, GivesUp, Closes
  <2>2. CASE Probes(p)
    BY <2>2 DEF Probes
  <2> QED
    BY <1>2, <2>1, <2>2 DEF CatchUpStep, Opens, CatchUpInserts, CatchUpApplies
<1>3. CASE p \in Rebuilders /\ RebuildStep(p)
  BY <1>3 DEF RebuildStep, ReadsLog, Merges, Clears, Unmarks, ReadsAll, Takes, RebuildInserts, RebuildApplies,
     RebuildEnds
<1>4. CASE Killed(p)
  BY <1>4 DEF Killed
<1> QED
  BY <1>1, <1>2, <1>3, <1>4 DEF Acts

LEMMA MergesMerges ==
  ASSUME TypeOK, TypeOK', NEW r \in Rebuilders, Merges(r), pc'[r] # "dead"
  PROVE  /\ r \in Syncs /\ Is(r, "merge") /\ pc'[r] = "clear"
         /\ Readable' = Shown(copy[r]) \cup Foreigners /\ ~torn'
         /\ written' = written \cup Readable' /\ UNCHANGED <<born, beside>>
<1>1. r \in Syncs /\ Is(r, "merge") /\ written' = written \cup Readable' /\ UNCHANGED <<born, beside>>
  BY DEF Merges
<1>2. r \in Process
  BY DEF Process
<1>3. PICK s \in InOrder({copy[r][i] : i \in DOMAIN copy[r]} \cup Brought) :
         log' = s /\ torn' = FALSE /\ Move(r, "clear")
  BY <1>2 DEF Merges, Move, TypeOK
<1>4. copy[r] \in Seq(Line)
  BY <1>2 DEF TypeOK
<1>5. Shown(s) = Shown(copy[r]) \cup Foreigners
  BY <1>4, WhatAMergeShows
<1>6. Readable' = Shown(log')
  BY LineFacts DEF TypeOK, Readable, Lines, Shown
<1> QED
  BY <1>1, <1>2, <1>3, <1>5, <1>6 DEF Move, TypeOK

\* Even the first part of a merge shows no more.
LEMMA MergeShowsNoMore ==
  ASSUME TypeOK, TypeOK', WrittenFirst, NEW r \in Rebuilders, Merges(r)
  PROVE  Readable' \subseteq written \cup Foreigners
<1>1. r \in Process
  BY DEF Process
<1>2. PICK s \in InOrder({copy[r][i] : i \in DOMAIN copy[r]} \cup Brought) :
         log' = s \/ \E n \in 0..Len(s) : log' = SubSeq(s, 1, n)
  BY DEF Merges
<1>10. copy[r] \in Seq(Line)
  BY <1>1 DEF TypeOK
<1>3. copy[r] \in Seq(Line) /\ s \in Seq(Line)
  BY <1>10, MergeIsASequence
<1>4. \A i \in DOMAIN log' : i \in DOMAIN s /\ log'[i] = s[i]
  BY <1>2, <1>3
<1>5. Readable' = Shown(log')
  BY LineFacts DEF TypeOK, Readable, Lines, Shown
<1>6. Shown(log') \subseteq Shown(s)
  BY <1>4 DEF Shown
<1>7. Shown(s) = Shown(copy[r]) \cup Foreigners
  BY <1>3, WhatAMergeShows
<1>8. Shown(copy[r]) \subseteq written
  BY <1>1 DEF Shown, WrittenFirst
<1> QED
  BY <1>5, <1>6, <1>7, <1>8

\* What all steps but an append and a merge leave alone.
LEMMA WhoWrites ==
  ASSUME NEW p \in Process, Acts(p), ~(p \in Writer /\ Appends(p)), ~(p \in Rebuilders /\ Merges(p))
  PROVE  UNCHANGED <<log, written, beside>> /\ (~Killed(p) => torn' = torn)
BY DEF Acts, Killed, WriterStep, Mint, WriterInserts, WriterApplies, WriterFails,
   CatchUpStep, Opens, Probes, CatchUpInserts, CatchUpApplies, Marks, GivesUp,
   RebuildStep, ReadsLog, Clears, Unmarks, ReadsAll, Takes, RebuildInserts, RebuildApplies, RebuildEnds,
   fileVars, history

LEMMA AppendOnceStep ==
  ASSUME TypeOK, TypeOK', WrittenFirst, AppendOnce, NEW p \in Process, Acts(p)
  PROVE  AppendOnce'
<1> USE NobodyIsTwo DEF TypeOK
<1>1. written' \subseteq written \cup Foreigners \cup {w \in Writer : w = p /\ pc'[w] \notin {"idle", "append"}}
  <2>1. CASE p \in Writer /\ Appends(p)
    BY <2>1 DEF Appends, Move
  <2>2. CASE p \in Rebuilders /\ Merges(p)
    <3>1. Readable' \subseteq written \cup Foreigners
      BY <2>2, MergeShowsNoMore DEF WrittenFirst
    <3> QED
      BY <2>2, <3>1 DEF Merges
  <2> QED
    BY <2>1, <2>2, WhoWrites
<1>2. ASSUME NEW w \in Writer, w # p PROVE pc'[w] = pc[w] /\ born'[w] = born[w]
  <2>1. pc'[w] = pc[w]
    BY <1>2, OneMoves DEF Process
  <2>2. UNCHANGED born \/ (p \in Writer /\ Mint(p))
    BY DEF Acts, Killed, WriterStep, Appends, WriterInserts, WriterApplies, WriterFails,
       CatchUpStep, Opens, Probes, CatchUpInserts, CatchUpApplies, Marks, GivesUp,
       RebuildStep, ReadsLog, Merges, Clears, Unmarks, ReadsAll, Takes, RebuildInserts, RebuildApplies,
       RebuildEnds
  <2> QED
    BY <1>2, <2>1, <2>2 DEF Mint
<1>3. ASSUME p \in Writer
      PROVE  \/ UNCHANGED born /\ pc'[p] \notin {"idle", "append"}
             \/ born'[p] # 0 /\ pc[p] = "idle" /\ pc'[p] = "append" /\ p \notin Foreigners /\ UNCHANGED written
  <2>1. CASE Mint(p)
    BY <1>3, <2>1, MintedIsNat DEF Mint, Is, Move, Foreigners, history
  <2> QED
    BY <1>3, <2>1 DEF Acts, Killed, WriterStep, Appends, WriterInserts, WriterApplies, WriterFails, Is, Move
<1> QED
  BY <1>1, <1>2, <1>3 DEF AppendOnce

LEMMA SyncsHoldTheLogStep ==
  ASSUME TypeOK, TypeOK', SyncsHoldTheLog, NoSyncDied', NEW p \in Process, Acts(p)
  PROVE  SyncsHoldTheLog'
<1> SUFFICES ASSUME NEW r \in Syncs, Is(r, "merge")'
             PROVE  Shown(copy'[r]) \ (beside' \cup Foreigners) = Readable' \ (beside' \cup Foreigners)
  BY DEF SyncsHoldTheLog, Shown
<1>1. r \in Rebuilders /\ r \in Process /\ r \notin Writer /\ r \notin CatchUps
  BY EventIndexAssumption DEF Process
<1>2. CASE p = r
  <2>1. ReadsLog(r)
    BY <1>1, <1>2, NobodyIsTwo DEF Acts, Killed, RebuildStep, Merges, Clears, Unmarks, ReadsAll, Takes,
       RebuildInserts,
       RebuildApplies, RebuildEnds, Is, Move, TypeOK
  <2>2. copy'[r] \in {log, Append(log, HalfLine)} /\ UNCHANGED <<log, beside>>
    BY <1>1, <2>1 DEF ReadsLog, TypeOK, fileVars, history
  <2>3. log \in Seq(Line)
    BY DEF TypeOK
  <2>4. Shown(copy'[r]) = Shown(log)
    BY <2>2, <2>3, WhatASyncReads DEF Shown
  <2> QED
    BY <2>2, <2>4, ReadableIsShown, ReadableFacts
<1>3. CASE p # r
  <2>1. Is(r, "merge") /\ copy'[r] = copy[r]
    BY <1>1, <1>3, OneMoves, OthersKeepTheirs DEF Is
  <2>2. Shown(copy[r]) \ (beside \cup Foreigners) = Readable \ (beside \cup Foreigners)
    BY <2>1 DEF SyncsHoldTheLog
  <2>3. CASE p \in Writer /\ Appends(p)
    <3>1. Readable \subseteq Readable' /\ Readable' \subseteq Readable \cup {p}
      BY <2>3, WhatAnAppendAdds DEF Appends, TypeOK
    <3>2. beside' = beside \cup {p}
      BY <2>1, <2>3 DEF Appends
    <3> QED
      BY <2>1, <2>2, <3>1, <3>2
  <2>4. CASE p \in Rebuilders /\ Merges(p)
    <3>1. pc'[p] # "dead"
      BY <2>4 DEF NoSyncDied, Merges, Is
    <3>2. Readable' = Shown(copy[p]) \cup Foreigners /\ p \in Syncs /\ Is(p, "merge") /\ beside' = beside
      BY <2>4, <3>1, MergesMerges
    <3>3. Shown(copy[p]) \ (beside \cup Foreigners) = Readable \ (beside \cup Foreigners)
      BY <3>2 DEF SyncsHoldTheLog
    <3> QED
      BY <2>1, <2>2, <3>2, <3>3
  <2>5. CASE ~(p \in Writer /\ Appends(p)) /\ ~(p \in Rebuilders /\ Merges(p))
    BY <2>1, <2>2, <2>5, WhoWrites, ReadableFacts
  <2> QED
    BY <2>3, <2>4, <2>5
<1> QED
  BY <1>2, <1>3

\* The dead stay dead, and wrote nothing.
LEMMA TheDeadRemain ==
  ASSUME TypeOK, TypeOK', WrittenFirst, AppendOnce, NEW p \in Process, Acts(p)
  PROVE  KilledInAppend \subseteq KilledInAppend'
<1> SUFFICES ASSUME NEW w \in KilledInAppend PROVE w \in KilledInAppend'
  OBVIOUS
<1>1. w \in Writer /\ w \in Process /\ pc[w] = "dead" /\ born[w] # 0 /\ w \notin written /\ w \notin Foreigners
  BY DEF KilledInAppend, Is, AppendOnce, Process
<1>2. w # p
  BY <1>1, TheDeadRest
<1>3. pc'[w] = "dead"
  BY <1>1, <1>2, OneMoves
<1>4. born'[w] # 0 /\ w \notin written'
  <2>1. AppendOnce'
    BY AppendOnceStep
  <2>2. CASE p \in Writer /\ Appends(p)
    BY <1>1, <1>2, <2>2 DEF Appends
  <2>3. CASE p \in Rebuilders /\ Merges(p)
    BY <1>1, <2>3, MergeShowsNoMore DEF Merges, WrittenFirst
  <2>4. UNCHANGED born \/ (p \in Writer /\ Mint(p))
    BY DEF Acts, Killed, WriterStep, Appends, WriterInserts, WriterApplies, WriterFails,
       CatchUpStep, Opens, Probes, CatchUpInserts, CatchUpApplies, Marks, GivesUp,
       RebuildStep, ReadsLog, Merges, Clears, Unmarks, ReadsAll, Takes, RebuildInserts, RebuildApplies,
       RebuildEnds
  <2>5. born'[w] # 0
    BY <1>1, <1>2, <2>4 DEF Mint, TypeOK
  <2> QED
    BY <1>1, <2>2, <2>3, <2>5, WhoWrites
<1> QED
  BY <1>1, <1>3, <1>4 DEF KilledInAppend, Is

LEMMA BalancedStep ==
  ASSUME TypeOK, TypeOK', WrittenFirst, AppendOnce, LossInv, NoSyncDied', NEW p \in Process, Acts(p)
  PROVE  Balanced' /\ BroughtStays'
<1> USE DEF LossInv, Balanced, BroughtStays
<1>1. /\ IsFiniteSet(Spoiled) /\ Cardinality(Spoiled) \in Nat
      /\ IsFiniteSet(KilledInAppend) /\ Cardinality(KilledInAppend) \in Nat
  BY LossSetsAreFinite
<1>2. /\ IsFiniteSet(Spoiled') /\ Cardinality(Spoiled') \in Nat
      /\ IsFiniteSet(KilledInAppend') /\ Cardinality(KilledInAppend') \in Nat
  <2>1. Spoiled' \subseteq Writer /\ KilledInAppend' \subseteq Writer
    BY DEF TypeOK, Spoiled, Lost, KilledInAppend
  <2> QED
    BY <2>1, EventIndexAssumption, FS_Subset, FS_CardinalityType
<1>3. Cardinality(KilledInAppend) <= Cardinality(KilledInAppend')
  BY <1>2, TheDeadRemain, FS_Subset
<1>4. Spoiled' \subseteq Spoiled => Cardinality(Spoiled') <= Cardinality(Spoiled)
  BY <1>1, FS_Subset
<1>5. CASE p \in Writer /\ Appends(p)
  <2>1. /\ log' = Append(log, [by |-> p, ok |-> ~torn]) /\ ~torn'
        /\ written' = written \cup {p} /\ beside \subseteq beside'
    BY <1>5 DEF Appends
  <2>2. Readable \subseteq Readable'
    BY <1>5, <2>1, WhatAnAppendAdds DEF TypeOK
  <2>3. p \notin Foreigners
    BY <1>5 DEF AppendOnce, Appends, Is
  <2>4. CASE torn
    <3>1. Spoiled' \subseteq Spoiled \cup {p}
      BY <2>1, <2>2 DEF Spoiled, Lost
    <3>2. /\ IsFiniteSet(Spoiled \cup {p})
          /\ Cardinality(Spoiled \cup {p}) \in {Cardinality(Spoiled), Cardinality(Spoiled) + 1}
      BY <1>1, FS_AddElement
    <3>3. Cardinality(Spoiled') <= Cardinality(Spoiled \cup {p})
      BY <3>1, <3>2, FS_Subset
    <3> QED
      BY <1>1, <1>2, <1>3, <2>1, <2>2, <2>3, <2>4, <3>2, <3>3
  <2>5. CASE ~torn
    <3>1. p \in Readable'
      BY <1>5, <2>1, <2>5, AppendIsReadable DEF TypeOK
    <3>2. Spoiled' \subseteq Spoiled
      BY <2>1, <2>2, <3>1 DEF Spoiled, Lost
    <3> QED
      BY <1>1, <1>2, <1>3, <1>4, <2>1, <2>2, <2>3, <3>2
  <2> QED
    BY <2>4, <2>5
<1>6. CASE p \in Rebuilders /\ Merges(p)
  <2>1. pc'[p] # "dead"
    BY <1>6 DEF NoSyncDied, Merges, Is
  <2>2. /\ Readable' = Shown(copy[p]) \cup Foreigners /\ ~torn' /\ p \in Syncs /\ Is(p, "merge")
        /\ written' = written \cup Readable' /\ beside' = beside
    BY <1>6, <2>1, MergesMerges
  <2>3. Shown(copy[p]) \ (beside \cup Foreigners) = Readable \ (beside \cup Foreigners)
    BY <2>2 DEF SyncsHoldTheLog
  <2>4. Spoiled' \subseteq Spoiled
    BY <2>2, <2>3 DEF Spoiled, Lost
  <2> QED
    BY <1>1, <1>2, <1>3, <1>4, <2>2, <2>4
<1>7. CASE ~(p \in Writer /\ Appends(p)) /\ ~(p \in Rebuilders /\ Merges(p))
  <2>1. UNCHANGED <<log, written, beside>> /\ (~Killed(p) => torn' = torn)
    BY <1>7, WhoWrites
  <2>2. Readable' = Readable /\ Spoiled' = Spoiled
    BY <2>1, ReadableFacts DEF Spoiled, Lost
  <2>3. CASE torn' = torn
    BY <1>1, <1>2, <1>3, <2>1, <2>2, <2>3
  <2>4. CASE torn' # torn
    <3>1. Killed(p) /\ Is(p, "append") /\ ~torn
      BY <2>1, <2>4 DEF Killed, TypeOK
    <3>2. p \in Writer /\ p \notin written /\ born[p] # 0
      BY <3>1 DEF WrittenFirst, AppendOnce, Is
    <3>3. p \in KilledInAppend' /\ p \notin KilledInAppend
      BY <2>1, <3>1, <3>2 DEF Killed, Move, KilledInAppend, Is, TypeOK
    <3>4. KilledInAppend \cup {p} \subseteq KilledInAppend'
      BY <3>3, TheDeadRemain
    <3>5. Cardinality(KilledInAppend \cup {p}) = Cardinality(KilledInAppend) + 1
      BY <1>1, <3>3, FS_AddElement
    <3>6. Cardinality(KilledInAppend) + 1 <= Cardinality(KilledInAppend')
      BY <1>2, <3>4, <3>5, FS_Subset
    <3> QED
      BY <1>1, <1>2, <2>1, <2>2, <3>1, <3>6
  <2> QED
    BY <2>3, <2>4
<1> QED
  BY <1>5, <1>6, <1>7

LEMMA AppendOnceInvariant == Spec => []AppendOnce
<1>1. Init => AppendOnce
  BY DEF Init, AppendOnce, Process
<1>2. TypeOK /\ TypeOK' /\ WrittenFirst /\ AppendOnce /\ [Next]_vars => AppendOnce'
  <2> SUFFICES ASSUME TypeOK, TypeOK', WrittenFirst, AppendOnce, [Next]_vars PROVE AppendOnce'
    OBVIOUS
  <2>1. CASE UNCHANGED vars
    BY <2>1 DEF AppendOnce, vars, history
  <2> QED
    BY <2>1, AppendOnceStep, NextIsSomeone
<1> QED
  BY <1>1, <1>2, EventIndexTypeCorrect, WrittenFirstInvariant, PTL DEF Spec

LossHolds == NoSyncDied => LossInv

\* The log keeps its lines, for any writers, syncs and kills: what landed while
\* no sync was between its reading and its writing is there as long as no sync
\* dies, but for one line at most after each half line that somebody killed left.
THEOREM EveryLossIsExplained == Spec => []LossIsExplained
<1>1. Init => LossHolds
  <2> SUFFICES ASSUME Init PROVE LossInv
    BY DEF LossHolds
  <2>1. ~torn /\ written = {} /\ \A p \in Process : pc[p] \in {"idle", "away"}
    BY DEF Init
  <2>2. Syncs \subseteq Process
    BY EventIndexAssumption DEF Process
  <2>3. Spoiled = {} /\ KilledInAppend = {}
    BY <2>1 DEF Spoiled, Lost, KilledInAppend, Is, Process
  <2> QED
    BY <2>1, <2>2, <2>3, FS_EmptySet DEF LossInv, SyncsHoldTheLog, BroughtStays, Balanced, Is
<1>2. LossHolds /\ TypeOK /\ TypeOK' /\ WrittenFirst /\ AppendOnce /\ [Next]_vars => LossHolds'
  <2> SUFFICES ASSUME LossHolds, TypeOK, TypeOK', WrittenFirst, AppendOnce, [Next]_vars, NoSyncDied'
               PROVE  LossInv'
    BY DEF LossHolds
  <2>1. CASE UNCHANGED vars
    <3>1. UNCHANGED <<pc, copy, beside, written, torn, born>> /\ Readable' = Readable
      BY <2>1, ReadableFacts DEF vars, fileVars, ownVars, history
    <3>2. NoSyncDied /\ Spoiled' = Spoiled /\ KilledInAppend' = KilledInAppend
      BY <3>1 DEF NoSyncDied, Is, Spoiled, Lost, KilledInAppend
    <3> QED
      BY <3>1, <3>2 DEF LossHolds, LossInv, SyncsHoldTheLog, BroughtStays, Balanced, Is, Shown
  <2>2. CASE Next
    <3>1. PICK p \in Process : Acts(p)
      BY <2>2, NextIsSomeone
    <3>2. NoSyncDied
      <4> SUFFICES ASSUME NEW r \in Syncs, pc[r] = "dead" PROVE FALSE
        BY DEF NoSyncDied, Is
      <4>1. r \in Rebuilders /\ r \in Process /\ r \notin Writer /\ r \notin CatchUps
        BY EventIndexAssumption DEF Process
      <4>2. p # r
        BY <3>1, TheDeadRest
      <4> QED
        BY <3>1, <4>1, <4>2, OneMoves DEF NoSyncDied, Is
    <3>3. LossInv
      BY <3>2 DEF LossHolds
    <3> QED
      BY <3>1, <3>3, SyncsHoldTheLogStep, BalancedStep DEF LossInv
  <2> QED
    BY <2>1, <2>2
<1>3. LossHolds => LossIsExplained
  BY DEF LossHolds, LossInv, NoSyncDied, Balanced, Spoiled, LossIsExplained
<1> QED
  BY <1>1, <1>2, <1>3, EventIndexTypeCorrect, WrittenFirstInvariant, AppendOnceInvariant, PTL DEF Spec

(***************************************************************************)
(* Where nothing interferes the log loses nothing                          *)
(***************************************************************************)
\* Nobody writes while the log is merged over, and no writer is killed.
Undisturbed == SyncsApart /\ \A w \in Writer \cap Mortal : Is(w, "away")

\* Everything that anyone indexes or is about to index can be read in the log.
FromTheLog ==
  /\ ~torn
  /\ \A w \in Writer : Is(w, "append") => at[w] = w
  /\ \A p \in Process : pc[p] \in {"insert", "apply"} => at[p] \in Readable
  /\ \A p \in Process : \A i \in DOMAIN copy[p] : copy[p][i].ok => copy[p][i].by \in Readable
  /\ \A p \in Process : todo[p] \subseteq Readable
Derived == FromTheLog /\ written \subseteq Readable /\ rows \subseteq Readable

\* A sync merges into what the log still is.
MergesTheLog == \A r \in Syncs : pc[r] = "merge" => copy[r] = log

TruthInv == TypeOK /\ SyncIsAlone /\ MergesTheLog /\ Derived

LEMMA MergeLosesNothing ==
  ASSUME TypeOK, SyncsApart, NEW r \in Rebuilders, Merges(r), copy[r] = log
  PROVE  Readable \subseteq Readable'
<1> DEFINE S == {log[i] : i \in DOMAIN log} \cup Brought
<1>1. r \notin Mortal
  BY DEF Merges, SyncsApart, Is
<1>2. PICK s \in InOrder(S) : log' = s
  BY <1>1 DEF Merges
<1>3. IsFiniteSet(S)
  BY LinesAreFinite DEF TypeOK
<1>4. \A x \in S : \E i \in DOMAIN s : s[i] = x
  BY <1>2, <1>3, MergeIsOnto
<1>5. Lines \subseteq Lines'
  BY <1>2, <1>4 DEF Lines
<1> QED
  BY <1>5 DEF Readable

LEMMA NothingIsLostStep ==
  ASSUME Undisturbed, TruthInv, WrittenFirst, NEW p \in Process, Acts(p)
  PROVE  ~torn' /\ written' \subseteq Readable'
<1> USE NobodyIsTwo DEF TruthInv, TypeOK, Derived, FromTheLog, fileVars, history
<1>1. CASE p \in Writer /\ Appends(p)
  <2>1. log' = Append(log, [by |-> p, ok |-> TRUE]) /\ ~torn' /\ written' = written \cup {p}
    BY <1>1 DEF Appends
  <2> QED
    BY <1>1, <2>1, AppendIsReadable
<1>2. CASE p \in Rebuilders /\ Merges(p)
  <2>1. Readable \subseteq Readable'
    BY <1>2, MergeLosesNothing DEF MergesTheLog, Merges, Undisturbed, Is
  <2>2. ~torn' /\ written' = written \cup Readable'
    BY <1>2 DEF Merges, Undisturbed, SyncsApart, Is
  <2> QED
    BY <2>1, <2>2
<1>3. CASE Killed(p)
  <2>1. ~Is(p, "append")
    BY <1>3 DEF Killed, WrittenFirst, Undisturbed, Is
  <2>2. torn' = torn /\ UNCHANGED <<log, written>>
    BY <1>3, <2>1 DEF Killed
  <2> QED
    BY <2>2, ReadableFacts
<1> QED
  <2>1. CASE UNCHANGED <<log, torn, written>>
    BY <2>1, ReadableFacts
  <2> QED
    BY <1>1, <1>2, <1>3, <2>1 DEF Acts, WriterStep, Mint, WriterInserts, WriterApplies, WriterFails,
       CatchUpStep, Opens, Probes, CatchUpInserts, CatchUpApplies, Marks, GivesUp,
       RebuildStep, ReadsLog, Clears, Unmarks, ReadsAll, Takes, RebuildInserts, RebuildApplies, RebuildEnds

LEMMA MergesTheLogStep ==
  ASSUME Undisturbed, TruthInv, NEW p \in Process, Acts(p)
  PROVE  MergesTheLog'
<1> SUFFICES ASSUME NEW r \in Syncs, pc'[r] = "merge" PROVE copy'[r] = log'
  BY DEF MergesTheLog
<1> USE DEF TruthInv, TypeOK, Undisturbed
<1>1. r \in Rebuilders /\ r \in Process /\ r \notin Writer /\ r \notin CatchUps
  BY EventIndexAssumption DEF Process
<1>2. p = r
  BY <1>1, OneMoves, NobodyDisturbsASync
<1>3. RebuildStep(r)
  BY <1>1, <1>2 DEF Acts, Killed, Move
<1>4. ReadsLog(r)
  BY <1>1, <1>3 DEF RebuildStep, Merges, Clears, Unmarks, ReadsAll, Takes, RebuildInserts, RebuildApplies,
     RebuildEnds, Is, Move
<1> QED
  BY <1>1, <1>4 DEF ReadsLog, fileVars, Derived, FromTheLog

LEMMA UndisturbedLasts ==
  ASSUME TypeOK, [Next]_vars, Undisturbed'
  PROVE  Undisturbed
<1>1. SyncsApart
  BY SyncsStayApart DEF Undisturbed
<1>2. CASE UNCHANGED vars
  BY <1>1, <1>2 DEF Undisturbed, Is, vars
<1>3. ASSUME NEW p \in Process, Acts(p) PROVE Undisturbed
  BY <1>1, <1>3, OneMoves, AwayStays DEF Undisturbed, Is, Process
<1> QED
  BY <1>2, <1>3, NextIsSomeone

TruthHolds == Undisturbed => TruthInv

LEMMA TruthInvariant == Spec => []TruthHolds
<1>1. Init => TruthHolds
  <2> SUFFICES ASSUME Init PROVE TruthInv
    BY DEF TruthHolds
  <2>1. DOMAIN <<>> = {}
    OBVIOUS
  <2>2. \A p \in Process : DOMAIN copy[p] = {} /\ todo[p] = {} /\ pc[p] \in {"idle", "away"}
    BY <2>1 DEF Init
  <2>3. ~torn /\ written = {} /\ rows = {}
    BY DEF Init
  <2>4. Syncs \subseteq Process
    BY EventIndexAssumption DEF Process
  <2>5. Derived
    BY <2>2, <2>3 DEF Derived, FromTheLog, Is, Process
  <2> QED
    BY <2>2, <2>4, <2>5, TypeInit DEF TruthInv, SyncIsAlone, MergesTheLog
<1>2. TruthHolds /\ TypeOK /\ TypeOK' /\ WrittenFirst /\ WrittenFirst' /\ [Next]_vars => TruthHolds'
  <2> SUFFICES ASSUME TruthHolds, TypeOK, TypeOK', WrittenFirst, WrittenFirst', [Next]_vars, Undisturbed'
               PROVE  TruthInv'
    BY DEF TruthHolds
  <2>1. Undisturbed /\ TruthInv
    BY UndisturbedLasts DEF TruthHolds
  <2>2. CASE UNCHANGED vars
    BY <2>1, <2>2, ReadableFacts DEF TruthInv, TypeOK, SyncIsAlone, AtRest, MergesTheLog, Derived, FromTheLog,
       Is, vars, fileVars, indexVars, ownVars, history
  <2>3. CASE Next
    <3>1. PICK p \in Process : Acts(p)
      BY <2>3, NextIsSomeone
    <3>2. SyncIsAlone'
      BY <2>1, <3>1, SyncStaysAlone DEF TruthInv, Undisturbed
    <3>3. MergesTheLog'
      BY <2>1, <3>1, MergesTheLogStep
    <3>4. ~torn' /\ written' \subseteq Readable'
      BY <2>1, <3>1, NothingIsLostStep
    <3>5. Derived'
      BY <3>4 DEF WrittenFirst, Derived, FromTheLog, Process
    <3> QED
      BY <3>2, <3>3, <3>5 DEF TruthInv
  <2> QED
    BY <2>2, <2>3
<1> QED
  BY <1>1, <1>2, EventIndexTypeCorrect, WrittenFirstInvariant, PTL DEF Spec

(***************************************************************************)
(* The watermark                                                           *)
(***************************************************************************)
\* No rebuild was killed. One that was leaves the index without lines it owes,
\* under the watermark it had not yet dropped or one that a catch-up wrote since.
RebuildsFinish == \A r \in Rebuilders : ~Is(r, "dead")

\* A line is covered while it has its row or some rebuild will give it one.
Promised(w) ==
  \E r \in Rebuilders : \/ pc[r] \in {"clear", "unmark", "read"}
                        \/ pc[r] \in {"next", "insert", "apply"} /\ w \in todo[r]
                        \/ pc[r] = "insert" /\ at[r] = w
Covered == {w \in Writer : w \in rows \/ Promised(w)}

\* A catch-up has the log before it as far as it was when it opened it, and
\* what it is past is covered.
PastIsCovered ==
  \A c \in CatchUps : pc[c] \in {"probe", "insert", "apply"} =>
    /\ pos[c] <= Len(copy[c]) /\ Len(copy[c]) <= Len(log)
    /\ \A i \in 1..Len(copy[c]) : copy[c][i] = log[i]
    /\ \A i \in 1..pos[c] : log[i].ok => log[i].by \in Covered
    /\ pc[c] # "probe" =>
         /\ pos[c] < Len(copy[c])
         /\ log[pos[c] + 1].ok /\ log[pos[c] + 1].by = at[c]
    /\ pc[c] = "apply" => at[c] \in Covered

\* So is what is below the watermark, unless a merge has just replaced the log
\* and its rebuild has yet to drop the watermark.
MarkIsCovered ==
  (\A r \in Syncs : pc[r] \notin {"clear", "unmark"}) =>
    /\ mark.end <= Len(log)
    /\ \A i \in 1..mark.end : log[i].ok => log[i].by \in Covered

MarkInv == TypeOK /\ SyncIsAlone /\ PastIsCovered /\ MarkIsCovered

LEMMA KilledDies ==
  ASSUME TypeOK, NEW p \in Process, Killed(p)
  PROVE  Is(p, "dead")'
BY DEF TypeOK, Killed, Move, Is

LEMMA RebuildsHaveFinished ==
  ASSUME TypeOK, [Next]_vars, RebuildsFinish'
  PROVE  RebuildsFinish
<1>1. CASE UNCHANGED vars
  BY <1>1 DEF RebuildsFinish, Is, vars
<1>2. ASSUME NEW p \in Process, Acts(p) PROVE RebuildsFinish
  BY <1>2, TheDeadRest, OneMoves DEF RebuildsFinish, Is, Process
<1> QED
  BY <1>1, <1>2, NextIsSomeone

\* What is in the log and covered stays covered, whoever clears or fills.
LEMMA CoverLasts ==
  ASSUME TypeOK, RebuildsFinish', NEW p \in Process, Acts(p), NEW w \in Readable, w \in Covered
  PROVE  w \in Covered'
<1> USE NobodyIsTwo DEF TypeOK, Process, Is, Move, indexVars, ownVars, history, fileVars
<1>1. CASE p \in Writer /\ WriterStep(p)
  <2>1. rows \subseteq rows'
    BY <1>1 DEF WriterStep, Mint, Appends, WriterInserts, WriterApplies, WriterFails, InsertsRow
  <2>2. \A r \in Rebuilders : pc'[r] = pc[r]
    BY <1>1, OneMoves
  <2>3. UNCHANGED todo /\ (UNCHANGED at \/ at' = [at EXCEPT ![p] = p])
    BY <1>1 DEF WriterStep, Mint, Appends, WriterInserts, WriterApplies, WriterFails
  <2>4. ASSUME NEW r \in Rebuilders PROVE at'[r] = at[r] /\ todo'[r] = todo[r]
    <3>1. r \in Process /\ r # p /\ at \in [Process -> Writer]
      BY <1>1
    <3> HIDE DEF TypeOK, Process
    <3> QED
      BY <2>3, <3>1
  <2> QED
    BY <2>1, <2>2, <2>4 DEF Covered, Promised
<1>2. CASE p \in CatchUps /\ CatchUpStep(p)
  <2>1. rows \subseteq rows'
    BY <1>2 DEF CatchUpStep, Opens, Probes, CatchUpInserts, CatchUpApplies, Marks, GivesUp, InsertsRow
  <2>2. \A r \in Rebuilders : pc'[r] = pc[r]
    BY <1>2, OneMoves
  <2>3. UNCHANGED todo
    BY <1>2 DEF CatchUpStep, Opens, Probes, CatchUpInserts, CatchUpApplies, Marks, GivesUp, Closes
  <2>4. \/ UNCHANGED at
        \/ at' = [at EXCEPT ![p] = copy[p][pos[p] + 1].by]
        \/ at' = [at EXCEPT ![p] = Target]
    BY <1>2 DEF CatchUpStep, Opens, Probes, CatchUpInserts, CatchUpApplies, Marks, GivesUp, Closes
  <2>5. ASSUME NEW r \in Rebuilders PROVE at'[r] = at[r]
    <3>1. r \in Process /\ r # p /\ at \in [Process -> Writer]
      BY <1>2
    <3> HIDE DEF TypeOK, Process
    <3> QED
      BY <2>4, <3>1
  <2> QED
    BY <2>1, <2>2, <2>3, <2>5 DEF Covered, Promised
<1>3. CASE p \in Rebuilders /\ RebuildStep(p)
  <2>1. \A r \in Rebuilders \ {p} : pc'[r] = pc[r] /\ at'[r] = at[r] /\ todo'[r] = todo[r]
    BY <1>3 DEF RebuildStep, ReadsLog, Merges, Clears, Unmarks, ReadsAll, Takes, RebuildInserts,
       RebuildApplies, RebuildEnds
  <2>2. CASE pc'[p] \in {"clear", "unmark", "read"}
    BY <1>3, <2>2 DEF Covered, Promised
  <2>3. CASE pc'[p] \notin {"clear", "unmark", "read"}
    <3>1. rows \subseteq rows'
      BY <1>3, <2>3 DEF RebuildStep, ReadsLog, Merges, Clears, Unmarks, ReadsAll, Takes, RebuildInserts,
         RebuildApplies,
         RebuildEnds, InsertsRow
    <3>2. CASE w \in rows
      BY <3>1, <3>2 DEF Covered
    <3>3. ASSUME NEW r \in Rebuilders \ {p},
                 \/ pc[r] \in {"clear", "unmark", "read"}
                 \/ pc[r] \in {"next", "insert", "apply"} /\ w \in todo[r]
                 \/ pc[r] = "insert" /\ at[r] = w
          PROVE  w \in Covered'
      BY <2>1, <3>3 DEF Covered, Promised
    <3>4. CASE \/ pc[p] \in {"clear", "unmark", "read"}
               \/ pc[p] \in {"next", "insert", "apply"} /\ w \in todo[p]
               \/ pc[p] = "insert" /\ at[p] = w
      <4>1. CASE ReadsAll(p)
        <5>1. pc'[p] = "next" /\ w \in todo'[p]
          BY <1>3, <4>1 DEF ReadsAll
        <5> QED
          BY <1>3, <5>1 DEF Covered, Promised
      <4>2. CASE Takes(p)
        <5>1. w \in todo[p] /\ pc'[p] = "insert"
          BY <1>3, <3>4, <4>2 DEF Takes
        <5>2. w \in todo'[p] \/ at'[p] = w
          BY <1>3, <4>2, <5>1 DEF Takes
        <5> QED
          BY <1>3, <5>1, <5>2 DEF Covered, Promised
      <4>3. CASE RebuildInserts(p)
        <5>1. at[p] = w \/ w \in todo[p]
          BY <1>3, <3>4, <4>3 DEF RebuildInserts
        <5>2. pc'[p] = "apply" /\ todo'[p] = todo[p] /\ rows' = rows \cup {at[p]}
          BY <1>3, <4>3 DEF RebuildInserts, InsertsRow
        <5> QED
          BY <1>3, <5>1, <5>2 DEF Covered, Promised
      <4>4. CASE RebuildApplies(p)
        <5>1. w \in todo[p] /\ pc'[p] = "next" /\ todo'[p] = todo[p]
          BY <1>3, <3>4, <4>4 DEF RebuildApplies
        <5> QED
          BY <1>3, <5>1 DEF Covered, Promised
      <4>5. CASE RebuildEnds(p)
        BY <1>3, <3>4, <4>5 DEF RebuildEnds
      <4> QED
        BY <1>3, <2>3, <3>4, <4>1, <4>2, <4>3, <4>4, <4>5 DEF RebuildStep, ReadsLog, Merges, Clears, Unmarks
    <3> QED
      BY <3>2, <3>3, <3>4 DEF Covered, Promised
  <2> QED
    BY <2>2, <2>3
<1>4. CASE Killed(p)
  <2>1. p \notin Rebuilders /\ UNCHANGED <<rows, at, todo>>
    BY <1>4, KilledDies DEF Killed, RebuildsFinish
  <2>2. \A r \in Rebuilders : pc'[r] = pc[r]
    BY <1>4, <2>1 DEF Killed
  <2> QED
    BY <2>1, <2>2 DEF Covered, Promised
<1> QED
  BY <1>1, <1>2, <1>3, <1>4 DEF Acts

\* The log grows at its end, unless a sync rewrites it.
LEMMA LogGrows ==
  ASSUME TypeOK, NEW p \in Process, Acts(p), ~(p \in Rebuilders /\ Merges(p))
  PROVE  /\ Len(log) \in Nat /\ Len(log') \in Nat /\ Len(log) <= Len(log')
         /\ \A i \in 1..Len(log) : log'[i] = log[i]
<1> USE NobodyIsTwo DEF TypeOK, fileVars
<1>1. CASE UNCHANGED log
  BY <1>1
<1>2. CASE p \in Writer /\ Appends(p)
  BY <1>2 DEF Appends
<1> QED
  BY <1>1, <1>2 DEF Acts, Killed, WriterStep, Mint, WriterInserts, WriterApplies, WriterFails,
     CatchUpStep, Opens, Probes, CatchUpInserts, CatchUpApplies, Marks, GivesUp,
     RebuildStep, ReadsLog, Clears, Unmarks, ReadsAll, Takes, RebuildInserts, RebuildApplies, RebuildEnds

LEMMA LineIsReadable ==
  ASSUME TypeOK, NEW i \in 1..Len(log), log[i].ok
  PROVE  log[i].by \in Readable
BY ReadableFacts DEF TypeOK

\* Another's step leaves what a catch-up has before it and behind it as it is.
LEMMA PastOfAnother ==
  ASSUME MarkInv, SyncsApart, RebuildsFinish', NEW p \in Process, Acts(p),
         NEW c \in CatchUps, c # p, pc'[c] \in {"probe", "insert", "apply"}
  PROVE  /\ pos'[c] <= Len(copy'[c]) /\ Len(copy'[c]) <= Len(log')
         /\ \A i \in 1..Len(copy'[c]) : copy'[c][i] = log'[i]
         /\ \A i \in 1..pos'[c] : log'[i].ok => log'[i].by \in Covered'
         /\ pc'[c] # "probe" => pos'[c] < Len(copy'[c]) /\ log'[pos'[c] + 1].ok /\ log'[pos'[c] + 1].by = at'[c]
         /\ pc'[c] = "apply" => at'[c] \in Covered'
<1> USE DEF MarkInv
<1>1. c \in Process /\ pc'[c] = pc[c]
  BY OneMoves DEF Process
<1>2. at'[c] = at[c] /\ copy'[c] = copy[c] /\ pos'[c] = pos[c]
  BY <1>1, OthersKeepTheirs
<1>3. ~(p \in Rebuilders /\ Merges(p))
  BY <1>1 DEF Merges, SyncIsAlone, AtRest, Is
<1>4. /\ Len(log) \in Nat /\ Len(log') \in Nat /\ Len(log) <= Len(log')
      /\ \A i \in 1..Len(log) : log'[i] = log[i]
  BY <1>3, LogGrows
<1>5. /\ pos[c] <= Len(copy[c]) /\ Len(copy[c]) <= Len(log)
      /\ \A i \in 1..Len(copy[c]) : copy[c][i] = log[i]
      /\ \A i \in 1..pos[c] : log[i].ok => log[i].by \in Covered
      /\ pc[c] # "probe" => pos[c] < Len(copy[c]) /\ log[pos[c] + 1].ok /\ log[pos[c] + 1].by = at[c]
      /\ pc[c] = "apply" => at[c] \in Covered
  BY <1>1 DEF PastIsCovered
<1>6. pos[c] \in Nat /\ Len(copy[c]) \in Nat
  BY <1>1 DEF TypeOK
<1>7. \A i \in 1..pos[c] : log'[i] = log[i] /\ (log[i].ok => log[i].by \in Covered')
  <2> TAKE i \in 1..pos[c]
  <2>1. i \in 1..Len(log)
    BY <1>4, <1>5, <1>6
  <2>2. log[i].ok => log[i].by \in Readable /\ log[i].by \in Covered
    BY <1>5, <2>1, LineIsReadable
  <2> QED
    BY <1>4, <2>1, <2>2, CoverLasts
<1>8. pc[c] = "apply" => at[c] \in Covered'
  <2> SUFFICES ASSUME pc[c] = "apply" PROVE at[c] \in Covered'
    OBVIOUS
  <2>1. at[c] \in Readable
    BY <1>1, <1>5, <1>6, <1>4, LineIsReadable
  <2> QED
    BY <1>5, <2>1, CoverLasts
<1> QED
  BY SMTT(20), <1>1, <1>2, <1>4, <1>5, <1>6, <1>7, <1>8

\* Its own step goes past a line only when that has its row, or is none.
LEMMA PastOfItsOwn ==
  ASSUME MarkInv, SyncsApart, RebuildsFinish', NEW c \in CatchUps, Acts(c),
         pc'[c] \in {"probe", "insert", "apply"}
  PROVE  /\ pos'[c] <= Len(copy'[c]) /\ Len(copy'[c]) <= Len(log')
         /\ \A i \in 1..Len(copy'[c]) : copy'[c][i] = log'[i]
         /\ \A i \in 1..pos'[c] : log'[i].ok => log'[i].by \in Covered'
         /\ pc'[c] # "probe" => pos'[c] < Len(copy'[c]) /\ log'[pos'[c] + 1].ok /\ log'[pos'[c] + 1].by = at'[c]
         /\ pc'[c] = "apply" => at'[c] \in Covered'
<1> USE NobodyIsTwo DEF MarkInv, Process, Is, Move, fileVars, indexVars, ownVars, history
<1>1. CatchUpStep(c) /\ c \in Process
  <2>1. ~Killed(c)
    BY DEF Killed, TypeOK
  <2> QED
    BY <2>1 DEF Acts
<1>2. UNCHANGED log /\ Len(log) \in Nat /\ Len(copy[c]) \in Nat /\ pos[c] \in Nat
  BY <1>1 DEF CatchUpStep, Opens, Probes, CatchUpInserts, CatchUpApplies, Marks, GivesUp, TypeOK
<1>3. \A i \in 1..Len(log) : log[i].ok /\ log[i].by \in Covered => log[i].by \in Covered'
  BY <1>1, LineIsReadable, CoverLasts
<1>4. CASE Opens(c)
  <2>1. \A r \in Syncs : pc[r] \notin {"clear", "unmark"}
    <3>1. Syncs \subseteq Process /\ c \notin Syncs
      BY EventIndexAssumption
    <3> QED
      BY <1>1, <3>1, NobodyDisturbsASync
  <2>2. mark.end \in Nat /\ mark.end <= Len(log) /\ \A i \in 1..mark.end : log[i].ok => log[i].by \in Covered
    BY <2>1 DEF MarkIsCovered, TypeOK
  <2>3. copy'[c] = log /\ pc'[c] = "probe"
    BY <1>4 DEF Opens, TypeOK
  <2>4. pos'[c] \in {0, mark.end}
    BY <1>4 DEF Opens, TypeOK
  <2> QED
    BY <1>2, <1>3, <2>2, <2>3, <2>4
<1>5. CASE Probes(c)
  <2> DEFINE line == copy[c][pos[c] + 1]
  <2>1. /\ pos[c] < Len(copy[c]) /\ Len(copy[c]) <= Len(log)
        /\ \A i \in 1..Len(copy[c]) : copy[c][i] = log[i]
        /\ \A i \in 1..pos[c] : log[i].ok => log[i].by \in Covered
    BY <1>5 DEF Probes, PastIsCovered
  <2>2. line = log[pos[c] + 1] /\ copy' = copy
    BY <1>2, <1>5, <2>1 DEF Probes
  <2>3. \/ line.ok /\ pc'[c] = "insert" /\ at'[c] = line.by /\ pos'[c] = pos[c]
        \/ (line.ok => line.by \in rows) /\ pc'[c] = "probe" /\ pos'[c] = pos[c] + 1
    BY <1>5 DEF Probes, TypeOK
  <2>4. line.ok /\ line.by \in rows => line.by \in Covered
    BY DEF Covered, TypeOK
  <2> HIDE DEF line
  <2> QED
    BY <1>2, <1>3, <2>1, <2>2, <2>3, <2>4
<1>6. CASE CatchUpInserts(c)
  <2>1. /\ pos[c] < Len(copy[c]) /\ Len(copy[c]) <= Len(log)
        /\ \A i \in 1..Len(copy[c]) : copy[c][i] = log[i]
        /\ \A i \in 1..pos[c] : log[i].ok => log[i].by \in Covered
        /\ log[pos[c] + 1].ok /\ log[pos[c] + 1].by = at[c]
    BY <1>6 DEF CatchUpInserts, PastIsCovered
  <2>2. UNCHANGED <<copy, pos, at>> /\ pc'[c] = "apply" /\ at[c] \in rows'
    BY <1>6 DEF CatchUpInserts, InsertsRow, TypeOK
  <2>3. at[c] \in Covered'
    BY <1>1, <2>2 DEF Covered, TypeOK
  <2> QED
    BY <1>2, <1>3, <2>1, <2>2, <2>3
<1>7. CASE CatchUpApplies(c)
  <2>1. /\ pos[c] < Len(copy[c]) /\ Len(copy[c]) <= Len(log)
        /\ \A i \in 1..Len(copy[c]) : copy[c][i] = log[i]
        /\ \A i \in 1..pos[c] : log[i].ok => log[i].by \in Covered
        /\ log[pos[c] + 1].ok /\ log[pos[c] + 1].by = at[c] /\ at[c] \in Covered
    BY <1>7 DEF CatchUpApplies, PastIsCovered
  <2>2. UNCHANGED copy /\ pc'[c] = "probe" /\ pos'[c] = pos[c] + 1
    BY <1>7 DEF CatchUpApplies, TypeOK
  <2> QED
    BY <1>2, <1>3, <2>1, <2>2
<1> QED
  BY <1>1, <1>4, <1>5, <1>6, <1>7 DEF CatchUpStep, Marks, GivesUp, TypeOK

LEMMA PastStaysCovered ==
  ASSUME MarkInv, SyncsApart, RebuildsFinish', NEW p \in Process, Acts(p)
  PROVE  PastIsCovered'
<1>1. ASSUME NEW c \in CatchUps, pc'[c] \in {"probe", "insert", "apply"}
      PROVE  /\ pos'[c] <= Len(copy'[c]) /\ Len(copy'[c]) <= Len(log')
             /\ \A i \in 1..Len(copy'[c]) : copy'[c][i] = log'[i]
             /\ \A i \in 1..pos'[c] : log'[i].ok => log'[i].by \in Covered'
             /\ pc'[c] # "probe" => pos'[c] < Len(copy'[c]) /\ log'[pos'[c] + 1].ok /\ log'[pos'[c] + 1].by = at'[c]
             /\ pc'[c] = "apply" => at'[c] \in Covered'
  BY <1>1, PastOfAnother, PastOfItsOwn
<1> QED
  BY <1>1 DEF PastIsCovered, Covered, Promised

LEMMA MarkStaysCovered ==
  ASSUME MarkInv, SyncsApart, RebuildsFinish', NEW p \in Process, Acts(p)
  PROVE  MarkIsCovered'
<1> SUFFICES ASSUME \A r \in Syncs : pc'[r] \notin {"clear", "unmark"}
             PROVE  mark'.end <= Len(log') /\ \A i \in 1..mark'.end : log'[i].ok => log'[i].by \in Covered'
  BY DEF MarkIsCovered, Covered, Promised
<1> USE NobodyIsTwo DEF MarkInv, Is, Move, fileVars, indexVars, ownVars, history
<1>1. ~(p \in Rebuilders /\ Merges(p))
  <2> SUFFICES ASSUME p \in Rebuilders, Merges(p) PROVE FALSE
    OBVIOUS
  <2>1. p \in Syncs /\ pc'[p] = "clear"
    BY DEF Merges, RebuildsFinish, Process, TypeOK
  <2> QED
    BY <2>1
<1>2. /\ Len(log) \in Nat /\ Len(log') \in Nat /\ Len(log) <= Len(log')
      /\ \A i \in 1..Len(log) : log'[i] = log[i]
  BY <1>1, LogGrows
<1>3. \A i \in 1..Len(log) : log[i].ok /\ log[i].by \in Covered => log[i].by \in Covered'
  BY LineIsReadable, CoverLasts
<1>4. CASE p \in Rebuilders /\ Unmarks(p)
  <2>1. mark'.end = 0
    BY <1>4 DEF Unmarks, NoMark
  <2> QED
    BY <1>2, <2>1
<1>5. CASE p \in CatchUps /\ Marks(p) /\ mark' # mark
  <2>1. /\ pos[p] <= Len(copy[p]) /\ Len(copy[p]) <= Len(log)
        /\ \A i \in 1..pos[p] : log[i].ok => log[i].by \in Covered
    BY <1>5 DEF Marks, PastIsCovered
  <2>2. pos[p] \in Nat /\ Len(copy[p]) \in Nat
    BY DEF TypeOK
  <2>3. mark'.end = pos[p]
    BY <1>2, <1>5, <2>1, <2>2 DEF Marks
  <2> QED
    BY <1>2, <1>3, <2>1, <2>2, <2>3
<1>6. CASE mark' = mark /\ ~(p \in Rebuilders /\ Unmarks(p))
  <2>1. \A r \in Syncs : pc[r] \notin {"clear", "unmark"}
    <3> SUFFICES ASSUME NEW r \in Syncs, pc[r] \in {"clear", "unmark"} PROVE FALSE
      OBVIOUS
    <3>1. p = r /\ r \in Rebuilders /\ r \in Process
      BY NobodyDisturbsASync, EventIndexAssumption DEF Process
    <3>2. RebuildStep(r)
      BY <3>1, KilledDies DEF Acts, RebuildsFinish
    <3>3. ~Unmarks(r)
      BY <1>6, <3>1
    <3>4. Clears(r)
      BY <3>2, <3>3 DEF RebuildStep, ReadsLog, Merges, ReadsAll, Takes, RebuildInserts, RebuildApplies,
         RebuildEnds
    <3> QED
      BY <3>1, <3>4 DEF Clears, TypeOK
  <2>2. mark.end \in Nat /\ mark.end <= Len(log) /\ \A i \in 1..mark.end : log[i].ok => log[i].by \in Covered
    BY <2>1 DEF MarkIsCovered, TypeOK
  <2> QED
    BY <1>2, <1>3, <1>6, <2>2
<1> QED
  <2>1. CASE p \in Writer /\ WriterStep(p)
    BY <1>6, <2>1 DEF WriterStep, Mint, Appends, WriterInserts, WriterApplies, WriterFails
  <2>2. CASE p \in CatchUps /\ CatchUpStep(p)
    <3>1. p \notin Rebuilders
      BY <2>2
    <3>2. mark' = mark \/ Marks(p)
      BY <2>2 DEF CatchUpStep, Opens, Probes, CatchUpInserts, CatchUpApplies, GivesUp
    <3> QED
      BY <1>5, <1>6, <2>2, <3>1, <3>2
  <2>3. CASE p \in Rebuilders /\ RebuildStep(p)
    BY <1>1, <1>4, <1>6, <2>3 DEF RebuildStep, ReadsLog, Clears, ReadsAll, Takes, RebuildInserts,
       RebuildApplies, RebuildEnds
  <2>4. CASE Killed(p)
    BY <1>4, <1>6, <2>4 DEF Killed
  <2> QED
    BY <2>1, <2>2, <2>3, <2>4 DEF Acts

MarkHolds == SyncsApart /\ RebuildsFinish => MarkInv

\* Where nobody writes during a merge and no rebuild was killed, a watermark
\* that is trusted skips nothing the index lacks, however catch-ups are killed
\* or give up, appends are torn, and rebuilds empty the index under them, the
\* rows before the watermark.
THEOREM TheWatermarkIsTrue == Spec => [](SyncsApart /\ RebuildsFinish => WatermarkTellsTheTruth)
<1>1. Init => MarkHolds
  <2> SUFFICES ASSUME Init PROVE MarkInv
    BY DEF MarkHolds
  <2>1. \A p \in Process : pc[p] \in {"idle", "away"}
    BY DEF Init
  <2>2. Syncs \subseteq Process /\ CatchUps \subseteq Process
    BY EventIndexAssumption DEF Process
  <2>3. mark.end = 0 /\ Len(log) = 0
    BY DEF Init, NoMark
  <2> QED
    BY <2>1, <2>2, <2>3, TypeInit DEF MarkInv, SyncIsAlone, PastIsCovered, MarkIsCovered
<1>2. MarkHolds /\ TypeOK /\ TypeOK' /\ [Next]_vars => MarkHolds'
  <2> SUFFICES ASSUME MarkHolds, TypeOK, TypeOK', [Next]_vars, SyncsApart', RebuildsFinish'
               PROVE  MarkInv'
    BY DEF MarkHolds
  <2>1. SyncsApart /\ MarkInv
    BY SyncsStayApart, RebuildsHaveFinished DEF MarkHolds
  <2>2. CASE UNCHANGED vars
    BY <2>1, <2>2 DEF MarkInv, TypeOK, SyncIsAlone, AtRest, PastIsCovered, MarkIsCovered, Covered, Promised,
       vars, fileVars, indexVars, ownVars, history
  <2>3. CASE Next
    <3>1. PICK p \in Process : Acts(p)
      BY <2>3, NextIsSomeone
    <3>2. SyncIsAlone'
      BY <2>1, <3>1, SyncStaysAlone DEF MarkInv
    <3>3. PastIsCovered' /\ MarkIsCovered'
      BY <2>1, <3>1, PastStaysCovered, MarkStaysCovered
    <3> QED
      BY <3>2, <3>3 DEF MarkInv
  <2> QED
    BY <2>2, <2>3
<1>3. MarkHolds => (SyncsApart /\ RebuildsFinish => WatermarkTellsTheTruth)
  <2> SUFFICES ASSUME MarkInv, AllAtRest, NEW i \in 1..mark.end, log[i].ok PROVE log[i].by \in rows
    BY DEF MarkHolds, WatermarkTellsTheTruth
  <2>1. \A r \in Rebuilders : pc[r] \in {"away", "idle", "done", "dead"}
    BY DEF AllAtRest, AtRest, Process
  <2>2. Syncs \subseteq Rebuilders
    BY EventIndexAssumption
  <2>3. log[i].by \in Covered
    BY <2>1, <2>2 DEF MarkInv, MarkIsCovered
  <2> QED
    BY <2>1, <2>3 DEF Covered, Promised
<1> QED
  BY <1>1, <1>2, <1>3, EventIndexTypeCorrect, PTL DEF Spec

(***************************************************************************)
(* What replaying the log makes of the row                                 *)
(***************************************************************************)
\* The library's induction takes an operator; the least counterexample takes
\* none. Of any sets of writers one is least.
LEMMA SmallestSet ==
  ASSUME NEW T, T \subseteq SUBSET Writer, T # {}
  PROVE  \E S \in T : \A w \in S : S \ {w} \notin T
<1>1. FiniteSubsetsOf(Writer) = SUBSET Writer
  BY EventIndexAssumption, FS_FiniteSubsetsOfFinite
<1>2. IsWellFoundedOn(StrictSubsetOrdering(Writer), SUBSET Writer)
  BY <1>1, FS_StrictSubsetOrderingWellFounded
<1>3. PICK S \in T : \A R \in T : <<R, S>> \notin StrictSubsetOrdering(Writer)
  BY <1>2, WFMin
<1>4. ASSUME NEW w \in S, S \ {w} \in T PROVE FALSE
  <2>1. <<S \ {w}, S>> \in StrictSubsetOrdering(Writer)
    BY <1>4 DEF StrictSubsetOrdering
  <2> QED
    BY <1>3, <1>4, <2>1
<1> QED
  BY <1>3, <1>4

\* And of any numbers.
LEMMA SmallestNumber ==
  ASSUME NEW T, T \subseteq Nat, T # {}
  PROVE  \E n \in T : \A m \in T : n <= m
<1> DEFINE Upto == {0..n : n \in T}
<1>1. \A n \in Nat : 0..n \in FiniteSubsetsOf(Nat)
  BY FS_Interval DEF FiniteSubsetsOf
<1>2. Upto \subseteq FiniteSubsetsOf(Nat) /\ Upto # {}
  BY <1>1
<1>3. \E S \in Upto : \A R \in Upto : <<R, S>> \notin StrictSubsetOrdering(Nat)
  <2> HIDE DEF Upto
  <2> QED
    BY <1>2, FS_StrictSubsetOrderingWellFounded, WFMin
<1>4. PICK n \in T : \A m \in T : <<0..m, 0..n>> \notin StrictSubsetOrdering(Nat)
  BY <1>3
<1>5. ASSUME NEW m \in T, m < n PROVE FALSE
  <2>1. 0..m \subseteq 0..n /\ n \in 0..n /\ n \notin 0..m
    BY <1>5
  <2>2. 0..m \in SUBSET Nat /\ 0..n \in SUBSET Nat
    OBVIOUS
  <2>3. <<0..m, 0..n>> \in StrictSubsetOrdering(Nat)
    BY <2>1, <2>2 DEF StrictSubsetOrdering
  <2> QED
    BY <1>4, <1>5, <2>3
<1>6. \A m \in T : n <= m
  BY <1>5
<1> QED
  BY <1>6

\* The order of the replay, and the replay, for ids minted as b says.
Ahead(b, v, w) ==
  \/ Kind[v] \notin Revisions /\ Kind[w] \in Revisions
  \/ (Kind[v] \in Revisions <=> Kind[w] \in Revisions) /\ b[v] <= b[w]
Last(b, S) == CHOOSE w \in S : \A v \in S : Ahead(b, v, w)
NextRow(b, f, S) ==
  IF S = {} THEN NoRow
  ELSE Revised(Last(b, S), WithRow(Last(b, S), f[S \ {Last(b, S)}]))
ReplayOf(b) == CHOOSE f : f = [S \in SUBSET Writer |-> NextRow(b, f, S)]
Minting == [Writer -> Nat]

LEMMA ReplayIsReplayOf == Replay = ReplayOf(born)
BY Zenon DEF Replay, ReplayOf, NextRow, Last, Ahead, Precedes

\* The order is total, so some line comes last.
LEMMA LastIsLast ==
  ASSUME NEW b \in Minting, NEW S \in SUBSET Writer, S # {}
  PROVE  Last(b, S) \in S /\ \A v \in S : Ahead(b, v, Last(b, S))
<1> DEFINE HasLast(R) == \E w \in R : \A v \in R : Ahead(b, v, w)
           Bad == {R \in SUBSET Writer : R # {} /\ ~HasLast(R)}
<1>1. \A v, w \in Writer : Ahead(b, v, w) \/ Ahead(b, w, v)
  BY DEF Ahead, Minting
<1>2. \A u, v, w \in Writer : Ahead(b, u, v) /\ Ahead(b, v, w) => Ahead(b, u, w)
  BY DEF Ahead, Minting
<1>3. ASSUME Bad # {} PROVE FALSE
  <2>1. PICK R \in Bad : \A w \in R : R \ {w} \notin Bad
    <3>1. Bad \subseteq SUBSET Writer
      OBVIOUS
    <3> HIDE DEF Bad
    <3> QED
      BY <1>3, <3>1, SmallestSet
  <2>2. R \subseteq Writer /\ R # {} /\ ~HasLast(R)
    OBVIOUS
  <2>3. PICK w \in R : TRUE
    BY <2>2
  <2>4. CASE R \ {w} = {}
    <3>1. \A v \in R : v = w
      BY <2>4
    <3> QED
      BY <1>1, <2>2, <2>3, <3>1
  <2>5. CASE R \ {w} # {}
    <3>1. HasLast(R \ {w})
      BY <2>1, <2>2, <2>5
    <3>2. PICK m \in R \ {w} : \A v \in R \ {w} : Ahead(b, v, m)
      BY <3>1
    <3>3. CASE Ahead(b, w, m)
      BY <2>2, <3>2, <3>3
    <3>4. CASE Ahead(b, m, w)
      <4>1. \A v \in R : Ahead(b, v, w)
        BY <1>1, <1>2, <2>2, <3>2, <3>4
      <4> QED
        BY <2>2, <4>1
    <3> QED
      BY <1>1, <2>2, <3>3, <3>4
  <2> QED
    BY <2>4, <2>5
<1>4. HasLast(S)
  BY <1>3
<1> QED
  BY <1>4 DEF Last

LEMMA NoRowIsARow == NoRow \in RowType
BY DEF NoRow, RowType

\* The replay is what its definition says, for any finite log.
LEMMA ReplayDef ==
  ASSUME NEW b \in Minting
  PROVE  /\ ReplayOf(b) \in [SUBSET Writer -> RowType]
         /\ \A S \in SUBSET Writer : ReplayOf(b)[S] = NextRow(b, ReplayOf(b), S)
<1> DEFINE Replays(f, n) == \A S \in SUBSET Writer : Cardinality(S) <= n => f[S] = NextRow(b, f, S)
           Bad == {n \in Nat : ~ \E f \in [SUBSET Writer -> RowType] : Replays(f, n)}
<1>1. \A S \in SUBSET Writer : IsFiniteSet(S) /\ Cardinality(S) \in Nat
  BY EventIndexAssumption, FS_Subset, FS_CardinalityType
<1>2. \A f \in [SUBSET Writer -> RowType] : \A S \in SUBSET Writer : NextRow(b, f, S) \in RowType
  <2> SUFFICES ASSUME NEW f \in [SUBSET Writer -> RowType], NEW S \in SUBSET Writer, S # {}
               PROVE  NextRow(b, f, S) \in RowType
    BY NoRowIsARow DEF NextRow
  <2>1. Last(b, S) \in Writer
    BY LastIsLast
  <2>2. WithRow(Last(b, S), f[S \ {Last(b, S)}]) \in RowType
    BY <2>1, WithRowIsARow
  <2> QED
    BY <2>1, <2>2, RevisedIsARow DEF NextRow
<1>3. ASSUME NEW n \in Nat, NEW f \in [SUBSET Writer -> RowType], Replays(f, n)
      PROVE  \E g \in [SUBSET Writer -> RowType] : Replays(g, n + 1)
  <2> DEFINE g == [S \in SUBSET Writer |-> IF Cardinality(S) <= n THEN f[S] ELSE NextRow(b, f, S)]
  <2>1. g \in [SUBSET Writer -> RowType]
    BY <1>2
  <2>2. ASSUME NEW S \in SUBSET Writer, Cardinality(S) <= n + 1 PROVE g[S] = NextRow(b, g, S)
    <3>1. g[S] = NextRow(b, f, S)
      BY <1>3
    <3>2. CASE S = {}
      BY <3>1, <3>2 DEF NextRow
    <3>3. CASE S # {}
      <4>1. Last(b, S) \in S
        BY <3>3, LastIsLast
      <4>2. Cardinality(S \ {Last(b, S)}) = Cardinality(S) - 1
        BY <1>1, <4>1, FS_RemoveElement
      <4>3. Cardinality(S \ {Last(b, S)}) <= n
        BY <1>1, <2>2, <4>2
      <4>4. g[S \ {Last(b, S)}] = f[S \ {Last(b, S)}]
        BY <4>3
      <4> QED
        BY <3>1, <3>3, <4>4 DEF NextRow
    <3> QED
      BY <3>2, <3>3
  <2>3. Replays(g, n + 1)
    BY <2>2
  <2> QED
    BY <2>1, <2>3
<1>4. \E f \in [SUBSET Writer -> RowType] : Replays(f, 0)
  <2> DEFINE g == [S \in SUBSET Writer |-> NoRow]
  <2>1. \A S \in SUBSET Writer : Cardinality(S) <= 0 => S = {}
    BY <1>1, FS_EmptySet
  <2>2. Replays(g, 0)
    BY <2>1 DEF NextRow
  <2>3. g \in [SUBSET Writer -> RowType]
    BY NoRowIsARow
  <2> QED
    BY <2>2, <2>3
<1>5. Bad = {}
  <2> SUFFICES ASSUME Bad # {} PROVE FALSE
    OBVIOUS
  <2>1. PICK n \in Bad : \A m \in Bad : n <= m
    <3>1. Bad \subseteq Nat
      OBVIOUS
    <3> HIDE DEF Bad
    <3> QED
      BY <3>1, SmallestNumber
  <2>2. n \in Nat /\ n # 0
    BY <1>4
  <2>3. n - 1 \in Nat /\ n - 1 \notin Bad
    <3> HIDE DEF Bad
    <3> QED
      BY <2>1, <2>2
  <2>4. PICK f \in [SUBSET Writer -> RowType] : Replays(f, n - 1)
    BY <2>3
  <2>5. \E g \in [SUBSET Writer -> RowType] : Replays(g, (n - 1) + 1)
    BY <1>3, <2>3, <2>4
  <2>6. (n - 1) + 1 = n
    BY <2>2
  <2>7. n \notin Bad
    BY <2>5, <2>6
  <2> QED
    BY <2>7
<1>6. \E f \in [SUBSET Writer -> RowType] : f = [S \in SUBSET Writer |-> NextRow(b, f, S)]
  <2>1. Cardinality(Writer) \in Nat /\ \A S \in SUBSET Writer : Cardinality(S) <= Cardinality(Writer)
    BY EventIndexAssumption, FS_Subset, FS_CardinalityType
  <2>2. PICK f \in [SUBSET Writer -> RowType] : Replays(f, Cardinality(Writer))
    BY <1>5, <2>1
  <2>3. \A S \in SUBSET Writer : f[S] = NextRow(b, f, S)
    BY <2>1, <2>2
  <2>4. f = [S \in SUBSET Writer |-> NextRow(b, f, S)]
    BY <2>3
  <2> QED
    BY <2>4
<1>7. ReplayOf(b) = [S \in SUBSET Writer |-> NextRow(b, ReplayOf(b), S)]
  BY <1>6, Zenon DEF ReplayOf
<1>8. \A S \in SUBSET Writer : ReplayOf(b)[S] = NextRow(b, ReplayOf(b), S)
  BY <1>7, Zenon
<1>9. \A S \in SUBSET Writer : ReplayOf(b)[S] \in RowType
  <2> DEFINE Odd == {S \in SUBSET Writer : ReplayOf(b)[S] \notin RowType}
  <2> SUFFICES ASSUME Odd # {} PROVE FALSE
    OBVIOUS
  <2>1. PICK S \in Odd : \A w \in S : S \ {w} \notin Odd
    <3>1. Odd \subseteq SUBSET Writer
      OBVIOUS
    <3> HIDE DEF Odd
    <3> QED
      BY <3>1, SmallestSet
  <2>2. S \in SUBSET Writer /\ ReplayOf(b)[S] \notin RowType
    OBVIOUS
  <2>3. S # {}
    BY <1>8, <2>2, NoRowIsARow DEF NextRow
  <2>4. Last(b, S) \in S /\ Last(b, S) \in Writer
    BY <2>3, LastIsLast
  <2>5. ReplayOf(b)[S \ {Last(b, S)}] \in RowType
    BY <2>1, <2>4
  <2>6. NextRow(b, ReplayOf(b), S) \in RowType
    <3>1. WithRow(Last(b, S), ReplayOf(b)[S \ {Last(b, S)}]) \in RowType
      BY <2>4, <2>5, WithRowIsARow
    <3> QED
      BY <2>3, <2>4, <3>1, RevisedIsARow DEF NextRow
  <2> QED
    BY <1>8, <2>2, <2>6
<1>10. ReplayOf(b) \in [SUBSET Writer -> RowType]
  <2> DEFINE f == ReplayOf(b)
  <2>1. f = [S \in SUBSET Writer |-> f[S]] /\ \A S \in SUBSET Writer : f[S] \in RowType
    BY <1>7, <1>8, <1>9
  <2> HIDE DEF f
  <2>2. f \in [SUBSET Writer -> RowType]
    BY <2>1
  <2> QED
    BY <2>2 DEF f
<1> QED
  BY <1>8, <1>10

Fresh == [NoRow EXCEPT !.here = TRUE, !.text = Target]

\* What one line does to a row, by what it is.
LEMMA WhatALineDoes ==
  ASSUME NEW w \in Writer, NEW old \in RowType
  PROVE  /\ w # Target => WithRow(w, old) = old /\ Revised(w, WithRow(w, old)) = Revised(w, old)
         /\ w \notin Revisers => Revised(w, old) = old
         /\ ~old.here => Revised(w, old) = old
         /\ old.here => Revised(w, old).here
         /\ Kind[w] = "clean" => Revised(w, old).text = old.text
         /\ WithRow(Target, old).here /\ WithRow(Target, old).text = Target
         /\ old = NoRow => WithRow(Target, old) = Fresh
         /\ old.here /\ old.text = Target => WithRow(Target, old) = old
         /\ Target \notin Revisers /\ NoRow \in RowType /\ ~NoRow.here /\ Fresh.here
<1> USE DEF RowType
<1>1. Target \notin Revisers
  BY EventIndexAssumption DEF Revisers, Revisions
<1>2. w # Target => WithRow(w, old) = old
  BY DEF WithRow
<1>3. w \notin Revisers => Revised(w, old) = old
  BY DEF Revised, Revisers, Revisions
<1>4. ~old.here => Revised(w, old) = old
  BY DEF Revised
<1>5. old.here => Revised(w, old).here
  BY DEF Revised
<1>6. Kind[w] = "clean" => Revised(w, old).text = old.text
  BY DEF Revised
<1>7. WithRow(Target, old).here /\ WithRow(Target, old).text = Target
  BY DEF WithRow, NoRow
<1>8. old = NoRow => WithRow(Target, old) = Fresh
  BY DEF WithRow, NoRow, Fresh
<1>9. old.here /\ old.text = Target => WithRow(Target, old) = old
  BY DEF WithRow
<1>10. NoRow \in RowType /\ ~NoRow.here /\ Fresh.here
  BY NoRowIsARow DEF NoRow, Fresh
<1> QED
  BY <1>1, <1>2, <1>3, <1>4, <1>5, <1>6, <1>7, <1>8, <1>9, <1>10

\* Without the target there is no row, with it there is.
LEMMA ReplayHasTheTarget ==
  ASSUME NEW b \in Minting, NEW S \in SUBSET Writer
  PROVE  /\ Target \notin S => ReplayOf(b)[S] = NoRow
         /\ Target \in S => ReplayOf(b)[S].here
<1> DEFINE Holds(R) == /\ Target \notin R => ReplayOf(b)[R] = NoRow
                       /\ Target \in R => ReplayOf(b)[R].here
           Bad == {R \in SUBSET Writer : ~Holds(R)}
<1>1. ASSUME Bad # {} PROVE FALSE
  <2>1. PICK R \in Bad : \A w \in R : R \ {w} \notin Bad
    <3>1. Bad \subseteq SUBSET Writer
      OBVIOUS
    <3> HIDE DEF Bad
    <3> QED
      BY <1>1, <3>1, SmallestSet
  <2>2. R \in SUBSET Writer /\ ~Holds(R)
    OBVIOUS
  <2>3. ReplayOf(b)[R] = NextRow(b, ReplayOf(b), R)
    BY <2>2, ReplayDef
  <2>4. R # {}
    BY <2>2, <2>3 DEF NextRow
  <2> DEFINE w == Last(b, R)
             old == ReplayOf(b)[R \ {w}]
  <2>5. w \in R /\ w \in Writer
    BY <2>2, <2>4, LastIsLast
  <2>6. Holds(R \ {w}) /\ R \ {w} \in SUBSET Writer
    BY <2>1, <2>2, <2>5
  <2>7. old \in RowType
    BY <2>6, ReplayDef
  <2>8. ReplayOf(b)[R] = Revised(w, WithRow(w, old))
    BY <2>3, <2>4 DEF NextRow
  <2>9. WithRow(w, old) \in RowType
    BY <2>5, <2>7, WithRowIsARow
  <2>10. CASE w = Target
    <3>1. ReplayOf(b)[R].here
      BY <2>5, <2>7, <2>8, <2>9, <2>10, WhatALineDoes
    <3> QED
      BY <2>2, <2>5, <2>10, <3>1
  <2>11. CASE w # Target
    <3>1. ReplayOf(b)[R] = Revised(w, old)
      BY <2>5, <2>7, <2>8, <2>11, WhatALineDoes
    <3>2. (Target \notin R => old = NoRow) /\ (Target \in R => old.here)
      BY <2>6, <2>11
    <3>3. Holds(R)
      BY <2>5, <2>7, <3>1, <3>2, WhatALineDoes
    <3> QED
      BY <2>2, <3>3
  <2> QED
    BY <2>10, <2>11
<1> QED
  BY <1>1

\* Nothing but the target and cleanups leaves the target's own wording.
LEMMA ReplayOfCleanups ==
  ASSUME NEW b \in Minting, NEW S \in SUBSET Writer, Target \in S,
         \A w \in S \cap Revisers : Kind[w] = "clean"
  PROVE  ReplayOf(b)[S].text = Target
<1> DEFINE Holds(R) == Target \in R => ReplayOf(b)[R].text = Target
           Bad == {R \in SUBSET S : ~Holds(R)}
<1>1. ASSUME Bad # {} PROVE FALSE
  <2>1. PICK R \in Bad : \A w \in R : R \ {w} \notin Bad
    <3>1. Bad \subseteq SUBSET Writer
      OBVIOUS
    <3> HIDE DEF Bad
    <3> QED
      BY <1>1, <3>1, SmallestSet
  <2>2. R \in SUBSET S /\ R \in SUBSET Writer /\ ~Holds(R)
    OBVIOUS
  <2>3. ReplayOf(b)[R] = NextRow(b, ReplayOf(b), R)
    BY <2>2, ReplayDef
  <2>4. R # {}
    BY <2>2
  <2> DEFINE w == Last(b, R)
             old == ReplayOf(b)[R \ {w}]
  <2>5. w \in R /\ w \in Writer /\ w \in S
    BY <2>2, <2>4, LastIsLast
  <2>6. Holds(R \ {w}) /\ R \ {w} \in SUBSET Writer
    BY <2>1, <2>2, <2>5
  <2>7. old \in RowType
    BY <2>6, ReplayDef
  <2>8. ReplayOf(b)[R] = Revised(w, WithRow(w, old))
    BY <2>3, <2>4 DEF NextRow
  <2>9. WithRow(w, old) \in RowType
    BY <2>5, <2>7, WithRowIsARow
  <2>10. CASE w = Target
    <3>1. ReplayOf(b)[R].text = Target
      BY <2>5, <2>7, <2>8, <2>9, <2>10, WhatALineDoes
    <3> QED
      BY <2>2, <3>1
  <2>11. CASE w # Target
    <3>1. ReplayOf(b)[R] = Revised(w, old)
      BY <2>5, <2>7, <2>8, <2>11, WhatALineDoes
    <3>2. Target \in R => old.text = Target
      BY <2>6, <2>11
    <3>3. w \in Revisers => Kind[w] = "clean"
      BY <2>5
    <3>4. Holds(R)
      BY <2>5, <2>7, <3>1, <3>2, <3>3, WhatALineDoes
    <3> QED
      BY <2>2, <3>4
  <2> QED
    BY <2>10, <2>11
<1> QED
  BY <1>1

\* Without revisions the row is as the target's line makes it.
LEMMA ReplayOfNoRevision ==
  ASSUME NEW b \in Minting, NEW S \in SUBSET Writer, S \cap Revisers = {}
  PROVE  ReplayOf(b)[S] = IF Target \in S THEN Fresh ELSE NoRow
<1> DEFINE Holds(R) == ReplayOf(b)[R] = IF Target \in R THEN Fresh ELSE NoRow
           Bad == {R \in SUBSET S : ~Holds(R)}
<1>1. ASSUME Bad # {} PROVE FALSE
  <2>1. PICK R \in Bad : \A w \in R : R \ {w} \notin Bad
    <3>1. Bad \subseteq SUBSET Writer
      OBVIOUS
    <3> HIDE DEF Bad
    <3> QED
      BY <1>1, <3>1, SmallestSet
  <2>2. R \in SUBSET S /\ R \in SUBSET Writer /\ ~Holds(R)
    OBVIOUS
  <2>3. ReplayOf(b)[R] = NextRow(b, ReplayOf(b), R)
    BY <2>2, ReplayDef
  <2>4. R # {}
    BY <2>2, <2>3 DEF NextRow
  <2> DEFINE w == Last(b, R)
             old == ReplayOf(b)[R \ {w}]
  <2>5. w \in R /\ w \in Writer /\ w \notin Revisers
    BY <2>2, <2>4, LastIsLast
  <2>6. Holds(R \ {w}) /\ R \ {w} \in SUBSET Writer
    BY <2>1, <2>2, <2>5
  <2>7. old \in RowType
    BY <2>6, ReplayDef
  <2>8. ReplayOf(b)[R] = Revised(w, WithRow(w, old)) /\ WithRow(w, old) \in RowType
    BY <2>3, <2>4, <2>5, <2>7, WithRowIsARow DEF NextRow
  <2>9. ReplayOf(b)[R] = WithRow(w, old)
    BY <2>5, <2>8, WhatALineDoes
  <2>10. CASE w = Target
    <3>1. old = NoRow
      BY <2>6, <2>10
    <3> QED
      BY <2>2, <2>5, <2>7, <2>9, <2>10, <3>1, WhatALineDoes
  <2>11. CASE w # Target
    <3>1. ReplayOf(b)[R] = old
      BY <2>5, <2>7, <2>9, <2>11, WhatALineDoes
    <3>2. Holds(R)
      BY <2>6, <2>11, <3>1
    <3> QED
      BY <2>2, <3>2
  <2> QED
    BY <2>10, <2>11
<1> QED
  BY <1>1

\* A revision minted after all others comes last.
LEMMA ReplayOfOneMore ==
  ASSUME NEW b \in Minting, NEW S \in SUBSET Writer, NEW w \in Revisers, w \notin S,
         \A v \in S : Ahead(b, v, w),
         \A v \in S \cap Revisers : b[v] # b[w]
  PROVE  ReplayOf(b)[S \cup {w}] = Revised(w, ReplayOf(b)[S])
<1> DEFINE R == S \cup {w}
<1>1. w \in Writer /\ Kind[w] \in Revisions /\ R \in SUBSET Writer /\ R # {} /\ w \in R
  BY DEF Revisers
<1>2. Last(b, R) \in R /\ \A v \in R : Ahead(b, v, Last(b, R))
  BY <1>1, LastIsLast
<1>3. \A v \in S : ~Ahead(b, w, v)
  <2> SUFFICES ASSUME NEW v \in S, Ahead(b, w, v) PROVE FALSE
    OBVIOUS
  <2>1. v \in Revisers
    BY <1>1 DEF Ahead, Revisers
  <2>2. b[v] # b[w] /\ b[v] \in Nat /\ b[w] \in Nat
    BY <1>1, <2>1 DEF Minting
  <2> QED
    BY <1>1, <2>1, <2>2 DEF Ahead, Revisers
<1>4. Last(b, R) = w
  BY <1>1, <1>2, <1>3
<1>5. R \ {w} = S
  OBVIOUS
<1>6. ReplayOf(b)[R] = Revised(w, WithRow(w, ReplayOf(b)[S]))
  <2>1. ReplayOf(b)[R] = NextRow(b, ReplayOf(b), R)
    BY <1>1, ReplayDef
  <2> HIDE DEF R
  <2> QED
    BY <1>1, <1>4, <1>5, <2>1 DEF NextRow
<1>7. ReplayOf(b)[S] \in RowType
  BY ReplayDef
<1>8. w # Target
  BY WhatALineDoes, NoRowIsARow, <1>1
<1> QED
  BY <1>1, <1>6, <1>7, <1>8, WhatALineDoes

\* Only the target and its revisions count, if no two of these were minted at
\* once.
Telling == Revisers \cup {Target}

LEMMA ReplayOfWhatTells ==
  ASSUME NEW b \in Minting, NEW S \in SUBSET Writer,
         \A u, v \in S \cap Revisers : b[u] = b[v] => u = v
  PROVE  ReplayOf(b)[S] = ReplayOf(b)[S \cap Telling]
<1> DEFINE Holds(R) == ReplayOf(b)[R] = ReplayOf(b)[R \cap Telling]
           Bad == {R \in SUBSET S : ~Holds(R)}
<1>1. ASSUME Bad # {} PROVE FALSE
  <2>1. PICK R \in Bad : \A w \in R : R \ {w} \notin Bad
    <3>1. Bad \subseteq SUBSET Writer
      OBVIOUS
    <3> HIDE DEF Bad
    <3> QED
      BY <1>1, <3>1, SmallestSet
  <2>2. R \in SUBSET S /\ R \in SUBSET Writer /\ ~Holds(R)
    OBVIOUS
  <2>3. R # {}
    <3>1. R = {} => R \cap Telling = R
      OBVIOUS
    <3> QED
      BY <2>2, <3>1
  <2>4. ReplayOf(b)[R] = NextRow(b, ReplayOf(b), R)
    BY <2>2, ReplayDef
  <2> DEFINE w == Last(b, R)
             old == ReplayOf(b)[R \ {w}]
  <2>5. w \in R /\ w \in Writer /\ \A v \in R : Ahead(b, v, w)
    BY <2>2, <2>3, LastIsLast
  <2>6. Holds(R \ {w}) /\ R \ {w} \in SUBSET Writer
    BY <2>1, <2>2, <2>5
  <2>7. old \in RowType
    BY <2>6, ReplayDef
  <2>8. ReplayOf(b)[R] = Revised(w, WithRow(w, old))
    BY <2>3, <2>4 DEF NextRow
  <2> HIDE DEF w
  <2>9. CASE w \notin Telling
    <3>1. ReplayOf(b)[R] = old
      BY <2>5, <2>7, <2>8, <2>9, WhatALineDoes DEF Telling
    <3>2. (R \ {w}) \cap Telling = R \cap Telling
      BY <2>9
    <3> QED
      BY <2>2, <2>6, <3>1, <3>2
  <2>10. CASE w \in Telling
    <3> DEFINE Q == R \cap Telling
    <3>1. w \in Q /\ Q # {} /\ Q \in SUBSET Writer
      BY <2>2, <2>5, <2>10
    <3>2. Last(b, Q) \in Q /\ \A v \in Q : Ahead(b, v, Last(b, Q))
      BY <3>1, LastIsLast
    <3>3. Ahead(b, w, Last(b, Q)) /\ Ahead(b, Last(b, Q), w)
      BY <2>5, <3>1, <3>2
    <3>4. Last(b, Q) = w
      <4>1. b[w] \in Nat /\ b[Last(b, Q)] \in Nat
        BY <2>5, <3>1, <3>2 DEF Minting
      <4>2. w \in Revisers <=> Last(b, Q) \in Revisers
        BY <2>5, <3>1, <3>2, <3>3 DEF Ahead, Revisers
      <4>3. CASE w \in Revisers
        <5>1. Kind[w] \in Revisions
          BY <4>3 DEF Revisers
        <5>2. b[w] = b[Last(b, Q)]
          BY <3>3, <4>1, <5>1 DEF Ahead
        <5>3. w \in S \cap Revisers /\ Last(b, Q) \in S \cap Revisers
          BY <2>2, <2>5, <3>2, <4>2, <4>3
        <5> QED
          BY <5>2, <5>3
      <4>4. CASE w \notin Revisers
        BY <3>1, <3>2, <4>2, <4>4 DEF Telling
      <4> QED
        BY <4>3, <4>4
    <3>5. ReplayOf(b)[Q] = Revised(w, WithRow(w, ReplayOf(b)[Q \ {w}]))
      <4>1. ReplayOf(b)[Q] = NextRow(b, ReplayOf(b), Q)
        BY <3>1, ReplayDef
      <4> HIDE DEF Q
      <4> QED
        BY <3>1, <3>4, <4>1 DEF NextRow
    <3>6. Q \ {w} = (R \ {w}) \cap Telling
      OBVIOUS
    <3>7. ReplayOf(b)[Q \ {w}] = old
      BY <2>6, <3>6
    <3> QED
      BY <2>2, <2>8, <3>5, <3>7
  <2> QED
    BY <2>9, <2>10
<1> QED
  BY <1>1

\* So another page does not change the row.
LEMMA ReplayOfAnotherPage ==
  ASSUME NEW b \in Minting, NEW S \in SUBSET Writer, NEW w \in Writer \ Telling,
         \A u, v \in S \cap Revisers : b[u] = b[v] => u = v
  PROVE  ReplayOf(b)[S \cup {w}] = ReplayOf(b)[S]
<1>1. (S \cup {w}) \cap Revisers = S \cap Revisers /\ (S \cup {w}) \cap Telling = S \cap Telling
  BY DEF Telling
<1>2. S \cup {w} \in SUBSET Writer
  OBVIOUS
<1>3. ReplayOf(b)[S \cup {w}] = ReplayOf(b)[(S \cup {w}) \cap Telling]
  BY <1>1, <1>2, ReplayOfWhatTells
<1>4. ReplayOf(b)[S] = ReplayOf(b)[S \cap Telling]
  BY ReplayOfWhatTells
<1> QED
  BY <1>1, <1>3, <1>4

\* The replay of some lines asks when these were minted, and no others.
LEMMA ReplayAsMinted ==
  ASSUME NEW b \in Minting, NEW c \in Minting, NEW S \in SUBSET Writer,
         \A w \in S : b[w] = c[w]
  PROVE  ReplayOf(b)[S] = ReplayOf(c)[S]
<1> DEFINE Holds(R) == ReplayOf(b)[R] = ReplayOf(c)[R]
           Bad == {R \in SUBSET S : ~Holds(R)}
<1>1. ASSUME Bad # {} PROVE FALSE
  <2>1. PICK R \in Bad : \A w \in R : R \ {w} \notin Bad
    <3>1. Bad \subseteq SUBSET Writer
      OBVIOUS
    <3> HIDE DEF Bad
    <3> QED
      BY <1>1, <3>1, SmallestSet
  <2>2. R \in SUBSET S /\ R \in SUBSET Writer /\ ~Holds(R)
    OBVIOUS
  <2>3. ReplayOf(b)[R] = NextRow(b, ReplayOf(b), R) /\ ReplayOf(c)[R] = NextRow(c, ReplayOf(c), R)
    BY <2>2, ReplayDef
  <2>4. R # {}
    BY <2>2, <2>3 DEF NextRow
  <2>5. Last(b, R) \in R
    BY <2>2, <2>4, LastIsLast
  <2>6. \A v, w \in R : Ahead(b, v, w) <=> Ahead(c, v, w)
    BY <2>2 DEF Ahead
  <2>7. Last(b, R) = Last(c, R)
    BY <2>6, Zenon DEF Last
  <2>8. ReplayOf(b)[R \ {Last(b, R)}] = ReplayOf(c)[R \ {Last(b, R)}]
    BY <2>1, <2>2, <2>5
  <2> QED
    BY <2>2, <2>3, <2>4, <2>7, <2>8 DEF NextRow
<1> QED
  BY <1>1

(***************************************************************************)
(* Who keeps to himself, who holds the lock, and whose an id is            *)
(***************************************************************************)
\* Who has the machine for himself has it until he is done.
AloneStaysAlone == \A m \in Alone : ~AtRest(m) => \A n \in Process \ {m} : AtRest(n)

\* Who works under the lock holds it.
Locks(p)   == p \in CatchUps \/ (p \in Writer /\ Kind[p] \in UnderLock)
LockIsHeld == \A p \in Process : Locks(p) /\ ~AtRest(p) => lock = p

\* An id is minted once, later than those there are, and its line is read only
\* after its writer appended it.
Minted == {w \in Writer : born[w] # 0}
IdsAreInOrder ==
  /\ \A u \in Writer : born[u] <= Cardinality(Minted)
  /\ \A u, v \in Minted : born[u] = born[v] => u = v
IdsAreTheirs ==
  /\ \A u \in Writer : u \in Minted <=> pc[u] \notin {"idle", "away"}
  /\ \A u \in Writer : pc[u] \in {"append", "insert", "apply"} => at[u] = u
  /\ \A u \in Readable : Kind[u] # Foreign => pc[u] \notin {"idle", "away", "append"}

OrderInv == TruthInv /\ AloneStaysAlone /\ LockIsHeld /\ IdsAreInOrder /\ IdsAreTheirs

LEMMA AloneStep ==
  ASSUME TypeOK, AloneStaysAlone, NEW p \in Process, Acts(p)
  PROVE  AloneStaysAlone'
<1> SUFFICES ASSUME NEW m \in Alone, ~AtRest(m)', NEW n \in Process \ {m} PROVE AtRest(n)'
  BY DEF AloneStaysAlone
<1>1. m \in Process
  BY EventIndexAssumption
<1>2. \A q \in Process \ {p} : pc'[q] = pc[q]
  BY OneMoves
<1>3. AtRest(p) => HasTheTurn(p)
  BY RestersBeginInTurn
<1>4. CASE p = m
  BY <1>2, <1>3, <1>4 DEF AloneStaysAlone, HasTheTurn, AtRest
<1>5. CASE p # m
  <2>1. ~AtRest(m)
    BY <1>1, <1>2, <1>5 DEF AtRest
  <2>2. AtRest(p) /\ AtRest(n)
    BY <1>5, <2>1 DEF AloneStaysAlone
  <2>3. FALSE
    BY <1>1, <1>3, <1>5, <2>1, <2>2 DEF HasTheTurn
  <2> QED
    BY <2>3
<1> QED
  BY <1>4, <1>5

\* The lock is taken where it is free and given back by who rests.
LEMMA LockMoves ==
  ASSUME TypeOK, NEW p \in Process, Acts(p)
  PROVE  /\ \/ lock' = lock
            \/ lock = Free /\ lock' = p
            \/ lock = p /\ lock' = Free /\ AtRest(p)'
         /\ Locks(p) /\ AtRest(p) => lock = Free /\ lock' = p
<1> USE NobodyIsTwo DEF TypeOK, AtRest, Is, Move, Release, Locks
<1>1. CASE p \in Writer /\ WriterStep(p)
  BY <1>1 DEF WriterStep, Mint, Appends, WriterInserts, WriterApplies, WriterFails
<1>2. CASE p \in CatchUps /\ CatchUpStep(p)
  BY <1>2 DEF CatchUpStep, Opens, Probes, CatchUpInserts, CatchUpApplies, Marks, GivesUp, Closes
<1>3. CASE p \in Rebuilders /\ RebuildStep(p)
  BY <1>3 DEF RebuildStep, ReadsLog, Merges, Clears, Unmarks, ReadsAll, Takes, RebuildInserts, RebuildApplies,
     RebuildEnds
<1>4. CASE Killed(p)
  BY <1>4 DEF Killed
<1> QED
  BY <1>1, <1>2, <1>3, <1>4 DEF Acts

LEMMA LockStep ==
  ASSUME TypeOK, LockIsHeld, NEW p \in Process, Acts(p)
  PROVE  LockIsHeld'
<1> SUFFICES ASSUME NEW q \in Process, Locks(q), ~AtRest(q)' PROVE lock' = q
  BY DEF LockIsHeld, Locks
<1>1. Free \notin Process
  BY EventIndexAssumption
<1>2. CASE q = p
  BY <1>1, <1>2, LockMoves DEF LockIsHeld
<1>3. CASE q # p
  <2>1. ~AtRest(q)
    BY <1>3, OneMoves DEF AtRest
  <2> QED
    BY <1>1, <1>3, <2>1, LockMoves DEF LockIsHeld
<1> QED
  BY <1>2, <1>3

\* Ids are minted by Mint alone.
LEMMA WhoMints ==
  ASSUME TypeOK, NEW p \in Process, Acts(p)
  PROVE  UNCHANGED born \/ (p \in Writer /\ Mint(p))
BY DEF Acts, Killed, WriterStep, Appends, WriterInserts, WriterApplies, WriterFails,
   CatchUpStep, Opens, Probes, CatchUpInserts, CatchUpApplies, Marks, GivesUp,
   RebuildStep, ReadsLog, Merges, Clears, Unmarks, ReadsAll, Takes, RebuildInserts, RebuildApplies,
   RebuildEnds

LEMMA MintingFacts ==
  ASSUME TypeOK, IdsAreInOrder, IdsAreTheirs, NEW w \in Writer, Mint(w)
  PROVE  /\ w \notin Minted /\ Minted' = Minted \cup {w}
         /\ Cardinality(Minted) \in Nat /\ Cardinality(Minted') = Cardinality(Minted) + 1
         /\ born'[w] = Cardinality(Minted) + 1
         /\ \A u \in Writer \ {w} : born'[u] = born[u] /\ born[u] < born'[w]
<1>1. IsFiniteSet(Minted) /\ Cardinality(Minted) \in Nat
  BY EventIndexAssumption, FS_Subset, FS_CardinalityType DEF Minted
<1>2. w \notin Minted
  BY DEF Mint, Is, IdsAreTheirs
<1>3. born' = [born EXCEPT ![w] = 1 + Cardinality(Minted)] /\ born \in [Writer -> Nat]
  BY DEF Mint, Minted, TypeOK
<1>4. born'[w] = Cardinality(Minted) + 1 /\ \A u \in Writer \ {w} : born'[u] = born[u]
  BY <1>1, <1>3
<1>5. Minted' = Minted \cup {w}
  <2>1. born'[w] # 0
    BY <1>1, <1>4
  <2> QED
    BY <1>4, <2>1 DEF Minted
<1>6. Cardinality(Minted \cup {w}) = Cardinality(Minted) + 1
  BY <1>1, <1>2, FS_AddElement
<1>7. \A u \in Writer \ {w} : born[u] < born'[w]
  <2>1. \A u \in Writer : born[u] <= Cardinality(Minted) /\ born[u] \in Nat
    BY <1>3 DEF IdsAreInOrder
  <2> QED
    BY <1>1, <1>4, <2>1
<1> QED
  BY <1>1, <1>2, <1>4, <1>5, <1>6, <1>7

LEMMA IdOrderStep ==
  ASSUME TypeOK, IdsAreInOrder, IdsAreTheirs, NEW p \in Process, Acts(p)
  PROVE  IdsAreInOrder'
<1>1. CASE UNCHANGED born
  <2>1. Minted' = Minted
    BY <1>1 DEF Minted
  <2> QED
    BY <1>1, <2>1 DEF IdsAreInOrder
<1>2. CASE p \in Writer /\ Mint(p)
  <2>1. \A u \in Writer : born[u] \in Nat /\ born[u] <= Cardinality(Minted)
    BY DEF TypeOK, IdsAreInOrder
  <2>2. \A u \in Writer : born'[u] <= Cardinality(Minted')
    BY <1>2, <2>1, MintingFacts
  <2>3. ASSUME NEW u \in Minted', NEW v \in Minted', born'[u] = born'[v] PROVE u = v
    <3>1. u \in Writer /\ v \in Writer
      BY DEF Minted
    <3>2. CASE u = p \/ v = p
      BY <1>2, <2>1, <2>3, <3>1, <3>2, MintingFacts
    <3>3. CASE u # p /\ v # p
      <4>1. u \in Minted /\ v \in Minted /\ born[u] = born[v]
        BY <1>2, <2>3, <3>1, <3>3, MintingFacts
      <4> QED
        BY <4>1 DEF IdsAreInOrder
    <3> QED
      BY <3>2, <3>3
  <2> QED
    BY <2>2, <2>3 DEF IdsAreInOrder
<1> QED
  BY <1>1, <1>2, WhoMints

\* What can be read stays so; what comes is the line of who appends, or brought
\* by a sync.
LEMMA WhatCanBeRead ==
  ASSUME Undisturbed, TruthInv, NEW p \in Process, Acts(p)
  PROVE  /\ Readable \subseteq Readable'
         /\ ~(p \in Writer /\ Appends(p)) => \A w \in Readable' \ Readable : Kind[w] = Foreign
         /\ p \in Writer /\ Appends(p) => Readable' = Readable \cup {p}
         /\ ~(p \in Writer /\ Appends(p)) /\ ~(p \in Rebuilders /\ Merges(p)) => Readable' = Readable
<1> USE NobodyIsTwo DEF TruthInv, TypeOK, fileVars
<1>1. CASE p \in Writer /\ Appends(p)
  <2>1. log' = Append(log, [by |-> p, ok |-> TRUE]) /\ log \in Seq(Line)
    BY <1>1 DEF Appends, Derived, FromTheLog
  <2>2. Readable \subseteq Readable' /\ p \in Readable'
    BY <1>1, <2>1, AppendIsReadable
  <2>3. Readable' \subseteq Readable \cup {p}
    <3>1. Lines' \subseteq Lines \cup {[by |-> p, ok |-> TRUE]}
      BY <2>1 DEF Lines
    <3> QED
      BY <3>1 DEF Readable
  <2>4. Readable' = Readable \cup {p}
    BY <2>2, <2>3
  <2>5. ~(p \in Rebuilders)
    BY <1>1
  <2> QED
    BY <1>1, <2>4, <2>5
<1>2. CASE p \in Rebuilders /\ Merges(p)
  <2>1. p \in Syncs /\ copy[p] = log
    BY <1>2 DEF Merges, MergesTheLog, Is
  <2>2. Readable \subseteq Readable'
    BY <1>2, <2>1, MergeLosesNothing DEF Undisturbed
  <2>3. PICK s \in InOrder({log[i] : i \in DOMAIN log} \cup Brought) : log' = s
    <3>1. p \notin Mortal
      BY <1>2, <2>1 DEF Undisturbed, SyncsApart, Merges, Is
    <3> HIDE DEF TruthInv, TypeOK
    <3> QED
      BY <1>2, <2>1, <3>1 DEF Merges
  <2>4. Lines' \subseteq Lines \cup Brought
    <3> DEFINE S == {log[i] : i \in DOMAIN log} \cup Brought
    <3>1. IsFiniteSet(S)
      BY LinesAreFinite
    <3>2. Cardinality(S) \in Nat
      BY <3>1, FS_CardinalityType
    <3>3. s \in [1..Cardinality(S) -> S] /\ log' = s
      BY <2>3 DEF InOrder
    <3>4. \A i \in DOMAIN log' : log'[i] \in S
      <4> HIDE DEF S
      <4> QED
        BY <3>3
    <3> QED
      BY <3>4 DEF Lines
  <2>5. \A w \in Readable' \ Readable : Kind[w] = Foreign
    BY <2>4 DEF Readable, Brought
  <2> QED
    BY <1>2, <2>2, <2>5
<1>3. CASE ~(p \in Writer /\ Appends(p)) /\ ~(p \in Rebuilders /\ Merges(p))
  <2>1. UNCHANGED log
    BY <1>3 DEF Acts, Killed, WriterStep, Mint, WriterInserts, WriterApplies, WriterFails,
       CatchUpStep, Opens, Probes, CatchUpInserts, CatchUpApplies, Marks, GivesUp,
       RebuildStep, ReadsLog, Clears, Unmarks, ReadsAll, Takes, RebuildInserts, RebuildApplies, RebuildEnds
  <2> QED
    BY <1>3, <2>1, ReadableFacts
<1> QED
  BY <1>1, <1>2, <1>3

\* Where a writer goes.
LEMMA WhereWritersGo ==
  ASSUME TypeOK, NEW w \in Writer, WriterStep(w) \/ Killed(w)
  PROVE  /\ pc[w] # "away" /\ pc'[w] \notin {"idle", "away"}
         /\ ~Mint(w) => pc[w] # "idle" /\ at'[w] = at[w]
         /\ Mint(w) => pc[w] = "idle" /\ at'[w] = w /\ Kind[w] # Foreign
         /\ pc'[w] = "append" => Mint(w)
BY DEF TypeOK, WriterStep, Mint, Appends, WriterInserts, WriterApplies, WriterFails, Killed, AtRest, Is,
   Move, ownVars, history,
       Process

LEMMA IdOwnerStep ==
  ASSUME Undisturbed, OrderInv, NEW p \in Process, Acts(p)
  PROVE  IdsAreTheirs'
<1> USE NobodyIsTwo DEF OrderInv, TruthInv
<1>1. \A q \in Process \ {p} : pc'[q] = pc[q] /\ at'[q] = at[q]
  BY OneMoves, OthersKeepTheirs
<1>2. Writer \subseteq Process /\ Readable' \subseteq Writer
  <2>1. TypeOK'
    BY WriterStepKeepsTypes, CatchUpStepKeepsTypes, RebuildStepKeepsTypes, KilledKeepsTypes DEF Acts
  <2>2. log' \in Seq(Line)
    BY <2>1 DEF TypeOK
  <2>3. \A line \in Line : line.ok => line.by \in Writer
    BY LineFacts
  <2>4. Lines' \subseteq Line
    BY <2>2 DEF Lines
  <2> QED
    BY <2>3, <2>4 DEF Process, Readable
<1>3. CASE p \notin Writer
  <2>1. UNCHANGED born
    BY <1>3, WhoMints
  <2>2. Minted' = Minted
    BY <2>1 DEF Minted
  <2>3. \A u \in Readable' : Kind[u] # Foreign => u \in Readable
    BY <1>3, WhatCanBeRead
  <2> QED
    BY <1>1, <1>2, <1>3, <2>2, <2>3 DEF IdsAreTheirs
<1>4. CASE p \in Writer /\ Mint(p)
  <2>1. Minted' = Minted \cup {p} /\ pc[p] = "idle" /\ pc'[p] = "append" /\ at'[p] = p /\ Kind[p] # Foreign
    BY <1>2, <1>4, MintingFacts DEF Mint, Is, Move, TypeOK
  <2>2. Readable' = Readable
    BY <1>4, ReadableFacts DEF Mint, fileVars
  <2> QED
    BY <1>1, <1>2, <2>1, <2>2 DEF IdsAreTheirs
<1>5. CASE p \in Writer /\ ~Mint(p)
  <2>1. WriterStep(p) \/ Killed(p)
    BY <1>5 DEF Acts
  <2>2. Minted' = Minted
    BY <1>5, WhoMints DEF Minted
  <2>3. pc[p] \notin {"idle", "away"} /\ pc'[p] \notin {"idle", "away", "append"} /\ at'[p] = at[p]
    BY <1>5, <2>1, WhereWritersGo
  <2>4. pc'[p] \in {"append", "insert", "apply"} => pc[p] \in {"append", "insert", "apply"}
    BY <1>5, <2>1 DEF TypeOK, WriterStep, Mint, Appends, WriterInserts, WriterApplies, WriterFails, Killed,
       AtRest,
       Is, Move
  <2>5. \A u \in Readable' : Kind[u] # Foreign => u = p \/ u \in Readable
    BY <1>5, WhatCanBeRead
  <2> QED
    BY <1>1, <1>2, <1>5, <2>2, <2>3, <2>4, <2>5 DEF IdsAreTheirs
<1> QED
  BY <1>3, <1>4, <1>5

OrderRest == AloneStaysAlone /\ LockIsHeld /\ IdsAreInOrder /\ IdsAreTheirs

OrderHolds == Undisturbed => OrderRest

LEMMA OrderInvariant == Spec => [](Undisturbed => OrderInv)
<1>1. Init => OrderHolds
  <2> SUFFICES ASSUME Init PROVE OrderRest
    BY DEF OrderHolds
  <2>1. \A p \in Process : pc[p] \in {"idle", "away"}
    BY DEF Init
  <2>2. log = <<>> /\ \A w \in Writer : born[w] = 0
    BY DEF Init
  <2>3. Readable = {}
    <3>1. DOMAIN log = {}
      BY <2>2
    <3> QED
      BY <3>1 DEF Readable, Lines
  <2>4. Minted = {} /\ Cardinality(Minted) = 0
    BY <2>2, FS_EmptySet DEF Minted
  <2> QED
    BY <2>1, <2>2, <2>3, <2>4, EventIndexAssumption
    DEF OrderRest, AloneStaysAlone, LockIsHeld, IdsAreInOrder, IdsAreTheirs, AtRest, Process
<1>2. OrderHolds /\ TruthHolds /\ TypeOK /\ [Next]_vars => OrderHolds'
  <2> SUFFICES ASSUME OrderHolds, TruthHolds, TypeOK, [Next]_vars, Undisturbed' PROVE OrderRest'
    BY DEF OrderHolds
  <2>1. Undisturbed /\ OrderInv
    BY UndisturbedLasts DEF OrderHolds, TruthHolds, OrderRest, OrderInv
  <2>2. CASE UNCHANGED vars
    <3>1. UNCHANGED <<pc, lock, born, at, log>> /\ Readable' = Readable /\ Minted' = Minted
      BY <2>2, ReadableFacts DEF vars, fileVars, ownVars, history, Minted
    <3> QED
      BY <2>1, <3>1 DEF OrderInv, OrderRest, AloneStaysAlone, LockIsHeld, IdsAreInOrder, IdsAreTheirs,
         AtRest, Locks
  <2>3. CASE Next
    <3>1. PICK p \in Process : Acts(p)
      BY <2>3, NextIsSomeone
    <3> QED
      BY <2>1, <3>1, AloneStep, LockStep, IdOrderStep, IdOwnerStep DEF OrderRest, OrderInv
  <2> QED
    BY <2>2, <2>3
<1>3. TruthHolds /\ OrderHolds => (Undisturbed => OrderInv)
  BY DEF TruthHolds, OrderHolds, OrderInv, OrderRest
<1> QED
  BY <1>1, <1>2, <1>3, EventIndexTypeCorrect, TruthInvariant, PTL DEF Spec

(***************************************************************************)
(* Whoever changes the row does it in turn                                 *)
(***************************************************************************)
InTurn == \A p \in OutOfTurn : Is(p, "away")

\* A rebuild between emptying the index and the end, and what it has to index.
Filling(m) == m \in Rebuilders /\ pc[m] \in {"unmark", "read", "next", "insert", "apply"}
Held(m)    == IF pc[m] = "insert" THEN todo[m] \cup {at[m]} ELSE todo[m]

\* Revisions that have their row and have not revised the target's yet.
Halfway == {at[p] : p \in {q \in Process : pc[q] = "apply" /\ at[q] \in Revisers}}

\* A revision that is in the log and not in the index is its writer's to bring
\* in, if it is no rebuild's.
WritersBringTheirs ==
  /\ \A u \in Revisers : u \in Readable /\ u \notin rows => pc[u] = "insert" \/ \E m \in Rebuilders : Filling(m)
  /\ \A u \in Revisers : pc[u] = "insert" => u \notin rows

CatchUpsBringPages ==
  \A c \in CatchUps :
    /\ pc[c] \in {"insert", "apply"} => at[c] \notin Revisers
    /\ pc[c] = "insert" /\ at[c] = Target => rows \cap Revisers = {}

\* There is no revision before its target.
NothingToRevise ==
  Target \notin rows /\ (\A m \in Rebuilders : ~Filling(m)) => \A u \in Revisers : u \notin rows /\ AtRest(u)
TargetCameFirst ==
  /\ (\E u \in Revisers : u \in Minted) => Target \in Readable
  /\ pc[Target] \in {"append", "insert"} => \A u \in Revisers : u \in Minted => Kind[u] = "clean"

\* A rebuild has indexed what precedes all that it has still to index.
RebuildsGoInOrder ==
  \A m \in Rebuilders : Filling(m) =>
    /\ pc[m] \in {"unmark", "read"} => rows = {}
    /\ pc[m] \notin {"unmark", "read"} =>
         /\ rows \cup Held(m) = Readable /\ rows \cap Held(m) = {}
         /\ \A i \in rows, j \in Held(m) : Precedes(i, j)
    /\ pc[m] = "insert" => at[m] \notin todo[m] /\ \A j \in todo[m] : Precedes(at[m], j)
    /\ pc[m] = "apply" => at[m] \in rows /\ \A i \in rows : Precedes(i, at[m])

\* Who is about to revise is the newest of those who ever did.
NewestRevises ==
  \A u \in Revisers : ~AtRest(u) => \A v \in Revisers \ {u} : born[v] < born[u]

RowIsReplayed == row = ReplayOf(born)[rows \ Halfway]

TurnInv ==
  /\ WritersBringTheirs /\ CatchUpsBringPages /\ NothingToRevise /\ TargetCameFirst
  /\ RebuildsGoInOrder /\ NewestRevises /\ RowIsReplayed

LEMMA InTurnLasts ==
  ASSUME TypeOK, NEW p \in Process, Acts(p), InTurn'
  PROVE  InTurn
<1>1. OutOfTurn \subseteq Process
  BY DEF OutOfTurn, Revisers, Process
<1>2. \A q \in Process \ {p} : pc'[q] = pc[q]
  BY OneMoves
<1> QED
  BY <1>1, <1>2, AwayStays DEF InTurn, Is

\* Who keeps his turn disturbs nobody.
LEMMA InTurnIsUndisturbed ==
  ASSUME InTurn
  PROVE  Undisturbed
BY EventIndexAssumption DEF InTurn, OutOfTurn, Undisturbed, SyncsApart, Is

LEMMA InTurnFacts ==
  ASSUME InTurn, NEW q \in Process, pc[q] # "away"
  PROVE  /\ q \in Revisers => q \notin Mortal \cup Fallible /\ (q \in Alone \/ Kind[q] = "clean")
         /\ q \in Rebuilders => q \in Alone /\ q \notin Mortal
<1>1. Revisers \subseteq Writer
  BY DEF Revisers
<1> QED
  BY <1>1 DEF InTurn, OutOfTurn, Is

\* Rebuilds, and whoever revises the row, work apart from each other, and
\* revisers apart from catch-ups.
LEMMA Apart ==
  ASSUME OrderInv, InTurn, NEW p \in Process, Acts(p), NEW q \in Process \ {p}, ~AtRest(q)
  PROVE  /\ p \notin Rebuilders /\ q \notin Rebuilders
         /\ p \in Revisers \cup CatchUps => q \notin Revisers
         /\ p \in Revisers => q \notin CatchUps
<1> USE DEF OrderInv, TruthInv
<1>1. pc[p] # "away" /\ pc[q] # "away"
  BY AwayStays DEF AtRest
<1>2. p \notin Alone /\ q \notin Alone
  <2>1. CASE AtRest(p)
    BY <2>1, RestersBeginInTurn DEF HasTheTurn
  <2>2. CASE ~AtRest(p)
    BY <2>2 DEF AloneStaysAlone
  <2> QED
    BY <2>1, <2>2
<1>3. p \notin Rebuilders /\ q \notin Rebuilders
  BY <1>1, <1>2, InTurnFacts
<1>4. ASSUME NEW m \in Process, m \in Revisers, m = p \/ m = q PROVE Locks(m)
  BY <1>1, <1>2, <1>4, InTurnFacts DEF Locks, UnderLock, Revisers
<1>5. Locks(p) /\ Locks(q) => FALSE
  <2> SUFFICES ASSUME Locks(p), Locks(q) PROVE FALSE
    OBVIOUS
  <2>1. lock = q /\ q # Free
    BY EventIndexAssumption DEF LockIsHeld
  <2>2. AtRest(p)
    BY <2>1 DEF LockIsHeld
  <2> QED
    BY <2>1, <2>2, LockMoves
<1>6. \A m \in CatchUps : Locks(m)
  BY DEF Locks
<1> QED
  BY <1>3, <1>4, <1>5, <1>6

\* The row is there while the target has its own.
LEMMA RowIsHere ==
  ASSUME OrderInv, RowIsReplayed
  PROVE  /\ row.here <=> Target \in rows
         /\ row \in RowType /\ born \in Minting /\ rows \ Halfway \in SUBSET Writer /\ rows \in SUBSET Writer
<1>1. row \in RowType /\ born \in Minting /\ rows \ Halfway \in SUBSET Writer /\ rows \in SUBSET Writer
  BY DEF OrderInv, TruthInv, TypeOK, Minting
<1>2. Target \notin Halfway /\ ~NoRow.here
  BY EventIndexAssumption, WhatALineDoes, <1>1 DEF Halfway
<1>3. Target \in rows <=> Target \in rows \ Halfway
  BY <1>2
<1> QED
  BY <1>1, <1>2, <1>3, ReplayHasTheTarget DEF RowIsReplayed

\* Where the acting process neither was half way nor is, the same are.
LEMMA SameHalfway ==
  ASSUME TypeOK, NEW p \in Process, Acts(p),
         pc[p] # "apply" \/ at[p] \notin Revisers,
         pc'[p] # "apply" \/ at'[p] \notin Revisers
  PROVE  Halfway' = Halfway
<1>1. \A q \in Process \ {p} : pc'[q] = pc[q] /\ at'[q] = at[q]
  BY OneMoves, OthersKeepTheirs
<1>2. Halfway' \subseteq Halfway
  BY <1>1 DEF Halfway
<1>3. Halfway \subseteq Halfway'
  BY <1>1 DEF Halfway
<1> QED
  BY <1>2, <1>3

\* While a writer or a catch-up acts, no rebuild does.
LEMMA NobodyRebuilds ==
  ASSUME OrderInv, InTurn, NEW p \in Process, Acts(p), p \notin Rebuilders
  PROVE  \A m \in Rebuilders : AtRest(m) /\ pc'[m] = pc[m] /\ ~Filling(m) /\ ~Filling(m)'
<1> SUFFICES ASSUME NEW m \in Rebuilders PROVE AtRest(m) /\ pc'[m] = pc[m] /\ ~Filling(m) /\ ~Filling(m)'
  OBVIOUS
<1>1. m \in Process \ {p}
  BY DEF Process
<1>2. AtRest(m) /\ pc'[m] = pc[m]
  BY <1>1, Apart, OneMoves DEF OrderInv, TruthInv
<1> QED
  BY <1>2 DEF AtRest, Filling

LEMMA MintsInTurn ==
  ASSUME OrderInv, InTurn, TurnInv, NEW w \in Writer, Mint(w)
  PROVE  TurnInv'
<1>1. w \in Process /\ Acts(w) /\ w \notin Rebuilders /\ w \notin CatchUps
  BY NobodyIsTwo DEF Process, Acts, WriterStep
<1>2. TypeOK /\ (row.here <=> Target \in rows)
  BY RowIsHere DEF OrderInv, TruthInv, TurnInv
<1>3. /\ UNCHANGED <<rows, row, log>> /\ Readable' = Readable
      /\ pc[w] = "idle" /\ pc'[w] = "append" /\ Kind[w] # Foreign /\ HasTheTurn(w)
      /\ w \in Revisers => row.here
  <2>1. w \in Revisers => row.here
    BY DEF Mint, MayRevise, Revisers, Revisions
  <2>2. UNCHANGED <<rows, row, log>>
    BY DEF Mint, fileVars, indexVars
  <2> QED
    BY <1>1, <2>1, <2>2, ReadableFacts DEF Mint, Is, Move, OrderInv, TruthInv, TypeOK
<1>4. \A q \in Process \ {w} : pc'[q] = pc[q] /\ at'[q] = at[q]
  BY <1>1, OneMoves, OthersKeepTheirs DEF OrderInv, TruthInv
<1>5. /\ Minted' = Minted \cup {w} /\ \A u \in Writer \ {w} : born'[u] = born[u] /\ born[u] < born'[w]
  BY MintingFacts DEF OrderInv, TruthInv
<1>6. w \notin Readable /\ w \notin rows /\ rows \subseteq Readable
  BY <1>3 DEF OrderInv, TruthInv, IdsAreTheirs, Derived, IndexIsDerived
<1>7. \A m \in Rebuilders : ~Filling(m) /\ ~Filling(m)'
  BY <1>1, NobodyRebuilds
<1>8. \A u \in Revisers : u \in Writer /\ u \in Process
  BY DEF Revisers, Process
<1>9. WritersBringTheirs'
  BY <1>3, <1>4, <1>6, <1>7, <1>8 DEF TurnInv, WritersBringTheirs
<1>10. CatchUpsBringPages'
  <2>1. CatchUps \subseteq Process \ {w}
    BY <1>1 DEF Process
  <2> QED
    BY <1>3, <1>4, <2>1 DEF TurnInv, CatchUpsBringPages
<1>11. NothingToRevise'
  <2> SUFFICES ASSUME Target \notin rows, NEW u \in Revisers PROVE u \notin rows /\ AtRest(u)'
    BY <1>3 DEF NothingToRevise
  <2>1. u \notin rows /\ AtRest(u)
    BY <1>7 DEF TurnInv, NothingToRevise
  <2>2. u # w
    BY <1>2, <1>3
  <2> QED
    BY <1>4, <1>8, <2>1, <2>2 DEF AtRest
<1>12. TargetCameFirst'
  <2>0. Target \in Process /\ Target \notin Revisers /\ Kind[Target] = "page" /\ Target \in Writer
    BY EventIndexAssumption DEF Process, Revisers, Revisions
  <2>1. (\E u \in Revisers : u \in Minted') => Target \in Readable'
    BY <1>2, <1>3, <1>5, <1>6 DEF TurnInv, TargetCameFirst
  <2>2. ASSUME pc'[Target] \in {"append", "insert"}, NEW u \in Revisers, u \in Minted' PROVE Kind[u] = "clean"
    <3>1. CASE w = Target
      <4>1. u \in Minted
        BY <1>5, <2>0, <2>2, <3>1
      <4>2. Target \in Readable
        BY <4>1 DEF TurnInv, TargetCameFirst
      <4> QED
        BY <1>6, <3>1, <4>2
    <3>2. CASE w # Target
      <4>1. pc[Target] \in {"append", "insert"}
        BY <1>4, <2>0, <2>2, <3>2
      <4>2. CASE u = w
        <5>1. ~AtRest(Target)
          BY <4>1 DEF AtRest
        <5>2. w \notin Alone
          BY <1>3, <2>0, <3>2, <5>1 DEF HasTheTurn
        <5>3. pc[w] # "away"
          BY <1>3
        <5> QED
          BY <1>1, <2>2, <4>2, <5>2, <5>3, InTurnFacts
      <4>3. CASE u # w
        BY <1>5, <2>2, <4>1, <4>3 DEF TurnInv, TargetCameFirst
      <4> QED
        BY <4>2, <4>3
    <3> QED
      BY <3>1, <3>2
  <2> QED
    BY <2>1, <2>2 DEF TargetCameFirst
<1>13. RebuildsGoInOrder'
  BY <1>7 DEF RebuildsGoInOrder
<1>14. NewestRevises'
  <2> SUFFICES ASSUME NEW u \in Revisers, ~AtRest(u)', NEW v \in Revisers \ {u} PROVE born'[v] < born'[u]
    BY DEF NewestRevises
  <2>1. CASE u = w
    BY <1>5, <1>8, <2>1
  <2>2. CASE u # w
    <3>1. ~AtRest(u)
      BY <1>4, <1>8, <2>2 DEF AtRest
    <3>2. w \notin Revisers
      BY <1>1, <1>8, <2>2, <3>1, Apart
    <3>3. born[v] < born[u]
      BY <3>1 DEF TurnInv, NewestRevises
    <3> QED
      BY <1>5, <1>8, <2>2, <3>2, <3>3
  <2> QED
    BY <2>1, <2>2
<1>15. RowIsReplayed'
  <2>1. Halfway' = Halfway
    BY <1>1, <1>3, SameHalfway DEF OrderInv, TruthInv
  <2>2. born' \in Minting
    <3>1. TypeOK'
      BY WriterStepKeepsTypes DEF OrderInv, TruthInv, WriterStep
    <3> QED
      BY <3>1 DEF TypeOK, Minting
  <2>3. born \in Minting /\ rows \ Halfway \in SUBSET Writer
    BY RowIsHere DEF TurnInv
  <2>4. \A v \in rows \ Halfway : born[v] = born'[v]
    BY <1>5, <1>6, <2>3
  <2>5. ReplayOf(born)[rows \ Halfway] = ReplayOf(born')[rows \ Halfway]
    BY <2>2, <2>3, <2>4, ReplayAsMinted
  <2> QED
    BY <1>3, <2>1, <2>5 DEF TurnInv, RowIsReplayed
<1> QED
  BY <1>9, <1>10, <1>11, <1>12, <1>13, <1>14, <1>15 DEF TurnInv

\* What a writer that has its id and a catch-up do to the index.
Leaves(p)  == rows' = rows /\ row' = row
Inserts(p) == pc[p] = "insert" /\ pc'[p] = "apply" /\ at'[p] = at[p] /\ InsertsRow(p)
Revises(p) == pc[p] = "apply" /\ pc'[p] \in {"done", "probe", "next"} /\ at'[p] = at[p] /\ rows' = rows /\ Applies(p)

LEMMA WritersDo ==
  ASSUME Undisturbed, OrderInv, NEW w \in Writer, Acts(w), ~Mint(w)
  PROVE  /\ ~AtRest(w) /\ born' = born
         /\ \/ pc[w] = "append" /\ pc'[w] = "insert" /\ Leaves(w) /\ Readable' = Readable \cup {w}
            \/ Inserts(w) /\ Readable' = Readable
            \/ Revises(w) /\ Readable' = Readable /\ AtRest(w)'
            \/ w \in Fallible \cup Mortal /\ AtRest(w)' /\ Leaves(w) /\ Readable' = Readable
<1> USE NobodyIsTwo DEF Leaves, Inserts, Revises, Is, Move, AtRest, indexVars, ownVars, history, Process
<1>1. TypeOK /\ w \in Process
  BY DEF OrderInv, TruthInv
<1>2. born' = born
  BY <1>1, WhoMints
<1>3. CASE Appends(w)
  <2>1. Readable' = Readable \cup {w}
    BY <1>1, <1>3, WhatCanBeRead DEF OrderInv
  <2> QED
    BY <1>1, <1>2, <1>3, <2>1 DEF Appends, TypeOK
<1>4. CASE WriterInserts(w)
  BY <1>1, <1>2, <1>4, ReadableFacts DEF WriterInserts, TypeOK, fileVars
<1>5. CASE WriterApplies(w)
  BY <1>1, <1>2, <1>5, ReadableFacts DEF WriterApplies, TypeOK, fileVars
<1>6. CASE WriterFails(w)
  BY <1>1, <1>2, <1>6, ReadableFacts DEF WriterFails, TypeOK, fileVars
<1>7. CASE Killed(w)
  BY <1>1, <1>2, <1>7, ReadableFacts DEF Killed, TypeOK
<1> QED
  BY <1>3, <1>4, <1>5, <1>6, <1>7 DEF Acts, WriterStep

LEMMA CatchUpsDo ==
  ASSUME Undisturbed, OrderInv, NEW c \in CatchUps, Acts(c)
  PROVE  /\ born' = born /\ Readable' = Readable
         /\ \/ pc'[c] \in {"idle", "dead", "probe"} /\ Leaves(c)
            \/ pc[c] = "probe" /\ pc'[c] = "insert" /\ at'[c] \in Readable \ rows /\ Leaves(c)
            \/ Inserts(c)
            \/ Revises(c)
<1> USE NobodyIsTwo DEF Leaves, Inserts, Revises, Is, Move, AtRest, indexVars, ownVars, history, Process, Closes
<1>1. TypeOK /\ c \in Process /\ c \notin Writer /\ c \notin Rebuilders
  BY DEF OrderInv, TruthInv
<1>2. born' = born
  BY <1>1, WhoMints
<1>3. Readable' = Readable
  BY <1>1, WhatCanBeRead DEF OrderInv
<1>4. CASE Opens(c)
  BY <1>1, <1>2, <1>3, <1>4 DEF Opens, TypeOK
<1>5. CASE Probes(c)
  <2> DEFINE line == copy[c][pos[c] + 1]
  <2>1. copy[c] \in Seq(Line) /\ pos[c] \in Nat /\ pos[c] < Len(copy[c])
    BY <1>1, <1>5 DEF Probes, TypeOK
  <2>2. pos[c] + 1 \in DOMAIN copy[c]
    BY <2>1
  <2>3. line.ok => line.by \in Readable
    BY <1>1, <2>2 DEF OrderInv, TruthInv, Derived, FromTheLog
  <2>4. /\ UNCHANGED <<rows, row>> /\ pc[c] = "probe"
        /\ \/ UNCHANGED pc
           \/ pc' = [pc EXCEPT ![c] = "insert"] /\ at' = [at EXCEPT ![c] = line.by] /\ line.ok /\ line.by \notin rows
    BY <1>5 DEF Probes
  <2> HIDE DEF line
  <2> QED
    BY <1>1, <1>2, <1>3, <2>3, <2>4 DEF TypeOK
<1>6. CASE CatchUpInserts(c)
  BY <1>1, <1>2, <1>3, <1>6 DEF CatchUpInserts, TypeOK
<1>7. CASE CatchUpApplies(c)
  BY <1>1, <1>2, <1>3, <1>7 DEF CatchUpApplies, TypeOK
<1>8. CASE Marks(c)
  BY <1>1, <1>2, <1>3, <1>8 DEF Marks, TypeOK
<1>9. CASE GivesUp(c)
  BY <1>1, <1>2, <1>3, <1>9 DEF GivesUp, TypeOK
<1>10. CASE Killed(c)
  BY <1>1, <1>2, <1>3, <1>10 DEF Killed, TypeOK
<1> QED
  BY <1>1, <1>4, <1>5, <1>6, <1>7, <1>8, <1>9, <1>10 DEF Acts, CatchUpStep

\* The first statement changes the row as the replay has it, if the target
\* comes before its revisions.
LEMMA InsertIsReplayed ==
  ASSUME OrderInv, RowIsReplayed, NEW w \in Writer,
         w \notin Revisers, Halfway' = Halfway, rows' = rows \cup {w}, row' = WithRow(w, row), born' = born,
         w = Target /\ Target \notin rows => rows \cap Revisers = {},
         w = Target /\ Target \in rows => \A u \in rows \cap Revisers : Kind[u] = "clean"
  PROVE  RowIsReplayed'
<1> DEFINE S == rows \ Halfway
<1>1. S \in SUBSET Writer /\ born \in Minting /\ row \in RowType /\ row = ReplayOf(born)[S]
  BY RowIsHere DEF RowIsReplayed
<1>2. w \notin Halfway /\ (rows \cup {w}) \ Halfway = S \cup {w}
  BY DEF Halfway
<1>3. SUFFICES WithRow(w, row) = ReplayOf(born)[S \cup {w}]
  BY <1>2 DEF RowIsReplayed
<1>4. Target \in rows <=> Target \in S
  BY EventIndexAssumption DEF Halfway, Revisers, Revisions
<1> HIDE DEF S
<1>5. CASE w # Target
  <2>1. WithRow(w, row) = row
    BY <1>1, <1>5, WhatALineDoes
  <2>2. \A u, v \in S \cap Revisers : born[u] = born[v] => u = v
    <3> SUFFICES ASSUME NEW u \in S \cap Revisers, NEW v \in S \cap Revisers, born[u] = born[v] PROVE u = v
      OBVIOUS
    <3>1. u \in Readable /\ v \in Readable /\ Kind[u] # Foreign /\ Kind[v] # Foreign
      BY DEF S, OrderInv, TruthInv, Derived, IndexIsDerived, Revisers, Revisions, Foreign
    <3>2. u \in Minted /\ v \in Minted
      BY <1>1, <3>1 DEF OrderInv, IdsAreTheirs
    <3> QED
      BY <3>2 DEF OrderInv, IdsAreInOrder
  <2>3. w \in Writer \ Telling
    BY <1>5 DEF Telling
  <2> QED
    BY <1>1, <2>1, <2>2, <2>3, ReplayOfAnotherPage
<1>6. CASE w = Target /\ Target \notin rows
  <2>1. row = NoRow
    BY <1>1, <1>4, <1>6, ReplayHasTheTarget
  <2>2. (S \cup {w}) \cap Revisers = {} /\ S \cup {w} \in SUBSET Writer
    BY <1>1, <1>6 DEF S
  <2>3. ReplayOf(born)[S \cup {w}] = Fresh
    BY <1>1, <1>6, <2>2, ReplayOfNoRevision
  <2> QED
    BY <1>1, <1>6, <2>1, <2>3, WhatALineDoes
<1>7. CASE w = Target /\ Target \in rows
  <2>1. S \cup {w} = S
    BY <1>4, <1>7
  <2>2. row.here /\ row.text = Target
    BY <1>1, <1>4, <1>7, ReplayHasTheTarget, ReplayOfCleanups DEF S
  <2> QED
    BY <1>1, <1>7, <2>1, <2>2, WhatALineDoes
<1> QED
  BY <1>5, <1>6, <1>7

\* So do the others, if the newest revision is the one that is applied.
LEMMA RevisionIsReplayed ==
  ASSUME OrderInv, RowIsReplayed, NEW w \in Revisers,
         w \in rows, Halfway = {w}, Halfway' = {}, rows' = rows, row' = Revised(w, row), born' = born,
         \A v \in rows \ {w} : Precedes(v, w)
  PROVE  RowIsReplayed'
<1> DEFINE S == rows \ {w}
<1>1. S \in SUBSET Writer /\ born \in Minting /\ row = ReplayOf(born)[S]
  BY RowIsHere DEF RowIsReplayed
<1>2. S \cup {w} = rows /\ rows' \ Halfway' = rows
  OBVIOUS
<1>3. \A v \in S : Ahead(born, v, w)
  BY DEF Ahead, Precedes
<1>4. \A v \in S \cap Revisers : born[v] # born[w]
  <2> SUFFICES ASSUME NEW v \in S \cap Revisers, born[v] = born[w] PROVE FALSE
    OBVIOUS
  <2>1. v \in Readable /\ w \in Readable /\ Kind[v] # Foreign /\ Kind[w] # Foreign
    BY DEF OrderInv, TruthInv, Derived, IndexIsDerived, Revisers, Revisions, Foreign
  <2>2. v \in Minted /\ w \in Minted
    BY <2>1 DEF OrderInv, IdsAreTheirs, Revisers
  <2> QED
    BY <2>2 DEF OrderInv, IdsAreInOrder
<1> HIDE DEF S
<1>5. ReplayOf(born)[S \cup {w}] = Revised(w, ReplayOf(born)[S])
  <2>1. w \notin S
    BY DEF S
  <2> QED
    BY <1>1, <1>3, <1>4, <2>1, ReplayOfOneMore
<1> QED
  BY <1>1, <1>2, <1>5 DEF RowIsReplayed

\* A line that revises nothing changes nothing.
LEMMA NothingIsReplayed ==
  ASSUME OrderInv, RowIsReplayed, born' = born, Halfway' = Halfway, rows' = rows,
         row' = row \/ \E w \in Writer \ Revisers : row' = Revised(w, row)
  PROVE  RowIsReplayed'
<1>1. row' = row
  BY RowIsHere, WhatALineDoes
<1> QED
  BY <1>1 DEF RowIsReplayed

\* A revision in the index was minted here.
LEMMA RowsAreMinted ==
  ASSUME OrderInv, NEW u \in Revisers, u \in Readable
  PROVE  u \in Minted
BY DEF OrderInv, IdsAreTheirs, Revisers, Revisions, Foreign

\* A writer indexes its own line.
LEMMA WritersIndexTheirs ==
  ASSUME OrderInv, NEW w \in Writer, pc[w] \in {"insert", "apply"}
  PROVE  at[w] = w /\ w \in Readable
BY DEF OrderInv, IdsAreTheirs, TruthInv, Derived, FromTheLog, Process

\* A writer that revises does so by itself, its line has its row, and it is the
\* newest revision.
LEMMA ReviserIsAlone ==
  ASSUME OrderInv, InTurn, TurnInv, NEW w \in Writer, Acts(w), Revises(w), AtRest(w)', w \in Revisers
  PROVE  /\ Halfway = {w} /\ Halfway' = {} /\ w \in rows
         /\ \A v \in rows \ {w} : Precedes(v, w)
<1>1. pc[w] = "apply" /\ ~AtRest(w) /\ w \in Process /\ w \notin Rebuilders /\ TypeOK
  BY NobodyIsTwo DEF Revises, AtRest, Process, OrderInv, TruthInv
<1>2. at[w] = w /\ w \in Readable
  BY <1>1, WritersIndexTheirs
<1>3. \A q \in Process \ {w} : pc[q] # "apply" \/ at[q] \notin Revisers
  <2> SUFFICES ASSUME NEW q \in Process \ {w}, pc[q] = "apply", at[q] \in Revisers PROVE FALSE
    OBVIOUS
  <2>1. q \notin CatchUps /\ q \notin Rebuilders /\ q \notin Revisers
    BY <1>1, Apart DEF AtRest
  <2>2. q \in Writer
    BY <2>1 DEF Process
  <2>3. at[q] = q
    BY <2>2, WritersIndexTheirs
  <2> QED
    BY <2>1, <2>3
<1>4. Halfway = {w}
  BY <1>1, <1>2, <1>3 DEF Halfway
<1>5. Halfway' = {}
  <2>1. \A q \in Process \ {w} : pc'[q] = pc[q] /\ at'[q] = at[q]
    BY <1>1, OneMoves, OthersKeepTheirs
  <2>2. pc'[w] # "apply"
    BY DEF AtRest
  <2> QED
    BY <1>3, <2>1, <2>2 DEF Halfway
<1>6. w \in rows
  <2>1. \A m \in Rebuilders : ~Filling(m)
    BY <1>1, NobodyRebuilds
  <2> QED
    BY <1>1, <1>2, <2>1 DEF TurnInv, WritersBringTheirs
<1>7. ASSUME NEW v \in rows \ {w} PROVE Precedes(v, w)
  <2>1. v \in Writer /\ born[v] \in Nat /\ born[w] \in Nat
    BY <1>1 DEF TypeOK
  <2>2. v \in Revisers => born[v] < born[w]
    BY <1>1 DEF TurnInv, NewestRevises
  <2> QED
    BY <2>1, <2>2 DEF Precedes, Revisers
<1> QED
  BY <1>4, <1>5, <1>6, <1>7

\* What a writer does to the row that it has its turn for.
LEMMA WritersReplay ==
  ASSUME Undisturbed, OrderInv, InTurn, TurnInv, NEW w \in Writer, Acts(w), ~Mint(w)
  PROVE  RowIsReplayed'
<1>1. w \in Process /\ w \notin Rebuilders /\ w \notin CatchUps /\ TypeOK /\ RowIsReplayed
  BY NobodyIsTwo DEF Process, OrderInv, TruthInv, TurnInv
<1>2. born' = born /\ ~AtRest(w)
  BY WritersDo
<1>3. CASE pc[w] = "append" /\ pc'[w] = "insert" /\ Leaves(w)
  <2>1. Halfway' = Halfway
    BY <1>1, <1>3, SameHalfway
  <2> QED
    BY <1>1, <1>2, <1>3, <2>1, NothingIsReplayed DEF Leaves
<1>4. CASE Inserts(w) /\ w \in Revisers
  <2>1. at[w] = w /\ at'[w] = w /\ pc'[w] = "apply" /\ pc[w] = "insert"
    BY <1>4, WritersIndexTheirs DEF Inserts
  <2>2. w \notin rows
    BY <1>4, <2>1 DEF TurnInv, WritersBringTheirs
  <2>3. \A q \in Process \ {w} : pc'[q] = pc[q] /\ at'[q] = at[q]
    BY <1>1, OneMoves, OthersKeepTheirs
  <2>4. Halfway' = Halfway \cup {w}
    BY <1>1, <1>4, <2>1, <2>3 DEF Halfway
  <2>5. rows' = rows \cup {w} /\ row' = WithRow(w, row) /\ w # Target
    BY <1>4, <2>1, WhatALineDoes, NoRowIsARow DEF Inserts, InsertsRow
  <2>6. row' = row
    BY <2>5 DEF WithRow
  <2>7. rows' \ Halfway' = rows \ Halfway
    BY <2>2, <2>4, <2>5
  <2> QED
    BY <1>1, <1>2, <2>6, <2>7 DEF RowIsReplayed
<1>5. CASE Inserts(w) /\ w \notin Revisers
  <2>1. at[w] = w /\ at'[w] = w /\ pc[w] = "insert"
    BY <1>5, WritersIndexTheirs DEF Inserts
  <2>2. Halfway' = Halfway
    BY <1>1, <1>5, <2>1, SameHalfway
  <2>3. rows' = rows \cup {w} /\ row' = WithRow(w, row)
    BY <1>5, <2>1 DEF Inserts, InsertsRow
  <2>4. Target \notin rows => rows \cap Revisers = {}
    BY <1>1, NobodyRebuilds DEF TurnInv, NothingToRevise
  <2>5. \A u \in rows \cap Revisers : u \in Minted
    BY RowsAreMinted DEF OrderInv, TruthInv, Derived, IndexIsDerived
  <2>6. w = Target => \A u \in rows \cap Revisers : Kind[u] = "clean"
    BY <2>1, <2>5 DEF TurnInv, TargetCameFirst
  <2> QED
    BY <1>1, <1>2, <1>5, <2>2, <2>3, <2>4, <2>6, InsertIsReplayed
<1>6. CASE Revises(w) /\ AtRest(w)'
  <2>1. at[w] = w /\ at'[w] = w /\ rows' = rows /\ row' = Revised(w, row)
    BY <1>6, WritersIndexTheirs DEF Revises, Applies
  <2>2. CASE w \in Revisers
    BY <1>1, <1>2, <1>6, <2>1, <2>2, ReviserIsAlone, RevisionIsReplayed
  <2>3. CASE w \notin Revisers
    <3>1. Halfway' = Halfway
      BY <1>1, <2>1, <2>3, SameHalfway
    <3> QED
      BY <1>1, <1>2, <2>1, <2>3, <3>1, NothingIsReplayed
  <2> QED
    BY <2>2, <2>3
<1>7. CASE w \in Fallible \cup Mortal /\ AtRest(w)' /\ Leaves(w)
  <2>1. w \notin Revisers
    BY <1>1, <1>7, AwayStays, InTurnFacts
  <2>2. pc[w] = "apply" => at[w] \notin Revisers
    BY <2>1, WritersIndexTheirs
  <2>3. pc'[w] # "apply"
    BY <1>7 DEF AtRest
  <2>4. Halfway' = Halfway
    BY <1>1, <2>2, <2>3, SameHalfway
  <2> QED
    BY <1>1, <1>2, <1>7, <2>4, NothingIsReplayed DEF Leaves
<1> QED
  BY <1>3, <1>4, <1>5, <1>6, <1>7, WritersDo

LEMMA WritersInTurn ==
  ASSUME Undisturbed, OrderInv, InTurn, TurnInv, NEW w \in Writer, Acts(w), ~Mint(w)
  PROVE  TurnInv'
<1> DEFINE To(a, b) == pc[w] = a /\ pc'[w] = b
<1>1. w \in Process /\ w \notin Rebuilders /\ w \notin CatchUps /\ TypeOK
  BY NobodyIsTwo DEF Process, OrderInv, TruthInv
<1>2. born' = born /\ ~AtRest(w) /\ Minted' = Minted
  BY WritersDo DEF Minted
<1>3. \A q \in Process \ {w} : pc'[q] = pc[q] /\ at'[q] = at[q]
  BY <1>1, OneMoves, OthersKeepTheirs
<1>4. \A m \in Rebuilders : ~Filling(m) /\ ~Filling(m)'
  BY <1>1, NobodyRebuilds
<1>5. \/ To("append", "insert") /\ rows' = rows /\ Readable' = Readable \cup {w} /\ (w \in Revisers => w \notin rows)
      \/ To("insert", "apply") /\ rows' = rows \cup {w} /\ Readable' = Readable
      \/ pc[w] = "apply" /\ AtRest(w)' /\ rows' = rows /\ Readable' = Readable
      \/ w \notin Revisers /\ AtRest(w)' /\ rows' = rows /\ Readable' = Readable
  <2>1. pc[w] = "append" /\ w \in Revisers => w \notin rows
    BY DEF OrderInv, IdsAreTheirs, Revisers, Revisions, Foreign, TruthInv, Derived, IndexIsDerived
  <2>2. pc[w] = "insert" => at[w] = w
    BY WritersIndexTheirs
  <2>3. w \in Fallible \cup Mortal => w \notin Revisers
    BY <1>1, AwayStays, InTurnFacts
  <2> QED
    BY <2>1, <2>2, <2>3, WritersDo DEF Leaves, Inserts, Revises, InsertsRow
<1>6. \A u \in Revisers : u \in Writer /\ u \in Process
  BY DEF Revisers, Process
<1>7. WritersBringTheirs'
  <2>1. ASSUME NEW u \in Revisers, u \in Readable', u \notin rows' PROVE pc'[u] = "insert"
    BY <1>3, <1>4, <1>5, <1>6, <2>1 DEF TurnInv, WritersBringTheirs, AtRest
  <2>2. ASSUME NEW u \in Revisers, pc'[u] = "insert" PROVE u \notin rows'
    BY <1>3, <1>5, <1>6, <2>2 DEF TurnInv, WritersBringTheirs, AtRest
  <2> QED
    BY <2>1, <2>2 DEF WritersBringTheirs
<1>8. CatchUpsBringPages'
  <2> SUFFICES ASSUME NEW c \in CatchUps
               PROVE  /\ pc'[c] \in {"insert", "apply"} => at'[c] \notin Revisers
                      /\ pc'[c] = "insert" /\ at'[c] = Target => rows' \cap Revisers = {}
    BY DEF CatchUpsBringPages
  <2>1. c \in Process \ {w}
    BY <1>1 DEF Process
  <2>2. pc[c] = "insert" => w \notin Revisers
    BY <1>1, <2>1, Apart DEF AtRest
  <2>3. rows' \subseteq rows \cup {w}
    BY <1>5
  <2> QED
    BY <1>3, <2>1, <2>2, <2>3 DEF TurnInv, CatchUpsBringPages
<1>9. NothingToRevise'
  <2> SUFFICES ASSUME Target \notin rows', NEW u \in Revisers PROVE u \notin rows' /\ AtRest(u)'
    BY DEF NothingToRevise
  <2>1. Target \notin rows
    BY <1>5
  <2>2. u \notin rows /\ AtRest(u)
    BY <1>4, <2>1 DEF TurnInv, NothingToRevise
  <2> QED
    BY <1>2, <1>3, <1>5, <1>6, <2>2 DEF AtRest
<1>10. TargetCameFirst'
  <2>1. Target \in Process
    BY EventIndexAssumption DEF Process
  <2>2. pc'[Target] \in {"append", "insert"} => pc[Target] \in {"append", "insert"}
    BY <1>3, <1>5, <2>1 DEF AtRest
  <2> QED
    BY <1>2, <1>5, <2>2 DEF TurnInv, TargetCameFirst
<1>11. RebuildsGoInOrder'
  BY <1>4 DEF RebuildsGoInOrder
<1>12. NewestRevises'
  <2> SUFFICES ASSUME NEW u \in Revisers, ~AtRest(u)', NEW v \in Revisers \ {u} PROVE born'[v] < born'[u]
    BY DEF NewestRevises
  <2>1. ~AtRest(u)
    BY <1>2, <1>3, <1>6 DEF AtRest
  <2> QED
    BY <1>2, <2>1 DEF TurnInv, NewestRevises
<1>13. RowIsReplayed'
  BY WritersReplay
<1> QED
  BY <1>7, <1>8, <1>9, <1>10, <1>11, <1>12, <1>13 DEF TurnInv

\* While a catch-up acts nobody revises, and all revisions have their rows.
LEMMA NobodyRevises ==
  ASSUME OrderInv, InTurn, TurnInv, NEW c \in CatchUps, Acts(c)
  PROVE  \A u \in Revisers : /\ AtRest(u) /\ pc'[u] = pc[u]
                             /\ u \in Readable => u \in rows
<1> SUFFICES ASSUME NEW u \in Revisers PROVE AtRest(u) /\ pc'[u] = pc[u] /\ (u \in Readable => u \in rows)
  OBVIOUS
<1>1. c \in Process /\ c \notin Rebuilders /\ u \in Process \ {c} /\ TypeOK
  BY NobodyIsTwo DEF Process, Revisers, OrderInv, TruthInv
<1>2. AtRest(u)
  BY <1>1, Apart
<1>3. pc'[u] = pc[u]
  BY <1>1, OneMoves
<1>4. u \in Readable => u \in rows
  BY <1>1, <1>2, NobodyRebuilds DEF TurnInv, WritersBringTheirs, AtRest
<1> QED
  BY <1>2, <1>3, <1>4

LEMMA CatchUpsReplay ==
  ASSUME Undisturbed, OrderInv, InTurn, TurnInv, NEW c \in CatchUps, Acts(c)
  PROVE  RowIsReplayed'
<1>1. c \in Process /\ c \notin Rebuilders /\ TypeOK /\ RowIsReplayed
  BY NobodyIsTwo DEF Process, OrderInv, TruthInv, TurnInv
<1>2. born' = born
  BY CatchUpsDo
<1>3. pc[c] \in {"insert", "apply"} => at[c] \in Writer \ Revisers
  BY <1>1 DEF TurnInv, CatchUpsBringPages, TypeOK
<1>4. CASE pc'[c] \in {"idle", "dead", "probe", "insert"} /\ Leaves(c)
  <2>1. Halfway' = Halfway
    BY <1>1, <1>3, <1>4, SameHalfway
  <2> QED
    BY <1>1, <1>2, <1>4, <2>1, NothingIsReplayed DEF Leaves
<1>5. CASE Inserts(c)
  <2>1. at'[c] = at[c] /\ pc[c] = "insert" /\ rows' = rows \cup {at[c]} /\ row' = WithRow(at[c], row)
    BY <1>5 DEF Inserts, InsertsRow
  <2>2. Halfway' = Halfway
    BY <1>1, <1>3, <2>1, SameHalfway
  <2>3. Target \notin rows => rows \cap Revisers = {}
    BY <1>1, NobodyRebuilds DEF TurnInv, NothingToRevise
  <2>4. at[c] = Target => rows \cap Revisers = {}
    BY <2>1 DEF TurnInv, CatchUpsBringPages
  <2> QED
    BY <1>1, <1>2, <1>3, <2>1, <2>2, <2>3, <2>4, InsertIsReplayed
<1>6. CASE Revises(c)
  <2>1. at'[c] = at[c] /\ pc[c] = "apply" /\ rows' = rows /\ row' = Revised(at[c], row)
    BY <1>6 DEF Revises, Applies
  <2>2. Halfway' = Halfway
    BY <1>1, <1>3, <2>1, SameHalfway
  <2> QED
    BY <1>1, <1>2, <1>3, <2>1, <2>2, NothingIsReplayed
<1> QED
  BY <1>4, <1>5, <1>6, CatchUpsDo

LEMMA CatchUpsInTurn ==
  ASSUME Undisturbed, OrderInv, InTurn, TurnInv, NEW c \in CatchUps, Acts(c)
  PROVE  TurnInv'
<1>1. c \in Process /\ c \notin Rebuilders /\ c \notin Writer /\ TypeOK
  BY NobodyIsTwo DEF Process, OrderInv, TruthInv
<1>2. born' = born /\ Minted' = Minted /\ Readable' = Readable
  BY CatchUpsDo DEF Minted
<1>3. \A q \in Process \ {c} : pc'[q] = pc[q] /\ at'[q] = at[q]
  BY <1>1, OneMoves, OthersKeepTheirs
<1>4. \A m \in Rebuilders : ~Filling(m) /\ ~Filling(m)'
  BY <1>1, NobodyRebuilds
<1>5. \A u \in Revisers : AtRest(u) /\ AtRest(u)' /\ (u \in Readable => u \in rows)
  BY NobodyRevises DEF AtRest
<1>6. pc[c] \in {"insert", "apply"} => at[c] \notin Revisers
  BY DEF TurnInv, CatchUpsBringPages
<1>7. rows \subseteq rows' /\ rows' \cap Revisers = rows \cap Revisers
  BY <1>6, CatchUpsDo DEF Leaves, Inserts, Revises, InsertsRow
<1>8. WritersBringTheirs'
  BY <1>2, <1>5, <1>7 DEF WritersBringTheirs, AtRest
<1>9. CatchUpsBringPages'
  <2> SUFFICES ASSUME NEW d \in CatchUps
               PROVE  /\ pc'[d] \in {"insert", "apply"} => at'[d] \notin Revisers
                      /\ pc'[d] = "insert" /\ at'[d] = Target => rows' \cap Revisers = {}
    BY DEF CatchUpsBringPages
  <2>1. CASE d # c
    <3>1. pc'[d] = pc[d] /\ at'[d] = at[d]
      BY <1>3, <2>1 DEF Process
    <3> QED
      BY <1>7, <3>1 DEF TurnInv, CatchUpsBringPages
  <2>2. CASE d = c /\ pc'[c] = "insert"
    <3>1. at'[c] \in Readable \ rows
      BY <2>2, CatchUpsDo DEF Inserts, Revises
    <3>2. at'[c] = Target => rows \cap Revisers = {}
      BY <1>4, <3>1 DEF TurnInv, NothingToRevise
    <3> QED
      BY <1>5, <1>7, <2>2, <3>1, <3>2
  <2>3. CASE d = c /\ pc'[c] = "apply"
    <3>1. at'[c] = at[c] /\ pc[c] = "insert"
      BY <2>3, CatchUpsDo DEF Inserts, Revises
    <3> QED
      BY <1>6, <2>3, <3>1
  <2> QED
    BY <2>1, <2>2, <2>3
<1>10. NothingToRevise'
  BY <1>4, <1>5, <1>7 DEF TurnInv, NothingToRevise
<1>11. TargetCameFirst'
  <2>1. pc'[Target] = pc[Target]
    BY <1>1, <1>3, EventIndexAssumption DEF Process
  <2> QED
    BY <1>2, <2>1 DEF TurnInv, TargetCameFirst
<1>12. RebuildsGoInOrder' /\ NewestRevises'
  BY <1>4, <1>5 DEF RebuildsGoInOrder, NewestRevises
<1>13. RowIsReplayed'
  BY CatchUpsReplay
<1> QED
  BY <1>8, <1>9, <1>10, <1>11, <1>12, <1>13 DEF TurnInv

\* What a rebuild does to the index.
LEMMA RebuildsDo ==
  ASSUME Undisturbed, OrderInv, InTurn, NEW r \in Rebuilders, Acts(r)
  PROVE  /\ born' = born
         /\ \/ pc[r] \in {"idle", "merge"} /\ pc'[r] \in {"merge", "clear"} /\ Leaves(r)
            \/ pc[r] \in {"idle", "clear"} /\ pc'[r] = "unmark" /\ rows' = {} /\ row' = NoRow
            \/ pc[r] = "unmark" /\ pc'[r] = "read" /\ Leaves(r)
            \/ pc[r] = "read" /\ pc'[r] = "next" /\ Leaves(r) /\ Readable' = Readable /\ todo'[r] = Readable
            \/ /\ pc[r] = "next" /\ pc'[r] = "insert" /\ Leaves(r) /\ Readable' = Readable
               /\ IsFirst(at'[r], todo[r]) /\ todo'[r] = todo[r] \ {at'[r]}
            \/ Inserts(r) /\ Readable' = Readable /\ todo'[r] = todo[r]
            \/ Revises(r) /\ pc'[r] = "next" /\ Readable' = Readable /\ todo'[r] = todo[r]
            \/ pc[r] = "next" /\ pc'[r] = "done" /\ Leaves(r) /\ Readable' = Readable /\ todo[r] = {}
<1> USE NobodyIsTwo DEF Leaves, Inserts, Revises, Is, Move, indexVars, ownVars, history, fileVars, Process
<1>1. TypeOK /\ r \in Process /\ r \notin Writer /\ r \notin CatchUps
  BY DEF OrderInv, TruthInv
<1>2. born' = born
  BY <1>1, WhoMints
<1>3. ~Killed(r) /\ r \notin Mortal
  BY <1>1, AwayStays, InTurnFacts DEF Killed
<1>4. CASE ReadsLog(r)
  BY <1>1, <1>2, <1>4 DEF ReadsLog, TypeOK
<1>5. CASE Merges(r)
  BY <1>1, <1>2, <1>3, <1>5 DEF Merges, TypeOK
<1>6. CASE Clears(r)
  BY <1>1, <1>2, <1>6 DEF Clears, TypeOK
<1>12. CASE Unmarks(r)
  BY <1>1, <1>2, <1>12 DEF Unmarks, TypeOK
<1>7. CASE ReadsAll(r)
  BY <1>1, <1>2, <1>7, ReadableFacts DEF ReadsAll, TypeOK
<1>8. CASE Takes(r)
  <2>1. PICK w \in todo[r] : /\ IsFirst(w, todo[r]) /\ at' = [at EXCEPT ![r] = w]
                             /\ todo' = [todo EXCEPT ![r] = @ \ {w}]
    BY <1>8 DEF Takes
  <2>2. at'[r] = w /\ todo'[r] = todo[r] \ {w}
    BY <1>1, <2>1 DEF TypeOK
  <2>3. UNCHANGED <<rows, row>> /\ pc[r] = "next" /\ pc'[r] = "insert" /\ UNCHANGED log
    BY <1>1, <1>8 DEF Takes, TypeOK
  <2> QED
    BY <1>2, <2>1, <2>2, <2>3, ReadableFacts
<1>9. CASE RebuildInserts(r)
  BY <1>1, <1>2, <1>9, ReadableFacts DEF RebuildInserts, TypeOK
<1>10. CASE RebuildApplies(r)
  BY <1>1, <1>2, <1>10, ReadableFacts DEF RebuildApplies, TypeOK
<1>11. CASE RebuildEnds(r)
  BY <1>1, <1>2, <1>11, ReadableFacts DEF RebuildEnds, TypeOK
<1> QED
  BY <1>1, <1>3, <1>4, <1>5, <1>6, <1>7, <1>8, <1>9, <1>10, <1>11, <1>12 DEF Acts, RebuildStep

\* Meanwhile nobody else does anything.
LEMMA RebuildIsAlone ==
  ASSUME OrderInv, InTurn, NEW r \in Rebuilders, Acts(r)
  PROVE  /\ \A q \in Process \ {r} : AtRest(q) /\ AtRest(q)'
         /\ \A m \in Rebuilders \ {r} : ~Filling(m) /\ ~Filling(m)'
         /\ Halfway = (IF pc[r] = "apply" /\ at[r] \in Revisers THEN {at[r]} ELSE {})
         /\ Halfway' = (IF pc'[r] = "apply" /\ at'[r] \in Revisers THEN {at'[r]} ELSE {})
<1>1. r \in Process /\ TypeOK
  BY DEF Process, OrderInv, TruthInv
<1>2. \A q \in Process \ {r} : AtRest(q) /\ AtRest(q)'
  <2> SUFFICES ASSUME NEW q \in Process \ {r} PROVE AtRest(q) /\ AtRest(q)'
    OBVIOUS
  <2>1. AtRest(q)
    BY <1>1, Apart
  <2> QED
    BY <1>1, <2>1, OneMoves DEF AtRest
<1>3. \A q \in Process \ {r} : pc[q] # "apply" /\ pc'[q] # "apply"
  BY <1>2 DEF AtRest
<1>4. \A m \in Rebuilders \ {r} : ~Filling(m) /\ ~Filling(m)'
  BY <1>2 DEF AtRest, Filling, Process
<1> QED
  BY <1>1, <1>2, <1>3, <1>4 DEF Halfway

LEMMA RebuildsStayInOrder ==
  ASSUME Undisturbed, OrderInv, InTurn, RebuildsGoInOrder, NEW r \in Rebuilders, Acts(r)
  PROVE  RebuildsGoInOrder'
<1> SUFFICES ASSUME pc'[r] \in {"unmark", "read", "next", "insert", "apply"}
             PROVE  /\ pc'[r] \in {"unmark", "read"} => rows' = {}
                    /\ pc'[r] \notin {"unmark", "read"} =>
                         /\ rows' \cup Held(r)' = Readable' /\ rows' \cap Held(r)' = {}
                         /\ \A i \in rows', j \in Held(r)' : Precedes(i, j)
                    /\ pc'[r] = "insert" => at'[r] \notin todo'[r] /\ \A j \in todo'[r] : Precedes(at'[r], j)
                    /\ pc'[r] = "apply" => at'[r] \in rows' /\ \A i \in rows' : Precedes(i, at'[r])
  <2>1. born' = born
    BY RebuildsDo
  <2>2. \A i, j : Precedes(i, j)' <=> Precedes(i, j)
    BY <2>1 DEF Precedes
  <2> QED
    BY <2>2, RebuildIsAlone DEF RebuildsGoInOrder, Filling
<1> DEFINE Order(S) == \A i \in rows, j \in S : Precedes(i, j)
<1>1. pc[r] \in {"unmark", "read"} => rows = {}
  BY DEF RebuildsGoInOrder, Filling
<1>2. pc[r] \in {"next", "insert", "apply"} =>
        rows \cup Held(r) = Readable /\ rows \cap Held(r) = {} /\ Order(Held(r))
  BY DEF RebuildsGoInOrder, Filling
<1>3. pc[r] = "insert" => at[r] \notin todo[r] /\ \A j \in todo[r] : Precedes(at[r], j)
  BY DEF RebuildsGoInOrder, Filling
<1>4. CASE pc'[r] \in {"unmark", "read"}
  BY <1>1, <1>4, RebuildsDo DEF Leaves, Inserts, Revises
<1>5. CASE pc[r] = "read" /\ pc'[r] = "next" /\ Leaves(r) /\ Readable' = Readable /\ todo'[r] = Readable
  BY <1>1, <1>5 DEF Leaves, Held
<1>6. CASE /\ pc[r] = "next" /\ pc'[r] = "insert" /\ Leaves(r) /\ Readable' = Readable
           /\ IsFirst(at'[r], todo[r]) /\ todo'[r] = todo[r] \ {at'[r]}
  <2>1. Held(r)' = todo[r] /\ Held(r) = todo[r] /\ rows' = rows
    BY <1>6 DEF Leaves, Held, IsFirst
  <2>2. \A j \in todo'[r] : Precedes(at'[r], j)
    BY <1>6 DEF IsFirst
  <2> QED
    BY <1>2, <1>6, <2>1, <2>2
<1>7. CASE Inserts(r) /\ Readable' = Readable /\ todo'[r] = todo[r]
  <2>1. /\ pc[r] = "insert" /\ pc'[r] = "apply" /\ at'[r] = at[r] /\ rows' = rows \cup {at[r]}
        /\ Held(r) = todo[r] \cup {at[r]} /\ Held(r)' = todo[r]
    BY <1>7 DEF Inserts, InsertsRow, Held
  <2>2. Precedes(at[r], at[r])
    BY DEF OrderInv, TruthInv, TypeOK, Process, Precedes
  <2>3. \A i \in rows', j \in Held(r)' : Precedes(i, j)
    BY <1>2, <1>3, <2>1
  <2>4. \A i \in rows' : Precedes(i, at'[r])
    BY <1>2, <2>1, <2>2
  <2>5. rows' \cup Held(r)' = Readable' /\ rows' \cap Held(r)' = {}
    BY <1>2, <1>3, <1>7, <2>1
  <2> QED
    BY <2>1, <2>3, <2>4, <2>5
<1>8. CASE Revises(r) /\ pc'[r] = "next" /\ Readable' = Readable /\ todo'[r] = todo[r]
  <2>1. pc[r] = "apply" /\ rows' = rows /\ Held(r) = todo[r] /\ Held(r)' = todo[r]
    BY <1>8 DEF Revises, Held
  <2> QED
    BY <1>2, <1>8, <2>1
<1> QED
  BY <1>4, <1>5, <1>6, <1>7, <1>8, RebuildsDo

LEMMA RebuildsReplay ==
  ASSUME Undisturbed, OrderInv, InTurn, TurnInv, NEW r \in Rebuilders, Acts(r)
  PROVE  RowIsReplayed'
<1>1. r \in Process /\ TypeOK /\ RowIsReplayed /\ at[r] \in Writer /\ Target \notin Revisers
  BY WhatALineDoes, NoRowIsARow DEF Process, OrderInv, TruthInv, TurnInv, TypeOK
<1>2. born' = born
  BY RebuildsDo
<1>3. CASE pc[r] # "apply" /\ pc'[r] # "apply" /\ Leaves(r)
  <2>1. Halfway' = Halfway
    BY <1>1, <1>3, SameHalfway
  <2> QED
    BY <1>1, <1>2, <1>3, <2>1, NothingIsReplayed DEF Leaves
<1>4. CASE rows' = {} /\ row' = NoRow
  <2>1. born' \in Minting /\ rows' \ Halfway' = {}
    BY <1>1, <1>2, <1>4 DEF TypeOK, Minting
  <2> QED
    BY <1>4, <2>1, ReplayHasTheTarget DEF RowIsReplayed
<1>5. CASE Inserts(r)
  <2>1. /\ at'[r] = at[r] /\ pc[r] = "insert" /\ pc'[r] = "apply"
        /\ rows' = rows \cup {at[r]} /\ row' = WithRow(at[r], row)
    BY <1>5 DEF Inserts, InsertsRow
  <2>2. at[r] \notin rows /\ \A i \in rows : Precedes(i, at[r])
    BY <2>1 DEF TurnInv, RebuildsGoInOrder, Filling, Held
  <2>3. CASE at[r] \notin Revisers
    <3>1. Halfway' = Halfway
      BY <1>1, <2>1, <2>3, SameHalfway
    <3>2. at[r] = Target => rows \cap Revisers = {}
      BY <2>2, EventIndexAssumption DEF Precedes, Revisers, Revisions
    <3> QED
      BY <1>1, <1>2, <2>1, <2>2, <2>3, <3>1, <3>2, InsertIsReplayed
  <2>4. CASE at[r] \in Revisers
    <3>1. Halfway = {} /\ Halfway' = {at[r]}
      BY <2>1, <2>4, RebuildIsAlone
    <3>2. row' = row
      BY <1>1, <2>1, <2>4 DEF WithRow
    <3>3. rows' \ Halfway' = rows \ Halfway
      BY <2>1, <2>2, <3>1
    <3> QED
      BY <1>1, <1>2, <3>2, <3>3 DEF RowIsReplayed
  <2> QED
    BY <2>3, <2>4
<1>6. CASE Revises(r) /\ pc'[r] = "next"
  <2>1. at'[r] = at[r] /\ pc[r] = "apply" /\ rows' = rows /\ row' = Revised(at[r], row)
    BY <1>6 DEF Revises, Applies
  <2>2. CASE at[r] \in Revisers
    <3>1. Halfway = {at[r]} /\ Halfway' = {}
      BY <1>6, <2>1, <2>2, RebuildIsAlone
    <3>2. at[r] \in rows /\ \A i \in rows : Precedes(i, at[r])
      BY <2>1 DEF TurnInv, RebuildsGoInOrder, Filling
    <3> QED
      BY <1>1, <1>2, <2>1, <2>2, <3>1, <3>2, RevisionIsReplayed
  <2>3. CASE at[r] \notin Revisers
    <3>1. Halfway' = Halfway
      BY <1>1, <2>1, <2>3, SameHalfway
    <3> QED
      BY <1>1, <1>2, <2>1, <2>3, <3>1, NothingIsReplayed
  <2> QED
    BY <2>2, <2>3
<1> QED
  BY <1>3, <1>4, <1>5, <1>6, RebuildsDo

LEMMA RebuildsInTurn ==
  ASSUME Undisturbed, OrderInv, InTurn, TurnInv, NEW r \in Rebuilders, Acts(r)
  PROVE  TurnInv'
<1>1. r \in Process /\ r \notin Writer /\ r \notin CatchUps /\ TypeOK
  BY NobodyIsTwo DEF Process, OrderInv, TruthInv
<1>2. born' = born /\ Minted' = Minted
  BY RebuildsDo DEF Minted
<1>3. Readable \subseteq Readable' /\ \A u \in Revisers : u \in Readable' => u \in Readable
  <2>1. Readable \subseteq Readable' /\ \A u \in Readable' \ Readable : Kind[u] = Foreign
    BY <1>1, WhatCanBeRead DEF OrderInv
  <2> QED
    BY <2>1 DEF Revisers, Revisions, Foreign
<1>4. \A q \in Process \ {r} : AtRest(q) /\ AtRest(q)'
  BY RebuildIsAlone
<1>5. \A u \in Revisers : AtRest(u) /\ AtRest(u)'
  BY <1>1, <1>4 DEF Revisers, Process
<1>6. \/ Filling(r)'
      \/ ~Filling(r) /\ rows' = rows
      \/ rows' = rows /\ rows = Readable
  <2>1. CASE pc[r] = "next" /\ pc'[r] = "done" /\ Leaves(r) /\ todo[r] = {}
    <3>1. Held(r) = {}
      BY <2>1 DEF Held
    <3> QED
      BY <2>1, <3>1 DEF TurnInv, RebuildsGoInOrder, Filling, Leaves
  <2> QED
    BY <2>1, RebuildsDo DEF Filling, Leaves, Inserts
<1>7. \A m \in Rebuilders \ {r} : ~Filling(m) /\ ~Filling(m)'
  BY RebuildIsAlone
<1>8. WritersBringTheirs'
  <2>1. ASSUME NEW u \in Revisers, u \in Readable', u \notin rows', ~Filling(r)' PROVE FALSE
    BY <1>3, <1>5, <1>6, <1>7, <2>1 DEF TurnInv, WritersBringTheirs, AtRest
  <2> QED
    BY <1>5, <2>1 DEF WritersBringTheirs, AtRest
<1>9. CatchUpsBringPages'
  <2>1. \A c \in CatchUps : AtRest(c)'
    BY <1>1, <1>4 DEF Process
  <2> QED
    BY <2>1 DEF CatchUpsBringPages, AtRest
<1>10. NothingToRevise'
  <2> SUFFICES ASSUME Target \notin rows', ~Filling(r)', NEW u \in Revisers, u \in rows' PROVE FALSE
    BY <1>5 DEF NothingToRevise
  <2>1. CASE ~Filling(r) /\ rows' = rows
    BY <1>7, <2>1 DEF TurnInv, NothingToRevise
  <2>2. CASE rows' = rows /\ rows = Readable
    <3>1. u \in Minted
      BY <2>2, RowsAreMinted
    <3> QED
      BY <2>2, <3>1 DEF TurnInv, TargetCameFirst
  <2> QED
    BY <1>6, <2>1, <2>2
<1>11. TargetCameFirst'
  <2>1. AtRest(Target)'
    BY <1>1, <1>4, EventIndexAssumption DEF Process
  <2> QED
    BY <1>2, <1>3, <2>1 DEF TurnInv, TargetCameFirst, AtRest
<1>12. RebuildsGoInOrder'
  BY RebuildsStayInOrder DEF TurnInv
<1>13. NewestRevises' /\ RowIsReplayed'
  BY <1>5, RebuildsReplay DEF NewestRevises
<1> QED
  BY <1>8, <1>9, <1>10, <1>11, <1>12, <1>13 DEF TurnInv

LEMMA TurnInit ==
  ASSUME Init
  PROVE  TurnInv
<1>1. \A p \in Process : pc[p] \in {"idle", "away"}
  BY DEF Init
<1>2. log = <<>> /\ rows = {} /\ row = NoRow /\ \A w \in Writer : born[w] = 0
  BY DEF Init
<1>3. Readable = {}
  <2>1. DOMAIN log = {}
    BY <1>2
  <2> QED
    BY <2>1 DEF Readable, Lines
<1>4. Target \in Process /\ Revisers \subseteq Process /\ CatchUps \subseteq Process /\ Rebuilders \subseteq Process
  BY EventIndexAssumption DEF Process, Revisers
<1>5. RowIsReplayed
  <2>1. born \in Minting /\ rows \ Halfway = {}
    BY <1>2 DEF Init, Minting
  <2> QED
    BY <1>2, <2>1, ReplayHasTheTarget DEF RowIsReplayed
<1>6. WritersBringTheirs /\ CatchUpsBringPages /\ NothingToRevise
  BY <1>1, <1>2, <1>3, <1>4 DEF WritersBringTheirs, CatchUpsBringPages, NothingToRevise, AtRest
<1>7. TargetCameFirst
  <2>1. Minted = {}
    BY <1>2 DEF Minted
  <2> QED
    BY <1>1, <1>4, <2>1 DEF TargetCameFirst
<1>8. RebuildsGoInOrder /\ NewestRevises
  BY <1>1, <1>4 DEF RebuildsGoInOrder, Filling, NewestRevises, AtRest
<1> QED
  BY <1>5, <1>6, <1>7, <1>8 DEF TurnInv

\* Where nobody is out of turn the row is the replay of the lines that have
\* gone all the way.
InTurnItHolds == InTurn => TurnInv

LEMMA TurnStep ==
  ASSUME TypeOK, Undisturbed => OrderInv, InTurnItHolds, [Next]_vars
  PROVE  InTurnItHolds'
<1>1. CASE UNCHANGED vars
  <2>1. /\ UNCHANGED <<pc, at, rows, row, born, todo, log>> /\ Readable' = Readable /\ Minted' = Minted
        /\ Halfway' = Halfway
    BY <1>1, ReadableFacts DEF vars, fileVars, indexVars, ownVars, history, Minted, Halfway
  <2>2. InTurn' <=> InTurn
    BY <2>1 DEF InTurn, Is
  <2>3. TurnInv => (WritersBringTheirs /\ CatchUpsBringPages /\ NothingToRevise /\ TargetCameFirst)'
    BY <2>1 DEF TurnInv, WritersBringTheirs, CatchUpsBringPages, NothingToRevise, TargetCameFirst, Filling,
       AtRest
  <2>4. TurnInv => (RebuildsGoInOrder /\ NewestRevises /\ RowIsReplayed)'
    BY <2>1 DEF TurnInv, RebuildsGoInOrder, NewestRevises, RowIsReplayed, Filling, Held, AtRest, Precedes
  <2> QED
    BY <2>2, <2>3, <2>4 DEF InTurnItHolds, TurnInv
<1>2. CASE Next
  <2>1. PICK p \in Process : Acts(p)
    BY <1>2, NextIsSomeone
  <2> SUFFICES ASSUME InTurn' PROVE TurnInv'
    BY DEF InTurnItHolds
  <2>2. InTurn /\ TurnInv /\ Undisturbed /\ OrderInv
    BY <2>1, InTurnLasts, InTurnIsUndisturbed DEF InTurnItHolds
  <2>3. CASE p \in Writer
    BY <2>1, <2>2, <2>3, MintsInTurn, WritersInTurn
  <2>4. CASE p \in CatchUps
    BY <2>1, <2>2, <2>4, CatchUpsInTurn
  <2>5. CASE p \in Rebuilders
    BY <2>1, <2>2, <2>5, RebuildsInTurn
  <2> QED
    BY <2>3, <2>4, <2>5 DEF Process
<1> QED
  BY <1>1, <1>2

\* While whoever revises the target or rebuilds the index has the machine for
\* itself and is done with it, a rebuild would leave the target's row as it is:
\* `brain reindex` costs nothing but the time it takes, whatever the writers of
\* pages, the catch-ups and a cleanup under the lock did among each other, in
\* whatever order the lines reached the index, and whoever of them failed or
\* was killed.
THEOREM ReplayingCostsNothing == Spec => []RebuildReproducesInTurn
<1>1. Init => InTurnItHolds
  BY TurnInit DEF InTurnItHolds
<1>2. InTurnItHolds /\ TypeOK /\ (Undisturbed => OrderInv) /\ [Next]_vars => InTurnItHolds'
  BY TurnStep
<1>3. InTurnItHolds => RebuildReproducesInTurn
  <2> SUFFICES ASSUME TurnInv, AllAtRest PROVE row = Replay[rows]
    BY DEF InTurnItHolds, InTurn, RebuildReproducesInTurn, RebuildReproduces
  <2>1. Halfway = {}
    BY DEF AllAtRest, Halfway, AtRest
  <2>2. row = ReplayOf(born)[rows]
    BY <2>1 DEF TurnInv, RowIsReplayed
  <2> QED
    BY <2>2, ReplayIsReplayOf
<1> QED
  BY <1>1, <1>2, <1>3, EventIndexTypeCorrect, OrderInvariant, PTL DEF Spec
=============================================================================

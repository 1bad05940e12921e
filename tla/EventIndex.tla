----------------------------- MODULE EventIndex -----------------------------
(***************************************************************************)
(* The event log of one project and the index derived from it. Whoever     *)
(* writes a line mints its id, appends it to the log and only then indexes *)
(* it (hook.rs, revise.rs, clean.rs); what an index write missed a run's   *)
(* catch-up brings in from a watermark (consolidate.rs catch_up_log), and  *)
(* `brain reindex` rebuilds everything (main.rs), which `brain sync` does  *)
(* after it has merged another machine's log (portable.rs union_logs).     *)
(*                                                                         *)
(* One line, the target, is a page; most other lines are revisions of it.  *)
(* An id is its writer. One monthly file stands for the log, which is read *)
(* in lines, never in bytes. `index_event` is two steps, because it is     *)
(* several statements and no transaction: the line's own row first, then   *)
(* what the line does to the target's row.                                 *)
(***************************************************************************)
EXTENDS Integers, Sequences, FiniteSets

CONSTANTS
  Writer,     \* each writes one line
  Kind,       \* what line each writes
  Target,     \* the writer of the page that the others revise
  CatchUps,   \* processes that catch the index up, again and again
  Rebuilders, \* `brain reindex`, once each
  Syncs,      \* those of them that merge another machine's log first
  Mortal,     \* processes that may be killed
  Fallible,   \* processes whose index writes may fail
  Alone,      \* processes that run while no other does
  Casts       \* who is there: the others are away

Foreign   == "foreign"      \* a page another machine wrote, for a sync to bring
Revisions == {"correct", "feedback", "forget", "clean", "restore", "supersede",
              "classify", "retire"}
\* Written by cleanup, restore and synthesis, under the run lock.
UnderLock == {"clean", "restore", "supersede", "classify"}
Process   == Writer \cup CatchUps \cup Rebuilders
Free      == "free"
Nothing   == "nothing"

ASSUME EventIndexAssumption ==
  /\ IsFiniteSet(Writer)
  /\ Kind \in [Writer -> Revisions \cup {"page", Foreign}]
  /\ Target \in Writer /\ Kind[Target] = "page"
  /\ Writer \cap CatchUps = {} /\ Writer \cap Rebuilders = {} /\ CatchUps \cap Rebuilders = {}
  /\ Syncs \subseteq Rebuilders /\ Mortal \subseteq Process /\ Fallible \subseteq Process
  /\ Free \notin Process /\ Nothing \notin Writer
  /\ Alone \subseteq Process /\ Casts \subseteq SUBSET Process

VARIABLES
  log,       \* the file: lines [by, ok], ok unless glued to half a line
  torn,      \* the file ends in half a line
  rows,      \* ids that have a row in the index
  row,       \* the target's row
  mark,      \* the watermark: how many lines were read, and the last of them
  born,      \* the order in which ids were minted, 0 before
  lock,      \* who has the run lock
  pc,        \* where each process is
  at,        \* the line a process indexes
  copy,      \* the file as a catch-up or a sync read it
  pos,       \* lines of it a catch-up is done with
  todo,      \* lines a rebuild has still to index
  written,   \* history: who has ever had a whole line in the log, as append returned it or a sync brought it
  beside     \* history: those that appended between a sync's reading and its writing

fileVars  == <<log, torn>>
indexVars == <<rows, row, mark>>
ownVars   == <<at, copy, pos, todo>>
history   == <<written, beside>>
vars == <<fileVars, indexVars, born, lock, pc, ownVars, history>>

HalfLine == [by |-> Nothing, ok |-> FALSE]
Line == [by : Writer, ok : BOOLEAN] \cup {HalfLine}
Lines == {log[i] : i \in DOMAIN log}

\* Mutant: the reading ends where a line cannot be read.
ReadableToTheFirstBad ==
  {log[i].by : i \in {n \in DOMAIN log : \A m \in 1..n : log[m].ok}}

\* A malformed line is skipped, and no other with it.
Readable == {line.by : line \in {l \in Lines : l.ok}}

\* The target's row. `text` is whose wording it shows, `fixedBy` is its
\* corrected_by, `forgotten` is 1 by the user and 2 by a cleanup.
NoRow == [here |-> FALSE, text |-> Nothing, fixedBy |-> Nothing,
          conf |-> 0, forgotten |-> 0, label |-> Nothing]

NoMark == [end |-> 0, last |-> HalfLine]

Init ==
  /\ log = <<>> /\ torn = FALSE
  /\ rows = {} /\ row = NoRow /\ mark = NoMark
  /\ born = [w \in Writer |-> 0]
  /\ lock = Free
  /\ \E cast \in Casts : pc = [p \in Process |-> IF p \in cast THEN "idle" ELSE "away"]
  /\ at = [p \in Process |-> Target]
  /\ copy = [p \in Process |-> <<>>]
  /\ pos = [p \in Process |-> 0]
  /\ todo = [p \in Process |-> {}]
  /\ written = {} /\ beside = {}

Is(p, here)  == pc[p] = here
Move(p, to)  == pc' = [pc EXCEPT ![p] = to]
AtRest(p)    == pc[p] \in {"away", "idle", "done", "dead"}
HasTheTurn(p) == \A q \in Process \ {p} : p \in Alone \/ q \in Alone => AtRest(q)

(***************************************************************************)
(* index_event                                                             *)
(***************************************************************************)
\* Statement one, an upsert: the line's own row. For the target that is the
\* row; one that is there already gets title and body of the line again.
WithRow(w, old) ==
  IF w # Target THEN old
  ELSE IF old.here THEN [old EXCEPT !.text = Target]
  ELSE [NoRow EXCEPT !.here = TRUE, !.text = Target]

\* human_corrected: a person's wording stands against a supersession.
ByHand(old) == old.fixedBy # Nothing /\ Kind[old.fixedBy] = "correct"

\* Mutant: a cleanup lowers a forget.
RevisedLowering(w, old) ==
  IF old.here /\ Kind[w] = "clean" THEN [old EXCEPT !.forgotten = 2]
  ELSE IF old.here /\ Kind[w] = "forget" THEN [old EXCEPT !.forgotten = 1]
  ELSE IF old.here /\ Kind[w] = "restore" /\ old.forgotten = 2 THEN [old EXCEPT !.forgotten = 0]
  ELSE old

\* The other statements: what a revision does to its target, an UPDATE that
\* meets no row while the target is not there.
Revised(w, old) ==
  IF ~old.here THEN old ELSE
  CASE Kind[w] = "correct"    -> [old EXCEPT !.text = w, !.fixedBy = w]
    [] Kind[w] = "supersede"  -> IF ByHand(old) THEN [old EXCEPT !.conf = @ + 1]
                                 ELSE [old EXCEPT !.conf = old.conf + 1, !.text = w, !.fixedBy = w]
    [] Kind[w] = "feedback"   -> [old EXCEPT !.conf = @ - 1]
    [] Kind[w] = "classify"   -> [old EXCEPT !.label = w]
    [] Kind[w] = "retire"     -> [old EXCEPT !.text = Nothing]
    [] Kind[w] = "forget"     -> [old EXCEPT !.forgotten = 1]
    [] Kind[w] = "clean"      -> [old EXCEPT !.forgotten = IF @ = 1 THEN 1 ELSE 2]
    [] Kind[w] = "restore"    -> [old EXCEPT !.forgotten = IF @ = 2 THEN 0 ELSE @]
    [] OTHER -> old

InsertsRow(p) ==
  /\ rows' = rows \cup {at[p]}
  /\ row' = WithRow(at[p], row)

Applies(p) == row' = Revised(at[p], row)

(***************************************************************************)
(* A writer                                                                *)
(***************************************************************************)
\* What each kind of revision asks of the target's row before it is minted.
MayRevise(w) ==
  CASE Kind[w] = "page"    -> TRUE
    [] Kind[w] = "forget"  -> row.here /\ row.forgotten \in {0, 2}
    [] Kind[w] = "restore" -> row.here /\ row.forgotten = 2
    [] OTHER               -> row.here /\ row.forgotten = 0

\* Mutant: the index is written and the log is not.
MintPastTheLog(w) ==
  /\ Is(w, "idle") /\ Kind[w] # Foreign
  /\ MayRevise(w)
  /\ HasTheTurn(w)
  /\ IF Kind[w] \in UnderLock THEN lock = Free /\ lock' = w ELSE UNCHANGED lock
  /\ born' = [born EXCEPT ![w] = 1 + Cardinality({v \in Writer : born[v] # 0})]
  /\ at' = [at EXCEPT ![w] = w]
  /\ Move(w, "insert")
  /\ UNCHANGED <<fileVars, indexVars, copy, pos, todo, history>>

\* Event::new: the id is taken here, the append comes later.
Mint(w) ==
  /\ Is(w, "idle") /\ Kind[w] # Foreign
  /\ MayRevise(w)
  /\ HasTheTurn(w)
  /\ IF Kind[w] \in UnderLock THEN lock = Free /\ lock' = w ELSE UNCHANGED lock
  /\ born' = [born EXCEPT ![w] = 1 + Cardinality({v \in Writer : born[v] # 0})]
  /\ at' = [at EXCEPT ![w] = w]
  /\ Move(w, "append")
  /\ UNCHANGED <<fileVars, indexVars, copy, pos, todo, history>>

\* One write of one line, in append mode: it lands behind whatever is there.
Appends(w) ==
  /\ Is(w, "append")
  /\ log' = Append(log, [by |-> w, ok |-> ~torn])
  /\ torn' = FALSE
  /\ written' = written \cup {w}
  /\ beside' = IF \E r \in Syncs : Is(r, "merge") THEN beside \cup {w} ELSE beside
  /\ Move(w, "insert")
  /\ UNCHANGED <<indexVars, born, lock, ownVars>>

Release(p) == lock' = IF lock = p THEN Free ELSE lock

WriterInserts(w) ==
  /\ w \in Writer /\ Is(w, "insert")
  /\ InsertsRow(w)
  /\ Move(w, "apply")
  /\ UNCHANGED <<fileVars, mark, born, lock, ownVars, history>>

WriterApplies(w) ==
  /\ w \in Writer /\ Is(w, "apply")
  /\ Applies(w)
  /\ Release(w)
  /\ Move(w, "done")
  /\ UNCHANGED <<fileVars, rows, mark, born, ownVars, history>>

\* The database is held past the busy timeout: the writer reports an error.
WriterFails(w) ==
  /\ w \in Writer \cap Fallible
  /\ pc[w] \in {"insert", "apply"}
  /\ Release(w)
  /\ Move(w, "done")
  /\ UNCHANGED <<fileVars, indexVars, born, ownVars, history>>

(***************************************************************************)
(* catch_up_log, under the run lock                                        *)
(***************************************************************************)
\* The watermark is trusted while its last line is still where it was; the
\* file is read to the length it has now, and not into half a line.
Trusted == mark.end > 0 /\ mark.end <= Len(log) /\ log[mark.end] = mark.last

Opens(c) ==
  /\ c \in CatchUps /\ Is(c, "idle") /\ HasTheTurn(c)
  /\ lock = Free /\ lock' = c
  /\ copy' = [copy EXCEPT ![c] = log]
  /\ pos' = [pos EXCEPT ![c] = IF Trusted THEN mark.end ELSE 0]
  /\ Move(c, "probe")
  /\ UNCHANGED <<fileVars, indexVars, born, at, todo, history>>

Probes(c) ==
  /\ c \in CatchUps /\ Is(c, "probe")
  /\ pos[c] < Len(copy[c])
  /\ LET line == copy[c][pos[c] + 1] IN
       IF line.ok /\ line.by \notin rows
         THEN Move(c, "insert") /\ at' = [at EXCEPT ![c] = line.by] /\ UNCHANGED pos
         ELSE pos' = [pos EXCEPT ![c] = @ + 1] /\ UNCHANGED <<pc, at>>
  /\ UNCHANGED <<fileVars, indexVars, born, lock, copy, todo, history>>

CatchUpInserts(c) ==
  /\ c \in CatchUps /\ Is(c, "insert")
  /\ InsertsRow(c)
  /\ Move(c, "apply")
  /\ UNCHANGED <<fileVars, mark, born, lock, ownVars, history>>

CatchUpApplies(c) ==
  /\ c \in CatchUps /\ Is(c, "apply")
  /\ Applies(c)
  /\ pos' = [pos EXCEPT ![c] = @ + 1]
  /\ Move(c, "probe")
  /\ UNCHANGED <<fileVars, rows, mark, born, lock, at, copy, todo, history>>

\* What a catch-up that ends forgets.
Closes(c) ==
  /\ Release(c)
  /\ copy' = [copy EXCEPT ![c] = <<>>] /\ pos' = [pos EXCEPT ![c] = 0]
  /\ at' = [at EXCEPT ![c] = Target]
  /\ UNCHANGED todo

\* Mutant: the watermark names the end the file has when it is written.
MarksTheEnd(c) ==
  /\ c \in CatchUps /\ Is(c, "probe")
  /\ pos[c] = Len(copy[c])
  /\ mark' = IF log = <<>> THEN mark ELSE [end |-> Len(log), last |-> log[Len(log)]]
  /\ Closes(c)
  /\ Move(c, "idle")
  /\ UNCHANGED <<fileVars, rows, row, born, history>>

\* The watermark is written after the events are indexed, with the print of
\* what the file holds by then. It may stop short of the end where the byte
\* budget is spent; a pass that read nothing leaves it alone.
Marks(c) ==
  /\ c \in CatchUps /\ Is(c, "probe")
  /\ pos[c] = Len(copy[c]) \/ pos[c] > IF Trusted THEN mark.end ELSE 0
  /\ mark' = IF pos[c] = 0 THEN mark
             ELSE IF pos[c] > Len(log) THEN NoMark
             ELSE [end |-> pos[c], last |-> log[pos[c]]]
  /\ Closes(c)
  /\ Move(c, "idle")
  /\ UNCHANGED <<fileVars, rows, row, born, history>>

\* A statement fails: no watermark.
GivesUp(c) ==
  /\ c \in CatchUps \cap Fallible
  /\ pc[c] \in {"probe", "insert", "apply"}
  /\ Closes(c)
  /\ Move(c, "idle")
  /\ UNCHANGED <<fileVars, indexVars, born, history>>

(***************************************************************************)
(* sync's merge and reindex, under no lock                                 *)
(***************************************************************************)
\* Order of ids; a foreign page is older than all that is written here, and
\* what cannot be read sorts before everything.
Before(k, l) == ~k.ok \/ (l.ok /\ born[k.by] <= born[l.by])
InOrder(S) ==
  {s \in [1..Cardinality(S) -> S] :
     \A i, j \in 1..Cardinality(S) : i < j => s[i] # s[j] /\ Before(s[i], s[j])}

\* union_logs reads the local file, half a line at its end as a line ...
ReadsLog(r) ==
  /\ r \in Syncs /\ Is(r, "idle")
  /\ HasTheTurn(r)
  /\ copy' = [copy EXCEPT ![r] = IF torn THEN Append(log, HalfLine) ELSE log]
  /\ Move(r, "merge")
  /\ UNCHANGED <<fileVars, indexVars, born, lock, at, pos, todo, history>>

\* ... and writes the union over it, sorted by id. A kill may leave only the
\* first part of it.
Brought == {[by |-> w, ok |-> TRUE] : w \in {v \in Writer : Kind[v] = Foreign}}

Merges(r) ==
  /\ r \in Syncs /\ Is(r, "merge")
  /\ \E s \in InOrder({copy[r][i] : i \in DOMAIN copy[r]} \cup Brought) :
       \/ log' = s /\ torn' = FALSE /\ Move(r, "clear")
       \/ /\ r \in Mortal
          /\ \E n \in 0..Len(s) : log' = SubSeq(s, 1, n) /\ torn' \in {FALSE, n < Len(s)}
          /\ Move(r, "dead")
  /\ copy' = [copy EXCEPT ![r] = <<>>]
  /\ written' = written \cup Readable'
  /\ UNCHANGED <<indexVars, born, lock, at, pos, todo, beside>>

\* store.clear is several statements and no transaction: the rows go first, ...
Clears(r) ==
  /\ r \in Rebuilders
  /\ Is(r, IF r \in Syncs THEN "clear" ELSE "idle")
  /\ HasTheTurn(r)
  /\ rows' = {} /\ row' = NoRow
  /\ Move(r, "unmark")
  /\ UNCHANGED <<fileVars, mark, born, lock, ownVars, history>>

\* ... the watermarks after them.
Unmarks(r) ==
  /\ r \in Rebuilders /\ Is(r, "unmark")
  /\ mark' = NoMark
  /\ Move(r, "read")
  /\ UNCHANGED <<fileVars, rows, row, born, lock, ownVars, history>>

\* read_all: what could be a target first, then the revisions, by id in each half.
ReadsAll(r) ==
  /\ r \in Rebuilders /\ Is(r, "read")
  /\ todo' = [todo EXCEPT ![r] = Readable]
  /\ Move(r, "next")
  /\ UNCHANGED <<fileVars, indexVars, born, lock, at, copy, pos, history>>

Precedes(v, w) ==
  \/ Kind[v] \notin Revisions /\ Kind[w] \in Revisions
  \/ (Kind[v] \in Revisions <=> Kind[w] \in Revisions) /\ born[v] <= born[w]
IsFirst(w, S) == w \in S /\ \A v \in S : Precedes(w, v)

\* Mutant: events are replayed as they come.
TakesAny(r) ==
  /\ r \in Rebuilders /\ Is(r, "next")
  /\ \E w \in todo[r] :
       /\ at' = [at EXCEPT ![r] = w]
       /\ todo' = [todo EXCEPT ![r] = @ \ {w}]
  /\ Move(r, "insert")
  /\ UNCHANGED <<fileVars, indexVars, born, lock, copy, pos, history>>

Takes(r) ==
  /\ r \in Rebuilders /\ Is(r, "next")
  /\ \E w \in todo[r] :
       /\ IsFirst(w, todo[r])
       /\ at' = [at EXCEPT ![r] = w]
       /\ todo' = [todo EXCEPT ![r] = @ \ {w}]
  /\ Move(r, "insert")
  /\ UNCHANGED <<fileVars, indexVars, born, lock, copy, pos, history>>

RebuildInserts(r) ==
  /\ r \in Rebuilders /\ Is(r, "insert")
  /\ InsertsRow(r)
  /\ Move(r, "apply")
  /\ UNCHANGED <<fileVars, mark, born, lock, ownVars, history>>

RebuildApplies(r) ==
  /\ r \in Rebuilders /\ Is(r, "apply")
  /\ Applies(r)
  /\ Move(r, "next")
  /\ UNCHANGED <<fileVars, rows, mark, born, lock, ownVars, history>>

RebuildEnds(r) ==
  /\ r \in Rebuilders /\ Is(r, "next")
  /\ todo[r] = {}
  /\ Move(r, "done")
  /\ UNCHANGED <<fileVars, indexVars, born, lock, ownVars, history>>

(***************************************************************************)
(* Crashes                                                                 *)
(***************************************************************************)
\* The next taker finds the dead holder's lock free. A kill inside the append
\* may leave half a line.
Killed(p) ==
  /\ p \in Mortal
  /\ ~AtRest(p)
  /\ torn' \in {torn, torn \/ Is(p, "append")}
  /\ Release(p)
  /\ Move(p, "dead")
  /\ UNCHANGED <<log, indexVars, born, ownVars, history>>

WriterStep(w) ==
  Mint(w) \/ Appends(w) \/ WriterInserts(w) \/ WriterApplies(w) \/ WriterFails(w)
CatchUpStep(c) ==
  Opens(c) \/ Probes(c) \/ CatchUpInserts(c) \/ CatchUpApplies(c) \/ Marks(c) \/ GivesUp(c)
RebuildStep(r) ==
  \/ ReadsLog(r) \/ Merges(r) \/ Clears(r) \/ Unmarks(r) \/ ReadsAll(r) \/ Takes(r)
  \/ RebuildInserts(r) \/ RebuildApplies(r) \/ RebuildEnds(r)

Next ==
  \/ \E w \in Writer : WriterStep(w)
  \/ \E c \in CatchUps : CatchUpStep(c)
  \/ \E r \in Rebuilders : RebuildStep(r)
  \/ \E p \in Process : Killed(p)

Spec == Init /\ [][Next]_vars

\* A process that runs keeps running, and the catch-up is run again and again:
\* every session that ends or opens on a backlog starts a run.
Fairness ==
  /\ \A w \in Writer : WF_vars(WriterStep(w) /\ ~Is(w, "idle"))
  /\ \A c \in CatchUps : SF_vars(Opens(c)) /\ WF_vars(CatchUpStep(c) /\ ~Is(c, "idle"))
  /\ \A r \in Rebuilders : WF_vars(RebuildStep(r) /\ ~Is(r, "idle"))

LiveSpec == Spec /\ Fairness

(***************************************************************************)
(* Properties                                                              *)
(***************************************************************************)
RowType == [here : BOOLEAN, text : Writer \cup {Nothing}, fixedBy : Writer \cup {Nothing},
            conf : Int, forgotten : 0..2, label : Writer \cup {Nothing}]
TypeOK ==
  /\ log \in Seq(Line) /\ torn \in BOOLEAN
  /\ rows \subseteq Writer
  /\ row \in RowType
  /\ mark \in [end : Nat, last : Line]
  /\ born \in [Writer -> Nat]
  /\ lock \in Writer \cup CatchUps \cup {Free}
  /\ pc \in [Process -> {"idle", "append", "insert", "apply", "probe", "merge", "clear",
                         "unmark", "read", "next", "done", "dead", "away"}]
  /\ at \in [Process -> Writer]
  /\ copy \in [Process -> Seq(Line)]
  /\ pos \in [Process -> Nat]
  /\ todo \in [Process -> SUBSET Writer]
  /\ written \subseteq Writer /\ beside \subseteq Writer

\* "One corrupt line from an interrupted write must not make the rest of the log
\* unreadable" (read_all), nor one that a sync has read and written again. A line
\* that came into the log can be read back ever after, but for one that landed
\* between a sync's reading and its writing, and at most one for each writer
\* that was killed in its append: what comes after its half line. Unless a sync
\* died, which may have been while it wrote.
Lost == written \ Readable
KilledInAppend == {w \in Writer : Is(w, "dead") /\ born[w] # 0 /\ w \notin written}
LossIsExplained ==
  (\A r \in Syncs : ~Is(r, "dead")) =>
    Cardinality(Lost \ beside) <= Cardinality(KilledInAppend)

\* "A crash immediately after this call must not lose the event, because nothing
\* else stores it" (append): nothing is lost, for whatever reason.
NoAppendedLineIsLost == Lost = {}

\* The index is derived: a row is of a line that the log holds, or has lost.
IndexIsDerived == rows \subseteq Readable \cup Lost

\* What a trusted watermark lets the catch-up skip is in the index, whatever
\* was appended, merged, rebuilt or killed meanwhile, and however many
\* catch-ups gave up on the way. Violated, a line would be out of the index
\* until someone rebuilds it by hand.
AllAtRest == \A p \in Process : AtRest(p)
WatermarkTellsTheTruth ==
  AllAtRest /\ Trusted => \A i \in 1..mark.end : log[i].ok => log[i].by \in rows

\* "A cleanup never lowers a user's forget", and neither does a restore, a late
\* hook or a catch-up that applies lines out of order: only a rebuild takes the
\* row away, and with it the mark.
ForgetStays == row.forgotten = 1 => row'.forgotten = 1 \/ \E r \in Rebuilders : Clears(r)
ForgetIsFinal == [][ForgetStays]_vars

\* "Deleting `brain.db` must cost nothing but the time this takes" (reindex):
\* with all lines in the index and no process at work, replaying the log in
\* read_all's order would leave the target's row as it is.
Replay[S \in SUBSET Writer] ==
  IF S = {} THEN NoRow
  ELSE LET last == CHOOSE w \in S : \A v \in S : Precedes(v, w)
       IN Revised(last, WithRow(last, Replay[S \ {last}]))
RebuildReproduces == AllAtRest /\ rows = Readable => row = Replay[rows]

\* Replaying reproduces the row as long as nobody interferes who would change
\* it out of turn: who revises it or rebuilds the index has the machine for
\* itself and is done with it - but for cleanups, which the lock keeps apart -
\* and nobody spoils another's line.
Revisers == {w \in Writer : Kind[w] \in Revisions}
OutOfTurn ==
  {w \in Revisers : w \notin Alone /\ Kind[w] # "clean"} \cup (Revisers \cap Fallible)
    \cup (Writer \cap Mortal) \cup {r \in Rebuilders : r \notin Alone \/ r \in Mortal}
RebuildReproducesInTurn == (\A p \in OutOfTurn : Is(p, "away")) => RebuildReproduces

\* The line of a writer that failed or was killed gets its row if it can be read
\* and the log does not lose it first, though catch-ups gave up and a rebuild
\* emptied the index on the way.
EveryLineIsIndexed ==
  \A w \in Writer \cap (Mortal \cup Fallible) : (w \in Readable) ~> (w \in rows \cup Lost)

\* The same comment on reindex, of a flag: one `brain_feedback` sinks an entry
\* once.
Flags == {w \in Readable : Kind[w] = "feedback"}
FlagsCountOnce == row.conf >= 0 - Cardinality(Flags)

\* "Two corrections of one event stay last-wins" (read_all): once all are in
\* the index, the wording is the newest correction's.
Corrections == {w \in Readable : Kind[w] = "correct"}
NewestCorrectionWins ==
  AllAtRest /\ rows = Readable =>
    \A w \in Corrections : (\A v \in Corrections : born[v] <= born[w]) => row.text = w

\* "Rereading is safe, because only ids the store lacks are indexed"
\* (catch_up_log): once the log has been read, a forget that is in the log has
\* reached the row.
ForgetReachesTheRow ==
  AllAtRest /\ rows = Readable /\ (\E w \in rows : Kind[w] = "forget") => row.forgotten = 1
=============================================================================

----------------------------- MODULE Injection -----------------------------
(***************************************************************************)
(* What one session is shown. Every hook of the session may push pointers  *)
(* into the agent's context; the index remembers which (injected), which   *)
(* file was covered (injected_files) and what it cost (injected_bytes), so *)
(* nothing is pushed twice and the session stays under its budget          *)
(* (hook.rs handle, inject_for, deliver; inject.rs; store.rs). A hook that *)
(* meets a held database spills what it showed to a file, which a          *)
(* consolidation run folds back; a wipe of the context that the index      *)
(* could not take waits as a file too (maint.rs).                          *)
(*                                                                         *)
(* Pointers have one width, and a text costs as many bytes as it carries   *)
(* pointers; ranking is a choice, and what a hook reads to build its text  *)
(* it reads at one moment. Each write is a step. The maintenance window    *)
(* shows only in how soon a write gives up, which any write may do.        *)
(***************************************************************************)
EXTENDS Integers, Sequences, FiniteSets

CONSTANTS
  Pointer,     \* ids that may be pushed
  Hook,        \* hook processes of the session
  Kind,        \* what each of them injects for
  Wipers,      \* hooks whose event has just wiped the agent's context
  Cap,         \* session_budget
  Mortal       \* hooks, and the folding run, that may be killed

Folder == "folder"

ASSUME InjectionAssumption ==
  /\ IsFiniteSet(Pointer)
  /\ Kind \in [Hook -> {"primer", "file", "prompt", "command"}]
  /\ \A p \in Wipers : p \in Hook /\ Kind[p] = "primer"
  /\ Folder \notin Hook /\ Mortal \subseteq Hook \cup {Folder}
  /\ Cap \in Nat

VARIABLES
  active,    \* ids whose row in `injected` is active
  known,     \* ids that have a row in `injected`
  covered,   \* the hooks' file has a row in `injected_files`
  spent,     \* the session's `injected_bytes`
  txn,       \* the folding run's transaction, or nothing
  surfaced,  \* lines of surfaced.jsonl
  folding,   \* lines of surfaced.jsonl.folding
  wipeFile,  \* the session has a pending wipe
  pc, skip, fresh, waiting, ids, todo, fd,  \* each hook's own
  fpc, phase, done, buf, round,             \* the folding run's own
  context,   \* history: ids the agent has before it now
  shown,     \* history: ids it was ever shown
  folded,    \* history: bytes folded since injected_bytes was last deleted
  owed,      \* history: bytes spilled less bytes folded
  missed,    \* history: ids of lines that came too late to be folded
  mishap     \* history: what NoAmnesia excuses

storeVars == <<active, known, covered, spent>>
fileVars  == <<surfaced, folding>>
local     == <<skip, fresh, waiting, ids, todo, fd>>
hookVars  == <<pc, local>>
foldVars  == <<txn, fpc, phase, done, buf, round>>
accounts  == <<folded, owed, missed>>
ghosts    == <<context, shown, accounts, mishap>>
vars == <<storeVars, fileVars, wipeFile, hookVars, foldVars, ghosts>>

NoTxn == [none |-> TRUE]
\* A file's line carries no pointer.
Line == [kind : {"injected"}, ids : SUBSET Pointer] \cup [kind : {"file"}, ids : {{}}]
Cost(S) == Cardinality(S)

\* A session that has been shown S, and may since have had a wipe that waits.
Init ==
  /\ \E S \in SUBSET Pointer :
       /\ Cost(S) <= Cap
       /\ active = S /\ known = S /\ shown = S /\ spent = Cost(S)
       /\ wipeFile \in BOOLEAN
       /\ context = IF wipeFile THEN {} ELSE S
  /\ covered \in BOOLEAN
  /\ surfaced = <<>> /\ folding = <<>>
  /\ pc = [p \in Hook |-> "new"]
  /\ skip = [p \in Hook |-> FALSE]
  /\ fresh = [p \in Hook |-> FALSE]
  /\ waiting = [p \in Hook |-> FALSE]
  /\ ids = [p \in Hook |-> {}]
  /\ todo = [p \in Hook |-> {}]
  /\ fd = [p \in Hook |-> "none"]
  /\ txn = NoTxn
  /\ fpc = "idle" /\ phase = 1 /\ done = 0 /\ buf = <<>> /\ round = 1
  /\ folded = 0 /\ owed = 0 /\ missed = {} /\ mishap = FALSE

Is(p, at)   == pc[p] = at
Move(p, to) == pc' = [pc EXCEPT ![p] = to]

\* A process that ends takes what it knew with it.
End(p) ==
  /\ Move(p, "ended")
  /\ skip' = [skip EXCEPT ![p] = FALSE]
  /\ fresh' = [fresh EXCEPT ![p] = FALSE] /\ waiting' = [waiting EXCEPT ![p] = FALSE]
  /\ ids' = [ids EXCEPT ![p] = {}] /\ todo' = [todo EXCEPT ![p] = {}]
  /\ fd' = [fd EXCEPT ![p] = "none"]

\* Any write may meet a database held for longer than it waits - a moment in
\* the maintenance window, seconds outside it - and fail; one that succeeds
\* finds the folding run out of its transaction.
Free == fpc # "lines"

(***************************************************************************)
(* A hook up to its injection                                              *)
(***************************************************************************)
\* The host has wiped the context by now.
Fires(p) ==
  /\ Is(p, "new")
  /\ context' = IF p \in Wipers THEN {} ELSE context
  /\ Move(p, "open")
  /\ UNCHANGED <<storeVars, fileVars, wipeFile, skip, fresh, waiting, ids, todo, fd, foldVars, shown, accounts, mishap>>

Resetting(p) == pc[p] \in {"resetids", "resetfiles", "resetbytes"}

\* Another hook that applied an earlier wipe is about to remove its file.
Removing(p) == \E q \in Hook \ {p} : waiting[q] /\ (Resetting(q) \/ Is(q, "clear"))

\* Store::open fails: in the window the wipe is kept, outside the hook just
\* reports the error.
CannotOpen(p) ==
  /\ Is(p, "open")
  /\ \E inWindow \in BOOLEAN :
       /\ wipeFile' = (wipeFile \/ (p \in Wipers /\ inWindow))
       /\ mishap' = (mishap \/ (p \in Wipers /\ (~inWindow \/ Removing(p))))
  /\ End(p)
  /\ UNCHANGED <<storeVars, fileVars, foldVars, context, shown, accounts>>

\* The writes of the capture come first; in the window one that fails makes
\* the hook leave all later ones to the files. A shell command's hook has none.
OpensStore(p) ==
  /\ Is(p, "open")
  /\ \E failed \in BOOLEAN :
       /\ failed => Kind[p] # "command"
       /\ skip' = [skip EXCEPT ![p] = failed]
  /\ Move(p, IF Kind[p] = "command" THEN "build" ELSE "wipe")
  /\ UNCHANGED <<storeVars, fileVars, wipeFile, fresh, waiting, ids, todo, fd, foldVars, ghosts>>

LooksForWipe(p) ==
  /\ Is(p, "wipe")
  /\ waiting' = [waiting EXCEPT ![p] = wipeFile]
  /\ Move(p, IF p \notin Wipers /\ ~wipeFile THEN "build"
             ELSE IF skip[p] THEN "pend" ELSE "resetids")
  /\ UNCHANGED <<storeVars, fileVars, wipeFile, skip, fresh, ids, todo, fd, foldVars, ghosts>>

\* Mutant: the rows are deleted rather than deactivated.
ResetsIdsDeleting(p) ==
  /\ Is(p, "resetids") /\ Free
  /\ active' = {} /\ known' = {}
  /\ Move(p, "resetfiles")
  /\ UNCHANGED <<covered, spent, fileVars, wipeFile, local, foldVars, ghosts>>

\* reset_injection_state, three statements of their own.
ResetsIds(p) ==
  /\ Is(p, "resetids") /\ Free
  /\ active' = {}
  /\ Move(p, "resetfiles")
  /\ UNCHANGED <<known, covered, spent, fileVars, wipeFile, local, foldVars, ghosts>>

ResetsFiles(p) ==
  /\ Is(p, "resetfiles") /\ Free
  /\ covered' = FALSE
  /\ Move(p, "resetbytes")
  /\ UNCHANGED <<active, known, spent, fileVars, wipeFile, local, foldVars, ghosts>>

ResetsBytes(p) ==
  /\ Is(p, "resetbytes") /\ Free
  /\ spent' = 0 /\ folded' = 0
  /\ Move(p, IF waiting[p] THEN "clear" ELSE "build")
  /\ UNCHANGED <<active, known, covered, fileVars, wipeFile, local, foldVars, context, shown, owed, missed, mishap>>

\* Mutant: a reset that failed is let go.
ResetFailsQuietly(p) ==
  /\ Resetting(p)
  /\ Move(p, "build")
  /\ UNCHANGED <<storeVars, fileVars, wipeFile, local, foldVars, ghosts>>

ResetFails(p) ==
  /\ Resetting(p)
  /\ Move(p, "pend")
  /\ UNCHANGED <<storeVars, fileVars, wipeFile, local, foldVars, ghosts>>

ClearsWipe(p) ==
  /\ Is(p, "clear")
  /\ wipeFile' = FALSE
  /\ Move(p, "build")
  /\ UNCHANGED <<storeVars, fileVars, local, foldVars, ghosts>>

\* pending_wipe
Pends(p) ==
  /\ Is(p, "pend")
  /\ wipeFile' = TRUE
  /\ skip' = [skip EXCEPT ![p] = TRUE]
  /\ fresh' = [fresh EXCEPT ![p] = TRUE]
  /\ mishap' = (mishap \/ Removing(p))
  /\ Move(p, "build")
  /\ UNCHANGED <<storeVars, fileVars, waiting, ids, todo, fd, foldVars, context, shown, accounts>>

\* A one-shot session, a failed call, an answer nobody reads; or nothing to say.
StaysSilent(p) ==
  /\ Is(p, "build") \/ (Is(p, "record") /\ ids[p] = {})
  /\ End(p)
  /\ UNCHANGED <<storeVars, fileVars, wipeFile, foldVars, ghosts>>

(***************************************************************************)
(* primer, for_file, for_prompt, for_command                               *)
(***************************************************************************)
\* Only the primer asks whether a wipe is owed; the others read the state as
\* it is. A shell command's lesson is looked up by its row, armed or not.
ReadsEmpty(p) == fresh[p] /\ Kind[p] = "primer"
Withheld(p) == IF ReadsEmpty(p) THEN {} ELSE IF Kind[p] = "command" THEN known ELSE active
Fits(p, S) == (IF ReadsEmpty(p) THEN 0 ELSE spent) + Cost(S) <= Cap
Passes(p) == Kind[p] = "file" /\ covered

Builds(p) ==
  /\ Is(p, "build")
  /\ \E S \in SUBSET (Pointer \ Withheld(p)) :
       /\ S = {} \/ (Fits(p, S) /\ ~Passes(p))
       /\ Kind[p] = "command" => Cost(S) <= 1
       /\ ids' = [ids EXCEPT ![p] = S]
       /\ Move(p, IF Kind[p] = "file" THEN "cover" ELSE "record")
  /\ UNCHANGED <<storeVars, fileVars, wipeFile, skip, fresh, waiting, todo, fd, foldVars, ghosts>>

\* record_injected_file
Covers(p) ==
  /\ Is(p, "cover") /\ ~skip[p] /\ Free
  /\ covered' = TRUE
  /\ Move(p, "record")
  /\ UNCHANGED <<active, known, spent, fileVars, wipeFile, local, foldVars, ghosts>>

CoverFails(p) ==
  /\ Is(p, "cover")
  /\ Move(p, "spillfile")
  /\ UNCHANGED <<storeVars, fileVars, wipeFile, local, foldVars, ghosts>>

(***************************************************************************)
(* deliver                                                                 *)
(***************************************************************************)
\* Mutant: the budget that was read when the text was built is trusted.
ReservesUnasked(p) ==
  /\ Is(p, "record") /\ ids[p] # {} /\ ~skip[p] /\ Free
  /\ spent' = spent + Cost(ids[p])
  /\ todo' = [todo EXCEPT ![p] = ids[p]]
  /\ Move(p, "note")
  /\ UNCHANGED <<active, known, covered, fileVars, wipeFile, skip, fresh, waiting, ids, fd, foldVars, ghosts>>

\* record_injected: the bytes by one conditional upsert ...
Reserves(p) ==
  /\ Is(p, "record") /\ ids[p] # {} /\ ~skip[p] /\ Free
  /\ spent + Cost(ids[p]) <= Cap
  /\ spent' = spent + Cost(ids[p])
  /\ todo' = [todo EXCEPT ![p] = ids[p]]
  /\ Move(p, "note")
  /\ UNCHANGED <<active, known, covered, fileVars, wipeFile, skip, fresh, waiting, ids, fd, foldVars, ghosts>>

\* ... which another hook of the session may have spent meanwhile ...
Refused(p) ==
  /\ Is(p, "record") /\ ids[p] # {} /\ ~skip[p] /\ Free
  /\ spent + Cost(ids[p]) > Cap
  /\ End(p)
  /\ UNCHANGED <<storeVars, fileVars, wipeFile, foldVars, ghosts>>

\* ... then the ids, one by one. A row that a wipe deactivated is armed again.
Notes(p) ==
  /\ Is(p, "note") /\ Free
  /\ \E i \in todo[p] :
       /\ active' = active \cup {i}
       /\ known' = known \cup {i}
       /\ todo' = [todo EXCEPT ![p] = @ \ {i}]
       /\ Move(p, IF todo[p] = {i} THEN "deliver" ELSE "note")
  /\ UNCHANGED <<covered, spent, fileVars, wipeFile, skip, fresh, waiting, ids, fd, foldVars, ghosts>>

RecordFails(p) ==
  /\ \/ Is(p, "record") /\ ids[p] # {}
     \/ Is(p, "note")
  /\ Move(p, "spill")
  /\ UNCHANGED <<storeVars, fileVars, wipeFile, local, foldVars, ghosts>>

Delivers(p) ==
  /\ Is(p, "deliver")
  /\ context' = context \cup ids[p]
  /\ shown' = shown \cup ids[p]
  /\ End(p)
  /\ UNCHANGED <<storeVars, fileVars, wipeFile, foldVars, accounts, mishap>>

(***************************************************************************)
(* spill_line: open for append (which creates the file), then one write    *)
(***************************************************************************)
Out(p) == IF pc[p] \in {"spillfile", "writefile"}
            THEN [kind |-> "file", ids |-> {}] ELSE [kind |-> "injected", ids |-> ids[p]]
Owes(p) == owed' = owed + Cost(Out(p).ids)
AfterSpill(p) == IF Out(p).kind = "file" THEN "record" ELSE "deliver"

OpensSpill(p) ==
  /\ pc[p] \in {"spill", "spillfile"}
  /\ fd' = [fd EXCEPT ![p] = "surfaced"]
  /\ Move(p, IF Is(p, "spill") THEN "write" ELSE "writefile")
  /\ UNCHANGED <<storeVars, fileVars, wipeFile, skip, fresh, waiting, ids, todo, foldVars, ghosts>>

\* The write follows the file, not its name.
WritesSpill(p) ==
  /\ pc[p] \in {"write", "writefile"}
  /\ surfaced' = IF fd[p] = "surfaced" THEN Append(surfaced, Out(p)) ELSE surfaced
  /\ folding' = IF fd[p] = "folding" THEN Append(folding, Out(p)) ELSE folding
  /\ missed' = IF fd[p] = "gone" THEN missed \cup Out(p).ids ELSE missed
  /\ Owes(p)
  /\ fd' = [fd EXCEPT ![p] = "none"]
  /\ Move(p, AfterSpill(p))
  /\ UNCHANGED <<storeVars, wipeFile, skip, fresh, waiting, ids, todo, foldVars, context, shown, folded, mishap>>

HookKilled(p) ==
  /\ p \in Mortal
  /\ pc[p] \notin {"new", "ended"}
  /\ mishap' = TRUE
  /\ End(p)
  /\ UNCHANGED <<storeVars, fileVars, wipeFile, foldVars, context, shown, accounts>>

(***************************************************************************)
(* fold_surfaced, by a consolidation run under its lock                    *)
(***************************************************************************)
FAt(at) == fpc = at

\* fold_and_empty, first of what is left in the renamed file (phase 1), then
\* of what the rename brought (phase 2). `buf` is what was appended since the
\* last read of up to four.
Reads ==
  /\ FAt("read")
  /\ buf' = SubSeq(folding, done + 1, Len(folding))
  /\ done' = Len(folding)
  /\ fpc' = "begin"
  /\ UNCHANGED <<storeVars, fileVars, wipeFile, hookVars, txn, phase, round, ghosts>>

Begins ==
  /\ FAt("begin")
  /\ txn' = [active |-> active, known |-> known, covered |-> covered, spent |-> spent, bytes |-> 0]
  /\ fpc' = "lines"
  /\ UNCHANGED <<storeVars, fileVars, wipeFile, hookVars, phase, done, buf, round, ghosts>>

\* Mutant: a line's bytes are added whenever it is folded.
FoldedAgain(line, t) ==
  IF line.kind = "file" THEN [t EXCEPT !.covered = TRUE]
  ELSE [active |-> t.active \cup line.ids, known |-> t.known \cup line.ids, covered |-> t.covered,
        spent |-> t.spent + Cost(line.ids), bytes |-> t.bytes + Cost(line.ids)]

\* The bytes of a line are owed once: when it shows the session an id that has
\* no row yet.
Folded(line, t) ==
  LET due == IF line.ids \subseteq t.known THEN 0 ELSE Cost(line.ids)
  IN IF line.kind = "file" THEN [t EXCEPT !.covered = TRUE]
     ELSE [active |-> t.active \cup line.ids, known |-> t.known \cup line.ids,
           covered |-> t.covered, spent |-> t.spent + due, bytes |-> t.bytes + due]

FoldsLine ==
  /\ FAt("lines") /\ buf # <<>>
  /\ txn' = Folded(Head(buf), txn)
  /\ buf' = Tail(buf)
  /\ UNCHANGED <<storeVars, fileVars, wipeFile, hookVars, fpc, phase, done, round, ghosts>>

Delivering == UNION {ids[p] : p \in {q \in Hook : pc[q] = "deliver"}}

Commits ==
  /\ FAt("lines") /\ buf = <<>>
  /\ active' = txn.active /\ known' = txn.known
  /\ covered' = txn.covered /\ spent' = txn.spent
  /\ folded' = folded + txn.bytes /\ owed' = owed - txn.bytes
  /\ mishap' = (mishap \/ ~(txn.active \ active \subseteq context \cup Delivering))
  /\ txn' = NoTxn
  /\ fpc' = IF done = 0 THEN "leave" ELSE "check"
  /\ UNCHANGED <<fileVars, wipeFile, hookVars, phase, done, buf, round, context, shown, missed>>

\* The run gives up the fold, and with it this time's retention.
GiveUp == fpc' = "idle" /\ txn' = NoTxn /\ phase' = 1 /\ done' = 0 /\ buf' = <<>> /\ round' = 1

FoldFails ==
  /\ fpc \in {"begin", "lines"}
  /\ GiveUp
  /\ UNCHANGED <<storeVars, fileVars, wipeFile, hookVars, ghosts>>

Rounds == 4

\* A line that landed meanwhile makes the length differ.
Checks ==
  /\ FAt("check")
  /\ fpc' = IF Len(folding) = done THEN "empty" ELSE IF round < Rounds THEN "read" ELSE "leave"
  /\ round' = IF Len(folding) # done /\ round < Rounds THEN round + 1 ELSE round
  /\ UNCHANGED <<storeVars, fileVars, wipeFile, hookVars, txn, phase, done, buf, ghosts>>

IdsOf(lines) == UNION {lines[i].ids : i \in DOMAIN lines}
Unread == IdsOf(SubSeq(folding, done + 1, Len(folding)))

\* What landed since the length was looked at goes too.
Empties ==
  /\ FAt("empty")
  /\ folding' = <<>>
  /\ missed' = missed \cup Unread
  /\ fpc' = "leave" /\ done' = 0
  /\ UNCHANGED <<storeVars, surfaced, wipeFile, hookVars, txn, phase, buf, round, context, shown, folded, owed, mishap>>

SpillExists == surfaced # <<>> \/ \E p \in Hook : fd[p] = "surfaced"

\* Between the two the spill is renamed over the file that was just emptied;
\* whoever has it open goes along.
Renames ==
  /\ FAt("leave") /\ phase = 1
  /\ IF SpillExists
       THEN /\ folding' = surfaced /\ surfaced' = <<>>
            /\ missed' = missed \cup Unread
            /\ fd' = [p \in Hook |-> CASE fd[p] = "surfaced" -> "folding"
                                       [] fd[p] = "folding" -> "gone"
                                       [] OTHER -> fd[p]]
       ELSE UNCHANGED <<fileVars, fd, missed>>
  /\ phase' = 2 /\ done' = 0 /\ round' = 1
  /\ fpc' = "read"
  /\ UNCHANGED <<storeVars, wipeFile, pc, skip, fresh, waiting, ids, todo, txn, buf, context, shown, folded, owed, mishap>>

FoldEnds ==
  /\ FAt("leave") /\ phase = 2
  /\ GiveUp
  /\ UNCHANGED <<storeVars, fileVars, wipeFile, hookVars, ghosts>>

\* There is something to fold; a fold of nothing changes nothing.
FoldStarts ==
  /\ FAt("idle") /\ (SpillExists \/ folding # <<>>)
  /\ fpc' = "read"
  /\ UNCHANGED <<storeVars, fileVars, wipeFile, hookVars, txn, phase, done, buf, round, ghosts>>

\* The transaction is rolled back; a later run starts over.
FolderKilled ==
  /\ Folder \in Mortal /\ ~FAt("idle")
  /\ GiveUp
  /\ UNCHANGED <<storeVars, fileVars, wipeFile, hookVars, ghosts>>

HookStep(p) ==
  \/ Fires(p) \/ CannotOpen(p) \/ OpensStore(p) \/ LooksForWipe(p) \/ ResetsIds(p)
  \/ ResetsFiles(p) \/ ResetsBytes(p) \/ ResetFails(p) \/ ClearsWipe(p) \/ Pends(p)
  \/ StaysSilent(p) \/ Builds(p) \/ Covers(p) \/ CoverFails(p) \/ Reserves(p)
  \/ Refused(p) \/ Notes(p) \/ RecordFails(p) \/ Delivers(p)
  \/ OpensSpill(p) \/ WritesSpill(p) \/ HookKilled(p)

FoldStep ==
  \/ FoldStarts \/ Reads \/ Begins \/ FoldsLine \/ Commits \/ FoldFails \/ Checks
  \/ Empties \/ Renames \/ FoldEnds \/ FolderKilled

Next == (\E p \in Hook : HookStep(p)) \/ FoldStep

Spec == Init /\ [][Next]_vars

(***************************************************************************)
(* Properties                                                              *)
(***************************************************************************)
StoreTypeOK ==
  /\ active \subseteq known /\ known \subseteq Pointer
  /\ covered \in BOOLEAN /\ spent \in Nat
  /\ surfaced \in Seq(Line) /\ folding \in Seq(Line)
  /\ wipeFile \in BOOLEAN

HookTypeOK ==
  /\ pc \in [Hook -> {"new", "open", "wipe", "resetids", "resetfiles", "resetbytes", "clear",
                      "pend", "build", "cover", "record", "note", "deliver", "spill", "spillfile",
                      "write", "writefile", "ended"}]
  /\ skip \in [Hook -> BOOLEAN] /\ fresh \in [Hook -> BOOLEAN] /\ waiting \in [Hook -> BOOLEAN]
  /\ ids \in [Hook -> SUBSET Pointer] /\ todo \in [Hook -> SUBSET Pointer]
  /\ fd \in [Hook -> {"none", "surfaced", "folding", "gone"}]

Txn == [active : SUBSET Pointer, known : SUBSET Pointer, covered : BOOLEAN, spent : Nat, bytes : Nat]
FoldTypeOK ==
  /\ fpc \in {"idle", "read", "begin", "lines", "check", "empty", "leave"}
  /\ IF fpc = "lines" THEN txn \in Txn /\ txn.active \subseteq txn.known ELSE txn = NoTxn
  /\ phase \in 1..2 /\ done \in Nat /\ buf \in Seq(Line) /\ round \in 1..Rounds

HistoryTypeOK ==
  /\ context \subseteq shown /\ shown \subseteq Pointer
  /\ folded \in Nat /\ owed \in Int
  /\ missed \subseteq Pointer /\ mishap \in BOOLEAN

TypeOK == StoreTypeOK /\ HookTypeOK /\ FoldTypeOK /\ HistoryTypeOK

\* "Hooks run as separate processes and a burst of tool calls arrives at once:
\* each read the same remaining budget, each spent it, and the session ended
\* over its ceiling" (record_injected, of what its one statement cured): only
\* what was pushed while the database was held can take a session past its
\* budget.
BudgetBinds == spent <= Cap + folded

\* "The bytes are owed once ... so a fold run again over the same file adds
\* nothing" (fold_surfaced): whatever kills, failed commits and late lines
\* make a fold run again, a session is never charged more than was spilled.
OwedOnce == owed >= 0

\* What the agent was shown is on record - in the ledger, or in a spill the
\* ledger has not taken back yet (surfaced_to): the guard of forget, correct
\* and feedback, and retention, rest on it - unless the line itself came too
\* late.
Spilled == IdsOf(surfaced) \cup IdsOf(folding)
NothingShownIsForgotten == shown \subseteq known \cup Spilled \cup missed

\* "Without this reset the guard that stops us repeating ourselves would
\* instead guarantee amnesia" (hook.rs, of a context wipe): with no hook on its
\* way and no wipe waiting, nothing is held back as already shown that the
\* agent lost - unless a hook was killed, could not open the store outside the
\* window, removed the file of a later wipe, or a fold brought back a line from
\* before the wipe.
AllEnded == \A p \in Hook : pc[p] \in {"new", "ended"}
NoAmnesia == AllEnded /\ ~wipeFile /\ ~mishap => active \subseteq context

\* The same comment, of the lesson a shell command triggers: what the agent
\* lost in a wipe, it may be told again.
LessonsComeBack ==
  AllEnded /\ ~wipeFile /\ ~mishap => \A p \in Hook : Withheld(p) \subseteq context

\* "Emptying rather than replaying keeps a fold from re-arming what a context
\* wipe cleared in between" (fold_and_empty): a fold marks as shown only what
\* the agent has before it, or is just being given.
RearmsNothing == Commits => active' \ active \subseteq context \cup Delivering
FoldRearmsNothingWiped == [][RearmsNothing]_vars
=============================================================================

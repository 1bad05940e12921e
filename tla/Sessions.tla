------------------------------ MODULE Sessions ------------------------------
(***************************************************************************)
(* One session's way from captured observations to a summary, as several   *)
(* `brain consolidate` processes work on it at once: the pending list, the *)
(* debounce, the claim, the superseded check, the tiers, the summary in    *)
(* the log, the marks in the index, failed attempts and parking            *)
(* (consolidate.rs drain_project, should_wait, consolidate_session;        *)
(* store.rs for session_state and the consolidated flag). Sessions share   *)
(* no row, so one stands for all. The run lock is left out on purpose: the *)
(* claim is there for the runs it does not keep apart.                     *)
(*                                                                         *)
(* Times are kept as what the code compares: whether the last run is       *)
(* within the debounce (recent), which events are older than the backstop  *)
(* age (aged) or newer than the last failed attempt (fresh), which runs    *)
(* began before the last recorded run (since), and whether the claim is    *)
(* older than CLAIM_STALE_SECS (claimOld).                                 *)
(***************************************************************************)
EXTENDS Naturals, FiniteSets

CONSTANTS
  Run,          \* consolidation processes
  Forced,       \* those started with --session S --force
  Idlers,       \* those started with --idle
  Mortal,       \* those that may be killed
  MaxEvent,     \* observations the session ever captures
  Loud,         \* observations with something to say (prompt, file, topic)
  MinPending,   \* MIN_PENDING (3 in the code)
  ParkAfter,    \* PARK_AFTER (3 in the code)
  LaggingHooks, \* a hook may index its event long after it logged it
  SlowRuns,     \* a live run may hold its claim for more than 5 minutes
  Chunked,      \* a session may be longer than one prompt
  MayFail       \* whether a run may meet an error

Event  == 1..MaxEvent
Nobody == "nobody"
QuietMax == 3   \* QUIET_MAX_EVENTS

ASSUME SessionsAssumption ==
  /\ Forced \subseteq Run /\ Idlers \subseteq Run /\ Mortal \subseteq Run
  /\ Nobody \notin Run
  /\ MaxEvent \in Nat /\ MinPending \in Nat /\ ParkAfter \in Nat
  /\ Loud \subseteq Event
  /\ {LaggingHooks, SlowRuns, Chunked, MayFail} \subseteq BOOLEAN

VARIABLES
  logged,    \* observations in the event log
  hooks,     \* observations whose hook has not indexed them yet
  indexed,   \* observations in the index
  pending,   \* those with consolidated = 0
  pages,     \* summaries in the log: [links, tier, seen], seen once indexed
  headless,  \* the session is a one-shot run
  hasRow,    \* session_state has a row for the session
  row,       \* that row
  recent, aged, fresh, since, claimOld,
  pc, newest, count, retriable, got, tier, failed,  \* each process's own
  dead,
  settled,   \* history: observations marked done as quiet or headless
  narrated,  \* history: observations a model's answer was written from
  told,      \* history: model summaries each observation went into
  mishaps,   \* history: what RetoldOnlyAfterAMishap lists, counted
  lost,      \* history: a live run lost its claim to another
  reopened   \* history: an observation that was done went back on the list

storeVars == <<indexed, pending, hasRow, row>>
clockVars == <<recent, aged, fresh, since, claimOld>>
ownVars   == <<newest, count, retriable, got, tier, failed>>
ghosts    == <<settled, narrated, told, mishaps, lost, reopened>>
vars == <<logged, hooks, pages, headless, storeVars, clockVars, pc, ownVars, dead, ghosts>>

Tier == {"none", "model", "rule-based", "quiet", "headless"}
Pc == {"new", "catchup", "catchmark", "revive", "list", "gate", "claim", "check", "read", "call",
       "append", "index", "mark", "record", "after", "release", "note", "ended"}
EmptyRow == [claim |-> Nobody, last |-> 0, tier |-> "none", attempts |-> 0]

Init ==
  /\ logged = {} /\ hooks = {} /\ indexed = {} /\ pending = {} /\ pages = {}
  /\ headless \in BOOLEAN
  /\ hasRow = FALSE /\ row = EmptyRow
  /\ recent = FALSE /\ aged = {} /\ fresh = {} /\ since = {} /\ claimOld = FALSE
  /\ pc = [p \in Run |-> "new"]
  /\ newest = [p \in Run |-> 0]
  /\ count = [p \in Run |-> 0]
  /\ retriable = [p \in Run |-> FALSE]
  /\ got = [p \in Run |-> {}]
  /\ tier = [p \in Run |-> "none"]
  /\ failed = [p \in Run |-> FALSE]
  /\ dead = {}
  /\ settled = {} /\ narrated = {} /\ mishaps = 0 /\ lost = FALSE /\ reopened = FALSE
  /\ told = [e \in Event |-> 0]

Is(p, at)   == pc[p] = at /\ p \notin dead
Move(p, to) == pc' = [pc EXCEPT ![p] = to]

(***************************************************************************)
(* Capture                                                                 *)
(***************************************************************************)
\* A hook appends to the log first. It indexes right after, or - with the
\* database held for up to its busy timeout - only later, or never.
Capture ==
  /\ Cardinality(logged) < MaxEvent
  /\ LET e == Cardinality(logged) + 1 IN
       /\ logged' = logged \cup {e}
       /\ fresh' = fresh \cup {e}
       /\ IF LaggingHooks
            THEN hooks' = hooks \cup {e} /\ UNCHANGED <<indexed, pending>>
            ELSE indexed' = indexed \cup {e} /\ pending' = pending \cup {e} /\ UNCHANGED hooks
  /\ UNCHANGED <<pages, headless, hasRow, row, recent, aged, since, claimOld, pc, ownVars, dead, ghosts>>

\* index_captured: the upsert writes consolidated = 0 over a row that is there.
HookIndexes(e) ==
  /\ e \in hooks
  /\ hooks' = hooks \ {e}
  /\ indexed' = indexed \cup {e}
  /\ pending' = pending \cup {e}
  /\ IF e \in indexed \ pending
       THEN mishaps' = mishaps + 1 /\ reopened' = TRUE
       ELSE UNCHANGED <<mishaps, reopened>>
  /\ UNCHANGED <<logged, pages, headless, hasRow, row, clockVars, pc, ownVars, dead, settled, narrated, told, lost>>

HookGivesUp(e) ==
  /\ e \in hooks
  /\ hooks' = hooks \ {e}
  /\ UNCHANGED <<logged, pages, headless, storeVars, clockVars, pc, ownVars, dead, ghosts>>

(***************************************************************************)
(* A run, up to the claim                                                  *)
(***************************************************************************)
\* `began` is taken once the run has its lock, before anything is read.
Begin(p) ==
  /\ Is(p, "new")
  /\ since' = since \ {p}
  /\ Move(p, "catchup")
  /\ UNCHANGED <<logged, hooks, pages, headless, storeVars, recent, aged, fresh, claimOld, ownVars, dead, ghosts>>

\* catch_up_index: what the log has and the index lacks, in log order. A
\* summary gets its row; marking what a model summary links is a later
\* statement, of no common transaction.
Links(S) == UNION {page.links : page \in S}
Unseen   == {page \in pages : ~page.seen}
ByModel(S) == {page \in S : page.tier = "model"}

CatchUp(p) ==
  /\ Is(p, "catchup")
  /\ indexed' = logged
  /\ pending' = pending \cup (logged \ indexed)
  /\ pages' = {[page EXCEPT !.seen = TRUE] : page \in pages}
  /\ got' = [got EXCEPT ![p] = Links(ByModel(Unseen))]
  /\ Move(p, "catchmark")
  /\ UNCHANGED <<logged, hooks, headless, hasRow, row, clockVars, newest, count, retriable, tier, failed, dead, ghosts>>

CatchUpMarks(p) ==
  /\ Is(p, "catchmark")
  /\ pending' = pending \ got[p]
  /\ got' = [got EXCEPT ![p] = {}]
  /\ Move(p, IF p \in Forced THEN "revive" ELSE "list")
  /\ UNCHANGED <<logged, hooks, indexed, pages, headless, hasRow, row, clockVars, newest, count, retriable, tier, failed, dead, ghosts>>

\* revive_session: reopen_settled_session, then reset_session_attempts. A
\* reopened session loses its row, with the claim that may be on it.
Reopens == hasRow /\ row.tier \in {"quiet", "headless"}

Revive(p) ==
  /\ Is(p, "revive")
  /\ IF Reopens
       THEN /\ pending' = indexed
            /\ hasRow' = FALSE /\ row' = EmptyRow
            /\ recent' = FALSE /\ claimOld' = FALSE /\ since' = {}
            /\ mishaps' = mishaps + (IF row.claim = Nobody THEN 1 ELSE 2)
            /\ lost' = (lost \/ row.claim \notin dead \cup {Nobody})
            /\ reopened' = TRUE
       ELSE /\ row' = [row EXCEPT !.attempts = 0]
            /\ UNCHANGED <<pending, hasRow, recent, claimOld, since, mishaps, lost, reopened>>
  /\ Move(p, "list")
  /\ UNCHANGED <<logged, hooks, indexed, pages, headless, aged, fresh, ownVars, dead, settled, narrated, told>>

\* parked_sessions_sql: out of attempts, and nothing captured since the last.
Parked == hasRow /\ row.attempts >= ParkAfter /\ pending \cap fresh = {}

Newest(e, S) == e \in S /\ \A f \in S : f <= e

\* sessions_pending, and for the idle sweep is_idle_work; e is the newest.
Listed(p, e) ==
  /\ Newest(e, pending) /\ ~Parked
  /\ p \in Idlers => e \in aged /\ ~(hasRow /\ row.tier = "rule-based")

List(p) ==
  /\ Is(p, "list")
  /\ \E e \in pending : Listed(p, e) /\ newest' = [newest EXCEPT ![p] = e]
  /\ count' = [count EXCEPT ![p] = Cardinality(pending)]
  /\ Move(p, "gate")
  /\ UNCHANGED <<logged, hooks, pages, headless, storeVars, clockVars, retriable, got, tier, failed, dead, ghosts>>

ListsNothing(p) ==
  /\ Is(p, "list")
  /\ ~ \E e \in pending : Listed(p, e)
  /\ Move(p, "ended")
  /\ UNCHANGED <<logged, hooks, pages, headless, storeVars, clockVars, ownVars, dead, ghosts>>

ShouldWait(p, mayAnswer) ==
  IF ~hasRow THEN count[p] < MinPending /\ newest[p] \notin aged
  ELSE IF row.last = newest[p] THEN ~(row.tier = "rule-based" /\ mayAnswer)
  ELSE recent /\ row.tier # "rule-based"

Gate(p) ==
  /\ Is(p, "gate")
  /\ \E mayAnswer \in BOOLEAN :   \* Ladder::could_answer
       /\ retriable' = [retriable EXCEPT ![p] = mayAnswer]
       /\ Move(p, IF p \notin Forced /\ ShouldWait(p, mayAnswer) THEN "ended" ELSE "claim")
  /\ UNCHANGED <<logged, hooks, pages, headless, storeVars, clockVars, newest, count, got, tier, failed, dead, ghosts>>

\* Mutant: the upsert without its condition.
ClaimAnyway(p) ==
  /\ Is(p, "claim")
  /\ hasRow' = TRUE
  /\ row' = [row EXCEPT !.claim = p]
  /\ claimOld' = FALSE
  /\ Move(p, "check")
  /\ UNCHANGED <<logged, hooks, indexed, pending, pages, headless, recent, aged, fresh, since, ownVars, dead, ghosts>>

\* claim_session: one conditional upsert.
Claim(p) ==
  /\ Is(p, "claim")
  /\ row.claim = Nobody \/ claimOld
  /\ hasRow' = TRUE
  /\ row' = [row EXCEPT !.claim = p]
  /\ claimOld' = FALSE
  /\ mishaps' = IF row.claim = Nobody THEN mishaps ELSE mishaps + 1
  /\ lost' = (lost \/ row.claim \notin dead \cup {Nobody})
  /\ Move(p, "check")
  /\ UNCHANGED <<logged, hooks, indexed, pending, pages, headless, recent, aged, fresh, since, ownVars, dead, settled, narrated, told, reopened>>

FindsClaimed(p) ==
  /\ Is(p, "claim")
  /\ row.claim # Nobody /\ ~claimOld
  /\ Move(p, "ended")
  /\ UNCHANGED <<logged, hooks, pages, headless, storeVars, clockVars, ownVars, dead, ghosts>>

\* A run that recorded the same newest event since we began did our work.
Superseded(p) == hasRow /\ row.last = newest[p] /\ p \in since

\* The claim that goes may be another run's by now.
FreeClaim(p) ==
  /\ row' = [row EXCEPT !.claim = Nobody] /\ claimOld' = FALSE
  /\ mishaps' = IF row.claim \in {Nobody, p} THEN mishaps ELSE mishaps + 1

LeavesSuperseded(p) ==
  /\ Is(p, "check") /\ Superseded(p)
  /\ FreeClaim(p)
  /\ Move(p, "ended")
  /\ UNCHANGED <<logged, hooks, indexed, pending, pages, headless, hasRow, recent, aged, fresh, since, ownVars, dead, settled, narrated, told, lost, reopened>>

GoesAhead(p) ==
  /\ Is(p, "check") /\ ~Superseded(p)
  /\ Move(p, "read")
  /\ UNCHANGED <<logged, hooks, pages, headless, storeVars, clockVars, ownVars, dead, ghosts>>

(***************************************************************************)
(* consolidate_session                                                     *)
(***************************************************************************)
Quiet(S) == Cardinality(S) <= QuietMax /\ S \cap Loud = {}

\* session_events, read now: it may hold more, or less, than was listed.
\* Nothing left is answered as if the floor had written a page.
Read(p) ==
  /\ Is(p, "read")
  /\ got' = [got EXCEPT ![p] = pending]
  /\ LET settles == IF Quiet(pending) THEN "quiet"
                    ELSE IF headless /\ p \notin Forced THEN "headless" ELSE "none"
     IN IF pending = {} THEN tier' = [tier EXCEPT ![p] = "rule-based"] /\ Move(p, "release")
        ELSE /\ tier' = [tier EXCEPT ![p] = settles]
             /\ Move(p, IF settles = "none" THEN "call" ELSE "mark")
  /\ UNCHANGED <<logged, hooks, pages, headless, storeVars, clockVars, newest, count, retriable, failed, dead, ghosts>>

\* The prompts, cut to size, go to the ladder one by one. A chunk no model
\* answers is written by the floor; the run's tier is the model's as soon as
\* one chunk was answered.
Chunks(S) ==
  {{S}} \cup (IF Chunked THEN {{{e \in S : e <= k}, {e \in S : e > k}} \ {{}} : k \in S} ELSE {})

Call(p) ==
  /\ Is(p, "call")
  /\ \E chunks \in Chunks(got[p]) : \E answered \in SUBSET chunks :
       /\ tier' = [tier EXCEPT ![p] = IF answered = {} THEN "rule-based" ELSE "model"]
       /\ narrated' = narrated \cup UNION answered
  /\ Move(p, "append")
  /\ UNCHANGED <<logged, hooks, pages, headless, storeVars, clockVars, newest, count, retriable, got, failed, dead, settled, told, mishaps, lost, reopened>>

\* An error on the way: a page that cannot be written, a log or an index that
\* cannot take the summary, a commit that fails.
Errs(p) ==
  /\ MayFail
  /\ \E at \in {"call", "append", "index", "mark", "record", "after"} : Is(p, at)
  /\ failed' = [failed EXCEPT ![p] = TRUE]
  /\ mishaps' = IF Is(p, "index") \/ (Is(p, "mark") /\ tier[p] = "model") THEN mishaps + 1 ELSE mishaps
  /\ Move(p, "release")
  /\ UNCHANGED <<logged, hooks, pages, headless, storeVars, clockVars, newest, count, retriable, got, tier, dead, settled, narrated, told, lost, reopened>>

Append(p) ==
  /\ Is(p, "append")
  /\ pages' = pages \cup {[links |-> got[p], tier |-> tier[p], seen |-> FALSE]}
  /\ told' = IF tier[p] = "model" THEN [e \in Event |-> IF e \in got[p] THEN told[e] + 1 ELSE told[e]] ELSE told
  /\ Move(p, "index")
  /\ UNCHANGED <<logged, hooks, headless, storeVars, clockVars, ownVars, dead, settled, narrated, mishaps, lost, reopened>>

\* index(summary): its row first; the marks for a model-backed one are those
\* that mark_consolidated makes again right after.
IndexSummary(p) ==
  /\ Is(p, "index")
  /\ LET mine == [links |-> got[p], tier |-> tier[p], seen |-> FALSE]
     IN pages' = (pages \ {mine}) \cup {[mine EXCEPT !.seen = TRUE]}
  /\ Move(p, IF tier[p] = "model" THEN "mark" ELSE "record")
  /\ UNCHANGED <<logged, hooks, headless, storeVars, clockVars, ownVars, dead, ghosts>>

\* Mutants: nothing is marked, or the whole session is.
MarkNothing(p) ==
  /\ Is(p, "mark")
  /\ settled' = IF tier[p] = "model" THEN settled ELSE settled \cup got[p]
  /\ Move(p, "record")
  /\ UNCHANGED <<logged, hooks, indexed, pending, pages, headless, hasRow, row, clockVars, ownVars, dead, narrated, told, mishaps, lost, reopened>>

MarkSession(p) ==
  /\ Is(p, "mark")
  /\ pending' = {}
  /\ settled' = IF tier[p] = "model" THEN settled ELSE settled \cup got[p]
  /\ Move(p, "record")
  /\ UNCHANGED <<logged, hooks, indexed, pages, headless, hasRow, row, clockVars, ownVars, dead, narrated, told, mishaps, lost, reopened>>

\* mark_consolidated, one transaction.
Mark(p) ==
  /\ Is(p, "mark")
  /\ pending' = pending \ got[p]
  /\ settled' = IF tier[p] = "model" THEN settled ELSE settled \cup got[p]
  /\ Move(p, "record")
  /\ UNCHANGED <<logged, hooks, indexed, pages, headless, hasRow, row, clockVars, ownVars, dead, narrated, told, mishaps, lost, reopened>>

\* Mutant: the session's newest event is recorded, read or not.
RecordLatest(p) ==
  /\ Is(p, "record")
  /\ hasRow' = TRUE
  /\ row' = [row EXCEPT !.last = Cardinality(logged), !.tier = tier[p],
                        !.attempts = IF tier[p] = "rule-based" THEN @ ELSE 0]
  /\ recent' = TRUE
  /\ since' = {q \in Run : pc[q] # "new"}
  /\ Move(p, IF tier[p] \in {"quiet", "headless"} THEN "release" ELSE "after")
  /\ UNCHANGED <<logged, hooks, indexed, pending, pages, headless, aged, fresh, claimOld, ownVars, dead, ghosts>>

\* record_session_run, with the newest event as it was LISTED.
Record(p) ==
  /\ Is(p, "record")
  /\ hasRow' = TRUE
  /\ row' = [row EXCEPT !.last = newest[p], !.tier = tier[p],
                        !.attempts = IF tier[p] = "rule-based" THEN @ ELSE 0]
  /\ recent' = TRUE
  /\ since' = {q \in Run : pc[q] # "new"}
  /\ Move(p, IF tier[p] \in {"quiet", "headless"} THEN "release" ELSE "after")
  /\ UNCHANGED <<logged, hooks, indexed, pending, pages, headless, aged, fresh, claimOld, ownVars, dead, ghosts>>

\* Synthesis, hubs and the commit.
After(p) ==
  /\ Is(p, "after")
  /\ Move(p, "release")
  /\ UNCHANGED <<logged, hooks, pages, headless, storeVars, clockVars, ownVars, dead, ghosts>>

\* release_session: whoever holds the claim by now.
Release(p) ==
  /\ Is(p, "release")
  /\ FreeClaim(p)
  /\ Move(p, "note")
  /\ UNCHANGED <<logged, hooks, indexed, pending, pages, headless, hasRow, recent, aged, fresh, since, ownVars, dead, settled, narrated, told, lost, reopened>>

\* An error counts, and so does the floor when a model could have answered.
CountsAsFailure(p) == failed[p] \/ (tier[p] = "rule-based" /\ retriable[p] /\ p \notin Idlers)

Note(p) ==
  /\ Is(p, "note")
  /\ IF CountsAsFailure(p)
       THEN /\ hasRow' = TRUE
            /\ row' = [row EXCEPT !.attempts = @ + 1]
            /\ fresh' = {}
       ELSE UNCHANGED <<hasRow, row, fresh>>
  /\ Move(p, "ended")
  /\ UNCHANGED <<logged, hooks, indexed, pending, pages, headless, recent, aged, since, claimOld, ownVars, dead, ghosts>>

(***************************************************************************)
(* Crashes and the clock                                                   *)
(***************************************************************************)
Killed(p) ==
  /\ p \in Mortal \ dead
  /\ pc[p] \notin {"new", "ended"}
  /\ dead' = dead \cup {p}
  /\ UNCHANGED <<logged, hooks, pages, headless, storeVars, clockVars, pc, ownVars, ghosts>>

Debounced ==
  /\ recent /\ recent' = FALSE
  /\ UNCHANGED <<logged, hooks, pages, headless, storeVars, aged, fresh, since, claimOld, pc, ownVars, dead, ghosts>>

EventsAge ==
  /\ aged # logged /\ aged' = logged
  /\ UNCHANGED <<logged, hooks, pages, headless, storeVars, recent, fresh, since, claimOld, pc, ownVars, dead, ghosts>>

ClaimAges ==
  /\ row.claim # Nobody /\ ~claimOld
  /\ SlowRuns \/ row.claim \in dead
  /\ claimOld' = TRUE
  /\ UNCHANGED <<logged, hooks, pages, headless, storeVars, recent, aged, fresh, since, pc, ownVars, dead, ghosts>>

RunStep(p) ==
  \/ Begin(p) \/ CatchUp(p) \/ CatchUpMarks(p) \/ Revive(p) \/ List(p) \/ ListsNothing(p) \/ Gate(p) \/ Claim(p)
  \/ FindsClaimed(p) \/ LeavesSuperseded(p) \/ GoesAhead(p) \/ Read(p) \/ Call(p)
  \/ Errs(p) \/ Append(p) \/ IndexSummary(p) \/ Mark(p) \/ Record(p) \/ After(p)
  \/ Release(p) \/ Note(p)

Next ==
  \/ Capture
  \/ \E e \in Event : HookIndexes(e) \/ HookGivesUp(e)
  \/ \E p \in Run : RunStep(p) \/ Killed(p)
  \/ Debounced \/ EventsAge \/ ClaimAges

Spec == Init /\ [][Next]_vars

(***************************************************************************)
(* Properties                                                              *)
(***************************************************************************)
RowType == [claim : Run \cup {Nobody}, last : Event \cup {0}, tier : Tier, attempts : Nat]
PageType == [links : SUBSET Event, tier : Tier, seen : BOOLEAN]

StoreTypeOK ==
  /\ logged \subseteq Event /\ hooks \subseteq logged
  /\ indexed \subseteq logged /\ pending \subseteq indexed
  /\ pages \subseteq PageType
  /\ headless \in BOOLEAN /\ hasRow \in BOOLEAN
  /\ row \in RowType
  /\ recent \in BOOLEAN /\ aged \subseteq Event /\ fresh \subseteq Event
  /\ since \subseteq Run /\ claimOld \in BOOLEAN

RunTypeOK ==
  /\ pc \in [Run -> Pc]
  /\ newest \in [Run -> Event \cup {0}]
  /\ count \in [Run -> Nat]
  /\ retriable \in [Run -> BOOLEAN]
  /\ got \in [Run -> SUBSET Event]
  /\ tier \in [Run -> Tier]
  /\ failed \in [Run -> BOOLEAN]
  /\ dead \subseteq Run

HistoryTypeOK ==
  /\ settled \subseteq Event /\ narrated \subseteq Event
  /\ told \in [Event -> Nat] /\ mishaps \in Nat
  /\ lost \in BOOLEAN /\ reopened \in BOOLEAN

TypeOK == StoreTypeOK /\ RunTypeOK /\ HistoryTypeOK

\* "The ladder degrades quality, never data": an observation leaves the pending
\* list only once a model-backed summary that links it is in the log, or the
\* session was settled as quiet or one-shot with it. No crash between the
\* model's answer, the log, the index and the marks can lose one.
NothingIsLost ==
  indexed \ pending \subseteq settled \cup Links(ByModel(pages))

\* Each further model narrative of the same observation costs a mishap of its
\* own: a stale claim taken over, another run's claim released or deleted, a
\* settled session reopened by force, an index that refused a summary the log
\* already has or the marks it makes, or a hook that indexed an observation
\* after the run that settled it. Runs that merely overlap, fail elsewhere or
\* are killed elsewhere never pay for one narrative twice.
RetoldOnlyAfterAMishap ==
  \A e \in Event : told[e] <= 1 + mishaps

\* "Take exclusive rights to consolidate one session": no two live runs are
\* between their claim and its release, unless the claim of a live one went
\* stale and was taken, or a forced run deleted it. The unconditional release
\* alone never brings it about.
Works(p) == p \notin dead /\ pc[p] \in {"check", "read", "call", "append", "index",
                                        "mark", "record", "after", "release"}
ClaimIsExclusive == \A p, q \in Run : Works(p) /\ Works(q) => p = q
OnlyALostClaimIsShared == ~lost => ClaimIsExclusive

\* Work that no run will touch however often one is summoned: all runs are
\* over, and the newest pending observation is the one the last run recorded,
\* so should_wait holds it back. An unconsolidated event left like that "makes
\* the backlog permanently stale, so every session opening spawned a run that
\* could never finish the work that summoned it" (the comment in should_wait).
\* It takes an observation that was done and went back on the list: by force,
\* or by a hook that indexed it late.
AllOver == hooks = {} /\ \A p \in Run : pc[p] = "ended" \/ p \in dead
OnlyReopenedWorkIsStranded ==
  AllOver /\ hasRow /\ Newest(row.last, pending) /\ row.tier # "rule-based" => reopened

\* "The floor writes something true rather than nothing, and the events stay
\* unconsolidated so a working CLI redoes this later" (consolidate_session): an
\* observation that went to a model's summary is marked only if a model
\* answered for the chunk it was in.
FlooredStaysPending == indexed \ pending \subseteq settled \cup narrated

\* "A session that was summarized by a model is left alone - forcing it would
\* write the same narrative twice" (the comment on reopen_settled_session):
\* --force puts no observation back on the pending list that a model told.
ForceNeverRetells ==
  [][\A p \in Run : Revive(p) => \A e \in pending' \ pending : told[e] = 0]_vars

\* "Someone else is already on this session. That is the work getting done,
\* not a failure to do it" (drain_project): an attempt is counted against a
\* session only when the run raised an error or wrote the floor's page for it.
OnlyFailuresAreCounted ==
  [][\A p \in Run : Note(p) /\ row'.attempts > row.attempts =>
       failed[p] \/ got[p] # {}]_vars
=============================================================================

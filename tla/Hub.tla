-------------------------------- MODULE Hub --------------------------------
(***************************************************************************)
(* The shared reranker (hub/server.rs, hub/client.rs, hub/endpoint.rs): one *)
(* `brain hub serve` process per data dir, picked by hub.lock, that answers *)
(* one scoring at a time on a socket; and the searches that find it, start  *)
(* it when it is not there, ask an older build to leave, and put up with    *)
(* its death. A hub that leaves gives the endpoint back first and then      *)
(* finishes its work, so two hubs of one data dir can be alive at once.     *)
(*                                                                         *)
(* A hub is numbered in the order of its spawning, a request is one call of *)
(* rerank and one connection, a query is the hash of what is asked. Time is *)
(* a choice: a deadline may pass whenever it is waited for, a spawn window  *)
(* may end at any time; a run is shorter than the minute a wedged hub is    *)
(* skipped and the ten minutes a death counts.                              *)
(* Connections are within their cap, and both sides speak one protocol.     *)
(***************************************************************************)
EXTENDS Integers, FiniteSets, Sequences

CONSTANTS
  MaxHubs,       \* bound on the hubs ever spawned
  Reqs,          \* the calls of rerank
  Query,         \* what they may ask
  QueryOf,       \* what each asks
  Deadly,        \* queries that may kill, or wedge, the model call
  Newer,         \* calls made by the newer of two builds
  CrashLimit,    \* crash records that block a query: 2
  DeathsToLock,  \* DEATHS_TO_LOCK
  MaxMishap,     \* bound on kills from outside, new executables and time passing
  None

Hubs  == 1..MaxHubs
NoHub == 0

ASSUME HubAssumption ==
  /\ MaxHubs \in Nat /\ CrashLimit \in Nat /\ DeathsToLock \in Nat /\ MaxMishap \in Nat
  /\ QueryOf \in [Reqs -> Query] /\ Deadly \subseteq Query /\ Newer \subseteq Reqs
  /\ None \notin Query /\ None \notin Reqs

VARIABLES
  lock,      \* the hub that holds hub.lock
  title,     \* the pid hub.lock reads
  socket,    \* the hub whose socket is at the path
  marker,    \* hub.inflight
  crashes,   \* hub.crashes: records per query
  ready, deaths, wedged,  \* hub.ready, hub.deaths, hub.wedged
  claims,    \* spawn markers of this window, by generation
  spawned,
  main,      \* per hub: where its main thread is
  modern,    \* per hub: it is the newer build
  listening, \* per hub: it has its listener
  retire,    \* per hub: how far begin_retire has come
  queue, worker, work,  \* per hub: its queue, the worker's job, and where the worker is
  pc,        \* per call: where the client is
  known,     \* per call: the pid it last read
  tried,     \* per call: it has a wait_until, and will not spawn again
  at, stage, \* per call: the hub of its connection and where that one's thread is
  bye, byeTo, \* per call: the connection it asked an older hub to retire on
  kills,     \* history: hubs that died scoring a query
  overlap,   \* history: a hub recovered while another was still at work
  mishaps    \* how many there were

endpoint == <<lock, title, socket>>
poison   == <<marker, crashes>>
notes    == <<ready, deaths, wedged>>
spawns   == <<claims, spawned, modern>>
process  == <<main, listening, retire>>
jobs     == <<queue, worker, work>>
client   == <<pc, known, tried>>
conn     == <<at, stage>>
farewell == <<bye, byeTo>>
ghosts   == <<kills, overlap, mishaps>>
vars == <<endpoint, poison, notes, spawns, process, jobs, client, conn, farewell, ghosts>>

Starting == {"starting", "locked", "truncated", "titled", "bound", "recorded"}
Running  == {"serving", "quitting"}
Alive(h) == main[h] \in Starting \cup Running

\* Mutant: the Work is taken when the job is queued.
WorkFromTheQueue == {"waiting", "reply", "turned"}

\* The stages of a connection whose thread holds a Work, and those of a
\* request that was taken: past the check that the hub is not retiring.
WorkStages == {"counted", "taken", "waiting", "reply", "turned"}
OwedStages == {"taken", "waiting", "reply"}

\* Mutant: no Work is held while a goodbye is said.
WorkingOnRequests(h) == {r \in Reqs : at[r] = h /\ stage[r] \in WorkStages}

\* inflight: one Work per request being answered or goodbye being said.
Working(h) == {r \in Reqs : \/ at[r] = h /\ stage[r] \in WorkStages
                            \/ byeTo[r] = h /\ bye[r] \in {"retiring", "ack"}}
Conns(h)   == Working(h) \cup {r \in Reqs : \/ at[r] = h /\ stage[r] \in {"open", "asked"}
                                            \/ at[r] = h /\ stage[r] \in {"answered", "refused"} /\ pc[r] = "asking"
                                            \/ byeTo[r] = h /\ bye[r] = "sent"}

AtWork(h) == main[h] \in Running /\ (Working(h) # {} \/ work[h] # "idle")

Init ==
  /\ lock = NoHub /\ title = NoHub /\ socket = NoHub
  /\ marker = None /\ crashes = [q \in Query |-> 0]
  /\ ready = NoHub /\ deaths = {} /\ wedged = NoHub
  /\ claims = {} /\ spawned = 0
  /\ main = [h \in Hubs |-> "unborn"]
  /\ modern = [h \in Hubs |-> FALSE]
  /\ listening = [h \in Hubs |-> FALSE]
  /\ retire = [h \in Hubs |-> "no"]
  /\ queue = [h \in Hubs |-> <<>>]
  /\ worker = [h \in Hubs |-> None]
  /\ work = [h \in Hubs |-> "idle"]
  /\ pc \in [Reqs -> {"start", "ended"}]  \* some calls are never made
  /\ known = [r \in Reqs |-> NoHub]
  /\ tried = [r \in Reqs |-> FALSE]
  /\ at = [r \in Reqs |-> NoHub]
  /\ stage = [r \in Reqs |-> "none"]
  /\ bye = [r \in Reqs |-> "none"]
  /\ byeTo = [r \in Reqs |-> NoHub]
  /\ kills = [q \in Query |-> 0] /\ overlap = FALSE
  /\ mishaps \in 0..MaxMishap

Mishap         == mishaps < MaxMishap /\ mishaps' = mishaps + 1
Go(r, to)      == pc' = [pc EXCEPT ![r] = to]
Finds(r, h)    == known' = [known EXCEPT ![r] = h]
\* A call that is over forgets what it knew.
EndCall(r)     == Go(r, "ended") /\ Finds(r, NoHub) /\ tried' = [tried EXCEPT ![r] = FALSE]
Step(h, a, b)  == main[h] = a /\ main' = [main EXCEPT ![h] = b]
Stage(r, a, b) == stage[r] = a /\ stage' = [stage EXCEPT ![r] = b]

(* ------------------------- a hub starts, serve() ------------------------ *)

\* lock_with_retry, and the loser that returns at once.
TakeLock(h) ==
  /\ IF lock = NoHub THEN Step(h, "starting", "locked") /\ lock' = h
                     ELSE Step(h, "starting", "lost") /\ UNCHANGED lock
  /\ UNCHANGED <<title, socket, poison, notes, spawns, listening, retire, jobs, client, conn, farewell, ghosts>>

\* set_len(0), then the pid.
Truncate(h) ==
  /\ Step(h, "locked", "truncated")
  /\ title' = NoHub
  /\ UNCHANGED <<lock, socket, poison, notes, spawns, listening, retire, jobs, client, conn, farewell, ghosts>>

WritePid(h) ==
  /\ Step(h, "truncated", "titled")
  /\ title' = h
  /\ UNCHANGED <<lock, socket, poison, notes, spawns, listening, retire, jobs, client, conn, farewell, ghosts>>

\* The lock is ours, so a socket still on disk belongs to a dead hub: it goes,
\* and ours takes the path.
Bind(h) ==
  /\ Step(h, "titled", "bound")
  /\ socket' = h
  /\ listening' = [listening EXCEPT ![h] = TRUE]
  /\ UNCHANGED <<lock, title, poison, notes, spawns, retire, jobs, client, conn, farewell, ghosts>>

\* Poison::recover: one more crash record for the marker found, and then the
\* marker goes; the worker is up after it.
Record(h) ==
  /\ Step(h, "bound", "recorded")
  /\ crashes' = IF marker = None THEN crashes ELSE [crashes EXCEPT ![marker] = @ + 1]
  /\ overlap' = (overlap \/ \E g \in Hubs : AtWork(g))
  /\ UNCHANGED <<endpoint, marker, notes, spawns, listening, retire, jobs, client, conn, farewell, kills, mishaps>>

Unmark(h) ==
  /\ Step(h, "recorded", "serving")
  /\ marker' = None
  /\ UNCHANGED <<endpoint, crashes, notes, spawns, listening, retire, jobs, client, conn, farewell, ghosts>>

(* ----------------------- a hub leaves, begin_retire --------------------- *)

\* tick (and an accept that finds another executable): the main thread
\* retires, for a new executable at any time, for idleness, age or memory only
\* with no connection and no work.
ExeChanged(h) ==
  /\ Mishap
  /\ Step(h, "serving", "quitting")
  /\ retire[h] = "no"
  /\ retire' = [retire EXCEPT ![h] = "flagged"]
  /\ UNCHANGED <<endpoint, poison, notes, spawns, listening, jobs, client, conn, farewell, kills, overlap>>

IdleAgedOrFat(h) ==
  /\ Conns(h) = {}
  /\ Step(h, "serving", "quitting")
  /\ retire[h] = "no"
  /\ retire' = [retire EXCEPT ![h] = "flagged"]
  /\ UNCHANGED <<endpoint, poison, notes, spawns, listening, jobs, client, conn, farewell, ghosts>>

\* Mutant: whoever is not the first waits for the first.
RetireInTurn(r) == LET h == byeTo[r] IN
  /\ bye[r] = "sent" /\ main[h] \in Running
  /\ retire' = IF retire[h] = "no" THEN [retire EXCEPT ![h] = "flagged"] ELSE retire
  /\ bye' = [bye EXCEPT ![r] = "retiring"]
  /\ UNCHANGED <<endpoint, poison, notes, spawns, main, listening, jobs, client, conn, byeTo, ghosts>>

\* A connection's Retire: Work first, then the flag; whoever is not the first
\* to flag has nothing to do but to acknowledge.
Retire(r) == LET h == byeTo[r] IN
  /\ bye[r] = "sent" /\ main[h] \in Running
  /\ IF retire[h] = "no"
       THEN /\ retire' = [retire EXCEPT ![h] = "flagged"]
            /\ bye' = [bye EXCEPT ![r] = "retiring"]
       ELSE bye' = [bye EXCEPT ![r] = "ack"] /\ UNCHANGED retire
  /\ UNCHANGED <<endpoint, poison, notes, spawns, main, listening, jobs, client, conn, byeTo, ghosts>>

\* The path goes first, whatever is there, ...
Unlink(h) ==
  /\ main[h] \in Running /\ retire[h] = "flagged"
  /\ socket' = NoHub
  /\ retire' = [retire EXCEPT ![h] = "unlinked"]
  /\ UNCHANGED <<lock, title, poison, notes, spawns, main, listening, jobs, client, conn, farewell, ghosts>>

\* ... then the lock; the thread that retired the hub goes on.
Release(h) ==
  /\ main[h] \in Running /\ retire[h] = "unlinked"
  /\ lock' = IF lock = h THEN NoHub ELSE lock
  /\ retire' = [retire EXCEPT ![h] = "done"]
  /\ main' = [main EXCEPT ![h] = "serving"]
  /\ bye' = [r \in Reqs |-> IF byeTo[r] = h /\ bye[r] = "retiring" THEN "ack" ELSE bye[r]]
  /\ UNCHANGED <<title, socket, poison, notes, spawns, listening, jobs, client, conn, byeTo, ghosts>>

Acknowledge(r) ==
  /\ bye[r] = "ack" /\ main[byeTo[r]] \in Running
  /\ bye' = [bye EXCEPT ![r] = "done"]
  /\ UNCHANGED <<endpoint, poison, notes, spawns, process, jobs, client, conn, byeTo, ghosts>>

\* The main loop's head when the hub retires: connections never accepted close.
DropListener(h) ==
  /\ main[h] = "serving" /\ retire[h] # "no" /\ listening[h]
  /\ listening' = [listening EXCEPT ![h] = FALSE]
  /\ stage' = [r \in Reqs |-> IF at[r] = h /\ stage[r] = "backlog" THEN "closed" ELSE stage[r]]
  /\ UNCHANGED <<endpoint, poison, notes, spawns, main, retire, jobs, client, at, farewell, ghosts>>

\* A process that ends, well or not: its lock is free, its connections close,
\* its queue is gone; its socket and the marker stay where they are.
End(h, how) ==
  /\ main' = [main EXCEPT ![h] = how]
  /\ lock' = IF lock = h THEN NoHub ELSE lock
  /\ listening' = [listening EXCEPT ![h] = FALSE]
  /\ stage' = [r \in Reqs |->
       IF at[r] # h THEN stage[r]
       ELSE IF stage[r] \in OwedStages THEN "lost"
       ELSE IF stage[r] \in {"answered", "refused"} THEN stage[r] ELSE "closed"]
  /\ bye' = [r \in Reqs |-> IF byeTo[r] = h THEN "done" ELSE bye[r]]
  /\ queue' = [queue EXCEPT ![h] = <<>>]
  /\ worker' = [worker EXCEPT ![h] = None]
  /\ work' = [work EXCEPT ![h] = "idle"]
  /\ UNCHANGED <<title, socket, poison, notes, spawns, retire, client, at, byeTo, overlap>>

\* serve() returns: retiring, and no Work is left.
Exit(h) ==
  /\ main[h] = "serving" /\ retire[h] # "no" /\ ~listening[h]
  /\ Working(h) = {}
  /\ End(h, "left")
  /\ UNCHANGED <<kills, mishaps>>

\* A kill from outside; an endpoint that is refused ends a starting hub too.
Kill(h) ==
  /\ Alive(h)
  /\ End(h, "killed")
  /\ Mishap
  /\ UNCHANGED kills

(* ------------------------ a hub serves: connections --------------------- *)

Accept(r) == LET h == at[r] IN
  /\ Stage(r, "backlog", "open")
  /\ main[h] = "serving" /\ listening[h] /\ retire[h] = "no"
  /\ UNCHANGED <<endpoint, poison, notes, spawns, process, jobs, client, at, farewell, ghosts>>

Served(r) == at[r] # NoHub /\ main[at[r]] \in Running

\* serve_conn reads a Rerank and takes its Work, ...
Count(r) ==
  /\ Stage(r, "asked", "counted")
  /\ Served(r)
  /\ UNCHANGED <<endpoint, poison, notes, spawns, process, jobs, client, at, farewell, ghosts>>

\* ... rerank_request asks whether the hub is retiring, ...
Check(r) ==
  /\ Served(r)
  /\ IF retire[at[r]] = "no" THEN Stage(r, "counted", "taken") ELSE Stage(r, "counted", "turned")
  /\ UNCHANGED <<endpoint, poison, notes, spawns, process, jobs, client, at, farewell, ghosts>>

\* ... and queues the request, unless it has killed a hub too often.
\* Mutant: off by one.
BlockedLate(q) == crashes[q] > CrashLimit

Blocked(q) == crashes[q] >= CrashLimit

Enqueue(r) == LET h == at[r] IN
  /\ Served(r)
  /\ IF Blocked(QueryOf[r])
       THEN Stage(r, "taken", "reply") /\ UNCHANGED queue
       ELSE Stage(r, "taken", "waiting") /\ queue' = [queue EXCEPT ![h] = Append(@, r)]
  /\ UNCHANGED <<endpoint, poison, notes, spawns, process, worker, work, client, at, farewell, ghosts>>

\* The window ends before the worker has started: Busy now, though the worker
\* may have just taken the job up.
WindowEnds(r) == LET h == at[r] IN
  /\ Served(r)
  /\ ~(worker[h] = r /\ work[h] # "taken")
  /\ Stage(r, "waiting", "reply")
  /\ UNCHANGED <<endpoint, poison, notes, spawns, process, jobs, client, at, farewell, ghosts>>

\* The reply is written, and the Work dropped.
Reply(r) ==
  /\ Served(r)
  /\ IF stage[r] = "reply" THEN Stage(r, "reply", "answered") ELSE Stage(r, "turned", "refused")
  /\ UNCHANGED <<endpoint, poison, notes, spawns, process, jobs, client, at, farewell, ghosts>>

(* ------------------------- a hub serves: the worker --------------------- *)

\* First in first out; an expired job is passed over.
TakeNext(h) ==
  /\ main[h] \in Running /\ work[h] = "idle" /\ queue[h] # <<>>
  /\ IF stage[Head(queue[h])] = "waiting"
       THEN /\ worker' = [worker EXCEPT ![h] = Head(queue[h])]
            /\ work' = [work EXCEPT ![h] = "taken"]
       ELSE UNCHANGED <<worker, work>>
  /\ queue' = [queue EXCEPT ![h] = Tail(@)]
  /\ UNCHANGED <<endpoint, poison, notes, spawns, process, client, conn, farewell, ghosts>>

At(h, a, b) == main[h] \in Running /\ work[h] = a /\ work' = [work EXCEPT ![h] = b]

\* started, and hub.inflight is written before the model is called.
Begin(h) ==
  /\ At(h, "taken", "scoring")
  /\ marker' = QueryOf[worker[h]]
  /\ UNCHANGED <<endpoint, crashes, notes, spawns, process, queue, worker, client, conn, farewell, ghosts>>

\* A call that never comes back: it aborts the process, or the watchdog does.
Abort(h) ==
  /\ main[h] \in Running /\ work[h] = "scoring"
  /\ QueryOf[worker[h]] \in Deadly
  /\ kills' = [kills EXCEPT ![QueryOf[worker[h]]] = @ + 1]
  /\ End(h, "killed")
  /\ UNCHANGED mishaps

\* The model answers: hub.inflight goes, and the answer reaches the
\* connection's thread, if it still waits.
Finish(h) == LET r == worker[h] IN
  /\ At(h, "scoring", "idle")
  /\ marker' = None
  /\ worker' = [worker EXCEPT ![h] = None]
  /\ stage' = IF stage[r] = "waiting" THEN [stage EXCEPT ![r] = "reply"] ELSE stage
  /\ UNCHANGED <<endpoint, crashes, notes, spawns, process, queue, client, at, farewell, ghosts>>

(* ----------------------- a search, client.rs: rerank -------------------- *)

\* probe: is there a socket? One that goes away before it is verified, or
\* whose mode is not set yet, makes the endpoint unsafe.
Look(r) ==
  /\ pc[r] \in {"start", "waiting"}
  /\ \/ Go(r, IF socket = NoHub THEN "absent" ELSE "verified") /\ UNCHANGED <<known, tried>>
     \/ socket # NoHub /\ EndCall(r)
  /\ UNCHANGED <<endpoint, poison, notes, spawns, process, jobs, conn, farewell, ghosts>>

\* remaining() is zero, or wait_until has come.
GiveUp(r) ==
  /\ pc[r] \in {"start", "waiting"}
  /\ EndCall(r)
  /\ UNCHANGED <<endpoint, poison, notes, spawns, process, jobs, conn, farewell, ghosts>>

\* holder_pid: the lock, tried shared, is the only proof of life.
HolderPid == IF lock = NoHub THEN NoHub ELSE title

Holder(r) ==
  /\ pc[r] = "verified"
  /\ Finds(r, HolderPid)
  /\ Go(r, IF HolderPid = NoHub THEN "stale" ELSE "known")
  /\ UNCHANGED <<endpoint, poison, notes, spawns, process, jobs, tried, conn, farewell, ghosts>>

\* Mutant: the holder is not looked at again.
JudgeAtOnce(r) ==
  /\ pc[r] = "stale"
  /\ Finds(r, ready)
  /\ Go(r, IF ready # NoHub THEN "charge" ELSE "absent")
  /\ UNCHANGED <<endpoint, poison, notes, spawns, process, jobs, tried, conn, farewell, ghosts>>

\* abnormal_death: a hub that was ready, a socket left, and no holder.
Judge(r) ==
  /\ pc[r] = "stale"
  /\ Finds(r, IF HolderPid = NoHub THEN ready ELSE NoHub)
  /\ Go(r, IF HolderPid = NoHub /\ ready # NoHub THEN "charge" ELSE "absent")
  /\ UNCHANGED <<endpoint, poison, notes, spawns, process, jobs, tried, conn, farewell, ghosts>>

\* note_death: once per pid, and hub.ready goes.
Charge(r) ==
  /\ pc[r] = "charge"
  /\ deaths' = deaths \cup {known[r]}
  /\ ready' = NoHub
  /\ Go(r, "absent") /\ Finds(r, NoHub)
  /\ UNCHANGED <<endpoint, poison, wedged, spawns, process, jobs, tried, conn, farewell, ghosts>>

LockedOut  == Cardinality(deaths) >= DeathsToLock
Generation == socket

\* The first time: not when locked out, nor without an executable; the winner
\* of the claim starts a hub, its own build; and then it waits.
Spawn(r) ==
  /\ pc[r] = "absent" /\ ~tried[r] /\ ~LockedOut
  /\ spawned < MaxHubs /\ Generation \notin claims
  /\ claims' = claims \cup {Generation}
  /\ spawned' = spawned + 1
  /\ modern' = [modern EXCEPT ![spawned + 1] = r \in Newer]
  /\ main' = [main EXCEPT ![spawned + 1] = "starting"]
  /\ tried' = [tried EXCEPT ![r] = TRUE]
  /\ Go(r, "waiting")
  /\ UNCHANGED <<endpoint, poison, notes, listening, retire, jobs, known, conn, farewell, ghosts>>

Await(r) ==
  /\ pc[r] = "absent"
  /\ \/ tried[r]
     \/ ~LockedOut /\ Generation \in claims
  /\ tried' = [tried EXCEPT ![r] = TRUE]
  /\ Go(r, "waiting")
  /\ UNCHANGED <<endpoint, poison, notes, spawns, process, jobs, known, conn, farewell, ghosts>>

SpawnRefused(r) ==
  /\ pc[r] = "absent" /\ ~tried[r]
  /\ EndCall(r)
  /\ UNCHANGED <<endpoint, poison, notes, spawns, process, jobs, conn, farewell, ghosts>>

\* Ten seconds are over: markers have other names.
WindowPasses ==
  /\ claims # {} /\ spawned < MaxHubs
  /\ claims' = {}
  /\ UNCHANGED <<endpoint, poison, notes, spawned, modern, process, jobs, client, conn, farewell, ghosts>>

\* connect goes to whatever is at the path now, if it listens.
Connect(r) ==
  /\ pc[r] = "known"
  /\ IF socket # NoHub /\ listening[socket]
       THEN /\ at' = [at EXCEPT ![r] = socket]
            /\ stage' = [stage EXCEPT ![r] = "backlog"]
            /\ Go(r, "greeting") /\ UNCHANGED <<known, tried>>
       ELSE EndCall(r) /\ UNCHANGED conn
  /\ UNCHANGED <<endpoint, poison, notes, spawns, process, jobs, farewell, ghosts>>

Hello(r) == pc[r] = "greeting" /\ stage[r] = "open"
Older(r) == r \in Newer /\ ~modern[at[r]]
Hangs(r) == stage' = [stage EXCEPT ![r] = "closed"]

\* Welcome by another pid, by a hub lately found wedged, or by one that is
\* still the older build after it was asked to go.
Distrust(r) ==
  /\ Hello(r)
  /\ \/ known[r] # at[r]
     \/ Older(r) /\ bye[r] # "none"
     \/ ~Older(r) /\ wedged = at[r]
  /\ EndCall(r) /\ Hangs(r)
  /\ UNCHANGED <<endpoint, poison, notes, spawns, process, jobs, at, farewell, ghosts>>

\* Once, an older hub is asked to retire; then the endpoint is probed again.
AskToRetire(r) ==
  /\ Hello(r) /\ known[r] = at[r]
  /\ Older(r) /\ bye[r] = "none"
  /\ bye' = [bye EXCEPT ![r] = "sent"]
  /\ byeTo' = [byeTo EXCEPT ![r] = at[r]]
  /\ at' = [at EXCEPT ![r] = NoHub]
  /\ stage' = [stage EXCEPT ![r] = "none"]
  /\ Go(r, "start") /\ Finds(r, NoHub)
  /\ UNCHANGED <<endpoint, poison, notes, spawns, process, jobs, tried, ghosts>>

\* note_ready, and the request goes out.
Ask(r) ==
  /\ Hello(r) /\ known[r] = at[r]
  /\ ~Older(r) /\ wedged # at[r]
  /\ ready' = at[r]
  /\ Stage(r, "open", "asked")
  /\ Go(r, "asking") /\ Finds(r, NoHub)
  /\ UNCHANGED <<endpoint, poison, deaths, wedged, spawns, process, jobs, tried, at, farewell, ghosts>>

\* The answer: an order or Busy also clears the note of a wedged hub.
Hear(r) ==
  /\ pc[r] = "asking" /\ stage[r] \in {"answered", "refused"}
  /\ EndCall(r)
  /\ wedged' \in IF stage[r] = "answered" THEN {wedged, NoHub} ELSE {wedged}
  /\ at' = [at EXCEPT ![r] = NoHub]
  /\ UNCHANGED <<endpoint, poison, ready, deaths, spawns, process, jobs, stage, farewell, ghosts>>

\* Mutant: a connection that closes is noticed before the request only.
DroppedEarly(r) ==
  /\ \/ pc[r] = "greeting" /\ stage[r] \in {"closed", "lost"} /\ UNCHANGED stage
     \/ pc[r] = "greeting" /\ stage[r] \in {"backlog", "open"} /\ Hangs(r)
  /\ EndCall(r)
  /\ UNCHANGED <<endpoint, poison, notes, spawns, process, jobs, at, farewell, ghosts>>

\* The connection closes, or no Welcome comes.
Dropped(r) ==
  /\ \/ pc[r] \in {"greeting", "asking"} /\ stage[r] \in {"closed", "lost"} /\ UNCHANGED stage
     \/ pc[r] = "greeting" /\ stage[r] \in {"backlog", "open"} /\ Hangs(r)
  /\ EndCall(r)
  /\ UNCHANGED <<endpoint, poison, notes, spawns, process, jobs, at, farewell, ghosts>>

\* No reply within the bound of the search: the hub is noted as wedged. Its
\* thread goes on with the request.
TimesOut(r) ==
  /\ pc[r] = "asking" /\ stage[r] \notin {"answered", "refused", "closed", "lost"}
  /\ wedged' = at[r]
  /\ EndCall(r)
  /\ UNCHANGED <<endpoint, poison, ready, deaths, spawns, process, jobs, conn, farewell, ghosts>>

HubNext(h) ==
  \/ TakeLock(h) \/ Truncate(h) \/ WritePid(h) \/ Bind(h) \/ Record(h) \/ Unmark(h)
  \/ ExeChanged(h) \/ IdleAgedOrFat(h) \/ Unlink(h) \/ Release(h) \/ DropListener(h) \/ Exit(h) \/ Kill(h)
  \/ TakeNext(h) \/ Begin(h) \/ Abort(h) \/ Finish(h)

ReqNext(r) ==
  \/ Retire(r) \/ Acknowledge(r)
  \/ Accept(r) \/ Count(r) \/ Check(r) \/ Enqueue(r) \/ WindowEnds(r) \/ Reply(r)
  \/ Look(r) \/ GiveUp(r) \/ Holder(r) \/ Judge(r) \/ Charge(r) \/ Spawn(r) \/ Await(r) \/ SpawnRefused(r)
  \/ Connect(r) \/ Distrust(r) \/ AskToRetire(r) \/ Ask(r) \/ Hear(r) \/ Dropped(r) \/ TimesOut(r)

Next ==
  \/ \E h \in Hubs : HubNext(h)
  \/ \E r \in Reqs : ReqNext(r)
  \/ WindowPasses

Spec == Init /\ [][Next]_vars

(* ------------------------------- properties ----------------------------- *)

FilesTypeOK ==
  /\ lock \in 0..MaxHubs /\ title \in 0..MaxHubs /\ socket \in 0..MaxHubs
  /\ ready \in 0..MaxHubs /\ wedged \in 0..MaxHubs /\ deaths \subseteq Hubs
  /\ marker \in Query \cup {None} /\ crashes \in [Query -> Nat]
  /\ claims \subseteq 0..MaxHubs /\ spawned \in 0..MaxHubs

HubsTypeOK ==
  /\ main \in [Hubs -> Starting \cup Running \cup {"unborn", "lost", "left", "killed"}]
  /\ modern \in [Hubs -> BOOLEAN] /\ listening \in [Hubs -> BOOLEAN]
  /\ retire \in [Hubs -> {"no", "flagged", "unlinked", "done"}]
  /\ queue \in [Hubs -> Seq(Reqs)] /\ worker \in [Hubs -> Reqs \cup {None}]
  /\ work \in [Hubs -> {"idle", "taken", "scoring"}]

CallsTypeOK ==
  /\ pc \in [Reqs -> {"start", "verified", "known", "stale", "charge", "absent", "waiting",
                      "greeting", "asking", "ended"}]
  /\ known \in [Reqs -> 0..MaxHubs] /\ tried \in [Reqs -> BOOLEAN]
  /\ at \in [Reqs -> 0..MaxHubs] /\ byeTo \in [Reqs -> 0..MaxHubs]
  /\ stage \in [Reqs -> WorkStages \cup {"none", "backlog", "open", "asked", "answered", "refused", "closed", "lost"}]
  /\ bye \in [Reqs -> {"none", "sent", "retiring", "ack", "done"}]

HistoryTypeOK == kills \in [Query -> Nat] /\ overlap \in BOOLEAN /\ mishaps \in 0..MaxMishap

TypeOK == FilesTypeOK /\ HubsTypeOK /\ CallsTypeOK /\ HistoryTypeOK

\* A socket at the path belongs to the hub that holds the lock, or to one that
\* was killed: "a clean exit unlinks the socket", and no hub ever unlinks the
\* socket of its successor (begin_retire, serve).
EndpointIsHeld == socket # NoHub => lock = socket \/ main[socket] = "killed"

\* A request that kills the model call kills at most CrashLimit hubs (Poison), as
\* long as no two hubs had hub.inflight in hand at once.
KillsAreLimited == overlap \/ \A q \in Query : kills[q] <= CrashLimit

\* The hub that holds the lock has never been charged with a death: a client
\* that found no holder looks again before it charges the pid of hub.ready
\* (abnormal_death, note_death).
HolderIsNotCharged == lock \notin deaths

\* What a thread of a hub, or of a client, does next.
Starts(h)  == TakeLock(h) \/ Truncate(h) \/ WritePid(h) \/ Bind(h) \/ Record(h) \/ Unmark(h)
Quits(h)   == Unlink(h) \/ Release(h)
Departs(h) == DropListener(h) \/ Exit(h)
Scores(h)  == TakeNext(h) \/ Begin(h) \/ Abort(h) \/ Finish(h)
Retires(r) == Retire(r) \/ Acknowledge(r)
Serves(r)  == Accept(r) \/ Count(r) \/ Check(r) \/ Enqueue(r) \/ WindowEnds(r) \/ Reply(r)
Calls(r)   ==
  \/ Look(r) \/ Holder(r) \/ Judge(r) \/ Charge(r) \/ Spawn(r) \/ Await(r) \/ SpawnRefused(r)
  \/ Connect(r) \/ Distrust(r) \/ AskToRetire(r) \/ Ask(r) \/ Hear(r) \/ Dropped(r) \/ TimesOut(r)

\* Clients' steps and the hubs' threads get on; a deadline that is waited for
\* passes. Nothing makes an executable change or a hub idle, and nothing kills.
Fairness ==
  /\ \A h \in Hubs : WF_vars(Starts(h)) /\ WF_vars(Quits(h)) /\ WF_vars(Departs(h)) /\ WF_vars(Scores(h))
  /\ \A r \in Reqs : WF_vars(Retires(r)) /\ WF_vars(Serves(r)) /\ WF_vars(Calls(r)) /\ SF_vars(GiveUp(r))

LiveSpec == Spec /\ Fairness

\* A hub that began to retire goes away: it does not wait for anything that
\* may never come (serve's loop, rerank_request's timeouts).
RetiringHubsLeave == \A h \in Hubs : retire[h] # "no" ~> main[h] \in {"left", "killed"}

\* A search always comes to an end, whatever becomes of the hub (rerank).
EveryCallEnds == <>(\A r \in Reqs : pc[r] = "ended")

(* What Hub promises is HubContract. *)
HubPhase(h) ==
  CASE main[h] \in Running /\ retire[h] = "no" -> "open"
    [] main[h] \in Running /\ retire[h] # "no" -> "draining"
    [] main[h] \in {"left", "killed"} -> main[h]
    [] OTHER -> "off"

Fate(r) ==
  CASE stage[r] \in OwedStages -> "owed"
    [] stage[r] \in {"answered", "lost"} -> stage[r]
    [] OTHER -> "new"

Contract == INSTANCE HubContract WITH
  phase <- [h \in Hubs |-> HubPhase(h)],
  fate <- [r \in Reqs |-> Fate(r)],
  keeper <- [r \in Reqs |-> IF Fate(r) = "owed" THEN at[r] ELSE None]

\* One hub of a data dir takes requests at a time, and one that leaves by
\* itself has answered every request it took (begin_retire, Work).
ImplementsContract == Contract!CSpec

\* As abnormal_death's comment has it: only a hub that is gone without a clean
\* exit is charged with a death.
OnlyDeathsAreCharged == \A h \in deaths : main[h] # "left" /\ ~(main[h] \in Running)

\* As Poison::recover's comment has it: a crash record means that a hub died
\* with the request in flight.
CrashRecordsAreDeaths == (\A h \in Hubs : main[h] # "killed") => \A q \in Query : crashes[q] = 0
=============================================================================

------------------------------- MODULE MCEnds -------------------------------
(* Model checking of what must come to an end: parts that share no state, of     *)
(* which every behaviour has one while the others are at rest. "lessons": the     *)
(* stores of MCStores, without the moves. "queue": a run among the holders that   *)
(* do not drain as it does - the idle sweep and the compactor - and the run that  *)
(* finish_yield may start. "hub": two calls of one query, by clients of two       *)
(* builds.                                                                        *)
EXTENDS MCLessons, TLC
CONSTANTS a, b, c, d, q, None
VARIABLES
  part,
  lock, title, socket, marker, crashes, ready, deaths, wedged, claims, spawned, main, modern,
  listening, retire, queue, worker, work, client, known, tried, conn, stage, bye, byeTo, kills,
  overlap, hubMishaps,
  lockFile, handle, old, take, statFresh, dead, worn, stolen, open, taken, what, pending, run, ask, req,
  drained, window, yieldFile, why

hubVars == <<lock, title, socket, marker, crashes, ready, deaths, wedged, claims, spawned, main,
             modern, listening, retire, queue, worker, work, client, known, tried, conn, stage, bye,
             byeTo, kills, overlap, hubMishaps>>
queueVars == <<lockFile, handle, old, take, statFresh, dead, worn, stolen, open, taken, what, pending, run,
               ask, req, drained, window, yieldFile, why>>

Reqs       == {a, b}
Newer      == {a}
Query      == {q}
QueryOf    == [r \in Reqs |-> q]
Deadly     == {}
MaxHubs    == 1
CrashLimit == 1
DeathsToLock == 2

TheHub     == INSTANCE Hub WITH pc <- client, at <- conn, mishaps <- hubMishaps

Procs    == {a, b, c, d}
Want     == (a :> "s" @@ b :> "idle sweep" @@ c :> "compactor" @@ d :> "all")
Spare    == {d}
Work     == {"s", "f", "all"}
Sessions == {"s"}
MaxDrain == 1
MayFail  == FALSE
CanAsk   == TRUE
MayOverrun == TRUE

TheQueue     == INSTANCE RunQueue WITH
  Run <- Procs, Mortal <- {}, Wearable <- {}, pc <- run, cur <- ask

MCInit ==
  /\ part \in {"lessons", "hub", "queue"}
  /\ Init /\ (part # "lessons" => ~flag)
  /\ TheHub!Init /\ hubMishaps = 0 /\ \A r \in Reqs : client[r] = "start"
  /\ TheQueue!Init /\ (part # "queue" => pending = {})
  /\ \A p \in Procs : run[p] = IF p \in Spare THEN "unborn" ELSE "new"

MCNext ==
  \/ part = "lessons" /\ Next /\ UNCHANGED <<part, hubVars, queueVars>>
  \/ part = "hub" /\ TheHub!Next /\ UNCHANGED <<part, vars, queueVars>>
  \/ part = "queue" /\ TheQueue!Next /\ UNCHANGED <<part, vars, hubVars>>

all == <<part, vars, hubVars, queueVars>>

\* The fairness of each part, as its module states it.
Lessons == part = "lessons"
Hubbed  == part = "hub"
Queued  == part = "queue"
MCFairness ==
  /\ WF_vars(Lessons /\ Runs) /\ WF_vars(Lessons /\ Starting) /\ WF_vars(Lessons /\ CallAges)
  /\ SF_vars(Lessons /\ GoesOn)
  /\ \A i \in 1..MaxHubs :
       /\ WF_hubVars(Hubbed /\ TheHub!Starts(i)) /\ WF_hubVars(Hubbed /\ TheHub!Quits(i))
       /\ WF_hubVars(Hubbed /\ TheHub!Departs(i)) /\ WF_hubVars(Hubbed /\ TheHub!Scores(i))
  /\ \A r \in Reqs :
       /\ WF_hubVars(Hubbed /\ TheHub!Retires(r)) /\ WF_hubVars(Hubbed /\ TheHub!Serves(r))
       /\ WF_hubVars(Hubbed /\ TheHub!Calls(r)) /\ SF_hubVars(Hubbed /\ TheHub!GiveUp(r))
  /\ \A p \in Procs :
       /\ WF_queueVars(Queued /\ TheQueue!RunStep(p))
       /\ WF_queueVars(Queued /\ TheQueue!Takes(p))

MCSpec == MCInit /\ [][MCNext]_all /\ MCFairness

\* The cleanup comes to an end (pass).
CleanupIsOver == Lessons => CleanupEnds

\* A hub that began to retire goes away, and every search ends (serve, rerank).
RetiringHubsLeave == TheHub!RetiringHubsLeave
EveryCallEnds     == <>(~Hubbed \/ \A r \in Reqs : client[r] = "ended")

\* Every run that started ends (consolidate.rs run).
EveryRunEnds == <>[](~Queued \/ TheQueue!AllEnded)
=============================================================================

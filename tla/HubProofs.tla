------------------------------ MODULE HubProofs ------------------------------
(***************************************************************************)
(* Proofs about the hub, for any number of hubs, calls and queries, and    *)
(* any number of mishaps.                                                  *)
(***************************************************************************)
EXTENDS Hub, TLAPS

\* A worker that is not idle has a job.
HasAJob == \A h \in Hubs : work[h] # "idle" => worker[h] \in Reqs

\* A client about to charge a death has a pid to charge.
HasAPid == \A r \in Reqs : pc[r] = "charge" => known[r] \in Hubs

Typed == TypeOK /\ HasAJob /\ HasAPid

(***************************************************************************)
(* Type correctness                                                        *)
(***************************************************************************)
LEMMA TypedInit == Init => Typed
<1> SUFFICES ASSUME Init PROVE Typed
  OBVIOUS
<1> USE HubAssumption DEF Init, Hubs, NoHub
<1>1. FilesTypeOK
  BY DEF FilesTypeOK
<1>2. HubsTypeOK
  BY DEF HubsTypeOK
<1>3. CallsTypeOK
  BY DEF CallsTypeOK
<1>4. HistoryTypeOK
  <2>1. overlap \in BOOLEAN
    OBVIOUS
  <2>2. kills \in [Query -> Nat] /\ mishaps \in 0..MaxMishap
    OBVIOUS
  <2> QED
    BY <2>1, <2>2 DEF HistoryTypeOK
<1>5. HasAJob /\ HasAPid
  BY DEF HasAJob, HasAPid
<1> QED
  BY <1>1, <1>2, <1>3, <1>4, <1>5 DEF Typed, TypeOK

LEMMA HubStepsKeepTypes ==
  ASSUME Typed, NEW g \in Hubs, HubNext(g)
  PROVE  Typed'
<1> USE HubAssumption DEF Typed, TypeOK, Hubs, NoHub, Starting, Running, WorkStages, OwedStages
<1>1. ASSUME NEW h \in Hubs, TakeLock(h) PROVE Typed'
  <2> USE <1>1 DEF TakeLock, Step, poison, notes, spawns, jobs, client, conn, farewell, ghosts
  <2>1. FilesTypeOK'
    BY DEF FilesTypeOK
  <2>2. HubsTypeOK'
    BY DEF HubsTypeOK
  <2> QED
    BY <2>1, <2>2 DEF Typed, CallsTypeOK, HistoryTypeOK, HasAJob, HasAPid
<1>2. ASSUME NEW h \in Hubs, Truncate(h) PROVE Typed'
  <2> USE <1>2 DEF Truncate, Step, poison, notes, spawns, jobs, client, conn, farewell, ghosts
  <2>1. FilesTypeOK'
    BY DEF FilesTypeOK
  <2>2. HubsTypeOK'
    BY DEF HubsTypeOK
  <2> QED
    BY <2>1, <2>2 DEF Typed, CallsTypeOK, HistoryTypeOK, HasAJob, HasAPid
<1>3. ASSUME NEW h \in Hubs, WritePid(h) PROVE Typed'
  <2> USE <1>3 DEF WritePid, Step, poison, notes, spawns, jobs, client, conn, farewell, ghosts
  <2>1. FilesTypeOK'
    BY DEF FilesTypeOK
  <2>2. HubsTypeOK'
    BY DEF HubsTypeOK
  <2> QED
    BY <2>1, <2>2 DEF Typed, CallsTypeOK, HistoryTypeOK, HasAJob, HasAPid
<1>4. ASSUME NEW h \in Hubs, Bind(h) PROVE Typed'
  <2> USE <1>4 DEF Bind, Step, poison, notes, spawns, jobs, client, conn, farewell, ghosts
  <2>1. FilesTypeOK'
    BY DEF FilesTypeOK
  <2>2. HubsTypeOK'
    BY DEF HubsTypeOK
  <2> QED
    BY <2>1, <2>2 DEF Typed, CallsTypeOK, HistoryTypeOK, HasAJob, HasAPid
<1>5. ASSUME NEW h \in Hubs, Record(h) PROVE Typed'
  <2> USE <1>5 DEF Record, Step, AtWork, endpoint, notes, spawns, jobs, client, conn, farewell
  <2>1. FilesTypeOK'
    BY DEF FilesTypeOK
  <2>2. HubsTypeOK'
    BY DEF HubsTypeOK
  <2>3. HistoryTypeOK'
    BY DEF HistoryTypeOK
  <2> QED
    BY <2>1, <2>2, <2>3 DEF Typed, CallsTypeOK, HasAJob, HasAPid
<1>6. ASSUME NEW h \in Hubs, Unmark(h) PROVE Typed'
  <2> USE <1>6 DEF Unmark, Step, endpoint, notes, spawns, jobs, client, conn, farewell, ghosts
  <2>1. FilesTypeOK'
    BY DEF FilesTypeOK
  <2>2. HubsTypeOK'
    BY DEF HubsTypeOK
  <2> QED
    BY <2>1, <2>2 DEF Typed, CallsTypeOK, HistoryTypeOK, HasAJob, HasAPid
<1>7. ASSUME NEW h \in Hubs, ExeChanged(h) PROVE Typed'
  <2> USE <1>7 DEF ExeChanged, Step, Mishap, endpoint, poison, notes, spawns, jobs, client, conn, farewell
  <2>1. HubsTypeOK'
    BY DEF HubsTypeOK
  <2>2. HistoryTypeOK'
    BY DEF HistoryTypeOK
  <2> QED
    BY <2>1, <2>2 DEF Typed, FilesTypeOK, CallsTypeOK, HasAJob, HasAPid
<1>8. ASSUME NEW h \in Hubs, IdleAgedOrFat(h) PROVE Typed'
  <2> USE <1>8 DEF IdleAgedOrFat, Step, endpoint, poison, notes, spawns, jobs, client, conn, farewell, ghosts
  <2>1. HubsTypeOK'
    BY DEF HubsTypeOK
  <2> QED
    BY <2>1 DEF Typed, FilesTypeOK, CallsTypeOK, HistoryTypeOK, HasAJob, HasAPid
<1>9. ASSUME NEW h \in Hubs, Unlink(h) PROVE Typed'
  <2> USE <1>9 DEF Unlink, poison, notes, spawns, jobs, client, conn, farewell, ghosts
  <2>1. FilesTypeOK'
    BY DEF FilesTypeOK
  <2>2. HubsTypeOK'
    BY DEF HubsTypeOK
  <2> QED
    BY <2>1, <2>2 DEF Typed, CallsTypeOK, HistoryTypeOK, HasAJob, HasAPid
<1>10. ASSUME NEW h \in Hubs, Release(h) PROVE Typed'
  <2> USE <1>10 DEF Release, poison, notes, spawns, jobs, client, conn, ghosts
  <2>1. FilesTypeOK'
    BY DEF FilesTypeOK
  <2>2. HubsTypeOK'
    BY DEF HubsTypeOK
  <2>3. CallsTypeOK'
    BY DEF CallsTypeOK
  <2> QED
    BY <2>1, <2>2, <2>3 DEF Typed, HistoryTypeOK, HasAJob, HasAPid
<1>11. ASSUME NEW h \in Hubs, DropListener(h) PROVE Typed'
  <2> USE <1>11 DEF DropListener, endpoint, poison, notes, spawns, jobs, client, farewell, ghosts
  <2>1. HubsTypeOK'
    BY DEF HubsTypeOK
  <2>2. CallsTypeOK'
    BY DEF CallsTypeOK
  <2> QED
    BY <2>1, <2>2 DEF Typed, FilesTypeOK, HistoryTypeOK, HasAJob, HasAPid
<1>12. ASSUME NEW h \in Hubs, Exit(h) PROVE Typed'
  <2> USE <1>12 DEF Exit, End, poison, notes, spawns, client
  <2>1. FilesTypeOK'
    BY DEF FilesTypeOK
  <2>2. HubsTypeOK'
    BY DEF HubsTypeOK
  <2>3. CallsTypeOK'
    BY DEF CallsTypeOK
  <2>4. HasAJob'
    BY DEF HasAJob, HubsTypeOK
  <2> QED
    BY <2>1, <2>2, <2>3, <2>4 DEF Typed, HistoryTypeOK, HasAPid
<1>13. ASSUME NEW h \in Hubs, Kill(h) PROVE Typed'
  <2> USE <1>13 DEF Kill, Mishap, End, Alive, poison, notes, spawns, client
  <2>1. FilesTypeOK'
    BY DEF FilesTypeOK
  <2>2. HubsTypeOK'
    BY DEF HubsTypeOK
  <2>3. CallsTypeOK'
    BY DEF CallsTypeOK
  <2>4. HistoryTypeOK'
    BY DEF HistoryTypeOK
  <2>5. HasAJob'
    BY DEF HasAJob, HubsTypeOK
  <2> QED
    BY <2>1, <2>2, <2>3, <2>4, <2>5 DEF Typed, HasAPid
<1>14. ASSUME NEW h \in Hubs, TakeNext(h) PROVE Typed'
  <2> USE <1>14 DEF TakeNext, endpoint, poison, notes, spawns, process, client, conn, farewell, ghosts
  <2>1. HubsTypeOK'
    <3>1. queue[h] \in Seq(Reqs) /\ queue[h] # <<>>
      BY DEF HubsTypeOK
    <3>2. Head(queue[h]) \in Reqs /\ Tail(queue[h]) \in Seq(Reqs)
      BY <3>1
    <3>3. worker' \in [Hubs -> Reqs \cup {None}]
      <4>1. worker' = worker \/ worker' = [worker EXCEPT ![h] = Head(queue[h])]
        OBVIOUS
      <4>2. worker \in [Hubs -> Reqs \cup {None}]
        BY DEF HubsTypeOK
      <4> QED
        BY ONLY <3>2, <4>1, <4>2
    <3>5. work' \in [Hubs -> {"idle", "taken", "scoring"}]
      BY <3>2 DEF HubsTypeOK
    <3>4. queue' \in [Hubs -> Seq(Reqs)]
      BY <3>2 DEF HubsTypeOK
    <3> QED
      BY <3>3, <3>4, <3>5 DEF HubsTypeOK
  <2>2. HasAJob'
    BY DEF HasAJob, HubsTypeOK
  <2> QED
    BY <2>1, <2>2 DEF Typed, FilesTypeOK, CallsTypeOK, HistoryTypeOK, HasAPid
<1>15. ASSUME NEW h \in Hubs, Begin(h) PROVE Typed'
  <2> USE <1>15 DEF Begin, At, endpoint, notes, spawns, process, client, conn, farewell, ghosts
  <2>1. FilesTypeOK'
    BY DEF FilesTypeOK, HubsTypeOK, HasAJob
  <2>2. HubsTypeOK'
    BY DEF HubsTypeOK
  <2>3. HasAJob'
    BY DEF HasAJob, HubsTypeOK
  <2> QED
    BY <2>1, <2>2, <2>3 DEF Typed, CallsTypeOK, HistoryTypeOK, HasAPid
<1>16. ASSUME NEW h \in Hubs, Abort(h) PROVE Typed'
  <2> USE <1>16 DEF Abort, End, poison, notes, spawns, client
  <2>1. FilesTypeOK'
    BY DEF FilesTypeOK
  <2>2. HubsTypeOK'
    BY DEF HubsTypeOK
  <2>3. CallsTypeOK'
    BY DEF CallsTypeOK
  <2>4. HistoryTypeOK'
    BY DEF HistoryTypeOK
  <2>5. HasAJob'
    BY DEF HasAJob, HubsTypeOK
  <2> QED
    BY <2>1, <2>2, <2>3, <2>4, <2>5 DEF Typed, HasAPid
<1>17. ASSUME NEW h \in Hubs, Finish(h) PROVE Typed'
  <2> USE <1>17 DEF Finish, At, endpoint, notes, spawns, process, client, farewell, ghosts
  <2>1. FilesTypeOK'
    BY DEF FilesTypeOK
  <2>2. HubsTypeOK'
    BY DEF HubsTypeOK
  <2>3. CallsTypeOK'
    BY DEF CallsTypeOK, HubsTypeOK, HasAJob
  <2>4. HasAJob'
    BY DEF HasAJob, HubsTypeOK
  <2> QED
    BY <2>1, <2>2, <2>3, <2>4 DEF Typed, HistoryTypeOK, HasAPid
<1> QED
  BY <1>1, <1>2, <1>3, <1>4, <1>5, <1>6, <1>7, <1>8, <1>9, <1>10, <1>11, <1>12, <1>13, <1>14, <1>15, <1>16, <1>17 DEF HubNext

LEMMA CallStepsKeepTypes ==
  ASSUME Typed, NEW c \in Reqs, ReqNext(c)
  PROVE  Typed'
<1> USE HubAssumption DEF Typed, TypeOK, Hubs, NoHub, Starting, Running, WorkStages, OwedStages
<1>1. ASSUME NEW r \in Reqs, Retire(r) PROVE Typed'
  <2> USE <1>1 DEF Retire, endpoint, poison, notes, spawns, jobs, client, conn, ghosts
  <2>1. HubsTypeOK'
    BY DEF HubsTypeOK
  <2>2. CallsTypeOK'
    BY DEF CallsTypeOK
  <2> QED
    BY <2>1, <2>2 DEF Typed, FilesTypeOK, HistoryTypeOK, HasAJob, HasAPid
<1>2. ASSUME NEW r \in Reqs, Acknowledge(r) PROVE Typed'
  <2> USE <1>2 DEF Acknowledge, endpoint, poison, notes, spawns, process, jobs, client, conn, ghosts
  <2>1. CallsTypeOK'
    BY DEF CallsTypeOK
  <2> QED
    BY <2>1 DEF Typed, FilesTypeOK, HubsTypeOK, HistoryTypeOK, HasAJob, HasAPid
<1>3. ASSUME NEW r \in Reqs, Accept(r) PROVE Typed'
  <2> USE <1>3 DEF Accept, Stage, endpoint, poison, notes, spawns, process, jobs, client, farewell, ghosts
  <2>1. CallsTypeOK'
    BY DEF CallsTypeOK
  <2> QED
    BY <2>1 DEF Typed, FilesTypeOK, HubsTypeOK, HistoryTypeOK, HasAJob, HasAPid
<1>4. ASSUME NEW r \in Reqs, Count(r) PROVE Typed'
  <2> USE <1>4 DEF Count, Stage, Served, endpoint, poison, notes, spawns, process, jobs, client, farewell, ghosts
  <2>1. CallsTypeOK'
    BY DEF CallsTypeOK
  <2> QED
    BY <2>1 DEF Typed, FilesTypeOK, HubsTypeOK, HistoryTypeOK, HasAJob, HasAPid
<1>5. ASSUME NEW r \in Reqs, Check(r) PROVE Typed'
  <2> USE <1>5 DEF Check, Stage, Served, endpoint, poison, notes, spawns, process, jobs, client, farewell, ghosts
  <2>1. CallsTypeOK'
    BY DEF CallsTypeOK
  <2> QED
    BY <2>1 DEF Typed, FilesTypeOK, HubsTypeOK, HistoryTypeOK, HasAJob, HasAPid
<1>6. ASSUME NEW r \in Reqs, Enqueue(r) PROVE Typed'
  <2> USE <1>6 DEF Enqueue, Stage, Served, Blocked, endpoint, poison, notes, spawns, process, client, farewell, ghosts
  <2>1. HubsTypeOK'
    <3>1. CASE Blocked(QueryOf[r])
      BY <3>1 DEF HubsTypeOK
    <3>2. CASE ~Blocked(QueryOf[r])
      <4>1. at[r] \in Hubs
        BY DEF CallsTypeOK
      <4>2. Append(queue[at[r]], r) \in Seq(Reqs)
        BY <4>1 DEF HubsTypeOK
      <4> QED
        <5>1. queue \in [Hubs -> Seq(Reqs)] /\ queue' = [queue EXCEPT ![at[r]] = Append(queue[at[r]], r)]
          BY <3>2 DEF HubsTypeOK
        <5>2. queue' \in [Hubs -> Seq(Reqs)]
          BY ONLY <4>1, <4>2, <5>1
        <5> QED
          BY <5>2 DEF HubsTypeOK
    <3> QED
      BY <3>1, <3>2
  <2>2. CallsTypeOK'
    BY DEF CallsTypeOK
  <2> QED
    BY <2>1, <2>2 DEF Typed, FilesTypeOK, HistoryTypeOK, HasAJob, HasAPid
<1>7. ASSUME NEW r \in Reqs, WindowEnds(r) PROVE Typed'
  <2> USE <1>7 DEF WindowEnds, Stage, Served, endpoint, poison, notes, spawns, process, jobs, client, farewell, ghosts
  <2>1. CallsTypeOK'
    BY DEF CallsTypeOK
  <2> QED
    BY <2>1 DEF Typed, FilesTypeOK, HubsTypeOK, HistoryTypeOK, HasAJob, HasAPid
<1>8. ASSUME NEW r \in Reqs, Reply(r) PROVE Typed'
  <2> USE <1>8 DEF Reply, Stage, Served, endpoint, poison, notes, spawns, process, jobs, client, farewell, ghosts
  <2>1. CallsTypeOK'
    BY DEF CallsTypeOK
  <2> QED
    BY <2>1 DEF Typed, FilesTypeOK, HubsTypeOK, HistoryTypeOK, HasAJob, HasAPid
<1>9. ASSUME NEW r \in Reqs, Look(r) PROVE Typed'
  <2> USE <1>9 DEF Look, Go, EndCall, Finds, endpoint, poison, notes, spawns, process, jobs, conn, farewell, ghosts
  <2>1. CallsTypeOK'
    <3>1. CASE pc' = [pc EXCEPT ![r] = IF socket = NoHub THEN "absent" ELSE "verified"] /\ UNCHANGED <<known, tried>>
      BY <3>1 DEF CallsTypeOK
    <3>2. CASE EndCall(r)
      BY <3>2 DEF CallsTypeOK
    <3> QED
      BY <3>1, <3>2
  <2>2. HasAPid'
    <3>1. CASE Go(r, IF socket = NoHub THEN "absent" ELSE "verified") /\ UNCHANGED <<known, tried>>
      BY <3>1 DEF HasAPid, CallsTypeOK
    <3>2. CASE EndCall(r)
      BY <3>2 DEF HasAPid, CallsTypeOK
    <3> QED
      BY <3>1, <3>2
  <2> QED
    BY <2>1, <2>2 DEF Typed, FilesTypeOK, HubsTypeOK, HistoryTypeOK, HasAJob
<1>10. ASSUME NEW r \in Reqs, GiveUp(r) PROVE Typed'
  <2> USE <1>10 DEF GiveUp, EndCall, Go, Finds, endpoint, poison, notes, spawns, process, jobs, conn, farewell, ghosts
  <2>1. CallsTypeOK'
    BY DEF CallsTypeOK
  <2>2. HasAPid'
    BY DEF HasAPid
  <2> QED
    BY <2>1, <2>2 DEF Typed, FilesTypeOK, HubsTypeOK, HistoryTypeOK, HasAJob
<1>11. ASSUME NEW r \in Reqs, Holder(r) PROVE Typed'
  <2> USE <1>11 DEF Holder, Go, Finds, HolderPid, endpoint, poison, notes, spawns, process, jobs, conn, farewell, ghosts
  <2>1. CallsTypeOK'
    BY DEF CallsTypeOK, FilesTypeOK
  <2>2. HasAPid'
    BY DEF HasAPid
  <2> QED
    BY <2>1, <2>2 DEF Typed, FilesTypeOK, HubsTypeOK, HistoryTypeOK, HasAJob
<1>12. ASSUME NEW r \in Reqs, Judge(r) PROVE Typed'
  <2> USE <1>12 DEF Judge, Go, Finds, HolderPid, endpoint, poison, notes, spawns, process, jobs, conn, farewell, ghosts
  <2>1. CallsTypeOK'
    BY DEF CallsTypeOK, FilesTypeOK
  <2>2. HasAPid'
    BY DEF HasAPid, CallsTypeOK, FilesTypeOK
  <2> QED
    BY <2>1, <2>2 DEF Typed, FilesTypeOK, HubsTypeOK, HistoryTypeOK, HasAJob
<1>13. ASSUME NEW r \in Reqs, Charge(r) PROVE Typed'
  <2> USE <1>13 DEF Charge, Go, Finds, endpoint, poison, spawns, process, jobs, conn, farewell, ghosts
  <2>1. FilesTypeOK'
    <3>1. known[r] \in Hubs
      BY DEF HasAPid
    <3>2. ready' \in 0..MaxHubs
      OBVIOUS
    <3>3. deaths' \subseteq Hubs
      BY <3>1 DEF FilesTypeOK
    <3> QED
      BY <3>2, <3>3 DEF FilesTypeOK
  <2>2. CallsTypeOK'
    BY DEF CallsTypeOK
  <2>3. HasAPid'
    BY DEF HasAPid, CallsTypeOK
  <2> QED
    BY <2>1, <2>2, <2>3 DEF Typed, HubsTypeOK, HistoryTypeOK, HasAJob
<1>14. ASSUME NEW r \in Reqs, Spawn(r) PROVE Typed'
  <2> USE <1>14 DEF Spawn, Go, LockedOut, Generation, endpoint, poison, notes, jobs, conn, farewell, ghosts
  <2>1. FilesTypeOK'
    BY DEF FilesTypeOK
  <2>2. HubsTypeOK'
    BY DEF HubsTypeOK, FilesTypeOK
  <2>3. CallsTypeOK'
    BY DEF CallsTypeOK
  <2>4. HasAPid'
    BY DEF HasAPid
  <2> QED
    BY <2>1, <2>2, <2>3, <2>4 DEF Typed, HistoryTypeOK, HasAJob
<1>15. ASSUME NEW r \in Reqs, Await(r) PROVE Typed'
  <2> USE <1>15 DEF Await, Go, LockedOut, Generation, endpoint, poison, notes, spawns, process, jobs, conn, farewell, ghosts
  <2>1. CallsTypeOK'
    BY DEF CallsTypeOK
  <2>2. HasAPid'
    BY DEF HasAPid
  <2> QED
    BY <2>1, <2>2 DEF Typed, FilesTypeOK, HubsTypeOK, HistoryTypeOK, HasAJob
<1>16. ASSUME NEW r \in Reqs, SpawnRefused(r) PROVE Typed'
  <2> USE <1>16 DEF SpawnRefused, EndCall, Go, Finds, endpoint, poison, notes, spawns, process, jobs, conn, farewell, ghosts
  <2>1. CallsTypeOK'
    BY DEF CallsTypeOK
  <2>2. HasAPid'
    BY DEF HasAPid
  <2> QED
    BY <2>1, <2>2 DEF Typed, FilesTypeOK, HubsTypeOK, HistoryTypeOK, HasAJob
<1>17. ASSUME NEW r \in Reqs, Connect(r) PROVE Typed'
  <2> USE <1>17 DEF Connect, Go, EndCall, Finds, endpoint, poison, notes, spawns, process, jobs, farewell, ghosts, conn
  <2>1. CallsTypeOK'
    <3>1. CASE socket # NoHub /\ listening[socket]
      BY <3>1 DEF CallsTypeOK, FilesTypeOK
    <3>2. CASE EndCall(r) /\ UNCHANGED conn
      BY <3>2 DEF CallsTypeOK
    <3> QED
      BY <3>1, <3>2
  <2>2. HasAPid'
    <3>1. CASE Go(r, "greeting") /\ UNCHANGED <<known, tried>>
      BY <3>1 DEF HasAPid, CallsTypeOK
    <3>2. CASE EndCall(r)
      BY <3>2 DEF HasAPid, CallsTypeOK
    <3> QED
      BY <3>1, <3>2
  <2> QED
    BY <2>1, <2>2 DEF Typed, FilesTypeOK, HubsTypeOK, HistoryTypeOK, HasAJob
<1>18. ASSUME NEW r \in Reqs, Distrust(r) PROVE Typed'
  <2> USE <1>18 DEF Distrust, EndCall, Hello, Older, Hangs, Go, Finds, endpoint, poison, notes, spawns, process, jobs, farewell, ghosts
  <2>1. CallsTypeOK'
    BY DEF CallsTypeOK
  <2>2. HasAPid'
    BY DEF HasAPid
  <2> QED
    BY <2>1, <2>2 DEF Typed, FilesTypeOK, HubsTypeOK, HistoryTypeOK, HasAJob
<1>19. ASSUME NEW r \in Reqs, AskToRetire(r) PROVE Typed'
  <2> USE <1>19 DEF AskToRetire, Go, Finds, Hello, Older, endpoint, poison, notes, spawns, process, jobs, ghosts
  <2>1. CallsTypeOK'
    BY DEF CallsTypeOK
  <2>2. HasAPid'
    BY DEF HasAPid
  <2> QED
    BY <2>1, <2>2 DEF Typed, FilesTypeOK, HubsTypeOK, HistoryTypeOK, HasAJob
<1>20. ASSUME NEW r \in Reqs, Ask(r) PROVE Typed'
  <2> USE <1>20 DEF Ask, Stage, Go, Finds, Hello, Older, endpoint, poison, spawns, process, jobs, farewell, ghosts
  <2>1. FilesTypeOK'
    BY DEF FilesTypeOK, CallsTypeOK
  <2>2. CallsTypeOK'
    BY DEF CallsTypeOK
  <2>3. HasAPid'
    BY DEF HasAPid
  <2> QED
    BY <2>1, <2>2, <2>3 DEF Typed, HubsTypeOK, HistoryTypeOK, HasAJob
<1>21. ASSUME NEW r \in Reqs, Hear(r) PROVE Typed'
  <2> USE <1>21 DEF Hear, EndCall, Go, Finds, endpoint, poison, spawns, process, jobs, farewell, ghosts
  <2>1. FilesTypeOK'
    BY DEF FilesTypeOK
  <2>2. CallsTypeOK'
    BY DEF CallsTypeOK
  <2>3. HasAPid'
    BY DEF HasAPid
  <2> QED
    BY <2>1, <2>2, <2>3 DEF Typed, HubsTypeOK, HistoryTypeOK, HasAJob
<1>22. ASSUME NEW r \in Reqs, Dropped(r) PROVE Typed'
  <2> USE <1>22 DEF Dropped, EndCall, Hangs, Go, Finds, endpoint, poison, notes, spawns, process, jobs, farewell, ghosts
  <2>1. CallsTypeOK'
    BY DEF CallsTypeOK
  <2>2. HasAPid'
    BY DEF HasAPid
  <2> QED
    BY <2>1, <2>2 DEF Typed, FilesTypeOK, HubsTypeOK, HistoryTypeOK, HasAJob
<1>23. ASSUME NEW r \in Reqs, TimesOut(r) PROVE Typed'
  <2> USE <1>23 DEF TimesOut, EndCall, Go, Finds, endpoint, poison, spawns, process, jobs, conn, farewell, ghosts
  <2>1. FilesTypeOK'
    BY DEF FilesTypeOK, CallsTypeOK
  <2>2. CallsTypeOK'
    BY DEF CallsTypeOK
  <2>3. HasAPid'
    BY DEF HasAPid
  <2> QED
    BY <2>1, <2>2, <2>3 DEF Typed, HubsTypeOK, HistoryTypeOK, HasAJob
<1> QED
  BY <1>1, <1>2, <1>3, <1>4, <1>5, <1>6, <1>7, <1>8, <1>9, <1>10, <1>11, <1>12, <1>13, <1>14, <1>15, <1>16, <1>17, <1>18, <1>19, <1>20, <1>21, <1>22, <1>23 DEF ReqNext

(***************************************************************************)
(* The endpoint                                                            *)
(***************************************************************************)
\* A hub holds the lock from TakeLock to Release.
Holds(h) ==
  \/ main[h] \in {"locked", "truncated", "titled", "bound", "recorded"}
  \/ main[h] \in Running /\ retire[h] # "done"

LockInv == \A h \in Hubs : Holds(h) <=> lock = h

\* A hub that does not run has not begun to retire, unless it is gone; one that
\* is not spawned is unborn.
BornInv == \A h \in Hubs :
  /\ main[h] \notin Running \cup {"left", "killed"} => retire[h] = "no"
  /\ h > spawned => main[h] = "unborn"

\* A hub whose main loop runs while it gives up the endpoint has a connection
\* that does it.
RetireInv == \A h \in Hubs :
  main[h] = "serving" /\ retire[h] \in {"flagged", "unlinked"}
    => \E r \in Reqs : byeTo[r] = h /\ bye[r] = "retiring"

SocketInv == socket # NoHub =>
  \/ main[socket] \in {"bound", "recorded", "killed"}
  \/ main[socket] \in Running /\ retire[socket] \in {"no", "flagged"}

\* A call that looks for a hub has no connection; what a request is owed, a
\* running hub owes it; what is lost, a killed one has lost.
Seeking == {"start", "verified", "known", "stale", "charge", "absent", "waiting"}
ConnInv == \A r \in Reqs :
  /\ pc[r] \in Seeking => stage[r] = "none"
  /\ stage[r] = "none" => at[r] = NoHub
  /\ stage[r] \in OwedStages => at[r] \in Hubs /\ main[at[r]] \in Running
  /\ stage[r] = "lost" => at[r] \in Hubs /\ main[at[r]] = "killed"

EndpointInv == LockInv /\ BornInv /\ RetireInv /\ SocketInv /\ ConnInv

LEMMA EndpointInit == Init => EndpointInv
BY HubAssumption DEF Init, EndpointInv, LockInv, Holds, BornInv, RetireInv, SocketInv, ConnInv, Seeking,
  Hubs, NoHub, Running, OwedStages, WorkStages

LEMMA HubStepsKeepTheEndpoint ==
  ASSUME Typed, EndpointInv, NEW g \in Hubs, HubNext(g)
  PROVE  EndpointInv'
<1> USE HubAssumption DEF Typed, TypeOK, EndpointInv, Hubs, NoHub, Starting, Running, WorkStages, OwedStages
<1>1. ASSUME NEW h \in Hubs, TakeLock(h) PROVE EndpointInv'
  <2> USE <1>1 DEF TakeLock, Step, poison, notes, spawns, jobs, client, conn, farewell, ghosts
  <2>1. LockInv'
    <3>1. CASE lock = NoHub
      BY <3>1 DEF LockInv, Holds, HubsTypeOK, BornInv
    <3>2. CASE lock # NoHub
      BY <3>2 DEF LockInv, Holds, HubsTypeOK
    <3> QED  BY <3>1, <3>2
  <2>2. BornInv'
    BY DEF BornInv, HubsTypeOK
  <2>3. RetireInv'
    <3>1. \E x \in {"locked", "lost"} : main[h] = "starting" /\ main' = [main EXCEPT ![h] = x]
      OBVIOUS
    <3> QED  BY <3>1 DEF RetireInv, HubsTypeOK, CallsTypeOK
  <2>4. SocketInv'
    BY DEF SocketInv, HubsTypeOK, FilesTypeOK
  <2>5. ConnInv'
    <3>1. \E x \in {"locked", "lost"} : main[h] = "starting" /\ main' = [main EXCEPT ![h] = x]
      OBVIOUS
    <3> QED  BY <3>1 DEF ConnInv, Seeking, HubsTypeOK, CallsTypeOK
  <2> QED
    BY <2>1, <2>2, <2>3, <2>4, <2>5
<1>2. ASSUME NEW h \in Hubs, Truncate(h) PROVE EndpointInv'
  <2> USE <1>2 DEF Truncate, Step, poison, notes, spawns, jobs, client, conn, farewell, ghosts
  <2>1. LockInv'
    BY DEF LockInv, Holds, HubsTypeOK, BornInv
  <2>2. BornInv'
    BY DEF BornInv, HubsTypeOK
  <2>3. RetireInv'
    BY DEF RetireInv, HubsTypeOK, CallsTypeOK
  <2>4. SocketInv'
    BY DEF SocketInv, HubsTypeOK, FilesTypeOK
  <2>5. ConnInv'
    BY DEF ConnInv, Seeking, CallsTypeOK, HubsTypeOK
  <2> QED
    BY <2>1, <2>2, <2>3, <2>4, <2>5
<1>3. ASSUME NEW h \in Hubs, WritePid(h) PROVE EndpointInv'
  <2> USE <1>3 DEF WritePid, Step, poison, notes, spawns, jobs, client, conn, farewell, ghosts
  <2>1. LockInv'
    BY DEF LockInv, Holds, HubsTypeOK, BornInv
  <2>2. BornInv'
    BY DEF BornInv, HubsTypeOK
  <2>3. RetireInv'
    BY DEF RetireInv, HubsTypeOK, CallsTypeOK
  <2>4. SocketInv'
    BY DEF SocketInv, HubsTypeOK, FilesTypeOK
  <2>5. ConnInv'
    BY DEF ConnInv, Seeking, CallsTypeOK, HubsTypeOK
  <2> QED
    BY <2>1, <2>2, <2>3, <2>4, <2>5
<1>4. ASSUME NEW h \in Hubs, Bind(h) PROVE EndpointInv'
  <2> USE <1>4 DEF Bind, Step, poison, notes, spawns, jobs, client, conn, farewell, ghosts
  <2>1. LockInv'
    BY DEF LockInv, Holds, HubsTypeOK, BornInv
  <2>2. BornInv'
    BY DEF BornInv, HubsTypeOK
  <2>3. RetireInv'
    BY DEF RetireInv, HubsTypeOK, CallsTypeOK
  <2>4. SocketInv'
    BY DEF SocketInv, HubsTypeOK, FilesTypeOK
  <2>5. ConnInv'
    BY DEF ConnInv, Seeking, CallsTypeOK, HubsTypeOK
  <2> QED
    BY <2>1, <2>2, <2>3, <2>4, <2>5
<1>5. ASSUME NEW h \in Hubs, Record(h) PROVE EndpointInv'
  <2> USE <1>5 DEF Record, Step, AtWork, endpoint, notes, spawns, jobs, client, conn, farewell
  <2>1. LockInv'
    BY DEF LockInv, Holds, HubsTypeOK, BornInv
  <2>2. BornInv'
    BY DEF BornInv, HubsTypeOK
  <2>3. RetireInv'
    BY DEF RetireInv, HubsTypeOK, CallsTypeOK
  <2>4. SocketInv'
    BY DEF SocketInv, HubsTypeOK, FilesTypeOK
  <2>5. ConnInv'
    BY DEF ConnInv, Seeking, CallsTypeOK, HubsTypeOK
  <2> QED
    BY <2>1, <2>2, <2>3, <2>4, <2>5
<1>6. ASSUME NEW h \in Hubs, Unmark(h) PROVE EndpointInv'
  <2> USE <1>6 DEF Unmark, Step, endpoint, notes, spawns, jobs, client, conn, farewell, ghosts
  <2>1. LockInv'
    BY DEF LockInv, Holds, HubsTypeOK, BornInv
  <2>2. BornInv'
    BY DEF BornInv, HubsTypeOK
  <2>3. RetireInv'
    <3>1. retire[h] = "no"
      BY DEF BornInv, HubsTypeOK
    <3>2. ASSUME NEW k \in Hubs, main'[k] = "serving", retire'[k] \in {"flagged", "unlinked"}
          PROVE  \E r \in Reqs : byeTo'[r] = k /\ bye'[r] = "retiring"
      BY <3>1, <3>2 DEF RetireInv, HubsTypeOK
    <3> QED  BY <3>2 DEF RetireInv
  <2>4. SocketInv'
    <3>1. retire[h] = "no"
      BY DEF BornInv, HubsTypeOK
    <3> QED  BY <3>1 DEF SocketInv, HubsTypeOK, FilesTypeOK
  <2>5. ConnInv'
    BY DEF ConnInv, Seeking, CallsTypeOK, HubsTypeOK
  <2> QED
    BY <2>1, <2>2, <2>3, <2>4, <2>5
<1>7. ASSUME NEW h \in Hubs, ExeChanged(h) PROVE EndpointInv'
  <2> USE <1>7 DEF ExeChanged, Step, Mishap, endpoint, poison, notes, spawns, jobs, client, conn, farewell
  <2>1. LockInv'
    BY DEF LockInv, Holds, HubsTypeOK
  <2>2. BornInv'
    BY DEF BornInv, HubsTypeOK
  <2>3. RetireInv'
    BY DEF RetireInv, HubsTypeOK, CallsTypeOK
  <2>4. SocketInv'
    BY DEF SocketInv, HubsTypeOK, FilesTypeOK
  <2>5. ConnInv'
    BY DEF ConnInv, Seeking, CallsTypeOK, HubsTypeOK
  <2> QED
    BY <2>1, <2>2, <2>3, <2>4, <2>5
<1>8. ASSUME NEW h \in Hubs, IdleAgedOrFat(h) PROVE EndpointInv'
  <2> USE <1>8 DEF IdleAgedOrFat, Step, endpoint, poison, notes, spawns, jobs, client, conn, farewell, ghosts
  <2>1. LockInv'
    BY DEF LockInv, Holds, HubsTypeOK
  <2>2. BornInv'
    BY DEF BornInv, HubsTypeOK
  <2>3. RetireInv'
    BY DEF RetireInv, HubsTypeOK, CallsTypeOK
  <2>4. SocketInv'
    BY DEF SocketInv, HubsTypeOK, FilesTypeOK
  <2>5. ConnInv'
    BY DEF ConnInv, Seeking, CallsTypeOK, HubsTypeOK
  <2> QED
    BY <2>1, <2>2, <2>3, <2>4, <2>5
<1>9. ASSUME NEW h \in Hubs, Unlink(h) PROVE EndpointInv'
  <2> USE <1>9 DEF Unlink, poison, notes, spawns, jobs, client, conn, farewell, ghosts
  <2>1. LockInv'
    BY DEF LockInv, Holds, HubsTypeOK
  <2>2. BornInv'
    BY DEF BornInv, HubsTypeOK
  <2>3. RetireInv'
    BY DEF RetireInv, HubsTypeOK, CallsTypeOK
  <2>4. SocketInv'
    BY DEF SocketInv, HubsTypeOK, FilesTypeOK
  <2> QED
    BY <2>1, <2>2, <2>3, <2>4 DEF ConnInv, Seeking
<1>10. ASSUME NEW h \in Hubs, Release(h) PROVE EndpointInv'
  <2> USE <1>10 DEF Release, poison, notes, spawns, jobs, client, conn, ghosts
  <2>1. LockInv'
    BY DEF LockInv, Holds, HubsTypeOK
  <2>2. BornInv'
    BY DEF BornInv, HubsTypeOK
  <2>3. RetireInv'
    BY DEF RetireInv, HubsTypeOK, CallsTypeOK
  <2>4. SocketInv'
    BY DEF SocketInv, HubsTypeOK, FilesTypeOK
  <2>5. ConnInv'
    BY DEF ConnInv, Seeking, CallsTypeOK, HubsTypeOK
  <2> QED
    BY <2>1, <2>2, <2>3, <2>4, <2>5
<1>11. ASSUME NEW h \in Hubs, DropListener(h) PROVE EndpointInv'
  <2> USE <1>11 DEF DropListener, endpoint, poison, notes, spawns, jobs, client, farewell, ghosts
  <2>1. ConnInv'
    BY DEF ConnInv, Seeking, CallsTypeOK, HubsTypeOK
  <2> QED
    BY <2>1 DEF LockInv, Holds, BornInv, RetireInv, SocketInv
<1>12. ASSUME NEW h \in Hubs, Exit(h) PROVE EndpointInv'
  <2> USE <1>12 DEF Exit, End, poison, notes, spawns, client
  <2>1. LockInv'
    BY DEF LockInv, Holds, HubsTypeOK
  <2>2. BornInv'
    BY DEF BornInv, HubsTypeOK
  <2>3. RetireInv'
    BY DEF RetireInv, HubsTypeOK, CallsTypeOK
  <2>4. SocketInv'
    <3>1. ASSUME socket = h PROVE FALSE
      <4>1. retire[h] = "flagged"
        BY <3>1 DEF SocketInv
      <4>2. PICK r \in Reqs : byeTo[r] = h /\ bye[r] = "retiring"
        BY <4>1 DEF RetireInv
      <4> QED  BY <4>2 DEF Working
    <3> QED  BY <3>1 DEF SocketInv, HubsTypeOK, FilesTypeOK
  <2>5. ConnInv'
    BY DEF ConnInv, Seeking, CallsTypeOK, HubsTypeOK, Working, WorkStages
  <2> QED
    BY <2>1, <2>2, <2>3, <2>4, <2>5
<1>13. ASSUME NEW h \in Hubs, Kill(h) PROVE EndpointInv'
  <2> USE <1>13 DEF Kill, Mishap, End, Alive, poison, notes, spawns, client
  <2>1. LockInv'
    BY DEF LockInv, Holds, HubsTypeOK
  <2>2. BornInv'
    BY DEF BornInv, HubsTypeOK
  <2>3. RetireInv'
    BY DEF RetireInv, HubsTypeOK, CallsTypeOK
  <2>4. SocketInv'
    BY DEF SocketInv, HubsTypeOK, FilesTypeOK
  <2>5. ConnInv'
    BY DEF ConnInv, Seeking, CallsTypeOK, HubsTypeOK
  <2> QED
    BY <2>1, <2>2, <2>3, <2>4, <2>5
<1>14. ASSUME NEW h \in Hubs, TakeNext(h) PROVE EndpointInv'
  BY <1>14 DEF TakeNext, endpoint, poison, notes, spawns, process, client, conn, farewell, ghosts, LockInv, Holds, BornInv, RetireInv, SocketInv, ConnInv, Seeking
<1>15. ASSUME NEW h \in Hubs, Begin(h) PROVE EndpointInv'
  BY <1>15 DEF Begin, At, endpoint, notes, spawns, process, client, conn, farewell, ghosts, LockInv, Holds, BornInv, RetireInv, SocketInv, ConnInv, Seeking
<1>16. ASSUME NEW h \in Hubs, Abort(h) PROVE EndpointInv'
  <2> USE <1>16 DEF Abort, End, poison, notes, spawns, client
  <2>1. LockInv'
    BY DEF LockInv, Holds, HubsTypeOK
  <2>2. BornInv'
    BY DEF BornInv, HubsTypeOK
  <2>3. RetireInv'
    BY DEF RetireInv, HubsTypeOK, CallsTypeOK
  <2>4. SocketInv'
    BY DEF SocketInv, HubsTypeOK, FilesTypeOK
  <2>5. ConnInv'
    BY DEF ConnInv, Seeking, CallsTypeOK, HubsTypeOK
  <2> QED
    BY <2>1, <2>2, <2>3, <2>4, <2>5
<1>17. ASSUME NEW h \in Hubs, Finish(h) PROVE EndpointInv'
  <2> USE <1>17 DEF Finish, At, endpoint, notes, spawns, process, client, farewell, ghosts
  <2>1. ConnInv'
    BY DEF ConnInv, Seeking, CallsTypeOK, HubsTypeOK
  <2> QED
    BY <2>1 DEF LockInv, Holds, BornInv, RetireInv, SocketInv
<1> QED
  BY <1>1, <1>2, <1>3, <1>4, <1>5, <1>6, <1>7, <1>8, <1>9, <1>10, <1>11, <1>12, <1>13, <1>14, <1>15, <1>16, <1>17 DEF HubNext

LEMMA CallStepsKeepTheEndpoint ==
  ASSUME Typed, EndpointInv, NEW c \in Reqs, ReqNext(c)
  PROVE  EndpointInv'
<1> USE HubAssumption DEF Typed, TypeOK, EndpointInv, Hubs, NoHub, Starting, Running, WorkStages, OwedStages
<1>1. ASSUME NEW r \in Reqs, Retire(r) PROVE EndpointInv'
  <2> USE <1>1 DEF Retire, endpoint, poison, notes, spawns, jobs, client, conn, ghosts
  <2>1. LockInv'
    <3>1. retire \in [Hubs -> {"no", "flagged", "unlinked", "done"}]
      BY DEF HubsTypeOK
    <3>2. \A k \in Hubs : retire'[k] = "done" <=> retire[k] = "done"
      <4>1. CASE retire[byeTo[r]] = "no"
        BY <3>1, <4>1
      <4>2. CASE retire[byeTo[r]] # "no"
        BY <4>2
      <4> QED  BY <4>1, <4>2
    <3> QED  BY <3>2 DEF LockInv, Holds
  <2>2. BornInv'
    BY DEF BornInv, HubsTypeOK
  <2>3. RetireInv'
    BY DEF RetireInv, HubsTypeOK, CallsTypeOK
  <2>4. SocketInv'
    BY DEF SocketInv, HubsTypeOK, FilesTypeOK
  <2> QED
    BY <2>1, <2>2, <2>3, <2>4 DEF ConnInv, Seeking
<1>2. ASSUME NEW r \in Reqs, Acknowledge(r) PROVE EndpointInv'
  <2> USE <1>2 DEF Acknowledge, endpoint, poison, notes, spawns, process, jobs, client, conn, ghosts
  <2>1. RetireInv'
    BY DEF RetireInv, HubsTypeOK, CallsTypeOK
  <2> QED
    BY <2>1 DEF LockInv, Holds, BornInv, SocketInv, ConnInv, Seeking
<1>3. ASSUME NEW r \in Reqs, Accept(r) PROVE EndpointInv'
  <2> USE <1>3 DEF Accept, Stage, endpoint, poison, notes, spawns, process, jobs, client, farewell, ghosts
  <2>1. ConnInv'
    BY DEF ConnInv, Seeking, CallsTypeOK, HubsTypeOK
  <2> QED
    BY <2>1 DEF LockInv, Holds, BornInv, RetireInv, SocketInv
<1>4. ASSUME NEW r \in Reqs, Count(r) PROVE EndpointInv'
  <2> USE <1>4 DEF Count, Stage, Served, endpoint, poison, notes, spawns, process, jobs, client, farewell, ghosts
  <2>1. ConnInv'
    BY DEF ConnInv, Seeking, CallsTypeOK, HubsTypeOK
  <2> QED
    BY <2>1 DEF LockInv, Holds, BornInv, RetireInv, SocketInv
<1>5. ASSUME NEW r \in Reqs, Check(r) PROVE EndpointInv'
  <2> USE <1>5 DEF Check, Stage, Served, endpoint, poison, notes, spawns, process, jobs, client, farewell, ghosts
  <2>1. ConnInv'
    BY DEF ConnInv, Seeking, CallsTypeOK, HubsTypeOK
  <2> QED
    BY <2>1 DEF LockInv, Holds, BornInv, RetireInv, SocketInv
<1>6. ASSUME NEW r \in Reqs, Enqueue(r) PROVE EndpointInv'
  <2> USE <1>6 DEF Enqueue, Stage, Served, Blocked, endpoint, poison, notes, spawns, process, client, farewell, ghosts
  <2>1. ConnInv'
    BY SMTT(20) DEF ConnInv, Seeking, CallsTypeOK, HubsTypeOK
  <2> QED
    BY <2>1 DEF LockInv, Holds, BornInv, RetireInv, SocketInv
<1>7. ASSUME NEW r \in Reqs, WindowEnds(r) PROVE EndpointInv'
  <2> USE <1>7 DEF WindowEnds, Stage, Served, endpoint, poison, notes, spawns, process, jobs, client, farewell, ghosts
  <2>1. ConnInv'
    BY DEF ConnInv, Seeking, CallsTypeOK, HubsTypeOK
  <2> QED
    BY <2>1 DEF LockInv, Holds, BornInv, RetireInv, SocketInv
<1>8. ASSUME NEW r \in Reqs, Reply(r) PROVE EndpointInv'
  <2> USE <1>8 DEF Reply, Stage, Served, endpoint, poison, notes, spawns, process, jobs, client, farewell, ghosts
  <2>1. ConnInv'
    BY DEF ConnInv, Seeking, CallsTypeOK, HubsTypeOK
  <2> QED
    BY <2>1 DEF LockInv, Holds, BornInv, RetireInv, SocketInv
<1>9. ASSUME NEW r \in Reqs, Look(r) PROVE EndpointInv'
  <2> USE <1>9 DEF Look, Go, EndCall, Finds, endpoint, poison, notes, spawns, process, jobs, conn, farewell, ghosts
  <2>1. ConnInv'
    BY DEF ConnInv, Seeking, CallsTypeOK, HubsTypeOK
  <2> QED
    BY <2>1 DEF LockInv, Holds, BornInv, RetireInv, SocketInv
<1>10. ASSUME NEW r \in Reqs, GiveUp(r) PROVE EndpointInv'
  <2> USE <1>10 DEF GiveUp, EndCall, Go, Finds, endpoint, poison, notes, spawns, process, jobs, conn, farewell, ghosts
  <2>1. ConnInv'
    BY DEF ConnInv, Seeking, CallsTypeOK, HubsTypeOK
  <2> QED
    BY <2>1 DEF LockInv, Holds, BornInv, RetireInv, SocketInv
<1>11. ASSUME NEW r \in Reqs, Holder(r) PROVE EndpointInv'
  <2> USE <1>11 DEF Holder, Go, Finds, HolderPid, endpoint, poison, notes, spawns, process, jobs, conn, farewell, ghosts
  <2>1. ConnInv'
    BY DEF ConnInv, Seeking, CallsTypeOK, HubsTypeOK
  <2> QED
    BY <2>1 DEF LockInv, Holds, BornInv, RetireInv, SocketInv
<1>12. ASSUME NEW r \in Reqs, Judge(r) PROVE EndpointInv'
  <2> USE <1>12 DEF Judge, Go, Finds, HolderPid, endpoint, poison, notes, spawns, process, jobs, conn, farewell, ghosts
  <2>1. ConnInv'
    BY DEF ConnInv, Seeking, CallsTypeOK, HubsTypeOK
  <2> QED
    BY <2>1 DEF LockInv, Holds, BornInv, RetireInv, SocketInv
<1>13. ASSUME NEW r \in Reqs, Charge(r) PROVE EndpointInv'
  <2> USE <1>13 DEF Charge, Go, Finds, endpoint, poison, spawns, process, jobs, conn, farewell, ghosts
  <2>1. ConnInv'
    BY DEF ConnInv, Seeking, CallsTypeOK, HubsTypeOK
  <2> QED
    BY <2>1 DEF LockInv, Holds, BornInv, RetireInv, SocketInv
<1>14. ASSUME NEW r \in Reqs, Spawn(r) PROVE EndpointInv'
  <2> USE <1>14 DEF Spawn, Go, LockedOut, Generation, endpoint, poison, notes, jobs, conn, farewell, ghosts
  <2>1. LockInv'
    BY DEF LockInv, Holds, HubsTypeOK, BornInv, FilesTypeOK
  <2>2. BornInv'
    BY DEF BornInv, HubsTypeOK, FilesTypeOK
  <2>3. RetireInv'
    BY SMTT(20) DEF RetireInv, HubsTypeOK, CallsTypeOK, BornInv, FilesTypeOK
  <2>4. SocketInv'
    BY DEF SocketInv, HubsTypeOK, FilesTypeOK, BornInv
  <2>5. ConnInv'
    <3>1. spawned + 1 \in Hubs /\ main[spawned + 1] = "unborn"
      BY DEF BornInv, FilesTypeOK
    <3>2. \A k \in Hubs : main[k] # "unborn" => main'[k] = main[k]
      BY <3>1 DEF HubsTypeOK
    <3> QED  BY <3>2 DEF ConnInv, Seeking, CallsTypeOK
  <2> QED
    BY <2>1, <2>2, <2>3, <2>4, <2>5
<1>15. ASSUME NEW r \in Reqs, Await(r) PROVE EndpointInv'
  <2> USE <1>15 DEF Await, Go, LockedOut, Generation, endpoint, poison, notes, spawns, process, jobs, conn, farewell, ghosts
  <2>1. ConnInv'
    BY DEF ConnInv, Seeking, CallsTypeOK, HubsTypeOK
  <2> QED
    BY <2>1 DEF LockInv, Holds, BornInv, RetireInv, SocketInv
<1>16. ASSUME NEW r \in Reqs, SpawnRefused(r) PROVE EndpointInv'
  <2> USE <1>16 DEF SpawnRefused, EndCall, Go, Finds, endpoint, poison, notes, spawns, process, jobs, conn, farewell, ghosts
  <2>1. ConnInv'
    BY DEF ConnInv, Seeking, CallsTypeOK, HubsTypeOK
  <2> QED
    BY <2>1 DEF LockInv, Holds, BornInv, RetireInv, SocketInv
<1>17. ASSUME NEW r \in Reqs, Connect(r) PROVE EndpointInv'
  <2> USE <1>17 DEF Connect, Go, EndCall, Finds, endpoint, poison, notes, spawns, process, jobs, farewell, ghosts, conn
  <2>1. ConnInv'
    <3>1. CASE socket # NoHub /\ listening[socket]
      <4>1. /\ at' = [at EXCEPT ![r] = socket]
            /\ stage' = [stage EXCEPT ![r] = "backlog"]
            /\ pc' = [pc EXCEPT ![r] = "greeting"]
            /\ main' = main
        BY <3>1
      <4> QED  BY <3>1, <4>1 DEF ConnInv, Seeking, CallsTypeOK
    <3>2. CASE ~(socket # NoHub /\ listening[socket])
      BY <3>2 DEF ConnInv, Seeking, CallsTypeOK, HubsTypeOK
    <3> QED  BY <3>1, <3>2
  <2> QED
    BY <2>1 DEF LockInv, Holds, BornInv, RetireInv, SocketInv
<1>18. ASSUME NEW r \in Reqs, Distrust(r) PROVE EndpointInv'
  <2> USE <1>18 DEF Distrust, EndCall, Hello, Older, Hangs, Go, Finds, endpoint, poison, notes, spawns, process, jobs, farewell, ghosts
  <2>1. ConnInv'
    BY DEF ConnInv, Seeking, CallsTypeOK, HubsTypeOK
  <2> QED
    BY <2>1 DEF LockInv, Holds, BornInv, RetireInv, SocketInv
<1>19. ASSUME NEW r \in Reqs, AskToRetire(r) PROVE EndpointInv'
  <2> USE <1>19 DEF AskToRetire, Go, Finds, Hello, Older, endpoint, poison, notes, spawns, process, jobs, ghosts
  <2>1. RetireInv'
    BY DEF RetireInv, HubsTypeOK, CallsTypeOK
  <2>2. ConnInv'
    BY DEF ConnInv, Seeking, CallsTypeOK, HubsTypeOK
  <2> QED
    BY <2>1, <2>2 DEF LockInv, Holds, BornInv, SocketInv
<1>20. ASSUME NEW r \in Reqs, Ask(r) PROVE EndpointInv'
  <2> USE <1>20 DEF Ask, Stage, Go, Finds, Hello, Older, endpoint, poison, spawns, process, jobs, farewell, ghosts
  <2>1. ConnInv'
    BY DEF ConnInv, Seeking, CallsTypeOK, HubsTypeOK
  <2> QED
    BY <2>1 DEF LockInv, Holds, BornInv, RetireInv, SocketInv
<1>21. ASSUME NEW r \in Reqs, Hear(r) PROVE EndpointInv'
  <2> USE <1>21 DEF Hear, EndCall, Go, Finds, endpoint, poison, spawns, process, jobs, farewell, ghosts
  <2>1. ConnInv'
    BY DEF ConnInv, Seeking, CallsTypeOK, HubsTypeOK
  <2> QED
    BY <2>1 DEF LockInv, Holds, BornInv, RetireInv, SocketInv
<1>22. ASSUME NEW r \in Reqs, Dropped(r) PROVE EndpointInv'
  <2> USE <1>22 DEF Dropped, EndCall, Hangs, Go, Finds, endpoint, poison, notes, spawns, process, jobs, farewell, ghosts
  <2>1. ConnInv'
    BY DEF ConnInv, Seeking, CallsTypeOK, HubsTypeOK
  <2> QED
    BY <2>1 DEF LockInv, Holds, BornInv, RetireInv, SocketInv
<1>23. ASSUME NEW r \in Reqs, TimesOut(r) PROVE EndpointInv'
  <2> USE <1>23 DEF TimesOut, EndCall, Go, Finds, endpoint, poison, spawns, process, jobs, conn, farewell, ghosts
  <2>1. ConnInv'
    BY DEF ConnInv, Seeking, CallsTypeOK, HubsTypeOK
  <2> QED
    BY <2>1 DEF LockInv, Holds, BornInv, RetireInv, SocketInv
<1> QED
  BY <1>1, <1>2, <1>3, <1>4, <1>5, <1>6, <1>7, <1>8, <1>9, <1>10, <1>11, <1>12, <1>13, <1>14, <1>15, <1>16, <1>17, <1>18, <1>19, <1>20, <1>21, <1>22, <1>23 DEF ReqNext

(***************************************************************************)
(* Who may be charged with a death                                         *)
(***************************************************************************)
\* A hub that has been listening, or is gone.
Past(h) == main[h] \in {"bound", "recorded", "left", "killed"} \cup Running
Gone(h) == Past(h) /\ lock # h

TitleInv  == lock # NoHub /\ main[lock] \notin {"locked", "truncated"} => title = lock
PastInv   == /\ socket # NoHub => Past(socket)
             /\ ready # NoHub => Past(ready)
             /\ \A r \in Reqs : at[r] # NoHub => Past(at[r])
GoneInv   == /\ \A h \in deaths : Gone(h)
             /\ \A r \in Reqs : pc[r] = "charge" => known[r] \in Hubs /\ Gone(known[r])
ChargeInv == TitleInv /\ PastInv /\ GoneInv

LEMMA ChargeInit == Init => ChargeInv
<1> SUFFICES ASSUME Init PROVE ChargeInv
  OBVIOUS
<1>1. lock = NoHub /\ socket = NoHub /\ ready = NoHub /\ deaths = {}
  BY DEF Init
<1>2. \A r \in Reqs : at[r] = NoHub /\ pc[r] # "charge"
  BY DEF Init
<1> QED
  BY <1>1, <1>2 DEF ChargeInv, TitleInv, PastInv, GoneInv

LEMMA HubStepsKeepTheCharge ==
  ASSUME Typed, EndpointInv, ChargeInv, NEW g \in Hubs, HubNext(g)
  PROVE  ChargeInv'
<1> USE HubAssumption DEF Typed, TypeOK, EndpointInv, Hubs, NoHub, Starting, Running, WorkStages, OwedStages, ChargeInv
<1>1. ASSUME NEW h \in Hubs, TakeLock(h) PROVE ChargeInv'
  <2> USE <1>1 DEF TakeLock, Step, poison, notes, spawns, jobs, client, conn, farewell, ghosts
  <2>1. TitleInv'
    BY DEF TitleInv, HubsTypeOK, FilesTypeOK
  <2>2. PastInv'
    <3>1. \A k \in Hubs : Past(k) => Past(k)'
      BY DEF Past, HubsTypeOK, BornInv
    <3> QED  BY <3>1 DEF PastInv, FilesTypeOK, CallsTypeOK
  <2>3. GoneInv'
    <3>1. \A k \in Hubs : Gone(k) => Gone(k)'
      <4>1. CASE lock = NoHub
        BY <4>1 DEF Gone, Past, HubsTypeOK
      <4>2. CASE lock # NoHub
        BY <4>2 DEF Gone, Past, HubsTypeOK
      <4> QED  BY <4>1, <4>2
    <3> QED  BY <3>1 DEF GoneInv, FilesTypeOK
  <2> QED
    BY <2>1, <2>2, <2>3
<1>2. ASSUME NEW h \in Hubs, Truncate(h) PROVE ChargeInv'
  <2> USE <1>2 DEF Truncate, Step, poison, notes, spawns, jobs, client, conn, farewell, ghosts
  <2>1. TitleInv'
    BY DEF TitleInv, HubsTypeOK, FilesTypeOK, LockInv, Holds
  <2>2. PastInv'
    BY DEF PastInv, Past, HubsTypeOK, FilesTypeOK, CallsTypeOK
  <2>3. GoneInv'
    BY DEF GoneInv, Gone, Past, HubsTypeOK, CallsTypeOK, FilesTypeOK
  <2> QED
    BY <2>1, <2>2, <2>3
<1>3. ASSUME NEW h \in Hubs, WritePid(h) PROVE ChargeInv'
  <2> USE <1>3 DEF WritePid, Step, poison, notes, spawns, jobs, client, conn, farewell, ghosts
  <2>1. TitleInv'
    BY DEF TitleInv, HubsTypeOK, FilesTypeOK, LockInv, Holds
  <2>2. PastInv'
    BY DEF PastInv, Past, HubsTypeOK, FilesTypeOK, CallsTypeOK
  <2>3. GoneInv'
    BY DEF GoneInv, Gone, Past, HubsTypeOK, CallsTypeOK, FilesTypeOK
  <2> QED
    BY <2>1, <2>2, <2>3
<1>4. ASSUME NEW h \in Hubs, Bind(h) PROVE ChargeInv'
  <2> USE <1>4 DEF Bind, Step, poison, notes, spawns, jobs, client, conn, farewell, ghosts
  <2>1. TitleInv'
    BY DEF TitleInv, HubsTypeOK, FilesTypeOK
  <2>2. PastInv'
    BY DEF PastInv, Past, HubsTypeOK, FilesTypeOK, CallsTypeOK
  <2>3. GoneInv'
    BY DEF GoneInv, Gone, Past, HubsTypeOK, CallsTypeOK, FilesTypeOK
  <2> QED
    BY <2>1, <2>2, <2>3
<1>5. ASSUME NEW h \in Hubs, Record(h) PROVE ChargeInv'
  <2> USE <1>5 DEF Record, Step, AtWork, endpoint, notes, spawns, jobs, client, conn, farewell
  <2>1. TitleInv'
    BY DEF TitleInv, HubsTypeOK, FilesTypeOK
  <2>2. PastInv'
    BY DEF PastInv, Past, HubsTypeOK, FilesTypeOK, CallsTypeOK
  <2>3. GoneInv'
    <3>1. \A k \in Hubs : Gone(k) => Gone(k)'
      BY DEF Gone, Past, HubsTypeOK
    <3> QED  BY <3>1 DEF GoneInv, FilesTypeOK
  <2> QED
    BY <2>1, <2>2, <2>3
<1>6. ASSUME NEW h \in Hubs, Unmark(h) PROVE ChargeInv'
  <2> USE <1>6 DEF Unmark, Step, endpoint, notes, spawns, jobs, client, conn, farewell, ghosts
  <2>1. TitleInv'
    BY DEF TitleInv, HubsTypeOK, FilesTypeOK
  <2>2. PastInv'
    BY DEF PastInv, Past, HubsTypeOK, FilesTypeOK, CallsTypeOK
  <2>3. GoneInv'
    BY DEF GoneInv, Gone, Past, HubsTypeOK, CallsTypeOK, FilesTypeOK
  <2> QED
    BY <2>1, <2>2, <2>3
<1>7. ASSUME NEW h \in Hubs, ExeChanged(h) PROVE ChargeInv'
  <2> USE <1>7 DEF ExeChanged, Step, Mishap, endpoint, poison, notes, spawns, jobs, client, conn, farewell
  <2>1. TitleInv'
    BY DEF TitleInv, HubsTypeOK, FilesTypeOK
  <2>2. PastInv'
    BY DEF PastInv, Past, HubsTypeOK, FilesTypeOK, CallsTypeOK
  <2>3. GoneInv'
    BY DEF GoneInv, Gone, Past, HubsTypeOK, CallsTypeOK, FilesTypeOK
  <2> QED
    BY <2>1, <2>2, <2>3
<1>8. ASSUME NEW h \in Hubs, IdleAgedOrFat(h) PROVE ChargeInv'
  <2> USE <1>8 DEF IdleAgedOrFat, Step, endpoint, poison, notes, spawns, jobs, client, conn, farewell, ghosts
  <2>1. TitleInv'
    BY DEF TitleInv, HubsTypeOK, FilesTypeOK
  <2>2. PastInv'
    BY DEF PastInv, Past, HubsTypeOK, FilesTypeOK, CallsTypeOK
  <2>3. GoneInv'
    BY DEF GoneInv, Gone, Past, HubsTypeOK, CallsTypeOK, FilesTypeOK
  <2> QED
    BY <2>1, <2>2, <2>3
<1>9. ASSUME NEW h \in Hubs, Unlink(h) PROVE ChargeInv'
  <2> USE <1>9 DEF Unlink, poison, notes, spawns, jobs, client, conn, farewell, ghosts
  <2>1. PastInv'
    BY DEF PastInv, Past, HubsTypeOK, FilesTypeOK, CallsTypeOK
  <2> QED
    BY <2>1 DEF TitleInv, GoneInv, Gone, Past
<1>10. ASSUME NEW h \in Hubs, Release(h) PROVE ChargeInv'
  <2> USE <1>10 DEF Release, poison, notes, spawns, jobs, client, conn, ghosts
  <2>1. TitleInv'
    BY DEF TitleInv, HubsTypeOK, FilesTypeOK
  <2>2. PastInv'
    BY DEF PastInv, Past, HubsTypeOK, FilesTypeOK, CallsTypeOK
  <2>3. GoneInv'
    BY DEF GoneInv, Gone, Past, HubsTypeOK, CallsTypeOK, FilesTypeOK
  <2> QED
    BY <2>1, <2>2, <2>3
<1>11. ASSUME NEW h \in Hubs, DropListener(h) PROVE ChargeInv'
  BY <1>11 DEF DropListener, endpoint, poison, notes, spawns, jobs, client, farewell, ghosts, TitleInv, PastInv, Past, GoneInv, Gone
<1>12. ASSUME NEW h \in Hubs, Exit(h) PROVE ChargeInv'
  <2> USE <1>12 DEF Exit, End, poison, notes, spawns, client
  <2>1. TitleInv'
    BY DEF TitleInv, HubsTypeOK, FilesTypeOK
  <2>2. PastInv'
    BY DEF PastInv, Past, HubsTypeOK, FilesTypeOK, CallsTypeOK
  <2>3. GoneInv'
    BY DEF GoneInv, Gone, Past, HubsTypeOK, CallsTypeOK, FilesTypeOK
  <2> QED
    BY <2>1, <2>2, <2>3
<1>13. ASSUME NEW h \in Hubs, Kill(h) PROVE ChargeInv'
  <2> USE <1>13 DEF Kill, Mishap, End, Alive, poison, notes, spawns, client
  <2>1. TitleInv'
    BY DEF TitleInv, HubsTypeOK, FilesTypeOK
  <2>2. PastInv'
    BY DEF PastInv, Past, HubsTypeOK, FilesTypeOK, CallsTypeOK
  <2>3. GoneInv'
    BY DEF GoneInv, Gone, Past, HubsTypeOK, CallsTypeOK, FilesTypeOK
  <2> QED
    BY <2>1, <2>2, <2>3
<1>14. ASSUME NEW h \in Hubs, TakeNext(h) PROVE ChargeInv'
  BY <1>14 DEF TakeNext, endpoint, poison, notes, spawns, process, client, conn, farewell, ghosts, TitleInv, PastInv, Past, GoneInv, Gone
<1>15. ASSUME NEW h \in Hubs, Begin(h) PROVE ChargeInv'
  BY <1>15 DEF Begin, At, endpoint, notes, spawns, process, client, conn, farewell, ghosts, TitleInv, PastInv, Past, GoneInv, Gone
<1>16. ASSUME NEW h \in Hubs, Abort(h) PROVE ChargeInv'
  <2> USE <1>16 DEF Abort, End, poison, notes, spawns, client
  <2>1. TitleInv'
    BY DEF TitleInv, HubsTypeOK, FilesTypeOK
  <2>2. PastInv'
    BY DEF PastInv, Past, HubsTypeOK, FilesTypeOK, CallsTypeOK
  <2>3. GoneInv'
    BY DEF GoneInv, Gone, Past, HubsTypeOK, CallsTypeOK, FilesTypeOK
  <2> QED
    BY <2>1, <2>2, <2>3
<1>17. ASSUME NEW h \in Hubs, Finish(h) PROVE ChargeInv'
  BY <1>17 DEF Finish, At, endpoint, notes, spawns, process, client, farewell, ghosts, TitleInv, PastInv, Past, GoneInv, Gone
<1> QED
  BY <1>1, <1>2, <1>3, <1>4, <1>5, <1>6, <1>7, <1>8, <1>9, <1>10, <1>11, <1>12, <1>13, <1>14, <1>15, <1>16, <1>17 DEF HubNext

LEMMA CallStepsKeepTheCharge ==
  ASSUME Typed, EndpointInv, ChargeInv, NEW call \in Reqs, ReqNext(call)
  PROVE  ChargeInv'
<1> USE HubAssumption DEF Typed, TypeOK, EndpointInv, Hubs, NoHub, Starting, Running, WorkStages, OwedStages, ChargeInv
<1>1. ASSUME NEW r \in Reqs, Retire(r) PROVE ChargeInv'
  BY <1>1 DEF Retire, endpoint, poison, notes, spawns, jobs, client, conn, ghosts, TitleInv, PastInv, Past, GoneInv, Gone
<1>2. ASSUME NEW r \in Reqs, Acknowledge(r) PROVE ChargeInv'
  BY <1>2 DEF Acknowledge, endpoint, poison, notes, spawns, process, jobs, client, conn, ghosts, TitleInv, PastInv, Past, GoneInv, Gone
<1>3. ASSUME NEW r \in Reqs, Accept(r) PROVE ChargeInv'
  BY <1>3 DEF Accept, Stage, endpoint, poison, notes, spawns, process, jobs, client, farewell, ghosts, TitleInv, PastInv, Past, GoneInv, Gone
<1>4. ASSUME NEW r \in Reqs, Count(r) PROVE ChargeInv'
  BY <1>4 DEF Count, Stage, Served, endpoint, poison, notes, spawns, process, jobs, client, farewell, ghosts, TitleInv, PastInv, Past, GoneInv, Gone
<1>5. ASSUME NEW r \in Reqs, Check(r) PROVE ChargeInv'
  BY <1>5 DEF Check, Stage, Served, endpoint, poison, notes, spawns, process, jobs, client, farewell, ghosts, TitleInv, PastInv, Past, GoneInv, Gone
<1>6. ASSUME NEW r \in Reqs, Enqueue(r) PROVE ChargeInv'
  BY <1>6 DEF Enqueue, Stage, Served, Blocked, endpoint, poison, notes, spawns, process, client, farewell, ghosts, TitleInv, PastInv, Past, GoneInv, Gone
<1>7. ASSUME NEW r \in Reqs, WindowEnds(r) PROVE ChargeInv'
  BY <1>7 DEF WindowEnds, Stage, Served, endpoint, poison, notes, spawns, process, jobs, client, farewell, ghosts, TitleInv, PastInv, Past, GoneInv, Gone
<1>8. ASSUME NEW r \in Reqs, Reply(r) PROVE ChargeInv'
  BY <1>8 DEF Reply, Stage, Served, endpoint, poison, notes, spawns, process, jobs, client, farewell, ghosts, TitleInv, PastInv, Past, GoneInv, Gone
<1>9. ASSUME NEW r \in Reqs, Look(r) PROVE ChargeInv'
  <2> USE <1>9 DEF Look, Go, EndCall, Finds, endpoint, poison, notes, spawns, process, jobs, conn, farewell, ghosts
  <2>1. \A q \in Reqs : pc'[q] = "charge" => pc[q] = "charge" /\ known'[q] = known[q]
    BY DEF CallsTypeOK
  <2>2. UNCHANGED <<lock, main, deaths>>
    OBVIOUS
  <2>3. GoneInv'
    BY <2>1, <2>2 DEF GoneInv, Gone, Past
  <2> QED
    BY <2>3 DEF TitleInv, PastInv, Past
<1>10. ASSUME NEW r \in Reqs, GiveUp(r) PROVE ChargeInv'
  <2> USE <1>10 DEF GiveUp, EndCall, Go, Finds, endpoint, poison, notes, spawns, process, jobs, conn, farewell, ghosts
  <2>1. GoneInv'
    BY DEF GoneInv, Gone, Past, HubsTypeOK, CallsTypeOK, FilesTypeOK
  <2> QED
    BY <2>1 DEF TitleInv, PastInv, Past
<1>11. ASSUME NEW r \in Reqs, Holder(r) PROVE ChargeInv'
  <2> USE <1>11 DEF Holder, Go, Finds, HolderPid, endpoint, poison, notes, spawns, process, jobs, conn, farewell, ghosts
  <2>1. GoneInv'
    BY DEF GoneInv, Gone, Past, HubsTypeOK, CallsTypeOK, FilesTypeOK
  <2> QED
    BY <2>1 DEF TitleInv, PastInv, Past
<1>12. ASSUME NEW r \in Reqs, Judge(r) PROVE ChargeInv'
  <2> USE <1>12 DEF Judge, Go, Finds, HolderPid, endpoint, poison, notes, spawns, process, jobs, conn, farewell, ghosts
  <2>1. GoneInv'
    BY SMTT(20) DEF GoneInv, Gone, Past, HubsTypeOK, CallsTypeOK, FilesTypeOK, PastInv, TitleInv, LockInv, Holds
  <2> QED
    BY <2>1 DEF TitleInv, PastInv, Past
<1>13. ASSUME NEW r \in Reqs, Charge(r) PROVE ChargeInv'
  <2> USE <1>13 DEF Charge, Go, Finds, endpoint, poison, spawns, process, jobs, conn, farewell, ghosts
  <2>1. PastInv'
    BY DEF PastInv, Past, HubsTypeOK, FilesTypeOK, CallsTypeOK
  <2>2. GoneInv'
    BY SMTT(20) DEF GoneInv, Gone, Past, HubsTypeOK, CallsTypeOK, FilesTypeOK
  <2> QED
    BY <2>1, <2>2 DEF TitleInv
<1>14. ASSUME NEW r \in Reqs, Spawn(r) PROVE ChargeInv'
  <2> USE <1>14 DEF Spawn, Go, LockedOut, Generation, endpoint, poison, notes, jobs, conn, farewell, ghosts
  <2>1. TitleInv'
    BY DEF TitleInv, HubsTypeOK, FilesTypeOK, BornInv, LockInv, Holds
  <2>2. PastInv'
    <3>1. spawned + 1 \in Hubs /\ main[spawned + 1] = "unborn"
      BY DEF BornInv, FilesTypeOK
    <3>2. \A k \in Hubs : Past(k) => Past(k)'
      BY <3>1 DEF Gone, Past, HubsTypeOK
    <3> QED  BY <3>2 DEF PastInv, FilesTypeOK, CallsTypeOK
  <2>3. GoneInv'
    <3>1. spawned + 1 \in Hubs /\ main[spawned + 1] = "unborn"
      BY DEF BornInv, FilesTypeOK
    <3>2. \A k \in Hubs : Gone(k) => Gone(k)'
      BY <3>1 DEF Gone, Past, HubsTypeOK
    <3>3. \A c \in Reqs : pc'[c] = "charge" => pc[c] = "charge"
      BY DEF CallsTypeOK
    <3> QED  BY <3>2, <3>3 DEF GoneInv, FilesTypeOK
  <2> QED
    BY <2>1, <2>2, <2>3
<1>15. ASSUME NEW r \in Reqs, Await(r) PROVE ChargeInv'
  <2> USE <1>15 DEF Await, Go, LockedOut, Generation, endpoint, poison, notes, spawns, process, jobs, conn, farewell, ghosts
  <2>1. GoneInv'
    BY DEF GoneInv, Gone, Past, HubsTypeOK, CallsTypeOK, FilesTypeOK
  <2> QED
    BY <2>1 DEF TitleInv, PastInv, Past
<1>16. ASSUME NEW r \in Reqs, SpawnRefused(r) PROVE ChargeInv'
  <2> USE <1>16 DEF SpawnRefused, EndCall, Go, Finds, endpoint, poison, notes, spawns, process, jobs, conn, farewell, ghosts
  <2>1. GoneInv'
    BY DEF GoneInv, Gone, Past, HubsTypeOK, CallsTypeOK, FilesTypeOK
  <2> QED
    BY <2>1 DEF TitleInv, PastInv, Past
<1>17. ASSUME NEW r \in Reqs, Connect(r) PROVE ChargeInv'
  <2> USE <1>17 DEF Connect, Go, EndCall, Finds, endpoint, poison, notes, spawns, process, jobs, farewell, ghosts, conn
  <2>1. PastInv'
    <3>1. CASE socket # NoHub /\ listening[socket]
      <4>1. at' = [at EXCEPT ![r] = socket] /\ main' = main
        BY <3>1
      <4> QED  BY <3>1, <4>1 DEF PastInv, Past, FilesTypeOK, CallsTypeOK
    <3>2. CASE ~(socket # NoHub /\ listening[socket])
      BY <3>2 DEF PastInv, Past
    <3> QED  BY <3>1, <3>2
  <2>2. GoneInv'
    <3>1. CASE socket # NoHub /\ listening[socket]
      <4>1. pc' = [pc EXCEPT ![r] = "greeting"] /\ main' = main /\ known' = known
        BY <3>1
      <4> QED  BY <3>1, <4>1 DEF GoneInv, Gone, Past, CallsTypeOK
    <3>2. CASE ~(socket # NoHub /\ listening[socket])
      BY <3>2 DEF GoneInv, Gone, Past, CallsTypeOK
    <3> QED  BY <3>1, <3>2
  <2> QED
    BY <2>1, <2>2 DEF TitleInv
<1>18. ASSUME NEW r \in Reqs, Distrust(r) PROVE ChargeInv'
  <2> USE <1>18 DEF Distrust, EndCall, Hello, Older, Hangs, Go, Finds, endpoint, poison, notes, spawns, process, jobs, farewell, ghosts
  <2>1. GoneInv'
    BY DEF GoneInv, Gone, Past, HubsTypeOK, CallsTypeOK, FilesTypeOK
  <2> QED
    BY <2>1 DEF TitleInv, PastInv, Past
<1>19. ASSUME NEW r \in Reqs, AskToRetire(r) PROVE ChargeInv'
  <2> USE <1>19 DEF AskToRetire, Go, Finds, Hello, Older, endpoint, poison, notes, spawns, process, jobs, ghosts
  <2>1. PastInv'
    BY DEF PastInv, Past, HubsTypeOK, FilesTypeOK, CallsTypeOK
  <2>2. GoneInv'
    BY DEF GoneInv, Gone, Past, HubsTypeOK, CallsTypeOK, FilesTypeOK
  <2> QED
    BY <2>1, <2>2 DEF TitleInv
<1>20. ASSUME NEW r \in Reqs, Ask(r) PROVE ChargeInv'
  <2> USE <1>20 DEF Ask, Stage, Go, Finds, Hello, Older, endpoint, poison, spawns, process, jobs, farewell, ghosts
  <2>1. PastInv'
    BY DEF PastInv, Past, HubsTypeOK, FilesTypeOK, CallsTypeOK
  <2>2. GoneInv'
    BY DEF GoneInv, Gone, Past, HubsTypeOK, CallsTypeOK, FilesTypeOK
  <2> QED
    BY <2>1, <2>2 DEF TitleInv
<1>21. ASSUME NEW r \in Reqs, Hear(r) PROVE ChargeInv'
  <2> USE <1>21 DEF Hear, EndCall, Go, Finds, endpoint, poison, spawns, process, jobs, farewell, ghosts
  <2>1. PastInv'
    BY DEF PastInv, Past, HubsTypeOK, FilesTypeOK, CallsTypeOK
  <2>2. GoneInv'
    BY DEF GoneInv, Gone, Past, HubsTypeOK, CallsTypeOK, FilesTypeOK
  <2> QED
    BY <2>1, <2>2 DEF TitleInv
<1>22. ASSUME NEW r \in Reqs, Dropped(r) PROVE ChargeInv'
  <2> USE <1>22 DEF Dropped, EndCall, Hangs, Go, Finds, endpoint, poison, notes, spawns, process, jobs, farewell, ghosts
  <2>1. GoneInv'
    BY DEF GoneInv, Gone, Past, HubsTypeOK, CallsTypeOK, FilesTypeOK
  <2> QED
    BY <2>1 DEF TitleInv, PastInv, Past
<1>23. ASSUME NEW r \in Reqs, TimesOut(r) PROVE ChargeInv'
  <2> USE <1>23 DEF TimesOut, EndCall, Go, Finds, endpoint, poison, spawns, process, jobs, conn, farewell, ghosts
  <2>1. GoneInv'
    BY DEF GoneInv, Gone, Past, HubsTypeOK, CallsTypeOK, FilesTypeOK
  <2> QED
    BY <2>1 DEF TitleInv, PastInv, Past
<1> QED
  BY <1>1, <1>2, <1>3, <1>4, <1>5, <1>6, <1>7, <1>8, <1>9, <1>10, <1>11, <1>12, <1>13, <1>14, <1>15, <1>16, <1>17, <1>18, <1>19, <1>20, <1>21, <1>22, <1>23 DEF ReqNext

(***************************************************************************)
(* Every step is a step of the contract, or one it does not see            *)
(***************************************************************************)
Quiet ==
  /\ \A g \in Hubs : HubPhase(g)' = HubPhase(g)
  /\ \A c \in Reqs : Fate(c)' = Fate(c) /\ (Fate(c) = "owed" => at'[c] = at[c])

LEMMA QuietIsAStutter == Quiet => UNCHANGED Contract!cvars
BY DEF Quiet, Contract!cvars

LEMMA InitMeetsTheContract == Init => Contract!CInit
BY HubAssumption DEF Init, Contract!CInit, HubPhase, Fate, Running, OwedStages

LEMMA HubStepsKeepTheContract ==
  ASSUME Typed, EndpointInv, NEW hub \in Hubs, HubNext(hub)
  PROVE  Contract!CNext \/ Quiet
<1> USE HubAssumption DEF Typed, TypeOK, EndpointInv, Hubs, NoHub, Starting, Running, WorkStages, OwedStages
<1>1. ASSUME NEW h \in Hubs, TakeLock(h) PROVE Contract!CNext \/ Quiet
  <2>1. \E x \in {"locked", "lost"} : main[h] = "starting" /\ main' = [main EXCEPT ![h] = x]
    BY <1>1 DEF TakeLock, Step
  <2>2. UNCHANGED <<retire, at, stage>>
    BY <1>1 DEF TakeLock, Step, process, conn
  <2> QED  BY <2>1, <2>2 DEF Quiet, HubPhase, Fate, HubsTypeOK
<1>2. ASSUME NEW h \in Hubs, Truncate(h) PROVE Contract!CNext \/ Quiet
  BY <1>2 DEF Truncate, Step, poison, notes, spawns, jobs, client, conn, farewell, ghosts, Quiet, HubPhase, Fate, HubsTypeOK, CallsTypeOK
<1>3. ASSUME NEW h \in Hubs, WritePid(h) PROVE Contract!CNext \/ Quiet
  BY <1>3 DEF WritePid, Step, poison, notes, spawns, jobs, client, conn, farewell, ghosts, Quiet, HubPhase, Fate, HubsTypeOK, CallsTypeOK
<1>4. ASSUME NEW h \in Hubs, Bind(h) PROVE Contract!CNext \/ Quiet
  BY <1>4 DEF Bind, Step, poison, notes, spawns, jobs, client, conn, farewell, ghosts, Quiet, HubPhase, Fate, HubsTypeOK, CallsTypeOK
<1>5. ASSUME NEW h \in Hubs, Record(h) PROVE Contract!CNext \/ Quiet
  BY <1>5 DEF Record, Step, AtWork, endpoint, notes, spawns, jobs, client, conn, farewell, Quiet, HubPhase, Fate, HubsTypeOK, CallsTypeOK
<1>6. ASSUME NEW h \in Hubs, Unmark(h) PROVE Contract!CNext \/ Quiet
  <2>1. HubPhase(h) = "off"
    BY <1>6 DEF Unmark, Step, HubPhase
  <2>2. \A g \in Hubs : HubPhase(g) # "open"
    <3>1. lock = h
      BY <1>6 DEF Unmark, Step, LockInv, Holds
    <3>2. ASSUME NEW g \in Hubs, HubPhase(g) = "open" PROVE FALSE
      <4>1. main[g] \in Running /\ retire[g] = "no"
        BY <3>2 DEF HubPhase
      <4>2. g = h
        BY <3>1, <4>1 DEF LockInv, Holds
      <4> QED  BY <2>1, <3>2, <4>2
    <3> QED  BY <3>2
  <2>3. retire[h] = "no"
    BY <1>6 DEF Unmark, Step, BornInv
  <2>4. \A g \in Hubs : HubPhase(g)' = IF g = h THEN "open" ELSE HubPhase(g)
    BY <1>6, <2>3 DEF Unmark, Step, endpoint, notes, spawns, jobs, client, conn, farewell, ghosts, HubPhase, HubsTypeOK
  <2>5. UNCHANGED <<at, stage>>
    BY <1>6 DEF Unmark, conn
  <2>6. Contract!Open(h)
    BY <2>1, <2>2, <2>4, <2>5 DEF Contract!Open, Fate
  <2> QED  BY <2>6 DEF Contract!CNext
<1>7. ASSUME NEW h \in Hubs, ExeChanged(h) PROVE Contract!CNext \/ Quiet
  <2>1. HubPhase(h) = "open"
    BY <1>7 DEF ExeChanged, Step, Mishap, endpoint, poison, notes, spawns, jobs, client, conn, farewell, HubPhase
  <2>2. \A g \in Hubs : HubPhase(g)' = IF g = h THEN "draining" ELSE HubPhase(g)
    BY <1>7 DEF ExeChanged, Step, Mishap, endpoint, poison, notes, spawns, jobs, client, conn, farewell, HubPhase, HubsTypeOK
  <2>3. UNCHANGED <<at, stage>>
    BY <1>7 DEF ExeChanged, Step, Mishap, endpoint, poison, notes, spawns, jobs, client, conn, farewell
  <2>4. Contract!Close(h)
    BY <2>1, <2>2, <2>3 DEF Contract!Close, Fate
  <2> QED  BY <2>4 DEF Contract!CNext
<1>8. ASSUME NEW h \in Hubs, IdleAgedOrFat(h) PROVE Contract!CNext \/ Quiet
  <2>1. HubPhase(h) = "open"
    BY <1>8 DEF IdleAgedOrFat, Step, endpoint, poison, notes, spawns, jobs, client, conn, farewell, ghosts, HubPhase
  <2>2. \A g \in Hubs : HubPhase(g)' = IF g = h THEN "draining" ELSE HubPhase(g)
    BY <1>8 DEF IdleAgedOrFat, Step, endpoint, poison, notes, spawns, jobs, client, conn, farewell, ghosts, HubPhase, HubsTypeOK
  <2>3. UNCHANGED <<at, stage>>
    BY <1>8 DEF IdleAgedOrFat, Step, endpoint, poison, notes, spawns, jobs, client, conn, farewell, ghosts
  <2>4. Contract!Close(h)
    BY <2>1, <2>2, <2>3 DEF Contract!Close, Fate
  <2> QED  BY <2>4 DEF Contract!CNext
<1>9. ASSUME NEW h \in Hubs, Unlink(h) PROVE Contract!CNext \/ Quiet
  BY <1>9 DEF Unlink, poison, notes, spawns, jobs, client, conn, farewell, ghosts, Quiet, HubPhase, Fate, HubsTypeOK, CallsTypeOK
<1>10. ASSUME NEW h \in Hubs, Release(h) PROVE Contract!CNext \/ Quiet
  BY <1>10 DEF Release, poison, notes, spawns, jobs, client, conn, ghosts, Quiet, HubPhase, Fate, HubsTypeOK, CallsTypeOK
<1>11. ASSUME NEW h \in Hubs, DropListener(h) PROVE Contract!CNext \/ Quiet
  BY <1>11 DEF DropListener, endpoint, poison, notes, spawns, jobs, client, farewell, ghosts, Quiet, HubPhase, Fate, HubsTypeOK, CallsTypeOK
<1>12. ASSUME NEW h \in Hubs, Exit(h) PROVE Contract!CNext \/ Quiet
  <2>1. HubPhase(h) = "draining"
    BY <1>12 DEF Exit, HubPhase
  <2>2. \A g \in Hubs : HubPhase(g)' = IF g = h THEN "left" ELSE HubPhase(g)
    BY <1>12 DEF Exit, End, HubPhase, HubsTypeOK
  <2>3. \A c \in Reqs : ~(at[c] = h /\ stage[c] \in OwedStages)
    BY <1>12 DEF Exit, Working
  <2>4. UNCHANGED at
    BY <1>12 DEF Exit, End
  <2>5. \A c \in Reqs : Fate(c)' = Fate(c)
    BY <1>12, <2>3 DEF Exit, End, Fate, ConnInv
  <2>6. Contract!Leave(h)
    BY <2>1, <2>2, <2>3, <2>4, <2>5 DEF Contract!Leave, Contract!OwedBy, Fate
  <2> QED  BY <2>6 DEF Contract!CNext
<1>13. ASSUME NEW h \in Hubs, Kill(h) PROVE Contract!CNext \/ Quiet
  <2>1. HubPhase(h) \in {"off", "open", "draining"}
    BY <1>13 DEF Kill, Alive, HubPhase, HubsTypeOK
  <2>2. \A g \in Hubs : HubPhase(g)' = IF g = h THEN "killed" ELSE HubPhase(g)
    BY <1>13 DEF Kill, End, HubPhase, HubsTypeOK
  <2>3. UNCHANGED at
    BY <1>13 DEF Kill, End
  <2>4. main[h] # "killed"
    BY <1>13 DEF Kill, Alive
  <2>5. \A c \in Reqs : Fate(c)' = IF Fate(c) = "owed" /\ at[c] = h THEN "lost" ELSE Fate(c)
    BY <1>13, <2>4 DEF Kill, End, Fate, ConnInv
  <2>6. Contract!Die(h)
    BY <2>1, <2>2, <2>3, <2>5 DEF Contract!Die, Contract!OwedBy
  <2> QED  BY <2>6 DEF Contract!CNext
<1>14. ASSUME NEW h \in Hubs, TakeNext(h) PROVE Contract!CNext \/ Quiet
  BY <1>14 DEF TakeNext, endpoint, poison, notes, spawns, process, client, conn, farewell, ghosts, Quiet, HubPhase, Fate, HubsTypeOK, CallsTypeOK
<1>15. ASSUME NEW h \in Hubs, Begin(h) PROVE Contract!CNext \/ Quiet
  BY <1>15 DEF Begin, At, endpoint, notes, spawns, process, client, conn, farewell, ghosts, Quiet, HubPhase, Fate, HubsTypeOK, CallsTypeOK
<1>16. ASSUME NEW h \in Hubs, Abort(h) PROVE Contract!CNext \/ Quiet
  <2>1. HubPhase(h) \in {"off", "open", "draining"}
    BY <1>16 DEF Abort, HubPhase, HubsTypeOK
  <2>2. \A g \in Hubs : HubPhase(g)' = IF g = h THEN "killed" ELSE HubPhase(g)
    BY <1>16 DEF Abort, End, HubPhase, HubsTypeOK
  <2>3. UNCHANGED at
    BY <1>16 DEF Abort, End
  <2>4. main[h] # "killed"
    BY <1>16 DEF Abort
  <2>5. \A c \in Reqs : Fate(c)' = IF Fate(c) = "owed" /\ at[c] = h THEN "lost" ELSE Fate(c)
    BY <1>16, <2>4 DEF Abort, End, Fate, ConnInv
  <2>6. Contract!Die(h)
    BY <2>1, <2>2, <2>3, <2>5 DEF Contract!Die, Contract!OwedBy
  <2> QED  BY <2>6 DEF Contract!CNext
<1>17. ASSUME NEW h \in Hubs, Finish(h) PROVE Contract!CNext \/ Quiet
  BY <1>17 DEF Finish, At, endpoint, notes, spawns, process, client, farewell, ghosts, Quiet, HubPhase, Fate, HubsTypeOK, CallsTypeOK, HasAJob
<1> QED
  BY <1>1, <1>2, <1>3, <1>4, <1>5, <1>6, <1>7, <1>8, <1>9, <1>10, <1>11, <1>12, <1>13, <1>14, <1>15, <1>16, <1>17 DEF HubNext

LEMMA CallStepsKeepTheContract ==
  ASSUME Typed, EndpointInv, NEW call \in Reqs, ReqNext(call)
  PROVE  Contract!CNext \/ Quiet
<1> USE HubAssumption DEF Typed, TypeOK, EndpointInv, Hubs, NoHub, Starting, Running, WorkStages, OwedStages
<1>1. ASSUME NEW r \in Reqs, Retire(r) PROVE Contract!CNext \/ Quiet
  <2>1. UNCHANGED <<main, at, stage>>
    BY <1>1 DEF Retire, endpoint, poison, notes, spawns, jobs, client, conn, ghosts
  <2>2. CASE retire[byeTo[r]] = "no" /\ byeTo[r] \in Hubs
    <3>1. HubPhase(byeTo[r]) = "open"
      BY <1>1, <2>2 DEF Retire, HubPhase
    <3>2. \A g \in Hubs : HubPhase(g)' = IF g = byeTo[r] THEN "draining" ELSE HubPhase(g)
      BY <1>1, <2>2 DEF Retire, endpoint, poison, notes, spawns, jobs, client, conn, ghosts, HubPhase, HubsTypeOK
    <3>3. PICK k \in Hubs : k = byeTo[r]
      BY <2>2
    <3>4. Contract!Close(k)
      BY <2>1, <3>1, <3>2, <3>3 DEF Contract!Close, Fate
    <3> QED  BY <3>4 DEF Contract!CNext
  <2>3. CASE ~(retire[byeTo[r]] = "no" /\ byeTo[r] \in Hubs)
    <3>1. \A g \in Hubs : retire'[g] = retire[g]
      BY <1>1, <2>3 DEF Retire, HubsTypeOK
    <3> QED  BY <2>1, <3>1 DEF Quiet, HubPhase, Fate
  <2> QED  BY <2>2, <2>3
<1>2. ASSUME NEW r \in Reqs, Acknowledge(r) PROVE Contract!CNext \/ Quiet
  BY <1>2 DEF Acknowledge, endpoint, poison, notes, spawns, process, jobs, client, conn, ghosts, Quiet, HubPhase, Fate, HubsTypeOK, CallsTypeOK
<1>3. ASSUME NEW r \in Reqs, Accept(r) PROVE Contract!CNext \/ Quiet
  BY <1>3 DEF Accept, Stage, endpoint, poison, notes, spawns, process, jobs, client, farewell, ghosts, Quiet, HubPhase, Fate, HubsTypeOK, CallsTypeOK
<1>4. ASSUME NEW r \in Reqs, Count(r) PROVE Contract!CNext \/ Quiet
  BY <1>4 DEF Count, Stage, Served, endpoint, poison, notes, spawns, process, jobs, client, farewell, ghosts, Quiet, HubPhase, Fate, HubsTypeOK, CallsTypeOK
<1>5. ASSUME NEW r \in Reqs, Check(r) PROVE Contract!CNext \/ Quiet
  <2>1. UNCHANGED <<main, retire, at>>
    BY <1>5 DEF Check, Stage, Served, endpoint, poison, notes, spawns, process, jobs, client, farewell, ghosts
  <2>2. at[r] \in Hubs /\ main[at[r]] \in Running
    BY <1>5 DEF Check, Served, CallsTypeOK
  <2>3. CASE retire[at[r]] = "no"
    <3>1. HubPhase(at[r]) = "open"
      BY <2>2, <2>3 DEF HubPhase
    <3>2. Fate(r) = "new"
      BY <1>5, <2>3 DEF Check, Stage, Fate
    <3>3. \A c \in Reqs : Fate(c)' = IF c = r THEN "owed" ELSE Fate(c)
      BY <1>5, <2>3 DEF Check, Stage, Fate, CallsTypeOK
    <3>4. PICK k \in Hubs : k = at[r]
      BY <2>2
    <3>5. \A g \in Hubs : HubPhase(g)' = HubPhase(g)
      BY <2>1 DEF HubPhase
    <3>6. \A c \in Reqs : at'[c] = at[c]
      BY <2>1
    <3>7. Contract!Take(k, r)
      BY <3>1, <3>2, <3>3, <3>4, <3>5, <3>6 DEF Contract!Take
    <3> QED  BY <3>7 DEF Contract!CNext
  <2>4. CASE retire[at[r]] # "no"
    <3>1. \A c \in Reqs : Fate(c)' = Fate(c)
      BY <1>5, <2>4 DEF Check, Stage, Fate, CallsTypeOK
    <3> QED  BY <2>1, <3>1 DEF Quiet, HubPhase
  <2> QED  BY <2>3, <2>4
<1>6. ASSUME NEW r \in Reqs, Enqueue(r) PROVE Contract!CNext \/ Quiet
  BY <1>6 DEF Enqueue, Stage, Served, Blocked, endpoint, poison, notes, spawns, process, client, farewell, ghosts, Quiet, HubPhase, Fate, HubsTypeOK, CallsTypeOK
<1>7. ASSUME NEW r \in Reqs, WindowEnds(r) PROVE Contract!CNext \/ Quiet
  BY <1>7 DEF WindowEnds, Stage, Served, endpoint, poison, notes, spawns, process, jobs, client, farewell, ghosts, Quiet, HubPhase, Fate, HubsTypeOK, CallsTypeOK
<1>8. ASSUME NEW r \in Reqs, Reply(r) PROVE Contract!CNext \/ Quiet
  <2>1. UNCHANGED <<main, retire, at>>
    BY <1>8 DEF Reply, Stage, Served, endpoint, poison, notes, spawns, process, jobs, client, farewell, ghosts
  <2>2. at[r] \in Hubs /\ main[at[r]] \in Running
    BY <1>8 DEF Reply, Served, CallsTypeOK
  <2>3. CASE stage[r] = "reply"
    <3>1. HubPhase(at[r]) \in {"open", "draining"}
      BY <2>2 DEF HubPhase
    <3>2. Fate(r) = "owed"
      BY <2>3 DEF Fate
    <3>3. \A c \in Reqs : Fate(c)' = IF c = r THEN "answered" ELSE Fate(c)
      BY <1>8, <2>3 DEF Reply, Stage, Fate, CallsTypeOK
    <3>4. Contract!Answer(at[r], r)
      BY <2>1, <2>2, <3>1, <3>2, <3>3 DEF Contract!Answer, Contract!OwedBy, HubPhase
    <3> QED  BY <2>2, <3>4 DEF Contract!CNext
  <2>4. CASE stage[r] # "reply"
    <3>1. \A c \in Reqs : Fate(c)' = Fate(c)
      BY <1>8, <2>4 DEF Reply, Stage, Fate, CallsTypeOK
    <3> QED  BY <2>1, <3>1 DEF Quiet, HubPhase
  <2> QED  BY <2>3, <2>4
<1>9. ASSUME NEW r \in Reqs, Look(r) PROVE Contract!CNext \/ Quiet
  BY <1>9 DEF Look, Go, EndCall, Finds, endpoint, poison, notes, spawns, process, jobs, conn, farewell, ghosts, Quiet, HubPhase, Fate, HubsTypeOK, CallsTypeOK
<1>10. ASSUME NEW r \in Reqs, GiveUp(r) PROVE Contract!CNext \/ Quiet
  BY <1>10 DEF GiveUp, EndCall, Go, Finds, endpoint, poison, notes, spawns, process, jobs, conn, farewell, ghosts, Quiet, HubPhase, Fate, HubsTypeOK, CallsTypeOK
<1>11. ASSUME NEW r \in Reqs, Holder(r) PROVE Contract!CNext \/ Quiet
  BY <1>11 DEF Holder, Go, Finds, HolderPid, endpoint, poison, notes, spawns, process, jobs, conn, farewell, ghosts, Quiet, HubPhase, Fate, HubsTypeOK, CallsTypeOK
<1>12. ASSUME NEW r \in Reqs, Judge(r) PROVE Contract!CNext \/ Quiet
  BY <1>12 DEF Judge, Go, Finds, HolderPid, endpoint, poison, notes, spawns, process, jobs, conn, farewell, ghosts, Quiet, HubPhase, Fate, HubsTypeOK, CallsTypeOK
<1>13. ASSUME NEW r \in Reqs, Charge(r) PROVE Contract!CNext \/ Quiet
  BY <1>13 DEF Charge, Go, Finds, endpoint, poison, spawns, process, jobs, conn, farewell, ghosts, Quiet, HubPhase, Fate, HubsTypeOK, CallsTypeOK
<1>14. ASSUME NEW r \in Reqs, Spawn(r) PROVE Contract!CNext \/ Quiet
  <2>1. spawned + 1 \in Hubs /\ main[spawned + 1] = "unborn"
    BY <1>14 DEF Spawn, BornInv, FilesTypeOK
  <2>2. UNCHANGED <<retire, at, stage>> /\ main' = [main EXCEPT ![spawned + 1] = "starting"]
    BY <1>14 DEF Spawn, conn
  <2> QED  BY <2>1, <2>2 DEF Quiet, HubPhase, Fate, HubsTypeOK
<1>15. ASSUME NEW r \in Reqs, Await(r) PROVE Contract!CNext \/ Quiet
  BY <1>15 DEF Await, Go, LockedOut, Generation, endpoint, poison, notes, spawns, process, jobs, conn, farewell, ghosts, Quiet, HubPhase, Fate, HubsTypeOK, CallsTypeOK
<1>16. ASSUME NEW r \in Reqs, SpawnRefused(r) PROVE Contract!CNext \/ Quiet
  BY <1>16 DEF SpawnRefused, EndCall, Go, Finds, endpoint, poison, notes, spawns, process, jobs, conn, farewell, ghosts, Quiet, HubPhase, Fate, HubsTypeOK, CallsTypeOK
<1>17. ASSUME NEW r \in Reqs, Connect(r) PROVE Contract!CNext \/ Quiet
  <2>1. UNCHANGED <<main, retire>>
    BY <1>17 DEF Connect, process
  <2>2. Fate(r) = "new"
    BY <1>17 DEF Connect, ConnInv, Seeking, Fate
  <2>3. \/ at' = [at EXCEPT ![r] = socket] /\ stage' = [stage EXCEPT ![r] = "backlog"]
        \/ UNCHANGED <<at, stage>>
    BY <1>17 DEF Connect, conn
  <2> QED  BY <2>1, <2>2, <2>3 DEF Quiet, HubPhase, Fate, CallsTypeOK
<1>18. ASSUME NEW r \in Reqs, Distrust(r) PROVE Contract!CNext \/ Quiet
  BY <1>18 DEF Distrust, EndCall, Hello, Older, Hangs, Go, Finds, endpoint, poison, notes, spawns, process, jobs, farewell, ghosts, Quiet, HubPhase, Fate, HubsTypeOK, CallsTypeOK
<1>19. ASSUME NEW r \in Reqs, AskToRetire(r) PROVE Contract!CNext \/ Quiet
  BY <1>19 DEF AskToRetire, Go, Finds, Hello, Older, endpoint, poison, notes, spawns, process, jobs, ghosts, Quiet, HubPhase, Fate, HubsTypeOK, CallsTypeOK
<1>20. ASSUME NEW r \in Reqs, Ask(r) PROVE Contract!CNext \/ Quiet
  BY <1>20 DEF Ask, Stage, Go, Finds, Hello, Older, endpoint, poison, spawns, process, jobs, farewell, ghosts, Quiet, HubPhase, Fate, HubsTypeOK, CallsTypeOK
<1>21. ASSUME NEW r \in Reqs, Hear(r) PROVE Contract!CNext \/ Quiet
  BY <1>21 DEF Hear, EndCall, Go, Finds, endpoint, poison, spawns, process, jobs, farewell, ghosts, Quiet, HubPhase, Fate, HubsTypeOK, CallsTypeOK
<1>22. ASSUME NEW r \in Reqs, Dropped(r) PROVE Contract!CNext \/ Quiet
  BY <1>22 DEF Dropped, EndCall, Hangs, Go, Finds, endpoint, poison, notes, spawns, process, jobs, farewell, ghosts, Quiet, HubPhase, Fate, HubsTypeOK, CallsTypeOK
<1>23. ASSUME NEW r \in Reqs, TimesOut(r) PROVE Contract!CNext \/ Quiet
  BY <1>23 DEF TimesOut, EndCall, Go, Finds, endpoint, poison, spawns, process, jobs, conn, farewell, ghosts, Quiet, HubPhase, Fate, HubsTypeOK, CallsTypeOK
<1> QED
  BY <1>1, <1>2, <1>3, <1>4, <1>5, <1>6, <1>7, <1>8, <1>9, <1>10, <1>11, <1>12, <1>13, <1>14, <1>15, <1>16, <1>17, <1>18, <1>19, <1>20, <1>21, <1>22, <1>23 DEF ReqNext

(***************************************************************************)
(* The specification                                                       *)
(***************************************************************************)
LEMMA IdleSteps ==
  ASSUME WindowPasses \/ UNCHANGED vars
  PROVE  /\ Typed => Typed'
         /\ EndpointInv => EndpointInv'
         /\ ChargeInv => ChargeInv'
         /\ Quiet
<1>1. UNCHANGED <<endpoint, poison, notes, spawned, modern, process, jobs, client, conn, farewell, ghosts>>
  BY DEF WindowPasses, vars, endpoint, poison, notes, spawns, process, jobs, client, conn, farewell, ghosts
<1>2. claims' \subseteq claims
  BY DEF WindowPasses, vars, endpoint, poison, notes, spawns, process, jobs, client, conn, farewell, ghosts
<1> USE DEF endpoint, poison, notes, spawns, process, jobs, client, conn, farewell, ghosts
<1>3. Typed => Typed'
  <2>1. FilesTypeOK => FilesTypeOK'
    BY <1>1, <1>2 DEF FilesTypeOK
  <2> QED
    BY <1>1, <2>1 DEF Typed, TypeOK, HubsTypeOK, CallsTypeOK, HistoryTypeOK, HasAJob, HasAPid
<1>4. EndpointInv => EndpointInv'
  BY <1>1 DEF EndpointInv, LockInv, Holds, BornInv, RetireInv, SocketInv, ConnInv
<1>5. ChargeInv => ChargeInv'
  BY <1>1 DEF ChargeInv, TitleInv, PastInv, GoneInv, Gone, Past
<1>6. Quiet
  BY <1>1 DEF Quiet, HubPhase, Fate
<1> QED
  BY <1>3, <1>4, <1>5, <1>6

Inv == Typed /\ EndpointInv /\ ChargeInv

LEMMA Inductive == Inv /\ [Next]_vars => Inv'
<1> SUFFICES ASSUME Inv, [Next]_vars PROVE Inv'
  OBVIOUS
<1>1. CASE \E h \in Hubs : HubNext(h)
  BY <1>1, HubStepsKeepTypes, HubStepsKeepTheEndpoint, HubStepsKeepTheCharge DEF Inv
<1>2. CASE \E r \in Reqs : ReqNext(r)
  BY <1>2, CallStepsKeepTypes, CallStepsKeepTheEndpoint, CallStepsKeepTheCharge DEF Inv
<1>3. CASE WindowPasses \/ UNCHANGED vars
  BY <1>3, IdleSteps DEF Inv
<1> QED
  BY <1>1, <1>2, <1>3 DEF Next

LEMMA AlwaysInv == Spec => []Inv
<1>1. Init => Inv
  BY TypedInit, EndpointInit, ChargeInit DEF Inv
<1> QED
  BY <1>1, Inductive, PTL DEF Spec

\* Types.
THEOREM TypeCorrect == Spec => []TypeOK
<1>1. Inv => TypeOK
  BY DEF Inv, Typed
<1> QED
  BY <1>1, AlwaysInv, PTL

\* Whatever hubs start, retire, are killed and are told to leave in whatever
\* order, the socket at the path is that of the lock's holder or of a killed hub
\* (begin_retire's order, serve's).
THEOREM EndpointHeld == Spec => []EndpointIsHeld
<1>1. Inv => EndpointIsHeld
  BY DEF Inv, EndpointInv, SocketInv, LockInv, Holds, EndpointIsHeld, Typed, TypeOK, FilesTypeOK, Hubs, NoHub
<1> QED
  BY <1>1, AlwaysInv, PTL

\* Whatever clients find, and however late they act on it, no hub is charged with
\* a death while it holds the lock (abnormal_death, note_death).
THEOREM NotCharged == Spec => []HolderIsNotCharged
<1>1. Inv => HolderIsNotCharged
  BY DEF Inv, ChargeInv, GoneInv, Gone, HolderIsNotCharged
<1> QED
  BY <1>1, AlwaysInv, PTL

\* Hub implements HubContract: one hub takes requests at a time, and one that
\* leaves by itself has answered what it took (serve, serve_conn, begin_retire).
THEOREM ContractImplemented == Spec => ImplementsContract
<1>1. Inv /\ [Next]_vars => [Contract!CNext]_(Contract!cvars)
  <2> SUFFICES ASSUME Inv, [Next]_vars PROVE Contract!CNext \/ UNCHANGED Contract!cvars
    OBVIOUS
  <2>1. CASE \E h \in Hubs : HubNext(h)
    BY <2>1, HubStepsKeepTheContract, QuietIsAStutter DEF Inv
  <2>2. CASE \E r \in Reqs : ReqNext(r)
    BY <2>2, CallStepsKeepTheContract, QuietIsAStutter DEF Inv
  <2>3. CASE WindowPasses \/ UNCHANGED vars
    BY <2>3, IdleSteps, QuietIsAStutter
  <2> QED
    BY <2>1, <2>2, <2>3 DEF Next
<1> QED
  BY <1>1, InitMeetsTheContract, AlwaysInv, PTL DEF Spec, ImplementsContract, Contract!CSpec

(***************************************************************************)
(* Kills are limited                                                       *)
(***************************************************************************)
\* A hub that has taken a request and not scored it: it may yet write
\* hub.inflight, even after it gave the lock back.
InHand(h) ==
  \/ work[h] # "idle"
  \/ \E r \in Reqs : at[r] = h /\ stage[r] \in {"taken", "waiting"}

\* A hub that may write hub.inflight, now or for a request to come.
Hot(h) == InHand(h) \/ (lock = h /\ main[h] \in Running)

\* Only running hubs work. A job is of a connection of its hub, until that is
\* over and the call with it.
WorkersRun == \A h \in Hubs : work[h] # "idle" => main[h] \in Running
Queued(h)  == {queue[h][i] : i \in 1..Len(queue[h])}
JobsAreOwn ==
  \A h \in Hubs : \A r \in Queued(h) :
    \/ stage[r] \in {"waiting", "reply"} /\ at[r] = h
    \/ stage[r] = "answered"

\* One hub at a time has hub.inflight in hand, and none while another recovers.
OneIsHot == \A g, h \in Hubs : Hot(g) /\ Hot(h) => g = h
RecoversAlone == \A g, h \in Hubs : main[g] = "recorded" => ~Hot(h)

\* hub.inflight says what that hub is scoring.
MarkerIsTrue == \A h \in Hubs : Hot(h) => marker = IF work[h] = "scoring" THEN QueryOf[worker[h]] ELSE None

\* What was let in is not blocked.
NotBlocked ==
  /\ \A h \in Hubs : work[h] # "idle" => ~Blocked(QueryOf[worker[h]])
  /\ \A r \in Reqs : stage[r] = "waiting" => ~Blocked(QueryOf[r])

\* Every death by a query has its record, but for the last one, whose marker is
\* still there.
Unrecorded(asked) == marker = asked /\ \A h \in Hubs : work[h] # "scoring" /\ main[h] # "recorded"
KillsAreRecorded ==
  \A asked \in Query : /\ kills[asked] <= crashes[asked] + (IF Unrecorded(asked) THEN 1 ELSE 0)
                      /\ kills[asked] <= CrashLimit

PoisonInv == OneIsHot /\ RecoversAlone /\ MarkerIsTrue /\ NotBlocked /\ KillsAreRecorded
KillInv   == WorkersRun /\ JobsAreOwn /\ (~overlap => PoisonInv)

LEMMA KillInit == Init => KillInv
<1> SUFFICES ASSUME Init PROVE KillInv
  OBVIOUS
<1> USE HubAssumption DEF Init, Running
<1>1. \A h \in Hubs : Queued(h) = {}
  BY DEF Queued
<1>2. WorkersRun /\ JobsAreOwn
  BY <1>1 DEF WorkersRun, JobsAreOwn
<1>3. \A h \in Hubs : ~Hot(h)
  BY DEF Hot, InHand
<1>4. OneIsHot /\ RecoversAlone /\ MarkerIsTrue
  BY <1>3 DEF OneIsHot, RecoversAlone, MarkerIsTrue
<1>5. NotBlocked
  BY DEF NotBlocked
<1>6. KillsAreRecorded
  BY DEF KillsAreRecorded
<1> QED
  BY <1>2, <1>4, <1>5, <1>6 DEF KillInv, PoisonInv

\* What becomes of a request that is not taken: its job stays where it is, or
\* it is over.
Settles(r) ==
  \/ stage'[r] = stage[r] /\ at'[r] = at[r]
  \/ stage[r] = "waiting" /\ stage'[r] = "reply" /\ at'[r] = at[r]
  \/ stage[r] \in {"reply", "answered"} /\ stage'[r] = "answered"
  \/ stage[r] \notin {"waiting", "reply", "answered"} /\ stage'[r] \notin {"taken", "waiting"}

\* A step that makes no hub hot, records and scores nothing.
LEMMA CalmSteps ==
  ASSUME Typed, KillInv, UNCHANGED <<poison, jobs, kills, overlap>>,
         \A h \in Hubs : main'[h] = "recorded" => main[h] = "recorded",
         \A h \in Hubs : work[h] # "idle" => main'[h] \in Running,
         \A h \in Hubs : Hot(h)' => Hot(h),
         \A r \in Reqs : stage'[r] = "waiting" => stage[r] = "waiting",
         JobsAreOwn'
  PROVE  KillInv'
<1> USE DEF KillInv, poison, jobs
<1>1. WorkersRun'
  BY DEF WorkersRun
<1>2. ASSUME ~overlap PROVE PoisonInv'
  <2>1. OneIsHot' /\ RecoversAlone'
    BY <1>2 DEF PoisonInv, OneIsHot, RecoversAlone
  <2>2. MarkerIsTrue'
    BY <1>2 DEF PoisonInv, MarkerIsTrue
  <2>3. NotBlocked'
    BY <1>2 DEF PoisonInv, NotBlocked, Blocked
  <2>4. KillsAreRecorded'
    <3>1. \A asked \in Query : Unrecorded(asked) => Unrecorded(asked)'
      BY DEF Unrecorded
    <3>2. \A asked \in Query : crashes[asked] \in Nat /\ kills[asked] \in Nat
      BY DEF Typed, TypeOK, FilesTypeOK, HistoryTypeOK
    <3> QED
      BY <1>2, <3>1, <3>2 DEF PoisonInv, KillsAreRecorded
  <2> QED
    BY <2>1, <2>2, <2>3, <2>4 DEF PoisonInv
<1> QED
  BY <1>1, <1>2

\* A step after which jobs are settled and nobody has the endpoint anew is calm.
LEMMA SettlingSteps ==
  ASSUME Typed, KillInv, UNCHANGED <<poison, jobs, kills, overlap>>,
         \A h \in Hubs : main'[h] = "recorded" => main[h] = "recorded",
         \A h \in Hubs : main[h] \in Running => main'[h] \in Running,
         \A h \in Hubs : lock' = h /\ main'[h] \in Running => lock = h /\ main[h] \in Running,
         \A r \in Reqs : Settles(r)
  PROVE  KillInv'
<1>1. \A r \in Reqs : stage'[r] \in {"taken", "waiting"} => stage'[r] = stage[r] /\ at'[r] = at[r]
  BY DEF Settles
<1>2. \A h \in Hubs : Hot(h)' => Hot(h)
  BY <1>1 DEF Hot, InHand, jobs
<1>3. \A h \in Hubs : Queued(h)' = Queued(h) /\ Queued(h) \subseteq Reqs
  BY DEF Queued, jobs, Typed, TypeOK, HubsTypeOK
<1>4. JobsAreOwn'
  BY <1>3 DEF JobsAreOwn, Settles, KillInv
<1>5. \A h \in Hubs : work[h] # "idle" => main'[h] \in Running
  BY DEF KillInv, WorkersRun
<1> QED
  BY <1>1, <1>2, <1>4, <1>5, CalmSteps

LEMMA CallStepsKillNobody ==
  ASSUME Typed, EndpointInv, KillInv, NEW call \in Reqs, ReqNext(call)
  PROVE  KillInv'
<1> USE DEF Typed, TypeOK, CallsTypeOK, endpoint, poison, notes, spawns, process, jobs, client, conn, farewell, ghosts
<1>1. ASSUME NEW r \in Reqs, Retire(r) \/ Acknowledge(r) \/ Look(r) \/ GiveUp(r) \/ Holder(r) \/ Judge(r)
                             \/ Charge(r) \/ Await(r) \/ SpawnRefused(r) \/ TimesOut(r)
      PROVE  KillInv'
  <2>1. UNCHANGED <<lock, main, poison, jobs, conn, kills, overlap>>
    BY <1>1 DEF Retire, Acknowledge, Look, GiveUp, Holder, Judge, Charge, Await, SpawnRefused, TimesOut
  <2> QED
    BY <2>1, SettlingSteps DEF Settles
<1>2. ASSUME NEW r \in Reqs, Spawn(r)
      PROVE  KillInv'
  <2>1. main[spawned + 1] = "unborn" /\ spawned + 1 \in Hubs
    BY <1>2, HubAssumption DEF Spawn, EndpointInv, BornInv, FilesTypeOK, Hubs
  <2>2. UNCHANGED <<lock, poison, jobs, conn, kills, overlap>>
    BY <1>2 DEF Spawn
  <2>3. \A h \in Hubs : main'[h] = main[h] \/ (main[h] = "unborn" /\ main'[h] = "starting")
    <3>1. main' = [main EXCEPT ![spawned + 1] = "starting"]
      BY <1>2 DEF Spawn
    <3> QED
      BY <2>1, <3>1 DEF HubsTypeOK
  <2>4. \A x \in Reqs : Settles(x)
    BY <2>2 DEF Settles
  <2>5. /\ \A h \in Hubs : main'[h] = "recorded" => main[h] = "recorded"
        /\ \A h \in Hubs : main[h] \in Running => main'[h] \in Running
        /\ \A h \in Hubs : lock' = h /\ main'[h] \in Running => lock = h /\ main[h] \in Running
    BY <2>2, <2>3 DEF Running
  <2> QED
    BY <2>2, <2>4, <2>5, SettlingSteps
<1>3. ASSUME NEW r \in Reqs, Accept(r) \/ Count(r) \/ WindowEnds(r) \/ Reply(r)
      PROVE  KillInv'
  <2>1. UNCHANGED <<lock, main, poison, jobs, at, kills, overlap>>
    BY <1>3 DEF Accept, Count, WindowEnds, Reply
  <2>2. \A x \in Reqs : Settles(x)
    BY <1>3 DEF Accept, Count, WindowEnds, Reply, Stage, Settles
  <2> QED
    BY <2>1, <2>2, SettlingSteps
<1>4. ASSUME NEW r \in Reqs, Connect(r) \/ Distrust(r) \/ AskToRetire(r) \/ Ask(r) \/ Hear(r) \/ Dropped(r)
      PROVE  KillInv'
  <2>1. UNCHANGED <<lock, main, poison, jobs, kills, overlap>>
    BY <1>4 DEF Connect, Distrust, AskToRetire, Ask, Hear, Dropped
  <2>2. \A x \in Reqs \ {r} : stage'[x] = stage[x] /\ at'[x] = at[x]
    BY <1>4 DEF Connect, Distrust, AskToRetire, Ask, Hear, Dropped, Stage, Hangs
  <2>3. Settles(r)
    <3>1. CASE Connect(r)
      <4>1. stage[r] = "none"
        BY <3>1 DEF Connect, EndpointInv, ConnInv, Seeking
      <4> QED
        BY <3>1, <4>1 DEF Connect, Settles
    <3>2. CASE Distrust(r) \/ AskToRetire(r) \/ Ask(r)
      BY <3>2 DEF Distrust, AskToRetire, Ask, Hello, Hangs, Stage, Settles
    <3>3. CASE Hear(r)
      BY <3>3 DEF Hear, Settles
    <3>4. CASE Dropped(r)
      BY <3>4 DEF Dropped, Hangs, Settles
    <3> QED
      BY <1>4, <3>1, <3>2, <3>3, <3>4
  <2> QED
    BY <2>1, <2>2, <2>3, SettlingSteps DEF Settles
\* A request is taken only by the hub that has the endpoint.
<1>5. ASSUME NEW r \in Reqs, Check(r)
      PROVE  KillInv'
  <2>1. UNCHANGED <<lock, main, poison, jobs, at, kills, overlap>>
    BY <1>5 DEF Check
  <2>2. /\ stage' = [stage EXCEPT ![r] = stage'[r]]
        /\ stage[r] = "counted" /\ stage'[r] \in {"taken", "turned"}
        /\ stage'[r] = "taken" => retire[at[r]] = "no"
        /\ at[r] \in Hubs /\ main[at[r]] \in Running
    BY <1>5 DEF Check, Stage, Served, Hubs, NoHub
  <2>3. stage'[r] = "taken" => lock = at[r]
    BY <2>2 DEF EndpointInv, LockInv, Holds
  <2>4. \A h \in Hubs : Hot(h)' => Hot(h)
    BY <2>1, <2>2, <2>3 DEF Hot, InHand
  <2>5. \A h \in Hubs : Queued(h)' = Queued(h) /\ Queued(h) \subseteq Reqs
    BY <2>1 DEF Queued, HubsTypeOK
  <2>6. JobsAreOwn'
    BY <2>1, <2>2, <2>5 DEF JobsAreOwn, KillInv
  <2>7. \A h \in Hubs : work[h] # "idle" => main'[h] \in Running
    BY <2>1 DEF KillInv, WorkersRun
  <2> QED
    BY <2>1, <2>2, <2>4, <2>6, <2>7, CalmSteps
\* A job is let in only if its query is not blocked, by a hub that had it in hand.
<1>6. ASSUME NEW r \in Reqs, Enqueue(r)
      PROVE  KillInv'
  <2>1. /\ UNCHANGED <<lock, main, poison, at, kills, overlap, worker, work>>
        /\ stage[r] = "taken" /\ at[r] \in Hubs
    BY <1>6 DEF Enqueue, Stage, Served, Hubs, NoHub
  <2>2. /\ stage' = [stage EXCEPT ![r] = stage'[r]] /\ stage'[r] \in {"reply", "waiting"}
        /\ stage'[r] = "waiting" => ~Blocked(QueryOf[r])
    BY <1>6 DEF Enqueue, Stage
  <2>3. \A h \in Hubs : Hot(h)' => Hot(h)
    BY <2>1, <2>2 DEF Hot, InHand
  <2>4. \A h \in Hubs : \A x \in Queued(h)' : x \in Queued(h) \/ (x = r /\ h = at[r] /\ stage'[r] = "waiting")
    <3>1. CASE Blocked(QueryOf[r])
      BY <1>6, <3>1 DEF Enqueue, Queued
    <3>2. CASE ~Blocked(QueryOf[r])
      <4>1. PICK g \in Hubs : g = at[r]
        BY <2>1
      <4>2. queue' = [queue EXCEPT ![g] = Append(@, r)] /\ stage'[r] = "waiting"
        BY <1>6, <3>2, <4>1 DEF Enqueue, Stage
      <4>3. Queued(g)' \subseteq Queued(g) \cup {r}
        <5>1. queue[g] \in Seq(Reqs) /\ queue'[g] = Append(queue[g], r)
          BY <4>2 DEF HubsTypeOK
        <5> QED
          BY <5>1 DEF Queued
      <4>4. \A h \in Hubs \ {g} : Queued(h)' = Queued(h)
        BY <4>2 DEF Queued, HubsTypeOK
      <4> QED
        BY <4>1, <4>2, <4>3, <4>4
    <3> QED
      BY <3>1, <3>2
  <2>5. \A h \in Hubs : Queued(h) \subseteq Reqs
    BY DEF Queued, HubsTypeOK
  <2>6. JobsAreOwn'
    BY <2>1, <2>2, <2>4, <2>5 DEF JobsAreOwn, KillInv
  <2>7. ASSUME ~overlap PROVE PoisonInv'
    <3>1. OneIsHot' /\ RecoversAlone' /\ MarkerIsTrue'
      BY <2>1, <2>3, <2>7 DEF KillInv, PoisonInv, OneIsHot, RecoversAlone, MarkerIsTrue
    <3>2. NotBlocked'
      BY <2>1, <2>2, <2>7 DEF KillInv, PoisonInv, NotBlocked, Blocked
    <3>3. KillsAreRecorded'
      BY <2>1, <2>7 DEF KillInv, PoisonInv, KillsAreRecorded, Unrecorded
    <3> QED
      BY <3>1, <3>2, <3>3 DEF PoisonInv
  <2> QED
    BY <2>1, <2>6, <2>7 DEF KillInv, WorkersRun
<1> QED
  BY <1>1, <1>2, <1>3, <1>4, <1>5, <1>6 DEF ReqNext

\* A process that ends has nothing in hand any more; the others keep what they
\* had.
LEMMA EndedHubsAreCold ==
  ASSUME Typed, EndpointInv, KillInv, NEW g \in Hubs, NEW how \in {"left", "killed"}, End(g, how)
  PROVE  /\ WorkersRun' /\ JobsAreOwn' /\ UNCHANGED overlap
         /\ \A h \in Hubs : Hot(h)' => h # g /\ Hot(h)
         /\ ~overlap => OneIsHot' /\ RecoversAlone' /\ MarkerIsTrue' /\ NotBlocked'
<1> USE DEF Typed, TypeOK, End, poison, notes, spawns, client
<1>1. /\ main' = [main EXCEPT ![g] = how]
      /\ UNCHANGED <<at, marker, crashes, overlap>>
  OBVIOUS
<1>2. \A h \in Hubs \ {g} : main'[h] = main[h] /\ work'[h] = work[h] /\ worker'[h] = worker[h] /\ queue'[h] = queue[h]
  BY DEF HubsTypeOK
<1>3. main'[g] = how /\ work'[g] = "idle" /\ queue'[g] = <<>>
  BY DEF HubsTypeOK
<1>4. \A r \in Reqs : /\ at[r] # g => stage'[r] = stage[r]
                      /\ stage'[r] \in {"taken", "waiting"} => at[r] # g
                      /\ stage[r] = "answered" => stage'[r] = "answered"
  BY DEF CallsTypeOK, OwedStages
<1>5. lock' = lock \/ (lock' = NoHub /\ lock = g)
  OBVIOUS
<1>6. \A h \in Hubs : Hot(h)' => h # g /\ Hot(h)
  <2> SUFFICES ASSUME NEW h \in Hubs, Hot(h)' PROVE h # g /\ Hot(h)
    OBVIOUS
  <2>1. h # g
    BY <1>1, <1>3, <1>4 DEF Hot, InHand, Running
  <2> QED
    BY <1>1, <1>2, <1>4, <1>5, <2>1 DEF Hot, InHand, Hubs, NoHub
<1>7. WorkersRun'
  BY <1>2, <1>3 DEF WorkersRun, KillInv
<1>8. JobsAreOwn'
  <2>1. Queued(g)' = {}
    BY <1>3 DEF Queued
  <2>2. \A h \in Hubs \ {g} : Queued(h)' = Queued(h) /\ Queued(h) \subseteq Reqs
    BY <1>2 DEF Queued, HubsTypeOK
  <2> QED
    BY <1>1, <1>4, <2>1, <2>2 DEF JobsAreOwn, KillInv
<1>9. ASSUME ~overlap PROVE OneIsHot' /\ RecoversAlone' /\ MarkerIsTrue' /\ NotBlocked'
  <2>1. OneIsHot'
    BY <1>6, <1>9 DEF OneIsHot, KillInv, PoisonInv
  <2>2. RecoversAlone'
    BY <1>2, <1>3, <1>6, <1>9 DEF RecoversAlone, KillInv, PoisonInv
  <2>3. MarkerIsTrue'
    BY <1>1, <1>2, <1>6, <1>9 DEF MarkerIsTrue, KillInv, PoisonInv
  <2>4. NotBlocked'
    BY <1>1, <1>2, <1>3, <1>4, <1>9 DEF NotBlocked, Blocked, KillInv, PoisonInv
  <2> QED
    BY <2>1, <2>2, <2>3, <2>4
<1> QED
  BY <1>1, <1>6, <1>7, <1>8, <1>9

LEMMA HubStepsKillFew ==
  ASSUME Typed, EndpointInv, KillInv, NEW hub \in Hubs, HubNext(hub)
  PROVE  KillInv'
<1> USE DEF Typed, TypeOK, endpoint, poison, notes, spawns, process, jobs, client, conn, farewell, ghosts
<1>1. ASSUME NEW h \in Hubs, TakeLock(h) \/ Truncate(h) \/ WritePid(h) \/ Bind(h)
      PROVE  KillInv'
  <2>1. UNCHANGED <<poison, jobs, conn, kills, overlap>>
    BY <1>1 DEF TakeLock, Truncate, WritePid, Bind
  <2>2. PICK to \in {"locked", "lost", "truncated", "titled", "bound"} :
          main' = [main EXCEPT ![h] = to] /\ main[h] \in {"starting", "locked", "truncated", "titled"}
    BY <1>1 DEF TakeLock, Truncate, WritePid, Bind, Step
  <2>3. lock' = lock \/ lock' = h
    BY <1>1 DEF TakeLock, Truncate, WritePid, Bind
  <2>4. \A g \in Hubs : /\ main'[g] = "recorded" => main[g] = "recorded"
                        /\ main[g] \in Running => main'[g] \in Running
                        /\ lock' = g /\ main'[g] \in Running => lock = g /\ main[g] \in Running
    BY <2>2, <2>3 DEF HubsTypeOK, Running
  <2> QED
    BY <2>1, <2>4, SettlingSteps DEF Settles
<1>2. ASSUME NEW h \in Hubs, ExeChanged(h) \/ IdleAgedOrFat(h) \/ Unlink(h) \/ Release(h)
      PROVE  KillInv'
  <2>1. UNCHANGED <<poison, jobs, conn, kills, overlap>>
    BY <1>2 DEF ExeChanged, IdleAgedOrFat, Unlink, Release
  <2>2. \A g \in Hubs : main'[g] = main[g] \/ (main[g] \in Running /\ main'[g] \in Running)
    BY <1>2 DEF ExeChanged, IdleAgedOrFat, Unlink, Release, Step, HubsTypeOK, Running
  <2>3. lock' = lock \/ lock' = NoHub
    BY <1>2 DEF ExeChanged, IdleAgedOrFat, Unlink, Release
  <2>4. \A g \in Hubs : /\ main'[g] = "recorded" => main[g] = "recorded"
                        /\ main[g] \in Running => main'[g] \in Running
                        /\ lock' = g /\ main'[g] \in Running => lock = g /\ main[g] \in Running
    BY <2>2, <2>3 DEF Running, Hubs, NoHub
  <2> QED
    BY <2>1, <2>4, SettlingSteps DEF Settles
<1>3. ASSUME NEW h \in Hubs, DropListener(h)
      PROVE  KillInv'
  <2>1. UNCHANGED <<lock, main, poison, jobs, at, kills, overlap>>
    BY <1>3 DEF DropListener
  <2>2. \A r \in Reqs : Settles(r)
    BY <1>3 DEF DropListener, Settles, CallsTypeOK
  <2> QED
    BY <2>1, <2>2, SettlingSteps
<1>4. ASSUME NEW h \in Hubs, Exit(h) \/ Kill(h)
      PROVE  KillInv'
  <2>1. PICK how \in {"left", "killed"} : End(h, how)
    BY <1>4 DEF Exit, Kill
  <2>2. UNCHANGED <<marker, crashes, kills>>
    BY <1>4 DEF Exit, Kill, End
  <2>3. ASSUME ~overlap PROVE KillsAreRecorded'
    <3>1. \A g \in Hubs : \/ work'[g] = work[g] /\ main'[g] = main[g]
                          \/ work'[g] = "idle" /\ main'[g] \in {"left", "killed"}
      BY <2>1 DEF End, HubsTypeOK
    <3>2. \A asked \in Query : Unrecorded(asked) => Unrecorded(asked)'
      BY <2>2, <3>1 DEF Unrecorded
    <3>3. \A asked \in Query : crashes[asked] \in Nat /\ kills[asked] \in Nat
      BY DEF FilesTypeOK, HistoryTypeOK
    <3> QED
      BY <2>2, <2>3, <3>2, <3>3 DEF KillsAreRecorded, KillInv, PoisonInv
  <2> QED
    BY <2>1, <2>3, EndedHubsAreCold DEF KillInv, PoisonInv
\* Recovery charges the marker it finds; it is said to overlap if anybody is at
\* work.
<1>5. ASSUME NEW h \in Hubs, Record(h)
      PROVE  KillInv'
  <2>1. /\ UNCHANGED <<lock, marker, jobs, conn, kills>>
        /\ main[h] = "bound" /\ main' = [main EXCEPT ![h] = "recorded"]
        /\ crashes' = IF marker = None THEN crashes ELSE [crashes EXCEPT ![marker] = @ + 1]
    BY <1>5 DEF Record, Step
  <2>2. WorkersRun' /\ JobsAreOwn'
    <3>1. \A g \in Hubs : work[g] # "idle" => main'[g] \in Running
      BY <2>1 DEF KillInv, WorkersRun, HubsTypeOK, Running
    <3>2. \A g \in Hubs : Queued(g)' = Queued(g)
      BY <2>1 DEF Queued
    <3> QED
      BY <2>1, <3>1, <3>2 DEF KillInv, WorkersRun, JobsAreOwn
  <2>3. ASSUME ~overlap' PROVE PoisonInv'
    <3>1. ~overlap /\ \A g \in Hubs : ~AtWork(g)
      BY <1>5, <2>3 DEF Record
    <3>2. \A g \in Hubs : work[g] = "idle"
      BY <3>1 DEF AtWork, KillInv, WorkersRun
    <3>3. \A r \in Reqs : stage[r] \notin {"taken", "waiting"}
      BY <3>1 DEF AtWork, Working, EndpointInv, ConnInv, OwedStages, WorkStages
    <3>4. lock = h
      BY <2>1 DEF EndpointInv, LockInv, Holds
    <3>5. \A g \in Hubs : ~Hot(g)'
      BY <2>1, <3>2, <3>3, <3>4 DEF Hot, InHand, HubsTypeOK, Running
    <3>6. OneIsHot' /\ RecoversAlone' /\ MarkerIsTrue'
      BY <3>5 DEF OneIsHot, RecoversAlone, MarkerIsTrue
    <3>7. NotBlocked'
      BY <2>1, <3>2, <3>3 DEF NotBlocked
    <3>8. KillsAreRecorded'
      <4>1. \A asked \in Query : /\ crashes[asked] \in Nat /\ kills[asked] \in Nat /\ crashes'[asked] \in Nat
                                 /\ crashes'[asked] >= crashes[asked]
                                 /\ marker = asked => crashes'[asked] = crashes[asked] + 1
        BY <2>1, HubAssumption DEF FilesTypeOK, HistoryTypeOK
      <4>2. \A asked \in Query : kills[asked] <= crashes'[asked] /\ kills[asked] <= CrashLimit
        BY <3>1, <4>1 DEF KillInv, PoisonInv, KillsAreRecorded, Unrecorded
      <4> QED
        BY <2>1, <4>1, <4>2 DEF KillsAreRecorded
    <3> QED
      BY <3>6, <3>7, <3>8 DEF PoisonInv
  <2> QED
    BY <2>2, <2>3 DEF KillInv
<1>6. ASSUME NEW h \in Hubs, Unmark(h)
      PROVE  KillInv'
  <2>1. /\ UNCHANGED <<lock, crashes, jobs, conn, kills, overlap>> /\ marker' = None
        /\ main[h] = "recorded" /\ main' = [main EXCEPT ![h] = "serving"]
    BY <1>6 DEF Unmark, Step
  <2>2. lock = h
    BY <2>1 DEF EndpointInv, LockInv, Holds
  <2>3. WorkersRun' /\ JobsAreOwn'
    <3>1. \A g \in Hubs : work[g] # "idle" => main'[g] \in Running
      BY <2>1 DEF KillInv, WorkersRun, HubsTypeOK, Running
    <3>2. \A g \in Hubs : Queued(g)' = Queued(g)
      BY <2>1 DEF Queued
    <3> QED
      BY <2>1, <3>1, <3>2 DEF KillInv, WorkersRun, JobsAreOwn
  <2>4. ASSUME ~overlap PROVE PoisonInv'
    <3>1. \A g \in Hubs : ~Hot(g)
      BY <2>1, <2>4 DEF KillInv, PoisonInv, RecoversAlone
    <3>2. \A g \in Hubs : Hot(g)' => g = h
      BY <2>1, <2>2, <3>1 DEF Hot, InHand, HubsTypeOK
    <3>3. \A g \in Hubs : main'[g] # "recorded"
      BY <2>1, <2>2 DEF EndpointInv, LockInv, Holds, HubsTypeOK
    <3>4. work[h] = "idle"
      BY <3>1 DEF Hot, InHand
    <3>5. OneIsHot' /\ RecoversAlone' /\ MarkerIsTrue'
      BY <2>1, <3>2, <3>3, <3>4 DEF OneIsHot, RecoversAlone, MarkerIsTrue
    <3>6. NotBlocked'
      BY <2>1, <2>4 DEF KillInv, PoisonInv, NotBlocked, Blocked
    <3>7. KillsAreRecorded'
      <4>1. \A asked \in Query : ~Unrecorded(asked) /\ crashes[asked] \in Nat /\ kills[asked] \in Nat
        BY <2>1 DEF Unrecorded, FilesTypeOK, HistoryTypeOK
      <4>2. \A asked \in Query : kills[asked] <= crashes[asked] /\ kills[asked] <= CrashLimit
        BY <2>4, <4>1 DEF KillInv, PoisonInv, KillsAreRecorded
      <4> QED
        BY <2>1, <4>1, <4>2 DEF KillsAreRecorded
    <3> QED
      BY <3>5, <3>6, <3>7 DEF PoisonInv
  <2> QED
    BY <2>1, <2>3, <2>4 DEF KillInv
\* The worker takes up what is still waited for, which is its hub's and not
\* blocked.
<1>7. ASSUME NEW h \in Hubs, TakeNext(h)
      PROVE  KillInv'
  <2> DEFINE next == Head(queue[h])
  <2>1. /\ UNCHANGED <<lock, main, poison, conn, kills, overlap>>
        /\ main[h] \in Running /\ work[h] = "idle" /\ queue[h] # <<>>
        /\ queue' = [queue EXCEPT ![h] = Tail(@)]
        /\ \/ stage[next] = "waiting" /\ worker' = [worker EXCEPT ![h] = next] /\ work' = [work EXCEPT ![h] = "taken"]
           \/ UNCHANGED <<worker, work>>
    BY <1>7 DEF TakeNext
  <2>2. queue[h] \in Seq(Reqs) /\ queue'[h] = Tail(queue[h]) /\ \A g \in Hubs \ {h} : queue'[g] = queue[g]
    BY <2>1 DEF HubsTypeOK
  <2>3. next \in Queued(h) /\ next \in Reqs
    BY <2>1, <2>2 DEF Queued
  <2>4. \A g \in Hubs : Queued(g)' \subseteq Queued(g) /\ Queued(g) \subseteq Reqs
    <3>1. Queued(h)' \subseteq Queued(h)
      BY <2>1, <2>2 DEF Queued
    <3>2. \A g \in Hubs \ {h} : Queued(g)' = Queued(g)
      BY <2>2 DEF Queued
    <3>3. \A g \in Hubs : Queued(g) \subseteq Reqs
      BY DEF Queued, HubsTypeOK
    <3> QED
      BY <3>1, <3>2, <3>3
  <2> HIDE DEF next
  <2>5. JobsAreOwn'
    BY <2>1, <2>4 DEF JobsAreOwn, KillInv
  <2>6. stage[next] = "waiting" => at[next] = h
    BY <2>3 DEF JobsAreOwn, KillInv
  <2>7. \A g \in Hubs : Hot(g)' => Hot(g)
    BY <2>1, <2>3, <2>6 DEF Hot, InHand, HubsTypeOK
  <2>8. WorkersRun'
    BY <2>1 DEF WorkersRun, KillInv, HubsTypeOK
  <2>9. ASSUME ~overlap PROVE PoisonInv'
    <3>1. \A g \in Hubs : work'[g] = "scoring" <=> work[g] = "scoring"
      BY <2>1 DEF HubsTypeOK
    <3>2. \A g \in Hubs : work[g] = "scoring" => worker'[g] = worker[g]
      BY <2>1 DEF HubsTypeOK
    <3>3. OneIsHot' /\ RecoversAlone'
      BY <2>1, <2>7, <2>9 DEF KillInv, PoisonInv, OneIsHot, RecoversAlone
    <3>4. MarkerIsTrue'
      BY <2>1, <2>7, <2>9, <3>1, <3>2 DEF KillInv, PoisonInv, MarkerIsTrue
    <3>5. NotBlocked'
      BY <2>1, <2>3, <2>9 DEF KillInv, PoisonInv, NotBlocked, Blocked, HubsTypeOK
    <3>6. KillsAreRecorded'
      BY <2>1, <2>9, <3>1 DEF KillInv, PoisonInv, KillsAreRecorded, Unrecorded
    <3> QED
      BY <3>3, <3>4, <3>5, <3>6 DEF PoisonInv
  <2> QED
    BY <2>1, <2>5, <2>8, <2>9 DEF KillInv
<1>8. ASSUME NEW h \in Hubs, Begin(h)
      PROVE  KillInv'
  <2>1. /\ UNCHANGED <<lock, main, crashes, queue, worker, conn, kills, overlap>>
        /\ work[h] = "taken" /\ work' = [work EXCEPT ![h] = "scoring"] /\ marker' = QueryOf[worker[h]]
    BY <1>8 DEF Begin, At
  <2>2. WorkersRun' /\ JobsAreOwn'
    <3>1. \A g \in Hubs : Queued(g)' = Queued(g)
      BY <2>1 DEF Queued
    <3> QED
      BY <2>1, <3>1 DEF KillInv, WorkersRun, JobsAreOwn, HubsTypeOK
  <2>3. \A g \in Hubs : Hot(g)' <=> Hot(g)
    BY <2>1 DEF Hot, InHand, HubsTypeOK
  <2>4. ASSUME ~overlap PROVE PoisonInv'
    <3>1. Hot(h) /\ marker = None /\ work'[h] = "scoring"
      BY <2>1, <2>4 DEF Hot, InHand, KillInv, PoisonInv, MarkerIsTrue, HubsTypeOK
    <3>2. OneIsHot' /\ RecoversAlone'
      BY <2>1, <2>3, <2>4 DEF KillInv, PoisonInv, OneIsHot, RecoversAlone
    <3>3. MarkerIsTrue'
      BY <2>1, <2>3, <2>4, <3>1 DEF KillInv, PoisonInv, OneIsHot, MarkerIsTrue
    <3>4. NotBlocked'
      BY <2>1, <2>4 DEF KillInv, PoisonInv, NotBlocked, Blocked, HubsTypeOK
    <3>5. KillsAreRecorded'
      <4>1. \A asked \in Query : ~Unrecorded(asked) /\ crashes[asked] \in Nat /\ kills[asked] \in Nat
        BY <3>1, HubAssumption DEF Unrecorded, FilesTypeOK, HistoryTypeOK
      <4>2. \A asked \in Query : kills[asked] <= crashes[asked] /\ kills[asked] <= CrashLimit
        BY <2>4, <4>1 DEF KillInv, PoisonInv, KillsAreRecorded
      <4> QED
        BY <2>1, <4>1, <4>2 DEF KillsAreRecorded
    <3> QED
      BY <3>2, <3>3, <3>4, <3>5 DEF PoisonInv
  <2> QED
    BY <2>1, <2>2, <2>4 DEF KillInv
\* A death while scoring: its query was not blocked, and its marker stays.
<1>9. ASSUME NEW h \in Hubs, Abort(h)
      PROVE  KillInv'
  <2>1. /\ End(h, "killed") /\ work[h] = "scoring" /\ UNCHANGED <<marker, crashes>>
        /\ kills' = [kills EXCEPT ![QueryOf[worker[h]]] = @ + 1]
    BY <1>9 DEF Abort, End
  <2>2. ASSUME ~overlap PROVE KillsAreRecorded'
    <3>0. QueryOf[worker[h]] \in Query /\ CrashLimit \in Nat
      BY <2>1, HubAssumption DEF HasAJob
    <3>1. PICK asked \in Query : asked = QueryOf[worker[h]]
      BY <3>0
    <3>2. Hot(h)
      BY <2>1 DEF Hot, InHand
    <3>3. marker = asked /\ ~Blocked(asked)
      BY <2>1, <2>2, <3>1, <3>2 DEF KillInv, PoisonInv, MarkerIsTrue, NotBlocked
    <3>4. \A q \in Query : kills[q] \in Nat /\ crashes[q] \in Nat /\ ~Unrecorded(q)
      BY <2>1 DEF FilesTypeOK, HistoryTypeOK, Unrecorded
    <3>5. \A q \in Query : kills[q] <= crashes[q] /\ kills[q] <= CrashLimit
      BY <2>2, <3>4 DEF KillInv, PoisonInv, KillsAreRecorded
    <3>6. Unrecorded(asked)'
      <4>1. \A g \in Hubs \ {h} : work'[g] = work[g] /\ main'[g] = main[g]
        BY <2>1 DEF End, HubsTypeOK
      <4>2. \A g \in Hubs \ {h} : work[g] = "idle" /\ main[g] # "recorded"
        BY <2>2, <3>2 DEF KillInv, PoisonInv, OneIsHot, RecoversAlone, Hot, InHand
      <4>3. work'[h] = "idle" /\ main'[h] = "killed"
        BY <2>1 DEF End, HubsTypeOK
      <4> QED
        BY <2>1, <3>3, <4>1, <4>2, <4>3 DEF Unrecorded
    <3>7. kills' = [kills EXCEPT ![asked] = @ + 1] /\ kills \in [Query -> Nat]
      BY <2>1, <3>1 DEF HistoryTypeOK
    <3>8. kills'[asked] = kills[asked] + 1 /\ \A q \in Query \ {asked} : kills'[q] = kills[q]
      BY <3>1, <3>7
    <3>9. kills[asked] < CrashLimit
      BY <3>0, <3>3, <3>4, <3>5 DEF Blocked
    <3>10. \A q \in Query \ {asked} : kills'[q] <= crashes'[q] /\ kills'[q] <= CrashLimit
      BY <2>1, <3>5, <3>8
    <3>11. kills'[asked] <= crashes'[asked] + 1 /\ kills'[asked] <= CrashLimit
      BY <2>1, <3>0, <3>4, <3>5, <3>8, <3>9
    <3>12. \A q \in Query : crashes'[q] \in Nat
      BY <2>1, <3>4
    <3> QED
      BY <3>6, <3>8, <3>4, <3>10, <3>11, <3>12 DEF KillsAreRecorded
  <2> QED
    BY <2>1, <2>2, EndedHubsAreCold DEF KillInv, PoisonInv
<1>10. ASSUME NEW h \in Hubs, Finish(h)
      PROVE  KillInv'
  <2>1. /\ UNCHANGED <<lock, main, crashes, queue, at, kills, overlap>>
        /\ work[h] = "scoring" /\ work' = [work EXCEPT ![h] = "idle"] /\ marker' = None
        /\ \A g \in Hubs \ {h} : worker'[g] = worker[g]
    BY <1>10 DEF Finish, At, HubsTypeOK
  <2>2. \A r \in Reqs : stage'[r] = stage[r] \/ (stage[r] = "waiting" /\ stage'[r] = "reply")
    BY <1>10 DEF Finish, CallsTypeOK
  <2>3. WorkersRun' /\ JobsAreOwn'
    <3>1. \A g \in Hubs : Queued(g)' = Queued(g) /\ Queued(g) \subseteq Reqs
      BY <2>1 DEF Queued, HubsTypeOK
    <3>2. JobsAreOwn'
      BY <2>1, <2>2, <3>1 DEF KillInv, JobsAreOwn
    <3> QED
      BY <2>1, <3>2 DEF KillInv, WorkersRun, HubsTypeOK
  <2>4. \A g \in Hubs : Hot(g)' => Hot(g)
    BY <2>1, <2>2 DEF Hot, InHand, HubsTypeOK
  <2>5. ASSUME ~overlap PROVE PoisonInv'
    <3>1. Hot(h) /\ work'[h] = "idle" /\ \A g \in Hubs \ {h} : work'[g] = work[g]
      BY <2>1 DEF Hot, InHand, HubsTypeOK
    <3>2. OneIsHot' /\ RecoversAlone'
      BY <2>1, <2>4, <2>5 DEF KillInv, PoisonInv, OneIsHot, RecoversAlone
    <3>3. MarkerIsTrue'
      BY <2>1, <2>4, <2>5, <3>1 DEF KillInv, PoisonInv, OneIsHot, MarkerIsTrue
    <3>4. NotBlocked'
      BY <2>1, <2>2, <2>5, <3>1 DEF KillInv, PoisonInv, NotBlocked, Blocked
    <3>5. KillsAreRecorded'
      <4>1. \A asked \in Query : ~Unrecorded(asked) /\ crashes[asked] \in Nat /\ kills[asked] \in Nat
        BY <2>1 DEF Unrecorded, FilesTypeOK, HistoryTypeOK
      <4>2. \A asked \in Query : kills[asked] <= crashes[asked] /\ kills[asked] <= CrashLimit
        BY <2>5, <4>1 DEF KillInv, PoisonInv, KillsAreRecorded
      <4> QED
        BY <2>1, <4>1, <4>2 DEF KillsAreRecorded
    <3> QED
      BY <3>2, <3>3, <3>4, <3>5 DEF PoisonInv
  <2> QED
    BY <2>1, <2>3, <2>5 DEF KillInv
<1> QED
  BY <1>1, <1>2, <1>3, <1>4, <1>5, <1>6, <1>7, <1>8, <1>9, <1>10 DEF HubNext

LEMMA KillInductive == Inv /\ KillInv /\ [Next]_vars => KillInv'
<1> SUFFICES ASSUME Inv, KillInv, [Next]_vars PROVE KillInv'
  OBVIOUS
<1>1. CASE \E h \in Hubs : HubNext(h)
  BY <1>1, HubStepsKillFew DEF Inv
<1>2. CASE \E r \in Reqs : ReqNext(r)
  BY <1>2, CallStepsKillNobody DEF Inv
<1>3. CASE WindowPasses \/ UNCHANGED vars
  <2>1. UNCHANGED <<lock, main, poison, jobs, conn, kills, overlap>>
    BY <1>3 DEF WindowPasses, vars, endpoint, poison, notes, process, jobs, client, conn, farewell, ghosts
  <2> QED
    BY <2>1, SettlingSteps DEF Inv, Settles, conn
<1> QED
  BY <1>1, <1>2, <1>3 DEF Next

\* A request that kills the model call kills no more hubs than the limit, for
\* any numbers of hubs, calls and queries, outside kills and hubs that retire
\* while they score - unless one recovered while another was at work (Poison).
THEOREM KillsStayLimited == Spec => []KillsAreLimited
<1>1. KillInv => KillsAreLimited
  BY DEF KillInv, PoisonInv, KillsAreRecorded, KillsAreLimited
<1> QED
  BY <1>1, KillInit, KillInductive, AlwaysInv, PTL DEF Spec
=============================================================================

------------------------------- MODULE MCUpkeep -------------------------------
(* Model checking of Ladder, of Upkeep and of Lessons: parts that share no       *)
(* state, of which every behaviour has one while the others are at rest.         *)
(* "ladder": a CLI whose pin answers anything and one whose pin never answers     *)
(* badly, called by a run and by a search. "pass": a run's retention pass and a   *)
(* reindex. "jobs": two runs that unpark a session and look for a window.         *)
(* "window": a run, `brain compact` and a hook. "lessons": the stores of MCStores. *)
EXTENDS Ladder, Upkeep, Lessons, MCStores, TLC
CONSTANTS c1, c2, n, s, j, k, m, h
VARIABLE part

None     == {}
Both     == <<c1, c2>>
BothClis == {c1, c2}
OnlyC2   == {c2}
GoodOne  == {<<c2, 2>>}
RunAndSearch == {n, s}
OnlySearch   == {s}

Jobs       == {j, k, m}
OnlyM      == {m}
OnlyH      == {h}
OneSession == {"session"}

\* What the parts of Upkeep leave at rest.
OnlyJobs(S) == \A p \in Job \ S : stage'[p] = "off"
NoHook      == hookAt' = hookAt
NoSession   == parked' = parked
OneRow      == ripe' \subseteq {1} /\ rebuilds' = rebuilds

MCInit ==
  /\ part \in {"ladder", "pass", "jobs", "window", "lessons"}
  /\ LadderInit
  /\ UpkeepInit /\ parked = IF part = "jobs" THEN Sessions ELSE {}
  /\ Init /\ (part # "lessons" => ~flag)

MCNext ==
  \/ part = "ladder" /\ LadderNext /\ UNCHANGED <<part, upkeepVars, vars>>
  \/ part = "pass" /\ UpkeepNext /\ OnlyJobs({j}) /\ NoHook /\ NoSession /\ UNCHANGED <<part, ladderVars, vars>>
  \/ part = "jobs" /\ UpkeepNext /\ OnlyJobs({j, k}) /\ NoHook /\ OneRow /\ UNCHANGED <<part, ladderVars, vars>>
  \/ part = "window" /\ UpkeepNext /\ OnlyJobs({j, m}) /\ NoSession /\ OneRow /\ UNCHANGED <<part, ladderVars, vars>>
  \/ part = "lessons" /\ Next /\ UNCHANGED <<part, ladderVars, upkeepVars>>

MCSpec == MCInit /\ [][MCNext]_<<part, ladderVars, upkeepVars, vars>>

\* Every variable has its type.
AllTypesOK == LadderTypeOK /\ UpkeepTypeOK /\ LessonsTypeOK
=============================================================================

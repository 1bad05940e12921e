---------------------------- MODULE MCSessions ----------------------------
(* Model checking of Sessions: two runs on one session, in two scenarios.   *)
(* In the gentle one, that of the cfg, a run may be killed or meet an error *)
(* and another runs when the machine is idle; in the rough one nobody errs, *)
(* but a run is started with --force, a claim is taken over from a live run *)
(* that is slow, and hooks index long after they logged (of a session that  *)
(* is no one-shot).                                                         *)
EXTENDS Sessions
CONSTANTS a, b, c
VARIABLE scenario
Two      == {a, b}
OnlyA    == {a}
OnlyB    == {b}
None     == {}
First    == {1}
Second   == {2}

Rough == INSTANCE Sessions WITH
  Forced <- OnlyB, Idlers <- None, Loud <- Second, MinPending <- 1,
  LaggingHooks <- TRUE, SlowRuns <- TRUE, MayFail <- FALSE

MCInit == Init /\ scenario \in {"gentle", "rough"} /\ (scenario = "rough" => ~headless)
MCNext ==
  \/ scenario = "gentle" /\ Next /\ UNCHANGED scenario
  \/ scenario = "rough" /\ Rough!Next /\ UNCHANGED scenario
MCSpec == MCInit /\ [][MCNext]_<<vars, scenario>>
=============================================================================

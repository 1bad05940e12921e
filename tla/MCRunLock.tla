---------------------------- MODULE MCRunLock ----------------------------
(* Model checking of RunLock: three runs that take the lock once each.     *)
EXTENDS RunLock
CONSTANTS a, b, c
VARIABLE came  \* the runs that have come to the lock
Runs == {a, b, c}

MCInit == LockInit /\ came = {}
MCNext ==
  /\ LockNext
  /\ LET comes == {p \in Run : take[p] = "out" /\ take'[p] # "out"}
     IN  comes \cap came = {} /\ came' = came \cup comes
MCSpec == MCInit /\ [][MCNext]_<<lockVars, came>>
=============================================================================

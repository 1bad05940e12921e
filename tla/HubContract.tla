---------------------------- MODULE HubContract ----------------------------
(***************************************************************************)
(* What the shared reranker promises its callers, whatever the mechanism   *)
(* (src/src/hub/server.rs, the module comment): at most one hub of a data  *)
(* dir takes requests at a time; a hub that leaves of its own accord first *)
(* stops taking requests and answers every request it took; only a killed  *)
(* process loses one.  Hub is shown to implement it.                       *)
(***************************************************************************)
CONSTANTS Hubs, Reqs, None

VARIABLES phase,   \* "off", "open", "draining", "left" or "killed", per hub
          fate,    \* "new", "owed", "answered" or "lost", per request
          keeper   \* the hub that owes it an answer

cvars == <<phase, fate, keeper>>

CInit ==
  /\ phase = [h \in Hubs |-> "off"]
  /\ fate = [r \in Reqs |-> "new"]
  /\ keeper = [r \in Reqs |-> None]

OwedBy(h) == {r \in Reqs : fate[r] = "owed" /\ keeper[r] = h}

Open(h) ==
  /\ phase[h] = "off"
  /\ \A g \in Hubs : phase[g] # "open"
  /\ phase' = [phase EXCEPT ![h] = "open"]
  /\ UNCHANGED <<fate, keeper>>

Take(h, r) ==
  /\ phase[h] = "open"
  /\ fate[r] = "new"
  /\ fate' = [fate EXCEPT ![r] = "owed"]
  /\ keeper' = [keeper EXCEPT ![r] = h]
  /\ UNCHANGED phase

Answer(h, r) ==
  /\ phase[h] \in {"open", "draining"}
  /\ r \in OwedBy(h)
  /\ fate' = [fate EXCEPT ![r] = "answered"]
  /\ keeper' = [keeper EXCEPT ![r] = None]
  /\ UNCHANGED phase

Close(h) ==
  /\ phase[h] = "open"
  /\ phase' = [phase EXCEPT ![h] = "draining"]
  /\ UNCHANGED <<fate, keeper>>

Leave(h) ==
  /\ phase[h] = "draining"
  /\ OwedBy(h) = {}
  /\ phase' = [phase EXCEPT ![h] = "left"]
  /\ UNCHANGED <<fate, keeper>>

Die(h) ==
  /\ phase[h] \in {"off", "open", "draining"}
  /\ phase' = [phase EXCEPT ![h] = "killed"]
  /\ fate' = [r \in Reqs |-> IF r \in OwedBy(h) THEN "lost" ELSE fate[r]]
  /\ keeper' = [r \in Reqs |-> IF r \in OwedBy(h) THEN None ELSE keeper[r]]

CNext == \E h \in Hubs :
  \/ Open(h) \/ Close(h) \/ Leave(h) \/ Die(h)
  \/ \E r \in Reqs : Take(h, r) \/ Answer(h, r)

CSpec == CInit /\ [][CNext]_cvars
=============================================================================

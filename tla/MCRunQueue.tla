---------------------------- MODULE MCRunQueue ----------------------------
(* Model checking of RunQueue. A scenario says what every process is       *)
(* started for; "s" asks for a session without force, "f" for the same     *)
(* session with force, "all" for every project.                            *)
EXTENDS RunQueue, TLC
CONSTANTS a, b, c, d, e
Contents     == {"s", "f", "all"}
OneSession   == {"s"}
Five         == {a, b, c, d, e}
OnlyA        == {a}
OnlyC        == {c}
EachForItself == (a :> "s" @@ b :> "s" @@ c :> "all" @@ d :> IdleSweep @@ e :> Compactor)

\* The idle sweep with two identical asks, or with two of different content; the
\* compactor with such two, or with the sweep and the run that finish_yield may
\* start.
Scenes == {{a, b, d}, {a, c, d}, {a, c, e}, {a, d, e}}
MCInit == Init /\ {p \in Run : pc[p] = "new"} \in Scenes
MCSpec == MCInit /\ [][Next]_vars
=============================================================================

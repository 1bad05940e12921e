------------------------------ MODULE MCStores ------------------------------
(***************************************************************************)
(* Stores to begin with for the model checking of Lessons, each with what it *)
(* uses up of the bounds - two acts, one visit, one kill. Cleans: a cleanup  *)
(* that has yet to run over two lessons of one fact, one of them corrected.  *)
(* Sweeps: two lessons whose daily labels go on while a person acts.         *)
(* Moving, Acting: two projects with the same lesson of the machine, while a *)
(* run visits; a person acts once and a run is killed, or a person acts twice. *)
(***************************************************************************)
CONSTANTS f, g

Facts == {f, g}
OnlyG == {g}

Cleans == [place |-> <<1, 1>>, fact |-> <<f, f>>, label |-> <<"none", "none">>, fixed |-> {2}, flag |-> FALSE,
           spent |-> [acts |-> 2, visits |-> 1, mishaps |-> 0]]
Sweeps == [place |-> <<1, 1>>, fact |-> <<f, g>>, label |-> <<"none", "none">>, fixed |-> {}, flag |-> TRUE,
           spent |-> [acts |-> 1, visits |-> 1, mishaps |-> 1]]
Moving == [place |-> <<1, 2>>, fact |-> <<f, f>>, label |-> <<"machine", "machine">>, fixed |-> {}, flag |-> TRUE,
           spent |-> [acts |-> 1, visits |-> 0, mishaps |-> 0]]
Acting == [Moving EXCEPT !.spent = [acts |-> 0, visits |-> 0, mishaps |-> 1]]
Stores == {Cleans, Sweeps, Moving, Acting}

\* To see the cleanup come to its end, nobody acts.
Alone  == [acts |-> 2, visits |-> 1, mishaps |-> 1]
Ending == {[s EXCEPT !.spent = Alone] : s \in {Cleans, Sweeps, Moving}}
=============================================================================

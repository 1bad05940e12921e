---------------------------- MODULE MCInjection ----------------------------
(* Model checking of Injection: the primer of a session whose context is    *)
(* wiped, a hook about a file or a shell command, and the run that folds.   *)
EXTENDS Injection, TLC
CONSTANTS a, b, x, y
Two      == {a, b}
OnlyA    == {a}
None     == {}
FoldAndB == {b, "folder"}
Pointers == {x, y}
OneOf    == {x}
Alike    == Permutations(Pointers)
OnAFile  == (a :> "primer" @@ b :> "file")
OnAShell == (a :> "primer" @@ b :> "command")
=============================================================================

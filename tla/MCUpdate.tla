------------------------------ MODULE MCUpdate ------------------------------
(* Model checking of Update: two hooks and one updater, three releases, the *)
(* last of which fails every hook.                                          *)
EXTENDS Update
CONSTANTS a, b, u
Two   == {a, b}
OnlyU == {u}
Last  == {MaxVersion}
=============================================================================

----------------------------- MODULE MCLessons -----------------------------
(* Model checking of Lessons from the stores of MCStores. *)
EXTENDS Lessons, MCStores
=============================================================================

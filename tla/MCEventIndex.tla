---------------------------- MODULE MCEventIndex ----------------------------
(* Model checking of EventIndex: the page "t", and who writes about it. A       *)
(* behaviour has one of the casts. Three are of a person and a cleanup that     *)
(* forget the page at the same time, with two of these three: a catch-up that   *)
(* never fails (always there where another one does), one that may, a reindex.  *)
(* In the fourth, a person, synthesis, a cleanup and a restore revise the page, *)
(* nearly in turn, and a sync brings another machine's. In the last another     *)
(* sync merges beside the person's forget and who writes another page, and a    *)
(* catch-up comes when all are at rest.                                         *)
EXTENDS EventIndex, TLC
CONSTANTS t, v, w, x, y, z, f, o, c, d, e, r, q, s
None      == {}
Trio      == {t, v, w}
Eight     == {t, v, w, x, y, z, f, o}
OneCatch  == {c}
Catches   == {c, d, e}
Builds    == {r, q, s}
TwoSyncs  == {q, s}
OnlyV     == {v}
VAndD     == {v, d}
InTurn    == {x, y, z, q, e}
\* A person's forget against a cleanup's.
Forgets   == (t :> "page" @@ v :> "forget" @@ w :> "clean")
Revising  == Forgets @@ (x :> "correct" @@ y :> "supersede" @@ z :> "restore"
                         @@ f :> "foreign" @@ o :> "page")
OneCast   == {{t, v, w, c}}
AllCasts  == {{t, v, w, c, r}, {t, v, w, c, d}, {t, v, c, d, r},
              {t, w, f, c, x, y, z, q}, {t, v, o, e, s}}
=============================================================================

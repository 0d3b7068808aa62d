----------------------------- MODULE MCHaActors -----------------------------
EXTENDS HaActors, TLC

CONSTANTS v1, v2, d1, d2

\* Main DPUs: v2 may be moved between chassis.
SecondMoves == v1 :> {d1} @@ v2 :> {d1, d2}

\* Values of vdpu_ids and of preferred_vdpu_ids.
OneOrder == {<<v1, v2>>}
SecondFirst == {<<v2>>}
=============================================================================

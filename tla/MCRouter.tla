------------------------------ MODULE MCRouter ------------------------------
(* Instances of Router: one middleware or three in a call of Use, which     *)
(* reach capacities with and without room.                                  *)
EXTENDS Router

CONSTANTS m1, m2

OneOrThree == {<<m1>>, <<m2>>, <<m1, m2, m1>>}
=============================================================================

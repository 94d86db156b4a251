--------------------------- MODULE MCJitterBuffer ---------------------------
(* Model values for JitterBuffer: a frame lasts two or three units, so that *)
(* a pull can stop inside a frame and start in another.                     *)
EXTENDS JitterBuffer

MCTimes   == {0, 2, 4, 9}
MCTargets == {-3, 0, 3, 7}
=============================================================================

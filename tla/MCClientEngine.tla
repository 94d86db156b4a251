--------------------------- MODULE MCClientEngine ---------------------------
(* Instances of ClientEngine are given by the configurations alone: with    *)
(* four packets and a cap of one, gaps within and beyond the cap occur, and *)
(* packets that are late for either.                                        *)
EXTENDS ClientEngine
=============================================================================

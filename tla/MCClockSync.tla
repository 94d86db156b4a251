---------------------------- MODULE MCClockSync ----------------------------
(* Model values for ClockSync: the server's clock is behind and ahead of    *)
(* the client's, by an odd and an even number of units.                     *)
EXTENDS ClockSync

MCSkews == {-3, 2}
=============================================================================

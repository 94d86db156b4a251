--------------------------- MODULE MCControlPlane ---------------------------
(* Model values for ControlPlane.  The channels are the mask every client   *)
(* starts with and one other.                                               *)
EXTENDS ControlPlane, TLC

CONSTANTS c1, c2, r1, r2, mono, left

MCClients  == {c1, c2}
MCOne      == {c1}
MCChannels == {mono, left}
MCRequest  == {r1}
MCRequests == {r1, r2}
MCSymmetry == Permutations(MCClients)
=============================================================================

------------------------- MODULE MCLatencyEqualizer -------------------------
(* Model values for LatencyEqualizer: the constants of latency.go and        *)
(* reports less and more than the threshold of 10 ms apart, on both sides of *)
(* the 30 ms of the frame-size switch, and one that exceeds the maximum.     *)
EXTENDS LatencyEqualizer, TLC

CONSTANTS c1, c2

MCClients  == {c1, c2}
MCReports  == {3, 29, 36, 600}
MCSymmetry == Permutations(MCClients)
=============================================================================

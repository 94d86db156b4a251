----------------------------- MODULE MCCapture -----------------------------
(* Instances of Capture are given by the configurations alone: a packet is  *)
(* longer than a frame, so that frames straddle packets, and the ring holds *)
(* less than two packets, so that packets wrap and a late reader is lapped. *)
EXTENDS Capture
=============================================================================

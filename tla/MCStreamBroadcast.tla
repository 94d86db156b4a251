-------------------------- MODULE MCStreamBroadcast --------------------------
(* Model values for StreamBroadcast: a surround layout of two channels, of   *)
(* which a client may be assigned the first, or the stereo mix.              *)
EXTENDS StreamBroadcast

CONSTANTS left, right, mix

MCChannels == {left, right, mix}
MCLayout   == <<left, right>>
=============================================================================

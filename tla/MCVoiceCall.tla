---------------------------- MODULE MCVoiceCall ----------------------------
(* Model checking of VoiceCall.                                            *)
EXTENDS VoiceCall

CONSTANTS c1, r1, w1
============================================================================

---------------------------- MODULE MCChatClient ----------------------------
(* Model checking of ChatClient.                                           *)
EXTENDS ChatClient

CONSTANTS w1, w2, none
=============================================================================

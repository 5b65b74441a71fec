----------------------------- MODULE MCChatApp -----------------------------
(* ChatApp with the model values of its friends, for TLC.                   *)
EXTENDS ChatApp

CONSTANTS a, b
=============================================================================

----------------------------- MODULE MCChatEcho -----------------------------
(* ChatEcho for TLC; the constants get their values in the .cfg files.     *)
EXTENDS ChatEcho
=============================================================================

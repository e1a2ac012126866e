---------------------------- MODULE MCSerialDemo ----------------------------
(* SerialDemo for TLC; the commands are the program's own.                  *)
EXTENDS SerialDemo
=============================================================================

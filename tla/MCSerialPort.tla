---------------------------- MODULE MCSerialPort ----------------------------
(* SerialPort for TLC; the constants get their values in the .cfg files.   *)
EXTENDS SerialPort
=============================================================================

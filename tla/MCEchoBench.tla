---------------------------- MODULE MCEchoBench ----------------------------
(* EchoBench for TLC; the constants get their values in the .cfg files.    *)
EXTENDS EchoBench
=============================================================================

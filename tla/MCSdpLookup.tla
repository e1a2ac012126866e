---------------------------- MODULE MCSdpLookup ----------------------------
(* SdpLookup for TLC; the constants are in the configuration.              *)
EXTENDS SdpLookup
=============================================================================

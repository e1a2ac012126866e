----------------------------- MODULE MCBtTypes -----------------------------
(* BtTypes for TLC: bytes of two binary digits, addresses of 3 bytes and   *)
(* UUIDs of 5, with the layout of a GUID kept: one field of two bytes, two *)
(* shorter ones, and the rest.                                             *)
EXTENDS BtTypes

MCBaseUuid  == <<0, 0, 0, 0, 2>>
MCGuidSplit == <<2, 3, 4>>
=============================================================================

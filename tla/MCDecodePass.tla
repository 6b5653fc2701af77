---------------------------- MODULE MCDecodePass ----------------------------
(***************************************************************************)
(* Instances of DecodePass for TLC.                                        *)
(***************************************************************************)
EXTENDS DecodePass

OneSignature == {{}}
=============================================================================

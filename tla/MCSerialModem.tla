---------------------------- MODULE MCSerialModem ----------------------------
(***************************************************************************)
(* Instance of SerialModem for TLC.                                        *)
(***************************************************************************)
EXTENDS SerialModem
=============================================================================

----------------------------- MODULE MCUssdQueue -----------------------------
(***************************************************************************)
(* Instance of UssdQueue for TLC.                                          *)
(***************************************************************************)
EXTENDS UssdQueue
=============================================================================

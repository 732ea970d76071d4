------------------------------- MODULE MCInbox -------------------------------
(***************************************************************************)
(* Instance of Inbox for TLC.                                              *)
(***************************************************************************)
EXTENDS Inbox
=============================================================================

--------------------------- MODULE MCCallbackPath ---------------------------
(***************************************************************************)
(* Instance of CallbackPath for TLC: one modem, one message.               *)
(***************************************************************************)
EXTENDS CallbackPath

CONSTANT d1

OneModem == {{d1}}
=============================================================================

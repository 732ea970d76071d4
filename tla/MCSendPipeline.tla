--------------------------- MODULE MCSendPipeline ---------------------------
(***************************************************************************)
(* Instances of SendPipeline for TLC: two modems, of which a restart may   *)
(* find only the first configured.                                         *)
(***************************************************************************)
EXTENDS SendPipeline

CONSTANTS d1, d2

BothModems == {{d1, d2}}
Refitted == {{d1, d2}, {d1}}
=============================================================================

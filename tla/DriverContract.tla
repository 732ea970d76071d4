--------------------------- MODULE DriverContract ---------------------------
(***************************************************************************)
(* What a driver's sendSMS promises its caller, one call at a time.  The   *)
(* worker decides on a retry by the verdict alone (bull.config.js:57-67),  *)
(* so a verdict must tell what became of the text:                         *)
(*                                                                         *)
(*   ok       the modem took the text, whole and once                      *)
(*   confirm  the text was given to the modem, and whether it took it the  *)
(*            driver cannot say: never to be retried                       *)
(*   error    the modem does not have the whole text, unless the driver    *)
(*            lost sight of it (blind): to be retried                      *)
(*                                                                         *)
(* SendPipeline's steps HandOver, FailsEarly, ModemRefuses, AnswerLost,    *)
(* ConfirmTimesOut and Confirmed are these steps as the worker sees them.  *)
(*                                                                         *)
(* Sources: config/bull.config.js, utils/modem.js, utils/zte-http.js,      *)
(* utils/adb.js.                                                           *)
(***************************************************************************)
EXTENDS Naturals

VARIABLES
    sending,  \* a sendSMS runs
    given,    \* it has given the modem at least a part of the text
    taken,    \* complete copies the modem took
    blind,    \* the driver lost sight of a command: its answer was lost
    verdict   \* what the last send ended with

contractVars == <<sending, given, taken, blind, verdict>>

Verdicts == {"ok", "error", "confirm"}

TypeOK ==
    /\ sending \in BOOLEAN /\ given \in BOOLEAN /\ blind \in BOOLEAN
    /\ taken \in {0, 1}
    /\ verdict \in Verdicts \union {"none"}

Init ==
    /\ sending = FALSE /\ given = FALSE /\ blind = FALSE
    /\ taken = 0 /\ verdict = "none"

\* The next call of the chain starts, a send or another.
Begin ==
    /\ ~sending
    /\ sending' \in BOOLEAN
    /\ given' = FALSE /\ taken' = 0 /\ blind' = FALSE /\ verdict' = "none"

\* The modem is given a part of the text, perhaps by a command that the driver
\* gave up on.
Give ==
    /\ sending \/ blind
    /\ given' = TRUE
    /\ UNCHANGED <<sending, taken, blind, verdict>>

\* The modem takes the text, perhaps after the call ended without knowing.
Take ==
    /\ taken = 0
    /\ sending \/ blind \/ (given /\ verdict = "confirm")
    /\ given' = TRUE /\ taken' = 1
    /\ UNCHANGED <<sending, blind, verdict>>

LoseAnswer ==
    /\ sending
    /\ blind' = TRUE
    /\ UNCHANGED <<sending, given, taken, verdict>>

\* The call ends, perhaps with the loss of the answer.
Return(v) ==
    /\ sending
    /\ v = "ok" => taken = 1
    /\ v = "confirm" => given
    /\ blind' \in {blind, TRUE}
    /\ v = "error" => taken = 0 \/ blind'
    /\ sending' = FALSE /\ verdict' = v
    /\ UNCHANGED <<given, taken>>

Next == Begin \/ Give \/ Take \/ LoseAnswer \/ \E v \in Verdicts : Return(v)

Spec == Init /\ [][Next]_contractVars

-----------------------------------------------------------------------------
\* What the worker builds on: a retry after `error` repeats a text the modem
\* has only if the driver was blind, and `ok` and `confirm` speak of a text
\* that was given (bull.config.js:59-67).
VerdictTells ==
    /\ verdict = "ok" => taken = 1
    /\ verdict = "error" => taken = 0 \/ blind
    /\ verdict \in {"ok", "confirm"} => given
=============================================================================

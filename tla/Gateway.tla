------------------------------- MODULE Gateway -------------------------------
(***************************************************************************)
(* A text on its way through the gateway: start-up (LegacyImport), POST    *)
(* /sms/send with the checks of validateSend, the worker's choice of a     *)
(* modem, the driver's own check and the cutting and coding of the text    *)
(* (SmsEncoding), over restarts that may find another fleet.               *)
(*                                                                         *)
(* How the job gets from the request to the worker, and every failure on   *)
(* that way, is SendPipeline's; here a job waits, runs or is over.         *)
(*                                                                         *)
(* Sources: router/router.js, utils/pool.js, config/bull.config.js,        *)
(* utils/modem.js, utils/zte-http.js, utils/adb.js, store/db.js.           *)
(***************************************************************************)
EXTENDS SmsEncoding, LegacyImport

CONSTANTS
    Modems, NoModem,
    DriverOf,        \* the driver of each modem
    Fleets,          \* the MODEMS settings a start may find, in their order
    Texts,           \* what is sent
    Disturbed,       \* bound: the texts that meet failures and restarts
    Numbers,         \* recipients: [plus, digits]
    Row,             \* the id of the row POST /send writes
    MaxAttempts, MaxCrashes

ASSUME GatewayAssumption ==
    /\ NoModem \notin Modems /\ Row \notin LegacyIds
    /\ DriverOf \in [Modems -> {"serial", "zte-http", "adb"}]
    /\ Fleets \subseteq Seq(Modems) /\ \A f \in Fleets : f # <<>> /\ IsInjective(f)
    /\ Disturbed \subseteq Texts /\ <<>> \notin Texts
    /\ MaxAttempts \in Nat \ {0} /\ MaxCrashes \in Nat

VARIABLES
    fleet,    \* pool.js: the configured modems, in order
    up,       \* those that report a connection
    rr,       \* pool.js: round-robin counter
    job,      \* the message's job
    text, to, pin,
    at,       \* the modem of the running attempt
    tries,    \* attempts that failed
    air,      \* what the modem was given: [kind, parts]
    crashes,
    load,     \* history: picks of each modem since `up` or `fleet` changed
    refit,    \* history: another fleet than the one that accepted the message
    refused   \* history: a driver found the text too long

poolVars == <<fleet, up, rr, load>>
jobVars  == <<job, text, to, pin, at, tries, air, refused>>
vars == <<importVars, poolVars, jobVars, crashes, refit>>

Nothing == [kind |-> "nothing", parts |-> <<>>]
Nobody  == [plus |-> FALSE, digits |-> <<>>]

\* Start-up, pool and job keep their types.
TypeOK ==
    /\ ImportTypeOK /\ table \subseteq LegacyIds \union {Row}
    /\ fleet \in Fleets /\ up \subseteq ToSet(fleet) /\ rr \in Nat
    /\ job \in {"none", "waiting", "running", "sent", "failed", "unconfirmed"}
    /\ text \in Texts \union {<<>>} /\ to \in Numbers \union {Nobody}
    /\ pin \in Modems \union {NoModem} /\ at \in Modems \union {NoModem}
    /\ tries \in 0..MaxAttempts /\ crashes \in 0..MaxCrashes
    /\ air.kind \in {"nothing", "text", "hex", "pdus", "shell"}
    /\ load \in [Modems -> Nat] /\ refit \in BOOLEAN /\ refused \in BOOLEAN

\* isConnected of the zte-http driver is always true.
AlwaysUp(f) == {m \in ToSet(f) : DriverOf[m] = "zte-http"}

Init ==
    /\ ImportInit
    /\ fleet \in Fleets /\ up = AlwaysUp(fleet) /\ rr = 0
    /\ load = [m \in Modems |-> 0]
    /\ job = "none" /\ text = <<>> /\ to = Nobody /\ pin = NoModem /\ at = NoModem
    /\ tries = 0 /\ air = Nothing /\ refused = FALSE
    /\ crashes = 0 /\ refit = FALSE

-----------------------------------------------------------------------------
\* Start-up.

Boot ==
    /\ BootStep
    /\ UNCHANGED <<poolVars, jobVars, crashes, refit>>

Fix == Repair /\ UNCHANGED <<poolVars, jobVars, crashes, refit>>

-----------------------------------------------------------------------------
\* POST /sms/send.

\* Only some texts meet more than the straight way.
Straight == crashes = 0 /\ file = "none" /\ rr = 0 /\ up = AlwaysUp(fleet)

analyzeFor(m, t) ==
    IF DriverOf[m] = "zte-http" THEN analyzeUcs2(t) ELSE analyzeMessage(t)

\* Mutant: the modem whose turn it is must fit.
Candidates_Next(d) == IF d = NoModem THEN {fleet[(rr % Len(fleet)) + 1]} ELSE {d}

\* Without a pin the message must fit every modem.
Candidates(d) == IF d = NoModem THEN ToSet(fleet) ELSE {d}

\* What validateSend lets through gets a row and a job; what it does not, a 400
\* and nothing else.
PostSend ==
    /\ boot = "serving" /\ job = "none"
    /\ \E t \in Texts, number \in Numbers, d \in ToSet(fleet) \union {NoModem} :
          /\ t \in Disturbed \/ Straight
          /\ \A m \in Candidates(d) : analyzeFor(m, t).ok
          /\ text' = t /\ to' = number /\ pin' = d
    /\ table' = table \union {Row}
    /\ job' = "waiting"
    /\ UNCHANGED <<boot, file, poolVars, at, tries, air, refused, crashes, refit>>

-----------------------------------------------------------------------------
\* The worker.

\* The connected modems, all of them when there is none.
Pool == IF up = {} THEN ToSet(fleet) ELSE up

Place(m) == CHOOSE i \in DOMAIN fleet : fleet[i] = m

\* Mutant: the counter is never looked at.
IsPick_First(m, n) == \A d \in Pool : Place(m) <= Place(d)

\* m is number n of the pool in the order of MODEMS, going round.
IsPick(m, n) == Cardinality({d \in Pool : Place(d) < Place(m)}) = n % Cardinality(Pool)

\* A message without a pin takes the next modem; a pin that is not configured
\* is an UnrecoverableError.
TakeJob ==
    /\ boot = "serving" /\ job = "waiting"
    /\ \/ /\ pin = NoModem
          /\ \E m \in Pool :
                IsPick(m, rr) /\ at' = m /\ load' = [load EXCEPT ![m] = @ + 1]
          /\ rr' = rr + 1
          /\ job' = "running"
       \/ /\ pin # NoModem
          /\ job' = IF pin \in ToSet(fleet) THEN "running" ELSE "unconfirmed"
          /\ at' = pin
          /\ UNCHANGED <<rr, load>>
    /\ UNCHANGED <<importVars, fleet, up, text, to, pin, tries, air, refused, crashes,
                   refit>>

\* A failed attempt is retried until there have been MaxAttempts.
Fail ==
    /\ tries' = tries + 1
    /\ job' = IF tries + 1 = MaxAttempts THEN "failed" ELSE "waiting"
    /\ at' = NoModem
    /\ UNCHANGED <<importVars, poolVars, text, to, pin, air, crashes, refit>>

\* The driver's own "Message too long".
TooLong ==
    /\ boot = "serving" /\ job = "running"
    /\ ~analyzeFor(at, text).ok
    /\ refused' = TRUE
    /\ Fail

\* Whatever else makes a driver reject.
SendFails ==
    /\ boot = "serving" /\ job = "running" /\ text \in Disturbed
    /\ analyzeFor(at, text).ok
    /\ UNCHANGED refused
    /\ Fail

\* A serial modem is given a single SMS as text or UCS2 hex, a long one as PDUs
\* under one random reference; a stick the text as hex; the phone its parts.
\* The text goes to the port in UTF-8 although AT+CSCS="GSM" announces GSM codes.
Transmission(m, t, number, ref) ==
    LET info == analyzeFor(m, t)
    IN  IF DriverOf[m] = "zte-http" THEN [kind |-> "hex", parts |-> <<ucs2Octets(t)>>]
        ELSE IF DriverOf[m] = "adb" THEN [kind |-> "shell", parts |-> splitMessage(t)]
        ELSE IF info.segments > 1
        THEN [kind |-> "pdus",
              parts |-> buildConcatPdus(number, splitMessage(t), info.encoding, ref)]
        ELSE IF info.encoding = "GSM" THEN [kind |-> "text", parts |-> <<utf8Octets(t)>>]
        ELSE [kind |-> "hex", parts |-> <<ucs2Octets(t)>>]

Send ==
    /\ boot = "serving" /\ job = "running"
    /\ analyzeFor(at, text).ok
    /\ air' = Transmission(at, text, to, 7)
    /\ job' = "sent"
    /\ UNCHANGED <<importVars, poolVars, text, to, pin, at, tries, refused, crashes, refit>>

-----------------------------------------------------------------------------
\* The environment.

\* A modem connects or is lost; left out once it can no longer matter.
Connection(m) ==
    /\ boot = "serving" /\ text \in Disturbed \union {<<>>} /\ job # "sent"
    /\ m \in ToSet(fleet) \ AlwaysUp(fleet)
    /\ up' = IF m \in up THEN up \ {m} ELSE up \union {m}
    /\ load' = [d \in Modems |-> 0]
    /\ UNCHANGED <<importVars, fleet, rr, jobVars, crashes, refit>>

\* The process dies, perhaps during start-up; the next one may find another
\* fleet.  A running job is stalled and waits again.
Crash ==
    /\ crashes < MaxCrashes /\ text \in Disturbed \union {<<>>}
    /\ Stop
    /\ crashes' = crashes + 1
    /\ fleet' \in Fleets
    /\ up' = AlwaysUp(fleet') /\ rr' = 0 /\ load' = [m \in Modems |-> 0]
    /\ job' = IF job = "running" THEN "waiting" ELSE job
    /\ at' = IF job = "running" THEN NoModem ELSE at
    /\ refit' = (refit \/ (job # "none" /\ fleet' # fleet))
    /\ UNCHANGED <<text, to, pin, tries, air, refused>>

Next ==
    \/ Boot \/ Fix \/ Crash
    \/ PostSend \/ TakeJob \/ TooLong \/ SendFails \/ Send
    \/ \E m \in Modems : Connection(m)

Spec == Init /\ [][Next]_vars

-----------------------------------------------------------------------------
\* Start-up imports the old log whole or not at all, although it may be cut
\* short anywhere and requests write to the same table (db.js:67-110).
ImportSafe == ImportWhole

\* A message the API accepted is never refused as too long by a modem of the
\* fleet it was accepted for: the API's check and each driver's own agree
\* (router.js:84-98; "the message must fit every modem's limits").
AcceptedFits == refused => refit

\* While the same modems are connected, none of them is picked twice more often
\* than another, whatever was picked before, and none that is not connected as
\* long as there is one that is (pool.js:1-5, "spread round-robin across the
\* modems that currently report a connection").
Spread ==
    LET equal == IF up = {} THEN ToSet(fleet) ELSE up
    IN  \A m \in Modems : IF m \in equal THEN \A d \in equal : load[m] <= load[d] + 1
                                           ELSE load[m] = 0

\* No part that leaves the gateway begins with the second half of a pair whose
\* first half ended the part before it.
PairsWhole(parts) ==
    \A i \in 1..Len(parts) - 1 : ~(Last(parts[i]) = "hi" /\ Head(parts[i + 1]) = "lo")

\* The recipient can read what was sent: each SMS fits its octets and can be
\* read by itself, at most MaxSegments of them, and together, in their order,
\* they are the text; the parts of a PDU message carry one reference, the
\* right numbers and the recipient (sms-encoding.js:52-88, pdu.js:47-100).
\* Excused: in a single SMS as text, units whose code is not their octet.
Readable ==
    LET tpdus == FlattenSeq([i \in DOMAIN air.parts |-> <<Decode(air.parts[i])>>])
        parts == CASE air.kind = "text"  -> <<ReadGsm7(air.parts[1])>>
                   [] air.kind = "hex"   -> <<ReadUcs2(air.parts[1])>>
                   [] air.kind = "pdus"  -> [i \in DOMAIN tpdus |-> tpdus[i].text]
                   [] air.kind = "shell" -> air.parts
    IN  job = "sent" =>
        /\ \/ FlattenSeq(parts) = text
           \/ air.kind = "text" /\ ToSet(text) \intersect {"a", "e"} # {}
        /\ Len(parts) <= MaxSegments
        /\ PairsWhole(parts)
        /\ air.kind = "shell" =>
              \A i \in DOMAIN parts :
                 IF IsGsm7(parts[i]) THEN SeptetsOf(parts[i]) <= GsmSingle
                                     ELSE Len(parts[i]) <= UcsSingle
        /\ air.kind = "text" => SeptetsOf(text) <= GsmSingle
        /\ air.kind = "hex" /\ DriverOf[at] = "serial" => Len(air.parts[1]) <= Octets
        /\ air.kind = "pdus" =>
              \A i \in DOMAIN tpdus :
                 /\ tpdus[i].to = to /\ tpdus[i].whole /\ tpdus[i].size <= Octets
                 /\ tpdus[i].ref = 7
                 /\ tpdus[i].part = i /\ tpdus[i].total = Len(tpdus)
=============================================================================

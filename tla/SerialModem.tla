----------------------------- MODULE SerialModem -----------------------------
(***************************************************************************)
(* The serial driver: calls that run one at a time (serialize.js), each a  *)
(* script of AT commands; a command is settled by the next terminal line,  *)
(* the "> " prompt, its timer or the closing of the port (of which a       *)
(* failed write is the first sign).                                        *)
(* The modem behind the port is external: it answers in order, late or not *)
(* at all, and reads what is written at an open prompt as message text.    *)
(*                                                                         *)
(* A callback of the driver runs to its end, with the continuations it     *)
(* causes, before the next event: see Continues.                           *)
(*                                                                         *)
(* Source: utils/modem.js.                                                 *)
(***************************************************************************)
EXTENDS Integers, Sequences

CONSTANTS
    Kinds,         \* the calls that are made
    MaxCalls,      \* bound: only the first so many calls are any but initModem
    MaxCloses,     \* bound: how often the port closes
    DrainsInQuiet, \* a reply comes within the 2 s after its timeout, or never
    CloseCancels   \* a modem whose port closes leaves a message body it was reading

ASSUME SerialAssumption ==
    /\ Kinds \subseteq {"single", "multi", "ussd", "read", "ping"}
    /\ MaxCalls \in Nat /\ MaxCloses \in Nat
    /\ DrainsInQuiet \in BOOLEAN /\ CloseCancels \in BOOLEAN

VARIABLES
    open,     \* connected
    due,      \* initModem calls still in the chain
    active,   \* a call is running
    call,     \* its kind (or the kind of the last one)
    n,        \* its number
    pc,       \* the step of its script it is at
    cmd,      \* currentCommand is set: step pc of call n
    quiet,    \* now < quietUntil
    fate,     \* what the call resolves or rejects with
    waiters,  \* urcWaiters: the calls that registered them
    reply,    \* the session whose +CUSD line the call got, 0 for null
    rx,       \* written to the port, not yet read by the modem
    tx,       \* lines and prompts of the modem, not yet read by the driver
    text,     \* modem: AT+CMGF=1
    prompt,   \* modem: reading a message body
    sessions, \* modem: USSD sessions the network has not answered yet
    written,  \* history: bodies written by the call
    taken,    \* history: bodies of the call the modem took
    lost,     \* history: the port closed while a body was being confirmed
    heard,    \* history: the running session's own +CUSD line arrived
    blunders, \* history: what must never happen in the dialogue
    closes    \* history: times the port closed

driverVars == <<active, call, n, pc, cmd, fate, waiters, reply>>
modemVars  == <<text, prompt, sessions, taken>>
histVars   == <<written, lost, heard>>
vars == <<open, due, driverVars, quiet, rx, tx, modemVars, histVars, blunders, closes>>

-----------------------------------------------------------------------------
\* Mutant: the modem is taken to be in text mode already.
Script_NoMode(k) ==
    CASE k = "init"   -> <<"SETUP", "SETUP", "TEXT">>
      [] k = "single" -> <<"SETUP", "CMGS", "BODY">>
      [] k = "multi"  -> <<"PDU", "CMGS-PDU", "BODY", "CMGS-PDU", "BODY">>
      [] k = "ussd"   -> <<"SETUP", "CUSD", "URC">>
      [] k = "read"   -> <<"SETUP", "CMGL">>
      [] k = "ping"   -> <<"SETUP">>

\* The commands of each call.  TEXT and PDU set the mode, SETUP stands for a
\* run of commands that change nothing the model has (AT, ATE0, CSCS, CSMP,
\* CSCA, CPMS), URC waits for +CUSD.  A long message has two parts here.
Script(k) ==
    CASE k = "init"   -> <<"SETUP", "SETUP", "TEXT">>
      [] k = "single" -> <<"TEXT", "SETUP", "CMGS", "BODY">>
      [] k = "multi"  -> <<"PDU", "CMGS-PDU", "BODY", "CMGS-PDU", "BODY">>
      [] k = "ussd"   -> <<"SETUP", "CUSD", "URC">>
      [] k = "read"   -> <<"TEXT", "SETUP", "CMGL">>
      [] k = "ping"   -> <<"SETUP">>

\* The commands that end where they are answered, and all of them.
Harmless == {"SETUP", "TEXT", "PDU", "CMGL", "CUSD"}
Commands == Harmless \union {"CMGS", "CMGS-PDU", "BODY"}

Parts(k) == IF k = "single" THEN 1 ELSE IF k = "multi" THEN 2 ELSE 0

\* sendMultipart's finally is the step after its script.
Label == IF pc <= Len(Script(call)) THEN Script(call)[pc] ELSE "TEXT"
Restoring == pc > Len(Script(call))
AtPrompt == Label \in {"CMGS", "CMGS-PDU"}

TypeOK ==
    /\ open \in BOOLEAN /\ active \in BOOLEAN /\ cmd \in BOOLEAN /\ quiet \in BOOLEAN
    /\ closes \in 0..MaxCloses /\ due \in 0..closes + 1
    /\ n \in 0..MaxCalls + MaxCloses + 1
    /\ call \in Kinds \union {"init"} /\ pc \in 1..6
    /\ fate \in {"ok", "error", "confirm"}
    /\ waiters \in Seq(1..n) /\ reply \in 0..n /\ sessions \subseteq 1..n
    \* the driver never has more in the port than a command and an ESC
    /\ Len(rx) <= 2
    /\ \A i \in DOMAIN rx : rx[i] \in [id : (1..n) \X (1..6), what : Commands \union {"ESC"}]
    /\ \A i \in DOMAIN tx : tx[i] \in [id : (1..n) \X (1..6),
                                       what : {"ok", "error", "prompt", "cusd"}]
    /\ text \in BOOLEAN /\ prompt \in BOOLEAN
    /\ written \in 0..2 /\ taken \in 0..2
    /\ lost \in BOOLEAN /\ heard \in BOOLEAN
    /\ blunders \subseteq {"crossed", "swallowed", "mode"}

\* The prompt after the port closed, open before or not: nothing initModem writes
\* would end it.
AfterClose(was) == IF CloseCancels THEN {FALSE} ELSE {FALSE, was}

\* The port is open; an earlier process may have left the modem at a prompt.
Init ==
    /\ open = TRUE /\ due = 1
    /\ active = FALSE /\ call = "init" /\ n = 0 /\ pc = 1 /\ cmd = FALSE
    /\ quiet = FALSE /\ fate = "ok" /\ waiters = <<>> /\ reply = 0
    /\ rx = <<>> /\ tx = <<>>
    /\ text \in BOOLEAN /\ prompt \in AfterClose(TRUE) /\ sessions = {}
    /\ written = 0 /\ taken = 0 /\ lost = FALSE /\ heard = FALSE
    /\ blunders = {} /\ closes = 0

-----------------------------------------------------------------------------
\* Steps of the driver.

\* Mutant: the next command does not wait for the late reply.
MayWrite_NoQuiet == TRUE

\* transact's sleep until quietUntil.
MayWrite == ~quiet

\* A continuation is due; no event is handled before it has run.
Continues ==
    /\ active /\ ~cmd
    /\ IF Label = "URC" THEN \A i \in DOMAIN waiters : waiters[i] # n ELSE MayWrite

\* The chain runs the next call.
Start(k) ==
    /\ ~active
    /\ active' = TRUE /\ call' = k /\ n' = n + 1 /\ pc' = 1 /\ fate' = "ok" /\ reply' = 0
    /\ written' = 0 /\ taken' = 0 /\ lost' = FALSE /\ heard' = FALSE
    /\ UNCHANGED <<open, cmd, quiet, waiters, rx, tx, text, prompt, sessions,
                   blunders, closes>>

StartCall(k) == n < MaxCalls /\ Start(k) /\ UNCHANGED due
StartInit == due > 0 /\ Start("init") /\ due' = due - 1

\* The current step is done: the next one, sendMultipart's finally, or the end.
\* runUssd registers its waiter before the CUSD command.
Proceed ==
    /\ cmd' = FALSE
    /\ IF pc < Len(Script(call)) \/ (call = "multi" /\ ~Restoring)
       THEN pc' = pc + 1 /\ UNCHANGED active
       ELSE active' = FALSE /\ UNCHANGED pc
    /\ UNCHANGED <<call, n, fate, reply>>

RegisterWaiter ==
    waiters' = IF pc < Len(Script(call)) /\ Script(call)[pc + 1] = "CUSD"
               THEN Append(waiters, n) ELSE waiters

\* The current step throws: sendMultipart restores text mode, its failure to do
\* so is ignored, every other call is over.
Throw(f) ==
    /\ cmd' = FALSE
    /\ fate' = IF Restoring THEN fate ELSE f
    /\ IF call = "multi" /\ pc \in 2..Len(Script(call))
       THEN pc' = Len(Script(call)) + 1 /\ UNCHANGED active
       ELSE active' = FALSE /\ UNCHANGED pc
    /\ UNCHANGED <<call, n, reply>>

\* Mutant: a failed CMGS leaves the prompt as it is.
Escaped_Never(out) == out

\* submitBody: ESC after a CMGS that failed.
Escaped(out) ==
    IF AtPrompt THEN Append(out, [id |-> <<n, pc>>, what |-> "ESC"]) ELSE out

\* transact: rejected when the port is not open, else written to it.
Write ==
    /\ active /\ ~cmd /\ MayWrite /\ Label # "URC"
    /\ IF open
       THEN /\ cmd' = TRUE
            /\ rx' = Append(rx, [id |-> <<n, pc>>, what |-> Label])
            /\ written' = IF Label = "BODY" THEN written + 1 ELSE written
            /\ UNCHANGED <<active, call, n, pc, fate, waiters, reply>>
       ELSE Throw("error") /\ UNCHANGED <<waiters, rx, written>>
    /\ UNCHANGED <<open, due, quiet, tx, modemVars, lost, heard, blunders, closes>>

\* runUssd got its line, or null.
UssdReturns ==
    /\ Continues /\ Label = "URC"
    /\ Proceed
    /\ UNCHANGED <<open, due, quiet, waiters, rx, tx, modemVars, histVars, blunders,
                   closes>>

-----------------------------------------------------------------------------
\* Events.

Rejects(line) == line = "error"

\* handleLine and the prompt test of handleData, for a line that settles the
\* current command.
SettleBy(line) ==
    /\ IF Rejects(line)
       THEN Throw("error") /\ rx' = Escaped(rx) /\ UNCHANGED waiters
       ELSE Proceed /\ RegisterWaiter /\ UNCHANGED rx

\* A +CUSD line goes to the oldest waiter, any other line to the current
\* command; a prompt nobody expects and a line nobody waits for are dropped.
Deliver ==
    /\ tx # <<>> /\ ~Continues
    /\ tx' = Tail(tx)
    /\ LET line == Head(tx)
       IN  IF line.what = "cusd"
           THEN /\ IF waiters = <<>> THEN UNCHANGED <<waiters, reply>>
                   ELSE /\ waiters' = Tail(waiters)
                        /\ reply' = IF Head(waiters) = n THEN line.id[1] ELSE reply
                /\ heard' = (heard \/ (active /\ line.id[1] = n))
                /\ UNCHANGED <<active, call, n, pc, cmd, fate, rx, blunders>>
           ELSE IF cmd /\ (line.what = "prompt" => AtPrompt)
           THEN /\ SettleBy(line.what)
                /\ blunders' = IF line.id = <<n, pc>> THEN blunders
                               ELSE blunders \union {"crossed"}
                /\ UNCHANGED heard
           ELSE UNCHANGED <<driverVars, rx, heard, blunders>>
    /\ UNCHANGED <<open, due, quiet, modemVars, written, lost, closes>>

\* Mutants: no timeout, or every timeout, is one of the confirmation.
TimeoutFate_Plain == "error"
\* submitBody: a timeout after the body was written is confirmTimeout.
TimeoutFate == IF Label = "BODY" THEN "confirm" ELSE "error"

\* transact's timer.
Timeout ==
    /\ cmd
    /\ quiet' = TRUE
    /\ Throw(TimeoutFate)
    /\ rx' = Escaped(rx)
    /\ UNCHANGED <<open, due, waiters, tx, modemVars, histVars, blunders, closes>>

\* The two seconds are over.
QuietEnds ==
    /\ quiet
    /\ DrainsInQuiet => rx = <<>> /\ tx = <<>>
    /\ quiet' = FALSE
    /\ UNCHANGED <<open, due, driverVars, rx, tx, modemVars, histVars, blunders, closes>>

\* waitForUrc's timer.  It is twice the timer of the CUSD command, so its own
\* call waits for nothing else by then.
WaiterTimeout(i) ==
    /\ ~Continues
    /\ waiters[i] = n /\ active => Label = "URC"
    /\ waiters' = SubSeq(waiters, 1, i - 1) \o SubSeq(waiters, i + 1, Len(waiters))
    /\ UNCHANGED <<open, due, active, call, n, pc, cmd, fate, reply, quiet, rx, tx,
                   modemVars, histVars, blunders, closes>>

\* The port closes, or a write to it fails because it is about to: the current
\* command fails, every waiter gets null.  What
\* was under way is gone; the modem comes back in either mode.
Close ==
    /\ open /\ closes < MaxCloses /\ ~Continues
    /\ open' = FALSE /\ closes' = closes + 1
    /\ lost' = (lost \/ (cmd /\ Label = "BODY"))
    /\ IF cmd THEN Throw("error") ELSE UNCHANGED <<active, call, n, pc, cmd, fate, reply>>
    /\ waiters' = <<>> /\ rx' = <<>> /\ tx' = <<>>
    /\ text' \in BOOLEAN /\ prompt' \in AfterClose(prompt) /\ sessions' = {}
    /\ UNCHANGED <<due, quiet, taken, written, heard, blunders>>

\* connect after RECONNECT_DELAY_MS; initModem joins the end of the chain.
Reopen ==
    /\ ~open /\ ~Continues
    /\ open' = TRUE /\ due' = due + 1
    /\ UNCHANGED <<driverVars, quiet, rx, tx, modemVars, histVars, blunders, closes>>

-----------------------------------------------------------------------------
\* The modem.

\* It answers, or the answer never comes.
Answer(w, line) == tx' \in {tx, Append(tx, [id |-> w.id, what |-> line])}

Blunder(b) == blunders' = blunders \union {b}

\* It reads what follows a prompt as text, up to Ctrl+Z or ESC.
ReadAtPrompt(w) ==
    /\ IF w.what = "BODY"
       THEN /\ prompt' = FALSE
            /\ \/ Answer(w, "ok")
                  /\ taken' = IF w.id[1] = n THEN taken + 1 ELSE taken
               \/ Answer(w, "error") /\ UNCHANGED taken
            /\ UNCHANGED blunders
       ELSE IF w.what = "ESC"
       THEN prompt' = FALSE /\ Answer(w, "ok") /\ UNCHANGED <<taken, blunders>>
       ELSE Blunder("swallowed") /\ UNCHANGED <<prompt, tx, taken>>
    /\ UNCHANGED <<text, sessions>>

\* It executes a command.
Execute(w) ==
    \/ /\ w.what \in {"TEXT", "PDU"}
       /\ text' = (w.what = "TEXT") /\ Answer(w, "ok")
       /\ UNCHANGED <<prompt, sessions, taken, blunders>>
    \/ /\ w.what \in {"CMGS", "CMGS-PDU"}
       /\ prompt' = TRUE /\ Answer(w, "prompt")
       /\ IF text = (w.what = "CMGS") THEN UNCHANGED blunders ELSE Blunder("mode")
       /\ UNCHANGED <<text, sessions, taken>>
    \/ /\ w.what = "CUSD"
       /\ sessions' = sessions \union {w.id[1]} /\ Answer(w, "ok")
       /\ UNCHANGED <<text, prompt, taken, blunders>>
    \/ /\ w.what \in {"SETUP", "CMGL"}
       /\ Answer(w, "ok")
       /\ IF w.what = "CMGL" => text THEN UNCHANGED blunders ELSE Blunder("mode")
       /\ UNCHANGED modemVars
    \/ /\ w.what # "ESC"
       /\ Answer(w, "error")
       /\ UNCHANGED <<modemVars, blunders>>
    \/ /\ w.what = "ESC"
       /\ UNCHANGED <<modemVars, tx, blunders>>

ModemReads ==
    /\ rx # <<>>
    /\ rx' = Tail(rx)
    /\ IF prompt THEN ReadAtPrompt(Head(rx)) ELSE Execute(Head(rx))
    /\ UNCHANGED <<open, due, driverVars, quiet, histVars, closes>>

\* The network answers a USSD session, whenever it likes.
NetworkReplies(s) ==
    /\ s \in sessions
    /\ sessions' = sessions \ {s}
    /\ tx' = Append(tx, [id |-> <<s, 1>>, what |-> "cusd"])
    /\ UNCHANGED <<open, due, driverVars, quiet, rx, text, prompt, taken, histVars,
                   blunders, closes>>

-----------------------------------------------------------------------------
Next ==
    \/ \E k \in Kinds : StartCall(k)
    \/ StartInit \/ Write \/ UssdReturns
    \/ Deliver \/ Timeout \/ QuietEnds \/ Close \/ Reopen
    \/ \E i \in DOMAIN waiters : WaiterTimeout(i)
    \/ ModemReads
    \/ \E s \in sessions : NetworkReplies(s)

Spec == Init /\ [][Next]_vars

\* Timers fire and continuations run; what is in the port is read or lost.
Fairness ==
    /\ WF_vars(Write) /\ WF_vars(UssdReturns) /\ WF_vars(Timeout)
    /\ WF_vars(ModemReads) /\ WF_vars(Deliver) /\ WF_vars(QuietEnds)
    /\ WF_vars(\E i \in DOMAIN waiters : WaiterTimeout(i))

FairSpec == Spec /\ Fairness

-----------------------------------------------------------------------------
\* A command is settled by its own reply, never by one that came late for an
\* earlier command (modem.js:178-181, "wait it out so the stale lines land as
\* "unsolicited" instead of settling us").
OwnReply == "crossed" \notin blunders

\* The modem never takes a command for message text (modem.js:235-237).
NothingSwallowed == "swallowed" \notin blunders

\* No message is sent and no inbox is listed in the other mode, whatever became
\* of the best-effort restore of an earlier call (modem.js:291-301).
ModeMatches == "mode" \notin blunders

Sending == Parts(call) > 0

\* The driver contract, implemented by this module.  A long message is taken
\* when its last part is: parts sent before an error are sent again.
Driver == INSTANCE DriverContract
              WITH sending <- active /\ Sending,
                   given   <- Sending /\ written > 0,
                   taken   <- IF Sending /\ taken = Parts(call) THEN 1 ELSE 0,
                   blind   <- lost,
                   verdict <- IF Sending /\ ~active THEN fate ELSE "none"

\* A send that resolves was taken by the modem, all of its parts; one that
\* rejects with a plain error, and so is retried, was not, unless the port
\* closed on the confirmation; confirmTimeout is reported only of a body the
\* modem was given (modem.js:240-252).
ImplementsDriver == Driver!Spec

\* A session returns null only if its reply did not come in time (modem.js:402,
\* "returns the raw +CUSD line (or null on no reply)").
NullMeansNoReply ==
    ~active /\ call = "ussd" /\ fate = "ok" /\ reply = 0 => ~heard
=============================================================================

---------------------------- MODULE RemoteModem ----------------------------
(***************************************************************************)
(* The drivers without a serial line: a ZTE stick behind HTTP, with the    *)
(* login its reqproc builds ask for or, as goform, without, and a phone    *)
(* behind adb.  Calls run one at a time (serialize.js) and are made of     *)
(* requests: what changes the device is asked, executed and answered in    *)
(* steps of their own, and any request may fail, before or after it was    *)
(* executed, or be executed after the driver gave up on it.  A read        *)
(* changes nothing and is one step.                                        *)
(* Stick, phone and network are external.                                  *)
(*                                                                         *)
(* Sources: utils/zte-http.js, utils/adb.js (sending).                     *)
(***************************************************************************)
EXTENDS Integers, Sequences

CONSTANTS
    Drivers,           \* the drivers looked at
    MaxCalls,          \* bound: calls made
    PhoneParts,        \* parts a long message has on the phone
    HandlesInOrder,    \* requests are executed in the order they were made, or never
    StatusIsOwn,       \* the status register speaks of the last message accepted
    RejectMeansRefused \* a command answered without `success` was not executed

\* An instance assumes this.
ConstantsOK ==
    /\ Drivers \subseteq {"goform", "reqproc", "adb"}
    /\ MaxCalls \in Nat /\ PhoneParts \in Nat \ {0}
    /\ HandlesInOrder \in BOOLEAN /\ StatusIsOwn \in BOOLEAN
    /\ RejectMeansRefused \in BOOLEAN

VARIABLES
    driver,
    kind,     \* the call that runs, or ran last
    n,        \* its number; 1 stands for the calls of an earlier process
    pc,       \* the request it is at
    cmd,      \* the command setCmd was given, ISMS for adb
    wire,     \* the command's request: asked, or executed and answered
    part,     \* adb: the part being sent
    parts,    \* adb: how many there are
    fate,     \* what the call resolved or rejected with
    reply,    \* the session whose reply it returned, 0 for null
    loggedIn, \* the driver's flag
    session,  \* stick: the login session is live
    register, \* stick: sms_cmd_status_result
    air,      \* stick: messages accepted and not yet sent or failed
    ussd,     \* stick: the session it has open with the network, or 0
    flag,     \* stick: ussd_write_flag
    data,     \* stick: the session whose reply is in ussd_data, or 0
    late,     \* the request, and its call, that the driver gave up on last, while
              \* the device may still execute it; the earlier ones it has executed
              \* by then or never will
    given,    \* history: the device was given a part of the text
    taken,    \* history: complete copies sent
    blind,    \* history: a command was executed, or may yet be, and its answer lost
    upset     \* history: something failed in this call but a lapsed session

callVars  == <<kind, n, cmd, part, parts>>
stickVars == <<session, register, air, ussd, flag, data>>
histVars  == <<given, taken, blind, upset>>
vars == <<driver, callVars, pc, wire, fate, reply, loggedIn, stickVars, late, histVars>>

Commands == {"SEND_SMS", "ussd_cancel", "ussd_send", "ISMS"}
Requests == {"login", "post", "relogin", "repost", "poll", "data"}

TypeOK ==
    /\ driver \in Drivers /\ kind \in {"none", "send", "ussd"} /\ n \in 1..MaxCalls + 1
    /\ pc \in Requests \union {"idle", "check"}
    /\ cmd \in Commands \union {"none"}
    /\ wire \in {"none", "asked", "yes", "no"}
    /\ parts \in 1..PhoneParts /\ part \in 1..parts
    /\ fate \in {"none", "ok", "error", "confirm"} /\ reply \in 0..n
    /\ loggedIn \in BOOLEAN /\ session \in BOOLEAN
    /\ register \in {"1", "2", "3"} /\ air \in Seq(1..n)
    /\ ussd \in 0..n /\ flag \in {"13", "15", "16"} /\ data \in 0..n
    /\ late \subseteq (Commands \union {"login"}) \X (1..n)
    /\ given \in BOOLEAN /\ taken \in 0..1 /\ blind \in BOOLEAN /\ upset \in BOOLEAN

\* The process has started; the stick is as an earlier process left it.
Init ==
    /\ driver \in Drivers
    /\ kind = "none" /\ n = 1 /\ pc = "idle" /\ cmd = "none" /\ wire = "none"
    /\ part = 1 /\ parts = 1 /\ fate = "none" /\ reply = 0
    /\ loggedIn = FALSE /\ session \in BOOLEAN
    /\ \/ register \in {"2", "3"} /\ air = <<>>
       \/ register = "1" /\ air = <<1>>
    /\ data \in {0, 1}
    /\ \/ ussd = 0 /\ flag \in {"13", "16"}
       \/ ussd = 1 /\ flag = "15"
    /\ late = {}
    /\ given = FALSE /\ taken = 0 /\ blind = FALSE /\ upset = FALSE

-----------------------------------------------------------------------------
\* Steps of the driver.

NeedsLogin == driver = "reqproc"

Goto(p) == pc' = p /\ wire' = IF p = "poll" \/ p = "data" THEN "none" ELSE "asked"

\* setCmd logs in first when it has not yet.
Open(c) ==
    /\ cmd' = c
    /\ Goto(IF NeedsLogin /\ ~loggedIn THEN "login" ELSE "post")

End(f) ==
    /\ pc' = "idle" /\ wire' = "none" /\ fate' = f
    /\ UNCHANGED <<cmd, reply>>

\* A request throws: runUssd ignores that of its ussd_cancel, every other call
\* is over.
Throw ==
    IF cmd = "ussd_cancel"
    THEN Open("ussd_send") /\ UNCHANGED <<fate, reply>>
    ELSE End("error")

\* The chain runs the next call.
Begin(k) ==
    /\ pc = "idle" /\ n <= MaxCalls
    /\ kind' = k /\ n' = n + 1 /\ fate' = "none" /\ reply' = 0 /\ part' = 1
    /\ IF k = "ussd"
       THEN driver # "adb" /\ Open("ussd_cancel") /\ parts' = 1
       ELSE /\ pc' = "check" /\ wire' = "none" /\ cmd' = "none"
            /\ parts' \in IF driver = "adb" THEN 1..PhoneParts ELSE {1}
    /\ given' = FALSE /\ taken' = 0 /\ blind' = FALSE /\ upset' = FALSE
    /\ UNCHANGED <<driver, loggedIn, stickVars, late>>

\* sendSMS looks at the number and the length before it asks anything.
Check ==
    /\ pc = "check"
    /\ \/ End("error") /\ upset' = TRUE
       \/ /\ Open(IF driver = "adb" THEN "ISMS" ELSE "SEND_SMS")
          /\ UNCHANGED <<fate, reply, upset>>
    /\ UNCHANGED <<driver, kind, n, part, parts, loggedIn, stickVars, late, given, taken,
                   blind>>

LoginAnswered ==
    /\ pc \in {"login", "relogin"} /\ wire \in {"yes", "no"}
    /\ IF wire = "yes"
       THEN /\ loggedIn' = TRUE
            /\ Goto(IF pc = "login" THEN "post" ELSE "repost")
            /\ UNCHANGED <<cmd, fate, reply>>
       ELSE Throw /\ UNCHANGED loggedIn
    /\ UNCHANGED <<driver, kind, n, part, parts, stickVars, late, histVars>>

\* Mutant: a rejected command is given up at once.
LogsInAgain_Never == FALSE

\* "a rejected write on an authed build most likely means it lapsed".
LogsInAgain == NeedsLogin /\ pc = "post"

\* A command is accepted: SEND_SMS and ussd_send are polled for, the phone is
\* given its next part.
Accepted ==
    \/ cmd \in {"SEND_SMS", "ussd_send"} /\ Goto("poll")
       /\ UNCHANGED <<cmd, part, fate, reply>>
    \/ cmd = "ussd_cancel" /\ Open("ussd_send") /\ UNCHANGED <<part, fate, reply>>
    \/ /\ cmd = "ISMS" /\ part < parts
       /\ part' = part + 1 /\ Goto("post")
       /\ UNCHANGED <<cmd, fate, reply>>
    \/ cmd = "ISMS" /\ part = parts /\ End("ok") /\ UNCHANGED part

CommandAnswered ==
    /\ pc \in {"post", "repost"} /\ wire \in {"yes", "no"}
    /\ IF wire = "yes" THEN Accepted /\ UNCHANGED loggedIn
       ELSE IF LogsInAgain
       THEN /\ loggedIn' = FALSE /\ Goto("relogin")
            /\ UNCHANGED <<cmd, part, fate, reply>>
       ELSE Throw /\ UNCHANGED <<part, loggedIn>>
    /\ UNCHANGED <<driver, kind, n, parts, stickVars, late, histVars>>

\* A request fails: no connection, no answer in 5 s, an HTTP error, no JSON.  One
\* that was not executed yet may be executed later: destroying it ends the
\* client's side only.
RequestFails ==
    /\ pc \in Requests
    /\ Throw
    /\ upset' = TRUE
    /\ \/ /\ UNCHANGED late
          /\ blind' = (blind \/ (kind = "send" /\ (wire = "yes" \/ pc = "poll")))
       \/ /\ wire = "asked"
          /\ late' = {<<IF pc \in {"login", "relogin"} THEN "login" ELSE cmd, n>>}
          /\ blind' = (blind \/ (kind = "send" /\ pc \in {"post", "repost"}))
    /\ UNCHANGED <<driver, kind, n, part, parts, loggedIn, stickVars, given, taken>>

\* sendSMS polls: 3 = sent, 2 = failed, anything else is asked again.
PollStatus ==
    /\ pc = "poll" /\ cmd = "SEND_SMS"
    /\ \/ register = "3" /\ End("ok") /\ UNCHANGED upset
       \/ register = "2" /\ End("error") /\ upset' = TRUE
    /\ UNCHANGED <<driver, kind, n, part, parts, loggedIn, stickVars, late, given, taken,
                   blind>>

\* Mutant: ussd_data is taken for the reply whatever the flag says.
FreshReply16_Any == TRUE

\* "16 = fresh reply ready".
FreshReply16 == flag = "16"

PollFlag ==
    /\ pc = "poll" /\ cmd = "ussd_send"
    /\ FreshReply16
    /\ Goto("data")
    /\ UNCHANGED <<driver, callVars, fate, reply, loggedIn, stickVars, late, histVars>>

\* Empty data is polled for again.
ReadData ==
    /\ pc = "data"
    /\ IF data = 0
       THEN Goto("poll") /\ UNCHANGED <<fate, reply>>
       ELSE pc' = "idle" /\ wire' = "none" /\ fate' = "ok" /\ reply' = data
    /\ UNCHANGED <<driver, callVars, loggedIn, stickVars, late, histVars>>

\* Mutants: the end of the polling is an error like any other; it never ends.
DeadlineFate_Plain == "error"
Expires_Never == FALSE

DeadlineFate == IF cmd = "SEND_SMS" THEN "confirm" ELSE "ok"

Expires == pc = "poll"

\* The polling's deadline: confirmTimeout for a message, null for a session.
Deadline ==
    /\ Expires
    /\ End(DeadlineFate)
    /\ UNCHANGED <<driver, kind, n, part, parts, loggedIn, stickVars, late, histVars>>

-----------------------------------------------------------------------------
\* The stick, the phone and the network.

\* What may still come of a request given up on when a newer one is executed.
Overtaken == IF HandlesInOrder THEN {} ELSE late

HandleLogin ==
    /\ pc \in {"login", "relogin"} /\ wire = "asked"
    /\ late' = Overtaken
    /\ \/ wire' = "yes" /\ session' = TRUE /\ UNCHANGED upset
       \/ wire' = "no" /\ upset' = TRUE /\ UNCHANGED session
    /\ UNCHANGED <<driver, callVars, pc, fate, reply, loggedIn, register, air, ussd,
                   flag, data, given, taken, blind>>

\* A command of call k.  SEND_SMS queues the message.  ussd_send opens a session,
\* which leaves the old data in place; one that finds a session open ends it with
\* empty data.
Execute(c, k) ==
    \/ /\ c = "SEND_SMS"
       /\ air' = Append(air, k) /\ given' = (given \/ k = n)
       /\ register' \in {"1"} \union (IF StatusIsOwn THEN {} ELSE {register})
       /\ UNCHANGED <<ussd, flag, data>>
    \/ /\ c = "ussd_cancel"
       /\ ussd' = 0 /\ flag' = "13"
       /\ UNCHANGED <<register, air, data, given>>
    \/ /\ c = "ussd_send"
       /\ IF ussd = 0 THEN ussd' = k /\ flag' = "15" /\ UNCHANGED data
                      ELSE ussd' = 0 /\ flag' = "16" /\ data' = 0
       /\ UNCHANGED <<register, air, given>>

Live == NeedsLogin => session

HandleCommand ==
    /\ pc \in {"post", "repost"} /\ wire = "asked" /\ cmd # "ISMS"
    /\ late' = Overtaken
    /\ \/ Live /\ Execute(cmd, n) /\ wire' = "yes" /\ UNCHANGED upset
       \/ /\ wire' = "no" /\ upset' = (upset \/ Live)
          /\ UNCHANGED <<register, air, ussd, flag, data, given>>
       \/ /\ ~RejectMeansRefused /\ Live
          /\ Execute(cmd, n) /\ wire' = "no" /\ upset' = TRUE
    /\ UNCHANGED <<driver, callVars, pc, fate, reply, loggedIn, session, taken, blind>>

\* The phone sends a part of call n's text.
SendPart == given' = TRUE /\ taken' = IF part = parts THEN taken + 1 ELSE taken

\* It does, or answers with an exception parcel.
HandleIsms ==
    /\ pc = "post" /\ wire = "asked" /\ cmd = "ISMS"
    /\ late' = Overtaken
    /\ \/ wire' = "yes" /\ SendPart /\ UNCHANGED upset
       \/ wire' = "no" /\ upset' = TRUE /\ UNCHANGED <<given, taken>>
    /\ UNCHANGED <<driver, callVars, pc, fate, reply, loggedIn, stickVars, blind>>

\* A request the driver gave up on is executed after all.
LateRequest ==
    /\ \E x \in late :
          \/ /\ x[1] = "login" /\ session' = TRUE
             /\ UNCHANGED <<register, air, ussd, flag, data, given, taken>>
          \/ /\ Live /\ Execute(x[1], x[2])
             /\ UNCHANGED <<session, taken>>
          \/ /\ x[1] = "ISMS"
             /\ IF x[2] = n THEN SendPart ELSE UNCHANGED <<given, taken>>
             /\ UNCHANGED stickVars
    /\ late' = {}
    /\ UNCHANGED <<driver, callVars, pc, wire, fate, reply, loggedIn, blind, upset>>

\* The oldest message accepted is sent, or fails.
MessageSettles ==
    /\ air # <<>>
    /\ air' = Tail(air)
    /\ \E result \in {"2", "3"} :
          /\ register' = IF StatusIsOwn /\ Len(air) > 1 THEN register ELSE result
          /\ taken' = IF Head(air) = n /\ kind = "send" /\ result = "3"
                      THEN taken + 1 ELSE taken
    /\ UNCHANGED <<driver, callVars, pc, wire, fate, reply, loggedIn, session, ussd, flag,
                   data, late, given, blind, upset>>

NetworkReplies ==
    /\ ussd # 0
    /\ data' = ussd /\ flag' = "16" /\ ussd' = 0
    /\ UNCHANGED <<driver, callVars, pc, wire, fate, reply, loggedIn, session, register,
                   air, late, histVars>>

\* The login session lapses, though not between a login and the command that is
\* posted again right after it.
SessionLapses ==
    /\ session /\ NeedsLogin /\ pc \notin {"relogin", "repost"}
    /\ session' = FALSE
    /\ UNCHANGED <<driver, callVars, pc, wire, fate, reply, loggedIn, register, air,
                   ussd, flag, data, late, histVars>>

-----------------------------------------------------------------------------
DriverStep ==
    \/ Check \/ LoginAnswered \/ CommandAnswered \/ RequestFails
    \/ PollStatus \/ PollFlag \/ ReadData

DeviceStep ==
    \/ HandleLogin \/ HandleCommand \/ HandleIsms \/ LateRequest
    \/ MessageSettles \/ NetworkReplies \/ SessionLapses

Next == (\E k \in {"send", "ussd"} : Begin(k)) \/ DriverStep \/ Deadline \/ DeviceStep

Spec == Init /\ [][Next]_vars

\* A command is answered or times out, and the polling, a loop of reads, sees
\* its deadline pass.  Nothing is assumed of the network.
Fairness ==
    /\ WF_vars(Check \/ LoginAnswered \/ CommandAnswered \/ (wire # "none" /\ RequestFails))
    /\ WF_vars(ReadData)
    /\ SF_vars(Deadline)

FairSpec == Spec /\ Fairness

-----------------------------------------------------------------------------
\* The driver contract, implemented by this module.
Driver == INSTANCE DriverContract
              WITH sending <- kind = "send" /\ pc # "idle",
                   verdict <- IF kind = "send" /\ pc = "idle" THEN fate ELSE "none"

\* A send that resolves was sent, once; one that rejects with a plain error was
\* not, unless an answer was lost; the end of the polling is confirmTimeout and
\* of a message the stick had accepted (zte-http.js:248-282, adb.js:117-140).
ImplementsDriver == Driver!Spec

\* A session returns its own reply, never the one the stick still holds from an
\* earlier session, also across a restart (zte-http.js:208-218).
FreshReply == pc = "idle" /\ reply # 0 => reply = n

\* A lapsed login session alone never fails a call (zte-http.js:171-186).
ExpiryCured == pc = "idle" /\ fate = "error" => upset
=============================================================================

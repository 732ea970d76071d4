---------------------------- MODULE RemoteProofs ----------------------------
(***************************************************************************)
(* The zte-http and adb drivers implement the driver contract, whatever    *)
(* the number of calls, the parts of a message and the failures.  Assumed  *)
(* of the devices: requests are executed in the order they were made, or   *)
(* never; the status register speaks of the last message the stick         *)
(* accepted; a command answered without `success` was refused.  That a     *)
(* USSD reply is never an earlier session's needs only the first, that a   *)
(* lapsed login alone fails no call none of them.                          *)
(***************************************************************************)
EXTENDS RemoteModem, SequenceTheorems, TLAPS

-----------------------------------------------------------------------------
\* The inductive invariant.

\* Which requests a call is made of.
CallShape ==
    /\ pc = "check" => kind = "send"
    /\ pc \in Requests =>
          IF kind = "send" THEN cmd = (IF driver = "adb" THEN "ISMS" ELSE "SEND_SMS")
          ELSE kind = "ussd" /\ cmd \in {"ussd_cancel", "ussd_send"}
    /\ pc = "data" => kind = "ussd"
    /\ driver = "adb" => kind # "ussd" /\ pc \in {"idle", "check", "post"}
    /\ pc \in {"relogin", "repost"} => NeedsLogin

NotQueued == \A i \in 1..Len(air) : air[i] # n

\* The stick has the message, behind those it had accepted before.
Queued ==
    /\ register = "1" /\ taken = 0
    /\ air # <<>> /\ air[Len(air)] = n
    /\ \A i \in 1..Len(air) : i # Len(air) => air[i] # n

\* It sent the message, or gave it up, and its register says which.
Settled ==
    /\ air = <<>>
    /\ \/ register = "3" /\ taken = 1
       \/ register = "2" /\ taken = 0

OnStick == kind = "send" /\ driver # "adb"
OnPhone == kind = "send" /\ driver = "adb"

StickInv ==
    OnStick =>
        /\ given => Queued \/ Settled
        /\ ~given => NotQueued /\ taken = 0
        /\ pc \in {"check", "login", "relogin"} => ~given
        /\ pc \in {"post", "repost"} => (given <=> wire = "yes")
        /\ pc = "poll" => given /\ wire # "asked"
        /\ pc = "idle" /\ given => air = <<>> \/ blind \/ fate = "confirm"

PhoneInv ==
    OnPhone =>
        /\ NotQueued
        /\ pc = "check" => taken = 0
        /\ pc = "post" => (taken = 1 <=> part = parts /\ wire = "yes")

\* A request the driver gave up on is executed, if at all, before the text is
\* given anew; the call's own only after it ended blindly.
LateInv ==
    /\ OnStick /\ given => late = {}
    /\ \A x \in late :
          /\ x[1] = "ISMS" <=> driver = "adb"
          /\ x[2] = n /\ x[1] \in {"SEND_SMS", "ISMS"}
                => kind = "send" /\ pc = "idle" /\ blind /\ taken = 0

RemoteInv == TypeOK /\ CallShape /\ StickInv /\ PhoneInv /\ LateInv

-----------------------------------------------------------------------------
\* Sequences of accepted messages.

\* What Append and Tail do, element by element.
LEMMA Appended ==
    ASSUME NEW S, NEW a \in Seq(S), NEW e \in S
    PROVE  /\ Append(a, e) \in Seq(S) /\ Append(a, e) # <<>>
           /\ Len(Append(a, e)) = Len(a) + 1 /\ Len(a) \in Nat
           /\ Append(a, e)[Len(a) + 1] = e
           /\ \A i \in 1..Len(a) : Append(a, e)[i] = a[i]
  BY AppendProperties, LenProperties, EmptySeq

LEMMA Tailed ==
    ASSUME NEW S, NEW a \in Seq(S), a # <<>>
    PROVE  /\ Tail(a) \in Seq(S)
           /\ Len(a) \in Nat \ {0} /\ Len(Tail(a)) = Len(a) - 1
           /\ Head(a) = a[1]
           /\ \A i \in 1..Len(a) - 1 : Tail(a)[i] = a[i + 1]
  BY HeadTailProperties, EmptySeq, LenProperties

\* A call number beyond those of the accepted messages.
LEMMA Widened ==
    ASSUME TypeOK, ConstantsOK
    PROVE  air \in Seq(1..n + 1) /\ \A i \in 1..Len(air) : air[i] # n + 1
  <1>1. n \in Nat /\ 1..n \subseteq 1..n + 1 /\ air \in Seq(1..n)
    BY DEF TypeOK, ConstantsOK
  <1>2. air \in Seq(1..n + 1)
    BY <1>1, SeqMonotonic
  <1>3. \A i \in 1..Len(air) : air[i] \in 1..n
    BY <1>1, ElementOfSeq
  <1> QED BY <1>1, <1>2, <1>3

-----------------------------------------------------------------------------
\* The parts of the invariant, one by one.

\* The type invariant, in two parts: the modes, and the numbers.
Modes ==
    /\ driver \in Drivers /\ kind \in {"none", "send", "ussd"}
    /\ pc \in Requests \union {"idle", "check"}
    /\ cmd \in Commands \union {"none"}
    /\ wire \in {"none", "asked", "yes", "no"}
    /\ fate \in {"none", "ok", "error", "confirm"}
    /\ loggedIn \in BOOLEAN /\ session \in BOOLEAN
    /\ register \in {"1", "2", "3"} /\ flag \in {"13", "15", "16"}
    /\ given \in BOOLEAN /\ blind \in BOOLEAN /\ upset \in BOOLEAN

Numbers ==
    /\ n \in 1..MaxCalls + 1
    /\ parts \in 1..PhoneParts /\ part \in 1..parts
    /\ reply \in 0..n /\ air \in Seq(1..n) /\ ussd \in 0..n /\ data \in 0..n
    /\ taken \in 0..1
    /\ late \subseteq (Commands \union {"login"}) \X (1..n)

\* The type invariant is both.
LEMMA Types == TypeOK <=> Modes /\ Numbers
  BY DEF TypeOK, Modes, Numbers

\* The invariant holds when the process starts.
LEMMA InitInv == ConstantsOK /\ Init => RemoteInv
  <1> SUFFICES ASSUME ConstantsOK, Init PROVE RemoteInv
    OBVIOUS
  <1>1. air \in Seq(1..n)
    <2>1. CASE air = <<>>
      BY <2>1, EmptySeq
    <2>2. CASE air = <<1>>
      BY <2>2 DEF Init
    <2> QED BY <2>1, <2>2 DEF Init
  <1>2. Modes
    BY DEF Init, Modes, Requests, Commands
  <1>3. Numbers
    BY <1>1 DEF Init, Numbers, ConstantsOK
  <1>4. CallShape /\ StickInv /\ PhoneInv /\ LateInv
    BY DEF Init, CallShape, StickInv, PhoneInv, LateInv, OnStick, OnPhone, Requests
  <1> QED BY <1>2, <1>3, <1>4, Types DEF RemoteInv

\* A message in the air as the call's own was not sent yet.
LEMMA HeadIsUnsent ==
    ASSUME RemoteInv, kind = "send", air # <<>>, Head(air) = n
    PROVE  OnStick /\ given /\ Queued /\ Len(air) = 1
  <1>1. air \in Seq(1..n) /\ driver \in Drivers
    BY DEF RemoteInv, TypeOK
  <1>2. Len(air) \in Nat \ {0} /\ air[1] = n
    BY <1>1, Tailed
  <1>3. ~NotQueued
    BY <1>2 DEF NotQueued
  <1>4. OnStick /\ given /\ (Queued \/ Settled)
    BY <1>3 DEF RemoteInv, StickInv, PhoneInv, OnStick, OnPhone
  <1>5. Queued
    BY <1>4 DEF Settled
  <1> QED BY <1>2, <1>4, <1>5 DEF Queued

\* A step of the driver or of the device keeps the modes.
LEMMA ModesStep ==
    ASSUME Modes, [Next]_vars
    PROVE  Modes'
  <1> USE DEF Modes, Requests, Commands
  <1>1. ASSUME NEW k \in {"send", "ussd"}, Begin(k) PROVE Modes'
    BY <1>1 DEF Begin, Open, Goto, stickVars
  <1>2. CASE Check
    <2>1. /\ pc' \in Requests \union {"idle"} /\ cmd' \in {cmd, "ISMS", "SEND_SMS"}
          /\ wire' \in {"none", "asked"} /\ fate' \in {fate, "error"} /\ upset' \in BOOLEAN
      <3>1. ASSUME NEW c \in {"ISMS", "SEND_SMS"}, Open(c), UNCHANGED <<fate, upset>>
            PROVE  /\ pc' \in Requests /\ cmd' = c /\ wire' = "asked"
                   /\ fate' = fate /\ upset' \in BOOLEAN
        BY <3>1 DEF Open, Goto
      <3>2. ASSUME End("error"), upset' = TRUE
            PROVE  /\ pc' = "idle" /\ cmd' = cmd /\ wire' = "none"
                   /\ fate' = "error" /\ upset' \in BOOLEAN
        BY <3>2 DEF End
      <3> QED BY <1>2, <3>1, <3>2 DEF Check
    <2>2. UNCHANGED <<driver, kind, loggedIn, stickVars, given, blind>>
      BY <1>2 DEF Check
    <2> QED BY <2>1, <2>2 DEF stickVars
  <1>3. CASE LoginAnswered
    <2>1. loggedIn' \in BOOLEAN
      BY <1>3 DEF LoginAnswered
    <2>2. /\ pc' \in Requests \union {"idle"} /\ cmd' \in {cmd, "ussd_send"}
          /\ wire' \in {"none", "asked"} /\ fate' \in {fate, "error"}
      BY <1>3 DEF LoginAnswered, Throw, End, Open, Goto
    <2> QED BY <1>3, <2>1, <2>2 DEF LoginAnswered, stickVars, histVars
  <1>4. CASE CommandAnswered
    <2> DEFINE Ctl == pc' \in Requests \union {"idle"} /\ cmd' \in {cmd, "ussd_send"}
                      /\ wire' \in {"none", "asked"} /\ fate' \in {fate, "ok", "error"}
    <2>1. ASSUME Accepted PROVE Ctl
      BY <2>1 DEF Accepted, Goto, End, Open
    <2>2. ASSUME Throw PROVE Ctl
      BY <2>2 DEF Throw, Goto, End, Open
    <2>3. ASSUME Goto("relogin"), UNCHANGED <<cmd, fate>> PROVE Ctl
      BY <2>3 DEF Goto
    <2>4. Ctl /\ loggedIn' \in BOOLEAN
      BY <1>4, <2>1, <2>2, <2>3 DEF CommandAnswered
    <2> QED BY <1>4, <2>4 DEF CommandAnswered, stickVars, histVars
  <1>5. CASE RequestFails
    <2>1. blind' \in BOOLEAN
      BY <1>5 DEF RequestFails
    <2>2. /\ pc' \in Requests \union {"idle"} /\ cmd' \in {cmd, "ussd_send"}
          /\ wire' \in {"none", "asked"} /\ fate' \in {fate, "error"}
      BY <1>5 DEF RequestFails, Throw, End, Open, Goto
    <2> QED BY <1>5, <2>1, <2>2 DEF RequestFails, stickVars
  <1>6. CASE PollStatus \/ PollFlag
    BY <1>6 DEF PollStatus, PollFlag, End, Goto, callVars, stickVars, histVars
  <1>7. CASE ReadData \/ Deadline
    BY <1>7 DEF ReadData, Deadline, DeadlineFate, End, Goto, callVars, stickVars, histVars
  <1>8. CASE HandleLogin \/ NetworkReplies \/ SessionLapses
    BY <1>8 DEF HandleLogin, NetworkReplies, SessionLapses, callVars, stickVars, histVars
  <1>9. CASE HandleCommand
    <2>1. /\ register' \in {"1", register} /\ flag' \in {"13", "15", "16", flag}
          /\ given' \in BOOLEAN
      BY <1>9 DEF HandleCommand, Execute
    <2>2. wire' \in {"yes", "no"}
      BY <1>9 DEF HandleCommand
    <2>3. upset' \in BOOLEAN
      BY <1>9 DEF HandleCommand
    <2>4. UNCHANGED <<driver, kind, pc, cmd, fate, loggedIn, session, blind>>
      BY <1>9 DEF HandleCommand, callVars
    <2> QED BY <2>1, <2>2, <2>3, <2>4
  <1>10. CASE HandleIsms \/ MessageSettles
    <2>1. register' \in {"2", "3", register}
      BY <1>10 DEF HandleIsms, MessageSettles, stickVars
    <2>2. wire' \in {"yes", "no", wire} /\ given' \in BOOLEAN /\ upset' \in BOOLEAN
      BY <1>10 DEF HandleIsms, SendPart, MessageSettles
    <2>3. UNCHANGED <<driver, kind, pc, cmd, fate, loggedIn, session, flag, blind>>
      BY <1>10 DEF HandleIsms, MessageSettles, callVars, stickVars
    <2> QED BY <2>1, <2>2, <2>3
  <1>11. CASE LateRequest
    <2>1. PICK x \in late :
             \/ x[1] = "login" /\ session' = TRUE /\ UNCHANGED <<register, flag, given>>
             \/ Execute(x[1], x[2]) /\ UNCHANGED session
             \/ /\ IF x[2] = n THEN SendPart ELSE UNCHANGED given
                /\ UNCHANGED stickVars
      BY <1>11 DEF LateRequest
    <2>2. /\ register' \in {"1", register} /\ flag' \in {"13", "15", "16", flag}
          /\ given' \in BOOLEAN /\ session' \in BOOLEAN
      BY <2>1 DEF Execute, SendPart, stickVars
    <2> QED BY <1>11, <2>2 DEF LateRequest, callVars
  <1>12. CASE UNCHANGED vars
    BY <1>12 DEF vars, callVars, stickVars, histVars
  <1> QED BY <1>1, <1>2, <1>3, <1>4, <1>5, <1>6, <1>7, <1>8, <1>9, <1>10, <1>11, <1>12
          DEF Next, DriverStep, DeviceStep

\* The numbers: calls are counted up to the bound, parts up to what the message
\* has, and a text is not sent twice.
LEMMA NumbersStep ==
    ASSUME ConstantsOK, RemoteInv, [Next]_vars
    PROVE  Numbers'
  <1> USE DEF Numbers
  <1>0. TypeOK /\ Modes /\ Numbers
    BY Types DEF RemoteInv
  <1>1. ASSUME NEW k \in {"send", "ussd"}, Begin(k) PROVE Numbers'
    <2>1. air' \in Seq(1..n')
      BY <1>0, <1>1, Widened DEF Begin, stickVars
    <2>2. n \in Nat /\ n' \in 1..MaxCalls + 1 /\ ussd' \in 0..n' /\ data' \in 0..n'
      BY <1>0, <1>1 DEF Begin, stickVars, ConstantsOK
    <2>3. parts' \in 1..PhoneParts /\ part' \in 1..parts'
      BY <1>1 DEF Begin, ConstantsOK
    <2>4. late' = late /\ 1..n \subseteq 1..n'
      BY <1>1, <2>2 DEF Begin
    <2>5. late' \subseteq (Commands \union {"login"}) \X (1..n')
      BY <1>0, <2>4
    <2> QED BY <1>1, <2>1, <2>2, <2>3, <2>5 DEF Begin
  <1>2. CASE CommandAnswered
    <2>1. part' \in 1..parts
      BY <1>0, <1>2 DEF CommandAnswered, Accepted, ConstantsOK
    <2>2. reply' = reply
      BY <1>2 DEF CommandAnswered, Accepted, Throw, End
    <2> QED BY <1>0, <1>2, <2>1, <2>2 DEF CommandAnswered, stickVars, histVars
  <1>3. CASE ReadData
    BY <1>0, <1>3 DEF ReadData, callVars, stickVars, histVars
  <1>4. CASE HandleCommand
    <2>1. Append(air, n) \in Seq(1..n)
      BY <1>0, Appended DEF ConstantsOK
    <2>2. /\ air' = Append(air, n) \/ air' = air
          /\ ussd' = 0 \/ ussd' = n \/ ussd' = ussd
          /\ data' = 0 \/ data' = data
      BY <1>4 DEF HandleCommand, Execute
    <2>3. air' \in Seq(1..n)
      BY <1>0, <2>1, <2>2, Zenon
    <2>4. ussd' \in 0..n /\ data' \in 0..n
      BY <1>0, <2>2 DEF ConstantsOK
    <2> QED BY <1>0, <1>4, <2>3, <2>4 DEF HandleCommand, Overtaken, callVars
  <1>5. CASE HandleIsms
    <2>1. part = parts => taken = 0
      BY <1>0, <1>5 DEF HandleIsms, RemoteInv, CallShape, PhoneInv, OnPhone, Requests
    <2> QED BY <1>0, <1>5, <2>1 DEF HandleIsms, SendPart, Overtaken, callVars, stickVars
  <1>6. CASE MessageSettles
    <2>1. air' \in Seq(1..n)
      BY <1>0, <1>6, Tailed DEF MessageSettles
    <2>2. Head(air) = n /\ kind = "send" => taken = 0
      BY <1>6, HeadIsUnsent DEF MessageSettles, Queued
    <2> QED BY <1>0, <1>6, <2>1, <2>2 DEF MessageSettles, callVars
  <1>7. CASE NetworkReplies
    BY <1>0, <1>7 DEF NetworkReplies, callVars, histVars
  <1>8. CASE RequestFails
    <2>1. reply' = reply
      BY <1>8 DEF RequestFails, Throw, End, Open
    <2>2. late' \subseteq (Commands \union {"login"}) \X (1..n)
      <3>1. CASE pc \in {"login", "relogin"}
        BY <1>0, <1>8, <3>1 DEF RequestFails, ConstantsOK
      <3>2. CASE pc \notin {"login", "relogin"}
        <4>1. cmd \in Commands
          BY <1>8 DEF RequestFails, RemoteInv, CallShape, Commands
        <4> QED BY <1>0, <1>8, <3>2, <4>1 DEF RequestFails, ConstantsOK
      <3> QED BY <3>1, <3>2
    <2> QED BY <1>0, <1>8, <2>1, <2>2 DEF RequestFails, stickVars
  <1>9. CASE LateRequest
    <2>1. PICK x \in late :
             \/ UNCHANGED <<air, ussd, data, taken>>
             \/ Execute(x[1], x[2]) /\ UNCHANGED taken
             \/ /\ x[1] = "ISMS" /\ UNCHANGED stickVars
                /\ IF x[2] = n THEN SendPart ELSE UNCHANGED taken
      BY <1>9 DEF LateRequest
    <2>2. /\ x[2] \in 1..n
          /\ x[2] = n /\ x[1] = "ISMS" => taken = 0
      BY <1>0 DEF RemoteInv, LateInv
    <2>3. /\ air' = Append(air, x[2]) \/ air' = air
          /\ ussd' = 0 \/ ussd' = x[2] \/ ussd' = ussd
          /\ data' = 0 \/ data' = data
      BY <2>1 DEF Execute, stickVars
    <2>4. Append(air, x[2]) \in Seq(1..n)
      BY <1>0, <2>2, Appended
    <2>5. air' \in Seq(1..n)
      BY <1>0, <2>3, <2>4, Zenon
    <2>6. ussd' \in 0..n /\ data' \in 0..n
      BY <1>0, <2>2, <2>3 DEF ConstantsOK
    <2>7. taken' \in 0..1
      BY <1>0, <2>1, <2>2 DEF SendPart
    <2> QED BY <1>0, <1>9, <2>5, <2>6, <2>7 DEF LateRequest, callVars
  <1>10. ASSUME Check \/ LoginAnswered \/ PollStatus \/ PollFlag \/ Deadline
               \/ HandleLogin \/ SessionLapses \/ UNCHANGED vars
        PROVE  Numbers'
    BY <1>0, <1>10 DEF Check, LoginAnswered, PollStatus, PollFlag, Deadline, HandleLogin,
                SessionLapses, Overtaken, Throw, End, Open, vars, callVars, stickVars,
                histVars
  <1> QED BY <1>1, <1>2, <1>3, <1>4, <1>5, <1>6, <1>7, <1>8, <1>9, <1>10
          DEF Next, DriverStep, DeviceStep

\* A call's requests follow each other as its kind and driver have them.
LEMMA ShapeStep ==
    ASSUME Modes, CallShape, [Next]_vars
    PROVE  CallShape'
  <1> USE DEF CallShape, Requests, NeedsLogin
  <1>1. ASSUME NEW k \in {"send", "ussd"}, Begin(k) PROVE CallShape'
    BY <1>1 DEF Begin, Open, Goto
  <1>2. CASE Check
    BY <1>2 DEF Check, End, Open, Goto
  <1>3. CASE LoginAnswered
    BY <1>3 DEF LoginAnswered, Goto, Throw, End, Open
  <1>4. CASE CommandAnswered
    <2>1. ASSUME Accepted, UNCHANGED <<driver, kind>> PROVE CallShape'
      BY <1>4, <2>1 DEF CommandAnswered, Accepted, Goto, End, Open
    <2>2. ASSUME Throw, UNCHANGED <<driver, kind>> PROVE CallShape'
      BY <1>4, <2>2 DEF CommandAnswered, Throw, Goto, End, Open
    <2>3. ASSUME LogsInAgain, Goto("relogin"), UNCHANGED <<driver, kind, cmd>> PROVE CallShape'
      BY <1>4, <2>3 DEF CommandAnswered, Goto, LogsInAgain
    <2> QED BY <1>4, <2>1, <2>2, <2>3 DEF CommandAnswered
  <1>5. CASE RequestFails
    BY <1>5 DEF RequestFails, Throw, End, Open, Goto
  <1>6. CASE PollStatus \/ Deadline
    BY <1>6 DEF PollStatus, Deadline, End
  <1>7. CASE PollFlag \/ ReadData
    BY <1>7 DEF PollFlag, ReadData, Goto, callVars, Modes
  <1>8. CASE DeviceStep \/ UNCHANGED vars
    <2>1. UNCHANGED <<driver, kind, pc, cmd>>
      BY <1>8 DEF DeviceStep, HandleLogin, HandleCommand, HandleIsms, LateRequest,
                  MessageSettles, NetworkReplies, SessionLapses, vars, callVars
    <2> QED BY <2>1
  <1> QED BY <1>1, <1>2, <1>3, <1>4, <1>5, <1>6, <1>7, <1>8 DEF Next, DriverStep

\* A driver's own step leaves the device's memory alone; it ends a call of the
\* stick without an answer only blindly or by the deadline.
LEMMA StickByDriver ==
    ASSUME RemoteInv, DriverStep \/ Deadline
    PROVE  StickInv'
  <1> SUFFICES ASSUME OnStick' PROVE StickInv'
    BY DEF StickInv
  <1>1. UNCHANGED <<driver, kind, n, register, air, given, taken>>
    BY DEF DriverStep, Deadline, Check, LoginAnswered, CommandAnswered, RequestFails,
           PollStatus, PollFlag, ReadData, callVars, stickVars, histVars
  <1>2. /\ OnStick /\ CallShape /\ (given => Queued \/ Settled)
        /\ ~given => NotQueued /\ taken = 0
    BY <1>1 DEF OnStick, RemoteInv, StickInv
  <1>3. (given' => Queued' \/ Settled') /\ (~given' => NotQueued' /\ taken' = 0)
    BY <1>1, <1>2 DEF Queued, Settled, NotQueued
  <1> DEFINE Where ==
        /\ pc \in {"check", "login", "relogin"} => ~given
        /\ pc \in {"post", "repost"} => (given <=> wire = "yes")
        /\ pc = "poll" => given /\ wire # "asked"
        /\ pc = "idle" /\ given => air = <<>> \/ blind \/ fate = "confirm"
  <1>4. Where
    BY <1>2 DEF RemoteInv, StickInv
  <1>5. pc \in Requests => cmd = "SEND_SMS"
    BY <1>2 DEF OnStick, CallShape
  <1>6. Where'
    <2>1. CASE Check
      BY <1>1, <1>4, <2>1 DEF Check, End, Open, Goto
    <2>2. CASE LoginAnswered
      BY <1>1, <1>4, <1>5, <2>2 DEF LoginAnswered, Goto, Throw, End, Requests
    <2>3. CASE CommandAnswered
      <3>1. cmd = "SEND_SMS"
        BY <1>5, <2>3 DEF CommandAnswered, Requests
      <3>2. CASE wire = "yes"
        BY <1>1, <1>4, <2>3, <3>1, <3>2 DEF CommandAnswered, Accepted, Goto
      <3>3. CASE wire # "yes"
        BY <1>1, <1>4, <2>3, <3>1, <3>3 DEF CommandAnswered, Goto, Throw, End
      <3> QED BY <3>2, <3>3
    <2>4. CASE RequestFails
      <3>1. pc' = "idle"
        BY <1>5, <2>4 DEF RequestFails, Throw, End
      <3>2. given => wire # "asked" /\ (wire = "yes" \/ pc = "poll")
        BY <1>2, <1>4, <2>4 DEF RequestFails, CallShape, OnStick, Requests
      <3>3. given => blind' = (blind \/ (kind = "send" /\ (wire = "yes" \/ pc = "poll")))
        BY <2>4, <3>2 DEF RequestFails
      <3>4. given => blind'
        BY <1>2, <3>2, <3>3 DEF OnStick
      <3> QED BY <1>1, <3>1, <3>4
    <2>5. CASE PollStatus
      <3>1. given => air = <<>>
        BY <1>2, <2>5 DEF PollStatus, Queued, Settled
      <3> QED BY <1>1, <2>5, <3>1 DEF PollStatus, End
    <2>6. CASE PollFlag \/ ReadData
      BY <1>2, <1>5, <2>6 DEF PollFlag, ReadData, CallShape, OnStick, Requests
    <2>7. CASE Deadline
      BY <1>5, <2>7 DEF Deadline, DeadlineFate, Expires, End, Requests
    <2> QED BY <2>1, <2>2, <2>3, <2>4, <2>5, <2>6, <2>7 DEF DriverStep
  <1> QED BY <1>3, <1>6 DEF StickInv

\* A message given to the stick queues behind the others, and settles as their last.
LEMMA StickByDevice ==
    ASSUME ConstantsOK, StatusIsOwn, RejectMeansRefused, RemoteInv, DeviceStep
    PROVE  StickInv'
  <1> SUFFICES ASSUME OnStick' PROVE StickInv'
    BY DEF StickInv
  <1>1. UNCHANGED <<driver, kind, n, pc, fate, blind>>
    BY DEF DeviceStep, HandleLogin, HandleCommand, HandleIsms, LateRequest,
           MessageSettles, NetworkReplies, SessionLapses, callVars, histVars
  <1>2. OnStick /\ CallShape /\ air \in Seq(1..n) /\ n \in 1..n
    BY <1>1, Types DEF OnStick, RemoteInv, Numbers, ConstantsOK
  <1>3. CASE HandleLogin \/ NetworkReplies \/ SessionLapses
    <2>1. /\ UNCHANGED <<register, air, given, taken>>
          /\ pc \in {"post", "repost", "poll"} => wire' = wire
      BY <1>3 DEF HandleLogin, NetworkReplies, SessionLapses, callVars, histVars
    <2> QED BY <1>1, <1>2, <2>1 DEF RemoteInv, StickInv, Queued, Settled, NotQueued
  <1>4. CASE HandleCommand
    <2>1. /\ pc \in {"post", "repost"} /\ cmd = "SEND_SMS"
          /\ ~given /\ NotQueued /\ taken = 0 /\ taken' = 0
      BY <1>2, <1>4 DEF HandleCommand, CallShape, OnStick, Requests, RemoteInv, StickInv
    <2>2. CASE wire' = "yes"
      <3>1. air' = Append(air, n) /\ register' = "1" /\ given'
        BY <1>4, <2>1, <2>2 DEF HandleCommand, Execute
      <3>2. Queued'
        BY <1>1, <1>2, <2>1, <3>1, Appended DEF Queued, NotQueued
      <3> QED BY <1>1, <2>1, <2>2, <3>1, <3>2 DEF StickInv
    <2>3. CASE wire' = "no"
      <3>1. UNCHANGED <<air, given>>
        BY <1>4, <2>3 DEF HandleCommand
      <3> QED BY <1>1, <2>1, <2>3, <3>1 DEF StickInv, NotQueued
    <2> QED BY <1>4, <2>2, <2>3 DEF HandleCommand
  <1>5. CASE HandleIsms
    BY <1>2, <1>5 DEF HandleIsms, CallShape, OnStick, Requests
  <1>6. CASE MessageSettles
    <2>1. /\ air # <<>> /\ air' = Tail(air) /\ UNCHANGED <<given, wire>>
          /\ Len(air) \in Nat \ {0} /\ Len(air') = Len(air) - 1 /\ air' \in Seq(1..n)
          /\ \A j \in 1..Len(air) - 1 : air'[j] = air[j + 1]
          /\ Head(air) = air[1]
      BY <1>2, <1>6, Tailed DEF MessageSettles, callVars
    <2>2. CASE ~given
      <3>1. NotQueued /\ taken = 0
        BY <1>2, <2>2 DEF RemoteInv, StickInv
      <3>2. NotQueued' /\ Head(air) # n
        BY <1>1, <2>1, <3>1 DEF NotQueued
      <3>3. taken' = 0
        BY <1>6, <3>1, <3>2 DEF MessageSettles
      <3> QED BY <1>1, <1>2, <2>1, <2>2, <3>2, <3>3 DEF RemoteInv, StickInv
    <2>3. CASE given /\ Len(air) = 1
      <3>1. Queued
        BY <1>2, <2>1, <2>3 DEF RemoteInv, StickInv, Settled
      <3>2. Head(air) = n /\ taken = 0
        BY <2>1, <2>3, <3>1 DEF Queued
      <3>3. air' = <<>>
        BY <2>1, <2>3, EmptySeq
      <3>4. Settled'
        BY <1>2, <1>6, <2>3, <3>2, <3>3 DEF MessageSettles, Settled, OnStick
      <3> QED BY <1>1, <1>2, <2>1, <2>3, <3>3, <3>4 DEF RemoteInv, StickInv
    <2>4. CASE given /\ Len(air) > 1
      <3>1. Queued
        BY <1>2, <2>1, <2>4 DEF RemoteInv, StickInv, Settled
      <3>2. register' = "1" /\ taken' = 0 /\ Head(air) # n
        <4>1. 1 \in 1..Len(air) /\ 1 # Len(air)
          BY SMTT(20), <2>1, <2>4
        <4>2. Head(air) # n
          BY <2>1, <3>1, <4>1 DEF Queued
        <4> QED BY <1>6, <2>4, <3>1, <4>2 DEF MessageSettles, Queued
      <3>3. Queued'
        <4>1. air' # <<>>
          BY <2>1, <2>4, EmptySeq
        <4>2. air'[Len(air')] = n /\ \A j \in 1..Len(air') : j # Len(air') => air'[j] # n
          <5>1. \A j \in 1..Len(air') : j \in 1..Len(air) - 1 /\ j + 1 \in 1..Len(air)
            BY <2>1
          <5>2. ASSUME NEW j \in 1..Len(air')
                PROVE  air'[j] = air[j + 1] /\ (j = Len(air') <=> j + 1 = Len(air))
            BY <2>1, <5>1
          <5>3. Len(air') \in 1..Len(air')
            BY <2>1, <2>4
          <5>4. air'[Len(air')] = air[Len(air)]
            BY <5>2, <5>3
          <5>5. ASSUME NEW j \in 1..Len(air'), j # Len(air') PROVE air'[j] # n
            BY <3>1, <5>1, <5>2, <5>5 DEF Queued
          <5> QED BY <3>1, <5>4, <5>5 DEF Queued
        <4> QED BY <1>1, <3>2, <4>1, <4>2 DEF Queued
      <3>4. pc = "idle" => blind \/ fate = "confirm"
        BY <1>2, <2>1, <2>4 DEF RemoteInv, StickInv
      <3> QED BY <1>1, <1>2, <2>1, <2>4, <3>3, <3>4 DEF RemoteInv, StickInv
    <2> QED BY <2>1, <2>2, <2>3, <2>4
  <1>7. CASE LateRequest
    <2>1. UNCHANGED <<wire, taken>>
          /\ \/ UNCHANGED <<register, air, given>>
             \/ \E k \in 1..n : /\ <<"SEND_SMS", k>> \in late
                               /\ register' = "1" /\ air' = Append(air, k)
                               /\ given' = (given \/ k = n)
      <3>1. PICK x \in late :
               \/ UNCHANGED <<register, air, given, taken>>
               \/ Execute(x[1], x[2]) /\ UNCHANGED taken
               \/ x[1] = "ISMS"
        BY <1>7 DEF LateRequest
      <3>2. x[1] # "ISMS" /\ x[2] \in 1..n /\ x = <<x[1], x[2]>>
        BY <1>2, Types DEF RemoteInv, LateInv, OnStick, Numbers
      <3>3. CASE UNCHANGED <<register, air, given, taken>>
        BY <1>7, <3>3 DEF LateRequest
      <3>4. CASE Execute(x[1], x[2]) /\ UNCHANGED taken
        BY <1>7, <3>2, <3>4 DEF LateRequest, Execute
      <3> QED BY <3>1, <3>2, <3>3, <3>4
    <2>2. ~given /\ NotQueued /\ taken = 0
      BY <1>2, <1>7 DEF LateRequest, RemoteInv, LateInv, StickInv
    <2>3. CASE UNCHANGED <<register, air, given>>
      BY <1>1, <1>2, <2>1, <2>3 DEF RemoteInv, StickInv, Queued, Settled, NotQueued
    <2>4. ASSUME NEW k \in 1..n, <<"SEND_SMS", k>> \in late, k # n,
                 air' = Append(air, k), given' = (given \/ k = n)
          PROVE  StickInv'
      <3>1. NotQueued'
        BY <1>1, <1>2, <2>2, <2>4, Appended DEF NotQueued
      <3> QED BY <1>1, <1>2, <2>1, <2>2, <2>4, <3>1 DEF RemoteInv, StickInv
    <2>5. ASSUME <<"SEND_SMS", n>> \in late, register' = "1", air' = Append(air, n), given' = TRUE
          PROVE  StickInv'
      <3>1. ASSUME NEW x \in late, x[1] = "SEND_SMS", x[2] = n PROVE pc = "idle" /\ blind
        BY <3>1 DEF RemoteInv, LateInv
      <3>2. \E x \in late : x[1] = "SEND_SMS" /\ x[2] = n
        BY <2>5
      <3>3. pc' = "idle" /\ blind'
        BY <1>1, <3>1, <3>2
      <3>4. taken' = 0 /\ n' = n /\ NotQueued
        BY <1>1, <2>1, <2>2
      <3>5. Queued'
        BY <1>2, <2>5, <3>4, Appended DEF Queued, NotQueued
      <3> QED BY <2>5, <3>3, <3>5 DEF StickInv
    <2> QED BY <2>1, <2>3, <2>4, <2>5
  <1> QED BY <1>3, <1>4, <1>5, <1>6, <1>7 DEF DeviceStep

\* Every step keeps track of a message on the stick.
LEMMA StickStep ==
    ASSUME ConstantsOK, StatusIsOwn, RejectMeansRefused, RemoteInv, [Next]_vars
    PROVE  StickInv'
  <1>1. ASSUME NEW k \in {"send", "ussd"}, Begin(k) PROVE StickInv'
    <2>1. /\ UNCHANGED air /\ n' = n + 1 /\ ~given' /\ taken' = 0
          /\ kind' = "send" => pc' = "check"
      BY <1>1 DEF Begin, stickVars
    <2>2. NotQueued'
      BY <2>1, Widened DEF RemoteInv, NotQueued
    <2> QED BY <2>1, <2>2 DEF StickInv, OnStick
  <1>2. CASE UNCHANGED vars
    BY <1>2 DEF vars, callVars, stickVars, histVars, RemoteInv, StickInv, OnStick, Queued,
                Settled, NotQueued
  <1> QED BY <1>1, <1>2, StickByDriver, StickByDevice DEF Next

\* The phone has sent the text when it has answered the last part.
LEMMA PhoneStep ==
    ASSUME ConstantsOK, RemoteInv, [Next]_vars
    PROVE  PhoneInv'
  <1> SUFFICES ASSUME OnPhone' PROVE PhoneInv'
    BY DEF PhoneInv
  <1>1. ASSUME NEW k \in {"send", "ussd"}, Begin(k) PROVE PhoneInv'
    <2>1. UNCHANGED air /\ n' = n + 1 /\ taken' = 0 /\ (kind' = "send" => pc' = "check")
      BY <1>1 DEF Begin, stickVars
    <2> QED BY <2>1, Widened DEF RemoteInv, PhoneInv, OnPhone, NotQueued
  <1>2. CASE MessageSettles
    <2>1. OnPhone /\ NotQueued /\ UNCHANGED <<n, pc, part, parts, wire>>
      BY <1>2 DEF MessageSettles, callVars, OnPhone, RemoteInv, PhoneInv
    <2>2. /\ Len(air) \in Nat \ {0} /\ Len(air') = Len(air) - 1 /\ Head(air) = air[1]
          /\ \A j \in 1..Len(air) - 1 : air'[j] = air[j + 1]
      BY <1>2, Types, Tailed DEF MessageSettles, RemoteInv, Numbers
    <2>3. NotQueued' /\ Head(air) # n
      BY <2>1, <2>2 DEF NotQueued
    <2>4. taken' = taken
      BY <1>2, <2>3 DEF MessageSettles
    <2> QED BY <2>1, <2>3, <2>4 DEF RemoteInv, PhoneInv
  <1>3. CASE LateRequest
    <2>1. OnPhone /\ NotQueued /\ UNCHANGED <<n, pc, part, parts, wire>>
      BY <1>3 DEF LateRequest, callVars, OnPhone, RemoteInv, PhoneInv
    <2>2. PICK x \in late :
             \/ x[1] = "login"
             \/ Execute(x[1], x[2])
             \/ /\ IF x[2] = n THEN SendPart ELSE UNCHANGED <<given, taken>>
                /\ UNCHANGED stickVars
      BY <1>3 DEF LateRequest
    <2>3. x[1] = "ISMS" /\ (x[2] = n => pc = "idle")
      BY <2>1 DEF OnPhone, RemoteInv, LateInv
    <2>4. air' = air /\ (pc # "idle" => taken' = taken)
      BY <2>2, <2>3 DEF Execute, stickVars
    <2> QED BY <2>1, <2>4 DEF RemoteInv, PhoneInv, NotQueued
  <1>4. CASE ~(MessageSettles \/ LateRequest \/ \E k \in {"send", "ussd"} : Begin(k))
    <2>1. UNCHANGED <<driver, kind, n>>
      BY <1>4 DEF Next, DriverStep, DeviceStep, Check, LoginAnswered, CommandAnswered,
                  RequestFails, PollStatus, PollFlag, ReadData, Deadline, HandleLogin,
                  HandleCommand, HandleIsms, NetworkReplies, SessionLapses, vars, callVars
    <2>2. OnPhone /\ CallShape /\ NotQueued /\ (pc = "check" => taken = 0)
          /\ (pc = "post" => (taken = 1 <=> part = parts /\ wire = "yes"))
      BY <2>1 DEF OnPhone, RemoteInv, PhoneInv
    <2>3. pc \in {"idle", "check", "post"} /\ (pc = "post" => cmd = "ISMS")
      BY <2>2 DEF OnPhone, CallShape, Requests
    <2>4. UNCHANGED air
      BY <1>4, <2>3 DEF Next, DriverStep, DeviceStep, Check, LoginAnswered, CommandAnswered,
                  RequestFails, PollStatus, PollFlag, ReadData, Deadline, HandleLogin,
                  HandleCommand, HandleIsms, NetworkReplies, SessionLapses, vars, stickVars
    <2>5. NotQueued'
      BY <2>1, <2>2, <2>4 DEF NotQueued
    <2>6. /\ pc' = "check" => taken' = 0
          /\ pc' = "post" => (taken' = 1 <=> part' = parts' /\ wire' = "yes")
      <3>1. CASE Check
        BY <2>2, <3>1 DEF Check, End, Open, Goto
      <3>2. CASE CommandAnswered
        BY <2>2, <2>3, <3>2, Types DEF CommandAnswered, LogsInAgain, NeedsLogin, OnPhone,
              Accepted, Throw, Goto, End, histVars, RemoteInv, Numbers, ConstantsOK
      <3>3. CASE RequestFails
        BY <2>3, <3>3 DEF RequestFails, Throw, End, Requests
      <3>4. CASE HandleIsms
        BY <2>2, <3>4, Types DEF HandleIsms, SendPart, callVars, RemoteInv, Numbers
      <3>5. CASE NetworkReplies \/ SessionLapses \/ UNCHANGED vars
        BY <2>2, <3>5 DEF NetworkReplies, SessionLapses, vars, callVars, histVars
      <3>6. ~(LoginAnswered \/ PollStatus \/ PollFlag \/ ReadData \/ Deadline
              \/ HandleLogin \/ HandleCommand)
        BY <2>3 DEF LoginAnswered, PollStatus, PollFlag, ReadData, Deadline, Expires,
              HandleLogin, HandleCommand
      <3> QED BY <1>4, <3>1, <3>2, <3>3, <3>4, <3>5, <3>6 DEF Next, DriverStep, DeviceStep
    <2> QED BY <2>5, <2>6 DEF PhoneInv
  <1> QED BY <1>1, <1>2, <1>3, <1>4

\* What the driver gave up on stays behind what it asks next.
LEMMA LateStep ==
    ASSUME ConstantsOK, HandlesInOrder, RemoteInv, [Next]_vars
    PROVE  LateInv'
  <1>1. Modes /\ Numbers /\ CallShape /\ LateInv
    BY Types DEF RemoteInv
  <1>2. \A x \in late : x[2] \in 1..n
    BY <1>1 DEF Numbers
  <1>3. ASSUME NEW k \in {"send", "ussd"}, Begin(k) PROVE LateInv'
    <2>1. UNCHANGED <<driver, late>> /\ n' = n + 1 /\ ~given'
      BY <1>3 DEF Begin
    <2>2. \A x \in late : x[2] # n'
      BY <1>1, <1>2, <2>1 DEF Numbers, ConstantsOK
    <2> QED BY <1>1, <2>1, <2>2 DEF LateInv, OnStick
  <1>4. CASE RequestFails
    <2>1. UNCHANGED <<driver, kind, n, given, taken>> /\ pc \in Requests
      BY <1>4 DEF RequestFails
    <2>2. kind = "send" => pc' = "idle"
      BY <1>1, <1>4 DEF RequestFails, CallShape, Throw, End
    <2>3. CASE UNCHANGED late
      <3>1. OnStick' /\ given' => late' = {}
        BY <1>1, <2>1, <2>3 DEF LateInv, OnStick
      <3>2. ASSUME NEW x \in late', x[2] = n, x[1] \in {"SEND_SMS", "ISMS"} PROVE FALSE
        BY <1>1, <2>1, <2>3, <3>2 DEF LateInv, Requests
      <3> QED BY <1>1, <2>1, <2>3, <3>1, <3>2 DEF LateInv
    <2>4. CASE wire = "asked" /\ late' = {<<IF pc \in {"login", "relogin"} THEN "login" ELSE cmd, n>>}
                /\ blind' = (blind \/ (kind = "send" /\ pc \in {"post", "repost"}))
      <3>1. OnStick => ~given
        BY <1>1, <2>1, <2>4 DEF RemoteInv, StickInv, CallShape, OnStick, Requests
      <3>2. driver = "adb" => pc = "post" /\ cmd = "ISMS" /\ taken = 0
        BY <1>1, <2>1, <2>4 DEF RemoteInv, PhoneInv, CallShape, OnPhone, Requests, Numbers
      <3>3. driver # "adb" => cmd # "ISMS" /\ (kind = "send" => taken = 0)
        BY <1>1, <2>1, <2>4, <3>1 DEF RemoteInv, StickInv, CallShape, OnStick
      <3>4. pc \notin {"login", "relogin"} /\ cmd \in {"SEND_SMS", "ISMS"} =>
                kind = "send" /\ blind'
        BY <1>1, <2>1, <2>4 DEF CallShape, Requests, RemoteInv, StickInv, OnStick
      <3>5. OnStick' /\ given' => late' = {}
        BY <2>1, <3>1 DEF OnStick
      <3>6. ASSUME NEW x \in late'
            PROVE  /\ x[1] = "ISMS" <=> driver' = "adb"
                   /\ x[2] = n' /\ x[1] \in {"SEND_SMS", "ISMS"}
                         => kind' = "send" /\ pc' = "idle" /\ blind' /\ taken' = 0
        <4>1. x = <<IF pc \in {"login", "relogin"} THEN "login" ELSE cmd, n>>
          BY <2>4
        <4> QED BY <2>1, <2>2, <3>2, <3>3, <3>4, <4>1
      <3> QED BY <3>5, <3>6 DEF LateInv
    <2> QED BY <1>4, <2>3, <2>4 DEF RequestFails
  <1>5. CASE late' = {}
    BY <1>5 DEF LateInv
  <1>6. CASE HandleLogin \/ HandleCommand \/ HandleIsms \/ LateRequest
    <2>1. late' = {}
      BY <1>6 DEF HandleLogin, HandleCommand, HandleIsms, LateRequest, Overtaken
    <2> QED BY <1>5, <2>1
  <1>7. CASE MessageSettles
    <2>1. UNCHANGED <<driver, kind, n, pc, blind, given, late>>
          /\ (taken' = taken \/ (kind = "send" /\ Head(air) = n /\ air # <<>>))
      BY <1>7 DEF MessageSettles, callVars
    <2>2. kind = "send" /\ Head(air) = n /\ air # <<>> => OnStick /\ given
      BY HeadIsUnsent
    <2> QED BY <1>1, <2>1, <2>2 DEF LateInv, OnStick
  <1>8. ASSUME Check \/ LoginAnswered \/ CommandAnswered \/ PollStatus \/ PollFlag
               \/ ReadData \/ Deadline \/ NetworkReplies \/ SessionLapses \/ UNCHANGED vars
        PROVE  LateInv'
    <2>1. UNCHANGED <<driver, kind, n, blind, given, taken, late>>
          /\ (pc = "idle" => pc' = "idle")
      BY <1>8 DEF Check, LoginAnswered, CommandAnswered, PollStatus, PollFlag, ReadData,
            Deadline, Expires, NetworkReplies, SessionLapses, vars, callVars, histVars
    <2> QED BY <1>1, <2>1 DEF LateInv, OnStick
  <1> QED BY <1>3, <1>4, <1>6, <1>7, <1>8 DEF Next, DriverStep, DeviceStep

\* The driver and its device keep track of the message together.
THEOREM RemoteInvariance ==
    ASSUME ConstantsOK, HandlesInOrder, StatusIsOwn, RejectMeansRefused
    PROVE  Spec => []RemoteInv
  <1>1. Init => RemoteInv
    BY InitInv
  <1>2. RemoteInv /\ [Next]_vars => RemoteInv'
    <2> SUFFICES ASSUME RemoteInv, [Next]_vars PROVE RemoteInv'
      OBVIOUS
    <2>1. Modes /\ Numbers /\ CallShape
      BY Types DEF RemoteInv
    <2>2. Modes' /\ Numbers' /\ CallShape' /\ StickInv' /\ PhoneInv' /\ LateInv'
      BY <2>1, ModesStep, NumbersStep, ShapeStep, StickStep, PhoneStep, LateStep
    <2>3. TypeOK'
      BY <2>2 DEF TypeOK, Modes, Numbers
    <2> QED BY <2>2, <2>3 DEF RemoteInv
  <1> QED BY <1>1, <1>2, PTL DEF Spec

-----------------------------------------------------------------------------
\* The contract.

\* What ends a send is told by a verdict that is true.
LEMMA SendReturns ==
    ASSUME TypeOK, kind = "send", pc # "idle", NEW v \in Driver!Verdicts,
           kind' = "send", pc' = "idle", fate' = v, UNCHANGED <<given, taken>>,
           blind' = blind \/ blind' = TRUE,
           v = "ok" => taken = 1,
           v = "confirm" => given,
           v = "error" => taken = 0 \/ blind'
    PROVE  Driver!Next
  <1>1. Driver!Return(v)
    BY DEF Driver!Return
  <1> QED BY <1>1 DEF Driver!Next

\* A step that neither ends a send nor gives the device anything.
LEMMA Stutters ==
    ASSUME UNCHANGED <<kind, given, taken, blind>>,
           kind = "send" => (pc' = "idle" <=> pc = "idle"),
           kind = "send" /\ pc = "idle" => fate' = fate
    PROVE  UNCHANGED Driver!contractVars
  BY DEF Driver!contractVars

\* A driver's step in a send: a return, or a stutter.
LEMMA ContractByDriver ==
    ASSUME RemoteInv, kind = "send", DriverStep \/ Deadline
    PROVE  [Driver!Next]_(Driver!contractVars)
  <1>1. UNCHANGED <<kind, given, taken>> /\ pc # "idle"
    BY DEF DriverStep, Deadline, Expires, Check, LoginAnswered, CommandAnswered, RequestFails,
           PollStatus, PollFlag, ReadData, callVars, stickVars, histVars, Requests
  <1>2. TypeOK /\ Modes /\ Numbers /\ CallShape /\ pc # "data"
    BY Types DEF RemoteInv, CallShape
  <1>3. cmd \notin {"ussd_cancel", "ussd_send"} \/ pc = "check"
    BY <1>1, <1>2 DEF CallShape, Modes, Requests
  <1>4. {"ok", "error", "confirm"} = Driver!Verdicts
    BY DEF Driver!Verdicts
  <1>5. OnStick \/ OnPhone
    BY DEF OnStick, OnPhone
  <1>6. CASE Check
    <2>1. taken = 0 /\ UNCHANGED blind
      BY <1>5, <1>6 DEF Check, RemoteInv, StickInv, PhoneInv
    <2>2. CASE pc' = "idle"
      BY <1>1, <1>2, <1>4, <1>6, <2>1, <2>2, SendReturns DEF Check, End, Open, Goto
    <2> QED BY <1>1, <2>1, <2>2, Stutters
  <1>7. CASE LoginAnswered
    <2>1. UNCHANGED blind /\ taken = 0
      BY <1>2, <1>5, <1>7 DEF LoginAnswered, histVars, RemoteInv, StickInv, CallShape, OnPhone
    <2>2. CASE pc' = "idle"
      <3>1. fate' = "error"
        BY <1>3, <1>7, <2>2 DEF LoginAnswered, Goto, Throw, End
      <3> QED BY <1>1, <1>2, <1>4, <2>1, <2>2, <3>1, SendReturns
    <2> QED BY <1>1, <2>1, <2>2, Stutters
  <1>8. CASE CommandAnswered
    <2>1. UNCHANGED blind
      BY <1>8 DEF CommandAnswered, histVars
    <2>2. CASE pc' = "idle" /\ wire = "yes"
      <3>1. fate' = "ok" /\ cmd = "ISMS" /\ part = parts
        BY <1>3, <1>8, <2>2 DEF CommandAnswered, Accepted, Goto, End, Open
      <3>2. taken = 1
        BY <1>2, <1>5, <1>8, <2>2, <3>1 DEF CommandAnswered, CallShape, OnStick, OnPhone,
              Requests, RemoteInv, PhoneInv
      <3> QED BY <1>1, <1>2, <1>4, <2>1, <2>2, <3>1, <3>2, SendReturns
    <2>3. CASE pc' = "idle" /\ wire # "yes"
      <3>1. fate' = "error"
        BY <1>3, <1>8, <2>3 DEF CommandAnswered, Goto, Throw, End
      <3>2. taken = 0
        BY <1>2, <1>5, <1>8, <2>3 DEF CommandAnswered, CallShape, OnPhone, Numbers,
              RemoteInv, StickInv, PhoneInv
      <3> QED BY <1>1, <1>2, <1>4, <2>1, <2>3, <3>1, <3>2, SendReturns
    <2> QED BY <1>1, <2>1, <2>2, <2>3, Stutters
  <1>9. CASE RequestFails
    <2>1. pc' = "idle" /\ fate' = "error"
      BY <1>3, <1>9 DEF RequestFails, Throw, End, Requests
    <2>2. blind' = blind \/ blind' = TRUE
      BY <1>2, <1>9 DEF RequestFails, Modes
    <2>3. wire = "yes" \/ pc = "poll" => blind'
      <3>1. pc = "poll" => wire # "asked"
        BY <1>2, <1>5 DEF CallShape, OnPhone, RemoteInv, StickInv
      <3> QED BY <1>9, <3>1 DEF RequestFails
    <2>4. wire = "yes" \/ pc = "poll" \/ taken = 0
      BY <1>2, <1>5, <1>9 DEF RequestFails, CallShape, OnPhone, Requests, Numbers,
            RemoteInv, StickInv, PhoneInv
    <2> QED BY <1>1, <1>2, <1>4, <2>1, <2>2, <2>3, <2>4, SendReturns
  <1>10. CASE PollStatus
    <2>1. OnStick /\ given /\ (Queued \/ Settled)
      BY <1>2, <1>5, <1>10 DEF PollStatus, CallShape, OnPhone, RemoteInv, StickInv
    <2>2. (register = "3" => taken = 1) /\ (register = "2" => taken = 0)
      BY <2>1 DEF Queued, Settled
    <2>3. UNCHANGED blind
      BY <1>10 DEF PollStatus
    <2>4. CASE register = "3"
      BY <1>1, <1>2, <1>4, <1>10, <2>2, <2>3, <2>4, SendReturns DEF PollStatus, End
    <2>5. CASE register = "2"
      BY <1>1, <1>2, <1>4, <1>10, <2>2, <2>3, <2>5, SendReturns DEF PollStatus, End
    <2> QED BY <1>10, <2>4, <2>5 DEF PollStatus
  <1>11. CASE Deadline
    <2>1. pc' = "idle" /\ fate' = "confirm" /\ UNCHANGED blind
      BY <1>2, <1>11 DEF Deadline, DeadlineFate, Expires, End, CallShape, Requests, histVars
    <2>2. given
      BY <1>2, <1>5, <1>11 DEF Deadline, Expires, CallShape, OnPhone, RemoteInv, StickInv
    <2> QED BY <1>1, <1>2, <1>4, <2>1, <2>2, SendReturns
  <1>12. ~(PollFlag \/ ReadData)
    BY <1>2, <1>3 DEF PollFlag, ReadData
  <1> QED BY <1>6, <1>7, <1>8, <1>9, <1>10, <1>11, <1>12 DEF DriverStep

\* A device's step: it is given the text, takes it, or the contract stutters.
LEMMA ContractByDevice ==
    ASSUME ConstantsOK, RejectMeansRefused, RemoteInv, DeviceStep
    PROVE  [Driver!Next]_(Driver!contractVars)
  <1>1. UNCHANGED <<driver, kind, n, pc, fate, blind>>
    BY DEF DeviceStep, HandleLogin, HandleCommand, HandleIsms, LateRequest,
           MessageSettles, NetworkReplies, SessionLapses, callVars, histVars
  <1>2. TypeOK /\ CallShape
    BY DEF RemoteInv
  <1>3. CASE UNCHANGED <<given, taken>>
    BY <1>1, <1>3, Stutters
  <1>4. CASE HandleCommand /\ ~UNCHANGED given
    <2>1. kind = "send" /\ pc # "idle" /\ given' = TRUE /\ UNCHANGED taken
      BY <1>2, <1>4 DEF HandleCommand, Execute, CallShape, Requests
    <2>2. Driver!Give
      BY <1>1, <2>1 DEF Driver!Give
    <2> QED BY <2>2 DEF Driver!Next
  <1>5. CASE HandleIsms
    <2>1. kind = "send" /\ pc = "post"
      BY <1>2, <1>5 DEF HandleIsms, CallShape, Requests
    <2>2. CASE wire' = "yes" /\ part = parts
      <3>1. taken = 0
        BY <1>2, <1>5, <2>1, <2>2 DEF HandleIsms, CallShape, RemoteInv, PhoneInv, OnPhone,
              Requests, TypeOK
      <3>2. Driver!Take
        BY <1>1, <1>5, <2>1, <2>2, <3>1 DEF HandleIsms, SendPart, Driver!Take
      <3> QED BY <3>2 DEF Driver!Next
    <2>3. CASE wire' = "yes" /\ part # parts
      <3>1. Driver!Give
        BY <1>1, <1>5, <2>1, <2>3 DEF HandleIsms, SendPart, Driver!Give
      <3> QED BY <3>1 DEF Driver!Next
    <2> QED BY <1>3, <1>5, <2>2, <2>3 DEF HandleIsms
  <1>6. CASE MessageSettles /\ ~UNCHANGED taken
    <2>1. Head(air) = n /\ kind = "send" /\ air # <<>> /\ UNCHANGED given /\ taken' = taken + 1
      BY <1>6 DEF MessageSettles
    <2>2. OnStick /\ given /\ Queued
      BY <2>1, HeadIsUnsent
    <2>3. taken = 0 /\ (pc = "idle" => blind \/ fate = "confirm")
      BY <2>1, <2>2 DEF RemoteInv, StickInv, Queued
    <2>4. given' = TRUE
      BY <1>2, <2>1, <2>2 DEF TypeOK
    <2>5. Driver!Take
      BY <1>1, <2>1, <2>2, <2>3, <2>4 DEF Driver!Take
    <2> QED BY <2>5 DEF Driver!Next
  <1>7. CASE LateRequest
    <2>1. PICK x \in late :
             \/ UNCHANGED <<given, taken>>
             \/ Execute(x[1], x[2]) /\ UNCHANGED taken
             \/ x[1] = "ISMS" /\ IF x[2] = n THEN SendPart ELSE UNCHANGED <<given, taken>>
      BY <1>7 DEF LateRequest
    <2>2. /\ given \in BOOLEAN
          /\ x[2] = n /\ x[1] \in {"SEND_SMS", "ISMS"}
                => kind = "send" /\ pc = "idle" /\ blind /\ taken = 0
      BY <1>2 DEF TypeOK, RemoteInv, LateInv
    <2>3. CASE ~UNCHANGED <<given, taken>> /\ Execute(x[1], x[2]) /\ UNCHANGED taken
      <3>1. x[2] = n /\ x[1] = "SEND_SMS" /\ given' = TRUE
        BY <2>2, <2>3 DEF Execute
      <3>2. Driver!Give
        BY <1>1, <2>2, <2>3, <3>1 DEF Driver!Give
      <3> QED BY <3>2 DEF Driver!Next
    <2>4. CASE ~UNCHANGED <<given, taken>> /\ x[1] = "ISMS" /\ x[2] = n /\ SendPart
      <3>1. CASE part = parts
        <4>1. Driver!Take
          BY <1>1, <2>2, <2>4, <3>1 DEF SendPart, Driver!Take
        <4> QED BY <4>1 DEF Driver!Next
      <3>2. CASE part # parts
        <4>1. Driver!Give
          BY <1>1, <2>2, <2>4, <3>2 DEF SendPart, Driver!Give
        <4> QED BY <4>1 DEF Driver!Next
      <3> QED BY <3>1, <3>2
    <2> QED BY <1>3, <2>1, <2>3, <2>4
  <1> QED BY <1>3, <1>4, <1>5, <1>6, <1>7
          DEF DeviceStep, HandleLogin, HandleCommand, MessageSettles, NetworkReplies,
              SessionLapses, histVars

\* Every step of a stick's or a phone's driver, or of the device, is one the
\* driver contract allows, or changes nothing the contract speaks of.
LEMMA ContractStep ==
    ASSUME ConstantsOK, RejectMeansRefused, RemoteInv, [Next]_vars
    PROVE  [Driver!Next]_(Driver!contractVars)
  <1>1. ASSUME NEW k \in {"send", "ussd"}, Begin(k) PROVE Driver!Next
    <2>1. Driver!Begin
      BY <1>1 DEF Begin, Driver!Begin
    <2> QED BY <2>1 DEF Driver!Next
  <1>2. CASE DriverStep \/ Deadline
    <2>1. CASE kind = "send"
      BY <1>2, <2>1, ContractByDriver
    <2>2. CASE kind # "send"
      <3>1. CallShape /\ pc # "check"
        BY <2>2 DEF RemoteInv, CallShape
      <3>2. UNCHANGED <<kind, given, taken>>
        BY <1>2, <3>1 DEF DriverStep, Deadline, Check, LoginAnswered, CommandAnswered,
              RequestFails, PollStatus, PollFlag, ReadData, callVars, histVars
      <3>3. UNCHANGED blind
        <4>1. CASE RequestFails
          BY <2>2, <4>1 DEF RequestFails, RemoteInv, TypeOK
        <4>2. CASE ~RequestFails
          BY <1>2, <3>1, <4>2 DEF DriverStep, Deadline, Check, LoginAnswered, CommandAnswered,
                PollStatus, PollFlag, ReadData, histVars
        <4> QED BY <4>1, <4>2
      <3> QED BY <2>2, <3>2, <3>3, Stutters
    <2> QED BY <2>1, <2>2
  <1>3. CASE UNCHANGED vars
    BY <1>3, Stutters DEF vars, callVars, histVars
  <1> QED BY <1>1, <1>2, <1>3, ContractByDevice DEF Next

\* A send through a stick or a phone that resolves was sent, once; one that
\* rejects with a plain error was not, unless an answer was lost; the deadline
\* means confirmTimeout of a message the stick had accepted (zte-http.js:248-282,
\* adb.js:117-140).  It holds for devices that behave as assumed above.
THEOREM RemoteKeepsContract ==
    ASSUME ConstantsOK, HandlesInOrder, StatusIsOwn, RejectMeansRefused
    PROVE  Spec => ImplementsDriver
  <1>1. Init => Driver!Init
    BY DEF Init, Driver!Init
  <1>2. RemoteInv /\ [Next]_vars => [Driver!Next]_(Driver!contractVars)
    BY ContractStep
  <1> QED BY <1>1, <1>2, RemoteInvariance, PTL DEF Spec, ImplementsDriver, Driver!Spec

-----------------------------------------------------------------------------
\* USSD replies.

\* The stick's session is that of the ussd_send that was executed last.
SessionInv ==
    /\ reply \in {0, n}
    /\ pc = "data" => cmd = "ussd_send" /\ flag = "16"
    /\ cmd = "ussd_send"
       /\ (pc \in {"poll", "data"} \/ (pc \in {"post", "repost"} /\ wire = "yes"))
          => /\ late = {}
             /\ IF flag = "16" THEN ussd = 0 /\ data \in {0, n} ELSE ussd = n

\* Every step keeps the stick's session the call's own.
LEMMA SessionStep ==
    ASSUME ConstantsOK, HandlesInOrder, n \in Nat, SessionInv, [Next]_vars
    PROVE  SessionInv'
  <1> USE DEF SessionInv
  <1>1. ASSUME NEW k \in {"send", "ussd"}, Begin(k) PROVE SessionInv'
    BY <1>1 DEF Begin, Open, Goto
  <1>2. CASE Check
    BY <1>2 DEF Check, End, Open, Goto, stickVars
  <1>3. CASE LoginAnswered
    BY <1>3 DEF LoginAnswered, Goto, Throw, End, Open, stickVars
  <1>4. CASE CommandAnswered
    <2>1. UNCHANGED <<n, reply, flag, ussd, data, late>>
      BY <1>4 DEF CommandAnswered, Accepted, Throw, End, stickVars
    <2>2. CASE wire = "yes"
      <3>1. /\ pc' \in {"idle", "login", "post", "poll"}
            /\ pc' # "idle" => wire' \in {"none", "asked"}
            /\ pc' = "poll" => cmd' = cmd
            /\ pc' = "post" => wire' = "asked"
        BY <1>4, <2>2 DEF CommandAnswered, Accepted, Goto, End, Open
      <3> QED BY <1>4, <2>1, <2>2, <3>1 DEF CommandAnswered
    <2>3. CASE wire # "yes"
      BY <1>4, <2>1, <2>3 DEF CommandAnswered, Goto, Throw, End, Open
    <2> QED BY <2>2, <2>3
  <1>5. CASE RequestFails
    BY <1>5 DEF RequestFails, Throw, End, Open, Goto, stickVars
  <1>6. CASE PollStatus \/ Deadline
    BY <1>6 DEF PollStatus, Deadline, End, callVars, stickVars
  <1>7. CASE PollFlag
    BY <1>7 DEF PollFlag, FreshReply16, Goto, callVars, stickVars
  <1>8. CASE ReadData
    BY <1>8 DEF ReadData, Goto, callVars, stickVars
  <1>9. CASE HandleCommand
    <2>1. pc \in {"post", "repost"} /\ UNCHANGED <<n, pc, cmd, reply>>
      BY <1>9 DEF HandleCommand, callVars
    <2>2. cmd = "ussd_send" /\ wire' = "yes" =>
             IF flag' = "16" THEN ussd' = 0 /\ data' \in {0, n} ELSE ussd' = n
      BY <1>9 DEF HandleCommand, Execute
    <2>3. late' = {}
      BY <1>9 DEF HandleCommand, Overtaken
    <2> QED BY <2>1, <2>2, <2>3
  <1>10. CASE NetworkReplies
    BY <1>10 DEF NetworkReplies, callVars
  <1>11. CASE HandleLogin \/ HandleIsms \/ MessageSettles \/ SessionLapses \/ UNCHANGED vars
    BY <1>11 DEF HandleLogin, HandleIsms, Overtaken, MessageSettles, SessionLapses, vars,
                 callVars, stickVars
  <1>12. CASE LateRequest
    <2>1. late # {} /\ late' = {} /\ UNCHANGED <<n, pc, cmd, wire, reply>>
      BY <1>12 DEF LateRequest, callVars
    <2> QED BY <2>1
  <1> QED BY <1>1, <1>2, <1>3, <1>4, <1>5, <1>6, <1>7, <1>8, <1>9, <1>10, <1>11, <1>12
          DEF Next, DriverStep, DeviceStep

\* A session returns its own reply or none, never the one the stick still holds
\* from an earlier session, also across a restart (zte-http.js:208-218).
THEOREM RepliesAreFresh ==
    ASSUME ConstantsOK, HandlesInOrder
    PROVE  Spec => []FreshReply
  <1> DEFINE Inv == n \in Nat /\ SessionInv
  <1>1. Init => Inv
    BY DEF Init, SessionInv
  <1>2. Inv /\ [Next]_vars => Inv'
    <2> SUFFICES ASSUME Inv, [Next]_vars PROVE Inv'
      OBVIOUS
    <2>1. n' \in {n, n + 1}
      BY DEF Next, DriverStep, DeviceStep, Begin, Check, LoginAnswered, CommandAnswered,
             RequestFails, PollStatus, PollFlag, ReadData, Deadline, HandleLogin,
             HandleCommand, HandleIsms, LateRequest, MessageSettles, NetworkReplies,
             SessionLapses, vars, callVars
    <2> QED BY <2>1, SessionStep
  <1>3. Inv => FreshReply
    BY DEF SessionInv, FreshReply
  <1> QED BY <1>1, <1>2, <1>3, PTL DEF Spec

-----------------------------------------------------------------------------
\* Lapsed logins.

\* A refusal that is not cured by a new login had another cause.
LoginInv ==
    /\ pc = "idle" /\ fate = "error" => upset
    /\ pc = "repost" \/ (pc = "relogin" /\ wire = "yes") => session
    /\ wire = "no" /\ pc \in {"login", "relogin", "repost"} => upset
    /\ wire = "no" /\ pc = "post" /\ ~NeedsLogin => upset

\* Every step keeps the causes of a refusal.
LEMMA LoginStep ==
    ASSUME Modes, CallShape, LoginInv, [Next]_vars
    PROVE  LoginInv'
  <1> USE DEF LoginInv, NeedsLogin
  <1>1. ASSUME NEW k \in {"send", "ussd"}, Begin(k) PROVE LoginInv'
    BY <1>1 DEF Begin, Open, Goto
  <1>2. CASE Check
    BY <1>2 DEF Check, End, Open, Goto, stickVars
  <1>3. CASE LoginAnswered
    BY <1>3 DEF LoginAnswered, Goto, Throw, End, Open, stickVars, histVars
  <1>4. CASE CommandAnswered
    <2>1. UNCHANGED <<driver, session, upset>>
      BY <1>4 DEF CommandAnswered, stickVars, histVars
    <2>2. CASE wire = "yes"
      <3>1. /\ pc' = "idle" => fate' = "ok"
            /\ pc' \in {"idle", "poll", "login", "post"} /\ wire' \in {"none", "asked"}
        BY <1>4, <2>2 DEF CommandAnswered, Accepted, Goto, End, Open
      <3> QED BY <2>1, <3>1
    <2>3. CASE wire # "yes" /\ LogsInAgain
      BY <1>4, <2>1, <2>3 DEF CommandAnswered, Goto
    <2>4. CASE wire # "yes" /\ ~LogsInAgain
      BY <1>4, <2>1, <2>4 DEF CommandAnswered, LogsInAgain, Goto, Throw, End, Open
    <2> QED BY <2>2, <2>3, <2>4
  <1>5. CASE RequestFails
    BY <1>5 DEF RequestFails, Throw, End, Open, Goto, stickVars
  <1>6. CASE PollStatus \/ Deadline
    BY <1>6 DEF PollStatus, Deadline, DeadlineFate, Expires, End
  <1>7. CASE PollFlag \/ ReadData
    BY <1>7 DEF PollFlag, ReadData, Goto
  <1>8. CASE HandleLogin
    BY <1>8 DEF HandleLogin, callVars
  <1>9. CASE HandleCommand
    <2>1. UNCHANGED <<driver, pc, fate, session>> /\ pc \in {"post", "repost"}
      BY <1>9 DEF HandleCommand
    <2>2. wire' = "no" /\ (pc = "repost" \/ ~NeedsLogin) => upset'
      BY <1>9 DEF HandleCommand, Live
    <2> QED BY <2>1, <2>2
  <1>10. CASE HandleIsms
    <2>1. driver = "adb"
      BY <1>10 DEF HandleIsms, CallShape, Requests, Modes
    <2> QED BY <1>10, <2>1 DEF HandleIsms, callVars, stickVars
  <1>11. CASE MessageSettles \/ NetworkReplies \/ SessionLapses \/ UNCHANGED vars
    BY <1>11 DEF MessageSettles, NetworkReplies, SessionLapses, vars, callVars, stickVars,
                 histVars
  <1>12. CASE LateRequest
    <2>1. UNCHANGED <<driver, pc, fate, wire, upset>> /\ (session => session')
      BY <1>12 DEF LateRequest, stickVars
    <2> QED BY <2>1
  <1> QED BY <1>1, <1>2, <1>3, <1>4, <1>5, <1>6, <1>7, <1>8, <1>9, <1>10, <1>11, <1>12
          DEF Next, DriverStep, DeviceStep

\* A lapsed login session alone never fails a call: the new login's session is
\* live when the command is posted again (zte-http.js:171-186).
THEOREM LapsesAreCured ==
    ASSUME ConstantsOK
    PROVE  Spec => []ExpiryCured
  <1> DEFINE Inv == Modes /\ CallShape /\ LoginInv
  <1>1. Init => Inv
    <2>1. Init => Modes /\ CallShape
      BY InitInv, Types DEF RemoteInv
    <2>2. Init => LoginInv
      BY DEF Init, LoginInv
    <2> QED BY <2>1, <2>2
  <1>2. Inv /\ [Next]_vars => Inv'
    BY ModesStep, ShapeStep, LoginStep
  <1>3. Inv => ExpiryCured
    BY DEF LoginInv, ExpiryCured
  <1> QED BY <1>1, <1>2, <1>3, PTL DEF Spec
=============================================================================

---------------------------- MODULE SerialProofs ----------------------------
(***************************************************************************)
(* Proofs about the drivers: that the serial dialogue stays in step and    *)
(* keeps the driver contract, and, with RemoteProofs, what the two models  *)
(* of MCDrivers keep side by side.                                         *)
(***************************************************************************)
EXTENDS MCDrivers, SequenceTheorems, TLAPS

\* The proofs about the remote drivers, read for the remote modem of MCDrivers.
RP == INSTANCE RemoteProofs
          WITH n <- rn, pc <- rpc, cmd <- rcmd, fate <- rfate, reply <- rreply,
               taken <- rtaken

-----------------------------------------------------------------------------
\* The inductive invariant.

AllKinds == {"init", "single", "multi", "ussd", "read", "ping"}

Written == [id : (1..n) \X (1..6), what : Commands \union {"ESC"}]
Lines   == [id : (1..n) \X (1..6), what : {"ok", "error", "prompt", "cusd"}]

\* The steps a call goes through; only sendMultipart has one behind its script.
InScript == pc <= Len(Script(call)) \/ (call = "multi" /\ pc = 6)

Modes ==
    /\ open \in BOOLEAN /\ active \in BOOLEAN /\ cmd \in BOOLEAN /\ quiet \in BOOLEAN
    /\ call \in Kinds \union {"init"} /\ pc \in 1..6
    /\ fate \in {"ok", "error", "confirm"}
    /\ text \in BOOLEAN /\ prompt \in BOOLEAN
    /\ lost \in BOOLEAN /\ heard \in BOOLEAN

\* Calls of initModem are those the reconnects have put into the chain.
Counts ==
    /\ closes \in 0..MaxCloses /\ due \in Nat /\ n \in Nat
    /\ written \in Nat /\ taken \in Nat
    /\ due <= closes + (IF open THEN 1 ELSE 0)
    /\ n <= MaxCalls + closes + (IF open THEN 1 ELSE 0) - due
    /\ active => n >= 1

Ports ==
    /\ rx \in Seq(Written) /\ tx \in Seq(Lines)
    /\ waiters \in Seq(1..n) /\ reply \in 0..n /\ sessions \subseteq 1..n

\* A closed port carries nothing, and no command is under way at it or during
\* the two quiet seconds.
ClosedInv ==
    /\ cmd => active /\ open /\ ~quiet /\ Label # "URC"
    /\ ~open => Len(rx) = 0 /\ Len(tx) = 0 /\ ~prompt /\ sessions = {}

Quiescent == \A i \in 1..Len(tx) : tx[i].what = "cusd"

\* Bodies the modem took before the step the call is at.
Before == IF call = "multi" /\ pc > 3 THEN 1 ELSE 0

\* What the modem's answer to the current command says of it.
Tells(what) ==
    /\ what = "prompt" => AtPrompt /\ prompt
    /\ what = "ok" => ~AtPrompt /\ (Label = "TEXT" => text) /\ (Label = "PDU" => ~text)
    /\ what = "error" => ~prompt
    /\ Label = "BODY" => taken = Before + (IF what = "ok" THEN 1 ELSE 0)

Truthful(line) == line.id = <<n, pc>> /\ Tells(line.what)

\* An ESC the modem has not read is behind nothing and closes nothing; its call
\* is over, or writes its first or its last command.
EscPending == rx[1].what = "ESC" /\ ~prompt /\ (active => pc = 1 \/ Restoring)

\* Outside the two quiet seconds: the current command is unread, answered, or
\* its answer is lost.
Unread ==
    /\ Len(rx) = 1 \/ (Len(rx) = 2 /\ EscPending)
    /\ rx[Len(rx)].id = <<n, pc>> /\ rx[Len(rx)].what = Label
    /\ Quiescent /\ (prompt <=> Label = "BODY") /\ (Label = "BODY" => taken = Before)
Answered ==
    /\ Len(rx) = 0 /\ (prompt => AtPrompt)
    /\ \E i \in 1..Len(tx) :
          /\ tx[i].what # "cusd" /\ Truthful(tx[i])
          /\ \A j \in 1..Len(tx) : j # i => tx[j].what = "cusd"
Unanswered == Len(rx) = 0 /\ Quiescent /\ (prompt => AtPrompt)
Between ==
    /\ Len(rx) = 0 \/ (Len(rx) = 1 /\ EscPending)
    /\ Quiescent /\ (prompt <=> active /\ Label = "BODY")

DialogueInv ==
    ~quiet => IF cmd THEN Unread \/ Answered \/ Unanswered ELSE Between

\* During them: what a timed-out command left in the port.
Fits(what) ==
    /\ what \in {"CMGS", "CMGL"} => text
    /\ what = "CMGS-PDU" => ~text
Leftover ==
    \/ Len(rx) = 0 /\ ~prompt
    \/ Len(rx) = 1 /\ rx[1].what = "ESC"
    \/ /\ Len(rx) = 1 /\ rx[1].what = "BODY" /\ prompt
       /\ rx[1].id[1] = n => Sending /\ fate = "confirm" /\ taken < Parts(call) /\ taken < written
    \/ Len(rx) = 1 /\ rx[1].what \in Harmless /\ ~prompt /\ Fits(rx[1].what)
    \/ /\ Len(rx) = 2 /\ rx[1].what \in {"CMGS", "CMGS-PDU"} /\ rx[2].what = "ESC"
       /\ ~prompt /\ Fits(rx[1].what)
    \/ /\ Len(rx) = 2 /\ rx[1].what = "ESC" /\ rx[2].what \in Harmless
       /\ ~prompt /\ Fits(rx[2].what)

QuietInv == quiet => Leftover /\ (active => pc = 1 \/ Restoring)

\* From its second command on, a call has the mode it set.
ModeInv ==
    active /\ pc >= 2 =>
        /\ call \in {"single", "read"} => text
        /\ call = "multi" /\ pc <= 5 => ~text

\* What became of a message, and what the call says of it.
SendInv ==
    IF ~Sending THEN written = 0 /\ taken = 0 /\ ~lost
    ELSE IF active /\ ~Restoring
    THEN /\ fate = "ok" /\ ~lost
         /\ IF cmd /\ Label = "BODY" THEN written = Before + 1 /\ taken \in {Before, Before + 1}
                                     ELSE written = Before /\ taken = Before
    ELSE /\ taken <= written /\ written <= Parts(call)
         /\ fate = "ok" => taken = Parts(call)
         /\ fate = "error" => taken < Parts(call) \/ lost
         /\ fate = "confirm" => written > 0

Shape == Modes /\ InScript /\ Counts /\ Ports
Course == ClosedInv /\ DialogueInv /\ QuietInv /\ ModeInv /\ SendInv /\ blunders = {}
SerialInv == Shape /\ Course

-----------------------------------------------------------------------------
\* The script.

\* Where a call is in its script, and what it does there.
At(k, p, label, atPrompt, restoring, before, parts_) ==
    /\ label \in Commands \union {"URC"}
    /\ label = "BODY" <=> (k = "single" /\ p = 4) \/ (k = "multi" /\ p \in {3, 5})
    /\ label = "CMGS" <=> k = "single" /\ p = 3
    /\ label = "CMGS-PDU" <=> k = "multi" /\ p \in {2, 4}
    /\ label = "TEXT" <=> \/ k = "init" /\ p = 3
                          \/ k \in {"single", "read"} /\ p = 1
                          \/ k = "multi" /\ p = 6
    /\ label = "PDU" <=> k = "multi" /\ p = 1
    /\ label = "CMGL" <=> k = "read" /\ p = 3
    /\ label = "URC" <=> k = "ussd" /\ p = 3
    /\ atPrompt <=> label \in {"CMGS", "CMGS-PDU"}
    /\ restoring <=> k = "multi" /\ p = 6
    /\ before = IF k = "multi" /\ p > 3 THEN 1 ELSE 0
    /\ k = "single" => p <= 4
    /\ parts_ = IF k = "single" THEN 1 ELSE IF k = "multi" THEN 2 ELSE 0

Placed == At(call, pc, Label, AtPrompt, Restoring, Before, Parts(call))

\* The last step of each call, and how long the scripts are.
Final(k, p) ==
    \/ k \in {"init", "read", "ussd"} /\ p = 3
    \/ k = "single" /\ p = 4
    \/ k = "multi" /\ p = 6
    \/ k = "ping" /\ p = 1

\* A step of a script, or the one behind it.
StepOf(s, p) == IF p <= Len(s) THEN s[p] ELSE "TEXT"

LEMMA NotEmpty == \A k \in AllKinds : Len(Script(k)) >= 1
  <1> TAKE k \in AllKinds
  <1>1. CASE k = "init" \/ k = "ussd"
    BY <1>1 DEF Script
  <1>2. CASE k = "single" \/ k = "multi"
    BY <1>2 DEF Script
  <1>3. CASE k = "read" \/ k = "ping"
    BY <1>3 DEF Script
  <1> QED BY <1>1, <1>2, <1>3 DEF AllKinds

\* What the scripts are, step by step.
LEMMA ScriptTable ==
    ASSUME NEW k \in AllKinds, NEW p \in 1..6,
           p <= Len(Script(k)) \/ (k = "multi" /\ p = 6)
    PROVE  /\ At(k, p, StepOf(Script(k), p), StepOf(Script(k), p) \in {"CMGS", "CMGS-PDU"},
                 p > Len(Script(k)), IF k = "multi" /\ p > 3 THEN 1 ELSE 0, Parts(k))
           /\ IF p < Len(Script(k)) \/ (k = "multi" /\ ~(p > Len(Script(k))))
              THEN ~Final(k, p) /\ p + 1 \in 1..6
                   /\ (p + 1 <= Len(Script(k)) \/ (k = "multi" /\ p = 5))
              ELSE Final(k, p)
           /\ k = "multi" => Len(Script(k)) = 5
           /\ Len(Script(k)) >= 1
  <1> DEFINE s == Script(k)
             l == Len(s)
             Goal == /\ At(k, p, StepOf(s, p), StepOf(s, p) \in {"CMGS", "CMGS-PDU"}, p > l,
                          IF k = "multi" /\ p > 3 THEN 1 ELSE 0, Parts(k))
                     /\ IF p < l \/ (k = "multi" /\ ~(p > l))
                        THEN ~Final(k, p) /\ p + 1 \in 1..6
                             /\ (p + 1 <= l \/ (k = "multi" /\ p = 5))
                        ELSE Final(k, p)
                     /\ k = "multi" => l = 5
                     /\ l >= 1
  <1> SUFFICES Goal
    OBVIOUS
  <1>0. p <= l \/ (k = "multi" /\ p = 6)
    OBVIOUS
  <1>1. CASE k = "init"
    <2>1. s = <<"SETUP", "SETUP", "TEXT">>
      BY <1>1 DEF Script
    <2> HIDE DEF s
    <2>2. l = 3 /\ s[1] = "SETUP" /\ s[2] = "SETUP" /\ s[3] = "TEXT"
      BY <2>1
    <2> HIDE DEF l
    <2>3. CASE p = 1
      <3>1. StepOf(s, p) = "SETUP"
        BY <1>1, <2>2, <2>3 DEF StepOf, l
      <3> QED BY <1>1, <2>2, <2>3, <3>1 DEF At, Final, Parts, Commands, Harmless
    <2>4. CASE p = 2
      <3>1. StepOf(s, p) = "SETUP"
        BY <1>1, <2>2, <2>4 DEF StepOf, l
      <3> QED BY <1>1, <2>2, <2>4, <3>1 DEF At, Final, Parts, Commands, Harmless
    <2>5. CASE p = 3
      <3>1. StepOf(s, p) = "TEXT"
        BY <1>1, <2>2, <2>5 DEF StepOf, l
      <3> QED BY <1>1, <2>2, <2>5, <3>1 DEF At, Final, Parts, Commands, Harmless
    <2> QED BY <1>0, <1>1, <2>2, <2>3, <2>4, <2>5
  <1>2. CASE k = "single"
    <2>1. s = <<"TEXT", "SETUP", "CMGS", "BODY">>
      BY <1>2 DEF Script
    <2> HIDE DEF s
    <2>2. l = 4 /\ s[1] = "TEXT" /\ s[2] = "SETUP" /\ s[3] = "CMGS" /\ s[4] = "BODY"
      BY <2>1
    <2> HIDE DEF l
    <2>3. CASE p = 1
      <3>1. StepOf(s, p) = "TEXT"
        BY <1>2, <2>2, <2>3 DEF StepOf, l
      <3> QED BY <1>2, <2>2, <2>3, <3>1 DEF At, Final, Parts, Commands, Harmless
    <2>4. CASE p = 2
      <3>1. StepOf(s, p) = "SETUP"
        BY <1>2, <2>2, <2>4 DEF StepOf, l
      <3> QED BY <1>2, <2>2, <2>4, <3>1 DEF At, Final, Parts, Commands, Harmless
    <2>5. CASE p = 3
      <3>1. StepOf(s, p) = "CMGS"
        BY <1>2, <2>2, <2>5 DEF StepOf, l
      <3> QED BY <1>2, <2>2, <2>5, <3>1 DEF At, Final, Parts, Commands, Harmless
    <2>6. CASE p = 4
      <3>1. StepOf(s, p) = "BODY"
        BY <1>2, <2>2, <2>6 DEF StepOf, l
      <3> QED BY <1>2, <2>2, <2>6, <3>1 DEF At, Final, Parts, Commands, Harmless
    <2> QED BY <1>0, <1>2, <2>2, <2>3, <2>4, <2>5, <2>6
  <1>3. CASE k = "multi"
    <2>1. s = <<"PDU", "CMGS-PDU", "BODY", "CMGS-PDU", "BODY">>
      BY <1>3 DEF Script
    <2> HIDE DEF s
    <2>2. l = 5 /\ s[1] = "PDU" /\ s[2] = "CMGS-PDU" /\ s[3] = "BODY" /\ s[4] = "CMGS-PDU" /\ s[5] = "BODY"
      BY <2>1
    <2> HIDE DEF l
    <2>3. CASE p = 1
      <3>1. StepOf(s, p) = "PDU"
        BY <1>3, <2>2, <2>3 DEF StepOf, l
      <3> QED BY <1>3, <2>2, <2>3, <3>1 DEF At, Final, Parts, Commands, Harmless
    <2>4. CASE p = 2
      <3>1. StepOf(s, p) = "CMGS-PDU"
        BY <1>3, <2>2, <2>4 DEF StepOf, l
      <3> QED BY <1>3, <2>2, <2>4, <3>1 DEF At, Final, Parts, Commands, Harmless
    <2>5. CASE p = 3
      <3>1. StepOf(s, p) = "BODY"
        BY <1>3, <2>2, <2>5 DEF StepOf, l
      <3> QED BY <1>3, <2>2, <2>5, <3>1 DEF At, Final, Parts, Commands, Harmless
    <2>6. CASE p = 4
      <3>1. StepOf(s, p) = "CMGS-PDU"
        BY <1>3, <2>2, <2>6 DEF StepOf, l
      <3> QED BY <1>3, <2>2, <2>6, <3>1 DEF At, Final, Parts, Commands, Harmless
    <2>7. CASE p = 5
      <3>1. StepOf(s, p) = "BODY"
        BY <1>3, <2>2, <2>7 DEF StepOf, l
      <3> QED BY <1>3, <2>2, <2>7, <3>1 DEF At, Final, Parts, Commands, Harmless
    <2>8. CASE p = 6
      <3>1. StepOf(s, p) = "TEXT"
        BY <1>3, <2>2, <2>8 DEF StepOf, l
      <3> QED BY <1>3, <2>2, <2>8, <3>1 DEF At, Final, Parts, Commands, Harmless
    <2> QED BY <1>0, <1>3, <2>2, <2>3, <2>4, <2>5, <2>6, <2>7, <2>8
  <1>4. CASE k = "ussd"
    <2>1. s = <<"SETUP", "CUSD", "URC">>
      BY <1>4 DEF Script
    <2> HIDE DEF s
    <2>2. l = 3 /\ s[1] = "SETUP" /\ s[2] = "CUSD" /\ s[3] = "URC"
      BY <2>1
    <2> HIDE DEF l
    <2>3. CASE p = 1
      <3>1. StepOf(s, p) = "SETUP"
        BY <1>4, <2>2, <2>3 DEF StepOf, l
      <3> QED BY <1>4, <2>2, <2>3, <3>1 DEF At, Final, Parts, Commands, Harmless
    <2>4. CASE p = 2
      <3>1. StepOf(s, p) = "CUSD"
        BY <1>4, <2>2, <2>4 DEF StepOf, l
      <3> QED BY <1>4, <2>2, <2>4, <3>1 DEF At, Final, Parts, Commands, Harmless
    <2>5. CASE p = 3
      <3>1. StepOf(s, p) = "URC"
        BY <1>4, <2>2, <2>5 DEF StepOf, l
      <3> QED BY <1>4, <2>2, <2>5, <3>1 DEF At, Final, Parts, Commands, Harmless
    <2> QED BY <1>0, <1>4, <2>2, <2>3, <2>4, <2>5
  <1>5. CASE k = "read"
    <2>1. s = <<"TEXT", "SETUP", "CMGL">>
      BY <1>5 DEF Script
    <2> HIDE DEF s
    <2>2. l = 3 /\ s[1] = "TEXT" /\ s[2] = "SETUP" /\ s[3] = "CMGL"
      BY <2>1
    <2> HIDE DEF l
    <2>3. CASE p = 1
      <3>1. StepOf(s, p) = "TEXT"
        BY <1>5, <2>2, <2>3 DEF StepOf, l
      <3> QED BY <1>5, <2>2, <2>3, <3>1 DEF At, Final, Parts, Commands, Harmless
    <2>4. CASE p = 2
      <3>1. StepOf(s, p) = "SETUP"
        BY <1>5, <2>2, <2>4 DEF StepOf, l
      <3> QED BY <1>5, <2>2, <2>4, <3>1 DEF At, Final, Parts, Commands, Harmless
    <2>5. CASE p = 3
      <3>1. StepOf(s, p) = "CMGL"
        BY <1>5, <2>2, <2>5 DEF StepOf, l
      <3> QED BY <1>5, <2>2, <2>5, <3>1 DEF At, Final, Parts, Commands, Harmless
    <2> QED BY <1>0, <1>5, <2>2, <2>3, <2>4, <2>5
  <1>6. CASE k = "ping"
    <2>1. s = <<"SETUP">>
      BY <1>6 DEF Script
    <2> HIDE DEF s
    <2>2. l = 1 /\ s[1] = "SETUP"
      BY <2>1
    <2> HIDE DEF l
    <2>3. CASE p = 1
      <3>1. StepOf(s, p) = "SETUP"
        BY <1>6, <2>2, <2>3 DEF StepOf, l
      <3> QED BY <1>6, <2>2, <2>3, <3>1 DEF At, Final, Parts, Commands, Harmless
    <2> QED BY <1>0, <1>6, <2>2, <2>3
  <1> QED BY <1>1, <1>2, <1>3, <1>4, <1>5, <1>6 DEF AllKinds

\* A state of the model is at a place of the script, and so is the next one.
LEMMA InPlace ==
    ASSUME Modes, InScript
    PROVE  /\ call \in AllKinds /\ pc \in 1..6 /\ Placed
           /\ IF pc < Len(Script(call)) \/ (call = "multi" /\ ~Restoring)
              THEN ~Final(call, pc) /\ pc + 1 \in 1..6
                   /\ (pc + 1 <= Len(Script(call)) \/ (call = "multi" /\ pc = 5))
              ELSE Final(call, pc)
           /\ call = "multi" => Len(Script(call)) = 5
           /\ Len(Script(call)) >= 1
  <1>1. call \in AllKinds /\ pc \in 1..6
    BY SerialAssumption DEF Modes, AllKinds
  <1>2. Label = StepOf(Script(call), pc)
    BY DEF Label, StepOf
  <1> QED BY <1>1, <1>2, ScriptTable DEF InScript, Placed, Restoring, AtPrompt, Before

LEMMA InPlaceNext ==
    ASSUME Modes', InScript'
    PROVE  call' \in AllKinds /\ Placed'
  <1>1. call' \in AllKinds /\ pc' \in 1..6
    BY SerialAssumption DEF Modes, AllKinds
  <1>2. Label' = StepOf(Script(call'), pc')
    BY DEF Label, StepOf
  <1> QED BY <1>1, <1>2, ScriptTable DEF InScript, Placed, Restoring, AtPrompt, Before

-----------------------------------------------------------------------------
\* How a step ends.

LEMMA ProceedShape ==
    ASSUME Modes, InScript, Proceed
    PROVE  /\ cmd' = FALSE /\ UNCHANGED <<call, n, fate, reply>>
           /\ pc' \in 1..6 /\ InScript' /\ active' \in BOOLEAN
           /\ \/ ~Final(call, pc) /\ pc' = pc + 1 /\ active' = active
              \/ Final(call, pc) /\ pc' = pc /\ active' = FALSE
  <1>1. cmd' = FALSE /\ UNCHANGED <<call, n, fate, reply>>
    BY DEF Proceed
  <1>2. CASE pc < Len(Script(call)) \/ (call = "multi" /\ ~Restoring)
    <2>1. pc' = pc + 1 /\ active' = active
      BY <1>2 DEF Proceed
    <2> QED BY <1>1, <1>2, <2>1, InPlace DEF InScript, Modes
  <1>3. CASE ~(pc < Len(Script(call)) \/ (call = "multi" /\ ~Restoring))
    <2>1. pc' = pc /\ active' = FALSE
      BY <1>3 DEF Proceed
    <2> QED BY <1>1, <1>3, <2>1, InPlace DEF InScript, Modes
  <1> QED BY <1>2, <1>3

LEMMA ThrowShape ==
    ASSUME Modes, InScript, NEW f \in {"error", "confirm"}, Throw(f)
    PROVE  /\ cmd' = FALSE /\ UNCHANGED <<call, n, reply>>
           /\ fate' = IF call = "multi" /\ pc = 6 THEN fate ELSE f
           /\ pc' \in 1..6 /\ InScript' /\ active' \in BOOLEAN
           /\ fate' \in {"ok", "error", "confirm"}
           /\ \/ call = "multi" /\ pc \in 2..5 /\ pc' = 6 /\ active' = active
              \/ ~(call = "multi" /\ pc \in 2..5) /\ pc' = pc /\ active' = FALSE
  <1>1. /\ cmd' = FALSE /\ UNCHANGED <<call, n, reply>>
        /\ fate' = IF Restoring THEN fate ELSE f
    BY DEF Throw
  <1>2. Restoring <=> call = "multi" /\ pc = 6
    BY InPlace DEF Placed, At
  <1>3. fate' = IF call = "multi" /\ pc = 6 THEN fate ELSE f
    BY <1>1, <1>2
  <1>4. CASE call = "multi" /\ pc \in 2..Len(Script(call))
    <2>1. pc' = Len(Script(call)) + 1 /\ active' = active
      BY <1>4 DEF Throw
    <2>2. pc' = 6 /\ pc \in 2..5
      <3>1. Len(Script(call)) = 5
        BY <1>4, InPlace, Zenon
      <3>2. pc \in 2..Len(Script(call))
        BY <1>4
      <3> QED BY <2>1, <3>1, <3>2
    <2>3. InScript' /\ active' \in BOOLEAN
      BY <1>1, <1>4, <2>1, <2>2 DEF InScript, Modes
    <2>4. fate' \in {"ok", "error", "confirm"}
      BY <1>3 DEF Modes
    <2> QED BY <1>1, <1>3, <1>4, <2>1, <2>2, <2>3, <2>4
  <1>5. CASE ~(call = "multi" /\ pc \in 2..Len(Script(call)))
    <2>1. pc' = pc /\ active' = FALSE
      BY <1>5 DEF Throw
    <2> QED BY <1>1, <1>3, <1>5, <2>1, InPlace DEF InScript, Modes
  <1> QED BY <1>4, <1>5

-----------------------------------------------------------------------------
\* The parts of the invariant, one by one.

\* The types of what is not a sequence, and the place in the script.
LEMMA ModesStep ==
    ASSUME Modes, InScript, [Next]_vars
    PROVE  Modes' /\ InScript'
  <1>1. ASSUME NEW k \in Kinds \union {"init"}, Start(k) PROVE Modes' /\ InScript'
    <2>1. Modes'
      <3>1. active' = TRUE /\ call' = k /\ pc' = 1 /\ fate' = "ok" /\ lost' = FALSE
            /\ heard' = FALSE /\ UNCHANGED <<open, cmd, quiet, text, prompt>>
        BY <1>1 DEF Start
      <3>2. call' \in Kinds \union {"init"}
        BY <3>1, Zenon
      <3>3. pc' \in 1..6 /\ fate' \in {"ok", "error", "confirm"}
        BY <3>1
      <3>4. /\ open' \in BOOLEAN /\ active' \in BOOLEAN /\ cmd' \in BOOLEAN
            /\ quiet' \in BOOLEAN /\ text' \in BOOLEAN /\ prompt' \in BOOLEAN
            /\ lost' \in BOOLEAN /\ heard' \in BOOLEAN
        BY <3>1 DEF Modes
      <3> QED BY <3>2, <3>3, <3>4 DEF Modes
    <2>2. call' = k /\ pc' = 1 /\ k \in AllKinds
      BY <1>1, SerialAssumption DEF Start, AllKinds
    <2>3. Len(Script(k)) >= 1
      BY <2>2, NotEmpty
    <2> QED BY <2>1, <2>2, <2>3 DEF InScript
  <1>2. CASE Write
    <2>1. CASE open
      BY <1>2, <2>1 DEF Write, Modes, InScript, modemVars
    <2>2. CASE ~open
      <3>1. Throw("error") /\ UNCHANGED <<open, quiet, modemVars, lost, heard>>
        BY <1>2, <2>2 DEF Write
      <3> QED BY <3>1, ThrowShape DEF Modes, modemVars
    <2> QED BY <2>1, <2>2
  <1>3. CASE UssdReturns
    <2>1. Proceed /\ UNCHANGED <<open, quiet, modemVars, histVars>>
      BY <1>3 DEF UssdReturns
    <2> QED BY <2>1, ProceedShape DEF Modes, modemVars, histVars
  <1>4. CASE Deliver
    <2>1. UNCHANGED <<open, quiet, modemVars, lost>> /\ heard' \in BOOLEAN
      <3>1. UNCHANGED <<open, quiet, modemVars, lost>>
        BY <1>4 DEF Deliver
      <3>2. heard' = heard \/ heard' = (heard \/ (active /\ Head(tx).id[1] = n))
        BY <1>4 DEF Deliver
      <3>3. heard \in BOOLEAN
        BY DEF Modes
      <3> QED BY <3>1, <3>2, <3>3
    <2>2. UNCHANGED <<active, call, pc, cmd, fate>> \/ SettleBy(Head(tx).what)
      BY <1>4 DEF Deliver, driverVars
    <2>3. CASE SettleBy(Head(tx).what)
      <3>1. Throw("error") \/ Proceed
        BY <2>3 DEF SettleBy
      <3> QED BY <2>1, <3>1, ThrowShape, ProceedShape DEF Modes, modemVars
    <2> QED BY <2>1, <2>2, <2>3 DEF Modes, InScript, modemVars
  <1>5. CASE Timeout
    <2>1. /\ Throw(TimeoutFate) /\ TimeoutFate \in {"error", "confirm"}
          /\ quiet' = TRUE /\ UNCHANGED <<open, modemVars, histVars>>
      BY <1>5 DEF Timeout, TimeoutFate
    <2> QED BY <2>1, ThrowShape DEF Modes, modemVars, histVars
  <1>6. CASE Close
    <2>1. /\ open' = FALSE /\ text' \in BOOLEAN /\ prompt' \in BOOLEAN
          /\ UNCHANGED <<quiet, heard>> /\ lost' \in BOOLEAN
      BY <1>6 DEF Close, AfterClose, Modes
    <2>2. Throw("error") \/ (~cmd /\ UNCHANGED <<active, call, pc, cmd, fate>>)
      BY <1>6 DEF Close
    <2> QED BY <2>1, <2>2, ThrowShape DEF Modes, InScript
  <1>7. CASE QuietEnds \/ Reopen
    <2>1. /\ open' \in BOOLEAN /\ quiet' \in BOOLEAN
          /\ UNCHANGED <<driverVars, modemVars, histVars>>
      BY <1>7 DEF QuietEnds, Reopen, Modes
    <2> QED BY <2>1 DEF Modes, InScript, driverVars, modemVars, histVars
  <1>8. ASSUME NEW i \in DOMAIN waiters, WaiterTimeout(i) PROVE Modes' /\ InScript'
    BY <1>8 DEF WaiterTimeout, Modes, InScript, modemVars, histVars
  <1>9. CASE ModemReads
    <2>1. UNCHANGED <<open, driverVars, quiet, histVars>>
      BY <1>9 DEF ModemReads
    <2>2. text' \in BOOLEAN /\ prompt' \in BOOLEAN
      <3>1. CASE ReadAtPrompt(Head(rx))
        BY <3>1 DEF ReadAtPrompt, Modes
      <3>2. CASE Execute(Head(rx))
        BY <3>2 DEF Execute, Modes, modemVars
      <3> QED BY <1>9, <3>1, <3>2 DEF ModemReads
    <2> QED BY <2>1, <2>2 DEF Modes, InScript, driverVars, histVars
  <1>10. ASSUME NEW s \in sessions, NetworkReplies(s) PROVE Modes' /\ InScript'
    BY <1>10 DEF NetworkReplies, Modes, InScript, driverVars, histVars
  <1>11. CASE UNCHANGED vars
    BY <1>11 DEF vars, Modes, InScript, driverVars, modemVars, histVars
  <1> QED BY <1>1, <1>2, <1>3, <1>4, <1>5, <1>6, <1>7, <1>8, <1>9, <1>10, <1>11
          DEF Next, StartCall, StartInit

\* The numbers: calls, connections and bodies.
LEMMA CountsStep ==
    ASSUME Modes, InScript, Counts, [Next]_vars
    PROVE  Counts'
  <1> USE SerialAssumption
  <1>1. ASSUME NEW k, Start(k) PROVE  (StartCall(k) \/ StartInit) => Counts'
    <2>1. /\ n' = n + 1 /\ written' = 0 /\ taken' = 0 /\ UNCHANGED <<open, closes>>
          /\ active' = TRUE
      BY <1>1 DEF Start
    <2>2. CASE n < MaxCalls /\ due' = due
      BY <2>1, <2>2 DEF Counts
    <2>3. CASE due > 0 /\ due' = due - 1
      BY <2>1, <2>3 DEF Counts
    <2> QED BY <2>2, <2>3 DEF StartCall, StartInit
  <1>2. CASE Write
    <2>1. UNCHANGED <<open, due, closes, n, taken>> /\ written' \in {written, written + 1}
      BY <1>2 DEF Write, Throw, modemVars
    <2>2. active' => active
      BY <1>2 DEF Write, Throw
    <2> QED BY <2>1, <2>2 DEF Counts
  <1>3. CASE UssdReturns \/ Timeout \/ QuietEnds
    <2>1. UNCHANGED <<open, due, closes, n, taken, written>> /\ (active' => active)
      BY <1>3 DEF UssdReturns, Timeout, QuietEnds, Proceed, Throw, modemVars, histVars, driverVars
    <2> QED BY <2>1 DEF Counts
  <1>4. CASE Deliver
    <2>1. UNCHANGED <<open, due, closes, n, taken, written>> /\ (active' => active)
      BY <1>4 DEF Deliver, SettleBy, Proceed, Throw, modemVars, driverVars
    <2> QED BY <2>1 DEF Counts
  <1>5. CASE Close
    <2>1. /\ open /\ open' = FALSE /\ closes < MaxCloses /\ closes' = closes + 1
          /\ UNCHANGED <<due, n, taken, written>> /\ (active' => active)
      BY <1>5 DEF Close, Throw
    <2> QED BY <2>1 DEF Counts
  <1>6. CASE Reopen
    BY <1>6 DEF Reopen, Counts, driverVars, modemVars, histVars
  <1>7. ASSUME NEW i \in DOMAIN waiters, WaiterTimeout(i) PROVE Counts'
    BY <1>7 DEF WaiterTimeout, Counts, modemVars, histVars
  <1>8. CASE ModemReads
    <2>1. UNCHANGED <<open, due, closes, n, written, active>>
      BY <1>8 DEF ModemReads, driverVars, histVars
    <2>2. taken' \in {taken, taken + 1}
      <3>1. CASE ReadAtPrompt(Head(rx))
        BY <3>1 DEF ReadAtPrompt
      <3>2. CASE Execute(Head(rx))
        BY <3>2 DEF Execute, modemVars
      <3> QED BY <1>8, <3>1, <3>2 DEF ModemReads
    <2> QED BY <2>1, <2>2 DEF Counts
  <1>9. ASSUME NEW s \in sessions, NetworkReplies(s) PROVE Counts'
    BY <1>9 DEF NetworkReplies, Counts, driverVars, histVars
  <1>10. CASE UNCHANGED vars
    BY <1>10 DEF vars, Counts, driverVars, modemVars, histVars
  <1> QED BY <1>1, <1>2, <1>3, <1>4, <1>5, <1>6, <1>7, <1>8, <1>9, <1>10
          DEF Next, StartCall, StartInit

\* Neither the calls' numbers nor the ports' elements change but by a new call.
LEMMA WriteIsTyped ==
    ASSUME Modes, InScript, Counts, active
    PROVE  /\ Label # "URC" => [id |-> <<n, pc>>, what |-> Label] \in Written
           /\ [id |-> <<n, pc>>, what |-> "ESC"] \in Written
  <1>1. n \in 1..n /\ pc \in 1..6
    BY DEF Counts, Modes
  <1>2. Label \in Commands \union {"URC"}
    BY InPlace DEF Placed, At
  <1> QED BY <1>1, <1>2 DEF Written

LEMMA EscapedIsTyped ==
    ASSUME Modes, InScript, Counts, Ports, active
    PROVE  Escaped(rx) \in Seq(Written)
  BY WriteIsTyped, RP!Appended DEF Escaped, Ports

\* What was written, the lines, the waiters and the sessions are of calls made.
LEMMA PortsStep ==
    ASSUME Modes, InScript, Counts, Ports, ClosedInv, [Next]_vars
    PROVE  Ports'
  <1> DEFINE Rx == rx' \in Seq(Written)
             Tx == tx' \in Seq(Lines)
             Rest == waiters' \in Seq(1..n) /\ reply' \in 0..n /\ sessions' \subseteq 1..n
  <1>0. n' = n /\ Rx /\ Tx /\ Rest => Ports'
    BY DEF Ports, Written, Lines
  <1>1. ASSUME NEW k, Start(k) PROVE Ports'
    <2>1. /\ n' = n + 1 /\ reply' = 0 /\ UNCHANGED <<rx, tx, waiters, sessions>>
      BY <1>1 DEF Start
    <2>2. 1..n \subseteq 1..n' /\ n \in Nat
      BY <2>1 DEF Counts
    <2>3. Written \subseteq Written' /\ Lines \subseteq Lines'
      BY <2>2 DEF Written, Lines
    <2>4. rx' \in Seq(Written') /\ tx' \in Seq(Lines') /\ waiters' \in Seq(1..n')
      BY <2>1, <2>2, <2>3, SeqMonotonic DEF Ports
    <2>5. reply' \in 0..n' /\ sessions' \subseteq 1..n'
      BY <2>1, <2>2 DEF Ports
    <2> QED BY <2>4, <2>5 DEF Ports
  <1>2. CASE Write
    <2>1. /\ n' = n /\ UNCHANGED <<tx, waiters, reply, sessions>>
          /\ rx' = rx \/ rx' = Append(rx, [id |-> <<n, pc>>, what |-> Label])
          /\ active /\ Label # "URC"
      BY <1>2 DEF Write, Throw, modemVars
    <2>2. [id |-> <<n, pc>>, what |-> Label] \in Written /\ rx \in Seq(Written)
      BY <2>1, WriteIsTyped DEF Ports
    <2>3. Rx
      BY <2>1, <2>2, RP!Appended
    <2> QED BY <1>0, <2>1, <2>3 DEF Ports
  <1>3. CASE UssdReturns
    <2>1. n' = n /\ UNCHANGED <<rx, tx, waiters, reply, sessions>>
      BY <1>3 DEF UssdReturns, Proceed, modemVars
    <2> QED BY <1>0, <2>1 DEF Ports
  <1>4. CASE Deliver
    <2>1. n' = n /\ tx # <<>> /\ tx' = Tail(tx) /\ UNCHANGED sessions
      BY <1>4 DEF Deliver, SettleBy, Proceed, Throw, driverVars, modemVars
    <2>2. Tx /\ Head(tx) \in Lines
      BY <2>1, HeadTailProperties DEF Ports
    <2>3. Rx
      <3>1. rx' = rx \/ (cmd /\ rx' = Escaped(rx))
        BY <1>4 DEF Deliver, SettleBy, driverVars
      <3> QED BY <3>1, EscapedIsTyped DEF Ports, ClosedInv
    <2>4. waiters' \in Seq(1..n)
      <3>1. \/ waiters' = waiters
            \/ waiters # <<>> /\ waiters' = Tail(waiters)
            \/ cmd /\ waiters' = Append(waiters, n)
        BY <1>4 DEF Deliver, SettleBy, RegisterWaiter, driverVars
      <3>2. cmd => n \in 1..n
        BY DEF ClosedInv, Counts
      <3>3. waiters \in Seq(1..n)
        BY DEF Ports
      <3>4. CASE cmd /\ waiters' = Append(waiters, n)
        BY <3>2, <3>3, <3>4, RP!Appended
      <3>5. CASE waiters # <<>> /\ waiters' = Tail(waiters)
        BY <3>3, <3>5, RP!Tailed
      <3> QED BY <3>1, <3>3, <3>4, <3>5
    <2>5. reply' \in 0..n
      <3>1. reply' = reply \/ reply' = Head(tx).id[1]
        BY <1>4 DEF Deliver, SettleBy, Proceed, Throw, driverVars
      <3>2. Head(tx).id[1] \in 1..n /\ n \in Nat
        BY <2>2 DEF Lines, Counts
      <3> QED BY <3>1, <3>2 DEF Ports
    <2> QED BY <1>0, <2>1, <2>2, <2>3, <2>4, <2>5 DEF Ports
  <1>5. CASE Timeout
    <2>1. n' = n /\ UNCHANGED <<tx, waiters, reply, sessions>> /\ rx' = Escaped(rx) /\ cmd
      BY <1>5 DEF Timeout, Throw, modemVars
    <2> QED BY <1>0, <2>1, EscapedIsTyped DEF Ports, ClosedInv
  <1>6. CASE QuietEnds \/ Reopen
    <2>1. n' = n /\ UNCHANGED <<rx, tx, waiters, reply, sessions>>
      BY <1>6 DEF QuietEnds, Reopen, driverVars, modemVars
    <2> QED BY <1>0, <2>1 DEF Ports
  <1>7. CASE Close
    <2>1. n' = n /\ reply' = reply /\ rx' = <<>> /\ tx' = <<>> /\ waiters' = <<>> /\ sessions' = {}
      BY <1>7 DEF Close, Throw
    <2> QED BY <1>0, <2>1, EmptySeq DEF Ports
  <1>8. ASSUME NEW i \in DOMAIN waiters, WaiterTimeout(i) PROVE Ports'
    <2>1. /\ n' = n /\ UNCHANGED <<rx, tx, reply, sessions>>
          /\ waiters' = SubSeq(waiters, 1, i - 1) \o SubSeq(waiters, i + 1, Len(waiters))
      BY <1>8 DEF WaiterTimeout, modemVars
    <2>2. Len(waiters) \in Nat /\ i \in 1..Len(waiters) /\ waiters \in Seq(1..n)
      BY LenProperties DEF Ports
    <2>3. \A j \in 1..Len(waiters) : waiters[j] \in 1..n
      BY <2>2, ElementOfSeq
    <2>4. /\ SubSeq(waiters, 1, i - 1) \in Seq(1..n)
          /\ SubSeq(waiters, i + 1, Len(waiters)) \in Seq(1..n)
      <3>1. i \in Int /\ i - 1 \in Int /\ i + 1 \in Int /\ Len(waiters) \in Int
        BY <2>2
      <3>2. \A j \in 1..i - 1 : waiters[j] \in 1..n
        BY <2>2, <2>3
      <3>3. \A j \in i + 1..Len(waiters) : waiters[j] \in 1..n
        BY <2>2, <2>3
      <3>4. SubSeq(waiters, 1, i - 1) \in Seq(1..n)
        BY <3>1, <3>2, SubSeqProperties
      <3>5. SubSeq(waiters, i + 1, Len(waiters)) \in Seq(1..n)
        BY <3>1, <3>3, SubSeqProperties
      <3> QED BY <3>4, <3>5
    <2>5. waiters' \in Seq(1..n)
      BY <2>1, <2>4, ConcatProperties
    <2> QED BY <1>0, <2>1, <2>5 DEF Ports
  <1>9. CASE ModemReads
    <2>1. rx # <<>> /\ rx' = Tail(rx) /\ UNCHANGED <<n, waiters, reply>>
      BY <1>9 DEF ModemReads, driverVars
    <2>2. Rx /\ Head(rx) \in Written
      BY <2>1, HeadTailProperties DEF Ports
    <2>3. Head(rx).id \in (1..n) \X (1..6)
      BY <2>2 DEF Written
    <2>4. \A l \in {"ok", "error", "prompt"} : [id |-> Head(rx).id, what |-> l] \in Lines
      BY <2>3 DEF Lines
    <2>5. \E l \in {"ok", "error", "prompt"} :
             tx' \in {tx, Append(tx, [id |-> Head(rx).id, what |-> l])}
      <3>1. CASE ReadAtPrompt(Head(rx))
        BY <3>1 DEF ReadAtPrompt, Answer
      <3>2. CASE Execute(Head(rx))
        BY <3>2 DEF Execute, Answer
      <3> QED BY <1>9, <3>1, <3>2 DEF ModemReads
    <2>6. Tx
      <3>1. PICK l \in {"ok", "error", "prompt"} :
               tx' \in {tx, Append(tx, [id |-> Head(rx).id, what |-> l])}
        BY <2>5
      <3>2. tx \in Seq(Lines)
        BY DEF Ports
      <3>3. CASE tx' = tx
        BY <3>2, <3>3
      <3>4. CASE tx' = Append(tx, [id |-> Head(rx).id, what |-> l])
        <4>1. [id |-> Head(rx).id, what |-> l] \in Lines
          BY <2>4
        <4>2. Append(tx, [id |-> Head(rx).id, what |-> l]) \in Seq(Lines)
          BY <3>2, <4>1, AppendProperties
        <4> QED BY <3>4, <4>2
      <3> QED BY <3>1, <3>3, <3>4
    <2>7. sessions' \subseteq 1..n
      <3>1. sessions' \subseteq sessions \union {Head(rx).id[1]}
        <4>1. CASE ReadAtPrompt(Head(rx))
          BY <1>9, <4>1 DEF ModemReads, ReadAtPrompt
        <4>2. CASE Execute(Head(rx))
          BY <4>2 DEF Execute, modemVars
        <4> QED BY <1>9, <4>1, <4>2 DEF ModemReads
      <3>2. Head(rx).id[1] \in 1..n
        BY <2>3
      <3> QED BY <3>1, <3>2 DEF Ports
    <2> QED BY <1>0, <2>1, <2>2, <2>6, <2>7 DEF Ports
  <1>10. ASSUME NEW s \in sessions, NetworkReplies(s) PROVE Ports'
    <2>1. /\ n' = n /\ UNCHANGED <<rx, waiters, reply>> /\ sessions' \subseteq sessions
          /\ tx' = Append(tx, [id |-> <<s, 1>>, what |-> "cusd"])
      BY <1>10 DEF NetworkReplies, driverVars
    <2>2. [id |-> <<s, 1>>, what |-> "cusd"] \in Lines
      BY DEF Lines, Ports
    <2> QED BY <1>0, <2>1, <2>2, RP!Appended DEF Ports
  <1>11. CASE UNCHANGED vars
    <2>1. n' = n /\ UNCHANGED <<rx, tx, waiters, reply, sessions>>
      BY <1>11 DEF vars, driverVars, modemVars
    <2> QED BY <1>0, <2>1 DEF Ports
  <1> QED BY <1>1, <1>2, <1>3, <1>4, <1>5, <1>6, <1>7, <1>8, <1>9, <1>10, <1>11
          DEF Next, StartCall, StartInit

-----------------------------------------------------------------------------
\* The course of the dialogue, action by action.

\* A port read from its front, and one written to at its end.
LEMMA ReadFront ==
    ASSUME NEW S, NEW s \in Seq(S), s # <<>>, NEW t, t = Tail(s)
    PROVE  /\ Len(s) \in Nat \ {0} /\ Len(t) = Len(s) - 1 /\ Head(s) = s[1]
           /\ \A i \in 1..Len(t) : t[i] = s[i + 1]
  BY RP!Tailed

LEMMA NoneIsEmpty ==
    ASSUME NEW S, NEW s \in Seq(S)
    PROVE  Len(s) \in Nat /\ (s = <<>> <=> Len(s) = 0)
  BY EmptySeq, LenProperties

\* What a step that throws makes of a message: one that rejects plainly was not
\* taken, or its answer is lost.
LEMMA SendWhenThrown ==
    ASSUME Shape, Shape', SendInv, active, NEW f \in {"error", "confirm"}, Throw(f),
           UNCHANGED <<taken, written>>, lost => lost', Sending \/ ~lost',
           Sending /\ ~Restoring /\ f = "error" => taken = Before \/ lost',
           f = "confirm" => cmd /\ Label = "BODY"
    PROVE  SendInv'
  <1>1. Modes /\ InScript /\ Placed
    BY InPlace DEF Shape
  <1>2. /\ call' = call
        /\ fate' = IF call = "multi" /\ pc = 6 THEN fate ELSE f
        /\ \/ call = "multi" /\ pc \in 2..5 /\ pc' = 6 /\ active' = active
           \/ ~(call = "multi" /\ pc \in 2..5) /\ pc' = pc /\ active' = FALSE
    BY <1>1, ThrowShape
  <1>3. Sending' = Sending /\ Parts(call') = Parts(call)
    BY <1>2 DEF Sending
  <1>4. CASE ~Sending
    <2>1. written = 0 /\ taken = 0 /\ ~lost'
      BY <1>4 DEF SendInv
    <2> QED BY <1>3, <1>4, <2>1 DEF SendInv
  <1>5. CASE Sending /\ Restoring
    <2>1. fate' = fate /\ active' = FALSE
      BY <1>1, <1>2, <1>5 DEF Placed, At
    <2> QED BY <1>3, <1>5, <2>1 DEF SendInv
  <1>6. CASE Sending /\ ~Restoring
    <2>1. fate' = f
      BY <1>1, <1>2, <1>6 DEF Placed, At
    <2>2. ~active' \/ Restoring'
      <3>1. Placed'
        BY InPlaceNext DEF Shape
      <3> QED BY <1>2, <3>1 DEF Placed, At
    <2>3. /\ Before \in {0, 1} /\ Parts(call) \in {1, 2} /\ Before < Parts(call)
      BY <1>6 DEF Before, Parts, Sending
    <2>4. /\ taken <= written /\ written <= Parts(call)
          /\ cmd /\ Label = "BODY" => written > 0
      BY <1>6, <2>3 DEF SendInv
    <2>5. f = "error" => taken < Parts(call) \/ lost'
      BY <1>6, <2>3
    <2> QED BY <1>3, <1>6, <2>1, <2>2, <2>4, <2>5 DEF SendInv
  <1> QED BY <1>4, <1>5, <1>6

LEMMA StartCourse ==
    ASSUME Shape, Course, Shape', NEW k, Start(k)
    PROVE  Course'
  <1>1. /\ ~active /\ active' = TRUE /\ n' = n + 1 /\ pc' = 1 /\ fate' = "ok"
        /\ written' = 0 /\ taken' = 0 /\ lost' = FALSE
        /\ UNCHANGED <<open, cmd, quiet, rx, tx, text, prompt, sessions, blunders>>
    BY DEF Start
  <1>2. Placed /\ Placed'
    BY InPlace, InPlaceNext DEF Shape
  <1>3. Label' # "BODY" /\ ~Restoring' /\ Before' = 0 /\ (Label' # "URC")
    BY <1>1, <1>2 DEF Placed, At
  <1>4. ~cmd /\ (~quiet => Between)
    BY <1>1 DEF Course, ClosedInv, DialogueInv
  <1>5. ClosedInv'
    BY <1>1, <1>4 DEF Course, ClosedInv
  <1>6. DialogueInv'
    <2>1. ASSUME ~quiet PROVE Between'
      <3>1. ~prompt /\ Quiescent /\ (Len(rx) = 0 \/ (Len(rx) = 1 /\ rx[1].what = "ESC"))
        BY <1>1, <1>4, <2>1 DEF Between, EscPending
      <3>2. ~prompt' /\ Quiescent'
        BY <1>1, <3>1 DEF Quiescent
      <3>3. Len(rx') = 0 \/ (Len(rx') = 1 /\ EscPending')
        BY <1>1, <3>1 DEF EscPending
      <3> QED BY <1>3, <3>2, <3>3 DEF Between
    <2>2. ~cmd' /\ (~quiet' => ~quiet)
      BY <1>1, <1>4
    <2> QED BY <2>1, <2>2 DEF DialogueInv
  <1>7. QuietInv'
    <2>1. ASSUME Len(rx) = 1 PROVE rx[1].id[1] # n'
      <3>1. rx \in Seq(Written) /\ 1 \in 1..Len(rx) /\ n \in Nat
        BY <2>1 DEF Shape, Ports, Counts
      <3>2. rx[1] \in Written
        BY <3>1, ElementOfSeq
      <3> QED BY <1>1, <3>1, <3>2 DEF Written
    <2> QED BY <1>1, <2>1 DEF Course, QuietInv, Leftover, Fits
  <1>8. ModeInv' /\ SendInv'
    BY <1>1, <1>3, <1>4 DEF ModeInv, SendInv
  <1> QED BY <1>1, <1>5, <1>6, <1>7, <1>8 DEF Course

LEMMA WriteCourse ==
    ASSUME Shape, Course, Shape', Write
    PROVE  Course'
  <1>1. /\ active /\ ~cmd /\ ~quiet /\ Label # "URC"
        /\ UNCHANGED <<open, quiet, tx, text, prompt, sessions, taken, lost, blunders>>
    BY DEF Write, MayWrite, modemVars
  <1>2. Placed /\ Placed'
    BY InPlace, InPlaceNext DEF Shape
  <1>3. Between
    BY <1>1 DEF Course, DialogueInv
  <1>4. CASE open
    <2>1. /\ cmd' = TRUE /\ rx' = Append(rx, [id |-> <<n, pc>>, what |-> Label])
          /\ written' = IF Label = "BODY" THEN written + 1 ELSE written
          /\ UNCHANGED <<active, call, n, pc, fate>>
      BY <1>4 DEF Write
    <2>2. UNCHANGED <<Label, AtPrompt, Restoring, Before, Sending, Parts(call)>>
      BY <2>1 DEF Label, AtPrompt, Restoring, Before, Sending
    <2>3. /\ Len(rx') = Len(rx) + 1 /\ rx'[Len(rx')] = [id |-> <<n, pc>>, what |-> Label]
          /\ Len(rx) = 1 => rx'[1] = rx[1]
      <3>1. [id |-> <<n, pc>>, what |-> Label] \in Written /\ rx \in Seq(Written)
        BY <1>1, WriteIsTyped DEF Shape, Ports
      <3> QED BY <2>1, <3>1, RP!Appended
    <2>4. ClosedInv'
      BY <1>1, <1>4, <2>1, <2>2 DEF Course, ClosedInv
    <2>5. SendInv /\ SendInv'
      <3>1. Label = "BODY" => Sending /\ ~Restoring
        BY <1>2 DEF Placed, At, Sending
      <3>2. SendInv /\ Before \in Nat
        BY DEF Course, Before
      <3> QED BY <1>1, <2>1, <2>2, <3>1, <3>2 DEF SendInv
    <2>6. Label = "BODY" => taken = Before
      <3>1. Label = "BODY" => Sending /\ ~Restoring
        BY <1>2 DEF Placed, At, Sending
      <3> QED BY <1>1, <2>5, <3>1 DEF SendInv
    <2>7. Unread'
      BY <1>1, <1>3, <2>1, <2>2, <2>3, <2>6 DEF Unread, Between, EscPending, Quiescent
    <2>8. DialogueInv' /\ QuietInv'
      BY <1>1, <2>1, <2>7 DEF DialogueInv, QuietInv
    <2>9. ModeInv'
      BY <1>1, <2>1 DEF Course, ModeInv
    <2> QED BY <1>1, <2>4, <2>5, <2>8, <2>9 DEF Course
  <1>5. CASE ~open
    <2>1. Throw("error") /\ UNCHANGED <<rx, written>>
      BY <1>5 DEF Write
    <2>2. Len(rx) = 0 /\ Len(tx) = 0 /\ ~prompt /\ sessions = {}
      BY <1>5 DEF Course, ClosedInv
    <2>3. Modes /\ InScript
      BY DEF Shape
    <2>4. /\ cmd' = FALSE /\ UNCHANGED <<call, n>>
          /\ fate' = IF call = "multi" /\ pc = 6 THEN fate ELSE "error"
          /\ \/ call = "multi" /\ pc \in 2..5 /\ pc' = 6 /\ active' = active
             \/ ~(call = "multi" /\ pc \in 2..5) /\ pc' = pc /\ active' = FALSE
      BY <2>1, <2>3, ThrowShape
    <2>5. ClosedInv' /\ QuietInv'
      BY <1>1, <2>1, <2>2, <2>4 DEF ClosedInv, QuietInv
    <2>6. DialogueInv'
      <3>1. ~(active' /\ Label' = "BODY")
        BY <1>2, <2>4 DEF Placed, At
      <3> QED BY <1>1, <1>3, <2>1, <2>2, <2>4, <3>1 DEF DialogueInv, Between, Quiescent
    <2>7. ModeInv'
      BY <2>4 DEF ModeInv
    <2>8. SendInv'
      <3>1. SendInv /\ (Sending /\ ~Restoring => taken = Before)
        BY <1>1 DEF Course, SendInv
      <3>2. Sending \/ ~lost
        BY <3>1 DEF SendInv
      <3> QED BY <1>1, <2>1, <3>1, <3>2, SendWhenThrown
    <2> QED BY <1>1, <2>5, <2>6, <2>7, <2>8 DEF Course
  <1> QED BY <1>4, <1>5

LEMMA UssdCourse ==
    ASSUME Shape, Course, Shape', UssdReturns
    PROVE  Course'
  <1>1. /\ active /\ ~cmd /\ Label = "URC" /\ Proceed
        /\ UNCHANGED <<open, quiet, rx, tx, text, prompt, sessions, taken, written, lost, blunders>>
    BY DEF UssdReturns, Continues, modemVars, histVars
  <1>2. Placed /\ Modes /\ InScript
    BY InPlace DEF Shape
  <1>3. call = "ussd" /\ pc = 3
    BY <1>1, <1>2 DEF Placed, At
  <1>4. cmd' = FALSE /\ call' = call /\ active' = FALSE
    <2>1. Final(call, pc)
      BY <1>3 DEF Final
    <2> QED BY <1>1, <1>2, <2>1, ProceedShape
  <1>5. ~quiet
    BY <1>1, <1>2, <1>3 DEF Course, QuietInv, Placed, At
  <1>6. ~Sending /\ ~Sending'
    BY <1>3, <1>4 DEF Sending, Parts
  <1>7. Between
    BY <1>1, <1>5 DEF Course, DialogueInv
  <1>8. Between'
    <2>1. ~prompt'
      BY <1>1, <1>7 DEF Between
    <2> QED BY <1>1, <1>4, <1>7, <2>1 DEF Between, EscPending, Quiescent
  <1>9. ClosedInv' /\ DialogueInv' /\ QuietInv' /\ ModeInv'
    BY <1>1, <1>4, <1>5, <1>8 DEF Course, ClosedInv, DialogueInv, QuietInv, ModeInv
  <1>10. SendInv'
    BY <1>1, <1>6 DEF Course, SendInv
  <1> QED BY <1>1, <1>9, <1>10 DEF Course

LEMMA TimeoutCourse ==
    ASSUME Shape, Course, Shape', Timeout
    PROVE  Course'
  <1>1. /\ cmd /\ quiet' = TRUE /\ Throw(TimeoutFate) /\ rx' = Escaped(rx)
        /\ UNCHANGED <<open, tx, text, prompt, sessions, taken, written, lost, blunders>>
    BY DEF Timeout, modemVars, histVars
  <1>2. Placed /\ Placed' /\ Modes /\ InScript
    BY InPlace, InPlaceNext DEF Shape
  <1>3. active /\ open /\ ~quiet /\ Label # "URC" /\ SendInv
    BY <1>1 DEF Course, ClosedInv
  <1>4. Unread \/ Answered \/ Unanswered
    BY <1>1, <1>3 DEF Course, DialogueInv
  <1>5. /\ TimeoutFate \in {"error", "confirm"}
        /\ Label = "BODY" => TimeoutFate = "confirm"
        /\ Label # "BODY" => TimeoutFate = "error"
    <2>1. CASE Label = "BODY"
      BY <2>1 DEF TimeoutFate
    <2>2. CASE Label # "BODY"
      BY <2>2 DEF TimeoutFate
    <2> QED BY <2>1, <2>2
  <1>6. /\ cmd' = FALSE /\ UNCHANGED <<call, n>>
        /\ fate' = IF call = "multi" /\ pc = 6 THEN fate ELSE TimeoutFate
        /\ \/ call = "multi" /\ pc \in 2..5 /\ pc' = 6 /\ active' = active
           \/ ~(call = "multi" /\ pc \in 2..5) /\ pc' = pc /\ active' = FALSE
    BY <1>1, <1>2, <1>5, ThrowShape
  <1>7. ClosedInv' /\ DialogueInv' /\ ModeInv'
    <2>1. ClosedInv'
      BY <1>1, <1>3, <1>6 DEF ClosedInv
    <2>2. DialogueInv'
      BY <1>1 DEF DialogueInv
    <2>3. ModeInv'
      BY <1>6 DEF ModeInv
    <2> QED BY <2>1, <2>2, <2>3
  <1>8. SendInv'
    <2>1. TimeoutFate = "error" /\ Sending /\ ~Restoring => taken = Before
      BY <1>3, <1>5 DEF SendInv
    <2>2. Sending \/ ~lost
      BY <1>3 DEF SendInv
    <2> QED BY <1>1, <1>3, <1>5, <2>1, <2>2, SendWhenThrown
  <1>9. active' => Restoring'
    BY <1>2, <1>6 DEF Placed, At
  <1>10. rx \in Seq(Written) /\ Len(rx) \in Nat
    BY LenProperties DEF Shape, Ports
  <1>11. CASE AtPrompt
    <2>1. Label \in {"CMGS", "CMGS-PDU"} /\ (Label = "CMGS" => text) /\ (Label = "CMGS-PDU" => ~text)
      BY <1>2, <1>3, <1>11 DEF Placed, At, Course, ModeInv
    <2>2. /\ Len(rx') = Len(rx) + 1 /\ rx'[Len(rx) + 1].what = "ESC"
          /\ Len(rx) = 1 => rx'[1] = rx[1]
      <3>1. [id |-> <<n, pc>>, what |-> "ESC"] \in Written
        BY <1>3, WriteIsTyped DEF Shape
      <3>2. rx' = Append(rx, [id |-> <<n, pc>>, what |-> "ESC"])
        BY <1>1, <1>11 DEF Escaped
      <3> QED BY <1>10, <3>1, <3>2, RP!Appended
    <2>3. CASE Unread
      <3>1. Len(rx) = 1 /\ rx[1].what = Label /\ ~prompt
        BY <1>2, <1>3, <2>1, <2>3 DEF Unread, EscPending, Placed, At
      <3>2. Leftover'
        BY <1>1, <2>1, <2>2, <3>1 DEF Leftover, Fits
      <3> QED BY <1>7, <1>8, <1>9, <1>1, <3>2 DEF Course, QuietInv
    <2>4. CASE Len(rx) = 0
      <3>1. Leftover'
        BY <2>2, <2>4 DEF Leftover
      <3> QED BY <1>7, <1>8, <1>9, <1>1, <3>1 DEF Course, QuietInv
    <2> QED BY <1>4, <2>3, <2>4 DEF Answered, Unanswered
  <1>12. CASE ~AtPrompt
    <2>1. rx' = rx
      BY <1>1, <1>12 DEF Escaped
    <2>2. CASE Unread /\ Label = "BODY"
      <3>1. Len(rx) = 1 /\ rx[1].what = "BODY" /\ prompt /\ taken = Before
        BY <1>2, <1>3, <2>2 DEF Unread, EscPending, Placed, At
      <3>2. Sending' /\ fate' = "confirm" /\ taken < Parts(call) /\ taken < written
        <4>1. Sending /\ ~Restoring /\ Before < Parts(call) /\ Before \in Nat /\ call' = call
          BY <1>2, <1>6, <2>2 DEF Placed, At, Sending
        <4>2. written = Before + 1
          BY <1>1, <1>3, <2>2, <4>1 DEF SendInv
        <4>3. fate' = "confirm"
          BY <1>2, <1>5, <1>6, <2>2 DEF Placed, At
        <4> QED BY <3>1, <4>1, <4>2, <4>3 DEF Sending
      <3>3. Leftover'
        BY <1>1, <1>6, <2>1, <3>1, <3>2 DEF Leftover
      <3> QED BY <1>7, <1>8, <1>9, <1>1, <3>3 DEF Course, QuietInv
    <2>3. CASE Unread /\ Label # "BODY"
      <3>1. Label \in Harmless /\ Fits(Label)
        BY <1>2, <1>3, <1>12, <2>3 DEF Placed, At, Commands, Harmless, Fits, Course, ModeInv
      <3>2. /\ ~prompt
            /\ \/ Len(rx) = 1 /\ rx[1].what = Label
               \/ Len(rx) = 2 /\ rx[1].what = "ESC" /\ rx[2].what = Label
        BY <2>3 DEF Unread, EscPending
      <3>3. Leftover'
        BY <1>1, <2>1, <3>1, <3>2 DEF Leftover, Fits
      <3> QED BY <1>7, <1>8, <1>9, <1>1, <3>3 DEF Course, QuietInv
    <2>4. CASE Len(rx) = 0 /\ ~prompt
      <3>1. Leftover'
        BY <1>1, <2>1, <2>4 DEF Leftover
      <3> QED BY <1>7, <1>8, <1>9, <1>1, <3>1 DEF Course, QuietInv
    <2> QED BY <1>4, <1>12, <2>2, <2>3, <2>4 DEF Answered, Unanswered
  <1> QED BY <1>11, <1>12

LEMMA CloseCourse ==
    ASSUME CloseCancels, Shape, Course, Shape', Close
    PROVE  Course'
  <1>1. /\ open' = FALSE /\ rx' = <<>> /\ tx' = <<>> /\ prompt' = FALSE /\ sessions' = {}
        /\ lost' = (lost \/ (cmd /\ Label = "BODY")) /\ ~Continues
        /\ UNCHANGED <<quiet, taken, written, blunders>>
        /\ IF cmd THEN Throw("error") ELSE UNCHANGED <<active, call, n, pc, cmd, fate, reply>>
    BY DEF Close, AfterClose
  <1>2. Placed /\ Placed' /\ Modes /\ InScript
    BY InPlace, InPlaceNext DEF Shape
  <1>3. Len(rx') = 0 /\ Len(tx') = 0
    BY <1>1
  <1>4. SendInv
    BY DEF Course
  <1>5. CASE cmd
    <2>1. active /\ ~quiet
      BY <1>5 DEF Course, ClosedInv
    <2>2. /\ cmd' = FALSE /\ UNCHANGED <<call, n>>
          /\ \/ call = "multi" /\ pc \in 2..5 /\ pc' = 6 /\ active' = active
             \/ ~(call = "multi" /\ pc \in 2..5) /\ pc' = pc /\ active' = FALSE
      BY <1>1, <1>2, <1>5, ThrowShape
    <2>3. ~(active' /\ Label' = "BODY")
      BY <1>2, <2>2 DEF Placed, At
    <2>4. Between'
      BY <1>1, <1>3, <2>3 DEF Between, Quiescent
    <2>5. ClosedInv' /\ DialogueInv' /\ QuietInv' /\ ModeInv'
      <3>1. ~quiet' /\ ~cmd'
        BY <1>1, <2>1, <2>2
      <3>2. ClosedInv'
        BY <1>1, <1>3, <3>1 DEF ClosedInv
      <3>3. DialogueInv' /\ QuietInv'
        BY <2>4, <3>1 DEF DialogueInv, QuietInv
      <3>4. ModeInv'
        BY <2>2 DEF ModeInv
      <3> QED BY <3>2, <3>3, <3>4
    <2>6. SendInv'
      <3>0. Label = "BODY" => lost'
        BY <1>1, <1>5
      <3>1. Sending /\ ~Restoring => taken = Before \/ lost'
        BY <1>4, <1>5, <2>1, <3>0 DEF SendInv
      <3>2. Sending \/ ~lost'
        <4>1. Label = "BODY" => Sending
          BY <1>2 DEF Sending, Placed, At
        <4>2. ~Sending => ~lost
          BY <1>4 DEF SendInv
        <4> QED BY <1>1, <4>1, <4>2
      <3>3. lost => lost'
        BY <1>1
      <3> QED BY <1>1, <1>4, <1>5, <2>1, <3>1, <3>2, <3>3, SendWhenThrown
    <2> QED BY <1>1, <2>5, <2>6 DEF Course
  <1>6. CASE ~cmd
    <2>1. UNCHANGED <<active, call, n, pc, cmd, fate, Label, Restoring, Before, Sending,
                      Parts(call)>>
      BY <1>1, <1>6 DEF Label, Restoring, Before, Sending
    <2>2. lost' = lost
      BY <1>1, <1>2, <1>6 DEF Modes
    <2>3. active => quiet \/ Label = "URC"
      BY <1>1, <1>6 DEF Continues, MayWrite
    <2>4. ~quiet => ~(active' /\ Label' = "BODY")
      BY <2>1, <2>3
    <2>5. ~quiet => Between'
      BY <1>1, <1>3, <2>4 DEF Between, Quiescent
    <2>6. ClosedInv' /\ DialogueInv'
      BY <1>1, <1>3, <1>6, <2>1, <2>5 DEF ClosedInv, DialogueInv
    <2>7. QuietInv'
      BY <1>1, <1>3, <2>1 DEF Course, QuietInv, Leftover
    <2>8. ModeInv'
      BY <1>2, <2>1, <2>3 DEF Course, QuietInv, ModeInv, Placed, At
    <2>9. SendInv'
      BY <1>1, <1>4, <2>1, <2>2 DEF SendInv
    <2> QED BY <1>1, <2>6, <2>7, <2>8, <2>9 DEF Course
  <1> QED BY <1>5, <1>6

\* What a step that leaves the dialogue as it is keeps.
LEMMA IdleCourse ==
    ASSUME Course, UNCHANGED <<active, call, n, pc, cmd, fate, quiet, rx, tx, text, prompt,
                               taken, written, lost, blunders>>,
           \/ open /\ open'
           \/ open' /\ Len(rx) = 0
           \/ open' = open,
           ~open' => sessions' \subseteq sessions
    PROVE  Course'
  <1>1. UNCHANGED <<Label, AtPrompt, Restoring, Before, Sending, Parts(call)>>
    BY DEF Label, AtPrompt, Restoring, Before, Sending
  <1>2. ClosedInv'
    BY <1>1 DEF Course, ClosedInv
  <1>3. DialogueInv'
    BY <1>1 DEF Course, DialogueInv, Unread, Answered, Unanswered, Between, EscPending,
                Quiescent, Truthful, Tells
  <1>4. QuietInv' /\ ModeInv' /\ SendInv'
    BY <1>1 DEF Course, QuietInv, ModeInv, SendInv, Leftover, Fits
  <1> QED BY <1>2, <1>3, <1>4 DEF Course

LEMMA QuietEndsCourse ==
    ASSUME DrainsInQuiet, Shape, Course, QuietEnds
    PROVE  Course'
  <1>1. /\ quiet /\ quiet' = FALSE /\ rx = <<>> /\ tx = <<>>
        /\ UNCHANGED <<open, active, call, n, pc, cmd, fate, rx, tx, text, prompt, sessions,
                       taken, written, lost, blunders>>
    BY DEF QuietEnds, driverVars, modemVars, histVars
  <1>2. UNCHANGED <<Label, Restoring, Before, Sending, Parts(call)>>
    BY <1>1 DEF Label, Restoring, Before, Sending
  <1>3. Len(rx') = 0 /\ Len(tx') = 0 /\ Len(rx) = 0
    BY <1>1
  <1>4. ~cmd /\ Leftover /\ (active => pc = 1 \/ Restoring)
    BY <1>1 DEF Course, ClosedInv, QuietInv
  <1>5. ~prompt
    BY <1>3, <1>4 DEF Leftover
  <1>6. Placed
    BY InPlace DEF Shape
  <1>7. ~(active /\ Label = "BODY")
    BY <1>4, <1>6 DEF Placed, At
  <1>8. Between'
    BY <1>1, <1>2, <1>3, <1>5, <1>7 DEF Between, Quiescent
  <1>9. ClosedInv' /\ DialogueInv' /\ QuietInv'
    BY <1>1, <1>2, <1>4, <1>8 DEF Course, ClosedInv, DialogueInv, QuietInv
  <1>10. ModeInv' /\ SendInv'
    BY <1>1, <1>2 DEF Course, ModeInv, SendInv
  <1> QED BY <1>1, <1>9, <1>10 DEF Course

LEMMA ReplyCourse ==
    ASSUME Shape, Course, NEW s \in sessions, NetworkReplies(s)
    PROVE  Course'
  <1>1. /\ sessions' \subseteq sessions /\ tx' = Append(tx, [id |-> <<s, 1>>, what |-> "cusd"])
        /\ UNCHANGED <<open, active, call, n, pc, cmd, fate, quiet, rx, text, prompt,
                       taken, written, lost, blunders>>
    BY DEF NetworkReplies, driverVars, histVars
  <1>2. UNCHANGED <<Label, AtPrompt, Restoring, Before, Sending, Parts(call)>>
    BY <1>1 DEF Label, AtPrompt, Restoring, Before, Sending
  <1>3. /\ Len(tx) \in Nat /\ Len(tx') = Len(tx) + 1 /\ tx'[Len(tx')].what = "cusd"
        /\ \A i \in 1..Len(tx) : tx'[i] = tx[i]
    <2>1. [id |-> <<s, 1>>, what |-> "cusd"] \in Lines /\ tx \in Seq(Lines)
      BY DEF Lines, Shape, Ports
    <2> QED BY <1>1, <2>1, RP!Appended
  <1>4. open
    BY DEF Course, ClosedInv
  <1>5. Quiescent => Quiescent'
    BY <1>3 DEF Quiescent
  <1>6. Answered => Answered'
    <2> SUFFICES ASSUME Answered PROVE Answered'
      OBVIOUS
    <2>1. PICK i \in 1..Len(tx) : /\ tx[i].what # "cusd" /\ Truthful(tx[i])
                                  /\ \A j \in 1..Len(tx) : j # i => tx[j].what = "cusd"
      BY DEF Answered
    <2>2. i \in 1..Len(tx') /\ tx'[i].what # "cusd" /\ Truthful(tx[i])'
      BY <1>1, <1>2, <1>3, <2>1 DEF Truthful, Tells
    <2>3. \A j \in 1..Len(tx') : j # i => tx'[j].what = "cusd"
      BY <1>3, <2>1
    <2> QED BY <1>1, <1>2, <2>2, <2>3 DEF Answered, Truthful, Tells
  <1>7. DialogueInv'
    BY <1>1, <1>2, <1>5, <1>6 DEF Course, DialogueInv, Unread, Unanswered, Between, EscPending,
       Answered
  <1>8. ClosedInv' /\ QuietInv' /\ ModeInv' /\ SendInv'
    BY <1>1, <1>2, <1>4 DEF Course, ClosedInv, QuietInv, ModeInv, SendInv, Leftover, Fits
  <1> QED BY <1>1, <1>7, <1>8 DEF Course

\* The first line goes: what is left of a dialogue that was answered.
LEMMA LinesMoved ==
    ASSUME Ports, tx # <<>>, tx' = Tail(tx)
    PROVE  /\ Len(tx) \in Nat \ {0} /\ Len(tx') = Len(tx) - 1 /\ Head(tx) = tx[1]
           /\ \A i \in 1..Len(tx') : tx'[i] = tx[i + 1]
           /\ Quiescent => Quiescent' /\ Head(tx).what = "cusd"
           /\ Answered /\ Head(tx).what # "cusd" => Quiescent' /\ Truthful(Head(tx))
  <1>1. /\ Len(tx) \in Nat \ {0} /\ Len(tx') = Len(tx) - 1 /\ Head(tx) = tx[1]
        /\ \A i \in 1..Len(tx') : tx'[i] = tx[i + 1]
    BY ReadFront DEF Ports
  <1>2. Quiescent => Quiescent' /\ Head(tx).what = "cusd"
    BY <1>1 DEF Quiescent
  <1>3. ASSUME Answered, Head(tx).what # "cusd" PROVE Quiescent' /\ Truthful(Head(tx))
    <2>1. PICK i \in 1..Len(tx) : /\ tx[i].what # "cusd" /\ Truthful(tx[i])
                                  /\ \A j \in 1..Len(tx) : j # i => tx[j].what = "cusd"
      BY <1>3 DEF Answered
    <2>2. i = 1
      BY <1>1, <1>3, <2>1
    <2>3. Quiescent'
      BY <1>1, <2>1, <2>2 DEF Quiescent
    <2> QED BY <1>1, <2>1, <2>2, <2>3
  <1> QED BY <1>1, <1>2, <1>3

\* A line no command is settled by: +CUSD, or one left from a command timed out.
LEMMA PassedCourse ==
    ASSUME Shape, Course, Deliver,
           UNCHANGED <<active, call, n, pc, cmd, fate, rx, blunders>>,
           Head(tx).what = "cusd" \/ quiet
    PROVE  Course'
  <1>1. /\ tx # <<>> /\ tx' = Tail(tx)
        /\ UNCHANGED <<open, quiet, text, prompt, sessions, taken, written, lost>>
    BY DEF Deliver, modemVars
  <1>2. UNCHANGED <<Label, AtPrompt, Restoring, Before, Sending, Parts(call)>>
    BY DEF Label, AtPrompt, Restoring, Before, Sending
  <1>3. /\ Len(tx) \in Nat \ {0} /\ Len(tx') = Len(tx) - 1 /\ Head(tx) = tx[1]
        /\ \A i \in 1..Len(tx') : tx'[i] = tx[i + 1]
        /\ Quiescent => Quiescent'
    BY <1>1, LinesMoved DEF Shape
  <1>4. Answered /\ Head(tx).what = "cusd" => Answered'
    <2> SUFFICES ASSUME Answered, Head(tx).what = "cusd" PROVE Answered'
      OBVIOUS
    <2>1. PICK i \in 1..Len(tx) : /\ tx[i].what # "cusd" /\ Truthful(tx[i])
                                  /\ \A j \in 1..Len(tx) : j # i => tx[j].what = "cusd"
      BY DEF Answered
    <2>2. i - 1 \in 1..Len(tx') /\ tx'[i - 1] = tx[i]
      BY <1>3, <2>1
    <2>3. \A j \in 1..Len(tx') : j # i - 1 => tx'[j].what = "cusd"
      BY <1>3, <2>1
    <2>4. Len(rx') = 0 /\ (prompt' => AtPrompt')
      BY <1>1, <1>2 DEF Answered
    <2>5. /\ tx'[i - 1].what # "cusd" /\ tx'[i - 1].id = <<n', pc'>>
          /\ tx'[i - 1].what = "prompt" => AtPrompt' /\ prompt'
          /\ tx'[i - 1].what = "ok" => /\ ~AtPrompt'
                                       /\ Label' = "TEXT" => text'
                                       /\ Label' = "PDU" => ~text'
          /\ tx'[i - 1].what = "error" => ~prompt'
          /\ Label' = "BODY" => taken' = Before' + (IF tx'[i - 1].what = "ok" THEN 1 ELSE 0)
      BY <1>1, <1>2, <2>1, <2>2 DEF Truthful, Tells
    <2> QED BY <2>2, <2>3, <2>4, <2>5 DEF Answered, Truthful, Tells
  <1>5. DialogueInv'
    BY <1>1, <1>2, <1>3, <1>4 DEF Course, DialogueInv, Unread, Unanswered, Between, EscPending
  <1>6. ClosedInv'
    <2>1. open \/ Len(tx) = 0
      BY DEF Course, ClosedInv
    <2>2. open
      BY <1>3, <2>1
    <2> QED BY <1>1, <1>2, <2>2 DEF Course, ClosedInv
  <1>7. QuietInv' /\ ModeInv' /\ SendInv'
    BY <1>1, <1>2 DEF Course, QuietInv, ModeInv, SendInv, Leftover, Fits
  <1> QED BY <1>1, <1>5, <1>6, <1>7 DEF Course

\* A line that settles the current command is its own reply.
LEMMA SettledCourse ==
    ASSUME Shape, Course, Shape', Deliver, cmd, Head(tx).what # "cusd",
           SettleBy(Head(tx).what),
           blunders' = IF Head(tx).id = <<n, pc>> THEN blunders ELSE blunders \union {"crossed"}
    PROVE  Course'
  <1>1. /\ tx # <<>> /\ tx' = Tail(tx)
        /\ UNCHANGED <<open, quiet, text, prompt, sessions, taken, written, lost>>
    BY DEF Deliver, modemVars
  <1>2. active /\ open /\ ~quiet /\ Label # "URC" /\ SendInv /\ ModeInv
    BY DEF Course, ClosedInv
  <1>3. Placed /\ Placed' /\ Modes /\ InScript
    BY InPlace, InPlaceNext DEF Shape
  <1>4. Answered
    <2>1. Unread \/ Answered \/ Unanswered
      BY <1>2 DEF Course, DialogueInv
    <2>2. ~Quiescent
      BY <1>1, LinesMoved DEF Shape
    <2> QED BY <2>1, <2>2 DEF Unread, Unanswered
  <1>5. Quiescent' /\ Truthful(Head(tx))
    BY <1>1, <1>4, LinesMoved DEF Shape
  <1>6. Head(tx).what \in {"ok", "error", "prompt"}
    <2>1. Head(tx) \in Lines
      BY <1>1, HeadTailProperties DEF Shape, Ports
    <2> QED BY <2>1 DEF Lines
  <1>7. Len(rx) = 0 /\ rx \in Seq(Written) /\ blunders' = {}
    BY <1>4, <1>5 DEF Answered, Truthful, Tells, Shape, Ports, Course
  <1>8. CASE Head(tx).what = "error"
    <2>1. Throw("error") /\ rx' = Escaped(rx)
      BY <1>8 DEF SettleBy, Rejects
    <2>2. /\ cmd' = FALSE /\ UNCHANGED <<call, n>>
          /\ \/ call = "multi" /\ pc \in 2..5 /\ pc' = 6 /\ active' = active
             \/ ~(call = "multi" /\ pc \in 2..5) /\ pc' = pc /\ active' = FALSE
      BY <1>3, <2>1, ThrowShape
    <2>3. ~prompt /\ (Label = "BODY" => taken = Before)
      <3>1. Before \in Nat
        BY DEF Before
      <3> QED BY <1>5, <1>8, <3>1 DEF Truthful, Tells
    <2>4. Len(rx') = 0 \/ (Len(rx') = 1 /\ rx'[1].what = "ESC")
      <3>1. [id |-> <<n, pc>>, what |-> "ESC"] \in Written
        BY <1>2, WriteIsTyped DEF Shape
      <3>2. CASE AtPrompt
        <4>1. rx' = Append(rx, [id |-> <<n, pc>>, what |-> "ESC"])
          BY <2>1, <3>2 DEF Escaped
        <4> QED BY <1>7, <3>1, <4>1, RP!Appended
      <3>3. CASE ~AtPrompt
        BY <1>7, <2>1, <3>3 DEF Escaped
      <3> QED BY <3>2, <3>3
    <2>5. active' => Restoring' /\ Label' # "BODY"
      BY <1>3, <2>2 DEF Placed, At
    <2>6. Between'
      BY <1>1, <1>5, <2>3, <2>4, <2>5 DEF Between, EscPending
    <2>7. ClosedInv' /\ DialogueInv' /\ QuietInv'
      BY <1>1, <1>2, <2>2, <2>6 DEF ClosedInv, DialogueInv, QuietInv
    <2>8. ModeInv'
      BY <2>2 DEF ModeInv
    <2>9. SendInv'
      <3>1. Sending /\ ~Restoring => taken = Before
        BY <1>2, <2>3 DEF SendInv
      <3>2. Sending \/ ~lost
        BY <1>2 DEF SendInv
      <3> QED BY <1>1, <1>2, <2>1, <3>1, <3>2, SendWhenThrown
    <2> QED BY <1>7, <2>7, <2>8, <2>9 DEF Course
  <1>9. CASE Head(tx).what # "error"
    <2>1. Proceed /\ rx' = rx
      BY <1>9 DEF SettleBy, Rejects
    <2>2. /\ cmd' = FALSE /\ UNCHANGED <<call, n, fate>>
          /\ \/ ~Final(call, pc) /\ pc' = pc + 1 /\ active' = active
             \/ Final(call, pc) /\ pc' = pc /\ active' = FALSE
      BY <1>3, <2>1, ProceedShape
    <2>3. CASE Head(tx).what = "prompt"
      <3>1. AtPrompt /\ prompt
        BY <1>5, <2>3 DEF Truthful, Tells
      <3>2. active' /\ Label' = "BODY" /\ pc' = pc + 1
        <4>1. (call = "single" /\ pc = 3) \/ (call = "multi" /\ pc \in {2, 4})
          BY <1>3, <3>1 DEF Placed, At
        <4>2. ~Final(call, pc)
          BY <4>1 DEF Final
        <4>3. active' = active /\ pc' = pc + 1 /\ call' = call
          BY <2>2, <4>2
        <4>4. (call' = "single" /\ pc' = 4) \/ (call' = "multi" /\ pc' \in {3, 5})
          BY <4>1, <4>3
        <4> QED BY <1>2, <1>3, <4>3, <4>4 DEF Placed, At
      <3>3. Between'
        BY <1>1, <1>5, <1>7, <2>1, <3>1, <3>2 DEF Between
      <3>4. ClosedInv' /\ DialogueInv' /\ QuietInv'
        BY <1>1, <1>2, <2>2, <3>3 DEF ClosedInv, DialogueInv, QuietInv
      <3>5. ModeInv'
        BY <1>1, <1>2, <1>3, <2>2, <3>1, <3>2 DEF ModeInv, Placed, At
      <3>6. SendInv'
        <4>1. Sending /\ Sending' /\ ~Restoring /\ ~Restoring' /\ Before' = Before
          BY <1>3, <2>2, <3>1, <3>2 DEF Placed, At, Sending
        <4>2. fate = "ok" /\ ~lost /\ written = Before /\ taken = Before
          BY <1>2, <1>3, <3>1, <4>1 DEF SendInv, Placed, At
        <4> QED BY <1>1, <2>2, <3>2, <4>1, <4>2 DEF SendInv
      <3> QED BY <1>7, <3>4, <3>5, <3>6 DEF Course
    <2>4. CASE Head(tx).what = "ok"
      <3>1. /\ ~AtPrompt /\ (Label = "TEXT" => text) /\ (Label = "PDU" => ~text)
            /\ Label = "BODY" => taken = Before + 1
        BY <1>5, <2>4 DEF Truthful, Tells
      <3>2. ~prompt
        BY <1>4, <3>1 DEF Answered
      <3>3. ~(active' /\ Label' = "BODY")
        <4> SUFFICES ASSUME active', Label' = "BODY" PROVE FALSE
          OBVIOUS
        <4>1. (call' = "single" /\ pc' = 4) \/ (call' = "multi" /\ pc' \in {3, 5})
          BY <1>3 DEF Placed, At
        <4>2. pc' = pc + 1 /\ call' = call /\ pc \in 1..6
          BY <2>2 DEF Shape, Modes
        <4>3. (call = "single" /\ pc = 3) \/ (call = "multi" /\ pc \in {2, 4})
          BY <4>1, <4>2
        <4> QED BY <1>3, <3>1, <4>3 DEF Placed, At
      <3>4. Between'
        BY <1>1, <1>5, <1>7, <2>1, <3>2, <3>3 DEF Between
      <3>5. ClosedInv' /\ DialogueInv' /\ QuietInv'
        BY <1>1, <1>2, <2>2, <3>2, <3>4 DEF ClosedInv, DialogueInv, QuietInv
      <3>6. ModeInv'
        <4> SUFFICES ASSUME active', pc' >= 2 PROVE ModeInv'
          BY DEF ModeInv
        <4>1. pc' = pc + 1 /\ call' = call /\ text' = text /\ pc \in 1..6
          BY <1>1, <2>2 DEF Shape, Modes
        <4>2. CASE pc = 1
          <5>1. /\ call \in {"single", "read"} => text
                /\ call = "multi" => ~text
            BY <1>3, <3>1, <4>2 DEF Placed, At
          <5> QED BY <4>1, <5>1 DEF ModeInv
        <4>3. CASE pc >= 2
          <5>1. /\ call \in {"single", "read"} => text
                /\ call = "multi" /\ pc <= 5 => ~text
            BY <1>2, <4>3 DEF ModeInv
          <5> QED BY <4>1, <5>1 DEF ModeInv
        <4> QED BY <4>1, <4>2, <4>3
      <3>7. SendInv'
        <4>1. CASE ~Sending
          BY <1>1, <1>2, <2>2, <4>1 DEF SendInv, Sending
        <4>2. CASE Sending /\ Restoring
          <5>1. active' = FALSE /\ Sending'
            BY <1>3, <2>2, <4>2 DEF Placed, At, Final, Sending
          <5> QED BY <1>1, <1>2, <2>2, <4>2, <5>1 DEF SendInv
        <4>3. CASE Sending /\ ~Restoring
          <5>1. fate = "ok" /\ ~lost
            BY <1>2, <4>3 DEF SendInv
          <5>2. CASE Label = "BODY"
            <6>1. written = Before + 1 /\ taken = Before + 1
              BY <1>2, <3>1, <4>3, <5>2 DEF SendInv
            <6>2. CASE call = "multi" /\ pc = 3
              <7>1. pc' = 4 /\ call' = call /\ active'
                BY <1>2, <2>2, <6>2 DEF Final
              <7>2. Before = 0 /\ Before' = 1 /\ ~Restoring' /\ Sending'
                BY <1>3, <6>2, <7>1 DEF Placed, At, Sending
              <7> QED BY <1>1, <2>2, <3>3, <5>1, <6>1, <7>1, <7>2 DEF SendInv
            <6>3. CASE ~(call = "multi" /\ pc = 3)
              <7>1. /\ ~active' \/ Restoring'
                    /\ Parts(call) = Before + 1 /\ Sending' /\ Before \in Nat
                BY <1>3, <2>2, <4>3, <5>2, <6>3 DEF Placed, At, Final, Sending
              <7> QED BY <1>1, <2>2, <5>1, <6>1, <7>1 DEF SendInv
            <6> QED BY <6>2, <6>3
          <5>3. CASE Label # "BODY"
            <6>1. written = Before /\ taken = Before
              BY <1>2, <4>3, <5>3 DEF SendInv
            <6>2. active' /\ ~Restoring' /\ Before' = Before /\ Sending' /\ ~cmd'
              <7>1. \/ call = "single" /\ pc \in {1, 2}
                    \/ call = "multi" /\ pc = 1
                BY <1>3, <3>1, <4>3, <5>3 DEF Placed, At, Sending, Shape, Modes
              <7>2. active' = active /\ call' = call /\ pc' = pc + 1 /\ ~cmd'
                <8>1. ~Final(call, pc)
                  BY <7>1 DEF Final
                <8> QED BY <2>2, <8>1
              <7> QED BY <1>2, <1>3, <7>1, <7>2 DEF Placed, At, Sending
            <6> QED BY <1>1, <2>2, <5>1, <6>1, <6>2 DEF SendInv
          <5> QED BY <5>2, <5>3
        <4> QED BY <4>1, <4>2, <4>3
      <3> QED BY <1>7, <3>5, <3>6, <3>7 DEF Course
    <2> QED BY <1>6, <1>9, <2>3, <2>4
  <1> QED BY <1>8, <1>9

LEMMA DeliverCourse ==
    ASSUME Shape, Course, Shape', Deliver
    PROVE  Course'
  <1>1. tx # <<>> /\ tx' = Tail(tx)
    BY DEF Deliver
  <1>2. CASE Head(tx).what = "cusd"
    <2>1. UNCHANGED <<active, call, n, pc, cmd, fate, rx, blunders>>
      BY <1>2 DEF Deliver
    <2> QED BY <1>2, <2>1, PassedCourse
  <1>3. CASE Head(tx).what # "cusd" /\ cmd /\ (Head(tx).what = "prompt" => AtPrompt)
    <2>1. /\ SettleBy(Head(tx).what)
          /\ blunders' = IF Head(tx).id = <<n, pc>> THEN blunders
                         ELSE blunders \union {"crossed"}
      BY <1>3 DEF Deliver
    <2> QED BY <1>3, <2>1, SettledCourse
  <1>4. CASE Head(tx).what # "cusd" /\ ~(cmd /\ (Head(tx).what = "prompt" => AtPrompt))
    <2>1. UNCHANGED <<active, call, n, pc, cmd, fate, rx, blunders>>
      BY <1>4 DEF Deliver, driverVars
    <2>2. quiet
      <3> SUFFICES ASSUME ~quiet PROVE FALSE
        OBVIOUS
      <3>1. ~Quiescent /\ (Answered => Truthful(Head(tx)))
        BY <1>1, <1>4, LinesMoved DEF Shape
      <3>2. CASE cmd
        BY <1>4, <3>1, <3>2 DEF Course, DialogueInv, Unread, Unanswered, Truthful, Tells
      <3>3. CASE ~cmd
        BY <3>1, <3>3 DEF Course, DialogueInv, Between
      <3> QED BY <3>2, <3>3
    <2> QED BY <2>1, <2>2, PassedCourse
  <1> QED BY <1>2, <1>3, <1>4

\* The modem's answer to the current command, if it comes.
LEMMA OwnAnswer ==
    ASSUME Shape, Quiescent, NEW w \in Written, w.id = <<n, pc>>, UNCHANGED <<n, pc>>,
           NEW l \in {"ok", "error", "prompt"}, Answer(w, l),
           Len(rx') = 0, prompt' => AtPrompt', Tells(l)'
    PROVE  Unanswered' \/ Answered'
  <1>1. CASE tx' = tx
    <2>1. Quiescent'
      BY <1>1 DEF Quiescent
    <2> QED BY <2>1 DEF Unanswered
  <1>2. CASE tx' = Append(tx, [id |-> w.id, what |-> l])
    <2>1. [id |-> w.id, what |-> l] \in Lines /\ tx \in Seq(Lines)
      BY DEF Written, Lines, Shape, Ports
    <2>2. /\ Len(tx) \in Nat /\ Len(tx') = Len(tx) + 1
          /\ tx'[Len(tx) + 1] = [id |-> w.id, what |-> l]
          /\ \A j \in 1..Len(tx) : tx'[j] = tx[j]
      BY <1>2, <2>1, RP!Appended
    <2>3. /\ Len(tx) + 1 \in 1..Len(tx') /\ tx'[Len(tx) + 1].what = l
          /\ tx'[Len(tx) + 1].id = <<n', pc'>>
      BY <2>2
    <2>4. \A j \in 1..Len(tx') : j # Len(tx) + 1 => tx'[j].what = "cusd"
      BY <2>2 DEF Quiescent
    <2>5. l # "cusd"
      OBVIOUS
    <2> QED BY <2>3, <2>4, <2>5 DEF Answered, Truthful
  <1> QED BY <1>1, <1>2 DEF Answer

\* The current command is executed, in the mode it was written for, or read as
\* the text of the message it is.
LEMMA CommandRead ==
    ASSUME Shape, Course, ModemReads, cmd, Len(rx) = 1
    PROVE  /\ DialogueInv' /\ blunders' = {}
           /\ ModeInv' /\ ClosedInv'
           /\ taken' = taken \/ (Label = "BODY" /\ taken = Before /\ taken' = Before + 1)
  <1>1. /\ rx # <<>> /\ rx' = Tail(rx)
        /\ UNCHANGED <<open, active, call, n, pc, cmd, fate, quiet, written, lost>>
    BY DEF ModemReads, driverVars, histVars
  <1>2. UNCHANGED <<Label, AtPrompt, Restoring, Before, Sending>>
    BY <1>1 DEF Label, AtPrompt, Restoring, Before, Sending
  <1>3. Placed /\ Modes /\ InScript
    BY InPlace DEF Shape
  <1>4. active /\ ~quiet /\ Label # "URC" /\ ModeInv /\ blunders = {}
    BY DEF Course, ClosedInv
  <1>5. Unread
    BY <1>1, <1>4 DEF Course, DialogueInv, Answered, Unanswered
  <1> DEFINE w == Head(rx)
  <1>6. /\ w \in Written /\ w.id = <<n, pc>> /\ w.what = Label /\ Len(rx') = 0
        /\ Quiescent /\ (prompt <=> Label = "BODY") /\ (Label = "BODY" => taken = Before)
    <2>1. rx \in Seq(Written)
      BY DEF Shape, Ports
    <2>2. w = rx[1] /\ Len(rx') = 0 /\ w \in Written
      BY <1>1, <2>1, RP!Tailed, HeadTailProperties
    <2> QED BY <1>5, <2>2 DEF Unread
  <1>7. w.id[1] = n
    BY <1>6
  <1> HIDE DEF w
  <1>8. Unanswered' \/ Answered' => DialogueInv'
    BY <1>1 DEF DialogueInv, Course
  <1>9. ClosedInv'
    BY <1>1, <1>2, <1>4 DEF Course, ClosedInv
  <1>10. CASE Label = "BODY"
    <2>1. ReadAtPrompt(w) /\ w.what = "BODY"
      BY <1>6, <1>10 DEF ModemReads, w
    <2>2. /\ prompt' = FALSE /\ blunders' = blunders /\ text' = text
          /\ \/ Answer(w, "ok") /\ taken' = taken + 1
             \/ Answer(w, "error") /\ taken' = taken
      BY <1>7, <2>1 DEF ReadAtPrompt
    <2>3. ~AtPrompt /\ taken = Before /\ Before \in Nat
      BY <1>6, <1>10 DEF AtPrompt, Before
    <2>4. CASE Answer(w, "ok") /\ taken' = taken + 1
      <3>1. Tells("ok")'
        BY <1>2, <1>10, <2>3, <2>4 DEF Tells
      <3> QED BY <1>1, <1>4, <1>6, <1>8, <1>9, <1>10, <2>2, <2>3, <2>4, <3>1, OwnAnswer
              DEF ModeInv
    <2>5. CASE Answer(w, "error") /\ taken' = taken
      <3>1. Tells("error")'
        BY <1>2, <1>10, <2>2, <2>3, <2>5 DEF Tells
      <3> QED BY <1>1, <1>4, <1>6, <1>8, <1>9, <2>2, <2>5, <3>1, OwnAnswer DEF ModeInv
    <2> QED BY <2>2, <2>4, <2>5
  <1>11. CASE Label # "BODY"
    <2>1. Execute(w) /\ ~prompt /\ w.what = Label /\ Label \in Commands \ {"BODY"}
      BY <1>3, <1>4, <1>6, <1>11 DEF ModemReads, w, Placed, At
    <2>2. ASSUME NEW l \in {"ok", "error", "prompt"}, Answer(w, l), Tells(l)', prompt' => AtPrompt,
                 taken' = taken, blunders' = {}, text' = text \/ Label \in {"TEXT", "PDU"}
          PROVE  /\ DialogueInv' /\ blunders' = {} /\ ModeInv' /\ ClosedInv' /\ taken' = taken
      <3>1. ModeInv'
        <4>1. CASE text' = text
          BY <1>1, <1>4, <4>1 DEF ModeInv
        <4>2. CASE Label \in {"TEXT", "PDU"}
          BY <1>1, <1>3, <4>2 DEF ModeInv, Placed, At
        <4> QED BY <2>2, <4>1, <4>2
      <3>2. Unanswered' \/ Answered'
        BY <1>1, <1>2, <1>6, <2>2, OwnAnswer
      <3> QED BY <1>8, <1>9, <2>2, <3>1, <3>2
    <2>3. CASE Label \in {"TEXT", "PDU"} /\ text' = (Label = "TEXT") /\ Answer(w, "ok")
               /\ UNCHANGED <<prompt, sessions, taken, blunders>>
      <3>1. Tells("ok")'
        BY <1>2, <2>1, <2>3 DEF Tells, AtPrompt
      <3> QED BY <1>4, <2>1, <2>2, <2>3, <3>1
    <2>4. CASE /\ Label \in {"CMGS", "CMGS-PDU"} /\ prompt' = TRUE /\ Answer(w, "prompt")
               /\ IF text = (Label = "CMGS") THEN UNCHANGED blunders ELSE Blunder("mode")
               /\ UNCHANGED <<text, sessions, taken>>
      <3>1. AtPrompt /\ (Label = "CMGS" => text) /\ (Label = "CMGS-PDU" => ~text)
        BY <1>3, <1>4, <2>4 DEF ModeInv, Placed, At
      <3>2. text = (Label = "CMGS")
        BY <1>3, <2>4, <3>1 DEF Modes
      <3>3. Tells("prompt")'
        BY <1>2, <2>4, <3>1 DEF Tells
      <3> QED BY <1>4, <2>1, <2>2, <2>4, <3>1, <3>2, <3>3
    <2>5. CASE Label = "CUSD" /\ Answer(w, "ok") /\ UNCHANGED <<text, prompt, taken, blunders>>
      <3>1. Tells("ok")'
        BY <1>2, <2>1, <2>5 DEF Tells, AtPrompt
      <3> QED BY <1>4, <2>1, <2>2, <2>5, <3>1
    <2>6. CASE /\ Label \in {"SETUP", "CMGL"} /\ Answer(w, "ok")
               /\ IF Label = "CMGL" => text THEN UNCHANGED blunders ELSE Blunder("mode")
               /\ UNCHANGED modemVars
      <3>1. Label = "CMGL" => text
        BY <1>3, <1>4 DEF ModeInv, Placed, At
      <3>2. Tells("ok")'
        BY <1>2, <2>1, <2>6 DEF Tells, AtPrompt
      <3> QED BY <1>4, <2>1, <2>2, <2>6, <3>1, <3>2 DEF modemVars
    <2>7. CASE Answer(w, "error") /\ UNCHANGED <<modemVars, blunders>>
      <3>1. Tells("error")'
        BY <1>2, <1>11, <2>1, <2>7 DEF Tells, modemVars
      <3> QED BY <1>4, <2>1, <2>2, <2>7, <3>1 DEF modemVars
    <2> QED BY <2>1, <2>3, <2>4, <2>5, <2>6, <2>7 DEF Execute, Commands, Harmless
  <1> QED BY <1>10, <1>11

\* An ESC is read where nothing is open: it changes nothing.
LEMMA EscapeRead ==
    ASSUME Shape, ModemReads, ~prompt, Head(rx).what = "ESC"
    PROVE  UNCHANGED <<text, prompt, sessions, taken, tx, blunders>>
  BY DEF ModemReads, Execute, modemVars

\* What a command that timed out left behind is read before the quiet is over.
LEMMA LeftoverRead ==
    ASSUME Shape, Course, ModemReads, quiet
    PROVE  /\ Leftover' /\ blunders' = {}
           /\ \/ taken' = taken
              \/ taken' = taken + 1 /\ Sending /\ fate = "confirm" /\ taken < Parts(call)
                 /\ taken < written
  <1>1. /\ rx # <<>> /\ rx' = Tail(rx)
        /\ UNCHANGED <<active, call, n, pc, fate, quiet, written, lost>>
    BY DEF ModemReads, driverVars, histVars
  <1>2. Leftover /\ blunders = {}
    BY DEF Course, QuietInv
  <1>3. rx \in Seq(Written)
    BY DEF Shape, Ports
  <1>4. /\ Len(rx) \in Nat \ {0} /\ Len(rx') = Len(rx) - 1 /\ Head(rx) = rx[1]
        /\ \A i \in 1..Len(rx') : rx'[i] = rx[i + 1]
    BY <1>1, <1>3, ReadFront
  <1>5. Len(rx) = 2 => rx'[1] = rx[2] /\ Len(rx') = 1
    BY <1>4
  <1>6. prompt \in BOOLEAN /\ text \in BOOLEAN
    BY DEF Shape, Modes
  <1> DEFINE w == Head(rx)
  <1>7. CASE Len(rx) = 1 /\ rx[1].what = "ESC"
    <2>1. CASE prompt
      <3>1. prompt' = FALSE /\ UNCHANGED <<taken, blunders>>
        BY <1>4, <1>7, <2>1 DEF ModemReads, ReadAtPrompt
      <3> QED BY <1>2, <1>4, <1>7, <3>1 DEF Leftover
    <2>2. CASE ~prompt
      BY <1>2, <1>4, <1>7, <2>2, EscapeRead DEF Leftover
    <2> QED BY <2>1, <2>2
  <1>8. CASE /\ Len(rx) = 1 /\ rx[1].what = "BODY" /\ prompt
             /\ rx[1].id[1] = n => /\ Sending /\ fate = "confirm" /\ taken < Parts(call)
                                   /\ taken < written
    <2>1. /\ prompt' = FALSE /\ blunders' = blunders
          /\ taken' = taken \/ (w.id[1] = n /\ taken' = taken + 1)
      BY <1>4, <1>8 DEF ModemReads, ReadAtPrompt
    <2> QED BY <1>2, <1>4, <1>8, <2>1 DEF Leftover
  <1>9. CASE Len(rx) = 1 /\ rx[1].what \in Harmless /\ ~prompt /\ Fits(rx[1].what)
    <2>1. prompt' = prompt /\ taken' = taken /\ blunders' = blunders
      BY <1>4, <1>9 DEF ModemReads, Execute, Harmless, Fits, modemVars
    <2> QED BY <1>2, <1>4, <1>9, <2>1 DEF Leftover
  <1>10. CASE /\ Len(rx) = 2 /\ rx[1].what \in {"CMGS", "CMGS-PDU"} /\ rx[2].what = "ESC"
              /\ ~prompt /\ Fits(rx[1].what)
    <2>1. text = (w.what = "CMGS")
      BY <1>4, <1>6, <1>10 DEF Fits
    <2>2. taken' = taken /\ blunders' = blunders
      BY <1>4, <1>10, <2>1 DEF ModemReads, Execute, modemVars
    <2> QED BY <1>2, <1>5, <1>10, <2>2 DEF Leftover
  <1>11. CASE /\ Len(rx) = 2 /\ rx[1].what = "ESC" /\ rx[2].what \in Harmless
              /\ ~prompt /\ Fits(rx[2].what)
    <2>1. UNCHANGED <<text, prompt, taken, blunders>>
      BY <1>4, <1>11, EscapeRead
    <2> QED BY <1>2, <1>5, <1>11, <2>1 DEF Leftover, Fits
  <1> QED BY <1>2, <1>4, <1>7, <1>8, <1>9, <1>10, <1>11 DEF Leftover

LEMMA ReadsCourse ==
    ASSUME Shape, Course, ModemReads
    PROVE  Course'
  <1>1. /\ rx # <<>> /\ rx' = Tail(rx)
        /\ UNCHANGED <<open, active, call, n, pc, cmd, fate, quiet, written, lost>>
    BY DEF ModemReads, driverVars, histVars
  <1>2. UNCHANGED <<Label, AtPrompt, Restoring, Before, Sending, Parts(call)>>
    BY <1>1 DEF Label, AtPrompt, Restoring, Before, Sending
  <1>3. Placed
    BY InPlace DEF Shape
  <1>4. /\ Len(rx) \in Nat \ {0} /\ Len(rx') = Len(rx) - 1 /\ Head(rx) = rx[1]
        /\ \A i \in 1..Len(rx') : rx'[i] = rx[i + 1]
    BY <1>1, ReadFront DEF Shape, Ports
  <1>5. open /\ SendInv /\ ModeInv /\ (cmd => active /\ ~quiet)
    BY <1>4 DEF Course, ClosedInv
  <1>6. open' => (ClosedInv' <=> (cmd' => active' /\ open' /\ ~quiet' /\ Label' # "URC"))
    BY DEF ClosedInv
  <1>7. ClosedInv'
    BY <1>1, <1>2, <1>5, <1>6 DEF Course, ClosedInv
  <1>8. CASE quiet
    <2>1. /\ Leftover' /\ blunders' = {}
          /\ \/ taken' = taken
             \/ taken' = taken + 1 /\ Sending /\ fate = "confirm" /\ taken < Parts(call)
                /\ taken < written
      BY <1>8, LeftoverRead
    <2>2. active => pc = 1 \/ Restoring
      BY <1>8 DEF Course, QuietInv
    <2>3. DialogueInv' /\ QuietInv'
      BY <1>1, <1>2, <1>8, <2>1, <2>2 DEF DialogueInv, QuietInv
    <2>4. ModeInv'
      BY <1>1, <1>3, <2>2 DEF ModeInv, Placed, At
    <2>5. SendInv'
      <3>1. CASE taken' = taken
        BY <1>1, <1>2, <1>5, <3>1 DEF SendInv
      <3>2. CASE taken' # taken
        <4>1. /\ Sending /\ fate = "confirm" /\ taken < Parts(call) /\ taken < written
              /\ taken' = taken + 1
          BY <2>1, <3>2
        <4>2. ~active \/ Restoring
          BY <1>5, <4>1 DEF SendInv
        <4>3. written <= Parts(call) /\ written > 0
          BY <1>5, <4>1, <4>2 DEF SendInv
        <4>4. taken' <= written
          BY <4>1 DEF Shape, Counts
        <4> QED BY <1>1, <1>2, <4>1, <4>2, <4>3, <4>4 DEF SendInv
      <3> QED BY <3>1, <3>2
    <2> QED BY <1>7, <2>1, <2>3, <2>4, <2>5 DEF Course
  <1>9. CASE ~quiet /\ ~cmd
    <2>1. Between
      BY <1>9 DEF Course, DialogueInv
    <2>2. Len(rx) = 1 /\ Head(rx).what = "ESC" /\ ~prompt /\ Quiescent
      BY <1>4, <2>1 DEF Between, EscPending
    <2>3. UNCHANGED <<text, prompt, taken, tx, blunders>>
      BY <2>2, EscapeRead
    <2>4. Between'
      BY <1>1, <1>2, <1>4, <2>1, <2>2, <2>3 DEF Between, Quiescent
    <2>5. DialogueInv' /\ QuietInv'
      BY <1>1, <1>9, <2>4 DEF DialogueInv, QuietInv
    <2>6. ModeInv' /\ SendInv'
      BY <1>1, <1>2, <1>5, <2>3 DEF ModeInv, SendInv
    <2> QED BY <1>7, <2>3, <2>5, <2>6 DEF Course
  <1>10. CASE cmd
    <2>1. Unread
      BY <1>4, <1>5, <1>10 DEF Course, DialogueInv, Answered, Unanswered
    <2>2. CASE Len(rx) = 1
      <3>1. /\ DialogueInv' /\ blunders' = {} /\ ModeInv'
            /\ taken' = taken \/ (Label = "BODY" /\ taken = Before /\ taken' = Before + 1)
        BY <1>10, <2>2, CommandRead
      <3>2. QuietInv'
        BY <1>1, <1>5, <1>10 DEF QuietInv
      <3>3. SendInv'
        <4>1. CASE taken' = taken
          BY <1>1, <1>2, <1>5, <4>1 DEF SendInv
        <4>2. CASE taken' # taken
          <5>1. Label = "BODY" /\ taken = Before /\ taken' = Before + 1
            BY <3>1, <4>2
          <5>2. Sending /\ ~Restoring
            BY <1>3, <5>1 DEF Placed, At, Sending
          <5> QED BY <1>1, <1>2, <1>5, <1>10, <5>1, <5>2 DEF SendInv
        <4> QED BY <4>1, <4>2
      <3> QED BY <1>7, <3>1, <3>2, <3>3 DEF Course
    <2>3. CASE Len(rx) = 2 /\ EscPending
      <3>1. Head(rx).what = "ESC" /\ ~prompt
        BY <1>4, <2>3 DEF EscPending
      <3>2. UNCHANGED <<text, prompt, taken, tx, blunders>>
        BY <3>1, EscapeRead
      <3>3. Len(rx') = 1 /\ rx'[1] = rx[2]
        BY <1>4, <2>3
      <3>4. Unread'
        BY <1>1, <1>2, <2>1, <2>3, <3>2, <3>3 DEF Unread, Quiescent
      <3>5. DialogueInv' /\ QuietInv'
        BY <1>1, <1>5, <1>10, <3>4 DEF DialogueInv, QuietInv
      <3>6. ModeInv' /\ SendInv'
        BY <1>1, <1>2, <1>5, <3>2 DEF ModeInv, SendInv
      <3>7. blunders' = {}
        BY <3>2 DEF Course
      <3> QED BY <1>7, <3>5, <3>6, <3>7 DEF Course
    <2> QED BY <2>1, <2>2, <2>3 DEF Unread
  <1> QED BY <1>8, <1>9, <1>10

-----------------------------------------------------------------------------
\* The theorems.

\* What a closed port left a modem that CloseCancels: no open prompt.
LEMMA InitCourse == CloseCancels /\ Init => SerialInv
  <1> SUFFICES ASSUME CloseCancels, Init PROVE SerialInv
    OBVIOUS
  <1> USE SerialAssumption
  <1>0. prompt = FALSE
    BY DEF Init, AfterClose
  <1>1. Modes
    <2>1. text \in BOOLEAN /\ call = "init" /\ pc = 1 /\ fate = "ok"
      BY DEF Init
    <2>2. /\ open \in BOOLEAN /\ active \in BOOLEAN /\ cmd \in BOOLEAN /\ quiet \in BOOLEAN
          /\ prompt \in BOOLEAN /\ lost \in BOOLEAN /\ heard \in BOOLEAN
      BY <1>0 DEF Init
    <2> QED BY <2>1, <2>2 DEF Modes
  <1>2. InScript
    <2>1. Len(Script("init")) >= 1
      BY NotEmpty DEF AllKinds
    <2> QED BY <2>1 DEF Init, InScript
  <1>3. Counts
    BY DEF Init, Counts
  <1>4. Ports
    BY EmptySeq DEF Init, Ports
  <1>5. Len(rx) = 0 /\ Len(tx) = 0 /\ ~Sending
    BY DEF Init, Sending, Parts
  <1>6. Course
    BY <1>0, <1>5 DEF Init, Course, ClosedInv, DialogueInv, QuietInv, ModeInv, SendInv,
                Between, Quiescent
  <1> QED BY <1>1, <1>2, <1>3, <1>4, <1>6 DEF SerialInv, Shape

\* The invariant implies the type invariant: what is in the port is a command
\* and an ESC at most.
LEMMA SerialTypes == SerialInv => TypeOK
  <1> SUFFICES ASSUME SerialInv PROVE TypeOK
    OBVIOUS
  <1>1. Modes /\ Counts /\ Ports /\ InScript
    BY DEF SerialInv, Shape
  <1>2. /\ due \in 0..closes + 1 /\ n \in 0..MaxCalls + MaxCloses + 1
    BY <1>1, SerialAssumption DEF Counts
  <1>3. Len(rx) <= 2
    <2> DEFINE Few == Len(rx) = 0 \/ Len(rx) = 1 \/ Len(rx) = 2
    <2>1. quiet => Few
      BY DEF SerialInv, Course, QuietInv, Leftover
    <2>2. ~quiet /\ cmd => Few
      BY DEF SerialInv, Course, DialogueInv, Unread, Answered, Unanswered
    <2>3. ~quiet /\ ~cmd => Few
      BY DEF SerialInv, Course, DialogueInv, Between
    <2>4. Len(rx) \in Nat
      BY <1>1, LenProperties DEF Ports
    <2>5. Few
      BY <2>1, <2>2, <2>3
    <2>6. \A l \in Nat : l = 0 \/ l = 1 \/ l = 2 => l <= 2
      OBVIOUS
    <2> QED BY <2>4, <2>5, <2>6
  <1>4. \A i \in DOMAIN rx : rx[i] \in [id : (1..n) \X (1..6), what : Commands \union {"ESC"}]
    <2> TAKE i \in DOMAIN rx
    <2>1. i \in 1..Len(rx) /\ rx \in Seq(Written)
      BY <1>1 DEF Ports
    <2>2. rx[i] \in Written
      BY <2>1, ElementOfSeq
    <2> QED BY <2>2 DEF Written
  <1>5. \A i \in DOMAIN tx : tx[i] \in Lines
    <2> TAKE i \in DOMAIN tx
    <2>1. i \in 1..Len(tx) /\ tx \in Seq(Lines)
      BY <1>1 DEF Ports
    <2> QED BY <2>1, ElementOfSeq
  <1>6. written \in 0..2 /\ taken \in 0..2
    <2>1. SendInv /\ written \in Nat /\ taken \in Nat
      BY DEF SerialInv, Course, Shape, Counts
    <2>2. Before \in {0, 1} /\ Parts(call) \in {0, 1, 2}
      BY DEF Before, Parts
    <2>3. taken <= 2 /\ written <= 2
      BY <2>1, <2>2 DEF SendInv
    <2> QED BY <2>1, <2>3
  <1>7. blunders = {}
    BY DEF SerialInv, Course
  <1> QED BY <1>1, <1>2, <1>3, <1>4, <1>5, <1>6, <1>7 DEF TypeOK, Modes, Counts, Ports, Lines

LEMMA SerialStep ==
    DrainsInQuiet /\ CloseCancels /\ SerialInv /\ [Next]_vars => SerialInv'
  <1> SUFFICES ASSUME DrainsInQuiet, CloseCancels, SerialInv, [Next]_vars PROVE SerialInv'
    OBVIOUS
  <1>1. Shape /\ Course
    BY DEF SerialInv
  <1>2. Shape'
    BY <1>1, ModesStep, CountsStep, PortsStep DEF Shape, Course
  <1> SUFFICES Course'
    BY <1>2 DEF SerialInv
  <1>3. ASSUME NEW k, Start(k) PROVE Course'
    BY <1>1, <1>2, <1>3, StartCourse
  <1>4. CASE Write
    BY <1>1, <1>2, <1>4, WriteCourse
  <1>5. CASE UssdReturns
    BY <1>1, <1>2, <1>5, UssdCourse
  <1>6. CASE Deliver
    BY <1>1, <1>2, <1>6, DeliverCourse
  <1>7. CASE Timeout
    BY <1>1, <1>2, <1>7, TimeoutCourse
  <1>8. CASE QuietEnds
    BY <1>1, <1>8, QuietEndsCourse
  <1>9. CASE Close
    BY <1>1, <1>2, <1>9, CloseCourse
  <1>10. CASE Reopen
    <2>1. /\ open' /\ UNCHANGED <<active, call, n, pc, cmd, fate, quiet, rx, tx, text, prompt,
                                  taken, written, lost, blunders>>
      BY <1>10 DEF Reopen, driverVars, modemVars, histVars
    <2>2. open \/ Len(rx) = 0
      BY <1>1 DEF Course, ClosedInv
    <2> QED BY <1>1, <2>1, <2>2, IdleCourse
  <1>11. ASSUME NEW i \in DOMAIN waiters, WaiterTimeout(i) PROVE Course'
    <2>1. UNCHANGED <<open, active, call, n, pc, cmd, fate, quiet, rx, tx, text, prompt,
                      sessions, taken, written, lost, blunders>>
      BY <1>11 DEF WaiterTimeout, modemVars, histVars
    <2> QED BY <1>1, <2>1, IdleCourse
  <1>12. CASE ModemReads
    BY <1>1, <1>12, ReadsCourse
  <1>13. ASSUME NEW s \in sessions, NetworkReplies(s) PROVE Course'
    BY <1>1, <1>13, ReplyCourse
  <1>14. CASE UNCHANGED vars
    <2>1. UNCHANGED <<open, active, call, n, pc, cmd, fate, quiet, rx, tx, text, prompt,
                      sessions, taken, written, lost, blunders>>
      BY <1>14 DEF vars, driverVars, modemVars, histVars
    <2> QED BY <1>1, <2>1, IdleCourse
  <1> QED BY <1>3, <1>4, <1>5, <1>6, <1>7, <1>8, <1>9, <1>10, <1>11, <1>12, <1>13, <1>14
          DEF Next, StartCall, StartInit

\* The dialogue stays in step.  It does if what a timed-out command left behind
\* is drained in the two quiet seconds (modem.js:178-181) and a port that closes
\* leaves no prompt open.
THEOREM SerialInvariance ==
    ASSUME DrainsInQuiet, CloseCancels
    PROVE  Spec => []SerialInv
  BY InitCourse, SerialStep, PTL DEF Spec

\* A command is settled by its own reply (modem.js:178-181).
THEOREM RepliesAreOwn ==
    ASSUME DrainsInQuiet, CloseCancels
    PROVE  Spec => []OwnReply
  <1>1. SerialInv => OwnReply
    BY DEF SerialInv, Course, OwnReply
  <1> QED BY <1>1, SerialInvariance, PTL

\* Messages are sent and listed in the mode they are written for, whatever
\* became of the restore after an earlier long message (modem.js:291-301).
THEOREM ModesAreSet ==
    ASSUME DrainsInQuiet, CloseCancels
    PROVE  Spec => []ModeMatches
  <1>1. SerialInv => ModeMatches
    BY DEF SerialInv, Course, ModeMatches
  <1> QED BY <1>1, SerialInvariance, PTL

-----------------------------------------------------------------------------
\* The prompt, whatever comes late.

Opens(w) == w.what \in {"CMGS", "CMGS-PDU"}
Ends(w) == w.what \in {"BODY", "ESC"}

\* What the driver writes next is a body or an ESC: it waits for a prompt, or
\* was just given one.
Awaiting == active /\ IF cmd THEN AtPrompt ELSE Label = "BODY"

\* Behind a command that opens a prompt, and before anything else when it is
\* open, comes what ends it.
PromptInv ==
    /\ \A i \in 1..Len(rx) :
          Opens(rx[i]) => IF i < Len(rx) THEN Ends(rx[i + 1]) ELSE Awaiting
    /\ prompt => IF Len(rx) = 0 THEN Awaiting ELSE Ends(rx[1])
    /\ "swallowed" \notin blunders

LEMMA PromptKept ==
    ASSUME PromptInv, UNCHANGED <<rx, prompt>>, Awaiting => Awaiting',
           "swallowed" \notin blunders'
    PROVE  PromptInv'
  BY DEF PromptInv

LEMMA PromptEnded ==
    ASSUME PromptInv, Ports, NEW w, rx' = Append(rx, w), Ends(w), prompt' = prompt,
           "swallowed" \notin blunders'
    PROVE  PromptInv'
  <1>1. /\ Len(rx) \in Nat /\ Len(rx') = Len(rx) + 1 /\ rx'[Len(rx) + 1] = w
        /\ \A i \in 1..Len(rx) : rx'[i] = rx[i]
    BY AppendProperties, LenProperties DEF Ports
  <1>2. ~Opens(w)
    BY DEF Ends, Opens
  <1>3. ASSUME NEW i \in 1..Len(rx'), Opens(rx'[i])
        PROVE  i < Len(rx') /\ Ends(rx'[i + 1])
    <2>1. i \in 1..Len(rx) /\ rx'[i] = rx[i]
      BY <1>1, <1>2, <1>3
    <2>2. CASE i = Len(rx)
      BY <1>1, <2>2
    <2>3. CASE i < Len(rx)
      BY <1>1, <1>3, <2>1, <2>3 DEF PromptInv
    <2> QED BY <1>1, <2>1, <2>2, <2>3
  <1>4. prompt' => Ends(rx'[1])
    BY <1>1 DEF PromptInv
  <1> QED BY <1>1, <1>3, <1>4 DEF PromptInv

LEMMA PromptOpened ==
    ASSUME PromptInv, Ports, ~Awaiting, NEW w, rx' = Append(rx, w),
           Opens(w) => Awaiting', UNCHANGED <<prompt, blunders>>
    PROVE  PromptInv'
  <1>1. /\ Len(rx) \in Nat /\ Len(rx') = Len(rx) + 1 /\ rx'[Len(rx) + 1] = w
        /\ \A i \in 1..Len(rx) : rx'[i] = rx[i]
    BY AppendProperties, LenProperties DEF Ports
  <1>2. ASSUME NEW i \in 1..Len(rx'), Opens(rx'[i])
        PROVE  IF i < Len(rx') THEN Ends(rx'[i + 1]) ELSE Awaiting'
    <2>1. CASE i = Len(rx) + 1
      BY <1>1, <1>2, <2>1
    <2>2. CASE i # Len(rx) + 1
      <3>1. i \in 1..Len(rx) /\ rx'[i] = rx[i]
        BY <1>1, <2>2
      <3>2. i < Len(rx) /\ Ends(rx[i + 1])
        BY <1>1, <1>2, <3>1 DEF PromptInv
      <3> QED BY <1>1, <3>1, <3>2
    <2> QED BY <2>1, <2>2
  <1>3. prompt' => Ends(rx'[1])
    BY <1>1 DEF PromptInv
  <1> QED BY <1>1, <1>2, <1>3 DEF PromptInv

\* A step that fails ends its prompt, one that is settled goes on to the body.
LEMMA PromptThrown ==
    ASSUME Modes, InScript, Ports, PromptInv, cmd, rx' = Escaped(rx), prompt' = prompt,
           "swallowed" \notin blunders'
    PROVE  PromptInv'
  <1>1. CASE AtPrompt
    BY <1>1, PromptEnded DEF Escaped, Ends
  <1>2. CASE ~AtPrompt
    BY <1>2, PromptKept DEF Escaped, Awaiting
  <1> QED BY <1>1, <1>2

LEMMA PromptSettled ==
    ASSUME Modes, InScript, [Next]_vars, PromptInv, cmd, Proceed, UNCHANGED <<rx, prompt>>,
           "swallowed" \notin blunders'
    PROVE  PromptInv'
  <1>1. CASE Awaiting
    <2>1. AtPrompt /\ ~Final(call, pc) /\ active
      BY <1>1, InPlace DEF Awaiting, Placed, At, Final, AtPrompt
    <2>2. cmd' = FALSE /\ call' = call /\ pc' = pc + 1 /\ active'
      BY <2>1, ProceedShape
    <2>3. Label' = "BODY"
      BY <2>1, <2>2, InPlace, InPlaceNext, ModesStep DEF Placed, At, AtPrompt
    <2> QED BY <2>2, <2>3, PromptKept DEF Awaiting
  <1>2. CASE ~Awaiting
    BY <1>2, PromptKept
  <1> QED BY <1>1, <1>2

LEMMA PromptRead ==
    ASSUME Ports, PromptInv, ModemReads
    PROVE  PromptInv'
  <1>1. /\ rx # <<>> /\ rx' = Tail(rx) /\ UNCHANGED <<active, cmd, call, pc>>
        /\ IF prompt THEN ReadAtPrompt(Head(rx)) ELSE Execute(Head(rx))
    BY DEF ModemReads, driverVars
  <1>2. /\ Len(rx) \in Nat \ {0} /\ Len(rx') = Len(rx) - 1 /\ Head(rx) = rx[1]
        /\ \A i \in 1..Len(rx') : rx'[i] = rx[i + 1]
    BY <1>1, ReadFront DEF Ports
  <1>3. Awaiting' = Awaiting
    BY <1>1 DEF Awaiting, AtPrompt, Label
  <1>4. prompt' => Opens(rx[1])
    <2>1. CASE prompt
      BY <1>1, <1>2, <2>1 DEF ReadAtPrompt, PromptInv, Ends, Opens
    <2>2. CASE ~prompt
      BY <1>1, <1>2, <2>2 DEF Execute, Opens, modemVars
    <2> QED BY <2>1, <2>2
  <1>5. "swallowed" \notin blunders'
    <2>1. CASE prompt
      BY <1>1, <1>2, <2>1 DEF ReadAtPrompt, PromptInv, Ends
    <2>2. CASE ~prompt
      BY <1>1, <1>2, <2>2 DEF Execute, Blunder, PromptInv
    <2> QED BY <2>1, <2>2
  <1>6. ASSUME NEW i \in 1..Len(rx'), Opens(rx'[i])
        PROVE  IF i < Len(rx') THEN Ends(rx'[i + 1]) ELSE Awaiting'
    <2>1. i + 1 \in 1..Len(rx) /\ Opens(rx[i + 1])
      BY <1>2, <1>6
    <2>2. IF i + 1 < Len(rx) THEN Ends(rx[i + 2]) ELSE Awaiting
      BY <2>1 DEF PromptInv
    <2>3. i < Len(rx') => i + 1 < Len(rx) /\ rx'[i + 1] = rx[i + 2]
      BY <1>2
    <2> QED BY <1>2, <1>3, <2>1, <2>2, <2>3
  <1>7. prompt' => IF Len(rx') = 0 THEN Awaiting' ELSE Ends(rx'[1])
    BY <1>2, <1>3, <1>4 DEF PromptInv
  <1> QED BY <1>5, <1>6, <1>7 DEF PromptInv

LEMMA PromptStep ==
    ASSUME CloseCancels, Shape, ClosedInv, PromptInv, [Next]_vars
    PROVE  PromptInv'
  <1> USE DEF Shape
  <1>0. "swallowed" \notin blunders
    BY DEF PromptInv
  <1>1. ASSUME NEW k, Start(k) PROVE PromptInv'
    BY <1>0, <1>1, PromptKept DEF Start, Awaiting
  <1>2. CASE Write
    <2>1. active /\ ~cmd /\ Label # "URC" /\ UNCHANGED <<prompt, blunders>>
      BY <1>2 DEF Write, modemVars
    <2>2. CASE open
      <3> DEFINE w == [id |-> <<n, pc>>, what |-> Label]
      <3>1. rx' = Append(rx, w) /\ cmd' = TRUE /\ UNCHANGED <<active, call, pc>>
        BY <1>2, <2>2 DEF Write
      <3>2. Label' = Label
        BY <3>1 DEF Label
      <3>3. CASE Label = "BODY"
        BY <1>0, <2>1, <3>1, <3>3, PromptEnded DEF Ends
      <3>4. CASE Label # "BODY"
        <4>1. ~Awaiting /\ (Opens(w) => Awaiting')
          BY <2>1, <3>1, <3>2, <3>4 DEF Awaiting, Opens, AtPrompt
        <4> QED BY <2>1, <3>1, <4>1, PromptOpened
      <3> QED BY <3>3, <3>4
    <2>3. CASE ~open
      <3>1. rx' = rx /\ Len(rx) = 0 /\ ~prompt
        BY <1>2, <2>3 DEF Write, ClosedInv
      <3> QED BY <1>0, <2>1, <3>1 DEF PromptInv
    <2> QED BY <2>2, <2>3
  <1>3. CASE UssdReturns
    <2>1. ~Awaiting /\ UNCHANGED <<rx, prompt, blunders>>
      BY <1>3 DEF UssdReturns, Continues, Awaiting, modemVars
    <2> QED BY <1>0, <2>1, PromptKept
  <1>4. CASE Deliver
    <2>1. prompt' = prompt /\ "swallowed" \notin blunders'
      BY <1>0, <1>4 DEF Deliver, modemVars
    <2>2. CASE UNCHANGED <<active, call, pc, cmd, rx>>
      <3>1. Awaiting' = Awaiting
        BY <2>2 DEF Awaiting, AtPrompt, Label
      <3> QED BY <2>1, <2>2, <3>1, PromptKept
    <2>3. CASE cmd /\ SettleBy(Head(tx).what)
      <3>1. rx' = Escaped(rx) \/ (Proceed /\ rx' = rx)
        BY <2>3 DEF SettleBy
      <3> QED BY <2>1, <2>3, <3>1, PromptThrown, PromptSettled
    <2> QED BY <1>4, <2>2, <2>3 DEF Deliver, driverVars
  <1>5. CASE Timeout
    <2>1. cmd /\ rx' = Escaped(rx) /\ UNCHANGED <<prompt, blunders>>
      BY <1>5 DEF Timeout, modemVars
    <2> QED BY <1>0, <2>1, PromptThrown
  <1>6. CASE Close
    <2>1. rx' = <<>> /\ prompt' = FALSE /\ blunders' = blunders
      BY <1>6 DEF Close, AfterClose
    <2>2. Len(rx') = 0
      BY <2>1, EmptySeq
    <2> QED BY <1>0, <2>1, <2>2 DEF PromptInv
  <1>7. CASE ModemReads
    BY <1>7, PromptRead
  <1>8. ASSUME UNCHANGED <<active, call, pc, cmd, rx, prompt, blunders>> PROVE PromptInv'
    <2>1. Awaiting' = Awaiting
      BY <1>8 DEF Awaiting, AtPrompt, Label
    <2> QED BY <1>0, <1>8, <2>1, PromptKept
  <1>9. CASE QuietEnds \/ Reopen \/ UNCHANGED vars
    BY <1>8, <1>9 DEF QuietEnds, Reopen, vars, driverVars, modemVars
  <1>10. ASSUME NEW i \in DOMAIN waiters, WaiterTimeout(i) PROVE PromptInv'
    BY <1>8, <1>10 DEF WaiterTimeout, modemVars
  <1>11. ASSUME NEW s \in sessions, NetworkReplies(s) PROVE PromptInv'
    BY <1>8, <1>11 DEF NetworkReplies, driverVars
  <1> QED BY <1>1, <1>2, <1>3, <1>4, <1>5, <1>6, <1>7, <1>9, <1>10, <1>11
          DEF Next, StartCall, StartInit

\* A closed port stays empty, and a command is under way at an open one.
LEMMA ClosedStep ==
    ASSUME CloseCancels, Shape, ClosedInv, [Next]_vars
    PROVE  ClosedInv'
  <1> USE DEF Shape
  <1>p. Modes' /\ InScript'
    BY ModesStep
  <1>1. ASSUME UNCHANGED <<active, call, pc, cmd, open, quiet, rx, tx, prompt, sessions>>
        PROVE  ClosedInv'
    <2>1. Label' = Label
      BY <1>1 DEF Label
    <2> QED BY <1>1, <2>1 DEF ClosedInv
  <1>2. ASSUME cmd' = FALSE, open, open' = open PROVE ClosedInv'
    BY <1>2 DEF ClosedInv
  <1>3. ASSUME NEW k, Start(k) PROVE ClosedInv'
    <2>1. ~cmd /\ UNCHANGED <<cmd, open, rx, tx, prompt, sessions>>
      BY <1>3 DEF Start, ClosedInv
    <2>2. cmd' = FALSE
      BY <2>1 DEF Modes
    <2> QED BY <2>1, <2>2 DEF ClosedInv
  <1>4. CASE Write
    <2>1. CASE open
      <3>1. /\ cmd' = TRUE /\ active /\ ~quiet /\ Label # "URC"
            /\ UNCHANGED <<open, quiet, active, call, pc>>
        BY <1>4, <2>1 DEF Write, MayWrite
      <3>2. Label' = Label
        BY <3>1 DEF Label
      <3> QED BY <2>1, <3>1, <3>2 DEF ClosedInv
    <2>2. CASE ~open
      <3>1. cmd' = FALSE /\ UNCHANGED <<open, rx, tx, prompt, sessions>>
        BY <1>4, <2>2 DEF Write, Throw, modemVars
      <3> QED BY <3>1 DEF ClosedInv
    <2> QED BY <2>1, <2>2
  <1>5. CASE UssdReturns
    <2>1. cmd' = FALSE /\ UNCHANGED <<open, rx, tx, prompt, sessions>>
      BY <1>5 DEF UssdReturns, Proceed, modemVars
    <2> QED BY <2>1 DEF ClosedInv
  <1>6. CASE Deliver
    <2>0. tx # <<>> /\ open' = open
      BY <1>6 DEF Deliver
    <2>1. open
      BY <2>0, NoneIsEmpty DEF ClosedInv, Ports
    <2>2. CASE UNCHANGED <<active, call, pc, cmd, quiet>>
      <3>1. Label' = Label
        BY <2>2 DEF Label
      <3> QED BY <2>0, <2>1, <2>2, <3>1 DEF ClosedInv
    <2>3. CASE SettleBy(Head(tx).what)
      <3>1. cmd' = FALSE
        BY <2>3 DEF SettleBy, Throw, Proceed
      <3> QED BY <1>2, <2>0, <2>1, <3>1
    <2> QED BY <1>6, <2>2, <2>3 DEF Deliver, driverVars
  <1>7. CASE Timeout
    <2>1. cmd' = FALSE /\ cmd /\ open' = open
      BY <1>7 DEF Timeout, Throw
    <2> QED BY <1>2, <2>1 DEF ClosedInv
  <1>8. CASE Close
    <2>1. rx' = <<>> /\ tx' = <<>> /\ prompt' = FALSE /\ sessions' = {} /\ open' = FALSE
      BY <1>8 DEF Close, AfterClose
    <2>2. cmd' = FALSE
      BY <1>8 DEF Close, Throw, Modes
    <2> QED BY <2>1, <2>2, EmptySeq DEF ClosedInv
  <1>9. CASE ModemReads
    <2>1. rx # <<>> /\ UNCHANGED <<open, active, call, pc, cmd, quiet>>
      BY <1>9 DEF ModemReads, driverVars
    <2>2. open
      BY <2>1, NoneIsEmpty DEF ClosedInv, Ports
    <2>3. Label' = Label
      BY <2>1 DEF Label
    <2> QED BY <2>1, <2>2, <2>3 DEF ClosedInv
  <1>10. CASE QuietEnds
    <2>1. /\ quiet /\ UNCHANGED <<open, cmd, rx, tx, prompt, sessions>>
      BY <1>10 DEF QuietEnds, driverVars, modemVars
    <2> QED BY <2>1 DEF ClosedInv
  <1>11. CASE Reopen
    <2>1. ~open /\ open' = TRUE /\ cmd' = cmd
      BY <1>11 DEF Reopen, driverVars
    <2> QED BY <2>1 DEF ClosedInv
  <1>12. ASSUME NEW i \in DOMAIN waiters, WaiterTimeout(i) PROVE ClosedInv'
    BY <1>1, <1>12 DEF WaiterTimeout, modemVars
  <1>13. ASSUME NEW s \in sessions, NetworkReplies(s) PROVE ClosedInv'
    <2>1. open /\ UNCHANGED <<open, active, call, pc, cmd, quiet>>
      BY <1>13 DEF NetworkReplies, ClosedInv, driverVars
    <2>2. Label' = Label
      BY <2>1 DEF Label
    <2> QED BY <2>1, <2>2 DEF ClosedInv
  <1>14. CASE UNCHANGED vars
    BY <1>1, <1>14 DEF vars, driverVars, modemVars
  <1> QED BY <1>3, <1>4, <1>5, <1>6, <1>7, <1>8, <1>9, <1>10, <1>11, <1>12, <1>13, <1>14
          DEF Next, StartCall, StartInit

\* The modem never takes a command for message text, however late its replies
\* come: what follows an AT+CMGS is the body or an ESC (modem.js:235-237), and a
\* modem that was at a prompt when its port closed is not any more.
THEOREM CommandsAreRead ==
    ASSUME CloseCancels
    PROVE  Spec => []NothingSwallowed
  <1> DEFINE Safe == Shape /\ ClosedInv /\ PromptInv
  <1>1. Init => Safe
    <2> SUFFICES ASSUME Init PROVE Safe
      OBVIOUS
    <2>1. Shape /\ ClosedInv
      BY InitCourse DEF SerialInv, Course
    <2> QED BY <2>1, EmptySeq DEF Init, AfterClose, PromptInv
  <1>2. Safe /\ [Next]_vars => Safe'
    BY ModesStep, CountsStep, PortsStep, ClosedStep, PromptStep DEF Shape
  <1>3. Safe => NothingSwallowed
    BY DEF PromptInv, NothingSwallowed
  <1> QED BY <1>1, <1>2, <1>3, PTL DEF Spec

-----------------------------------------------------------------------------
\* The serial driver keeps the driver contract.

\* A call that goes on leaves the contract as it is, or loses an answer; one
\* that ends returns a verdict that is true.
LEMMA CallStep ==
    ASSUME Modes', SendInv, SendInv', UNCHANGED <<call, taken, written>>, lost => lost',
           lost \in BOOLEAN, active \in BOOLEAN,
           active' => active, active \/ UNCHANGED <<fate, lost>>
    PROVE  [Driver!Next]_(Driver!contractVars)
  <1>1. Sending' = Sending /\ Parts(call') = Parts(call)
    BY DEF Sending
  <1>2. lost' \in BOOLEAN /\ active' \in BOOLEAN /\ fate' \in Driver!Verdicts
    BY DEF Modes, Driver!Verdicts
  <1>3. CASE ~Sending
    <2>1. lost' = lost
      BY <1>1, <1>2, <1>3 DEF SendInv
    <2> QED BY <1>1, <1>3, <2>1 DEF Driver!contractVars
  <1>4. CASE Sending /\ active /\ ~active'
    <2>1. /\ fate' = "ok" => taken = Parts(call)
          /\ fate' = "error" => taken # Parts(call) \/ lost'
          /\ fate' = "confirm" => written > 0
      <3>1. /\ fate' = "ok" => taken' = Parts(call')
            /\ fate' = "error" => taken' < Parts(call') \/ lost'
            /\ fate' = "confirm" => written' > 0
        BY <1>1, <1>4 DEF SendInv
      <3>2. Parts(call) \in {0, 1, 2}
        BY DEF Parts
      <3> QED BY <1>1, <3>1, <3>2
    <2>2. Driver!Return(fate')
      BY <1>1, <1>2, <1>4, <2>1 DEF Driver!Return
    <2> QED BY <1>2, <2>2 DEF Driver!Next
  <1>5. CASE Sending /\ active /\ active' /\ lost' # lost
    <2>1. lost' = TRUE /\ lost = FALSE
      BY <1>2, <1>5
    <2>2. Driver!LoseAnswer
      BY <1>1, <1>5, <2>1 DEF Driver!LoseAnswer
    <2> QED BY <2>2 DEF Driver!Next
  <1>6. CASE Sending /\ active' = active /\ lost' = lost /\ (active \/ fate' = fate)
    BY <1>1, <1>6 DEF Driver!contractVars
  <1> QED BY <1>2, <1>3, <1>4, <1>5, <1>6

\* The modem takes a body of a message that is being sent, or was not confirmed.
LEMMA TakenBy ==
    ASSUME Shape, Course, ModemReads
    PROVE  \/ taken' = taken
           \/ /\ taken' = taken + 1 /\ Sending /\ taken < Parts(call) /\ written > 0
              /\ active \/ fate = "confirm"
  <1>1. CASE quiet
    <2>1. \/ taken' = taken
          \/ taken' = taken + 1 /\ Sending /\ fate = "confirm" /\ taken < Parts(call)
             /\ taken < written
      BY <1>1, LeftoverRead
    <2>2. taken < written => written > 0
      BY DEF Shape, Counts
    <2> QED BY <2>1, <2>2
  <1>2. CASE ~prompt /\ Head(rx).what = "ESC"
    BY <1>2, EscapeRead
  <1>3. CASE ~quiet /\ cmd /\ Len(rx) = 1
    <2>1. taken' = taken \/ (Label = "BODY" /\ taken = Before /\ taken' = Before + 1)
      BY <1>3, CommandRead
    <2>2. ASSUME Label = "BODY", taken = Before, taken' = Before + 1
          PROVE  /\ taken' = taken + 1 /\ Sending /\ taken < Parts(call) /\ written > 0
                 /\ active
      <3>1. Placed
        BY InPlace DEF Shape
      <3>2. Sending /\ ~Restoring /\ Before < Parts(call) /\ Before \in Nat
        BY <2>2, <3>1 DEF Placed, At, Sending
      <3>3. active /\ SendInv
        BY <1>3 DEF Course, ClosedInv
      <3> QED BY <1>3, <2>2, <3>2, <3>3 DEF SendInv
    <2> QED BY <2>1, <2>2
  <1>4. rx # <<>> /\ rx \in Seq(Written)
    BY DEF ModemReads, Shape, Ports
  <1>5. Len(rx) # 0 /\ Head(rx) = rx[1]
    BY <1>4, RP!Tailed
  <1>6. ~quiet => (cmd /\ Len(rx) = 1) \/ (~prompt /\ Head(rx).what = "ESC")
    BY <1>5 DEF Course, DialogueInv, Unread, Answered, Unanswered, Between, EscPending
  <1> QED BY <1>1, <1>2, <1>3, <1>6

LEMMA DriverStep ==
    ASSUME SerialInv, SerialInv', [Next]_vars
    PROVE  [Driver!Next]_(Driver!contractVars)
  <1>1. Shape /\ Course /\ SendInv /\ SendInv' /\ Modes /\ Modes' /\ InScript
    BY DEF SerialInv, Shape, Course
  <1>2. lost \in BOOLEAN /\ active \in BOOLEAN /\ Placed
    BY <1>1, InPlace DEF Modes
  <1>3. ASSUME UNCHANGED <<call, taken, written>>, lost => lost', active' => active,
               active \/ UNCHANGED <<fate, lost>>
        PROVE  [Driver!Next]_(Driver!contractVars)
    BY <1>1, <1>2, <1>3, CallStep
  <1>4. ASSUME NEW k, Start(k) PROVE [Driver!Next]_(Driver!contractVars)
    <2>1. /\ ~active /\ active' = TRUE /\ written' = 0 /\ taken' = 0 /\ lost' = FALSE
      BY <1>4 DEF Start
    <2>2. Sending' \in BOOLEAN /\ (Sending' => Parts(call') # 0)
      BY DEF Sending, Parts
    <2>3. Driver!Begin
      BY <2>1, <2>2 DEF Driver!Begin
    <2> QED BY <2>3 DEF Driver!Next
  <1>5. CASE Write
    <2>1. UNCHANGED <<taken, lost, call>> /\ active
      BY <1>5 DEF Write, Throw, modemVars
    <2>2. CASE open /\ Label = "BODY"
      <3>1. written' = written + 1 /\ active' = active /\ fate' = fate
        BY <1>5, <2>2 DEF Write
      <3>2. Sending /\ Sending' = Sending /\ Parts(call') = Parts(call)
        BY <1>2, <2>1, <2>2 DEF Placed, At, Sending
      <3>3. written' > 0
        BY <1>1, <3>1 DEF Shape, Counts
      <3>4. Driver!Give
        BY <2>1, <3>1, <3>2, <3>3 DEF Driver!Give
      <3> QED BY <3>4 DEF Driver!Next
    <2>3. CASE ~(open /\ Label = "BODY")
      <3>1. written' = written /\ (active' => active)
        BY <1>5, <2>3 DEF Write, Throw
      <3> QED BY <1>3, <2>1, <3>1
    <2> QED BY <2>2, <2>3
  <1>6. CASE UssdReturns
    <2>1. active /\ UNCHANGED <<call, taken, written, lost>>
      BY <1>6 DEF UssdReturns, Continues, Proceed, modemVars, histVars
    <2> QED BY <1>3, <2>1
  <1>7. CASE Deliver
    <2>1. UNCHANGED <<call, taken, written, lost>> /\ (active' => active)
      BY <1>7 DEF Deliver, SettleBy, Proceed, Throw, modemVars, driverVars
    <2>2. active \/ fate' = fate
      <3>1. cmd => active
        BY <1>1 DEF Course, ClosedInv
      <3> QED BY <1>7, <3>1 DEF Deliver, driverVars
    <2> QED BY <1>3, <2>1, <2>2
  <1>8. CASE Timeout
    <2>1. UNCHANGED <<call, taken, written, lost>> /\ active
      BY <1>1, <1>8 DEF Timeout, Throw, modemVars, histVars, Course, ClosedInv
    <2> QED BY <1>3, <2>1
  <1>9. CASE Close
    <2>1. UNCHANGED <<call, taken, written>> /\ (lost => lost')
      BY <1>9 DEF Close, Throw
    <2>2. CASE cmd
      <3>1. active
        BY <1>1, <2>2 DEF Course, ClosedInv
      <3> QED BY <1>3, <2>1, <3>1
    <2>3. CASE ~cmd
      <3>1. UNCHANGED <<active, fate, lost>>
        BY <1>2, <1>9, <2>3 DEF Close
      <3> QED BY <1>3, <2>1, <3>1
    <2> QED BY <2>2, <2>3
  <1>10. CASE QuietEnds \/ Reopen
    <2>1. UNCHANGED <<active, call, fate, taken, written, lost>>
      BY <1>10 DEF QuietEnds, Reopen, driverVars, modemVars, histVars
    <2> QED BY <1>3, <2>1
  <1>11. ASSUME NEW i \in DOMAIN waiters, WaiterTimeout(i)
         PROVE  [Driver!Next]_(Driver!contractVars)
    <2>1. UNCHANGED <<active, call, fate, taken, written, lost>>
      BY <1>11 DEF WaiterTimeout, modemVars, histVars
    <2> QED BY <1>3, <2>1
  <1>12. CASE ModemReads
    <2>1. UNCHANGED <<active, call, fate, written, lost>>
      BY <1>12 DEF ModemReads, driverVars, histVars
    <2>2. CASE taken' = taken
      BY <1>3, <2>1, <2>2
    <2>3. CASE taken' # taken
      <3>1. /\ taken' = taken + 1 /\ Sending /\ taken < Parts(call) /\ written > 0
            /\ active \/ fate = "confirm"
        BY <1>1, <1>12, <2>3, TakenBy
      <3>2. Sending' = Sending /\ Parts(call') = Parts(call)
        BY <2>1 DEF Sending
      <3>3. taken # Parts(call) /\ taken \in Nat
        BY <1>1, <3>1 DEF Shape, Counts
      <3>4. CASE taken' = Parts(call)
        <4>1. Driver!Take
          BY <1>2, <2>1, <3>1, <3>2, <3>3, <3>4 DEF Driver!Take
        <4> QED BY <4>1 DEF Driver!Next
      <3>5. CASE taken' # Parts(call)
        BY <2>1, <3>1, <3>2, <3>3, <3>5 DEF Driver!contractVars
      <3> QED BY <3>4, <3>5
    <2> QED BY <2>2, <2>3
  <1>13. ASSUME NEW s \in sessions, NetworkReplies(s)
         PROVE  [Driver!Next]_(Driver!contractVars)
    <2>1. UNCHANGED <<active, call, fate, taken, written, lost>>
      BY <1>13 DEF NetworkReplies, driverVars, histVars
    <2> QED BY <1>3, <2>1
  <1>14. CASE UNCHANGED vars
    <2>1. UNCHANGED <<active, call, fate, taken, written, lost>>
      BY <1>14 DEF vars, driverVars, modemVars, histVars
    <2> QED BY <1>3, <2>1
  <1> QED BY <1>4, <1>5, <1>6, <1>7, <1>8, <1>9, <1>10, <1>11, <1>12, <1>13, <1>14
          DEF Next, StartCall, StartInit

\* A send over the serial port that resolves was taken by the modem, all of its
\* parts; one that rejects with a plain error was not, unless the port closed on
\* the confirmation; confirmTimeout is of a body the modem was given
\* (modem.js:240-252).
THEOREM SerialKeepsContract ==
    ASSUME DrainsInQuiet, CloseCancels
    PROVE  Spec => ImplementsDriver
  <1>1. Init => Driver!Init
    BY DEF Init, Driver!Init, Sending, Parts
  <1>2. SerialInv /\ SerialInv' /\ [Next]_vars => [Driver!Next]_(Driver!contractVars)
    BY DriverStep
  <1> QED BY <1>1, <1>2, SerialInvariance, PTL DEF Spec, ImplementsDriver, Driver!Spec

-----------------------------------------------------------------------------
\* The two drivers side by side.

\* Each model runs by itself: a step of one leaves the other as it is.
LEMMA Apart == DriversSpec => Spec /\ RP!Spec
  <1>1. DriversInit => Init /\ RP!Init
    <2>1. Remote!Init => RP!Init
      BY DEF Remote!Init, RP!Init
    <2> QED BY <2>1 DEF DriversInit
  <1>2. Remote!Next => RP!Next
    <2>1. \A k \in {"send", "ussd"} : Remote!Begin(k) => RP!Begin(k)
      BY DEF Remote!Begin, RP!Begin, Remote!Open, RP!Open, Remote!Goto, RP!Goto,
             Remote!NeedsLogin, RP!NeedsLogin, Remote!stickVars, RP!stickVars
    <2>2. Remote!Check => RP!Check
      BY DEF Remote!Check, RP!Check, Remote!End, RP!End, Remote!Open, RP!Open,
             Remote!Goto, RP!Goto, Remote!NeedsLogin, RP!NeedsLogin,
             Remote!stickVars, RP!stickVars
    <2>3. Remote!LoginAnswered => RP!LoginAnswered
      BY DEF Remote!LoginAnswered, RP!LoginAnswered, Remote!Goto, RP!Goto,
             Remote!Throw, RP!Throw, Remote!Open, RP!Open, Remote!End, RP!End,
             Remote!NeedsLogin, RP!NeedsLogin, Remote!stickVars, RP!stickVars,
             Remote!histVars, RP!histVars
    <2>4. Remote!CommandAnswered => RP!CommandAnswered
      BY DEF Remote!CommandAnswered, RP!CommandAnswered, Remote!Accepted,
             RP!Accepted, Remote!LogsInAgain, RP!LogsInAgain, Remote!Throw,
             RP!Throw, Remote!Open, RP!Open, Remote!End, RP!End, Remote!Goto,
             RP!Goto, Remote!NeedsLogin, RP!NeedsLogin, Remote!stickVars,
             RP!stickVars, Remote!histVars, RP!histVars
    <2>5. Remote!RequestFails => RP!RequestFails
      BY DEF Remote!RequestFails, RP!RequestFails, Remote!Requests, RP!Requests,
             Remote!Throw, RP!Throw, Remote!Open, RP!Open, Remote!End, RP!End,
             Remote!Goto, RP!Goto, Remote!NeedsLogin, RP!NeedsLogin,
             Remote!stickVars, RP!stickVars
    <2>6. Remote!PollStatus => RP!PollStatus
      BY DEF Remote!PollStatus, RP!PollStatus, Remote!End, RP!End,
             Remote!stickVars, RP!stickVars
    <2>7. Remote!PollFlag => RP!PollFlag
      BY DEF Remote!PollFlag, RP!PollFlag, Remote!FreshReply16, RP!FreshReply16,
             Remote!Goto, RP!Goto, Remote!callVars, RP!callVars,
             Remote!stickVars, RP!stickVars, Remote!histVars, RP!histVars
    <2>8. Remote!ReadData => RP!ReadData
      BY DEF Remote!ReadData, RP!ReadData, Remote!Goto, RP!Goto,
             Remote!callVars, RP!callVars, Remote!stickVars, RP!stickVars,
             Remote!histVars, RP!histVars
    <2>9. Remote!Deadline => RP!Deadline
      BY DEF Remote!Deadline, RP!Deadline, Remote!Expires, RP!Expires,
             Remote!DeadlineFate, RP!DeadlineFate, Remote!End, RP!End,
             Remote!stickVars, RP!stickVars, Remote!histVars, RP!histVars
    <2>10. Remote!HandleLogin => RP!HandleLogin
      BY DEF Remote!HandleLogin, RP!HandleLogin, Remote!Overtaken, RP!Overtaken,
             Remote!callVars, RP!callVars
    <2>11. Remote!HandleCommand => RP!HandleCommand
      BY DEF Remote!HandleCommand, RP!HandleCommand, Remote!NeedsLogin,
             RP!NeedsLogin, Remote!Execute, RP!Execute, Remote!Live, RP!Live,
             Remote!Overtaken, RP!Overtaken, Remote!callVars, RP!callVars
    <2>12. Remote!HandleIsms => RP!HandleIsms
      BY DEF Remote!HandleIsms, RP!HandleIsms, Remote!SendPart, RP!SendPart,
             Remote!Overtaken, RP!Overtaken, Remote!callVars, RP!callVars,
             Remote!stickVars, RP!stickVars
    <2>13. Remote!MessageSettles => RP!MessageSettles
      BY DEF Remote!MessageSettles, RP!MessageSettles, Remote!callVars,
             RP!callVars
    <2>14. Remote!NetworkReplies => RP!NetworkReplies
      BY DEF Remote!NetworkReplies, RP!NetworkReplies, Remote!callVars,
             RP!callVars, Remote!histVars, RP!histVars
    <2>15. Remote!SessionLapses => RP!SessionLapses
      BY DEF Remote!SessionLapses, RP!SessionLapses, Remote!NeedsLogin,
             RP!NeedsLogin, Remote!callVars, RP!callVars, Remote!histVars,
             RP!histVars
    <2>16. Remote!LateRequest => RP!LateRequest
      BY DEF Remote!LateRequest, RP!LateRequest, Remote!Execute, RP!Execute,
             Remote!Live, RP!Live, Remote!NeedsLogin, RP!NeedsLogin,
             Remote!SendPart, RP!SendPart, Remote!callVars, RP!callVars,
             Remote!stickVars, RP!stickVars
    <2> QED
      BY <2>1, <2>2, <2>3, <2>4, <2>5, <2>6, <2>7, <2>8,
         <2>9, <2>10, <2>11, <2>12, <2>13, <2>14, <2>15, <2>16
         DEF Remote!Next, RP!Next, Remote!DriverStep, RP!DriverStep, Remote!DeviceStep,
             RP!DeviceStep
  <1>3. UNCHANGED remoteVars => UNCHANGED RP!vars
    BY DEF remoteVars, RP!vars, RP!callVars, RP!stickVars, RP!histVars
  <1>4. [DriversNext]_<<watched, vars, remoteVars>> => [Next]_vars /\ [RP!Next]_(RP!vars)
    BY <1>2, <1>3 DEF DriversNext
  <1> QED BY <1>1, <1>4, PTL DEF DriversSpec, Spec, RP!Spec

LEMMA RemoteConstants == RP!ConstantsOK
  BY RemoteAssumption DEF RP!ConstantsOK, Remote!ConstantsOK

\* Every driver, whatever the modem answers, keeps its types.
THEOREM DriversAreTyped ==
    ASSUME DrainsInQuiet, CloseCancels, HandlesInOrder, StatusIsOwn, RejectMeansRefused
    PROVE  DriversSpec => []DriversTypeOK
  <1>1. RP!Spec => []RP!RemoteInv
    BY RemoteConstants, RP!RemoteInvariance
  <1>2. RP!RemoteInv => Remote!TypeOK
    BY DEF RP!RemoteInv, RP!TypeOK, Remote!TypeOK, RP!Requests, Remote!Requests,
           RP!Commands, Remote!Commands
  <1>3. SerialInv /\ Remote!TypeOK => DriversTypeOK
    BY SerialTypes DEF DriversTypeOK
  <1> QED BY <1>1, <1>2, <1>3, Apart, SerialInvariance, PTL

\* A USSD session on a stick returns its own reply, also across a restart
\* (zte-http.js:208-218).
THEOREM SessionsGetTheirOwn ==
    ASSUME HandlesInOrder
    PROVE  DriversSpec => []FreshReply
  <1>1. RP!Spec => []RP!FreshReply
    BY RemoteConstants, RP!RepliesAreFresh
  <1>2. RP!FreshReply => FreshReply
    BY DEF RP!FreshReply, FreshReply, Remote!FreshReply
  <1> QED BY <1>1, <1>2, Apart, PTL

\* A lapsed login session alone fails no call of a stick (zte-http.js:171-186).
THEOREM LapsesFailNoCall == DriversSpec => []ExpiryCured
  <1>1. RP!Spec => []RP!ExpiryCured
    BY RemoteConstants, RP!LapsesAreCured
  <1>2. RP!ExpiryCured => ExpiryCured
    BY DEF RP!ExpiryCured, ExpiryCured, Remote!ExpiryCured
  <1> QED BY <1>1, <1>2, Apart, PTL

\* Both models keep the driver contract side by side.
THEOREM DriversKeepContract ==
    ASSUME DrainsInQuiet, CloseCancels, HandlesInOrder, StatusIsOwn, RejectMeansRefused
    PROVE  DriversSpec => ImplementsDriver /\ RemoteImplementsDriver
  <1>1. RP!Spec => RP!ImplementsDriver
    BY RemoteConstants, RP!RemoteKeepsContract
  <1>2. RP!Driver!Init => Remote!Driver!Init
    BY DEF RP!Driver!Init, Remote!Driver!Init
  <1>3. [RP!Driver!Next]_(RP!Driver!contractVars)
          => [Remote!Driver!Next]_(Remote!Driver!contractVars)
    BY DEF RP!Driver!Next, RP!Driver!contractVars, Remote!Driver!Next,
           Remote!Driver!contractVars, RP!Driver!Begin, Remote!Driver!Begin,
           RP!Driver!Give, Remote!Driver!Give, RP!Driver!Take, Remote!Driver!Take,
           RP!Driver!LoseAnswer, Remote!Driver!LoseAnswer, RP!Driver!Return,
           Remote!Driver!Return, RP!Driver!Verdicts, Remote!Driver!Verdicts
  <1>4. RP!ImplementsDriver => RemoteImplementsDriver
    BY <1>2, <1>3, PTL
       DEF RP!ImplementsDriver, RemoteImplementsDriver, Remote!ImplementsDriver,
           RP!Driver!Spec, Remote!Driver!Spec
  <1> QED BY <1>1, <1>4, Apart, SerialKeepsContract, PTL

-----------------------------------------------------------------------------
\* What the worker builds on, whichever driver it calls.

VARIABLES anySending, anyGiven, anyTaken, anyBlind, anyVerdict

\* A driver of which only the contract is known.
Any == INSTANCE DriverContract
           WITH sending <- anySending, given <- anyGiven, taken <- anyTaken,
                blind <- anyBlind, verdict <- anyVerdict

\* A send has no verdict before it returns, and what was taken was given.
VerdictInv ==
    /\ Any!TypeOK /\ Any!VerdictTells
    /\ anySending => anyVerdict = "none"
    /\ anyTaken = 1 => anyGiven

\* A driver that keeps the contract tells by its verdict what became of the
\* text: a retry after `error` repeats a text the modem has only if the driver
\* was blind (bull.config.js:57-67).
THEOREM VerdictIsTrue == Any!Spec => [](Any!TypeOK /\ Any!VerdictTells)
  <1>1. Any!Init => VerdictInv
    <2>1. Any!Init => Any!TypeOK
      BY DEF Any!Init, Any!TypeOK, Any!Verdicts
    <2>2. Any!Init => /\ Any!VerdictTells
                      /\ anySending => anyVerdict = "none"
                      /\ anyTaken = 1 => anyGiven
      BY DEF Any!Init, Any!VerdictTells
    <2> QED BY <2>1, <2>2 DEF VerdictInv
  <1>2. VerdictInv /\ [Any!Next]_(Any!contractVars) => VerdictInv'
    <2> SUFFICES ASSUME VerdictInv, [Any!Next]_(Any!contractVars)
                 PROVE  VerdictInv'
      OBVIOUS
    <2> USE DEF VerdictInv, Any!TypeOK, Any!VerdictTells
    <2>1. CASE Any!Begin
      <3>1. Any!TypeOK'
        BY <2>1 DEF Any!Begin, Any!Verdicts
      <3>2. /\ Any!VerdictTells'
            /\ anySending' => anyVerdict' = "none"
            /\ anyTaken' = 1 => anyGiven'
        BY <2>1 DEF Any!Begin
      <3> QED BY <3>1, <3>2
    <2>2. CASE Any!Give
      BY <2>2 DEF Any!Give
    <2>3. CASE Any!Take
      BY <2>3 DEF Any!Take
    <2>4. CASE Any!LoseAnswer
      BY <2>4 DEF Any!LoseAnswer
    <2>5. ASSUME NEW v \in Any!Verdicts, Any!Return(v)
          PROVE  VerdictInv'
      BY <2>5 DEF Any!Return, Any!Verdicts
    <2>6. CASE UNCHANGED Any!contractVars
      BY <2>6 DEF Any!contractVars
    <2> QED BY <2>1, <2>2, <2>3, <2>4, <2>5, <2>6 DEF Any!Next
  <1>3. VerdictInv => Any!TypeOK /\ Any!VerdictTells
    BY DEF VerdictInv
  <1> QED BY <1>1, <1>2, <1>3, PTL DEF Any!Spec
=============================================================================

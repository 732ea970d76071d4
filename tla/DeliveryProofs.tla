--------------------------- MODULE DeliveryProofs ---------------------------
(***************************************************************************)
(* Theorems about SendPipeline for every set of messages, modems and       *)
(* slots, every fleet, every limit and any number of faults: its types,    *)
(* one send at a time per modem, no avoidable double send (DeliveryInv is  *)
(* inductive and implies it), and under that invariant every step is a     *)
(* step of DeliveryContract.                                               *)
(***************************************************************************)
EXTENDS SendPipelineInv, TLAPS

USE DEF rowVars, jobVars, slotVars, handlerVars

\* A head can be taken off a chain only when there is one.
LEMMA TailTyped ==
    ASSUME NEW S, NEW q \in Seq(S), q # <<>>
    PROVE  Tail(q) \in Seq(S)
  OBVIOUS

\* Changing one value of a function for a value of its range.
LEMMA ExceptTyped ==
    ASSUME NEW D, NEW R, NEW f \in [D -> R], NEW x, NEW e, x \in D => e \in R
    PROVE  [f EXCEPT ![x] = e] \in [D -> R]
  OBVIOUS

LEMMA AddTyped ==
    ASSUME NEW D, NEW f \in [D -> SUBSET Nat], NEW x, NEW i \in Nat
    PROVE  [f EXCEPT ![x] = @ \union {i}] \in [D -> SUBSET Nat]
  <1> DEFINE e == f[x] \union {i}
  <1>1. x \in D => e \in SUBSET Nat
    OBVIOUS
  <1> HIDE DEF e
  <1>2. [f EXCEPT ![x] = e] \in [D -> SUBSET Nat]
    BY <1>1, ExceptTyped
  <1> QED BY <1>2 DEF e

LEMMA FleetModems ==
    ASSUME HistoryType
    PROVE  fleet \subseteq Modems
  BY FleetsAssumption DEF HistoryType

LEMMA TypingInit == Init => TypeOK /\ HandedHolds
  BY DEF Init, TypeOK, HandedHolds, Terminal, RowType, JobType, SlotType, HandlerType,
         HistoryType

LEMMA FaultTyped ==
    ASSUME HistoryType, NEW k, Fault(k) \/ NoFault
    PROVE  faults' \in Seq(FaultKinds)
  <1>1. faults \in Seq(FaultKinds)
    BY DEF HistoryType
  <1>2. CASE Fault(k)
    <2>1. Append(faults, k) \in Seq(FaultKinds)
      BY <1>1, <1>2 DEF Fault
    <2> QED BY <1>2, <2>1 DEF Fault
  <1> QED BY <1>1, <1>2 DEF NoFault

LEMMA EnqueueTyped ==
    ASSUME RowType, HistoryType,
           NEW m, NEW st \in Terminal \union {"retrying"}, EnqueueWebhook(m, st)
    PROVE  /\ callbacks' \in [Msgs -> Seq(Terminal \union {"retrying"})]
           /\ faults' \in Seq(FaultKinds)
  <1>1. m \in Msgs => callbacks[m] \in Seq(Terminal \union {"retrying"})
    BY DEF RowType
  <1>2. m \in Msgs => Append(callbacks[m], st) \in Seq(Terminal \union {"retrying"})
    BY <1>1
  <1>3. [callbacks EXCEPT ![m] = Append(@, st)] \in [Msgs -> Seq(Terminal \union {"retrying"})]
    BY <1>2, ExceptTyped, Zenon DEF RowType
  <1>4. CASE callbacks' = [callbacks EXCEPT ![m] = Append(@, st)] /\ NoFault
    BY <1>3, <1>4, FaultTyped
  <1>5. CASE UNCHANGED callbacks /\ (Fault("redis") \/ NoFault)
    BY <1>5, FaultTyped DEF RowType
  <1> QED BY <1>4, <1>5 DEF EnqueueWebhook

LEMMA UpdateTyped ==
    ASSUME RowType, NEW m, NEW st \in Terminal \union {"pending", "retrying"},
           NEW d \in Modems \union {NoModem}, UpdateLog(m, st, d)
    PROVE  /\ status' \in [Msgs -> Terminal \union {"none", "pending", "retrying"}]
           /\ rowModem' \in [Msgs -> Modems \union {NoModem}]
  <1>1. m \in Msgs => rowModem[m] \in Modems \union {NoModem}
    BY DEF RowType
  <1> QED BY <1>1, ExceptTyped DEF RowType, UpdateLog

LEMMA TypingHttp ==
    ASSUME TypeOK, NEW m \in Msgs, HttpStep(m)
    PROVE  TypeOK'
  <1> USE DEF TypeOK
  <1>1. CASE PostSend(m)
    <2>1. RowType'
      BY <1>1, FleetModems, UpdateTyped DEF PostSend, RowType
    <2>2. JobType'
      BY <1>1, FleetModems DEF PostSend, JobType
    <2>3. SlotType' /\ HandlerType' /\ HistoryType'
      BY <1>1, FaultTyped DEF PostSend, SlotType, HandlerType, HistoryType
    <2> QED BY <2>1, <2>2, <2>3
  <1>2. CASE AddJob(m)
    <2>1. RowType'
      BY <1>2 DEF AddJob, RowType
    <2>2. JobType'
      BY <1>2 DEF AddJob, JobType
    <2>3. SlotType' /\ HandlerType' /\ HistoryType'
      BY <1>2, FaultTyped DEF AddJob, SlotType, HandlerType, HistoryType
    <2> QED BY <2>1, <2>2, <2>3
  <1>3. CASE RecordRefusal(m)
    <2>1. RowType'
      BY <1>3, UpdateTyped DEF RecordRefusal, RowType, Terminal
    <2>2. JobType' /\ SlotType' /\ HandlerType' /\ HistoryType'
      BY <1>3, FaultTyped DEF RecordRefusal, JobType, SlotType, HandlerType, HistoryType
    <2> QED BY <2>1, <2>2
  <1>4. CASE NotifyRefusal(m)
    <2>1. RowType' /\ faults' \in Seq(FaultKinds)
      BY <1>4, EnqueueTyped DEF NotifyRefusal, RowType, HistoryType, Terminal
    <2>2. JobType' /\ SlotType' /\ HandlerType' /\ HistoryType'
      BY <1>4, <2>1 DEF NotifyRefusal, JobType, SlotType, HandlerType, HistoryType
    <2> QED BY <2>1, <2>2
  <1> QED BY <1>1, <1>2, <1>3, <1>4 DEF HttpStep

LEMMA TypingTake ==
    ASSUME TypeOK, NEW s \in Slots, NEW m \in Msgs, TakeStep(s, m)
    PROVE  TypeOK'
  <1> USE DEF TypeOK
  <1>1. ASSUME NEW p \in {"waiting", "aborting"}, NEW d \in Modems \union {NoModem},
               Take(s, m, p, d), StartRun(s, m) \/ UNCHANGED <<runs, run>>
        PROVE  TypeOK'
    <2>1. RowType' /\ HandlerType'
      BY <1>1 DEF Take, RowType, HandlerType
    <2>2. JobType'
      BY <1>1 DEF Take, JobType
    <2>3. runs' \in [Msgs -> Nat] /\ run' \in [Slots -> Nat]
      <3>1. runs[m] \in Nat /\ runs[m] + 1 \in Nat
        BY DEF HistoryType
      <3>2. CASE StartRun(s, m)
        BY <3>1, <3>2, ExceptTyped DEF StartRun, HistoryType, SlotType
      <3>3. CASE UNCHANGED <<runs, run>>
        BY <3>3 DEF HistoryType, SlotType
      <3> QED BY <1>1, <3>2, <3>3
    <2>4. SlotType'
      BY <1>1, <2>3 DEF Take, SlotType
    <2>5. HistoryType'
      BY <1>1, <2>3 DEF Take, HistoryType
    <2> QED BY <2>1, <2>2, <2>4, <2>5
  <1> QED BY <1>1, FleetModems DEF TakeStep, TakeJob, TakeUnknownModem, TakeDeferred

\* Chains stay chains when a call joins, and when the one that holds the modem
\* leaves.
LEMMA ReleaseTyped ==
    ASSUME SlotType, NEW s \in Slots, HoldsModem(s), ReleaseModem(s)
    PROVE  chain' \in [Modems -> Seq(Slots)]
  <1>1. chain[on[s]] \in Seq(Slots) /\ chain[on[s]] # <<>>
    BY DEF SlotType, HoldsModem
  <1>2. Tail(chain[on[s]]) \in Seq(Slots)
    BY <1>1, TailTyped
  <1> QED BY <1>2, ExceptTyped, Zenon DEF SlotType, ReleaseModem

LEMMA TypingSend ==
    ASSUME TypeOK, HandedHolds, NEW s \in Slots, SendStep(s)
    PROVE  TypeOK'
  <1> USE DEF TypeOK
  <1>1. CASE JoinChain(s)
    <2>1. chain' \in [Modems -> Seq(Slots)]
      <3>1. CASE on[s] \in Modems
        <4>1. Append(chain[on[s]], s) \in Seq(Slots)
          BY <3>1 DEF SlotType
        <4> QED BY <1>1, <4>1, ExceptTyped, Zenon DEF JoinChain, SlotType
      <3>2. CASE on[s] \notin Modems
        BY <1>1, <3>2 DEF JoinChain, SlotType
      <3> QED BY <3>1, <3>2
    <2>2. SlotType'
      BY <1>1, <2>1 DEF JoinChain, Goto, SlotType
    <2>3. HistoryType'
      BY <1>1 DEF JoinChain, HistoryType, SlotType
    <2>4. RowType' /\ JobType' /\ HandlerType'
      BY <1>1 DEF JoinChain, RowType, JobType, HandlerType
    <2> QED BY <2>2, <2>3, <2>4
  <1>2. CASE HandOver(s)
    <2>1. SlotType'
      BY <1>2 DEF HandOver, Goto, SlotType
    <2>2. copies' \in [Msgs -> SUBSET Nat]
      <3>1. run[s] \in Nat
        BY DEF SlotType
      <3> QED BY <1>2, <3>1, AddTyped, Zenon DEF HandOver, HistoryType
    <2>4. HistoryType'
      BY <1>2, <2>2 DEF HandOver, HistoryType
    <2>3. RowType' /\ JobType' /\ HandlerType'
      BY <1>2 DEF HandOver, RowType, JobType, HandlerType
    <2> QED BY <2>1, <2>3, <2>4
  <1>3. CASE FailsEarly(s) \/ ModemRefuses(s) \/ AnswerLost(s)
    <2>1. HoldsModem(s) /\ SendFails(s)
      BY <1>3 DEF FailsEarly, ModemRefuses, AnswerLost, HandedHolds
    <2>2. SlotType'
      BY <2>1, ReleaseTyped DEF SendFails, Goto, SlotType
    <2>3. RowType' /\ JobType' /\ HandlerType'
      BY <2>1 DEF SendFails, RowType, JobType, HandlerType
    <2>4. copies' \in [Msgs -> SUBSET Nat] /\ excused' \in [Msgs -> SUBSET Nat]
      <3>1. run[s] \in Nat /\ (serves[s] \in Msgs => copies[serves[s]] \ {run[s]} \in SUBSET Nat)
        BY DEF HistoryType, SlotType
      <3>2. CASE FailsEarly(s)
        BY <3>2 DEF FailsEarly, HistoryType
      <3>3. CASE ModemRefuses(s)
        <4>1. [copies EXCEPT ![serves[s]] = @ \ {run[s]}] \in [Msgs -> SUBSET Nat]
          BY <3>1, ExceptTyped, Zenon DEF HistoryType
        <4> QED BY <3>3, <4>1 DEF ModemRefuses, HistoryType
      <3>4. CASE AnswerLost(s)
        BY <3>1, <3>4, AddTyped, Zenon DEF AnswerLost, HistoryType
      <3> QED BY <1>3, <3>2, <3>3, <3>4
    <2>5. HistoryType'
      BY <2>1, <2>4 DEF SendFails, HistoryType
    <2> QED BY <2>2, <2>3, <2>5
  <1>4. CASE ConfirmTimesOut(s)
    <2>1. SlotType'
      BY <1>4, ReleaseTyped DEF ConfirmTimesOut, HandedHolds, Goto, SlotType
    <2>2. RowType' /\ JobType' /\ HandlerType' /\ HistoryType'
      BY <1>4 DEF ConfirmTimesOut, RowType, JobType, HandlerType, HistoryType
    <2> QED BY <2>1, <2>2
  <1>5. CASE Confirmed(s)
    <2>1. SlotType'
      BY <1>5, ReleaseTyped DEF Confirmed, HandedHolds, Goto, SlotType
    <2>2. RowType'
      BY <1>5, UpdateTyped DEF Confirmed, RowType, SlotType, Terminal
    <2>3. JobType' /\ HandlerType' /\ HistoryType'
      BY <1>5, FaultTyped DEF Confirmed, JobType, HandlerType, HistoryType
    <2> QED BY <2>1, <2>2, <2>3
  <1>6. CASE NotifySent(s)
    <2>1. SlotType'
      BY <1>6 DEF NotifySent, Goto, SlotType
    <2>2. RowType' /\ faults' \in Seq(FaultKinds)
      BY <1>6, EnqueueTyped DEF NotifySent, RowType, SlotType, HistoryType, Terminal
    <2>3. JobType' /\ HandlerType' /\ HistoryType'
      BY <1>6, <2>2 DEF NotifySent, JobType, HandlerType, HistoryType
    <2> QED BY <2>1, <2>2, <2>3
  <1>7. CASE Complete(s) \/ DropResult(s)
    <2>1. Idle(s) /\ UNCHANGED chain
      BY <1>7 DEF Complete, DropResult
    <2>4. SlotType'
      BY <2>1 DEF Idle, SlotType
    <2>2. JobType'
      BY <1>7 DEF Complete, DropResult, JobType
    <2>3. RowType' /\ HandlerType' /\ HistoryType'
      BY <1>7 DEF Complete, DropResult, RowType, HandlerType, HistoryType
    <2> QED BY <2>2, <2>3, <2>4
  <1>8. CASE MoveToFailed(s)
    <2>1. SlotType'
      BY <1>8 DEF MoveToFailed, Idle, SlotType
    <2>2. JobType'
      <3>1. serves[s] \in Msgs => made[serves[s]] + 1 \in Nat
        BY DEF JobType
      <3>2. made' \in [Msgs -> Nat]
        BY <1>8, <3>1, ExceptTyped DEF MoveToFailed, JobType
      <3>3. job' \in [Msgs -> {"none", "wait", "active", "delayed", "completed", "failed"}]
        BY <1>8, ExceptTyped DEF MoveToFailed, JobType
      <3>4. pin' = pin /\ stalls' = stalls /\ owner' \in [Msgs -> Slots \union {NoSlot}]
        BY <1>8, ExceptTyped DEF MoveToFailed, JobType
      <3> QED BY <3>2, <3>3, <3>4 DEF JobType
    <2>3. HandlerType'
      BY <1>8 DEF MoveToFailed, HandlerType, SlotType, ErrorModem
    <2>4. RowType' /\ HistoryType'
      BY <1>8 DEF MoveToFailed, RowType, HistoryType
    <2> QED BY <2>1, <2>2, <2>3, <2>4
  <1> QED BY <1>1, <1>2, <1>3, <1>4, <1>5, <1>6, <1>7, <1>8 DEF SendStep

LEMMA FailureStatusTyped ==
    ASSUME NEW m \in Msgs
    PROVE  /\ FailureStatus(m) \in Terminal \union {"retrying"}
           /\ AfterNotify(m) \in {"none", "balance"}
  BY DEF FailureStatus, AfterNotify, Terminal

LEMMA LeaveTyped ==
    ASSUME HandlerType, NEW m \in Msgs, NEW h \in {"none", "notify", "balance"}, Leave(m, h)
    PROVE  /\ hStage' \in [Msgs -> {"none", "update", "notify", "balance"}]
           /\ verdict' \in [Msgs -> {"none", "plain", "unrecoverable"}]
           /\ hModem' \in [Msgs -> Modems \union {NoModem}]
  BY DEF Leave, HandlerType

LEMMA TypingHandler ==
    ASSUME TypeOK, NEW m \in Msgs, HandlerStep(m)
    PROVE  TypeOK'
  <1> USE FailureStatusTyped, LeaveTyped DEF TypeOK
  <1>1. CASE HandlerUpdate(m)
    <2>1. RowType'
      BY <1>1, UpdateTyped DEF HandlerUpdate, RowType, HandlerType
    <2>2. HandlerType'
      BY <1>1 DEF HandlerUpdate, HandlerType
    <2>3. JobType' /\ SlotType' /\ HistoryType'
      BY <1>1, FaultTyped DEF HandlerUpdate, JobType, SlotType, HistoryType
    <2> QED BY <2>1, <2>2, <2>3
  <1>2. CASE HandlerNotify(m)
    <2>1. RowType' /\ faults' \in Seq(FaultKinds)
      BY <1>2, EnqueueTyped DEF HandlerNotify, RowType, HistoryType
    <2>2. HandlerType'
      BY <1>2 DEF HandlerNotify, HandlerType
    <2>3. JobType' /\ SlotType' /\ HistoryType'
      BY <1>2, <2>1 DEF HandlerNotify, JobType, SlotType, HistoryType
    <2> QED BY <2>1, <2>2, <2>3
  <1>3. CASE HandlerBalance(m)
    <2>1. HandlerType'
      BY <1>3, SettingsAssumption DEF HandlerBalance, HandlerType
    <2>2. RowType' /\ JobType' /\ SlotType' /\ HistoryType'
      BY <1>3 DEF HandlerBalance, RowType, JobType, SlotType, HistoryType
    <2> QED BY <2>1, <2>2
  <1> QED BY <1>1, <1>2, <1>3 DEF HandlerStep

LEMMA TypingQueue ==
    ASSUME TypeOK, NEW m \in Msgs, Promote(m) \/ LoseLock(m) \/ Stall(m)
    PROVE  TypeOK'
  <1> USE DEF TypeOK
  <1>1. JobType'
    BY DEF Promote, LoseLock, Stall, JobType
  <1>2. HistoryType'
    <2>1. CASE Promote(m)
      BY <2>1 DEF Promote, HistoryType
    <2>2. CASE LoseLock(m)
      BY <2>2, FaultTyped DEF LoseLock, HistoryType
    <2>3. CASE Stall(m)
      BY <2>3 DEF Stall, HistoryType
    <2> QED BY <2>1, <2>2, <2>3
  <1>3. RowType' /\ SlotType' /\ HandlerType'
    BY DEF Promote, LoseLock, Stall, RowType, SlotType, HandlerType
  <1> QED BY <1>1, <1>2, <1>3

LEMMA TypingCrash ==
    ASSUME TypeOK, Crash
    PROVE  TypeOK'
  <1> USE DEF TypeOK
  <1>1. RowType' /\ JobType'
    BY DEF Crash, RowType, JobType
  <1>2. SlotType' /\ HandlerType' /\ HistoryType'
    BY FaultTyped DEF Crash, SlotType, HandlerType, HistoryType
  <1> QED BY <1>1, <1>2

LEMMA TypingNext == TypeOK /\ HandedHolds /\ [Next]_vars => TypeOK'
  <1> SUFFICES ASSUME TypeOK, HandedHolds, [Next]_vars
               PROVE  TypeOK'
    OBVIOUS
  <1>1. CASE UNCHANGED vars
    BY <1>1 DEF vars, TypeOK, RowType, JobType, SlotType, HandlerType, HistoryType
  <1>2. ASSUME NEW d \in Modems, BalanceWindowEnds(d)
        PROVE  TypeOK'
    BY <1>2 DEF BalanceWindowEnds, TypeOK, RowType, JobType, SlotType, HandlerType, HistoryType
  <1> QED BY <1>1, <1>2, TypingHttp, TypingTake, TypingSend, TypingHandler, TypingQueue,
             TypingCrash DEF Next, ProcessStep

-----------------------------------------------------------------------------
\* The modem's lock.

LEMMA HeadAppend ==
    ASSUME NEW S, NEW q \in Seq(S), NEW e \in S, q # <<>>
    PROVE  Head(Append(q, e)) = Head(q) /\ Append(q, e) # <<>>
  OBVIOUS

\* A slot that does not stay or become `handed` and leaves the chains alone.
LEMMA HandedFrame ==
    ASSUME TypeOK, HandedHolds, NEW s \in Slots, chain' = chain,
           \A t \in Slots \ {s} : phase'[t] = phase[t] /\ on'[t] = on[t],
           phase'[s] = "handed" => HoldsModem(s)'
    PROVE  HandedHolds'
  <1> SUFFICES ASSUME NEW t \in Slots, phase'[t] = "handed"
               PROVE  HoldsModem(t)'
    BY DEF HandedHolds
  <1>1. CASE t = s
    BY <1>1
  <1>2. CASE t # s
    BY <1>2 DEF HandedHolds, HoldsModem
  <1> QED BY <1>1, <1>2

\* The call that holds a modem leaves it: nobody else's was handed over there.
LEMMA HandedRelease ==
    ASSUME TypeOK, HandedHolds, NEW s \in Slots, HoldsModem(s), ReleaseModem(s),
           NEW p \in {"returning", "failing", "aborting", "sent"}, Goto(s, p)
    PROVE  HandedHolds'
  <1> SUFFICES ASSUME NEW t \in Slots, phase'[t] = "handed"
               PROVE  HoldsModem(t)'
    BY DEF HandedHolds
  <1>1. t # s /\ phase[t] = "handed" /\ on'[t] = on[t]
    BY DEF Goto, TypeOK, SlotType
  <1>2. HoldsModem(t)
    BY <1>1 DEF HandedHolds
  <1>3. on[t] # on[s]
    BY <1>1, <1>2 DEF HoldsModem
  <1>4. chain'[on[t]] = chain[on[t]]
    BY <1>2, <1>3 DEF ReleaseModem, HoldsModem, TypeOK, SlotType
  <1> QED BY <1>1, <1>2, <1>4 DEF HoldsModem

LEMMA HandedSend ==
    ASSUME TypeOK, HandedHolds, NEW s \in Slots, SendStep(s)
    PROVE  HandedHolds'
  <1>1. CASE JoinChain(s)
    <2> SUFFICES ASSUME NEW t \in Slots, phase'[t] = "handed"
                 PROVE  HoldsModem(t)'
      BY DEF HandedHolds
    <2>1. t # s /\ phase[t] = "handed" /\ on'[t] = on[t]
      BY <1>1 DEF JoinChain, Goto, TypeOK, SlotType
    <2>2. HoldsModem(t)
      BY <2>1 DEF HandedHolds
    <2>3. CASE on[s] = on[t]
      <3>1. chain'[on[t]] = Append(chain[on[t]], s)
        BY <1>1, <2>2, <2>3 DEF JoinChain, HoldsModem, TypeOK, SlotType
      <3>2. chain[on[t]] \in Seq(Slots) /\ chain[on[t]] # <<>>
        BY <2>2 DEF HoldsModem, TypeOK, SlotType
      <3>3. Head(chain'[on[t]]) = Head(chain[on[t]]) /\ chain'[on[t]] # <<>>
        BY <3>1, <3>2, HeadAppend
      <3> QED BY <2>1, <2>2, <3>3 DEF HoldsModem
    <2>4. CASE on[s] # on[t]
      <3>1. chain'[on[t]] = chain[on[t]]
        BY <1>1, <2>2, <2>4 DEF JoinChain, HoldsModem, TypeOK, SlotType
      <3> QED BY <2>1, <2>2, <3>1 DEF HoldsModem
    <2> QED BY <2>3, <2>4
  <1>2. CASE HandOver(s)
    <2>1. HoldsModem(s)'
      BY <1>2 DEF HandOver, Goto, HoldsModem
    <2>2. \A t \in Slots \ {s} : phase'[t] = phase[t] /\ on'[t] = on[t]
      BY <1>2 DEF HandOver, Goto, TypeOK, SlotType
    <2> QED BY <1>2, <2>1, <2>2, HandedFrame DEF HandOver
  <1>3. CASE FailsEarly(s) \/ ModemRefuses(s) \/ AnswerLost(s)
    <2>1. HoldsModem(s)
      BY <1>3 DEF FailsEarly, ModemRefuses, AnswerLost, HandedHolds
    <2> QED BY <1>3, <2>1, HandedRelease DEF FailsEarly, ModemRefuses, AnswerLost, SendFails
  <1>4. CASE ConfirmTimesOut(s) \/ Confirmed(s)
    <2>1. HoldsModem(s)
      BY <1>4 DEF ConfirmTimesOut, Confirmed, HandedHolds
    <2> QED BY <1>4, <2>1, HandedRelease DEF ConfirmTimesOut, Confirmed
  <1>5. CASE NotifySent(s) \/ Complete(s) \/ DropResult(s) \/ MoveToFailed(s)
    <2>1. chain' = chain /\ \E p \in {"idle", "returning"} :
              phase' = [phase EXCEPT ![s] = p]
      BY <1>5 DEF NotifySent, Complete, DropResult, MoveToFailed, Idle, Goto
    <2>2. on' = on \/ on' = [on EXCEPT ![s] = NoModem]
      BY <1>5 DEF NotifySent, Complete, DropResult, MoveToFailed, Idle, Goto
    <2>3. \A t \in Slots \ {s} : phase'[t] = phase[t] /\ on'[t] = on[t]
      BY <2>1, <2>2 DEF TypeOK, SlotType
    <2>4. phase'[s] # "handed"
      BY <2>1 DEF TypeOK, SlotType
    <2> QED BY <2>1, <2>3, <2>4, HandedFrame
  <1> QED BY <1>1, <1>2, <1>3, <1>4, <1>5 DEF SendStep

LEMMA HandedTake ==
    ASSUME TypeOK, HandedHolds, NEW s \in Slots, NEW m \in Msgs, TakeStep(s, m)
    PROVE  HandedHolds'
  <1>1. ASSUME NEW p \in {"waiting", "aborting"}, NEW d, Take(s, m, p, d)
        PROVE  HandedHolds'
    <2>1. \A t \in Slots \ {s} : phase'[t] = phase[t] /\ on'[t] = on[t]
      BY <1>1 DEF Take, TypeOK, SlotType
    <2>2. chain' = chain /\ phase'[s] # "handed"
      BY <1>1 DEF Take, TypeOK, SlotType
    <2> QED BY <2>1, <2>2, HandedFrame
  <1> QED BY <1>1 DEF TakeStep, TakeJob, TakeUnknownModem, TakeDeferred

\* Steps that leave the slots and the chains alone.
LEMMA HandedRest ==
    ASSUME HandedHolds, UNCHANGED <<slotVars, chain>>
    PROVE  HandedHolds'
  BY DEF HandedHolds, HoldsModem

LEMMA HandedNext == TypeOK /\ HandedHolds /\ [Next]_vars => HandedHolds'
  <1> SUFFICES ASSUME TypeOK, HandedHolds, [Next]_vars
               PROVE  HandedHolds'
    OBVIOUS
  <1>1. CASE UNCHANGED vars
    BY <1>1, HandedRest DEF vars
  <1>2. ASSUME NEW m \in Msgs,
               HttpStep(m) \/ HandlerStep(m) \/ Promote(m) \/ LoseLock(m) \/ Stall(m)
        PROVE  HandedHolds'
    BY <1>2, HandedRest
       DEF HttpStep, PostSend, AddJob, RecordRefusal, NotifyRefusal, HandlerStep,
           HandlerUpdate, HandlerNotify, HandlerBalance, Promote, LoseLock, Stall
  <1>3. ASSUME NEW d \in Modems, BalanceWindowEnds(d)
        PROVE  HandedHolds'
    BY <1>3, HandedRest DEF BalanceWindowEnds
  <1>4. CASE Crash
    BY <1>4 DEF Crash, HandedHolds
  <1> QED BY <1>1, <1>2, <1>3, <1>4, HandedTake, HandedSend DEF Next, ProcessStep

\* Every variable keeps its type, for every instance: no undocumented status,
\* callback or job state is ever written (router.js:102-137,
\* bull.config.js:39-142).
THEOREM Typing == Spec => [](TypeOK /\ HandedHolds)
  <1>1. Init => TypeOK /\ HandedHolds
    BY TypingInit
  <1>2. TypeOK /\ HandedHolds /\ [Next]_vars => TypeOK' /\ HandedHolds'
    BY TypingNext, HandedNext
  <1> QED BY <1>1, <1>2, PTL DEF Spec

\* Two concurrent jobs never have a message in the same modem, however many
\* locks Redis drops and whatever crashes (utils/serialize.js:6-13).
THEOREM Exclusion == Spec => []OneSendPerModem
  <1>1. TypeOK /\ HandedHolds => OneSendPerModem
    BY DEF OneSendPerModem, HandedHolds, HoldsModem
  <1> QED BY <1>1, Typing, PTL

-----------------------------------------------------------------------------
\* No avoidable double send.

\* What the typing invariant says of the variables DeliveryInv speaks of.
LEMMA Types ==
    ASSUME TypeOK
    PROVE  /\ \A s \in Slots : /\ phase[s] \in {"idle", "waiting", "queued", "handed",
                                     "sent", "returning", "failing", "aborting"}
                               /\ run[s] \in Nat
           /\ \A m \in Msgs : /\ runs[m] \in Nat /\ stalls[m] \in Nat /\ made[m] \in Nat
                              /\ owner[m] \in Slots \union {NoSlot}
                              /\ copies[m] \in SUBSET Nat /\ excused[m] \in SUBSET Nat
           /\ NoSlot \notin Slots /\ NoMsg \notin Msgs /\ MaxStalled \in Nat
  BY NullsAssumption, LimitsAssumption DEF TypeOK, SlotType, HistoryType, JobType

LEMMA DeliveryInit == Init => DeliveryInv
  BY NullsAssumption DEF Init, DeliveryInv, BusySlots, RunsDistinct, OwnerWorks, UnexcusedIsCurrent,
         NoCopyYet, WaitingIsClean, RunsBegun, JobPosted

\* Steps that touch nothing DeliveryInv speaks of.
LEMMA DeliveryFrame ==
    ASSUME DeliveryInv, JobPosted',
           UNCHANGED <<slotVars, job, owner, runs, stalls, copies, excused>>
    PROVE  DeliveryInv'
  <1> USE DEF DeliveryInv
  <1>1. BusySlots' /\ RunsDistinct'
    BY DEF BusySlots, RunsDistinct
  <1>2. OwnerWorks'
    BY DEF OwnerWorks
  <1>3. UnexcusedIsCurrent'
    BY DEF UnexcusedIsCurrent
  <1>4. NoCopyYet' /\ WaitingIsClean' /\ RunsBegun'
    BY DEF NoCopyYet, WaitingIsClean, RunsBegun
  <1> QED BY <1>1, <1>2, <1>3, <1>4

\* A call goes on with the run it works on.
LEMMA PhaseStep ==
    ASSUME TypeOK, DeliveryInv, NEW s \in Slots, phase[s] \in Working,
           NEW p \in Working \union {"aborting"}, Goto(s, p),
           p \in {"waiting", "queued", "failing"} => phase[s] \in {"waiting", "queued"},
           p \in {"waiting", "queued", "handed"} =>
               phase[s] \in {"waiting", "queued", "handed"},
           UNCHANGED <<http, job, owner, runs, stalls, copies, excused>>
    PROVE  DeliveryInv'
  <1> USE DEF DeliveryInv
  <1>1. /\ serves' = serves /\ run' = run /\ on' = on
        /\ phase'[s] = p /\ p # "idle" /\ phase[s] # "idle"
        /\ \A t \in Slots \ {s} : phase'[t] = phase[t]
    BY DEF Goto, TypeOK, SlotType, Working
  <1>2. BusySlots'
    BY <1>1 DEF BusySlots, Working
  <1>3. RunsDistinct'
    BY <1>1 DEF RunsDistinct
  <1>4. OwnerWorks'
    <2> SUFFICES ASSUME NEW m \in Msgs, owner[m] # NoSlot
                 PROVE  /\ phase'[owner[m]] # "idle"
                        /\ run[owner[m]] = runs[m]
                              \/ (run[owner[m]] = 0 /\ phase'[owner[m]] = "aborting")
      BY <1>1 DEF OwnerWorks
    <2>1. owner[m] \in Slots
      BY Types
    <2>2. owner[m] = s => run[s] = runs[m]
      BY <1>1 DEF OwnerWorks, Working
    <2> QED BY <1>1, <2>1, <2>2 DEF OwnerWorks
  <1>5. UnexcusedIsCurrent'
    BY <1>1 DEF UnexcusedIsCurrent
  <1>6. NoCopyYet'
    BY <1>1 DEF NoCopyYet
  <1>7. WaitingIsClean' /\ RunsBegun' /\ JobPosted'
    BY DEF WaitingIsClean, RunsBegun, JobPosted
  <1> QED BY <1>2, <1>3, <1>4, <1>5, <1>6, <1>7

\* The steps of a call that neither hand a copy over nor change what is known
\* of one.
LEMMA DeliveryPhase ==
    ASSUME TypeOK, DeliveryInv, NEW s \in Slots,
           JoinChain(s) \/ FailsEarly(s) \/ ConfirmTimesOut(s) \/ Confirmed(s) \/ NotifySent(s)
    PROVE  DeliveryInv'
  <1> USE DEF Working
  <1>1. CASE JoinChain(s)
    BY <1>1, PhaseStep DEF JoinChain
  <1>2. CASE FailsEarly(s)
    BY <1>2, PhaseStep DEF FailsEarly, SendFails
  <1>3. CASE ConfirmTimesOut(s)
    BY <1>3, PhaseStep DEF ConfirmTimesOut
  <1>4. CASE Confirmed(s)
    BY <1>4, PhaseStep DEF Confirmed
  <1>5. CASE NotifySent(s)
    BY <1>5, PhaseStep DEF NotifySent
  <1> QED BY <1>1, <1>2, <1>3, <1>4, <1>5

\* A modem takes the message: the copy is of the latest run, or excused.
LEMMA DeliveryHandOver ==
    ASSUME TypeOK, DeliveryInv, NEW s \in Slots, HandOver(s)
    PROVE  DeliveryInv'
  <1> DEFINE n == serves[s]
  <1> USE DEF DeliveryInv
  <1>1. /\ phase[s] = "queued" /\ n \in Msgs /\ run[s] >= 1 /\ run[s] <= runs[n]
        /\ run[s] \in excused[n] \/ (job[n] = "active" /\ run[s] = runs[n])
    BY Types DEF HandOver, BusySlots, UnexcusedIsCurrent, Working
  <1>2. /\ serves' = serves /\ run' = run /\ on' = on /\ phase'[s] = "handed"
        /\ \A t \in Slots \ {s} : phase'[t] = phase[t]
        /\ UNCHANGED <<http, job, owner, runs, stalls, excused>>
    BY DEF HandOver, Goto, TypeOK, SlotType
  <1>3. /\ copies'[n] = copies[n] \union {run[s]}
        /\ \A m \in Msgs \ {n} : copies'[m] = copies[m]
    BY <1>1 DEF HandOver, TypeOK, HistoryType
  <1>4. BusySlots'
    BY <1>1, <1>2 DEF BusySlots, Working
  <1>5. RunsDistinct'
    BY <1>1, <1>2 DEF RunsDistinct
  <1>6. OwnerWorks'
    <2> SUFFICES ASSUME NEW m \in Msgs, owner[m] # NoSlot
                 PROVE  /\ phase'[owner[m]] # "idle"
                        /\ run[owner[m]] = runs[m]
                              \/ (run[owner[m]] = 0 /\ phase'[owner[m]] = "aborting")
      BY <1>2 DEF OwnerWorks
    <2>1. owner[m] \in Slots
      BY Types
    <2> QED BY <1>1, <1>2, <2>1 DEF OwnerWorks
  <1>7. UnexcusedIsCurrent'
    BY <1>1, <1>2 DEF UnexcusedIsCurrent
  <1>8. NoCopyYet'
    <2> SUFFICES ASSUME NEW t \in Slots, phase'[t] \in {"waiting", "queued", "failing"}
                 PROVE  run[t] \in excused[serves[t]] \/ run[t] \notin copies'[serves[t]]
      BY <1>2 DEF NoCopyYet
    <2>1. t # s /\ phase[t] = phase'[t] /\ serves[t] \in Msgs
      BY <1>2 DEF BusySlots
    <2>2. CASE serves[t] = n
      <3>1. run[t] # run[s]
        BY <1>1, <2>1, <2>2 DEF RunsDistinct
      <3> QED BY <1>3, <2>1, <2>2, <3>1 DEF NoCopyYet
    <2>3. CASE serves[t] # n
      BY <1>3, <2>1, <2>3 DEF NoCopyYet
    <2> QED BY <2>2, <2>3
  <1>9. WaitingIsClean'
    BY <1>1, <1>2, <1>3 DEF WaitingIsClean
  <1>10. RunsBegun' /\ JobPosted'
    BY <1>2 DEF RunsBegun, JobPosted
  <1> QED BY <1>4, <1>5, <1>6, <1>7, <1>8, <1>9, <1>10

\* The modem refuses: one copy fewer, the run failed.
LEMMA DeliveryRefuse ==
    ASSUME TypeOK, DeliveryInv, NEW s \in Slots, ModemRefuses(s)
    PROVE  DeliveryInv'
  <1> DEFINE n == serves[s]
  <1> USE DEF DeliveryInv
  <1>1. phase[s] = "handed" /\ n \in Msgs /\ run[s] >= 1
    BY DEF ModemRefuses, BusySlots, Working
  <1>2. /\ serves' = serves /\ run' = run /\ on' = on /\ phase'[s] = "failing"
        /\ \A t \in Slots \ {s} : phase'[t] = phase[t]
        /\ UNCHANGED <<http, job, owner, runs, stalls, excused>>
    BY DEF ModemRefuses, SendFails, Goto, TypeOK, SlotType
  <1>3. /\ copies'[n] = copies[n] \ {run[s]}
        /\ \A m \in Msgs : copies'[m] \subseteq copies[m]
    BY <1>1 DEF ModemRefuses, TypeOK, HistoryType
  <1>4. BusySlots'
    BY <1>1, <1>2 DEF BusySlots, Working
  <1>5. RunsDistinct'
    BY <1>1, <1>2 DEF RunsDistinct
  <1>6. OwnerWorks'
    <2> SUFFICES ASSUME NEW m \in Msgs, owner[m] # NoSlot
                 PROVE  /\ phase'[owner[m]] # "idle"
                        /\ run[owner[m]] = runs[m]
                              \/ (run[owner[m]] = 0 /\ phase'[owner[m]] = "aborting")
      BY <1>2 DEF OwnerWorks
    <2>1. owner[m] \in Slots
      BY Types
    <2> QED BY <1>1, <1>2, <2>1 DEF OwnerWorks
  <1>7. UnexcusedIsCurrent'
    BY <1>1, <1>2 DEF UnexcusedIsCurrent
  <1>8. NoCopyYet'
    <2> SUFFICES ASSUME NEW t \in Slots, phase'[t] \in {"waiting", "queued", "failing"}
                 PROVE  run[t] \in excused[serves[t]] \/ run[t] \notin copies'[serves[t]]
      BY <1>2 DEF NoCopyYet
    <2>1. CASE t = s
      BY <1>3, <2>1
    <2>2. CASE t # s
      <3>1. phase[t] = phase'[t] /\ serves[t] \in Msgs
        BY <1>2, <2>2 DEF BusySlots
      <3> QED BY <1>3, <3>1 DEF NoCopyYet
    <2> QED BY <2>1, <2>2
  <1>9. WaitingIsClean'
    BY <1>2, <1>3 DEF WaitingIsClean
  <1>10. RunsBegun' /\ JobPosted'
    BY <1>2 DEF RunsBegun, JobPosted
  <1> QED BY <1>4, <1>5, <1>6, <1>7, <1>8, <1>9, <1>10

\* The answer is lost: the run is excused.
LEMMA DeliveryDoubt ==
    ASSUME TypeOK, DeliveryInv, NEW s \in Slots, AnswerLost(s)
    PROVE  DeliveryInv'
  <1> DEFINE n == serves[s]
  <1> USE DEF DeliveryInv
  <1>1. phase[s] = "handed" /\ n \in Msgs /\ run[s] >= 1
    BY DEF AnswerLost, BusySlots, Working
  <1>2. /\ serves' = serves /\ run' = run /\ on' = on /\ phase'[s] = "failing"
        /\ \A t \in Slots \ {s} : phase'[t] = phase[t]
        /\ UNCHANGED <<http, job, owner, runs, stalls, copies>>
    BY DEF AnswerLost, SendFails, Goto, TypeOK, SlotType
  <1>3. /\ excused'[n] = excused[n] \union {run[s]}
        /\ \A m \in Msgs : excused[m] \subseteq excused'[m]
    BY <1>1 DEF AnswerLost, TypeOK, HistoryType
  <1>4. BusySlots'
    BY <1>1, <1>2 DEF BusySlots, Working
  <1>5. RunsDistinct'
    BY <1>1, <1>2 DEF RunsDistinct
  <1>6. OwnerWorks'
    <2> SUFFICES ASSUME NEW m \in Msgs, owner[m] # NoSlot
                 PROVE  /\ phase'[owner[m]] # "idle"
                        /\ run[owner[m]] = runs[m]
                              \/ (run[owner[m]] = 0 /\ phase'[owner[m]] = "aborting")
      BY <1>2 DEF OwnerWorks
    <2>1. owner[m] \in Slots
      BY Types
    <2> QED BY <1>1, <1>2, <2>1 DEF OwnerWorks
  <1>7. UnexcusedIsCurrent'
    <2> SUFFICES ASSUME NEW t \in Slots, phase[t] # "idle", run[t] >= 1
                 PROVE  \/ run[t] \in excused'[serves[t]]
                        \/ /\ job[serves[t]] = "active" /\ run[t] = runs[serves[t]]
                           /\ owner[serves[t]] \in {t, NoSlot}
      BY <1>1, <1>2 DEF UnexcusedIsCurrent
    <2>1. serves[t] \in Msgs
      BY DEF BusySlots
    <2> QED BY <1>3, <2>1 DEF UnexcusedIsCurrent
  <1>8. NoCopyYet'
    <2> SUFFICES ASSUME NEW t \in Slots, phase'[t] \in {"waiting", "queued", "failing"}
                 PROVE  run[t] \in excused'[serves[t]] \/ run[t] \notin copies[serves[t]]
      BY <1>2 DEF NoCopyYet
    <2>1. CASE t = s
      BY <1>3, <2>1
    <2>2. CASE t # s
      <3>1. phase[t] = phase'[t] /\ serves[t] \in Msgs
        BY <1>2, <2>2 DEF BusySlots
      <3> QED BY <1>3, <3>1 DEF NoCopyYet
    <2> QED BY <2>1, <2>2
  <1>9. WaitingIsClean'
    BY <1>2, <1>3 DEF WaitingIsClean
  <1>10. RunsBegun' /\ JobPosted'
    BY <1>2 DEF RunsBegun, JobPosted
  <1> QED BY <1>4, <1>5, <1>6, <1>7, <1>8, <1>9, <1>10

\* What every step that frees a slot leaves true of the other slots.
LEMMA IdleFacts ==
    ASSUME TypeOK, NEW s \in Slots, Idle(s)
    PROVE  /\ phase'[s] = "idle" /\ run'[s] = 0
           /\ \A t \in Slots \ {s} : /\ phase'[t] = phase[t] /\ serves'[t] = serves[t]
                                     /\ run'[t] = run[t] /\ on'[t] = on[t]
  BY DEF Idle, TypeOK, SlotType

\* The owner's call ends: its job leaves the active state.
LEMMA OwnerEnds ==
    ASSUME TypeOK, DeliveryInv, NEW s \in Slots, Owns(s), phase[s] # "idle", Idle(s),
           owner' = [owner EXCEPT ![serves[s]] = NoSlot],
           NEW j \in {"completed", "failed", "delayed"},
           job' = [job EXCEPT ![serves[s]] = j],
           j = "delayed" => phase[s] = "failing",
           UNCHANGED <<http, runs, stalls, copies, excused>>
    PROVE  DeliveryInv'
  <1> DEFINE n == serves[s]
  <1> USE DEF DeliveryInv
  <1>1. /\ n \in Msgs /\ owner[n] = s /\ owner[n] # NoSlot /\ job[n] = "active"
        /\ run[s] = runs[n] \/ (run[s] = 0 /\ phase[s] = "aborting")
    BY Types DEF Owns, BusySlots, OwnerWorks
  <1>2. /\ owner'[n] = NoSlot /\ job'[n] = j
        /\ \A m \in Msgs \ {n} : owner'[m] = owner[m] /\ job'[m] = job[m]
    BY <1>1 DEF TypeOK, JobType
  <1>3. \A t \in Slots \ {s} : /\ phase'[t] = phase[t] /\ serves'[t] = serves[t]
                               /\ run'[t] = run[t] /\ on'[t] = on[t]
    BY IdleFacts
  <1>4. phase'[s] = "idle" /\ run'[s] = 0
    BY IdleFacts
  <1>5. BusySlots'
    BY <1>3, <1>4 DEF BusySlots, Working
  <1>6. RunsDistinct'
    BY <1>3, <1>4 DEF RunsDistinct
  <1>7. OwnerWorks'
    <2> SUFFICES ASSUME NEW m \in Msgs, owner'[m] # NoSlot
                 PROVE  /\ job'[m] = "active"
                        /\ phase'[owner'[m]] # "idle"
                        /\ serves'[owner'[m]] = m
                        /\ run'[owner'[m]] = runs[m]
                              \/ (run'[owner'[m]] = 0 /\ phase'[owner'[m]] = "aborting")
      BY DEF OwnerWorks
    <2>1. m # n /\ owner'[m] = owner[m] /\ job'[m] = job[m] /\ owner[m] \in Slots
      BY <1>2, Types
    <2>2. owner[m] # s
      BY <1>1, <2>1 DEF OwnerWorks
    <2> QED BY <1>3, <2>1, <2>2 DEF OwnerWorks
  <1>8. \A t \in Slots \ {s} :
           phase[t] # "idle" /\ run[t] >= 1 /\ serves[t] = n => run[t] \in excused[n]
    BY <1>1 DEF UnexcusedIsCurrent
  <1>9. UnexcusedIsCurrent'
    <2> SUFFICES ASSUME NEW t \in Slots, phase'[t] # "idle", run'[t] >= 1
                 PROVE  \/ run'[t] \in excused[serves'[t]]
                        \/ /\ job'[serves'[t]] = "active" /\ run'[t] = runs[serves'[t]]
                           /\ owner'[serves'[t]] \in {t, NoSlot}
      BY DEF UnexcusedIsCurrent
    <2>1. t # s /\ phase[t] # "idle" /\ serves[t] \in Msgs /\ run[t] >= 1
      BY <1>3, <1>4 DEF BusySlots
    <2>2. CASE serves[t] = n
      BY <1>3, <1>8, <2>1, <2>2
    <2>3. CASE serves[t] # n
      BY <1>2, <1>3, <2>1, <2>3 DEF UnexcusedIsCurrent
    <2> QED BY <2>2, <2>3
  <1>10. NoCopyYet'
    BY <1>3, <1>4 DEF NoCopyYet
  <1>11. j = "delayed" => copies[n] \subseteq excused[n]
    BY <1>1 DEF NoCopyYet, WaitingIsClean
  <1>12. WaitingIsClean'
    BY <1>2, <1>11 DEF WaitingIsClean
  <1>13. RunsBegun' /\ JobPosted'
    BY <1>1, <1>2 DEF RunsBegun, JobPosted
  <1> QED BY <1>5, <1>6, <1>7, <1>9, <1>10, <1>12, <1>13

LEMMA DeliveryEnd ==
    ASSUME TypeOK, DeliveryInv, NEW s \in Slots, Complete(s) \/ MoveToFailed(s) \/ DropResult(s)
    PROVE  DeliveryInv'
  <1>1. CASE Complete(s)
    BY <1>1, OwnerEnds DEF Complete
  <1>2. CASE MoveToFailed(s)
    <2> DEFINE v == IF phase[s] = "aborting" THEN "unrecoverable" ELSE "plain"
    <2> DEFINE j == IF IsFinal(v, made[serves[s]] + 1) THEN "failed" ELSE "delayed"
    <2>1. j \in {"failed", "delayed"} /\ (j = "delayed" => phase[s] = "failing")
      BY <1>2 DEF MoveToFailed, IsFinal
    <2>2. /\ Owns(s) /\ Idle(s) /\ phase[s] # "idle"
          /\ owner' = [owner EXCEPT ![serves[s]] = NoSlot]
          /\ job' = [job EXCEPT ![serves[s]] = j]
          /\ UNCHANGED <<http, runs, stalls, copies, excused>>
      BY <1>2 DEF MoveToFailed
    <2> HIDE DEF j
    <2> QED BY <2>1, <2>2, OwnerEnds
  <1>3. CASE DropResult(s)
    <2> USE DEF DeliveryInv
    <2>1. /\ phase'[s] = "idle" /\ run'[s] = 0 /\ phase[s] # "idle" /\ owner[serves[s]] # s
          /\ \A t \in Slots \ {s} : /\ phase'[t] = phase[t] /\ serves'[t] = serves[t]
                                    /\ run'[t] = run[t] /\ on'[t] = on[t]
          /\ UNCHANGED <<http, job, owner, runs, stalls, copies, excused>>
      BY <1>3, IdleFacts DEF DropResult, Owns
    <2>2. BusySlots' /\ RunsDistinct' /\ NoCopyYet'
      BY <2>1 DEF BusySlots, RunsDistinct, NoCopyYet, Working
    <2>3. OwnerWorks'
      <3> SUFFICES ASSUME NEW m \in Msgs, owner[m] # NoSlot
                   PROVE  /\ phase'[owner[m]] # "idle"
                          /\ serves'[owner[m]] = m
                          /\ run'[owner[m]] = runs[m]
                                \/ (run'[owner[m]] = 0 /\ phase'[owner[m]] = "aborting")
        BY <2>1 DEF OwnerWorks
      <3>1. owner[m] \in Slots /\ owner[m] # s
        BY <2>1, Types DEF OwnerWorks
      <3> QED BY <2>1, <3>1 DEF OwnerWorks
    <2>4. UnexcusedIsCurrent'
      BY <2>1 DEF UnexcusedIsCurrent
    <2>5. WaitingIsClean' /\ RunsBegun' /\ JobPosted'
      BY <2>1 DEF WaitingIsClean, RunsBegun, JobPosted
    <2> QED BY <2>2, <2>3, <2>4, <2>5
  <1> QED BY <1>1, <1>2, <1>3

\* A slot takes a job: all its earlier runs are excused, a new one is current.
LEMMA DeliveryTake ==
    ASSUME TypeOK, DeliveryInv, NEW s \in Slots, NEW m \in Msgs, TakeStep(s, m)
    PROVE  DeliveryInv'
  <1> USE DEF DeliveryInv
  <1>1. ASSUME NEW p \in {"waiting", "aborting"}, NEW d \in Modems \union {NoModem},
               Take(s, m, p, d),
               p = "waiting" => d \in Modems,
               \/ StartRun(s, m)
               \/ UNCHANGED <<runs, run>> /\ p = "aborting" /\ stalls[m] > 0
        PROVE  DeliveryInv'
    <2>1. /\ phase[s] = "idle" /\ phase'[s] = p /\ serves'[s] = m /\ on'[s] = d
          /\ \A t \in Slots \ {s} : /\ phase'[t] = phase[t] /\ serves'[t] = serves[t]
                                    /\ on'[t] = on[t]
          /\ UNCHANGED <<http, stalls, copies, excused>>
      BY <1>1 DEF Take, TypeOK, SlotType
    <2>2. /\ job[m] = "wait" /\ job'[m] = "active" /\ owner'[m] = s /\ owner[m] = NoSlot
          /\ \A n \in Msgs \ {m} : job'[n] = job[n] /\ owner'[n] = owner[n]
      BY <1>1 DEF Take, TypeOK, JobType, OwnerWorks
    <2>3. /\ \A t \in Slots \ {s} : run'[t] = run[t]
          /\ \A n \in Msgs \ {m} : runs'[n] = runs[n]
          /\ \/ runs'[m] = runs[m] + 1 /\ run'[s] = runs[m] + 1
             \/ /\ runs'[m] = runs[m] /\ run'[s] = 0 /\ p = "aborting"
                /\ runs[m] >= 1
      <3>1. run[s] = 0 /\ (stalls[m] > 0 => runs[m] >= 1)
        BY <2>1 DEF BusySlots, RunsBegun
      <3> QED BY <1>1, <3>1 DEF StartRun, TypeOK, SlotType, HistoryType
    <2>4. \A t \in Slots \ {s} :
             phase[t] # "idle" /\ run[t] >= 1 /\ serves[t] = m => run[t] \in excused[m]
      BY <2>2 DEF UnexcusedIsCurrent
    <2>5. /\ run'[s] <= runs'[m] /\ runs[m] <= runs'[m] /\ runs'[m] >= 1
          /\ run'[s] = runs'[m] \/ (run'[s] = 0 /\ p = "aborting")
          /\ p = "waiting" => run'[s] >= 1
      BY <2>3, Types
    <2>6. BusySlots'
      <3> SUFFICES ASSUME NEW t \in Slots
                   PROVE  BusySlots!(t)'
        BY DEF BusySlots
      <3>1. CASE t = s
        BY <1>1, <2>1, <2>5, <3>1 DEF Working
      <3>2. CASE t # s
        BY <2>1, <2>3, <2>5, <3>2, Types DEF BusySlots, Working
      <3> QED BY <3>1, <3>2
    <2>7. RunsDistinct'
      <3>1. \A t \in Slots \ {s} : phase[t] # "idle" /\ serves[t] = m => run[t] <= runs[m]
        BY DEF BusySlots
      <3>2. \A t \in Slots \ {s} :
               phase[t] # "idle" /\ serves[t] = m => run'[s] # run[t] \/ run'[s] = 0
        BY <2>3, <3>1, Types
      <3> QED BY <2>1, <2>3, <3>2 DEF RunsDistinct
    <2>8. OwnerWorks'
      <3> SUFFICES ASSUME NEW n \in Msgs, owner'[n] # NoSlot
                   PROVE  /\ job'[n] = "active"
                          /\ phase'[owner'[n]] # "idle"
                          /\ serves'[owner'[n]] = n
                          /\ run'[owner'[n]] = runs'[n]
                                \/ (run'[owner'[n]] = 0 /\ phase'[owner'[n]] = "aborting")
        BY DEF OwnerWorks
      <3>1. CASE n = m
        BY <2>1, <2>2, <2>5, <3>1
      <3>2. CASE n # m
        <4>1. owner'[n] = owner[n] /\ owner[n] \in Slots /\ owner[n] # s
          BY <2>1, <2>2, <3>2, Types DEF OwnerWorks
        <4> QED BY <2>1, <2>2, <2>3, <3>2, <4>1 DEF OwnerWorks
      <3> QED BY <3>1, <3>2
    <2>9. UnexcusedIsCurrent'
      <3> SUFFICES ASSUME NEW t \in Slots, phase'[t] # "idle", run'[t] >= 1
                   PROVE  \/ run'[t] \in excused[serves'[t]]
                          \/ /\ job'[serves'[t]] = "active" /\ run'[t] = runs'[serves'[t]]
                             /\ owner'[serves'[t]] \in {t, NoSlot}
        BY <2>1 DEF UnexcusedIsCurrent
      <3>1. CASE t = s
        BY <2>1, <2>2, <2>5, <3>1
      <3>2. CASE t # s /\ serves[t] = m
        BY <2>1, <2>3, <2>4, <3>2
      <3>3. CASE t # s /\ serves[t] # m
        BY <2>1, <2>2, <2>3, <3>3 DEF UnexcusedIsCurrent, BusySlots
      <3> QED BY <3>1, <3>2, <3>3
    <2>10. copies[m] \subseteq excused[m]
      BY <2>2 DEF WaitingIsClean
    <2>11. NoCopyYet'
      <3> SUFFICES ASSUME NEW t \in Slots, phase'[t] \in {"waiting", "queued", "failing"}
                   PROVE  run'[t] \in excused[serves'[t]] \/ run'[t] \notin copies[serves'[t]]
        BY <2>1 DEF NoCopyYet
      <3>1. CASE t = s
        BY <2>1, <2>10, <3>1
      <3>2. CASE t # s
        BY <2>1, <2>3, <3>2 DEF NoCopyYet
      <3> QED BY <3>1, <3>2
    <2>12. WaitingIsClean'
      BY <2>1, <2>2, <2>3, <2>10 DEF WaitingIsClean
    <2>13. RunsBegun' /\ JobPosted'
      BY <2>1, <2>2, <2>3, <2>5 DEF RunsBegun, JobPosted
    <2> QED BY <2>6, <2>7, <2>8, <2>9, <2>11, <2>12, <2>13
  <1>2. CASE TakeJob(s, m)
    <2> PICK d \in fleet : Take(s, m, "waiting", d)
      BY <1>2 DEF TakeJob
    <2>1. d \in Modems
      BY FleetModems DEF TypeOK
    <2> QED BY <1>1, <1>2, <2>1 DEF TakeJob
  <1>3. CASE TakeUnknownModem(s, m)
    BY <1>1, <1>3 DEF TakeUnknownModem
  <1>4. CASE TakeDeferred(s, m)
    <2>1. stalls[m] > 0
      BY <1>4, Types DEF TakeDeferred
    <2> QED BY <1>1, <1>4, <2>1 DEF TakeDeferred
  <1> QED BY <1>2, <1>3, <1>4 DEF TakeStep

\* The queue moves a job whose call is gone, or was disowned.
LEMMA DeliveryQueue ==
    ASSUME TypeOK, DeliveryInv, NEW m \in Msgs, Promote(m) \/ LoseLock(m) \/ Stall(m)
    PROVE  DeliveryInv'
  <1> USE DEF DeliveryInv
  <1>1. UNCHANGED <<slotVars, http, runs, copies>>
    BY DEF Promote, LoseLock, Stall
  <1>2. BusySlots' /\ RunsDistinct'
    BY <1>1 DEF BusySlots, RunsDistinct
  <1>3. CASE Promote(m)
    <2>1. /\ job[m] = "delayed" /\ job'[m] = "wait"
          /\ \A n \in Msgs \ {m} : job'[n] = job[n]
          /\ UNCHANGED <<owner, excused, stalls>>
      BY <1>3 DEF Promote, TypeOK, JobType
    <2>2. OwnerWorks'
      BY <1>1, <2>1 DEF OwnerWorks
    <2>3. UnexcusedIsCurrent'
      BY <1>1, <2>1 DEF UnexcusedIsCurrent, BusySlots
    <2>4. NoCopyYet' /\ WaitingIsClean'
      BY <1>1, <2>1 DEF NoCopyYet, WaitingIsClean
    <2>5. RunsBegun' /\ JobPosted'
      BY <1>1, <2>1 DEF RunsBegun, JobPosted
    <2> QED BY <1>2, <2>2, <2>3, <2>4, <2>5
  <1>4. CASE LoseLock(m)
    <2>1. /\ owner'[m] = NoSlot
          /\ \A n \in Msgs \ {m} : owner'[n] = owner[n]
          /\ UNCHANGED <<job, excused, stalls>>
      BY <1>4 DEF LoseLock, TypeOK, JobType
    <2>2. OwnerWorks'
      BY <1>1, <2>1 DEF OwnerWorks
    <2>3. UnexcusedIsCurrent'
      BY <1>1, <2>1 DEF UnexcusedIsCurrent, BusySlots
    <2>4. NoCopyYet' /\ WaitingIsClean' /\ RunsBegun' /\ JobPosted'
      BY <1>1, <2>1 DEF NoCopyYet, WaitingIsClean, RunsBegun, JobPosted
    <2> QED BY <1>2, <2>2, <2>3, <2>4
  <1>5. CASE Stall(m)
    <2>1. /\ job[m] = "active" /\ owner[m] = NoSlot /\ job'[m] = "wait"
          /\ excused'[m] = excused[m] \union {runs[m]}
          /\ \A n \in Msgs \ {m} : /\ job'[n] = job[n] /\ excused'[n] = excused[n]
                                   /\ stalls'[n] = stalls[n]
          /\ UNCHANGED owner
      BY <1>5 DEF Stall, TypeOK, JobType, HistoryType
    <2>2. OwnerWorks'
      BY <1>1, <2>1 DEF OwnerWorks
    <2>3. UnexcusedIsCurrent'
      BY <1>1, <2>1 DEF UnexcusedIsCurrent, BusySlots
    <2>4. NoCopyYet'
      BY <1>1, <2>1 DEF NoCopyYet, BusySlots
    <2>5. WaitingIsClean'
      BY <1>1, <2>1 DEF WaitingIsClean
    <2>6. RunsBegun' /\ JobPosted'
      BY <1>1, <2>1 DEF RunsBegun, JobPosted
    <2> QED BY <1>2, <2>2, <2>3, <2>4, <2>5, <2>6
  <1> QED BY <1>3, <1>4, <1>5

LEMMA DeliveryCrash ==
    ASSUME TypeOK, DeliveryInv, Crash
    PROVE  DeliveryInv'
  <1> USE DEF DeliveryInv
  <1>1. /\ UNCHANGED <<job, runs, stalls, copies, excused>>
        /\ \A s \in Slots : phase'[s] = "idle" /\ run'[s] = 0
        /\ \A m \in Msgs : /\ owner'[m] = NoSlot
                           /\ http'[m] = http[m] \/ http'[m] = "gone"
    BY DEF Crash
  <1>2. BusySlots' /\ RunsDistinct' /\ OwnerWorks' /\ UnexcusedIsCurrent' /\ NoCopyYet'
    BY <1>1 DEF BusySlots, RunsDistinct, OwnerWorks, UnexcusedIsCurrent, NoCopyYet
  <1>3. WaitingIsClean' /\ RunsBegun' /\ JobPosted'
    BY <1>1 DEF WaitingIsClean, RunsBegun, JobPosted
  <1> QED BY <1>2, <1>3

LEMMA DeliveryHttp ==
    ASSUME TypeOK, DeliveryInv, NEW m \in Msgs, HttpStep(m)
    PROVE  DeliveryInv'
  <1> USE DEF DeliveryInv
  <1>1. CASE PostSend(m) \/ RecordRefusal(m) \/ NotifyRefusal(m)
    <2>1. UNCHANGED <<slotVars, job, owner, runs, stalls, copies, excused>>
      BY <1>1 DEF PostSend, RecordRefusal, NotifyRefusal
    <2>2. /\ http[m] \in {"idle", "rejected", "refused"}
          /\ \A n \in Msgs \ {m} : http'[n] = http[n]
      BY <1>1 DEF PostSend, RecordRefusal, NotifyRefusal, TypeOK, RowType
    <2>3. JobPosted'
      BY <2>1, <2>2 DEF JobPosted
    <2> QED BY <2>1, <2>3, DeliveryFrame
  <1>2. CASE AddJob(m)
    <2>1. /\ UNCHANGED <<slotVars, owner, runs, stalls, copies, excused>>
          /\ job[m] = "none" /\ job'[m] \in {"none", "wait"}
          /\ \A n \in Msgs \ {m} : job'[n] = job[n] /\ http'[n] = http[n]
          /\ http'[m] = "accepted" \/ job'[m] = "none"
      BY <1>2 DEF AddJob, JobPosted, TypeOK, JobType, RowType
    <2>2. BusySlots' /\ RunsDistinct' /\ NoCopyYet'
      BY <2>1 DEF BusySlots, RunsDistinct, NoCopyYet
    <2>3. OwnerWorks'
      BY <2>1 DEF OwnerWorks
    <2>4. UnexcusedIsCurrent'
      BY <2>1 DEF UnexcusedIsCurrent, BusySlots
    <2>5. WaitingIsClean' /\ RunsBegun' /\ JobPosted'
      BY <2>1 DEF WaitingIsClean, RunsBegun, JobPosted
    <2> QED BY <2>2, <2>3, <2>4, <2>5
  <1> QED BY <1>1, <1>2 DEF HttpStep

\* The failed handler and the balance throttle touch only rows and callbacks.
LEMMA DeliveryRest ==
    ASSUME DeliveryInv,
           \/ \E m \in Msgs : HandlerStep(m)
           \/ \E d \in Modems : BalanceWindowEnds(d)
           \/ UNCHANGED vars
    PROVE  DeliveryInv'
  <1>1. UNCHANGED <<slotVars, http, job, owner, runs, stalls, copies, excused>>
    BY DEF HandlerStep, HandlerUpdate, HandlerNotify, HandlerBalance, BalanceWindowEnds, vars
  <1>2. JobPosted'
    BY <1>1 DEF DeliveryInv, JobPosted
  <1> QED BY <1>1, <1>2, DeliveryFrame

LEMMA DeliveryNext == TypeOK /\ DeliveryInv /\ [Next]_vars => DeliveryInv'
  <1> SUFFICES ASSUME TypeOK, DeliveryInv, [Next]_vars
               PROVE  DeliveryInv'
    OBVIOUS
  <1>1. ASSUME NEW s \in Slots, SendStep(s)
        PROVE  DeliveryInv'
    BY <1>1, DeliveryPhase, DeliveryHandOver, DeliveryRefuse, DeliveryDoubt, DeliveryEnd
       DEF SendStep
  <1> QED BY <1>1, DeliveryQueue, DeliveryCrash, DeliveryHttp, DeliveryRest, DeliveryTake
          DEF Next, ProcessStep

\* The invariant behind both theorems below.
THEOREM DeliveryInvariance == Spec => [](TypeOK /\ DeliveryInv)
  <1>1. Init => DeliveryInv
    BY DeliveryInit
  <1>2. TypeOK /\ DeliveryInv /\ [Next]_vars => DeliveryInv'
    BY DeliveryNext
  <1> QED BY <1>1, <1>2, Typing, PTL DEF Spec

\* A copy of an earlier run is out only if that run ended with its fate
\* unknown: no confirmed, unconfirmed or badly recorded send is repeated, with
\* any number of concurrent jobs, lost locks, crashes and failing writes
\* (bull.config.js:59-82).
THEOREM NoDuplicate == Spec => []NoAvoidableDuplicate
  <1>1. TypeOK /\ DeliveryInv => NoAvoidableDuplicate
    BY Types DEF DeliveryInv, WaitingIsClean, NoAvoidableDuplicate
  <1> QED BY <1>1, DeliveryInvariance, PTL

-----------------------------------------------------------------------------
\* The delivery contract: under DeliveryInv each step is a step of it or leaves
\* its variables alone.

LEMMA ContractInit == Init => Contract!Init
  BY DEF Init, Contract!Init

\* Starting a run is Begin: a waiting job has no copy that is not excused.
LEMMA TakeIsBegin ==
    ASSUME TypeOK, DeliveryInv, NEW s \in Slots, NEW m \in Msgs, TakeStep(s, m)
    PROVE  Contract!Begin(m) \/ UNCHANGED Contract!vars
  <1>1. CASE TakeJob(s, m) \/ TakeUnknownModem(s, m)
    <2>1. \E p, d : Take(s, m, p, d) /\ StartRun(s, m)
      BY <1>1 DEF TakeJob, TakeUnknownModem
    <2>2. job[m] = "wait" /\ UNCHANGED <<copies, excused>>
          /\ runs' = [runs EXCEPT ![m] = @ + 1]
      BY <2>1 DEF Take, StartRun
    <2>3. copies[m] \subseteq excused[m]
      BY <2>2 DEF DeliveryInv, WaitingIsClean
    <2> QED BY <2>2, <2>3 DEF Contract!Begin
  <1>2. CASE TakeDeferred(s, m)
    BY <1>2 DEF TakeDeferred, Take, Contract!vars
  <1> QED BY <1>1, <1>2 DEF TakeStep

\* What a call does to a copy, it does to the latest run's or to an excused
\* one's.
LEMMA SendIsContract ==
    ASSUME TypeOK, DeliveryInv, NEW s \in Slots, SendStep(s)
    PROVE  Contract!Next \/ UNCHANGED Contract!vars
  <1> DEFINE n == serves[s]
  <1> USE DEF DeliveryInv
  <1>1. CASE HandOver(s) \/ ModemRefuses(s) \/ AnswerLost(s)
    <2>1. n \in Msgs /\ run[s] >= 1 /\ run[s] <= runs[n] /\ run[s] \in Nat
          /\ runs[n] \in Nat /\ phase[s] \in {"queued", "handed"}
      BY <1>1, Types DEF HandOver, ModemRefuses, AnswerLost, BusySlots, Working
    <2>2. run[s] \in 1..runs[n]
      BY <2>1
    <2>3. run[s] = runs[n] \/ run[s] \in excused[n]
      BY <2>1 DEF UnexcusedIsCurrent
    <2>4. CASE HandOver(s)
      BY <2>1, <2>2, <2>3, <2>4 DEF HandOver, Contract!Next, Contract!HandOver
    <2>5. CASE ModemRefuses(s)
      <3>1. /\ copies' = [copies EXCEPT ![n] = @ \ {run[s]}]
            /\ UNCHANGED <<runs, excused>>
        BY <2>5 DEF ModemRefuses, SendFails
      <3>2. CASE run[s] \in copies[n]
        BY <2>1, <2>2, <3>1, <3>2 DEF Contract!Next, Contract!Refuse
      <3>3. CASE run[s] \notin copies[n]
        <4>1. copies[n] \ {run[s]} = copies[n]
          BY <3>3
        <4>2. copies' = copies
          BY <3>1, <4>1, <2>1 DEF TypeOK, HistoryType
        <4> QED BY <3>1, <4>2 DEF Contract!vars
      <3> QED BY <3>2, <3>3
    <2>6. CASE AnswerLost(s)
      BY <2>1, <2>2, <2>6 DEF AnswerLost, SendFails, Contract!Next, Contract!Doubt
    <2> QED BY <1>1, <2>4, <2>5, <2>6
  <1>2. CASE JoinChain(s) \/ FailsEarly(s) \/ ConfirmTimesOut(s) \/ Confirmed(s)
             \/ NotifySent(s) \/ Complete(s) \/ MoveToFailed(s) \/ DropResult(s)
    BY <1>2 DEF JoinChain, FailsEarly, SendFails, ConfirmTimesOut, Confirmed, NotifySent,
                Complete, MoveToFailed, DropResult, Contract!vars
  <1> QED BY <1>1, <1>2 DEF SendStep

\* A stall gives the job's latest run up as unknown.
LEMMA StallIsDoubt ==
    ASSUME TypeOK, DeliveryInv, NEW m \in Msgs, Stall(m)
    PROVE  Contract!Next
  <1>1. job[m] = "active" /\ runs[m] >= 1 /\ runs[m] \in Nat
    BY Types DEF Stall, DeliveryInv, RunsBegun
  <1>2. runs[m] \in 1..runs[m]
    BY <1>1
  <1> QED BY <1>2 DEF Stall, Contract!Next, Contract!Doubt

LEMMA ContractNext ==
    TypeOK /\ DeliveryInv /\ [Next]_vars => [Contract!Next]_(Contract!vars)
  <1> SUFFICES ASSUME TypeOK, DeliveryInv, [Next]_vars
               PROVE  Contract!Next \/ UNCHANGED Contract!vars
    OBVIOUS
  <1>1. ASSUME NEW s \in Slots, NEW m \in Msgs, TakeStep(s, m)
        PROVE  Contract!Next \/ UNCHANGED Contract!vars
    BY <1>1, TakeIsBegin DEF Contract!Next
  <1>2. ASSUME NEW m \in Msgs, HttpStep(m) \/ HandlerStep(m) \/ Promote(m) \/ LoseLock(m)
        PROVE  UNCHANGED Contract!vars
    BY <1>2 DEF HttpStep, PostSend, AddJob, RecordRefusal, NotifyRefusal, HandlerStep,
                HandlerUpdate, HandlerNotify, HandlerBalance, Promote, LoseLock,
                Contract!vars
  <1>3. CASE Crash \/ UNCHANGED vars \/ \E d \in Modems : BalanceWindowEnds(d)
    BY <1>3 DEF Crash, vars, BalanceWindowEnds, Contract!vars
  <1> QED BY <1>1, <1>2, <1>3, SendIsContract, StallIsDoubt DEF Next, ProcessStep

\* The pipeline implements the delivery contract: a message is tried again
\* only when no earlier try can have reached the network, except tries whose
\* fate nobody could learn (bull.config.js:59-67, 79-82).
THEOREM Implementation == Spec => ImplementsContract
  <1>1. Init => Contract!Init
    BY ContractInit
  <1>2. TypeOK /\ DeliveryInv /\ [Next]_vars => [Contract!Next]_(Contract!vars)
    BY ContractNext
  <1> QED BY <1>1, <1>2, DeliveryInvariance, PTL DEF Spec, ImplementsContract, Contract!Spec
=============================================================================

---------------------------- MODULE OutcomeProofs ----------------------------
(***************************************************************************)
(* Further theorems about SendPipeline for every instance: the number of   *)
(* runs is bounded by the retry and stall limits, and a row that says      *)
(* `failed` hides no message the gateway knew it had handed over.  Then    *)
(* what the delivery contract says by itself and, for CallbackPath, that   *)
(* the pipeline and the webhook queue together keep what each promises,    *)
(* from the row to the receiver.                                           *)
(***************************************************************************)
EXTENDS DeliveryProofs, CallbackPath, FiniteSetTheorems

\* The proofs about the webhook queue, read for the queue of CallbackPath.
WP == INSTANCE WebhookProofs
          WITH Statuses <- Terminal \union {"retrying"},
               Attempts <- HookAttempts,
               HookStalled <- MaxStalled,
               Concurrency <- HookConcurrency,
               MaxCrashes <- MaxFaults,
               crashes <- Restarts

USE DEF rowVars, jobVars, slotVars, handlerVars

-----------------------------------------------------------------------------
\* Runs are paid for.

LEMMA PaidFrame ==
    ASSUME NEW m, Paid(m), job'[m] = job[m], made'[m] = made[m],
           stalls'[m] = stalls[m], runs'[m] = runs[m]
    PROVE  Paid(m)'
  BY DEF Paid, Recovered

\* The job of a call that owns it is active.
LEMMA OwnedIsActive ==
    ASSUME TypeOK, DeliveryInv, NEW s \in Slots, Owns(s), phase[s] # "idle"
    PROVE  serves[s] \in Msgs /\ job[serves[s]] = "active"
  BY Types DEF Owns, DeliveryInv, BusySlots, OwnerWorks

LEMMA PaidSend ==
    ASSUME TypeOK, DeliveryInv, RunsPaid, NEW s \in Slots, SendStep(s)
    PROVE  RunsPaid'
  <1> DEFINE n == serves[s]
  <1> SUFFICES ASSUME NEW m \in Msgs PROVE Paid(m)'
    BY DEF RunsPaid
  <1>1. Paid(m) /\ made[m] \in Nat /\ stalls[m] \in Nat /\ runs[m] \in Nat
        /\ MaxAttempts \in Nat /\ MaxStalled \in Nat
    BY LimitsAssumption DEF RunsPaid, TypeOK, JobType, HistoryType
  <1>2. CASE Complete(s)
    <2>1. n \in Msgs /\ job[n] = "active"
      BY <1>2, OwnedIsActive DEF Complete
    <2>2. /\ UNCHANGED <<made, stalls, runs>>
          /\ job'[m] = IF m = n THEN "completed" ELSE job[m]
      BY <1>2 DEF Complete, TypeOK, JobType
    <2> QED BY <1>1, <2>1, <2>2 DEF Paid, Recovered
  <1>3. CASE MoveToFailed(s)
    <2>1. n \in Msgs /\ job[n] = "active"
      BY <1>3, OwnedIsActive DEF MoveToFailed
    <2>2. UNCHANGED <<stalls, runs>>
      BY <1>3 DEF MoveToFailed
    <2>3. CASE m # n
      <3>1. job'[m] = job[m] /\ made'[m] = made[m]
        BY <1>3, <2>3 DEF MoveToFailed, TypeOK, JobType
      <3> QED BY <1>1, <2>2, <3>1, PaidFrame
    <2>4. CASE m = n
      <3>1. /\ made'[m] = made[m] + 1
            /\ \/ job'[m] = "failed"
               \/ job'[m] = "delayed" /\ ~(made[m] + 1 >= MaxAttempts)
        BY <1>3, <2>4 DEF MoveToFailed, IsFinal, TypeOK, JobType
      <3>2. /\ made[m] < MaxAttempts
            /\ stalls[m] <= MaxStalled => runs[m] <= made[m] + stalls[m] + 1
            /\ stalls[m] > MaxStalled => runs[m] <= made[m] + MaxStalled + 1
        BY <1>1, <2>1, <2>4 DEF Paid
      <3> QED BY <1>1, <2>2, <3>1, <3>2 DEF Paid, Recovered
    <2> QED BY <2>3, <2>4
  <1>4. CASE UNCHANGED <<job, made, stalls, runs>>
    BY <1>1, <1>4, PaidFrame
  <1> QED BY <1>2, <1>3, <1>4
          DEF SendStep, JoinChain, HandOver, FailsEarly, ModemRefuses, AnswerLost, SendFails,
              ConfirmTimesOut, Confirmed, NotifySent, DropResult

LEMMA PaidTake ==
    ASSUME TypeOK, RunsPaid, NEW s \in Slots, NEW n \in Msgs, TakeStep(s, n)
    PROVE  RunsPaid'
  <1> SUFFICES ASSUME NEW m \in Msgs PROVE Paid(m)'
    BY DEF RunsPaid
  <1>1. Paid(m) /\ made[m] \in Nat /\ stalls[m] \in Nat /\ runs[m] \in Nat
        /\ MaxAttempts \in Nat /\ MaxStalled \in Nat
    BY LimitsAssumption DEF RunsPaid, TypeOK, JobType, HistoryType
  <1>2. /\ job[n] = "wait" /\ UNCHANGED <<made, stalls>>
        /\ job'[m] = IF m = n THEN "active" ELSE job[m]
        /\ \/ stalls[n] <= MaxStalled /\ runs'[m] = IF m = n THEN runs[m] + 1 ELSE runs[m]
           \/ stalls[n] > MaxStalled /\ runs'[m] = runs[m]
    BY DEF TakeStep, TakeJob, TakeUnknownModem, TakeDeferred, Take, StartRun, TypeOK,
           JobType, HistoryType
  <1> QED BY <1>1, <1>2 DEF Paid, Recovered

LEMMA PaidNext == TypeOK /\ DeliveryInv /\ RunsPaid /\ [Next]_vars => RunsPaid'
  <1> SUFFICES ASSUME TypeOK, DeliveryInv, RunsPaid, [Next]_vars
               PROVE  RunsPaid'
    OBVIOUS
  <1>1. ASSUME NEW n \in Msgs, AddJob(n) \/ Promote(n) \/ Stall(n)
        PROVE  RunsPaid'
    <2> SUFFICES ASSUME NEW m \in Msgs PROVE Paid(m)'
      BY DEF RunsPaid
    <2>1. Paid(m) /\ made[m] \in Nat /\ stalls[m] \in Nat /\ runs[m] \in Nat
          /\ MaxAttempts \in Nat /\ MaxStalled \in Nat
      BY LimitsAssumption DEF RunsPaid, TypeOK, JobType, HistoryType
    <2>2. CASE AddJob(n)
      <3>1. /\ job[n] = "none" /\ UNCHANGED <<made, stalls, runs>>
            /\ job'[m] = job[m] \/ (m = n /\ job'[m] = "wait")
        BY <2>2 DEF AddJob, DeliveryInv, JobPosted, TypeOK, JobType
      <3> QED BY <2>1, <3>1 DEF Paid, Recovered
    <2>3. CASE Promote(n)
      <3>1. /\ job[n] = "delayed" /\ UNCHANGED <<made, stalls, runs>>
            /\ job'[m] = IF m = n THEN "wait" ELSE job[m]
        BY <2>3 DEF Promote, TypeOK, JobType
      <3> QED BY <2>1, <3>1 DEF Paid, Recovered
    <2>4. CASE Stall(n)
      <3>1. /\ job[n] = "active" /\ UNCHANGED <<made, runs>>
            /\ job'[m] = IF m = n THEN "wait" ELSE job[m]
            /\ stalls'[m] = IF m = n THEN stalls[m] + 1 ELSE stalls[m]
        BY <2>4 DEF Stall, TypeOK, JobType
      <3> QED BY <2>1, <3>1 DEF Paid, Recovered
    <2> QED BY <1>1, <2>2, <2>3, <2>4
  <1>2. CASE UNCHANGED <<job, made, stalls, runs>>
    BY <1>2, PaidFrame DEF RunsPaid
  <1>3. CASE \/ \E m \in Msgs : PostSend(m) \/ RecordRefusal(m) \/ NotifyRefusal(m)
                                \/ HandlerStep(m) \/ LoseLock(m)
             \/ \E d \in Modems : BalanceWindowEnds(d)
             \/ Crash \/ UNCHANGED vars
    BY <1>2, <1>3
       DEF PostSend, RecordRefusal, NotifyRefusal, HandlerStep, HandlerUpdate, HandlerNotify,
           HandlerBalance, LoseLock, BalanceWindowEnds, Crash, vars
  <1> QED BY <1>1, <1>3, PaidSend, PaidTake DEF Next, ProcessStep, HttpStep

\* Whatever the limits, a message is tried MaxAttempts times, and once more only
\* for each stall BullMQ recovered (bull.config.js:14-20).
THEOREM BoundedRuns == Spec => []RunsBounded
  <1>1. Init => RunsPaid
    BY LimitsAssumption DEF Init, RunsPaid, Paid, Recovered
  <1>2. TypeOK /\ DeliveryInv /\ RunsPaid /\ [Next]_vars => RunsPaid'
    BY PaidNext
  <1>3. TypeOK /\ RunsPaid => RunsBounded
    <2> SUFFICES ASSUME TypeOK, RunsPaid, NEW m \in Msgs
                 PROVE  runs[m] <= MaxAttempts + Recovered(m)
      BY DEF RunsBounded
    <2>1. Paid(m) /\ made[m] \in Nat /\ stalls[m] \in Nat /\ runs[m] \in Nat
          /\ MaxAttempts \in Nat /\ MaxStalled \in Nat
          /\ job[m] \in {"none", "wait", "active", "delayed", "completed", "failed"}
      BY LimitsAssumption DEF RunsPaid, TypeOK, JobType, HistoryType
    <2> QED BY <2>1 DEF Paid, Recovered
  <1> QED BY <1>1, <1>2, <1>3, DeliveryInvariance, PTL DEF Spec

-----------------------------------------------------------------------------
\* What the handler records is true.

LEMMA TellsFrame ==
    ASSUME NEW m, HandlerTells(m) /\ FailedIsFinal(m),
           hStage'[m] = hStage[m] \/ hStage'[m] = "none",
           hStage'[m] # "none" => verdict'[m] = verdict[m],
           made'[m] = made[m], job'[m] = job[m],
           status'[m] = status[m] \/ status'[m] # "failed",
           http'[m] = http[m] \/ http'[m] # "appended",
           copies'[m] \subseteq copies[m] \/ copies'[m] \subseteq excused[m],
           excused[m] \subseteq excused'[m]
    PROVE  (HandlerTells(m) /\ FailedIsFinal(m))'
  BY DEF HandlerTells, FailedIsFinal, FailureStatus

LEMMA TellsHttp ==
    ASSUME TypeOK, DeliveryInv, HandlerInv, NEW n \in Msgs, HttpStep(n)
    PROVE  HandlerInv'
  <1> SUFFICES ASSUME NEW m \in Msgs PROVE (HandlerTells(m) /\ FailedIsFinal(m))'
    BY DEF HandlerInv
  <1>1. /\ HandlerTells(m) /\ FailedIsFinal(m)
        /\ http[m] \in {"idle", "appended", "rejected", "refused"} => job[m] = "none"
    BY DEF HandlerInv, DeliveryInv, JobPosted
  <1>2. UNCHANGED <<hStage, verdict, made, copies, excused>>
    BY DEF HttpStep, PostSend, AddJob, RecordRefusal, NotifyRefusal
  <1>3. CASE m # n
    <2>1. status'[m] = status[m] /\ http'[m] = http[m] /\ job'[m] = job[m]
      BY <1>3 DEF HttpStep, PostSend, AddJob, RecordRefusal, NotifyRefusal, UpdateLog,
                  TypeOK, RowType, JobType
    <2> QED BY <1>1, <1>2, <2>1, TellsFrame
  <1>4. CASE m = n /\ (PostSend(n) \/ NotifyRefusal(n))
    <2>1. /\ job' = job
          /\ \/ status'[m] = "pending"
             \/ status'[m] = status[m] /\ http'[m] = "error"
      BY <1>4 DEF PostSend, NotifyRefusal, UpdateLog, TypeOK, RowType
    <2> QED BY <1>1, <1>2, <2>1 DEF HandlerTells, FailedIsFinal, FailureStatus
  <1>5. CASE m = n /\ AddJob(n)
    <2>1. /\ http[m] = "appended" /\ job[m] = "none" /\ status' = status
          /\ job'[m] = "wait" \/ (job'[m] = "none" /\ http'[m] = "rejected")
      BY <1>1, <1>5 DEF AddJob, TypeOK, RowType, JobType
    <2> QED BY <1>1, <1>2, <2>1 DEF HandlerTells, FailedIsFinal, FailureStatus
  <1>6. CASE m = n /\ RecordRefusal(n)
    <2>1. /\ job[m] = "none" /\ job' = job
          /\ http'[m] \in {"refused", "error"}
      BY <1>1, <1>6 DEF RecordRefusal, TypeOK, RowType
    <2>2. copies[m] \subseteq excused[m]
      BY <2>1 DEF DeliveryInv, WaitingIsClean
    <2> QED BY <1>1, <1>2, <2>1, <2>2 DEF HandlerTells, FailedIsFinal, FailureStatus
  <1> QED BY <1>3, <1>4, <1>5, <1>6 DEF HttpStep

LEMMA TellsSend ==
    ASSUME TypeOK, DeliveryInv, HandlerInv, NEW s \in Slots, SendStep(s)
    PROVE  HandlerInv'
  <1> DEFINE n == serves[s]
  <1> SUFFICES ASSUME NEW m \in Msgs PROVE (HandlerTells(m) /\ FailedIsFinal(m))'
    BY DEF HandlerInv
  <1>1. /\ HandlerTells(m) /\ FailedIsFinal(m)
        /\ copies[m] \subseteq excused[m] \union {runs[m]}
    BY DEF HandlerInv, DeliveryInv, WaitingIsClean
  <1>2. CASE JoinChain(s) \/ FailsEarly(s) \/ ModemRefuses(s) \/ AnswerLost(s)
             \/ ConfirmTimesOut(s) \/ Confirmed(s) \/ NotifySent(s) \/ DropResult(s)
    <2>1. /\ UNCHANGED <<hStage, verdict, made, job, http>>
          /\ status'[m] = status[m] \/ status'[m] = "sent"
          /\ copies'[m] \subseteq copies[m] /\ excused[m] \subseteq excused'[m]
      BY <1>2 DEF JoinChain, FailsEarly, ModemRefuses, AnswerLost, SendFails, ConfirmTimesOut,
                  Confirmed, NotifySent, DropResult, UpdateLog, TypeOK, RowType, HistoryType
    <2> QED BY <1>1, <2>1, TellsFrame
  <1>3. CASE HandOver(s)
    <2>1. n \in Msgs /\ run[s] >= 1 /\ (run[s] \in excused[n] \/ job[n] = "active")
      BY <1>3 DEF HandOver, DeliveryInv, BusySlots, UnexcusedIsCurrent, Working
    <2>2. /\ UNCHANGED <<hStage, verdict, made, job, http, status, excused>>
          /\ copies'[m] = IF m = n THEN copies[m] \union {run[s]} ELSE copies[m]
      BY <1>3 DEF HandOver, TypeOK, HistoryType
    <2> QED BY <1>1, <2>1, <2>2 DEF HandlerTells, FailedIsFinal, FailureStatus
  <1>4. CASE Complete(s)
    <2>1. n \in Msgs /\ job[n] = "active"
      BY <1>4, OwnedIsActive DEF Complete
    <2>2. /\ UNCHANGED <<hStage, verdict, made, http, status, copies, excused>>
          /\ job'[m] = IF m = n THEN "completed" ELSE job[m]
      BY <1>4 DEF Complete, TypeOK, JobType
    <2> QED BY <1>1, <2>1, <2>2 DEF HandlerTells, FailedIsFinal, FailureStatus
  <1>5. CASE MoveToFailed(s)
    <2>1. n \in Msgs /\ job[n] = "active"
      BY <1>5, OwnedIsActive DEF MoveToFailed
    <2>2. UNCHANGED <<http, status, copies, excused>>
      BY <1>5 DEF MoveToFailed
    <2>3. CASE m # n
      <3>1. job'[m] = job[m] /\ made'[m] = made[m] /\ hStage'[m] = hStage[m]
            /\ verdict'[m] = verdict[m]
        BY <1>5, <2>3 DEF MoveToFailed, TypeOK, JobType, HandlerType
      <3> QED BY <1>1, <2>2, <3>1, TellsFrame
    <2>4. CASE m = n
      <3> DEFINE v == IF phase[s] = "aborting" THEN "unrecoverable" ELSE "plain"
      <3>1. /\ verdict'[m] = v /\ made'[m] = made[m] + 1
            /\ job'[m] = IF IsFinal(v, made[m] + 1) THEN "failed" ELSE "delayed"
            /\ phase[s] \in {"failing", "aborting"}
        BY <1>5, <2>4 DEF MoveToFailed, TypeOK, JobType, HandlerType
      <3>2. v # "unrecoverable" => copies[m] \subseteq excused[m]
        BY <1>1, <1>5, <2>4, <3>1, Types
           DEF MoveToFailed, Owns, DeliveryInv, NoCopyYet, OwnerWorks
      <3>3. status[m] # "failed"
        BY <1>1, <2>1, <2>4 DEF FailedIsFinal
      <3> HIDE DEF v
      <3>4. HandlerTells(m)'
        BY <2>2, <3>1, <3>2 DEF HandlerTells, FailureStatus, IsFinal
      <3> QED BY <2>2, <3>3, <3>4 DEF FailedIsFinal
    <2> QED BY <2>3, <2>4
  <1> QED BY <1>2, <1>3, <1>4, <1>5 DEF SendStep

LEMMA TellsHandler ==
    ASSUME TypeOK, HandlerInv, NEW n \in Msgs, HandlerStep(n)
    PROVE  HandlerInv'
  <1> SUFFICES ASSUME NEW m \in Msgs PROVE (HandlerTells(m) /\ FailedIsFinal(m))'
    BY DEF HandlerInv
  <1>1. /\ HandlerTells(m) /\ FailedIsFinal(m)
        /\ UNCHANGED <<http, job, made, copies, excused>>
    BY DEF HandlerInv, HandlerStep, HandlerUpdate, HandlerNotify, HandlerBalance
  <1>2. /\ hStage[n] # "none"
        /\ m # n => hStage'[m] = hStage[m] /\ verdict'[m] = verdict[m]
        /\ hStage'[n] # "none" => verdict'[n] = verdict[n]
    BY DEF HandlerStep, HandlerUpdate, HandlerNotify, HandlerBalance, Leave, TypeOK, HandlerType
  <1>3. status'[m] = status[m] \/ (m = n /\ status'[m] = FailureStatus(m))
    BY DEF HandlerStep, HandlerUpdate, HandlerNotify, HandlerBalance, UpdateLog, TypeOK, RowType
  <1>4. HandlerTells(m)'
    BY <1>1, <1>2 DEF HandlerTells, FailureStatus
  <1>5. FailureStatus(m) = "failed" => verdict[m] # "unrecoverable"
    BY DEF FailureStatus
  <1>6. FailedIsFinal(m)'
    BY <1>1, <1>2, <1>3, <1>5 DEF HandlerTells, FailedIsFinal
  <1> QED BY <1>4, <1>6

LEMMA TellsQueue ==
    ASSUME TypeOK, DeliveryInv, HandlerInv, NEW n \in Msgs,
           \/ Promote(n) \/ LoseLock(n) \/ Stall(n) \/ \E s \in Slots : TakeStep(s, n)
    PROVE  HandlerInv'
  <1> SUFFICES ASSUME NEW m \in Msgs PROVE (HandlerTells(m) /\ FailedIsFinal(m))'
    BY DEF HandlerInv
  <1>1. /\ HandlerTells(m) /\ FailedIsFinal(m)
        /\ UNCHANGED <<http, status, hStage, verdict, made, copies>>
        /\ excused[m] \subseteq excused'[m]
    BY DEF HandlerInv, Promote, LoseLock, Stall, TakeStep, TakeJob, TakeUnknownModem,
           TakeDeferred, Take, TypeOK, HistoryType
  <1>2. \/ job'[m] = job[m]
        \/ /\ m = n /\ job[m] \in {"delayed", "active", "wait"}
           /\ hStage[m] = "none" \/ job[m] # "delayed"
    BY DEF Promote, LoseLock, Stall, TakeStep, TakeJob, TakeUnknownModem, TakeDeferred, Take,
           TypeOK, JobType
  <1> QED BY <1>1, <1>2 DEF HandlerTells, FailedIsFinal, FailureStatus

LEMMA TellsNext == TypeOK /\ DeliveryInv /\ HandlerInv /\ [Next]_vars => HandlerInv'
  <1> SUFFICES ASSUME TypeOK, DeliveryInv, HandlerInv, [Next]_vars
               PROVE  HandlerInv'
    OBVIOUS
  <1>1. CASE UNCHANGED vars \/ \E d \in Modems : BalanceWindowEnds(d)
    <2>1. UNCHANGED <<http, status, job, hStage, verdict, made, copies, excused>>
      BY <1>1 DEF vars, BalanceWindowEnds
    <2> QED BY <2>1, TellsFrame DEF HandlerInv
  <1>2. CASE Crash
    <2> SUFFICES ASSUME NEW m \in Msgs PROVE (HandlerTells(m) /\ FailedIsFinal(m))'
      BY DEF HandlerInv
    <2>1. /\ hStage'[m] = "none" /\ UNCHANGED <<status, job, made, copies, excused>>
          /\ http'[m] = http[m] \/ http'[m] = "gone"
      BY <1>2 DEF Crash
    <2> QED BY <2>1, TellsFrame DEF HandlerInv
  <1> QED BY <1>1, <1>2, TellsHttp, TellsSend, TellsHandler, TellsQueue DEF Next, ProcessStep

\* A row that says `failed` hides no message the gateway knew it had handed
\* over, whichever stalled run or late handler wrote it
\* (bull.config.js:114-133, router.js:129-134).
THEOREM FailedIsUnsent == Spec => []FailedMeansUnsent
  <1>1. Init => HandlerInv
    BY DEF Init, HandlerInv, HandlerTells, FailedIsFinal
  <1>2. TypeOK /\ DeliveryInv /\ HandlerInv /\ [Next]_vars => HandlerInv'
    BY TellsNext
  <1>3. HandlerInv => FailedMeansUnsent
    BY DEF HandlerInv, FailedIsFinal, FailedMeansUnsent
  <1> QED BY <1>1, <1>2, <1>3, DeliveryInvariance, PTL DEF Spec

-----------------------------------------------------------------------------
\* A job that never stalled ends once.

\* Steps that write no row and no callback of m.
LEMMA OnceFrame ==
    ASSUME NEW m, Once(m), stalls'[m] = stalls[m], job'[m] = job[m],
           status'[m] = status[m], callbacks'[m] = callbacks[m],
           http'[m] = http[m] \/ http'[m] \in {"error", "gone"},
           hStage'[m] = hStage[m] \/ hStage'[m] \in {"none", "balance"},
           \A s \in Slots : At(s, m)' =>
               At(s, m) /\ (phase'[s] \in {phase[s], "returning"}
                               \/ phase[s] \notin {"sent", "returning"})
    PROVE  Once(m)'
  <1> SUFFICES ASSUME stalls[m] = 0
               PROVE  Sole(m)' /\ LastWord(m)' /\ (status'[m] \in Terminal => RowClosed(m)')
    BY DEF Once
  <1>1. Sole(m) /\ LastWord(m) /\ (status[m] \in Terminal => RowClosed(m))
    BY DEF Once
  <1>2. Sole(m)'
    BY <1>1 DEF Sole
  <1>3. RowClosed(m) => RowClosed(m)'
    BY DEF RowClosed
  <1>4. CallsClosed(m) => CallsClosed(m)'
    BY DEF CallsClosed
  <1>5. LastWord(m)'
    BY <1>1, <1>4 DEF LastWord
  <1> QED BY <1>1, <1>2, <1>3, <1>5

\* Steps that write the row, or start what will.
LEMMA OnceRow ==
    ASSUME NEW m, Once(m), Len(callbacks[m]) \in Nat,
           stalls'[m] = stalls[m], callbacks'[m] = callbacks[m],
           stalls[m] = 0 => /\ ~CallsClosed(m) /\ Sole(m)'
                            /\ status'[m] \in Terminal => RowClosed(m)'
    PROVE  Once(m)'
  <1>1. stalls[m] = 0 => LastWord(m)'
    BY DEF Once, LastWord
  <1> QED BY <1>1 DEF Once

\* The step that adds a callback.
LEMMA OnceCall ==
    ASSUME NEW m, NEW st, NEW S, Once(m), callbacks[m] \in Seq(S), st \in S,
           stalls'[m] = stalls[m], callbacks'[m] = Append(callbacks[m], st),
           stalls[m] = 0 => /\ ~CallsClosed(m) /\ Sole(m)'
                            /\ status'[m] \in Terminal => RowClosed(m)'
                            /\ st # "retrying" => CallsClosed(m)'
    PROVE  Once(m)'
  <1> DEFINE q == callbacks[m]
             n == Len(q)
  <1>1. n \in Nat /\ Len(Append(q, st)) = n + 1 /\ Append(q, st)[n + 1] = st
        /\ \A i \in 1..n : Append(q, st)[i] = q[i]
    OBVIOUS
  <1>2. ASSUME stalls[m] = 0
        PROVE  \A i \in 1..n : q[i] = "retrying"
    <2>1. /\ \A i \in 1..n - 1 : q[i] = "retrying"
          /\ n > 0 => q[n] = "retrying"
      BY <1>2 DEF Once, LastWord
    <2>2. \A i \in 1..n : i \in 1..n - 1 \/ (i = n /\ n > 0)
      BY <1>1
    <2> QED BY <2>1, <2>2
  <1>3. Len(callbacks'[m]) = n + 1 /\ callbacks'[m][n + 1] = st
        /\ \A i \in 1..n : callbacks'[m][i] = q[i]
    BY <1>1
  <1>4. (1..n + 1 - 1) = 1..n
    BY <1>1
  <1>5. stalls[m] = 0 => LastWord(m)'
    BY <1>2, <1>3, <1>4 DEF LastWord
  <1> QED BY <1>5 DEF Once

\* The step after which nothing more is written.
LEMMA OnceClosed ==
    ASSUME NEW m, Once(m), stalls'[m] = stalls[m], callbacks'[m] = callbacks[m],
           stalls[m] = 0 => Sole(m)' /\ CallsClosed(m)' /\ RowClosed(m)'
    PROVE  Once(m)'
  BY DEF Once, LastWord

LEMMA EndsFrame ==
    ASSUME NEW m, HandlerEnds(m),
           hStage'[m] # "none" => /\ hStage[m] # "none" /\ verdict'[m] = verdict[m]
                                  /\ made'[m] = made[m] /\ job'[m] = job[m]
    PROVE  HandlerEnds(m)'
  BY DEF HandlerEnds, FailureStatus

\* What EnqueueWebhook does to the list of one message.
LEMMA EnqueueCall ==
    ASSUME TypeOK, NEW m \in Msgs, NEW n \in Msgs, NEW st, EnqueueWebhook(n, st)
    PROVE  \/ callbacks'[m] = callbacks[m]
           \/ m = n /\ callbacks'[m] = Append(callbacks[m], st)
  BY DEF EnqueueWebhook, TypeOK, RowType

LEMMA Listed ==
    ASSUME TypeOK, NEW m \in Msgs
    PROVE  /\ callbacks[m] \in Seq(Terminal \union {"retrying"})
           /\ Len(callbacks[m]) \in Nat
  BY DEF TypeOK, RowType

LEMMA OnceHttp ==
    ASSUME TypeOK, DeliveryInv, NEW m \in Msgs, HandlerEnds(m), Once(m),
           NEW n \in Msgs, HttpStep(n)
    PROVE  HandlerEnds(m)' /\ Once(m)'
  <1>1. /\ UNCHANGED <<hStage, verdict, made, stalls, phase, serves>>
        /\ http[m] \in {"idle", "appended", "rejected", "refused"} => job[m] = "none"
    BY DEF HttpStep, PostSend, AddJob, RecordRefusal, NotifyRefusal, DeliveryInv, JobPosted
  <1>2. job'[m] = job[m] \/ (job[m] = "none" /\ m = n)
    BY <1>1 DEF HttpStep, PostSend, AddJob, RecordRefusal, NotifyRefusal, TypeOK, JobType
  <1>3. HandlerEnds(m)'
    BY <1>1, <1>2, EndsFrame DEF HandlerEnds
  <1>4. \A s \in Slots : At(s, m)' <=> At(s, m)
    BY <1>1 DEF At
  <1>5. CASE m # n
    <2>1. /\ status'[m] = status[m] /\ http'[m] = http[m] /\ job'[m] = job[m]
          /\ callbacks'[m] = callbacks[m]
      BY <1>5, EnqueueCall DEF HttpStep, PostSend, AddJob, RecordRefusal, NotifyRefusal, UpdateLog,
                  TypeOK, RowType, JobType
    <2> QED BY <1>1, <1>3, <1>4, <2>1, OnceFrame
  <1>6. CASE m = n /\ PostSend(n)
    <2>1. job' = job /\ callbacks' = callbacks /\ http[m] = "idle" /\ job[m] = "none"
          /\ \/ status'[m] = "pending"
             \/ status'[m] = status[m] /\ http'[m] = "error"
      BY <1>1, <1>6 DEF PostSend, UpdateLog, TypeOK, RowType
    <2>2. ~CallsClosed(m)
      BY <2>1 DEF CallsClosed
    <2>3. stalls[m] = 0 => Sole(m)'
      BY <1>1, <1>4, <2>1 DEF Once, Sole
    <2>4. CASE status'[m] = "pending"
      BY <1>1, <1>3, <2>1, <2>2, <2>3, <2>4, Listed, OnceRow DEF Terminal
    <2>5. CASE status'[m] = status[m] /\ http'[m] = "error"
      BY <1>1, <1>3, <1>4, <2>1, <2>5, OnceFrame
    <2> QED BY <2>1, <2>4, <2>5
  <1>7. CASE m = n /\ AddJob(n)
    <2>1. /\ http[m] = "appended" /\ job[m] = "none" /\ status' = status /\ callbacks' = callbacks
      BY <1>1, <1>7 DEF AddJob
    <2>2. ~CallsClosed(m) /\ ~RowClosed(m)
      BY <2>1 DEF CallsClosed, RowClosed
    <2>3. stalls[m] = 0 => Sole(m)' /\ status[m] \notin Terminal
      BY <1>1, <1>4, <2>1, <2>2 DEF Once, Sole
    <2> QED BY <1>1, <1>3, <2>1, <2>2, <2>3, Listed, OnceRow
  <1>8. CASE m = n /\ RecordRefusal(n)
    <2>1. /\ http[m] = "rejected" /\ job[m] = "none" /\ job' = job /\ callbacks' = callbacks
          /\ http'[m] = "refused" \/ (http'[m] = "error" /\ status'[m] = status[m])
      BY <1>1, <1>8 DEF RecordRefusal, TypeOK, RowType
    <2>2. CASE http'[m] = "refused"
      <3>1. ~CallsClosed(m) /\ RowClosed(m)'
        BY <2>1, <2>2 DEF CallsClosed, RowClosed
      <3>2. stalls[m] = 0 => Sole(m)'
        BY <1>1, <1>4, <2>1 DEF Once, Sole
      <3> QED BY <1>1, <1>3, <2>1, <3>1, <3>2, Listed, OnceRow
    <2>3. CASE http'[m] = "error" /\ status'[m] = status[m]
      BY <1>1, <1>3, <1>4, <2>1, <2>3, OnceFrame
    <2> QED BY <2>1, <2>2, <2>3
  <1>9. CASE m = n /\ NotifyRefusal(n)
    <2>1. /\ http[m] = "refused" /\ job[m] = "none" /\ job' = job /\ status' = status
          /\ http'[m] = "error"
          /\ callbacks'[m] = callbacks[m] \/ callbacks'[m] = Append(callbacks[m], "failed")
      BY <1>1, <1>9, EnqueueCall DEF NotifyRefusal, TypeOK, RowType
    <2>2. CASE callbacks'[m] = callbacks[m]
      BY <1>1, <1>3, <1>4, <2>1, <2>2, OnceFrame
    <2>3. CASE callbacks'[m] = Append(callbacks[m], "failed")
      <3>1. ~CallsClosed(m) /\ CallsClosed(m)' /\ RowClosed(m)'
        BY <2>1 DEF CallsClosed, RowClosed
      <3>2. stalls[m] = 0 => Sole(m)'
        BY <1>1, <1>4, <2>1 DEF Once, Sole
      <3>3. callbacks[m] \in Seq(Terminal \union {"retrying"})
            /\ "failed" \in Terminal \union {"retrying"}
        BY Listed DEF Terminal
      <3> QED BY <1>1, <1>3, <2>3, <3>1, <3>2, <3>3, OnceCall
    <2> QED BY <2>1, <2>2, <2>3
  <1> QED BY <1>5, <1>6, <1>7, <1>8, <1>9 DEF HttpStep

\* A call's step leaves the other messages alone.
LEMMA OtherMessage ==
    ASSUME TypeOK, DeliveryInv, NEW m \in Msgs, NEW s \in Slots, SendStep(s), m # serves[s]
    PROVE  /\ UNCHANGED <<http, stalls>>
           /\ hStage'[m] = hStage[m] /\ verdict'[m] = verdict[m] /\ hModem'[m] = hModem[m]
           /\ made'[m] = made[m] /\ job'[m] = job[m] /\ tried'[m] = tried[m]
           /\ status'[m] = status[m] /\ rowModem'[m] = rowModem[m]
           /\ callbacks'[m] = callbacks[m]
           /\ \A t \in Slots : /\ At(t, m)' <=> At(t, m)
                               /\ At(t, m) => phase'[t] = phase[t] /\ on'[t] = on[t]
  <1>0. phase[s] # "idle" /\ serves[s] \in Msgs
    <2>1. phase[s] # "idle"
      BY DEF SendStep, JoinChain, HandOver, FailsEarly, ModemRefuses, AnswerLost, SendFails,
             ConfirmTimesOut, Confirmed, NotifySent, Complete, MoveToFailed, DropResult
    <2> QED BY <2>1 DEF DeliveryInv, BusySlots
  <1>1. /\ UNCHANGED <<http, stalls>>
        /\ hStage'[m] = hStage[m] /\ verdict'[m] = verdict[m] /\ hModem'[m] = hModem[m]
        /\ made'[m] = made[m] /\ job'[m] = job[m]
    BY DEF SendStep, JoinChain, HandOver, FailsEarly, ModemRefuses, AnswerLost, SendFails,
           ConfirmTimesOut, Confirmed, NotifySent, Complete, MoveToFailed, DropResult,
           TypeOK, HandlerType, JobType
  <1>2. callbacks'[m] = callbacks[m]
    <2>1. CASE NotifySent(s)
      BY <1>0, <2>1, EnqueueCall DEF NotifySent
    <2>2. CASE ~NotifySent(s)
      BY <2>2 DEF SendStep, JoinChain, HandOver, FailsEarly, ModemRefuses, AnswerLost, SendFails,
           ConfirmTimesOut, Confirmed, Complete, MoveToFailed, DropResult
    <2> QED BY <2>1, <2>2
  <1>3. status'[m] = status[m] /\ rowModem'[m] = rowModem[m]
    <2>1. CASE Confirmed(s)
      BY <2>1 DEF Confirmed, UpdateLog, TypeOK, RowType
    <2>2. CASE ~Confirmed(s)
      BY <2>2 DEF SendStep, JoinChain, HandOver, FailsEarly, ModemRefuses, AnswerLost, SendFails,
           ConfirmTimesOut, NotifySent, Complete, MoveToFailed, DropResult
    <2> QED BY <2>1, <2>2
  <1>4. tried'[m] = tried[m]
    BY DEF SendStep, JoinChain, HandOver, FailsEarly, ModemRefuses, AnswerLost, SendFails,
           ConfirmTimesOut, Confirmed, NotifySent, Complete, MoveToFailed, DropResult,
           TypeOK, HistoryType
  <1>5. \/ Idle(s)
        \/ /\ serves' = serves /\ on' = on
           /\ phase'[s] # "idle" /\ \A t \in Slots \ {s} : phase'[t] = phase[t]
    BY DEF SendStep, JoinChain, HandOver, FailsEarly, ModemRefuses, AnswerLost, SendFails,
           ConfirmTimesOut, Confirmed, NotifySent, Complete, MoveToFailed, DropResult, Goto,
           TypeOK, SlotType
  <1>6. \A t \in Slots : /\ At(t, m)' <=> At(t, m)
                         /\ At(t, m) => phase'[t] = phase[t] /\ on'[t] = on[t]
    <2>1. CASE Idle(s)
      BY <2>1, IdleFacts DEF At
    <2>2. CASE ~Idle(s)
      BY <1>5, <2>2 DEF At
    <2> QED BY <2>1, <2>2
  <1> QED BY <1>1, <1>2, <1>3, <1>4, <1>6

LEMMA OnceOther ==
    ASSUME TypeOK, DeliveryInv, NEW m \in Msgs, HandlerEnds(m), Once(m),
           NEW s \in Slots, SendStep(s), m # serves[s]
    PROVE  HandlerEnds(m)' /\ Once(m)'
  <1>1. HandlerEnds(m)'
    BY OtherMessage, EndsFrame
  <1>2. \A t \in Slots : At(t, m)' => At(t, m) /\ phase'[t] = phase[t]
    BY OtherMessage
  <1> QED BY <1>1, <1>2, OtherMessage, OnceFrame

\* A call's step, for its own message.
LEMMA OnceOwn ==
    ASSUME TypeOK, DeliveryInv, NEW m \in Msgs, HandlerEnds(m), Once(m),
           NEW s \in Slots, SendStep(s), m = serves[s]
    PROVE  HandlerEnds(m)' /\ Once(m)'
  <1>0. phase[s] # "idle" /\ At(s, m)
    BY DEF SendStep, JoinChain, HandOver, FailsEarly, ModemRefuses, AnswerLost, SendFails,
           ConfirmTimesOut, Confirmed, NotifySent, Complete, MoveToFailed, DropResult, At
  <1>1. UNCHANGED <<http, stalls>>
    BY DEF SendStep, JoinChain, HandOver, FailsEarly, ModemRefuses, AnswerLost, SendFails,
           ConfirmTimesOut, Confirmed, NotifySent, Complete, MoveToFailed, DropResult
  <1>2. stalls[m] = 0 => /\ job[m] = "active" /\ hStage[m] = "none"
                         /\ \A t \in Slots : At(t, m) => t = s
    BY <1>0 DEF Once, Sole, HandlerEnds
  <1>3. CASE \/ JoinChain(s) \/ HandOver(s) \/ FailsEarly(s) \/ ModemRefuses(s)
             \/ AnswerLost(s) \/ ConfirmTimesOut(s)
    <2>1. /\ UNCHANGED <<job, status, callbacks, hStage, verdict, made, serves>>
          /\ phase[s] \notin {"sent", "returning"}
          /\ \A t \in Slots \ {s} : phase'[t] = phase[t]
      BY <1>3 DEF JoinChain, HandOver, FailsEarly, ModemRefuses, AnswerLost, SendFails,
           ConfirmTimesOut, Goto, TypeOK, SlotType
    <2>2. \A t \in Slots : At(t, m)' =>
             At(t, m) /\ (phase'[t] \in {phase[t], "returning"}
                               \/ phase[t] \notin {"sent", "returning"})
      BY <1>0, <2>1 DEF At
    <2>3. HandlerEnds(m)'
      BY <2>1, EndsFrame
    <2> QED BY <1>1, <2>1, <2>2, <2>3, OnceFrame
  <1>4. CASE Confirmed(s)
    <2>1. /\ UNCHANGED <<job, callbacks, hStage, verdict, made, serves>>
          /\ phase[s] = "handed"
          /\ \/ status'[m] = "sent" /\ phase'[s] = "sent"
             \/ status' = status /\ phase'[s] = "returning"
          /\ \A t \in Slots \ {s} : phase'[t] = phase[t]
      BY <1>4 DEF Confirmed, UpdateLog, Goto, TypeOK, SlotType, RowType
    <2>2. HandlerEnds(m)'
      BY <2>1, EndsFrame
    <2>3. \A t \in Slots : At(t, m)' <=> At(t, m)
      BY <1>0, <2>1 DEF At
    <2>4. CASE status' = status /\ phase'[s] = "returning"
      <3>1. \A t \in Slots : At(t, m)' =>
               At(t, m) /\ (phase'[t] \in {phase[t], "returning"}
                               \/ phase[t] \notin {"sent", "returning"})
        BY <2>1, <2>3, <2>4
      <3> QED BY <1>1, <2>1, <2>2, <2>4, <3>1, OnceFrame
    <2>5. CASE status'[m] = "sent" /\ phase'[s] = "sent"
      <3>1. stalls[m] = 0 => ~CallsClosed(m)
        BY <1>0, <1>2, <2>1 DEF CallsClosed
      <3>2. stalls[m] = 0 => Sole(m)'
        BY <1>2, <2>1, <2>3 DEF Sole
      <3>3. stalls[m] = 0 => RowClosed(m)'
        BY <1>2, <2>1, <2>3, <2>5 DEF RowClosed
      <3> QED BY <1>1, <2>1, <2>2, <3>1, <3>2, <3>3, Listed, OnceRow
    <2> QED BY <2>1, <2>4, <2>5
  <1>5. CASE NotifySent(s)
    <2>1. /\ UNCHANGED <<job, status, hStage, verdict, made, serves>>
          /\ phase[s] = "sent" /\ phase'[s] = "returning"
          /\ callbacks'[m] = callbacks[m] \/ callbacks'[m] = Append(callbacks[m], "sent")
          /\ \A t \in Slots \ {s} : phase'[t] = phase[t]
      BY <1>5, EnqueueCall DEF NotifySent, Goto, TypeOK, SlotType
    <2>2. HandlerEnds(m)'
      BY <2>1, EndsFrame
    <2>3. \A t \in Slots : At(t, m)' <=> At(t, m)
      BY <1>0, <2>1 DEF At
    <2>4. CASE callbacks'[m] = callbacks[m]
      <3>1. \A t \in Slots : At(t, m)' =>
               At(t, m) /\ (phase'[t] \in {phase[t], "returning"}
                               \/ phase[t] \notin {"sent", "returning"})
        BY <2>1, <2>3
      <3> QED BY <1>1, <2>1, <2>2, <2>4, <3>1, OnceFrame
    <2>5. CASE callbacks'[m] = Append(callbacks[m], "sent")
      <3>1. stalls[m] = 0 => ~CallsClosed(m)
        BY <1>0, <1>2, <2>1 DEF CallsClosed
      <3>2. stalls[m] = 0 => Sole(m)'
        BY <1>2, <2>1, <2>3 DEF Sole
      <3>3. stalls[m] = 0 => RowClosed(m)' /\ CallsClosed(m)'
        BY <1>2, <2>1, <2>3 DEF RowClosed, CallsClosed
      <3>4. callbacks[m] \in Seq(Terminal \union {"retrying"})
            /\ "sent" \in Terminal \union {"retrying"}
        BY Listed DEF Terminal
      <3> QED BY <1>1, <2>2, <2>5, <3>1, <3>2, <3>3, <3>4, OnceCall
    <2> QED BY <2>1, <2>4, <2>5
  <1>6. CASE Complete(s) \/ MoveToFailed(s) \/ DropResult(s)
    <2>0. Idle(s) /\ UNCHANGED <<status, callbacks>>
      BY <1>6 DEF Complete, MoveToFailed, DropResult
    <2>1. \A t \in Slots : At(t, m)' => At(t, m) /\ t # s /\ phase'[t] = phase[t]
      BY <2>0, IdleFacts DEF At
    <2>2. stalls[m] = 0 => Sole(m)' /\ \A t \in Slots : ~At(t, m)'
      BY <1>2, <2>1 DEF Sole
    <2>3. CASE DropResult(s)
      <3>1. UNCHANGED <<job, hStage, verdict, made>>
        BY <2>3 DEF DropResult
      <3> QED BY <1>1, <2>0, <2>1, <3>1, EndsFrame, OnceFrame
    <2>4. CASE Complete(s)
      <3>1. job'[m] = "completed" /\ UNCHANGED <<hStage, verdict, made>> /\ job[m] = "active"
        BY <2>4, OwnedIsActive DEF Complete, TypeOK, JobType
      <3>2. hStage[m] = "none"
        BY <3>1 DEF HandlerEnds
      <3>3. RowClosed(m)' /\ CallsClosed(m)'
        BY <3>1, <3>2 DEF RowClosed, CallsClosed
      <3>4. HandlerEnds(m)'
        BY <3>1, <3>2, EndsFrame
      <3> QED BY <1>1, <2>0, <2>2, <3>3, <3>4, OnceClosed
    <2>5. CASE MoveToFailed(s)
      <3> DEFINE v == IF phase[s] = "aborting" THEN "unrecoverable" ELSE "plain"
      <3>1. /\ verdict'[m] = v /\ made'[m] = made[m] + 1
            /\ job'[m] = IF IsFinal(v, made[m] + 1) THEN "failed" ELSE "delayed"
            /\ phase[s] \in {"failing", "aborting"}
        BY <2>5 DEF MoveToFailed, TypeOK, JobType, HandlerType
      <3>2. HandlerEnds(m)'
        BY <3>1 DEF HandlerEnds, FailureStatus, IsFinal
      <3>3. stalls[m] = 0 => ~CallsClosed(m) /\ ~RowClosed(m)
        BY <1>0, <1>2, <3>1 DEF CallsClosed, RowClosed
      <3>4. stalls[m] = 0 => status[m] \notin Terminal
        BY <3>3 DEF Once
      <3> QED BY <1>1, <2>0, <2>2, <3>2, <3>3, <3>4, Listed, OnceRow
    <2> QED BY <1>6, <2>3, <2>4, <2>5
  <1> QED BY <1>3, <1>4, <1>5, <1>6 DEF SendStep

LEMMA OnceHandler ==
    ASSUME TypeOK, NEW m \in Msgs, HandlerEnds(m), Once(m), NEW n \in Msgs, HandlerStep(n)
    PROVE  HandlerEnds(m)' /\ Once(m)'
  <1>1. /\ UNCHANGED <<http, job, made, stalls, phase, serves>>
        /\ hStage[n] # "none"
        /\ m # n => hStage'[m] = hStage[m] /\ verdict'[m] = verdict[m]
        /\ hStage'[n] # "none" => verdict'[n] = verdict[n]
    BY DEF HandlerStep, HandlerUpdate, HandlerNotify, HandlerBalance, Leave, TypeOK, HandlerType
  <1>2. HandlerEnds(m)'
    BY <1>1, EndsFrame
  <1>3. \A t \in Slots : (At(t, m)' <=> At(t, m)) /\ phase'[t] = phase[t]
    BY <1>1 DEF At
  <1>4. stalls[m] = 0 => Sole(m)'
    BY <1>1, <1>3 DEF Once, Sole
  <1>5. m = n => job[m] \in {"failed", "delayed"} /\ (FailureStatus(m) # "retrying" => job[m] = "failed")
    BY <1>1 DEF HandlerEnds
  <1>6. CASE HandlerUpdate(n)
    <2>1. /\ callbacks' = callbacks /\ hStage[n] = "update"
          /\ \/ /\ status'[m] = IF m = n THEN FailureStatus(m) ELSE status[m]
                /\ m = n => hStage'[m] = "notify"
             \/ /\ status' = status
                /\ m = n => hStage'[m] \in {"none", "balance"}
      BY <1>6 DEF HandlerUpdate, UpdateLog, Leave, AfterNotify, TypeOK, RowType, HandlerType
    <2>2. CASE m = n /\ status'[m] = FailureStatus(m) /\ hStage'[m] = "notify"
      <3>1. ~CallsClosed(m)
        BY <1>5, <2>1, <2>2 DEF CallsClosed
      <3>2. status'[m] \in Terminal => RowClosed(m)'
        BY <1>1, <1>5, <2>2 DEF RowClosed, Terminal
      <3> QED BY <1>1, <1>2, <1>4, <2>1, <3>1, <3>2, Listed, OnceRow
    <2>3. CASE status'[m] = status[m] /\ hStage'[m] \in {hStage[m], "none", "balance"}
      BY <1>1, <1>2, <1>3, <2>1, <2>3, OnceFrame
    <2> QED BY <1>1, <2>1, <2>2, <2>3
  <1>7. CASE HandlerNotify(n)
    <2>1. /\ status' = status /\ hStage[n] = "notify"
          /\ m = n => hStage'[m] \in {"none", "balance"}
          /\ \/ callbacks'[m] = callbacks[m]
             \/ m = n /\ callbacks'[m] = Append(callbacks[m], FailureStatus(m))
      BY <1>7, EnqueueCall DEF HandlerNotify, Leave, AfterNotify, TypeOK, HandlerType
    <2>2. CASE callbacks'[m] = callbacks[m]
      BY <1>1, <1>2, <1>3, <2>1, <2>2, OnceFrame
    <2>3. CASE m = n /\ callbacks'[m] = Append(callbacks[m], FailureStatus(m))
      <3>1. ~CallsClosed(m)
        BY <1>5, <2>1, <2>3 DEF CallsClosed
      <3>2. FailureStatus(m) # "retrying" => CallsClosed(m)'
        BY <1>1, <1>5, <2>1, <2>3 DEF CallsClosed
      <3>3. stalls[m] = 0 /\ status'[m] \in Terminal => RowClosed(m)'
        BY <1>1, <1>5, <2>1, <2>3 DEF Once, RowClosed
      <3>4. callbacks[m] \in Seq(Terminal \union {"retrying"})
            /\ FailureStatus(m) \in Terminal \union {"retrying"}
        BY Listed DEF Terminal, FailureStatus
      <3> QED BY <1>1, <1>2, <1>4, <2>3, <3>1, <3>2, <3>3, <3>4, OnceCall
    <2> QED BY <2>1, <2>2, <2>3
  <1>8. CASE HandlerBalance(n)
    <2>1. UNCHANGED <<status, callbacks>> /\ (m = n => hStage'[m] = "none")
      BY <1>8 DEF HandlerBalance, Leave, TypeOK, HandlerType
    <2> QED BY <1>1, <1>2, <1>3, <2>1, OnceFrame
  <1> QED BY <1>6, <1>7, <1>8 DEF HandlerStep

LEMMA OnceQueue ==
    ASSUME TypeOK, DeliveryInv, NEW m \in Msgs, HandlerEnds(m), Once(m), NEW n \in Msgs,
           \/ Promote(n) \/ LoseLock(n) \/ Stall(n) \/ \E s \in Slots : TakeStep(s, n)
    PROVE  HandlerEnds(m)' /\ Once(m)'
  <1>1. UNCHANGED <<http, status, callbacks, hStage, verdict, made>>
    BY DEF Promote, LoseLock, Stall, TakeStep, TakeJob, TakeUnknownModem, TakeDeferred, Take
  <1>2. \/ job'[m] = job[m]
        \/ /\ m = n /\ job[m] \in {"delayed", "active", "wait"}
           /\ hStage[m] = "none" \/ job[m] # "delayed"
    BY DEF Promote, LoseLock, Stall, TakeStep, TakeJob, TakeUnknownModem, TakeDeferred, Take,
           TypeOK, JobType
  <1>3. HandlerEnds(m)'
    BY <1>1, <1>2, EndsFrame DEF HandlerEnds
  <1>4. CASE Promote(n) \/ LoseLock(n) \/ Stall(n)
    <2>1. UNCHANGED <<phase, serves>>
      BY <1>4 DEF Promote, LoseLock, Stall
    <2>2. \A t \in Slots : (At(t, m)' <=> At(t, m)) /\ phase'[t] = phase[t]
      BY <2>1 DEF At
    <2>3. CASE job'[m] = job[m] /\ stalls'[m] = stalls[m]
      BY <1>1, <1>3, <2>2, <2>3, OnceFrame
    <2>4. CASE Promote(n) /\ m = n
      <3>1. job[m] = "delayed" /\ stalls' = stalls
        BY <2>4 DEF Promote
      <3>2. ~CallsClosed(m) /\ ~RowClosed(m)
        BY <3>1 DEF CallsClosed, RowClosed
      <3>3. stalls[m] = 0 => Sole(m)' /\ status[m] \notin Terminal
        BY <2>2, <3>1, <3>2 DEF Once, Sole
      <3> QED BY <1>1, <1>3, <3>1, <3>2, <3>3, Listed, OnceRow
    <2>5. CASE Stall(n) /\ m = n
      <3>1. stalls'[m] # 0
        BY <2>5, Types DEF Stall, TypeOK, JobType
      <3> QED BY <1>3, <3>1 DEF Once
    <2>6. m # n => job'[m] = job[m] /\ stalls'[m] = stalls[m]
      BY <1>4 DEF Promote, LoseLock, Stall, TypeOK, JobType
    <2>7. LoseLock(n) => UNCHANGED <<job, stalls>>
      BY DEF LoseLock
    <2> QED BY <1>4, <2>3, <2>4, <2>5, <2>6, <2>7
  <1>5. ASSUME NEW s \in Slots, TakeStep(s, n)
        PROVE  Once(m)'
    <2>1. /\ phase[s] = "idle" /\ job[n] = "wait" /\ job'[n] = "active" /\ stalls' = stalls
          /\ serves'[s] = n
          /\ \A t \in Slots \ {s} : serves'[t] = serves[t] /\ phase'[t] = phase[t]
          /\ m # n => job'[m] = job[m]
      BY <1>5 DEF TakeStep, TakeJob, TakeUnknownModem, TakeDeferred, Take, TypeOK, JobType, SlotType
    <2>2. CASE m # n
      <3>1. \A t \in Slots : At(t, m)' => At(t, m) /\ phase'[t] = phase[t]
        BY <2>1, <2>2 DEF At
      <3> QED BY <1>1, <2>1, <2>2, <3>1, OnceFrame
    <2>3. CASE m = n
      <3>1. ~CallsClosed(m) /\ ~RowClosed(m)
        BY <2>1, <2>3 DEF CallsClosed, RowClosed
      <3>2. \A t \in Slots : At(t, m)' => t = s \/ At(t, m)
        BY <2>1 DEF At
      <3>3. stalls[m] = 0 => Sole(m)' /\ status[m] \notin Terminal
        BY <2>1, <2>3, <3>1, <3>2 DEF Once, Sole
      <3> QED BY <1>1, <2>1, <3>1, <3>3, Listed, OnceRow
    <2> QED BY <2>2, <2>3
  <1> QED BY <1>3, <1>4, <1>5

LEMMA OutcomeNext == TypeOK /\ DeliveryInv /\ OutcomeInv /\ [Next]_vars => OutcomeInv'
  <1> SUFFICES ASSUME TypeOK, DeliveryInv, OutcomeInv, [Next]_vars, NEW m \in Msgs
               PROVE  HandlerEnds(m)' /\ Once(m)'
    BY DEF OutcomeInv
  <1>0. HandlerEnds(m) /\ Once(m)
    BY DEF OutcomeInv
  <1>1. CASE UNCHANGED vars \/ \E d \in Modems : BalanceWindowEnds(d)
    <2>1. UNCHANGED <<http, status, callbacks, stalls, job, hStage, verdict, made, phase, serves>>
      BY <1>1 DEF vars, BalanceWindowEnds
    <2>2. \A t \in Slots : At(t, m)' => At(t, m) /\ phase'[t] = phase[t]
      BY <2>1 DEF At
    <2> QED BY <1>0, <2>1, <2>2, EndsFrame, OnceFrame
  <1>2. CASE Crash
    <2>1. /\ hStage'[m] = "none" /\ UNCHANGED <<status, callbacks, stalls, job, made>>
          /\ http'[m] = http[m] \/ http'[m] = "gone"
          /\ \A t \in Slots : ~At(t, m)'
      BY <1>2 DEF Crash, At
    <2>2. HandlerEnds(m)'
      BY <2>1 DEF HandlerEnds
    <2> QED BY <1>0, <2>1, <2>2, OnceFrame
  <1>3. CASE \E s \in Slots : SendStep(s)
    BY <1>0, <1>3, OnceOther, OnceOwn
  <1> QED BY <1>0, <1>1, <1>2, <1>3, OnceHttp, OnceHandler, OnceQueue DEF Next, ProcessStep

LEMMA OutcomeInvariance == Spec => [](TypeOK /\ DeliveryInv /\ OutcomeInv)
  <1>1. Init => OutcomeInv
    BY DEF Init, OutcomeInv, HandlerEnds, Once, Sole, At, LastWord, Terminal
  <1> QED BY <1>1, OutcomeNext, DeliveryInvariance, PTL DEF Spec

\* A subscriber hears a final status last and once, in the order the rows were
\* written, unless the job stalled (bull.config.js:78,133, router.js:134).
THEOREM FinalIsLast == Spec => []TerminalCallbackLast
  <1>1. OutcomeInv => TerminalCallbackLast
    BY DEF OutcomeInv, Once, LastWord, TerminalCallbackLast
  <1> QED BY <1>1, OutcomeInvariance, PTL

\* The steps that write a row.
LEMMA RowWriters ==
    ASSUME [Next]_vars
    PROVE  \/ status' = status
           \/ \E n \in Msgs : PostSend(n) \/ RecordRefusal(n) \/ HandlerUpdate(n)
           \/ \E s \in Slots : Confirmed(s)
  BY DEF Next, ProcessStep, HttpStep, AddJob, NotifyRefusal, HandlerStep, HandlerNotify,
      HandlerBalance, Promote, LoseLock, Stall, TakeStep, TakeJob, TakeUnknownModem,
      TakeDeferred, Take, SendStep, JoinChain, HandOver, FailsEarly, ModemRefuses,
      AnswerLost, SendFails, ConfirmTimesOut, NotifySent, Complete, MoveToFailed,
      DropResult, BalanceWindowEnds, Crash, vars

\* Once the row has its final status nothing changes it again, unless the job
\* stalled and ran a second time (bull.config.js:74-82, 114-133).
THEOREM FinalRowsStay == Spec => TerminalRowStable
  <1>1. ASSUME TypeOK, DeliveryInv, OutcomeInv, [Next]_vars, NEW m \in Msgs,
               status[m] \in Terminal, stalls[m] = 0
        PROVE  status'[m] = status[m]
    <2>1. RowClosed(m) /\ Sole(m) /\ HandlerEnds(m)
      BY <1>1 DEF OutcomeInv, Once
    <2>2. CASE \E n \in Msgs : PostSend(n) \/ RecordRefusal(n)
      <3>1. PICK n \in Msgs : PostSend(n) \/ RecordRefusal(n)
        BY <2>2
      <3>2. m = n => job[m] = "none" /\ http[m] \in {"idle", "rejected"}
        BY <1>1, <3>1 DEF PostSend, RecordRefusal, DeliveryInv, JobPosted
      <3>3. m # n
        BY <2>1, <3>2 DEF RowClosed
      <3> QED BY <1>1, <3>1, <3>3 DEF PostSend, RecordRefusal, UpdateLog, TypeOK, RowType
    <2>3. CASE \E n \in Msgs : HandlerUpdate(n)
      <3>1. PICK n \in Msgs : HandlerUpdate(n)
        BY <2>3
      <3>2. m = n => hStage[m] = "update" /\ job[m] \in {"failed", "delayed"}
        BY <2>1, <3>1 DEF HandlerUpdate, HandlerEnds
      <3>3. m # n
        BY <2>1, <3>2 DEF RowClosed
      <3> QED BY <1>1, <3>1, <3>3 DEF HandlerUpdate, UpdateLog, TypeOK, RowType
    <2>4. CASE \E s \in Slots : Confirmed(s)
      <3>1. PICK s \in Slots : Confirmed(s)
        BY <2>4
      <3>2. m = serves[s] => At(s, m) /\ phase[s] = "handed" /\ job[m] = "active"
        BY <2>1, <3>1 DEF Confirmed, At, Sole
      <3>3. m # serves[s]
        BY <2>1, <3>2 DEF RowClosed
      <3> QED BY <1>1, <3>1, <3>3 DEF Confirmed, UpdateLog, TypeOK, RowType
    <2>5. CASE status' = status
      BY <2>5
    <2> QED BY <1>1, <2>2, <2>3, <2>4, <2>5, RowWriters
  <1>2. TypeOK /\ DeliveryInv /\ OutcomeInv /\ [Next]_vars
        => [\A m \in Msgs : status[m] \in Terminal /\ stalls[m] = 0
                            => status'[m] = status[m]]_vars
    BY <1>1
  <1> QED BY <1>2, OutcomeInvariance, PTL DEF Spec, TerminalRowStable

-----------------------------------------------------------------------------
\* What went wrong stays on record.

\* One step of the pipeline tells the receivers of one status at most, and is
\* no restart.
LEMMA OneStatus ==
    ASSUME ProcessStep
    PROVE  /\ \/ callbacks' = callbacks
              \/ \E m \in Msgs : \E st \in Terminal \union {"retrying"} :
                    callbacks' = [callbacks EXCEPT ![m] = Append(@, st)]
           /\ \/ faults' = faults
              \/ \E k \in FaultKinds \ {"crash"} : faults' = Append(faults, k)
  <1>1. ASSUME NEW m, NEW st, EnqueueWebhook(m, st)
        PROVE  /\ \/ callbacks' = callbacks
                  \/ \E x \in Msgs : \E y \in Terminal \union {"retrying"} :
                        callbacks' = [callbacks EXCEPT ![x] = Append(@, y)]
               /\ \/ faults' = faults
                  \/ \E k \in FaultKinds \ {"crash"} : faults' = Append(faults, k)
    <2>1. CASE m \in Subscribed /\ ShouldNotify(st)
      <3>1. m \in Msgs /\ st \in Terminal \union {"retrying"}
        BY <2>1, SettingsAssumption DEF ShouldNotify
      <3> QED BY <1>1, <2>1, <3>1, Zenon DEF EnqueueWebhook, NoFault, Fault
    <2>2. CASE ~(m \in Subscribed /\ ShouldNotify(st))
      BY <1>1, <2>2 DEF EnqueueWebhook, NoFault
    <2> QED BY <2>1, <2>2
  <1>2. \/ \E m, st : EnqueueWebhook(m, st)
        \/ /\ callbacks' = callbacks
           /\ faults' = faults \/ Fault("db") \/ Fault("redis") \/ Fault("lock")
    BY DEF ProcessStep, HttpStep, PostSend, AddJob, RecordRefusal, NotifyRefusal, HandlerStep,
           HandlerUpdate, HandlerNotify, HandlerBalance, Promote, LoseLock, Stall, TakeStep,
           TakeJob, TakeUnknownModem, TakeDeferred, Take, SendStep, JoinChain, HandOver,
           FailsEarly, ModemRefuses, AnswerLost, SendFails, ConfirmTimesOut, Confirmed,
           NotifySent, Complete, MoveToFailed, DropResult, BalanceWindowEnds, NoFault
  <1>3. \A k : Fault(k) => k \in FaultKinds /\ faults' = Append(faults, k)
    BY DEF Fault
  <1> QED BY <1>1, <1>2, <1>3

LEMMA FaultsStay ==
    ASSUME TypeOK, [Next]_vars, NEW k, Happened(k)
    PROVE  Happened(k)'
  <1>1. faults' = faults \/ \E f \in FaultKinds : faults' = Append(faults, f)
    <2>1. CASE ProcessStep
      BY <2>1, OneStatus
    <2>2. CASE Crash \/ UNCHANGED vars
      BY <2>2 DEF Crash, Fault, vars
    <2> QED BY <2>1, <2>2 DEF Next
  <1>2. faults \in Seq(FaultKinds)
    BY DEF TypeOK, HistoryType
  <1> QED BY <1>1, <1>2 DEF Happened

LEMMA NoFaultOf ==
    ASSUME TypeOK, NEW k, ~Happened(k)'
    PROVE  ~Fault(k)
  <1> SUFFICES ASSUME Fault(k)
               PROVE  Happened(k)'
    OBVIOUS
  <1>1. faults \in Seq(FaultKinds) /\ k \in FaultKinds /\ faults' = Append(faults, k)
    BY DEF TypeOK, HistoryType, Fault
  <1>2. Len(faults) + 1 \in DOMAIN faults' /\ faults'[Len(faults) + 1] = k
    BY <1>1
  <1> QED BY <1>2 DEF Happened

\* A step that ends undisturbed began so, and is neither restart nor loss.
LEMMA NoDisturbance ==
    ASSUME TypeOK, [Next]_vars, Undisturbed'
    PROVE  Undisturbed /\ ~Fault("lock") /\ ~Fault("crash")
  <1>1. ~Happened("lock")' /\ ~Happened("crash")'
    BY DEF Undisturbed
  <1> QED BY <1>1, FaultsStay, NoFaultOf DEF Undisturbed

-----------------------------------------------------------------------------
\* As long as no lock was lost.

\* The job of a message that has a call at work is active.
LEMMA AtWork ==
    ASSUME TypeOK, DeliveryInv, LocksKept, NEW m \in Msgs, NEW s \in Slots, At(s, m)
    PROVE  owner[m] = s /\ job[m] = "active"
  BY Types DEF LocksKept, At, DeliveryInv, OwnerWorks

LEMMA LocksStep ==
    ASSUME TypeOK, DeliveryInv, OutcomeInv, LocksKept, [Next]_vars,
           ~Happened("lock")'
    PROVE  LocksKept'
  <1>1. ASSUME NEW t \in Slots, phase'[t] # "idle"
        PROVE  owner'[serves'[t]] = t
    <2>1. ASSUME NEW s \in Slots, SendStep(s), ~Idle(s)
          PROVE  owner'[serves'[t]] = t
      <3>1. /\ serves' = serves /\ owner' = owner /\ phase[s] # "idle"
            /\ \A r \in Slots \ {s} : phase'[r] = phase[r]
        BY <2>1 DEF SendStep, JoinChain, HandOver, FailsEarly, ModemRefuses, AnswerLost,
           SendFails, ConfirmTimesOut, Confirmed, NotifySent, Complete, MoveToFailed,
           DropResult, Goto, TypeOK, SlotType
      <3> QED BY <1>1, <3>1 DEF LocksKept
    <2>2. ASSUME NEW s \in Slots, SendStep(s), Idle(s)
          PROVE  owner'[serves'[t]] = t
      <3>1. t # s /\ phase[t] # "idle" /\ serves'[t] = serves[t] /\ owner[serves[t]] = t
        BY <1>1, <2>2, IdleFacts DEF LocksKept
      <3>2. owner' = owner \/ (Owns(s) /\ owner' = [owner EXCEPT ![serves[s]] = NoSlot])
        BY <2>2 DEF SendStep, JoinChain, HandOver, FailsEarly, ModemRefuses, AnswerLost,
           SendFails, ConfirmTimesOut, Confirmed, NotifySent, Complete, MoveToFailed, DropResult
      <3>3. serves[t] # serves[s] \/ owner' = owner
        BY <3>1, <3>2 DEF Owns
      <3>4. serves[t] \in Msgs /\ owner \in [Msgs -> Slots \union {NoSlot}]
        BY <3>1 DEF DeliveryInv, BusySlots, TypeOK, JobType
      <3> QED BY <3>1, <3>2, <3>3, <3>4
    <2>3. ASSUME NEW s \in Slots, NEW n \in Msgs, TakeStep(s, n)
          PROVE  owner'[serves'[t]] = t
      <3>1. /\ phase[s] = "idle" /\ job[n] = "wait" /\ owner' = [owner EXCEPT ![n] = s]
            /\ serves' = [serves EXCEPT ![s] = n]
            /\ \A r \in Slots \ {s} : phase'[r] = phase[r]
        BY <2>3 DEF TakeStep, TakeJob, TakeUnknownModem, TakeDeferred, Take, TypeOK, SlotType
      <3>2. CASE t = s
        BY <3>1, <3>2 DEF TypeOK, SlotType, JobType
      <3>3. CASE t # s
        <4>1. serves'[t] = serves[t] /\ phase[t] # "idle" /\ owner[serves[t]] = t
          BY <1>1, <3>1, <3>3 DEF LocksKept
        <4>2. serves[t] # n
          BY <3>1, <4>1, AtWork DEF At
        <4> QED BY <3>1, <4>1, <4>2
      <3> QED BY <3>2, <3>3
    <2>4. CASE UNCHANGED <<phase, serves, owner>>
      BY <1>1, <2>4 DEF LocksKept
    <2>5. CASE Crash
      BY <1>1, <2>5 DEF Crash
    <2>6. CASE \/ \E n \in Msgs : HttpStep(n) \/ HandlerStep(n) \/ Promote(n) \/ Stall(n)
               \/ \E d \in Modems : BalanceWindowEnds(d)
               \/ UNCHANGED vars
      <3>1. UNCHANGED <<phase, serves, owner>> \/ \E n \in Msgs : Stall(n)
        BY <2>6 DEF HttpStep, PostSend, AddJob, RecordRefusal, NotifyRefusal, HandlerStep,
           HandlerUpdate, HandlerNotify, HandlerBalance, Promote, BalanceWindowEnds, vars
      <3> QED BY <2>4, <3>1 DEF Stall
    <2>7. \A n \in Msgs : ~LoseLock(n)
      BY NoFaultOf DEF LoseLock
    <2> QED BY <2>1, <2>2, <2>3, <2>5, <2>6, <2>7 DEF Next, ProcessStep
  <1>2. ASSUME NEW m \in Msgs, status'[m] = "unconfirmed"
        PROVE  job'[m] = "failed"
    <2>1. CASE status[m] = "unconfirmed"
      <3>1. job[m] = "failed"
        BY <2>1 DEF LocksKept
      <3>2. \A s \in Slots : ~At(s, m)
        BY <3>1, AtWork
      <3>3. ASSUME NEW s \in Slots, SendStep(s)
            PROVE  job'[m] = job[m]
        <4>1. phase[s] # "idle"
          BY <3>3 DEF SendStep, JoinChain, HandOver, FailsEarly, ModemRefuses, AnswerLost,
             SendFails, ConfirmTimesOut, Confirmed, NotifySent, Complete, MoveToFailed, DropResult
        <4>2. m # serves[s]
          BY <3>2, <4>1 DEF At
        <4> QED BY <3>3, <4>2, OtherMessage
      <3>4. ASSUME NEW n \in Msgs, HttpStep(n)
            PROVE  job'[m] = job[m]
        BY <3>1, <3>4 DEF HttpStep, PostSend, AddJob, RecordRefusal, NotifyRefusal, TypeOK,
              JobType, DeliveryInv, JobPosted
      <3>5. ASSUME NEW n \in Msgs,
                   \/ Promote(n) \/ Stall(n) \/ \E s \in Slots : TakeStep(s, n)
            PROVE  job'[m] = job[m]
        <4>1. Promote(n) \/ Stall(n)
                 => job[n] \in {"delayed", "active"} /\ job' = [job EXCEPT ![n] = "wait"]
          BY DEF Promote, Stall
        <4>2. ASSUME NEW s \in Slots, TakeStep(s, n)
              PROVE  job[n] = "wait" /\ job' = [job EXCEPT ![n] = "active"]
          BY <4>2 DEF TakeStep, TakeJob, TakeUnknownModem, TakeDeferred, Take
        <4> QED BY <3>1, <3>5, <4>1, <4>2 DEF TypeOK, JobType
      <3>6. CASE \/ \E n \in Msgs : HandlerStep(n) \/ LoseLock(n)
                 \/ \E d \in Modems : BalanceWindowEnds(d)
                 \/ Crash \/ UNCHANGED vars
        <4>1. UNCHANGED job
          BY <3>6 DEF HandlerStep, HandlerUpdate, HandlerNotify, HandlerBalance, LoseLock,
             BalanceWindowEnds, Crash, vars
        <4> QED BY <3>1, <4>1
      <3> QED BY <3>1, <3>3, <3>4, <3>5, <3>6 DEF Next, ProcessStep
    <2>2. CASE status[m] # "unconfirmed"
      <3>1. \E n \in Msgs : HandlerUpdate(n)
        <4>1. ASSUME NEW n \in Msgs, PostSend(n) \/ RecordRefusal(n)
              PROVE  status'[m] # "unconfirmed"
          BY <1>2, <2>2, <4>1 DEF PostSend, RecordRefusal, UpdateLog, TypeOK, RowType
        <4>2. ASSUME NEW s \in Slots, Confirmed(s)
              PROVE  status'[m] # "unconfirmed"
          BY <1>2, <2>2, <4>2 DEF Confirmed, UpdateLog, TypeOK, RowType
        <4> QED BY <1>2, <2>2, <4>1, <4>2, RowWriters
      <3>2. PICK n \in Msgs : HandlerUpdate(n)
        BY <3>1
      <3>3. m = n /\ FailureStatus(m) = "unconfirmed" /\ hStage[m] = "update" /\ job' = job
        BY <1>2, <2>2, <3>2 DEF HandlerUpdate, UpdateLog, TypeOK, RowType
      <3> QED BY <3>3 DEF OutcomeInv, HandlerEnds
    <2> QED BY <2>1, <2>2
  <1> QED BY <1>1, <1>2 DEF LocksKept

\* `unconfirmed` is for good as long as no running job lost its lock: the message
\* is never tried nor handed over again, whatever else fails and however often the
\* gateway restarts (README.md:212, "it is not retried").
THEOREM UnconfirmedIsFinal == Spec => UnconfirmedNotRetried
  <1> DEFINE Kept == ~Happened("lock") => LocksKept
  <1>1. Init => Kept
    BY DEF Init, LocksKept
  <1>2. TypeOK /\ DeliveryInv /\ OutcomeInv /\ Kept /\ [Next]_vars => Kept'
    BY LocksStep, FaultsStay
  <1>3. ASSUME TypeOK, DeliveryInv, LocksKept, [Next]_vars, NEW m \in Msgs,
               status[m] = "unconfirmed"
        PROVE  runs'[m] = runs[m] /\ copies'[m] = copies[m]
    <2>1. job[m] = "failed" /\ \A s \in Slots : ~At(s, m)
      BY <1>3, AtWork DEF LocksKept
    <2>2. CASE \E s \in Slots : HandOver(s) \/ ModemRefuses(s)
      <3>1. PICK s \in Slots : HandOver(s) \/ ModemRefuses(s)
        BY <2>2
      <3>2. m # serves[s]
        BY <2>1, <3>1 DEF HandOver, ModemRefuses, At
      <3> QED BY <1>3, <3>1, <3>2 DEF HandOver, ModemRefuses, SendFails, TypeOK, HistoryType
    <2>3. CASE \E s \in Slots, n \in Msgs : TakeStep(s, n)
      BY <1>3, <2>1, <2>3 DEF TakeStep, TakeJob, TakeUnknownModem, TakeDeferred, Take, StartRun,
         TypeOK, HistoryType
    <2>4. \/ UNCHANGED <<runs, copies>>
          \/ \E s \in Slots : HandOver(s) \/ ModemRefuses(s)
          \/ \E s \in Slots, n \in Msgs : TakeStep(s, n)
      BY <1>3 DEF Next, ProcessStep, HttpStep, PostSend, AddJob, RecordRefusal,
          NotifyRefusal, HandlerStep, HandlerUpdate, HandlerNotify, HandlerBalance, Promote,
          LoseLock, Stall, SendStep, JoinChain, FailsEarly, AnswerLost, SendFails,
          ConfirmTimesOut, Confirmed, NotifySent, Complete, MoveToFailed, DropResult,
          BalanceWindowEnds, Crash, vars
    <2> QED BY <2>2, <2>3, <2>4
  <1>4. TypeOK /\ DeliveryInv /\ Kept /\ [Next]_vars
        => [\A m \in Msgs : status[m] = "unconfirmed" /\ ~Happened("lock")
                            => runs'[m] = runs[m] /\ copies'[m] = copies[m]]_vars
    BY <1>3
  <1> HIDE DEF Kept
  <1> QED BY <1>1, <1>2, <1>4, OutcomeInvariance, PTL DEF Spec, UnconfirmedNotRetried

-----------------------------------------------------------------------------
\* As long as neither a lock was lost nor the process restarted, no job stalls.

LEMMA NeverStallsStep ==
    ASSUME TypeOK, DeliveryInv, NeverStalls, [Next]_vars, Undisturbed'
    PROVE  NeverStalls'
  <1> SUFFICES ASSUME NEW m \in Msgs
               PROVE  stalls'[m] = 0 /\ (job'[m] = "active" => owner'[m] # NoSlot)
    BY DEF NeverStalls
  <1>0. stalls[m] = 0 /\ (job[m] = "active" => owner[m] # NoSlot)
    BY DEF NeverStalls
  <1>1. ASSUME NEW n \in Msgs, HttpStep(n)
        PROVE  stalls' = stalls /\ owner' = owner /\ (job'[m] = job[m] \/ job'[m] = "wait")
    BY <1>1 DEF HttpStep, PostSend, AddJob, RecordRefusal, NotifyRefusal, TypeOK, JobType
  <1>2. ASSUME NEW n \in Msgs,
               \/ HandlerStep(n)
               \/ \E d \in Modems : BalanceWindowEnds(d)
               \/ UNCHANGED vars
        PROVE  UNCHANGED <<stalls, owner, job>>
    BY <1>2 DEF HandlerStep, HandlerUpdate, HandlerNotify, HandlerBalance, BalanceWindowEnds, vars
  <1>3. ASSUME NEW n \in Msgs, Promote(n)
        PROVE  stalls' = stalls /\ owner' = owner /\ (job'[m] = job[m] \/ job'[m] = "wait")
    BY <1>3 DEF Promote, TypeOK, JobType
  <1>4. ASSUME NEW n \in Msgs, NEW s \in Slots, TakeStep(s, n)
        PROVE  /\ stalls' = stalls
               /\ (job'[m] = job[m] /\ owner'[m] = owner[m]) \/ owner'[m] = s
    <2>1. /\ stalls' = stalls /\ owner' = [owner EXCEPT ![n] = s]
          /\ job' = [job EXCEPT ![n] = "active"]
      BY <1>4 DEF TakeStep, TakeJob, TakeUnknownModem, TakeDeferred, Take
    <2> QED BY <2>1 DEF TypeOK, JobType
  <1>5. ASSUME NEW s \in Slots, SendStep(s)
        PROVE  /\ stalls' = stalls
               /\ (job'[m] = job[m] /\ owner'[m] = owner[m]) \/ job'[m] # "active"
    <2>1. CASE Complete(s) \/ MoveToFailed(s)
      <3>1. /\ stalls' = stalls /\ owner' = [owner EXCEPT ![serves[s]] = NoSlot]
            /\ \E j \in {"completed", "failed", "delayed"} : job' = [job EXCEPT ![serves[s]] = j]
        BY <2>1 DEF Complete, MoveToFailed
      <3> QED BY <3>1 DEF TypeOK, JobType
    <2>2. CASE ~(Complete(s) \/ MoveToFailed(s))
      BY <1>5, <2>2 DEF SendStep, JoinChain, HandOver, FailsEarly, ModemRefuses, AnswerLost,
         SendFails, ConfirmTimesOut, Confirmed, NotifySent, DropResult
    <2> QED BY <2>1, <2>2
  <1>6. /\ ~Crash
        /\ \A n \in Msgs : ~LoseLock(n) /\ ~Stall(n)
    BY NoDisturbance DEF Crash, LoseLock, Stall, NeverStalls
  <1>7. NoSlot \notin Slots
    BY NullsAssumption
  <1> QED BY <1>0, <1>1, <1>2, <1>3, <1>4, <1>5, <1>6, <1>7 DEF Next, ProcessStep

\* What NeverStalls makes of OutcomeInv.
LEMMA Settled ==
    ASSUME OutcomeInv, NeverStalls, NEW m \in Msgs
    PROVE  /\ Sole(m) /\ HandlerEnds(m)
           /\ status[m] \in Terminal => RowClosed(m)
  BY DEF OutcomeInv, NeverStalls, Once

\* Steps that neither try another modem nor write an outcome.
LEMMA NamedFrame ==
    ASSUME NEW m, Named(m), tried'[m] = tried[m], job'[m] = "none" => job[m] = "none",
           \A s \in Slots : At(s, m)' /\ phase'[s] \in {"queued", "handed", "failing"} =>
               /\ At(s, m) /\ phase[s] \in {"queued", "handed", "failing"}
               /\ on'[s] = on[s],
           hStage'[m] # "none" => /\ hStage[m] # "none" /\ verdict'[m] = verdict[m]
                                  /\ hModem'[m] = hModem[m],
           status'[m] \in {"sent", "failed"} /\ tried[m] # NoModem =>
               status'[m] = status[m] /\ rowModem'[m] = rowModem[m]
    PROVE  Named(m)'
  BY DEF Named

LEMMA NamedHttp ==
    ASSUME TypeOK, DeliveryInv, NEW m \in Msgs, Named(m), NEW n \in Msgs, HttpStep(n)
    PROVE  Named(m)'
  <1>1. /\ UNCHANGED <<hStage, verdict, hModem, phase, serves, on, tried>>
        /\ http[m] \in {"idle", "appended", "rejected", "refused"} => job[m] = "none"
    BY DEF HttpStep, PostSend, AddJob, RecordRefusal, NotifyRefusal, DeliveryInv, JobPosted
  <1>2. job'[m] = "none" => job[m] = "none"
    BY DEF HttpStep, PostSend, AddJob, RecordRefusal, NotifyRefusal, TypeOK, JobType
  <1>3. \A s \in Slots : At(s, m)' => At(s, m)
    BY <1>1 DEF At
  <1>4. \/ status'[m] = status[m] /\ rowModem'[m] = rowModem[m]
        \/ status'[m] = "pending"
        \/ job[m] = "none"
    <2>1. CASE m = n /\ RecordRefusal(n)
      BY <1>1, <2>1 DEF RecordRefusal
    <2>2. CASE ~(m = n /\ RecordRefusal(n))
      BY <2>2 DEF HttpStep, PostSend, AddJob, RecordRefusal, NotifyRefusal, UpdateLog, TypeOK,
         RowType
    <2> QED BY <2>1, <2>2
  <1>5. job[m] = "none" => tried[m] = NoModem
    BY DEF Named
  <1> QED BY <1>1, <1>2, <1>3, <1>4, <1>5, NamedFrame

LEMMA NamedSend ==
    ASSUME TypeOK, DeliveryInv, NEW m \in Msgs, Sole(m), HandlerEnds(m),
           status[m] \in Terminal => RowClosed(m), Named(m),
           NEW s \in Slots, SendStep(s)
    PROVE  Named(m)'
  <1>1. CASE m # serves[s]
    <2>1. /\ tried'[m] = tried[m] /\ job'[m] = job[m] /\ hStage'[m] = hStage[m]
          /\ verdict'[m] = verdict[m] /\ hModem'[m] = hModem[m]
          /\ status'[m] = status[m] /\ rowModem'[m] = rowModem[m]
          /\ \A t \in Slots : /\ At(t, m)' <=> At(t, m)
                              /\ At(t, m) => phase'[t] = phase[t] /\ on'[t] = on[t]
      BY <1>1, OtherMessage
    <2>2. \A t \in Slots : At(t, m)' /\ phase'[t] \in {"queued", "handed", "failing"} =>
               /\ At(t, m) /\ phase[t] \in {"queued", "handed", "failing"}
               /\ on'[t] = on[t]
      BY <2>1
    <2> QED BY <2>1, <2>2, NamedFrame
  <1>2. CASE m = serves[s]
    <2>0. phase[s] # "idle"
      BY DEF SendStep, JoinChain, HandOver, FailsEarly, ModemRefuses, AnswerLost, SendFails,
             ConfirmTimesOut, Confirmed, NotifySent, Complete, MoveToFailed, DropResult
    <2>1. /\ At(s, m) /\ job[m] = "active" /\ hStage[m] = "none"
          /\ \A t \in Slots : At(t, m) => t = s
      BY <1>2, <2>0 DEF At, Sole, HandlerEnds
    <2>2. CASE JoinChain(s)
      <3>1. /\ tried'[m] = on[s] /\ phase[s] = "waiting"
            /\ UNCHANGED <<job, hStage, status, serves, on>>
            /\ \A t \in Slots \ {s} : phase'[t] = phase[t]
        BY <1>2, <2>2 DEF JoinChain, Goto, TypeOK, HistoryType, SlotType
      <3>2. status[m] \notin {"sent", "failed"}
        BY <2>1, <3>1 DEF RowClosed, Terminal
      <3>3. \A t \in Slots : At(t, m)' => t = s
        BY <2>1, <3>1 DEF At
      <3> QED BY <2>1, <3>1, <3>2, <3>3 DEF Named
    <2>3. CASE \/ HandOver(s) \/ FailsEarly(s) \/ ModemRefuses(s) \/ AnswerLost(s)
               \/ ConfirmTimesOut(s)
      <3>1. /\ phase[s] \in {"queued", "handed"}
            /\ UNCHANGED <<tried, job, hStage, status, rowModem, serves, on>>
            /\ \A t \in Slots \ {s} : phase'[t] = phase[t]
        BY <2>3 DEF HandOver, FailsEarly, ModemRefuses, AnswerLost, SendFails, ConfirmTimesOut,
           Goto, TypeOK, SlotType
      <3>2. \A t \in Slots : At(t, m)' /\ phase'[t] \in {"queued", "handed", "failing"} =>
               /\ At(t, m) /\ phase[t] \in {"queued", "handed", "failing"}
               /\ on'[t] = on[t]
        BY <2>1, <3>1 DEF At
      <3> QED BY <2>1, <3>1, <3>2, NamedFrame
    <2>4. CASE Confirmed(s) \/ NotifySent(s)
      <3>1. /\ UNCHANGED <<tried, job, hStage, serves, on>>
            /\ phase'[s] \in {"sent", "returning"}
            /\ \A t \in Slots \ {s} : phase'[t] = phase[t]
            /\ \/ UNCHANGED <<status, rowModem>>
               \/ phase[s] = "handed" /\ UpdateLog(m, "sent", on[s])
        BY <1>2, <2>4 DEF Confirmed, NotifySent, Goto, TypeOK, SlotType
      <3>2. \A t \in Slots : At(t, m)' => phase'[t] \notin {"queued", "handed", "failing"}
        BY <2>1, <3>1 DEF At
      <3>3. CASE UNCHANGED <<status, rowModem>>
        BY <2>1, <3>1, <3>2, <3>3, NamedFrame
      <3>4. CASE phase[s] = "handed" /\ UpdateLog(m, "sent", on[s])
        <4>1. tried[m] = on[s]
          BY <2>1, <3>4 DEF Named
        <4>2. rowModem'[m] = IF on[s] = NoModem THEN rowModem[m] ELSE on[s]
          BY <3>4 DEF UpdateLog, TypeOK, RowType
        <4> QED BY <2>1, <3>1, <3>2, <4>1, <4>2 DEF Named
      <3> QED BY <3>1, <3>3, <3>4
    <2>5. CASE Complete(s) \/ MoveToFailed(s) \/ DropResult(s)
      <3>1. Idle(s) /\ UNCHANGED <<status, rowModem, tried>>
        BY <2>5 DEF Complete, MoveToFailed, DropResult
      <3>2. \A t \in Slots : ~At(t, m)'
        BY <2>1, <3>1, IdleFacts DEF At
      <3>3. CASE Complete(s) \/ DropResult(s)
        <4>1. UNCHANGED hStage /\ job'[m] # "none"
          BY <1>2, <2>1, <3>3 DEF Complete, DropResult, TypeOK, JobType
        <4> QED BY <2>1, <3>1, <3>2, <4>1, NamedFrame
      <3>4. CASE MoveToFailed(s)
        <4>1. /\ job'[m] # "none" /\ phase[s] \in {"failing", "aborting"}
              /\ verdict'[m] = IF phase[s] = "aborting" THEN "unrecoverable" ELSE "plain"
              /\ phase[s] = "failing" => hModem'[m] = on[s]
          BY <1>2, <3>4 DEF MoveToFailed, ErrorModem, TypeOK, JobType, HandlerType
        <4>2. phase[s] = "failing" => tried[m] = on[s]
          BY <2>1 DEF Named
        <4>3. status[m] \in {"sent", "failed"} /\ tried[m] # NoModem => rowModem[m] = tried[m]
          BY DEF Named
        <4> QED BY <3>1, <3>2, <4>1, <4>2, <4>3 DEF Named
      <3> QED BY <2>5, <3>3, <3>4
    <2> QED BY <2>2, <2>3, <2>4, <2>5 DEF SendStep
  <1> QED BY <1>1, <1>2

LEMMA NamedHandler ==
    ASSUME TypeOK, NEW m \in Msgs, Named(m), NEW n \in Msgs, HandlerStep(n)
    PROVE  Named(m)'
  <1>1. /\ UNCHANGED <<job, phase, serves, on, tried>>
        /\ hStage[n] # "none"
        /\ hStage'[m] # "none" => /\ hStage[m] # "none" /\ verdict'[m] = verdict[m]
                                  /\ hModem'[m] = hModem[m]
    BY DEF HandlerStep, HandlerUpdate, HandlerNotify, HandlerBalance, Leave, TypeOK, HandlerType
  <1>2. \A s \in Slots : At(s, m)' => At(s, m)
    BY <1>1 DEF At
  <1>3. CASE UNCHANGED <<status, rowModem>>
    BY <1>1, <1>2, <1>3, NamedFrame
  <1>4. CASE UpdateLog(n, FailureStatus(n), hModem[n])
    <2>1. m # n => status'[m] = status[m] /\ rowModem'[m] = rowModem[m]
      BY <1>4 DEF UpdateLog, TypeOK, RowType
    <2>2. m = n => /\ status'[m] = FailureStatus(m)
                   /\ rowModem'[m] = IF hModem[m] = NoModem THEN rowModem[m] ELSE hModem[m]
      BY <1>4 DEF UpdateLog, TypeOK, RowType
    <2>3. CASE m # n
      BY <1>1, <1>2, <2>1, <2>3, NamedFrame
    <2>4. CASE m = n
      <3>1. status'[m] \in {"sent", "failed"} => verdict[m] # "unrecoverable"
        BY <2>2, <2>4 DEF FailureStatus
      <3>2. status'[m] \in {"sent", "failed"} => hModem[m] = tried[m]
        BY <1>1, <2>4, <3>1 DEF Named
      <3> QED BY <1>1, <1>2, <2>2, <2>4, <3>2 DEF Named
    <2> QED BY <2>3, <2>4
  <1>5. UNCHANGED <<status, rowModem>> \/ UpdateLog(n, FailureStatus(n), hModem[n])
    BY DEF HandlerStep, HandlerUpdate, HandlerNotify, HandlerBalance
  <1> QED BY <1>3, <1>4, <1>5

LEMMA NamedQueue ==
    ASSUME TypeOK, NEW m \in Msgs, Named(m), NEW n \in Msgs,
           \/ Promote(n) \/ LoseLock(n) \/ Stall(n) \/ \E s \in Slots : TakeStep(s, n)
    PROVE  Named(m)'
  <1>1. UNCHANGED <<status, rowModem, hStage, verdict, hModem, tried>>
    BY DEF Promote, LoseLock, Stall, TakeStep, TakeJob, TakeUnknownModem, TakeDeferred, Take
  <1>2. CASE Promote(n) \/ LoseLock(n) \/ Stall(n)
    <2>1. UNCHANGED <<phase, serves, on>> /\ (job'[m] = job[m] \/ job'[m] = "wait")
      BY <1>2 DEF Promote, LoseLock, Stall, TypeOK, JobType
    <2>2. \A s \in Slots : At(s, m)' => At(s, m)
      BY <2>1 DEF At
    <2> QED BY <1>1, <2>1, <2>2, NamedFrame
  <1>3. ASSUME NEW s \in Slots, TakeStep(s, n)
        PROVE  Named(m)'
    <2>1. /\ phase'[s] \in {"waiting", "aborting"}
          /\ job'[m] # "none" \/ job[m] = "none"
          /\ \A t \in Slots \ {s} : /\ serves'[t] = serves[t] /\ phase'[t] = phase[t]
                                    /\ on'[t] = on[t]
      BY <1>3 DEF TakeStep, TakeJob, TakeUnknownModem, TakeDeferred, Take, TypeOK, JobType, SlotType
    <2>2. \A t \in Slots : At(t, m)' /\ phase'[t] \in {"queued", "handed", "failing"} =>
               /\ At(t, m) /\ phase[t] \in {"queued", "handed", "failing"}
               /\ on'[t] = on[t]
      BY <2>1 DEF At
    <2> QED BY <1>1, <2>1, <2>2, NamedFrame
  <1> QED BY <1>2, <1>3

LEMMA NamedStep ==
    ASSUME TypeOK, DeliveryInv, OutcomeInv, NamedInv, [Next]_vars, Undisturbed'
    PROVE  NamedInv'
  <1>0. NeverStalls
    BY DEF NamedInv
  <1>1. NeverStalls'
    BY <1>0, NeverStallsStep
  <1>2. ASSUME NEW m \in Msgs
        PROVE  Named(m)'
    <2>1. Named(m)
      BY DEF NamedInv
    <2>2. Sole(m) /\ HandlerEnds(m) /\ (status[m] \in Terminal => RowClosed(m))
      BY <1>0, Settled
    <2>3. CASE UNCHANGED vars \/ \E d \in Modems : BalanceWindowEnds(d)
      <3>1. UNCHANGED <<status, rowModem, tried, job, hStage, verdict, hModem, phase, serves, on>>
        BY <2>3 DEF vars, BalanceWindowEnds
      <3>2. \A s \in Slots : At(s, m)' => At(s, m)
        BY <3>1 DEF At
      <3> QED BY <2>1, <3>1, <3>2, NamedFrame
    <2>4. ~Crash
      BY NoDisturbance DEF Crash
    <2>5. CASE \E s \in Slots : SendStep(s)
      BY <2>1, <2>2, <2>5, NamedSend
    <2> QED BY <2>1, <2>3, <2>4, <2>5, NamedHttp, NamedHandler, NamedQueue DEF Next, ProcessStep
  <1> QED BY <1>1, <1>2 DEF NamedInv

\* As long as the process ran and kept its locks, a sent or failed row names the
\* modem that was last asked to send the message, also when row updates or the
\* webhook queue fail (README.md:212, "the modem that carried (or last
\* attempted) the message").
THEOREM OutcomesNameModems == Spec => []OutcomeNamesModem
  <1> DEFINE Kept == Undisturbed => NamedInv
  <1>1. Init => Kept
    BY DEF Init, NamedInv, NeverStalls, Named, At
  <1>2. TypeOK /\ DeliveryInv /\ OutcomeInv /\ Kept /\ [Next]_vars => Kept'
    BY NamedStep, NoDisturbance
  <1>3. Kept => OutcomeNamesModem
    BY DEF NamedInv, Named, OutcomeNamesModem
  <1> HIDE DEF Kept
  <1> QED BY <1>1, <1>2, <1>3, OutcomeInvariance, PTL DEF Spec

-----------------------------------------------------------------------------
\* The callbacks follow the row.

LEMMA EnqueueKept ==
    ASSUME ~Happened("redis")', TypeOK, NEW m \in Msgs, NEW st, EnqueueWebhook(m, st)
    PROVE  /\ \A n \in Msgs \ {m} : callbacks'[n] = callbacks[n]
           /\ callbacks'[m] = IF m \in Subscribed /\ Worth(st)
                              THEN Append(callbacks[m], st) ELSE callbacks[m]
  <1>1. ~Fault("redis")
    BY NoFaultOf
  <1>2. callbacks \in [Msgs -> Seq(Terminal \union {"retrying"})]
    BY DEF TypeOK, RowType
  <1> QED BY <1>1, <1>2 DEF EnqueueWebhook, ShouldNotify, Worth

\* The callback that was owed has been added.
LEMMA Told ==
    ASSUME TypeOK, NEW m \in Msgs, NEW st \in Terminal \union {"retrying"},
           callbacks'[m] = Append(callbacks[m], st)
    PROVE  Len(callbacks'[m]) > 0 /\ callbacks'[m][Len(callbacks'[m])] = st
  <1>1. callbacks[m] \in Seq(Terminal \union {"retrying"})
    BY DEF TypeOK, RowType
  <1> QED BY <1>1

\* Steps that neither write m's row nor add a callback of m.
LEMMA FollowsFrame ==
    ASSUME NEW m, Follows(m), status'[m] = status[m], callbacks'[m] = callbacks[m],
           http'[m] = "idle" => http[m] = "idle",
           http'[m] = "refused" <=> http[m] = "refused",
           hStage'[m] = "notify" <=> hStage[m] = "notify",
           hStage[m] = "notify" => verdict'[m] = verdict[m] /\ made'[m] = made[m],
           \A s \in Slots : At(s, m)' /\ phase'[s] = "sent" <=> At(s, m) /\ phase[s] = "sent"
    PROVE  Follows(m)'
  <1>1. hStage'[m] = "notify" => FailureStatus(m)' = FailureStatus(m)
    BY DEF FailureStatus
  <1>2. Owed(m)' <=> Owed(m)
    BY DEF Owed
  <1> QED BY <1>1, <1>2 DEF Follows, Worth

\* A message whose request is still being answered has no job at work.
LEMMA NoJobYet ==
    ASSUME TypeOK, DeliveryInv, NEW m \in Msgs, Sole(m), HandlerEnds(m), job[m] = "none"
    PROVE  hStage[m] = "none" /\ \A s \in Slots : ~At(s, m)
  BY DEF Sole, HandlerEnds

LEMMA FollowsHttp ==
    ASSUME ~Happened("redis")',
           TypeOK, DeliveryInv, NEW m \in Subscribed, m \in Msgs, Follows(m),
           Sole(m), HandlerEnds(m), NEW n \in Msgs, HttpStep(n)
    PROVE  Follows(m)'
  <1>1. /\ UNCHANGED <<hStage, verdict, made, phase, serves>>
        /\ \A s \in Slots : At(s, m)' <=> At(s, m)
    BY DEF HttpStep, PostSend, AddJob, RecordRefusal, NotifyRefusal, At
  <1>2. CASE m # n
    <2>1. status'[m] = status[m] /\ http'[m] = http[m]
      BY <1>2 DEF HttpStep, PostSend, AddJob, RecordRefusal, NotifyRefusal, UpdateLog, TypeOK,
         RowType
    <2>2. callbacks'[m] = callbacks[m]
      <3>1. CASE NotifyRefusal(n)
        BY <1>2, <3>1, EnqueueKept DEF NotifyRefusal
      <3>2. CASE ~NotifyRefusal(n)
        BY <3>2 DEF HttpStep, PostSend, AddJob, RecordRefusal
      <3> QED BY <3>1, <3>2
    <2> QED BY <1>1, <2>1, <2>2, FollowsFrame
  <1>3. CASE m = n
    <2>0. http[m] \in {"idle", "appended", "rejected", "refused"}
      BY <1>3 DEF HttpStep, PostSend, AddJob, RecordRefusal, NotifyRefusal
    <2>1. job[m] = "none"
      BY <2>0 DEF DeliveryInv, JobPosted
    <2>2. hStage[m] = "none" /\ \A s \in Slots : ~At(s, m)
      BY <2>1, NoJobYet
    <2>3. hStage'[m] = "none" /\ \A s \in Slots : ~At(s, m)'
      BY <1>1, <2>2
    <2>4. CASE PostSend(m)
      <3>1. status[m] = "none" /\ callbacks[m] = <<>> /\ callbacks'[m] = <<>>
        BY <2>4 DEF PostSend, Follows, Worth, Terminal
      <3>2. /\ http'[m] \in {"appended", "error"}
            /\ status'[m] \in {"none", "pending"}
        BY <2>4, <3>1 DEF PostSend, UpdateLog, TypeOK, RowType
      <3> QED BY <2>3, <3>1, <3>2 DEF Follows, Worth, Terminal
    <2>5. CASE AddJob(m)
      <3>1. /\ http'[m] \in {"accepted", "rejected"} /\ http[m] = "appended"
            /\ UNCHANGED <<status, callbacks>>
        BY <2>5 DEF AddJob, TypeOK, RowType
      <3> QED BY <1>1, <2>2, <2>3, <3>1, FollowsFrame
    <2>6. CASE RecordRefusal(m)
      <3>1. callbacks' = callbacks /\ http[m] = "rejected"
        BY <2>6 DEF RecordRefusal
      <3>2. CASE http'[m] = "error" /\ UNCHANGED status
        BY <1>1, <2>2, <2>3, <3>1, <3>2, FollowsFrame
      <3>3. CASE http'[m] = "refused" /\ status'[m] = "failed"
        BY <2>3, <3>1, <3>3 DEF Follows, Worth, Terminal, Owed
      <3>4. \/ http'[m] = "error" /\ UNCHANGED status
            \/ http'[m] = "refused" /\ status'[m] = "failed"
        BY <2>6 DEF RecordRefusal, UpdateLog, TypeOK, RowType
      <3> QED BY <3>2, <3>3, <3>4
    <2>7. CASE NotifyRefusal(m)
      <3>1. /\ http[m] = "refused" /\ http'[m] = "error" /\ UNCHANGED status
            /\ EnqueueWebhook(m, "failed")
        BY <2>7 DEF NotifyRefusal, TypeOK, RowType
      <3>2. callbacks'[m] = Append(callbacks[m], "failed")
        BY <3>1, EnqueueKept DEF Worth, Terminal
      <3>3. Len(callbacks'[m]) > 0 /\ callbacks'[m][Len(callbacks'[m])] = "failed"
        BY <3>2, Told DEF Terminal
      <3>4. status'[m] = "failed"
        BY <3>1 DEF Follows
      <3> QED BY <2>3, <3>1, <3>3, <3>4 DEF Follows, Worth, Terminal
    <2> QED BY <1>3, <2>4, <2>5, <2>6, <2>7 DEF HttpStep
  <1> QED BY <1>2, <1>3

LEMMA FollowsSend ==
    ASSUME ~Happened("redis")',
           TypeOK, DeliveryInv, NEW m \in Subscribed, m \in Msgs, Follows(m),
           Sole(m), HandlerEnds(m), status[m] \in Terminal => RowClosed(m),
           NEW s \in Slots, SendStep(s)
    PROVE  Follows(m)'
  <1>0. UNCHANGED http /\ phase[s] # "idle"
    BY DEF SendStep, JoinChain, HandOver, FailsEarly, ModemRefuses, AnswerLost, SendFails,
           ConfirmTimesOut, Confirmed, NotifySent, Complete, MoveToFailed, DropResult
  <1>1. CASE m # serves[s]
    <2>1. /\ hStage'[m] = hStage[m] /\ verdict'[m] = verdict[m] /\ made'[m] = made[m]
          /\ status'[m] = status[m] /\ callbacks'[m] = callbacks[m]
          /\ \A t \in Slots : /\ At(t, m)' <=> At(t, m)
                              /\ At(t, m) => phase'[t] = phase[t]
      BY <1>1, OtherMessage
    <2> QED BY <1>0, <2>1, FollowsFrame
  <1>2. CASE m = serves[s]
    <2>1. /\ At(s, m) /\ job[m] = "active" /\ hStage[m] = "none"
          /\ \A t \in Slots : At(t, m) => t = s
      BY <1>0, <1>2 DEF At, Sole, HandlerEnds
    <2>2. CASE \/ JoinChain(s) \/ HandOver(s) \/ FailsEarly(s) \/ ModemRefuses(s)
               \/ AnswerLost(s) \/ ConfirmTimesOut(s)
      <3>1. /\ UNCHANGED <<status, callbacks, hStage, verdict, made, serves>>
            /\ phase[s] # "sent" /\ phase'[s] # "sent"
            /\ \A t \in Slots \ {s} : phase'[t] = phase[t]
        BY <2>2 DEF JoinChain, HandOver, FailsEarly, ModemRefuses, AnswerLost, SendFails,
           ConfirmTimesOut, Goto, TypeOK, SlotType
      <3>2. \A t \in Slots : At(t, m)' /\ phase'[t] = "sent" <=> At(t, m) /\ phase[t] = "sent"
        BY <3>1 DEF At
      <3> QED BY <1>0, <3>1, <3>2, FollowsFrame
    <2>3. CASE Confirmed(s)
      <3>1. /\ UNCHANGED <<callbacks, hStage, verdict, made, serves>>
            /\ phase[s] = "handed"
            /\ \A t \in Slots \ {s} : phase'[t] = phase[t]
        BY <2>3 DEF Confirmed, Goto, TypeOK, SlotType
      <3>2. CASE phase'[s] = "returning" /\ UNCHANGED status
        <4>1. \A t \in Slots : At(t, m)' /\ phase'[t] = "sent" <=> At(t, m) /\ phase[t] = "sent"
          BY <3>1, <3>2 DEF At
        <4> QED BY <1>0, <3>1, <3>2, <4>1, FollowsFrame
      <3>3. CASE phase'[s] = "sent" /\ status'[m] = "sent"
        <4>1. At(s, m)'
          BY <1>2, <3>1, <3>3 DEF At
        <4>2. Owed(m)'
          BY <3>3, <4>1 DEF Owed
        <4>3. http[m] \notin {"idle", "refused"}
          BY <2>1 DEF DeliveryInv, JobPosted
        <4> QED BY <1>0, <2>1, <3>1, <3>3, <4>2, <4>3 DEF Follows, Worth, Terminal
      <3>4. \/ phase'[s] = "returning" /\ UNCHANGED status
            \/ phase'[s] = "sent" /\ status'[m] = "sent"
        BY <1>2, <2>3 DEF Confirmed, Goto, UpdateLog, TypeOK, SlotType, RowType
      <3> QED BY <3>2, <3>3, <3>4
    <2>4. CASE NotifySent(s)
      <3>1. /\ UNCHANGED <<status, hStage, verdict, made, serves>>
            /\ phase[s] = "sent" /\ phase'[s] = "returning"
            /\ \A t \in Slots \ {s} : phase'[t] = phase[t]
            /\ EnqueueWebhook(m, "sent")
        BY <1>2, <2>4 DEF NotifySent, Goto, TypeOK, SlotType
      <3>2. status[m] = "sent" /\ status'[m] = "sent"
        BY <2>1, <3>1 DEF Follows
      <3>3. callbacks'[m] = Append(callbacks[m], "sent")
        BY <3>1, EnqueueKept DEF Worth, Terminal
      <3>4. Len(callbacks'[m]) > 0 /\ callbacks'[m][Len(callbacks'[m])] = "sent"
        BY <3>3, Told DEF Terminal
      <3>5. http[m] \notin {"idle", "refused"}
        BY <2>1 DEF DeliveryInv, JobPosted
      <3> QED BY <1>0, <2>1, <3>1, <3>2, <3>4, <3>5 DEF Follows, Worth, Terminal
    <2>5. CASE Complete(s) \/ MoveToFailed(s) \/ DropResult(s)
      <3>1. Idle(s) /\ UNCHANGED <<status, callbacks>> /\ phase[s] # "sent"
        BY <2>5 DEF Complete, MoveToFailed, DropResult
      <3>2. \A t \in Slots : ~At(t, m)'
        BY <2>1, <3>1, IdleFacts DEF At
      <3>3. hStage'[m] \in {"none", "update"}
        BY <1>2, <2>1, <2>5 DEF Complete, MoveToFailed, DropResult, TypeOK, HandlerType
      <3>4. \A t \in Slots : At(t, m)' /\ phase'[t] = "sent" <=> At(t, m) /\ phase[t] = "sent"
        BY <2>1, <3>1, <3>2
      <3> QED BY <1>0, <2>1, <3>1, <3>3, <3>4, FollowsFrame
    <2> QED BY <2>2, <2>3, <2>4, <2>5 DEF SendStep
  <1> QED BY <1>1, <1>2

LEMMA FollowsHandler ==
    ASSUME ~Happened("redis")',
           TypeOK, DeliveryInv, NEW m \in Subscribed, m \in Msgs, Follows(m),
           Sole(m), HandlerEnds(m), status[m] \in Terminal => RowClosed(m),
           NEW n \in Msgs, HandlerStep(n)
    PROVE  Follows(m)'
  <1>1. /\ UNCHANGED <<http, job, made, phase, serves>>
        /\ \A s \in Slots : At(s, m)' <=> At(s, m)
    BY DEF HandlerStep, HandlerUpdate, HandlerNotify, HandlerBalance, At
  <1>2. CASE m # n
    <2>1. /\ status'[m] = status[m] /\ hStage'[m] = hStage[m] /\ verdict'[m] = verdict[m]
      BY <1>2 DEF HandlerStep, HandlerUpdate, HandlerNotify, HandlerBalance, Leave, UpdateLog,
         TypeOK, RowType, HandlerType
    <2>2. callbacks'[m] = callbacks[m]
      <3>1. CASE HandlerNotify(n)
        BY <1>2, <3>1, EnqueueKept DEF HandlerNotify
      <3>2. CASE HandlerUpdate(n) \/ HandlerBalance(n)
        BY <3>2 DEF HandlerUpdate, HandlerBalance
      <3> QED BY <3>1, <3>2 DEF HandlerStep
    <2> QED BY <1>1, <2>1, <2>2, FollowsFrame
  <1>3. CASE m = n
    <2>0. hStage[m] # "none"
      BY <1>3 DEF HandlerStep, HandlerUpdate, HandlerNotify, HandlerBalance
    <2>1. /\ job[m] \in {"failed", "delayed"}
          /\ http[m] \notin {"idle", "refused"}
      BY <2>0 DEF HandlerEnds, DeliveryInv, JobPosted
    <2>2. \A s \in Slots : ~At(s, m) /\ ~At(s, m)'
      BY <1>1, <2>1 DEF Sole
    <2>3. FailureStatus(m) \in {"unconfirmed", "failed", "retrying"}
      BY DEF FailureStatus
    <2>4. CASE HandlerUpdate(m)
      <3>1. hStage[m] = "update" /\ callbacks' = callbacks
        BY <2>4 DEF HandlerUpdate
      <3>2. CASE UpdateLog(m, FailureStatus(m), hModem[m]) /\ Leave(m, "notify")
        <4>1. /\ hStage'[m] = "notify" /\ verdict' = verdict
              /\ status'[m] = FailureStatus(m)
          BY <3>2 DEF UpdateLog, Leave, TypeOK, RowType, HandlerType
        <4>2. FailureStatus(m)' = FailureStatus(m)
          BY <1>1, <4>1 DEF FailureStatus
        <4>3. status[m] \notin Terminal
          BY <2>1, <3>1 DEF RowClosed
        <4>4. ~Worth(status'[m]) => ~Worth(status[m])
          BY <2>3, <4>1, <4>3 DEF Worth, Terminal
        <4>5. ~Worth(status'[m]) => callbacks'[m] = <<>>
          BY <3>1, <4>4 DEF Follows
        <4>6. Owed(m)'
          BY <4>1 DEF Owed
        <4> QED BY <1>1, <2>1, <2>2, <4>1, <4>2, <4>5, <4>6 DEF Follows, Worth
      <3>3. CASE Leave(m, AfterNotify(m)) /\ UNCHANGED rowVars
        <4>1. hStage'[m] \in {"none", "balance"} /\ UNCHANGED status
          BY <3>3 DEF Leave, AfterNotify, rowVars, TypeOK, HandlerType
        <4> QED BY <1>1, <2>2, <3>1, <4>1, FollowsFrame
      <3> QED BY <2>4, <3>2, <3>3 DEF HandlerUpdate
    <2>5. CASE HandlerNotify(m)
      <3>1. /\ hStage[m] = "notify" /\ status[m] = FailureStatus(m) /\ UNCHANGED status
            /\ EnqueueWebhook(m, FailureStatus(m))
        BY <2>5 DEF HandlerNotify, Follows, rowVars
      <3>2. hStage'[m] \in {"none", "balance"}
        BY <2>5 DEF HandlerNotify, Leave, AfterNotify, TypeOK, HandlerType
      <3>3. callbacks'[m] = IF Worth(status[m]) THEN Append(callbacks[m], status[m])
                            ELSE callbacks[m]
        BY <3>1, EnqueueKept
      <3>4. CASE Worth(status[m])
        <4>1. status[m] \in Terminal \union {"retrying"}
          BY <3>4 DEF Worth
        <4>2. callbacks'[m] = Append(callbacks[m], status[m])
          BY <3>3, <3>4
        <4>3. Len(callbacks'[m]) > 0 /\ callbacks'[m][Len(callbacks'[m])] = status[m]
          BY <4>1, <4>2, Told
        <4> QED BY <1>1, <2>1, <2>2, <3>1, <3>2, <3>4, <4>3 DEF Follows, Worth
      <3>5. CASE ~Worth(status[m])
        <4>1. callbacks'[m] = <<>>
          BY <3>3, <3>5 DEF Follows
        <4> QED BY <1>1, <2>1, <2>2, <3>1, <3>2, <3>5, <4>1 DEF Follows, Worth
      <3> QED BY <3>4, <3>5
    <2>6. CASE HandlerBalance(m)
      <3>1. /\ hStage[m] = "balance" /\ hStage'[m] = "none"
            /\ UNCHANGED <<status, callbacks>>
        BY <2>6 DEF HandlerBalance, Leave, TypeOK, HandlerType
      <3> QED BY <1>1, <2>2, <3>1, FollowsFrame
    <2> QED BY <1>3, <2>4, <2>5, <2>6 DEF HandlerStep
  <1> QED BY <1>2, <1>3

LEMMA FollowsQueue ==
    ASSUME TypeOK, NEW m \in Msgs, Follows(m), NEW n \in Msgs,
           \/ Promote(n) \/ LoseLock(n) \/ Stall(n) \/ \E s \in Slots : TakeStep(s, n)
    PROVE  Follows(m)'
  <1>1. UNCHANGED <<http, status, callbacks, hStage, verdict, made>>
    BY DEF Promote, LoseLock, Stall, TakeStep, TakeJob, TakeUnknownModem, TakeDeferred, Take
  <1>2. CASE Promote(n) \/ LoseLock(n) \/ Stall(n)
    <2>1. UNCHANGED <<phase, serves>>
      BY <1>2 DEF Promote, LoseLock, Stall
    <2>2. \A s \in Slots : At(s, m)' <=> At(s, m)
      BY <2>1 DEF At
    <2> QED BY <1>1, <2>1, <2>2, FollowsFrame
  <1>3. ASSUME NEW s \in Slots, TakeStep(s, n)
        PROVE  Follows(m)'
    <2>1. /\ phase[s] = "idle" /\ phase'[s] \in {"waiting", "aborting"}
          /\ \A t \in Slots \ {s} : serves'[t] = serves[t] /\ phase'[t] = phase[t]
      BY <1>3 DEF TakeStep, TakeJob, TakeUnknownModem, TakeDeferred, Take, TypeOK, SlotType
    <2>2. \A t \in Slots : At(t, m)' /\ phase'[t] = "sent" <=> At(t, m) /\ phase[t] = "sent"
      BY <2>1 DEF At
    <2> QED BY <1>1, <2>2, FollowsFrame
  <1> QED BY <1>2, <1>3

LEMMA FollowsStep ==
    ASSUME TypeOK, DeliveryInv, OutcomeInv, FollowsInv, [Next]_vars,
           Undisturbed', ~Happened("redis")'
    PROVE  FollowsInv'
  <1>0. NeverStalls
    BY DEF FollowsInv
  <1>1. NeverStalls'
    BY <1>0, NeverStallsStep
  <1>2. ASSUME NEW m \in Subscribed
        PROVE  Follows(m)'
    <2>0. m \in Msgs
      BY SettingsAssumption
    <2>1. Follows(m)
      BY DEF FollowsInv
    <2>2. Sole(m) /\ HandlerEnds(m) /\ (status[m] \in Terminal => RowClosed(m))
      BY <1>0, <2>0, Settled
    <2>3. CASE UNCHANGED vars \/ \E d \in Modems : BalanceWindowEnds(d)
      <3>1. UNCHANGED <<http, status, callbacks, hStage, verdict, made, phase, serves>>
        BY <2>3 DEF vars, rowVars, jobVars, slotVars, handlerVars, BalanceWindowEnds
      <3>2. \A s \in Slots : At(s, m)' <=> At(s, m)
        BY <3>1 DEF At
      <3> QED BY <2>1, <3>1, <3>2, FollowsFrame
    <2>4. ~Crash
      BY NoDisturbance DEF Crash
    <2>5. CASE \E s \in Slots : SendStep(s)
      BY <2>0, <2>1, <2>2, <2>5, FollowsSend
    <2>6. CASE \E n \in Msgs : HttpStep(n)
      BY <2>0, <2>1, <2>2, <2>6, FollowsHttp
    <2>7. CASE \E n \in Msgs : HandlerStep(n)
      BY <2>0, <2>1, <2>2, <2>7, FollowsHandler
    <2>8. CASE \E n \in Msgs : \/ Promote(n) \/ LoseLock(n) \/ Stall(n)
                               \/ \E s \in Slots : TakeStep(s, n)
      BY <2>0, <2>1, <2>8, FollowsQueue
    <2> QED BY <2>3, <2>4, <2>5, <2>6, <2>7, <2>8 DEF Next, ProcessStep
  <1> QED BY <1>1, <1>2 DEF FollowsInv

FollowsKept == Undisturbed /\ ~Happened("redis") => FollowsInv

LEMMA FollowsInvariance == Spec => []FollowsKept
  <1>1. Init => FollowsKept
    BY SettingsAssumption
       DEF Init, FollowsKept, FollowsInv, NeverStalls, Follows, At, Worth, Terminal
  <1>2. TypeOK /\ DeliveryInv /\ OutcomeInv /\ FollowsKept /\ [Next]_vars => FollowsKept'
    BY FollowsStep, NoDisturbance, FaultsStay DEF FollowsKept
  <1> QED BY <1>1, <1>2, OutcomeInvariance, PTL DEF Spec

\* A message at rest is owed no callback.
LEMMA NoneOwed == ASSUME NEW m, Quiet(m) PROVE ~Owed(m)
  BY DEF Owed, Quiet, At

\* As long as the process ran, kept its locks and reached Redis, the last callback
\* of a message at rest tells its row's status, also when row updates fail
\* (bull.config.js:70-82, 126-136, router.js:131-134).
THEOREM CallbacksTellRows == Spec => []CallbackTellsRow
  <1>1. ASSUME TypeOK, FollowsKept
        PROVE  CallbackTellsRow
    <2> SUFFICES ASSUME NEW m \in Subscribed, Undisturbed, ~Happened("redis"), Quiet(m)
                 PROVE  /\ Worth(status[m]) => /\ callbacks[m] # <<>>
                                               /\ callbacks[m][Len(callbacks[m])] = status[m]
                        /\ ~Worth(status[m]) => callbacks[m] = <<>>
      BY DEF CallbackTellsRow, Worth
    <2> QED BY <1>1, NoneOwed DEF FollowsKept, FollowsInv, Follows
  <1> QED BY <1>1, FollowsInvariance, OutcomeInvariance, PTL

-----------------------------------------------------------------------------
\* The delivery contract by itself, and so whatever else implements it.

VARIABLES anyRuns, anyCopies, anyExcused

Any == INSTANCE DeliveryContract
           WITH runs <- anyRuns, copies <- anyCopies, excused <- anyExcused

\* Only the latest try can have a copy nobody doubts.
LatestOnly == \A m \in Msgs : anyCopies[m] \subseteq anyExcused[m] \union {anyRuns[m]}

LEMMA ContractStep ==
    ASSUME Any!TypeOK, Any!CopiesAreRuns, LatestOnly, NEW m \in Msgs,
           \/ Any!Begin(m)
           \/ \E i \in 1..anyRuns[m] :
                 Any!HandOver(m, i) \/ Any!Refuse(m, i) \/ Any!Doubt(m, i)
    PROVE  Any!TypeOK' /\ Any!CopiesAreRuns' /\ LatestOnly'
  <1>1. anyRuns[m] \in Nat /\ \A n \in Msgs : anyCopies[n] \in SUBSET (Nat \ {0})
                                           /\ anyExcused[n] \in SUBSET (Nat \ {0})
    BY DEF Any!TypeOK
  <1>2. CASE Any!Begin(m)
    <2>1. Any!TypeOK'
      BY <1>1, <1>2 DEF Any!Begin, Any!TypeOK
    <2>2. Any!CopiesAreRuns' /\ LatestOnly'
      BY <1>1, <1>2 DEF Any!Begin, Any!TypeOK, Any!CopiesAreRuns, LatestOnly
    <2> QED BY <2>1, <2>2
  <1>3. ASSUME NEW i \in 1..anyRuns[m],
               Any!HandOver(m, i) \/ Any!Refuse(m, i) \/ Any!Doubt(m, i)
        PROVE  Any!TypeOK' /\ Any!CopiesAreRuns' /\ LatestOnly'
    <2>1. /\ anyRuns' = anyRuns /\ i \in Nat \ {0}
          /\ \A n \in Msgs \ {m} : anyCopies'[n] = anyCopies[n] /\ anyExcused'[n] = anyExcused[n]
      BY <1>1, <1>3 DEF Any!HandOver, Any!Refuse, Any!Doubt, Any!TypeOK
    <2>2. \/ anyCopies'[m] = anyCopies[m] \union {i} /\ anyExcused'[m] = anyExcused[m]
                /\ (i = anyRuns[m] \/ i \in anyExcused[m])
          \/ anyCopies'[m] = anyCopies[m] \ {i} /\ anyExcused'[m] = anyExcused[m]
          \/ anyCopies'[m] = anyCopies[m] /\ anyExcused'[m] = anyExcused[m] \union {i}
      BY <1>3 DEF Any!HandOver, Any!Refuse, Any!Doubt, Any!TypeOK
    <2>3. Any!TypeOK'
      <3>1. anyCopies[m] \union {i} \in SUBSET (Nat \ {0})
            /\ anyCopies[m] \ {i} \in SUBSET (Nat \ {0})
            /\ anyExcused[m] \union {i} \in SUBSET (Nat \ {0})
        BY <1>1, <2>1
      <3>2. \A e \in SUBSET (Nat \ {0}) :
               /\ [anyCopies EXCEPT ![m] = e] \in [Msgs -> SUBSET (Nat \ {0})]
               /\ [anyExcused EXCEPT ![m] = e] \in [Msgs -> SUBSET (Nat \ {0})]
        BY DEF Any!TypeOK
      <3>3. \E e \in SUBSET (Nat \ {0}) :
               /\ anyCopies' = anyCopies \/ anyCopies' = [anyCopies EXCEPT ![m] = e]
               /\ anyExcused' = anyExcused \/ anyExcused' = [anyExcused EXCEPT ![m] = e]
        BY <1>3, <3>1, Zenon DEF Any!HandOver, Any!Refuse, Any!Doubt
      <3>4. anyCopies' \in [Msgs -> SUBSET (Nat \ {0})]
        BY <3>2, <3>3, Zenon DEF Any!TypeOK
      <3>5. anyExcused' \in [Msgs -> SUBSET (Nat \ {0})]
        BY <3>2, <3>3, Zenon DEF Any!TypeOK
      <3> QED BY <2>1, <3>4, <3>5 DEF Any!TypeOK
    <2>4. Any!CopiesAreRuns'
      BY <2>1, <2>2 DEF Any!CopiesAreRuns
    <2>5. LatestOnly'
      BY <2>1, <2>2 DEF LatestOnly
    <2> QED BY <2>3, <2>4, <2>5
  <1> QED BY <1>2, <1>3

\* The contract by itself rules out avoidable double sends: a copy of an
\* earlier try is one whose fate nobody could know (bull.config.js:59-67).
THEOREM ContractSafety ==
    Any!Spec => [](Any!TypeOK /\ Any!CopiesAreRuns /\ Any!NoAvoidableDuplicate)
  <1>1. Any!Init => Any!TypeOK /\ Any!CopiesAreRuns /\ LatestOnly
    BY DEF Any!Init, Any!TypeOK, Any!CopiesAreRuns, LatestOnly
  <1>2. Any!TypeOK /\ Any!CopiesAreRuns /\ LatestOnly /\ [Any!Next]_(Any!vars)
        => Any!TypeOK' /\ Any!CopiesAreRuns' /\ LatestOnly'
    <2>1. CASE UNCHANGED Any!vars
      BY <2>1 DEF Any!vars, Any!TypeOK, Any!CopiesAreRuns, LatestOnly
    <2> QED BY <2>1, ContractStep DEF Any!Next
  <1>3. Any!TypeOK /\ LatestOnly => Any!NoAvoidableDuplicate
    BY DEF Any!TypeOK, LatestOnly, Any!NoAvoidableDuplicate
  <1> QED BY <1>1, <1>2, <1>3, PTL DEF Any!Spec

-----------------------------------------------------------------------------
\* From the row to the receiver.

\* The webhook queue of the path meets the assumptions of its proofs.
LEMMA PathMeetsAssumption ==
    /\ MaxCallbacks \in Nat /\ MaxStalled \in Nat /\ MaxFaults \in Nat /\ MaxLost \in Nat
    /\ HookAttempts \in Nat \ {0} /\ HookConcurrency \in Nat \ {0}
    /\ Terminal \union {"retrying"} \subseteq {"retrying", "sent", "failed", "unconfirmed"}
    /\ Answers \subseteq {"ok", "reject", "busy"}
  BY LimitsAssumption, PathAssumption DEF Terminal

\* A step of the path is one of the pipeline, so that it keeps all of the above.
LEMMA PathIsPipeline == PathSpec => Spec
  <1>1. PathInit => Init
    BY DEF PathInit
  <1>2. [PathNext]_pathVars => [Next]_vars
    BY DEF PathNext, PipelineStep, pathVars, Next
  <1> QED BY <1>1, <1>2, PTL DEF PathSpec, Spec

\* The queue in this module and the queue of its proofs are the same.
LEMMA SameStart ==
    /\ Webhook!HookInit <=> WP!HookInit
    /\ Webhook!Init <=> WP!Init
  BY DEF Webhook!Init, WP!Init, Webhook!HookInit, WP!HookInit, Webhook!Callbacks,
         WP!Callbacks

LEMMA SameStep ==
    ASSUME NEW c
    PROVE  Webhook!HookStep(c) <=> WP!HookStep(c)
  <1>1. Webhook!Callbacks = WP!Callbacks
    BY DEF Webhook!Callbacks, WP!Callbacks
  <1>2. Webhook!Post(c) <=> WP!Post(c)
    BY <1>1 DEF Webhook!Post, WP!Post, Webhook!Cardinality, WP!Cardinality
  <1>3. Webhook!FailStalled(c) <=> WP!FailStalled(c)
    BY DEF Webhook!FailStalled, WP!FailStalled
  <1>4. Webhook!GiveUp(c) <=> WP!GiveUp(c)
    BY DEF Webhook!GiveUp, WP!GiveUp, Webhook!hookVars, WP!hookVars
  <1>5. Webhook!Finish(c) <=> WP!Finish(c)
    BY DEF Webhook!Finish, WP!Finish, Webhook!IsPermanent, WP!IsPermanent
  <1>6. Webhook!Fail(c) <=> WP!Fail(c)
    BY DEF Webhook!Fail, WP!Fail, Webhook!IsPermanent, WP!IsPermanent
  <1>7. Webhook!Backoff(c) <=> WP!Backoff(c)
    BY DEF Webhook!Backoff, WP!Backoff
  <1>8. Webhook!HookStall(c) <=> WP!HookStall(c)
    BY DEF Webhook!HookStall, WP!HookStall
  <1>10. Webhook!HookLoseLock(c) <=> WP!HookLoseLock(c)
    BY DEF Webhook!HookLoseLock, WP!HookLoseLock
  <1>9. ASSUME NEW k PROVE Webhook!Arrive(c, k) <=> WP!Arrive(c, k)
    BY DEF Webhook!Arrive, WP!Arrive, Webhook!Apply, WP!Apply, Webhook!hookVars, WP!hookVars
  <1> QED BY <1>2, <1>3, <1>4, <1>5, <1>6, <1>7, <1>8, <1>9, <1>10
          DEF Webhook!HookStep, WP!HookStep

\* Restarts are counted, and are faults.
LEMMA RestartsCounted ==
    ASSUME TypeOK
    PROVE  /\ Restarts \in Nat /\ Restarts <= Len(faults)
           /\ faults' = faults => Restarts' = Restarts
           /\ \A k \in FaultKinds : faults' = Append(faults, k) =>
                 Restarts' = IF k = "crash" THEN Restarts + 1 ELSE Restarts
  <1> DEFINE R == {i \in DOMAIN faults : faults[i] = "crash"}
             L == Len(faults)
  <1>1. faults \in Seq(FaultKinds) /\ L \in Nat /\ DOMAIN faults = 1..L
    BY DEF TypeOK, HistoryType
  <1>2. IsFiniteSet(R) /\ Cardinality(R) \in Nat /\ Cardinality(R) <= L
    <2>1. IsFiniteSet(1..L) /\ Cardinality(1..L) = L
      BY <1>1, FS_Interval
    <2>2. R \in SUBSET (1..L)
      BY <1>1
    <2> QED BY <2>1, <2>2, FS_Subset, FS_CardinalityType
  <1>3. ASSUME NEW k \in FaultKinds, faults' = Append(faults, k)
        PROVE  Restarts' = IF k = "crash" THEN Restarts + 1 ELSE Restarts
    <2>1. /\ DOMAIN faults' = 1..L + 1
          /\ \A i \in 1..L : faults'[i] = faults[i]
          /\ faults'[L + 1] = k
      BY <1>1, <1>3
    <2>2. R' = IF k = "crash" THEN R \union {L + 1} ELSE R
      BY <1>1, <2>1
    <2>3. L + 1 \notin R
      BY <1>1
    <2>4. Cardinality(R \union {L + 1}) = Cardinality(R) + 1
      BY <1>2, <2>3, FS_AddElement
    <2> QED BY <2>2, <2>4 DEF Restarts
  <1> QED BY <1>2, <1>3 DEF Restarts

\* What the pipeline appends is one more call of enqueueWebhook: the jobs of the
\* earlier callbacks are in the queue already.
LEMMA PipelineEnqueues ==
    ASSUME TypeOK, WP!HookInv, PipelineStep
    PROVE  [WP!Next]_(WP!vars)
  <1> DEFINE C == WP!Callbacks
             Q == Terminal \union {"retrying"}
  <1>1. /\ hook \in [C -> {"none", "wait", "active", "stalled", "delayed"} \union WP!Ended]
        /\ \A c \in C : IF c[2] <= Len(callbacks[c[1]]) THEN hook[c] # "none"
                       ELSE hook[c] = "none"
    BY DEF WP!HookInv, WP!Types, WP!JobInv, WP!Posted
  <1>2. /\ hook' = [c \in C |-> IF hook[c] = "none" /\ c[2] <= Len(callbacks'[c[1]])
                                THEN "wait" ELSE hook[c]]
        /\ UNCHANGED <<failures, hookStalls, sends, wire, reply, seen, newest, got>>
        /\ \A m \in Msgs : Len(callbacks[m]) < MaxCallbacks
        /\ ProcessStep
    BY DEF PipelineStep, EnqueueNew, WP!Callbacks, Webhook!Callbacks
  <1>3. Restarts' = Restarts
    BY <1>2, OneStatus, RestartsCounted
  <1>4. CASE callbacks' = callbacks
    <2>1. hook' = hook
      BY <1>1, <1>2, <1>4
    <2> QED BY <1>2, <1>3, <1>4, <2>1 DEF WP!vars, WP!hookVars
  <1>5. ASSUME NEW m \in Msgs, NEW st \in Q,
               callbacks' = [callbacks EXCEPT ![m] = Append(@, st)]
        PROVE  WP!Next
    <2> DEFINE n == Len(callbacks[m])
    <2>1. /\ callbacks \in [Msgs -> Seq(Q)] /\ n \in Nat /\ n < MaxCallbacks
          /\ MaxCallbacks \in Nat
      BY <1>2, PathMeetsAssumption DEF TypeOK, RowType
    <2>2. /\ Len(callbacks'[m]) = n + 1
          /\ \A o \in Msgs \ {m} : callbacks'[o] = callbacks[o]
      BY <1>5, <2>1
    <2>3. <<m, n + 1>> \in C
      BY <2>1 DEF WP!Callbacks
    <2>4. ASSUME NEW c \in C
          PROVE  hook'[c] = IF c = <<m, n + 1>> THEN "wait" ELSE hook[c]
      <3>1. c[1] \in Msgs /\ c[2] \in Nat /\ c = <<c[1], c[2]>>
        BY <2>1 DEF WP!Callbacks
      <3>2. hook'[c] = IF hook[c] = "none" /\ c[2] <= Len(callbacks'[c[1]])
                       THEN "wait" ELSE hook[c]
        BY <1>2
      <3>3. CASE c[1] # m
        BY <1>1, <2>2, <3>1, <3>2, <3>3
      <3>4. CASE c[1] = m
        <4>1. /\ hook[c] = "none" <=> ~(c[2] <= n)
              /\ hook'[c] = IF hook[c] = "none" /\ c[2] <= n + 1 THEN "wait" ELSE hook[c]
          BY <1>1, <2>2, <3>2, <3>4
        <4>2. c = <<m, n + 1>> <=> c[2] = n + 1
          BY <3>1, <3>4
        <4> QED BY <2>1, <3>1, <4>1, <4>2
      <3> QED BY <3>3, <3>4
    <2>5. hook' = [hook EXCEPT ![<<m, n + 1>>] = "wait"]
      BY <1>1, <1>2, <2>4
    <2>6. WP!Enqueue(m, st)
      BY <1>2, <1>3, <1>5, <2>1, <2>5 DEF WP!Enqueue
    <2> QED BY <2>6 DEF WP!Next
  <1> QED BY <1>2, <1>4, <1>5, OneStatus

\* Every step of the path is one of the webhook queue, or leaves it alone.
LEMMA PathDelivers ==
    ASSUME TypeOK, WP!HookInv, [PathNext]_pathVars
    PROVE  [WP!Next]_(WP!vars)
  <1>1. CASE PipelineStep
    BY <1>1, PipelineEnqueues
  <1>2. CASE Crash /\ Webhook!HookCrash
    <2>1. "crash" \in FaultKinds /\ Len(faults) < MaxFaults /\ faults' = Append(faults, "crash")
          /\ callbacks' = callbacks
      BY <1>2 DEF Crash, Fault
    <2>2. Restarts < MaxFaults /\ Restarts' = Restarts + 1
      <3>1. Len(faults) \in Nat /\ MaxFaults \in Nat
        BY LimitsAssumption DEF TypeOK, HistoryType
      <3> QED BY <2>1, <3>1, RestartsCounted
    <2>3. WP!HookCrash
      BY <1>2 DEF Webhook!HookCrash, WP!HookCrash, Webhook!Callbacks, WP!Callbacks
    <2>4. WP!Restart
      BY <2>1, <2>2, <2>3 DEF WP!Restart
    <2> QED BY <2>4 DEF WP!Next
  <1>3. ASSUME NEW c \in Webhook!Callbacks, Webhook!HookStep(c)
        PROVE  WP!Next
    BY <1>3, SameStep DEF WP!Next, Webhook!Callbacks, WP!Callbacks
  <1>4. CASE UNCHANGED pathVars
    <2>1. UNCHANGED faults /\ UNCHANGED WP!hookVars
          /\ UNCHANGED <<callbacks, wire, reply, seen, newest, got>>
      BY <1>4 DEF pathVars, hookSide, vars, WP!hookVars
    <2> QED BY <2>1, RestartsCounted DEF WP!vars
  <1> QED BY <1>1, <1>2, <1>3, <1>4 DEF PathNext

\* The path keeps the invariants of both its parts.
LEMMA PathInvariance == PathSpec => [](TypeOK /\ OutcomeInv /\ WP!HookInv) /\ WP!Spec
  <1>1. PathInit => WP!Init
    BY SameStart DEF PathInit, WP!Init, Init
  <1>2. WP!Init => WP!HookInv
    BY WP!HookInvInit, PathMeetsAssumption
  <1>3. WP!HookInv /\ [WP!Next]_(WP!vars) => WP!HookInv'
    BY WP!HookInvStep, PathMeetsAssumption
  <1>4. TypeOK /\ WP!HookInv /\ [PathNext]_pathVars => [WP!Next]_(WP!vars)
    BY PathDelivers
  <1> QED BY <1>1, <1>2, <1>3, <1>4, PathIsPipeline, OutcomeInvariance, PTL
          DEF PathSpec, WP!Spec

\* A receiver that was delivered every callback shows the last status.
LEMMA ShowsTheLast ==
    ASSUME TypeOK, WP!ReceiverConverges, NEW m \in Msgs, Delivered(m),
           \A i \in 1..Len(callbacks[m]) - 1 : callbacks[m][i] = "retrying"
    PROVE  Webhook!Shown(m) = status[m]
  <1>1. Len(callbacks[m]) > 0
    <2>1. callbacks[m] \in Seq(Terminal \union {"retrying"}) /\ callbacks[m] # <<>>
      BY DEF TypeOK, RowType, Delivered
    <2> QED BY <2>1
  <1>2. \A i \in 1..Len(callbacks[m]) : hook[<<m, i>>] = "done"
    BY DEF Delivered
  <1>3. WP!Shown(m) = callbacks[m][Len(callbacks[m])]
    BY <1>1, <1>2 DEF WP!ReceiverConverges
  <1> QED BY <1>3 DEF Delivered, WP!Shown, Webhook!Shown

\* A subscriber that does what README.md:256 asks of it shows the status the row
\* has, in whatever order its callbacks came and though the process crashed,
\* unless the job stalled (bull.config.js:70-82, 126-136).
THEOREM ReceiversShowOutcomes == PathSpec => []ReceiverShowsOutcome
  <1>1. ASSUME TypeOK, OutcomeInv, WP!ReceiverConverges
        PROVE  ReceiverShowsOutcome
    <2> SUFFICES ASSUME NEW m \in Subscribed, stalls[m] = 0, Delivered(m)
                 PROVE  Webhook!Shown(m) = status[m]
      BY DEF ReceiverShowsOutcome
    <2>1. m \in Msgs
      BY SettingsAssumption
    <2>2. \A i \in 1..Len(callbacks[m]) - 1 : callbacks[m][i] = "retrying"
      BY <1>1, <2>1 DEF OutcomeInv, Once, LastWord
    <2> QED BY <1>1, <2>1, <2>2, ShowsTheLast
  <1>2. WP!Spec => []WP!ReceiverConverges
    BY WP!ReceiversConverge, PathMeetsAssumption
  <1> QED BY <1>1, <1>2, PathInvariance, PTL

\* As long as the process ran, kept its locks and reached Redis, such a subscriber
\* shows what the row of a message at rest says as soon as every callback was
\* delivered, also when row updates fail (router.js:131-134,
\* bull.config.js:70-82, 126-136).
THEOREM ReceiversFollowRows == PathSpec => []ReceiverFollowsRow
  <1>1. ASSUME TypeOK, OutcomeInv, FollowsKept, WP!ReceiverConverges
        PROVE  ReceiverFollowsRow
    <2> SUFFICES ASSUME NEW m \in Subscribed, Undisturbed, ~Happened("redis"), Quiet(m),
                        Worth(status[m]),
                        \A i \in 1..Len(callbacks[m]) : hook[m, i] = "done"
                 PROVE  Webhook!Shown(m) = status[m]
      BY DEF ReceiverFollowsRow, Worth
    <2>1. m \in Msgs
      BY SettingsAssumption
    <2>2. FollowsInv
      BY <1>1 DEF FollowsKept
    <2>3. Len(callbacks[m]) > 0 /\ callbacks[m][Len(callbacks[m])] = status[m]
      BY <2>2, NoneOwed DEF FollowsInv, Follows
    <2>4. Delivered(m)
      <3>1. CASE callbacks[m] = <<>>
        BY <2>3, <3>1
      <3>2. CASE callbacks[m] # <<>>
        BY <2>3, <3>2 DEF Delivered
      <3> QED BY <3>1, <3>2
    <2>5. stalls[m] = 0
      BY <2>1, <2>2 DEF FollowsInv, NeverStalls
    <2>6. \A i \in 1..Len(callbacks[m]) - 1 : callbacks[m][i] = "retrying"
      BY <1>1, <2>1, <2>5 DEF OutcomeInv, Once, LastWord
    <2> QED BY <1>1, <2>1, <2>4, <2>6, ShowsTheLast
  <1>2. WP!Spec => []WP!ReceiverConverges
    BY WP!ReceiversConverge, PathMeetsAssumption
  <1> QED BY <1>1, <1>2, PathInvariance, PathIsPipeline, FollowsInvariance, PTL
=============================================================================

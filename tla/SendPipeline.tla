---------------------------- MODULE SendPipeline ----------------------------
(***************************************************************************)
(* The life of one SMS in the gateway: POST /sms/send writes a row and     *)
(* adds a BullMQ job, a worker slot takes the job, waits for a modem,      *)
(* queues on that modem's promise-chain lock, hands the message over and   *)
(* records the verdict; the worker's 'failed' handler records failures and *)
(* schedules callbacks.  Redis (the job) and SQLite (the row) survive a    *)
(* restart of the process, everything else does not.                       *)
(*                                                                         *)
(* Sources: router/router.js, config/bull.config.js, store/log-store.js,   *)
(* utils/serialize.js, utils/pool.js, config/webhook.config.js and, as an  *)
(* external, the BullMQ worker they configure.                             *)
(***************************************************************************)
EXTENDS Integers, Sequences, FiniteSets

CONSTANTS
    Msgs,             \* requests; each owns one row and at most one job
    Modems,           \* modem ids that may ever be configured
    Slots,            \* concurrent processor calls of the worker
    NoMsg, NoModem, NoSlot,  \* "null"
    Fleets,           \* the MODEMS settings a (re)start may find
    MaxAttempts,      \* opts.attempts, bull.config.js:15
    MaxStalled,       \* BullMQ's maxStalledCount
    Subscribed,       \* messages whose row has an allowed callback URL
    SendIntermediate, \* WEBHOOK_SEND_INTERMEDIATE
    UssdModems,       \* modems whose driver supports USSD
    FaultKinds,       \* faults the environment may inject
    MaxFaults         \* bound: how many of them

ASSUME NullsAssumption ==
    NoMsg \notin Msgs /\ NoModem \notin Modems /\ NoSlot \notin Slots
ASSUME FleetsAssumption ==
    Fleets # {} /\ \A f \in Fleets : f \subseteq Modems /\ f # {} /\ IsFiniteSet(f)
ASSUME LimitsAssumption ==
    /\ MaxAttempts \in Nat \ {0}
    /\ MaxStalled \in Nat
    /\ MaxFaults \in Nat
ASSUME SettingsAssumption ==
    /\ Subscribed \subseteq Msgs
    /\ UssdModems \subseteq Modems
    /\ SendIntermediate \in BOOLEAN
    /\ FaultKinds \subseteq {"crash", "lock", "db", "redis"}

VARIABLES
    fleet,      \* the modems of the running process (pool.js)
    http,       \* the POST /send handler of each message
    status,     \* sent_messages.status, "none" before the INSERT
    rowModem,   \* sent_messages.modem_id
    pin,        \* job.data.modem
    job,        \* state of the BullMQ job
    made,       \* job.attemptsMade
    stalls,     \* times the job was found stalled
    owner,      \* slot holding the job's lock
    phase,      \* what each slot's processor call is doing
    serves,     \* the message it works for
    run,        \* which processor run of that message it is
    on,         \* the modem it chose
    chain,      \* callers on each modem's lock; the head holds it
    hStage,     \* next step of the 'failed' handler
    verdict,    \* the error it was given: plain or UnrecoverableError
    hModem,     \* err.modemId
    callbacks,  \* statuses added to the webhook queue, oldest first
    checked,    \* modems balance-checked within the last 10 minutes
    runs,       \* history: processor runs started per message
    copies,     \* history: runs whose copy a modem took
    excused,    \* history: runs that ended with their fate unknown
    tried,      \* history: the last modem asked to send the message
    faults      \* history: the faults injected so far

rowVars     == <<status, rowModem>>
jobVars     == <<job, made, stalls, owner, runs>>
slotVars    == <<phase, serves, run, on>>
handlerVars == <<hStage, verdict, hModem>>
vars == <<fleet, http, rowVars, pin, jobVars, slotVars, chain, handlerVars,
          callbacks, checked, copies, excused, tried, faults>>

Terminal == {"sent", "failed", "unconfirmed"}

RowType ==
    /\ http \in [Msgs -> {"idle", "appended", "rejected", "refused",
                          "accepted", "error", "gone"}]
    /\ status \in [Msgs -> Terminal \union {"none", "pending", "retrying"}]
    /\ rowModem \in [Msgs -> Modems \union {NoModem}]
    /\ callbacks \in [Msgs -> Seq(Terminal \union {"retrying"})]

JobType ==
    /\ pin \in [Msgs -> Modems \union {NoModem}]
    /\ job \in [Msgs -> {"none", "wait", "active", "delayed", "completed", "failed"}]
    /\ made \in [Msgs -> Nat]
    /\ stalls \in [Msgs -> Nat]
    /\ owner \in [Msgs -> Slots \union {NoSlot}]

SlotType ==
    /\ phase \in [Slots -> {"idle", "waiting", "queued", "handed", "sent",
                            "returning", "failing", "aborting"}]
    /\ serves \in [Slots -> Msgs \union {NoMsg}]
    /\ run \in [Slots -> Nat]
    /\ on \in [Slots -> Modems \union {NoModem}]
    /\ chain \in [Modems -> Seq(Slots)]

HandlerType ==
    /\ hStage \in [Msgs -> {"none", "update", "notify", "balance"}]
    /\ verdict \in [Msgs -> {"none", "plain", "unrecoverable"}]
    /\ hModem \in [Msgs -> Modems \union {NoModem}]
    /\ checked \subseteq Modems

HistoryType ==
    /\ runs \in [Msgs -> Nat]
    /\ copies \in [Msgs -> SUBSET Nat]
    /\ excused \in [Msgs -> SUBSET Nat]
    /\ tried \in [Msgs -> Modems \union {NoModem}]
    /\ faults \in Seq(FaultKinds)
    /\ fleet \in Fleets

\* Every variable keeps its type; no status, callback or job state outside the
\* documented ones is ever written (router.js:102-137, bull.config.js:39-142).
TypeOK == RowType /\ JobType /\ SlotType /\ HandlerType /\ HistoryType

-----------------------------------------------------------------------------
Init ==
    /\ fleet \in Fleets
    /\ http = [m \in Msgs |-> "idle"]
    /\ status = [m \in Msgs |-> "none"]
    /\ rowModem = [m \in Msgs |-> NoModem]
    /\ pin = [m \in Msgs |-> NoModem]
    /\ job = [m \in Msgs |-> "none"]
    /\ made = [m \in Msgs |-> 0]
    /\ stalls = [m \in Msgs |-> 0]
    /\ owner = [m \in Msgs |-> NoSlot]
    /\ phase = [s \in Slots |-> "idle"]
    /\ serves = [s \in Slots |-> NoMsg]
    /\ run = [s \in Slots |-> 0]
    /\ on = [s \in Slots |-> NoModem]
    /\ chain = [d \in Modems |-> <<>>]
    /\ hStage = [m \in Msgs |-> "none"]
    /\ verdict = [m \in Msgs |-> "none"]
    /\ hModem = [m \in Msgs |-> NoModem]
    /\ callbacks = [m \in Msgs |-> <<>>]
    /\ checked = {}
    /\ runs = [m \in Msgs |-> 0]
    /\ copies = [m \in Msgs |-> {}]
    /\ excused = [m \in Msgs |-> {}]
    /\ tried = [m \in Msgs |-> NoModem]
    /\ faults = <<>>

\* One fault of kind k happens in this step.
Fault(k) ==
    /\ k \in FaultKinds
    /\ Len(faults) < MaxFaults
    /\ faults' = Append(faults, k)

NoFault == UNCHANGED faults

-----------------------------------------------------------------------------
\* Shared steps.

\* Mutant: the handler knows only two final statuses.
ShouldNotify_NoUnconfirmed(st) == st \in {"sent", "failed"}

\* utils/webhook.js: terminal statuses always, `retrying` only when configured.
ShouldNotify(st) == st \in Terminal \/ (st = "retrying" /\ SendIntermediate)

\* enqueueWebhook never throws: a Redis error only loses the callback.
EnqueueWebhook(m, st) ==
    IF m \in Subscribed /\ ShouldNotify(st)
    THEN \/ callbacks' = [callbacks EXCEPT ![m] = Append(@, st)] /\ NoFault
         \/ UNCHANGED callbacks /\ Fault("redis")
    ELSE UNCHANGED callbacks /\ NoFault

\* updateLog: an absent modemId leaves the column alone (PATCHABLE).
UpdateLog(m, st, d) ==
    /\ status' = [status EXCEPT ![m] = st]
    /\ rowModem' = [rowModem EXCEPT ![m] = IF d = NoModem THEN @ ELSE d]

Busy == {s \in Slots : phase[s] # "idle"}

\* The slot's processor call ends and, if it held or awaited a modem's lock
\* (createSerializer), its place in that chain is gone.
Idle(s) ==
    /\ phase' = [phase EXCEPT ![s] = "idle"]
    /\ serves' = [serves EXCEPT ![s] = NoMsg]
    /\ run' = [run EXCEPT ![s] = 0]
    /\ on' = [on EXCEPT ![s] = NoModem]

Goto(s, p) == phase' = [phase EXCEPT ![s] = p] /\ UNCHANGED <<serves, run, on>>

\* Mutant: the driver does not serialize its callers.
HoldsModem_NoLock(s) == on[s] \in Modems

\* A call holds the modem when it is the first of the promise chain.
HoldsModem(s) ==
    /\ on[s] \in Modems
    /\ chain[on[s]] # <<>>
    /\ Head(chain[on[s]]) = s

ReleaseModem(s) == chain' = [chain EXCEPT ![on[s]] = Tail(@)]

-----------------------------------------------------------------------------
\* POST /send (router.js:102-137).

\* validateSend let the request through, so a pinned modem is configured now;
\* appendLog writes the row, or fails and leaves none.
PostSend(m) ==
    /\ http[m] = "idle"
    /\ \/ \E d \in fleet \union {NoModem} :
             /\ http' = [http EXCEPT ![m] = "appended"]
             /\ pin' = [pin EXCEPT ![m] = d]
             /\ UpdateLog(m, "pending", d)
             /\ NoFault
       \/ /\ Fault("db")
          /\ http' = [http EXCEPT ![m] = "error"]
          /\ UNCHANGED <<pin, rowVars>>
    /\ UNCHANGED <<fleet, jobVars, slotVars, chain, handlerVars, callbacks,
                   checked, copies, excused, tried>>

\* sendSMSQueue.add, then the 202.
AddJob(m) ==
    /\ http[m] = "appended"
    /\ \/ /\ http' = [http EXCEPT ![m] = "accepted"]
          /\ job' = [job EXCEPT ![m] = "wait"]
          /\ NoFault
       \/ /\ Fault("redis")
          /\ http' = [http EXCEPT ![m] = "rejected"]
          /\ UNCHANGED job
    /\ UNCHANGED <<fleet, rowVars, pin, made, stalls, owner, runs, slotVars, chain,
                   handlerVars, callbacks, checked, copies, excused, tried>>

\* The catch block's updateLog(failed), itself allowed to fail (.catch(null)).
RecordRefusal(m) ==
    /\ http[m] = "rejected"
    /\ \/ /\ http' = [http EXCEPT ![m] = "refused"]
          /\ UpdateLog(m, "failed", NoModem)
          /\ NoFault
       \/ /\ Fault("db")
          /\ http' = [http EXCEPT ![m] = "error"]
          /\ UNCHANGED rowVars
    /\ UNCHANGED <<fleet, pin, jobVars, slotVars, chain, handlerVars, callbacks,
                   checked, copies, excused, tried>>

\* ... and its callback, then the 500.
NotifyRefusal(m) ==
    /\ http[m] = "refused"
    /\ http' = [http EXCEPT ![m] = "error"]
    /\ EnqueueWebhook(m, "failed")
    /\ UNCHANGED <<fleet, rowVars, pin, jobVars, slotVars, chain, handlerVars,
                   checked, copies, excused, tried>>

-----------------------------------------------------------------------------
\* The worker's processor (bull.config.js:39-86).

\* BullMQ hands a waiting job to a free processor call; concurrency is the
\* number of configured modems.
Take(s, m, p, d) ==
    /\ phase[s] = "idle"
    /\ Cardinality(Busy) < Cardinality(fleet)
    /\ job[m] = "wait"
    /\ job' = [job EXCEPT ![m] = "active"]
    /\ owner' = [owner EXCEPT ![m] = s]
    /\ phase' = [phase EXCEPT ![s] = p]
    /\ serves' = [serves EXCEPT ![s] = m]
    /\ on' = [on EXCEPT ![s] = d]
    /\ UNCHANGED <<fleet, http, rowVars, pin, made, stalls, chain, handlerVars,
                   callbacks, checked, copies, excused, tried, faults>>

StartRun(s, m) ==
    /\ runs' = [runs EXCEPT ![m] = @ + 1]
    /\ run' = [run EXCEPT ![s] = runs[m] + 1]

\* The pinned modem if it is configured, else whatever pool.pick() returns.
TakeJob(s, m) ==
    /\ stalls[m] <= MaxStalled
    /\ \E d \in fleet :
          /\ pin[m] \in {d, NoModem}
          /\ Take(s, m, "waiting", d)
    /\ StartRun(s, m)

\* "retrying can't fix a modem that isn't configured": the pin was valid when
\* the request was accepted, a restart changed the fleet.
TakeUnknownModem(s, m) ==
    /\ stalls[m] <= MaxStalled
    /\ pin[m] \notin fleet \union {NoModem}
    /\ Take(s, m, "aborting", NoModem)
    /\ StartRun(s, m)

\* A job that stalled too often is failed by the worker that takes it, with an
\* UnrecoverableError and without calling the processor.
TakeDeferred(s, m) ==
    /\ stalls[m] > MaxStalled
    /\ Take(s, m, "aborting", NoModem)
    /\ UNCHANGED <<runs, run>>

\* waitForModem returned, connected or after 30 s: modem.sendSMS is called and
\* queues on the modem's lock.
JoinChain(s) ==
    /\ phase[s] = "waiting"
    /\ Goto(s, "queued")
    /\ chain' = [chain EXCEPT ![on[s]] = Append(@, s)]
    /\ tried' = [tried EXCEPT ![serves[s]] = on[s]]
    /\ UNCHANGED <<fleet, http, rowVars, pin, jobVars, handlerVars, callbacks,
                   checked, copies, excused, faults>>

\* The driver gives the message to the modem (body after the "> " prompt,
\* SEND_SMS accepted, isms returned).
HandOver(s) ==
    /\ phase[s] = "queued"
    /\ HoldsModem(s)
    /\ Goto(s, "handed")
    /\ copies' = [copies EXCEPT ![serves[s]] = @ \union {run[s]}]
    /\ UNCHANGED <<fleet, http, rowVars, pin, jobVars, chain, handlerVars, callbacks,
                   checked, excused, tried, faults>>

\* Mutant: a rejected call keeps its place in the chain.
SendFails_KeepsLock(s) ==
    /\ Goto(s, "failing")
    /\ UNCHANGED <<fleet, http, rowVars, pin, jobVars, chain, handlerVars, callbacks,
                   checked, tried, faults>>

\* sendSMS rejects and the error goes to BullMQ as it is.
SendFails(s) ==
    /\ Goto(s, "failing")
    /\ ReleaseModem(s)
    /\ UNCHANGED <<fleet, http, rowVars, pin, jobVars, handlerVars, callbacks,
                   checked, tried, faults>>

\* Before the hand-over: not connected, no prompt, login refused ...
FailsEarly(s) ==
    /\ phase[s] = "queued"
    /\ HoldsModem(s)
    /\ SendFails(s)
    /\ UNCHANGED <<copies, excused>>

\* The modem itself says the message was not sent (+CMS ERROR, send state 2).
ModemRefuses(s) ==
    /\ phase[s] = "handed"
    /\ SendFails(s)
    /\ copies' = [copies EXCEPT ![serves[s]] = @ \ {run[s]}]
    /\ UNCHANGED excused

\* The answer is lost with the port, the HTTP session or the adb call: the
\* drivers report a plain error although the message may be on its way.
AnswerLost(s) ==
    /\ phase[s] = "handed"
    /\ SendFails(s)
    /\ excused' = [excused EXCEPT ![serves[s]] = @ \union {run[s]}]
    /\ UNCHANGED copies

\* err.confirmTimeout: the catch block throws a new UnrecoverableError, which
\* does not carry the modemId set on the original error.
ConfirmTimesOut(s) ==
    /\ phase[s] = "handed"
    /\ Goto(s, "aborting")
    /\ ReleaseModem(s)
    /\ UNCHANGED <<fleet, http, rowVars, pin, jobVars, handlerVars, callbacks,
                   checked, copies, excused, tried, faults>>

\* sendSMS resolves; the processor records `sent`.  A database error is logged
\* and swallowed, and takes the callback with it.
Confirmed(s) ==
    /\ phase[s] = "handed"
    /\ ReleaseModem(s)
    /\ \/ /\ UpdateLog(serves[s], "sent", on[s])
          /\ Goto(s, "sent")
          /\ NoFault
       \/ /\ Fault("db")
          /\ Goto(s, "returning")
          /\ UNCHANGED rowVars
    /\ UNCHANGED <<fleet, http, pin, jobVars, handlerVars, callbacks, checked,
                   copies, excused, tried>>

NotifySent(s) ==
    /\ phase[s] = "sent"
    /\ EnqueueWebhook(serves[s], "sent")
    /\ Goto(s, "returning")
    /\ UNCHANGED <<fleet, http, rowVars, pin, jobVars, chain, handlerVars, checked,
                   copies, excused, tried>>

\* BullMQ moves the job on only for the call that still holds its lock.
Owns(s) == owner[serves[s]] = s

Complete(s) ==
    /\ phase[s] = "returning"
    /\ Owns(s)
    /\ job' = [job EXCEPT ![serves[s]] = "completed"]
    /\ owner' = [owner EXCEPT ![serves[s]] = NoSlot]
    /\ Idle(s)
    /\ UNCHANGED <<fleet, http, rowVars, pin, made, stalls, runs, chain, handlerVars,
                   callbacks, checked, copies, excused, tried, faults>>

\* Mutants: an unconfirmed send is retried; one attempt too many.
IsFinal_RetriesUnconfirmed(v, n) == n >= MaxAttempts
IsFinal_OffByOne(v, n) == v = "unrecoverable" \/ n > MaxAttempts

\* A retry is scheduled unless the error is unrecoverable or the attempts are
\* used up; the failed event then runs the handler below.
IsFinal(v, n) == v = "unrecoverable" \/ n >= MaxAttempts

\* Mutant: err.modemId is never set.
ErrorModem_Unset(s, v) == NoModem

\* err.modemId as the handler finds it.
ErrorModem(s, v) == IF v = "plain" THEN on[s] ELSE NoModem

MoveToFailed(s) ==
    LET m == serves[s]
        v == IF phase[s] = "aborting" THEN "unrecoverable" ELSE "plain"
    IN  /\ phase[s] \in {"failing", "aborting"}
        /\ Owns(s)
        /\ hStage[m] = "none"
        /\ made' = [made EXCEPT ![m] = @ + 1]
        /\ job' = [job EXCEPT ![m] = IF IsFinal(v, made[m] + 1)
                                     THEN "failed" ELSE "delayed"]
        /\ owner' = [owner EXCEPT ![m] = NoSlot]
        /\ hStage' = [hStage EXCEPT ![m] = "update"]
        /\ verdict' = [verdict EXCEPT ![m] = v]
        /\ hModem' = [hModem EXCEPT ![m] = ErrorModem(s, v)]
        /\ Idle(s)
        /\ UNCHANGED <<fleet, http, rowVars, pin, stalls, runs, chain, callbacks,
                       checked, copies, excused, tried, faults>>

\* The call whose lock was lost: BullMQ reports an error, no event fires.
DropResult(s) ==
    /\ phase[s] \in {"returning", "failing", "aborting"}
    /\ ~Owns(s)
    /\ Idle(s)
    /\ UNCHANGED <<fleet, http, rowVars, pin, jobVars, chain, handlerVars, callbacks,
                   checked, copies, excused, tried, faults>>

-----------------------------------------------------------------------------
\* worker.on('failed') (bull.config.js:114-142).

\* Mutants: a status outside the documented set; every failure is final; an
\* unconfirmed send reported as failed; the last failure taken for a retry.
FailureStatus_Undocumented(m) ==
    IF verdict[m] = "unrecoverable" THEN "unconfirmed"
    ELSE IF IsFinal(verdict[m], made[m]) THEN "error" ELSE "retrying"
FailureStatus_NoRetrying(m) ==
    IF verdict[m] = "unrecoverable" THEN "unconfirmed" ELSE "failed"
FailureStatus_NoUnconfirmed(m) ==
    IF IsFinal(verdict[m], made[m]) THEN "failed" ELSE "retrying"
FailureStatus(m) ==
    IF verdict[m] = "unrecoverable" THEN "unconfirmed"
    ELSE IF IsFinal(verdict[m], made[m]) THEN "failed" ELSE "retrying"

\* The handler's last step, or its end: a definite final failure checks the
\* balance of the modem that failed.
AfterNotify(m) == IF FailureStatus(m) = "failed" THEN "balance" ELSE "none"

Leave(m, h) ==
    /\ hStage' = [hStage EXCEPT ![m] = h]
    /\ IF h = "none"
       THEN /\ verdict' = [verdict EXCEPT ![m] = "none"]
            /\ hModem' = [hModem EXCEPT ![m] = NoModem]
       ELSE UNCHANGED <<verdict, hModem>>

HandlerUpdate(m) ==
    /\ hStage[m] = "update"
    /\ \/ /\ UpdateLog(m, FailureStatus(m), hModem[m])
          /\ Leave(m, "notify")
          /\ NoFault
       \/ /\ Fault("db")
          /\ Leave(m, AfterNotify(m))
          /\ UNCHANGED rowVars
    /\ UNCHANGED <<fleet, http, pin, jobVars, slotVars, chain, callbacks, checked,
                   copies, excused, tried>>

HandlerNotify(m) ==
    /\ hStage[m] = "notify"
    /\ EnqueueWebhook(m, FailureStatus(m))
    /\ Leave(m, AfterNotify(m))
    /\ UNCHANGED <<fleet, http, rowVars, pin, jobVars, slotVars, chain, checked,
                   copies, excused, tried>>

\* maybeCheckBalance: the throttle is set before the check is queued, so what
\* becomes of the queued check does not matter to the next failure.
HandlerBalance(m) ==
    /\ hStage[m] = "balance"
    /\ checked' = checked \union ({hModem[m]} \intersect fleet \intersect UssdModems)
    /\ Leave(m, "none")
    /\ UNCHANGED <<fleet, http, rowVars, pin, jobVars, slotVars, chain, callbacks,
                   copies, excused, tried, faults>>

\* BALANCE_CHECK_MIN_INTERVAL_MS passes.
BalanceWindowEnds(d) ==
    /\ d \in checked
    /\ checked' = checked \ {d}
    /\ UNCHANGED <<fleet, http, rowVars, pin, jobVars, slotVars, chain, handlerVars,
                   callbacks, copies, excused, tried, faults>>

-----------------------------------------------------------------------------
\* BullMQ and the environment.

\* The backoff (10 s, 20 s) ends.  It outlasts the handler of the failure that
\* caused it: one SQLite statement and one Redis command.
Promote(m) ==
    /\ job[m] = "delayed"
    /\ hStage[m] = "none"
    /\ job' = [job EXCEPT ![m] = "wait"]
    /\ UNCHANGED <<fleet, http, rowVars, pin, made, stalls, owner, runs, slotVars,
                   chain, handlerVars, callbacks, checked, copies, excused, tried,
                   faults>>

\* The lock of a running job expires (Redis unreachable longer than the lock
\* lasts); its processor call goes on, unaware.
LoseLock(m) ==
    /\ owner[m] # NoSlot
    /\ Fault("lock")
    /\ owner' = [owner EXCEPT ![m] = NoSlot]
    /\ UNCHANGED <<fleet, http, rowVars, pin, job, made, stalls, runs, slotVars, chain,
                   handlerVars, callbacks, checked, copies, excused, tried>>

\* The stalled-job check puts an active job nobody holds back in the queue.  The
\* next run sends whatever the row says, which it does not look at
\* (bull.config.js:56-58): a run that is stalled is excused, also one whose `sent`
\* is written.
Stall(m) ==
    /\ job[m] = "active"
    /\ owner[m] = NoSlot
    /\ job' = [job EXCEPT ![m] = "wait"]
    /\ stalls' = [stalls EXCEPT ![m] = @ + 1]
    /\ excused' = [excused EXCEPT ![m] = @ \union {runs[m]}]
    /\ UNCHANGED <<fleet, http, rowVars, pin, made, owner, runs, slotVars, chain,
                   handlerVars, callbacks, checked, copies, tried, faults>>

\* The process dies and is started again, perhaps with another fleet.
Crash ==
    /\ Fault("crash")
    /\ fleet' \in Fleets
    /\ http' = [m \in Msgs |-> IF http[m] \in {"appended", "rejected", "refused"}
                               THEN "gone" ELSE http[m]]
    /\ owner' = [m \in Msgs |-> NoSlot]
    /\ phase' = [s \in Slots |-> "idle"]
    /\ serves' = [s \in Slots |-> NoMsg]
    /\ run' = [s \in Slots |-> 0]
    /\ on' = [s \in Slots |-> NoModem]
    /\ chain' = [d \in Modems |-> <<>>]
    /\ hStage' = [m \in Msgs |-> "none"]
    /\ verdict' = [m \in Msgs |-> "none"]
    /\ hModem' = [m \in Msgs |-> NoModem]
    /\ checked' = {}
    /\ UNCHANGED <<rowVars, pin, job, made, stalls, runs, callbacks, copies, excused,
                   tried>>

-----------------------------------------------------------------------------
HttpStep(m) == PostSend(m) \/ AddJob(m) \/ RecordRefusal(m) \/ NotifyRefusal(m)

TakeStep(s, m) == TakeJob(s, m) \/ TakeUnknownModem(s, m) \/ TakeDeferred(s, m)

SendStep(s) ==
    \/ JoinChain(s) \/ HandOver(s) \/ FailsEarly(s) \/ ModemRefuses(s)
    \/ AnswerLost(s) \/ ConfirmTimesOut(s) \/ Confirmed(s) \/ NotifySent(s)
    \/ Complete(s) \/ MoveToFailed(s) \/ DropResult(s)

HandlerStep(m) == HandlerUpdate(m) \/ HandlerNotify(m) \/ HandlerBalance(m)

ProcessStep ==
    \/ \E m \in Msgs : HttpStep(m) \/ HandlerStep(m) \/ Promote(m)
                       \/ LoseLock(m) \/ Stall(m)
    \/ \E s \in Slots, m \in Msgs : TakeStep(s, m)
    \/ \E s \in Slots : SendStep(s)
    \/ \E d \in Modems : BalanceWindowEnds(d)

Next == ProcessStep \/ Crash

Spec == Init /\ [][Next]_vars

\* The event loop runs every continuation it has, BullMQ serves every waiting
\* job and checks for stalled ones, every driver call ends by its timeout.
Fairness ==
    /\ \A m \in Msgs : /\ WF_vars(AddJob(m) \/ RecordRefusal(m) \/ NotifyRefusal(m))
                       /\ WF_vars(HandlerStep(m))
                       /\ WF_vars(Promote(m))
                       /\ WF_vars(Stall(m))
                       /\ WF_vars(\E s \in Slots : TakeStep(s, m))
    /\ \A s \in Slots : WF_vars(SendStep(s))

FairSpec == Spec /\ Fairness

-----------------------------------------------------------------------------
\* Properties.

\* The contract about double sends, implemented by this module as it is.
Contract == INSTANCE DeliveryContract

\* The send pipeline implements the delivery contract: each step is a step of
\* the contract or leaves its variables alone (bull.config.js:59-67, 79-82).
ImplementsContract == Contract!Spec

\* A modem works on one message at a time: two concurrent jobs never have a
\* message in the same modem, whatever locks of theirs Redis has dropped
\* (utils/serialize.js:6-13 around modem.sendSMS).
OneSendPerModem ==
    \A s, t \in Slots :
        phase[s] = "handed" /\ phase[t] = "handed" /\ on[s] = on[t] => s = t

\* An earlier run's copy is out only when that run ended with its fate unknown
\* (its answer was lost, or the process lost the job): a confirmed send, one
\* whose confirmation timed out, one whose row or callback could not be
\* written, is never repeated (bull.config.js:59-82).
NoAvoidableDuplicate ==
    \A m \in Msgs : \A i \in copies[m] : i < runs[m] => i \in excused[m]

\* A row that says `failed` does not hide a message the gateway knew it had
\* handed over (bull.config.js:114-133, router.js:129-134).
FailedMeansUnsent ==
    \A m \in Msgs : status[m] = "failed" => copies[m] \subseteq excused[m]

\* A message is tried MaxAttempts times, once more only for each stall BullMQ
\* recovered: a job that never stalled has three tries in all, as README.md:225
\* says, and not the three retries of README.md:446 (bull.config.js:14-19).
Recovered(m) == IF stalls[m] <= MaxStalled THEN stalls[m] ELSE MaxStalled
RunsBounded == \A m \in Msgs : runs[m] <= MaxAttempts + Recovered(m)

\* Once the row has its final status nothing changes it again, unless the job
\* stalled and ran a second time.
TerminalRowStable ==
    [][\A m \in Msgs : status[m] \in Terminal /\ stalls[m] = 0
                       => status'[m] = status[m]]_vars

\* A subscriber hears a final status last and once, in the order the rows were
\* written, unless the job stalled (bull.config.js:78,133, router.js:134).
TerminalCallbackLast ==
    \A m \in Msgs : stalls[m] = 0 =>
        \A i \in 1..Len(callbacks[m]) - 1 : callbacks[m][i] = "retrying"

\* What went wrong so far; a job can stall only after a lost lock or a restart.
Happened(k) == \E i \in DOMAIN faults : faults[i] = k
Undisturbed == ~Happened("lock") /\ ~Happened("crash")

\* As long as no lock was lost, `unconfirmed` is for good: the message is never
\* tried nor handed over again (README.md:212, "it is not retried").
UnconfirmedNotRetried ==
    [][\A m \in Msgs : status[m] = "unconfirmed" /\ ~Happened("lock")
                       => runs'[m] = runs[m] /\ copies'[m] = copies[m]]_vars

\* Nothing is being done about m right now, except a backoff.
Quiet(m) ==
    /\ http[m] \in {"accepted", "error", "gone"}
    /\ job[m] # "active"
    /\ hStage[m] = "none"
    /\ \A s \in Slots : serves[s] # m

\* Between steps, the last callback a subscriber was sent tells the status the
\* row has, if that status is one it is told about; a failed row update takes
\* its callback with it (bull.config.js:70-82, 126-136, router.js:131-134).
\* Lost locks, restarts and a Redis that refuses the callback excuse it.
CallbackTellsRow ==
    \A m \in Subscribed : Undisturbed /\ ~Happened("redis") /\ Quiet(m) =>
        IF status[m] \in Terminal \/ (status[m] = "retrying" /\ SendIntermediate)
        THEN callbacks[m] # <<>> /\ callbacks[m][Len(callbacks[m])] = status[m]
        ELSE callbacks[m] = <<>>

\* A sent or failed row names the modem that was last asked to send it, as long
\* as no lock was lost and the process runs on (README.md:212, "the modem that
\* carried (or last attempted) the message").
OutcomeNamesModem ==
    \A m \in Msgs : status[m] \in {"sent", "failed"} /\ tried[m] # NoModem /\ Undisturbed
                    => rowModem[m] = tried[m]

\* The same, of an unconfirmed row (README.md:212, openapi.json:743).
UnconfirmedNamesModem ==
    \A m \in Msgs : status[m] = "unconfirmed" /\ tried[m] # NoModem
                    => rowModem[m] = tried[m]

\* A subscriber is told the outcome of every job that ended
\* (README.md:256, "at-least-once"; webhook.config.js:7-8, "at-least-once
\* delivery survives a gateway restart").
OutcomeReported ==
    \A m \in Subscribed : job[m] \in {"completed", "failed"} /\ Quiet(m)
        => callbacks[m] # <<>> /\ callbacks[m][Len(callbacks[m])] \in Terminal

\* Every accepted message gets a final status, though locks are lost and the
\* webhook queue refuses callbacks; only a restart or a failing row update can
\* leave a row pending or retrying (bull.config.js:114-142).
Settles ==
    \A m \in Msgs : http[m] = "accepted"
        ~> status[m] \in Terminal \/ Happened("crash") \/ Happened("db")

\* Every job ends, though the process crashes and locks are lost: no restart
\* leaves a message running for ever.
JobEnds == \A m \in Msgs : job[m] # "none" ~> job[m] \in {"completed", "failed"}
=============================================================================

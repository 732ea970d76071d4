------------------------------ MODULE UssdQueue ------------------------------
(***************************************************************************)
(* USSD requests of one modem: POST /balance|tariff|number/refresh and the *)
(* automatic balance check write a row and queue a session, ?live=true     *)
(* runs one inside the request; the worker stores the reply and, after a   *)
(* tariff session, queues three looks at the inbox.  Rows are in SQLite,   *)
(* jobs in Redis; the promise-chain lock of the modem is `session`, which  *)
(* holds at most one caller.  Of the driver it has how a session can end,  *)
(* and the +CUSD waiters that failed sessions leave behind.                *)
(*                                                                         *)
(* Sources: config/ussd.config.js, store/ussd-store.js, router/router.js,  *)
(* and runUssd, handleLine and waitForUrc of utils/modem.js.               *)
(***************************************************************************)
EXTENDS Integers, Sequences, FiniteSets

CONSTANTS
    Reqs,         \* requests; each owns one row and at most one job
    Slots,        \* concurrent processor calls of the worker
    NoReq, NoSlot,
    MaxAttempts,  \* opts.attempts, ussd.config.js:27
    MaxStalled,   \* BullMQ's maxStalledCount
    Polls,        \* TARIFF_INBOX_POLL_DELAYS_MS.length
    FaultKinds,   \* faults the environment may inject
    MaxFaults     \* bound: how many of them

ASSUME UssdAssumption ==
    /\ NoReq \notin Reqs /\ NoSlot \notin Slots
    /\ MaxAttempts \in Nat \ {0} /\ MaxStalled \in Nat /\ Polls \in Nat \ {0}
    /\ MaxFaults \in Nat /\ IsFiniteSet(Slots)
    /\ FaultKinds \subseteq {"crash", "lock", "db", "redis"}

VARIABLES
    known,   \* the modem is configured and its driver has USSD
    tariff,  \* the requests of kind tariff
    http,    \* the request handler of each request
    row,     \* ussd_requests.status, "none" before the INSERT
    value,   \* ussd_requests.reply: the run that got it, 0 for null
    job,     \* state of the BullMQ job
    made,    \* job.attemptsMade
    stalls,  \* times the job was found stalled
    owner,   \* slot holding the job's lock
    phase,   \* what each slot's processor call is doing
    serves,  \* the request it works for
    got,     \* the reply it has: its run number, 0 for null
    added,   \* poll-inbox jobs it has added
    polls,   \* poll-inbox jobs in the queue, per request
    hStage,  \* the 'failed' handler: next step
    final,   \* ... and whether it was given a final failure
    left,    \* waiters that failed sessions left in the driver
    runs,    \* history: sessions begun per request
    replied, \* history: those of them the network answered in time
    missed,  \* history: ... whose reply the driver did not return
    threw,   \* history: some session of the modem ended in an error
    faults   \* the faults injected so far

given == <<known, tariff>>
rowVars == <<row, value>>
jobVars == <<job, made, stalls, owner>>
slotVars == <<phase, serves, got, added>>
handlerVars == <<hStage, final>>
driverVars == <<left, replied, missed, threw>>
vars == <<given, http, rowVars, jobVars, slotVars, polls, handlerVars, runs, driverVars,
          faults>>

TypeOK ==
    /\ known \in BOOLEAN /\ tariff \subseteq Reqs
    /\ http \in [Reqs -> {"idle", "created", "rejected", "queued", "live", "threw",
                          "accepted", "answered", "error", "gone"}]
    /\ row \in [Reqs -> {"none", "pending", "done", "failed"}]
    \* no request runs more sessions than its attempts and stalls allow
    /\ runs \in [Reqs -> 0..MaxAttempts + MaxStalled]
    /\ \A r \in Reqs : /\ value[r] \in 0..runs[r]
                       /\ replied[r] \subseteq 1..runs[r] /\ missed[r] \subseteq replied[r]
    /\ left \in Nat /\ threw \in BOOLEAN
    /\ job \in [Reqs -> {"none", "wait", "active", "delayed", "completed", "failed"}]
    /\ made \in [Reqs -> 0..MaxAttempts + 1] /\ stalls \in [Reqs -> Nat]
    /\ owner \in [Reqs -> Slots \union {NoSlot}]
    /\ phase \in [Slots -> {"idle", "waiting", "session", "replied", "polling",
                            "returning", "failing", "aborting"}]
    /\ serves \in [Slots -> Reqs \union {NoReq}]
    /\ got \in [Slots -> 0..MaxAttempts + MaxStalled] /\ added \in [Slots -> 0..Polls]
    /\ polls \in [Reqs -> 0..Polls * (MaxAttempts + MaxStalled)]
    /\ hStage \in [Reqs -> {"none", "update"}] /\ final \in [Reqs -> BOOLEAN]
    /\ faults \in Seq(FaultKinds)

Init ==
    /\ known = TRUE /\ tariff \in SUBSET Reqs
    /\ http = [r \in Reqs |-> "idle"]
    /\ row = [r \in Reqs |-> "none"]
    /\ value = [r \in Reqs |-> 0]
    /\ job = [r \in Reqs |-> "none"]
    /\ made = [r \in Reqs |-> 0]
    /\ stalls = [r \in Reqs |-> 0]
    /\ owner = [r \in Reqs |-> NoSlot]
    /\ phase = [s \in Slots |-> "idle"]
    /\ serves = [s \in Slots |-> NoReq]
    /\ got = [s \in Slots |-> 0]
    /\ added = [s \in Slots |-> 0]
    /\ polls = [r \in Reqs |-> 0]
    /\ hStage = [r \in Reqs |-> "none"]
    /\ final = [r \in Reqs |-> FALSE]
    /\ left = 0
    /\ runs = [r \in Reqs |-> 0]
    /\ replied = [r \in Reqs |-> {}]
    /\ missed = [r \in Reqs |-> {}]
    /\ threw = FALSE
    /\ faults = <<>>

Fault(k) ==
    k \in FaultKinds /\ Len(faults) < MaxFaults /\ faults' = Append(faults, k)
NoFault == UNCHANGED faults
Happened(kinds) == \E i \in DOMAIN faults : faults[i] \in kinds

-----------------------------------------------------------------------------
\* completeRequest sets status, reply and error whatever the row says.
CompleteRequest(r, st, v) ==
    /\ row' = [row EXCEPT ![r] = st]
    /\ value' = [value EXCEPT ![r] = v]

\* completeRequest(failed), a failing write swallowed.
RecordFailure(r) ==
    \/ CompleteRequest(r, "failed", 0) /\ NoFault
    \/ UNCHANGED rowVars /\ Fault("db")

\* The calls that want the modem run one at a time.
ModemFree ==
    /\ \A s \in Slots : phase[s] # "session"
    /\ \A r \in Reqs : http[r] # "live"

\* A session begins: its number is the run's.
BeginSession(r) == runs' = [runs EXCEPT ![r] = @ + 1]

\* The network answers the running session of r, the driver does not tell.
Miss(r) ==
    /\ replied' = [replied EXCEPT ![r] = @ \union {runs[r]}]
    /\ missed' = [missed EXCEPT ![r] = @ \union {runs[r]}]

\* The ways in which runUssd ends.  It registers its waiter before the command,
\* and a +CUSD line goes to the oldest waiter (modem.js:131-137, 303-314).
\* It throws: before it registered, or leaving its waiter behind, or although
\* the line has come (the command's own answer has not).
DriverThrows(r) ==
    /\ threw' = TRUE
    /\ \/ left' \in {left, left + 1} /\ UNCHANGED <<replied, missed>>
       \/ left = 0 /\ Miss(r) /\ UNCHANGED left

\* It returns null: its 20 s are over, and those of the older waiters, or the
\* port closed and ended them all.
DriverSilent == left' = 0 /\ UNCHANGED <<replied, missed, threw>>

\* It returns the line.
DriverReplies(r) ==
    /\ left = 0
    /\ replied' = [replied EXCEPT ![r] = @ \union {runs[r]}]
    /\ missed' = [missed EXCEPT ![r] = @ \ {runs[r]}]
    /\ UNCHANGED <<left, threw>>

-----------------------------------------------------------------------------
\* The requests.

\* queueUssdRefresh and maybeCheckBalance: enqueueUssd inserts the row.
CreateRequest(r) ==
    /\ http[r] = "idle" /\ known
    /\ \/ http' = [http EXCEPT ![r] = "created"]
          /\ row' = [row EXCEPT ![r] = "pending"]
          /\ NoFault
       \/ http' = [http EXCEPT ![r] = "error"] /\ UNCHANGED row /\ Fault("db")
    /\ UNCHANGED <<given, value, jobVars, slotVars, polls, handlerVars, runs, driverVars>>

\* ussdQueue.add, then the 202.
AddJob(r) ==
    /\ http[r] = "created"
    /\ \/ http' = [http EXCEPT ![r] = "accepted"]
          /\ job' = [job EXCEPT ![r] = "wait"]
          /\ NoFault
       \/ http' = [http EXCEPT ![r] = "rejected"] /\ UNCHANGED job /\ Fault("redis")
    /\ UNCHANGED <<given, rowVars, made, stalls, owner, slotVars, polls, handlerVars,
                   runs, driverVars>>

\* Mutant: the row of a request that could not be queued is left pending.
RejectRequest_KeepsRow(r) ==
    /\ http[r] = "rejected"
    /\ http' = [http EXCEPT ![r] = "error"]
    /\ NoFault
    /\ UNCHANGED <<given, rowVars, jobVars, slotVars, polls, handlerVars, runs, driverVars>>

\* ... its catch block settles the row if it can.
RejectRequest(r) ==
    /\ http[r] = "rejected"
    /\ http' = [http EXCEPT ![r] = "error"]
    /\ RecordFailure(r)
    /\ UNCHANGED <<given, jobVars, slotVars, polls, handlerVars, runs, driverVars>>

\* runUssdNow: the row; the call then waits for its turn in the driver's chain.
LiveRequest(r) ==
    /\ http[r] = "idle" /\ known /\ r \notin tariff
    /\ \/ http' = [http EXCEPT ![r] = "queued"]
          /\ row' = [row EXCEPT ![r] = "pending"]
          /\ NoFault
       \/ http' = [http EXCEPT ![r] = "error"] /\ UNCHANGED row /\ Fault("db")
    /\ UNCHANGED <<given, value, jobVars, slotVars, polls, handlerVars, runs, driverVars>>

\* The chain runs it.
LiveBegins(r) ==
    /\ http[r] = "queued" /\ ModemFree
    /\ http' = [http EXCEPT ![r] = "live"]
    /\ BeginSession(r)
    /\ UNCHANGED <<given, rowVars, jobVars, slotVars, polls, handlerVars, driverVars,
                   faults>>

\* runUssd returned a line or null; a row that cannot be written throws.
LiveEnds(r) ==
    /\ http[r] = "live"
    /\ \/ /\ http' = [http EXCEPT ![r] = "answered"]
          /\ \/ DriverReplies(r) /\ CompleteRequest(r, "done", runs[r])
             \/ DriverSilent /\ CompleteRequest(r, "failed", 0)
          /\ NoFault
       \/ /\ http' = [http EXCEPT ![r] = "threw"]
          /\ DriverReplies(r) \/ DriverSilent
          /\ UNCHANGED rowVars
          /\ Fault("db")
    /\ UNCHANGED <<given, jobVars, slotVars, polls, handlerVars, runs>>

LiveThrows(r) ==
    /\ http[r] = "live"
    /\ http' = [http EXCEPT ![r] = "threw"]
    /\ DriverThrows(r)
    /\ UNCHANGED <<given, rowVars, jobVars, slotVars, polls, handlerVars, runs, faults>>

\* ... its catch block.
LiveCatch(r) ==
    /\ http[r] = "threw"
    /\ http' = [http EXCEPT ![r] = "answered"]
    /\ RecordFailure(r)
    /\ UNCHANGED <<given, jobVars, slotVars, polls, handlerVars, runs, driverVars>>

-----------------------------------------------------------------------------
\* The worker.

Owns(s) == owner[serves[s]] = s

Goto(s, p) == phase' = [phase EXCEPT ![s] = p] /\ UNCHANGED <<serves, got, added>>

Idle(s) ==
    /\ phase' = [phase EXCEPT ![s] = "idle"]
    /\ serves' = [serves EXCEPT ![s] = NoReq]
    /\ got' = [got EXCEPT ![s] = 0]
    /\ added' = [added EXCEPT ![s] = 0]

\* A free processor call takes the job: on to waitForModem, or, when the modem
\* is unknown or cannot do USSD or the job stalled too often, to an
\* UnrecoverableError.
TakeJob(s, r) ==
    /\ phase[s] = "idle" /\ job[r] = "wait"
    /\ job' = [job EXCEPT ![r] = "active"]
    /\ owner' = [owner EXCEPT ![r] = s]
    /\ phase' = [phase EXCEPT ![s] = IF known /\ stalls[r] <= MaxStalled
                                     THEN "waiting" ELSE "aborting"]
    /\ serves' = [serves EXCEPT ![s] = r]
    /\ UNCHANGED <<given, http, rowVars, made, stalls, got, added, polls, handlerVars,
                   runs, driverVars, faults>>

\* waitForModem is over and the modem's lock is ours.
RunUssd(s) ==
    /\ phase[s] = "waiting" /\ ModemFree
    /\ Goto(s, "session")
    /\ BeginSession(serves[s])
    /\ UNCHANGED <<given, http, rowVars, jobVars, polls, handlerVars, driverVars, faults>>

\* The driver throws, or returns null and the processor throws "No USSD reply".
SessionSilent(s) ==
    /\ phase[s] = "session"
    /\ Goto(s, "failing")
    /\ DriverThrows(serves[s]) \/ DriverSilent
    /\ UNCHANGED <<given, http, rowVars, jobVars, polls, handlerVars, runs, faults>>

SessionReplied(s) ==
    /\ phase[s] = "session"
    /\ phase' = [phase EXCEPT ![s] = "replied"]
    /\ got' = [got EXCEPT ![s] = runs[serves[s]]]
    /\ DriverReplies(serves[s])
    /\ UNCHANGED <<given, http, rowVars, jobVars, serves, added, polls, handlerVars,
                   runs, faults>>

\* completeRequest(done); a failing one makes the job fail.
StoreReply(s) ==
    /\ phase[s] = "replied"
    /\ \/ /\ CompleteRequest(serves[s], "done", got[s])
          /\ Goto(s, IF serves[s] \in tariff THEN "polling" ELSE "returning")
          /\ NoFault
       \/ UNCHANGED rowVars /\ Goto(s, "failing") /\ Fault("db")
    /\ UNCHANGED <<given, http, jobVars, polls, handlerVars, runs, driverVars>>

\* Mutants: a poll that cannot be added makes the job fail; one poll is missing.
AddPoll_Throws(s) ==
    /\ phase[s] = "polling"
    /\ \/ /\ added' = [added EXCEPT ![s] = @ + 1]
          /\ polls' = [polls EXCEPT ![serves[s]] = @ + 1]
          /\ phase' = [phase EXCEPT ![s] = IF added[s] + 1 < Polls
                                           THEN @ ELSE "returning"]
          /\ UNCHANGED <<serves, got>>
          /\ NoFault
       \/ Goto(s, "failing") /\ UNCHANGED polls /\ Fault("redis")
    /\ UNCHANGED <<given, http, rowVars, jobVars, handlerVars, runs, driverVars>>
AddPoll_Early(s) ==
    /\ phase[s] = "polling"
    /\ added' = [added EXCEPT ![s] = @ + 1]
    /\ polls' = [polls EXCEPT ![serves[s]] = @ + 1]
    /\ phase' = [phase EXCEPT ![s] = IF added[s] + 2 < Polls THEN @ ELSE "returning"]
    /\ NoFault
    /\ UNCHANGED <<given, http, rowVars, jobVars, serves, got, handlerVars, runs, driverVars>>

\* One poll-inbox job after the other; the first that cannot be added ends the
\* loop but not the job.
AddPoll(s) ==
    /\ phase[s] = "polling"
    /\ \/ /\ added' = [added EXCEPT ![s] = @ + 1]
          /\ polls' = [polls EXCEPT ![serves[s]] = @ + 1]
          /\ phase' = [phase EXCEPT ![s] = IF added[s] + 1 < Polls
                                           THEN @ ELSE "returning"]
          /\ UNCHANGED <<serves, got>>
          /\ NoFault
       \/ Goto(s, "returning") /\ UNCHANGED polls /\ Fault("redis")
    /\ UNCHANGED <<given, http, rowVars, jobVars, handlerVars, runs, driverVars>>

\* BullMQ takes the result of the call that holds the job's lock.
Complete(s) ==
    /\ phase[s] = "returning" /\ Owns(s)
    /\ job' = [job EXCEPT ![serves[s]] = "completed"]
    /\ owner' = [owner EXCEPT ![serves[s]] = NoSlot]
    /\ Idle(s)
    /\ UNCHANGED <<given, http, rowVars, made, stalls, polls, handlerVars, runs, driverVars,
                   faults>>

\* Mutant: no limit.
IsFinal_Never(unrecoverable, k) == unrecoverable

IsFinal(unrecoverable, k) == unrecoverable \/ k >= MaxAttempts

MoveToFailed(s) ==
    LET r == serves[s]
        last == IsFinal(phase[s] = "aborting", made[r] + 1)
    IN  /\ phase[s] \in {"failing", "aborting"} /\ Owns(s)
        /\ made' = [made EXCEPT ![r] = @ + 1]
        /\ job' = [job EXCEPT ![r] = IF last THEN "failed" ELSE "delayed"]
        /\ owner' = [owner EXCEPT ![r] = NoSlot]
        /\ hStage' = [hStage EXCEPT ![r] = "update"]
        /\ final' = [final EXCEPT ![r] = last]
        /\ Idle(s)
        /\ UNCHANGED <<given, http, rowVars, stalls, polls, runs, driverVars, faults>>

DropResult(s) ==
    /\ phase[s] \in {"returning", "failing", "aborting"} /\ ~Owns(s)
    /\ Idle(s)
    /\ UNCHANGED <<given, http, rowVars, jobVars, polls, handlerVars, runs, driverVars,
                   faults>>

\* Mutant: every failure settles the row.
HandleFailed_Every(r) ==
    /\ hStage[r] = "update"
    /\ hStage' = [hStage EXCEPT ![r] = "none"]
    /\ final' = [final EXCEPT ![r] = FALSE]
    /\ RecordFailure(r)
    /\ UNCHANGED <<given, http, jobVars, slotVars, polls, runs, driverVars>>

\* worker.on('failed'): only a final failure touches the row.
HandleFailed(r) ==
    /\ hStage[r] = "update"
    /\ hStage' = [hStage EXCEPT ![r] = "none"]
    /\ final' = [final EXCEPT ![r] = FALSE]
    /\ IF final[r]
       THEN RecordFailure(r)
       ELSE UNCHANGED rowVars /\ NoFault
    /\ UNCHANGED <<given, http, jobVars, slotVars, polls, runs, driverVars>>

-----------------------------------------------------------------------------
\* The waiters left behind.

\* One takes the line of the session that runs now, which will hear nothing.
TakeReply(r) ==
    /\ http[r] = "live" \/ \E s \in Slots : phase[s] = "session" /\ serves[s] = r
    /\ left > 0 /\ runs[r] \notin replied[r]
    /\ left' = left - 1
    /\ Miss(r)
    /\ UNCHANGED <<given, http, rowVars, jobVars, slotVars, polls, handlerVars, runs, threw,
                   faults>>

\* One gets its own late line, or its timer fires, or the port closes.
WaiterEnds ==
    /\ left > 0
    /\ left' = left - 1
    /\ UNCHANGED <<given, http, rowVars, jobVars, slotVars, polls, handlerVars, runs,
                   replied, missed, threw, faults>>

-----------------------------------------------------------------------------
\* BullMQ and the environment.

\* The fixed backoff of 15 s ends, long after the handler.
Promote(r) ==
    /\ job[r] = "delayed" /\ hStage[r] = "none"
    /\ job' = [job EXCEPT ![r] = "wait"]
    /\ UNCHANGED <<given, http, rowVars, made, stalls, owner, slotVars, polls,
                   handlerVars, runs, driverVars, faults>>

LoseLock(r) ==
    /\ owner[r] # NoSlot
    /\ Fault("lock")
    /\ owner' = [owner EXCEPT ![r] = NoSlot]
    /\ UNCHANGED <<given, http, rowVars, job, made, stalls, slotVars, polls, handlerVars,
                   runs, driverVars>>

Stall(r) ==
    /\ job[r] = "active" /\ owner[r] = NoSlot
    /\ job' = [job EXCEPT ![r] = "wait"]
    /\ stalls' = [stalls EXCEPT ![r] = @ + 1]
    /\ UNCHANGED <<given, http, rowVars, made, owner, slotVars, polls, handlerVars, runs,
                   driverVars, faults>>

\* The process restarts, perhaps without the modem in MODEMS.
Crash ==
    /\ Fault("crash")
    /\ known' \in BOOLEAN
    /\ http' = [r \in Reqs |-> IF http[r] \in {"created", "rejected", "queued", "live", "threw"}
                               THEN "gone" ELSE http[r]]
    /\ left' = 0
    /\ owner' = [r \in Reqs |-> NoSlot]
    /\ phase' = [s \in Slots |-> "idle"]
    /\ serves' = [s \in Slots |-> NoReq]
    /\ got' = [s \in Slots |-> 0]
    /\ added' = [s \in Slots |-> 0]
    /\ hStage' = [r \in Reqs |-> "none"]
    /\ final' = [r \in Reqs |-> FALSE]
    /\ UNCHANGED <<tariff, rowVars, job, made, stalls, polls, runs, replied, missed, threw>>

-----------------------------------------------------------------------------
RequestStep(r) == AddJob(r) \/ RejectRequest(r) \/ LiveBegins(r) \/ LiveEnds(r)
                  \/ LiveThrows(r) \/ LiveCatch(r)

SlotStep(s) == \/ RunUssd(s) \/ SessionSilent(s) \/ SessionReplied(s) \/ StoreReply(s)
               \/ AddPoll(s) \/ Complete(s) \/ MoveToFailed(s) \/ DropResult(s)

Next ==
    \/ \E r \in Reqs : \/ CreateRequest(r) \/ LiveRequest(r) \/ RequestStep(r)
                       \/ HandleFailed(r) \/ Promote(r) \/ LoseLock(r) \/ Stall(r)
                       \/ TakeReply(r)
    \/ \E s \in Slots, r \in Reqs : TakeJob(s, r)
    \/ \E s \in Slots : SlotStep(s)
    \/ WaiterEnds \/ Crash

Spec == Init /\ [][Next]_vars

\* As in SendPipeline: continuations run, BullMQ serves, recovers and promotes,
\* sessions end; the modem's chain serves its callers in turn, hence SF.
FairSpec ==
    /\ Spec
    /\ \A r \in Reqs : /\ WF_vars(RequestStep(r)) /\ SF_vars(LiveBegins(r))
                       /\ WF_vars(HandleFailed(r))
                       /\ WF_vars(Promote(r)) /\ WF_vars(Stall(r))
                       /\ WF_vars(\E s \in Slots : TakeJob(s, r))
    /\ \A s \in Slots : WF_vars(SlotStep(s)) /\ SF_vars(RunUssd(s))

-----------------------------------------------------------------------------
\* While the database works and its job does not stall, a failed row means that
\* every session of it that the network answered was lost by the driver, and
\* this only once a session had ended in an error: the command failed after its
\* line had come, or the waiter of a failed session took the line of the next
\* (ussd.config.js:94-99, 119-131, router.js:244-254, modem.js:307-309).
FailedMeansSilent ==
    \A r \in Reqs : row[r] = "failed" /\ stalls[r] = 0 /\ ~Happened({"db"})
                    => replied[r] \subseteq missed[r] /\ (missed[r] # {} => threw)

\* A finished tariff session is followed by all its looks at the inbox, unless
\* Redis refused one (ussd.config.js:19-22): a restart between two looks repeats
\* the session.
TariffIsPolled ==
    \A r \in tariff : job[r] = "completed" /\ ~Happened({"redis"}) => polls[r] >= Polls

\* Once done or failed a row stays as it is, unless its job stalled.
SettledIsFinal ==
    [][\A r \in Reqs : row[r] \in {"done", "failed"} /\ stalls[r] = 0
                       => row'[r] = row[r] /\ value'[r] = value[r]]_vars

\* Every request is settled, through lost locks and refused jobs: while the
\* process and the database live, no pending row is left that no job will settle
\* (ussd.config.js:64).
RequestSettles ==
    \A r \in Reqs :
        row[r] = "pending" ~> row[r] \in {"done", "failed"} \/ Happened({"crash", "db"})
=============================================================================

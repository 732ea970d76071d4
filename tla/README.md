# Verification of the SMS gateway

TLA+ models of the gateway in `src/`, checked with TLC on small instances and, for
the core, proved with TLAPS for every value of the constants. The program takes
`POST /sms/send` requests, keeps them as rows in SQLite and as BullMQ jobs in
Redis, sends them over one or several modems (a serial GSM modem, a ZTE LTE stick
with an HTTP API, an Android phone behind `adb`), reports every outcome by signed
webhooks, and reads incoming SMS and USSD replies back.

1. [The system](#1-the-system)
2. [What is hard in it](#2-what-is-hard-in-it)
3. [Modules](#3-modules)
4. [From the code to the model](#4-from-the-code-to-the-model)
5. [Runs](#5-runs)
6. [Fairness](#6-fairness)
7. [Proofs](#7-proofs)
8. [Disagreements between code and documents](#8-disagreements-between-code-and-documents)
9. [What is not modelled](#9-what-is-not-modelled)
10. [Plan](#10-plan)

## 1. The system

| Component | Source | State it keeps | Operations |
| --- | --- | --- | --- |
| send API | `router/router.js` 102-137 | none of its own; runs between a row and a job | `POST /send`: validate, INSERT row, `sendSMSQueue.add`, 202; on a failed add mark the row failed, send a callback, 500 |
| send queue and worker | `config/bull.config.js` | BullMQ job in Redis (state, attempts, lock, stall count); `lastBalanceCheck` in memory | processor (pick modem, wait for it, send, record), `failed` handler (row, callback, balance check) |
| modem pool | `utils/pool.js`, `utils/modem-config.js` | configured modems, round-robin counter | `pick`, `get`, `list` |
| serializer | `utils/serialize.js` | one promise chain per modem | `withLock` |
| serial driver | `utils/modem.js` | port, `connected`, `currentCommand`, URC waiters, quiet flag | `connect`/`initModem`/reconnect, `sendSMS`, `sendUSSD`, `getMessages`, status |
| zte-http driver | `utils/zte-http.js` | login session, cached status | `sendSMS` (post, poll), `getMessages`, `sendUSSD`, login |
| adb driver and phone app | `utils/adb.js`, `android-smsbridge/` | two files on the phone | `sendSMS` (one `isms` call per part), drain of `incoming.jsonl`; `SmsReceiver` appends |
| delivery log | `store/log-store.js`, `store/db.js` | `sent_messages` | append, update, list, metrics |
| webhooks | `config/webhook.config.js`, `utils/webhook.js` | BullMQ queue of callbacks | `enqueueWebhook`, worker POST with retries |
| USSD queue | `config/ussd.config.js`, `store/ussd-store.js` | queue, `ussd_requests` | run a session, poll the inbox after it, refresh, prune |
| inbox | `utils/inbox-sync.js`, `store/inbox-store.js` | `received_messages` | read from the modem, persist, delete from the modem |
| SMS encoding | `utils/sms-encoding.js`, `utils/pdu.js` | none | alphabet choice, segments, PDUs |
| start-up and shutdown | `index.js`, `store/db.js` | schema, one-time import of `sent.json` | start, close in order |
| read-only API, UI, docs | `router/router.js`, `config/bull-board.config.js`, `openapi.json` | none | queries |

How they interact. The handler of a request and the worker share a row (SQLite) and
a job (Redis) and nothing else. The worker calls a driver through the pool; each
driver makes its callers queue on one promise chain, so the send worker, the USSD
worker and the inbox reader meet only there. The worker's processor and its
`failed` handler are different callbacks: the handler runs after BullMQ has
recorded the failure, and sees the job and the error object, nothing else. Rows
change in SQLite at once; callbacks are jobs of another queue, posted by another
worker to a receiver that has only the README to go by. A definite final failure
enqueues a balance query on the USSD queue; a USSD session enqueues a look at the
inbox, because replies can arrive by SMS.

What makes each component correct:

- *send API*: a row says what became of its request: never in flight when nothing
  will send it, never failed when it was sent.
- *send queue and worker*: no message is sent twice because of something the gateway
  could have known; every accepted message gets a final status; the status, the
  modem named by the row and the callback agree with what happened.
- *serializer, drivers*: one dialogue per modem at a time; an answer is given to the
  question that caused it; a timeout while the confirmation is awaited is told
  apart from one before the body was handed over.
- *webhooks*: a callback counted as delivered was taken by the receiver; retries stop;
  a receiver that follows the README ends with the row's status.
- *encoding*: each SMS fits, and its recipient reads the text that was sent.
- *start-up*: the old log is imported whole or not at all.
- *USSD, inbox*: a reply is stored with the request that asked for it; an incoming
  message is stored before it is deleted from the modem.

## 2. What is hard in it

A send takes a minute or more and is spread over a handler, a worker slot, a lock
chain, a modem, a database and Redis. The process may die at any point of it, and
BullMQ then finds the job *stalled* and runs it again. A job's Redis lock may also
expire under a live process: its processor goes on, unaware, while a second run
starts. A row update or a queue command may fail with everything else working. The
modem may have sent a message whose confirmation nobody saw, answer a poll with
what it remembers of an earlier one, or execute a request that its driver gave up on. Callbacks may be lost,
repeated and reordered by the network. `PROJECT.json` lists these points one by
one ("hazards"), each at its line and with the properties that cover it.

## 3. Modules

| Module | What it is |
| --- | --- |
| `SendPipeline` | request, row, job, worker slots, modem locks, driver outcomes, `failed` handler, balance throttle, callbacks handed to the webhook queue |
| `DeliveryContract` | abstract specification: what the gateway promises about double sends, in three variables |
| `SendPipelineInv` | the inductive invariants of `SendPipeline`, apart from the proofs so that TLC can check them |
| `WebhookDelivery` | the webhook queue, its worker, the network and a receiver written to the README |
| `CallbackPath` | `SendPipeline` and `WebhookDelivery` together: one process, one crash for both |
| `DriverContract` | abstract specification: what a driver's `sendSMS` promises the worker by its verdict |
| `SerialModem` | the serial driver's AT dialogue and a modem at the other end of the port |
| `RemoteModem` | the zte-http driver (sends, login, USSD) with its stick, and the adb driver's sends with the phone |
| `SmsEncoding` | alphabets, parts, septets, octets and PDUs as operators, with a decoder for the far end |
| `LegacyImport` | start-up of the database and the import of `sent.json` |
| `Gateway` | a text from the request to the modem: `LegacyImport`, the checks of `validateSend`, the pool's `pick`, the drivers' own checks, `SmsEncoding`, restarts with another fleet |
| `UssdQueue` | USSD requests: rows, queue, worker, live sessions, the driver's waiters, inbox polls after a tariff session |
| `Inbox` | reading, storing and deleting incoming messages, for the three drivers |
| `MCSendPipeline`, `MCWebhookDelivery`, `MCCallbackPath`, `MCSerialModem`, `MCUssdQueue`, `MCInbox`, `MCGateway` | instances for TLC |
| `MCDrivers` | `SerialModem` and `RemoteModem` in one instance: each behaviour watches one of them |
| `DeliveryProofs` | `SendPipeline`: types, one dialogue per modem, no avoidable double send, and that it implements `DeliveryContract` |
| `OutcomeProofs` | `SendPipeline`: rows, modems named and callbacks; `CallbackPath`: from the row to the receiver; and what `DeliveryContract` implies |
| `WebhookProofs` | theorems about `WebhookDelivery` |
| `SerialProofs` | `SerialModem` keeps its dialogue in step and implements `DriverContract`; both models of drivers side by side (`MCDrivers`); what the contract implies |
| `RemoteProofs` | `RemoteModem` implements `DriverContract`, and its two invariants |
| `UssdProofs` | theorems about `UssdQueue` |
| `InboxProofs` | theorems about `Inbox` |
| `GatewayProofs` | theorems about `Gateway` and `LegacyImport` |

## 4. From the code to the model

**Granularity.** An action is what the code does between two `await`s that matter:
between two such actions another callback may run, or the process may die. In the
processor that gives: take the job and choose a modem (`TakeJob`), `waitForModem`
over and the call queued on the lock (`JoinChain`), the body handed to the modem
(`HandOver`), the driver's verdict (`FailsEarly`, `ModemRefuses`, `AnswerLost`,
`ConfirmTimesOut`, `Confirmed`), the callback (`NotifySent`), and what BullMQ does
with the result (`Complete`, `MoveToFailed`, `DropResult`). `updateLog` is a
synchronous SQLite statement, so `Confirmed` writes the row in the same step in which
the driver's promise resolves. The 202 is answered in the step that adds the job: a
process that dies between the two has an accepted job and an unanswered client,
which no property of the row or the job tells apart.

**Fates of a message.** `copies[m]` holds the processor runs whose text a modem took
and has not refused; `excused[m]` those whose fate the gateway cannot learn: the answer was
lost (`AnswerLost`), or BullMQ took the job away from the run (`Stall`). Both are
history: no guard of the program's actions reads them. `Stall` excuses a run even when its `sent` row is
written: the gateway could look at the row before the next run sends, but it does not (bull.config.js:56-58).

**Failures of the environment** are enabled by `FaultKinds` and counted against
`MaxFaults`: `crash` (the process dies and restarts, perhaps with another `MODEMS`
setting), `lock` (a job lock expires), `db` (a SQLite statement throws), `redis` (a
queue command fails). What modems do is never counted: every run may see
every outcome of a send.

**Externals.** BullMQ is modelled from how the code uses it: `attemptsMade` grows at
every recorded failure, `UnrecoverableError` and the last attempt end the job,
others are delayed; an active job without a lock is put back by the stalled-job
check and failed by the next worker that takes it after `MaxStalled` (default 1)
stalls; the result of a run that lost its lock is refused and no event fires.
The `delayed` job is promoted after its handler ended: the backoff is 10 s or more, the
handler is one SQLite statement and one or two Redis commands. The receiver of
callbacks is what README.md:256 asks a receiver to be.

**Left out of `SendPipeline`.** Several parts of a long message (see the driver
modules); a Redis command that takes effect twice
(one row, one job; section 9). The round-robin of `pick` is a nondeterministic choice among the
configured modems, which includes whatever the counter and the `isConnected` flags
would say; `Gateway` has the counter and the flags. The seconds of `waitForModem`, of the backoff and of the balance throttle
are steps that may come at any time.

**`WebhookDelivery`.** Callback `<<m, i>>` is the i-th status of message m; `occurredAt` is
stamped when it is enqueued, so i also orders by time. Each POST `<<m, i, k>>` stays
on the wire until it arrives or is lost, also after the worker gave up on it or
the gateway restarted. An answer counts only if its POST is the one the running job waits
for. Answers are classes: `ok` (2xx), `reject` (4xx other than 408 and 429), `busy`
(408, 429, 5xx). A job stalls when the gateway restarts, and when its lock expires under a live worker (`HookLoseLock`; a job with
`MaxLost` stalls loses no more locks): the POST stays on the wire and its result is no longer taken.

The queue asks nothing of its caller: any status may follow any other at any time, as `enqueueWebhook` lets it.

**`CallbackPath`** joins them: each status that a pipeline step appends becomes a
waiting job in the same step, and a crash hits both. The number of the queue's restarts is that of the `crash`es among
the faults (`Restarts`). Its run leaves the locks of callbacks alone (`MaxLost = 0`): `Webhook` has them.

**`SerialModem`.** The state is the driver's: the call that holds the chain, the step
of its script, `currentCommand`, the `+CUSD` waiters, the quiet flag. A script is the
sequence of commands of one kind of call; commands that change nothing a property can
tell (character set, SMSC, storage) are one `SETUP`, a long message has two parts. A
callback runs to its end together with the promise continuations it causes (microtasks),
so no event happens while the next `transact` could already write (`Continues`). Behind
the port is a modem that answers in order, late, with an error or not at all, takes what
follows a prompt for message text, and is in text or PDU mode. When the port closes, all
that was under way is lost and the modem comes back in either mode; a failing
`port.write` is the first sign of a closing port and part of `Close`. `initModem` writes no `ESC`, so the driver relies on the modem to
leave the body it was reading when its port closes or its gateway dies (`CloseCancels`). With `CloseCancels = FALSE` TLC finds
`NothingSwallowed` violated, by the first command after a restart, and no other property. Two durations
matter. The `+CUSD` waiter's 20 s exceed the 10 s of its command and the 2 s of quiet, so
the waiter of the running call outlives the command. And `DrainsInQuiet` assumes what
transact's comment (modem.js:178-179) assumes: that a late reply comes within the two
seconds after its timeout. With `DrainsInQuiet = FALSE` TLC finds `OwnReply`, `ModeMatches` and
`ImplementsDriver` violated: the code has no defence against a later reply. Only `NothingSwallowed` holds all the same.

**`DriverContract`.** The worker learns from a driver only whether it resolved, rejected, or
rejected with `confirmTimeout` (bull.config.js:57-67). The contract says what each of the
three must mean. `given`, `taken` and `blind` are history in the drivers' models: a part of the text was
given to the modem, the modem took the whole of it, an answer of the modem was lost. `SerialModem` and
`RemoteModem` are each checked to implement it, and `SendPipeline`'s driver steps are its steps as the
worker sees them: `FailsEarly` and `ModemRefuses` are `error` with nothing taken, `AnswerLost` is `error` of a
blind driver, `ConfirmTimesOut` is `confirm`, `Confirmed` is `ok`.

**`RemoteModem`.** A call is a sequence of requests. One that changes the device takes three steps
(asked, executed or refused, answered), and may fail before and after it was executed; a read is one step. The
stick is external: a login session that may lapse, a status register, the messages it accepted and has not
sent, one USSD session with its flag and data. The behaviour starts as an earlier process left
the stick. `reqproc` stands for every stick with a password, `goform` for one without. A request that times out is destroyed at the
client only (zte-http.js:126): the device may execute it later (`late`, `LateRequest`), during the same call or a later one. A
driver that gives up a command which hands over a message is `blind` from then on.

Three assumptions about the devices are constants, because the code builds on them and cannot check them. `HandlesInOrder`:
what was given up on is executed before any newer request, or never; with FALSE, TLC finds `FreshReply` violated, by the
reply to an older call's late `ussd_send`, and `RemoteImplementsDriver`. `StatusIsOwn`: the status register speaks of the
last message accepted (zte-http.js:271-274 polls it without naming a message). `RejectMeansRefused`: a command answered
without `success` was not executed (zte-http.js:174-180 posts it again). With either of these FALSE, TLC finds
`RemoteImplementsDriver` violated: the verdict of an older message is taken for this one's, or the message is sent twice. A
login that succeeds is followed by its command before the session lapses again: no session of a stick lives for less than a
request.

**`SmsEncoding`.** A text is a sequence of UTF-16 units, of six kinds (plain Latin; in the GSM alphabet under
another code than in UTF-8; in its extension table; outside of it; the two halves of a surrogate pair), with one
code standing for each kind. What the modem is given is octets, and the far end reads them by 3GPP 23.038 and
23.040. The limits are derived from `Octets` (140 in the code): `LimitsAssumption` holds of 160, 153, 70 and 67.

**`Gateway`.** The job of one message waits, runs or is over; everything that can go wrong on its way is in
`SendPipeline`. `load` counts the picks of a modem since the connected ones last changed, `refit` says that a restart found
another fleet than the one the message was accepted for, `refused` that a driver found it too long. A restart makes a
running job wait again. In a single SMS as text, the serial driver writes the text in UTF-8 while
`AT+CSCS="GSM"` announces GSM codes; the model does what the code does, and `Readable` leaves out by name the units this garbles.

**`LegacyImport`.** better-sqlite3 is synchronous: the transaction is one step. A crash may follow every step. Of `sent.json` only
what decides is kept: it may be missing, no JSON, nothing to import, hold a value SQLite cannot bind (which throws out of
the transaction and ends the process), or be good; an operator may repair it between two starts.

**`UssdQueue`.** As `SendPipeline`, with the modem's chain reduced to "at most one session": `BeginSession` gives each
session a number, `value` holds the number of the session whose reply the row shows. A live request inserts its row
(`LiveRequest`) and then queues for the chain like everybody else (`LiveBegins`). Of the driver, the model has the three ways
in which `runUssd` ends and the `+CUSD` waiters that sessions which threw left behind (`left`): one of them may take the line
of the session that runs now (`TakeReply`), which then returns null although the network answered it (`replied` and `missed`,
history). How that comes about at the port is in `SerialModem` (`NullMeansNoReply`). The `known` flag is the modem's presence
in `MODEMS`. A poll is a counter: what it does is a read of `Inbox`.

**`Inbox`.** One modem, of a driver chosen at the start. `Occupied` is the listing: storage
index and message. Serial deletes index by index, zte all at once, adb removes
a file. The drain of the adb driver is one shell command on the phone, and three
steps here (`Fold`, `Unlink`, `Emit`), because the app appends to the same log
meanwhile. `dropped` and `raced` are history: what was removed with the reading file
without having been stored, and what was captured between the copy of the log and its removal; a message whose line `cat` met half
written, and which the driver therefore skips (adb.js:174), is one of the latter. `NothingLost` and `Collected` leave both out by name;
`DeletesOnlyRead`, the README's promise, does not (section 8).

## 5. Runs

Passing runs (`CHECK_DEADLOCK FALSE` in all of them: when every request is settled
and the faults are spent, the system has nothing left to do).

| Run | Instance | States | Question |
| --- | --- | --- | --- |
| `SendFaults` | 1 message, 2 modems, a restart may find only one of them, 2 slots, 2 attempts, 1 stall, 2 faults of any kind | 239 371 | With crashes, expired locks and failing writes: no avoidable double send, rows that tell the truth and name the right modem, no retry of what is unconfirmed, bounded retries, one dialogue per modem, every job ends and its row settles; and the pipeline implements the contract |
| `Webhook` | 2 callbacks of one message, 2 attempts, 1 stall, one at a time, 1 restart, 1 lost lock, all answers | 583 680 | Callbacks lost, repeated, late and out of order |
| `CallbackPath` | 1 message and 1 modem, 2 attempts to send, up to 3 callbacks with one attempt each, posted 2 at a time, answered `ok` or `busy`, 1 fault of any kind | 615 015 | Pipeline, queue, network and receiver together: the receiver ends with the status of the row |
| `Drivers` | serial: 2 calls of any kind besides `initModem`, 1 closing port, replies late, refused or lost; stick and phone: 3 calls after those of an earlier process, 2 parts, requests executed late | 225 710 | The drivers keep the driver contract; each reply settles its own command, the prompt swallows nothing, the mode fits, a session returns its own reply, a lapsed login is cured, every call ends |
| `Ussd` | 1 request of either kind, queued or live, 2 slots, 2 attempts, 1 stall, 2 polls, 3 faults, waiters left behind | 243 519 | Rows tell what the network did and settle; a tariff session is followed by its polls |
| `Inbox` | 3 messages, each of the three drivers, a SIM for 2, 2 faults | 71 000 | No message is lost, copies are explained, every message is stored in the end |
| `Gateway` | 2 fleets of modems of all three drivers, some 2000 texts around every limit, 2 of them with 3 attempts, failures, connections that come and go and a restart, an old log in any state | 113 186 | The import is whole; what the API accepts the drivers accept; picks are even; what leaves the gateway can be read |

Why the bounds are enough to be interesting. Two faults are the least with which a crash can hit a run that a lost lock
started, or a failing write the handler of a recovered job; two modems and two slots are the least for two runs of one
message at once, on the same or on different modems. Two attempts (the code has 3) give a retry and a last failure. Crashing
twice with one stall allowed reaches the job that stalled too often; in `Webhook` a restart and a lost lock do. There two
callbacks suffice to overtake each other, two attempts and two copies to have a late duplicate; a POST that outlives its job
overlaps the next one though the worker runs one at a time. In `CallbackPath` two attempts give a `retrying` that may come
late, twice or after the final status, two deliveries at a time let them overtake each other, and one fault is all a message
needs to lose a callback, a row update or its run. In `Drivers` two calls of a serial modem are what it takes for the remains
of one (a late reply, an open prompt, PDU mode, a waiter) to meet the next, and a stick starts with the remains of an earlier
process besides. In `Gateway` an SMS of 14 octets keeps the proportions of 140: a part holds 9 septets behind the header and
one bit of fill, or 4 units, as 153 and 67 do, with no octet over, and a cut may fall behind every kind of unit; three
attempts, as in the code, go round a fleet of two or three. In `Ussd` the third fault lets a failing write follow a restart
of a run that a lost lock had doubled; two attempts are two sessions, so that the waiter of the first can take the reply of
the second. In `Inbox` three messages on a SIM for two give a message that waits for room. The proofs take away the bounds
for the properties they cover. That is why no run has two messages in `SendPipeline` at once: what they have in common, the
modems, the slots and the chains, two runs of one message have in common too, and every safety property of `SendFaults` and
`CallbackPath` is proved for any number of messages. Their liveness is checked for one. Types are proved for every module;
the runs check those types of `SendPipeline`, `WebhookDelivery`, `UssdQueue` and the drivers that also bound something
(statuses, POSTs, sessions, commands in the port).

What each property says is written above it in its module. `SendFaults` also checks,
through `JobEnds`, that neither a modem lock nor a lost job keeps a message running
for ever, and `TypeOK`, that no status outside the documented ones is written.
`Settles` excuses behaviours with a crash or a failing row update, since with
them it is false: see `LostOutcome` below for the crash, and README.md:212 for
what a poller then sees.

Runs that show a disagreement between the code and a document (TLC finds the
property violated) are described in section 8.

## 6. Fairness

`FairSpec` of `SendPipeline` assumes weak fairness of: the rest of a request's handler once
it has begun, the `failed` handler, a processor call's next step (the event loop runs
every continuation; every driver call ends by its own timeout, `waitForModem` by its 30 s), BullMQ
serving waiting jobs, promoting delayed ones and finding stalled ones. Nothing is
assumed of a modem's success, of a client's requests or of faults. Fairness of a
slot is fairness of *some* outcome: a run in which every send fails is fair.

`FairSpec` of `WebhookDelivery` assumes that BullMQ runs what waits and that a worker
that waits for an answer gets one or its 5 s abort fires; the network may lose
everything.

`Drivers` assumes the `Fairness` of the driver watched. Of `SerialModem`: timers fire and continuations run; what is in the port is read
or lost. Of `RemoteModem`: a request is answered or times out (5 s, or adb's 15 s), and the
polling, a loop of reads, sees its deadline pass (strong fairness of `Deadline`: the loop looks at the clock again and again).
Nothing is assumed of the modem's or the network's answers: `DriverCallsEnd` rests on the
timers. `UssdQueue`: as `SendPipeline`, and strong fairness of `RunUssd`, because the
modem's chain is first in, first out and other sessions keep taking the modem in between.
`Inbox`: a read that has begun goes on (each driver call has a timeout), and reads are made again and
again, by clients and by the polls; a run in which nobody reads is not fair, and says
nothing about the gateway.

## 7. Proofs

All by `tlapm`, for every value of the constants that satisfies the assumptions of its module. These are named, and no more
than the code or the number system asks for:

- `SendPipeline`: the nulls are not values (`NullsAssumption`), every configured fleet is a
  finite non-empty set of modems (`FleetsAssumption`), the limits are naturals and
  at least one attempt is allowed (`LimitsAssumption`), the settings have their types (`SettingsAssumption`).
- `UssdQueue`, `WebhookDelivery`, `CallbackPath`: as much; a tariff session is followed by at least one poll (the code has three), and the slots are finite.
- `Gateway`: `MODEMS` is a list of configured modems without repetition, and not empty.
- `SerialModem`, `RemoteModem`, `Inbox`: bounds are naturals.

What cannot be had of every device is a hypothesis of the theorem, named in the last column. As soon as a device of the other
kind is allowed, TLC finds a property violated: `OwnReply`, `ModeMatches` and `ImplementsDriver` without `DrainsInQuiet`,
`NothingSwallowed` without `CloseCancels`, `FreshReply` and `RemoteImplementsDriver` without `HandlesInOrder`, the latter
also without `StatusIsOwn` or `RejectMeansRefused`. That the serial theorems other than `CommandsAreRead` need `CloseCancels`
too is due to the invariant they share; TLC finds none of their properties violated without it. What cannot be had after
every fault is excused in the property itself, by what has happened so far (`Happened`, `Undisturbed`) and not by what may
happen: a theorem without a hypothesis allows every fault, and says what is true until the first of those its property
excuses.

| Theorem | Module | Says | If |
| --- | --- | --- | --- |
| `Typing` | `DeliveryProofs` | `[]TypeOK` of `SendPipeline` | |
| `Exclusion` | `DeliveryProofs` | `[]OneSendPerModem` | |
| `DeliveryInvariance` | `DeliveryProofs` | `[](TypeOK /\ DeliveryInv)` | |
| `NoDuplicate` | `DeliveryProofs` | `[]NoAvoidableDuplicate` | |
| `Implementation` | `DeliveryProofs` | `ImplementsContract` | |
| `ContractSafety` | `OutcomeProofs` | the contract itself rules out avoidable duplicates | |
| `BoundedRuns` | `OutcomeProofs` | `[]RunsBounded` | |
| `FailedIsUnsent` | `OutcomeProofs` | `[]FailedMeansUnsent` | |
| `FinalIsLast` | `OutcomeProofs` | `[]TerminalCallbackLast` | |
| `FinalRowsStay` | `OutcomeProofs` | `TerminalRowStable` | |
| `UnconfirmedIsFinal` | `OutcomeProofs` | `UnconfirmedNotRetried` | |
| `OutcomesNameModems` | `OutcomeProofs` | `[]OutcomeNamesModem` | |
| `CallbacksTellRows` | `OutcomeProofs` | `[]CallbackTellsRow` | |
| `ReceiversShowOutcomes` | `OutcomeProofs` | `[]ReceiverShowsOutcome` of `CallbackPath` | |
| `ReceiversFollowRows` | `OutcomeProofs` | `[]ReceiverFollowsRow` of `CallbackPath` | |
| `WebhookIsTyped` | `WebhookProofs` | `[]TypeOK` of `WebhookDelivery` | |
| `CallbacksAreTriedInFull` | `WebhookProofs` | `[]GivenUpOnlyWhenSpent` | |
| `ReceiversConverge` | `WebhookProofs` | `[]ReceiverConverges` | |
| `VerdictIsTrue` | `SerialProofs` | the driver contract implies `VerdictTells` | |
| `SerialInvariance` | `SerialProofs` | `[]SerialInv` of `SerialModem` | `DrainsInQuiet`, `CloseCancels` |
| `RepliesAreOwn` | `SerialProofs` | `[]OwnReply` | `DrainsInQuiet`, `CloseCancels` |
| `CommandsAreRead` | `SerialProofs` | `[]NothingSwallowed` | `CloseCancels` |
| `ModesAreSet` | `SerialProofs` | `[]ModeMatches` | `DrainsInQuiet`, `CloseCancels` |
| `SerialKeepsContract` | `SerialProofs` | `ImplementsDriver` of `SerialModem` | `DrainsInQuiet`, `CloseCancels` |
| `RemoteKeepsContract` | `RemoteProofs` | `ImplementsDriver` of `RemoteModem` | `HandlesInOrder`, `StatusIsOwn`, `RejectMeansRefused` |
| `RepliesAreFresh` | `RemoteProofs` | `[]FreshReply` of `RemoteModem` | `HandlesInOrder` |
| `LapsesAreCured` | `RemoteProofs` | `[]ExpiryCured` of `RemoteModem` | |
| `DriversAreTyped` | `SerialProofs` | `[]DriversTypeOK` of `MCDrivers` | all five |
| `DriversKeepContract` | `SerialProofs` | `ImplementsDriver` and `RemoteImplementsDriver` of `MCDrivers` | all five |
| `SessionsGetTheirOwn` | `SerialProofs` | `[]FreshReply` of `MCDrivers` | `HandlesInOrder` |
| `LapsesFailNoCall` | `SerialProofs` | `[]ExpiryCured` of `MCDrivers` | |
| `UssdIsTyped` | `UssdProofs` | `[]TypeOK` of `UssdQueue` | |
| `FailedRowsAreSilent` | `UssdProofs` | `[]FailedMeansSilent` | |
| `TariffsArePolled` | `UssdProofs` | `[]TariffIsPolled` | |
| `SettledRowsStay` | `UssdProofs` | `SettledIsFinal` | |
| `InboxInvariance`, `InboxTyping` | `InboxProofs` | `[]InboxInv`, `[]TypeOK` of `Inbox` | |
| `NoMessageLost` | `InboxProofs` | `[]NothingLost` | |
| `MessagesAreStoredOnce` | `InboxProofs` | `[]StoredOnce` | |
| `ImportIsSafe` | `GatewayProofs` | `[]ImportSafe` of `Gateway` | |
| `AcceptedMessagesFit` | `GatewayProofs` | `[]AcceptedFits` | |
| `GatewayIsTyped` | `GatewayProofs` | `[]TypeOK` of `Gateway` | |
| `PicksAreSpread` | `GatewayProofs` | `[]Spread` | |

### Sending

*Exclusion* needs `HandedHolds`: a slot whose message is in a modem is at the head of
that modem's chain. Only the head may release it, so the others stay behind.

*No avoidable duplicate.* The property is far from inductive: it says nothing of
who may still start a run. `DeliveryInv` adds the missing parts.
`BusySlots` and `RunsDistinct`: each busy slot works on a message, under a run number that was
really begun, and no two under the same one. `OwnerWorks`: the holder of a job's lock
works on that job and is its latest run. `UnexcusedIsCurrent`: a slot whose run is not excused
holds the lock of its active job, or lost it and the job was not yet found stalled.
`NoCopyYet`: a run that has not handed over has no copy. `WaitingIsClean`: when a job is
about to run again, every copy belongs to an excused run. `RunsBegun` and
`JobPosted` tie run numbers and jobs to what was begun. With `WaitingIsClean`,
`TakeJob` preserves the property; each of the others says why some action preserves
`WaitingIsClean` or itself.

*Implementation* maps the three history variables to the contract's variables of the same name:
`TakeJob` is `Begin`, whose guard is `WaitingIsClean`; `HandOver` and `ModemRefuses` are the
contract's; `AnswerLost` and `Stall` are `Doubt`; every other action is a stutter.

*Bounded runs* is a payment argument: each run is paid for by a recorded failure, by a
stall that BullMQ recovered, or is the one in progress (`Paid`), and failures are limited. A job that never stalled has its attempts
and not one more, which is what README.md:225 says, and not README.md:446 (section 8).

*Failed means unsent* needs to know what the `failed` handler is about to write:
`HandlerInv` says that a handler that would write `failed` was given a plain error by a run
whose copy is gone or excused, and that the job of a `failed` row is never run again
except after a stall.

*A final status is final* (`FinalIsLast`, `FinalRowsStay`). Two callbacks may write a row and a callback: the processor
and the `failed` handler. `OutcomeInv` says when neither is left to do so: as long as the job has not stalled it has one
processor call at most (`Sole`), the handler of an attempt runs while the job is `delayed` or `failed`, so never beside that call
(`HandlerEnds`), and a final row, or a final callback, leaves nobody behind who would write another (`RowClosed`,
`CallsClosed`). A row and its callback are closed at different moments, because the handler writes the one before the other, and either
write may fail: that is why there are two.

*Unconfirmed is final*: as long as no lock was lost, a busy slot owns its job (`LocksKept`), so the job of an
`unconfirmed` row has failed and stays so. A crash does no harm: it puts back an active job, and this one is not active.
With a lost lock the property is false: one run of a stalled job may still be at a modem when the other's failure
makes the row `unconfirmed`.

*Outcomes name modems, callbacks tell rows.* The invariants follow a fact on its way through the code: the modem last tried
is the one of the slot, then of the handler, then of the row (`Named`); a status worth a callback is owed by whoever wrote it
until the queue has it (`Owed`, `Follows`). Both are false once a job has stalled, since its second run finds a row that was
written already, and the second also after Redis refused the callback, since `enqueueWebhook` swallows the error; hence what
the properties excuse. As what went wrong stays on record (`FaultsStay`), a step that ends undisturbed began so. Failing row
updates are allowed.

*Webhooks.* `HookInv` has a payment argument for POSTs (each is allowed by the job, a failed attempt or a recovered stall), from which
`GivenUpOnlyWhenSpent` follows; and for the receiver, as long as only the last callback of a message is final
(`LastIsFinal`): it shows one it has seen, and the final one as soon as it has seen it (`Knows`). So late and repeated POSTs
of `retrying` cannot displace it. The queue does not see to `LastIsFinal`, so the invariant, like the property, has it as a condition.

*From the row to the receiver.* The pipeline does, while the job does not stall (`FinalIsLast`). The composition is proved in
lemmas. Every step of the path is one of the pipeline, or leaves it alone, so that the path has all its invariants (`PathIsPipeline`). Every
step is one of the queue (`PathDelivers`): a step of the pipeline appends one status at most (`OneStatus`), and since the queue's invariant
says that the earlier callbacks have their jobs already (`Posted`), the one job that is new is the one `Enqueue` adds; a
crash is a `Restart`, whose number is the count of crashes (`RestartsCounted`). So `ReceiversConverge` holds of the path, and the pipeline's
`LastWord` is its condition: the receiver shows the last callback, which is the row's status, by the property's own words in
`ReceiversShowOutcomes` and by `Follows` in `ReceiversFollowRows`. `ReceiverStuck` shows what happens when the job stalls.

### Drivers

*Verdicts are true*: after `ok` the text is taken, after `error` it is not or the driver was blind, also when the modem
takes the text after the call returned. The theorem is about the contract; the next ones say which drivers keep it.

*The serial dialogue stays in step.* `SerialInv` relates the driver's place in its script to what is in the port. Outside the
quiet time (`DialogueInv`) the current command is either unread, or answered by exactly one line that carries its number and
tells the truth about it (`Truthful`), or its answer is lost; between commands nothing is in the port but unsolicited lines
and at most an `ESC`. In the quiet time (`Leftover`) at most one old command and one `ESC` are left, in a state in which
neither can do harm: an open prompt only before a body or the `ESC`, a message or a listing only in its own mode. That is
where `DrainsInQuiet` enters: the quiet time ends when the port is empty. With this, own replies and the right mode are parts
of the invariant, and `SendInv` carries what became of the parts to the end of the call, from which each step is a step of
the contract.

*Commands are read*, in contrast, whatever the modem's timing (`PromptInv`; only `CloseCancels` is needed): behind an
`AT+CMGS` in the port, and in front of an open prompt, there is a body or an `ESC`, or it is what the driver writes next. A
late reply may make the driver take the wrong one of the two, never a third.

*Remote drivers keep the contract* (`ConstantsOK`, and the three assumptions about the devices as hypotheses). The invariant,
`RemoteInv`, keeps track of the message beyond the driver's view: on a stick a message that was given is last of those
accepted while the register says `1` (`Queued`), or gone with a register that tells how (`Settled`), and each place in the
driver's code knows whether it was given (`StickInv`); a phone has sent a whole text exactly when it has answered the last
part (`PhoneInv`). What was given up on belongs to an older call, or to this one after it ended blindly, and is executed
before the text of a new call is given (`LateInv`): that is where `HandlesInOrder` enters. Each step is then a `Give`, a
`Take`, a `Return`, a `Begin` or a stutter. A message that settles after its call has ended was left behind blindly or by the
deadline, which is when the contract allows it.

*Replies are fresh* for a stick that handles its requests in order. Once `ussd_send` was executed, no older request is, and
the stick's session is this call's own or its data are, or are empty (`SessionInv`): also when the post ended an earlier
session instead of opening one. *Lapses are cured* needs no assumption about the devices: each refusal is either cured by the
new login or has a cause on record (`LoginInv`).

*Drivers side by side*: a behaviour of `MCDrivers` is one of each model, so that it has the properties of both.

### USSD and inbox

*Failed rows are silent, settled rows stay, tariffs are polled.* `UssdInv` counts sessions: those begun, those a slot is
waiting to begin and the one the job may still ask for are no more than request, failed attempts and stalls allow (`Budget`),
and the polls no more than the sessions ask for (`Quota`); these bounds are the type invariant. As long as the job has not
stalled, one slot works for the request (`Sole`), it does not touch a settled row again (`AtRest`), and a reply that the
driver returned reaches the row unless the database failed (`Told`). What it did not return is accounted for by `Waiters`: a
waiter is left behind, and a reply missed, only once a session has ended in an error. `Polled` follows the counter of the
polling loop.

*No message lost* (with `InboxAssumption` only) is not inductive because it says nothing of what is
about to be deleted. `Tracked` adds it: on a SIM every entry of the listing still is at its index (a new
message takes a free one, and nobody else deletes), and once the deletion has begun each entry is
stored. So what an `AT+CMGD` or a `DELETE_SMS` takes away is stored already, whatever arrived
meanwhile. On the phone the theorem leaves out by name what the drain may lose
(`dropped`, `raced`).

*Messages are stored once* counts excuses (`CountInv`): a message that is on the SIM, and not about to be deleted, has an excuse left for each
copy it has in the database, so that the next copy has one too. On the phone, where one broken drain may repeat a
whole file, all that is proved is that without an excuse the two files are disjoint, have no message twice and
hold none that is stored.

### Gateway

*The import is safe* because only a complete import reaches the renaming (`ImportInv`), whatever start-up or restart comes between,
and a request's row is not one of the old log.

*Accepted messages fit* adds to the property that a job which still has its fleet fits every modem it may be given,
and that a running one was given one of those (`FitInv`). It holds for any limits and texts, since the
API and the driver ask the same `analyzeFor`, and shows where it ends: at a restart with another fleet.

*Picks are spread* for every fleet. Since the connected modems last changed, the counter has gone round from some turn `a`:
each modem was picked `c` times, and those on the arc from `a` to the counter once more (`SpreadInv`). The next pick lengthens the arc by
one modem, or closes the circle and begins it anew with `c + 1`; that the counter modulo the number of modems
takes each turn once is a chain of small lemmas. It needs no assumption about where the counter stood before.

### Left to TLC

Liveness (`JobEnds`, `Settles`, `EveryCallbackEnds`, `DriverCallsEnd`, `RequestSettles`,
`Collected`), which is out of the prover's reach; and what the recursive functions of `SmsEncoding` compute (`Readable`), which needs
induction over the text. Every other property of a passing run is the statement of a theorem above.


## 8. Disagreements between code and documents

- **`UnconfirmedModem`**: README.md:212 says `modemId` is "the modem that carried (or
  last attempted) the message". For an `unconfirmed` row it may be null or an older
  attempt's modem: the catch block (bull.config.js:59-67) sets `modemId` on the error
  and then throws a new `UnrecoverableError` without it.
- **`LostOutcome`**: README.md:256 and webhook.config.js:7-8 promise at-least-once
  callbacks that survive a restart. A process that dies after BullMQ recorded the
  last failure and before the `failed` handler enqueued the callback never sends it.
- **`ReceiverStuck`**: README.md:256 tells receivers to key on `logId`+`status` and
  order by `occurredAt`. A row may repeat a status in good faith (two `retrying` with a
  stalled run's `sent` between them, then `sent` again): the receiver drops
  the repeated `sent` as a duplicate and is left with `retrying`.
- **`UssdReplyLost`**: modem.js:402 says that a session returns the `+CUSD` line, "or null on
  no reply". `runUssd` registers its waiter before the command and does not take it back when the
  command fails (modem.js:307-308); the queue runs the next session 15 s later, a
  live request at once, and the line of that session goes to the waiter that nobody
  awaits. The session that was answered returns null, is recorded as silent and retried; when it was the last, the row
  of a request the network answered says `failed`, "No USSD reply" (ussd.config.js:97). `FailedMeansSilent` says how far such a row can be trusted.
- **`AdbDrain`**: README.md:262 says that a read "deletes only the messages that were read (a message arriving during the
  read is kept for next time; if the DB write fails, nothing is deleted)". The drain on the phone is `cat incoming.jsonl >> ... && rm -f
  incoming.jsonl` (adb.js:155): a message captured between the two is removed unread, and so is one whose line `cat` met half written
  (adb.js:174 skips it, and the rest of the line goes with the log). The run's trace is of the former. With a single message TLC finds another way: a drain that fails gives an empty
  listing (adb.js:157-160), for which nothing is persisted, and the `rm` that follows is unconditional (adb.js:182), so that what was folded
  into the reading file is gone although adb.js:151-152 says that it "is deleted only after persist succeeds".

Four more have no run of their own.

- README.md:446 says that a job "is retried up to 3 times with exponential backoff (10s, 20s, 40s)", which is four tries with three delays.
  The code has `attempts: 3` (bull.config.js:14-19), three tries with two delays, 10 s and 20 s, and README.md:225 says so too ("All 3 attempts
  exhausted"). `RunsBounded` and its theorem hold of the three: with no stall a fourth try cannot happen.
- README.md:212 says that `unconfirmed` means "the message was
  handed to the modem". A job whose pinned modem is gone after a restart (bull.config.js:48-51)
  ends with an `UnrecoverableError` too, and its row says `unconfirmed` although no
  modem ever had it: in `SendPipeline` with a fleet that may shrink, and in `Gateway`'s `TakeJob`.
- zte-http.js:276-277 and README.md:462 say that a message whose confirmation times out is not sent
  again, because the stick, which accepted it, may still deliver it. A status poll that fails after `SEND_SMS` was accepted
  (zte-http.js:271) throws a plain error, and the worker retries. The contract calls such a driver blind.
- The serial driver checks a text against the GSM alphabet (sms-encoding.js:18-51), announces
  `AT+CSCS="GSM"` and writes UTF-8 (modem.js:270, 202). In a single SMS, characters such as `@`, `_` or `{` have another code
  there, and a modem that takes the announcement at its word sends others in their place. README.md:167 promises
  "plain Latin" only. Long messages go out as PDUs and are not affected.

## 9. What is not modelled

- SQLite itself, and queries without state (status, lists, metrics, health, UI).
- Authentication, rate limits, request formats: stateless checks in front of the handlers.
- Redis losing data it acknowledged, and a connection to it that breaks between a command and its reply. With `maxRetriesPerRequest: null`
  (redis.config.js:7) the client does not give up but sends the command again once it is back, so that an `add` may take effect
  twice (router.js:123 passes no `jobId`), or be acknowledged late. The `redis` fault is a command that was refused.
- Timing: seconds become steps. Where the code relies on one duration exceeding
  another, section 4 says so.
- What a stick does with a long text (it cuts it itself), its reboots, and what a recipient sees of a long
  message of which only some parts were sent (modem.js:278-281): the driver contract counts whole texts.
- The character table: one code stands for each kind of unit.
- Signing of callbacks and the check of their URLs: functions of one request.
- Message text: parsing of listings (a body line "OK" ends one early, modem.js:364), chunks of serial input.
- The drivers' `close()` at shutdown: an orderly stop is a weaker crash.

## 10. Plan

1. *Core* (done): `SendPipeline`, `DeliveryContract`, `WebhookDelivery`, `CallbackPath` and the proofs of section 7.
2. *Drivers and readers* (done): `SerialModem`, `UssdQueue`, `Inbox`, and the proof that the inbox loses nothing.
3. *Remote drivers* (done): `RemoteModem`, and `DriverContract`, which all drivers implement.
4. *Texts and start-up* (done): `SmsEncoding`, `LegacyImport`, `Gateway` and the proofs about it.
5. *Proofs of every component* (done): section 7; what is left to TLC is named at its end.
6. *Callbacks end to end* (done): `CallbackPath`, where what the receiver shows is proved from both parts.
7. *Sessions and their waiters* (done): `UssdQueue` has the `+CUSD` waiters, and live requests that queue for the modem.
8. *Further composition*: `SendPipeline`'s driver steps as an
   instance of `DriverContract`, for which the end of one call and the begin of the next on the chain, one step of the
   pipeline, would have to be two.

-------------------------- MODULE WebhookDelivery ---------------------------
(***************************************************************************)
(* Delivery of status callbacks: the 'webhook' BullMQ queue, its worker,   *)
(* the network and a receiver that does what the README asks of it (drop   *)
(* what it has seen by logId+status, order the rest by occurredAt).        *)
(*                                                                         *)
(* Callback <<m, i>> is the i-th status of message m that enqueueWebhook   *)
(* added; occurredAt is stamped there, so i is also its place in time.     *)
(*                                                                         *)
(* Source: config/webhook.config.js.                                       *)
(***************************************************************************)
EXTENDS Integers, Sequences, FiniteSets

CONSTANTS
    Msgs,
    Statuses,     \* the statuses callbacks are sent for
    MaxCallbacks, \* bound: callbacks per message
    Attempts,     \* opts.attempts, webhook.config.js:48
    HookStalled,  \* BullMQ's maxStalledCount
    Concurrency,  \* webhook.config.js:142
    Answers,      \* what a receiver may reply
    MaxCrashes,   \* bound: restarts of the gateway
    MaxLost       \* bound: stalls of a job before it loses no more locks

ASSUME WebhookAssumption ==
    /\ MaxCallbacks \in Nat /\ HookStalled \in Nat /\ MaxCrashes \in Nat /\ MaxLost \in Nat
    /\ Attempts \in Nat \ {0} /\ Concurrency \in Nat \ {0}
    /\ Statuses \subseteq {"retrying", "sent", "failed", "unconfirmed"}
    /\ Answers \subseteq {"ok", "reject", "busy"}

VARIABLES
    callbacks, \* statuses handed to enqueueWebhook, oldest first
    hook,      \* state of each callback's job
    failures,  \* its job.attemptsMade
    hookStalls,\* times it was found stalled
    sends,     \* POSTs made for it so far
    wire,      \* POSTs <<m, i, k>> that may still reach the receiver
    reply,     \* the answer to the POST a running job waits for
    seen,      \* receiver: statuses seen per message
    newest,    \* receiver: the latest callback it applied
    got,       \* history: the final answers each callback was ever given
    crashes    \* history: restarts so far

hookVars == <<hook, failures, hookStalls, sends>>
vars == <<callbacks, hookVars, wire, reply, seen, newest, got, crashes>>

Callbacks == Msgs \X (1..MaxCallbacks)
Ended == {"done", "dropped", "failed"}

TypeOK ==
    /\ callbacks \in [Msgs -> Seq(Statuses)]
    /\ hook \in [Callbacks -> {"none", "wait", "active", "stalled", "delayed"} \union Ended]
    /\ failures \in [Callbacks -> 0..Attempts + 1]
    /\ hookStalls \in [Callbacks -> Nat]
    /\ sends \in [Callbacks -> Nat]
    /\ wire \subseteq {<<c[1], c[2], k>> : c \in Callbacks, k \in 1..Attempts + HookStalled}
    /\ \A c \in Callbacks : sends[c] <= Attempts + HookStalled
    /\ reply \in [Callbacks -> {"none", "lost"} \union Answers]
    /\ seen \in [Msgs -> SUBSET Statuses]
    /\ newest \in [Msgs -> 0..MaxCallbacks]
    /\ got \in [Callbacks -> SUBSET Answers]
    /\ crashes \in Nat

HookInit ==
    /\ hook = [c \in Callbacks |-> "none"]
    /\ failures = [c \in Callbacks |-> 0]
    /\ hookStalls = [c \in Callbacks |-> 0]
    /\ sends = [c \in Callbacks |-> 0]
    /\ wire = {}
    /\ reply = [c \in Callbacks |-> "none"]
    /\ seen = [m \in Msgs |-> {}]
    /\ newest = [m \in Msgs |-> 0]
    /\ got = [c \in Callbacks |-> {}]
    /\ crashes = 0

Init == callbacks = [m \in Msgs |-> <<>>] /\ HookInit

-----------------------------------------------------------------------------
\* enqueueWebhook: the callback's job waits in the queue, whatever its caller
\* told the receiver before.
Enqueue(m, st) ==
    /\ Len(callbacks[m]) < MaxCallbacks
    /\ callbacks' = [callbacks EXCEPT ![m] = Append(@, st)]
    /\ hook' = [hook EXCEPT ![<<m, Len(callbacks[m]) + 1>>] = "wait"]
    /\ UNCHANGED <<failures, hookStalls, sends, wire, reply, seen, newest, got,
                   crashes>>

\* The worker takes the job, signs the body and POSTs it.
Post(c) ==
    /\ hook[c] = "wait"
    /\ hookStalls[c] <= HookStalled
    /\ Cardinality({x \in Callbacks : hook[x] = "active"}) < Concurrency
    /\ hook' = [hook EXCEPT ![c] = "active"]
    /\ sends' = [sends EXCEPT ![c] = @ + 1]
    /\ wire' = wire \union {<<c[1], c[2], sends[c] + 1>>}
    /\ UNCHANGED <<callbacks, failures, hookStalls, reply, seen, newest, got,
                   crashes>>

\* A job that stalled too often is failed without another POST.
FailStalled(c) ==
    /\ hook[c] = "wait"
    /\ hookStalls[c] > HookStalled
    /\ hook' = [hook EXCEPT ![c] = "failed"]
    /\ failures' = [failures EXCEPT ![c] = @ + 1]
    /\ UNCHANGED <<callbacks, hookStalls, sends, wire, reply, seen, newest, got,
                   crashes>>

\* Mutant: a receiver that orders by receipt.
Apply_ByReceipt(m, i) ==
    /\ seen' = [seen EXCEPT ![m] = @ \union {callbacks[m][i]}]
    /\ newest' = [newest EXCEPT ![m] = i]

\* The receiver: a status it knows changes nothing, an older one does not
\* replace a newer one.
Apply(m, i) ==
    LET new == callbacks[m][i] \notin seen[m]
    IN  /\ seen' = [seen EXCEPT ![m] = @ \union {callbacks[m][i]}]
        /\ newest' = [newest EXCEPT ![m] = IF new /\ i > @ THEN i ELSE @]

\* A POST arrives, perhaps long after the worker gave up on it; its answer
\* reaches the worker only while it waits for that very POST.
Arrive(c, k) ==
    /\ <<c[1], c[2], k>> \in wire
    /\ wire' = wire \ {<<c[1], c[2], k>>}
    /\ \E a \in Answers :
          /\ reply' = IF hook[c] = "active" /\ k = sends[c]
                      THEN [reply EXCEPT ![c] = a] ELSE reply
          /\ got' = [got EXCEPT ![c] = @ \union ({a} \ {"busy"})]
          /\ IF a = "ok" THEN Apply(c[1], c[2]) ELSE UNCHANGED <<seen, newest>>
    /\ UNCHANGED <<callbacks, hookVars, crashes>>

\* Mutant: no AbortController, a POST may hang for ever.
GiveUp_NoAbort(c) ==
    /\ hook[c] = "active"
    /\ <<c[1], c[2], sends[c]>> \in wire
    /\ wire' = wire \ {<<c[1], c[2], sends[c]>>}
    /\ UNCHANGED <<callbacks, hookVars, reply, seen, newest, got, crashes>>

\* The connection breaks, or the 5 s abort fires, before an answer came; the
\* POST itself may be lost or still be under way.
GiveUp(c) ==
    /\ hook[c] = "active"
    /\ reply[c] # "lost"
    /\ reply' = [reply EXCEPT ![c] = "lost"]
    /\ wire' \in {wire, wire \ {<<c[1], c[2], sends[c]>>}}
    /\ UNCHANGED <<callbacks, hookVars, seen, newest, got, crashes>>

-----------------------------------------------------------------------------
\* Mutant: no answer is worth a retry.
IsPermanent_Always(a) == a \in {"reject", "busy"}

\* 4xx other than 408 and 429; "busy" stands for 408, 429 and 5xx.
IsPermanent(a) == a = "reject"

\* The processor returns: 2xx, or a permanent reject which is swallowed.
Finish(c) ==
    /\ hook[c] = "active"
    /\ reply[c] = "ok" \/ (reply[c] # "none" /\ IsPermanent(reply[c]))
    /\ hook' = [hook EXCEPT ![c] = IF reply[c] = "ok" THEN "done" ELSE "dropped"]
    /\ reply' = [reply EXCEPT ![c] = "none"]
    /\ UNCHANGED <<callbacks, failures, hookStalls, sends, wire, seen, newest, got,
                   crashes>>

\* Mutant: no limit on the attempts.
Fail_NoLimit(c) ==
    /\ hook[c] = "active"
    /\ reply[c] \notin {"none", "ok"} /\ ~IsPermanent(reply[c])
    /\ failures' = [failures EXCEPT ![c] = @ + 1]
    /\ hook' = [hook EXCEPT ![c] = "delayed"]
    /\ reply' = [reply EXCEPT ![c] = "none"]
    /\ UNCHANGED <<callbacks, hookStalls, sends, wire, seen, newest, got, crashes>>

\* The processor throws; BullMQ schedules another attempt or gives up.
Fail(c) ==
    /\ hook[c] = "active"
    /\ reply[c] \notin {"none", "ok"} /\ ~IsPermanent(reply[c])
    /\ failures' = [failures EXCEPT ![c] = @ + 1]
    /\ hook' = [hook EXCEPT ![c] = IF failures[c] + 1 >= Attempts
                                   THEN "failed" ELSE "delayed"]
    /\ reply' = [reply EXCEPT ![c] = "none"]
    /\ UNCHANGED <<callbacks, hookStalls, sends, wire, seen, newest, got, crashes>>

\* The exponential backoff ends.
Backoff(c) ==
    /\ hook[c] = "delayed"
    /\ hook' = [hook EXCEPT ![c] = "wait"]
    /\ UNCHANGED <<callbacks, failures, hookStalls, sends, wire, reply, seen, newest,
                   got, crashes>>

\* The gateway restarts: running jobs are left to the stalled-job check, what
\* is on the wire stays there.
HookCrash ==
    /\ hook' = [c \in Callbacks |-> IF hook[c] = "active" THEN "stalled" ELSE hook[c]]
    /\ reply' = [c \in Callbacks |-> "none"]
    /\ UNCHANGED <<failures, hookStalls, sends, wire, seen, newest, got>>

Restart ==
    /\ crashes < MaxCrashes
    /\ crashes' = crashes + 1
    /\ HookCrash
    /\ UNCHANGED callbacks

\* A running job's lock expires while the process lives on: BullMQ no longer
\* takes that call's result, its POST stays under way.  The call counts as over
\* at once, so that another may start one earlier than in the code.
HookLoseLock(c) ==
    /\ hook[c] = "active" /\ hookStalls[c] < MaxLost
    /\ hook' = [hook EXCEPT ![c] = "stalled"]
    /\ reply' = [reply EXCEPT ![c] = "none"]
    /\ UNCHANGED <<callbacks, failures, hookStalls, sends, wire, seen, newest, got,
                   crashes>>

\* The stalled-job check returns an abandoned job to the queue.
HookStall(c) ==
    /\ hook[c] = "stalled"
    /\ hook' = [hook EXCEPT ![c] = "wait"]
    /\ hookStalls' = [hookStalls EXCEPT ![c] = @ + 1]
    /\ UNCHANGED <<callbacks, failures, sends, wire, reply, seen, newest, got, crashes>>

HookStep(c) == \/ Post(c) \/ FailStalled(c) \/ GiveUp(c) \/ Finish(c) \/ Fail(c)
               \/ Backoff(c) \/ HookLoseLock(c) \/ HookStall(c)
               \/ \E k \in 1..sends[c] : Arrive(c, k)

Next ==
    \/ \E m \in Msgs, st \in Statuses : Enqueue(m, st)
    \/ \E c \in Callbacks : HookStep(c)
    \/ Restart

Spec == Init /\ [][Next]_vars

\* BullMQ runs what waits; a processor that waits for an answer gets one or
\* its abort timer fires.
HookFairness ==
    \A c \in Callbacks : /\ WF_vars(Post(c) \/ FailStalled(c))
                         /\ WF_vars(reply[c] = "none" /\ GiveUp(c))
                         /\ WF_vars(Finish(c) \/ Fail(c))
                         /\ WF_vars(Backoff(c))
                         /\ WF_vars(HookStall(c))

FairSpec == Spec /\ HookFairness

-----------------------------------------------------------------------------
\* The receiver's idea of a message: the status of the newest callback it
\* applied.
Shown(m) == IF newest[m] = 0 THEN "none" ELSE callbacks[m][newest[m]]

\* When every callback of a message has been delivered, a receiver that follows
\* README.md:256 shows its last status, in whatever order, how late and how
\* often the POSTs arrived, if that is the only one besides `retrying`.
ReceiverConverges ==
    \A m \in Msgs :
        LET n == Len(callbacks[m])
        IN  /\ n > 0
            /\ \A i \in 1..n : hook[<<m, i>>] = "done"
            /\ \A i \in 1..n - 1 : callbacks[m][i] = "retrying"
            => Shown(m) = callbacks[m][n]

\* A callback is given up only when a receiver rejected it for good, after all
\* its attempts, or at one stall too many: one restart costs no attempt
\* (webhook.config.js:45-53, 132-140).
GivenUpOnlyWhenSpent ==
    \A c \in Callbacks :
        /\ hook[c] = "dropped" => "reject" \in got[c]
        /\ hook[c] = "failed" /\ hookStalls[c] <= HookStalled => sends[c] >= Attempts

\* Every callback job ends, whatever the receiver and the network do and though
\* locks are lost and the gateway restarts: none is retried for ever, none is left running.
EveryCallbackEnds ==
    \A c \in Callbacks : hook[c] # "none" ~> hook[c] \in Ended
=============================================================================

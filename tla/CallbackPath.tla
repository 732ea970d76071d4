---------------------------- MODULE CallbackPath ----------------------------
(***************************************************************************)
(* SendPipeline and WebhookDelivery together: every status the pipeline    *)
(* adds to `callbacks` is a job of the webhook queue, both workers live in *)
(* the process that crashes.                                               *)
(***************************************************************************)
EXTENDS SendPipeline

CONSTANTS
    MaxCallbacks,    \* bound: callbacks per message
    HookAttempts,    \* opts.attempts, webhook.config.js:48
    HookConcurrency, \* webhook.config.js:142
    MaxLost,         \* bound: stalls of a callback's job before it loses no more locks
    Answers          \* what a receiver may reply

ASSUME PathAssumption ==
    /\ MaxCallbacks \in Nat /\ MaxLost \in Nat
    /\ HookAttempts \in Nat \ {0} /\ HookConcurrency \in Nat \ {0}
    /\ Answers \subseteq {"ok", "reject", "busy"}

VARIABLES hook, failures, hookStalls, sends, wire, reply, seen, newest, got

\* Of all faults only a restart is one of the webhook queue too.
Restarts == Cardinality({i \in DOMAIN faults : faults[i] = "crash"})

Webhook == INSTANCE WebhookDelivery
               WITH Statuses <- Terminal \union {"retrying"},
                    Attempts <- HookAttempts,
                    HookStalled <- MaxStalled,
                    Concurrency <- HookConcurrency,
                    MaxCrashes <- MaxFaults,
                    crashes <- Restarts

hookSide == <<hook, failures, hookStalls, sends, wire, reply, seen, newest, got>>
pathVars == <<vars, hookSide>>

PathInit == Init /\ Webhook!HookInit

\* webhookQueue.add: whatever the pipeline appended waits in the queue.
EnqueueNew ==
    /\ hook' = [c \in Webhook!Callbacks |->
                   IF hook[c] = "none" /\ c[2] <= Len(callbacks'[c[1]])
                   THEN "wait" ELSE hook[c]]
    /\ UNCHANGED <<failures, hookStalls, sends, wire, reply, seen, newest, got>>

PipelineStep ==
    /\ \A m \in Msgs : Len(callbacks[m]) < MaxCallbacks
    /\ ProcessStep
    /\ EnqueueNew

PathNext ==
    \/ PipelineStep
    \/ Crash /\ Webhook!HookCrash
    \/ UNCHANGED vars /\ \E c \in Webhook!Callbacks : Webhook!HookStep(c)

PathSpec == PathInit /\ [][PathNext]_pathVars

-----------------------------------------------------------------------------
\* Every callback m ever had was delivered, and the last tells its row's status.
Delivered(m) ==
    /\ Quiet(m)
    /\ callbacks[m] # <<>>
    /\ callbacks[m][Len(callbacks[m])] = status[m]
    /\ \A i \in 1..Len(callbacks[m]) : hook[m, i] = "done"

\* From the row to the receiver: a subscriber that does what README.md:256 asks
\* of it shows the status the row has, though callbacks overtake each other and
\* the process crashes, unless the job stalled (bull.config.js:70-82, 126-136).
ReceiverShowsOutcome ==
    \A m \in Subscribed : stalls[m] = 0 /\ Delivered(m) => Webhook!Shown(m) = status[m]

\* The same of every job that ended, as README.md:256 has it ("key on
\* logId+status", "order by occurredAt").
ReceiverShowsRow ==
    \A m \in Subscribed :
        job[m] \in {"completed", "failed"} /\ Delivered(m) => Webhook!Shown(m) = status[m]

\* While no lock is lost, the process runs on and Redis takes the callbacks, such
\* a subscriber shows what the row of a message at rest says as soon as every
\* callback was delivered, also when row updates fail (router.js:131-134,
\* bull.config.js:70-82, 126-136).
ReceiverFollowsRow ==
    \A m \in Subscribed :
        /\ Undisturbed /\ ~Happened("redis")
        /\ Quiet(m)
        /\ status[m] \in Terminal \/ (status[m] = "retrying" /\ SendIntermediate)
        /\ \A i \in 1..Len(callbacks[m]) : hook[m, i] = "done"
        => Webhook!Shown(m) = status[m]
=============================================================================

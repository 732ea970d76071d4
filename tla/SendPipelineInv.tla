-------------------------- MODULE SendPipelineInv ---------------------------
(***************************************************************************)
(* The inductive invariant of SendPipeline, in parts that each say why one *)
(* step of the pipeline is safe.                                           *)
(***************************************************************************)
EXTENDS SendPipeline

\* The call whose message is in a modem is first in that modem's chain.
HandedHolds == \A s \in Slots : phase[s] = "handed" => HoldsModem(s)

\* A busy call works for a message that has a job, on a run that was begun; it
\* chose a modem before it asks one.
Working == {"waiting", "queued", "handed", "sent", "returning", "failing"}
BusySlots ==
    \A s \in Slots :
        IF phase[s] = "idle" THEN run[s] = 0
        ELSE /\ serves[s] \in Msgs
             /\ run[s] <= runs[serves[s]]
             /\ phase[s] \in Working => run[s] >= 1
             /\ phase[s] \in {"waiting", "queued", "handed"} => on[s] \in Modems

\* No two calls work on the same run.
RunsDistinct ==
    \A s, t \in Slots :
        s # t /\ phase[s] # "idle" /\ phase[t] # "idle" /\ serves[s] = serves[t]
              /\ run[s] >= 1
        => run[s] # run[t]

\* The slot that owns a job works for it, on its latest run or on none.
OwnerWorks ==
    \A m \in Msgs : owner[m] # NoSlot =>
        /\ job[m] = "active"
        /\ phase[owner[m]] # "idle"
        /\ serves[owner[m]] = m
        /\ run[owner[m]] = runs[m] \/ (run[owner[m]] = 0 /\ phase[owner[m]] = "aborting")

\* A call whose run is not excused is the one the job is waiting for.
UnexcusedIsCurrent ==
    \A s \in Slots : phase[s] # "idle" /\ run[s] >= 1 =>
        \/ run[s] \in excused[serves[s]]
        \/ /\ job[serves[s]] = "active"
           /\ run[s] = runs[serves[s]]
           /\ owner[serves[s]] \in {s, NoSlot}

\* Runs not yet handed over, or refused, have no unexcused copy.
NoCopyYet ==
    \A s \in Slots : phase[s] \in {"waiting", "queued", "failing"} =>
        run[s] \in excused[serves[s]] \/ run[s] \notin copies[serves[s]]

\* While a job waits to run (again) every copy is excused; otherwise only the
\* latest run's copy may not be.
WaitingIsClean ==
    \A m \in Msgs :
        /\ copies[m] \subseteq excused[m] \union {runs[m]}
        /\ job[m] \in {"none", "wait", "delayed"} => copies[m] \subseteq excused[m]

\* A job that has run, or stalled, has a run.
RunsBegun ==
    \A m \in Msgs : /\ job[m] \notin {"none", "wait"} => runs[m] >= 1
                    /\ stalls[m] > 0 => runs[m] >= 1

\* The job is added by the request handler's second step.
JobPosted ==
    \A m \in Msgs : http[m] \in {"idle", "appended", "rejected", "refused"}
                    => job[m] = "none"

DeliveryInv ==
    /\ BusySlots /\ RunsDistinct /\ OwnerWorks /\ UnexcusedIsCurrent
    /\ NoCopyYet /\ WaitingIsClean /\ RunsBegun
    /\ JobPosted

\* Every run of m is paid for by a failed attempt, a stall, or is going on.
Paid(m) ==
    /\ job[m] \in {"none", "wait", "delayed", "active"} =>
          /\ made[m] < MaxAttempts
          /\ stalls[m] <= MaxStalled =>
                runs[m] <= made[m] + stalls[m] + (IF job[m] = "active" THEN 1 ELSE 0)
          /\ stalls[m] > MaxStalled => runs[m] <= made[m] + MaxStalled + 1
    /\ job[m] \in {"completed", "failed"} => runs[m] <= MaxAttempts + Recovered(m)

RunsPaid == \A m \in Msgs : Paid(m)

\* What the 'failed' handler is about to record is true when it records it.
HandlerTells(m) ==
    hStage[m] # "none" =>
        /\ job[m] \in {"delayed", "failed"}
        /\ FailureStatus(m) = "failed" => job[m] = "failed"
        /\ verdict[m] # "unrecoverable" => copies[m] \subseteq excused[m]

\* A row says `failed` when its job has failed, or was never added.
FailedIsFinal(m) ==
    status[m] = "failed" =>
        /\ job[m] = "failed" \/ (job[m] = "none" /\ http[m] # "appended")
        /\ copies[m] \subseteq excused[m]

HandlerInv == \A m \in Msgs : HandlerTells(m) /\ FailedIsFinal(m)

-----------------------------------------------------------------------------
\* s makes a processor call for m.
At(s, m) == phase[s] # "idle" /\ serves[s] = m

\* A job has one processor call at most, and none but while it is active.
Sole(m) ==
    \A s \in Slots : At(s, m) => job[m] = "active" /\ \A t \in Slots : At(t, m) => t = s

\* Nobody is left who would write m's row, or add a callback of m.
RowClosed(m) ==
    \/ job[m] = "none" /\ http[m] \notin {"idle", "appended", "rejected"}
    \/ job[m] \in {"completed", "failed"} /\ hStage[m] # "update"
    \/ job[m] = "active" /\ \A s \in Slots : At(s, m) => phase[s] \in {"sent", "returning"}
CallsClosed(m) ==
    \/ job[m] = "none" /\ http[m] \notin {"idle", "appended", "rejected", "refused"}
    \/ job[m] \in {"completed", "failed"} /\ hStage[m] \notin {"update", "notify"}
    \/ job[m] = "active" /\ \A s \in Slots : At(s, m) => phase[s] = "returning"

\* The handler runs between two attempts or after the last.
HandlerEnds(m) ==
    hStage[m] # "none" =>
        job[m] = "failed" \/ (job[m] = "delayed" /\ FailureStatus(m) = "retrying")

\* Only the last callback may be final, and it is the last indeed.
LastWord(m) ==
    LET n == Len(callbacks[m])
    IN  /\ \A i \in 1..n - 1 : callbacks[m][i] = "retrying"
        /\ n > 0 /\ callbacks[m][n] # "retrying" => CallsClosed(m)

\* A job that never stalled ends once.
Once(m) ==
    stalls[m] = 0 =>
        /\ Sole(m) /\ LastWord(m)
        /\ status[m] \in Terminal => RowClosed(m)

OutcomeInv == \A m \in Msgs : HandlerEnds(m) /\ Once(m)

-----------------------------------------------------------------------------
\* Where no lock is lost, a call owns the job it works for, and an unconfirmed
\* job has failed.
LocksKept ==
    /\ \A s \in Slots : phase[s] # "idle" => owner[serves[s]] = s
    /\ \A m \in Msgs : status[m] = "unconfirmed" => job[m] = "failed"

\* Where the process goes on as well, no job stalls.
NeverStalls ==
    \A m \in Msgs : stalls[m] = 0 /\ (job[m] = "active" => owner[m] # NoSlot)

\* The modem a message was last given to is the one its outcome will name.
Named(m) ==
    /\ job[m] = "none" => tried[m] = NoModem
    /\ \A s \in Slots : At(s, m) /\ phase[s] \in {"queued", "handed", "failing"}
                        => tried[m] = on[s]
    /\ hStage[m] # "none" /\ verdict[m] # "unrecoverable" => hModem[m] = tried[m]
    /\ status[m] \in {"sent", "failed"} /\ tried[m] # NoModem => rowModem[m] = tried[m]

NamedInv == NeverStalls /\ \A m \in Msgs : Named(m)

\* A status its subscriber is to hear of.
Worth(st) == st \in Terminal \/ (st = "retrying" /\ SendIntermediate)

\* Between the row and its callback.
Owed(m) ==
    \/ http[m] = "refused" \/ hStage[m] = "notify"
    \/ \E s \in Slots : At(s, m) /\ phase[s] = "sent"

\* The callbacks follow the row.
Follows(m) ==
    /\ http[m] = "idle" => status[m] = "none"
    /\ http[m] = "refused" => status[m] = "failed"
    /\ hStage[m] = "notify" => status[m] = FailureStatus(m)
    /\ \A s \in Slots : At(s, m) /\ phase[s] = "sent" => status[m] = "sent"
    /\ ~Worth(status[m]) => callbacks[m] = <<>>
    /\ Worth(status[m]) /\ ~Owed(m) =>
          Len(callbacks[m]) > 0 /\ callbacks[m][Len(callbacks[m])] = status[m]

FollowsInv == NeverStalls /\ \A m \in Subscribed : Follows(m)
=============================================================================

----------------------------- MODULE UssdProofs -----------------------------
(***************************************************************************)
(* The types of the USSD queue, with the bounds on sessions and looks at   *)
(* the inbox, and that it never loses or overwrites an outcome without a   *)
(* stall: for any number of requests, slots, attempts, stalls and faults.  *)
(***************************************************************************)
EXTENDS UssdQueue, FiniteSetTheorems, SequenceTheorems, TLAPS

-----------------------------------------------------------------------------
\* The inductive invariant: the types.
Types ==
    /\ known \in BOOLEAN /\ tariff \subseteq Reqs
    /\ http \in [Reqs -> {"idle", "created", "rejected", "queued", "live", "threw",
                          "accepted", "answered", "error", "gone"}]
    /\ row \in [Reqs -> {"none", "pending", "done", "failed"}]
    /\ runs \in [Reqs -> Nat] /\ value \in [Reqs -> Nat]
    /\ job \in [Reqs -> {"none", "wait", "active", "delayed", "completed", "failed"}]
    /\ made \in [Reqs -> Nat] /\ stalls \in [Reqs -> Nat]
    /\ owner \in [Reqs -> Slots \union {NoSlot}]
    /\ phase \in [Slots -> {"idle", "waiting", "session", "replied", "polling",
                            "returning", "failing", "aborting"}]
    /\ serves \in [Slots -> Reqs \union {NoReq}]
    /\ \A s \in Slots : phase[s] = "idle" <=> serves[s] = NoReq
    /\ \A s \in Slots : /\ phase[s] = "polling" => added[s] < Polls
                        /\ phase[s] \in {"idle", "waiting", "session", "replied"}
                              => added[s] = 0
    /\ got \in [Slots -> Nat] /\ added \in [Slots -> 0..Polls]
    /\ polls \in [Reqs -> Nat]
    /\ hStage \in [Reqs -> {"none", "update"}] /\ final \in [Reqs -> BOOLEAN]

\* How the request, the job and its handler fit together.
ReqShape(r) ==
    /\ job[r] # "none" => http[r] = "accepted"
    /\ http[r] = "live" => runs[r] > 0
    /\ hStage[r] = "update" => job[r] \in {"delayed", "failed"}
    /\ final[r] => job[r] = "failed"
    /\ made[r] <= MaxAttempts /\ (made[r] = MaxAttempts => job[r] = "failed")
    /\ value[r] <= runs[r]
    /\ owner[r] # NoSlot => job[r] = "active" /\ serves[owner[r]] = r

\* A slot that is busy works for a job, and has at most the last run's reply.
SlotShape(s) ==
    /\ phase[s] = "idle" => got[s] = 0
    /\ phase[s] # "idle" => job[serves[s]] # "none" /\ got[s] <= runs[serves[s]]
    /\ phase[s] = "session" => runs[serves[s]] > 0

Shape == (\A r \in Reqs : ReqShape(r)) /\ (\A s \in Slots : SlotShape(s))

\* The waiters of the driver: one is left only by a session that ended in an
\* error, and only then is a reply missed.
Waiters ==
    /\ left \in Nat /\ threw \in BOOLEAN
    /\ replied \in [Reqs -> SUBSET Nat] /\ missed \in [Reqs -> SUBSET Nat]
    /\ left > 0 => threw
    /\ \A r \in Reqs : /\ missed[r] \subseteq replied[r]
                       /\ replied[r] \subseteq 1..runs[r]
                       /\ missed[r] # {} => threw

\* Every session was allowed by the request itself, a failed attempt or a stall:
\* those begun and those on their way are no more than that.
Waiting(r) == {s \in Slots : serves[s] = r /\ phase[s] = "waiting"}
Spare(r) ==
    IF http[r] \in {"idle", "created", "queued"}
       \/ (job[r] \in {"wait", "delayed"} /\ stalls[r] <= MaxStalled)
    THEN 1 ELSE 0
Allowed(r) ==
    1 + (IF made[r] < MaxAttempts THEN made[r] ELSE MaxAttempts - 1)
      + (IF stalls[r] <= MaxStalled THEN stalls[r] ELSE MaxStalled)
Budget(r) == runs[r] + Cardinality(Waiting(r)) + Spare(r) <= Allowed(r)

\* The looks at the inbox the sessions under way will still add.
StillPolls(s, k) ==
    phase[s] \in {"session", "replied"} \/ (phase[s] = "polling" /\ k > added[s])
ToCome(r) == {c \in Slots \X (1..Polls) : serves[c[1]] = r /\ StillPolls(c[1], c[2])}
Quota(r) == polls[r] + Cardinality(ToCome(r)) <= Polls * runs[r]

\* As long as its job has not stalled, one slot works for a request, ...
Sole(r) ==
    \A s \in Slots : serves[s] = r =>
        /\ job[r] = "active" /\ owner[r] \in {s, NoSlot}
        /\ \A t \in Slots : serves[t] = r => t = s

\* ... which does not touch a settled row again, nor does anyone else, ...
AtRest(r) ==
    row[r] \in {"done", "failed"} =>
        /\ http[r] \notin {"idle", "created", "rejected", "queued", "live", "threw"}
        /\ job[r] \notin {"wait", "delayed"} /\ ~final[r]
        /\ row[r] = "failed" => job[r] \in {"none", "failed"}
        /\ \A s \in Slots : serves[s] = r => phase[s] \in {"polling", "returning"}

\* ... and a reply that the driver returned is stored, about to be, or was lost
\* together with the slot.
Heard(r) == ~(replied[r] \subseteq missed[r])
Told(r) ==
    \/ row[r] = "done"
    \/ \E s \in Slots : serves[s] = r /\ phase[s] = "replied"
    \/ /\ job[r] = "active" /\ owner[r] = NoSlot
       /\ \A s \in Slots : serves[s] # r

Calm(r) ==
    stalls[r] = 0 =>
        /\ Sole(r) /\ AtRest(r)
        /\ ~Happened({"db"}) /\ Heard(r) => Told(r)

\* The looks that have been added.
Polled(r) ==
    r \in tariff /\ ~Happened({"redis"}) =>
        /\ job[r] = "completed" => polls[r] >= Polls
        /\ \A s \in Slots : serves[s] = r =>
              /\ phase[s] = "polling" => polls[r] >= added[s]
              /\ phase[s] = "returning" => polls[r] >= Polls

-----------------------------------------------------------------------------
\* A fault is remembered.
LEMMA FaultSeen ==
    ASSUME faults \in Seq(FaultKinds), NEW k, Fault(k)
    PROVE  /\ faults' \in Seq(FaultKinds)
           /\ \A kinds : (Happened(kinds) \/ k \in kinds) => Happened(kinds)'
<1>1. faults' = Append(faults, k) /\ k \in FaultKinds
    BY DEF Fault
<1>2. /\ faults' \in Seq(FaultKinds) /\ Len(faults') = Len(faults) + 1
      /\ faults'[Len(faults) + 1] = k /\ Len(faults) \in Nat
      /\ \A i \in 1..Len(faults) : faults'[i] = faults[i]
    BY <1>1, AppendProperties, LenProperties
<1>3. DOMAIN faults = 1..Len(faults) /\ DOMAIN faults' = 1..Len(faults')
    BY <1>2, LenProperties
<1> QED
    BY <1>2, <1>3 DEF Happened

\* The types are kept.
LEMMA TypesStep ==
    ASSUME Types, [Next]_vars
    PROVE  Types'
<1> USE UssdAssumption DEF Types
<1>1. ASSUME NEW r \in Reqs, CreateRequest(r)
      PROVE  Types'
    BY <1>1 DEF CreateRequest, given, rowVars, jobVars, slotVars, handlerVars
<1>2. ASSUME NEW r \in Reqs, LiveRequest(r)
      PROVE  Types'
    BY <1>2 DEF LiveRequest, given, rowVars, jobVars, slotVars,
       handlerVars
<1>3. ASSUME NEW r \in Reqs, AddJob(r)
      PROVE  Types'
    BY <1>3 DEF AddJob, given, rowVars, jobVars, slotVars, handlerVars
<1>4. ASSUME NEW r \in Reqs, RejectRequest(r)
      PROVE  Types'
    BY SMTT(20), <1>4 DEF RejectRequest, RecordFailure, CompleteRequest, given, rowVars, jobVars,
       slotVars, handlerVars
<1>5. ASSUME NEW r \in Reqs, LiveEnds(r)
      PROVE  Types'
    <2>1. runs[r] \in Nat
        OBVIOUS
    <2>2. row' \in [Reqs -> {"none", "pending", "done", "failed"}] /\ value' \in [Reqs -> Nat]
        BY <1>5, <2>1 DEF LiveEnds, CompleteRequest, rowVars
    <2>3. http' \in [Reqs -> {"idle", "created", "rejected", "queued", "live", "threw",
                              "accepted", "answered", "error", "gone"}]
        BY <1>5 DEF LiveEnds
    <2> QED
        BY <1>5, <2>2, <2>3 DEF LiveEnds, given, jobVars, slotVars, handlerVars
<1>6. ASSUME NEW r \in Reqs, LiveThrows(r)
      PROVE  Types'
    BY <1>6 DEF LiveThrows, given, rowVars, jobVars, slotVars, handlerVars
<1>7. ASSUME NEW r \in Reqs, LiveCatch(r)
      PROVE  Types'
    BY <1>7 DEF LiveCatch, RecordFailure, CompleteRequest, given, rowVars, jobVars,
       slotVars, handlerVars
<1>8. ASSUME NEW r \in Reqs, HandleFailed(r)
      PROVE  Types'
    BY SMTT(20), <1>8 DEF HandleFailed, RecordFailure, CompleteRequest, given, rowVars, jobVars,
       slotVars, handlerVars
<1>9. ASSUME NEW r \in Reqs, Promote(r)
      PROVE  Types'
    BY <1>9 DEF Promote, given, rowVars, slotVars, handlerVars
<1>10. ASSUME NEW r \in Reqs, LoseLock(r)
      PROVE  Types'
    BY <1>10 DEF LoseLock, given, rowVars, slotVars, handlerVars
<1>11. ASSUME NEW r \in Reqs, Stall(r)
      PROVE  Types'
    BY <1>11 DEF Stall, given, rowVars, slotVars, handlerVars
<1>12. ASSUME NEW s \in Slots, NEW r \in Reqs, TakeJob(s, r)
      PROVE  Types'
    BY <1>12 DEF TakeJob, given, rowVars, jobVars, slotVars, handlerVars
<1>13. ASSUME NEW s \in Slots, RunUssd(s)
      PROVE  Types'
    <2>1. serves[s] \in Reqs
        BY <1>13 DEF RunUssd
    <2> QED
        BY <1>13, <2>1 DEF RunUssd, Goto, BeginSession, ModemFree, given,
           rowVars, jobVars, slotVars, handlerVars
<1>14. ASSUME NEW s \in Slots, SessionSilent(s)
      PROVE  Types'
    BY <1>14 DEF SessionSilent, Goto, given, rowVars, jobVars, slotVars, handlerVars
<1>15. ASSUME NEW s \in Slots, SessionReplied(s)
      PROVE  Types'
    <2>1. serves[s] \in Reqs
        BY <1>15 DEF SessionReplied
    <2> QED
        BY <1>15, <2>1 DEF SessionReplied, given, rowVars, jobVars,
           slotVars, handlerVars
<1>16. ASSUME NEW s \in Slots, StoreReply(s)
      PROVE  Types'
    <2>1. serves[s] \in Reqs /\ got[s] \in Nat
        BY <1>16 DEF StoreReply
    <2>2. row' \in [Reqs -> {"none", "pending", "done", "failed"}] /\ value' \in [Reqs -> Nat]
        <3>1. ASSUME CompleteRequest(serves[s], "done", got[s])
              PROVE  /\ row' \in [Reqs -> {"none", "pending", "done", "failed"}]
                     /\ value' \in [Reqs -> Nat]
            <4>1. /\ row' = [row EXCEPT ![serves[s]] = "done"]
                  /\ value' = [value EXCEPT ![serves[s]] = got[s]]
                BY <3>1 DEF CompleteRequest
            <4> QED
                BY <2>1, <4>1
        <3>2. CompleteRequest(serves[s], "done", got[s]) \/ UNCHANGED rowVars
            BY <1>16 DEF StoreReply
        <3>3. UNCHANGED rowVars => row' = row /\ value' = value
            BY DEF rowVars
        <3> QED
            BY <3>1, <3>2, <3>3
    <2>3. \E p \in {"polling", "returning", "failing"} : phase' = [phase EXCEPT ![s] = p]
        BY <1>16 DEF StoreReply, Goto
    <2>4. UNCHANGED <<serves, got, added>>
        BY <1>16 DEF StoreReply, Goto
    <2>5. added[s] = 0 /\ phase[s] = "replied"
        BY <1>16 DEF StoreReply
    <2> QED
        BY <1>16, <2>1, <2>2, <2>3, <2>4, <2>5 DEF StoreReply, given, jobVars, handlerVars
<1>17. ASSUME NEW s \in Slots, AddPoll(s)
      PROVE  Types'
    <2>1. serves[s] \in Reqs /\ phase[s] = "polling" /\ added[s] \in Nat /\ added[s] < Polls
        BY <1>17 DEF AddPoll
    <2>2. UNCHANGED <<given, http, rowVars, jobVars, serves, got, handlerVars, runs>>
        BY <1>17 DEF AddPoll, Goto
    <2>3. CASE Goto(s, "returning") /\ UNCHANGED polls
        BY <2>1, <2>2, <2>3 DEF Goto, given, rowVars, jobVars, handlerVars
    <2>4. CASE /\ added' = [added EXCEPT ![s] = @ + 1]
               /\ polls' = [polls EXCEPT ![serves[s]] = @ + 1]
               /\ phase' = [phase EXCEPT ![s] = IF added[s] + 1 < Polls THEN @ ELSE "returning"]
        <3>1. polls' \in [Reqs -> Nat]
            BY <2>1, <2>4
        <3>2. added' \in [Slots -> 0..Polls]
            BY <2>1, <2>4
        <3> QED
            BY <2>1, <2>2, <2>4, <3>1, <3>2 DEF given, rowVars, jobVars, handlerVars
    <2> QED
        BY <1>17, <2>3, <2>4 DEF AddPoll
<1>18. ASSUME NEW s \in Slots, Complete(s)
      PROVE  Types'
    <2>1. serves[s] \in Reqs
        BY <1>18 DEF Complete
    <2> QED
        BY <1>18, <2>1 DEF Complete, Owns, Idle, given, rowVars, jobVars,
           slotVars, handlerVars
<1>19. ASSUME NEW s \in Slots, MoveToFailed(s)
      PROVE  Types'
    <2>1. serves[s] \in Reqs
        BY <1>19 DEF MoveToFailed
    <2> QED
        BY <1>19, <2>1 DEF MoveToFailed, IsFinal, Owns, Idle, given,
           rowVars, jobVars, slotVars, handlerVars
<1>20. ASSUME NEW s \in Slots, DropResult(s)
      PROVE  Types'
    BY <1>20 DEF DropResult, Owns, Idle, given, rowVars, jobVars, slotVars, handlerVars
<1>21. ASSUME Crash
      PROVE  Types'
    BY <1>21 DEF Crash, rowVars
<1>22. ASSUME NEW r \in Reqs, LiveBegins(r)
      PROVE  Types'
    BY <1>22 DEF LiveBegins, BeginSession, given, rowVars, jobVars, slotVars,
       handlerVars
<1>23. ASSUME NEW r \in Reqs, TakeReply(r)
      PROVE  Types'
    BY <1>23 DEF TakeReply, given, rowVars, jobVars, slotVars,
       handlerVars
<1>24. ASSUME WaiterEnds
      PROVE  Types'
    BY <1>24 DEF WaiterEnds, given, rowVars, jobVars, slotVars,
       handlerVars
<1>25. CASE UNCHANGED vars
    BY <1>25 DEF vars, given, rowVars, jobVars, slotVars, handlerVars
<1> QED
    BY <1>1, <1>2, <1>3, <1>4, <1>5, <1>6, <1>7, <1>8, <1>9, <1>10, <1>11, <1>12, <1>13,
       <1>14, <1>15, <1>16, <1>17, <1>18, <1>19, <1>20, <1>21, <1>22, <1>23, <1>24,
       <1>25
       DEF Next, RequestStep, SlotStep

\* Requests, jobs and handlers keep fitting together.
LEMMA ReqShapeStep ==
    ASSUME Types, Shape, [Next]_vars, NEW q \in Reqs
    PROVE  ReqShape(q)'
<1> USE UssdAssumption DEF Types, Shape, ReqShape, SlotShape
<1>1. ASSUME NEW r \in Reqs, CreateRequest(r)
      PROVE  ReqShape(q)'
    BY <1>1 DEF CreateRequest, given, rowVars, jobVars, slotVars, handlerVars
<1>2. ASSUME NEW r \in Reqs, LiveRequest(r)
      PROVE  ReqShape(q)'
    BY <1>2 DEF LiveRequest, given, rowVars, jobVars, slotVars,
       handlerVars
<1>3. ASSUME NEW r \in Reqs, AddJob(r)
      PROVE  ReqShape(q)'
    BY <1>3 DEF AddJob, given, rowVars, jobVars, slotVars, handlerVars
<1>4. ASSUME NEW r \in Reqs, RejectRequest(r)
      PROVE  ReqShape(q)'
    BY <1>4 DEF RejectRequest, RecordFailure, CompleteRequest, given, rowVars, jobVars,
       slotVars, handlerVars
<1>5. ASSUME NEW r \in Reqs, LiveEnds(r)
      PROVE  ReqShape(q)'
    BY <1>5 DEF LiveEnds, CompleteRequest, given, rowVars, jobVars, slotVars,
       handlerVars
<1>6. ASSUME NEW r \in Reqs, LiveThrows(r)
      PROVE  ReqShape(q)'
    BY <1>6 DEF LiveThrows, given, rowVars, jobVars, slotVars, handlerVars
<1>7. ASSUME NEW r \in Reqs, LiveCatch(r)
      PROVE  ReqShape(q)'
    BY <1>7 DEF LiveCatch, RecordFailure, CompleteRequest, given, rowVars, jobVars,
       slotVars, handlerVars
<1>8. ASSUME NEW r \in Reqs, HandleFailed(r)
      PROVE  ReqShape(q)'
    BY <1>8 DEF HandleFailed, RecordFailure, CompleteRequest, given, rowVars, jobVars,
       slotVars, handlerVars
<1>9. ASSUME NEW r \in Reqs, Promote(r)
      PROVE  ReqShape(q)'
    BY <1>9 DEF Promote, given, rowVars, slotVars, handlerVars
<1>10. ASSUME NEW r \in Reqs, LoseLock(r)
      PROVE  ReqShape(q)'
    BY <1>10 DEF LoseLock, given, rowVars, slotVars, handlerVars
<1>11. ASSUME NEW r \in Reqs, Stall(r)
      PROVE  ReqShape(q)'
    BY <1>11 DEF Stall, given, rowVars, slotVars, handlerVars
<1>12. ASSUME NEW s \in Slots, NEW r \in Reqs, TakeJob(s, r)
      PROVE  ReqShape(q)'
    BY <1>12 DEF TakeJob, given, rowVars, jobVars, slotVars, handlerVars
<1>13. ASSUME NEW s \in Slots, RunUssd(s)
      PROVE  ReqShape(q)'
    BY <1>13 DEF RunUssd, Goto, BeginSession, ModemFree, given, rowVars, jobVars,
       slotVars, handlerVars
<1>14. ASSUME NEW s \in Slots, SessionSilent(s)
      PROVE  ReqShape(q)'
    BY <1>14 DEF SessionSilent, Goto, given, rowVars, jobVars, slotVars, handlerVars
<1>15. ASSUME NEW s \in Slots, SessionReplied(s)
      PROVE  ReqShape(q)'
    BY <1>15 DEF SessionReplied, given, rowVars, jobVars, slotVars, handlerVars
<1>16. ASSUME NEW s \in Slots, StoreReply(s)
      PROVE  ReqShape(q)'
    BY <1>16 DEF StoreReply, Goto, CompleteRequest, given, rowVars, jobVars, slotVars,
       handlerVars
<1>17. ASSUME NEW s \in Slots, AddPoll(s)
      PROVE  ReqShape(q)'
    BY <1>17 DEF AddPoll, Goto, given, rowVars, jobVars, slotVars, handlerVars
<1>18. ASSUME NEW s \in Slots, Complete(s)
      PROVE  ReqShape(q)'
    BY <1>18 DEF Complete, Owns, Idle, given, rowVars, jobVars, slotVars, handlerVars
<1>19. ASSUME NEW s \in Slots, MoveToFailed(s)
      PROVE  ReqShape(q)'
    <2>1. serves[s] \in Reqs /\ owner[serves[s]] = s
        BY <1>19 DEF MoveToFailed, Owns
    <2>2. job[serves[s]] = "active" /\ made[serves[s]] < MaxAttempts
        <3>1. s # NoSlot /\ ReqShape(serves[s])
            BY <2>1
        <3>2. job[serves[s]] = "active"
            BY <2>1, <3>1
        <3>3. made[serves[s]] \in Nat /\ MaxAttempts \in Nat
            BY <2>1
        <3>4. made[serves[s]] <= MaxAttempts
            BY <3>1
        <3>5. made[serves[s]] # MaxAttempts
            BY <3>1, <3>2
        <3>6. \A x, y \in Nat : x <= y /\ x # y => x < y
            OBVIOUS
        <3> QED
            BY ONLY <3>2, <3>3, <3>4, <3>5, <3>6
    <2>3. CASE q = serves[s]
        <3>1. /\ made'[q] = made[q] + 1 /\ owner'[q] = NoSlot /\ hStage'[q] = "update"
              /\ job'[q] = (IF IsFinal(phase[s] = "aborting", made[q] + 1)
                            THEN "failed" ELSE "delayed")
              /\ final'[q] = IsFinal(phase[s] = "aborting", made[q] + 1)
            BY <1>19, <2>1, <2>3 DEF MoveToFailed
        <3>2. UNCHANGED <<http, runs, value>>
            BY <1>19 DEF MoveToFailed, rowVars
        <3>3. made'[q] <= MaxAttempts /\ (made'[q] = MaxAttempts => job'[q] = "failed")
            BY <2>2, <2>3, <3>1 DEF IsFinal
        <3>4. http[q] = "accepted" /\ value[q] <= runs[q]
            BY <2>2, <2>3
        <3>5. final'[q] => job'[q] = "failed"
            BY <3>1
        <3>6. job'[q] \in {"delayed", "failed"}
            BY <3>1
        <3> QED
            BY <3>1, <3>2, <3>3, <3>4, <3>5, <3>6
    <2>4. CASE q # serves[s]
        <3>1. owner[q] # s
            BY <2>4
        <3>2. owner'[q] = owner[q] /\ (owner[q] # NoSlot => serves'[owner[q]] = q)
            BY <1>19, <2>1, <2>4, <3>1 DEF MoveToFailed, Idle
        <3> QED
            BY <1>19, <2>1, <2>4, <3>2 DEF MoveToFailed, rowVars
    <2> QED
        BY <2>3, <2>4
<1>20. ASSUME NEW s \in Slots, DropResult(s)
      PROVE  ReqShape(q)'
    BY <1>20 DEF DropResult, Owns, Idle, given, rowVars, jobVars, slotVars, handlerVars
<1>21. ASSUME Crash
      PROVE  ReqShape(q)'
    BY <1>21 DEF Crash, rowVars
<1>22. ASSUME NEW r \in Reqs, LiveBegins(r)
      PROVE  ReqShape(q)'
    BY <1>22 DEF LiveBegins, BeginSession, given, rowVars, jobVars, slotVars,
       handlerVars
<1>23. ASSUME NEW r \in Reqs, TakeReply(r)
      PROVE  ReqShape(q)'
    BY <1>23 DEF TakeReply, given, rowVars, jobVars, slotVars,
       handlerVars
<1>24. ASSUME WaiterEnds
      PROVE  ReqShape(q)'
    BY <1>24 DEF WaiterEnds, given, rowVars, jobVars, slotVars,
       handlerVars
<1>25. CASE UNCHANGED vars
    BY <1>25 DEF vars, given, rowVars, jobVars, slotVars, handlerVars
<1> QED
    BY <1>1, <1>2, <1>3, <1>4, <1>5, <1>6, <1>7, <1>8, <1>9, <1>10, <1>11, <1>12, <1>13,
       <1>14, <1>15, <1>16, <1>17, <1>18, <1>19, <1>20, <1>21, <1>22, <1>23, <1>24,
       <1>25
       DEF Next, RequestStep, SlotStep

\* So do the slots.
LEMMA SlotShapeStep ==
    ASSUME Types, Shape, [Next]_vars, NEW t \in Slots
    PROVE  SlotShape(t)'
<1> USE UssdAssumption DEF Types, Shape, ReqShape, SlotShape
<1>1. ASSUME NEW r \in Reqs, CreateRequest(r)
      PROVE  SlotShape(t)'
    BY <1>1 DEF CreateRequest, given, rowVars, jobVars, slotVars, handlerVars
<1>2. ASSUME NEW r \in Reqs, LiveRequest(r)
      PROVE  SlotShape(t)'
    BY <1>2 DEF LiveRequest, given, rowVars, jobVars, slotVars, handlerVars
<1>3. ASSUME NEW r \in Reqs, AddJob(r)
      PROVE  SlotShape(t)'
    BY <1>3 DEF AddJob, given, rowVars, jobVars, slotVars, handlerVars
<1>4. ASSUME NEW r \in Reqs, RejectRequest(r)
      PROVE  SlotShape(t)'
    BY <1>4 DEF RejectRequest, RecordFailure, CompleteRequest, given, rowVars, jobVars,
       slotVars, handlerVars
<1>5. ASSUME NEW r \in Reqs, LiveEnds(r)
      PROVE  SlotShape(t)'
    BY <1>5 DEF LiveEnds, CompleteRequest, given, rowVars, jobVars, slotVars,
       handlerVars
<1>6. ASSUME NEW r \in Reqs, LiveThrows(r)
      PROVE  SlotShape(t)'
    BY <1>6 DEF LiveThrows, given, rowVars, jobVars, slotVars, handlerVars
<1>7. ASSUME NEW r \in Reqs, LiveCatch(r)
      PROVE  SlotShape(t)'
    BY <1>7 DEF LiveCatch, RecordFailure, CompleteRequest, given, rowVars, jobVars,
       slotVars, handlerVars
<1>8. ASSUME NEW r \in Reqs, HandleFailed(r)
      PROVE  SlotShape(t)'
    BY <1>8 DEF HandleFailed, RecordFailure, CompleteRequest, given, rowVars, jobVars,
       slotVars, handlerVars
<1>9. ASSUME NEW r \in Reqs, Promote(r)
      PROVE  SlotShape(t)'
    BY <1>9 DEF Promote, given, rowVars, slotVars, handlerVars
<1>10. ASSUME NEW r \in Reqs, LoseLock(r)
      PROVE  SlotShape(t)'
    BY <1>10 DEF LoseLock, given, rowVars, slotVars, handlerVars
<1>11. ASSUME NEW r \in Reqs, Stall(r)
      PROVE  SlotShape(t)'
    BY <1>11 DEF Stall, given, rowVars, slotVars, handlerVars
<1>12. ASSUME NEW s \in Slots, NEW r \in Reqs, TakeJob(s, r)
      PROVE  SlotShape(t)'
    BY <1>12 DEF TakeJob, given, rowVars, jobVars, slotVars, handlerVars
<1>13. ASSUME NEW s \in Slots, RunUssd(s)
      PROVE  SlotShape(t)'
    BY <1>13 DEF RunUssd, Goto, BeginSession, ModemFree, given, rowVars, jobVars,
       slotVars, handlerVars
<1>14. ASSUME NEW s \in Slots, SessionSilent(s)
      PROVE  SlotShape(t)'
    BY <1>14 DEF SessionSilent, Goto, given, rowVars, jobVars, slotVars, handlerVars
<1>15. ASSUME NEW s \in Slots, SessionReplied(s)
      PROVE  SlotShape(t)'
    BY <1>15 DEF SessionReplied, given, rowVars, jobVars, slotVars, handlerVars
<1>16. ASSUME NEW s \in Slots, StoreReply(s)
      PROVE  SlotShape(t)'
    BY <1>16 DEF StoreReply, Goto, CompleteRequest, given, rowVars, jobVars, slotVars,
       handlerVars
<1>17. ASSUME NEW s \in Slots, AddPoll(s)
      PROVE  SlotShape(t)'
    BY <1>17 DEF AddPoll, Goto, given, rowVars, jobVars, slotVars, handlerVars
<1>18. ASSUME NEW s \in Slots, Complete(s)
      PROVE  SlotShape(t)'
    BY <1>18 DEF Complete, Owns, Idle, given, rowVars, jobVars, slotVars, handlerVars
<1>19. ASSUME NEW s \in Slots, MoveToFailed(s)
      PROVE  SlotShape(t)'
    BY <1>19 DEF MoveToFailed, IsFinal, Owns, Idle, given, rowVars, jobVars, slotVars,
       handlerVars
<1>20. ASSUME NEW s \in Slots, DropResult(s)
      PROVE  SlotShape(t)'
    BY <1>20 DEF DropResult, Owns, Idle, given, rowVars, jobVars, slotVars, handlerVars
<1>21. ASSUME Crash
      PROVE  SlotShape(t)'
    BY <1>21 DEF Crash, rowVars
<1>22. ASSUME NEW r \in Reqs, LiveBegins(r)
      PROVE  SlotShape(t)'
    <2>1. serves[t] # r \/ phase[t] = "idle"
        BY <1>22 DEF LiveBegins
    <2>2. UNCHANGED <<job, phase, serves, got>>
        BY <1>22 DEF LiveBegins, jobVars, slotVars
    <2>3. \A p \in Reqs : p # r => runs'[p] = runs[p]
        BY <1>22 DEF LiveBegins, BeginSession
    <2>4. phase[t] # "idle" => serves[t] \in Reqs
        OBVIOUS
    <2> QED
        BY <2>1, <2>2, <2>3, <2>4
<1>23. ASSUME NEW r \in Reqs, TakeReply(r)
      PROVE  SlotShape(t)'
    BY <1>23 DEF TakeReply, given, rowVars, jobVars, slotVars,
       handlerVars
<1>24. ASSUME WaiterEnds
      PROVE  SlotShape(t)'
    BY <1>24 DEF WaiterEnds, given, rowVars, jobVars, slotVars,
       handlerVars
<1>25. CASE UNCHANGED vars
    BY <1>25 DEF vars, given, rowVars, jobVars, slotVars, handlerVars
<1> QED
    BY <1>1, <1>2, <1>3, <1>4, <1>5, <1>6, <1>7, <1>8, <1>9, <1>10, <1>11, <1>12, <1>13,
       <1>14, <1>15, <1>16, <1>17, <1>18, <1>19, <1>20, <1>21, <1>22, <1>23, <1>24,
       <1>25
       DEF Next, RequestStep, SlotStep

\* Sets of slots are finite.
LEMMA SlotsFinite ==
    ASSUME NEW S, S \subseteq Slots
    PROVE  IsFiniteSet(S) /\ Cardinality(S) \in Nat
BY UssdAssumption, FS_Subset, FS_CardinalityType

\* What leaves room in the budget.
Eases(q) ==
    /\ Waiting(q)' \subseteq Waiting(q) /\ runs'[q] = runs[q]
    /\ Spare(q)' <= Spare(q) /\ Allowed(q)' >= Allowed(q)

LEMMA FewerWaiting ==
    ASSUME NEW q, Waiting(q)' \subseteq Waiting(q)
    PROVE  Cardinality(Waiting(q)') <= Cardinality(Waiting(q))
<1>1. Waiting(q) \subseteq Slots
    BY DEF Waiting
<1> QED
    BY <1>1, SlotsFinite, FS_Subset

LEMMA Numbers ==
    ASSUME Types, NEW q \in Reqs
    PROVE  /\ runs[q] \in Nat /\ Spare(q) \in 0..1 /\ Allowed(q) \in Int
           /\ IsFiniteSet(Waiting(q)) /\ Cardinality(Waiting(q)) \in Nat
<1>1. Waiting(q) \subseteq Slots
    BY DEF Waiting
<1>2. made[q] \in Nat /\ stalls[q] \in Nat /\ MaxStalled \in Nat /\ MaxAttempts \in Nat
    BY UssdAssumption DEF Types
<1> QED
    BY <1>1, <1>2, SlotsFinite DEF Types, Spare, Allowed

LEMMA NextNumbers ==
    ASSUME Types', NEW q \in Reqs
    PROVE  /\ runs'[q] \in Nat /\ Spare(q)' \in 0..1 /\ Allowed(q)' \in Int
           /\ IsFiniteSet(Waiting(q)') /\ Cardinality(Waiting(q)') \in Nat
<1>1. Waiting(q)' \subseteq Slots
    BY DEF Waiting
<1>2. made'[q] \in Nat /\ stalls'[q] \in Nat /\ MaxStalled \in Nat /\ MaxAttempts \in Nat
    BY UssdAssumption DEF Types
<1> QED
    BY <1>1, <1>2, SlotsFinite DEF Types, Spare, Allowed

LEMMA EasedBudget ==
    ASSUME Types, Types', NEW q \in Reqs, Budget(q), Eases(q)
    PROVE  Budget(q)'
<1>1. Cardinality(Waiting(q)') <= Cardinality(Waiting(q))
    BY FewerWaiting DEF Eases
<1> QED
    BY <1>1, Numbers, NextNumbers DEF Budget, Eases

\* No step begins a session that was not allowed.
LEMMA BudgetStep ==
    ASSUME Types, Types', Shape, NEW q \in Reqs, Budget(q), [Next]_vars
    PROVE  Budget(q)'
<1> USE UssdAssumption DEF Types
<1>n. /\ runs[q] \in Nat /\ Spare(q) \in 0..1 /\ Allowed(q) \in Int
      /\ runs'[q] \in Nat /\ Spare(q)' \in 0..1 /\ Allowed(q)' \in Int
      /\ Cardinality(Waiting(q)) \in Nat /\ Cardinality(Waiting(q)') \in Nat
    BY Numbers, NextNumbers
<1>c. /\ made[q] \in Nat /\ stalls[q] \in Nat
      /\ MaxStalled \in Nat /\ MaxAttempts \in Nat \ {0}
    OBVIOUS
<1>f. IsFiniteSet(Waiting(q)) /\ IsFiniteSet(Waiting(q)')
    BY Numbers, NextNumbers
<1>1. ASSUME NEW r \in Reqs, CreateRequest(r)
      PROVE  Budget(q)'
    <2>1. Eases(q)
        BY <1>1 DEF CreateRequest, given, rowVars, jobVars, slotVars,
           handlerVars, Eases, Waiting, Spare, Allowed
    <2> QED
        BY <2>1, EasedBudget
<1>2. ASSUME NEW r \in Reqs, LiveRequest(r)
      PROVE  Budget(q)'
    <2>1. Eases(q)
        BY <1>2 DEF LiveRequest, given, rowVars, jobVars, slotVars,
           handlerVars, Eases, Waiting, Spare, Allowed
    <2> QED
        BY <2>1, EasedBudget
<1>3. ASSUME NEW r \in Reqs, AddJob(r)
      PROVE  Budget(q)'
    <2>1. Eases(q)
        BY <1>3 DEF AddJob, given, rowVars, jobVars, slotVars,
           handlerVars, Eases, Waiting, Spare, Allowed
    <2> QED
        BY <2>1, EasedBudget
<1>4. ASSUME NEW r \in Reqs, RejectRequest(r)
      PROVE  Budget(q)'
    <2>1. Eases(q)
        BY <1>4 DEF RejectRequest, RecordFailure, CompleteRequest,
           given, rowVars, jobVars, slotVars, handlerVars, Eases, Waiting, Spare,
           Allowed
    <2> QED
        BY <2>1, EasedBudget
<1>5. ASSUME NEW r \in Reqs, LiveEnds(r)
      PROVE  Budget(q)'
    <2>1. Eases(q)
        BY <1>5 DEF LiveEnds, CompleteRequest, given, rowVars,
           jobVars, slotVars, handlerVars, Eases, Waiting, Spare, Allowed
    <2> QED
        BY <2>1, EasedBudget
<1>6. ASSUME NEW r \in Reqs, LiveThrows(r)
      PROVE  Budget(q)'
    <2>1. Eases(q)
        BY <1>6 DEF LiveThrows, given, rowVars, jobVars, slotVars,
           handlerVars, Eases, Waiting, Spare, Allowed
    <2> QED
        BY <2>1, EasedBudget
<1>7. ASSUME NEW r \in Reqs, LiveCatch(r)
      PROVE  Budget(q)'
    <2>1. Eases(q)
        BY <1>7 DEF LiveCatch, RecordFailure, CompleteRequest, given,
           rowVars, jobVars, slotVars, handlerVars, Eases, Waiting, Spare, Allowed
    <2> QED
        BY <2>1, EasedBudget
<1>8. ASSUME NEW r \in Reqs, HandleFailed(r)
      PROVE  Budget(q)'
    <2>1. Eases(q)
        BY <1>8 DEF HandleFailed, RecordFailure, CompleteRequest,
           given, rowVars, jobVars, slotVars, handlerVars, Eases, Waiting, Spare,
           Allowed
    <2> QED
        BY <2>1, EasedBudget
<1>9. ASSUME NEW r \in Reqs, Promote(r)
      PROVE  Budget(q)'
    <2>1. Eases(q)
        BY <1>9 DEF Promote, given, rowVars, slotVars, handlerVars,
           Eases, Waiting, Spare, Allowed
    <2> QED
        BY <2>1, EasedBudget
<1>10. ASSUME NEW r \in Reqs, LoseLock(r)
      PROVE  Budget(q)'
    <2>1. Eases(q)
        BY <1>10 DEF LoseLock, given, rowVars, slotVars, handlerVars,
           Eases, Waiting, Spare, Allowed
    <2> QED
        BY <2>1, EasedBudget
<1>11. ASSUME NEW r \in Reqs, Stall(r)
      PROVE  Budget(q)'
    <2>1. Waiting(q)' = Waiting(q) /\ runs'[q] = runs[q]
        BY <1>11 DEF Stall, slotVars, Waiting
    <2>2. CASE q = r
        <3>1. /\ http'[q] = http[q] /\ made'[q] = made[q] /\ stalls'[q] = stalls[q] + 1
              /\ job[q] = "active" /\ http[q] = "accepted"
            BY <1>11, <2>2 DEF Stall, Shape, ReqShape
        <3>2. CASE stalls[q] < MaxStalled
            <4>1. Allowed(q)' = Allowed(q) + 1
                BY ONLY <1>c, <3>1, <3>2 DEF Allowed
            <4>2. Spare(q) = 0 /\ Spare(q)' \in 0..1
                BY <3>1 DEF Spare
            <4> QED
                BY <2>1, <4>1, <4>2, <1>n DEF Budget
        <3>3. CASE stalls[q] >= MaxStalled
            <4>1. Allowed(q)' = Allowed(q)
                BY ONLY <1>c, <3>1, <3>3 DEF Allowed
            <4>2. Spare(q) = 0 /\ Spare(q)' = 0
                BY <3>1, <3>3 DEF Spare
            <4> QED
                BY <2>1, <4>1, <4>2, <1>n DEF Budget
        <3> QED
            BY <3>2, <3>3
    <2>3. CASE q # r
        <3>1. Eases(q)
            BY <1>11, <2>1, <2>3 DEF Stall, Eases, Spare, Allowed
        <3> QED
            BY <3>1, EasedBudget
    <2> QED
        BY <2>2, <2>3
<1>12. ASSUME NEW s \in Slots, NEW r \in Reqs, TakeJob(s, r)
      PROVE  Budget(q)'
    <2>1. /\ runs' = runs /\ made' = made /\ stalls' = stalls /\ http' = http
          /\ serves[s] = NoReq
        BY <1>12 DEF TakeJob
    <2>2. CASE q = r /\ known /\ stalls[r] <= MaxStalled
        <3>1. Waiting(q)' = Waiting(q) \union {s} /\ s \notin Waiting(q)
            BY <1>12, <2>1, <2>2 DEF TakeJob, Waiting
        <3>2. Cardinality(Waiting(q)') = Cardinality(Waiting(q)) + 1
            BY <1>f, <3>1, FS_AddElement
        <3>3. Spare(q) = 1 /\ Spare(q)' = 0
            BY SMTT(20), <1>12, <2>1, <2>2 DEF TakeJob, Spare, Shape, ReqShape
        <3>4. Allowed(q)' = Allowed(q)
            BY <2>1 DEF Allowed
        <3> QED
            BY <2>1, <3>2, <3>3, <3>4, <1>n DEF Budget
    <2>3. CASE ~(q = r /\ known /\ stalls[r] <= MaxStalled)
        <3>1. Waiting(q)' \subseteq Waiting(q)
            BY <1>12, <2>1, <2>3 DEF TakeJob, Waiting
        <3>2. Spare(q)' <= Spare(q)
            BY <1>12, <2>1 DEF TakeJob, Spare
        <3>3. Allowed(q)' = Allowed(q)
            BY <2>1 DEF Allowed
        <3>4. Eases(q)
            BY ONLY <1>n, <2>1, <3>1, <3>2, <3>3 DEF Eases
        <3> QED
            BY <3>4, EasedBudget
    <2> QED
        BY <2>2, <2>3
<1>13. ASSUME NEW s \in Slots, RunUssd(s)
      PROVE  Budget(q)'
    <2>1. /\ made' = made /\ stalls' = stalls /\ http' = http /\ job' = job
          /\ serves' = serves /\ phase[s] = "waiting" /\ serves[s] \in Reqs
        BY <1>13 DEF RunUssd, Goto, jobVars
    <2>2. Spare(q)' = Spare(q) /\ Allowed(q)' = Allowed(q)
        BY <2>1 DEF Spare, Allowed
    <2>3. CASE q = serves[s]
        <3>1. Waiting(q)' = Waiting(q) \ {s} /\ s \in Waiting(q)
            BY <1>13, <2>1, <2>3 DEF RunUssd, Goto, Waiting
        <3>2. Cardinality(Waiting(q)') = Cardinality(Waiting(q)) - 1
            BY <1>f, <3>1, FS_RemoveElement
        <3>3. runs'[q] = runs[q] + 1
            BY <1>13, <2>1, <2>3 DEF RunUssd, BeginSession
        <3> QED
            BY <2>2, <3>2, <3>3, <1>n DEF Budget
    <2>4. CASE q # serves[s]
        <3>1. Waiting(q)' \subseteq Waiting(q)
            BY <1>13, <2>1 DEF RunUssd, Goto, Waiting
        <3>2. runs'[q] = runs[q]
            BY <1>13, <2>4 DEF RunUssd, BeginSession
        <3>3. Eases(q)
            BY ONLY <1>n, <2>2, <3>1, <3>2 DEF Eases
        <3> QED
            BY <3>3, EasedBudget
    <2> QED
        BY <2>3, <2>4
<1>14. ASSUME NEW s \in Slots, SessionSilent(s)
      PROVE  Budget(q)'
    <2>1. Eases(q)
        BY <1>14 DEF SessionSilent, Goto, given, rowVars, jobVars,
           slotVars, handlerVars, Eases, Waiting, Spare, Allowed
    <2> QED
        BY <2>1, EasedBudget
<1>15. ASSUME NEW s \in Slots, SessionReplied(s)
      PROVE  Budget(q)'
    <2>1. Eases(q)
        BY <1>15 DEF SessionReplied, given, rowVars, jobVars,
           slotVars, handlerVars, Eases, Waiting, Spare, Allowed
    <2> QED
        BY <2>1, EasedBudget
<1>16. ASSUME NEW s \in Slots, StoreReply(s)
      PROVE  Budget(q)'
    <2>1. Eases(q)
        BY <1>16 DEF StoreReply, Goto, CompleteRequest, given,
           rowVars, jobVars, slotVars, handlerVars, Eases, Waiting, Spare, Allowed
    <2> QED
        BY <2>1, EasedBudget
<1>17. ASSUME NEW s \in Slots, AddPoll(s)
      PROVE  Budget(q)'
    <2>1. Eases(q)
        BY <1>17 DEF AddPoll, Goto, given, rowVars, jobVars,
           slotVars, handlerVars, Eases, Waiting, Spare, Allowed
    <2> QED
        BY <2>1, EasedBudget
<1>18. ASSUME NEW s \in Slots, Complete(s)
      PROVE  Budget(q)'
    <2>1. Eases(q)
        BY <1>18 DEF Complete, Owns, Idle, given, rowVars, jobVars,
           slotVars, handlerVars, Eases, Waiting, Spare, Allowed
    <2> QED
        BY <2>1, EasedBudget
<1>19. ASSUME NEW s \in Slots, MoveToFailed(s)
      PROVE  Budget(q)'
    <2>1. /\ runs' = runs /\ stalls' = stalls /\ http' = http
          /\ serves[s] \in Reqs /\ phase[s] # "waiting"
        BY <1>19 DEF MoveToFailed
    <2>2. Waiting(q)' \subseteq Waiting(q)
        BY <1>19, <2>1 DEF MoveToFailed, Idle, Waiting
    <2>3. CASE q = serves[s]
        <3>1. /\ made'[q] = made[q] + 1 /\ job[q] = "active" /\ http[q] = "accepted"
              /\ job'[q] = (IF IsFinal(phase[s] = "aborting", made[q] + 1)
                            THEN "failed" ELSE "delayed")
            <4>1. owner[q] = s /\ s # NoSlot
                BY <1>19, <2>3 DEF MoveToFailed, Owns
            <4>2. job[q] = "active" /\ http[q] = "accepted"
                BY <4>1 DEF Shape, ReqShape
            <4>3. made'[q] = made[q] + 1
                BY <1>19, <2>3 DEF MoveToFailed
            <4> QED
                BY <1>19, <2>3, <4>2, <4>3 DEF MoveToFailed
        <3>2. Spare(q) = 0
            BY <3>1 DEF Spare
        <3>3. CASE made[q] + 1 < MaxAttempts
            <4>1. Allowed(q)' = Allowed(q) + 1
                BY ONLY <1>c, <2>1, <3>1, <3>3 DEF Allowed
            <4>2. Spare(q)' <= 1
                BY DEF Spare
            <4> QED
                BY SMTT(20), <2>1, <2>2, <3>2, <4>1, <4>2, <1>n, <1>f, FewerWaiting DEF Budget
        <3>4. CASE made[q] + 1 >= MaxAttempts
            <4>1. Allowed(q)' >= Allowed(q)
                BY ONLY <1>c, <2>1, <3>1, <3>4 DEF Allowed
            <4>2. Spare(q)' = 0
                BY <2>1, <3>1, <3>4 DEF Spare, IsFinal
            <4> QED
                BY <2>1, <2>2, <3>2, <4>1, <4>2, EasedBudget DEF Eases
        <3> QED
            BY <3>1, <3>3, <3>4
    <2>4. CASE q # serves[s]
        <3>1. Eases(q)
            BY <1>19, <2>1, <2>2, <2>4 DEF MoveToFailed, Eases, Spare, Allowed
        <3> QED
            BY <3>1, EasedBudget
    <2> QED
        BY <2>3, <2>4
<1>20. ASSUME NEW s \in Slots, DropResult(s)
      PROVE  Budget(q)'
    <2>1. Eases(q)
        BY <1>20 DEF DropResult, Owns, Idle, given, rowVars, jobVars,
           slotVars, handlerVars, Eases, Waiting, Spare, Allowed
    <2> QED
        BY <2>1, EasedBudget
<1>21. ASSUME Crash
      PROVE  Budget(q)'
    <2>1. Eases(q)
        BY <1>21 DEF Crash, rowVars, Eases, Waiting, Spare, Allowed
    <2> QED
        BY <2>1, EasedBudget
<1>22. ASSUME NEW r \in Reqs, LiveBegins(r)
      PROVE  Budget(q)'
    <2>1. Waiting(q)' = Waiting(q) /\ Allowed(q)' = Allowed(q)
        BY <1>22 DEF LiveBegins, jobVars, slotVars, Waiting, Allowed
    <2>2. \/ runs'[q] = runs[q] /\ Spare(q)' <= Spare(q)
          \/ runs'[q] = runs[q] + 1 /\ Spare(q)' = 0 /\ Spare(q) = 1
        <3>1. CASE q = r
            BY <1>22, <3>1 DEF LiveBegins, BeginSession, jobVars, Spare, Shape, ReqShape
        <3>2. CASE q # r
            BY <1>22, <3>2 DEF LiveBegins, BeginSession, jobVars, Spare
        <3> QED
            BY <3>1, <3>2
    <2> QED
        BY <2>1, <2>2, <1>n DEF Budget
<1>23. ASSUME NEW r \in Reqs, TakeReply(r)
      PROVE  Budget(q)'
    <2>1. Eases(q)
        BY <1>23 DEF TakeReply, given, rowVars, jobVars, slotVars,
           handlerVars, Eases, Waiting, Spare, Allowed
    <2> QED
        BY <2>1, EasedBudget
<1>24. ASSUME WaiterEnds
      PROVE  Budget(q)'
    <2>1. Eases(q)
        BY <1>24 DEF WaiterEnds, given, rowVars, jobVars, slotVars,
           handlerVars, Eases, Waiting, Spare, Allowed
    <2> QED
        BY <2>1, EasedBudget
<1>25. CASE UNCHANGED vars
    <2>1. Eases(q)
        BY <1>25 DEF vars, given, rowVars, jobVars, slotVars, handlerVars, Eases,
           Waiting, Spare, Allowed
    <2> QED
        BY <2>1, EasedBudget
<1> QED
    BY <1>1, <1>2, <1>3, <1>4, <1>5, <1>6, <1>7, <1>8, <1>9, <1>10, <1>11, <1>12, <1>13,
       <1>14, <1>15, <1>16, <1>17, <1>18, <1>19, <1>20, <1>21, <1>22, <1>23, <1>24,
       <1>25
       DEF Next, RequestStep, SlotStep

LEMMA MoreTimes == \A a, b, c \in Nat : b <= c => a * b <= a * c
<1> TAKE a, b, c \in Nat
<1> HAVE b <= c
<1>1. PICK d \in Nat : c = b + d
    <2>1. c - b \in Nat /\ c = b + (c - b)
        OBVIOUS
    <2> QED
        BY <2>1
<1>2. a * c = a * b + a * d /\ a * d \in Nat /\ a * b \in Nat
    BY <1>1
<1> QED
    BY <1>2

\* What leaves room in the quota.
Lowers(q) ==
    ToCome(q)' \subseteq ToCome(q) /\ polls'[q] = polls[q] /\ runs'[q] >= runs[q]

LEMMA ToComeFinite ==
    ASSUME NEW S, S \subseteq Slots \X (1..Polls)
    PROVE  IsFiniteSet(S) /\ Cardinality(S) \in Nat
<1>1. IsFiniteSet(Slots \X (1..Polls))
    <2>1. IsFiniteSet(1..Polls) /\ IsFiniteSet(Slots)
        BY UssdAssumption, FS_Interval
    <2> QED
        BY <2>1, FS_Product, Zenon
<1> QED
    BY <1>1, FS_Subset, FS_CardinalityType

LEMMA LoweredQuota ==
    ASSUME Types, Types', NEW q \in Reqs, Quota(q), Lowers(q)
    PROVE  Quota(q)'
<1>1. ToCome(q) \subseteq Slots \X (1..Polls) /\ ToCome(q)' \subseteq Slots \X (1..Polls)
    BY DEF ToCome
<1>2. Cardinality(ToCome(q)') <= Cardinality(ToCome(q))
    BY <1>1, ToComeFinite, FS_Subset DEF Lowers
<1>3. Cardinality(ToCome(q)') \in Nat /\ Cardinality(ToCome(q)) \in Nat
    BY <1>1, ToComeFinite
<1>4. polls[q] \in Nat /\ runs[q] \in Nat /\ runs'[q] \in Nat /\ Polls \in Nat
    BY UssdAssumption DEF Types
<1>5. Polls * runs[q] <= Polls * runs'[q]
    BY <1>4, MoreTimes DEF Lowers
<1>6. Polls * runs[q] \in Nat /\ Polls * runs'[q] \in Nat
    BY <1>4
<1> QED
    BY ONLY <1>2, <1>3, <1>4, <1>5, <1>6, Quota(q), Lowers(q) DEF Quota, Lowers

\* A look that is added was still to come.
LEMMA QuotaStep ==
    ASSUME Types, Types', NEW q \in Reqs, Quota(q), [Next]_vars
    PROVE  Quota(q)'
<1> USE UssdAssumption DEF Types
<1>n. /\ polls[q] \in Nat /\ runs[q] \in Nat /\ polls'[q] \in Nat /\ runs'[q] \in Nat
      /\ Cardinality(ToCome(q)) \in Nat /\ Cardinality(ToCome(q)') \in Nat /\ Polls \in Nat
    BY ToComeFinite DEF ToCome
<1>f. IsFiniteSet(ToCome(q)) /\ IsFiniteSet(ToCome(q)')
    BY ToComeFinite DEF ToCome
<1>q. Quota(q)
    OBVIOUS
<1>1. ASSUME NEW r \in Reqs, CreateRequest(r)
      PROVE  Quota(q)'
    <2>1. Lowers(q)
        BY <1>1 DEF CreateRequest, given, rowVars, jobVars,
           slotVars, handlerVars, Lowers, ToCome, StillPolls
    <2> QED
        BY <2>1, LoweredQuota
<1>2. ASSUME NEW r \in Reqs, LiveRequest(r)
      PROVE  Quota(q)'
    <2>1. Lowers(q)
        BY <1>2 DEF LiveRequest, given,
           rowVars, jobVars, slotVars, handlerVars, Lowers, ToCome, StillPolls
    <2> QED
        BY <2>1, LoweredQuota
<1>3. ASSUME NEW r \in Reqs, AddJob(r)
      PROVE  Quota(q)'
    <2>1. Lowers(q)
        BY <1>3 DEF AddJob, given, rowVars, jobVars, slotVars,
           handlerVars, Lowers, ToCome, StillPolls
    <2> QED
        BY <2>1, LoweredQuota
<1>4. ASSUME NEW r \in Reqs, RejectRequest(r)
      PROVE  Quota(q)'
    <2>1. Lowers(q)
        BY <1>4 DEF RejectRequest, RecordFailure, CompleteRequest,
           given, rowVars, jobVars, slotVars, handlerVars, Lowers, ToCome, StillPolls
    <2> QED
        BY <2>1, LoweredQuota
<1>5. ASSUME NEW r \in Reqs, LiveEnds(r)
      PROVE  Quota(q)'
    <2>1. Lowers(q)
        BY <1>5 DEF LiveEnds, CompleteRequest, given, rowVars,
           jobVars, slotVars, handlerVars, Lowers, ToCome, StillPolls
    <2> QED
        BY <2>1, LoweredQuota
<1>6. ASSUME NEW r \in Reqs, LiveThrows(r)
      PROVE  Quota(q)'
    <2>1. Lowers(q)
        BY <1>6 DEF LiveThrows, given, rowVars, jobVars, slotVars,
           handlerVars, Lowers, ToCome, StillPolls
    <2> QED
        BY <2>1, LoweredQuota
<1>7. ASSUME NEW r \in Reqs, LiveCatch(r)
      PROVE  Quota(q)'
    <2>1. Lowers(q)
        BY <1>7 DEF LiveCatch, RecordFailure, CompleteRequest,
           given, rowVars, jobVars, slotVars, handlerVars, Lowers, ToCome, StillPolls
    <2> QED
        BY <2>1, LoweredQuota
<1>8. ASSUME NEW r \in Reqs, HandleFailed(r)
      PROVE  Quota(q)'
    <2>1. Lowers(q)
        BY <1>8 DEF HandleFailed, RecordFailure, CompleteRequest,
           given, rowVars, jobVars, slotVars, handlerVars, Lowers, ToCome, StillPolls
    <2> QED
        BY <2>1, LoweredQuota
<1>9. ASSUME NEW r \in Reqs, Promote(r)
      PROVE  Quota(q)'
    <2>1. Lowers(q)
        BY <1>9 DEF Promote, given, rowVars, slotVars, handlerVars,
           Lowers, ToCome, StillPolls
    <2> QED
        BY <2>1, LoweredQuota
<1>10. ASSUME NEW r \in Reqs, LoseLock(r)
      PROVE  Quota(q)'
    <2>1. Lowers(q)
        BY <1>10 DEF LoseLock, given, rowVars, slotVars,
           handlerVars, Lowers, ToCome, StillPolls
    <2> QED
        BY <2>1, LoweredQuota
<1>11. ASSUME NEW r \in Reqs, Stall(r)
      PROVE  Quota(q)'
    <2>1. Lowers(q)
        BY <1>11 DEF Stall, given, rowVars, slotVars, handlerVars,
           Lowers, ToCome, StillPolls
    <2> QED
        BY <2>1, LoweredQuota
<1>12. ASSUME NEW s \in Slots, NEW r \in Reqs, TakeJob(s, r)
      PROVE  Quota(q)'
    <2>1. Lowers(q)
        BY <1>12 DEF TakeJob, given, rowVars, jobVars, slotVars,
           handlerVars, Lowers, ToCome, StillPolls
    <2> QED
        BY <2>1, LoweredQuota
<1>13. ASSUME NEW s \in Slots, RunUssd(s)
      PROVE  Quota(q)'
    <2>1. /\ phase[s] = "waiting" /\ serves[s] \in Reqs /\ phase' = [phase EXCEPT ![s] = "session"]
          /\ runs' = [runs EXCEPT ![serves[s]] = @ + 1]
          /\ UNCHANGED <<polls, serves, added>>
        BY <1>13 DEF RunUssd, Goto, BeginSession
    <2>2. CASE q = serves[s]
        <3> DEFINE new == {s} \X (1..Polls)
        <3>1. ToCome(q)' \subseteq ToCome(q) \union new
            BY <2>1 DEF ToCome, StillPolls
        <3>2. IsFiniteSet(new) /\ Cardinality(new) = Polls
            <4>1. IsFiniteSet(1..Polls) /\ Cardinality(1..Polls) = Polls
                BY SMTT(20), FS_Interval
            <4>2. IsFiniteSet({s}) /\ Cardinality({s}) = 1
                BY FS_Singleton
            <4>3. IsFiniteSet(new) /\ Cardinality(new) = Cardinality({s}) * Cardinality(1..Polls)
                BY <4>1, <4>2, FS_Product, ZenonT(30)
            <4> QED
                BY <4>1, <4>2, <4>3
        <3> HIDE DEF new
        <3>3. /\ IsFiniteSet(ToCome(q) \union new)
              /\ Cardinality(ToCome(q) \union new)
                    = Cardinality(ToCome(q)) + Cardinality(new) - Cardinality(ToCome(q) \cap new)
            BY <1>f, <3>2, FS_Union
        <3>4. Cardinality(ToCome(q) \cap new) \in Nat
            BY <1>f, FS_Intersection, FS_CardinalityType
        <3>5. Cardinality(ToCome(q)') <= Cardinality(ToCome(q) \union new)
            BY <3>1, <3>3, FS_Subset
        <3>6. Cardinality(ToCome(q)') <= Cardinality(ToCome(q)) + Polls
            BY ONLY <1>n, <3>2, <3>3, <3>4, <3>5
        <3>7. runs'[q] = runs[q] + 1 /\ polls'[q] = polls[q]
            BY <2>1, <2>2
        <3>8. Polls * (runs[q] + 1) = Polls * runs[q] + Polls
            BY <1>n
        <3> QED
            BY ONLY <1>n, <1>q, <3>6, <3>7, <3>8 DEF Quota
    <2>3. CASE q # serves[s]
        <3>1. ToCome(q)' \subseteq ToCome(q)
            BY <2>1, <2>3 DEF ToCome, StillPolls
        <3>2. runs'[q] = runs[q] /\ polls'[q] = polls[q]
            BY <2>1, <2>3
        <3>3. Lowers(q)
            BY ONLY <1>n, <3>1, <3>2 DEF Lowers
        <3> QED
            BY <3>3, LoweredQuota
    <2> QED
        BY <2>2, <2>3
<1>14. ASSUME NEW s \in Slots, SessionSilent(s)
      PROVE  Quota(q)'
    <2>1. Lowers(q)
        BY <1>14 DEF SessionSilent, Goto, given, rowVars, jobVars,
           slotVars, handlerVars, Lowers, ToCome, StillPolls
    <2> QED
        BY <2>1, LoweredQuota
<1>15. ASSUME NEW s \in Slots, SessionReplied(s)
      PROVE  Quota(q)'
    <2>1. Lowers(q)
        BY <1>15 DEF SessionReplied, given, rowVars, jobVars,
           slotVars, handlerVars, Lowers, ToCome, StillPolls
    <2> QED
        BY <2>1, LoweredQuota
<1>16. ASSUME NEW s \in Slots, StoreReply(s)
      PROVE  Quota(q)'
    <2>1. Lowers(q)
        BY <1>16 DEF StoreReply, Goto, CompleteRequest, given,
           rowVars, jobVars, slotVars, handlerVars, Lowers, ToCome, StillPolls
    <2> QED
        BY <2>1, LoweredQuota
<1>17. ASSUME NEW s \in Slots, AddPoll(s)
      PROVE  Quota(q)'
    <2>1. phase[s] = "polling" /\ serves[s] \in Reqs /\ serves' = serves /\ runs' = runs
        BY <1>17 DEF AddPoll, Goto
    <2>2. CASE phase' = [phase EXCEPT ![s] = "returning"] /\ added' = added /\ polls' = polls
        <3>1. Lowers(q)
            BY <2>1, <2>2 DEF Lowers, ToCome, StillPolls
        <3> QED
            BY <3>1, LoweredQuota
    <2>3. CASE /\ added' = [added EXCEPT ![s] = @ + 1]
               /\ polls' = [polls EXCEPT ![serves[s]] = @ + 1]
               /\ phase' = [phase EXCEPT ![s] = IF added[s] + 1 < Polls THEN @ ELSE "returning"]
        <3>1. added[s] \in Nat /\ added[s] < Polls
            BY <2>1
        <3>2. added'[s] = added[s] + 1 /\ phase'[s] \in {"polling", "returning"}
            BY <2>1, <2>3
        <3>3. \A t \in Slots : t # s => added'[t] = added[t] /\ phase'[t] = phase[t]
            BY <2>3
        <3>4. \A t \in Slots, k \in 1..Polls :
                  StillPolls(t, k)' => StillPolls(t, k) /\ <<t, k>> # <<s, added[s] + 1>>
            <4> TAKE t \in Slots, k \in 1..Polls
            <4>1. CASE t = s
                BY <2>1, <3>1, <3>2, <4>1 DEF StillPolls
            <4>2. CASE t # s
                BY <3>3, <4>2 DEF StillPolls
            <4> QED
                BY <4>1, <4>2
        <3>5. CASE q = serves[s]
            <4> DEFINE pair == <<s, added[s] + 1>>
            <4>1. ToCome(q)' \subseteq ToCome(q) \ {pair}
                BY <2>1, <3>4 DEF ToCome
            <4>2. pair \in ToCome(q)
                BY <2>1, <3>1, <3>5 DEF ToCome, StillPolls
            <4> HIDE DEF pair
            <4>3. /\ IsFiniteSet(ToCome(q) \ {pair})
                  /\ Cardinality(ToCome(q) \ {pair}) = Cardinality(ToCome(q)) - 1
                BY <1>f, <4>2, FS_RemoveElement
            <4>4. Cardinality(ToCome(q)') <= Cardinality(ToCome(q)) - 1
                BY <4>1, <4>3, FS_Subset
            <4>5. polls'[q] = polls[q] + 1 /\ runs'[q] = runs[q]
                BY <2>1, <2>3, <3>5
            <4> QED
                BY ONLY <1>n, <1>q, <4>4, <4>5 DEF Quota
        <3>6. CASE q # serves[s]
            <4>1. ToCome(q)' \subseteq ToCome(q)
                BY <2>1, <3>4 DEF ToCome
            <4>2. polls'[q] = polls[q] /\ runs'[q] = runs[q]
                BY <2>1, <2>3, <3>6
            <4>3. Lowers(q)
                BY ONLY <1>n, <4>1, <4>2 DEF Lowers
            <4> QED
                BY <4>3, LoweredQuota
        <3> QED
            BY <3>5, <3>6
    <2> QED
        BY <1>17, <2>2, <2>3 DEF AddPoll, Goto
<1>18. ASSUME NEW s \in Slots, Complete(s)
      PROVE  Quota(q)'
    <2>1. Lowers(q)
        BY <1>18 DEF Complete, Owns, Idle, given, rowVars, jobVars,
           slotVars, handlerVars, Lowers, ToCome, StillPolls
    <2> QED
        BY <2>1, LoweredQuota
<1>19. ASSUME NEW s \in Slots, MoveToFailed(s)
      PROVE  Quota(q)'
    <2>1. Lowers(q)
        BY <1>19 DEF MoveToFailed, IsFinal, Owns, Idle, given,
           rowVars, jobVars, slotVars, handlerVars, Lowers, ToCome, StillPolls
    <2> QED
        BY <2>1, LoweredQuota
<1>20. ASSUME NEW s \in Slots, DropResult(s)
      PROVE  Quota(q)'
    <2>1. Lowers(q)
        BY <1>20 DEF DropResult, Owns, Idle, given, rowVars,
           jobVars, slotVars, handlerVars, Lowers, ToCome, StillPolls
    <2> QED
        BY <2>1, LoweredQuota
<1>21. ASSUME Crash
      PROVE  Quota(q)'
    <2>1. Lowers(q)
        BY <1>21 DEF Crash, rowVars, Lowers, ToCome, StillPolls
    <2> QED
        BY <2>1, LoweredQuota
<1>22. ASSUME NEW r \in Reqs, LiveBegins(r)
      PROVE  Quota(q)'
    <2>1. Lowers(q)
        BY <1>22 DEF LiveBegins, BeginSession, given, rowVars, jobVars, slotVars,
           handlerVars, Lowers, ToCome, StillPolls
    <2> QED
        BY <2>1, LoweredQuota
<1>23. ASSUME NEW r \in Reqs, TakeReply(r)
      PROVE  Quota(q)'
    <2>1. Lowers(q)
        BY <1>23 DEF TakeReply, given, rowVars, jobVars, slotVars,
           handlerVars, Lowers, ToCome, StillPolls
    <2> QED
        BY <2>1, LoweredQuota
<1>24. ASSUME WaiterEnds
      PROVE  Quota(q)'
    <2>1. Lowers(q)
        BY <1>24 DEF WaiterEnds, given, rowVars, jobVars, slotVars,
           handlerVars, Lowers, ToCome, StillPolls
    <2> QED
        BY <2>1, LoweredQuota
<1>25. CASE UNCHANGED vars
    <2>1. Lowers(q)
        BY <1>25 DEF vars, given, rowVars, jobVars, slotVars,
           handlerVars, Lowers, ToCome, StillPolls
    <2> QED
        BY <2>1, LoweredQuota
<1> QED
    BY <1>1, <1>2, <1>3, <1>4, <1>5, <1>6, <1>7, <1>8, <1>9, <1>10, <1>11, <1>12, <1>13,
       <1>14, <1>15, <1>16, <1>17, <1>18, <1>19, <1>20, <1>21, <1>22, <1>23, <1>24,
       <1>25
       DEF Next, RequestStep, SlotStep

\* Faults are never forgotten.
LEMMA FaultsKept ==
    ASSUME faults \in Seq(FaultKinds), [Next]_vars
    PROVE  faults' \in Seq(FaultKinds) /\ \A kinds : Happened(kinds) => Happened(kinds)'
<1> DEFINE Kept == faults' \in Seq(FaultKinds) /\ \A kinds : Happened(kinds) => Happened(kinds)'
<1>a. faults' = faults \/ (\E k : Fault(k)) => Kept
    <2>1. CASE faults' = faults
        BY <2>1 DEF Happened
    <2>2. ASSUME NEW k, Fault(k) PROVE Kept
        BY <2>2, FaultSeen
    <2> QED
        BY <2>1, <2>2
<1> HIDE DEF Kept
<1> SUFFICES Kept
    BY DEF Kept
<1>1. ASSUME NEW r \in Reqs, CreateRequest(r)
      PROVE  Kept
    <2>1. faults' = faults \/ Fault("db")
        BY <1>1 DEF CreateRequest, NoFault
    <2> QED
        BY <2>1, <1>a
<1>2. ASSUME NEW r \in Reqs, LiveRequest(r)
      PROVE  Kept
    <2>1. faults' = faults \/ Fault("db")
        BY <1>2 DEF LiveRequest, NoFault
    <2> QED
        BY <2>1, <1>a
<1>3. ASSUME NEW r \in Reqs, AddJob(r)
      PROVE  Kept
    <2>1. faults' = faults \/ Fault("redis")
        BY <1>3 DEF AddJob, NoFault
    <2> QED
        BY <2>1, <1>a
<1>4. ASSUME NEW r \in Reqs, RejectRequest(r)
      PROVE  Kept
    <2>1. faults' = faults \/ Fault("db")
        BY <1>4 DEF RejectRequest,
           RecordFailure, NoFault
    <2> QED
        BY <2>1, <1>a
<1>5. ASSUME NEW r \in Reqs, LiveEnds(r)
      PROVE  Kept
    <2>1. faults' = faults \/ Fault("db")
        BY <1>5 DEF LiveEnds, NoFault
    <2> QED
        BY <2>1, <1>a
<1>6. ASSUME NEW r \in Reqs, LiveThrows(r)
      PROVE  Kept
    <2>1. faults' = faults
        BY <1>6 DEF LiveThrows
    <2> QED
        BY <2>1, <1>a
<1>7. ASSUME NEW r \in Reqs, LiveCatch(r)
      PROVE  Kept
    <2>1. faults' = faults \/ Fault("db")
        BY <1>7 DEF LiveCatch, RecordFailure,
           NoFault
    <2> QED
        BY <2>1, <1>a
<1>8. ASSUME NEW r \in Reqs, HandleFailed(r)
      PROVE  Kept
    <2>1. faults' = faults \/ Fault("db")
        BY <1>8 DEF HandleFailed,
           RecordFailure, NoFault
    <2> QED
        BY <2>1, <1>a
<1>9. ASSUME NEW r \in Reqs, Promote(r)
      PROVE  Kept
    <2>1. faults' = faults
        BY <1>9 DEF Promote
    <2> QED
        BY <2>1, <1>a
<1>10. ASSUME NEW r \in Reqs, LoseLock(r)
      PROVE  Kept
    <2>1. faults' = faults \/ Fault("lock")
        BY <1>10 DEF LoseLock
    <2> QED
        BY <2>1, <1>a
<1>11. ASSUME NEW r \in Reqs, Stall(r)
      PROVE  Kept
    <2>1. faults' = faults
        BY <1>11 DEF Stall
    <2> QED
        BY <2>1, <1>a
<1>12. ASSUME NEW s \in Slots, NEW r \in Reqs, TakeJob(s, r)
      PROVE  Kept
    <2>1. faults' = faults
        BY <1>12 DEF TakeJob
    <2> QED
        BY <2>1, <1>a
<1>13. ASSUME NEW s \in Slots, RunUssd(s)
      PROVE  Kept
    <2>1. faults' = faults
        BY <1>13 DEF RunUssd
    <2> QED
        BY <2>1, <1>a
<1>14. ASSUME NEW s \in Slots, SessionSilent(s)
      PROVE  Kept
    <2>1. faults' = faults
        BY <1>14 DEF SessionSilent
    <2> QED
        BY <2>1, <1>a
<1>15. ASSUME NEW s \in Slots, SessionReplied(s)
      PROVE  Kept
    <2>1. faults' = faults
        BY <1>15 DEF SessionReplied
    <2> QED
        BY <2>1, <1>a
<1>16. ASSUME NEW s \in Slots, StoreReply(s)
      PROVE  Kept
    <2>1. faults' = faults \/ Fault("db")
        BY <1>16 DEF StoreReply, NoFault
    <2> QED
        BY <2>1, <1>a
<1>17. ASSUME NEW s \in Slots, AddPoll(s)
      PROVE  Kept
    <2>1. faults' = faults \/ Fault("redis")
        BY <1>17 DEF AddPoll, NoFault
    <2> QED
        BY <2>1, <1>a
<1>18. ASSUME NEW s \in Slots, Complete(s)
      PROVE  Kept
    <2>1. faults' = faults
        BY <1>18 DEF Complete
    <2> QED
        BY <2>1, <1>a
<1>19. ASSUME NEW s \in Slots, MoveToFailed(s)
      PROVE  Kept
    <2>1. faults' = faults
        BY <1>19 DEF MoveToFailed
    <2> QED
        BY <2>1, <1>a
<1>20. ASSUME NEW s \in Slots, DropResult(s)
      PROVE  Kept
    <2>1. faults' = faults
        BY <1>20 DEF DropResult
    <2> QED
        BY <2>1, <1>a
<1>21. ASSUME Crash
      PROVE  Kept
    <2>1. faults' = faults \/ Fault("crash")
        BY <1>21 DEF Crash
    <2> QED
        BY <2>1, <1>a
<1>22. ASSUME NEW r \in Reqs, LiveBegins(r)
      PROVE  Kept
    <2>1. faults' = faults
        BY <1>22 DEF LiveBegins
    <2> QED
        BY <2>1, <1>a
<1>23. ASSUME NEW r \in Reqs, TakeReply(r)
      PROVE  Kept
    <2>1. faults' = faults
        BY <1>23 DEF TakeReply
    <2> QED
        BY <2>1, <1>a
<1>24. ASSUME WaiterEnds
      PROVE  Kept
    <2>1. faults' = faults
        BY <1>24 DEF WaiterEnds
    <2> QED
        BY <2>1, <1>a
<1>25. CASE UNCHANGED vars
    BY <1>25, <1>a DEF vars
<1> QED
    BY <1>1, <1>2, <1>3, <1>4, <1>5, <1>6, <1>7, <1>8, <1>9, <1>10, <1>11, <1>12, <1>13,
       <1>14, <1>15, <1>16, <1>17, <1>18, <1>19, <1>20, <1>21, <1>22, <1>23, <1>24,
       <1>25
       DEF Next, RequestStep, SlotStep

\* Without a stall no second slot works for a request.
LEMMA SoleStep ==
    ASSUME Types, Shape, NEW q \in Reqs, stalls[q] = 0, stalls'[q] = 0, [Next]_vars,
           Sole(q)
    PROVE  Sole(q)'
<1> USE UssdAssumption DEF Types, Shape, ReqShape, SlotShape, Sole
<1>1. ASSUME NEW r \in Reqs, CreateRequest(r)
      PROVE  Sole(q)'
    BY <1>1 DEF CreateRequest, given, rowVars, jobVars, slotVars, handlerVars
<1>2. ASSUME NEW r \in Reqs, LiveRequest(r)
      PROVE  Sole(q)'
    BY <1>2 DEF LiveRequest, given, rowVars, jobVars, slotVars,
       handlerVars
<1>3. ASSUME NEW r \in Reqs, AddJob(r)
      PROVE  Sole(q)'
    BY <1>3 DEF AddJob, given, rowVars, jobVars, slotVars, handlerVars
<1>4. ASSUME NEW r \in Reqs, RejectRequest(r)
      PROVE  Sole(q)'
    BY <1>4 DEF RejectRequest, RecordFailure, CompleteRequest, given, rowVars, jobVars,
       slotVars, handlerVars
<1>5. ASSUME NEW r \in Reqs, LiveEnds(r)
      PROVE  Sole(q)'
    BY <1>5 DEF LiveEnds, CompleteRequest, given, rowVars, jobVars, slotVars,
       handlerVars
<1>6. ASSUME NEW r \in Reqs, LiveThrows(r)
      PROVE  Sole(q)'
    BY <1>6 DEF LiveThrows, given, rowVars, jobVars, slotVars, handlerVars
<1>7. ASSUME NEW r \in Reqs, LiveCatch(r)
      PROVE  Sole(q)'
    BY <1>7 DEF LiveCatch, RecordFailure, CompleteRequest, given, rowVars, jobVars,
       slotVars, handlerVars
<1>8. ASSUME NEW r \in Reqs, HandleFailed(r)
      PROVE  Sole(q)'
    BY <1>8 DEF HandleFailed, RecordFailure, CompleteRequest, given, rowVars, jobVars,
       slotVars, handlerVars
<1>9. ASSUME NEW r \in Reqs, Promote(r)
      PROVE  Sole(q)'
    BY <1>9 DEF Promote, given, rowVars, slotVars, handlerVars
<1>10. ASSUME NEW r \in Reqs, LoseLock(r)
      PROVE  Sole(q)'
    BY <1>10 DEF LoseLock, given, rowVars, slotVars, handlerVars
<1>11. ASSUME NEW r \in Reqs, Stall(r)
      PROVE  Sole(q)'
    BY <1>11 DEF Stall, given, rowVars, slotVars, handlerVars
<1>12. ASSUME NEW s \in Slots, NEW r \in Reqs, TakeJob(s, r)
      PROVE  Sole(q)'
    BY <1>12 DEF TakeJob, given, rowVars, jobVars, slotVars, handlerVars
<1>13. ASSUME NEW s \in Slots, RunUssd(s)
      PROVE  Sole(q)'
    BY <1>13 DEF RunUssd, Goto, BeginSession, ModemFree, given, rowVars, jobVars,
       slotVars, handlerVars
<1>14. ASSUME NEW s \in Slots, SessionSilent(s)
      PROVE  Sole(q)'
    BY <1>14 DEF SessionSilent, Goto, given, rowVars, jobVars, slotVars, handlerVars
<1>15. ASSUME NEW s \in Slots, SessionReplied(s)
      PROVE  Sole(q)'
    BY <1>15 DEF SessionReplied, given, rowVars, jobVars, slotVars, handlerVars
<1>16. ASSUME NEW s \in Slots, StoreReply(s)
      PROVE  Sole(q)'
    BY <1>16 DEF StoreReply, Goto, CompleteRequest, given, rowVars, jobVars, slotVars,
       handlerVars
<1>17. ASSUME NEW s \in Slots, AddPoll(s)
      PROVE  Sole(q)'
    BY <1>17 DEF AddPoll, Goto, given, rowVars, jobVars, slotVars, handlerVars
<1>18. ASSUME NEW s \in Slots, Complete(s)
      PROVE  Sole(q)'
    BY <1>18 DEF Complete, Owns, Idle, given, rowVars, jobVars, slotVars, handlerVars
<1>19. ASSUME NEW s \in Slots, MoveToFailed(s)
      PROVE  Sole(q)'
    BY <1>19 DEF MoveToFailed, IsFinal, Owns, Idle, given, rowVars, jobVars, slotVars,
       handlerVars
<1>20. ASSUME NEW s \in Slots, DropResult(s)
      PROVE  Sole(q)'
    BY <1>20 DEF DropResult, Owns, Idle, given, rowVars, jobVars, slotVars, handlerVars
<1>21. ASSUME Crash
      PROVE  Sole(q)'
    BY <1>21 DEF Crash, rowVars
<1>22. ASSUME NEW r \in Reqs, LiveBegins(r)
      PROVE  Sole(q)'
    BY <1>22 DEF LiveBegins, BeginSession, given, rowVars, jobVars, slotVars,
       handlerVars
<1>23. ASSUME NEW r \in Reqs, TakeReply(r)
      PROVE  Sole(q)'
    BY <1>23 DEF TakeReply, given, rowVars, jobVars, slotVars,
       handlerVars
<1>24. ASSUME WaiterEnds
      PROVE  Sole(q)'
    BY <1>24 DEF WaiterEnds, given, rowVars, jobVars, slotVars,
       handlerVars
<1>25. CASE UNCHANGED vars
    BY <1>25 DEF vars, given, rowVars, jobVars, slotVars, handlerVars
<1> QED
    BY <1>1, <1>2, <1>3, <1>4, <1>5, <1>6, <1>7, <1>8, <1>9, <1>10, <1>11, <1>12, <1>13,
       <1>14, <1>15, <1>16, <1>17, <1>18, <1>19, <1>20, <1>21, <1>22, <1>23, <1>24,
       <1>25
       DEF Next, RequestStep, SlotStep

\* Nobody is left who would settle a settled row again.
LEMMA AtRestStep ==
    ASSUME Types, Shape, NEW q \in Reqs, stalls[q] = 0, stalls'[q] = 0, [Next]_vars,
           Sole(q), AtRest(q)
    PROVE  AtRest(q)'
<1> USE UssdAssumption DEF Types, Shape, ReqShape, SlotShape, Sole, AtRest
<1>1. ASSUME NEW r \in Reqs, CreateRequest(r)
      PROVE  AtRest(q)'
    BY <1>1 DEF CreateRequest, given, rowVars, jobVars, slotVars, handlerVars
<1>2. ASSUME NEW r \in Reqs, LiveRequest(r)
      PROVE  AtRest(q)'
    BY <1>2 DEF LiveRequest, given, rowVars, jobVars, slotVars,
       handlerVars
<1>3. ASSUME NEW r \in Reqs, AddJob(r)
      PROVE  AtRest(q)'
    BY <1>3 DEF AddJob, given, rowVars, jobVars, slotVars, handlerVars
<1>4. ASSUME NEW r \in Reqs, RejectRequest(r)
      PROVE  AtRest(q)'
    BY <1>4 DEF RejectRequest, RecordFailure, CompleteRequest, given, rowVars, jobVars,
       slotVars, handlerVars
<1>5. ASSUME NEW r \in Reqs, LiveEnds(r)
      PROVE  AtRest(q)'
    BY <1>5 DEF LiveEnds, CompleteRequest, given, rowVars, jobVars, slotVars,
       handlerVars
<1>6. ASSUME NEW r \in Reqs, LiveThrows(r)
      PROVE  AtRest(q)'
    BY <1>6 DEF LiveThrows, given, rowVars, jobVars, slotVars, handlerVars
<1>7. ASSUME NEW r \in Reqs, LiveCatch(r)
      PROVE  AtRest(q)'
    BY <1>7 DEF LiveCatch, RecordFailure, CompleteRequest, given, rowVars, jobVars,
       slotVars, handlerVars
<1>8. ASSUME NEW r \in Reqs, HandleFailed(r)
      PROVE  AtRest(q)'
    BY <1>8 DEF HandleFailed, RecordFailure, CompleteRequest, given, rowVars, jobVars,
       slotVars, handlerVars
<1>9. ASSUME NEW r \in Reqs, Promote(r)
      PROVE  AtRest(q)'
    BY <1>9 DEF Promote, given, rowVars, slotVars, handlerVars
<1>10. ASSUME NEW r \in Reqs, LoseLock(r)
      PROVE  AtRest(q)'
    BY <1>10 DEF LoseLock, given, rowVars, slotVars, handlerVars
<1>11. ASSUME NEW r \in Reqs, Stall(r)
      PROVE  AtRest(q)'
    BY <1>11 DEF Stall, given, rowVars, slotVars, handlerVars
<1>12. ASSUME NEW s \in Slots, NEW r \in Reqs, TakeJob(s, r)
      PROVE  AtRest(q)'
    BY <1>12 DEF TakeJob, given, rowVars, jobVars, slotVars, handlerVars
<1>13. ASSUME NEW s \in Slots, RunUssd(s)
      PROVE  AtRest(q)'
    BY <1>13 DEF RunUssd, Goto, BeginSession, ModemFree, given, rowVars, jobVars,
       slotVars, handlerVars
<1>14. ASSUME NEW s \in Slots, SessionSilent(s)
      PROVE  AtRest(q)'
    BY <1>14 DEF SessionSilent, Goto, given, rowVars, jobVars, slotVars, handlerVars
<1>15. ASSUME NEW s \in Slots, SessionReplied(s)
      PROVE  AtRest(q)'
    BY <1>15 DEF SessionReplied, given, rowVars, jobVars, slotVars, handlerVars
<1>16. ASSUME NEW s \in Slots, StoreReply(s)
      PROVE  AtRest(q)'
    <2>1. serves[s] \in Reqs /\ phase[s] = "replied"
        BY <1>16 DEF StoreReply
    <2>2. UNCHANGED <<http, job, final, serves>>
        BY <1>16 DEF StoreReply, Goto, jobVars, handlerVars
    <2>3. \A t \in Slots : t # s => phase'[t] = phase[t]
        BY <1>16 DEF StoreReply, Goto
    <2>4. CASE q = serves[s]
        <3>1. \A t \in Slots : serves[t] = q => t = s
            BY <2>4
        <3>2. job[q] = "active" /\ http[q] = "accepted" /\ ~final[q]
            BY <2>4
        <3>3. row[q] \notin {"done", "failed"}
            BY <2>1, <2>4
        <3>4. \/ row'[q] = "done" /\ phase'[s] \in {"polling", "returning"}
              \/ row'[q] = row[q]
            BY <1>16, <2>4 DEF StoreReply, Goto, CompleteRequest, rowVars
        <3> QED
            BY <2>2, <3>1, <3>2, <3>3, <3>4
    <2>5. CASE q # serves[s]
        <3>1. row'[q] = row[q]
            BY <1>16, <2>5 DEF StoreReply, CompleteRequest, rowVars
        <3> QED
            BY <2>2, <2>3, <2>5, <3>1
    <2> QED
        BY <2>4, <2>5
<1>17. ASSUME NEW s \in Slots, AddPoll(s)
      PROVE  AtRest(q)'
    BY <1>17 DEF AddPoll, Goto, given, rowVars, jobVars, slotVars, handlerVars
<1>18. ASSUME NEW s \in Slots, Complete(s)
      PROVE  AtRest(q)'
    BY <1>18 DEF Complete, Owns, Idle, given, rowVars, jobVars, slotVars, handlerVars
<1>19. ASSUME NEW s \in Slots, MoveToFailed(s)
      PROVE  AtRest(q)'
    BY <1>19 DEF MoveToFailed, IsFinal, Owns, Idle, given, rowVars, jobVars, slotVars,
       handlerVars
<1>20. ASSUME NEW s \in Slots, DropResult(s)
      PROVE  AtRest(q)'
    BY <1>20 DEF DropResult, Owns, Idle, given, rowVars, jobVars, slotVars, handlerVars
<1>21. ASSUME Crash
      PROVE  AtRest(q)'
    BY <1>21 DEF Crash, rowVars
<1>22. ASSUME NEW r \in Reqs, LiveBegins(r)
      PROVE  AtRest(q)'
    BY <1>22 DEF LiveBegins, BeginSession, given, rowVars, jobVars, slotVars,
       handlerVars
<1>23. ASSUME NEW r \in Reqs, TakeReply(r)
      PROVE  AtRest(q)'
    BY <1>23 DEF TakeReply, given, rowVars, jobVars, slotVars,
       handlerVars
<1>24. ASSUME WaiterEnds
      PROVE  AtRest(q)'
    BY <1>24 DEF WaiterEnds, given, rowVars, jobVars, slotVars,
       handlerVars
<1>25. CASE UNCHANGED vars
    BY <1>25 DEF vars, given, rowVars, jobVars, slotVars, handlerVars
<1> QED
    BY <1>1, <1>2, <1>3, <1>4, <1>5, <1>6, <1>7, <1>8, <1>9, <1>10, <1>11, <1>12, <1>13,
       <1>14, <1>15, <1>16, <1>17, <1>18, <1>19, <1>20, <1>21, <1>22, <1>23, <1>24,
       <1>25
       DEF Next, RequestStep, SlotStep

\* What the driver does with a reply keeps its waiters in order.
LEMMA WaitersKept ==
    ASSUME Waiters, UNCHANGED driverVars, \A q \in Reqs : runs'[q] >= runs[q],
           runs \in [Reqs -> Nat], runs' \in [Reqs -> Nat]
    PROVE  Waiters'
BY DEF Waiters, driverVars

LEMMA WaitersMiss ==
    ASSUME Waiters, NEW r \in Reqs, Miss(r), runs' = runs, runs[r] \in Nat, runs[r] > 0,
           threw', threw' \in BOOLEAN, left' \in Nat
    PROVE  Waiters'
<1>1. /\ replied' = [replied EXCEPT ![r] = @ \union {runs[r]}]
      /\ missed' = [missed EXCEPT ![r] = @ \union {runs[r]}]
    BY DEF Miss
<1>2. replied' \in [Reqs -> SUBSET Nat] /\ missed' \in [Reqs -> SUBSET Nat]
    BY <1>1 DEF Waiters
<1>3. ASSUME NEW q \in Reqs
      PROVE  missed'[q] \subseteq replied'[q] /\ replied'[q] \subseteq 1..runs[q]
    <2>1. missed[q] \subseteq replied[q] /\ replied[q] \subseteq 1..runs[q]
        BY DEF Waiters
    <2>2. CASE q = r
        <3>1. replied'[q] = replied[q] \union {runs[q]} /\ missed'[q] = missed[q] \union {runs[q]}
            BY <1>1, <2>2 DEF Waiters
        <3> QED
            BY <2>1, <2>2, <3>1
    <2>3. CASE q # r
        BY <1>1, <2>1, <2>3 DEF Waiters
    <2> QED
        BY <2>2, <2>3
<1> QED
    BY <1>2, <1>3 DEF Waiters

LEMMA WaitersEnd ==
    ASSUME Waiters, NEW r \in Reqs, DriverThrows(r) \/ DriverSilent \/ DriverReplies(r),
           runs' = runs, runs[r] \in Nat, runs[r] > 0
    PROVE  Waiters'
<1>1. CASE DriverThrows(r)
    <2>1. threw' = TRUE /\ left' \in Nat
        BY <1>1 DEF DriverThrows, Waiters
    <2>2. CASE Miss(r)
        BY <2>1, <2>2, WaitersMiss
    <2>3. CASE UNCHANGED <<replied, missed>>
        BY <2>1, <2>3 DEF Waiters
    <2> QED
        BY <1>1, <2>2, <2>3 DEF DriverThrows
<1>2. CASE DriverSilent
    BY <1>2 DEF DriverSilent, Waiters
<1>3. CASE DriverReplies(r)
    <2>1. /\ replied' = [replied EXCEPT ![r] = @ \union {runs[r]}]
          /\ missed' = [missed EXCEPT ![r] = @ \ {runs[r]}]
          /\ left' = left /\ threw' = threw
        BY <1>3 DEF DriverReplies
    <2>2. replied' \in [Reqs -> SUBSET Nat] /\ missed' \in [Reqs -> SUBSET Nat]
        BY <2>1 DEF Waiters
    <2>3. ASSUME NEW q \in Reqs
          PROVE  /\ missed'[q] \subseteq replied'[q] /\ replied'[q] \subseteq 1..runs[q]
                 /\ missed'[q] # {} => threw
        <3>1. /\ missed[q] \subseteq replied[q] /\ replied[q] \subseteq 1..runs[q]
              /\ missed[q] # {} => threw
            BY DEF Waiters
        <3>2. CASE q = r
            <4>1. replied'[q] = replied[q] \union {runs[q]} /\ missed'[q] = missed[q] \ {runs[q]}
                BY <2>1, <3>2 DEF Waiters
            <4> QED
                BY <3>1, <3>2, <4>1
        <3>3. CASE q # r
            BY <2>1, <3>1, <3>3 DEF Waiters
        <3> QED
            BY <3>2, <3>3
    <2> QED
        BY <2>1, <2>2, <2>3 DEF Waiters
<1> QED
    BY <1>1, <1>2, <1>3

LEMMA WaitersStep ==
    ASSUME Types, Types', Shape, Waiters, [Next]_vars
    PROVE  Waiters'
<1> USE DEF Types
<1>a. ASSUME UNCHANGED <<driverVars, runs>> PROVE Waiters'
    BY <1>a, WaitersKept
<1>b. ASSUME NEW r \in Reqs, UNCHANGED driverVars, BeginSession(r) PROVE Waiters'
    BY <1>b, WaitersKept DEF BeginSession
<1>1. ASSUME NEW r \in Reqs, CreateRequest(r)
      PROVE  Waiters'
    BY <1>1, <1>a DEF CreateRequest
<1>2. ASSUME NEW r \in Reqs, LiveRequest(r)
      PROVE  Waiters'
    BY <1>2, <1>a DEF LiveRequest
<1>3. ASSUME NEW r \in Reqs, AddJob(r)
      PROVE  Waiters'
    BY <1>3, <1>a DEF AddJob
<1>4. ASSUME NEW r \in Reqs, RejectRequest(r)
      PROVE  Waiters'
    BY <1>4, <1>a DEF RejectRequest
<1>5. ASSUME NEW r \in Reqs, LiveEnds(r)
      PROVE  Waiters'
    <2>1. runs[r] > 0
        BY <1>5 DEF LiveEnds, Shape, ReqShape
    <2> QED
        BY <1>5, <2>1, WaitersEnd DEF LiveEnds
<1>6. ASSUME NEW r \in Reqs, LiveThrows(r)
      PROVE  Waiters'
    <2>1. runs[r] > 0
        BY <1>6 DEF LiveThrows, Shape, ReqShape
    <2> QED
        BY <1>6, <2>1, WaitersEnd DEF LiveThrows
<1>7. ASSUME NEW r \in Reqs, LiveCatch(r)
      PROVE  Waiters'
    BY <1>7, <1>a DEF LiveCatch
<1>8. ASSUME NEW r \in Reqs, HandleFailed(r)
      PROVE  Waiters'
    BY <1>8, <1>a DEF HandleFailed
<1>9. ASSUME NEW r \in Reqs, Promote(r)
      PROVE  Waiters'
    BY <1>9, <1>a DEF Promote
<1>10. ASSUME NEW r \in Reqs, LoseLock(r)
      PROVE  Waiters'
    BY <1>10, <1>a DEF LoseLock
<1>11. ASSUME NEW r \in Reqs, Stall(r)
      PROVE  Waiters'
    BY <1>11, <1>a DEF Stall
<1>12. ASSUME NEW s \in Slots, NEW r \in Reqs, TakeJob(s, r)
      PROVE  Waiters'
    BY <1>12, <1>a DEF TakeJob
<1>13. ASSUME NEW s \in Slots, RunUssd(s)
      PROVE  Waiters'
    <2>1. serves[s] \in Reqs
        BY <1>13 DEF RunUssd
    <2> QED
        BY <1>13, <2>1, <1>b DEF RunUssd
<1>14. ASSUME NEW s \in Slots, SessionSilent(s)
      PROVE  Waiters'
    <2>1. serves[s] \in Reqs /\ runs[serves[s]] > 0
        BY <1>14 DEF SessionSilent, Shape, SlotShape
    <2> QED
        BY <1>14, <2>1, WaitersEnd DEF SessionSilent
<1>15. ASSUME NEW s \in Slots, SessionReplied(s)
      PROVE  Waiters'
    <2>1. serves[s] \in Reqs /\ runs[serves[s]] > 0
        BY <1>15 DEF SessionReplied, Shape, SlotShape
    <2> QED
        BY <1>15, <2>1, WaitersEnd DEF SessionReplied
<1>16. ASSUME NEW s \in Slots, StoreReply(s)
      PROVE  Waiters'
    BY <1>16, <1>a DEF StoreReply
<1>17. ASSUME NEW s \in Slots, AddPoll(s)
      PROVE  Waiters'
    BY <1>17, <1>a DEF AddPoll
<1>18. ASSUME NEW s \in Slots, Complete(s)
      PROVE  Waiters'
    BY <1>18, <1>a DEF Complete
<1>19. ASSUME NEW s \in Slots, MoveToFailed(s)
      PROVE  Waiters'
    BY <1>19, <1>a DEF MoveToFailed
<1>20. ASSUME NEW s \in Slots, DropResult(s)
      PROVE  Waiters'
    BY <1>20, <1>a DEF DropResult
<1>21. ASSUME Crash
      PROVE  Waiters'
    BY <1>21 DEF Crash, Waiters
<1>22. ASSUME NEW r \in Reqs, LiveBegins(r)
      PROVE  Waiters'
    BY <1>22, <1>b DEF LiveBegins
<1>23. ASSUME NEW r \in Reqs, TakeReply(r)
      PROVE  Waiters'
    <2>1. runs[r] > 0
        BY <1>23 DEF TakeReply, Shape, ReqShape, SlotShape
    <2>2. runs' = runs /\ threw' /\ threw' \in BOOLEAN /\ left' \in Nat /\ Miss(r)
        BY <1>23 DEF TakeReply, Waiters
    <2> QED
        BY <2>1, <2>2, WaitersMiss
<1>24. ASSUME WaiterEnds
      PROVE  Waiters'
    BY <1>24 DEF WaiterEnds, Waiters
<1>25. CASE UNCHANGED vars
    BY <1>25, <1>a DEF vars
<1> QED
    BY <1>1, <1>2, <1>3, <1>4, <1>5, <1>6, <1>7, <1>8, <1>9, <1>10, <1>11, <1>12, <1>13,
       <1>14, <1>15, <1>16, <1>17, <1>18, <1>19, <1>20, <1>21, <1>22, <1>23, <1>24,
       <1>25
       DEF Next, RequestStep, SlotStep

\* Only a session whose reply the driver returns makes a reply heard.
LEMMA NotHeard ==
    ASSUME Waiters, NEW q \in Reqs, NEW r \in Reqs, Heard(q)',
           \/ UNCHANGED driverVars \/ DriverThrows(r) \/ DriverSilent \/ Miss(r)
           \/ DriverReplies(r) /\ q # r
    PROVE  Heard(q)
<1> USE DEF Heard, Waiters
<1>1. CASE UNCHANGED <<replied, missed>>
    BY <1>1
<1>2. CASE Miss(r)
    <2>1. CASE q = r
        <3>1. replied'[q] = replied[q] \union {runs[q]} /\ missed'[q] = missed[q] \union {runs[q]}
            BY <1>2, <2>1 DEF Miss
        <3> QED
            BY <3>1
    <2>2. CASE q # r
        <3>1. replied'[q] = replied[q] /\ missed'[q] = missed[q]
            BY <1>2, <2>2 DEF Miss
        <3> QED
            BY <3>1
    <2> QED
        BY <2>1, <2>2
<1>3. CASE DriverReplies(r) /\ q # r
    <2>1. replied'[q] = replied[q] /\ missed'[q] = missed[q]
        BY <1>3 DEF DriverReplies
    <2> QED
        BY <2>1
<1> QED
    BY <1>1, <1>2, <1>3 DEF driverVars, DriverThrows, DriverSilent

\* A reply is not passed over.
LEMMA ToldStep ==
    ASSUME Types, Shape, Waiters, NEW q \in Reqs, stalls[q] = 0, stalls'[q] = 0, [Next]_vars,
           Sole(q), AtRest(q), ~Happened({"db"})', faults \in Seq(FaultKinds),
           Heard(q) => Told(q)
    PROVE  Heard(q)' => Told(q)'
<1>a. ~Happened({"db"}) /\ ~Fault("db")
    BY FaultsKept, FaultSeen
<1>u. UNCHANGED driverVars => (Heard(q)' => Heard(q))
    BY NotHeard
<1> USE UssdAssumption DEF Types, Shape, ReqShape, SlotShape, Sole, AtRest, Told
<1>1. ASSUME NEW r \in Reqs, CreateRequest(r)
      PROVE  Heard(q)' => Told(q)'
    BY <1>1, <1>a, <1>u DEF CreateRequest, given, rowVars, jobVars, slotVars, handlerVars
<1>2. ASSUME NEW r \in Reqs, LiveRequest(r)
      PROVE  Heard(q)' => Told(q)'
    BY <1>2, <1>a, <1>u DEF LiveRequest, given, rowVars, jobVars,
       slotVars, handlerVars
<1>3. ASSUME NEW r \in Reqs, AddJob(r)
      PROVE  Heard(q)' => Told(q)'
    <2>1. CASE q = r
        <3>1. http[r] = "created" /\ row' = row /\ UNCHANGED slotVars
            BY <1>3 DEF AddJob, rowVars
        <3> QED
            BY <1>3, <1>u, <2>1, <3>1 DEF AddJob, slotVars
    <2>2. CASE q # r
        <3>1. /\ row' = row /\ job'[q] = job[q] /\ owner' = owner
              /\ UNCHANGED <<slotVars, driverVars>>
            BY <1>3, <2>2 DEF AddJob, rowVars
        <3> QED
            BY <1>u, <3>1 DEF slotVars
    <2> QED
        BY <2>1, <2>2
<1>4. ASSUME NEW r \in Reqs, RejectRequest(r)
      PROVE  Heard(q)' => Told(q)'
    BY <1>4, <1>a, <1>u DEF RejectRequest, RecordFailure, CompleteRequest, given, rowVars,
       jobVars, slotVars, handlerVars
<1>5. ASSUME NEW r \in Reqs, LiveEnds(r)
      PROVE  Heard(q)' => Told(q)'
    <2>1. \/ DriverReplies(r) /\ CompleteRequest(r, "done", runs[r])
          \/ DriverSilent /\ CompleteRequest(r, "failed", 0)
        BY <1>5, <1>a DEF LiveEnds
    <2>2. CASE DriverReplies(r) /\ CompleteRequest(r, "done", runs[r]) /\ q = r
        <3>1. row'[q] = "done"
            BY <2>2 DEF CompleteRequest
        <3> QED
            BY <3>1
    <2>3. CASE DriverSilent \/ (DriverReplies(r) /\ q # r)
        <3>1. Heard(q)' => Heard(q)
            BY <2>3, NotHeard
        <3>2. /\ http[r] = "live" /\ (row'[q] = row[q] \/ q = r)
              /\ UNCHANGED <<jobVars, slotVars>>
            BY <1>5, <2>1 DEF LiveEnds, CompleteRequest
        <3> QED
            BY <3>1, <3>2 DEF jobVars, slotVars
    <2> QED
        BY <2>1, <2>2, <2>3
<1>6. ASSUME NEW r \in Reqs, LiveThrows(r)
      PROVE  Heard(q)' => Told(q)'
    <2>1. Heard(q)' => Heard(q)
        BY <1>6, NotHeard DEF LiveThrows
    <2> QED
        BY <1>6, <2>1 DEF LiveThrows, rowVars, jobVars, slotVars
<1>7. ASSUME NEW r \in Reqs, LiveCatch(r)
      PROVE  Heard(q)' => Told(q)'
    BY <1>7, <1>a, <1>u DEF LiveCatch, RecordFailure, CompleteRequest, given, rowVars,
       jobVars, slotVars, handlerVars
<1>8. ASSUME NEW r \in Reqs, HandleFailed(r)
      PROVE  Heard(q)' => Told(q)'
    BY <1>8, <1>a, <1>u DEF HandleFailed, RecordFailure, CompleteRequest, given, rowVars,
       jobVars, slotVars, handlerVars
<1>9. ASSUME NEW r \in Reqs, Promote(r)
      PROVE  Heard(q)' => Told(q)'
    BY <1>9, <1>a, <1>u DEF Promote, given, rowVars, slotVars, handlerVars
<1>10. ASSUME NEW r \in Reqs, LoseLock(r)
      PROVE  Heard(q)' => Told(q)'
    BY SMTT(20), <1>10, <1>a, <1>u DEF LoseLock, given, rowVars, slotVars, handlerVars
<1>11. ASSUME NEW r \in Reqs, Stall(r)
      PROVE  Heard(q)' => Told(q)'
    BY SMTT(20), <1>11, <1>a, <1>u DEF Stall, given, rowVars, slotVars, handlerVars
<1>12. ASSUME NEW s \in Slots, NEW r \in Reqs, TakeJob(s, r)
      PROVE  Heard(q)' => Told(q)'
    BY SMTT(20), <1>12, <1>a, <1>u DEF TakeJob, given, rowVars, jobVars, slotVars, handlerVars
<1>13. ASSUME NEW s \in Slots, RunUssd(s)
      PROVE  Heard(q)' => Told(q)'
    BY SMTT(20), <1>13, <1>a, <1>u DEF RunUssd, Goto, BeginSession, ModemFree, given, rowVars, jobVars,
       slotVars, handlerVars
<1>14. ASSUME NEW s \in Slots, SessionSilent(s)
      PROVE  Heard(q)' => Told(q)'
    <2>1. serves[s] \in Reqs
        BY <1>14 DEF SessionSilent
    <2>2. Heard(q)' => Heard(q)
        BY <1>14, <2>1, NotHeard DEF SessionSilent
    <2> QED
        BY <1>14, <2>1, <2>2 DEF SessionSilent, Goto, rowVars, jobVars
<1>15. ASSUME NEW s \in Slots, SessionReplied(s)
      PROVE  Heard(q)' => Told(q)'
    <2>1. serves[s] \in Reqs /\ phase' = [phase EXCEPT ![s] = "replied"]
        BY <1>15 DEF SessionReplied
    <2>2. CASE q = serves[s]
        BY <1>15, <2>1, <2>2 DEF SessionReplied
    <2>3. CASE q # serves[s]
        <3>1. Heard(q)' => Heard(q)
            BY <1>15, <2>1, <2>3, NotHeard DEF SessionReplied
        <3> QED
            BY <1>15, <2>1, <2>3, <3>1 DEF SessionReplied, rowVars, jobVars
    <2> QED
        BY <2>2, <2>3
<1>16. ASSUME NEW s \in Slots, StoreReply(s)
      PROVE  Heard(q)' => Told(q)'
    BY SMTT(20), <1>16, <1>a, <1>u DEF StoreReply, Goto, CompleteRequest, given, rowVars, jobVars,
       slotVars, handlerVars
<1>17. ASSUME NEW s \in Slots, AddPoll(s)
      PROVE  Heard(q)' => Told(q)'
    BY SMTT(20), <1>17, <1>a, <1>u DEF AddPoll, Goto, given, rowVars, jobVars, slotVars, handlerVars
<1>18. ASSUME NEW s \in Slots, Complete(s)
      PROVE  Heard(q)' => Told(q)'
    BY SMTT(20), <1>18, <1>a, <1>u DEF Complete, Owns, Idle, given, rowVars, jobVars, slotVars,
       handlerVars
<1>19. ASSUME NEW s \in Slots, MoveToFailed(s)
      PROVE  Heard(q)' => Told(q)'
    BY SMTT(20), <1>19, <1>a, <1>u DEF MoveToFailed, IsFinal, Owns, Idle, given, rowVars, jobVars,
       slotVars, handlerVars
<1>20. ASSUME NEW s \in Slots, DropResult(s)
      PROVE  Heard(q)' => Told(q)'
    BY SMTT(20), <1>20, <1>a, <1>u DEF DropResult, Owns, Idle, given, rowVars, jobVars, slotVars,
       handlerVars
<1>21. ASSUME Crash
      PROVE  Heard(q)' => Told(q)'
    <2>1. Heard(q)' => Heard(q)
        BY <1>21 DEF Crash, Heard
    <2> QED
        BY <1>21, <2>1 DEF Crash, rowVars
<1>22. ASSUME NEW r \in Reqs, LiveBegins(r)
      PROVE  Heard(q)' => Told(q)'
    BY <1>22, <1>a, <1>u DEF LiveBegins, BeginSession, given, rowVars, jobVars, slotVars,
       handlerVars
<1>23. ASSUME NEW r \in Reqs, TakeReply(r)
      PROVE  Heard(q)' => Told(q)'
    <2>1. Heard(q)' => Heard(q)
        BY <1>23, NotHeard DEF TakeReply
    <2> QED
        BY <1>23, <2>1 DEF TakeReply, rowVars, jobVars, slotVars
<1>24. ASSUME WaiterEnds
      PROVE  Heard(q)' => Told(q)'
    <2>1. Heard(q)' => Heard(q)
        BY <1>24 DEF WaiterEnds, Heard
    <2> QED
        BY <1>24, <2>1 DEF WaiterEnds, rowVars, jobVars, slotVars
<1>25. CASE UNCHANGED vars
    BY <1>25, <1>a, <1>u DEF vars, given, rowVars, jobVars, slotVars, handlerVars
<1> QED
    BY <1>1, <1>2, <1>3, <1>4, <1>5, <1>6, <1>7, <1>8, <1>9, <1>10, <1>11, <1>12, <1>13,
       <1>14, <1>15, <1>16, <1>17, <1>18, <1>19, <1>20, <1>21, <1>22, <1>23, <1>24,
       <1>25
       DEF Next, RequestStep, SlotStep

\* Without a stall a settled row is not written again.
LEMMA SettledStays ==
    ASSUME Types, Shape, NEW q \in Reqs, stalls[q] = 0, [Next]_vars,
           Sole(q), AtRest(q), row[q] \in {"done", "failed"}
    PROVE  row'[q] = row[q] /\ value'[q] = value[q]
<1> USE UssdAssumption DEF Types, Shape, ReqShape, SlotShape, Sole, AtRest
<1>1. ASSUME NEW r \in Reqs, CreateRequest(r)
      PROVE  row'[q] = row[q] /\ value'[q] = value[q]
    BY <1>1 DEF CreateRequest, given, rowVars, jobVars, slotVars, handlerVars
<1>2. ASSUME NEW r \in Reqs, LiveRequest(r)
      PROVE  row'[q] = row[q] /\ value'[q] = value[q]
    BY <1>2 DEF LiveRequest, given, rowVars, jobVars, slotVars,
       handlerVars
<1>3. ASSUME NEW r \in Reqs, AddJob(r)
      PROVE  row'[q] = row[q] /\ value'[q] = value[q]
    BY <1>3 DEF AddJob, given, rowVars, jobVars, slotVars, handlerVars
<1>4. ASSUME NEW r \in Reqs, RejectRequest(r)
      PROVE  row'[q] = row[q] /\ value'[q] = value[q]
    BY <1>4 DEF RejectRequest, RecordFailure, CompleteRequest, given, rowVars, jobVars,
       slotVars, handlerVars
<1>5. ASSUME NEW r \in Reqs, LiveEnds(r)
      PROVE  row'[q] = row[q] /\ value'[q] = value[q]
    BY <1>5 DEF LiveEnds, CompleteRequest, given, rowVars, jobVars, slotVars,
       handlerVars
<1>6. ASSUME NEW r \in Reqs, LiveThrows(r)
      PROVE  row'[q] = row[q] /\ value'[q] = value[q]
    BY <1>6 DEF LiveThrows, given, rowVars, jobVars, slotVars, handlerVars
<1>7. ASSUME NEW r \in Reqs, LiveCatch(r)
      PROVE  row'[q] = row[q] /\ value'[q] = value[q]
    BY <1>7 DEF LiveCatch, RecordFailure, CompleteRequest, given, rowVars, jobVars,
       slotVars, handlerVars
<1>8. ASSUME NEW r \in Reqs, HandleFailed(r)
      PROVE  row'[q] = row[q] /\ value'[q] = value[q]
    BY <1>8 DEF HandleFailed, RecordFailure, CompleteRequest, given, rowVars, jobVars,
       slotVars, handlerVars
<1>9. ASSUME NEW r \in Reqs, Promote(r)
      PROVE  row'[q] = row[q] /\ value'[q] = value[q]
    BY <1>9 DEF Promote, given, rowVars, slotVars, handlerVars
<1>10. ASSUME NEW r \in Reqs, LoseLock(r)
      PROVE  row'[q] = row[q] /\ value'[q] = value[q]
    BY <1>10 DEF LoseLock, given, rowVars, slotVars, handlerVars
<1>11. ASSUME NEW r \in Reqs, Stall(r)
      PROVE  row'[q] = row[q] /\ value'[q] = value[q]
    BY <1>11 DEF Stall, given, rowVars, slotVars, handlerVars
<1>12. ASSUME NEW s \in Slots, NEW r \in Reqs, TakeJob(s, r)
      PROVE  row'[q] = row[q] /\ value'[q] = value[q]
    BY <1>12 DEF TakeJob, given, rowVars, jobVars, slotVars, handlerVars
<1>13. ASSUME NEW s \in Slots, RunUssd(s)
      PROVE  row'[q] = row[q] /\ value'[q] = value[q]
    BY <1>13 DEF RunUssd, Goto, BeginSession, ModemFree, given, rowVars, jobVars,
       slotVars, handlerVars
<1>14. ASSUME NEW s \in Slots, SessionSilent(s)
      PROVE  row'[q] = row[q] /\ value'[q] = value[q]
    BY <1>14 DEF SessionSilent, Goto, given, rowVars, jobVars, slotVars, handlerVars
<1>15. ASSUME NEW s \in Slots, SessionReplied(s)
      PROVE  row'[q] = row[q] /\ value'[q] = value[q]
    BY <1>15 DEF SessionReplied, given, rowVars, jobVars, slotVars, handlerVars
<1>16. ASSUME NEW s \in Slots, StoreReply(s)
      PROVE  row'[q] = row[q] /\ value'[q] = value[q]
    BY <1>16 DEF StoreReply, Goto, CompleteRequest, given, rowVars, jobVars, slotVars,
       handlerVars
<1>17. ASSUME NEW s \in Slots, AddPoll(s)
      PROVE  row'[q] = row[q] /\ value'[q] = value[q]
    BY <1>17 DEF AddPoll, Goto, given, rowVars, jobVars, slotVars, handlerVars
<1>18. ASSUME NEW s \in Slots, Complete(s)
      PROVE  row'[q] = row[q] /\ value'[q] = value[q]
    BY <1>18 DEF Complete, Owns, Idle, given, rowVars, jobVars, slotVars, handlerVars
<1>19. ASSUME NEW s \in Slots, MoveToFailed(s)
      PROVE  row'[q] = row[q] /\ value'[q] = value[q]
    BY <1>19 DEF MoveToFailed, IsFinal, Owns, Idle, given, rowVars, jobVars, slotVars,
       handlerVars
<1>20. ASSUME NEW s \in Slots, DropResult(s)
      PROVE  row'[q] = row[q] /\ value'[q] = value[q]
    BY <1>20 DEF DropResult, Owns, Idle, given, rowVars, jobVars, slotVars, handlerVars
<1>21. ASSUME Crash
      PROVE  row'[q] = row[q] /\ value'[q] = value[q]
    BY <1>21 DEF Crash, rowVars
<1>22. ASSUME NEW r \in Reqs, LiveBegins(r)
      PROVE  row'[q] = row[q] /\ value'[q] = value[q]
    BY <1>22 DEF LiveBegins, BeginSession, given, rowVars, jobVars, slotVars,
       handlerVars
<1>23. ASSUME NEW r \in Reqs, TakeReply(r)
      PROVE  row'[q] = row[q] /\ value'[q] = value[q]
    BY <1>23 DEF TakeReply, given, rowVars, jobVars, slotVars,
       handlerVars
<1>24. ASSUME WaiterEnds
      PROVE  row'[q] = row[q] /\ value'[q] = value[q]
    BY <1>24 DEF WaiterEnds, given, rowVars, jobVars, slotVars,
       handlerVars
<1>25. CASE UNCHANGED vars
    BY <1>25 DEF vars, given, rowVars, jobVars, slotVars, handlerVars
<1> QED
    BY <1>1, <1>2, <1>3, <1>4, <1>5, <1>6, <1>7, <1>8, <1>9, <1>10, <1>11, <1>12, <1>13,
       <1>14, <1>15, <1>16, <1>17, <1>18, <1>19, <1>20, <1>21, <1>22, <1>23, <1>24,
       <1>25
       DEF Next, RequestStep, SlotStep

\* Stalls are never forgotten.
LEMMA StallsKept ==
    ASSUME Types, NEW q \in Reqs, stalls'[q] = 0, [Next]_vars
    PROVE  stalls[q] = 0
<1> USE DEF Types
<1>1. ASSUME NEW r \in Reqs, CreateRequest(r)
      PROVE  stalls[q] = 0
    BY <1>1 DEF CreateRequest, given, rowVars, jobVars, slotVars, handlerVars
<1>2. ASSUME NEW r \in Reqs, LiveRequest(r)
      PROVE  stalls[q] = 0
    BY <1>2 DEF LiveRequest, given, rowVars, jobVars, slotVars,
       handlerVars
<1>3. ASSUME NEW r \in Reqs, AddJob(r)
      PROVE  stalls[q] = 0
    BY <1>3 DEF AddJob, given, rowVars, jobVars, slotVars, handlerVars
<1>4. ASSUME NEW r \in Reqs, RejectRequest(r)
      PROVE  stalls[q] = 0
    BY <1>4 DEF RejectRequest, RecordFailure, CompleteRequest, given, rowVars, jobVars,
       slotVars, handlerVars
<1>5. ASSUME NEW r \in Reqs, LiveEnds(r)
      PROVE  stalls[q] = 0
    BY <1>5 DEF LiveEnds, CompleteRequest, given, rowVars, jobVars, slotVars,
       handlerVars
<1>6. ASSUME NEW r \in Reqs, LiveThrows(r)
      PROVE  stalls[q] = 0
    BY <1>6 DEF LiveThrows, given, rowVars, jobVars, slotVars, handlerVars
<1>7. ASSUME NEW r \in Reqs, LiveCatch(r)
      PROVE  stalls[q] = 0
    BY <1>7 DEF LiveCatch, RecordFailure, CompleteRequest, given, rowVars, jobVars,
       slotVars, handlerVars
<1>8. ASSUME NEW r \in Reqs, HandleFailed(r)
      PROVE  stalls[q] = 0
    BY <1>8 DEF HandleFailed, RecordFailure, CompleteRequest, given, rowVars, jobVars,
       slotVars, handlerVars
<1>9. ASSUME NEW r \in Reqs, Promote(r)
      PROVE  stalls[q] = 0
    BY <1>9 DEF Promote, given, rowVars, slotVars, handlerVars
<1>10. ASSUME NEW r \in Reqs, LoseLock(r)
      PROVE  stalls[q] = 0
    BY <1>10 DEF LoseLock, given, rowVars, slotVars, handlerVars
<1>11. ASSUME NEW r \in Reqs, Stall(r)
      PROVE  stalls[q] = 0
    BY <1>11 DEF Stall, given, rowVars, slotVars, handlerVars
<1>12. ASSUME NEW s \in Slots, NEW r \in Reqs, TakeJob(s, r)
      PROVE  stalls[q] = 0
    BY <1>12 DEF TakeJob, given, rowVars, jobVars, slotVars, handlerVars
<1>13. ASSUME NEW s \in Slots, RunUssd(s)
      PROVE  stalls[q] = 0
    BY <1>13 DEF RunUssd, Goto, BeginSession, ModemFree, given, rowVars, jobVars,
       slotVars, handlerVars
<1>14. ASSUME NEW s \in Slots, SessionSilent(s)
      PROVE  stalls[q] = 0
    BY <1>14 DEF SessionSilent, Goto, given, rowVars, jobVars, slotVars, handlerVars
<1>15. ASSUME NEW s \in Slots, SessionReplied(s)
      PROVE  stalls[q] = 0
    BY <1>15 DEF SessionReplied, given, rowVars, jobVars, slotVars, handlerVars
<1>16. ASSUME NEW s \in Slots, StoreReply(s)
      PROVE  stalls[q] = 0
    BY <1>16 DEF StoreReply, Goto, CompleteRequest, given, rowVars, jobVars, slotVars,
       handlerVars
<1>17. ASSUME NEW s \in Slots, AddPoll(s)
      PROVE  stalls[q] = 0
    BY <1>17 DEF AddPoll, Goto, given, rowVars, jobVars, slotVars, handlerVars
<1>18. ASSUME NEW s \in Slots, Complete(s)
      PROVE  stalls[q] = 0
    BY <1>18 DEF Complete, Owns, Idle, given, rowVars, jobVars, slotVars, handlerVars
<1>19. ASSUME NEW s \in Slots, MoveToFailed(s)
      PROVE  stalls[q] = 0
    BY <1>19 DEF MoveToFailed, IsFinal, Owns, Idle, given, rowVars, jobVars, slotVars,
       handlerVars
<1>20. ASSUME NEW s \in Slots, DropResult(s)
      PROVE  stalls[q] = 0
    BY <1>20 DEF DropResult, Owns, Idle, given, rowVars, jobVars, slotVars, handlerVars
<1>21. ASSUME Crash
      PROVE  stalls[q] = 0
    BY <1>21 DEF Crash, rowVars
<1>22. ASSUME NEW r \in Reqs, LiveBegins(r)
      PROVE  stalls[q] = 0
    BY <1>22 DEF LiveBegins, BeginSession, given, rowVars, jobVars, slotVars,
       handlerVars
<1>23. ASSUME NEW r \in Reqs, TakeReply(r)
      PROVE  stalls[q] = 0
    BY <1>23 DEF TakeReply, given, rowVars, jobVars, slotVars,
       handlerVars
<1>24. ASSUME WaiterEnds
      PROVE  stalls[q] = 0
    BY <1>24 DEF WaiterEnds, given, rowVars, jobVars, slotVars,
       handlerVars
<1>25. CASE UNCHANGED vars
    BY <1>25 DEF vars, given, rowVars, jobVars, slotVars, handlerVars
<1> QED
    BY <1>1, <1>2, <1>3, <1>4, <1>5, <1>6, <1>7, <1>8, <1>9, <1>10, <1>11, <1>12, <1>13,
       <1>14, <1>15, <1>16, <1>17, <1>18, <1>19, <1>20, <1>21, <1>22, <1>23, <1>24,
       <1>25
       DEF Next, RequestStep, SlotStep

\* Every look that a tariff session owes is added.
LEMMA PolledStep ==
    ASSUME Types, Shape, NEW q \in Reqs, Polled(q), [Next]_vars, faults \in Seq(FaultKinds)
    PROVE  Polled(q)'
<1>a. ~Happened({"redis"})' => ~Happened({"redis"}) /\ ~Fault("redis")
    BY FaultsKept, FaultSeen
<1> USE UssdAssumption DEF Types, Shape, SlotShape, ReqShape, Polled
<1>1. ASSUME NEW r \in Reqs, CreateRequest(r)
      PROVE  Polled(q)'
    BY <1>1, <1>a DEF CreateRequest, given, rowVars, jobVars, slotVars, handlerVars
<1>2. ASSUME NEW r \in Reqs, LiveRequest(r)
      PROVE  Polled(q)'
    BY <1>2, <1>a DEF LiveRequest, given, rowVars, jobVars,
       slotVars, handlerVars
<1>3. ASSUME NEW r \in Reqs, AddJob(r)
      PROVE  Polled(q)'
    BY <1>3, <1>a DEF AddJob, given, rowVars, jobVars, slotVars, handlerVars
<1>4. ASSUME NEW r \in Reqs, RejectRequest(r)
      PROVE  Polled(q)'
    BY <1>4, <1>a DEF RejectRequest, RecordFailure, CompleteRequest, given, rowVars,
       jobVars, slotVars, handlerVars
<1>5. ASSUME NEW r \in Reqs, LiveEnds(r)
      PROVE  Polled(q)'
    BY <1>5, <1>a DEF LiveEnds, CompleteRequest, given, rowVars, jobVars, slotVars,
       handlerVars
<1>6. ASSUME NEW r \in Reqs, LiveThrows(r)
      PROVE  Polled(q)'
    BY <1>6, <1>a DEF LiveThrows, given, rowVars, jobVars, slotVars, handlerVars
<1>7. ASSUME NEW r \in Reqs, LiveCatch(r)
      PROVE  Polled(q)'
    BY <1>7, <1>a DEF LiveCatch, RecordFailure, CompleteRequest, given, rowVars,
       jobVars, slotVars, handlerVars
<1>8. ASSUME NEW r \in Reqs, HandleFailed(r)
      PROVE  Polled(q)'
    BY <1>8, <1>a DEF HandleFailed, RecordFailure, CompleteRequest, given, rowVars,
       jobVars, slotVars, handlerVars
<1>9. ASSUME NEW r \in Reqs, Promote(r)
      PROVE  Polled(q)'
    BY <1>9, <1>a DEF Promote, given, rowVars, slotVars, handlerVars
<1>10. ASSUME NEW r \in Reqs, LoseLock(r)
      PROVE  Polled(q)'
    BY <1>10, <1>a DEF LoseLock, given, rowVars, slotVars, handlerVars
<1>11. ASSUME NEW r \in Reqs, Stall(r)
      PROVE  Polled(q)'
    BY <1>11, <1>a DEF Stall, given, rowVars, slotVars, handlerVars
<1>12. ASSUME NEW s \in Slots, NEW r \in Reqs, TakeJob(s, r)
      PROVE  Polled(q)'
    BY <1>12, <1>a DEF TakeJob, given, rowVars, jobVars, slotVars, handlerVars
<1>13. ASSUME NEW s \in Slots, RunUssd(s)
      PROVE  Polled(q)'
    BY SMTT(20), <1>13, <1>a DEF RunUssd, Goto, BeginSession, ModemFree, given, rowVars, jobVars,
       slotVars, handlerVars
<1>14. ASSUME NEW s \in Slots, SessionSilent(s)
      PROVE  Polled(q)'
    BY <1>14, <1>a DEF SessionSilent, Goto, given, rowVars, jobVars, slotVars,
       handlerVars
<1>15. ASSUME NEW s \in Slots, SessionReplied(s)
      PROVE  Polled(q)'
    BY SMTT(20), <1>15, <1>a DEF SessionReplied, given, rowVars, jobVars, slotVars, handlerVars
<1>16. ASSUME NEW s \in Slots, StoreReply(s)
      PROVE  Polled(q)'
    BY SMTT(20), <1>16, <1>a DEF StoreReply, Goto, CompleteRequest, given, rowVars, jobVars,
       slotVars, handlerVars
<1>17. ASSUME NEW s \in Slots, AddPoll(s)
      PROVE  Polled(q)'
    <2>1. /\ phase[s] = "polling" /\ serves[s] \in Reqs /\ serves' = serves
          /\ tariff' = tariff /\ job' = job
        BY <1>17 DEF AddPoll, Goto, given, jobVars
    <2>2. SUFFICES ASSUME q \in tariff, ~Happened({"redis"})'
                   PROVE  /\ job[q] = "completed" => polls'[q] >= Polls
                          /\ \A t \in Slots : serves[t] = q =>
                                /\ phase'[t] = "polling" => polls'[q] >= added'[t]
                                /\ phase'[t] = "returning" => polls'[q] >= Polls
        BY <2>1
    <2>3. /\ added' = [added EXCEPT ![s] = @ + 1]
          /\ polls' = [polls EXCEPT ![serves[s]] = @ + 1]
          /\ phase' = [phase EXCEPT ![s] = IF added[s] + 1 < Polls THEN @ ELSE "returning"]
        BY <1>17, <1>a, <2>2 DEF AddPoll
    <2>4. /\ added[s] \in Nat /\ added[s] < Polls /\ Polls \in Nat
          /\ polls[serves[s]] \in Nat /\ polls[q] \in Nat
        BY <2>1
    <2>5. polls'[q] = (IF q = serves[s] THEN polls[q] + 1 ELSE polls[q])
        BY <2>3
    <2>6. /\ job[q] = "completed" => polls[q] >= Polls
          /\ \A t \in Slots : serves[t] = q =>
                /\ phase[t] = "polling" => polls[q] >= added[t]
                /\ phase[t] = "returning" => polls[q] >= Polls
        BY <1>a, <2>2
    <2>7. job[q] = "completed" => polls'[q] >= Polls
        BY <2>4, <2>5, <2>6
    <2>8. ASSUME NEW t \in Slots, serves[t] = q
          PROVE  /\ phase'[t] = "polling" => polls'[q] >= added'[t]
                 /\ phase'[t] = "returning" => polls'[q] >= Polls
        <3>1. CASE t = s
            <4>1. polls[q] >= added[s] /\ polls'[q] = polls[q] + 1
                BY <2>1, <2>5, <2>6, <2>8, <3>1
            <4>2. added'[s] = added[s] + 1
                BY <2>3
            <4>3. phase'[s] = "returning" => added[s] + 1 >= Polls
                BY SMTT(20), <2>1, <2>3, <2>4
            <4> QED
                BY ONLY <2>4, <3>1, <4>1, <4>2, <4>3
        <3>2. CASE t # s
            <4>1. added'[t] = added[t] /\ phase'[t] = phase[t] /\ added[t] \in Nat
                BY <2>3, <3>2
            <4> QED
                BY <2>4, <2>5, <2>6, <2>8, <4>1
        <3> QED
            BY <3>1, <3>2
    <2> QED
        BY <2>7, <2>8
<1>18. ASSUME NEW s \in Slots, Complete(s)
      PROVE  Polled(q)'
    BY SMTT(20), <1>18, <1>a DEF Complete, Owns, Idle, given, rowVars, jobVars, slotVars,
       handlerVars
<1>19. ASSUME NEW s \in Slots, MoveToFailed(s)
      PROVE  Polled(q)'
    BY SMTT(20), <1>19, <1>a DEF MoveToFailed, IsFinal, Owns, Idle, given, rowVars, jobVars,
       slotVars, handlerVars
<1>20. ASSUME NEW s \in Slots, DropResult(s)
      PROVE  Polled(q)'
    BY <1>20, <1>a DEF DropResult, Owns, Idle, given, rowVars, jobVars, slotVars,
       handlerVars
<1>21. ASSUME Crash
      PROVE  Polled(q)'
    BY <1>21, <1>a DEF Crash, rowVars
<1>22. ASSUME NEW r \in Reqs, LiveBegins(r)
      PROVE  Polled(q)'
    BY <1>22, <1>a DEF LiveBegins, BeginSession, given, rowVars, jobVars, slotVars,
       handlerVars
<1>23. ASSUME NEW r \in Reqs, TakeReply(r)
      PROVE  Polled(q)'
    BY <1>23, <1>a DEF TakeReply, given, rowVars, jobVars, slotVars,
       handlerVars
<1>24. ASSUME WaiterEnds
      PROVE  Polled(q)'
    BY <1>24, <1>a DEF WaiterEnds, given, rowVars, jobVars, slotVars,
       handlerVars
<1>25. CASE UNCHANGED vars
    BY <1>25, <1>a DEF vars, given, rowVars, jobVars, slotVars, handlerVars
<1> QED
    BY <1>1, <1>2, <1>3, <1>4, <1>5, <1>6, <1>7, <1>8, <1>9, <1>10, <1>11, <1>12, <1>13,
       <1>14, <1>15, <1>16, <1>17, <1>18, <1>19, <1>20, <1>21, <1>22, <1>23, <1>24,
       <1>25
       DEF Next, RequestStep, SlotStep

-----------------------------------------------------------------------------
\* The inductive invariant, all of it.
UssdInv ==
    /\ Types /\ faults \in Seq(FaultKinds) /\ Shape /\ Waiters
    /\ \A r \in Reqs : Budget(r) /\ Quota(r) /\ Calm(r) /\ Polled(r)

LEMMA UssdInit == Init => UssdInv
<1> SUFFICES ASSUME Init PROVE UssdInv
    OBVIOUS
<1> USE UssdAssumption
<1>1. Types
    BY DEF Init, Types
<1>2. faults \in Seq(FaultKinds)
    BY EmptySeq DEF Init
<1>3. Shape
    BY DEF Init, Shape, ReqShape, SlotShape
<1>4. ASSUME NEW r \in Reqs PROVE Budget(r)
    <2>1. Waiting(r) = {}
        BY DEF Init, Waiting
    <2>2. Cardinality(Waiting(r)) = 0
        BY <2>1, FS_EmptySet
    <2>3. runs[r] = 0 /\ Spare(r) = 1 /\ Allowed(r) = 1
        BY DEF Init, Spare, Allowed
    <2> QED
        BY <2>2, <2>3 DEF Budget
<1>5. ASSUME NEW r \in Reqs PROVE Quota(r)
    <2>1. ToCome(r) = {}
        BY DEF Init, ToCome
    <2>2. Cardinality(ToCome(r)) = 0
        BY <2>1, FS_EmptySet
    <2>3. runs[r] = 0 /\ polls[r] = 0
        BY DEF Init
    <2> QED
        BY <2>2, <2>3 DEF Quota
<1>6. ASSUME NEW r \in Reqs PROVE Calm(r) /\ Polled(r)
    BY DEF Init, Calm, Sole, AtRest, Heard, Polled
<1>7. Waiters
    <2>1. /\ left = 0 /\ threw = FALSE
          /\ replied = [r \in Reqs |-> {}] /\ missed = [r \in Reqs |-> {}]
        BY DEF Init
    <2>2. left \in Nat /\ ~(left > 0)
        BY <2>1
    <2>5. threw \in BOOLEAN
        BY <2>1
    <2>3. replied \in [Reqs -> SUBSET Nat] /\ missed \in [Reqs -> SUBSET Nat]
        BY ONLY <2>1
    <2>4. \A r \in Reqs : missed[r] = {} /\ replied[r] = {}
        BY ONLY <2>1
    <2> QED
        BY ONLY <2>2, <2>3, <2>4, <2>5 DEF Waiters
<1> QED
    BY <1>1, <1>2, <1>3, <1>4, <1>5, <1>6, <1>7 DEF UssdInv

LEMMA UssdStep == UssdInv /\ [Next]_vars => UssdInv'
<1> SUFFICES ASSUME UssdInv, [Next]_vars PROVE UssdInv'
    OBVIOUS
<1>1. Types /\ Shape /\ faults \in Seq(FaultKinds) /\ Waiters
    BY DEF UssdInv
<1>2. Types'
    BY <1>1, TypesStep
<1>3. Shape'
    BY <1>1, ReqShapeStep, SlotShapeStep DEF Shape
<1>4. faults' \in Seq(FaultKinds)
    BY <1>1, FaultsKept
<1>5. ASSUME NEW r \in Reqs PROVE Budget(r)' /\ Quota(r)' /\ Calm(r)' /\ Polled(r)'
    <2>1. Budget(r) /\ Quota(r) /\ Calm(r) /\ Polled(r)
        BY DEF UssdInv
    <2>2. Budget(r)'
        BY <1>1, <1>2, <2>1, BudgetStep
    <2>3. Quota(r)'
        BY <1>1, <1>2, <2>1, QuotaStep
    <2>4. Polled(r)'
        BY <1>1, <2>1, PolledStep
    <2>5. ASSUME stalls'[r] = 0
          PROVE  Sole(r)' /\ AtRest(r)' /\ (~Happened({"db"})' /\ Heard(r)' => Told(r)')
        <3>1. stalls[r] = 0
            BY <1>1, <2>5, StallsKept
        <3>2. Sole(r) /\ AtRest(r) /\ (~Happened({"db"}) /\ Heard(r) => Told(r))
            BY <2>1, <3>1 DEF Calm
        <3>3. Sole(r)' /\ AtRest(r)'
            BY <1>1, <2>5, <3>1, <3>2, SoleStep, AtRestStep
        <3>4. ASSUME ~Happened({"db"})', Heard(r)' PROVE Told(r)'
            <4>1. ~Happened({"db"})
                BY <1>1, <3>4, FaultsKept
            <4> QED
                BY <1>1, <2>5, <3>1, <3>2, <3>4, <4>1, ToldStep
        <3> QED
            BY <3>3, <3>4
    <2>6. Calm(r)'
        BY <2>5 DEF Calm
    <2> QED
        BY <2>2, <2>3, <2>4, <2>6
<1>6. Waiters'
    BY <1>1, <1>2, WaitersStep
<1> QED
    BY <1>2, <1>3, <1>4, <1>5, <1>6 DEF UssdInv

LEMMA UssdInvariance == Spec => []UssdInv
BY UssdInit, UssdStep, PTL DEF Spec

\* No request runs more sessions than its attempts and stalls allow, and none
\* leaves more looks at the inbox than its sessions account for
\* (ussd.config.js:27, 93-105).
THEOREM UssdIsTyped == Spec => []TypeOK
<1>1. UssdInv => TypeOK
    <2> SUFFICES ASSUME UssdInv PROVE TypeOK
        OBVIOUS
    <2>1. Types /\ Shape /\ Waiters /\ faults \in Seq(FaultKinds)
        BY DEF UssdInv
    <2>c. MaxAttempts \in Nat \ {0} /\ MaxStalled \in Nat /\ Polls \in Nat
        BY UssdAssumption
    <2>2. ASSUME NEW r \in Reqs
          PROVE  /\ runs[r] \in 0..MaxAttempts + MaxStalled
                 /\ polls[r] \in 0..Polls * (MaxAttempts + MaxStalled)
        <3>1. Budget(r) /\ Quota(r)
            BY DEF UssdInv
        <3>2. /\ runs[r] \in Nat /\ polls[r] \in Nat
              /\ made[r] \in Nat /\ stalls[r] \in Nat
            BY <2>1 DEF Types
        <3>3. /\ Spare(r) \in 0..1 /\ Cardinality(Waiting(r)) \in Nat
              /\ Cardinality(ToCome(r)) \in Nat
            BY <2>1, Numbers, ToComeFinite DEF ToCome
        <3>4. Allowed(r) \in Int /\ Allowed(r) <= MaxAttempts + MaxStalled
            BY ONLY <2>c, <3>2 DEF Allowed
        <3>5. runs[r] <= MaxAttempts + MaxStalled
            BY ONLY <2>c, <3>1, <3>2, <3>3, <3>4 DEF Budget
        <3>6. Polls * runs[r] <= Polls * (MaxAttempts + MaxStalled)
            BY <2>c, <3>2, <3>5, MoreTimes
        <3>7. Polls * runs[r] \in Nat /\ Polls * (MaxAttempts + MaxStalled) \in Nat
            BY <2>c, <3>2
        <3>8. polls[r] <= Polls * runs[r]
            BY ONLY <3>1, <3>2, <3>3, <3>7 DEF Quota
        <3> QED
            BY ONLY <2>c, <3>2, <3>5, <3>6, <3>7, <3>8
    <2>3. ASSUME NEW r \in Reqs
          PROVE  /\ made[r] \in 0..MaxAttempts + 1
                 /\ value[r] \in 0..runs[r]
        BY <2>1, <2>c DEF Types, Shape, ReqShape
    <2>4. ASSUME NEW s \in Slots PROVE got[s] \in 0..MaxAttempts + MaxStalled
        <3>1. CASE phase[s] = "idle"
            BY <2>1, <2>c, <3>1 DEF Types, Shape, SlotShape
        <3>2. CASE phase[s] # "idle"
            <4>1. serves[s] \in Reqs /\ got[s] \in Nat /\ got[s] <= runs[serves[s]]
                BY <2>1, <3>2 DEF Types, Shape, SlotShape
            <4>2. runs[serves[s]] \in 0..MaxAttempts + MaxStalled
                BY <2>2, <4>1
            <4> QED
                BY <2>c, <4>1, <4>2
        <3> QED
            BY <3>1, <3>2
    <2>5. /\ runs \in [Reqs -> 0..MaxAttempts + MaxStalled]
          /\ polls \in [Reqs -> 0..Polls * (MaxAttempts + MaxStalled)]
          /\ made \in [Reqs -> 0..MaxAttempts + 1]
        BY <2>1, <2>2, <2>3 DEF Types
    <2>6. got \in [Slots -> 0..MaxAttempts + MaxStalled]
        BY <2>1, <2>4 DEF Types
    <2> QED
        BY <2>1, <2>3, <2>5, <2>6 DEF Types, Waiters, TypeOK
<1> QED
    BY <1>1, UssdInvariance, PTL

\* Without a stall and with a working database, a row is failed only when no
\* reply was returned to a session of it: one that the driver returns is stored,
\* and one that it loses is lost after a session that ended in an error
\* (ussd.config.js:94-99, router.js:244-254, modem.js:307-309).
THEOREM FailedRowsAreSilent == Spec => []FailedMeansSilent
<1>1. UssdInv => FailedMeansSilent
    <2> SUFFICES ASSUME UssdInv, NEW r \in Reqs, row[r] = "failed", stalls[r] = 0,
                        ~Happened({"db"})
                 PROVE  replied[r] \subseteq missed[r] /\ (missed[r] # {} => threw)
        BY DEF FailedMeansSilent
    <2>1. AtRest(r) /\ Sole(r) /\ (Heard(r) => Told(r))
        BY DEF UssdInv, Calm
    <2>2. ~Told(r)
        BY <2>1 DEF AtRest, Told
    <2>3. missed[r] # {} => threw
        BY DEF UssdInv, Waiters
    <2> QED
        BY <2>1, <2>2, <2>3 DEF Heard
<1> QED
    BY <1>1, UssdInvariance, PTL

\* A finished tariff session has all its looks at the inbox in the queue, unless
\* Redis refused one, whatever crashes and stalls came between
\* (ussd.config.js:19-22).
THEOREM TariffsArePolled == Spec => []TariffIsPolled
<1>1. UssdInv => TariffIsPolled
    BY DEF UssdInv, TariffIsPolled, Polled, Types
<1> QED
    BY <1>1, UssdInvariance, PTL

\* No handler, retry or late slot writes a settled row again, unless its job
\* stalled (ussd.config.js:99, 128-136).
THEOREM SettledRowsStay == Spec => SettledIsFinal
<1> DEFINE Stays == \A r \in Reqs : row[r] \in {"done", "failed"} /\ stalls[r] = 0
                                    => row'[r] = row[r] /\ value'[r] = value[r]
<1>1. UssdInv /\ [Next]_vars => [Stays]_vars
    <2> SUFFICES ASSUME UssdInv, [Next]_vars, NEW r \in Reqs, row[r] \in {"done", "failed"},
                        stalls[r] = 0
                 PROVE  row'[r] = row[r] /\ value'[r] = value[r]
        OBVIOUS
    <2>1. Types /\ Shape /\ Sole(r) /\ AtRest(r)
        BY DEF UssdInv, Calm
    <2> QED
        BY <2>1, SettledStays
<1> QED
    BY <1>1, UssdInvariance, PTL DEF Spec, SettledIsFinal

=============================================================================

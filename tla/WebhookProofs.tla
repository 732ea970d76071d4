--------------------------- MODULE WebhookProofs ---------------------------
(***************************************************************************)
(* The delivery of callbacks for any number of messages, callbacks,        *)
(* attempts, stalls and restarts: its types with the bound on POSTs, that  *)
(* a callback is given up only when its attempts are spent, and that a     *)
(* receiver which follows the README ends up with the last status.         *)
(***************************************************************************)
EXTENDS WebhookDelivery, SequenceTheorems, TLAPS

-----------------------------------------------------------------------------
\* The inductive invariant: the types.
Types ==
    /\ callbacks \in [Msgs -> Seq(Statuses)]
    /\ hook \in [Callbacks -> {"none", "wait", "active", "stalled", "delayed"} \union Ended]
    /\ failures \in [Callbacks -> Nat] /\ hookStalls \in [Callbacks -> Nat]
    /\ sends \in [Callbacks -> Nat]
    /\ reply \in [Callbacks -> {"none", "lost"} \union Answers]
    /\ seen \in [Msgs -> SUBSET Statuses] /\ newest \in [Msgs -> Nat]
    /\ got \in [Callbacks -> SUBSET Answers]
    /\ crashes \in Nat

\* Every POST was allowed by the job itself, a failed attempt or a stall.
Spare(c) ==
    IF hook[c] \in {"none", "delayed"} \/ (hook[c] = "wait" /\ hookStalls[c] <= HookStalled)
    THEN 1 ELSE 0
Allowed(c) ==
    1 + (IF failures[c] < Attempts THEN failures[c] ELSE Attempts - 1)
      + (IF hookStalls[c] <= HookStalled THEN hookStalls[c] ELSE HookStalled)

\* A failed attempt has made its POST.
Attempted(c) ==
    /\ failures[c] <= Attempts
    /\ hook[c] # "failed" => failures[c] < Attempts /\ failures[c] <= sends[c]
    /\ hook[c] = "active" => failures[c] < sends[c]
    /\ hook[c] = "failed" => sends[c] >= Attempts \/ hookStalls[c] > HookStalled
    /\ sends[c] + Spare(c) <= Allowed(c)

\* Jobs are added in the order of the callbacks, and start from nothing.
Posted(c) ==
    IF c[2] <= Len(callbacks[c[1]]) THEN hook[c] # "none"
    ELSE hook[c] = "none" /\ sends[c] = 0 /\ failures[c] = 0 /\ hookStalls[c] = 0

\* What a worker was told, the receiver said and did.
Answered(c) ==
    /\ reply[c] # "none" => hook[c] = "active"
    /\ reply[c] = "reject" \/ hook[c] = "dropped" => "reject" \in got[c]
    /\ reply[c] = "ok" \/ hook[c] = "done" => callbacks[c[1]][c[2]] \in seen[c[1]]

OnWire ==
    \A p \in wire : \E c \in Callbacks : \E k \in 1..sends[c] : p = <<c[1], c[2], k>>

\* A message has no more callbacks than places, the receiver applied one of them.
Counted(m) ==
    /\ Len(callbacks[m]) <= MaxCallbacks
    /\ newest[m] \in 0..Len(callbacks[m])

\* Only the last callback of a message tells of a final status.
LastIsFinal(m) ==
    \A i \in 1..Len(callbacks[m]) : i < Len(callbacks[m]) => callbacks[m][i] = "retrying"

\* The receiver shows a callback it has seen, the final one when it has seen it.
Knows(q, S, k) ==
    /\ k \in 0..Len(q)
    /\ k > 0 => q[k] \in S
    /\ \A st \in S : \E i \in 1..Len(q) : q[i] = st
    /\ \A i \in 1..Len(q) : q[i] \in S => k > 0 /\ (q[i] # "retrying" => k = i)
Receives(m) == Knows(callbacks[m], seen[m], newest[m])

JobInv == \A c \in Callbacks : Attempted(c) /\ Posted(c) /\ Answered(c)
MsgInv == \A m \in Msgs : Counted(m) /\ (LastIsFinal(m) => Receives(m))
HookInv == Types /\ JobInv /\ OnWire /\ MsgInv

-----------------------------------------------------------------------------
\* The n-th callback of m is added.
Grows(m, st, n) ==
    /\ Len(callbacks[m]) = n - 1 /\ Len(callbacks'[m]) = n
    /\ <<m, n>> \in Callbacks
    /\ callbacks' \in [Msgs -> Seq(Statuses)]
    /\ callbacks'[m][n] = st
    /\ \A i \in 1..n - 1 : callbacks'[m][i] = callbacks[m][i]
    /\ \A o \in Msgs : o # m => callbacks'[o] = callbacks[o]
    /\ hook' = [hook EXCEPT ![<<m, n>>] = "wait"]

\* A callback is a place in its message's list.
LEMMA Places ==
    ASSUME NEW c \in Callbacks
    PROVE  c[1] \in Msgs /\ c[2] \in 1..MaxCallbacks /\ c = <<c[1], c[2]>>
BY DEF Callbacks

LEMMA Enqueued ==
    ASSUME Types, NEW m \in Msgs, NEW st \in Statuses, Enqueue(m, st)
    PROVE  \E n \in 1..MaxCallbacks : Grows(m, st, n)
<1> DEFINE s == callbacks[m]
<1>1. s \in Seq(Statuses) /\ Len(s) \in Nat
    BY LenProperties DEF Types
<1>2. /\ Append(s, st) \in Seq(Statuses) /\ Len(Append(s, st)) = Len(s) + 1
      /\ Append(s, st)[Len(s) + 1] = st
      /\ \A i \in 1..Len(s) : Append(s, st)[i] = s[i]
    BY <1>1, AppendProperties
<1>3. Len(s) + 1 \in 1..MaxCallbacks
    BY <1>1, WebhookAssumption DEF Enqueue
<1>4. <<m, Len(s) + 1>> \in Callbacks
    BY <1>3 DEF Callbacks
<1>5. callbacks' = [callbacks EXCEPT ![m] = Append(s, st)]
    BY DEF Enqueue
<1>6. callbacks' \in [Msgs -> Seq(Statuses)] /\ callbacks'[m] = Append(s, st)
    BY <1>2, <1>5 DEF Types
<1>7. \A o \in Msgs : o # m => callbacks'[o] = callbacks[o]
    BY <1>5 DEF Types
<1>8. /\ Len(s) = Len(s) + 1 - 1 /\ 1..Len(s) + 1 - 1 = 1..Len(s)
    BY <1>1
<1>9. hook' = [hook EXCEPT ![<<m, Len(s) + 1>>] = "wait"]
    BY DEF Enqueue
<1> WITNESS Len(s) + 1 \in 1..MaxCallbacks
<1> QED
    BY <1>2, <1>4, <1>6, <1>7, <1>8, <1>9 DEF Grows

\* The types are kept.
LEMMA TypesStep ==
    ASSUME Types, JobInv, [Next]_vars
    PROVE  Types'
<1>e. ASSUME NEW m \in Msgs, NEW st \in Statuses, Enqueue(m, st)
      PROVE  \E n \in 1..MaxCallbacks : Grows(m, st, n)
    BY <1>e, Enqueued
<1> USE WebhookAssumption DEF Types, Ended
<1>1. ASSUME NEW m \in Msgs, NEW st \in Statuses, Enqueue(m, st)
      PROVE  Types'
    BY <1>1, <1>e DEF Enqueue, Grows
<1>2. ASSUME NEW c \in Callbacks, Post(c)
      PROVE  Types'
    BY <1>2 DEF Post
<1>3. ASSUME NEW c \in Callbacks, FailStalled(c)
      PROVE  Types'
    BY <1>3 DEF FailStalled
<1>4. ASSUME NEW c \in Callbacks, GiveUp(c)
      PROVE  Types'
    BY <1>4 DEF GiveUp, hookVars
<1>5. ASSUME NEW c \in Callbacks, Finish(c)
      PROVE  Types'
    BY <1>5 DEF Finish, IsPermanent
<1>6. ASSUME NEW c \in Callbacks, Fail(c)
      PROVE  Types'
    BY <1>6 DEF Fail, IsPermanent
<1>7. ASSUME NEW c \in Callbacks, Backoff(c)
      PROVE  Types'
    BY <1>7 DEF Backoff
<1>8. ASSUME NEW c \in Callbacks, HookStall(c)
      PROVE  Types'
    BY <1>8 DEF HookStall
<1>9. ASSUME NEW c \in Callbacks, NEW k \in 1..sends[c], Arrive(c, k)
      PROVE  Types'
    <2>1. c[1] \in Msgs /\ c[2] \in 1..Len(callbacks[c[1]])
        BY <1>9, Places, LenProperties DEF JobInv, Posted, Types
    <2>2. callbacks[c[1]][c[2]] \in Statuses
        BY <2>1, ElementOfSeq DEF Types
    <2>3. PICK a \in Answers :
             /\ reply' \in {[reply EXCEPT ![c] = a], reply}
             /\ got' = [got EXCEPT ![c] = @ \union ({a} \ {"busy"})]
             /\ Apply(c[1], c[2]) \/ UNCHANGED <<seen, newest>>
        BY <1>9 DEF Arrive
    <2>4. reply' \in [Callbacks -> {"none", "lost"} \union Answers]
        BY <2>3 DEF Types
    <2>5. got' \in [Callbacks -> SUBSET Answers]
        BY <2>3 DEF Types
    <2>6. seen' \in [Msgs -> SUBSET Statuses] /\ newest' \in [Msgs -> Nat]
        <3>1. CASE UNCHANGED <<seen, newest>>
            BY <3>1
        <3>2. CASE Apply(c[1], c[2])
            <4> DEFINE st == callbacks[c[1]][c[2]]
            <4>1. seen[c[1]] \union {st} \in SUBSET Statuses
                BY <2>1, <2>2
            <4> HIDE DEF st
            <4>2. seen' = [seen EXCEPT ![c[1]] = @ \union {st}]
                BY <3>2 DEF Apply, st
            <4>3. seen' \in [Msgs -> SUBSET Statuses]
                BY <4>1, <4>2
            <4>4. newest' \in [Msgs -> Nat]
                BY <2>1, <3>2 DEF Apply
            <4> QED
                BY <4>3, <4>4
        <3> QED
            BY <2>3, <3>1, <3>2
    <2> QED
        BY <1>9, <2>4, <2>5, <2>6 DEF Arrive, hookVars
<1>10. ASSUME Restart
      PROVE  Types'
    BY <1>10 DEF Restart, HookCrash
<1>11. ASSUME NEW c \in Callbacks, HookLoseLock(c)
      PROVE  Types'
    BY <1>11 DEF HookLoseLock
<1>12. CASE UNCHANGED vars
    BY <1>12 DEF vars, hookVars
<1> QED
    BY <1>1, <1>2, <1>3, <1>4, <1>5, <1>6, <1>7, <1>8, <1>9, <1>10, <1>11, <1>12
       DEF Next, HookStep

\* No POST is made that was not allowed, and none that failed is forgotten.
LEMMA AttemptedStep ==
    ASSUME Types, NEW b \in Callbacks, [Next]_vars, Attempted(b), Posted(b)
    PROVE  Attempted(b)'
<1>0. b[1] \in Msgs /\ b[2] \in 1..MaxCallbacks /\ b = <<b[1], b[2]>>
      /\ Len(callbacks[b[1]]) \in Nat
    BY Places, LenProperties DEF Types
<1>e. ASSUME NEW m \in Msgs, NEW st \in Statuses, Enqueue(m, st)
      PROVE  \E n \in 1..MaxCallbacks : Grows(m, st, n)
    BY <1>e, Enqueued
<1> USE WebhookAssumption DEF Types, Ended, Attempted, Spare, Allowed
<1>1. ASSUME NEW m \in Msgs, NEW st \in Statuses, Enqueue(m, st)
      PROVE  Attempted(b)'
    <2> PICK n \in 1..MaxCallbacks : Grows(m, st, n)
        BY <1>1, <1>e
    <2>0. Grows(m, st, n)
        OBVIOUS
    <2> USE DEF Grows
    <2>1. UNCHANGED <<sends, failures, hookStalls>>
        BY <1>1 DEF Enqueue
    <2>2. CASE b = <<m, n>>
        <3>1. hook'[b] = "wait" /\ b[1] = m /\ b[2] = n
            BY <2>0, <2>2
        <3>2. sends[b] = 0 /\ failures[b] = 0 /\ hookStalls[b] = 0
            <4>1. Len(callbacks[b[1]]) = n - 1 /\ b[2] = n /\ n \in Nat
                BY <2>0, <3>1
            <4>2. ~(b[2] <= Len(callbacks[b[1]]))
                BY ONLY <4>1
            <4> QED
                BY ONLY <4>2, Posted(b) DEF Posted
        <3>3. hook'[b] = "wait" /\ sends'[b] = 0 /\ failures'[b] = 0 /\ hookStalls'[b] = 0
            BY ONLY <2>1, <3>1, <3>2
        <3> QED
            BY ONLY <3>3, WebhookAssumption DEF Attempted, Spare, Allowed
    <2>3. CASE b # <<m, n>>
        <3>1. hook'[b] = hook[b]
            BY <2>0, <2>3
        <3> QED
            BY <2>1, <3>1
    <2> QED
        BY <2>2, <2>3
<1>2. ASSUME NEW c \in Callbacks, Post(c)
      PROVE  Attempted(b)'
    BY <1>2 DEF Post
<1>3. ASSUME NEW c \in Callbacks, FailStalled(c)
      PROVE  Attempted(b)'
    BY SMTT(20), <1>3 DEF FailStalled
<1>4. ASSUME NEW c \in Callbacks, GiveUp(c)
      PROVE  Attempted(b)'
    BY <1>4 DEF GiveUp, hookVars
<1>5. ASSUME NEW c \in Callbacks, Finish(c)
      PROVE  Attempted(b)'
    BY <1>5 DEF Finish, IsPermanent
<1>6. ASSUME NEW c \in Callbacks, Fail(c)
      PROVE  Attempted(b)'
    BY SMTT(20), <1>6 DEF Fail, IsPermanent
<1>7. ASSUME NEW c \in Callbacks, Backoff(c)
      PROVE  Attempted(b)'
    BY <1>7 DEF Backoff
<1>8. ASSUME NEW c \in Callbacks, HookStall(c)
      PROVE  Attempted(b)'
    <2>1. CASE b = c
        <3>1. /\ hook[b] = "stalled" /\ hook'[b] = "wait" /\ hookStalls'[b] = hookStalls[b] + 1
              /\ failures'[b] = failures[b] /\ sends'[b] = sends[b]
            BY <1>8, <2>1 DEF HookStall
        <3>2. CASE hookStalls[b] < HookStalled
            BY <3>1, <3>2
        <3>3. CASE hookStalls[b] >= HookStalled
            BY <3>1, <3>3
        <3> QED
            BY <3>2, <3>3
    <2>2. CASE b # c
        BY <1>8, <2>2 DEF HookStall
    <2> QED
        BY <2>1, <2>2
<1>9. ASSUME NEW c \in Callbacks, NEW k \in 1..sends[c], Arrive(c, k)
      PROVE  Attempted(b)'
    BY <1>9 DEF Arrive, Apply, hookVars
<1>10. ASSUME Restart
      PROVE  Attempted(b)'
    BY <1>10 DEF Restart, HookCrash
<1>11. ASSUME NEW c \in Callbacks, HookLoseLock(c)
      PROVE  Attempted(b)'
    BY <1>11 DEF HookLoseLock
<1>12. CASE UNCHANGED vars
    BY <1>12 DEF vars, hookVars
<1> QED
    BY <1>1, <1>2, <1>3, <1>4, <1>5, <1>6, <1>7, <1>8, <1>9, <1>10, <1>11, <1>12
       DEF Next, HookStep

\* Jobs follow the callbacks.
LEMMA PostedStep ==
    ASSUME Types, NEW b \in Callbacks, [Next]_vars, Posted(b)
    PROVE  Posted(b)'
<1>0. b[1] \in Msgs /\ b[2] \in 1..MaxCallbacks /\ b = <<b[1], b[2]>>
      /\ Len(callbacks[b[1]]) \in Nat
    BY Places, LenProperties DEF Types
<1>e. ASSUME NEW m \in Msgs, NEW st \in Statuses, Enqueue(m, st)
      PROVE  \E n \in 1..MaxCallbacks : Grows(m, st, n)
    BY <1>e, Enqueued
<1> USE WebhookAssumption DEF Types, Ended, Posted
<1>1. ASSUME NEW m \in Msgs, NEW st \in Statuses, Enqueue(m, st)
      PROVE  Posted(b)'
    <2> PICK n \in 1..MaxCallbacks : Grows(m, st, n)
        BY <1>1, <1>e
    <2>0. Grows(m, st, n)
        OBVIOUS
    <2> USE DEF Grows
    <2>2. UNCHANGED <<sends, failures, hookStalls>>
        BY <1>1 DEF Enqueue
    <2>3. CASE b = <<m, n>>
        <3>1. hook'[b] = "wait" /\ b[1] = m /\ b[2] = n
            BY <2>0, <2>3
        <3>2. b[2] <= Len(callbacks'[b[1]])
            BY <2>0, <3>1
        <3> QED
            BY <3>1, <3>2
    <2>4. CASE b # <<m, n>>
        <3>1. hook'[b] = hook[b]
            BY <2>0, <2>4
        <3>2. CASE b[1] = m
            <4>1. b[2] # n
                BY <1>0, <2>4, <3>2
            <4>2. b[2] <= n - 1 <=> b[2] <= n
                BY ONLY <1>0, <4>1, n \in 1..MaxCallbacks, WebhookAssumption DEF WebhookAssumption
            <4>3. Len(callbacks'[b[1]]) = n /\ Len(callbacks[b[1]]) = n - 1
                BY <2>0, <3>2
            <4> QED
                BY <2>2, <3>1, <4>2, <4>3
        <3>3. CASE b[1] # m
            <4>1. callbacks'[b[1]] = callbacks[b[1]]
                BY <1>0, <2>0, <3>3
            <4> QED
                BY <2>2, <3>1, <4>1
        <3> QED
            BY <3>2, <3>3
    <2> QED
        BY <2>3, <2>4
<1>2. ASSUME NEW c \in Callbacks, Post(c)
      PROVE  Posted(b)'
    BY <1>2 DEF Post
<1>3. ASSUME NEW c \in Callbacks, FailStalled(c)
      PROVE  Posted(b)'
    BY <1>3 DEF FailStalled
<1>4. ASSUME NEW c \in Callbacks, GiveUp(c)
      PROVE  Posted(b)'
    BY <1>4 DEF GiveUp, hookVars
<1>5. ASSUME NEW c \in Callbacks, Finish(c)
      PROVE  Posted(b)'
    BY <1>5 DEF Finish, IsPermanent
<1>6. ASSUME NEW c \in Callbacks, Fail(c)
      PROVE  Posted(b)'
    BY <1>6 DEF Fail, IsPermanent
<1>7. ASSUME NEW c \in Callbacks, Backoff(c)
      PROVE  Posted(b)'
    BY <1>7 DEF Backoff
<1>8. ASSUME NEW c \in Callbacks, HookStall(c)
      PROVE  Posted(b)'
    BY <1>8 DEF HookStall
<1>9. ASSUME NEW c \in Callbacks, NEW k \in 1..sends[c], Arrive(c, k)
      PROVE  Posted(b)'
    BY <1>9 DEF Arrive, Apply, hookVars
<1>10. ASSUME Restart
      PROVE  Posted(b)'
    BY <1>10 DEF Restart, HookCrash
<1>11. ASSUME NEW c \in Callbacks, HookLoseLock(c)
      PROVE  Posted(b)'
    BY <1>11 DEF HookLoseLock
<1>12. CASE UNCHANGED vars
    BY <1>12 DEF vars, hookVars
<1> QED
    BY <1>1, <1>2, <1>3, <1>4, <1>5, <1>6, <1>7, <1>8, <1>9, <1>10, <1>11, <1>12
       DEF Next, HookStep

\* The worker acts on what the receiver said.
LEMMA AnsweredStep ==
    ASSUME Types, NEW b \in Callbacks, [Next]_vars, Answered(b), Posted(b)
    PROVE  Answered(b)'
<1>0. b[1] \in Msgs /\ b[2] \in 1..MaxCallbacks /\ b = <<b[1], b[2]>>
      /\ Len(callbacks[b[1]]) \in Nat
    BY Places, LenProperties DEF Types
<1>e. ASSUME NEW m \in Msgs, NEW st \in Statuses, Enqueue(m, st)
      PROVE  \E n \in 1..MaxCallbacks : Grows(m, st, n)
    BY <1>e, Enqueued
<1> USE WebhookAssumption DEF Types, Ended, Answered
<1>1. ASSUME NEW m \in Msgs, NEW st \in Statuses, Enqueue(m, st)
      PROVE  Answered(b)'
    <2> PICK n \in 1..MaxCallbacks : Grows(m, st, n)
        BY <1>1, <1>e
    <2>0. Grows(m, st, n)
        OBVIOUS
    <2> USE DEF Grows
    <2>1. UNCHANGED <<reply, got, seen>>
        BY <1>1 DEF Enqueue
    <2>2. CASE b = <<m, n>>
        <3>1. hook[b] = "none"
            <4>1. b[1] = m /\ b[2] = n
                BY <2>2
            <4> QED
                BY <1>0, <2>0, <4>1 DEF Posted
        <3>2. hook'[b] = "wait"
            BY <2>0, <2>2
        <3> QED
            BY <2>1, <3>1, <3>2
    <2>3. CASE b # <<m, n>>
        <3>1. hook'[b] = hook[b]
            BY <2>0, <2>3
        <3>2. hook[b] # "none" => callbacks'[b[1]][b[2]] = callbacks[b[1]][b[2]]
            <4>1. CASE b[1] # m
                BY <1>0, <2>0, <4>1
            <4>2. CASE b[1] = m /\ hook[b] # "none"
                <5>1. b[2] \in 1..n - 1
                    BY <1>0, <2>0, <4>2 DEF Posted
                <5> QED
                    BY <2>0, <4>2, <5>1
            <4> QED
                BY <4>1, <4>2
        <3> QED
            BY <2>1, <3>1, <3>2
    <2> QED
        BY <2>2, <2>3
<1>2. ASSUME NEW c \in Callbacks, Post(c)
      PROVE  Answered(b)'
    BY <1>2 DEF Post
<1>3. ASSUME NEW c \in Callbacks, FailStalled(c)
      PROVE  Answered(b)'
    BY <1>3 DEF FailStalled
<1>4. ASSUME NEW c \in Callbacks, GiveUp(c)
      PROVE  Answered(b)'
    BY <1>4 DEF GiveUp, hookVars
<1>5. ASSUME NEW c \in Callbacks, Finish(c)
      PROVE  Answered(b)'
    BY <1>5 DEF Finish, IsPermanent
<1>6. ASSUME NEW c \in Callbacks, Fail(c)
      PROVE  Answered(b)'
    BY <1>6 DEF Fail, IsPermanent
<1>7. ASSUME NEW c \in Callbacks, Backoff(c)
      PROVE  Answered(b)'
    BY <1>7 DEF Backoff
<1>8. ASSUME NEW c \in Callbacks, HookStall(c)
      PROVE  Answered(b)'
    BY <1>8 DEF HookStall
<1>9. ASSUME NEW c \in Callbacks, NEW k \in 1..sends[c], Arrive(c, k)
      PROVE  Answered(b)'
    <2>1. PICK a \in Answers :
             /\ reply' = IF hook[c] = "active" /\ k = sends[c]
                         THEN [reply EXCEPT ![c] = a] ELSE reply
             /\ got' = [got EXCEPT ![c] = @ \union ({a} \ {"busy"})]
             /\ IF a = "ok" THEN Apply(c[1], c[2]) ELSE UNCHANGED <<seen, newest>>
        BY <1>9 DEF Arrive
    <2>2. UNCHANGED <<callbacks, hook>>
        BY <1>9 DEF Arrive, hookVars
    <2>3. seen[b[1]] \subseteq seen'[b[1]] /\ got[b] \subseteq got'[b]
        <3>1. got[b] \subseteq got'[b]
            BY <2>1
        <3>2. seen' = seen \/ seen' = [seen EXCEPT ![c[1]] = @ \union {callbacks[c[1]][c[2]]}]
            BY <2>1 DEF Apply
        <3>3. seen[b[1]] \subseteq seen'[b[1]]
            <4> DEFINE st == callbacks[c[1]][c[2]]
            <4>1. seen' = seen \/ seen' = [seen EXCEPT ![c[1]] = @ \union {st}]
                BY <3>2
            <4> HIDE DEF st
            <4>2. seen'[b[1]] = seen[b[1]] \/ seen'[b[1]] = seen[b[1]] \union {st}
                BY ONLY <1>0, <4>1, seen \in [Msgs -> SUBSET Statuses]
            <4> QED
                BY ONLY <4>2
        <3> QED
            BY <3>1, <3>3
    <2>4. CASE b = c
        <3>1. a = "ok" => callbacks[b[1]][b[2]] \in seen'[b[1]]
            BY SMTT(20), <1>0, <2>1, <2>4 DEF Apply
        <3>2. a = "reject" => "reject" \in got'[b]
            BY <2>1, <2>4
        <3>3. reply'[b] = reply[b] \/ (reply'[b] = a /\ hook[b] = "active")
            BY <2>1, <2>4
        <3> QED
            BY <2>2, <2>3, <3>1, <3>2, <3>3
    <2>5. CASE b # c
        <3>1. reply'[b] = reply[b]
            BY <2>1, <2>5
        <3> QED
            BY <2>2, <2>3, <3>1
    <2> QED
        BY <2>4, <2>5
<1>10. ASSUME Restart
      PROVE  Answered(b)'
    BY <1>10 DEF Restart, HookCrash
<1>11. ASSUME NEW c \in Callbacks, HookLoseLock(c)
      PROVE  Answered(b)'
    BY <1>11 DEF HookLoseLock
<1>12. CASE UNCHANGED vars
    BY <1>12 DEF vars, hookVars
<1> QED
    BY <1>1, <1>2, <1>3, <1>4, <1>5, <1>6, <1>7, <1>8, <1>9, <1>10, <1>11, <1>12
       DEF Next, HookStep

-----------------------------------------------------------------------------
\* One more callback of a message changes nothing at its receiver.
LEMMA HearsNothing ==
    ASSUME NEW q, NEW r, NEW S, NEW k, NEW n \in Nat \ {0}, Knows(q, S, k),
           Len(q) = n - 1, Len(r) = n,
           \A i \in 1..n - 1 : r[i] = q[i] /\ q[i] = "retrying"
    PROVE  Knows(r, S, k)
<1> USE DEF Knows
<1>1. k \in 0..n /\ (k > 0 => r[k] \in S)
    <2>1. k \in 0..n - 1
        OBVIOUS
    <2>2. k > 0 => k \in 1..n - 1
        BY ONLY <2>1, n \in Nat \ {0}
    <2>3. k \in 0..n
        BY ONLY <2>1, n \in Nat \ {0}
    <2> QED
        BY <2>2, <2>3
<1>2. ASSUME NEW st \in S
      PROVE  \E i \in 1..n - 1 : q[i] = st /\ r[i] = st
    OBVIOUS
<1>3. 1..n - 1 \subseteq 1..n
    BY ONLY n \in Nat \ {0}
<1>4. \A st \in S : \E i \in 1..n : r[i] = st
    BY <1>2, <1>3
<1>5. ASSUME NEW i \in 1..n, r[i] \in S
      PROVE  k > 0 /\ (r[i] # "retrying" => k = i)
    <2>1. CASE i \in 1..n - 1
        BY <1>5, <2>1
    <2>2. CASE i \notin 1..n - 1
        <3>1. PICK j \in 1..n - 1 : q[j] = r[i]
            BY <1>2, <1>5
        <3>2. q[j] = "retrying" /\ q[j] \in S
            BY <1>5, <3>1
        <3> QED
            BY <3>1, <3>2
    <2> QED
        BY <2>1, <2>2
<1> QED
    BY <1>1, <1>4, <1>5

\* The receiver handles a callback (README.md:256).
LEMMA Hears ==
    ASSUME NEW q, NEW S, NEW k, Knows(q, S, k), Len(q) \in Nat, NEW p \in 1..Len(q),
           \A i \in 1..Len(q) : i < Len(q) => q[i] = "retrying"
    PROVE  Knows(q, S \union {q[p]}, IF q[p] \notin S /\ p > k THEN p ELSE k)
<1> DEFINE st == q[p]
           l == IF st \notin S /\ p > k THEN p ELSE k
           L == Len(q)
<1>0. /\ k \in 0..L /\ L \in Nat /\ p \in 1..L
      /\ k > 0 => q[k] \in S
      /\ \A x \in S : \E i \in 1..L : q[i] = x
      /\ \A i \in 1..L : q[i] \in S => k > 0 /\ (q[i] # "retrying" => k = i)
      /\ \A i \in 1..L : i < L => q[i] = "retrying"
    BY DEF Knows
<1>1. CASE st \in S
    <2>1. S \union {st} = S /\ l = k
        BY <1>1
    <2> QED
        BY <2>1
<1>2. CASE st \notin S
    <2>1. l = IF p > k THEN p ELSE k
        BY <1>2
    <2> HIDE DEF L, l
    <2>2. l \in 1..L
        BY <1>0, <2>1
    <2>3. q[l] \in S \union {st}
        <3>1. CASE p > k
            BY <2>1, <3>1
        <3>2. CASE ~(p > k)
            <4>1. l = k /\ k > 0
                BY <1>0, <2>1, <3>2
            <4> QED
                BY <1>0, <4>1
        <3> QED
            BY <3>1, <3>2
    <2>4. \A x \in S \union {st} : \E i \in 1..L : q[i] = x
        BY <1>0
    <2>5. ASSUME NEW i \in 1..L, q[i] \in S \union {st}, q[i] # "retrying"
          PROVE  l = i
        <3>1. i = L
            BY <1>0, <2>5
        <3>2. CASE q[i] \in S
            <4>1. k = L
                BY <1>0, <2>5, <3>1, <3>2
            <4> QED
                BY <1>0, <2>1, <3>1, <4>1
        <3>3. CASE q[i] = st
            <4>1. p = L
                BY <1>0, <2>5, <3>3
            <4> QED
                BY <1>0, <2>1, <3>1, <4>1
        <3> QED
            BY <2>5, <3>2, <3>3
    <2>6. l > 0 /\ l \in 0..L
        BY <1>0, <2>2
    <2> QED
        BY <2>3, <2>4, <2>5, <2>6 DEF Knows, L, l
<1> QED
    BY <1>1, <1>2

-----------------------------------------------------------------------------
\* Only Enqueue adds a callback, only an answered POST changes the receiver.
LEMMA OnlyPosts ==
    ASSUME [Next]_vars
    PROVE  \/ \E m \in Msgs, st \in Statuses : Enqueue(m, st)
           \/ \E c \in Callbacks : \E k \in 1..sends[c] : Arrive(c, k)
           \/ UNCHANGED <<callbacks, seen, newest>>
BY DEF Next, HookStep, vars, hookVars, Post, FailStalled, GiveUp, Finish, Fail, Backoff,
       HookLoseLock, HookStall, Restart, HookCrash

\* A POST on the wire was made.
LEMMA OnWireStep ==
    ASSUME Types, OnWire, [Next]_vars
    PROVE  OnWire'
<1>1. ASSUME NEW c \in Callbacks, Post(c)
      PROVE  OnWire'
    <2>1. /\ sends' = [sends EXCEPT ![c] = sends[c] + 1] /\ sends \in [Callbacks -> Nat]
          /\ wire' = wire \union {<<c[1], c[2], sends[c] + 1>>}
        BY <1>1 DEF Post, Types
    <2>2. ASSUME NEW p \in wire'
          PROVE  \E d \in Callbacks : \E k \in 1..sends'[d] : p = <<d[1], d[2], k>>
        <3>1. CASE p \in wire
            <4>0. PICK d \in Callbacks : \E k \in 1..sends[d] : p = <<d[1], d[2], k>>
                BY <3>1 DEF OnWire
            <4>1. PICK k \in 1..sends[d] : p = <<d[1], d[2], k>>
                BY <4>0
            <4>2. k \in 1..sends'[d]
                BY ONLY <2>1, d \in Callbacks, c \in Callbacks, k \in 1..sends[d]
            <4> QED
                BY <4>1, <4>2
        <3>2. CASE p = <<c[1], c[2], sends[c] + 1>>
            <4>1. sends[c] + 1 \in 1..sends'[c]
                BY <2>1
            <4> QED
                BY <3>2, <4>1
        <3> QED
            BY <2>1, <2>2, <3>1, <3>2
    <2> QED
        BY <2>2 DEF OnWire
<1>2. CASE wire' \subseteq wire /\ sends' = sends
    BY <1>2 DEF OnWire
<1>3. (\E c \in Callbacks : Post(c)) \/ (wire' \subseteq wire /\ sends' = sends)
    BY DEF Next, HookStep, vars, hookVars, Enqueue, FailStalled, GiveUp, Finish, Fail,
           Backoff, HookLoseLock, HookStall, Restart, HookCrash, Arrive
<1> QED
    BY <1>1, <1>2, <1>3

\* Callbacks are only added, and there is a place for each.
LEMMA CountedStep ==
    ASSUME Types, JobInv, NEW x \in Msgs, Counted(x), [Next]_vars
    PROVE  Counted(x)'
<1>0. Len(callbacks[x]) \in Nat
    BY LenProperties DEF Types
<1>1. ASSUME NEW m \in Msgs, NEW st \in Statuses, Enqueue(m, st)
      PROVE  Counted(x)'
    <2>1. PICK n \in 1..MaxCallbacks : Grows(m, st, n)
        BY <1>1, Enqueued
    <2>2. newest' = newest
        BY <1>1 DEF Enqueue
    <2>3. CASE x = m
        <3>1. Len(callbacks[x]) = n - 1 /\ Len(callbacks'[x]) = n
            BY <2>1, <2>3 DEF Grows
        <3> QED
            BY <1>0, <2>2, <3>1, WebhookAssumption DEF Counted, WebhookAssumption
    <2>4. CASE x # m
        BY <2>1, <2>2, <2>4 DEF Grows, Counted
    <2> QED
        BY <2>3, <2>4
<1>2. ASSUME NEW c \in Callbacks, NEW k \in 1..sends[c], Arrive(c, k)
      PROVE  Counted(x)'
    <2>1. UNCHANGED callbacks /\ (Apply(c[1], c[2]) \/ UNCHANGED <<seen, newest>>)
        BY <1>2 DEF Arrive
    <2>2. c[1] = x => c[2] \in 1..Len(callbacks[x])
        <3>1. c[2] \in 1..MaxCallbacks /\ sends[c] \in Nat /\ sends[c] # 0
            BY Places DEF Types
        <3>2. c[2] <= Len(callbacks[c[1]])
            BY <3>1 DEF JobInv, Posted
        <3> QED
            BY <1>0, <3>1, <3>2
    <2>3. newest'[x] = newest[x] \/ newest'[x] \in 1..Len(callbacks[x])
        BY <2>1, <2>2 DEF Apply, Types
    <2> QED
        BY <1>0, <2>1, <2>3 DEF Counted
<1>3. CASE UNCHANGED <<callbacks, seen, newest>>
    BY <1>3 DEF Counted
<1> QED
    BY <1>1, <1>2, <1>3, OnlyPosts

\* A list of callbacks that is in order was so before the last one.
LEMMA WasInOrder ==
    ASSUME Types, NEW x \in Msgs, [Next]_vars, LastIsFinal(x)'
    PROVE  LastIsFinal(x)
<1>1. ASSUME NEW m \in Msgs, NEW st \in Statuses, Enqueue(m, st)
      PROVE  LastIsFinal(x)
    <2>1. PICK n \in 1..MaxCallbacks : Grows(m, st, n)
        BY <1>1, Enqueued
    <2>2. CASE x = m
        <3>1. /\ Len(callbacks'[x]) = n /\ Len(callbacks[x]) = n - 1
              /\ \A i \in 1..n - 1 : callbacks'[x][i] = callbacks[x][i]
            BY <2>1, <2>2 DEF Grows
        <3>2. \A i \in 1..n - 1 : i \in 1..n /\ i < n
            BY ONLY n \in 1..MaxCallbacks, WebhookAssumption DEF WebhookAssumption
        <3>3. \A i \in 1..n - 1 : callbacks[x][i] = "retrying"
            BY <3>1, <3>2 DEF LastIsFinal
        <3> QED
            BY <3>1, <3>3 DEF LastIsFinal
    <2>3. CASE x # m
        BY <2>1, <2>3 DEF Grows, LastIsFinal
    <2> QED
        BY <2>2, <2>3
<1>2. CASE callbacks' = callbacks
    BY <1>2 DEF LastIsFinal
<1>3. (\E m \in Msgs, st \in Statuses : Enqueue(m, st)) \/ callbacks' = callbacks
    BY OnlyPosts DEF Arrive
<1> QED
    BY <1>1, <1>2, <1>3

\* The receiver keeps to what it has seen.
LEMMA ReceivesStep ==
    ASSUME Types, JobInv, NEW x \in Msgs, LastIsFinal(x) => Receives(x), [Next]_vars,
           LastIsFinal(x)'
    PROVE  Receives(x)'
<1>r. LastIsFinal(x) /\ Receives(x)
    BY WasInOrder
<1>0. callbacks[x] \in Seq(Statuses) /\ Len(callbacks[x]) \in Nat
    BY LenProperties DEF Types
<1>p. ASSUME Knows(callbacks'[x], seen'[x], newest'[x])
      PROVE  Receives(x)'
    BY <1>p DEF Receives, Knows
<1>k. ASSUME callbacks'[x] = callbacks[x], seen'[x] = seen[x], newest'[x] = newest[x]
      PROVE  Receives(x)'
    <2>1. Knows(callbacks[x], seen[x], newest[x])
        BY <1>r DEF Receives
    <2> QED
        BY <1>k, <1>p, <2>1
<1>1. ASSUME NEW m \in Msgs, NEW st \in Statuses, Enqueue(m, st)
      PROVE  Receives(x)'
    <2>1. PICK n \in 1..MaxCallbacks : Grows(m, st, n)
        BY <1>1, Enqueued
    <2>2. UNCHANGED <<seen, newest>>
        BY <1>1 DEF Enqueue
    <2>3. CASE x = m
        <3>1. /\ Len(callbacks[x]) = n - 1 /\ Len(callbacks'[x]) = n
              /\ \A i \in 1..n - 1 : callbacks'[x][i] = callbacks[x][i]
            BY <2>1, <2>3 DEF Grows
        <3>2. n \in Nat \ {0} /\ \A i \in 1..n - 1 : i \in 1..n /\ i < n
            BY ONLY n \in 1..MaxCallbacks, WebhookAssumption DEF WebhookAssumption
        <3>r. \A i \in 1..n - 1 : callbacks[x][i] = "retrying"
            BY <3>1, <3>2 DEF LastIsFinal
        <3>3. Knows(callbacks[x], seen[x], newest[x])
            BY <1>r DEF Receives
        <3>4. Knows(callbacks'[x], seen[x], newest[x])
            BY <3>1, <3>2, <3>3, <3>r, HearsNothing
        <3> QED
            BY <1>p, <2>2, <3>4
    <2>4. CASE x # m
        <3>1. callbacks'[x] = callbacks[x] /\ UNCHANGED <<seen, newest>>
            BY <2>1, <2>2, <2>4 DEF Grows
        <3> QED
            BY <1>k, <3>1
    <2> QED
        BY <2>3, <2>4
<1>2. ASSUME NEW c \in Callbacks, NEW k \in 1..sends[c], Arrive(c, k)
      PROVE  Receives(x)'
    <2>1. UNCHANGED callbacks /\ (Apply(c[1], c[2]) \/ UNCHANGED <<seen, newest>>)
        BY <1>2 DEF Arrive
    <2>2. CASE Apply(c[1], c[2]) /\ c[1] = x
        <3>1. c[2] \in 1..Len(callbacks[x])
            <4>1. c[1] \in Msgs /\ c[2] \in 1..MaxCallbacks
                BY Places
            <4>2. sends[c] \in Nat /\ sends[c] # 0
                BY DEF Types
            <4>3. c[2] <= Len(callbacks[x])
                BY <2>2, <4>2 DEF JobInv, Posted
            <4> QED
                BY <1>0, <4>1, <4>3
        <3>2. Knows(callbacks[x], seen[x] \union {callbacks[x][c[2]]},
                    IF callbacks[x][c[2]] \notin seen[x] /\ c[2] > newest[x]
                    THEN c[2] ELSE newest[x])
            BY <1>0, <1>r, <3>1, Hears DEF LastIsFinal, Receives
        <3>3. /\ seen'[x] = seen[x] \union {callbacks[x][c[2]]}
              /\ newest'[x] = IF callbacks[x][c[2]] \notin seen[x] /\ c[2] > newest[x]
                              THEN c[2] ELSE newest[x]
            BY <2>2 DEF Apply, Types
        <3>4. Knows(callbacks'[x], seen'[x], newest'[x])
            BY <2>1, <3>2, <3>3
        <3> QED
            BY <1>p, <3>4
    <2>3. CASE Apply(c[1], c[2]) /\ c[1] # x
        <3>1. seen'[x] = seen[x] /\ newest'[x] = newest[x]
            BY <2>3 DEF Apply, Types
        <3> QED
            BY <1>k, <2>1, <3>1
    <2>4. CASE UNCHANGED <<seen, newest>>
        BY <1>k, <2>1, <2>4
    <2> QED
        BY <2>1, <2>2, <2>3, <2>4
<1>3. CASE UNCHANGED <<callbacks, seen, newest>>
    BY <1>k, <1>3
<1> QED
    BY <1>1, <1>2, <1>3, OnlyPosts

-----------------------------------------------------------------------------
LEMMA HookInvInit ==
    ASSUME Init
    PROVE  HookInv
<1> USE WebhookAssumption DEF Init, HookInit
<1>1. ASSUME NEW m \in Msgs
      PROVE  callbacks[m] = <<>> /\ Len(callbacks[m]) = 0 /\ seen[m] = {} /\ newest[m] = 0
    OBVIOUS
<1>2. callbacks \in [Msgs -> Seq(Statuses)]
    <2>1. <<>> \in Seq(Statuses)
        BY EmptySeq
    <2> QED
        BY <2>1
<1>3. Types
    BY <1>2 DEF Types, Ended
<1>4. ASSUME NEW c \in Callbacks
      PROVE  Attempted(c) /\ Posted(c) /\ Answered(c)
    <2>1. /\ hook[c] = "none" /\ failures[c] = 0 /\ hookStalls[c] = 0 /\ sends[c] = 0
          /\ reply[c] = "none" /\ got[c] = {}
        OBVIOUS
    <2>2. c[1] \in Msgs /\ c[2] \in 1..MaxCallbacks
        BY Places
    <2>3. ~(c[2] <= Len(callbacks[c[1]]))
        BY <1>1, <2>2
    <2>4. Attempted(c)
        BY <2>1 DEF Attempted, Spare, Allowed
    <2> QED
        BY <2>1, <2>3, <2>4 DEF Posted, Answered
<1>5. MsgInv
    BY <1>1 DEF MsgInv, Counted, Receives, Knows
<1>6. OnWire
    BY DEF OnWire
<1> QED
    BY <1>3, <1>4, <1>5, <1>6 DEF HookInv, JobInv

LEMMA HookInvStep ==
    ASSUME HookInv, [Next]_vars
    PROVE  HookInv'
<1>0. Types /\ JobInv /\ OnWire /\ MsgInv
    BY DEF HookInv
<1>1. Types'
    BY <1>0, TypesStep
<1>2. OnWire'
    BY <1>0, OnWireStep
<1>3. ASSUME NEW c \in Callbacks
      PROVE  Attempted(c)' /\ Posted(c)' /\ Answered(c)'
    <2>1. Attempted(c) /\ Posted(c) /\ Answered(c)
        BY <1>0 DEF JobInv
    <2> QED
        BY <1>0, <2>1, AttemptedStep, PostedStep, AnsweredStep
<1>4. ASSUME NEW x \in Msgs
      PROVE  Counted(x)' /\ (LastIsFinal(x)' => Receives(x)')
    <2>1. Counted(x) /\ (LastIsFinal(x) => Receives(x))
        BY <1>0 DEF MsgInv
    <2> QED
        BY <1>0, <2>1, CountedStep, ReceivesStep
<1> QED
    BY <1>1, <1>2, <1>3, <1>4 DEF HookInv, JobInv, MsgInv

LEMMA HookInvariance == Spec => []HookInv
<1>1. Init => HookInv
    BY HookInvInit
<1>2. HookInv /\ [Next]_vars => HookInv'
    BY HookInvStep
<1> QED
    BY <1>1, <1>2, PTL DEF Spec

-----------------------------------------------------------------------------
\* The delivery worker's state is what it should be; above all no callback is
\* POSTed more than `Attempts` times, once more per tolerated stall
\* (webhook.config.js:45-53, 132-140).
THEOREM WebhookIsTyped == Spec => []TypeOK
<1>1. HookInv => TypeOK
    <2> SUFFICES ASSUME HookInv
                 PROVE  TypeOK
        OBVIOUS
    <2> USE WebhookAssumption
    <2>0. Types /\ JobInv /\ OnWire /\ MsgInv
        BY DEF HookInv
    <2>1. ASSUME NEW c \in Callbacks
          PROVE  failures[c] \in 0..Attempts + 1 /\ sends[c] <= Attempts + HookStalled
        <3>1. Attempted(c) /\ failures[c] \in Nat /\ sends[c] \in Nat /\ hookStalls[c] \in Nat
            BY <2>0 DEF JobInv, Types
        <3>2. sends[c] <= Allowed(c)
            BY <3>1 DEF Attempted, Spare, Allowed
        <3>3. Allowed(c) <= Attempts + HookStalled /\ Allowed(c) \in Nat
            BY <3>1 DEF Allowed
        <3>4. failures[c] \in 0..Attempts + 1
            BY <3>1 DEF Attempted
        <3> QED
            BY <3>1, <3>2, <3>3, <3>4
    <2>2. ASSUME NEW p \in wire
          PROVE  p \in {<<c[1], c[2], k>> : c \in Callbacks, k \in 1..Attempts + HookStalled}
        <3>0. PICK c \in Callbacks : \E k \in 1..sends[c] : p = <<c[1], c[2], k>>
            BY <2>0 DEF OnWire
        <3>1. PICK k \in 1..sends[c] : p = <<c[1], c[2], k>>
            BY <3>0
        <3>2. sends[c] <= Attempts + HookStalled /\ sends[c] \in Nat
            BY <2>0, <2>1 DEF Types
        <3>3. k \in 1..Attempts + HookStalled
            BY <3>2
        <3> QED
            BY <3>1, <3>3
    <2>3. ASSUME NEW m \in Msgs
          PROVE  newest[m] \in 0..MaxCallbacks
        <3>1. Len(callbacks[m]) \in Nat
            BY <2>0, LenProperties DEF Types
        <3> QED
            BY <2>0, <3>1, WebhookAssumption DEF MsgInv, Counted
    <2>4. failures \in [Callbacks -> 0..Attempts + 1] /\ newest \in [Msgs -> 0..MaxCallbacks]
        BY <2>0, <2>1, <2>3 DEF Types
    <2>5. wire \subseteq {<<c[1], c[2], k>> : c \in Callbacks, k \in 1..Attempts + HookStalled}
        BY <2>2
    <2> QED
        BY <2>0, <2>1, <2>4, <2>5 DEF Types, TypeOK
<1> QED
    BY <1>1, HookInvariance, PTL

\* A callback is dropped only after a permanent reject, and failed only after
\* all its attempts or at one stall too many: a restart of the gateway costs it
\* no attempt (webhook.config.js:92-95, 128-140).
THEOREM CallbacksAreTriedInFull == Spec => []GivenUpOnlyWhenSpent
<1>1. HookInv => GivenUpOnlyWhenSpent
    <2> SUFFICES ASSUME HookInv, NEW c \in Callbacks
                 PROVE  /\ hook[c] = "dropped" => "reject" \in got[c]
                        /\ hook[c] = "failed" /\ hookStalls[c] <= HookStalled
                              => sends[c] >= Attempts
        BY DEF GivenUpOnlyWhenSpent
    <2>1. Attempted(c) /\ Answered(c) /\ hookStalls[c] \in Nat
        BY DEF HookInv, JobInv, Types
    <2>2. HookStalled \in Nat
        BY WebhookAssumption
    <2> QED
        BY <2>1, <2>2 DEF Attempted, Answered
<1> QED
    BY <1>1, HookInvariance, PTL

\* A receiver that drops what it has seen and keeps the latest of the rest
\* (README.md:256) ends with the message's last status, whatever the network
\* lost, delayed, repeated or reordered, if that is its only final one.
THEOREM ReceiversConverge == Spec => []ReceiverConverges
<1>1. HookInv => ReceiverConverges
    <2> SUFFICES ASSUME HookInv, NEW m \in Msgs, Len(callbacks[m]) > 0,
                        \A i \in 1..Len(callbacks[m]) : hook[<<m, i>>] = "done",
                        \A i \in 1..Len(callbacks[m]) - 1 : callbacks[m][i] = "retrying"
                 PROVE  Shown(m) = callbacks[m][Len(callbacks[m])]
        BY DEF ReceiverConverges
    <2> DEFINE n == Len(callbacks[m])
               k == newest[m]
    <2>0. n \in Nat \ {0} /\ n <= MaxCallbacks
        BY LenProperties DEF HookInv, MsgInv, Counted, Types
    <2>1. LastIsFinal(m) /\ Receives(m) /\ n \in Nat \ {0} /\ n <= MaxCallbacks
        <3>1. \A i \in 1..n : i < n => i \in 1..n - 1
            BY <2>0
        <3>2. LastIsFinal(m)
            BY <3>1 DEF LastIsFinal
        <3> QED
            BY <2>0, <3>2 DEF HookInv, MsgInv
    <2>2. <<m, n>> \in Callbacks
        BY <2>1, WebhookAssumption DEF Callbacks
    <2>3. Answered(<<m, n>>) /\ hook[<<m, n>>] = "done"
        BY <2>1, <2>2 DEF HookInv, JobInv
    <2>4. callbacks[m][n] \in seen[m]
        BY <2>3 DEF Answered
    <2>5. k > 0 /\ k \in 0..n /\ (callbacks[m][n] # "retrying" => k = n)
        BY <2>1, <2>4 DEF Receives, Knows
    <2>6. CASE k = n
        BY <2>5, <2>6 DEF Shown
    <2>7. CASE k # n
        <3>1. k \in 1..n /\ k < n
            BY <2>1, <2>5, <2>7
        <3>2. callbacks[m][n] = "retrying"
            BY <2>5, <2>7
        <3>3. \A i \in 1..n : i < n => callbacks[m][i] = "retrying"
            BY <2>1 DEF LastIsFinal
        <3>4. callbacks[m][k] = "retrying"
            BY ONLY <3>1, <3>3
        <3> QED
            BY <2>5, <3>2, <3>4 DEF Shown
    <2> QED
        BY <2>6, <2>7
<1> QED
    BY <1>1, HookInvariance, PTL
=============================================================================

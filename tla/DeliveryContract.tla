-------------------------- MODULE DeliveryContract --------------------------
(***************************************************************************)
(* What the gateway promises about double sends, without saying how: a     *)
(* message is tried again only when no earlier try can have reached the    *)
(* network, except for tries whose fate nobody could learn.                *)
(*                                                                         *)
(* The promise is the one of the comments at bull.config.js:62 ("retrying  *)
(* could double-send, so fail permanently instead") and :80 ("never fail   *)
(* (and re-send) a delivered SMS").                                        *)
(***************************************************************************)
EXTENDS Integers

CONSTANT Msgs

VARIABLES
    runs,    \* tries begun
    copies,  \* tries whose copy a modem took
    excused  \* tries of unknown fate

vars == <<runs, copies, excused>>

Init ==
    /\ runs = [m \in Msgs |-> 0]
    /\ copies = [m \in Msgs |-> {}]
    /\ excused = [m \in Msgs |-> {}]

\* A new try: every copy out there belongs to a try of unknown fate.
Begin(m) ==
    /\ copies[m] \subseteq excused[m]
    /\ runs' = [runs EXCEPT ![m] = @ + 1]
    /\ UNCHANGED <<copies, excused>>

\* A modem takes the copy of the latest try, or of one given up as unknown.
HandOver(m, i) ==
    /\ i \in 1..runs[m]
    /\ i = runs[m] \/ i \in excused[m]
    /\ copies' = [copies EXCEPT ![m] = @ \union {i}]
    /\ UNCHANGED <<runs, excused>>

\* The modem says it did not send it after all.
Refuse(m, i) ==
    /\ i \in copies[m]
    /\ copies' = [copies EXCEPT ![m] = @ \ {i}]
    /\ UNCHANGED <<runs, excused>>

\* Nobody will know what became of a try.
Doubt(m, i) ==
    /\ i \in 1..runs[m]
    /\ excused' = [excused EXCEPT ![m] = @ \union {i}]
    /\ UNCHANGED <<runs, copies>>

Next == \E m \in Msgs : \/ Begin(m)
                        \/ \E i \in 1..runs[m] : \/ HandOver(m, i)
                                                 \/ Refuse(m, i)
                                                 \/ Doubt(m, i)

Spec == Init /\ [][Next]_vars

-----------------------------------------------------------------------------
TypeOK ==
    /\ runs \in [Msgs -> Nat]
    /\ copies \in [Msgs -> SUBSET (Nat \ {0})]
    /\ excused \in [Msgs -> SUBSET (Nat \ {0})]

\* A copy sent by a try that was followed by another one is a copy the gateway
\* could not have known about: no avoidable double send
\* (bull.config.js:59-67 and 79-82).
NoAvoidableDuplicate ==
    \A m \in Msgs : \A i \in copies[m] : i < runs[m] => i \in excused[m]

\* Every copy belongs to a try that was really begun, and so does every doubt.
CopiesAreRuns ==
    \A m \in Msgs : copies[m] \subseteq 1..runs[m] /\ excused[m] \subseteq 1..runs[m]
=============================================================================

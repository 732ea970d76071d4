-------------------------------- MODULE Inbox --------------------------------
(***************************************************************************)
(* Incoming SMS of one modem on their way into received_messages.  A read  *)
(* (GET /sms/messages or a poll-inbox job, one at a time on the modem's    *)
(* chain) lists what the modem holds, persists it and deletes it from the  *)
(* modem, while new messages arrive.  The three drivers list and delete    *)
(* differently:                                                            *)
(*   serial  AT+CMGL, then one AT+CMGD per storage index                   *)
(*   zte     login, sms_data_total, then one DELETE_SMS for all            *)
(*   adb     the phone's incoming.jsonl is appended to a reading file and  *)
(*           removed, the reading file printed, in the end removed         *)
(*                                                                         *)
(* Sources: utils/inbox-sync.js, store/inbox-store.js and getMessages of   *)
(* utils/modem.js, utils/zte-http.js, utils/adb.js; SmsReceiver.java.      *)
(***************************************************************************)
EXTENDS Integers, Sequences, FiniteSets

CONSTANTS
    Msgs, NoMsg,
    Drivers,     \* the driver of the modem is one of these
    Capacity,    \* messages the SIM holds
    FaultKinds,  \* faults the environment may inject
    MaxFaults    \* bound: how many of them

ASSUME InboxAssumption ==
    /\ NoMsg \notin Msgs
    /\ Drivers \subseteq {"serial", "zte", "adb"}
    /\ Capacity \in Nat \ {0} /\ MaxFaults \in Nat
    /\ FaultKinds \subseteq {"crash", "db", "modem"}

VARIABLES
    driver,
    sim,      \* serial, zte: the message at each storage index
    log,      \* adb: incoming.jsonl
    reading,  \* adb: incoming.reading.jsonl
    stage,    \* what the running read does next
    listing,  \* what it listed and has not deleted: index (adb: line) and message
    stored,   \* rows of received_messages per message
    arrived,  \* history: messages the network delivered
    dropped,  \* history: removed with the reading file and not stored
    raced,    \* history: captured between the copy of the log and its removal
    faults    \* the faults injected so far

modemVars == <<sim, log, reading>>
vars == <<driver, modemVars, stage, listing, stored, arrived, dropped, raced, faults>>

InFile(f) == {f[i] : i \in DOMAIN f}
OnModem == ({sim[i] : i \in 1..Capacity} \ {NoMsg})
           \union InFile(log) \union InFile(reading)

\* A listed message of a SIM has an index to delete it by.
Entries == [index : IF driver = "adb" THEN Nat ELSE 1..Capacity, msg : Msgs]

TypeOK ==
    /\ driver \in Drivers
    /\ sim \in [1..Capacity -> Msgs \union {NoMsg}]
    /\ log \in Seq(Msgs) /\ reading \in Seq(Msgs)
    /\ stage \in {"idle", "login", "list", "fold", "unlink", "emit", "persist", "delete"}
    /\ listing \subseteq Entries
    /\ stored \in [Msgs -> Nat]
    /\ arrived \subseteq Msgs /\ dropped \subseteq arrived /\ raced \subseteq arrived
    /\ faults \in Seq(FaultKinds)

Init ==
    /\ driver \in Drivers
    /\ sim = [i \in 1..Capacity |-> NoMsg]
    /\ log = <<>> /\ reading = <<>>
    /\ stage = "idle" /\ listing = {}
    /\ stored = [m \in Msgs |-> 0]
    /\ arrived = {} /\ dropped = {} /\ raced = {}
    /\ faults = <<>>

Fault(k) ==
    k \in FaultKinds /\ Len(faults) < MaxFaults /\ faults' = Append(faults, k)
NoFault == UNCHANGED faults

-----------------------------------------------------------------------------
\* A message arrives: at a free index, or as a line SmsReceiver appends to the
\* log.  The network keeps what a full SIM refuses.
Arrive(m) ==
    /\ m \notin arrived
    /\ arrived' = arrived \union {m}
    /\ IF driver = "adb"
       THEN log' = Append(log, m) /\ UNCHANGED sim
       ELSE /\ \E i \in 1..Capacity : sim[i] = NoMsg /\ sim' = [sim EXCEPT ![i] = m]
            /\ UNCHANGED log
    /\ UNCHANGED <<driver, reading, stage, listing, stored, dropped, raced, faults>>

\* getMessages has the modem.
Begin ==
    /\ stage = "idle"
    /\ stage' = CASE driver = "serial" -> "list"
                  [] driver = "zte"    -> "login"
                  [] driver = "adb"    -> "fold"
    /\ UNCHANGED <<driver, modemVars, listing, stored, arrived, dropped, raced, faults>>

\* The read throws: nothing more is deleted.
Abort == stage' = "idle" /\ listing' = {}

\* ensureAuthedForRead.
Login ==
    /\ stage = "login"
    /\ \/ stage' = "list" /\ UNCHANGED listing /\ NoFault
       \/ Abort /\ Fault("modem")
    /\ UNCHANGED <<driver, modemVars, stored, arrived, dropped, raced>>

\* The occupied indexes.
Occupied == {[index |-> i, msg |-> sim[i]] : i \in {k \in 1..Capacity : sim[k] # NoMsg}}

\* serial: AT+CMGL, or it throws.
ListIndexes ==
    /\ stage = "list" /\ driver = "serial"
    /\ \/ listing' = Occupied /\ stage' = "persist" /\ NoFault
       \/ Abort /\ Fault("modem")
    /\ UNCHANGED <<driver, modemVars, stored, arrived, dropped, raced>>

\* zte: sms_data_total; a session that expired since the login lists nothing.
ListTotal ==
    /\ stage = "list" /\ driver = "zte"
    /\ \/ listing' = Occupied /\ stage' = "persist" /\ NoFault
       \/ listing' = {} /\ stage' = "persist" /\ Fault("modem")
       \/ Abort /\ Fault("modem")
    /\ UNCHANGED <<driver, modemVars, stored, arrived, dropped, raced>>

\* The drain command on the phone, one shell command after the other.
Fold ==
    /\ stage = "fold"
    /\ stage' = IF log = <<>> THEN "emit" ELSE "unlink"
    /\ reading' = reading \o log
    /\ UNCHANGED <<driver, sim, log, listing, stored, arrived, dropped, raced, faults>>

\* Captured meanwhile, a message goes with the log; so does one whose line `cat`
\* met half written, which getMessages skips.
Unlink ==
    /\ stage = "unlink"
    /\ stage' = "emit"
    /\ log' = <<>>
    /\ raced' = raced \union (InFile(log) \ InFile(reading))
    /\ UNCHANGED <<driver, sim, reading, listing, stored, arrived, dropped, faults>>

Emit ==
    /\ stage = "emit"
    /\ stage' = "persist"
    /\ listing' = {[index |-> i, msg |-> reading[i]] : i \in DOMAIN reading}
    /\ UNCHANGED <<driver, modemVars, stored, arrived, dropped, raced, faults>>

\* adb fails, wherever the phone is in the command: the caller sees an empty
\* inbox and goes on.
DrainFails ==
    /\ stage \in {"fold", "unlink", "emit"}
    /\ Fault("modem")
    /\ stage' = "persist" /\ listing' = {}
    /\ UNCHANGED <<driver, modemVars, stored, arrived, dropped, raced>>

Copies(m) == {x \in listing : x.msg = m}

\* Mutant: a failed insert does not keep the driver from deleting.
Persist_Swallowed ==
    /\ stage = "persist"
    /\ stage' = "delete"
    /\ \/ /\ stored' = [m \in Msgs |-> stored[m] + Cardinality(Copies(m))]
          /\ NoFault
       \/ listing # {} /\ UNCHANGED stored /\ Fault("db")
    /\ UNCHANGED <<driver, modemVars, listing, arrived, dropped, raced>>

\* saveReceived: one transaction for all, or an error that the driver lets out.
Persist ==
    /\ stage = "persist"
    /\ \/ /\ stored' = [m \in Msgs |-> stored[m] + Cardinality(Copies(m))]
          /\ stage' = "delete" /\ UNCHANGED listing
          /\ NoFault
       \/ listing # {} /\ Abort /\ UNCHANGED stored /\ Fault("db")
    /\ UNCHANGED <<driver, modemVars, arrived, dropped, raced>>

Finish == stage' = "idle" /\ listing' = {}

\* Mutants: AT+CMGD wipes the whole storage; the delete is forgotten.
DeleteNext_All ==
    /\ stage = "delete" /\ driver = "serial" /\ listing # {}
    /\ sim' = [i \in 1..Capacity |-> NoMsg]
    /\ Finish /\ NoFault
    /\ UNCHANGED <<driver, log, reading, stored, arrived, dropped, raced>>
DeleteNext_None ==
    /\ stage = "delete" /\ driver = "serial" /\ listing # {}
    /\ UNCHANGED sim
    /\ Finish /\ NoFault
    /\ UNCHANGED <<driver, log, reading, stored, arrived, dropped, raced>>

Emptied(indexes) == [i \in 1..Capacity |-> IF i \in indexes THEN NoMsg ELSE sim[i]]

\* serial: the next index, which may be executed although it fails.
DeleteNext ==
    /\ stage = "delete" /\ driver = "serial"
    /\ \E x \in listing :
          /\ \A y \in listing : x.index <= y.index
          /\ \/ /\ sim' = Emptied({x.index})
                /\ listing' = listing \ {x} /\ UNCHANGED stage
                /\ NoFault
             \/ sim' \in {sim, Emptied({x.index})} /\ Abort /\ Fault("modem")
    /\ UNCHANGED <<driver, log, reading, stored, arrived, dropped, raced>>

\* zte: all ids that were listed, after a new login if the first try is refused.
DeleteListed ==
    /\ stage = "delete" /\ driver = "zte" /\ listing # {}
    /\ LET left == Emptied({x.index : x \in listing})
       IN  \/ sim' = left /\ Finish /\ NoFault
           \/ sim' \in {sim, left} /\ Abort /\ Fault("modem")
    /\ UNCHANGED <<driver, log, reading, stored, arrived, dropped, raced>>

\* adb: the reading file, whatever was listed; a failing rm is ignored.
RemoveReading ==
    /\ stage = "delete" /\ driver = "adb"
    /\ Finish
    /\ \/ /\ reading' = <<>>
          /\ dropped' = dropped \union
                         {m \in InFile(reading) \ InFile(log) : stored[m] = 0}
          /\ NoFault
       \/ UNCHANGED <<reading, dropped>> /\ Fault("modem")
    /\ UNCHANGED <<driver, sim, log, stored, arrived, raced>>

\* Nothing (more) to delete.
EndRead ==
    /\ stage = "delete" /\ driver # "adb" /\ listing = {}
    /\ Finish
    /\ UNCHANGED <<driver, modemVars, stored, arrived, dropped, raced, faults>>

\* The gateway restarts; the phone's shell command dies with its adb client.
Crash ==
    /\ stage # "idle"
    /\ Fault("crash")
    /\ Abort
    /\ UNCHANGED <<driver, modemVars, stored, arrived, dropped, raced>>

-----------------------------------------------------------------------------
ReadStep == \/ Begin \/ Login \/ ListIndexes \/ ListTotal
            \/ Fold \/ Unlink \/ Emit \/ DrainFails
            \/ Persist \/ DeleteNext \/ DeleteListed \/ RemoveReading \/ EndRead

Next == (\E m \in Msgs : Arrive(m)) \/ ReadStep \/ Crash

Spec == Init /\ [][Next]_vars

\* Reads end (every command of a driver has its timeout) and are made again: by
\* clients and by the polls after a tariff session.
FairSpec == Spec /\ WF_vars(ReadStep)

-----------------------------------------------------------------------------
\* Every message that arrived is stored or still on the modem, through failing
\* databases, modems and restarts (inbox-store.js:20-23, modem.js:353-355 and
\* 390-391, zte-http.js:283-287), but for the two ways the adb drain deletes one
\* unread, which DeletesOnlyRead does not excuse.
NothingLost ==
    \A m \in arrived : stored[m] > 0 \/ m \in OnModem \union dropped \union raced

\* What makes NothingLost inductive: the modem holds only what arrived, and a
\* read deletes only at the indexes it listed, where the listed message still is
\* and, from the deletion on, is stored.
Tracked ==
    /\ OnModem \subseteq arrived
    /\ IsFiniteSet(listing)
    /\ stage \in {"fold", "unlink", "emit"} => driver = "adb"
    /\ stage \notin {"persist", "delete"} => listing = {}
    /\ driver # "adb" => \A x \in listing : sim[x.index] = x.msg
    /\ stage = "delete" => \A x \in listing : stored[x.msg] > 0

\* A message is stored again only when a failed delete or a restart left it on
\* the modem: each explains one copy more (on the phone, where a broken drain can
\* also fold the log twice, any of them explains all).
StoredOnce ==
    LET excuses == {i \in DOMAIN faults : faults[i] \in {"crash", "modem"}}
    IN  \A m \in Msgs : \/ stored[m] <= 1 + Cardinality(excuses)
                        \/ driver = "adb" /\ excuses # {}

\* A read deletes only the messages that were read, and keeps one that arrives
\* meanwhile for the next (README.md:262).  The adb drain does neither: its `rm`
\* takes what was captured after `cat` (adb.js:155), and a drain that failed is
\* read as an empty inbox, whose reading file is removed (adb.js:157-160, 182).
DeletesOnlyRead == \A m \in arrived : stored[m] > 0 \/ m \in OnModem

\* Every message is stored in the end, through failing databases, modems and
\* restarts, unless the adb drain lost it.
Collected == \A m \in Msgs : m \in arrived ~> stored[m] > 0 \/ m \in dropped \union raced
=============================================================================

----------------------------- MODULE InboxProofs -----------------------------
(***************************************************************************)
(* No incoming message is lost between the modem and the database, and     *)
(* none is stored twice without a reason, for any number of messages, any  *)
(* capacity of the SIM and any number of faults.                           *)
(***************************************************************************)
EXTENDS Inbox, FiniteSetTheorems, SequenceTheorems, TLAPS

InboxInv == TypeOK /\ Tracked /\ NothingLost

\* The messages of a file after a line is appended, of two files put together, of
\* an empty one.
LEMMA InFileAppend ==
    ASSUME NEW f \in Seq(Msgs), NEW m \in Msgs
    PROVE  InFile(Append(f, m)) = InFile(f) \union {m}
<1>1. /\ DOMAIN f = 1..Len(f) /\ Len(f) \in Nat
      /\ DOMAIN Append(f, m) = 1..Len(f) + 1
      /\ \A i \in 1..Len(f) : Append(f, m)[i] = f[i]
      /\ Append(f, m)[Len(f) + 1] = m
    OBVIOUS
<1>2. InFile(Append(f, m)) \subseteq InFile(f) \union {m}
    BY <1>1 DEF InFile
<1>3. InFile(f) \union {m} \subseteq InFile(Append(f, m))
    <2>1. InFile(f) \subseteq InFile(Append(f, m))
        BY <1>1, \A i \in 1..Len(f) : i \in 1..Len(f) + 1 DEF InFile
    <2>2. m \in InFile(Append(f, m))
        BY <1>1, Len(f) + 1 \in 1..Len(f) + 1 DEF InFile
    <2> QED
        BY <2>1, <2>2
<1> QED
    BY <1>2, <1>3

LEMMA InFileConcat ==
    ASSUME NEW f \in Seq(Msgs), NEW g \in Seq(Msgs)
    PROVE  InFile(f \o g) = InFile(f) \union InFile(g)
<1>1. /\ DOMAIN f = 1..Len(f) /\ Len(f) \in Nat
      /\ DOMAIN g = 1..Len(g) /\ Len(g) \in Nat
      /\ DOMAIN (f \o g) = 1..Len(f) + Len(g)
    OBVIOUS
<1>2. \A i \in 1..Len(f) : i \in 1..Len(f) + Len(g) /\ (f \o g)[i] = f[i]
    BY <1>1
<1>3. \A i \in 1..Len(g) :
         Len(f) + i \in 1..Len(f) + Len(g) /\ (f \o g)[Len(f) + i] = g[i]
    BY <1>1
<1>4. \A i \in 1..Len(f) + Len(g) :
         i \in 1..Len(f) \/ \E k \in 1..Len(g) : i = Len(f) + k
    <2> TAKE i \in 1..Len(f) + Len(g)
    <2>1. i \notin 1..Len(f) => i - Len(f) \in 1..Len(g) /\ i = Len(f) + (i - Len(f))
        BY <1>1
    <2> QED
        BY <2>1
<1>5. InFile(f \o g) \subseteq InFile(f) \union InFile(g)
    <2> SUFFICES ASSUME NEW i \in 1..Len(f) + Len(g)
                 PROVE  (f \o g)[i] \in InFile(f) \union InFile(g)
        BY <1>1 DEF InFile
    <2>1. CASE i \in 1..Len(f)
        <3>1. (f \o g)[i] = f[i] /\ i \in DOMAIN f
            BY <1>1, <1>2, <2>1
        <3> QED
            BY <3>1 DEF InFile
    <2>2. ASSUME NEW k \in 1..Len(g), i = Len(f) + k
          PROVE  (f \o g)[i] \in InFile(f) \union InFile(g)
        <3>1. (f \o g)[i] = g[k] /\ k \in DOMAIN g
            BY <1>1, <1>3, <2>2
        <3> QED
            BY <3>1 DEF InFile
    <2> QED
        BY <1>4, <2>1, <2>2
<1>6. InFile(f) \union InFile(g) \subseteq InFile(f \o g)
    <2>1. \A i \in DOMAIN f : i \in DOMAIN (f \o g) /\ (f \o g)[i] = f[i]
        BY <1>1, <1>2
    <2>2. InFile(f) \subseteq InFile(f \o g)
        BY <2>1 DEF InFile
    <2>3. \A i \in DOMAIN g : Len(f) + i \in DOMAIN (f \o g) /\ (f \o g)[Len(f) + i] = g[i]
        BY <1>1, <1>3
    <2>4. InFile(g) \subseteq InFile(f \o g)
        BY <2>3 DEF InFile
    <2> QED
        BY <2>2, <2>4
<1> QED
    BY <1>5, <1>6

LEMMA InFileEmpty == InFile(<<>>) = {}
BY DEF InFile

\* What a listing is made of: the entries [index |-> i, msg |-> f[i]].
LEMMA EntriesFinite ==
    ASSUME NEW f, NEW S, IsFiniteSet(S)
    PROVE  IsFiniteSet({[index |-> i, msg |-> f[i]] : i \in S})
<1> DEFINE T == {[index |-> i, msg |-> f[i]] : i \in S}
           g == [i \in S |-> [index |-> i, msg |-> f[i]]]
<1>1. g \in Surjection(S, T)
    BY DEF Surjection
<1> QED
    BY <1>1, FS_Surjection

\* A listing of the SIM is finite and names each message where it is.
LEMMA OccupiedFacts ==
    ASSUME TypeOK
    PROVE  /\ IsFiniteSet(Occupied)
           /\ Occupied \in SUBSET [index : 1..Capacity, msg : Msgs]
           /\ \A x \in Occupied : sim[x.index] = x.msg
<1> DEFINE Used == {k \in 1..Capacity : sim[k] # NoMsg}
<1>1. IsFiniteSet(1..Capacity)
    BY FS_Interval, InboxAssumption
<1>2. IsFiniteSet(Used)
    BY <1>1, FS_Subset
<1>3. IsFiniteSet({[index |-> i, msg |-> sim[i]] : i \in Used})
    BY <1>2, EntriesFinite
<1> QED
    BY <1>3 DEF Occupied, TypeOK

-----------------------------------------------------------------------------
\* A fault is one of FaultKinds.
LEMMA FaultType ==
    ASSUME TypeOK, NEW k, Fault(k)
    PROVE  faults' \in Seq(FaultKinds)
BY DEF TypeOK, Fault

\* Emptying indexes changes nothing elsewhere.
LEMMA EmptiedType ==
    ASSUME TypeOK, NEW I
    PROVE  /\ Emptied(I) \in [1..Capacity -> Msgs \union {NoMsg}]
           /\ \A i \in 1..Capacity : i \notin I => Emptied(I)[i] = sim[i]
           /\ \A i \in 1..Capacity : Emptied(I)[i] \in {sim[i], NoMsg}
BY DEF Emptied, TypeOK

\* Nothing has arrived at the start.
LEMMA InitInv == Init => InboxInv
<1> SUFFICES ASSUME Init PROVE InboxInv
    OBVIOUS
<1>1. TypeOK
    BY InboxAssumption DEF Init, TypeOK
<1>2. Tracked
    BY InFileEmpty, FS_EmptySet DEF Init, Tracked, OnModem
<1>3. NothingLost
    BY DEF Init, NothingLost
<1> QED
    BY <1>1, <1>2, <1>3 DEF InboxInv

\* Arrive adds at most its message to the log.
LEMMA LogType ==
    ASSUME TypeOK, NEW m \in Msgs, Arrive(m)
    PROVE  /\ log' \in Seq(Msgs)
           /\ InFile(log') \subseteq InFile(log) \union {m}
<1>1. log \in Seq(Msgs) /\ Append(log, m) \in Seq(Msgs)
    BY DEF TypeOK
<1>2. log' = log \/ log' = Append(log, m)
    BY DEF Arrive
<1>3. InFile(Append(log, m)) = InFile(log) \union {m}
    BY <1>1, InFileAppend
<1>4. log' \in Seq(Msgs)
    BY <1>1, <1>2
<1>5. CASE log' = log
    BY <1>4, <1>5
<1>6. CASE log' = Append(log, m)
    BY <1>3, <1>4, <1>6
<1> QED
    BY <1>2, <1>5, <1>6

\* The driver, and so the form of a listing, never changes.
LEMMA EntriesStay ==
    ASSUME UNCHANGED driver
    PROVE  Entries' = Entries
BY DEF Entries

\* Both kinds of listings are typed.
LEMMA OccupiedTyped ==
    ASSUME TypeOK, driver # "adb"
    PROVE  Occupied \subseteq Entries
BY OccupiedFacts DEF Entries

LEMMA PrintedTyped ==
    ASSUME TypeOK, driver = "adb"
    PROVE  {[index |-> i, msg |-> reading[i]] : i \in DOMAIN reading} \subseteq Entries
BY DEF Entries, TypeOK

\* Every step keeps the types.
LEMMA TypeStep == TypeOK /\ Tracked /\ [Next]_vars => TypeOK'
<1> SUFFICES ASSUME TypeOK, Tracked, [Next]_vars
             PROVE  TypeOK'
    OBVIOUS
<1>0. driver' = driver /\ Entries' = Entries
    BY EntriesStay DEF Next, ReadStep, Arrive, Begin, Login, ListIndexes, ListTotal, Fold,
       Unlink, Emit, DrainFails, Persist, DeleteNext, DeleteListed, RemoveReading,
       EndRead, Crash, vars
<1>1. faults' \in Seq(FaultKinds)
    <2>1. faults \in Seq(FaultKinds)
        BY DEF TypeOK
    <2> QED
        BY <2>1, FaultType DEF Next, ReadStep, Arrive, Begin, Login, ListIndexes,
           ListTotal, Fold, Unlink, Emit, DrainFails, Persist, DeleteNext, DeleteListed,
           RemoveReading, EndRead, Crash, vars, NoFault
<1> USE <1>0, <1>1 DEF TypeOK
<1>a. ASSUME NEW m \in Msgs, Arrive(m) PROVE TypeOK'
    <2>1. sim' \in [1..Capacity -> Msgs \union {NoMsg}]
        BY <1>a DEF Arrive
    <2>2. log' \in Seq(Msgs)
        BY <1>a, LogType
    <2> QED
        BY <1>a, <2>1, <2>2 DEF Arrive
<1>b. CASE Begin
    BY <1>b, InboxAssumption DEF Begin, modemVars
<1>c. CASE Login
    BY <1>c DEF Login, Abort, modemVars
<1>d. CASE ListIndexes
    BY <1>d, OccupiedTyped DEF ListIndexes, Abort, modemVars
<1>e. CASE ListTotal
    BY <1>e, OccupiedTyped DEF ListTotal, Abort, modemVars
<1>f. CASE Fold
    BY <1>f DEF Fold
<1>g. CASE Unlink
    BY <1>g DEF Unlink, Tracked, OnModem
<1>h. CASE Emit
    BY <1>h, PrintedTyped DEF Emit, Tracked, modemVars
<1>i. CASE DrainFails
    BY <1>i DEF DrainFails, modemVars
<1>j. CASE Persist
    <2>1. \A m \in Msgs : Cardinality(Copies(m)) \in Nat
        BY FS_Subset, FS_CardinalityType DEF Copies, Tracked
    <2>2. stored' \in [Msgs -> Nat]
        BY <1>j, <2>1 DEF Persist
    <2> QED
        BY <1>j, <2>2 DEF Persist, Abort, modemVars
<1>k. CASE DeleteNext
    <2>1. sim' \in [1..Capacity -> Msgs \union {NoMsg}]
        BY <1>k, EmptiedType DEF DeleteNext
    <2> QED
        BY <1>k, <2>1 DEF DeleteNext, Abort
<1>l. CASE DeleteListed
    <2>1. sim' \in [1..Capacity -> Msgs \union {NoMsg}]
        BY <1>l, EmptiedType DEF DeleteListed
    <2> QED
        BY <1>l, <2>1 DEF DeleteListed, Abort, Finish
<1>m. CASE RemoveReading
    <2>1. dropped' \subseteq arrived
        BY <1>m DEF RemoveReading, Tracked, OnModem
    <2>2. reading' \in Seq(Msgs)
        <3>1. reading' = <<>> \/ reading' = reading
            BY <1>m DEF RemoveReading
        <3>2. <<>> \in Seq(Msgs)
            OBVIOUS
        <3>3. reading \in Seq(Msgs)
            OBVIOUS
        <3> HIDE DEF TypeOK
        <3> QED
            BY <3>1, <3>2, <3>3, Zenon
    <2>3. UNCHANGED <<sim, log, stored, arrived, raced>> /\ stage' = "idle" /\ listing' = {}
        BY <1>m DEF RemoveReading, Finish
    <2> QED
        BY <2>1, <2>2, <2>3
<1>n. CASE EndRead
    BY <1>n DEF EndRead, Finish, modemVars
<1>o. CASE Crash
    BY <1>o DEF Crash, Abort, modemVars
<1>p. CASE UNCHANGED vars
    BY <1>p DEF vars, modemVars
<1> QED
    BY <1>a, <1>b, <1>c, <1>d, <1>e, <1>f, <1>g, <1>h, <1>i, <1>j, <1>k, <1>l, <1>m,
       <1>n, <1>o, <1>p DEF Next, ReadStep

-----------------------------------------------------------------------------
\* The modem holds only what arrived: Arrive adds one, Fold moves lines from one
\* file to the other, everything else removes or leaves alone.
LEMMA OnlyArrived ==
    TypeOK /\ OnModem \subseteq arrived /\ [Next]_vars => OnModem' \subseteq arrived'
<1> SUFFICES ASSUME TypeOK, OnModem \subseteq arrived, [Next]_vars
             PROVE  OnModem' \subseteq arrived'
    OBVIOUS
<1> DEFINE OnSim == {sim[i] : i \in 1..Capacity} \ {NoMsg}
<1>0. /\ OnSim \subseteq arrived
      /\ InFile(log) \subseteq arrived
      /\ InFile(reading) \subseteq arrived
    BY DEF OnModem
<1>a. ASSUME NEW m \in Msgs, Arrive(m) PROVE OnModem' \subseteq arrived'
    <2>1. InFile(log') \subseteq arrived'
        BY <1>0, <1>a, LogType DEF Arrive
    <2>2. OnSim' \subseteq arrived'
        BY <1>0, <1>a DEF Arrive, TypeOK
    <2>3. InFile(reading)' \subseteq arrived'
        BY <1>0, <1>a DEF Arrive, InFile
    <2> QED
        BY <2>1, <2>2, <2>3 DEF OnModem
<1>f. CASE Fold
    <2>1. InFile(reading') \subseteq arrived
        BY <1>0, <1>f, InFileConcat DEF Fold, TypeOK
    <2> QED
        BY <1>0, <1>f, <2>1 DEF Fold, OnModem, InFile
<1>g. CASE Unlink
    BY <1>0, <1>g, InFileEmpty DEF Unlink, OnModem, InFile
<1>k. CASE DeleteNext
    <2>1. \A i \in 1..Capacity : sim'[i] \in {sim[i], NoMsg}
        BY <1>k, EmptiedType DEF DeleteNext, TypeOK
    <2> QED
        BY <1>0, <1>k, <2>1 DEF DeleteNext, OnModem, InFile
<1>l. CASE DeleteListed
    <2>1. \A i \in 1..Capacity : sim'[i] \in {sim[i], NoMsg}
        BY <1>l, EmptiedType DEF DeleteListed, TypeOK
    <2> QED
        BY <1>0, <1>l, <2>1 DEF DeleteListed, OnModem, InFile
<1>m. CASE RemoveReading
    BY <1>0, <1>m, InFileEmpty DEF RemoveReading, OnModem, InFile
<1>r. CASE UNCHANGED <<modemVars, arrived>>
    BY <1>r DEF modemVars, OnModem, InFile
<1> QED
    BY <1>a, <1>f, <1>g, <1>k, <1>l, <1>m, <1>r DEF Next, ReadStep, Begin, Login,
       ListIndexes, ListTotal, Emit, DrainFails, Persist, EndRead, Crash, vars, modemVars

\* A read's listing stays finite and true of the SIM: nothing else deletes, and
\* Arrive takes a free index.
LEMMA TrackedStep == TypeOK /\ Tracked /\ [Next]_vars => Tracked'
<1> SUFFICES ASSUME TypeOK, Tracked, [Next]_vars
             PROVE  Tracked'
    OBVIOUS
<1> DEFINE Here(l, mem) == \A x \in l : mem[x.index] = x.msg
<1>1. OnModem' \subseteq arrived'
    BY OnlyArrived DEF Tracked
<1>2. \A x \in listing : x.msg \in Msgs /\ (driver # "adb" => x.index \in 1..Capacity)
    BY DEF TypeOK, Entries
<1>3. ASSUME stage' \notin {"fold", "unlink", "emit", "persist", "delete"}, listing' = {}
      PROVE  Tracked'
    BY <1>1, <1>3, FS_EmptySet DEF Tracked
<1>a. ASSUME NEW m \in Msgs, Arrive(m) PROVE Tracked'
    <2>1. driver # "adb" => Here(listing, sim')
        <3> SUFFICES ASSUME driver # "adb", NEW x \in listing
                     PROVE  sim'[x.index] = x.msg
            OBVIOUS
        <3>1. sim[x.index] = x.msg /\ x.msg # NoMsg
            BY <1>2, InboxAssumption DEF Tracked
        <3> QED
            BY <1>2, <1>a, <3>1 DEF Arrive, TypeOK
    <2> QED
        BY <1>1, <1>a, <2>1 DEF Arrive, Tracked
<1>b. CASE Begin
    BY <1>1, <1>b, InboxAssumption DEF Begin, Tracked, TypeOK
<1>c. CASE Login
    BY <1>1, <1>3, <1>c DEF Login, Abort, Tracked
<1>d. CASE ListIndexes
    BY <1>1, <1>3, <1>d, OccupiedFacts DEF ListIndexes, Abort, Tracked, modemVars
<1>e. CASE ListTotal
    BY <1>1, <1>3, <1>e, OccupiedFacts, FS_EmptySet DEF ListTotal, Abort, Tracked,
       modemVars
<1>f. CASE Fold
    BY <1>1, <1>f DEF Fold, Tracked
<1>g. CASE Unlink
    BY <1>1, <1>g DEF Unlink, Tracked
<1>h. CASE Emit
    <2>1. IsFiniteSet(DOMAIN reading)
        BY FS_Interval DEF TypeOK
    <2>2. IsFiniteSet({[index |-> i, msg |-> reading[i]] : i \in DOMAIN reading})
        BY <2>1, EntriesFinite
    <2> QED
        BY <1>1, <1>h, <2>2 DEF Emit, Tracked
<1>i. CASE DrainFails
    BY <1>1, <1>i, FS_EmptySet DEF DrainFails, Tracked
<1>j. CASE Persist
    <2>1. CASE stage' = "delete"
        <3>1. \A x \in listing : stored'[x.msg] > 0
            <4> SUFFICES ASSUME NEW x \in listing PROVE stored'[x.msg] > 0
                OBVIOUS
            <4>1. x \in Copies(x.msg) /\ IsFiniteSet(Copies(x.msg))
                BY FS_Subset DEF Copies, Tracked
            <4>2. Cardinality(Copies(x.msg)) \in Nat \ {0}
                BY <4>1, FS_CardinalityType, FS_EmptySet
            <4>3. stored'[x.msg] = stored[x.msg] + Cardinality(Copies(x.msg))
                BY <1>2, <1>j, <2>1 DEF Persist, Abort
            <4> QED
                BY <1>2, <4>2, <4>3 DEF TypeOK
        <3> QED
            BY <1>1, <1>j, <2>1, <3>1 DEF Persist, Abort, Tracked, modemVars
    <2>2. CASE stage' # "delete"
        BY <1>3, <1>j, <2>2 DEF Persist, Abort
    <2> QED
        BY <2>1, <2>2
<1>k. CASE DeleteNext
    <2> PICK x \in listing :
           \/ /\ sim' = Emptied({x.index})
              /\ listing' = listing \ {x} /\ UNCHANGED stage
           \/ Abort
        BY <1>k DEF DeleteNext
    <2>1. CASE Abort
        BY <1>3, <2>1 DEF Abort
    <2>2. CASE /\ sim' = Emptied({x.index})
               /\ listing' = listing \ {x} /\ UNCHANGED stage
        <3>1. \A y \in listing' : y.index # x.index
            BY <1>2, <1>k, <2>2 DEF DeleteNext, Tracked, TypeOK, Entries
        <3>2. Here(listing', sim')
            BY <1>2, <1>k, <2>2, <3>1, EmptiedType DEF DeleteNext, Tracked
        <3>3. IsFiniteSet(listing')
            BY <2>2, FS_Subset DEF Tracked
        <3> QED
            BY <1>1, <1>k, <2>2, <3>2, <3>3 DEF DeleteNext, Tracked
    <2> QED
        BY <2>1, <2>2
<1>l. CASE DeleteListed
    BY <1>3, <1>l DEF DeleteListed, Abort, Finish
<1>m. CASE RemoveReading
    BY <1>3, <1>m DEF RemoveReading, Finish
<1>n. CASE EndRead
    BY <1>3, <1>n DEF EndRead, Finish
<1>o. CASE Crash
    BY <1>3, <1>o DEF Crash, Abort
<1>p. CASE UNCHANGED vars
    BY <1>1, <1>p DEF vars, modemVars, Tracked
<1> QED
    BY <1>a, <1>b, <1>c, <1>d, <1>e, <1>f, <1>g, <1>h, <1>i, <1>j, <1>k, <1>l, <1>m,
       <1>n, <1>o, <1>p DEF Next, ReadStep

-----------------------------------------------------------------------------
\* One step per action that stores, moves or deletes: what a deletion takes off the
\* modem was listed by it and is stored (Tracked).
LEMMA LostStep == InboxInv /\ [Next]_vars => NothingLost'
<1> SUFFICES ASSUME InboxInv, [Next]_vars
             PROVE  NothingLost'
    OBVIOUS
<1> USE DEF InboxInv
<1> DEFINE OnSim == {sim[i] : i \in 1..Capacity} \ {NoMsg}
           Safe(m) == \/ stored[m] > 0
                      \/ m \in OnSim \/ m \in InFile(log) \/ m \in InFile(reading)
                      \/ m \in dropped \/ m \in raced
<1>0. \A m \in arrived : m \in Msgs /\ m # NoMsg /\ Safe(m)
    BY InboxAssumption DEF NothingLost, OnModem, TypeOK
<1>1. SUFFICES ASSUME NEW m \in arrived' PROVE Safe(m)'
    BY DEF NothingLost, OnModem
<1>a. ASSUME NEW x \in Msgs, Arrive(x) PROVE Safe(m)'
    <2>1. CASE driver = "adb"
        <3>1. InFile(log') = InFile(log) \union {x} /\ InFile(reading') = InFile(reading)
            BY <1>a, <2>1, InFileAppend DEF Arrive, TypeOK
        <3> QED
            BY <1>0, <1>a, <2>1, <3>1 DEF Arrive, InFile
    <2>2. CASE driver # "adb"
        <3>1. PICK i \in 1..Capacity : sim[i] = NoMsg /\ sim' = [sim EXCEPT ![i] = x]
            BY <1>a, <2>2 DEF Arrive
        <3>2. OnSim' = OnSim \union {x}
            <4>1. sim'[i] = x /\ x # NoMsg
                BY <3>1, InboxAssumption DEF TypeOK
            <4>2. \A k \in 1..Capacity : k # i => sim'[k] = sim[k]
                BY <3>1 DEF TypeOK
            <4> QED
                BY <3>1, <4>1, <4>2
        <3> QED
            BY <1>0, <1>a, <2>2, <3>2 DEF Arrive, InFile
    <2> QED
        BY <2>1, <2>2
<1>f. CASE Fold
    <2>1. InFile(reading') = InFile(reading) \union InFile(log)
        BY <1>f, InFileConcat DEF Fold, TypeOK
    <2> QED
        BY <1>0, <1>f, <2>1 DEF Fold, InFile
<1>g. CASE Unlink
    BY <1>0, <1>g DEF Unlink, InFile
<1>j. CASE Persist
    <2>1. stored'[m] >= stored[m] /\ m \in arrived
        <3>1. m \in Msgs /\ m \in arrived
            BY <1>0, <1>j DEF Persist
        <3>2. Cardinality(Copies(m)) \in Nat
            BY FS_Subset, FS_CardinalityType DEF Copies, Tracked
        <3>3. stored'[m] = stored[m] + Cardinality(Copies(m)) \/ stored' = stored
            BY <1>j, <3>1 DEF Persist
        <3> QED
            BY <3>1, <3>2, <3>3 DEF TypeOK
    <2>2. stored[m] \in Nat /\ stored'[m] \in Nat
        BY <1>0, <2>1, TypeStep DEF TypeOK
    <2> QED
        BY <1>0, <1>j, <2>1, <2>2 DEF Persist, modemVars, InFile
<1>k. CASE DeleteNext
    <2>1. PICK x \in listing : sim' = sim \/ sim' = Emptied({x.index})
        BY <1>k DEF DeleteNext
    <2>2. \A i \in 1..Capacity : sim'[i] = sim[i] \/ stored[sim[i]] > 0
        BY <1>k, <2>1, EmptiedType DEF DeleteNext, Tracked
    <2> QED
        BY <1>0, <1>k, <2>2 DEF DeleteNext, InFile
<1>l. CASE DeleteListed
    <2>1. \A i \in 1..Capacity : sim'[i] = sim[i] \/ stored[sim[i]] > 0
        BY <1>l, EmptiedType DEF DeleteListed, Tracked
    <2> QED
        BY <1>0, <1>l, <2>1 DEF DeleteListed, InFile
<1>m. CASE RemoveReading
    <2>1. m \in arrived /\ stored[m] \in Nat
        BY <1>0, <1>m DEF RemoveReading, TypeOK
    <2> QED
        BY <1>0, <1>m, <2>1 DEF RemoveReading, InFile
<1>r. CASE UNCHANGED <<modemVars, stored, arrived, dropped, raced>>
    BY <1>0, <1>r DEF modemVars, InFile
<1> QED
    BY <1>a, <1>f, <1>g, <1>j, <1>k, <1>l, <1>m, <1>r DEF Next, ReadStep, Begin, Login,
       ListIndexes, ListTotal, Emit, DrainFails, EndRead, Crash, vars, modemVars

-----------------------------------------------------------------------------
\* The invariant behind NoMessageLost: types, true listings, nothing lost.
THEOREM InboxInvariance == Spec => []InboxInv
<1>1. Init => InboxInv
    BY InitInv
<1>2. InboxInv /\ [Next]_vars => InboxInv'
    BY TypeStep, TrackedStep, LostStep DEF InboxInv
<1> QED
    BY <1>1, <1>2, PTL DEF Spec

\* Every variable keeps its type: a listing never outgrows the SIM, an index never
\* leaves it, while messages arrive and are deleted.
THEOREM InboxTyping == Spec => []TypeOK
BY InboxInvariance, PTL DEF InboxInv

\* Every message that arrived is stored or still on the modem, but for the two
\* ways the adb drain can lose one (inbox-store.js:20-23, adb.js:153-182): for every
\* driver, any number of messages and any faults.
THEOREM NoMessageLost == Spec => []NothingLost
BY InboxInvariance, PTL DEF InboxInv

-----------------------------------------------------------------------------
\* How often a message is stored.

\* The faults that excuse a second copy.
Excuses == {i \in DOMAIN faults : faults[i] \in {"crash", "modem"}}

Distinct(f) == \A i, k \in DOMAIN f : f[i] = f[k] => i = k
Printed == {[index |-> i, msg |-> reading[i]] : i \in DOMAIN reading}
OnSim(m) == \E i \in 1..Capacity : sim[i] = m

\* m is stored, and about to be deleted, by the running read.
Marked(m) == stage = "delete" /\ \E x \in listing : x.msg = m

Known ==
    /\ \A m \in Msgs : stored[m] > 0 => m \in arrived
    /\ \A x \in listing : x.msg \in arrived

\* A message on the SIM has an excuse for every copy it has left behind.
SimCounts ==
    driver # "adb" =>
        /\ \A i, k \in 1..Capacity : sim[i] = sim[k] /\ sim[i] # NoMsg => i = k
        /\ \A m \in Msgs :
              /\ stored[m] <= 1 + Cardinality(Excuses)
              /\ OnSim(m) /\ ~Marked(m) => stored[m] <= Cardinality(Excuses)

\* On the phone, as long as there is no excuse at all: what is in a file is not
\* stored, but for the reading file between the insert and its removal.
FileCounts ==
    driver = "adb" /\ Excuses = {} =>
        /\ Distinct(log) /\ Distinct(reading)
        /\ stage # "unlink" => InFile(log) \intersect InFile(reading) = {}
        /\ stage \in {"persist", "delete"} => listing = Printed
        /\ \A m \in Msgs :
              /\ stored[m] <= 1
              /\ m \in InFile(log) => stored[m] = 0
              /\ m \in InFile(reading) /\ stage # "delete" => stored[m] = 0

CountInv == Known /\ SimCounts /\ FileCounts

LEMMA ExcusesFinite ==
    ASSUME TypeOK
    PROVE  IsFiniteSet(Excuses) /\ Cardinality(Excuses) \in Nat
<1>1. IsFiniteSet(1..Len(faults))
    BY FS_Interval DEF TypeOK
<1>2. Excuses \subseteq 1..Len(faults)
    BY DEF Excuses, TypeOK
<1> QED
    BY <1>1, <1>2, FS_Subset, FS_CardinalityType

\* A fault of kind k is the last of the list.
LEMMA FaultAppended ==
    ASSUME TypeOK, NEW k, Fault(k)
    PROVE  /\ DOMAIN faults = 1..Len(faults) /\ Len(faults) \in Nat
           /\ DOMAIN faults' = 1..Len(faults) + 1
           /\ \A i \in 1..Len(faults) : faults'[i] = faults[i]
           /\ faults'[Len(faults) + 1] = k
<1>1. faults \in Seq(FaultKinds) /\ faults' = Append(faults, k) /\ k \in FaultKinds
    BY DEF TypeOK, Fault
<1> QED
    BY <1>1

LEMMA ExcusesKept ==
    ASSUME TypeOK, NoFault \/ Fault("db")
    PROVE  Excuses' = Excuses
<1>1. CASE NoFault
    BY <1>1 DEF NoFault, Excuses
<1>2. CASE Fault("db")
    <2>1. /\ DOMAIN faults = 1..Len(faults) /\ Len(faults) \in Nat
          /\ DOMAIN faults' = 1..Len(faults) + 1
          /\ \A i \in 1..Len(faults) : faults'[i] = faults[i]
          /\ faults'[Len(faults) + 1] = "db"
        BY <1>2, FaultAppended
    <2>2. \A i \in 1..Len(faults) + 1 : i \in 1..Len(faults) \/ i = Len(faults) + 1
        BY <2>1
    <2>3. \A i \in 1..Len(faults) : i \in 1..Len(faults) + 1
        BY <2>1
    <2> QED
        BY <2>1, <2>2, <2>3 DEF Excuses
<1> QED
    BY <1>1, <1>2

LEMMA ExcuseMade ==
    ASSUME TypeOK, Fault("crash") \/ Fault("modem")
    PROVE  /\ Excuses' # {}
           /\ Cardinality(Excuses)' = Cardinality(Excuses) + 1
<1> PICK k \in {"crash", "modem"} : Fault(k)
    OBVIOUS
<1>1. /\ DOMAIN faults = 1..Len(faults) /\ Len(faults) \in Nat
      /\ DOMAIN faults' = 1..Len(faults) + 1
      /\ \A i \in 1..Len(faults) : faults'[i] = faults[i]
      /\ faults'[Len(faults) + 1] = k
    BY FaultAppended
<1>2. \A i \in 1..Len(faults) + 1 : i \in 1..Len(faults) \/ i = Len(faults) + 1
    BY <1>1
<1>3. \A i \in 1..Len(faults) : i \in 1..Len(faults) + 1
    BY <1>1
<1>4. Len(faults) + 1 \in 1..Len(faults) + 1 /\ Len(faults) + 1 \notin 1..Len(faults)
    BY <1>1
<1>5. Excuses' = Excuses \union {Len(faults) + 1} /\ Len(faults) + 1 \notin Excuses
    BY <1>1, <1>2, <1>3, <1>4 DEF Excuses
<1> QED
    BY <1>5, ExcusesFinite, FS_AddElement

\* What is stored has arrived.
LEMMA KnownStep ==
    ASSUME TypeOK, Tracked, Known, [Next]_vars
    PROVE  Known'
<1> USE DEF Known
<1>1. /\ \A i \in 1..Capacity : sim[i] # NoMsg => sim[i] \in arrived
      /\ \A i \in DOMAIN reading : reading[i] \in arrived
    BY DEF Tracked, OnModem, InFile
<1>2. ASSUME stored' = stored, arrived \subseteq arrived',
             \A x \in listing' : x.msg \in arrived
      PROVE  Known'
    BY <1>2
<1>a. ASSUME NEW m \in Msgs, Arrive(m) PROVE Known'
    BY <1>2, <1>a DEF Arrive
<1>b. CASE Begin \/ Login \/ DrainFails \/ EndRead \/ Crash \/ UNCHANGED vars
    BY <1>2, <1>b DEF Begin, Login, Abort, DrainFails, EndRead, Finish, Crash, vars
<1>d. CASE ListIndexes \/ ListTotal
    <2>1. \A x \in Occupied : x.msg \in arrived
        BY <1>1 DEF Occupied
    <2> QED
        BY <1>2, <1>d, <2>1 DEF ListIndexes, ListTotal, Abort
<1>f. CASE Fold \/ Unlink
    BY <1>2, <1>f DEF Fold, Unlink
<1>h. CASE Emit
    <2>1. \A x \in listing' : x.msg \in arrived
        BY <1>1, <1>h DEF Emit
    <2> QED
        BY <1>2, <1>h, <2>1 DEF Emit
<1>j. CASE Persist
    <2>1. CASE stage' = "delete"
        <3>1. /\ stored' = [m \in Msgs |-> stored[m] + Cardinality(Copies(m))]
              /\ UNCHANGED <<listing, arrived>>
            BY <1>j, <2>1 DEF Persist, Abort
        <3>2. ASSUME NEW m \in Msgs, stored'[m] > 0
              PROVE  m \in arrived
            <4>1. CASE Copies(m) = {}
                <5>1. stored'[m] = stored[m]
                    <6>1. Cardinality(Copies(m)) = 0
                        BY <4>1, FS_EmptySet
                    <6>2. stored[m] \in Nat
                        BY DEF TypeOK
                    <6> QED
                        BY <3>1, <6>1, <6>2
                <5> QED
                    BY <3>2, <5>1
            <4>2. CASE Copies(m) # {}
                BY <4>2 DEF Copies
            <4> QED
                BY <4>1, <4>2
        <3> QED
            BY <3>1, <3>2
    <2>2. CASE stage' # "delete"
        BY <1>2, <1>j, <2>2 DEF Persist, Abort
    <2> QED
        BY <2>1, <2>2
<1>k. CASE DeleteNext \/ DeleteListed \/ RemoveReading
    BY <1>2, <1>k DEF DeleteNext, DeleteListed, RemoveReading, Abort, Finish
<1> QED
    BY <1>a, <1>b, <1>d, <1>f, <1>h, <1>j, <1>k DEF Next, ReadStep

\* A listing of distinct messages has one copy of each at most.
LEMMA OneCopy ==
    ASSUME NEW m, IsFiniteSet(listing), \A x, y \in Copies(m) : x = y
    PROVE  /\ Cardinality(Copies(m)) \in {0, 1}
           /\ Copies(m) = {} => Cardinality(Copies(m)) = 0
<1>1. CASE Copies(m) = {}
    BY <1>1, FS_EmptySet
<1>2. CASE Copies(m) # {}
    <2> PICK x : x \in Copies(m)
        BY <1>2
    <2>1. Copies(m) = {x}
        OBVIOUS
    <2> QED
        BY <1>2, <2>1, FS_Singleton
<1> QED
    BY <1>1, <1>2

\* Messages leave the SIM, and stay unmarked unless that is excused.
LEMMA SimFrame ==
    ASSUME TypeOK, SimCounts, driver # "adb", UNCHANGED <<driver, stored>>,
           \A i \in 1..Capacity : sim'[i] \in {sim[i], NoMsg},
           \/ /\ Excuses' = Excuses
              /\ \A m \in Msgs : OnSim(m)' /\ Marked(m) => Marked(m)'
           \/ Cardinality(Excuses)' = Cardinality(Excuses) + 1
    PROVE  SimCounts'
<1>0. NoMsg \notin Msgs /\ Cardinality(Excuses) \in Nat /\ \A m \in Msgs : stored[m] \in Nat
    BY InboxAssumption, ExcusesFinite DEF TypeOK
<1>1. \A i, k \in 1..Capacity : sim'[i] = sim'[k] /\ sim'[i] # NoMsg => i = k
    BY DEF SimCounts
<1>2. \A m \in Msgs : OnSim(m)' => OnSim(m)
    BY <1>0 DEF OnSim
<1>3. ASSUME NEW m \in Msgs
      PROVE  /\ stored'[m] <= 1 + Cardinality(Excuses)'
             /\ OnSim(m)' /\ ~Marked(m)' => stored'[m] <= Cardinality(Excuses)'
    <2>1. /\ stored[m] <= 1 + Cardinality(Excuses)
          /\ OnSim(m) /\ ~Marked(m) => stored[m] <= Cardinality(Excuses)
        BY DEF SimCounts
    <2> QED
        BY <1>0, <1>2, <2>1
<1> QED
    BY <1>1, <1>3 DEF SimCounts

LEMMA SimStep ==
    ASSUME TypeOK, Tracked, Known, SimCounts, driver # "adb", [Next]_vars
    PROVE  SimCounts'
<1>0. /\ NoMsg \notin Msgs /\ Cardinality(Excuses) \in Nat
      /\ \A m \in Msgs : stored[m] \in Nat
    BY InboxAssumption, ExcusesFinite DEF TypeOK
<1>1. ASSUME NEW i \in 1..Capacity
      PROVE  sim[i] = NoMsg \/ sim[i] \in arrived
    BY DEF Tracked, OnModem
<1>a. ASSUME NEW n \in Msgs, Arrive(n) PROVE SimCounts'
    <2>1. PICK p \in 1..Capacity : sim[p] = NoMsg /\ sim' = [sim EXCEPT ![p] = n]
        BY <1>a DEF Arrive
    <2>2. /\ sim'[p] = n /\ \A i \in 1..Capacity \ {p} : sim'[i] = sim[i]
        BY <2>1 DEF TypeOK
    <2>3. n \notin arrived /\ UNCHANGED <<driver, stored, stage, listing, faults>>
        BY <1>a DEF Arrive
    <2>4. stored[n] = 0 /\ \A i \in 1..Capacity : sim[i] # n
        BY <1>0, <1>1, <2>3 DEF Known
    <2>5. \A i, k \in 1..Capacity : sim'[i] = sim'[k] /\ sim'[i] # NoMsg => i = k
        BY <2>2, <2>4 DEF SimCounts
    <2>6. Excuses' = Excuses
        BY <2>3 DEF Excuses
    <2>7. ASSUME NEW m \in Msgs
          PROVE  /\ stored'[m] <= 1 + Cardinality(Excuses)'
                 /\ OnSim(m)' /\ ~Marked(m)' => stored'[m] <= Cardinality(Excuses)'
        <3>1. CASE m = n
            BY <1>0, <2>3, <2>4, <2>6, <3>1
        <3>2. CASE m # n
            <4>1. OnSim(m)' => OnSim(m)
                BY <2>2, <3>2 DEF OnSim
            <4>2. Marked(m)' = Marked(m)
                BY <2>3 DEF Marked
            <4> QED
                BY <2>3, <2>6, <4>1, <4>2 DEF SimCounts
        <3> QED
            BY <3>1, <3>2
    <2> QED
        BY <2>5, <2>7 DEF SimCounts
<1>b. CASE Begin
    <2>1. stage # "delete" /\ UNCHANGED <<driver, stored, sim, faults>>
        BY <1>b DEF Begin, modemVars
    <2> QED
        BY <2>1, SimFrame DEF Marked, Excuses
<1>c. CASE Login \/ ListIndexes \/ ListTotal
    <2>1. /\ stage # "delete" /\ UNCHANGED <<driver, stored, sim>>
          /\ NoFault \/ Fault("modem")
        BY <1>c DEF Login, ListIndexes, ListTotal, modemVars
    <2> QED
        BY <2>1, ExcusesKept, ExcuseMade, SimFrame DEF Marked
<1>f. ~(Fold \/ Unlink \/ Emit \/ DrainFails \/ RemoveReading)
    BY DEF Fold, Unlink, Emit, DrainFails, RemoveReading, Tracked
<1>j. CASE Persist
    <2>1. CASE stage' = "delete"
        <3>1. /\ stored' = [m \in Msgs |-> stored[m] + Cardinality(Copies(m))]
              /\ stage = "persist" /\ UNCHANGED <<driver, sim, listing, faults>>
            BY <1>j, <2>1 DEF Persist, Abort, modemVars, NoFault
        <3>2. Excuses' = Excuses
            BY <3>1 DEF Excuses
        <3>3. ASSUME NEW m \in Msgs
              PROVE  /\ stored'[m] <= 1 + Cardinality(Excuses)
                     /\ OnSim(m) /\ ~Marked(m)' => stored'[m] <= Cardinality(Excuses)
            <4>1. \A x \in Copies(m) : /\ x.index \in 1..Capacity /\ sim[x.index] = m
                                       /\ x = [index |-> x.index, msg |-> x.msg]
                                       /\ x.msg = m
                BY DEF Copies, Tracked, TypeOK, Entries
            <4>2. \A x, y \in Copies(m) : x.index = y.index
                BY <1>0, <4>1 DEF SimCounts
            <4>3. \A x, y \in Copies(m) : x = y
                BY <4>1, <4>2
            <4>4. /\ Cardinality(Copies(m)) \in {0, 1}
                  /\ Copies(m) = {} => Cardinality(Copies(m)) = 0
                BY <4>3, OneCopy DEF Tracked
            <4>5. Copies(m) # {} => OnSim(m) /\ Marked(m)'
                BY <2>1, <3>1, <4>1 DEF OnSim, Marked, Copies
            <4>6. /\ stored[m] <= 1 + Cardinality(Excuses)
                  /\ OnSim(m) => stored[m] <= Cardinality(Excuses)
                BY <3>1 DEF SimCounts, Marked
            <4>7. stored'[m] = stored[m] + Cardinality(Copies(m))
                BY <3>1
            <4> QED
                BY <1>0, <4>4, <4>5, <4>6, <4>7
        <3>4. \A m : OnSim(m)' = OnSim(m)
            BY <3>1 DEF OnSim
        <3> QED
            BY <3>1, <3>2, <3>3, <3>4 DEF SimCounts
    <2>2. CASE stage' # "delete"
        <3>1. stage # "delete" /\ UNCHANGED <<driver, stored, sim>> /\ Fault("db")
            BY <1>j, <2>2 DEF Persist, modemVars
        <3> QED
            BY <3>1, ExcusesKept, SimFrame DEF Marked
    <2> QED
        BY <2>1, <2>2
<1>k. CASE DeleteNext
    <2>1. PICK x \in listing :
             \/ /\ sim' = Emptied({x.index})
                /\ listing' = listing \ {x} /\ UNCHANGED stage
                /\ NoFault
             \/ sim' \in {sim, Emptied({x.index})} /\ Fault("modem")
        BY <1>k DEF DeleteNext
    <2>2. UNCHANGED <<driver, stored>> /\ \A i \in 1..Capacity : sim'[i] \in {sim[i], NoMsg}
        BY <1>k, <2>1, EmptiedType DEF DeleteNext
    <2>3. CASE Fault("modem")
        BY <2>2, <2>3, ExcuseMade, SimFrame
    <2>4. CASE /\ sim' = Emptied({x.index})
               /\ listing' = listing \ {x} /\ UNCHANGED stage
               /\ NoFault
        <3>1. x.index \in 1..Capacity /\ sim[x.index] = x.msg /\ x.msg \in Msgs
            BY DEF Tracked, TypeOK, Entries
        <3>2. sim'[x.index] = NoMsg
            BY <2>4, <3>1 DEF Emptied
        <3>3. \A i \in 1..Capacity : sim'[i] # x.msg
            BY <1>0, <2>2, <3>1, <3>2 DEF SimCounts
        <3>4. \A m \in Msgs : OnSim(m)' /\ Marked(m) => Marked(m)'
            BY <2>4, <3>3 DEF OnSim, Marked
        <3> QED
            BY <2>2, <2>4, <3>4, ExcusesKept, SimFrame
    <2> QED
        BY <2>1, <2>3, <2>4
<1>l. CASE DeleteListed
    <2> DEFINE left == Emptied({x.index : x \in listing})
    <2>1. /\ UNCHANGED <<driver, stored>> /\ stage = "delete"
          /\ \/ sim' = left /\ NoFault
             \/ sim' \in {sim, left} /\ Fault("modem")
        BY <1>l DEF DeleteListed
    <2>2. \A i \in 1..Capacity : sim'[i] \in {sim[i], NoMsg}
        BY <2>1, EmptiedType
    <2>3. CASE Fault("modem")
        BY <2>1, <2>2, <2>3, ExcuseMade, SimFrame
    <2>4. CASE sim' = left /\ NoFault
        <3>1. ASSUME NEW m \in Msgs, Marked(m), NEW i \in 1..Capacity, sim'[i] = m
              PROVE  FALSE
            <4>1. PICK x \in listing : x.msg = m
                BY <3>1 DEF Marked
            <4>2. x.index \in 1..Capacity /\ sim[x.index] = m
                BY <4>1 DEF Tracked, TypeOK, Entries
            <4>3. sim[i] = m
                BY <1>0, <2>2, <3>1
            <4>4. i = x.index
                BY <1>0, <4>2, <4>3 DEF SimCounts
            <4>5. sim'[i] = NoMsg
                BY <2>4, <4>4 DEF Emptied
            <4> QED
                BY <1>0, <3>1, <4>5
        <3>2. \A m \in Msgs : Marked(m) => ~OnSim(m)'
            BY <3>1 DEF OnSim
        <3> QED
            BY <2>1, <2>2, <2>4, <3>2, ExcusesKept, SimFrame
    <2> QED
        BY <2>1, <2>3, <2>4
<1>n. CASE EndRead
    <2>1. UNCHANGED <<driver, stored, sim, faults>> /\ \A m : ~Marked(m)
        BY <1>n DEF EndRead, modemVars, Marked
    <2> QED
        BY <2>1, SimFrame DEF Excuses
<1>o. CASE Crash
    <2>1. UNCHANGED <<driver, stored, sim>> /\ Fault("crash")
        BY <1>o DEF Crash, modemVars
    <2> QED
        BY <2>1, ExcuseMade, SimFrame
<1>p. CASE UNCHANGED vars
    <2>1. UNCHANGED <<driver, stored, sim, faults, stage, listing>>
        BY <1>p DEF vars, modemVars
    <2> QED
        BY <2>1, SimFrame DEF Excuses, Marked
<1> QED
    BY <1>a, <1>b, <1>c, <1>f, <1>j, <1>k, <1>l, <1>n, <1>o, <1>p DEF Next, ReadStep

\* Lines that differ, and files that share none.
LEMMA DistinctAppend ==
    ASSUME NEW f \in Seq(Msgs), NEW m \in Msgs, Distinct(f), m \notin InFile(f)
    PROVE  Distinct(Append(f, m))
<1>1. /\ DOMAIN f = 1..Len(f) /\ Len(f) \in Nat
      /\ DOMAIN Append(f, m) = 1..Len(f) + 1
      /\ \A i \in 1..Len(f) : Append(f, m)[i] = f[i]
      /\ Append(f, m)[Len(f) + 1] = m
    OBVIOUS
<1>2. \A i \in 1..Len(f) : f[i] # m
    BY <1>1 DEF InFile
<1>3. \A i \in 1..Len(f) + 1 : i \in 1..Len(f) \/ i = Len(f) + 1
    BY <1>1
<1> QED
    BY <1>1, <1>2, <1>3 DEF Distinct

LEMMA DistinctConcat ==
    ASSUME NEW f \in Seq(Msgs), NEW g \in Seq(Msgs), Distinct(f), Distinct(g),
           InFile(f) \intersect InFile(g) = {}
    PROVE  Distinct(f \o g)
<1>1. /\ DOMAIN f = 1..Len(f) /\ Len(f) \in Nat
      /\ DOMAIN g = 1..Len(g) /\ Len(g) \in Nat
      /\ DOMAIN (f \o g) = 1..Len(f) + Len(g)
    OBVIOUS
<1>2. \A i \in 1..Len(f) : (f \o g)[i] = f[i]
    BY <1>1
<1>3. \A i \in 1..Len(f) + Len(g) :
         i \notin 1..Len(f) => i - Len(f) \in 1..Len(g) /\ (f \o g)[i] = g[i - Len(f)]
    BY <1>1
<1>4. \A i \in 1..Len(f), k \in 1..Len(g) : f[i] # g[k]
    BY <1>1 DEF InFile
<1> SUFFICES ASSUME NEW i \in 1..Len(f) + Len(g), NEW k \in 1..Len(f) + Len(g),
                    (f \o g)[i] = (f \o g)[k]
             PROVE  i = k
    BY <1>1 DEF Distinct
<1>5. CASE i \in 1..Len(f)
    <2>1. k \in 1..Len(f)
        BY <1>2, <1>3, <1>4, <1>5
    <2> QED
        BY <1>1, <1>2, <1>5, <2>1 DEF Distinct
<1>6. CASE i \notin 1..Len(f)
    <2>1. k \notin 1..Len(f)
        BY <1>2, <1>3, <1>4, <1>6
    <2>2. i - Len(f) = k - Len(f)
        BY <1>1, <1>3, <1>6, <2>1 DEF Distinct
    <2> QED
        BY <1>1, <2>2
<1> QED
    BY <1>5, <1>6

\* Steps that touch neither file and store nothing.
LEMMA FileFrame ==
    ASSUME FileCounts, UNCHANGED <<driver, log, reading, stored>>,
           Excuses' = {} =>
               /\ Excuses = {}
               /\ stage' = "unlink" <=> stage = "unlink"
               /\ stage' # "delete" /\ stage # "delete"
               /\ stage' = "persist" => listing' = Printed
    PROVE  FileCounts'
BY DEF FileCounts, Printed, Distinct, InFile

LEMMA FileStep ==
    ASSUME TypeOK, Tracked, Known, FileCounts, driver = "adb", [Next]_vars
    PROVE  FileCounts'
<1>0. /\ log \in Seq(Msgs) /\ reading \in Seq(Msgs)
      /\ InFile(log) \subseteq arrived /\ InFile(reading) \subseteq arrived
      /\ \A m \in Msgs : stored[m] \in Nat
    BY DEF TypeOK, Tracked, OnModem
<1>m. ASSUME Fault("crash") \/ Fault("modem") PROVE FileCounts'
    BY <1>m, ExcuseMade DEF FileCounts
<1>a. ASSUME NEW n \in Msgs, Arrive(n) PROVE FileCounts'
    <2>1. /\ n \notin arrived /\ log' = Append(log, n)
          /\ UNCHANGED <<driver, reading, stage, listing, stored, faults>>
        BY <1>a DEF Arrive
    <2>2. InFile(log') = InFile(log) \union {n}
        BY <1>0, <2>1, InFileAppend
    <2>3. stored[n] = 0 /\ n \notin InFile(log) /\ n \notin InFile(reading)
        BY <1>0, <2>1 DEF Known
    <2>4. Distinct(log) => Distinct(log')
        BY <1>0, <2>1, <2>3, DistinctAppend
    <2>5. Excuses' = Excuses /\ InFile(reading)' = InFile(reading) /\ Printed' = Printed
        BY <2>1 DEF Excuses, InFile, Printed
    <2>6. Distinct(reading)' = Distinct(reading)
        BY <2>1 DEF Distinct
    <2>7. \A m \in Msgs : m \in InFile(log') => m = n \/ m \in InFile(log)
        BY <2>2
    <2> QED
        BY <2>1, <2>2, <2>3, <2>4, <2>5, <2>6, <2>7 DEF FileCounts
<1>b. CASE Begin
    <2>1. /\ UNCHANGED <<driver, log, reading, stored, faults>>
          /\ stage = "idle" /\ stage' = "fold"
        BY <1>b DEF Begin, modemVars
    <2> QED
        BY <2>1, FileFrame DEF Excuses
<1>f. CASE Fold
    <2>1. /\ UNCHANGED <<driver, log, listing, stored, faults>>
          /\ stage = "fold" /\ reading' = reading \o log
          /\ stage' = IF log = <<>> THEN "emit" ELSE "unlink"
        BY <1>f DEF Fold
    <2>2. InFile(reading') = InFile(reading) \union InFile(log)
        BY <1>0, <2>1, InFileConcat
    <2>3. stage' = "emit" => InFile(log) = {}
        BY <2>1, InFileEmpty
    <2>4. Excuses' = Excuses /\ InFile(log)' = InFile(log) /\ Distinct(log)' = Distinct(log)
        BY <2>1 DEF Excuses, InFile, Distinct
    <2>5. Excuses = {} => Distinct(reading')
        BY <1>0, <2>1, DistinctConcat DEF FileCounts
    <2> QED
        BY <2>1, <2>2, <2>3, <2>4, <2>5 DEF FileCounts
<1>g. CASE Unlink
    <2>1. /\ UNCHANGED <<driver, reading, listing, stored, faults>>
          /\ stage = "unlink" /\ stage' = "emit" /\ log' = <<>>
        BY <1>g DEF Unlink
    <2>2. InFile(log') = {} /\ Distinct(log')
        BY <2>1, InFileEmpty DEF Distinct
    <2>3. /\ Excuses' = Excuses /\ InFile(reading)' = InFile(reading)
          /\ Distinct(reading)' = Distinct(reading)
        BY <2>1 DEF Excuses, InFile, Distinct
    <2> QED
        BY <2>1, <2>2, <2>3 DEF FileCounts
<1>h. CASE Emit
    <2>1. /\ UNCHANGED <<driver, log, reading, stored, faults>>
          /\ stage = "emit" /\ stage' = "persist" /\ listing' = Printed
        BY <1>h DEF Emit, modemVars, Printed
    <2> QED
        BY <2>1, FileFrame DEF Excuses
<1>j. CASE Persist
    <2>0. Excuses' = Excuses /\ UNCHANGED <<driver, log, reading>>
        BY <1>j, ExcusesKept DEF Persist, modemVars
    <2>1. CASE stage' = "delete"
        <3>1. /\ stored' = [m \in Msgs |-> stored[m] + Cardinality(Copies(m))]
              /\ stage = "persist" /\ UNCHANGED listing
            BY <1>j, <2>1 DEF Persist, Abort
        <3>2. ASSUME NEW m \in Msgs, Excuses = {}
              PROVE  /\ stored'[m] <= 1
                     /\ m \in InFile(log) => stored'[m] = 0
            <4>1. \A x \in Copies(m) : /\ x.msg = m
                                       /\ \E i \in DOMAIN reading :
                                             x = [index |-> i, msg |-> reading[i]]
                BY <3>1, <3>2 DEF FileCounts, Copies, Printed
            <4>2. \A x, y \in Copies(m) : x = y
                BY <3>2, <4>1 DEF FileCounts, Distinct
            <4>3. /\ Cardinality(Copies(m)) \in {0, 1}
                  /\ Copies(m) = {} => Cardinality(Copies(m)) = 0
                BY <4>2, OneCopy DEF Tracked
            <4>4. Copies(m) # {} => m \in InFile(reading)
                BY <4>1 DEF InFile
            <4>5. /\ stored[m] <= 1
                  /\ m \in InFile(log) => stored[m] = 0 /\ m \notin InFile(reading)
                  /\ m \in InFile(reading) => stored[m] = 0
                BY <3>1, <3>2 DEF FileCounts
            <4>6. stored'[m] = stored[m] + Cardinality(Copies(m))
                BY <3>1
            <4> QED
                BY <1>0, <4>3, <4>4, <4>5, <4>6
        <3>3. /\ InFile(log)' = InFile(log) /\ InFile(reading)' = InFile(reading)
              /\ Distinct(log)' = Distinct(log) /\ Distinct(reading)' = Distinct(reading)
              /\ Printed' = Printed
            BY <2>0 DEF InFile, Distinct, Printed
        <3> QED
            BY <2>0, <2>1, <3>1, <3>2, <3>3 DEF FileCounts
    <2>2. CASE stage' # "delete"
        <3>1. UNCHANGED stored /\ stage = "persist" /\ stage' = "idle"
            BY <1>j, <2>2 DEF Persist, Abort
        <3> QED
            BY <2>0, <3>1, FileFrame
    <2> QED
        BY <2>1, <2>2
<1>r. CASE RemoveReading
    <2>1. CASE Fault("modem")
        BY <1>m, <2>1
    <2>2. CASE ~Fault("modem")
        <3>1. /\ UNCHANGED <<driver, log, stored, faults>> /\ reading' = <<>>
              /\ stage = "delete" /\ stage' = "idle"
            BY <1>r, <2>2 DEF RemoveReading, Finish, NoFault
        <3>2. InFile(reading') = {} /\ Distinct(reading')
            BY <3>1, InFileEmpty DEF Distinct
        <3>3. /\ Excuses' = Excuses /\ InFile(log)' = InFile(log)
              /\ Distinct(log)' = Distinct(log)
            BY <3>1 DEF Excuses, InFile, Distinct
        <3> QED
            BY <3>1, <3>2, <3>3 DEF FileCounts
    <2> QED
        BY <2>1, <2>2
<1>l. CASE Login
    <2>1. CASE Fault("modem")
        BY <1>m, <2>1
    <2>2. CASE ~Fault("modem")
        <3>1. /\ UNCHANGED <<driver, log, reading, stored, faults>>
              /\ stage = "login" /\ stage' = "list"
            BY <1>l, <2>2 DEF Login, modemVars, NoFault
        <3> QED
            BY <3>1, FileFrame DEF Excuses
    <2> QED
        BY <2>1, <2>2
<1>s. ~(ListIndexes \/ ListTotal \/ DeleteNext \/ DeleteListed \/ EndRead)
    BY DEF ListIndexes, ListTotal, DeleteNext, DeleteListed, EndRead
<1>o. CASE Crash \/ DrainFails
    BY <1>m, <1>o DEF Crash, DrainFails
<1>p. CASE UNCHANGED vars
    <2>1. UNCHANGED <<driver, log, reading, stored, faults, stage, listing>>
        BY <1>p DEF vars, modemVars
    <2> QED
        BY <2>1 DEF FileCounts, Excuses, Distinct, InFile, Printed
<1> QED
    BY <1>a, <1>b, <1>f, <1>g, <1>h, <1>j, <1>r, <1>l, <1>s, <1>o, <1>p DEF Next, ReadStep

LEMMA DriverStays ==
    ASSUME [Next]_vars
    PROVE  driver' = driver
BY DEF Next, ReadStep, Arrive, Begin, Login, ListIndexes, ListTotal, Fold, Unlink, Emit,
       DrainFails, Persist, DeleteNext, DeleteListed, RemoveReading, EndRead, Crash, vars

\* A message is stored again only when a failed delete or a restart left it on the
\* modem, once for each; on the phone, never without any of them
\* (inbox-store.js:20-23, modem.js:386-395, zte-http.js:289-292, adb.js:150-182):
\* whatever the capacity, the number of messages and of faults.
THEOREM MessagesAreStoredOnce == Spec => []StoredOnce
<1>1. Init => CountInv
    <2> SUFFICES ASSUME Init PROVE CountInv
        OBVIOUS
    <2>1. Excuses = {} /\ Cardinality({}) = 0
        BY FS_EmptySet DEF Init, Excuses
    <2>2. Known /\ FileCounts
        BY InFileEmpty DEF Init, Known, FileCounts, Distinct
    <2>3. SimCounts
        BY <2>1 DEF Init, SimCounts
    <2> QED
        BY <2>2, <2>3 DEF CountInv
<1>2. InboxInv /\ CountInv /\ [Next]_vars => CountInv'
    <2> SUFFICES ASSUME InboxInv, CountInv, [Next]_vars
                 PROVE  CountInv'
        OBVIOUS
    <2>1. TypeOK /\ Tracked /\ Known /\ SimCounts /\ FileCounts
        BY DEF InboxInv, CountInv
    <2>2. Known'
        BY <2>1, KnownStep
    <2>3. SimCounts'
        BY <2>1, SimStep, DriverStays DEF SimCounts
    <2>4. FileCounts'
        BY <2>1, FileStep, DriverStays DEF FileCounts
    <2> QED
        BY <2>2, <2>3, <2>4 DEF CountInv
<1>3. InboxInv /\ CountInv => StoredOnce
    <2> SUFFICES ASSUME InboxInv, CountInv, NEW m \in Msgs
                 PROVE  \/ stored[m] <= 1 + Cardinality(Excuses)
                        \/ driver = "adb" /\ Excuses # {}
        BY DEF StoredOnce, Excuses
    <2>1. Cardinality({}) = 0
        BY FS_EmptySet
    <2> QED
        BY <2>1 DEF CountInv, SimCounts, FileCounts
<1> QED
    BY <1>1, <1>2, <1>3, InboxInvariance, PTL DEF Spec
=============================================================================

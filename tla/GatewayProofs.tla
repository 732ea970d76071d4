---------------------------- MODULE GatewayProofs ----------------------------
(***************************************************************************)
(* The import of the old log is all or nothing wherever start-up stops,    *)
(* the API accepts only what every modem that may get it takes, and the    *)
(* pool spreads the messages evenly: for every set of modems and texts,    *)
(* every limit and any number of restarts.                                 *)
(***************************************************************************)
EXTENDS Gateway, FiniteSetTheorems, TLAPS

-----------------------------------------------------------------------------
\* Start-up.

\* Only a complete import gets as far as the renaming.
ImportInv ==
    /\ ImportWhole
    /\ boot = "stored" => LegacyIds \subseteq table

\* A step of start-up keeps ImportInv.
LEMMA BootKeepsImport ==
    ASSUME ImportInv, BootStep
    PROVE  ImportInv'
<1>1. CASE OpenDb
    BY <1>1 DEF ImportInv, ImportWhole, OpenDb
<1>2. CASE LookForLog
    BY <1>2 DEF ImportInv, ImportWhole, LookForLog
<1>3. CASE ImportAll
    BY <1>3 DEF ImportInv, ImportWhole, ImportAll
<1>4. CASE ImportThrows
    BY <1>4 DEF ImportInv, ImportWhole, ImportThrows
<1>5. CASE Rename
    BY <1>5 DEF ImportInv, ImportWhole, Rename
<1> QED
    BY <1>1, <1>2, <1>3, <1>4, <1>5 DEF BootStep

\* Whatever happens at start-up or afterwards, the import is whole or has not
\* taken place (ImportSafe).
THEOREM ImportIsSafe == Spec => []ImportSafe
<1>1. Init => ImportInv
    BY DEF Init, ImportInit, ImportInv, ImportWhole
<1>2. ImportInv /\ [Next]_vars => ImportInv'
    <2> SUFFICES ASSUME ImportInv, [Next]_vars
                 PROVE  ImportInv'
        OBVIOUS
    <2>1. CASE Boot
        BY <2>1, BootKeepsImport DEF Boot
    <2>2. CASE Fix
        BY <2>2 DEF Fix, Repair, ImportInv, ImportWhole
    <2>3. CASE Crash
        BY <2>3 DEF Crash, Stop, ImportInv, ImportWhole
    <2>4. CASE PostSend
        BY <2>4, GatewayAssumption DEF PostSend, ImportInv, ImportWhole
    <2>5. CASE TakeJob \/ TooLong \/ SendFails \/ Send \/ \E m \in Modems : Connection(m)
        <3>1. UNCHANGED importVars
            BY <2>5 DEF TakeJob, TooLong, SendFails, Send, Connection, Fail
        <3> QED
            BY <3>1 DEF importVars, ImportInv, ImportWhole
    <2>6. CASE UNCHANGED vars
        BY <2>6 DEF vars, importVars, ImportInv, ImportWhole
    <2> QED
        BY <2>1, <2>2, <2>3, <2>4, <2>5, <2>6 DEF Next
<1>3. ImportInv => ImportSafe
    BY DEF ImportInv, ImportSafe
<1> QED
    BY <1>1, <1>2, <1>3, PTL DEF Spec

-----------------------------------------------------------------------------
\* The limits.

\* A job that still has the fleet it was accepted for fits every modem it may
\* get, and has got one of them.
FitInv ==
    /\ fleet \in Fleets /\ up \subseteq ToSet(fleet)
    /\ job \in {"waiting", "running"} /\ ~refit =>
          \A m \in Candidates(pin) : analyzeFor(m, text).ok
    /\ job = "running" => at \in Candidates(pin)
    /\ AcceptedFits

\* The limits are a matter of the fleet, the pin and the text.
LEMMA FitStays ==
    ASSUME FitInv, UNCHANGED <<fleet, job, text, pin, at, refit, refused>>,
           up' \subseteq ToSet(fleet)
    PROVE  FitInv'
BY DEF FitInv, Candidates, analyzeFor, AcceptedFits

\* A failed attempt leaves the message to the modems it had before.
LEMMA FailKeepsFit ==
    ASSUME FitInv, job = "running", Fail, refused' => refit
    PROVE  FitInv'
<1>1. UNCHANGED <<fleet, up, text, pin, refit>> /\ job' \in {"waiting", "failed"}
    BY DEF Fail, poolVars
<1>2. ~refit => \A m \in Candidates(pin) : analyzeFor(m, text).ok
    BY DEF FitInv
<1> QED
    BY <1>1, <1>2 DEF FitInv, Candidates, analyzeFor, AcceptedFits

\* A restart that finds the same fleet changes nothing about the message.
LEMMA CrashKeepsFit ==
    ASSUME FitInv, Crash
    PROVE  FitInv'
<1>1. /\ fleet' \in Fleets /\ up' \subseteq ToSet(fleet')
      /\ UNCHANGED <<text, pin, refused>>
      /\ refit => refit'
    BY DEF Crash, AlwaysUp
<1>2. job' # "running"
    BY DEF Crash
<1>3. ASSUME job' = "waiting", ~refit'
      PROVE  \A m \in Candidates(pin)' : analyzeFor(m, text)'.ok
    <2>1. job \in {"waiting", "running"} /\ ~refit /\ fleet' = fleet
        BY <1>3 DEF Crash
    <2>2. \A m \in Candidates(pin) : analyzeFor(m, text).ok
        BY <2>1 DEF FitInv
    <2> QED
        BY <1>1, <2>1, <2>2 DEF Candidates, analyzeFor
<1>4. AcceptedFits'
    BY <1>1 DEF FitInv, AcceptedFits
<1> QED
    BY <1>1, <1>2, <1>3, <1>4 DEF FitInv

\* Every other step of the message.
LEMMA StepKeepsFit ==
    ASSUME FitInv, PostSend \/ TakeJob \/ TooLong \/ SendFails \/ Send
    PROVE  FitInv'
<1>1. CASE PostSend
    <2>1. /\ UNCHANGED <<fleet, up, refit, refused, at>> /\ job' = "waiting"
          /\ \A m \in Candidates(pin') : analyzeFor(m, text').ok
        BY <1>1 DEF PostSend, poolVars
    <2> QED
        BY <2>1 DEF FitInv, Candidates, analyzeFor, AcceptedFits
<1>2. CASE TakeJob
    <2>1. /\ UNCHANGED <<fleet, up, text, pin, refit, refused>> /\ job = "waiting"
          /\ job' \in {"running", "unconfirmed"}
        BY <1>2 DEF TakeJob
    <2>2. at' \in Candidates(pin)
        BY <1>2 DEF TakeJob, Candidates, Pool, FitInv
    <2> QED
        BY <2>1, <2>2 DEF FitInv, Candidates, analyzeFor, AcceptedFits
<1>3. CASE TooLong
    <2>1. job = "running" /\ refit /\ Fail
        BY <1>3 DEF TooLong, FitInv
    <2> QED
        BY <2>1, FailKeepsFit
<1>4. CASE SendFails
    <2>1. job = "running" /\ Fail /\ (refused' => refit)
        BY <1>4 DEF SendFails, FitInv, AcceptedFits
    <2> QED
        BY <2>1, FailKeepsFit
<1>5. CASE Send
    <2>1. UNCHANGED <<fleet, up, refit, refused>> /\ job' = "sent"
        BY <1>5 DEF Send, poolVars
    <2> QED
        BY <2>1 DEF FitInv, AcceptedFits
<1> QED
    BY <1>1, <1>2, <1>3, <1>4, <1>5

\* No modem of the fleet a message was accepted for finds it too long
\* (AcceptedFits).
THEOREM AcceptedMessagesFit == Spec => []AcceptedFits
<1>1. Init => FitInv
    BY DEF Init, FitInv, AlwaysUp, AcceptedFits
<1>2. FitInv /\ [Next]_vars => FitInv'
    <2> SUFFICES ASSUME FitInv, [Next]_vars
                 PROVE  FitInv'
        OBVIOUS
    <2>1. CASE Boot \/ Fix \/ UNCHANGED vars
        <3>1. UNCHANGED <<fleet, up, job, text, pin, at, refit, refused>>
            BY <2>1 DEF Boot, Fix, vars, poolVars, jobVars
        <3> QED
            BY <3>1, FitStays DEF FitInv
    <2>2. CASE Crash
        BY <2>2, CrashKeepsFit
    <2>3. CASE PostSend \/ TakeJob \/ TooLong \/ SendFails \/ Send
        BY <2>3, StepKeepsFit
    <2>4. CASE \E m \in Modems : Connection(m)
        <3>1. PICK m \in Modems : Connection(m)
            BY <2>4
        <3>2. UNCHANGED <<fleet, job, text, pin, at, refit, refused>>
            BY <3>1 DEF Connection, jobVars
        <3>3. up' \subseteq ToSet(fleet)
            BY <3>1 DEF Connection, FitInv
        <3> QED
            BY <3>2, <3>3, FitStays
    <2> QED
        BY <2>1, <2>2, <2>3, <2>4 DEF Next
<1>3. FitInv => AcceptedFits
    BY DEF FitInv
<1> QED
    BY <1>1, <1>2, <1>3, PTL DEF Spec

-----------------------------------------------------------------------------
\* Types.

\* A job that may still be tried has attempts left.
TriesLeft == job \in {"none", "waiting", "running"} => tries < MaxAttempts

TypeInv == TypeOK /\ TriesLeft

\* The import does not touch the rest, and the rest not the import, but for the row
\* of the message.
LEMMA BootKeepsTypes ==
    ASSUME TypeInv, BootStep \/ Repair, UNCHANGED <<poolVars, jobVars, crashes, refit>>
    PROVE  TypeInv'
<1>1. ImportTypeOK' /\ table' \subseteq LegacyIds \union {Row}
    <2> USE DEF TypeInv, TypeOK, ImportTypeOK, Unreadable
    <2>1. CASE OpenDb \/ LookForLog \/ ImportThrows
        BY <2>1 DEF OpenDb, LookForLog, ImportThrows
    <2>2. CASE ImportAll
        BY <2>2 DEF ImportAll
    <2>3. CASE Rename
        BY <2>3 DEF Rename
    <2>4. CASE Repair
        BY <2>4 DEF Repair
    <2> QED
        BY <2>1, <2>2, <2>3, <2>4 DEF BootStep
<1> QED
    BY <1>1 DEF TypeInv, TypeOK, TriesLeft, poolVars, jobVars

\* A failed attempt is counted while there is one left.
LEMMA FailKeepsTypes ==
    ASSUME TypeInv, job = "running", Fail, refused' \in BOOLEAN
    PROVE  TypeInv'
<1>1. tries \in Nat /\ tries < MaxAttempts /\ MaxAttempts \in Nat
    BY GatewayAssumption DEF TypeInv, TypeOK, TriesLeft
<1>2. /\ tries' = tries + 1 /\ at' = NoModem
      /\ job' = IF tries + 1 = MaxAttempts THEN "failed" ELSE "waiting"
      /\ UNCHANGED <<boot, file, table, fleet, up, rr, load, text, to, pin, air, crashes,
                     refit>>
    BY DEF Fail, importVars, poolVars
<1>3. tries' \in 0..MaxAttempts /\ (job' = "waiting" => tries' < MaxAttempts)
    BY <1>1, <1>2
<1>4. ImportTypeOK'
    BY <1>2 DEF TypeInv, TypeOK, ImportTypeOK
<1> QED
    BY <1>2, <1>3, <1>4 DEF TypeInv, TypeOK, TriesLeft

\* The message is accepted, given to a modem and sent.
LEMMA MessageKeepsTypes ==
    ASSUME TypeInv, PostSend \/ TakeJob \/ Send
    PROVE  TypeInv'
<1>0. ToSet(fleet) \subseteq Modems
    BY GatewayAssumption DEF TypeInv, TypeOK, ToSet
<1>1. CASE PostSend
    <2>1. /\ text' \in Texts /\ to' \in Numbers /\ pin' \in Modems \union {NoModem}
          /\ table' = table \union {Row} /\ job = "none" /\ job' = "waiting"
          /\ UNCHANGED <<boot, file, fleet, up, rr, load, at, tries, air, refused, crashes,
                         refit>>
        BY <1>0, <1>1 DEF PostSend, poolVars
    <2>2. ImportTypeOK'
        BY <2>1 DEF TypeInv, TypeOK, ImportTypeOK
    <2> QED
        BY <2>1, <2>2 DEF TypeInv, TypeOK, TriesLeft
<1>2. CASE TakeJob
    <2>1. /\ job = "waiting" /\ job' \in {"running", "unconfirmed"}
          /\ UNCHANGED <<boot, file, table, fleet, up, text, to, pin, tries, air, refused,
                         crashes, refit>>
        BY <1>2 DEF TakeJob, importVars
    <2>2. /\ at' \in Modems \union {NoModem} /\ rr' \in Nat /\ load' \in [Modems -> Nat]
        BY <1>0, <1>2 DEF TakeJob, Pool, TypeInv, TypeOK
    <2>3. ImportTypeOK'
        BY <2>1 DEF TypeInv, TypeOK, ImportTypeOK
    <2> QED
        BY <2>1, <2>2, <2>3 DEF TypeInv, TypeOK, TriesLeft
<1>3. CASE Send
    <2>1. /\ job' = "sent" /\ air' = Transmission(at, text, to, 7)
          /\ UNCHANGED <<boot, file, table, fleet, up, rr, load, text, to, pin, at, tries,
                         refused, crashes, refit>>
        BY <1>3 DEF Send, importVars, poolVars
    <2>2. air'.kind \in {"text", "hex", "pdus", "shell"}
        BY <2>1 DEF Transmission
    <2>3. ImportTypeOK'
        BY <2>1 DEF TypeInv, TypeOK, ImportTypeOK
    <2> QED
        BY <2>1, <2>2, <2>3 DEF TypeInv, TypeOK, TriesLeft
<1> QED
    BY <1>1, <1>2, <1>3

\* A restart forgets the pool, and which modem was at work.
LEMMA CrashKeepsTypes ==
    ASSUME TypeInv, Crash
    PROVE  TypeInv'
<1>1. /\ fleet' \in Fleets /\ up' \subseteq ToSet(fleet') /\ rr' = 0
      /\ load' \in [Modems -> Nat]
    BY DEF Crash, AlwaysUp
<1>2. /\ job' = IF job = "running" THEN "waiting" ELSE job
      /\ at' = IF job = "running" THEN NoModem ELSE at
      /\ UNCHANGED <<text, to, pin, tries, air, refused>>
    BY DEF Crash
<1>3. ImportTypeOK' /\ table' = table
    BY DEF Crash, Stop, TypeInv, TypeOK, ImportTypeOK
<1>4. crashes' \in 0..MaxCrashes
    BY GatewayAssumption DEF Crash, TypeInv, TypeOK
<1>5. refit' \in BOOLEAN
    BY Zenon DEF Crash
<1> QED
    BY <1>1, <1>2, <1>3, <1>4, <1>5 DEF TypeInv, TypeOK, TriesLeft

LEMMA TypeInvariance == Spec => []TypeInv
<1>1. Init => TypeInv
    <2> SUFFICES ASSUME Init PROVE TypeInv
        OBVIOUS
    <2>1. ImportTypeOK /\ table = {}
        BY DEF Init, ImportInit, ImportTypeOK, Unreadable
    <2>2. up \subseteq ToSet(fleet) /\ load \in [Modems -> Nat]
        BY DEF Init, AlwaysUp
    <2>3. air.kind = "nothing"
        BY DEF Init, Nothing
    <2>4. 0 \in 0..MaxAttempts /\ 0 < MaxAttempts /\ 0 \in 0..MaxCrashes
        BY GatewayAssumption
    <2> QED
        BY <2>1, <2>2, <2>3, <2>4 DEF Init, TypeInv, TypeOK, TriesLeft
<1>2. TypeInv /\ [Next]_vars => TypeInv'
    <2> SUFFICES ASSUME TypeInv, [Next]_vars
                 PROVE  TypeInv'
        OBVIOUS
    <2>1. CASE Boot \/ Fix
        BY <2>1, BootKeepsTypes DEF Boot, Fix
    <2>2. CASE Crash
        BY <2>2, CrashKeepsTypes
    <2>3. CASE PostSend \/ TakeJob \/ Send
        BY <2>3, MessageKeepsTypes
    <2>4. CASE TooLong \/ SendFails
        <3>1. job = "running" /\ Fail /\ refused' \in BOOLEAN
            BY <2>4 DEF TooLong, SendFails, TypeInv, TypeOK
        <3> QED
            BY <3>1, FailKeepsTypes
    <2>5. CASE \E m \in Modems : Connection(m)
        <3>1. PICK m \in Modems : Connection(m)
            BY <2>5
        <3>2. /\ up' \subseteq ToSet(fleet) /\ load' \in [Modems -> Nat]
              /\ UNCHANGED <<boot, file, table, fleet, rr, job, text, to, pin, at, tries, air,
                             refused, crashes, refit>>
            BY <3>1 DEF Connection, importVars, jobVars, TypeInv, TypeOK
        <3>3. ImportTypeOK'
            BY <3>2 DEF TypeInv, TypeOK, ImportTypeOK
        <3> QED
            BY <3>2, <3>3 DEF TypeInv, TypeOK, TriesLeft
    <2>6. CASE UNCHANGED vars
        <3>1. UNCHANGED <<boot, file, table, fleet, up, rr, load, job, text, to, pin, at,
                          tries, air, refused, crashes, refit>>
            BY <2>6 DEF vars, importVars, poolVars, jobVars
        <3>2. ImportTypeOK'
            BY <3>1 DEF TypeInv, TypeOK, ImportTypeOK
        <3> QED
            BY <3>1, <3>2 DEF TypeInv, TypeOK, TriesLeft
    <2> QED
        BY <2>1, <2>2, <2>3, <2>4, <2>5, <2>6 DEF Next
<1> QED
    BY <1>1, <1>2, PTL DEF Spec

\* Every variable keeps its type; in particular no message is tried more often than
\* MaxAttempts times, whatever restarts happen between the attempts
\* (bull.config.js:12-15, 119-121).
THEOREM GatewayIsTyped == Spec => []TypeOK
BY TypeInvariance, PTL DEF TypeInv

-----------------------------------------------------------------------------
\* Going round: the remainder of the next number.

LEMMA RemainderIs ==
    ASSUME NEW r \in Nat, NEW n \in Nat, n > 0
    PROVE  r % n \in 0..n-1 /\ r \div n \in Int /\ r = n * (r \div n) + (r % n)
  <1>1. r % n \in 0..n-1
    BY SMT
  <1>2. r \div n \in Int
    BY SMT
  <1>3. r = n * (r \div n) + (r % n)
    BY SMT
  <1> QED BY <1>1, <1>2, <1>3

LEMMA Monotone ==
    ASSUME NEW n \in Nat, NEW p \in Int, NEW q \in Int, p >= q + 1
    PROVE  n * p >= n * q + n
  <1>1. n * (p - q - 1) >= 0
    BY SMT
  <1>2. n * (p - q - 1) = n * p - n * q - n
    BY SMT
  <1>3. n * p \in Int /\ n * q \in Int
    BY SMT
  <1> QED BY <1>1, <1>2, <1>3

LEMMA OneRemainder ==
    ASSUME NEW n \in Nat, NEW p \in Int, NEW q \in Int, NEW s \in 0..n-1, NEW t \in 0..n-1,
           n * p + s = n * q + t
    PROVE  s = t
  <1>0. n * p \in Int /\ n * q \in Int
    BY SMT
  <1>1. CASE p >= q + 1
    BY <1>0, <1>1, n * p >= n * q + n, Monotone
  <1>2. CASE q >= p + 1
    BY <1>0, <1>2, n * q >= n * p + n, Monotone
  <1>3. CASE p = q
    BY <1>0, <1>3
  <1> QED BY <1>1, <1>2, <1>3

LEMMA NextTurn ==
    ASSUME NEW r \in Nat, NEW n \in Nat, n > 0
    PROVE  /\ r % n \in 0..n-1
           /\ (r + 1) % n = IF r % n = n - 1 THEN 0 ELSE (r % n) + 1
  <1> DEFINE a == r % n
             b == (r + 1) % n
             p == r \div n
             q == (r + 1) \div n
  <1>1. a \in 0..n-1 /\ p \in Int /\ r = n * p + a
    BY RemainderIs
  <1>2. b \in 0..n-1 /\ q \in Int /\ r + 1 = n * q + b
    BY RemainderIs, r + 1 \in Nat
  <1> HIDE DEF a, b, p, q
  <1>3. n * p \in Int /\ n * q \in Int /\ n * (p + 1) \in Int /\ n * (p + 1) = n * p + n
    BY <1>1, <1>2, SMT
  <1>4. CASE a = n - 1
    <2>1. n * q + b = n * (p + 1) + 0
      BY <1>1, <1>2, <1>3, <1>4
    <2>2. b = 0
      BY <1>1, <1>2, <2>1, OneRemainder, p + 1 \in Int, 0 \in 0..n-1
    <2> QED BY <1>1, <1>4, <2>2 DEF a, b
  <1>5. CASE a # n - 1
    <2>1. n * q + b = n * p + (a + 1) /\ a + 1 \in 0..n-1
      BY <1>1, <1>2, <1>3, <1>5
    <2>2. b = a + 1
      BY <1>1, <1>2, <2>1, OneRemainder
    <2> QED BY <1>1, <1>5, <2>2 DEF a, b
  <1> QED BY <1>4, <1>5

-----------------------------------------------------------------------------
\* The turns of the pool.

\* The turn of m is the number of modems of the pool before it.
Before(m) == {d \in Pool : Place(d) < Place(m)}
Turn(m) == Cardinality(Before(m))

LEMMA PoolFacts ==
    ASSUME TypeOK
    PROVE  /\ IsFiniteSet(Pool) /\ Cardinality(Pool) \in Nat \ {0}
           /\ Pool # {} /\ Pool \subseteq ToSet(fleet) /\ Pool \subseteq Modems
<1>1. fleet \in Seq(Modems) /\ fleet # <<>>
    BY GatewayAssumption DEF TypeOK
<1>2. IsFiniteSet(DOMAIN fleet) /\ DOMAIN fleet # {}
    <2>1. DOMAIN fleet = 1..Len(fleet) /\ Len(fleet) \in Nat /\ Len(fleet) # 0
        BY <1>1
    <2>2. 1 \in 1..Len(fleet)
        BY <2>1
    <2>3. IsFiniteSet(1..Len(fleet))
        BY <2>1, FS_Interval
    <2> QED
        BY <2>1, <2>2, <2>3
<1>3. IsFiniteSet(ToSet(fleet)) /\ ToSet(fleet) # {}
    <2>1. fleet \in Surjection(DOMAIN fleet, ToSet(fleet))
        BY <1>1 DEF Surjection, ToSet
    <2> QED
        BY <1>2, <2>1, FS_Surjection DEF ToSet
<1>4. ToSet(fleet) \subseteq Modems
    BY <1>1 DEF ToSet
<1>5. Pool \subseteq ToSet(fleet) /\ Pool # {}
    BY <1>3 DEF Pool, TypeOK
<1>6. IsFiniteSet(Pool)
    BY <1>3, <1>5, FS_Subset
<1>7. Cardinality(Pool) \in Nat /\ Cardinality(Pool) # 0
    BY <1>5, <1>6, FS_CardinalityType, FS_EmptySet
<1> QED
    BY <1>4, <1>5, <1>6, <1>7

\* No two modems have the same place.
LEMMA PlaceFacts ==
    ASSUME TypeOK, NEW m \in ToSet(fleet)
    PROVE  Place(m) \in Nat /\ fleet[Place(m)] = m
<1>1. DOMAIN fleet \subseteq Nat
    BY GatewayAssumption DEF TypeOK
<1>2. \E i \in DOMAIN fleet : fleet[i] = m
    BY DEF ToSet
<1> QED
    BY <1>1, <1>2 DEF Place

LEMMA TurnType ==
    ASSUME TypeOK, NEW m \in Pool
    PROVE  IsFiniteSet(Before(m)) /\ Turn(m) \in 0..Cardinality(Pool) - 1
<1>1. IsFiniteSet(Pool) /\ m \in ToSet(fleet)
    BY PoolFacts
<1>2. m \notin Before(m)
    BY <1>1, PlaceFacts DEF Before
<1>3. Before(m) \subseteq Pool \ {m}
    BY <1>2 DEF Before
<1>4. /\ IsFiniteSet(Pool \ {m})
      /\ Cardinality(Pool \ {m}) = Cardinality(Pool) - 1
    BY <1>1, FS_RemoveElement
<1>5. IsFiniteSet(Before(m)) /\ Cardinality(Before(m)) <= Cardinality(Pool \ {m})
    BY <1>3, <1>4, FS_Subset
<1>6. Cardinality(Before(m)) \in Nat /\ Cardinality(Pool) \in Nat
    BY <1>1, <1>5, FS_CardinalityType
<1> QED
    BY <1>4, <1>5, <1>6 DEF Turn

LEMMA TurnsGrow ==
    ASSUME TypeOK, NEW m \in Pool, NEW k \in Pool, Place(m) < Place(k)
    PROVE  Turn(m) < Turn(k)
<1>1. m \in ToSet(fleet) /\ k \in ToSet(fleet)
    BY PoolFacts
<1>2. /\ Place(m) \in Nat /\ Place(k) \in Nat
      /\ \A d \in Pool : Place(d) \in Nat
    BY <1>1, PlaceFacts, PoolFacts
<1>3. m \notin Before(m)
    BY <1>2 DEF Before
<1>a. IsFiniteSet(Before(m)) /\ IsFiniteSet(Before(k))
    BY TurnType
<1>4. Before(m) \union {m} \subseteq Before(k)
    BY <1>2 DEF Before
<1>5. Cardinality(Before(m) \union {m}) = Cardinality(Before(m)) + 1
    BY <1>3, <1>a, FS_AddElement
<1>6. Cardinality(Before(m) \union {m}) <= Cardinality(Before(k))
    BY <1>a, <1>4, FS_Subset
<1>7. Cardinality(Before(m)) \in Nat /\ Cardinality(Before(k)) \in Nat
    BY <1>a, FS_CardinalityType
<1> QED
    BY <1>5, <1>6, <1>7 DEF Turn

\* No two modems have the same turn.
LEMMA TurnsDiffer ==
    ASSUME TypeOK, NEW m \in Pool, NEW k \in Pool, Turn(m) = Turn(k)
    PROVE  m = k
<1>1. /\ Place(m) \in Nat /\ fleet[Place(m)] = m
      /\ Place(k) \in Nat /\ fleet[Place(k)] = k
    BY PoolFacts, PlaceFacts
<1>2. Turn(m) \in Nat
    BY TurnType, PoolFacts
<1>3. ~(Place(m) < Place(k)) /\ ~(Place(k) < Place(m))
    BY <1>2, TurnsGrow
<1> QED
    BY <1>1, <1>3

-----------------------------------------------------------------------------
\* The round.

\* p lies between a and q, going round.
InArc(p, a, q) == IF a <= q THEN a <= p /\ p < q ELSE a <= p \/ p < q

\* Since the pool last changed every modem was picked c times, and those whose turn
\* has come in the round that began at a once more.
Round(a, c) ==
    LET q == rr % Cardinality(Pool)
    IN  \A m \in Pool : load[m] = IF InArc(Turn(m), a, q) THEN c + 1 ELSE c

SpreadInv ==
    /\ \A m \in Modems \ Pool : load[m] = 0
    /\ \E a \in 0..Cardinality(Pool) - 1 : \E c \in Nat : Round(a, c)

\* The next pick lengthens the arc, or closes the circle.
LEMMA ArcGrows ==
    ASSUME NEW n \in Nat, n > 0, NEW a \in 0..n-1, NEW q \in 0..n-1, NEW p \in 0..n-1,
           NEW r, r = IF q = n - 1 THEN 0 ELSE q + 1
    PROVE  /\ ~InArc(q, a, q)
           /\ r # a => (InArc(p, a, r) <=> InArc(p, a, q) \/ p = q)
           /\ r = a => /\ ~InArc(p, a, r)
                       /\ InArc(p, a, q) \/ p = q
<1>1. ~InArc(q, a, q)
    BY DEF InArc
<1>2. CASE q = n - 1
    BY <1>1, <1>2 DEF InArc
<1>3. CASE q # n - 1
    BY <1>1, <1>3 DEF InArc
<1> QED
    BY <1>2, <1>3

\* A round that has just begun.
LEMMA FreshRound == TypeOK /\ (\A m \in Modems : load[m] = 0) => SpreadInv
<1> SUFFICES ASSUME TypeOK, \A m \in Modems : load[m] = 0
             PROVE  SpreadInv
    OBVIOUS
<1>0. rr \in Nat
    BY DEF TypeOK
<1> DEFINE n == Cardinality(Pool)
           a == rr % n
<1>1. n \in Nat /\ n > 0 /\ Pool \subseteq Modems
    BY PoolFacts
<1>2. a \in 0..n-1
    BY <1>0, <1>1, NextTurn
<1>3. \A m \in Pool : ~InArc(Turn(m), a, a)
    <2> TAKE m \in Pool
    <2>1. Turn(m) \in 0..n-1
        BY TurnType
    <2> HIDE DEF a, n
    <2> QED
        BY <1>1, <1>2, <2>1 DEF InArc
<1>4. Round(a, 0)
    BY <1>1, <1>3 DEF Round
<1> QED
    BY <1>2, <1>4 DEF SpreadInv

\* The same of the state after a step.
LEMMA FreshRoundNext == TypeOK' /\ (\A m \in Modems : load'[m] = 0) => SpreadInv'
<1>1. (TypeOK /\ (\A m \in Modems : load[m] = 0) => SpreadInv)'
    BY FreshRound, PTL
<1> QED
    BY <1>1

\* A pick.
LEMMA PickSpreads ==
    ASSUME TypeOK, SpreadInv, NEW m \in Pool, IsPick(m, rr),
           load' = [load EXCEPT ![m] = @ + 1], rr' = rr + 1, UNCHANGED <<fleet, up>>
    PROVE  SpreadInv'
<1> DEFINE n == Cardinality(Pool)
           q == rr % n
           r == (rr + 1) % n
<1>0. n \in Nat /\ n > 0 /\ Pool \subseteq Modems /\ rr \in Nat
    BY PoolFacts DEF TypeOK
<1>1. q \in 0..n-1 /\ r = IF q = n - 1 THEN 0 ELSE q + 1
    BY <1>0, NextTurn
<1>2. /\ Pool' = Pool
      /\ \A d : Turn(d)' = Turn(d)
    BY DEF Pool, Turn, Before, Place
<1>3. Turn(m) = q
    BY DEF IsPick, Turn, Before
<1>4. \A d \in Pool : Turn(d) \in 0..n-1 /\ (Turn(d) = q <=> d = m)
    BY <1>3, TurnType, TurnsDiffer
<1>5. PICK a \in 0..n-1 : \E c \in Nat : Round(a, c)
    BY DEF SpreadInv
<1>6. PICK c \in Nat : Round(a, c)
    BY <1>5
<1>7. \A d \in Pool : load[d] = IF InArc(Turn(d), a, q) THEN c + 1 ELSE c
    BY <1>6 DEF Round
<1>8. \A d \in Modems : load'[d] = IF d = m THEN load[d] + 1 ELSE load[d]
    BY <1>0 DEF TypeOK
<1>9. rr' % Cardinality(Pool') = r
    BY <1>2
<1> HIDE DEF n, q, r
<1>10. \A d \in Modems \ Pool' : load'[d] = 0
    BY <1>2, <1>8 DEF SpreadInv
<1>11. CASE r # a
    <2>1. ASSUME NEW d \in Pool
          PROVE  load'[d] = IF InArc(Turn(d), a, r) THEN c + 1 ELSE c
        <3>1. /\ ~InArc(q, a, q)
              /\ InArc(Turn(d), a, r) <=> InArc(Turn(d), a, q) \/ Turn(d) = q
            BY <1>0, <1>1, <1>4, <1>11, ArcGrows
        <3>2. CASE d = m
            BY <1>0, <1>3, <1>7, <1>8, <3>1, <3>2
        <3>3. CASE d # m
            BY <1>0, <1>4, <1>7, <1>8, <3>1, <3>3
        <3> QED
            BY <3>2, <3>3
    <2>2. Round(a, c)'
        BY <1>2, <1>9, <2>1 DEF Round
    <2> QED
        BY <1>2, <1>10, <2>2 DEF SpreadInv, n
<1>12. CASE r = a
    <2>1. ASSUME NEW d \in Pool
          PROVE  load'[d] = IF InArc(Turn(d), a, r) THEN c + 2 ELSE c + 1
        <3>1. /\ ~InArc(q, a, q) /\ ~InArc(Turn(d), a, r)
              /\ InArc(Turn(d), a, q) \/ Turn(d) = q
            BY <1>0, <1>1, <1>4, <1>12, ArcGrows
        <3>2. CASE d = m
            BY <1>0, <1>3, <1>7, <1>8, <3>1, <3>2
        <3>3. CASE d # m
            BY <1>0, <1>4, <1>7, <1>8, <3>1, <3>3
        <3> QED
            BY <3>2, <3>3
    <2>2. c + 1 \in Nat /\ (c + 1) + 1 = c + 2
        OBVIOUS
    <2>3. Round(a, c + 1)'
        BY <1>2, <1>9, <2>1, <2>2 DEF Round
    <2> QED
        BY <1>2, <1>10, <2>2, <2>3 DEF SpreadInv, n
<1> QED
    BY <1>11, <1>12

\* Nothing of the pool changes.
LEMMA SpreadStays ==
    ASSUME SpreadInv, UNCHANGED <<fleet, up, rr, load>>
    PROVE  SpreadInv'
<1>1. /\ Pool' = Pool
      /\ \A d : Turn(d)' = Turn(d)
    BY DEF Pool, Turn, Before, Place
<1> QED
    BY <1>1 DEF SpreadInv, Round

\* While the same modems are connected none is picked twice more often than another
\* (pool.js:1-5): for any number of modems, picks and changes of the pool.
THEOREM PicksAreSpread == Spec => []Spread
<1>1. Init => (TypeInv => SpreadInv)
    <2> SUFFICES ASSUME Init, TypeInv PROVE SpreadInv
        OBVIOUS
    <2>1. TypeOK /\ \A m \in Modems : load[m] = 0
        BY DEF Init, TypeInv
    <2> QED
        BY <2>1, FreshRound
<1>2. TypeInv /\ TypeInv' /\ SpreadInv /\ [Next]_vars => SpreadInv'
    <2> SUFFICES ASSUME TypeInv, TypeInv', SpreadInv, [Next]_vars
                 PROVE  SpreadInv'
        OBVIOUS
    <2>1. TypeOK /\ TypeOK'
        BY DEF TypeInv
    <2>2. CASE Crash \/ \E m \in Modems : Connection(m)
        <3>1. \A m \in Modems : load'[m] = 0
            BY <2>2 DEF Crash, Connection
        <3> QED
            BY <2>1, <3>1, FreshRoundNext
    <2>3. CASE TakeJob /\ pin = NoModem
        <3>1. PICK m \in Pool : IsPick(m, rr) /\ load' = [load EXCEPT ![m] = @ + 1]
            BY <2>3 DEF TakeJob
        <3>2. rr' = rr + 1 /\ UNCHANGED <<fleet, up>>
            BY <2>3 DEF TakeJob
        <3> QED
            BY <2>1, <3>1, <3>2, PickSpreads
    <2>4. CASE \/ Boot \/ Fix \/ PostSend \/ TooLong \/ SendFails \/ Send
               \/ TakeJob /\ pin # NoModem
               \/ UNCHANGED vars
        <3>1. UNCHANGED <<fleet, up, rr, load>>
            BY <2>4 DEF Boot, Fix, PostSend, TooLong, SendFails, Send, TakeJob, Fail, vars,
               poolVars
        <3> QED
            BY <3>1, SpreadStays
    <2> QED
        BY <2>2, <2>3, <2>4 DEF Next
<1>3. TypeInv /\ SpreadInv => Spread
    <2> SUFFICES ASSUME TypeInv, SpreadInv, NEW m \in Modems
                 PROVE  IF m \in Pool THEN \A d \in Pool : load[m] <= load[d] + 1
                                      ELSE load[m] = 0
        BY DEF Spread, Pool
    <2>1. PICK a \in 0..Cardinality(Pool) - 1 : \E c \in Nat : Round(a, c)
        BY DEF SpreadInv
    <2>2. PICK c \in Nat : Round(a, c)
        BY <2>1
    <2>3. \A d \in Pool : load[d] \in {c, c + 1}
        BY <2>2 DEF Round
    <2>4. \A d \in Pool : load[d] \in Nat /\ load[d] >= c /\ load[d] <= c + 1
        BY <2>2, <2>3
    <2>5. CASE m \in Pool
        BY <2>2, <2>4, <2>5
    <2>6. CASE m \notin Pool
        BY <2>6 DEF SpreadInv
    <2> QED
        BY <2>5, <2>6
<1> QED
    BY <1>1, <1>2, <1>3, TypeInvariance, PTL DEF Spec
=============================================================================

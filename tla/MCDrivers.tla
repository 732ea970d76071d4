----------------------------- MODULE MCDrivers -----------------------------
(***************************************************************************)
(* The two driver models in one instance for TLC.  Drivers share nothing,  *)
(* so a behaviour watches a serial or a remote modem from the start and    *)
(* leaves the other one as it was built.                                   *)
(***************************************************************************)
EXTENDS SerialModem

CONSTANTS Drivers, PhoneParts, HandlesInOrder, StatusIsOwn, RejectMeansRefused

VARIABLES
    watched,
    driver, kind, rn, rpc, rcmd, wire, part, parts, rfate, rreply, loggedIn, session,
    register, air, ussd, flag, data, late, given, rtaken, blind, upset

Remote == INSTANCE RemoteModem
              WITH n <- rn, pc <- rpc, cmd <- rcmd, fate <- rfate, reply <- rreply,
                   taken <- rtaken

ASSUME RemoteAssumption == Remote!ConstantsOK

remoteVars == <<driver, kind, rn, rpc, rcmd, wire, part, parts, rfate, rreply, loggedIn,
                session, register, air, ussd, flag, data, late, given, rtaken, blind, upset>>

AsBuilt ==
    IF watched = "serial"
    THEN driver = "adb" /\ ~session /\ register = "2" /\ data = 0 /\ flag = "13"
    ELSE text

DriversInit == watched \in {"serial", "remote"} /\ Init /\ Remote!Init /\ AsBuilt

DriversNext ==
    \/ watched = "serial" /\ Next /\ UNCHANGED <<watched, remoteVars>>
    \/ watched = "remote" /\ Remote!Next /\ UNCHANGED <<watched, vars>>

DriversSpec ==
    /\ DriversInit /\ [][DriversNext]_<<watched, vars, remoteVars>>
    /\ \/ watched = "serial" /\ Fairness
       \/ watched = "remote" /\ Remote!Fairness

-----------------------------------------------------------------------------
\* Both models keep their types.
DriversTypeOK == TypeOK /\ Remote!TypeOK

\* The zte-http and adb drivers keep the driver contract (RemoteModem).
RemoteImplementsDriver == Remote!ImplementsDriver

\* A USSD session on a stick returns its own reply (RemoteModem).
FreshReply == Remote!FreshReply

\* A lapsed login session alone never fails a call (RemoteModem).
ExpiryCured == Remote!ExpiryCured

\* Every call of every driver gives its modem back, whatever the modem answers:
\* each command has a timer, each polling a deadline (modem.js:194-220,
\* zte-http.js:108, 205, 268).  The driver not watched has no call.
DriverCallsEnd == active \/ rpc # "idle" ~> ~active /\ rpc = "idle"
=============================================================================

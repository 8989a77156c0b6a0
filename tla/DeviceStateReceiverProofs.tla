---------------------- MODULE DeviceStateReceiverProofs ----------------------
(***************************************************************************)
(* Proofs about pause and hold of the OpenVPN client, for all networks,    *)
(* waiting times and bounds.                                               *)
(***************************************************************************)
EXTENDS DeviceStateReceiver, TLAPS

-----------------------------------------------------------------------------
(* Types.                                                                  *)

LEMMA ReasonTypes ==
    /\ getPauseReason \in pauseReason
    /\ getPauseReason' \in pauseReason
    /\ \A reason \in pauseReason : PauseState[reason] \in Status
  BY DEF getPauseReason, pauseReason, PauseState, Status

LEMMA LineTypes ==
    /\ ByteCount \in Line /\ StateLine \in Line
    /\ \A w \in Waits : Hold(w) \in Line
    /\ \A line \in Line : line.op = "HOLD" => line.wait \in Waits
  BY DEF Line, ByteCount, StateLine, Hold

LEMMA CommandTypes ==
    ASSUME TypeOK, NEW c \in Command, managmentCommand(c)
    PROVE  cmdq' \in Seq(Command)
  BY DEF TypeOK, managmentCommand

(* What the operations of OpenVPNManagement may change.                    *)
CallTypes ==
    /\ mWaitingForRelease' \in BOOLEAN
    /\ resumes' \in Nat
    /\ releasing' \in [Thread -> Caller]
    /\ cmdq' \in Seq(Command)
    /\ lastPauseReason' \in pauseReason
    /\ status' \in Status

LEMMA ReleaseTypes ==
    ASSUME TypeOK, NEW t \in Thread, NEW caller \in Caller
    PROVE  /\ releaseHoldCmd(t, caller) =>
                 mWaitingForRelease' \in BOOLEAN /\ resumes' \in Nat /\ releasing' \in [Thread -> Caller]
           /\ releaseHold(t, caller) =>
                 mWaitingForRelease' \in BOOLEAN /\ resumes' \in Nat /\ releasing' \in [Thread -> Caller]
  BY DEF TypeOK, releaseHold, releaseHoldCmd, holdVars

LEMMA OperationTypes ==
    ASSUME TypeOK
    PROVE  /\ \A reason \in pauseReason : pause(reason) => CallTypes
           /\ \A t \in Thread : resume(t) => CallTypes
           /\ \A t \in Thread : networkChange(t) => CallTypes
           /\ noCommand => CallTypes
<1> USE DEF CallTypes, Command, holdVars
<1>0. TypeOK => mWaitingForRelease \in BOOLEAN /\ resumes \in Nat /\ cmdq \in Seq(Command)
                /\ lastPauseReason \in pauseReason /\ status \in Status
                /\ releasing \in [Thread -> Caller]
  BY DEF TypeOK
<1>1. ASSUME NEW reason \in pauseReason, pause(reason) PROVE CallTypes
  BY <1>0, <1>1, ReasonTypes, CommandTypes DEF pause, updateStatePause
<1>2. "resume" \in Caller /\ "networkChange" \in Caller /\ "noNetwork" \in pauseReason
  BY DEF Caller, pauseReason
<1>3. ASSUME NEW t \in Thread, resume(t) PROVE CallTypes
  BY <1>0, <1>2, <1>3, ReleaseTypes DEF resume
<1>4. ASSUME NEW t \in Thread, networkChange(t) PROVE CallTypes
  <2>1. CASE mWaitingForRelease
    BY <1>0, <1>2, <1>4, <2>1, ReleaseTypes DEF networkChange
  <2>2. CASE ~mWaitingForRelease
    BY <1>0, <1>4, <2>2, CommandTypes DEF networkChange
  <2> QED BY <2>1, <2>2
<1>5. ASSUME noCommand PROVE CallTypes
  BY <1>0, <1>5 DEF noCommand
<1> QED BY <1>1, <1>3, <1>4, <1>5

(* The receiver's own state after networkStateChange().                    *)
LEMMA NetworkTypes ==
    ASSUME TypeOK, NEW n \in Network \cup {NoNetwork}, networkStateChange(n)
    PROVE  /\ network' \in connectState /\ screen' \in connectState
           /\ userpause' \in {"SHOULDBECONNECTED", "DISCONNECTED"}
           /\ lastConnectedNetwork' \in Network \cup {NoNetwork}
           /\ delayed' \in Nat
           /\ CallTypes
<1>0. /\ network \in connectState /\ screen \in connectState
      /\ userpause \in {"SHOULDBECONNECTED", "DISCONNECTED"}
      /\ lastConnectedNetwork \in Network \cup {NoNetwork} /\ delayed \in Nat
  BY DEF TypeOK
<1> "main" \in Thread
  BY DEF Thread
<1>1. CASE networkLost
  BY <1>0, <1>1, OperationTypes DEF networkLost, connectState
<1>2. CASE networkConnected(n)
  <2>1. CASE SameNetworkAgain(n)
    BY <1>0, <1>2, <2>1, OperationTypes DEF networkConnected, SameNetworkAgain, connectState
  <2>2. CASE OtherNetwork(n)
    <3>1. CallTypes
      BY <2>2, OperationTypes DEF OtherNetwork
    <3>2. delayed' \in Nat
      <4>1. delayed' = 0 \/ delayed' = delayed
        BY <2>2, Zenon DEF OtherNetwork
      <4> QED BY <1>0, <4>1
    <3> QED BY <1>0, <1>2, <2>2, <3>1, <3>2 DEF networkConnected, OtherNetwork, connectState
  <2> QED BY <1>2, <2>1, <2>2 DEF networkConnected
<1> QED BY <1>1, <1>2 DEF networkStateChange

LEMMA InitTypeOK == Init => TypeOK
<1> SUFFICES ASSUME Init PROVE TypeOK
  OBVIOUS
<1>1. lineq \in Seq(Line)
  <2>1. PICK w \in Waits : lineq = <<Hold(w)>>
    BY DEF Init, ManagementInit
  <2> QED BY <2>1, LineTypes
<1>2. cmdq \in Seq(Command) /\ delayed \in Nat
  BY DEF Init, ManagementInit
<1>3. /\ network \in connectState /\ screen \in connectState
      /\ userpause \in {"SHOULDBECONNECTED", "DISCONNECTED"}
      /\ lastPauseReason \in pauseReason /\ status \in Status
      /\ activeNetwork \in Network \cup {NoNetwork}
      /\ lastConnectedNetwork \in Network \cup {NoNetwork}
  BY DEF Init, ManagementInit, connectState, pauseReason, Status
<1>4. /\ mPauseCallback \in BOOLEAN /\ mWaitingForRelease \in BOOLEAN
      /\ mShuttingDown \in BOOLEAN /\ screenOn \in BOOLEAN
  BY DEF Init, ManagementInit
<1>5. /\ resumes \in Nat /\ releasing \in [Thread -> Caller] /\ waittime \in Waits \cup {0}
      /\ restarts \in 0..MaxRestarts /\ counts \in 0..MaxCounts /\ events \in 0..MaxEvents
  BY ManagementAssumption, ReceiverAssumption DEF Init, ManagementInit, Caller
<1>6. mgmt = "reading" /\ ovpn = "hold"
  BY DEF Init, ManagementInit
<1> QED BY <1>1, <1>2, <1>3, <1>4, <1>5, <1>6 DEF TypeOK

LEMMA EnvironmentTypes ==
    ASSUME TypeOK, Environment
    PROVE  TypeOK'
<1> USE DEF restVars, receiverVars, worldVars, processVars, threadVars, Happens, CallTypes, Thread
<1>0. events < MaxEvents => events + 1 \in 0..MaxEvents
  BY ReceiverAssumption DEF TypeOK
<1>1. CASE \E n \in Network \cup {NoNetwork} : ConnectivityAction(n)
  <2>1. PICK n \in Network \cup {NoNetwork} : ConnectivityAction(n)
    BY <1>1
  <2> QED BY <1>0, <2>1, NetworkTypes DEF ConnectivityAction, TypeOK
<1>2. CASE ScreenOff
  <2>1. CallTypes
    BY <1>2, OperationTypes DEF ScreenOff
  <2>2. screen' \in connectState /\ screenOn' = FALSE
    BY <1>2 DEF ScreenOff, connectState
  <2> QED BY <1>0, <1>2, <2>1, <2>2 DEF ScreenOff, TypeOK
<1>3. CASE ScreenOn
  <2>1. CallTypes
    BY <1>3, OperationTypes, ReasonTypes DEF ScreenOn
  <2> QED BY <1>0, <1>3, <2>1 DEF ScreenOn, TypeOK, connectState
<1>4. CASE PauseVpn \/ ResumeVpn \/ \E paused \in BOOLEAN : ApiUserPause(paused)
  <2>1. PICK t \in Thread, paused \in BOOLEAN : userPause(t, paused)
    BY <1>4 DEF PauseVpn, ResumeVpn, ApiUserPause
  <2>2. CallTypes
    BY <2>1, OperationTypes, ReasonTypes DEF userPause
  <2>3. events' \in 0..MaxEvents
    BY <1>0, <1>4 DEF PauseVpn, ResumeVpn, ApiUserPause
  <2>4. mPauseCallback' = mPauseCallback
    BY <2>1 DEF userPause
  <2> QED BY <2>1, <2>2, <2>3, <2>4 DEF userPause, TypeOK
<1>5. CASE StopVpn
  <2>1. cmdq' \in Seq(Command)
    BY <1>5, CommandTypes DEF StopVpn, stopVPN, Command
  <2> QED BY <1>0, <1>5, <2>1 DEF StopVpn, stopVPN, deviceVars, holdVars, TypeOK
<1> QED BY <1>1, <1>2, <1>3, <1>4, <1>5 DEF Environment

LEMMA MainThreadTypes ==
    ASSUME TypeOK, MainThread
    PROVE  TypeOK'
<1> USE DEF restVars, receiverVars, worldVars, processVars, threadVars, CallTypes
<1>1. CASE Register
  <2>1. activeNetwork \in Network \cup {NoNetwork}
    BY <1>1 DEF Register, TypeOK
  <2> QED BY <1>1, <2>1, NetworkTypes DEF Register, TypeOK
<1>2. CASE DelayedDisconnect
  <2>1. CallTypes
    BY <1>2, OperationTypes, ReasonTypes DEF DelayedDisconnect
  <2>2. network' \in connectState /\ screen' \in connectState /\ userpause' = userpause
    BY <1>2 DEF DelayedDisconnect, TypeOK, connectState
  <2>3. delayed' \in Nat
    BY <1>2 DEF DelayedDisconnect, TypeOK
  <2> QED BY <1>2, <2>1, <2>2, <2>3 DEF DelayedDisconnect, TypeOK
<1>3. CASE ResumeHold /\ deviceStays
  <2>1. mWaitingForRelease' \in BOOLEAN /\ resumes' \in Nat /\ releasing' \in [Thread -> Caller]
    <3>1. CASE shouldBeRunning
      <4>1. releaseHoldCmd("main", "mResumeHoldRunnable")
        BY <1>3, <3>1 DEF ResumeHold
      <4> QED BY <4>1, ReleaseTypes DEF Thread, Caller
    <3>2. CASE ~shouldBeRunning
      BY <1>3, <3>2 DEF ResumeHold, TypeOK
    <3> QED BY <3>1, <3>2
  <2> QED BY <1>3, <2>1 DEF ResumeHold, deviceStays, deviceVars, TypeOK
<1> QED BY <1>1, <1>2, <1>3 DEF MainThread

LEMMA ReleaseStepTypes ==
    ASSUME TypeOK, Release
    PROVE  TypeOK'
<1>1. PICK t \in Thread : HoldRelease(t) /\ deviceStays
  BY DEF Release
<1>2. cmdq' \in Seq(Command)
  BY <1>1, CommandTypes DEF HoldRelease, Command
<1>3. releasing' \in [Thread -> Caller] /\ lastPauseReason' \in pauseReason
  BY <1>1 DEF HoldRelease, TypeOK, Caller, pauseReason
<1>4. mWaitingForRelease' = FALSE
  BY <1>1 DEF HoldRelease
<1>5. UNCHANGED <<network, screen, userpause, mPauseCallback, resumes, mShuttingDown, status>>
  BY <1>1 DEF HoldRelease, deviceVars
<1>6. UNCHANGED <<ovpn, restarts, counts, mgmt, waittime, lineq>>
  BY <1>1 DEF HoldRelease, processVars, threadVars
<1>7. UNCHANGED <<lastConnectedNetwork, delayed, activeNetwork, screenOn, events>>
  BY <1>1 DEF deviceStays, receiverVars, worldVars
<1>8. /\ network' \in connectState /\ screen' \in connectState
      /\ userpause' \in {"SHOULDBECONNECTED", "DISCONNECTED"}
      /\ mPauseCallback' \in BOOLEAN /\ mWaitingForRelease' \in BOOLEAN
      /\ mShuttingDown' \in BOOLEAN /\ resumes' \in Nat /\ status' \in Status
  BY <1>4, <1>5 DEF TypeOK
<1>9. /\ mgmt' \in {"reading", "held", "retrying", "pausing", "counting", "lowtraffic"}
      /\ waittime' \in Waits \cup {0} /\ lineq' \in Seq(Line)
      /\ ovpn' \in {"hold", "running", "exited"}
      /\ restarts' \in 0..MaxRestarts /\ counts' \in 0..MaxCounts
  BY <1>6 DEF TypeOK
<1>10. /\ activeNetwork' \in Network \cup {NoNetwork}
       /\ lastConnectedNetwork' \in Network \cup {NoNetwork}
       /\ delayed' \in Nat /\ screenOn' \in BOOLEAN /\ events' \in 0..MaxEvents
  BY <1>7 DEF TypeOK
<1> HIDE DEF TypeOK
<1> QED BY <1>2, <1>3, <1>8, <1>9, <1>10 DEF TypeOK

LEMMA ManagementThreadTypes ==
    ASSUME TypeOK, ManagementThread
    PROVE  TypeOK'
<1> USE DEF deviceVars, deviceStays, receiverVars, worldVars, processVars, clientVars, holdVars, TypeOK
<1>1. CASE processCommand /\ deviceStays
  <2>1. Head(lineq) \in Line /\ lineq' \in Seq(Line)
    BY <1>1 DEF processCommand
  <2>2. CASE Head(lineq).op = "HOLD" /\ handleHold(Head(lineq).wait)
    BY <1>1, <2>1, <2>2, LineTypes DEF processCommand, handleHold
  <2>3. CASE processState
    BY <1>1, <2>1, <2>3 DEF processCommand, processState, Status
  <2>4. CASE processByteCount
    BY <1>1, <2>1, <2>4 DEF processCommand, processByteCount
  <2> QED BY <1>1, <2>2, <2>3, <2>4 DEF processCommand
<1>2. CASE DecideHold /\ deviceStays
  BY <1>2 DEF DecideHold
<1>3. CASE PostResume /\ deviceStays
  BY <1>3 DEF PostResume, Status
<1>4. CASE ShowPause /\ deviceStays
  BY <1>4, ReasonTypes DEF ShowPause, updateStatePause
<1>5. CASE EnoughTraffic
  BY <1>5 DEF EnoughTraffic
<1>6. CASE LittleTraffic
  BY <1>6 DEF LittleTraffic, connectState
<1>7. CASE PauseScreenOff
  <2>1. CallTypes
    BY <1>7, OperationTypes, ReasonTypes DEF PauseScreenOff
  <2> QED BY <1>7, <2>1 DEF PauseScreenOff, CallTypes
<1> QED BY <1>1, <1>2, <1>3, <1>4, <1>5, <1>6, <1>7 DEF ManagementThread

LEMMA ProcessTypes ==
    ASSUME TypeOK, Process
    PROVE  TypeOK'
<1> USE DEF deviceVars, deviceStays, receiverVars, worldVars, clientVars, holdVars, threadVars, TypeOK
<1>0. HoldsAgain => ovpn' = "hold" /\ lineq' \in Seq(Line)
  BY LineTypes DEF HoldsAgain
<1>1. CASE ProcessTakes /\ deviceStays
  <2>1. ovpn' \in {"hold", "running", "exited"} /\ lineq' \in Seq(Line)
    <3>1. Takes(Head(cmdq))
      BY <1>1 DEF ProcessTakes
    <3>2. lineq' = Append(lineq, StateLine) => lineq' \in Seq(Line)
      BY LineTypes
    <3> QED BY <1>0, <3>1, <3>2 DEF Takes
  <2>2. cmdq' \in Seq(Command)
    BY <1>1 DEF ProcessTakes
  <2> QED BY <1>1, <2>1, <2>2 DEF ProcessTakes
<1>2. CASE ProcessRestarts /\ deviceStays
  BY <1>0, <1>2, ManagementAssumption DEF ProcessRestarts
<1>3. CASE ProcessCounts /\ deviceStays
  BY <1>3, LineTypes, ManagementAssumption DEF ProcessCounts
<1> QED BY <1>1, <1>2, <1>3 DEF Process

LEMMA TypeStep == TypeOK /\ [Next]_vars => TypeOK'
<1>1. TypeOK /\ UNCHANGED vars => TypeOK'
  BY DEF vars, deviceVars, processVars, clientVars, holdVars, threadVars, receiverVars, worldVars, TypeOK
<1> QED BY <1>1, EnvironmentTypes, MainThreadTypes, ReleaseStepTypes, ManagementThreadTypes,
       ProcessTypes DEF Next

(* Every variable keeps its type, for all networks and bounds.             *)
THEOREM TypeCorrect == Spec => []TypeOK
  BY TypeStep, InitTypeOK, PTL DEF Spec

-----------------------------------------------------------------------------
(* The part of the types the argument needs.                               *)
Types ==
    /\ resumes \in Nat
    /\ releasing \in [Thread -> Caller]
    /\ mPauseCallback \in BOOLEAN
    /\ mWaitingForRelease \in BOOLEAN
    /\ mShuttingDown \in BOOLEAN

(* A hold that may be released is being released on the main thread, has a *)
(* callback or is just being handled.                                      *)
HoldServed ==
    ~mShuttingDown /\ mWaitingForRelease /\ shouldBeRunning
        => (resumes > 0 \/ ~Free("main") \/ mgmt \in {"held", "retrying"})

(* A byte count that pauses the connection finds a reason to pause, unless *)
(* the hold is released or being released.                                 *)
LowTrafficPauses ==
    ~mShuttingDown /\ mgmt = "lowtraffic" /\ mWaitingForRelease
        => (~shouldBeConnected \/ ~Free("main"))

(* Before the receiver is registered nothing has looked at the network.    *)
Unregistered == ~mPauseCallback => network = "DISCONNECTED"

HoldInv == Types /\ HoldServed /\ LowTrafficPauses /\ Unregistered

-----------------------------------------------------------------------------
(* The operations of OpenVPNManagement, on the main thread.                *)

(* What a call that releases a hold leaves behind.                         *)
Releases ==
    /\ resumes' \in Nat
    /\ releasing' \in [Thread -> Caller]
    /\ mWaitingForRelease' = mWaitingForRelease
    /\ mWaitingForRelease => ~Free("main")'

LEMMA ReleaseHoldReleases ==
    ASSUME Types, NEW caller \in Caller \ {"none"}, mWaitingForRelease, releaseHold("main", caller)
    PROVE  Releases
  BY DEF Types, releaseHold, releaseHoldCmd, Releases, Free, Thread

LEMMA ResumeReleases ==
    ASSUME Types, resume("main")
    PROVE  Releases
<1>1. CASE mWaitingForRelease
  BY <1>1, ReleaseHoldReleases DEF resume, Caller
<1>2. CASE ~mWaitingForRelease
  BY <1>2 DEF Types, resume, releaseHold, holdVars, Releases
<1> QED BY <1>1, <1>2

LEMMA NetworkChangeReleases ==
    ASSUME Types, networkChange("main")
    PROVE  Releases
<1>1. CASE mWaitingForRelease
  BY <1>1, ReleaseHoldReleases DEF networkChange, Caller
<1>2. CASE ~mWaitingForRelease
  BY <1>2 DEF Types, networkChange, holdVars, Releases
<1> QED BY <1>1, <1>2

(* pause() leaves the hold alone and takes back the callbacks.             *)
LEMMA PauseKeepsHold ==
    ASSUME NEW reason, pause(reason)
    PROVE  UNCHANGED <<mWaitingForRelease, releasing>> /\ resumes' = 0
  BY DEF pause

-----------------------------------------------------------------------------
(* networkStateChange().                                                   *)

(* Whatever the network did: a hold is being released, or the connection   *)
(* is not wanted, or nothing that matters to a hold was changed.           *)
LEMMA NetworkChanges ==
    ASSUME Types, NEW n, networkStateChange(n)
    PROVE  /\ resumes' \in Nat /\ releasing' \in [Thread -> Caller]
           /\ mWaitingForRelease' = mWaitingForRelease
           /\ \/ mWaitingForRelease => ~Free("main")'
              \/ ~shouldBeConnected'
              \/ UNCHANGED <<network, screen, userpause, resumes, releasing>>
<1>1. CASE n = NoNetwork
  BY <1>1 DEF networkStateChange, networkLost, noCommand, holdVars, Types, shouldBeConnected
<1>2. CASE n # NoNetwork
  <2>1. networkConnected(n)
    BY <1>2 DEF networkStateChange
  <2>2. CASE SameNetworkAgain(n)
    BY <2>2, NetworkChangeReleases DEF SameNetworkAgain, Releases
  <2>3. CASE OtherNetwork(n)
    <3>1. CASE shouldBeConnected'
      <4>1. resume("main") \/ networkChange("main")
        BY <2>3, <3>1 DEF OtherNetwork
      <4> QED BY <4>1, ResumeReleases, NetworkChangeReleases DEF Releases
    <3>2. CASE ~shouldBeConnected'
      BY <2>3, <3>2 DEF OtherNetwork, noCommand, holdVars, Types
    <3> QED BY <3>1, <3>2
  <2> QED BY <2>1, <2>2, <2>3 DEF networkConnected
<1> QED BY <1>1, <1>2

(* userPause(), as long as nobody resumes what is not paused.              *)
LEMMA UserPauses ==
    ASSUME Types, NEW paused \in BOOLEAN, userPause("main", paused),
           paused \/ userpause = "DISCONNECTED"
    PROVE  /\ resumes' \in Nat /\ releasing' \in [Thread -> Caller]
           /\ mWaitingForRelease' = mWaitingForRelease
           /\ \/ mWaitingForRelease => ~Free("main")'
              \/ ~shouldBeConnected'
<1>1. CASE ~paused /\ shouldBeConnected' /\ ~shouldBeConnected
  <2>1. resume("main")
    BY <1>1 DEF userPause
  <2> QED BY <2>1, ResumeReleases DEF Releases
<1>2. CASE ~(~paused /\ shouldBeConnected' /\ ~shouldBeConnected)
  <2>1. pause(getPauseReason')
    BY <1>2 DEF userPause
  <2>2. ~shouldBeConnected'
    BY <1>2 DEF userPause, shouldBeConnected
  <2> QED BY <2>1, <2>2, PauseKeepsHold DEF Types
<1> QED BY <1>1, <1>2

-----------------------------------------------------------------------------
(* The invariant.                                                          *)

LEMMA InitHoldInv == Init => HoldInv
<1> SUFFICES ASSUME Init PROVE HoldInv
  OBVIOUS
<1>1. /\ resumes = 0 /\ mPauseCallback = FALSE /\ mWaitingForRelease = FALSE
      /\ mShuttingDown = FALSE /\ mgmt = "reading" /\ network = "DISCONNECTED"
      /\ releasing \in [Thread -> Caller]
  BY DEF Init, ManagementInit, Caller
<1> QED BY <1>1 DEF HoldInv, Types, HoldServed, LowTrafficPauses, Unregistered

(* A step after which a hold is being released, or nothing wants it        *)
(* released, keeps the invariant.                                          *)
LEMMA MainStep ==
    ASSUME HoldInv, mPauseCallback', UNCHANGED <<mShuttingDown, mgmt, mWaitingForRelease>>,
           resumes' \in Nat, releasing' \in [Thread -> Caller],
           \/ mWaitingForRelease => ~Free("main")'
           \/ ~shouldBeConnected'
    PROVE  HoldInv'
  BY DEF HoldInv, Types, HoldServed, LowTrafficPauses, Unregistered, shouldBeRunning

(* What the device and the user do.                                        *)
LEMMA EnvironmentKeepsInv ==
    ASSUME HoldInv, Environment, "apiResume" \notin Events
    PROVE  HoldInv'
<1>0. Types
  BY DEF HoldInv
<1>1. CASE \E n \in Network \cup {NoNetwork} : ConnectivityAction(n)
  <2>1. PICK n \in Network \cup {NoNetwork} : ConnectivityAction(n)
    BY <1>1
  <2>2. /\ networkStateChange(n) /\ mPauseCallback
        /\ UNCHANGED <<mPauseCallback, mShuttingDown, mgmt>>
    BY <2>1 DEF ConnectivityAction, restVars, threadVars
  <2>3. CASE UNCHANGED <<network, screen, userpause, resumes, releasing>>
    BY <1>0, <2>2, <2>3, NetworkChanges DEF HoldInv, Types, HoldServed, LowTrafficPauses,
       Unregistered, shouldBeRunning, shouldBeConnected, Free
  <2> QED BY <1>0, <2>2, <2>3, NetworkChanges, MainStep
<1>2. CASE ScreenOff
  BY <1>2 DEF ScreenOff, noCommand, holdVars, restVars, threadVars, HoldInv, Types, HoldServed,
     LowTrafficPauses, Unregistered, shouldBeRunning, shouldBeConnected, Free
<1>3. CASE ScreenOn
  <2>1. /\ mPauseCallback /\ UNCHANGED <<mPauseCallback, mShuttingDown, mgmt, network, userpause>>
    BY <1>3 DEF ScreenOn, restVars, threadVars
  <2>2. CASE shouldBeConnected' # shouldBeConnected
    <3>1. resume("main")
      BY <1>3, <2>2 DEF ScreenOn
    <3> QED BY <1>0, <2>1, <3>1, ResumeReleases, MainStep DEF Releases
  <2>3. CASE shouldBeConnected' = shouldBeConnected /\ ~shouldBeConnected'
    <3>1. pause(getPauseReason')
      BY <1>3, <2>3 DEF ScreenOn
    <3> QED BY <1>0, <2>1, <2>3, <3>1, PauseKeepsHold, MainStep DEF Types
  <2>4. CASE shouldBeConnected' = shouldBeConnected /\ shouldBeConnected'
    <3>1. noCommand
      BY <1>3, <2>4 DEF ScreenOn
    <3> QED BY <2>1, <2>4, <3>1 DEF noCommand, holdVars, HoldInv, Types, HoldServed,
           LowTrafficPauses, Unregistered, shouldBeRunning, Free
  <2> QED BY <2>2, <2>3, <2>4
<1>4. CASE PauseVpn
  <2>1. userPause("main", TRUE) /\ mPauseCallback /\ UNCHANGED <<mPauseCallback, mShuttingDown, mgmt>>
    BY <1>4 DEF PauseVpn, userPause, restVars, threadVars
  <2> QED BY <1>0, <2>1, UserPauses, MainStep
<1>5. CASE ResumeVpn
  <2>1. userPause("main", FALSE) /\ mPauseCallback /\ UNCHANGED <<mPauseCallback, mShuttingDown, mgmt>>
    BY <1>5 DEF ResumeVpn, userPause, restVars, threadVars
  <2>2. userpause = "DISCONNECTED"
    BY <1>5 DEF ResumeVpn
  <2> QED BY <1>0, <2>1, <2>2, UserPauses, MainStep
<1>6. CASE \E paused \in BOOLEAN : ApiUserPause(paused)
  <2>1. /\ userPause("binder", TRUE) /\ mPauseCallback
        /\ UNCHANGED <<mPauseCallback, mShuttingDown, mgmt>>
    BY <1>6 DEF ApiUserPause, Happens, userPause, restVars, threadVars
  <2>2. pause(getPauseReason') /\ ~shouldBeConnected'
    BY <2>1 DEF userPause, shouldBeConnected
  <2> QED BY <1>0, <2>1, <2>2, PauseKeepsHold, MainStep DEF Types
<1>7. CASE StopVpn
  BY <1>7 DEF StopVpn, stopVPN, deviceVars, threadVars, holdVars, HoldInv, Types, HoldServed,
     LowTrafficPauses, Unregistered
<1> QED BY <1>1, <1>2, <1>3, <1>4, <1>5, <1>6, <1>7 DEF Environment

(* The main thread's callbacks.                                            *)
LEMMA MainThreadKeepsInv ==
    ASSUME HoldInv, MainThread
    PROVE  HoldInv'
<1>0. Types
  BY DEF HoldInv
<1>1. CASE Register
  <2>1. /\ networkStateChange(activeNetwork)
        /\ mPauseCallback' /\ UNCHANGED <<mShuttingDown, mgmt>>
        /\ ~shouldBeConnected
    BY <1>1 DEF Register, threadVars, HoldInv, Unregistered, shouldBeConnected
  <2>2. UNCHANGED <<network, screen, userpause>> => ~shouldBeConnected'
    BY <2>1 DEF shouldBeConnected
  <2> QED BY <1>0, <2>1, <2>2, NetworkChanges, MainStep
<1>2. CASE DelayedDisconnect
  <2>1. UNCHANGED <<mPauseCallback, mShuttingDown, mgmt>>
    BY <1>2 DEF DelayedDisconnect, restVars, threadVars
  <2>2. CASE network = "PENDINGDISCONNECT"
    <3>1. pause(getPauseReason') /\ network' = "DISCONNECTED"
      BY <1>2, <2>2 DEF DelayedDisconnect
    <3>2. ~shouldBeConnected'
      BY <3>1 DEF shouldBeConnected
    <3>3. mPauseCallback'
      BY <1>0, <2>1, <2>2 DEF HoldInv, Types, Unregistered
    <3> QED BY <1>0, <2>1, <3>1, <3>2, <3>3, PauseKeepsHold, MainStep DEF Types
  <2>3. CASE network # "PENDINGDISCONNECT"
    BY <1>2, <2>1, <2>3 DEF DelayedDisconnect, noCommand, holdVars, HoldInv, Types, HoldServed,
           LowTrafficPauses, Unregistered, shouldBeRunning, shouldBeConnected, Free
  <2> QED BY <2>2, <2>3
<1>3. CASE ResumeHold /\ deviceStays
  <2>1. UNCHANGED <<deviceVars, mShuttingDown, mgmt, mWaitingForRelease>>
    BY <1>3 DEF ResumeHold, releaseHoldCmd, threadVars
  <2>2. CASE shouldBeRunning
    <3>1. releaseHoldCmd("main", "mResumeHoldRunnable")
      BY <1>3, <2>2 DEF ResumeHold
    <3>2. resumes' = 0 /\ releasing' \in [Thread -> Caller] /\ ~Free("main")'
      BY <1>0, <3>1 DEF releaseHoldCmd, Types, Thread, Caller, Free
    <3>3. mPauseCallback'
      BY <2>1, <2>2 DEF deviceVars, shouldBeRunning
    <3> QED BY <2>1, <3>2, <3>3, MainStep
  <2>3. CASE ~shouldBeRunning
    BY <1>3, <2>1, <2>3 DEF ResumeHold, deviceVars, HoldInv, Types, HoldServed,
           LowTrafficPauses, Unregistered, shouldBeRunning, shouldBeConnected, Free
  <2> QED BY <2>2, <2>3
<1> QED BY <1>1, <1>2, <1>3 DEF MainThread

(* The end of a release, on either thread.                                 *)
LEMMA ReleaseKeepsInv ==
    ASSUME HoldInv, Release
    PROVE  HoldInv'
<1>1. PICK t \in Thread : HoldRelease(t)
  BY DEF Release
<1>2. releasing' \in [Thread -> Caller]
  BY <1>1 DEF HoldInv, Types, HoldRelease, Caller
<1> QED BY <1>1, <1>2 DEF HoldRelease, deviceVars, HoldInv, Types, HoldServed, LowTrafficPauses,
       Unregistered

(* The management thread: between setting the flag and posting the         *)
(* callback it is in "held" or "retrying".                                 *)
LEMMA ManagementThreadKeepsInv ==
    ASSUME HoldInv, ManagementThread
    PROVE  HoldInv'
<1> USE DEF HoldInv, Types, HoldServed, LowTrafficPauses, Unregistered, shouldBeRunning,
            shouldBeConnected, deviceVars, Free
<1>1. CASE processCommand /\ deviceStays
  <2>1. UNCHANGED <<network, screen, userpause, mPauseCallback, mShuttingDown, resumes, releasing>>
        /\ mgmt = "reading"
    BY <1>1 DEF processCommand
  <2>2. CASE \E w : handleHold(w)
    BY <2>1, <2>2 DEF handleHold
  <2>3. CASE processState
    BY <2>1, <2>3 DEF processState
  <2>4. CASE processByteCount
    BY <2>1, <2>4 DEF processByteCount
  <2> QED BY <1>1, <2>2, <2>3, <2>4 DEF processCommand
<1>2. CASE DecideHold /\ deviceStays
  BY <1>2 DEF DecideHold, clientVars, holdVars
<1>3. CASE PostResume /\ deviceStays
  BY <1>3 DEF PostResume
<1>4. CASE ShowPause /\ deviceStays
  BY <1>4 DEF ShowPause, holdVars
<1>5. CASE EnoughTraffic
  BY <1>5 DEF EnoughTraffic, clientVars, holdVars
<1>6. CASE LittleTraffic
  BY <1>6 DEF LittleTraffic, clientVars, holdVars
<1>7. CASE PauseScreenOff
  BY <1>7, PauseKeepsHold DEF PauseScreenOff
<1> QED BY <1>1, <1>2, <1>3, <1>4, <1>5, <1>6, <1>7 DEF ManagementThread

(* The process does not touch the client's state.                          *)
LEMMA ProcessKeepsInv ==
    ASSUME HoldInv, Process \/ UNCHANGED vars
    PROVE  HoldInv'
<1>1. UNCHANGED <<deviceVars, clientVars, threadVars>>
  BY DEF Process, ProcessTakes, ProcessRestarts, ProcessCounts, vars
<1> QED BY <1>1 DEF HoldInv, Types, HoldServed, LowTrafficPauses, Unregistered, holdVars, Free,
       shouldBeRunning, shouldBeConnected, deviceVars, clientVars, threadVars

(* Without resume() of the remote API, which is also accepted when nothing *)
(* is paused, HoldInv is an invariant.                                     *)
THEOREM HoldInvariance ==
    ASSUME "apiResume" \notin Events
    PROVE  Spec => []HoldInv
<1>1. Init => HoldInv
  BY InitHoldInv
<1>2. HoldInv /\ [Next]_vars => HoldInv'
  BY EnvironmentKeepsInv, MainThreadKeepsInv, ReleaseKeepsInv, ManagementThreadKeepsInv,
     ProcessKeepsInv DEF Next
<1> QED BY <1>1, <1>2, PTL DEF Spec

(* handleHold(), resume() and networkChange() do not lose a release: a     *)
(* process held without a reason is being released or has a callback that  *)
(* releases it.                                                            *)
THEOREM NoLostRelease ==
    ASSUME "apiResume" \notin Events
    PROVE  Spec => []HoldHasRelease
<1>1. HoldInv => HoldHasRelease
  BY DEF HoldInv, Types, HoldServed, HoldHasRelease, Alive, Thread
<1> QED BY <1>1, HoldInvariance, PTL

-----------------------------------------------------------------------------
(* Releases while there is a reason to pause.                              *)

(* Without "netchangereconnect" the network is never just waited for.      *)
NotPending == network # "PENDINGDISCONNECT"

LEMMA NotPendingStep ==
    ASSUME NetChangeReconnect = FALSE, NotPending, [Next]_vars
    PROVE  NotPending'
<1>1. ASSUME NEW n, networkStateChange(n) PROVE NotPending'
  BY <1>1 DEF networkStateChange, networkLost, networkConnected, NotPending
<1>2. CASE Environment
  BY <1>1, <1>2 DEF Environment, ConnectivityAction, ScreenOff, ScreenOn, PauseVpn, ResumeVpn,
     ApiUserPause, userPause, StopVpn, stopVPN, deviceVars, NotPending
<1>3. CASE MainThread
  BY <1>1, <1>3 DEF MainThread, Register, DelayedDisconnect, ResumeHold, deviceVars, NotPending
<1>4. CASE Release
  BY <1>4 DEF Release, HoldRelease, deviceVars, NotPending
<1>5. CASE ManagementThread
  BY <1>5 DEF ManagementThread, processCommand, DecideHold, PostResume, ShowPause,
     EnoughTraffic, LittleTraffic, PauseScreenOff, deviceVars, NotPending
<1>6. CASE Process \/ UNCHANGED vars
  BY <1>6 DEF Process, ProcessTakes, ProcessRestarts, ProcessCounts, vars, deviceVars, NotPending
<1> QED BY <1>2, <1>3, <1>4, <1>5, <1>6 DEF Next

(* No byte count is handled or on its way.                                 *)
NoCounts ==
    /\ mgmt \notin {"counting", "lowtraffic"}
    /\ \A i \in 1..Len(lineq) : lineq[i].op # "BYTECOUNT"

LEMMA NoCountsStep ==
    ASSUME MaxCounts = 0, TypeOK, NoCounts, [Next]_vars
    PROVE  NoCounts'
<1> USE DEF NoCounts
<1>0. lineq \in Seq(Line)
  BY DEF TypeOK
<1>1. ASSUME NEW line \in Line, line.op # "BYTECOUNT", lineq' = Append(lineq, line), mgmt' = mgmt
      PROVE  NoCounts'
  BY <1>0, <1>1
<1>2. CASE UNCHANGED <<mgmt, lineq>>
  BY <1>2
<1>3. CASE Environment
  BY <1>2, <1>3 DEF Environment, ConnectivityAction, ScreenOff, ScreenOn, PauseVpn, ResumeVpn,
     ApiUserPause, userPause, StopVpn, stopVPN, restVars, threadVars
<1>4. CASE MainThread \/ Release
  BY <1>2, <1>4 DEF MainThread, Release, Register, DelayedDisconnect, ResumeHold, HoldRelease,
     restVars, threadVars
<1>5. CASE ManagementThread
  <2>1. CASE processCommand
    <3>1. lineq # <<>> /\ lineq' = Tail(lineq)
      BY <2>1 DEF processCommand
    <3>2. Head(lineq) = lineq[1] /\ 1 \in 1..Len(lineq)
      BY <1>0, <3>1
    <3>3. Head(lineq).op # "BYTECOUNT"
      BY <3>2
    <3>4. mgmt' \notin {"counting", "lowtraffic"}
      BY <2>1, <3>3 DEF processCommand, handleHold, processState
    <3>5. \A i \in 1..Len(lineq') : lineq'[i].op # "BYTECOUNT"
      BY <1>0, <3>1
    <3> QED BY <3>4, <3>5
  <2>2. CASE DecideHold \/ PostResume \/ ShowPause \/ EnoughTraffic \/ LittleTraffic \/ PauseScreenOff
    BY <2>2 DEF DecideHold, PostResume, ShowPause, EnoughTraffic, LittleTraffic, PauseScreenOff
  <2> QED BY <1>5, <2>1, <2>2 DEF ManagementThread
<1>6. CASE Process
  <2>1. HoldsAgain => \E w \in Waits : lineq' = Append(lineq, Hold(w))
    BY DEF HoldsAgain
  <2>2. \A w \in Waits : Hold(w) \in Line /\ Hold(w).op # "BYTECOUNT"
    BY DEF Hold, Line
  <2>3. StateLine \in Line /\ StateLine.op # "BYTECOUNT"
    BY DEF StateLine, Line
  <2>4. mgmt' = mgmt
    BY <1>6 DEF Process, ProcessTakes, ProcessRestarts, ProcessCounts, threadVars
  <2>5. CASE ProcessTakes
    <3>1. HoldsAgain \/ lineq' = Append(lineq, StateLine) \/ lineq' = lineq
      BY <2>5 DEF ProcessTakes, Takes
    <3> QED BY <1>1, <1>2, <2>1, <2>2, <2>3, <2>4, <3>1
  <2>6. CASE ProcessRestarts
    BY <1>1, <2>1, <2>2, <2>4, <2>6 DEF ProcessRestarts
  <2>7. CASE ProcessCounts
    BY <2>7 DEF ProcessCounts, TypeOK
  <2> QED BY <1>6, <2>5, <2>6, <2>7 DEF Process
<1>7. CASE UNCHANGED vars
  BY <1>2, <1>7 DEF vars, threadVars
<1> QED BY <1>3, <1>4, <1>5, <1>6, <1>7 DEF Next

(* Who releases a hold has found that the connection is wanted, and nobody *)
(* changes that meanwhile: the main thread is busy, there is no call of    *)
(* the remote API and no byte count.                                       *)
ReleaseWanted == Free("binder") /\ (~Free("main") => shouldBeConnected)

WantedInv == TypeOK /\ NotPending /\ NoCounts /\ ReleaseWanted

(* networkStateChange() releases only what is wanted.                      *)
LEMMA NetworkReleaseWanted ==
    ASSUME TypeOK, NotPending, NetChangeReconnect = FALSE, Free("main"), Free("binder"),
           NEW n, networkStateChange(n)
    PROVE  Free("binder")' /\ (~Free("main")' => shouldBeConnected')
<1> USE DEF Free, TypeOK, Thread
<1>1. ASSUME NEW caller, releaseHoldCmd("main", caller) PROVE Free("binder")'
  BY <1>1 DEF releaseHoldCmd
<1>2. CASE n = NoNetwork
  BY <1>2 DEF networkStateChange, networkLost, noCommand, holdVars
<1>3. CASE n # NoNetwork
  <2>1. OtherNetwork(n)
    BY <1>3 DEF networkStateChange, networkConnected, SameNetworkAgain, NotPending
  <2>2. CASE shouldBeConnected'
    BY <1>1, <2>1, <2>2 DEF OtherNetwork, resume, networkChange, releaseHold, holdVars
  <2>3. CASE ~shouldBeConnected'
    BY <2>1, <2>3 DEF OtherNetwork, noCommand, holdVars
  <2> QED BY <2>2, <2>3
<1> QED BY <1>2, <1>3

LEMMA ReleaseWantedStep ==
    ASSUME WantedInv, NetChangeReconnect = FALSE, {"apiPause", "apiResume"} \cap Events = {}, [Next]_vars
    PROVE  ReleaseWanted'
<1> USE DEF WantedInv
<1>1. ASSUME UNCHANGED <<releasing, network, screen, userpause>> PROVE ReleaseWanted'
  BY <1>1 DEF ReleaseWanted, Free, shouldBeConnected
<1>2. ASSUME UNCHANGED releasing, Free("main") PROVE ReleaseWanted'
  BY <1>2 DEF ReleaseWanted, Free
<1>3. ASSUME NEW caller, releaseHold("main", caller), shouldBeConnected' PROVE ReleaseWanted'
  BY <1>3 DEF ReleaseWanted, releaseHold, releaseHoldCmd, holdVars, Free, TypeOK, Thread
<1>4. ASSUME NEW n, networkStateChange(n), Free("main") PROVE ReleaseWanted'
  BY <1>4, NetworkReleaseWanted DEF ReleaseWanted
<1>5. CASE Environment
  <2>1. ASSUME NEW paused, userPause("main", paused), Free("main") PROVE ReleaseWanted'
    <3>1. CASE ~paused /\ shouldBeConnected' /\ ~shouldBeConnected
      BY <1>3, <2>1, <3>1 DEF userPause, resume
    <3>2. CASE ~(~paused /\ shouldBeConnected' /\ ~shouldBeConnected)
      BY <1>2, <2>1, <3>2 DEF userPause, pause
    <3> QED BY <3>1, <3>2
  <2>2. CASE ScreenOn
    <3>1. shouldBeConnected => shouldBeConnected'
      BY <2>2 DEF ScreenOn, shouldBeConnected
    <3>2. Free("main")
      BY <2>2 DEF ScreenOn
    <3>3. CASE shouldBeConnected' # shouldBeConnected
      <4>1. shouldBeConnected'
        BY <3>1, <3>3, Zenon DEF shouldBeConnected
      <4>2. resume("main")
        BY <2>2, <3>3 DEF ScreenOn
      <4> QED BY <1>3, <4>1, <4>2 DEF resume
    <3>4. CASE shouldBeConnected' = shouldBeConnected
      <4>1. UNCHANGED releasing
        BY <2>2, <3>4 DEF ScreenOn, pause, noCommand, holdVars
      <4> QED BY <1>2, <3>2, <4>1
    <3> QED BY <3>3, <3>4
  <2>3. CASE \E n \in Network \cup {NoNetwork} : ConnectivityAction(n)
    BY <1>4, <2>3 DEF ConnectivityAction
  <2>4. CASE ScreenOff
    BY <1>2, <2>4 DEF ScreenOff, noCommand, holdVars
  <2>5. CASE StopVpn
    BY <1>1, <2>5 DEF StopVpn, stopVPN, deviceVars, holdVars
  <2>6. CASE PauseVpn \/ ResumeVpn
    BY <2>1, <2>6 DEF PauseVpn, ResumeVpn
  <2>7. CASE \E paused \in BOOLEAN : ApiUserPause(paused)
    BY <2>7 DEF ApiUserPause, Happens
  <2> QED BY <1>5, <2>2, <2>3, <2>4, <2>5, <2>6, <2>7 DEF Environment
<1>6. CASE MainThread
  <2>1. CASE Register
    BY <1>4, <2>1 DEF Register
  <2>2. CASE DelayedDisconnect
    BY <1>2, <2>2 DEF DelayedDisconnect, pause, noCommand, holdVars
  <2>3. CASE ResumeHold
    <3>1. CASE shouldBeRunning
      BY <2>3, <3>1 DEF ResumeHold, releaseHoldCmd, deviceVars, shouldBeRunning, shouldBeConnected,
         ReleaseWanted, Free, TypeOK, Thread
    <3>2. CASE ~shouldBeRunning
      BY <1>2, <2>3, <3>2 DEF ResumeHold
    <3> QED BY <3>1, <3>2
  <2> QED BY <1>6, <2>1, <2>2, <2>3 DEF MainThread
<1>7. CASE Release
  BY <1>7 DEF Release, HoldRelease, deviceVars, ReleaseWanted, Free, TypeOK, Thread, shouldBeConnected
<1>8. CASE ManagementThread
  BY <1>1, <1>8 DEF ManagementThread, processCommand, DecideHold, PostResume, ShowPause,
     EnoughTraffic, LittleTraffic, PauseScreenOff, NoCounts, deviceVars, clientVars, holdVars
<1>9. CASE Process \/ UNCHANGED vars
  BY <1>1, <1>9 DEF Process, ProcessTakes, ProcessRestarts, ProcessCounts, vars, deviceVars,
     clientVars, holdVars
<1> QED BY <1>5, <1>6, <1>7, <1>8, <1>9 DEF Next

(* Only the end of a release clears the flag.                              *)
LEMMA FlagCleared ==
    ASSUME Next, mWaitingForRelease, ~mWaitingForRelease'
    PROVE  \E t \in Thread : HoldRelease(t)
<1>1. ASSUME NEW t, NEW caller, releaseHold(t, caller) \/ releaseHoldCmd(t, caller) PROVE FALSE
  BY <1>1 DEF releaseHold, releaseHoldCmd, holdVars
<1>2. ASSUME NEW t, resume(t) \/ networkChange(t) PROVE FALSE
  BY <1>1, <1>2 DEF resume, networkChange, holdVars
<1>3. ASSUME NEW reason, pause(reason) PROVE FALSE
  BY <1>3 DEF pause
<1>4. ASSUME NEW n, networkStateChange(n) PROVE FALSE
  BY <1>2, <1>4 DEF networkStateChange, networkLost, networkConnected, SameNetworkAgain,
     OtherNetwork, noCommand, holdVars
<1>5. CASE Environment
  <2>1. ASSUME NEW t, NEW paused, userPause(t, paused) PROVE FALSE
    BY <1>2, <1>3, <2>1 DEF userPause
  <2>2. CASE ScreenOn
    BY <1>2, <1>3, <2>2 DEF ScreenOn, noCommand, holdVars
  <2>3. CASE ScreenOff \/ StopVpn
    BY <2>3 DEF ScreenOff, StopVpn, stopVPN, noCommand, holdVars
  <2>4. CASE \E n \in Network \cup {NoNetwork} : ConnectivityAction(n)
    BY <1>4, <2>4 DEF ConnectivityAction
  <2>5. CASE PauseVpn \/ ResumeVpn \/ \E paused \in BOOLEAN : ApiUserPause(paused)
    BY <2>1, <2>5 DEF PauseVpn, ResumeVpn, ApiUserPause
  <2> QED BY <1>5, <2>2, <2>3, <2>4, <2>5 DEF Environment
<1>6. CASE MainThread
  BY <1>1, <1>3, <1>4, <1>6 DEF MainThread, Register, DelayedDisconnect, ResumeHold, noCommand, holdVars
<1>7. CASE ManagementThread
  BY <1>3, <1>7 DEF ManagementThread, processCommand, handleHold, processState, processByteCount,
     DecideHold, PostResume, ShowPause, EnoughTraffic, LittleTraffic, PauseScreenOff, clientVars, holdVars
<1>8. CASE Process
  BY <1>8 DEF Process, ProcessTakes, ProcessRestarts, ProcessCounts, clientVars, holdVars
<1> QED BY <1>5, <1>6, <1>7, <1>8 DEF Next, Release

(* Without "netchangereconnect", the remote API and byte counts a hold is  *)
(* released only while nothing speaks against a connection, although       *)
(* seconds pass between the decision and the release.                      *)
THEOREM ReleasesWanted ==
    ASSUME NetChangeReconnect = FALSE, {"apiPause", "apiResume"} \cap Events = {}, MaxCounts = 0
    PROVE  Spec => ReleaseOnlyIfWanted
<1>1. Init => WantedInv
  <2>1. Init => NotPending /\ ReleaseWanted
    BY DEF Init, ManagementInit, NotPending, ReleaseWanted, Free, Thread
  <2>2. Init => NoCounts
    BY DEF Init, ManagementInit, NoCounts, Hold
  <2> QED BY <2>1, <2>2, InitTypeOK DEF WantedInv
<1>2. WantedInv /\ [Next]_vars => WantedInv'
  BY TypeStep, NotPendingStep, NoCountsStep, ReleaseWantedStep DEF WantedInv
<1>3. WantedInv /\ [Next]_vars =>
          [mWaitingForRelease /\ ~mWaitingForRelease' => shouldBeConnected']_vars
  <2> SUFFICES ASSUME WantedInv, Next, mWaitingForRelease, ~mWaitingForRelease'
               PROVE  shouldBeConnected'
    OBVIOUS
  <2>1. PICK t \in Thread : HoldRelease(t)
    BY FlagCleared
  <2>2. shouldBeConnected
    BY <2>1 DEF WantedInv, ReleaseWanted, HoldRelease, Thread
  <2> QED BY <2>1, <2>2 DEF HoldRelease, deviceVars, shouldBeConnected
<1> QED BY <1>1, <1>2, <1>3, PTL DEF Spec, ReleaseOnlyIfWanted
=============================================================================

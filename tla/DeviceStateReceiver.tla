------------------------ MODULE DeviceStateReceiver ------------------------
(***************************************************************************)
(* The OpenVPN client's reasons to pause                                   *)
(* (openvpn/.../core/DeviceStateReceiver.java): no network, the screen is  *)
(* off, the user asked for it.  Broadcasts and the delayed disconnect run  *)
(* on the main thread, byte counts on the management thread, calls of the  *)
(* remote API on a binder thread; they share network, screen and userpause *)
(* without a lock.                                                         *)
(*                                                                         *)
(* Time is not modelled: a delayed disconnect fires at any time after it   *)
(* was posted.                                                             *)
(***************************************************************************)
EXTENDS OpenVpnManagementThread

CONSTANTS
    Network,           \* networks the device can be on
    NoNetwork,
    Events,            \* kinds of events that happen
    NetChangeReconnect,\* preference "netchangereconnect"
    MaxEvents          \* bound: events

ASSUME ReceiverAssumption ==
    /\ NoNetwork \notin Network
    /\ Events \subseteq {"network", "screen", "pause", "apiPause", "apiResume", "stop"}
    /\ NetChangeReconnect \in BOOLEAN
    /\ MaxEvents \in Nat

VARIABLES
    activeNetwork,         \* ConnectivityManager.getActiveNetworkInfo()
    lastConnectedNetwork,
    delayed,               \* pending mDelayDisconnectRunnables
    screenOn,              \* the screen itself
    events                 \* counter for the bound

receiverVars == <<lastConnectedNetwork, delayed>>
worldVars == <<activeNetwork, screenOn>>
vars == <<deviceVars, processVars, clientVars, threadVars, cmdq, lineq,
          receiverVars, worldVars, events>>

(* What no broadcast changes.                                              *)
restVars == <<mPauseCallback, mShuttingDown, processVars, threadVars, lineq>>

noCommand == UNCHANGED <<holdVars, lastPauseReason, status, cmdq>>

Happens(e) ==
    /\ e \in Events /\ events < MaxEvents /\ ovpn # "exited"
    /\ events' = events + 1

-----------------------------------------------------------------------------
(* networkStateChange()                                                    *)

(* The network is back before the delay is over, and it is the same.       *)
SameNetworkAgain(n) ==
    /\ network = "PENDINGDISCONNECT" /\ lastConnectedNetwork = n
    /\ delayed' = 0
    /\ UNCHANGED <<screen, lastConnectedNetwork>>
    /\ networkChange("main")

(* A new network, or one that was taken for lost.                          *)
OtherNetwork(n) ==
    /\ ~(network = "PENDINGDISCONNECT" /\ lastConnectedNetwork = n)
    /\ screen' = IF screen = "PENDINGDISCONNECT" THEN "DISCONNECTED" ELSE screen
    /\ lastConnectedNetwork' = n
    /\ IF shouldBeConnected'
       THEN /\ delayed' = 0
            /\ IF lastConnectedNetwork # n THEN networkChange("main") ELSE resume("main")
       ELSE UNCHANGED delayed /\ noCommand

networkConnected(n) ==
    /\ network' = "SHOULDBECONNECTED"
    /\ UNCHANGED userpause
    /\ SameNetworkAgain(n) \/ OtherNetwork(n)

networkLost ==
    /\ IF NetChangeReconnect
       THEN network' = "PENDINGDISCONNECT" /\ delayed' = delayed + 1
       ELSE UNCHANGED <<network, delayed>>
    /\ UNCHANGED <<screen, userpause, lastConnectedNetwork>>
    /\ noCommand

networkStateChange(n) == IF n = NoNetwork THEN networkLost ELSE networkConnected(n)

(* registerDeviceStateReceiver(): the constructor sets the callback, then  *)
(* the network is looked at.                                               *)
Register ==
    /\ Free("main")
    /\ ~mPauseCallback
    /\ mPauseCallback' = TRUE
    /\ networkStateChange(activeNetwork)
    /\ UNCHANGED <<mShuttingDown, processVars, threadVars, lineq, activeNetwork, screenOn, events>>

(* CONNECTIVITY_ACTION.                                                    *)
ConnectivityAction(n) ==
    /\ Happens("network") /\ Free("main")
    /\ mPauseCallback
    /\ activeNetwork' = n
    /\ networkStateChange(n)
    /\ UNCHANGED <<restVars, screenOn>>

(* mDelayDisconnectRunnable, DISCONNECT_WAIT after the loss.               *)
DelayedDisconnect ==
    /\ Free("main")
    /\ delayed > 0
    /\ delayed' = delayed - 1
    /\ IF network = "PENDINGDISCONNECT"
       THEN /\ network' = "DISCONNECTED"
            /\ screen' = IF screen = "PENDINGDISCONNECT" THEN "DISCONNECTED" ELSE screen
            /\ UNCHANGED userpause
            /\ pause(getPauseReason')
       ELSE UNCHANGED <<network, screen, userpause>> /\ noCommand
    /\ UNCHANGED <<restVars, lastConnectedNetwork, worldVars, events>>

-----------------------------------------------------------------------------
(* Screen and user.                                                        *)

(* ACTION_SCREEN_OFF with the preference "screenoff".                      *)
ScreenOff ==
    /\ Happens("screen") /\ Free("main")
    /\ mPauseCallback /\ screenOn
    /\ screenOn' = FALSE
    /\ screen' = IF network = "DISCONNECTED" \/ userpause = "DISCONNECTED"
                 THEN "DISCONNECTED" ELSE "PENDINGDISCONNECT"
    /\ UNCHANGED <<network, userpause, receiverVars, restVars, activeNetwork>>
    /\ noCommand

ScreenOn ==
    /\ Happens("screen") /\ Free("main")
    /\ mPauseCallback /\ ~screenOn
    /\ screenOn' = TRUE
    /\ screen' = "SHOULDBECONNECTED"
    /\ UNCHANGED <<network, userpause, lastConnectedNetwork>>
    /\ delayed' = 0
    /\ IF shouldBeConnected' # shouldBeConnected THEN resume("main")
       ELSE IF ~shouldBeConnected' THEN pause(getPauseReason')
       ELSE noCommand
    /\ UNCHANGED <<restVars, activeNetwork>>

userPause(t, paused) ==
    /\ userpause' = IF paused THEN "DISCONNECTED" ELSE "SHOULDBECONNECTED"
    /\ UNCHANGED <<network, screen>>
    /\ IF ~paused /\ shouldBeConnected' /\ ~shouldBeConnected
       THEN resume(t)
       ELSE pause(getPauseReason')
    /\ UNCHANGED <<receiverVars, restVars, worldVars>>

(* PAUSE_VPN and RESUME_VPN from the notification, which offers the second *)
(* only while isUserPaused().                                              *)
PauseVpn ==
    /\ Happens("pause") /\ Free("main")
    /\ mPauseCallback
    /\ userPause("main", TRUE)

ResumeVpn ==
    /\ Happens("pause") /\ Free("main")
    /\ mPauseCallback /\ userpause = "DISCONNECTED"
    /\ userPause("main", FALSE)

(* pause() and resume() of the remote API, on a binder thread.  They are   *)
(* offered at any time.                                                    *)
ApiUserPause(paused) ==
    /\ Happens(IF paused THEN "apiPause" ELSE "apiResume") /\ Free("binder")
    /\ mPauseCallback
    /\ userPause("binder", paused)

StopVpn ==
    /\ Happens("stop")
    /\ stopVPN
    /\ UNCHANGED <<receiverVars, worldVars>>

-----------------------------------------------------------------------------
(* updateByteCount() goes on, on the management thread.                    *)

(* More than TRAFFIC_LIMIT was transferred in TRAFFIC_WINDOW.              *)
EnoughTraffic ==
    /\ mgmt = "counting"
    /\ mgmt' = "reading"
    /\ UNCHANGED <<deviceVars, processVars, clientVars, waittime, cmdq, lineq,
                   receiverVars, worldVars, events>>

LittleTraffic ==
    /\ mgmt = "counting"
    /\ mgmt' = "lowtraffic"
    /\ screen' = "DISCONNECTED"
    /\ UNCHANGED <<network, userpause, mPauseCallback, processVars, clientVars, waittime,
                   cmdq, lineq, receiverVars, worldVars, events>>

PauseScreenOff ==
    /\ mgmt = "lowtraffic"
    /\ mgmt' = "reading"
    /\ pause(getPauseReason)
    /\ UNCHANGED <<deviceVars, processVars, mShuttingDown, waittime, lineq, receiverVars,
                   worldVars, events>>

-----------------------------------------------------------------------------
Init ==
    /\ ManagementInit
    /\ network = "DISCONNECTED"
    /\ screen = "SHOULDBECONNECTED" /\ userpause = "SHOULDBECONNECTED"
    /\ activeNetwork \in Network \cup {NoNetwork}
    /\ lastConnectedNetwork = NoNetwork
    /\ delayed = 0
    /\ screenOn = TRUE
    /\ events = 0

(* What the device and its user do.                                        *)
Environment ==
    \/ \E n \in Network \cup {NoNetwork} : ConnectivityAction(n)
    \/ ScreenOff \/ ScreenOn
    \/ PauseVpn \/ ResumeVpn
    \/ \E paused \in BOOLEAN : ApiUserPause(paused)
    \/ StopVpn

(* The steps of OpenVpnManagementThread, as far as the device goes.        *)
deviceStays == UNCHANGED <<receiverVars, worldVars, events>>

MainThread ==
    \/ Register
    \/ DelayedDisconnect
    \/ ResumeHold /\ deviceStays

Release == \E t \in Thread : HoldRelease(t) /\ deviceStays

ManagementThread ==
    \/ processCommand /\ deviceStays
    \/ DecideHold /\ deviceStays
    \/ PostResume /\ deviceStays
    \/ ShowPause /\ deviceStays
    \/ EnoughTraffic \/ LittleTraffic \/ PauseScreenOff

Process ==
    \/ ProcessTakes /\ deviceStays
    \/ ProcessRestarts /\ deviceStays
    \/ ProcessCounts /\ deviceStays

Next == Environment \/ MainThread \/ Release \/ ManagementThread \/ Process

Spec == Init /\ [][Next]_vars

(* All threads run, delayed callbacks are run in the end, and the process  *)
(* takes its commands.                                                     *)
FairSpec ==
    /\ Spec
    /\ WF_vars(Register) /\ WF_vars(DelayedDisconnect)
    /\ WF_vars(ResumeHold /\ deviceStays)
    /\ \A t \in Thread : WF_vars(HoldRelease(t) /\ deviceStays)
    /\ WF_vars(ManagementThread)
    /\ WF_vars(ProcessTakes /\ deviceStays)

-----------------------------------------------------------------------------
TypeOK ==
    /\ network \in connectState /\ screen \in connectState
    /\ userpause \in {"SHOULDBECONNECTED", "DISCONNECTED"}
    /\ mPauseCallback \in BOOLEAN /\ mWaitingForRelease \in BOOLEAN
    /\ lastPauseReason \in pauseReason /\ mShuttingDown \in BOOLEAN
    /\ resumes \in Nat
    /\ releasing \in [Thread -> Caller]
    /\ mgmt \in {"reading", "held", "retrying", "pausing", "counting", "lowtraffic"}
    /\ waittime \in Waits \cup {0}
    /\ status \in Status
    /\ cmdq \in Seq(Command) /\ lineq \in Seq(Line)
    /\ ovpn \in {"hold", "running", "exited"}
    /\ restarts \in 0..MaxRestarts /\ counts \in 0..MaxCounts
    /\ activeNetwork \in Network \cup {NoNetwork}
    /\ lastConnectedNetwork \in Network \cup {NoNetwork}
    /\ delayed \in Nat
    /\ screenOn \in BOOLEAN
    /\ events \in 0..MaxEvents

Alive == ~mShuttingDown /\ ovpn # "exited"

(* A hold that may be released is being released or has a callback:        *)
(* handleHold(), resume() and networkChange() never leave the process      *)
(* waiting although nothing speaks against a connection.  (Holds as long   *)
(* a resume is only asked for during a pause.)                             *)
HoldHasRelease ==
    Alive /\ mWaitingForRelease /\ shouldBeRunning /\ mgmt = "reading"
        => resumes > 0 \/ \E t \in Thread : ~Free(t)

(* handleHold() and mResumeHoldRunnable ask shouldBeRunning() so that a    *)
(* paused connection stays paused: no release is written while there is a  *)
(* reason to pause.                                                        *)
ReleaseOnlyIfWanted ==
    [][mWaitingForRelease /\ ~mWaitingForRelease' => shouldBeConnected']_vars

(* A connection that should run is not left in the hold for ever.          *)
HoldReleased ==
    (mWaitingForRelease /\ shouldBeRunning /\ Alive)
        ~> ~(mWaitingForRelease /\ shouldBeRunning /\ Alive)
=============================================================================

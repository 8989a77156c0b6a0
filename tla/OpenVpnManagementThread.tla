----------------------- MODULE OpenVpnManagementThread -----------------------
(***************************************************************************)
(* The management interface of the OpenVPN client                          *)
(* (openvpn/.../core/OpenVpnManagementThread.java) and the openvpn process *)
(* behind it, which is external.                                           *)
(*                                                                         *)
(* The management thread reads lines from the socket (lineq).  Commands    *)
(* are written to it (cmdq) by the management thread, by the main thread   *)
(* and by the callbacks on the main looper.  The process holds before      *)
(* every connection attempt: it writes HOLD and waits for "hold release".  *)
(* mWaitingForRelease is the client's idea of that, shared by both threads *)
(* without a lock.  releaseHoldCmd() may sleep for seconds before it       *)
(* clears the flag: the thread that releases is busy, the others go on.    *)
(*                                                                         *)
(* The state of the device (DeviceStateReceiver) is declared here because  *)
(* the thread asks for it: PausedStateCallback.shouldBeRunning().          *)
(***************************************************************************)
EXTENDS Integers, Sequences

CONSTANTS
    Waits,        \* waiting times, in s, the process may ask for in HOLD
    MaxRestarts,  \* bound: restarts the process makes on its own
    MaxCounts     \* bound: byte counts the process reports

ASSUME ManagementAssumption ==
    /\ Waits \subseteq Nat /\ Waits # {}
    /\ MaxRestarts \in Nat
    /\ MaxCounts \in Nat

VARIABLES
    network, screen, userpause, \* DeviceStateReceiver
    mPauseCallback,             \* the receiver has registered itself
    mWaitingForRelease, lastPauseReason, mShuttingDown,
    resumes,                    \* pending callbacks mResumeHoldRunnable
    releasing,                  \* who is in releaseHoldCmd(), on which thread
    mgmt,                       \* what the management thread is doing
    waittime,                   \* argument of the HOLD it handles
    status,                     \* VpnStatus: state shown to the user
    cmdq, lineq,                \* the socket, to and from the process
    ovpn,                       \* the process: "hold", "running", "exited"
    restarts, counts            \* counters for the bounds

deviceVars == <<network, screen, userpause, mPauseCallback>>
processVars == <<ovpn, restarts, counts>>
threadVars == <<mgmt, waittime>>
holdVars == <<mWaitingForRelease, resumes, releasing>>
clientVars == <<holdVars, lastPauseReason, mShuttingDown, status>>

(* The threads that may release a hold: the main thread and the binder     *)
(* thread on which a call of the remote API runs.                          *)
Thread == {"main", "binder"}
Caller == {"none", "resume", "networkChange", "mResumeHoldRunnable"}
Free(t) == releasing[t] = "none"

connectState == {"SHOULDBECONNECTED", "PENDINGDISCONNECT", "DISCONNECTED"}
pauseReason == {"noNetwork", "userPause", "screenOff"}
PauseState == [noNetwork |-> "NONETWORK", userPause |-> "USERPAUSE", screenOff |-> "SCREENOFF"]
Status == {"NOPROCESS", "CONNECTED", "CONNECTRETRY", "NONETWORK", "USERPAUSE", "SCREENOFF"}

Hold(w) == [op |-> "HOLD", wait |-> w]
ByteCount == [op |-> "BYTECOUNT", wait |-> 0]
StateLine == [op |-> "STATE", wait |-> 0]
Line == [op : {"HOLD"}, wait : Waits] \cup {ByteCount, StateLine}
(* hold release, signal SIGUSR1, signal SIGINT, network-change.            *)
Command == {"release", "SIGUSR1", "SIGINT", "network"}

-----------------------------------------------------------------------------
(* DeviceStateReceiver's conditions.                                       *)

shouldBeConnected ==
    /\ screen = "SHOULDBECONNECTED"
    /\ userpause = "SHOULDBECONNECTED"
    /\ network = "SHOULDBECONNECTED"

getPauseReason ==
    IF userpause = "DISCONNECTED" THEN "userPause"
    ELSE IF screen = "DISCONNECTED" THEN "screenOff"
    ELSE IF network = "DISCONNECTED" THEN "noNetwork"
    ELSE "userPause"

shouldBeRunning == mPauseCallback /\ shouldBeConnected

-----------------------------------------------------------------------------
(* The operations of OpenVPNManagement, called on either thread.           *)

(* Commands are lost once the socket is closed.                            *)
managmentCommand(c) == cmdq' = IF mShuttingDown THEN cmdq ELSE Append(cmdq, c)

updateStatePause(reason) == status' = PauseState[reason]

(* Mutant: one pending callback is taken back, not all.                    *)
releaseHoldCmdOne(t, caller) ==
    /\ resumes' = resumes - 1
    /\ releasing' = [releasing EXCEPT ![t] = caller]
    /\ UNCHANGED mWaitingForRelease

(* releaseHoldCmd() on thread t, up to its sleep.                          *)
releaseHoldCmd(t, caller) ==
    /\ resumes' = 0
    /\ releasing' = [releasing EXCEPT ![t] = caller]
    /\ UNCHANGED mWaitingForRelease

(* releaseHoldCmd() goes on, and its caller with it.                       *)
HoldRelease(t) ==
    /\ ~Free(t)
    /\ releasing' = [releasing EXCEPT ![t] = "none"]
    /\ mWaitingForRelease' = FALSE
    /\ managmentCommand("release")
    /\ lastPauseReason' = IF releasing[t] = "resume" THEN "noNetwork" ELSE lastPauseReason
    /\ UNCHANGED <<deviceVars, processVars, threadVars, resumes, mShuttingDown, status, lineq>>

releaseHold(t, caller) ==
    IF mWaitingForRelease THEN releaseHoldCmd(t, caller) ELSE UNCHANGED holdVars

(* pause(reason) with signalusr1(): the pending release is cancelled; a    *)
(* process that is not held is restarted, it will hold then.               *)
pause(reason) ==
    /\ lastPauseReason' = reason
    /\ resumes' = 0
    /\ IF mWaitingForRelease
       THEN updateStatePause(reason) /\ UNCHANGED cmdq
       ELSE managmentCommand("SIGUSR1") /\ UNCHANGED status
    /\ UNCHANGED <<mWaitingForRelease, releasing>>

(* Mutant: the hold is forgotten.                                          *)
resumeKeepHold(t) ==
    /\ lastPauseReason' = "noNetwork"
    /\ UNCHANGED <<holdVars, cmdq, status>>

(* The reason is reset once the hold is released.                          *)
resume(t) ==
    /\ releaseHold(t, "resume")
    /\ lastPauseReason' = IF mWaitingForRelease THEN lastPauseReason ELSE "noNetwork"
    /\ UNCHANGED <<cmdq, status>>

(* Mutant: the process is told, whether it is held or not.                 *)
networkChangeOnly(t) ==
    /\ managmentCommand("network")
    /\ UNCHANGED <<holdVars, lastPauseReason, status>>

networkChange(t) ==
    /\ IF mWaitingForRelease
       THEN releaseHold(t, "networkChange") /\ UNCHANGED cmdq
       ELSE managmentCommand("network") /\ UNCHANGED holdVars
    /\ UNCHANGED <<lastPauseReason, status>>

-----------------------------------------------------------------------------
(* The management thread.                                                  *)

(* HOLD: the flag is set before anything else, so that a resume which      *)
(* comes while the thread looks at the device finds it.                    *)
handleHold(w) ==
    /\ mWaitingForRelease' = TRUE
    /\ mgmt' = "held"
    /\ waittime' = w
    /\ UNCHANGED <<status, lastPauseReason>>

processState ==
    /\ status' = "CONNECTED"
    /\ UNCHANGED <<mgmt, waittime, mWaitingForRelease, lastPauseReason>>

(* A byte count matters while the screen is off and traffic is watched.    *)
processByteCount ==
    /\ mgmt' = IF screen = "PENDINGDISCONNECT" THEN "counting" ELSE mgmt
    /\ UNCHANGED <<waittime, status, mWaitingForRelease, lastPauseReason>>

processCommand ==
    /\ mgmt = "reading"
    /\ ~mShuttingDown
    /\ lineq # <<>>
    /\ lineq' = Tail(lineq)
    /\ \/ Head(lineq).op = "HOLD" /\ handleHold(Head(lineq).wait)
       \/ Head(lineq).op = "STATE" /\ processState
       \/ Head(lineq).op = "BYTECOUNT" /\ processByteCount
    /\ UNCHANGED <<deviceVars, processVars, mShuttingDown, resumes, releasing, cmdq>>

(* handleHold() goes on: may the connection be tried again?                *)
DecideHold ==
    /\ mgmt = "held"
    /\ mgmt' = IF shouldBeRunning THEN "retrying" ELSE "pausing"
    /\ UNCHANGED <<deviceVars, processVars, clientVars, waittime, cmdq, lineq>>

(* Yes: the hold is released after the waiting time.                       *)
PostResume ==
    /\ mgmt = "retrying"
    /\ mgmt' = "reading"
    /\ resumes' = resumes + 1
    /\ status' = IF waittime > 1 THEN "CONNECTRETRY" ELSE status
    /\ UNCHANGED <<deviceVars, processVars, waittime, mWaitingForRelease, lastPauseReason,
                   mShuttingDown, releasing, cmdq, lineq>>

(* No: the reason is shown.                                                *)
ShowPause ==
    /\ mgmt = "pausing"
    /\ mgmt' = "reading"
    /\ updateStatePause(lastPauseReason)
    /\ UNCHANGED <<deviceVars, processVars, waittime, holdVars, lastPauseReason,
                   mShuttingDown, cmdq, lineq>>

(* Mutant: the device is not asked again when the time is over.            *)
ResumeHoldUnchecked ==
    /\ Free("main")
    /\ resumes > 0
    /\ releaseHoldCmd("main", "mResumeHoldRunnable")
    /\ UNCHANGED <<deviceVars, processVars, threadVars, lastPauseReason, mShuttingDown, status,
                   cmdq, lineq>>

(* mResumeHoldRunnable, on the main looper.                                *)
ResumeHold ==
    /\ Free("main")
    /\ resumes > 0
    /\ IF shouldBeRunning
       THEN releaseHoldCmd("main", "mResumeHoldRunnable")
       ELSE resumes' = resumes - 1 /\ UNCHANGED <<mWaitingForRelease, releasing>>
    /\ UNCHANGED <<deviceVars, processVars, threadVars, lastPauseReason, mShuttingDown, status,
                   cmdq, lineq>>

(* stopVPN(): the process is told to exit, the socket is closed; that ends *)
(* the management thread.  Called on a binder thread.                      *)
stopVPN ==
    /\ ~mShuttingDown
    /\ managmentCommand("SIGINT")
    /\ mShuttingDown' = TRUE
    /\ UNCHANGED <<deviceVars, processVars, threadVars, holdVars, lastPauseReason, status, lineq>>

-----------------------------------------------------------------------------
(* The openvpn process (external).  It announces a hold before each        *)
(* attempt to connect; of the states it reports only the last, CONNECTED,  *)
(* is kept.                                                                *)

HoldsAgain ==
    /\ ovpn' = "hold"
    /\ \E w \in Waits : lineq' = Append(lineq, Hold(w))

Takes(c) ==
    \/ /\ c = "release" /\ ovpn = "hold"
       /\ ovpn' = "running"
       /\ lineq' = Append(lineq, StateLine)
    \/ c = "SIGUSR1" /\ HoldsAgain
    \/ c = "SIGUSR1" /\ ovpn = "hold" /\ UNCHANGED <<ovpn, lineq>>
    \/ c = "network" /\ ovpn = "running" /\ HoldsAgain
    \/ c = "network" /\ UNCHANGED <<ovpn, lineq>>
    \/ c = "release" /\ ovpn = "running" /\ UNCHANGED <<ovpn, lineq>>
    \/ c = "SIGINT" /\ ovpn' = "exited" /\ UNCHANGED lineq

ProcessTakes ==
    /\ cmdq # <<>> /\ ovpn # "exited"
    /\ cmdq' = Tail(cmdq)
    /\ Takes(Head(cmdq))
    /\ UNCHANGED <<deviceVars, clientVars, threadVars, restarts, counts>>

(* The connection to the server is lost.                                   *)
ProcessRestarts ==
    /\ ovpn = "running" /\ restarts < MaxRestarts
    /\ restarts' = restarts + 1
    /\ HoldsAgain
    /\ UNCHANGED <<deviceVars, clientVars, threadVars, cmdq, counts>>

ProcessCounts ==
    /\ ovpn = "running" /\ counts < MaxCounts
    /\ counts' = counts + 1
    /\ lineq' = Append(lineq, ByteCount)
    /\ UNCHANGED <<deviceVars, clientVars, threadVars, cmdq, ovpn, restarts>>

ManagementInit ==
    /\ mPauseCallback = FALSE
    /\ mWaitingForRelease = FALSE
    /\ lastPauseReason = "noNetwork"
    /\ mShuttingDown = FALSE
    /\ resumes = 0
    /\ releasing = [t \in Thread |-> "none"]
    /\ mgmt = "reading" /\ waittime = 0
    /\ status = "NOPROCESS"
    /\ cmdq = <<>>
    /\ \E w \in Waits : lineq = <<Hold(w)>>
    /\ ovpn = "hold"
    /\ restarts = 0 /\ counts = 0
=============================================================================

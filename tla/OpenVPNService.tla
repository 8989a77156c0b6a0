---------------------------- MODULE OpenVPNService ----------------------------
(***************************************************************************)
(* The life of OpenVPN sessions (openvpn/.../core/OpenVPNService.java,     *)
(* OpenVPNThread.java, and the start and stop of OpenVpnManagementThread): *)
(* one instance of the service, from onCreate to onDestroy.                *)
(*                                                                         *)
(* Session s, the s-th start, has up to four actors: the thread that runs  *)
(* startOpenVPN() (starter), the thread that watches the process           *)
(* (OpenVPNThread: thread), the management thread (mgmt) and the openvpn   *)
(* process itself (proc, external).  They share the fields of the service, *)
(* of which only mProcessThread is guarded, by mProcessLock.  0 is null.   *)
(*                                                                         *)
(* A sleep ends at any time: the code gives it no other meaning than that  *)
(* the others may run.                                                     *)
(***************************************************************************)
EXTENDS Integers, Sequences, FiniteSets, SequencesExt

CONSTANTS
    MaxStarts,    \* bound: start intents
    MaxFailures,  \* bound: failures of a start
    MaxStops      \* bound: stops, revocations and exits of processes on their own

ASSUME ServiceAssumption ==
    /\ MaxStarts \in Nat
    /\ MaxFailures \in Nat
    /\ MaxStops \in Nat

VARIABLES
    service,        \* "up", "stopping" (stopSelf() was called), "destroyed"
    foreground,     \* shown as foreground service, listening to VpnStatus
    main,           \* what the main thread is doing
    revoker,        \* where onRevoke is, on the binder thread that runs it
    mProcessThread, mOpenVPNThread, mManagement, mStarting,
    mDeviceStateReceiver,   \* the session the receiver commands
    lock,           \* mProcessLock: who sleeps while holding it
    posted,         \* registrations of a receiver posted to the main looper
    lastConnected,  \* ProfileManager: profile to connect if the service restarts
    status,         \* VpnStatus: state shown to the user
    starter, thread, mgmt, proc,
    replaced,       \* OpenVPNThread.mNoProcessExitStatus
    signalled, interrupted,
    active,         \* OpenVpnManagementThread.active
    bound,          \* the management thread whose socket has the path mgmtsocket
    peer,           \* the process that is connected to a management thread
    starts, failures, stops,
    orderly         \* history: every request came when the last one was done

fieldVars == <<mProcessThread, mOpenVPNThread, mManagement, mStarting,
               mDeviceStateReceiver, lastConnected>>
sessionVars == <<thread, proc, replaced, signalled, interrupted>>
socketVars == <<mgmt, active, bound, peer>>
boundVars == <<starts, failures, stops>>
vars == <<service, foreground, main, revoker, fieldVars, lock, posted, status, starter,
          sessionVars, socketVars, boundVars, orderly>>

Session == 1..MaxStarts
Null == 0
Ending == {"lock", "clear", "stop"}
Starting == {"config", "stopping", "sleeping", "force", "forcing", "clearing", "open", "launch"}

(* Every start is through, nothing is being ended and what runs is under   *)
(* the control of its management thread.                                   *)
Attached(s) == \E m \in Session : peer[m] = s /\ mgmt[m] = "connected"
Settled ==
    /\ main = "idle" /\ revoker = "idle" /\ posted = 0
    /\ \A s \in Session :
          /\ starter[s] \in {"none", "done"}
          /\ thread[s] \in {"none", "reading", "ended"}
          /\ thread[s] = "reading" =>
                proc[s] = "running" /\ ~signalled[s] /\ ~interrupted[s] /\ Attached(s)

-----------------------------------------------------------------------------
(* endVpnService() is run by three kinds of thread.  Its caller is at      *)
(* "lock", then "clear", then "stop".                                      *)

EndLock ==
    /\ lock = Null
    /\ mProcessThread' = Null
    /\ UNCHANGED <<mOpenVPNThread, mDeviceStateReceiver, lastConnected, foreground, service>>

EndClear ==
    /\ mDeviceStateReceiver' = Null
    /\ lastConnected' = Null
    /\ mOpenVPNThread' = Null
    /\ UNCHANGED <<mProcessThread, foreground, service>>

(* No intent of the application asks for a notification that stays.        *)
EndStop ==
    /\ IF mStarting
       THEN UNCHANGED <<foreground, service>>
       ELSE /\ foreground' = FALSE
            /\ service' = IF service = "up" THEN "stopping" ELSE service
    /\ UNCHANGED <<mProcessThread, mOpenVPNThread, mDeviceStateReceiver, lastConnected>>

endVpnService(at) ==
    /\ \/ at = "lock" /\ EndLock
       \/ at = "clear" /\ EndClear
       \/ at = "stop" /\ EndStop
    /\ UNCHANGED <<mManagement, mStarting, lock, posted, status, socketVars>>

After(at, last) == IF at = "lock" THEN "clear" ELSE IF at = "clear" THEN "stop" ELSE last

-----------------------------------------------------------------------------
(* OpenVpnManagementThread.stopOpenVPN().                                  *)

(* The write succeeds on a socket that is open at both ends.               *)
CanCommand(m) == mgmt[m] = "connected" /\ proc[peer[m]] = "running"

(* Mutant: the socket is closed before the signal is written.              *)
closeThenStop ==
    /\ mgmt' = [m \in Session |->
                  IF m \in Range(active) /\ mgmt[m] = "connected" THEN "closed" ELSE mgmt[m]]
    /\ UNCHANGED signalled

(* Every active thread sends SIGINT if it can and closes its socket; one   *)
(* that still waits for its process to connect has no socket.              *)
stopOpenVPN ==
    LET all == Range(active)
        told == {peer[m] : m \in {m \in all : CanCommand(m)}}
    IN  /\ signalled' = [s \in Session |-> signalled[s] \/ s \in told]
        /\ mgmt' = [m \in Session |->
                      IF m \in all /\ mgmt[m] = "connected" THEN "closed" ELSE mgmt[m]]

(* Its result is that of the thread added last.                            *)
stopSent == active # <<>> /\ CanCommand(Last(active))

-----------------------------------------------------------------------------
(* The main thread, and the binder thread of onRevoke.                     *)

(* A request may also come between stopSelf() and onDestroy(); orderly     *)
(* histories have none there.                                              *)
Request(counter, max) ==
    /\ service \in {"up", "stopping"}
    /\ counter < max
    /\ orderly' = (orderly /\ Settled /\ service = "up")

(* onStartCommand with a profile: the start runs on a thread of its own.   *)
(* An intent sent after stopSelf() keeps a service alive that is bound;    *)
(* one that was on its way before does not.                                *)
onStartCommand ==
    /\ Request(starts, MaxStarts) /\ main = "idle"
    /\ service' \in {"up", service}
    /\ starts' = starts + 1
    /\ foreground' = TRUE
    /\ status' = "GENERATE_CONFIG"
    /\ starter' = [starter EXCEPT ![starts + 1] = "config"]
    /\ main' = "setting"
    /\ UNCHANGED <<revoker, fieldVars, lock, posted, sessionVars, socketVars, failures, stops>>

(* ... and the profile is remembered once that thread is under way.        *)
setConnectedVpnProfile ==
    /\ main = "setting"
    /\ main' = "idle"
    /\ lastConnected' = starts
    /\ UNCHANGED <<service, foreground, revoker, mProcessThread, mOpenVPNThread, mManagement,
                   mStarting, mDeviceStateReceiver, lock, posted, status, starter,
                   sessionVars, socketVars, boundVars, orderly>>

(* onStartCommand for a profile that is gone: only stopSelf(startId).      *)
StartNoProfile ==
    /\ Request(stops, MaxStops) /\ main = "idle"
    /\ stops' = stops + 1
    /\ foreground' = TRUE
    /\ status' = "GENERATE_CONFIG"
    /\ service' = "stopping"
    /\ UNCHANGED <<main, revoker, fieldVars, lock, posted, starter, sessionVars, socketVars,
                   starts, failures>>

(* Mutant: the registration is not taken off the looper's queue first.     *)
RegisterUnasked ==
    /\ main = "idle"
    /\ posted' = posted - 1
    /\ mDeviceStateReceiver' = mManagement
    /\ UNCHANGED <<service, foreground, main, revoker, mProcessThread, mOpenVPNThread, mManagement,
                   mStarting, lastConnected, lock, status, starter, sessionVars,
                   socketVars, boundVars, orderly>>

(* The posted registration takes the management thread of that moment.     *)
registerDeviceStateReceiver ==
    /\ main = "idle" /\ posted > 0
    /\ posted' = posted - 1
    /\ mDeviceStateReceiver' = mManagement
    /\ UNCHANGED <<service, foreground, main, revoker, mProcessThread, mOpenVPNThread, mManagement,
                   mStarting, lastConnected, lock, status, starter, sessionVars,
                   socketVars, boundVars, orderly>>

(* stopVPN() through the binder: the main screen, the manager service.     *)
stopVPN ==
    /\ Request(stops, MaxStops) /\ main = "idle"
    /\ stops' = stops + 1
    /\ mManagement # Null
    /\ stopOpenVPN
    /\ UNCHANGED <<service, foreground, main, revoker, fieldVars, lock, posted, status, starter,
                   thread, proc, replaced, interrupted, active, bound, peer, starts, failures>>

(* onRevoke: another application took the VPN over.  The system calls it   *)
(* on a thread of the binder, whatever the main thread does.               *)
onRevoke ==
    /\ Request(stops, MaxStops) /\ revoker = "idle"
    /\ stops' = stops + 1
    /\ mManagement # Null
    /\ stopOpenVPN
    /\ revoker' = "lock"
    /\ UNCHANGED <<service, foreground, main, fieldVars, lock, posted, status, starter,
                   thread, proc, replaced, interrupted, active, bound, peer, starts, failures>>

RevokeEnds ==
    /\ revoker \in Ending
    /\ endVpnService(revoker)
    /\ revoker' = After(revoker, "idle")
    /\ UNCHANGED <<main, starter, sessionVars, boundVars, orderly>>

(* Mutant: the process is not stopped with the service.                    *)
DestroyKeepsProcess ==
    /\ service = "stopping" /\ main = "idle" /\ lock = Null
    /\ service' = "destroyed"
    /\ foreground' = FALSE
    /\ UNCHANGED <<main, revoker, fieldVars, lock, posted, status, starter, sessionVars, socketVars,
                   boundVars, orderly>>

onDestroy ==
    /\ service = "stopping" /\ main = "idle" /\ lock = Null
    /\ service' = "destroyed"
    /\ IF mProcessThread # Null THEN stopOpenVPN ELSE UNCHANGED <<signalled, mgmt>>
    /\ foreground' = FALSE
    /\ UNCHANGED <<main, revoker, fieldVars, lock, posted, status, starter, thread, proc, replaced,
                   interrupted, active, bound, peer, boundVars, orderly>>

-----------------------------------------------------------------------------
(* startOpenVPN(), on the thread starter[s].                               *)

Step(s, from, to) == starter[s] = from /\ starter' = [starter EXCEPT ![s] = to]

StartFails ==
    /\ failures < MaxFailures
    /\ failures' = failures + 1
    /\ orderly' = FALSE

writeConfigFile(s) ==
    /\ \/ /\ Step(s, "config", "stopping")
          /\ mStarting' = TRUE
          /\ UNCHANGED <<failures, orderly>>
       \/ /\ Step(s, "config", "lock")
          /\ StartFails
          /\ UNCHANGED mStarting
    /\ UNCHANGED <<service, foreground, main, revoker, mProcessThread, mOpenVPNThread, mManagement,
                   mDeviceStateReceiver, lastConnected, lock, posted, status, sessionVars,
                   socketVars, starts, stops>>

(* Mutant: the old thread is not told that its session is replaced.        *)
setReplaceConnectionNot == UNCHANGED replaced

setReplaceConnection ==
    replaced' = [s \in Session |-> replaced[s] \/ s = mOpenVPNThread]

stopOldOpenVPNProcess(s) ==
    /\ \/ /\ mManagement # Null
          /\ setReplaceConnection
          /\ stopOpenVPN
          /\ Step(s, "stopping", IF stopSent THEN "sleeping" ELSE "force")
       \/ /\ mManagement = Null
          /\ Step(s, "stopping", "force")
          /\ UNCHANGED <<replaced, signalled, mgmt>>
    /\ UNCHANGED <<service, foreground, main, revoker, fieldVars, lock, posted, status, thread, proc,
                   interrupted, active, bound, peer, boundVars, orderly>>

SleepOver(s) ==
    /\ Step(s, "sleeping", "force")
    /\ UNCHANGED <<service, foreground, main, revoker, fieldVars, lock, posted, status, sessionVars,
                   socketVars, boundVars, orderly>>

(* Mutant: the lock is not given back after the sleep.                     *)
ForceSleepOverLocked(s) ==
    /\ Step(s, "forcing", "clearing")
    /\ UNCHANGED <<service, foreground, main, revoker, fieldVars, lock, posted, status, sessionVars,
                   socketVars, boundVars, orderly>>

(* The interrupted thread may need up to a second: the lock is held.       *)
forceStopOpenVpnProcess(s) ==
    /\ lock = Null
    /\ \/ /\ mProcessThread # Null
          /\ interrupted' = [interrupted EXCEPT ![mProcessThread] = TRUE]
          /\ lock' = s
          /\ Step(s, "force", "forcing")
       \/ /\ mProcessThread = Null
          /\ Step(s, "force", "clearing")
          /\ UNCHANGED <<interrupted, lock>>
    /\ UNCHANGED <<service, foreground, main, revoker, fieldVars, posted, status, thread, proc,
                   replaced, signalled, socketVars, boundVars, orderly>>

ForceSleepOver(s) ==
    /\ Step(s, "forcing", "clearing")
    /\ lock' = Null
    /\ UNCHANGED <<service, foreground, main, revoker, fieldVars, posted, status, sessionVars,
                   socketVars, boundVars, orderly>>

ClearStarting(s) ==
    /\ Step(s, "clearing", "open")
    /\ mStarting' = FALSE
    /\ UNCHANGED <<service, foreground, main, revoker, mProcessThread, mOpenVPNThread, mManagement,
                   mDeviceStateReceiver, lastConnected, lock, posted, status, sessionVars,
                   socketVars, boundVars, orderly>>

(* The server socket takes over the path, whoever listened there before,   *)
(* and its thread adds itself to the active ones.                          *)
openManagementInterface(s) ==
    /\ \/ /\ Step(s, "open", "launch")
          /\ mgmt' = [mgmt EXCEPT ![s] = "accepting"]
          /\ active' = Append(active, s)
          /\ bound' = s
          /\ mManagement' = s
          /\ mOpenVPNThread' = s
          /\ UNCHANGED <<failures, orderly>>
       \/ /\ Step(s, "open", "lock")
          /\ StartFails
          /\ UNCHANGED <<mgmt, active, bound, mManagement, mOpenVPNThread>>
    /\ UNCHANGED <<service, foreground, main, revoker, mProcessThread, mStarting, lastConnected,
                   mDeviceStateReceiver, lock, posted, status, sessionVars, peer, starts, stops>>

(* The thread starts the process and the registration is posted.           *)
Launch(s) ==
    /\ lock = Null
    /\ Step(s, "launch", "done")
    /\ mProcessThread' = s
    /\ thread' = [thread EXCEPT ![s] = "reading"]
    /\ proc' = [proc EXCEPT ![s] = "running"]
    /\ posted' = posted + 1
    /\ UNCHANGED <<service, foreground, main, revoker, mOpenVPNThread, mManagement, mStarting,
                   mDeviceStateReceiver, lastConnected, lock, status, replaced, signalled,
                   interrupted, socketVars, boundVars, orderly>>

FailedStartEnds(s) ==
    /\ starter[s] \in Ending
    /\ endVpnService(starter[s])
    /\ starter' = [starter EXCEPT ![s] = After(starter[s], "done")]
    /\ UNCHANGED <<main, revoker, sessionVars, boundVars, orderly>>

Starter(s) ==
    \/ writeConfigFile(s)
    \/ stopOldOpenVPNProcess(s)
    \/ SleepOver(s)
    \/ forceStopOpenVpnProcess(s)
    \/ ForceSleepOver(s)
    \/ ClearStarting(s)
    \/ openManagementInterface(s)
    \/ Launch(s)
    \/ FailedStartEnds(s)

-----------------------------------------------------------------------------
(* OpenVPNThread.run(), on the thread thread[s].                           *)

ThreadStep(s, from, to) == thread[s] = from /\ thread' = [thread EXCEPT ![s] = to]

(* A line of output arrives after the interrupt: stopProcess().            *)
stopProcess(s) ==
    /\ thread[s] = "reading" /\ interrupted[s]
    /\ proc[s] = "running"
    /\ proc' = [proc EXCEPT ![s] = "exited"]
    /\ UNCHANGED <<service, foreground, main, revoker, fieldVars, lock, posted, status, starter,
                   thread, replaced, signalled, interrupted, socketVars, boundVars, orderly>>

EndOfOutput(s) ==
    /\ proc[s] = "exited"
    /\ ThreadStep(s, "reading", "reporting")
    /\ UNCHANGED <<service, foreground, main, revoker, fieldVars, lock, posted, status, starter,
                   proc, replaced, signalled, interrupted, socketVars, boundVars, orderly>>

ReportNoProcess(s) ==
    /\ ThreadStep(s, "reporting", "deciding")
    /\ status' = IF replaced[s] THEN status ELSE "NOPROCESS"
    /\ UNCHANGED <<service, foreground, main, revoker, fieldVars, lock, posted, starter,
                   proc, replaced, signalled, interrupted, socketVars, boundVars, orderly>>

openvpnStopped(s) ==
    /\ ThreadStep(s, "deciding", IF replaced[s] THEN "ended" ELSE "lock")
    /\ UNCHANGED <<service, foreground, main, revoker, fieldVars, lock, posted, status, starter,
                   proc, replaced, signalled, interrupted, socketVars, boundVars, orderly>>

ThreadEnds(s) ==
    /\ thread[s] \in Ending
    /\ endVpnService(thread[s])
    /\ thread' = [thread EXCEPT ![s] = After(thread[s], "ended")]
    /\ UNCHANGED <<main, revoker, starter, proc, replaced, signalled, interrupted, boundVars, orderly>>

OpenVPNThread(s) ==
    \/ EndOfOutput(s)
    \/ ReportNoProcess(s)
    \/ openvpnStopped(s)
    \/ ThreadEnds(s)

-----------------------------------------------------------------------------
(* The process and its management thread.                                  *)

(* The process connects to the socket that has the path now; it cannot go  *)
(* on without one.                                                         *)
Connect(p) ==
    /\ proc[p] = "running"
    /\ \A m \in Session : peer[m] # p
    /\ IF bound # Null /\ mgmt[bound] = "accepting"
       THEN /\ mgmt' = [mgmt EXCEPT ![bound] = "connected"]
            /\ peer' = [peer EXCEPT ![bound] = p]
            /\ UNCHANGED proc
       ELSE /\ proc' = [proc EXCEPT ![p] = "exited"]
            /\ UNCHANGED <<mgmt, peer>>
    /\ UNCHANGED <<service, foreground, main, revoker, fieldVars, lock, posted, status, starter,
                   thread, replaced, signalled, interrupted, active, bound, boundVars, orderly>>

(* A state of the process reaches VpnStatus.                               *)
updateStateString(m) ==
    /\ CanCommand(m)
    /\ status' = "RUNNING"
    /\ UNCHANGED <<service, foreground, main, revoker, fieldVars, lock, posted, starter,
                   sessionVars, socketVars, boundVars, orderly>>

(* The process obeys SIGINT, ...                                           *)
Obey(p) ==
    /\ proc[p] = "running" /\ signalled[p]
    /\ proc' = [proc EXCEPT ![p] = "exited"]
    /\ UNCHANGED <<service, foreground, main, revoker, fieldVars, lock, posted, status, starter,
                   thread, replaced, signalled, interrupted, socketVars, boundVars, orderly>>

(* ... or it exits on its own: an option it rejects, a fatal error.        *)
ExitAlone(p) ==
    /\ proc[p] = "running"
    /\ stops < MaxStops
    /\ stops' = stops + 1
    /\ orderly' = (orderly /\ Settled)
    /\ proc' = [proc EXCEPT ![p] = "exited"]
    /\ UNCHANGED <<service, foreground, main, revoker, fieldVars, lock, posted, status, starter,
                   thread, replaced, signalled, interrupted, socketVars, starts, failures>>

(* The management thread ends: at the end of file it stays in the list of  *)
(* active threads, after an exception it is taken out.                     *)
removeActive(m) == \E i \in DOMAIN active : active[i] = m /\ active' = RemoveAt(active, i)

ManagementEnds(m) ==
    /\ \/ mgmt[m] = "connected" /\ proc[peer[m]] = "exited" /\ UNCHANGED active
       \/ mgmt[m] = "connected" /\ proc[peer[m]] = "exited" /\ removeActive(m)
       \/ mgmt[m] = "closed" /\ removeActive(m)
    /\ mgmt' = [mgmt EXCEPT ![m] = "ended"]
    /\ UNCHANGED <<service, foreground, main, revoker, fieldVars, lock, posted, status, starter,
                   sessionVars, bound, peer, boundVars, orderly>>

-----------------------------------------------------------------------------
Init ==
    /\ service = "up" /\ foreground = FALSE /\ main = "idle" /\ revoker = "idle"
    /\ mProcessThread = Null /\ mOpenVPNThread = Null /\ mManagement = Null
    /\ mStarting = FALSE /\ mDeviceStateReceiver = Null
    /\ lock = Null /\ posted = 0 /\ lastConnected = Null /\ status = "NOPROCESS"
    /\ starter = [s \in Session |-> "none"]
    /\ thread = [s \in Session |-> "none"]
    /\ mgmt = [s \in Session |-> "none"]
    /\ proc = [s \in Session |-> "none"]
    /\ replaced = [s \in Session |-> FALSE]
    /\ signalled = [s \in Session |-> FALSE]
    /\ interrupted = [s \in Session |-> FALSE]
    /\ active = <<>> /\ bound = Null
    /\ peer = [s \in Session |-> Null]
    /\ starts = 0 /\ failures = 0 /\ stops = 0
    /\ orderly = TRUE

MainThread ==
    \/ setConnectedVpnProfile
    \/ registerDeviceStateReceiver
    \/ onDestroy

Requests == onStartCommand \/ StartNoProfile \/ stopVPN \/ onRevoke

Next ==
    \/ Requests
    \/ MainThread
    \/ RevokeEnds
    \/ \E s \in Session :
          \/ Starter(s) \/ stopProcess(s) \/ OpenVPNThread(s)
          \/ Connect(s) \/ updateStateString(s) \/ Obey(s) \/ ExitAlone(s)
          \/ ManagementEnds(s)

Spec == Init /\ [][Next]_vars

(* Fairness: some thread or process that can go on does.  Nothing here     *)
(* repeats for ever (a lock is taken once by each start), so that no actor *)
(* can be overtaken for ever.  A process obeys a signal and writes another *)
(* line of output sooner or later.  Requests, failures and exits are not   *)
(* fair.                                                                   *)
Progress ==
    \/ MainThread
    \/ RevokeEnds
    \/ \E s \in Session : Starter(s) \/ OpenVPNThread(s) \/ stopProcess(s) \/ Obey(s)

FairSpec == Spec /\ WF_vars(Progress)

-----------------------------------------------------------------------------
(* Properties.                                                             *)

TypeOK ==
    /\ service \in {"up", "stopping", "destroyed"}
    /\ foreground \in BOOLEAN
    /\ main \in {"idle", "setting"} /\ revoker \in {"idle"} \cup Ending
    /\ mProcessThread \in 0..MaxStarts /\ mOpenVPNThread \in 0..MaxStarts
    /\ mManagement \in 0..MaxStarts /\ mDeviceStateReceiver \in 0..MaxStarts
    /\ mStarting \in BOOLEAN
    /\ lock \in 0..MaxStarts /\ posted \in Nat
    /\ lastConnected \in 0..MaxStarts
    /\ status \in {"NOPROCESS", "GENERATE_CONFIG", "RUNNING"}
    /\ starter \in [Session -> {"none", "done"} \cup Starting \cup Ending]
    /\ thread \in [Session -> {"none", "reading", "reporting", "deciding", "ended"} \cup Ending]
    /\ mgmt \in [Session -> {"none", "accepting", "connected", "closed", "ended"}]
    /\ proc \in [Session -> {"none", "running", "exited"}]
    /\ replaced \in [Session -> BOOLEAN]
    /\ signalled \in [Session -> BOOLEAN]
    /\ interrupted \in [Session -> BOOLEAN]
    /\ active \in Seq(Session)
    /\ bound \in 0..MaxStarts
    /\ peer \in [Session -> 0..MaxStarts]
    /\ starts \in 0..MaxStarts /\ failures \in 0..MaxFailures /\ stops \in 0..MaxStops
    /\ orderly \in BOOLEAN

Told(s) == signalled[s] \/ interrupted[s]

(* Whatever order the requests come in, a process that has reached a       *)
(* management thread can be stopped: stopOpenVPN() finds that thread in    *)
(* the list of active ones, unless the process was told to stop already.   *)
AttachedIsStoppable ==
    \A m \in Session :
        peer[m] # Null /\ proc[peer[m]] = "running" =>
            signalled[peer[m]] \/ (mgmt[m] = "connected" /\ m \in Range(active))

(* If every request came when the last one was done, then once a session   *)
(* has replaced another, the fields of the service are those of the new    *)
(* session and no ending of the old one touched them: it is the only one   *)
(* that was not told to stop, the receiver commands it, the service is in  *)
(* the foreground, and would reconnect it after a restart.                 *)
ReplacementIsComplete ==
    orderly /\ Settled =>
        \A s \in Session : proc[s] = "running" =>
            /\ \A t \in Session \ {s} : proc[t] # "running"
            /\ mProcessThread = s /\ mOpenVPNThread = s /\ mManagement = s
            /\ mDeviceStateReceiver = s /\ lastConnected = s
            /\ service = "up" => foreground /\ status # "NOPROCESS"

(* If every request came when the last one was done, the service is not    *)
(* destroyed with a process left that nobody told to stop.                 *)
DestroyedLeavesNothing ==
    orderly /\ service = "destroyed" =>
        \A s \in Session : proc[s] = "running" => Told(s)

(* The inductive invariant behind it.  A management thread is among the    *)
(* active ones until it ends; it has no process before one connects; and a *)
(* process starts after its management thread, and has none before.        *)
BeforeOpen == {"none", "config", "stopping", "sleeping", "force", "forcing", "clearing", "open"}

StopInv ==
    /\ AttachedIsStoppable
    /\ \A s \in Session :
          /\ s > starts => starter[s] = "none"
          /\ starter[s] \in BeforeOpen => mgmt[s] = "none"
          /\ starter[s] \in BeforeOpen \cup {"launch"} => proc[s] = "none"
          /\ mgmt[s] \in {"accepting", "connected", "closed"} => s \in Range(active)
          /\ mgmt[s] \in {"none", "accepting"} => peer[s] = Null
          /\ peer[s] # Null => proc[peer[s]] # "none"

(* The inductive invariant behind the other two.  A session is over once   *)
(* its process was told to stop or is gone.                                *)
Over(s) == signalled[s] \/ proc[s] = "exited"

(* No revocation is being handled.                                         *)
Idle == revoker = "idle"

(* The service has the session in its hand.                                *)
Controlled(s) ==
    /\ mProcessThread = s /\ mOpenVPNThread = s /\ mManagement = s
    /\ thread[s] = "reading" /\ proc[s] = "running" /\ ~Told(s)

(* The session was replaced, and runs out without touching the service.    *)
RunsOut(s) ==
    /\ replaced[s] /\ thread[s] \in {"reading", "reporting", "deciding"}
    /\ proc[s] = "running" => signalled[s]

SessionInv(s) ==
    /\ starter[s] \notin Ending
    /\ s < starts => starter[s] = "done"
    /\ s = starts => starter[s] # "none"
    /\ s >= starts => ~replaced[s] /\ ~interrupted[s]
    /\ s > starts => ~signalled[s]
    /\ starter[s] = "done" <=> thread[s] # "none"
    /\ starter[s] = "done" <=> proc[s] # "none"
    /\ mOpenVPNThread = s => starter[s] \in {"launch", "done"}
    /\ mProcessThread = s => starter[s] = "done"
    /\ peer[s] \in {Null, s}
    /\ mgmt[s] = "connected" => peer[s] = s
    /\ proc[s] = "running" =>
          /\ thread[s] = "reading"
          /\ peer[s] = s \/ (s = starts /\ mgmt[s] = "accepting" /\ bound = s)

(* An earlier session has ended, runs out, or is still to be replaced.     *)
OldInv(s) ==
    \/ thread[s] = "ended"
    \/ RunsOut(s) /\ service = "up" /\ ~Over(starts)
    \/ Controlled(s) /\ mgmt[s] = "connected" /\ starter[starts] \in {"config", "stopping"}

(* The latest session while it is started, ...                             *)
StartingInv(s) ==
    /\ service = "up" /\ Idle /\ posted = 0 /\ status # "NOPROCESS" /\ ~signalled[s]
    /\ main = "idle" => lastConnected = s
    /\ starter[s] = "launch" =>
          /\ mManagement = s /\ mOpenVPNThread = s
          /\ mgmt[s] = "accepting" /\ bound = s

(* ... and until it is over.                                               *)
RunningInv(s) ==
    /\ Controlled(s) /\ Idle /\ status # "NOPROCESS"
    /\ main = "idle" => lastConnected = s
    /\ posted = 0 => mDeviceStateReceiver = s
    /\ service # "destroyed"
    /\ service = "stopping" => mgmt[s] = "connected"

LatestInv(s) ==
    /\ service = "up" => foreground
    /\ starter[s] \in {"open", "launch", "done"} => ~mStarting
    /\ starter[s] \in Starting => StartingInv(s)
    /\ starter[s] = "done" /\ ~Over(s) => RunningInv(s)
    /\ thread[s] = "ended" => service # "up"

InOrder ==
    /\ \A s \in Session :
          /\ SessionInv(s)
          /\ s < starts => OldInv(s)
          /\ s = starts => LatestInv(s)
    /\ starts = 0 => Idle /\ posted = 0 /\ ~mStarting /\ mManagement = Null

OrderlyInv == orderly => InOrder

(* A start gets through however the requests overlap: the sleep that holds *)
(* mProcessLock ends and nobody keeps the lock.  (No start is made twice,  *)
(* so that each one gets through if at last all have.)                     *)
StartCompletes == <>[](\A s \in Session : starter[s] \in {"none", "done"})

(* If every request came when the last one was done, then everything the   *)
(* service has started comes to an end once it is stopped: neither a       *)
(* process nor the wait of a thread for mProcessLock is left.              *)
EverythingEnds ==
    <>[](orderly /\ service # "up" =>
            \A s \in Session : thread[s] \in {"none", "ended"})

-----------------------------------------------------------------------------
(* Stated by the comment before mStarting is reset, "An old running VPN    *)
(* should now be exited": the thread of a session that was marked as       *)
(* replaced is not about to end the service under the new session.         *)
OldIsOutOfTheWay ==
    \A s, t \in Session :
        t > s /\ starter[t] = "open" /\ replaced[s] => thread[s] \notin Ending
=============================================================================

--------------------------- MODULE CharonVpnService ---------------------------
(***************************************************************************)
(* The IKEv2 VPN service (ikeV2/.../CharonVpnService.java) together with   *)
(* the state service it reports to (module VpnStateService).               *)
(*                                                                         *)
(* Actors:                                                                 *)
(*   - the main thread: posted changes, the retry countdown, requests of   *)
(*     the user interface, the service callbacks;                          *)
(*   - the handler thread (run()), which holds the service's monitor from  *)
(*     the moment it wakes up until it waits again, so that setNextProfile *)
(*     on the main thread blocks meanwhile;                                *)
(*   - charon, the native IKE daemon (libandroidbridge.so, external): its  *)
(*     threads call updateStatus() and establish() while it is running.    *)
(*     deinitializeCharon() returns when those threads are gone.           *)
(***************************************************************************)
EXTENDS VpnStateService, FiniteSets

CONSTANTS
    Statuses,     \* what charon may report: subset of CharonStatus
    UserOps,      \* requests that may be made: subset of UserOp
    MaxRequests,  \* bound: requests made by the user and the system
    MaxReports    \* bound: reports and failures of charon

VARIABLES
    mCurrentProfile, mNextProfile, mProfileUpdated, mTerminate,
    mIsDisconnecting, mShowNotification,
    handler,      \* where the handler thread is
    charon,       \* "off", "initialized" or "initiated"
    charonConn,   \* the connection charon was initialized for
    report,       \* change a charon thread is about to post, or NoReport
    vpnFd,        \* charon holds a TUN device
    blockFd,      \* PacketDropper.mFd: the blocking TUN device is open
    joining,      \* the main thread is in onDestroy(), waiting for the handler
    attempts,     \* number of connections started so far
    wanted,       \* history: the last request asked for a connection
    guarded,      \* history: see Wake and establish
    requests, reports   \* counters for the bounds

threadVars == <<mCurrentProfile, mNextProfile, mProfileUpdated, mTerminate,
                mIsDisconnecting, handler, joining, attempts>>
charonVars == <<charon, charonConn, report, vpnFd, blockFd, reports>>
historyVars == <<wanted, guarded>>
vars == <<serviceVars, threadVars, charonVars, mShowNotification, historyVars, requests>>

CharonStatus == {"CHILD_SA_UP", "CHILD_SA_DOWN", "IMC", "INSTRUCTION"}
                    \cup (Failure \ {"PASSWORD_MISSING"})
UserOp == {"connect", "disconnect", "reconnect", "alwaysOn", "revoke", "destroy"}

ASSUME CharonAssumption ==
    /\ Statuses \subseteq CharonStatus
    /\ UserOps \subseteq UserOp
    /\ MaxRequests \in Nat
    /\ MaxReports \in Nat

NoReport == [op |-> "none", arg |-> "none", id |-> 0]

(* Places of the handler thread: no service, service created but the state *)
(* service not bound yet, waiting, and then, holding the monitor, the      *)
(* points of run() between which another thread can be seen.               *)
Handler == {"none", "unbound", "waiting", "disconnecting", "deinitializing",
            "stopped", "starting", "failing", "finished"}
MonitorFree == handler \in {"none", "unbound", "waiting"}
MainFree == ~joining

-----------------------------------------------------------------------------
(* Callbacks of the service on the main thread.                            *)

(* Mutant: the handler thread is only woken up for a profile.              *)
setNextProfileNoWake(p) ==
    /\ mNextProfile' = p
    /\ mProfileUpdated' = (p # NoProfile \/ mProfileUpdated)

setNextProfile(p) ==
    /\ mNextProfile' = p
    /\ mProfileUpdated' = TRUE

(* onStartCommand: the first intent creates the service (onCreate).  The   *)
(* profile is looked up in the database and may have been deleted.         *)
onStartCommand ==
    /\ MainFree /\ MonitorFree
    /\ intents # <<>>
    /\ \E found \in {Head(intents).profile, NoProfile} : setNextProfile(found)
    /\ intents' = Tail(intents)
    /\ handler' = IF handler = "none" THEN "unbound" ELSE handler
    /\ UNCHANGED <<mCurrentProfile, mTerminate, mIsDisconnecting, joining, attempts>>
    /\ UNCHANGED <<stateVars, retryVars, mainq, charonVars, mShowNotification,
                   historyVars, requests>>

(* The state service is bound: the handler thread is started.              *)
onServiceConnected ==
    /\ MainFree
    /\ handler = "unbound"
    /\ handler' = "waiting"
    /\ UNCHANGED <<mCurrentProfile, mNextProfile, mProfileUpdated, mTerminate,
                   mIsDisconnecting, joining, attempts>>
    /\ UNCHANGED <<serviceVars, charonVars, mShowNotification, historyVars, requests>>

(* A request: one of the calls the user interface or the system makes on   *)
(* the main thread.  disconnect() comes in any state: the dialog that asks *)
(* for it may be confirmed long after it was shown, and the manager of the *)
(* application calls it when the time is over.                             *)
Request(op) ==
    /\ MainFree
    /\ op \in UserOps
    /\ requests < MaxRequests
    /\ requests' = requests + 1

UserConnect(p) ==
    /\ Request("connect")
    /\ connect(p)
    /\ wanted' = TRUE
    /\ UNCHANGED <<threadVars, charonVars, mShowNotification, guarded>>

UserDisconnect ==
    /\ Request("disconnect")
    /\ disconnect(attempts)
    /\ wanted' = FALSE
    /\ UNCHANGED <<threadVars, charonVars, mShowNotification, guarded>>

UserReconnect ==
    /\ Request("reconnect")
    /\ reconnect(attempts)
    /\ wanted' = (wanted \/ ~AsksPassword)
    /\ UNCHANGED <<threadVars, charonVars, mShowNotification, guarded>>

(* Always-on VPN: the system starts the service with the default profile.  *)
AlwaysOn(p) ==
    /\ Request("alwaysOn")
    /\ intents' = Append(intents, ConnectIntent(p))
    /\ wanted' = TRUE
    /\ UNCHANGED <<stateVars, retryVars, mainq, threadVars, charonVars, mShowNotification,
                   guarded>>

(* onRevoke: the user clicked disconnect in the system's dialog.  The      *)
(* thread it is called on does nothing else, so that it may be taken for   *)
(* the main one; while onDestroy() waits it would change nothing.          *)
onRevoke ==
    /\ Request("revoke")
    /\ handler \in {"unbound", "waiting"}
    /\ setNextProfile(NoProfile)
    /\ wanted' = (\E i \in DOMAIN intents : intents[i].op = "connect")
    /\ UNCHANGED <<mCurrentProfile, mTerminate, mIsDisconnecting, handler, joining, attempts>>
    /\ UNCHANGED <<serviceVars, charonVars, mShowNotification, guarded>>

(* onDestroy: ends the handler thread and waits for it.  A thread that was *)
(* never started is not waited for.  mTerminate is set before the monitor  *)
(* is entered; a handler thread that sees it a step earlier ends as well.  *)
onDestroy ==
    /\ Request("destroy")
    /\ handler \in {"unbound", "waiting"}
    /\ mTerminate' = TRUE
    /\ setNextProfile(NoProfile)
    /\ handler' = IF handler = "unbound" THEN "finished" ELSE handler
    /\ joining' = TRUE
    /\ UNCHANGED <<mCurrentProfile, mIsDisconnecting, attempts>>
    /\ UNCHANGED <<serviceVars, charonVars, mShowNotification, historyVars>>

(* join() returned: the instance is gone, a later intent creates a new     *)
(* one.                                                                    *)
Destroyed ==
    /\ joining
    /\ handler = "finished"
    /\ handler' = "none"
    /\ joining' = FALSE
    /\ mNextProfile' = NoProfile
    /\ mProfileUpdated' = FALSE
    /\ mTerminate' = FALSE
    /\ mIsDisconnecting' = FALSE
    /\ mShowNotification' = FALSE
    /\ UNCHANGED <<mCurrentProfile, attempts>>
    /\ UNCHANGED <<serviceVars, charonVars, historyVars, requests>>

(* The main thread runs a posted change, its own or the state service's.   *)
MainRun ==
    /\ MainFree
    /\ RunChange
    /\ IF Head(mainq).op \in {"show", "hide"}
       THEN mShowNotification' = (Head(mainq).op = "show")
       ELSE UNCHANGED mShowNotification
    /\ UNCHANGED <<threadVars, charonVars, historyVars, requests>>

(* A delayed message is behind every change posted before it is due, and a *)
(* change posted later commutes with it: it runs when no change is queued. *)
MainTick ==
    /\ MainFree
    /\ mainq = <<>>
    /\ RetryTick
    /\ UNCHANGED <<threadVars, charonVars, mShowNotification, historyVars, requests>>

-----------------------------------------------------------------------------
(* The handler thread, run() and stopCurrentConnection().                  *)

(* BuilderAdapter.establishBlocking: opens the TUN device that drops all   *)
(* packets; if that fails, whatever was open stays open.                   *)
establishBlocking == blockFd' \in {TRUE, blockFd}

(* Mutant: a running connection is not stopped before another is started.  *)
MustStopUnlessSwitching == mCurrentProfile # NoProfile /\ mNextProfile = NoProfile

(* stopCurrentConnection() has something to stop.                          *)
MustStop == mCurrentProfile # NoProfile

(* From here on, if a profile follows and the blocking device is open, the *)
(* traffic is guarded.                                                     *)
Wake ==
    /\ handler = "waiting"
    /\ mProfileUpdated
    /\ mProfileUpdated' = FALSE
    /\ IF mNextProfile # NoProfile THEN establishBlocking ELSE UNCHANGED blockFd
    /\ guarded' = (mNextProfile # NoProfile /\ blockFd')
    /\ UNCHANGED wanted
    /\ IF MustStop
       THEN /\ Post(setState("DISCONNECTING", attempts))
            /\ handler' = "disconnecting"
       ELSE /\ handler' = "stopped"
            /\ UNCHANGED mainq
    /\ UNCHANGED <<mCurrentProfile, mNextProfile, mTerminate, mIsDisconnecting, joining, attempts>>
    /\ UNCHANGED <<stateVars, retryVars, intents, charon, charonConn, report,
                   vpnFd, reports, mShowNotification, requests>>

SetDisconnecting ==
    /\ handler = "disconnecting"
    /\ mIsDisconnecting' = TRUE
    /\ handler' = "deinitializing"
    /\ UNCHANGED <<mCurrentProfile, mNextProfile, mProfileUpdated, mTerminate, joining, attempts>>
    /\ UNCHANGED <<serviceVars, charonVars, mShowNotification, historyVars, requests>>

(* Mutant: the notification and the blocking TUN device are always         *)
(* removed.                                                                *)
RemoveAlways == TRUE

(* They are kept while another profile is to be connected.                 *)
NothingFollows == mNextProfile = NoProfile

(* deinitializeCharon() returns once no charon thread runs any more.       *)
Deinitialize ==
    /\ handler = "deinitializing"
    /\ report = NoReport
    /\ charon' = "off"
    /\ vpnFd' = FALSE
    /\ mCurrentProfile' = NoProfile
    /\ IF NothingFollows
       THEN Post(Msg("hide", "none", attempts)) /\ blockFd' = FALSE
       ELSE UNCHANGED <<mainq, blockFd>>
    /\ handler' = "stopped"
    /\ UNCHANGED <<mNextProfile, mProfileUpdated, mTerminate, mIsDisconnecting, joining, attempts>>
    /\ UNCHANGED <<stateVars, retryVars, intents, charonConn, report, reports,
                   mShowNotification, historyVars, requests>>

Disable ==
    /\ handler = "stopped"
    /\ mNextProfile = NoProfile
    /\ Post(setState("DISABLED", attempts))
    /\ handler' = IF mTerminate THEN "finished" ELSE "waiting"
    /\ UNCHANGED <<mCurrentProfile, mNextProfile, mProfileUpdated, mTerminate,
                   mIsDisconnecting, joining, attempts>>
    /\ UNCHANGED <<stateVars, retryVars, intents, charonVars, mShowNotification,
                   historyVars, requests>>

Start ==
    /\ handler = "stopped"
    /\ mNextProfile # NoProfile
    /\ mCurrentProfile' = mNextProfile
    /\ mNextProfile' = NoProfile
    /\ attempts' = attempts + 1
    /\ mainq' = mainq \o <<startConnection(mNextProfile, attempts + 1),
                           Msg("show", "none", attempts + 1)>>
    /\ mIsDisconnecting' = FALSE
    /\ handler' = "starting"
    /\ UNCHANGED <<mProfileUpdated, mTerminate, joining>>
    /\ UNCHANGED <<stateVars, retryVars, intents, charonVars, mShowNotification,
                   historyVars, requests>>

(* initializeCharon() succeeded; a missing password is an error, else the  *)
(* connection is initiated.                                                *)
Initiate ==
    /\ handler = "starting"
    /\ charonConn' = attempts
    /\ IF mCurrentProfile \in NeedsPassword
       THEN /\ charon' = "initialized"
            /\ Post(setError("PASSWORD_MISSING", attempts))
       ELSE /\ charon' = "initiated"
            /\ UNCHANGED mainq
    /\ handler' = "waiting"
    /\ UNCHANGED <<mCurrentProfile, mNextProfile, mProfileUpdated, mTerminate,
                   mIsDisconnecting, joining, attempts>>
    /\ UNCHANGED <<stateVars, retryVars, intents, report, vpnFd, blockFd, reports,
                   mShowNotification, historyVars, requests>>

(* initializeCharon() failed: setError(), then setState().                 *)
InitializeFails ==
    /\ handler = "starting"
    /\ reports < MaxReports
    /\ reports' = reports + 1
    /\ Post(setError("GENERIC_ERROR", attempts))
    /\ handler' = "failing"
    /\ UNCHANGED <<mCurrentProfile, mNextProfile, mProfileUpdated, mTerminate,
                   mIsDisconnecting, joining, attempts>>
    /\ UNCHANGED <<stateVars, retryVars, intents, charon, charonConn, report, vpnFd,
                   blockFd, mShowNotification, historyVars, requests>>

(* Mutant: the failed profile stays the current one.                       *)
DisableFailedKeepProfile ==
    /\ handler = "failing"
    /\ Post(setState("DISABLED", attempts))
    /\ handler' = "waiting"
    /\ UNCHANGED <<mCurrentProfile, mNextProfile, mProfileUpdated, mTerminate,
                   mIsDisconnecting, joining, attempts>>
    /\ UNCHANGED <<stateVars, retryVars, intents, charonVars, mShowNotification,
                   historyVars, requests>>

DisableFailed ==
    /\ handler = "failing"
    /\ Post(setState("DISABLED", attempts))
    /\ mCurrentProfile' = NoProfile
    /\ handler' = "waiting"
    /\ UNCHANGED <<mNextProfile, mProfileUpdated, mTerminate, mIsDisconnecting, joining, attempts>>
    /\ UNCHANGED <<stateVars, retryVars, intents, charonVars, mShowNotification,
                   historyVars, requests>>

-----------------------------------------------------------------------------
(* Charon's threads.                                                       *)

(* updateStatus(): what a status becomes.  Only CHILD_SA_DOWN and the      *)
(* errors (setErrorDisconnect) look at mIsDisconnecting.                   *)
updateStatus(status) ==
    IF status = "CHILD_SA_UP" THEN setState("CONNECTED", charonConn)
    ELSE IF status = "INSTRUCTION" THEN addRemediationInstruction(charonConn)
    ELSE IF mIsDisconnecting THEN NoReport
    ELSE IF status = "CHILD_SA_DOWN" THEN setState("CONNECTING", charonConn)
    ELSE setError(status, charonConn)

(* A charon thread enters updateStatus() or updateImcState(): it has read  *)
(* mIsDisconnecting and has not posted the change yet.                     *)
CharonReports ==
    /\ charon = "initiated"
    /\ report = NoReport
    /\ reports < MaxReports
    /\ reports' = reports + 1
    /\ \/ \E status \in Statuses \ {"IMC"} : report' = updateStatus(status)
       \/ /\ "IMC" \in Statuses
          /\ \E s \in ImcState : report' = setImcState(s, charonConn)
    /\ UNCHANGED <<serviceVars, threadVars, charon, charonConn, vpnFd, blockFd,
                   mShowNotification, historyVars, requests>>

CharonPosts ==
    /\ report # NoReport
    /\ Post(report)
    /\ report' = NoReport
    /\ UNCHANGED <<stateVars, retryVars, intents, threadVars, charon, charonConn,
                   vpnFd, blockFd, reports, mShowNotification, historyVars, requests>>

(* The daemon is about to be stopped. *)
StoppingDaemon == handler \in {"disconnecting", "deinitializing"}

(* BuilderAdapter.establish(): charon's TUN device replaces the blocking   *)
(* one, which is closed only once the new one is there.  A daemon that     *)
(* connects again replaces its own device.  One that is being stopped is   *)
(* not kept from it: then nothing guards what follows.                     *)
establish ==
    /\ charon = "initiated"
    /\ vpnFd' = TRUE
    /\ blockFd' = FALSE
    /\ guarded' = (guarded /\ ~StoppingDaemon)
    /\ UNCHANGED wanted
    /\ UNCHANGED <<serviceVars, threadVars, charon, charonConn, report, reports,
                   mShowNotification, requests>>

-----------------------------------------------------------------------------
Init ==
    /\ StateServiceInit
    /\ mCurrentProfile = NoProfile
    /\ mNextProfile = NoProfile
    /\ mProfileUpdated = FALSE
    /\ mTerminate = FALSE
    /\ mIsDisconnecting = FALSE
    /\ mShowNotification = FALSE
    /\ handler = "none"
    /\ charon = "off"
    /\ charonConn = 0
    /\ report = NoReport
    /\ vpnFd = FALSE
    /\ blockFd = FALSE
    /\ joining = FALSE
    /\ attempts = 0
    /\ wanted = FALSE
    /\ guarded = FALSE
    /\ requests = 0
    /\ reports = 0

Main ==
    \/ onStartCommand
    \/ onServiceConnected
    \/ MainRun
    \/ MainTick
    \/ Destroyed

Environment ==
    \/ \E p \in Profile : UserConnect(p) \/ AlwaysOn(p)
    \/ UserDisconnect
    \/ UserReconnect
    \/ onRevoke
    \/ onDestroy

HandlerThread ==
    \/ Wake
    \/ SetDisconnecting
    \/ Deinitialize
    \/ Disable
    \/ Start
    \/ Initiate
    \/ InitializeFails
    \/ DisableFailed

Charon ==
    \/ CharonReports
    \/ CharonPosts
    \/ establish

Next == Main \/ Environment \/ HandlerThread \/ Charon

Spec == Init /\ [][Next]_vars

(* Fairness.  The main looper keeps delivering what is queued and due, the *)
(* scheduler keeps running the handler thread and a charon thread that is  *)
(* about to post.  Users, the system and what charon reports are not fair. *)
Fairness ==
    /\ WF_vars(onStartCommand)
    /\ WF_vars(onServiceConnected)
    /\ WF_vars(MainRun)
    /\ WF_vars(MainTick)
    /\ WF_vars(Destroyed)
    /\ WF_vars(HandlerThread)
    /\ WF_vars(CharonPosts)

FairSpec == Spec /\ Fairness

-----------------------------------------------------------------------------
(* Properties.                                                             *)

TypeOK ==
    /\ StateServiceTypeOK
    /\ mCurrentProfile \in Profile \cup {NoProfile}
    /\ mNextProfile \in Profile \cup {NoProfile}
    /\ mProfileUpdated \in BOOLEAN
    /\ mTerminate \in BOOLEAN
    /\ mIsDisconnecting \in BOOLEAN
    /\ mShowNotification \in BOOLEAN
    /\ handler \in Handler
    /\ charon \in {"off", "initialized", "initiated"}
    /\ charonConn \in Nat
    /\ report \in Change \cup {NoReport}
    /\ vpnFd \in BOOLEAN
    /\ blockFd \in BOOLEAN
    /\ joining \in BOOLEAN
    /\ attempts \in Nat
    /\ wanted \in BOOLEAN
    /\ guarded \in BOOLEAN
    /\ requests \in Nat
    /\ reports \in Nat

(* A change is applied to the connection it is about: a report of a daemon *)
(* that was stopped never reaches the state of the connection that         *)
(* replaced it, and remediation instructions never survive into it.        *)
NoStaleReport ==
    /\ mainq # <<>> =>
          Head(mainq).id = IF Head(mainq).op = "start"
                           THEN mConnectionID + 1 ELSE mConnectionID
    /\ mRemediationInstructions \subseteq {mConnectionID}

(* When the retry countdown runs there is an error to retry after and a    *)
(* profile to connect again: connect(null, false) dereferences mProfile.   *)
RetryHasProfile ==
    mRetryTimeout > 0 => mProfile # NoProfile /\ mError # NoError

(* A countdown that is not over always has a RETRY_MSG that moves it on,   *)
(* although resetRetryTimer leaves old messages in the handler.            *)
CountdownAlive ==
    mRetryTimeout > 0 /\ mRetryIn > 0 => retryMsgs > 0

(* Nothing is in flight: the handler thread waits, every posted change was *)
(* applied.                                                                *)
Quiet ==
    /\ handler \in {"none", "waiting"}
    /\ ~mProfileUpdated
    /\ mainq = <<>>
    /\ report = NoReport

(* Once everything was delivered, the state the listeners see is the state *)
(* of the daemon, whatever charon reported while it was being stopped:     *)
(* DISABLED exactly if no profile is active, and then no daemon runs and   *)
(* no TUN device of charon is open; otherwise the active profile is shown  *)
(* and the service holds its foreground notification.                      *)
StateMatchesDaemon ==
    Quiet =>
      /\ mCurrentProfile = NoProfile => mState = "DISABLED" /\ charon = "off" /\ ~vpnFd
      /\ mCurrentProfile # NoProfile =>
            /\ mState \in {"CONNECTING", "CONNECTED"}
            /\ mProfile = mCurrentProfile
            /\ mShowNotification

(* No packet leaves unprotected while a profile replaces another: once the *)
(* blocking device was opened for the profile that follows, it or charon's *)
(* is open, while the old daemon is stopped and closes its own, the new    *)
(* one is started, fails to start or waits for its device, until nothing   *)
(* follows any more.  The exception is an old daemon that opens a device   *)
(* of its own, and so closes the blocking one, before it is stopped.       *)
BlockedUntilReplaced == guarded => blockFd \/ vpnFd

(* The two services implement what VpnConnection promises: connections are *)
(* made and shown one at a time, in order, and DISABLED is shown only for  *)
(* a connection that is over.                                              *)
Connection == INSTANCE VpnConnection
                 WITH number <- attempts, running <- mCurrentProfile # NoProfile,
                      shown <- mConnectionID, phase <- mState
ImplementsConnection == Connection!Spec

(* A disconnect request is eventually served, unless a later connect       *)
(* request overtakes it.                                                   *)
DisconnectServed ==
    (\E i \in DOMAIN intents : intents[i].op = "disconnect")
        ~> \/ mState = "DISABLED"
           \/ \E i \in DOMAIN intents : intents[i].op = "connect"
           \/ mNextProfile # NoProfile

(* onDestroy() never hangs in join().                                      *)
DestroyReturns == joining ~> ~joining

(* A countdown never stalls: it is cancelled or the retry is made.         *)
RetryFires == (mRetryTimeout > 0) ~> (mRetryTimeout = 0 \/ mRetryIn <= 0)

(***************************************************************************)
(* The inductive invariant behind TypeOK, NoStaleReport, RetryHasProfile   *)
(* and CountdownAlive.                                                     *)
(***************************************************************************)

(* The number of the connection before the i-th change of q is applied, if *)
(* it is conn now.                                                         *)
IdBefore(q, conn, i) == IF i = 1 THEN conn ELSE q[i - 1].id

(* Numbers grow by one at each startConnection() in the queue and nowhere  *)
(* else, up to the number of connections started by the handler thread; a  *)
(* failure is about a connection that was started.                         *)
QueueInv ==
    /\ \A i \in 1..Len(mainq) :
          /\ mainq[i].id = IdBefore(mainq, mConnectionID, i)
                             + (IF mainq[i].op = "start" THEN 1 ELSE 0)
          /\ mainq[i].op = "error" /\ mainq[i].arg # NoError => mainq[i].id > 0
    /\ IdBefore(mainq, mConnectionID, Len(mainq) + 1) = attempts
    /\ mRemediationInstructions \subseteq {mConnectionID}

(* Where the handler thread is decides whether a profile is active and     *)
(* whether the daemon may run; the daemon works on the latest connection.  *)
HandlerInv ==
    /\ handler \in {"none", "unbound", "stopped", "finished"} => mCurrentProfile = NoProfile
    /\ handler \in {"disconnecting", "deinitializing", "starting", "failing"}
          => mCurrentProfile # NoProfile
    /\ handler \in {"none", "unbound", "stopped", "finished", "starting", "failing"}
          => charon = "off"
    /\ charon # "off" => charonConn = attempts /\ mCurrentProfile # NoProfile
    /\ mCurrentProfile # NoProfile => attempts > 0
    /\ report # NoReport =>
          /\ charon = "initiated"
          /\ report.id = attempts
          /\ report.op # "start"

RetryInv ==
    /\ RetryHasProfile
    /\ CountdownAlive
    /\ mConnectionID > 0 => mProfile # NoProfile

IInv == TypeOK /\ QueueInv /\ HandlerInv /\ RetryInv

(* Why BlockedUntilReplaced holds: until the old daemon is gone its device *)
(* does not count, and the blocking device stays because a profile         *)
(* follows.                                                                *)
GuardInv ==
    /\ BlockedUntilReplaced
    /\ guarded /\ StoppingDaemon => blockFd /\ mNextProfile # NoProfile

(* Why the connection is shown as VpnConnection has it.  A change to       *)
(* DISABLED that is posted or was applied is about a connection that is    *)
(* over, and only changes of a later connection follow it in the queue.    *)
ToDisabled(m) == m.op = "state" /\ m.arg = "DISABLED"
ToActive(m) == m.op = "state" /\ m.arg # "DISABLED"
Over(id) == id < attempts \/ mCurrentProfile = NoProfile

ShownInv ==
    /\ mConnectionID <= attempts
    /\ \A i \in 1..Len(mainq) :
          /\ mainq[i].id <= attempts
          /\ ToDisabled(mainq[i]) => Over(mainq[i].id)
          /\ ToActive(mainq[i]) /\ mState = "DISABLED" => mConnectionID < mainq[i].id
          /\ \A j \in 1..Len(mainq) :
                j < i /\ ToDisabled(mainq[j]) /\ ToActive(mainq[i])
                    => mainq[j].id < mainq[i].id
    /\ mState = "DISABLED" => Over(mConnectionID)
    /\ ~ToDisabled(report)

(* Why StateMatchesDaemon holds: the changes in the queue lead, in the     *)
(* end, to what the place of the handler thread asks for.  A field is      *)
(* written by some of the changes; the last of them decides.               *)
Writers(field) ==
    IF field = "state" THEN {"start", "state"}
    ELSE IF field = "profile" THEN {"start"}
    ELSE {"show", "hide"}

Written(field, m) ==
    IF field = "show" THEN m.op
    ELSE IF field = "state" /\ m.op = "start" THEN "CONNECTING"
    ELSE m.arg

(* Once the changes of q are applied, a field that is now will be in S.    *)
Leads(q, field, now, S) ==
    /\ \/ now \in S
       \/ \E j \in 1..Len(q) : q[j].op \in Writers(field)
    /\ \A i \in 1..Len(q) : q[i].op \in Writers(field) =>
          \/ Written(field, q[i]) \in S
          \/ \E j \in 1..Len(q) : i < j /\ q[j].op \in Writers(field)

Notification == IF mShowNotification THEN "show" ELSE "hide"
Stopped == handler \in {"none", "unbound", "waiting", "finished"} /\ mCurrentProfile = NoProfile
Started == handler \in {"waiting", "starting", "failing"} /\ mCurrentProfile # NoProfile

DaemonInv ==
    /\ Stopped => Leads(mainq, "state", mState, {"DISABLED"})
    /\ Started =>
          /\ Leads(mainq, "state", mState, {"CONNECTING", "CONNECTED"})
          /\ Leads(mainq, "profile", mProfile, {mCurrentProfile})
          /\ Leads(mainq, "show", Notification, {"show"})
    /\ vpnFd => charon = "initiated"
    /\ report.op = "state" => report.arg \in {"CONNECTING", "CONNECTED"}
    /\ report.op \notin {"show", "hide"}

-----------------------------------------------------------------------------
(* Statements of the code's comments that the code does not keep.          *)

(* Stated by the comments of disconnect() and onRevoke(): after the user   *)
(* disconnected, no automatic retry connects again.                        *)
NoRetryUnlessWanted ==
    [][Quiet /\ intents = <<>> /\ MainTick /\ intents' # intents => wanted]_vars
=============================================================================

------------------------ MODULE CharonVpnServiceProofs ------------------------
(* Proofs about CharonVpnService, for all profiles, bounds and intervals.  *)
EXTENDS CharonVpnService, TLAPS

-----------------------------------------------------------------------------
(* Operators.                                                              *)

(* The backoff never returns anything but a number of milliseconds between *)
(* 0 and the cap, whatever the error and the number of retries.            *)
LEMMA TimeoutBounded ==
    ASSUME NEW error, NEW retry
    PROVE  getTimeout(error, retry) \in 0..MAX_RETRY_INTERVAL
  BY IntervalAssumption DEF getTimeout

(* What the handler and charon threads post is a well-formed change.       *)
LEMMA ChangeTypes ==
    ASSUME NEW id \in Nat
    PROVE  /\ \A p \in Profile : startConnection(p, id) \in Change
           /\ \A s \in State : setState(s, id) \in Change
           /\ \A e \in ErrorState : setError(e, id) \in Change
           /\ \A s \in ImcState : setImcState(s, id) \in Change
           /\ addRemediationInstruction(id) \in Change
           /\ \A op \in {"resetTimer", "show", "hide"} : Msg(op, "none", id) \in Change
  BY DEF startConnection, setState, setError, setImcState,
         addRemediationInstruction, Msg, Change

(* updateStatus() turns a status of charon into a change that starts no    *)
(* connection and is about charon's connection, or into nothing.           *)
LEMMA UpdateStatusType ==
    ASSUME NEW status \in Statuses \ {"IMC"}, charonConn \in Nat
    PROVE  \/ updateStatus(status) = NoReport
           \/ /\ updateStatus(status) \in Change
              /\ updateStatus(status).op # "start"
              /\ updateStatus(status).id = charonConn
<1>1. status \in {"CHILD_SA_UP", "CHILD_SA_DOWN", "INSTRUCTION"} \/ status \in ErrorState
  BY CharonAssumption DEF CharonStatus, ErrorState
<1>2. \A s \in {"CONNECTED", "CONNECTING"} : setState(s, charonConn) \in Change
  BY ChangeTypes DEF State
<1>3. status \in ErrorState => setError(status, charonConn) \in Change
  BY ChangeTypes
<1>4. addRemediationInstruction(charonConn) \in Change
  BY ChangeTypes
<1> QED BY <1>1, <1>2, <1>3, <1>4
        DEF updateStatus, setState, setError, addRemediationInstruction, Msg

-----------------------------------------------------------------------------
(* The main thread's queue.                                                *)

LEMMA RunChangeType ==
    ASSUME StateServiceTypeOK, RunChange
    PROVE  StateServiceTypeOK'
<1> DEFINE m == Head(mainq)
<1>1. m \in Change /\ mainq' \in Seq(Change) /\ intents' = intents
  BY DEF StateServiceTypeOK, RunChange
<1>2. CASE m.op = "start" /\ ApplyStart(m)
  <2>1. m.arg \in Profile
    BY <1>1, <1>2 DEF Change
  <2> QED BY <1>1, <1>2, <2>1 DEF ApplyStart, StateServiceTypeOK, resetRetryTimer,
             State, ErrorState, ImcState
<1>3. CASE m.op = "state" /\ ApplyState(m)
  <2>1. m.arg \in State
    BY <1>1, <1>3 DEF Change
  <2> QED BY <1>1, <1>3, <2>1 DEF ApplyState, StateServiceTypeOK
<1>4. CASE m.op = "error" /\ ApplyError(m)
  <2>1. m.arg \in ErrorState
    BY <1>1, <1>4 DEF Change
  <2>2. mRetryTimeout' \in Nat /\ mRetryIn' \in Int /\ mRetry' \in Nat /\ retryMsgs' \in Nat
    BY <1>4, TimeoutBounded, IntervalAssumption
       DEF ApplyError, StateServiceTypeOK, setRetryTimer, resetRetryTimer, retryVars
  <2> QED BY <1>1, <1>4, <2>1, <2>2 DEF ApplyError, StateServiceTypeOK
<1>5. CASE m.op = "imc" /\ ApplyImcState(m)
  <2>1. m.arg \in ImcState
    BY <1>1, <1>5 DEF Change
  <2> QED BY <1>1, <1>5, <2>1 DEF ApplyImcState, StateServiceTypeOK, retryVars
<1>6. CASE m.op = "instruction" /\ ApplyInstruction(m)
  <2>1. m.id \in Nat
    BY <1>1 DEF Change
  <2> QED BY <1>1, <1>6, <2>1 DEF ApplyInstruction, StateServiceTypeOK, retryVars
<1>7. CASE m.op = "resetTimer" /\ ApplyResetTimer
  BY <1>1, <1>7 DEF ApplyResetTimer, StateServiceTypeOK, stateVars, resetRetryTimer
<1>8. CASE m.op \in {"show", "hide"} /\ UNCHANGED stateVars /\ UNCHANGED retryVars
  BY <1>1, <1>8 DEF StateServiceTypeOK, stateVars, retryVars
<1> QED BY <1>2, <1>3, <1>4, <1>5, <1>6, <1>7, <1>8 DEF RunChange

-----------------------------------------------------------------------------
(* Type correctness.  The retry countdown connects mProfile again, so that *)
(* the step of the countdown needs RetryHasProfile.                        *)

LEMMA TypeInit == Init => TypeOK
<1> SUFFICES ASSUME Init PROVE TypeOK
  OBVIOUS
<1>1. StateServiceTypeOK
  BY DEF Init, StateServiceInit, StateServiceTypeOK, State, ErrorState, ImcState
<1>2. /\ mProfileUpdated \in BOOLEAN /\ mTerminate \in BOOLEAN
      /\ mIsDisconnecting \in BOOLEAN /\ mShowNotification \in BOOLEAN
      /\ vpnFd \in BOOLEAN /\ blockFd \in BOOLEAN
      /\ joining \in BOOLEAN /\ wanted \in BOOLEAN /\ guarded \in BOOLEAN
  BY Zenon DEF Init
<1> QED BY <1>1, <1>2 DEF Init, TypeOK, Handler

LEMMA MainTypeStep == ASSUME TypeOK, RetryInv, Main PROVE TypeOK'
<1> USE DEF TypeOK, threadVars, charonVars, historyVars, Handler
<1>1. CASE onStartCommand
  <2>1. Head(intents) \in Intent /\ intents' \in Seq(Intent)
    BY <1>1 DEF onStartCommand, StateServiceTypeOK
  <2>2. Head(intents).profile \in Profile \cup {NoProfile}
    BY <2>1 DEF Intent
  <2>3. StateServiceTypeOK'
    BY <1>1, <2>1 DEF onStartCommand, StateServiceTypeOK, stateVars, retryVars
  <2> QED BY <1>1, <2>2, <2>3 DEF onStartCommand, setNextProfile
<1>2. CASE onServiceConnected
  BY <1>2 DEF onServiceConnected, serviceVars, StateServiceTypeOK
<1>3. CASE MainRun
  <2>1. mShowNotification' \in BOOLEAN
    <3>1. CASE Head(mainq).op \in {"show", "hide"}
      BY <1>3, <3>1, Zenon DEF MainRun
    <3>2. CASE Head(mainq).op \notin {"show", "hide"}
      BY <1>3, <3>2, Zenon DEF MainRun
    <3> QED BY <3>1, <3>2
  <2> QED BY <1>3, <2>1, RunChangeType DEF MainRun
<1>4. CASE MainTick
  <2>1. StateServiceTypeOK'
    <3>1. mRetryIn' \in Int /\ retryMsgs' \in Nat
      BY <1>4, IntervalAssumption DEF MainTick, RetryTick, StateServiceTypeOK
    <3>2. intents' \in Seq(Intent)
      <4>1. CASE intents' = intents
        BY <4>1 DEF StateServiceTypeOK
      <4>2. CASE mRetryTimeout > 0 /\ intents' = Append(intents, ConnectIntent(mProfile))
        <5>1. ConnectIntent(mProfile) \in Intent
          BY <4>2 DEF RetryInv, RetryHasProfile, StateServiceTypeOK, ConnectIntent, Intent
        <5> QED BY <4>2, <5>1 DEF StateServiceTypeOK
      <4> QED BY <1>4, <4>1, <4>2 DEF MainTick, RetryTick
    <3> QED BY <1>4, <3>1, <3>2 DEF MainTick, RetryTick, StateServiceTypeOK, stateVars
  <2> QED BY <1>4, <2>1 DEF MainTick
<1>5. CASE Destroyed
  BY <1>5 DEF Destroyed, serviceVars, StateServiceTypeOK
<1> QED BY <1>1, <1>2, <1>3, <1>4, <1>5 DEF Main

LEMMA EnvironmentTypeStep == ASSUME TypeOK, Environment PROVE TypeOK'
<1> USE DEF TypeOK, threadVars, charonVars, historyVars, Handler, Request
<1>0. \A p \in Profile : ConnectIntent(p) \in Intent
  BY DEF ConnectIntent, Intent
<1>1. CASE \E p \in Profile : UserConnect(p)
  <2>1. StateServiceTypeOK'
    BY <1>0, <1>1 DEF UserConnect, connect, StateServiceTypeOK, stateVars
  <2> QED BY <1>1, <2>1 DEF UserConnect
<1>2. CASE \E p \in Profile : AlwaysOn(p)
  <2>1. StateServiceTypeOK'
    BY <1>0, <1>2 DEF AlwaysOn, StateServiceTypeOK, stateVars, retryVars
  <2> QED BY <1>2, <2>1 DEF AlwaysOn
<1>3. CASE UserDisconnect
  <2>1. setError(NoError, attempts) \in Change /\ DisconnectIntent \in Intent
    BY ChangeTypes DEF ErrorState, DisconnectIntent, Intent
  <2>2. StateServiceTypeOK'
    BY <1>3, <2>1 DEF UserDisconnect, disconnect, Post, StateServiceTypeOK, stateVars,
       resetRetryTimer
  <2>3. wanted' \in BOOLEAN
    BY <1>3, Zenon DEF UserDisconnect
  <2> QED BY <1>3, <2>2, <2>3 DEF UserDisconnect
<1>4. CASE UserReconnect
  <2>1. Msg("resetTimer", "none", attempts) \in Change
    BY ChangeTypes
  <2>2. mProfile # NoProfile => ConnectIntent(mProfile) \in Intent
    BY <1>0 DEF StateServiceTypeOK
  <2>3. StateServiceTypeOK'
    <3>0. reconnect(attempts)
      BY <1>4 DEF UserReconnect
    <3>1. CASE Post(Msg("resetTimer", "none", attempts)) /\ UNCHANGED <<stateVars, retryVars, intents>>
      BY <2>1, <3>1 DEF Post, StateServiceTypeOK, stateVars, retryVars
    <3>2. CASE mProfile # NoProfile /\ connect(mProfile)
      BY <2>2, <3>2 DEF connect, StateServiceTypeOK, stateVars
    <3> QED BY <3>0, <3>1, <3>2, Zenon DEF reconnect, CanReconnect
  <2>4. wanted' \in BOOLEAN /\ requests' \in Nat
    BY <1>4 DEF UserReconnect
  <2> QED BY <1>4, <2>3, <2>4 DEF UserReconnect
<1>5. CASE onRevoke
  <2>1. wanted' \in BOOLEAN
    BY <1>5 DEF onRevoke
  <2> QED BY <1>5, <2>1 DEF onRevoke, setNextProfile, serviceVars, StateServiceTypeOK
<1>6. CASE onDestroy
  BY <1>6 DEF onDestroy, setNextProfile, serviceVars, StateServiceTypeOK
<1> QED BY <1>1, <1>2, <1>3, <1>4, <1>5, <1>6 DEF Environment

LEMMA HandlerTypeStep == ASSUME TypeOK, HandlerThread PROVE TypeOK'
<1> USE DEF TypeOK, threadVars, charonVars, historyVars, Handler, Post
<1>0. /\ \A s \in State : setState(s, attempts) \in Change
      /\ \A e \in ErrorState : setError(e, attempts) \in Change
      /\ Msg("hide", "none", attempts) \in Change
      /\ Msg("show", "none", attempts + 1) \in Change
      /\ \A p \in Profile : startConnection(p, attempts + 1) \in Change
  BY ChangeTypes, attempts + 1 \in Nat
<1>1. CASE Wake
  <2>1. mainq' \in Seq(Change)
    <3>1. CASE MustStop
      <4>1. setState("DISCONNECTING", attempts) \in Change
        BY <1>0 DEF State
      <4>2. mainq' = Append(mainq, setState("DISCONNECTING", attempts))
        BY <1>1, <3>1 DEF Wake
      <4> QED BY <4>1, <4>2 DEF StateServiceTypeOK
    <3>2. CASE ~MustStop
      BY <1>1, <3>2 DEF Wake, StateServiceTypeOK
    <3> QED BY <3>1, <3>2
  <2>2. blockFd' \in BOOLEAN /\ mProfileUpdated' \in BOOLEAN
    BY <1>1, Zenon DEF Wake, establishBlocking
  <2>3. guarded' \in BOOLEAN
    BY <1>1, Zenon DEF Wake
  <2> QED BY <1>1, <2>1, <2>2, <2>3 DEF Wake, StateServiceTypeOK, stateVars, retryVars
<1>2. CASE SetDisconnecting
  BY <1>2 DEF SetDisconnecting, serviceVars, StateServiceTypeOK
<1>3. CASE Deinitialize
  <2>1. mainq' \in Seq(Change)
    <3>1. CASE NothingFollows
      BY <1>0, <1>3, <3>1 DEF Deinitialize, StateServiceTypeOK
    <3>2. CASE ~NothingFollows
      BY <1>3, <3>2 DEF Deinitialize, StateServiceTypeOK
    <3> QED BY <3>1, <3>2
  <2>2. blockFd' \in BOOLEAN /\ vpnFd' \in BOOLEAN
    BY <1>3, Zenon DEF Deinitialize
  <2> QED BY <1>3, <2>1, <2>2 DEF Deinitialize, StateServiceTypeOK, stateVars, retryVars
<1>4. CASE Disable
  <2>1. mainq' \in Seq(Change)
    BY <1>0, <1>4 DEF Disable, StateServiceTypeOK, State
  <2> QED BY <1>4, <2>1 DEF Disable, StateServiceTypeOK, stateVars, retryVars
<1>5. CASE Start
  <2>1. mNextProfile \in Profile
    BY <1>5 DEF Start
  <2>2. <<startConnection(mNextProfile, attempts + 1), Msg("show", "none", attempts + 1)>>
          \in Seq(Change)
    BY <1>0, <2>1
  <2>3. mainq' \in Seq(Change)
    BY <1>5, <2>2 DEF Start, StateServiceTypeOK
  <2>4. mIsDisconnecting' \in BOOLEAN
    BY <1>5, Zenon DEF Start
  <2> QED BY <1>5, <2>1, <2>3, <2>4 DEF Start, StateServiceTypeOK, stateVars, retryVars
<1>6. CASE Initiate
  <2>1. mainq' \in Seq(Change)
    <3>1. CASE mCurrentProfile \in NeedsPassword
      BY <1>0, <1>6, <3>1 DEF Initiate, StateServiceTypeOK, ErrorState, Failure
    <3>2. CASE mCurrentProfile \notin NeedsPassword
      BY <1>6, <3>2 DEF Initiate, StateServiceTypeOK
    <3> QED BY <3>1, <3>2
  <2> QED BY <1>6, <2>1 DEF Initiate, StateServiceTypeOK, stateVars, retryVars
<1>7. CASE InitializeFails
  <2>1. mainq' \in Seq(Change)
    BY <1>0, <1>7 DEF InitializeFails, StateServiceTypeOK, ErrorState, Failure
  <2> QED BY <1>7, <2>1 DEF InitializeFails, StateServiceTypeOK, stateVars, retryVars
<1>8. CASE DisableFailed
  <2>1. mainq' \in Seq(Change)
    BY <1>0, <1>8 DEF DisableFailed, StateServiceTypeOK, State
  <2> QED BY <1>8, <2>1 DEF DisableFailed, StateServiceTypeOK, stateVars, retryVars
<1> QED BY <1>1, <1>2, <1>3, <1>4, <1>5, <1>6, <1>7, <1>8 DEF HandlerThread

LEMMA CharonTypeStep == ASSUME TypeOK, Charon PROVE TypeOK'
<1> USE DEF TypeOK, threadVars, charonVars, historyVars
<1>1. CASE CharonReports
  <2>1. report' \in Change \cup {NoReport}
    BY <1>1, UpdateStatusType, ChangeTypes DEF CharonReports
  <2> QED BY <1>1, <2>1 DEF CharonReports, serviceVars, StateServiceTypeOK
<1>2. CASE CharonPosts
  BY <1>2 DEF CharonPosts, Post, StateServiceTypeOK, stateVars, retryVars
<1>3. CASE establish
  <2>1. StateServiceTypeOK'
    BY <1>3 DEF establish, serviceVars, StateServiceTypeOK
  <2>2. vpnFd' \in BOOLEAN /\ blockFd' \in BOOLEAN /\ guarded' \in BOOLEAN
    BY <1>3, Zenon DEF establish
  <2> QED BY <1>3, <2>1, <2>2 DEF establish, serviceVars
<1> QED BY <1>1, <1>2, <1>3 DEF Charon

LEMMA TypeStep == TypeOK /\ RetryInv /\ [Next]_vars => TypeOK'
<1> SUFFICES ASSUME TypeOK, RetryInv, [Next]_vars PROVE TypeOK'
  OBVIOUS
<1>1. CASE UNCHANGED vars
  BY <1>1 DEF vars, serviceVars, threadVars, charonVars, historyVars, TypeOK, StateServiceTypeOK
<1> QED BY <1>1, MainTypeStep, EnvironmentTypeStep, HandlerTypeStep, CharonTypeStep DEF Next

-----------------------------------------------------------------------------
(* The queue invariant.                                                    *)

queueVars == <<mainq, mConnectionID, mRemediationInstructions, attempts>>

LEMMA QueueSame == ASSUME QueueInv, UNCHANGED queueVars PROVE QueueInv'
  BY DEF QueueInv, IdBefore, queueVars

(* Posting a change about the latest connection.                           *)
LEMMA QueuePost ==
    ASSUME TypeOK, QueueInv, NEW m \in Change, Post(m),
           m.op # "start", m.id = attempts,
           m.op = "error" /\ m.arg # NoError => attempts > 0,
           UNCHANGED <<mConnectionID, mRemediationInstructions, attempts>>
    PROVE  QueueInv'
<1> DEFINE n == Len(mainq)
<1>1. mainq \in Seq(Change) /\ n \in Nat
  BY DEF TypeOK, StateServiceTypeOK
<1>2. /\ Len(mainq') = n + 1
      /\ mainq'[n + 1] = m
      /\ \A i \in 1..n : mainq'[i] = mainq[i]
  BY <1>1 DEF Post
<1>3. \A i \in 1..(n + 1) : IdBefore(mainq', mConnectionID', i) = IdBefore(mainq, mConnectionID, i)
  BY <1>1, <1>2 DEF IdBefore
<1>4. IdBefore(mainq', mConnectionID', n + 2) = attempts
  BY <1>1, <1>2 DEF IdBefore
<1>5. IdBefore(mainq, mConnectionID, n + 1) = attempts
  BY DEF QueueInv
<1>6. ASSUME NEW i \in 1..(n + 1)
      PROVE  /\ mainq'[i].id = IdBefore(mainq', mConnectionID', i)
                                + (IF mainq'[i].op = "start" THEN 1 ELSE 0)
             /\ mainq'[i].op = "error" /\ mainq'[i].arg # NoError => mainq'[i].id > 0
  <2>1. CASE i \in 1..n
    BY <2>1, <1>2, <1>3 DEF QueueInv
  <2>2. CASE i = n + 1
    BY <2>2, <1>1, <1>2, <1>3, <1>5 DEF TypeOK
  <2> QED BY <2>1, <2>2, <1>1
<1> HIDE DEF n
<1> QED BY <1>1, <1>2, <1>4, <1>6 DEF QueueInv

(* Starting a connection posts startConnection() and addNotification().    *)
LEMMA QueueStart ==
    ASSUME TypeOK, QueueInv, Start
    PROVE  QueueInv'
<1> DEFINE n == Len(mainq)
           a == startConnection(mNextProfile, attempts + 1)
           b == Msg("show", "none", attempts + 1)
<1>1. mainq \in Seq(Change) /\ n \in Nat /\ attempts \in Nat
  BY DEF TypeOK, StateServiceTypeOK
<1>2. /\ Len(mainq') = n + 2
      /\ mainq'[n + 1] = a /\ mainq'[n + 2] = b
      /\ \A i \in 1..n : mainq'[i] = mainq[i]
  BY <1>1 DEF Start
<1>3. /\ a.op = "start" /\ a.id = attempts + 1
      /\ b.op = "show" /\ b.id = attempts + 1
  BY DEF startConnection, Msg
<1>4. /\ attempts' = attempts + 1 /\ mConnectionID' = mConnectionID
      /\ mRemediationInstructions' = mRemediationInstructions
  BY DEF Start, stateVars
<1>5. \A i \in 1..(n + 1) : IdBefore(mainq', mConnectionID', i) = IdBefore(mainq, mConnectionID, i)
  BY <1>1, <1>2, <1>4 DEF IdBefore
<1>6. IdBefore(mainq', mConnectionID', n + 2) = attempts + 1 /\ IdBefore(mainq', mConnectionID', n + 3) = attempts + 1
  BY <1>1, <1>2, <1>3 DEF IdBefore
<1>7. IdBefore(mainq, mConnectionID, n + 1) = attempts
  BY DEF QueueInv
<1>8. \A i \in 1..(n + 2) : i \in 1..n \/ i = n + 1 \/ i = n + 2
  BY <1>1
<1> HIDE DEF n, a, b
<1> QED BY <1>1, <1>2, <1>3, <1>4, <1>5, <1>6, <1>7, <1>8 DEF QueueInv, n

(* Running the first change of the queue.                                  *)
LEMMA QueueRun ==
    ASSUME TypeOK, QueueInv, RunChange, UNCHANGED attempts
    PROVE  /\ QueueInv'
           /\ Head(mainq).op # "start" => Head(mainq).id = mConnectionID
<1> DEFINE n == Len(mainq)
           m == Head(mainq)
<1>1. mainq \in Seq(Change) /\ n \in Nat /\ n > 0 /\ mConnectionID \in Nat
  BY DEF TypeOK, StateServiceTypeOK, RunChange
<1>2. /\ Len(mainq') = n - 1
      /\ \A i \in 1..(n - 1) : mainq'[i] = mainq[i + 1]
      /\ m = mainq[1]
  BY <1>1 DEF RunChange
<1>3. /\ m.op = "start" => m.id = mConnectionID + 1
      /\ m.op # "start" => m.id = mConnectionID
  BY <1>1, <1>2 DEF QueueInv, IdBefore
<1>4. mConnectionID' = m.id
  BY <1>3 DEF RunChange, ApplyStart, ApplyState, ApplyError, ApplyImcState,
     ApplyInstruction, ApplyResetTimer, stateVars
<1>5. mRemediationInstructions' \subseteq {mConnectionID'}
  BY <1>3, <1>4 DEF RunChange, ApplyStart, ApplyState, ApplyError, ApplyImcState,
     ApplyInstruction, ApplyResetTimer, stateVars, QueueInv
<1>6. \A i \in 1..n : IdBefore(mainq', mConnectionID', i) = IdBefore(mainq, mConnectionID, i + 1)
  <2> HIDE DEF m
  <2> SUFFICES ASSUME NEW i \in 1..n
               PROVE  IdBefore(mainq', mConnectionID', i) = IdBefore(mainq, mConnectionID, i + 1)
    OBVIOUS
  <2>1. i + 1 # 1 /\ (i + 1) - 1 = i
    BY <1>1
  <2>2. IdBefore(mainq, mConnectionID, i + 1) = mainq[i].id
    BY <2>1 DEF IdBefore
  <2>3. CASE i = 1
    BY <2>2, <2>3, <1>2, <1>4 DEF IdBefore
  <2>4. CASE i # 1
    <3>1. i - 1 \in 1..(n - 1) /\ (i - 1) + 1 = i
      BY <1>1, <2>4
    <3>2. mainq'[i - 1] = mainq[i]
      BY <1>2, <3>1
    <3> QED BY <2>2, <2>4, <3>2 DEF IdBefore
  <2> QED BY <2>3, <2>4
<1>7. ASSUME NEW i \in 1..(n - 1)
      PROVE  /\ mainq'[i].id = IdBefore(mainq', mConnectionID', i)
                                + (IF mainq'[i].op = "start" THEN 1 ELSE 0)
             /\ mainq'[i].op = "error" /\ mainq'[i].arg # NoError => mainq'[i].id > 0
  <2>1. i \in 1..n /\ i + 1 \in 1..n
    BY <1>1
  <2> QED BY <2>1, <1>2, <1>6 DEF QueueInv
<1>8. IdBefore(mainq', mConnectionID', Len(mainq') + 1) = attempts'
  BY <1>1, <1>2, <1>6 DEF QueueInv
<1> HIDE DEF n, m
<1>9. QueueInv'
  BY <1>2, <1>5, <1>7, <1>8 DEF QueueInv
<1> QED BY <1>3, <1>9 DEF m

LEMMA QueueStep == IInv /\ [Next]_vars => QueueInv'
<1> SUFFICES ASSUME IInv, [Next]_vars PROVE QueueInv'
  OBVIOUS
<1> USE DEF IInv
<1>0. attempts \in Nat /\ charonConn \in Nat
  BY DEF TypeOK
<1>1. CASE MainRun
  BY <1>1, QueueRun DEF MainRun, threadVars
<1>2. CASE UserDisconnect
  <2>1. setError(NoError, attempts) \in Change
    BY <1>0, ChangeTypes DEF ErrorState
  <2> QED BY <1>2, <2>1, QueuePost DEF UserDisconnect, disconnect, threadVars,
             stateVars, setError, Msg
<1>3. CASE UserReconnect
  <2>1. Msg("resetTimer", "none", attempts) \in Change
    BY <1>0, ChangeTypes
  <2>2. CASE Post(Msg("resetTimer", "none", attempts)) /\ UNCHANGED <<stateVars, threadVars>>
    BY <2>1, <2>2, QueuePost DEF threadVars, stateVars, Msg
  <2>3. CASE connect(mProfile) /\ UNCHANGED threadVars
    BY <2>3, QueueSame DEF connect, threadVars, stateVars, queueVars
  <2> QED BY <1>3, <2>2, <2>3, Zenon DEF UserReconnect, reconnect
<1>4. CASE Wake
  <2>1. setState("DISCONNECTING", attempts) \in Change
    BY <1>0, ChangeTypes DEF State
  <2>2. UNCHANGED <<mConnectionID, mRemediationInstructions, attempts>>
    BY <1>4 DEF Wake, stateVars
  <2>3. CASE Post(setState("DISCONNECTING", attempts))
    BY <2>1, <2>2, <2>3, QueuePost DEF setState, Msg
  <2>4. CASE UNCHANGED mainq
    BY <2>2, <2>4, QueueSame DEF queueVars
  <2> QED BY <1>4, <2>3, <2>4 DEF Wake
<1>5. CASE Deinitialize
  <2>1. Msg("hide", "none", attempts) \in Change
    BY <1>0, ChangeTypes
  <2>2. UNCHANGED <<mConnectionID, mRemediationInstructions, attempts>>
    BY <1>5 DEF Deinitialize, stateVars
  <2>3. CASE Post(Msg("hide", "none", attempts))
    BY <2>1, <2>2, <2>3, QueuePost DEF Msg
  <2>4. CASE UNCHANGED mainq
    BY <2>2, <2>4, QueueSame DEF queueVars
  <2> QED BY <1>5, <2>3, <2>4, Zenon DEF Deinitialize
<1>6. CASE Disable \/ DisableFailed
  <2>1. setState("DISABLED", attempts) \in Change
    BY <1>0, ChangeTypes DEF State
  <2>2. /\ Post(setState("DISABLED", attempts))
        /\ UNCHANGED <<mConnectionID, mRemediationInstructions, attempts>>
    BY <1>6 DEF Disable, DisableFailed, stateVars
  <2> QED BY <2>1, <2>2, QueuePost DEF setState, Msg
<1>7. CASE Start
  BY <1>7, QueueStart
<1>8. CASE Initiate \/ InitializeFails
  <2>1. \A e \in {"PASSWORD_MISSING", "GENERIC_ERROR"} : setError(e, attempts) \in Change
    BY <1>0, ChangeTypes DEF ErrorState, Failure
  <2>2. /\ attempts > 0
        /\ UNCHANGED <<mConnectionID, mRemediationInstructions, attempts>>
    BY <1>8 DEF Initiate, InitializeFails, HandlerInv, stateVars
  <2>3. CASE \E e \in {"PASSWORD_MISSING", "GENERIC_ERROR"} : Post(setError(e, attempts))
    BY <2>1, <2>2, <2>3, QueuePost DEF setError, Msg
  <2>4. CASE UNCHANGED mainq
    BY <2>2, <2>4, QueueSame DEF queueVars
  <2> QED BY <1>8, <2>3, <2>4 DEF Initiate, InitializeFails
<1>9. CASE CharonPosts
  <2>1. /\ report \in Change /\ report.op # "start"
        /\ report.id = attempts /\ attempts > 0
    BY <1>9 DEF CharonPosts, TypeOK, HandlerInv
  <2> QED BY <1>9, <2>1, QueuePost DEF CharonPosts, stateVars, threadVars
<1>10. CASE \/ onStartCommand \/ onServiceConnected \/ MainTick \/ Destroyed
            \/ (\E p \in Profile : UserConnect(p) \/ AlwaysOn(p))
            \/ onRevoke \/ onDestroy
  <2>1. UNCHANGED queueVars
    BY <1>10 DEF onStartCommand, onServiceConnected, MainTick, RetryTick, Destroyed,
       UserConnect, connect, AlwaysOn, onRevoke, onDestroy, queueVars, stateVars,
       serviceVars, threadVars
  <2> QED BY <2>1, QueueSame
<1>11. CASE SetDisconnecting \/ CharonReports \/ establish \/ UNCHANGED vars
  <2>1. UNCHANGED queueVars
    BY <1>11 DEF SetDisconnecting, CharonReports, establish, vars, queueVars, stateVars,
       serviceVars, threadVars
  <2> QED BY <2>1, QueueSame
<1> QED BY <1>1, <1>2, <1>3, <1>4, <1>5, <1>6, <1>7, <1>8, <1>9, <1>10, <1>11
        DEF Next, Main, Environment, HandlerThread, Charon

-----------------------------------------------------------------------------
(* The handler invariant.                                                  *)

handlerVars == <<handler, mCurrentProfile, charon, charonConn, report, attempts>>

LEMMA HandlerSame == ASSUME HandlerInv, UNCHANGED handlerVars PROVE HandlerInv'
  BY DEF HandlerInv, handlerVars

LEMMA HandlerStep == IInv /\ [Next]_vars => HandlerInv'
<1> SUFFICES ASSUME IInv, [Next]_vars PROVE HandlerInv'
  OBVIOUS
<1> USE DEF IInv
<1>0. attempts \in Nat /\ charonConn \in Nat
  BY DEF TypeOK
<1>1. CASE onStartCommand \/ onServiceConnected \/ onDestroy \/ Destroyed
  <2>1. UNCHANGED <<mCurrentProfile, charon, charonConn, report, attempts>>
    BY <1>1 DEF onStartCommand, onServiceConnected, onDestroy, Destroyed, charonVars
  <2>2. \/ handler' = handler
        \/ handler = "none" /\ handler' = "unbound"
        \/ handler = "unbound" /\ handler' \in {"waiting", "finished"}
        \/ handler = "finished" /\ handler' = "none"
    BY <1>1 DEF onStartCommand, onServiceConnected, onDestroy, Destroyed
  <2> QED BY <2>1, <2>2 DEF HandlerInv
<1>2. CASE \/ MainRun \/ MainTick \/ UserDisconnect \/ UserReconnect \/ onRevoke
           \/ (\E p \in Profile : UserConnect(p) \/ AlwaysOn(p))
           \/ establish \/ UNCHANGED vars
  <2>1. UNCHANGED handlerVars
    BY <1>2 DEF MainRun, MainTick, UserDisconnect, UserReconnect, onRevoke, UserConnect,
       AlwaysOn, establish, vars, threadVars, charonVars, handlerVars
  <2> QED BY <2>1, HandlerSame
<1>3. CASE Wake \/ SetDisconnecting
  <2>1. UNCHANGED <<mCurrentProfile, charon, charonConn, report, attempts>>
    BY <1>3 DEF Wake, SetDisconnecting, charonVars
  <2>2. \/ handler' = "disconnecting" /\ mCurrentProfile # NoProfile
        \/ handler = "waiting" /\ handler' = "stopped" /\ mCurrentProfile = NoProfile
        \/ handler = "disconnecting" /\ handler' = "deinitializing"
    BY <1>3 DEF Wake, SetDisconnecting, MustStop
  <2> QED BY <2>1, <2>2 DEF HandlerInv
<1>4. CASE Deinitialize
  BY <1>4 DEF Deinitialize, HandlerInv
<1>5. CASE Disable
  BY <1>5 DEF Disable, HandlerInv, charonVars
<1>6. CASE Start
  BY <1>0, <1>6 DEF Start, HandlerInv, charonVars
<1>7. CASE Initiate
  BY <1>7 DEF Initiate, HandlerInv
<1>8. CASE InitializeFails \/ DisableFailed
  BY <1>8 DEF InitializeFails, DisableFailed, HandlerInv, charonVars
<1>9. CASE CharonReports
  <2>1. UNCHANGED <<mCurrentProfile, handler, charon, charonConn, attempts>>
    BY <1>9 DEF CharonReports, threadVars
  <2>2. charon = "initiated" /\ charonConn = attempts
    BY <1>9 DEF CharonReports, HandlerInv
  <2>3. report' = NoReport \/ (report'.op # "start" /\ report'.id = charonConn)
    <3>1. CASE \E status \in Statuses \ {"IMC"} : report' = updateStatus(status)
      <4>1. PICK status \in Statuses \ {"IMC"} : report' = updateStatus(status)
        BY <3>1
      <4> QED BY <1>0, <4>1, UpdateStatusType
    <3>2. CASE \E s \in ImcState : report' = setImcState(s, charonConn)
      <4>1. PICK s \in ImcState : report' = setImcState(s, charonConn)
        BY <3>2
      <4>2. report'.op = "imc" /\ report'.id = charonConn
        BY <4>1 DEF setImcState, Msg
      <4> QED BY <4>2
    <3> QED BY <1>9, <3>1, <3>2 DEF CharonReports
  <2> QED BY <2>1, <2>2, <2>3 DEF HandlerInv
<1>10. CASE CharonPosts
  BY <1>10 DEF CharonPosts, HandlerInv, threadVars
<1> QED BY <1>1, <1>2, <1>3, <1>4, <1>5, <1>6, <1>7, <1>8, <1>9, <1>10
        DEF Next, Main, Environment, HandlerThread, Charon

-----------------------------------------------------------------------------
(* The retry invariant.                                                    *)

retryInvVars == <<mRetryTimeout, mRetryIn, retryMsgs, mProfile, mError, mConnectionID>>

LEMMA RetrySame == ASSUME RetryInv, UNCHANGED retryInvVars PROVE RetryInv'
  BY DEF RetryInv, RetryHasProfile, CountdownAlive, retryInvVars

(* Only the changes that start a connection or set an error touch the      *)
(* countdown; a failure is about a connection whose profile is known.      *)
LEMMA RetryRun == ASSUME IInv, RunChange, UNCHANGED attempts PROVE RetryInv'
<1> DEFINE m == Head(mainq)
<1> USE DEF RetryInv, RetryHasProfile, CountdownAlive
<1>0. /\ m \in Change /\ m = mainq[1] /\ 1 \in 1..Len(mainq)
      /\ mConnectionID \in Nat /\ mRetryTimeout \in Nat /\ retryMsgs \in Nat
  BY DEF IInv, TypeOK, StateServiceTypeOK, RunChange
<1>1. CASE m.op = "start" /\ ApplyStart(m)
  <2>1. m.arg \in Profile
    BY <1>0, <1>1 DEF Change
  <2> QED BY <1>1, <2>1, ProfileAssumption DEF ApplyStart, resetRetryTimer
<1>2. CASE m.op = "error" /\ ApplyError(m)
  <2>1. m.id = mConnectionID
    BY <1>2, QueueRun DEF IInv
  <2>2. m.arg # NoError => mProfile # NoProfile
    BY <1>0, <1>2, <2>1 DEF IInv, QueueInv
  <2>3. UNCHANGED <<mProfile, mConnectionID>> /\ mError' = m.arg
    BY <1>2 DEF ApplyError
  <2>4. CASE mError = NoError /\ m.arg # NoError /\ setRetryTimer(m.arg)
    BY <1>0, <2>2, <2>3, <2>4, TimeoutBounded, IntervalAssumption DEF IInv, setRetryTimer
  <2>5. CASE resetRetryTimer
    BY <2>3, <2>5 DEF IInv, resetRetryTimer
  <2>6. CASE (mError = NoError <=> m.arg = NoError) /\ UNCHANGED retryVars
    BY <2>3, <2>6 DEF IInv, retryVars
  <2> QED BY <1>2, <2>4, <2>5, <2>6, Zenon DEF ApplyError
<1>3. CASE m.op = "resetTimer" /\ ApplyResetTimer
  BY <1>3 DEF IInv, ApplyResetTimer, resetRetryTimer, stateVars
<1>4. CASE \/ m.op = "state" /\ ApplyState(m)
           \/ m.op = "imc" /\ ApplyImcState(m)
           \/ m.op = "instruction" /\ ApplyInstruction(m)
           \/ m.op \in {"show", "hide"} /\ UNCHANGED stateVars /\ UNCHANGED retryVars
  <2>1. UNCHANGED retryInvVars
    BY <1>4 DEF ApplyState, ApplyImcState, ApplyInstruction, stateVars, retryVars, retryInvVars
  <2> QED BY <2>1, RetrySame DEF IInv
<1> QED BY <1>1, <1>2, <1>3, <1>4 DEF RunChange

LEMMA RetryStep == IInv /\ [Next]_vars => RetryInv'
<1> SUFFICES ASSUME IInv, [Next]_vars PROVE RetryInv'
  OBVIOUS
<1> USE DEF IInv
<1>1. CASE MainRun
  BY <1>1, RetryRun DEF MainRun, threadVars
<1>2. CASE MainTick
  BY <1>2, IntervalAssumption DEF MainTick, RetryTick, RetryInv, RetryHasProfile, CountdownAlive, stateVars,
     TypeOK, StateServiceTypeOK
<1>3. CASE UserDisconnect
  BY <1>3 DEF UserDisconnect, disconnect, resetRetryTimer, stateVars, RetryInv,
     RetryHasProfile, CountdownAlive
<1>4. CASE UserReconnect
  <2>1. reconnect(attempts)
    BY <1>4 DEF UserReconnect
  <2>2. CASE UNCHANGED stateVars /\ UNCHANGED retryVars
    BY <2>2, RetrySame DEF stateVars, retryVars, retryInvVars
  <2>3. CASE connect(mProfile)
    BY <2>3, RetrySame DEF connect, stateVars, retryInvVars
  <2> QED BY <2>1, <2>2, <2>3, Zenon DEF reconnect
<1>5. CASE \/ onStartCommand \/ onServiceConnected \/ Destroyed \/ onRevoke \/ onDestroy
           \/ (\E p \in Profile : UserConnect(p) \/ AlwaysOn(p))
  <2>1. UNCHANGED retryInvVars
    BY <1>5 DEF onStartCommand, onServiceConnected, Destroyed, onRevoke, onDestroy,
       UserConnect, connect, AlwaysOn, stateVars, retryVars, serviceVars, retryInvVars
  <2> QED BY <2>1, RetrySame
<1>6. CASE HandlerThread \/ Charon \/ UNCHANGED vars
  <2>1. UNCHANGED retryInvVars
    BY <1>6 DEF HandlerThread, Wake, SetDisconnecting, Deinitialize, Disable, Start,
       Initiate, InitializeFails, DisableFailed, Charon, CharonReports, CharonPosts,
       establish, vars, stateVars, retryVars, serviceVars, retryInvVars
  <2> QED BY <2>1, RetrySame
<1> QED BY <1>1, <1>2, <1>3, <1>4, <1>5, <1>6 DEF Next, Main, Environment

-----------------------------------------------------------------------------
(* The theorems.                                                           *)

(* The inductive invariant holds of every behaviour of the service.        *)
THEOREM Invariance == Spec => []IInv
<1>1. Init => IInv
  <2> SUFFICES ASSUME Init PROVE IInv
    OBVIOUS
  <2>1. QueueInv
    BY DEF Init, StateServiceInit, QueueInv, IdBefore
  <2>2. HandlerInv
    BY DEF Init, HandlerInv
  <2>3. RetryInv
    BY DEF Init, StateServiceInit, RetryInv, RetryHasProfile, CountdownAlive
  <2> QED BY <2>1, <2>2, <2>3, TypeInit DEF IInv
<1>2. IInv /\ [Next]_vars => IInv'
  BY TypeStep, QueueStep, HandlerStep, RetryStep DEF IInv
<1> QED BY <1>1, <1>2, PTL DEF Spec

(* Every variable keeps its type: in particular no intent without a        *)
(* profile is ever sent by an automatic retry.                             *)
THEOREM TypeCorrect == Spec => []TypeOK
<1>1. IInv => TypeOK
  BY DEF IInv
<1> QED BY <1>1, Invariance, PTL

(* Whatever the daemon reports while it is being stopped or replaced, a    *)
(* posted change is applied to the connection it is about.                 *)
THEOREM NoStaleReportTheorem == Spec => []NoStaleReport
<1>1. IInv => NoStaleReport
  <2> SUFFICES ASSUME IInv PROVE NoStaleReport
    OBVIOUS
  <2>1. mRemediationInstructions \subseteq {mConnectionID}
    BY DEF IInv, QueueInv
  <2>2. ASSUME mainq # <<>>
        PROVE  Head(mainq).id = IF Head(mainq).op = "start"
                                THEN mConnectionID + 1 ELSE mConnectionID
    <3>1. /\ mainq \in Seq(Change) /\ Head(mainq) = mainq[1]
          /\ 1 \in 1..Len(mainq) /\ mConnectionID \in Nat
      BY <2>2 DEF IInv, TypeOK, StateServiceTypeOK
    <3> QED BY <3>1 DEF IInv, QueueInv, IdBefore
  <2> QED BY <2>1, <2>2 DEF NoStaleReport
<1> QED BY <1>1, Invariance, PTL

(* The automatic retry always has a profile to connect and an error to     *)
(* retry after.                                                            *)
THEOREM RetrySound == Spec => []RetryHasProfile
<1>1. IInv => RetryHasProfile
  BY DEF IInv, RetryInv
<1> QED BY <1>1, Invariance, PTL

(* A countdown that is not over always has a message that moves it on,     *)
(* although messages of cancelled countdowns stay in the handler.          *)
THEOREM CountdownSound == Spec => []CountdownAlive
<1>1. IInv => CountdownAlive
  BY DEF IInv, RetryInv
<1> QED BY <1>1, Invariance, PTL

-----------------------------------------------------------------------------
(* Where a queue leads.                                                    *)

Field == {"state", "profile", "show"}

(* A change posted behind the others decides, if it writes the field.      *)
LEMMA LeadsPost ==
    ASSUME NEW q \in Seq(Change), NEW m \in Change, NEW q2, q2 = Append(q, m),
           NEW field \in Field, NEW now, NEW S,
           IF m.op \in Writers(field) THEN Written(field, m) \in S
           ELSE Leads(q, field, now, S)
    PROVE  Leads(q2, field, now, S)
<1> DEFINE n == Len(q)
           W == Writers(field)
<1>1. /\ n \in Nat
      /\ Len(q2) = n + 1 /\ q2[n + 1] = m
      /\ \A i \in 1..n : q2[i] = q[i]
  OBVIOUS
<1>2. CASE m.op \in W
  <2>1. n + 1 \in 1..Len(q2) /\ q2[n + 1].op \in W /\ Written(field, q2[n + 1]) \in S
    BY <1>1, <1>2
  <2>2. \A i \in 1..Len(q2) : i < n + 1 \/ i = n + 1
    BY <1>1
  <2> HIDE DEF n, W
  <2> QED BY <2>1, <2>2 DEF Leads, W
<1>3. CASE m.op \notin W
  <2>1. /\ now \in S \/ \E j \in 1..n : q[j].op \in W
        /\ \A i \in 1..n : q[i].op \in W =>
              Written(field, q[i]) \in S \/ \E j \in 1..n : i < j /\ q[j].op \in W
    BY <1>3 DEF Leads
  <2>2. /\ 1..n \subseteq 1..Len(q2)
        /\ \A i \in 1..Len(q2) : q2[i].op \in W => i \in 1..n
    BY <1>1, <1>3
  <2> HIDE DEF n, W
  <2>3. now \in S \/ \E j \in 1..Len(q2) : q2[j].op \in W
    BY <1>1, <2>1, <2>2
  <2>4. ASSUME NEW i \in 1..Len(q2), q2[i].op \in W
        PROVE  Written(field, q2[i]) \in S \/ \E j \in 1..Len(q2) : i < j /\ q2[j].op \in W
    BY <1>1, <2>1, <2>2, <2>4
  <2> QED BY <2>3, <2>4 DEF Leads, W
<1> QED BY <1>2, <1>3

(* The first change is applied.                                            *)
LEMMA LeadsRun ==
    ASSUME NEW q \in Seq(Change), q # <<>>,
           NEW field \in Field, NEW now, NEW S, NEW then,
           Leads(q, field, now, S),
           then = IF Head(q).op \in Writers(field) THEN Written(field, Head(q)) ELSE now
    PROVE  Leads(Tail(q), field, then, S)
<1> DEFINE n == Len(q)
           t == Tail(q)
           W == Writers(field)
<1>1. /\ n \in Nat /\ n > 0 /\ Head(q) = q[1]
      /\ Len(t) = n - 1
      /\ \A i \in 1..(n - 1) : t[i] = q[i + 1] /\ i + 1 \in 1..n
  OBVIOUS
<1>2. \A j \in 1..n : j > 1 => j - 1 \in 1..(n - 1) /\ t[j - 1] = q[j]
  BY <1>1
<1>3. /\ now \in S \/ \E j \in 1..n : q[j].op \in W
      /\ \A i \in 1..n : q[i].op \in W =>
            Written(field, q[i]) \in S \/ \E j \in 1..n : i < j /\ q[j].op \in W
  BY DEF Leads
<1>4. then = IF q[1].op \in W THEN Written(field, q[1]) ELSE now
  BY <1>1
<1> HIDE DEF n, t, W
<1>5. then \in S \/ \E j \in 1..(n - 1) : t[j].op \in W
  <2>1. CASE \E j \in 1..n : j > 1 /\ q[j].op \in W
    BY <1>2, <2>1
  <2>2. CASE ~\E j \in 1..n : j > 1 /\ q[j].op \in W
    <3>1. CASE q[1].op \in W
      BY <1>1, <1>3, <1>4, <2>2, <3>1
    <3>2. CASE q[1].op \notin W
      <4>1. \A j \in 1..n : q[j].op \notin W
        BY <1>1, <2>2, <3>2
      <4> QED BY <1>3, <1>4, <3>2, <4>1
    <3> QED BY <3>1, <3>2
  <2> QED BY <2>1, <2>2
<1>6. ASSUME NEW i \in 1..(n - 1), t[i].op \in W
      PROVE  Written(field, t[i]) \in S \/ \E j \in 1..(n - 1) : i < j /\ t[j].op \in W
  <2>1. i + 1 \in 1..n /\ t[i] = q[i + 1]
    BY <1>1
  <2>2. CASE Written(field, q[i + 1]) \in S
    BY <2>1, <2>2
  <2>3. CASE \E j \in 1..n : i + 1 < j /\ q[j].op \in W
    <3>1. PICK j \in 1..n : i + 1 < j /\ q[j].op \in W
      BY <2>3
    <3>2. j - 1 \in 1..(n - 1) /\ i < j - 1 /\ t[j - 1] = q[j]
      BY <1>1, <1>2, <3>1
    <3> QED BY <3>1, <3>2
  <2> QED BY <1>3, <1>6, <2>1, <2>2, <2>3
<1> QED BY <1>1, <1>5, <1>6 DEF Leads, t, W

(* Nothing is left to be applied.                                          *)
LEMMA LeadsHere ==
    ASSUME NEW field, NEW now, NEW S, Leads(<<>>, field, now, S)
    PROVE  now \in S
  BY DEF Leads

-----------------------------------------------------------------------------
(* DaemonInv is invariant.                                                 *)

(* What vpnFd and report have to do with it does not depend on the queue.  *)
DeviceInv ==
    /\ vpnFd => charon = "initiated"
    /\ report.op = "state" => report.arg \in {"CONNECTING", "CONNECTED"}
    /\ report.op \notin {"show", "hide"}

LEMMA DeviceStep == HandlerInv /\ DeviceInv /\ [Next]_vars => DeviceInv'
<1> SUFFICES ASSUME HandlerInv, DeviceInv, [Next]_vars PROVE DeviceInv'
  OBVIOUS
<1> USE DEF DeviceInv
<1>1. CASE UNCHANGED <<vpnFd, charon, report>>
  BY <1>1
<1>2. CASE CharonReports
  BY <1>2 DEF CharonReports, updateStatus, setState, setError, setImcState,
     addRemediationInstruction, NoReport, Msg
<1>3. CASE CharonPosts \/ establish \/ Deinitialize
  BY <1>3 DEF CharonPosts, establish, Deinitialize, NoReport
<1>4. CASE Initiate
  <2>1. charon = "off" /\ ~vpnFd
    BY <1>4 DEF Initiate, HandlerInv
  <2> QED BY <1>4, <2>1 DEF Initiate
<1>5. CASE \/ Main \/ Environment \/ Wake \/ SetDisconnecting \/ Disable \/ Start
           \/ InitializeFails \/ DisableFailed \/ UNCHANGED vars
  BY <1>1, <1>5 DEF Main, onStartCommand, onServiceConnected, MainRun, MainTick, Destroyed,
     Environment, UserConnect, AlwaysOn, UserDisconnect, UserReconnect, onRevoke, onDestroy,
     Wake, SetDisconnecting, Disable, Start, InitializeFails, DisableFailed, charonVars, vars
<1> QED BY <1>2, <1>3, <1>4, <1>5 DEF Next, HandlerThread, Charon

(* A step that leaves the queue and the fields alone.                      *)
LEMMA DaemonSame ==
    ASSUME DaemonInv, DeviceInv', UNCHANGED <<mainq, mState, mProfile>>,
           Stopped' => Stopped,
           Started' => /\ Started
                       /\ UNCHANGED <<mCurrentProfile, mShowNotification>>
    PROVE  DaemonInv'
  BY DEF DaemonInv, DeviceInv, Notification

(* A change is posted: DISABLED by a thread that is stopped then, or one   *)
(* that keeps a connection that is started as it is.                       *)
LEMMA DaemonPost ==
    ASSUME TypeOK, DaemonInv, DeviceInv', NEW m \in Change, Post(m),
           UNCHANGED <<mState, mProfile>>,
           Stopped' => IF m.op \in {"start", "state"} THEN m = setState("DISABLED", m.id)
                       ELSE Stopped,
           Started' => /\ Started
                       /\ UNCHANGED <<mCurrentProfile, mShowNotification>>
                       /\ m.op \notin {"start", "show", "hide"}
                       /\ m.op = "state" => m.arg \in {"CONNECTING", "CONNECTED"}
    PROVE  DaemonInv'
<1>1. mainq \in Seq(Change) /\ mainq' = Append(mainq, m)
  BY DEF TypeOK, StateServiceTypeOK, Post
<1>2. ASSUME Stopped'
      PROVE  Leads(mainq', "state", mState', {"DISABLED"})
  <2>1. IF m.op \in Writers("state") THEN Written("state", m) \in {"DISABLED"}
        ELSE Leads(mainq, "state", mState, {"DISABLED"})
    BY <1>2 DEF DaemonInv, Writers, Written, setState, Msg
  <2> QED BY <1>1, <2>1, LeadsPost DEF Field
<1>3. ASSUME Started'
      PROVE  /\ Leads(mainq', "state", mState', {"CONNECTING", "CONNECTED"})
             /\ Leads(mainq', "profile", mProfile', {mCurrentProfile'})
             /\ Leads(mainq', "show", Notification', {"show"})
  <2>1. /\ Leads(mainq, "state", mState, {"CONNECTING", "CONNECTED"})
        /\ Leads(mainq, "profile", mProfile, {mCurrentProfile})
        /\ Leads(mainq, "show", Notification, {"show"})
        /\ mCurrentProfile' = mCurrentProfile /\ Notification' = Notification
    BY <1>3 DEF DaemonInv, Notification
  <2>2. IF m.op \in Writers("state") THEN Written("state", m) \in {"CONNECTING", "CONNECTED"}
        ELSE Leads(mainq, "state", mState, {"CONNECTING", "CONNECTED"})
    BY <1>3, <2>1 DEF Writers, Written
  <2>3. m.op \notin Writers("profile") /\ m.op \notin Writers("show")
    BY <1>3 DEF Writers
  <2>4. Leads(mainq', "state", mState', {"CONNECTING", "CONNECTED"})
    BY <1>1, <2>2, LeadsPost DEF Field
  <2>5. Leads(mainq', "profile", mProfile', {mCurrentProfile'})
    BY <1>1, <2>1, <2>3, LeadsPost DEF Field
  <2>6. Leads(mainq', "show", Notification', {"show"})
    BY <1>1, <2>1, <2>3, LeadsPost DEF Field
  <2> QED BY <2>4, <2>5, <2>6
<1> QED BY <1>2, <1>3 DEF DaemonInv, DeviceInv

(* A connection is started: its two changes write all three fields.        *)
LEMMA DaemonStart ==
    ASSUME TypeOK, DeviceInv', Start
    PROVE  DaemonInv'
<1> DEFINE a == startConnection(mNextProfile, attempts + 1)
           b == Msg("show", "none", attempts + 1)
           q == Append(mainq, a)
<1>1. /\ mainq \in Seq(Change)
      /\ a \in Change /\ b \in Change
  <2>1. attempts + 1 \in Nat /\ mNextProfile \in Profile /\ mainq \in Seq(Change)
    BY DEF TypeOK, StateServiceTypeOK, Start
  <2> QED BY <2>1, ChangeTypes
<1>2. /\ q \in Seq(Change)
      /\ mainq' = Append(q, b)
  BY <1>1 DEF Start
<1>3. /\ a.op = "start" /\ a.arg = mNextProfile /\ b.op = "show"
      /\ handler' = "starting" /\ mCurrentProfile' = mNextProfile
  BY DEF Start, startConnection, Msg
<1> HIDE DEF a, b
<1>4. /\ Leads(q, "state", mState', {"CONNECTING", "CONNECTED"})
      /\ Leads(q, "profile", mProfile', {mCurrentProfile'})
  <2>1. /\ a.op \in Writers("state") /\ Written("state", a) \in {"CONNECTING", "CONNECTED"}
        /\ a.op \in Writers("profile") /\ Written("profile", a) \in {mCurrentProfile'}
    BY <1>3 DEF Writers, Written
  <2> QED BY <1>1, <2>1, LeadsPost DEF Field
<1> HIDE DEF q
<1>5. b.op \notin Writers("state") /\ b.op \notin Writers("profile")
  BY <1>3 DEF Writers
<1>6. b.op \in Writers("show") /\ Written("show", b) \in {"show"}
  BY <1>3 DEF Writers, Written
<1>7. Leads(mainq', "state", mState', {"CONNECTING", "CONNECTED"})
  BY <1>1, <1>2, <1>4, <1>5, LeadsPost DEF Field
<1>8. Leads(mainq', "profile", mProfile', {mCurrentProfile'})
  BY <1>1, <1>2, <1>4, <1>5, LeadsPost DEF Field
<1>9. Leads(mainq', "show", Notification', {"show"})
  BY <1>1, <1>2, <1>6, LeadsPost DEF Field
<1>10. ~Stopped'
  BY <1>3 DEF Stopped
<1> QED BY <1>7, <1>8, <1>9, <1>10 DEF DaemonInv, DeviceInv

(* The main thread applies a change: the rest of the queue leads there.    *)
LEMMA DaemonRun ==
    ASSUME TypeOK, DaemonInv, DeviceInv', MainRun
    PROVE  DaemonInv'
<1> DEFINE m == Head(mainq)
<1>1. /\ mainq \in Seq(Change) /\ mainq # <<>> /\ mainq' = Tail(mainq)
      /\ UNCHANGED <<handler, mCurrentProfile>>
  BY DEF MainRun, RunChange, threadVars, TypeOK, StateServiceTypeOK
<1>2. /\ mState' = IF m.op \in Writers("state") THEN Written("state", m) ELSE mState
      /\ mProfile' = IF m.op \in Writers("profile") THEN Written("profile", m) ELSE mProfile
  BY DEF MainRun, RunChange, ApplyStart, ApplyState, ApplyError, ApplyImcState,
     ApplyInstruction, ApplyResetTimer, stateVars, Writers, Written
<1>3. Notification' = IF m.op \in Writers("show") THEN Written("show", m) ELSE Notification
  <2>1. CASE m.op \in {"show", "hide"}
    <3>1. mShowNotification' = (m.op = "show")
      BY <2>1 DEF MainRun
    <3> QED BY <2>1, <3>1 DEF Notification, Writers, Written
  <2>2. CASE m.op \notin {"show", "hide"}
    <3>1. UNCHANGED mShowNotification
      BY <2>2 DEF MainRun
    <3> QED BY <2>2, <3>1 DEF Notification, Writers
  <2> QED BY <2>1, <2>2
<1> HIDE DEF m
<1>4. ASSUME NEW S, Leads(mainq, "state", mState, S)
      PROVE  Leads(mainq', "state", mState', S)
  BY <1>1, <1>2, <1>4, LeadsRun DEF Field, m
<1>5. ASSUME NEW S, Leads(mainq, "profile", mProfile, S)
      PROVE  Leads(mainq', "profile", mProfile', S)
  BY <1>1, <1>2, <1>5, LeadsRun DEF Field, m
<1>6. ASSUME NEW S, Leads(mainq, "show", Notification, S)
      PROVE  Leads(mainq', "show", Notification', S)
  BY <1>1, <1>3, <1>6, LeadsRun DEF Field, m
<1>7. (Stopped' <=> Stopped) /\ (Started' <=> Started)
  BY <1>1 DEF Stopped, Started
<1>8. Stopped => Leads(mainq', "state", mState', {"DISABLED"})
  BY <1>4 DEF DaemonInv
<1>9. Started => /\ Leads(mainq', "state", mState', {"CONNECTING", "CONNECTED"})
                 /\ Leads(mainq', "profile", mProfile', {mCurrentProfile})
                 /\ Leads(mainq', "show", Notification', {"show"})
  BY <1>4, <1>5, <1>6 DEF DaemonInv
<1> QED BY <1>1, <1>7, <1>8, <1>9 DEF DaemonInv, DeviceInv

LEMMA DaemonStep == IInv /\ DaemonInv /\ [Next]_vars => DaemonInv'
<1> SUFFICES ASSUME IInv, DaemonInv, [Next]_vars PROVE DaemonInv'
  OBVIOUS
<1> USE DEF IInv
<1>0. /\ DeviceInv /\ DeviceInv'
      /\ attempts \in Nat /\ charonConn \in Nat
  <2>1. DeviceInv
    BY DEF DaemonInv, DeviceInv
  <2>2. HandlerInv /\ attempts \in Nat /\ charonConn \in Nat
    BY DEF TypeOK
  <2> QED BY <2>1, <2>2, DeviceStep
<1>1. CASE MainRun
  BY <1>0, <1>1, DaemonRun
<1>2. CASE Start
  BY <1>0, <1>2, DaemonStart
<1>3. CASE UserDisconnect
  <2>1. setError(NoError, attempts) \in Change /\ setError(NoError, attempts).op = "error"
    BY <1>0, ChangeTypes DEF ErrorState, setError, Msg
  <2>2. /\ Post(setError(NoError, attempts))
        /\ UNCHANGED <<mState, mProfile, mCurrentProfile, mShowNotification, handler>>
    BY <1>3 DEF UserDisconnect, disconnect, threadVars, stateVars
  <2>3. Stopped' => Stopped
    BY <2>2 DEF Stopped
  <2>4. Started' => Started
    BY <2>2 DEF Started
  <2> QED BY <1>0, <2>1, <2>2, <2>3, <2>4, DaemonPost
<1>4. CASE UserReconnect
  <2>0. /\ reconnect(attempts)
        /\ UNCHANGED <<mState, mProfile, mCurrentProfile, mShowNotification, handler>>
    BY <1>4 DEF UserReconnect, reconnect, connect, threadVars, stateVars
  <2>1. (Stopped' => Stopped) /\ (Started' => Started)
    BY <2>0 DEF Stopped, Started
  <2>2. CASE Post(Msg("resetTimer", "none", attempts))
    <3>1. /\ Msg("resetTimer", "none", attempts) \in Change
          /\ Msg("resetTimer", "none", attempts).op = "resetTimer"
      BY <1>0, ChangeTypes DEF Msg
    <3> QED BY <1>0, <2>0, <2>1, <2>2, <3>1, DaemonPost
  <2>3. CASE UNCHANGED mainq
    BY <1>0, <2>0, <2>1, <2>3, DaemonSame
  <2> QED BY <2>0, <2>2, <2>3 DEF reconnect, connect
<1>5. CASE Wake
  <2>0. UNCHANGED <<mState, mProfile>> /\ ~Stopped' /\ ~Started'
    BY <1>5 DEF Wake, stateVars, Stopped, Started
  <2>1. CASE Post(setState("DISCONNECTING", attempts))
    <3>1. setState("DISCONNECTING", attempts) \in Change
      BY <1>0, ChangeTypes DEF State
    <3> QED BY <1>0, <2>0, <2>1, <3>1, DaemonPost
  <2>2. CASE UNCHANGED mainq
    BY <1>0, <2>0, <2>2, DaemonSame
  <2> QED BY <1>5, <2>1, <2>2 DEF Wake
<1>6. CASE Deinitialize
  <2>0. UNCHANGED <<mState, mProfile>> /\ ~Stopped' /\ ~Started'
    BY <1>6 DEF Deinitialize, stateVars, Stopped, Started
  <2>1. CASE Post(Msg("hide", "none", attempts))
    <3>1. Msg("hide", "none", attempts) \in Change
      BY <1>0, ChangeTypes
    <3> QED BY <1>0, <2>0, <2>1, <3>1, DaemonPost
  <2>2. CASE UNCHANGED mainq
    BY <1>0, <2>0, <2>2, DaemonSame
  <2> QED BY <1>6, <2>1, <2>2, Zenon DEF Deinitialize
<1>7. CASE Disable \/ DisableFailed
  <2>0. /\ Post(setState("DISABLED", attempts))
        /\ UNCHANGED <<mState, mProfile>>
        /\ mCurrentProfile' = NoProfile
    BY <1>7 DEF Disable, DisableFailed, HandlerInv, stateVars
  <2>1. /\ setState("DISABLED", attempts) \in Change
        /\ setState("DISABLED", attempts).op = "state"
        /\ setState("DISABLED", attempts).id = attempts
    BY <1>0, ChangeTypes DEF State, setState, Msg
  <2>2. ~Started'
    BY <2>0 DEF Started
  <2> QED BY <1>0, <2>0, <2>1, <2>2, DaemonPost
<1>8. CASE Initiate \/ InitializeFails
  <2>0. /\ UNCHANGED <<mState, mProfile, mCurrentProfile, mShowNotification>>
        /\ handler = "starting" /\ handler' \in {"waiting", "failing"}
        /\ mCurrentProfile # NoProfile
    BY <1>8 DEF Initiate, InitializeFails, stateVars, HandlerInv
  <2>1. ~Stopped' /\ (Started' => Started)
    BY <2>0 DEF Stopped, Started
  <2>2. \A e \in {"PASSWORD_MISSING", "GENERIC_ERROR"} :
           setError(e, attempts) \in Change /\ setError(e, attempts).op = "error"
    BY <1>0, ChangeTypes DEF ErrorState, Failure, setError, Msg
  <2>3. CASE \E e \in {"PASSWORD_MISSING", "GENERIC_ERROR"} : Post(setError(e, attempts))
    <3>1. PICK e \in {"PASSWORD_MISSING", "GENERIC_ERROR"} : Post(setError(e, attempts))
      BY <2>3
    <3> QED BY <1>0, <2>0, <2>1, <2>2, <3>1, DaemonPost
  <2>4. CASE UNCHANGED mainq
    BY <1>0, <2>0, <2>1, <2>4, DaemonSame
  <2> QED BY <1>8, <2>3, <2>4 DEF Initiate, InitializeFails
<1>9. CASE CharonPosts
  <2>0. /\ Post(report)
        /\ UNCHANGED <<mState, mProfile, mCurrentProfile, mShowNotification, handler>>
        /\ report \in Change /\ mCurrentProfile # NoProfile
        /\ report.op \notin {"start", "show", "hide"}
    BY <1>0, <1>9 DEF DeviceInv, CharonPosts, stateVars, threadVars, TypeOK, HandlerInv
  <2>1. ~Stopped' /\ (Started' => Started)
    BY <2>0 DEF Stopped, Started
  <2> QED BY <1>0, <2>0, <2>1, DaemonPost DEF DeviceInv
<1>10. CASE onStartCommand \/ onServiceConnected \/ onDestroy \/ Destroyed
  <2>0. UNCHANGED <<mainq, mState, mProfile, mCurrentProfile>>
    BY <1>10 DEF onStartCommand, onServiceConnected, onDestroy, Destroyed, serviceVars, stateVars
  <2>1. Stopped' => Stopped
    BY <1>10, <2>0 DEF onStartCommand, onServiceConnected, onDestroy, Destroyed, Stopped,
       HandlerInv
  <2>2. Started' => Started /\ UNCHANGED mShowNotification
    BY <1>10, <2>0 DEF onStartCommand, onServiceConnected, onDestroy, Destroyed, Started,
       HandlerInv
  <2> QED BY <1>0, <2>0, <2>1, <2>2, DaemonSame
<1>11. CASE \/ MainTick \/ (\E p \in Profile : UserConnect(p) \/ AlwaysOn(p))
            \/ onRevoke \/ SetDisconnecting \/ CharonReports \/ establish \/ UNCHANGED vars
  <2>0. UNCHANGED <<mainq, mState, mProfile, mCurrentProfile, mShowNotification>>
    BY <1>11 DEF MainTick, RetryTick, UserConnect, connect, AlwaysOn, onRevoke,
       SetDisconnecting, CharonReports, establish, vars, threadVars, serviceVars, stateVars
  <2>1. handler' = handler \/ handler' = "deinitializing"
    BY <1>11 DEF MainTick, UserConnect, AlwaysOn, onRevoke,
       SetDisconnecting, CharonReports, establish, vars, threadVars
  <2>2. (Stopped' => Stopped) /\ (Started' => Started)
    BY <2>0, <2>1 DEF Stopped, Started
  <2> QED BY <1>0, <2>0, <2>2, DaemonSame
<1> QED BY <1>1, <1>2, <1>3, <1>4, <1>5, <1>6, <1>7, <1>8, <1>9, <1>10, <1>11
        DEF Next, Main, Environment, HandlerThread, Charon

-----------------------------------------------------------------------------
(* The theorems.                                                           *)

(* Once nothing is in flight the state that is shown is the daemon's:      *)
(* although charon's threads test mIsDisconnecting before they post,       *)
(* requests replace each other in mNextProfile and starts fail.            *)
THEOREM StateIsTheDaemons == Spec => []StateMatchesDaemon
<1>1. Init => DaemonInv
  BY DEF Init, StateServiceInit, DaemonInv, Leads, Stopped, Started, NoReport
<1>2. IInv /\ DaemonInv /\ [Next]_vars => DaemonInv'
  BY DaemonStep
<1>3. IInv /\ DaemonInv => StateMatchesDaemon
  <2> SUFFICES ASSUME IInv, DaemonInv, Quiet PROVE StateMatchesDaemon
    BY DEF StateMatchesDaemon
  <2>1. handler \in {"none", "waiting"} /\ mainq = <<>> /\ HandlerInv
    BY DEF Quiet, IInv
  <2>2. ASSUME mCurrentProfile = NoProfile
        PROVE  mState = "DISABLED" /\ charon = "off" /\ ~vpnFd
    <3>1. Leads(<<>>, "state", mState, {"DISABLED"})
      BY <2>1, <2>2 DEF DaemonInv, Stopped
    <3>2. mState = "DISABLED"
      BY <3>1, LeadsHere
    <3>3. charon = "off"
      BY <2>1, <2>2 DEF HandlerInv
    <3> QED BY <3>2, <3>3 DEF DaemonInv
  <2>3. ASSUME mCurrentProfile # NoProfile
        PROVE  /\ mState \in {"CONNECTING", "CONNECTED"}
               /\ mProfile = mCurrentProfile
               /\ mShowNotification
    <3>1. Started
      BY <2>1, <2>3 DEF HandlerInv, Started
    <3>2. /\ Leads(<<>>, "state", mState, {"CONNECTING", "CONNECTED"})
          /\ Leads(<<>>, "profile", mProfile, {mCurrentProfile})
          /\ Leads(<<>>, "show", Notification, {"show"})
      BY <2>1, <3>1 DEF DaemonInv
    <3>3. /\ mState \in {"CONNECTING", "CONNECTED"}
          /\ mProfile \in {mCurrentProfile}
          /\ Notification \in {"show"}
      BY <3>2, LeadsHere
    <3> QED BY <3>3 DEF Notification
  <2> QED BY <2>2, <2>3 DEF StateMatchesDaemon
<1>4. Spec => []IInv
  BY Invariance
<1> QED BY <1>1, <1>2, <1>3, <1>4, PTL DEF Spec

(* GuardInv is kept: from the moment a blocking device is opened until the *)
(* old daemon is gone, the profile that follows cannot be taken back, for  *)
(* the handler thread holds the monitor; only establish() could close the  *)
(* device, and then the history says so.                                   *)
LEMMA GuardStep == IInv /\ GuardInv /\ [Next]_vars => GuardInv'
<1> SUFFICES ASSUME IInv, GuardInv, [Next]_vars PROVE GuardInv'
  OBVIOUS
<1> USE DEF GuardInv, BlockedUntilReplaced, StoppingDaemon
<1>1. CASE Wake
  <2>1. guarded' => mNextProfile # NoProfile /\ blockFd'
    BY <1>1 DEF Wake
  <2> QED BY <1>1, <2>1 DEF Wake
<1>2. CASE SetDisconnecting
  BY <1>2 DEF SetDisconnecting, charonVars, historyVars
<1>3. CASE Deinitialize
  <2>1. guarded => blockFd' /\ handler' = "stopped"
    BY <1>3 DEF Deinitialize, NothingFollows
  <2> QED BY <1>3, <2>1 DEF Deinitialize, historyVars
<1>4. CASE establish
  <2>1. guarded' => ~StoppingDaemon
    BY <1>4 DEF establish
  <2>2. vpnFd' /\ handler' = handler
    BY <1>4 DEF establish, threadVars
  <2> QED BY <2>1, <2>2
<1>5. CASE onStartCommand \/ onRevoke \/ onDestroy
  <2>1. handler \in {"none", "unbound", "waiting"} /\ UNCHANGED <<blockFd, vpnFd, guarded>>
    BY <1>5 DEF onStartCommand, onRevoke, onDestroy, MonitorFree, charonVars, historyVars
  <2>2. handler' \in {"none", "unbound", "waiting", "finished"}
    BY <1>5, <2>1 DEF onStartCommand, onRevoke, onDestroy
  <2> QED BY <2>1, <2>2
<1>6. CASE Disable \/ Start \/ Initiate \/ InitializeFails \/ DisableFailed
           \/ onServiceConnected \/ Destroyed
  <2>1. UNCHANGED <<blockFd, vpnFd, guarded>>
    BY <1>6 DEF Disable, Start, Initiate, InitializeFails, DisableFailed,
       onServiceConnected, Destroyed, charonVars, historyVars
  <2>2. handler' \in {"none", "waiting", "finished", "starting", "failing"}
    BY <1>6 DEF Disable, Start, Initiate, InitializeFails, DisableFailed,
       onServiceConnected, Destroyed
  <2> QED BY <2>1, <2>2
<1>7. CASE \/ MainRun \/ MainTick \/ (\E p \in Profile : UserConnect(p) \/ AlwaysOn(p))
           \/ UserDisconnect \/ UserReconnect \/ CharonReports \/ CharonPosts
           \/ UNCHANGED vars
  <2>1. UNCHANGED <<blockFd, vpnFd, guarded, handler, mNextProfile>>
    BY <1>7 DEF MainRun, MainTick, UserConnect, AlwaysOn, UserDisconnect, UserReconnect,
       CharonReports, CharonPosts, threadVars, charonVars, historyVars, vars
  <2> QED BY <2>1
<1> QED BY <1>1, <1>2, <1>3, <1>4, <1>5, <1>6, <1>7
        DEF Next, Main, Environment, HandlerThread, Charon

(* No packet leaves unprotected while one profile replaces another, with   *)
(* the one exception that the history variable names.                      *)
THEOREM BlockedTheorem == Spec => []BlockedUntilReplaced
<1>1. Init => GuardInv
  BY DEF Init, GuardInv, BlockedUntilReplaced
<1>2. GuardInv => BlockedUntilReplaced
  BY DEF GuardInv
<1>3. Spec => []IInv
  BY Invariance
<1> QED BY <1>1, <1>2, <1>3, GuardStep, PTL DEF Spec

-----------------------------------------------------------------------------
(* ShownInv is invariant.                                                  *)

shownVars == <<mainq, mConnectionID, mState, attempts>>

(* A step that leaves the queue and what is shown alone may end the        *)
(* connection.                                                             *)
LEMMA ShownSame ==
    ASSUME ShownInv, UNCHANGED shownVars,
           mCurrentProfile' \in {mCurrentProfile, NoProfile},
           ~ToDisabled(report')
    PROVE  ShownInv'
  BY DEF ShownInv, shownVars, Over, ToDisabled, ToActive

(* Posting a change about the latest connection: one to DISABLED when it   *)
(* is over, another one of a state only while it is not.                   *)
LEMMA ShownPost ==
    ASSUME TypeOK, ShownInv, NEW m \in Change, Post(m), m.id = attempts,
           UNCHANGED <<mConnectionID, mState, attempts>>,
           mCurrentProfile' \in {mCurrentProfile, NoProfile},
           ToDisabled(m) => mCurrentProfile' = NoProfile,
           ToActive(m) => mCurrentProfile # NoProfile,
           ~ToDisabled(report')
    PROVE  ShownInv'
<1> DEFINE n == Len(mainq)
<1>1. /\ mainq \in Seq(Change) /\ n \in Nat
      /\ attempts \in Nat /\ mConnectionID \in Nat
  BY DEF TypeOK, StateServiceTypeOK
<1>2. /\ Len(mainq') = n + 1
      /\ mainq'[n + 1] = m
      /\ \A i \in 1..n : mainq'[i] = mainq[i]
  BY <1>1 DEF Post
<1>3. mCurrentProfile = NoProfile => mCurrentProfile' = NoProfile
  OBVIOUS
<1>4. \A i \in 1..n :
         /\ mainq[i].id <= attempts
         /\ ToDisabled(mainq[i]) => mainq[i].id < attempts \/ mCurrentProfile = NoProfile
         /\ ToActive(mainq[i]) /\ mState = "DISABLED" => mConnectionID < mainq[i].id
         /\ \A j \in 1..n : j < i /\ ToDisabled(mainq[j]) /\ ToActive(mainq[i])
                              => mainq[j].id < mainq[i].id
  BY DEF ShownInv, Over
<1>5. /\ mConnectionID <= attempts
      /\ mState = "DISABLED" => mConnectionID < attempts \/ mCurrentProfile = NoProfile
  BY DEF ShownInv, Over
<1> HIDE DEF n
<1>6. ASSUME NEW i \in 1..(n + 1)
      PROVE  /\ mainq'[i].id <= attempts'
             /\ ToDisabled(mainq'[i]) => mainq'[i].id < attempts' \/ mCurrentProfile' = NoProfile
             /\ ToActive(mainq'[i]) /\ mState' = "DISABLED" => mConnectionID' < mainq'[i].id
             /\ \A j \in 1..(n + 1) :
                   j < i /\ ToDisabled(mainq'[j]) /\ ToActive(mainq'[i])
                       => mainq'[j].id < mainq'[i].id
  <2>1. CASE i \in 1..n
    <3>1. mainq'[i] = mainq[i] /\ \A j \in 1..(n + 1) : j < i => j \in 1..n
      BY <1>1, <1>2, <2>1
    <3>2. \A j \in 1..(n + 1) : j < i => mainq'[j] = mainq[j]
      BY <1>2, <3>1
    <3>3. /\ mainq'[i].id <= attempts'
          /\ ToDisabled(mainq'[i]) => mainq'[i].id < attempts' \/ mCurrentProfile' = NoProfile
      BY <1>3, <1>4, <2>1, <3>1
    <3>4. ToActive(mainq'[i]) /\ mState' = "DISABLED" => mConnectionID' < mainq'[i].id
      BY <1>4, <2>1, <3>1
    <3>5. ASSUME NEW j \in 1..(n + 1), j < i, ToDisabled(mainq'[j]), ToActive(mainq'[i])
          PROVE  mainq'[j].id < mainq'[i].id
      <4>1. j \in 1..n /\ mainq'[j] = mainq[j]
        BY <3>1, <3>2, <3>5
      <4> QED BY <1>4, <2>1, <3>1, <3>5, <4>1
    <3> QED BY <3>3, <3>4, <3>5
  <2>2. CASE i = n + 1
    <3>1. mainq'[i] = m /\ m.id = attempts /\ attempts' = attempts
      BY <1>2, <2>2
    <3>2. ToDisabled(m) => mCurrentProfile' = NoProfile
      OBVIOUS
    <3>3. ToActive(m) /\ mState' = "DISABLED" => mConnectionID' < m.id
      BY <1>5
    <3>4. ASSUME NEW j \in 1..(n + 1), j < i, ToDisabled(mainq'[j]), ToActive(mainq'[i])
          PROVE  mainq'[j].id < mainq'[i].id
      <4>1. j \in 1..n
        BY <1>1, <2>2, <3>4
      <4>2. mainq'[j] = mainq[j] /\ (mainq[j].id < attempts \/ mCurrentProfile = NoProfile)
        BY <1>2, <1>4, <3>4, <4>1
      <4>3. mCurrentProfile # NoProfile
        BY <3>1, <3>4
      <4> QED BY <3>1, <4>2, <4>3
    <3>5. mainq'[i].id <= attempts'
      BY <1>1, <3>1
    <3> QED BY <3>1, <3>2, <3>3, <3>4, <3>5
  <2> QED BY <1>1, <2>1, <2>2
<1>7. /\ mConnectionID' <= attempts'
      /\ mState' = "DISABLED" => mConnectionID' < attempts' \/ mCurrentProfile' = NoProfile
  BY <1>3, <1>5
<1> QED BY <1>2, <1>6, <1>7 DEF ShownInv, Over

(* A new connection has a number that nothing in the queue has.            *)
LEMMA ShownStart ==
    ASSUME TypeOK, ShownInv, Start
    PROVE  ShownInv'
<1> DEFINE n == Len(mainq)
           a == startConnection(mNextProfile, attempts + 1)
           b == Msg("show", "none", attempts + 1)
<1>1. /\ mainq \in Seq(Change) /\ n \in Nat
      /\ attempts \in Nat /\ mConnectionID \in Nat
      /\ \A i \in 1..n : mainq[i].id \in Nat
  BY DEF TypeOK, StateServiceTypeOK, Change
<1>2. /\ Len(mainq') = n + 2
      /\ mainq'[n + 1] = a /\ mainq'[n + 2] = b
      /\ \A i \in 1..n : mainq'[i] = mainq[i]
  BY <1>1 DEF Start
<1>3. /\ a.id = attempts + 1 /\ ~ToDisabled(a) /\ ~ToActive(a)
      /\ b.id = attempts + 1 /\ ~ToDisabled(b) /\ ~ToActive(b)
  BY DEF startConnection, Msg, ToDisabled, ToActive
<1>4. /\ attempts' = attempts + 1 /\ mConnectionID' = mConnectionID
      /\ mState' = mState /\ report' = report
  BY DEF Start, stateVars, charonVars
<1>5. \A i \in 1..n :
         /\ mainq[i].id <= attempts
         /\ ToActive(mainq[i]) /\ mState = "DISABLED" => mConnectionID < mainq[i].id
         /\ \A j \in 1..n : j < i /\ ToDisabled(mainq[j]) /\ ToActive(mainq[i])
                              => mainq[j].id < mainq[i].id
  BY DEF ShownInv
<1>6. mConnectionID <= attempts /\ ~ToDisabled(report)
  BY DEF ShownInv
<1> HIDE DEF n, a, b
<1>7. \A i \in 1..(n + 2) : \/ i \in 1..n /\ mainq'[i] = mainq[i]
                            \/ i > n /\ mainq'[i].id = attempts + 1
                                 /\ ~ToDisabled(mainq'[i]) /\ ~ToActive(mainq'[i])
  BY <1>1, <1>2, <1>3
<1>8. ASSUME NEW i \in 1..(n + 2)
      PROVE  /\ mainq'[i].id <= attempts'
             /\ ToDisabled(mainq'[i]) => mainq'[i].id < attempts' \/ mCurrentProfile' = NoProfile
             /\ ToActive(mainq'[i]) /\ mState' = "DISABLED" => mConnectionID' < mainq'[i].id
             /\ \A j \in 1..(n + 2) :
                   j < i /\ ToDisabled(mainq'[j]) /\ ToActive(mainq'[i])
                       => mainq'[j].id < mainq'[i].id
  <2>1. CASE i \in 1..n /\ mainq'[i] = mainq[i]
    <3>1. /\ mainq'[i].id <= attempts' /\ mainq'[i].id < attempts'
          /\ ToActive(mainq'[i]) /\ mState' = "DISABLED" => mConnectionID' < mainq'[i].id
      BY <1>1, <1>4, <1>5, <2>1
    <3>2. ASSUME NEW j \in 1..(n + 2), j < i, ToDisabled(mainq'[j]), ToActive(mainq'[i])
          PROVE  mainq'[j].id < mainq'[i].id
      BY <1>1, <1>2, <1>5, <2>1, <3>2
    <3> QED BY <3>1, <3>2
  <2>2. CASE mainq'[i].id = attempts + 1 /\ ~ToDisabled(mainq'[i]) /\ ~ToActive(mainq'[i])
    BY <1>1, <1>4, <2>2
  <2> QED BY <1>7, <2>1, <2>2
<1>9. mConnectionID' <= attempts' /\ mConnectionID' < attempts'
  BY <1>1, <1>4, <1>6
<1> QED BY <1>2, <1>4, <1>6, <1>8, <1>9 DEF ShownInv, Over

(* Applying the first change of the queue.                                 *)
LEMMA ShownRun ==
    ASSUME TypeOK, QueueInv, ShownInv, RunChange,
           UNCHANGED <<attempts, mCurrentProfile, report>>
    PROVE  ShownInv'
<1> DEFINE n == Len(mainq)
           m == Head(mainq)
<1>1. /\ mainq \in Seq(Change) /\ n \in Nat /\ n > 0
      /\ mConnectionID \in Nat /\ m \in Change /\ m.id \in Nat
  BY DEF TypeOK, StateServiceTypeOK, RunChange, Change
<1>2. /\ Len(mainq') = n - 1
      /\ \A i \in 1..(n - 1) : mainq'[i] = mainq[i + 1] /\ i + 1 \in 1..n
      /\ m = mainq[1] /\ 1 \in 1..n
  BY <1>1 DEF RunChange
<1>3. /\ m.op = "start" => m.id = mConnectionID + 1
      /\ m.op # "start" => m.id = mConnectionID
  BY <1>1, <1>2 DEF QueueInv, IdBefore
<1>4. \/ /\ m.op = "start"
         /\ mConnectionID' = mConnectionID + 1 /\ mState' = "CONNECTING"
      \/ /\ m.op = "state" /\ mState' = m.arg
         /\ mConnectionID' = mConnectionID
      \/ /\ m.op \notin {"start", "state"}
         /\ mConnectionID' = mConnectionID /\ mState' = mState
  BY DEF RunChange, ApplyStart, ApplyState, ApplyError, ApplyImcState,
     ApplyInstruction, ApplyResetTimer, stateVars
<1>5. \A i \in 1..n :
         /\ mainq[i].id <= attempts
         /\ ToDisabled(mainq[i]) => mainq[i].id < attempts \/ mCurrentProfile = NoProfile
         /\ ToActive(mainq[i]) /\ mState = "DISABLED" => mConnectionID < mainq[i].id
         /\ \A j \in 1..n : j < i /\ ToDisabled(mainq[j]) /\ ToActive(mainq[i])
                              => mainq[j].id < mainq[i].id
  BY DEF ShownInv, Over
<1>6. /\ mConnectionID <= attempts /\ ~ToDisabled(report)
      /\ mState = "DISABLED" => mConnectionID < attempts \/ mCurrentProfile = NoProfile
  BY DEF ShownInv, Over
<1> HIDE DEF n, m
<1>7. mConnectionID' <= attempts
  BY <1>2, <1>3, <1>4, <1>5, <1>6
<1>8. mState' = "DISABLED" => mConnectionID' < attempts \/ mCurrentProfile = NoProfile
  BY <1>2, <1>3, <1>4, <1>5, <1>6 DEF ToDisabled
<1>9. ASSUME NEW i \in 1..(n - 1), ToActive(mainq[i + 1]), mState' = "DISABLED"
      PROVE  mConnectionID' < mainq[i + 1].id
  <2>1. CASE m.op = "state"
    <3>1. ToDisabled(m) /\ mConnectionID' = m.id
      BY <1>3, <1>4, <1>9, <2>1 DEF ToDisabled
    <3>2. 1 < i + 1 /\ i + 1 \in 1..n
      BY <1>1
    <3> QED BY <1>2, <1>5, <1>9, <3>1, <3>2
  <2>2. CASE m.op \notin {"start", "state"}
    BY <1>2, <1>4, <1>5, <1>9, <2>2
  <2> QED BY <1>4, <1>9, <2>1, <2>2
<1>10. ASSUME NEW i \in 1..(n - 1)
       PROVE  /\ mainq'[i].id <= attempts'
              /\ ToDisabled(mainq'[i]) => mainq'[i].id < attempts' \/ mCurrentProfile' = NoProfile
              /\ ToActive(mainq'[i]) /\ mState' = "DISABLED" => mConnectionID' < mainq'[i].id
              /\ \A j \in 1..(n - 1) :
                    j < i /\ ToDisabled(mainq'[j]) /\ ToActive(mainq'[i])
                        => mainq'[j].id < mainq'[i].id
  <2>1. mainq'[i] = mainq[i + 1] /\ i + 1 \in 1..n
    BY <1>2
  <2>2. ASSUME NEW j \in 1..(n - 1), j < i, ToDisabled(mainq'[j]), ToActive(mainq'[i])
        PROVE  mainq'[j].id < mainq'[i].id
    <3>1. mainq'[j] = mainq[j + 1] /\ j + 1 \in 1..n /\ j + 1 < i + 1
      BY <1>1, <1>2, <2>2
    <3> QED BY <1>5, <2>1, <2>2, <3>1
  <2> QED BY <1>5, <1>9, <2>1, <2>2
<1> QED BY <1>2, <1>6, <1>7, <1>8, <1>10 DEF ShownInv, Over

(* A change that is not one of the state.                                  *)
LEMMA OtherChanges ==
    ASSUME NEW id
    PROVE  /\ \A e : setError(e, id).id = id
                     /\ ~ToDisabled(setError(e, id)) /\ ~ToActive(setError(e, id))
           /\ \A op \in {"resetTimer", "hide"} :
                 Msg(op, "none", id).id = id
                 /\ ~ToDisabled(Msg(op, "none", id)) /\ ~ToActive(Msg(op, "none", id))
  BY DEF setError, Msg, ToDisabled, ToActive

LEMMA ShownStep == IInv /\ ShownInv /\ [Next]_vars => ShownInv'
<1> SUFFICES ASSUME IInv, ShownInv, [Next]_vars PROVE ShownInv'
  OBVIOUS
<1> USE DEF IInv
<1>0. attempts \in Nat /\ charonConn \in Nat /\ ~ToDisabled(report)
  BY DEF TypeOK, ShownInv
<1>1. CASE MainRun
  BY <1>1, ShownRun DEF MainRun, threadVars, charonVars
<1>2. CASE UserDisconnect
  <2>1. setError(NoError, attempts) \in Change
    BY <1>0, ChangeTypes DEF ErrorState
  <2>2. /\ Post(setError(NoError, attempts))
        /\ UNCHANGED <<mConnectionID, mState, attempts, mCurrentProfile, report>>
    BY <1>2 DEF UserDisconnect, disconnect, threadVars, charonVars, stateVars
  <2> QED BY <1>0, <2>1, <2>2, OtherChanges, ShownPost
<1>3. CASE UserReconnect
  <2>0. reconnect(attempts) /\ UNCHANGED <<attempts, mCurrentProfile, report>>
    BY <1>3 DEF UserReconnect, threadVars, charonVars
  <2>1. Msg("resetTimer", "none", attempts) \in Change
    BY <1>0, ChangeTypes
  <2>2. CASE Post(Msg("resetTimer", "none", attempts)) /\ UNCHANGED stateVars
    <3>1. UNCHANGED <<mConnectionID, mState>>
      BY <2>2 DEF stateVars
    <3> QED BY <1>0, <2>0, <2>1, <2>2, <3>1, OtherChanges, ShownPost
  <2>3. CASE connect(mProfile)
    BY <1>0, <2>0, <2>3, ShownSame DEF connect, stateVars, shownVars
  <2> QED BY <2>0, <2>2, <2>3, Zenon DEF reconnect
<1>4. CASE Wake
  <2>0. UNCHANGED <<mConnectionID, mState, attempts, mCurrentProfile, report>>
    BY <1>4 DEF Wake, stateVars
  <2>1. setState("DISCONNECTING", attempts) \in Change
    BY <1>0, ChangeTypes DEF State
  <2>2. CASE MustStop /\ Post(setState("DISCONNECTING", attempts))
    <3>1. /\ setState("DISCONNECTING", attempts).id = attempts
          /\ ~ToDisabled(setState("DISCONNECTING", attempts))
          /\ mCurrentProfile # NoProfile
      BY <2>2 DEF setState, Msg, ToDisabled, MustStop
    <3> QED BY <1>0, <2>0, <2>1, <2>2, <3>1, ShownPost
  <2>3. CASE UNCHANGED mainq
    BY <1>0, <2>0, <2>3, ShownSame DEF shownVars
  <2> QED BY <1>4, <2>2, <2>3 DEF Wake
<1>5. CASE Deinitialize
  <2>0. UNCHANGED <<mConnectionID, mState, attempts, report>> /\ mCurrentProfile' = NoProfile
    BY <1>5 DEF Deinitialize, stateVars
  <2>1. Msg("hide", "none", attempts) \in Change
    BY <1>0, ChangeTypes
  <2>2. CASE Post(Msg("hide", "none", attempts))
    BY <1>0, <2>0, <2>1, <2>2, OtherChanges, ShownPost
  <2>3. CASE UNCHANGED mainq
    BY <1>0, <2>0, <2>3, ShownSame DEF shownVars
  <2> QED BY <1>5, <2>2, <2>3, Zenon DEF Deinitialize
<1>6. CASE Disable \/ DisableFailed
  <2>0. /\ Post(setState("DISABLED", attempts))
        /\ UNCHANGED <<mConnectionID, mState, attempts, report>>
        /\ mCurrentProfile' = NoProfile
    BY <1>6 DEF Disable, DisableFailed, HandlerInv, stateVars, charonVars
  <2>1. setState("DISABLED", attempts) \in Change
    BY <1>0, ChangeTypes DEF State
  <2>2. setState("DISABLED", attempts).id = attempts /\ ~ToActive(setState("DISABLED", attempts))
    BY DEF setState, Msg, ToActive
  <2> QED BY <1>0, <2>0, <2>1, <2>2, ShownPost
<1>7. CASE Start
  BY <1>7, ShownStart
<1>8. CASE Initiate \/ InitializeFails
  <2>0. UNCHANGED <<mConnectionID, mState, attempts, mCurrentProfile, report>>
    BY <1>8 DEF Initiate, InitializeFails, stateVars, charonVars
  <2>1. \A e \in {"PASSWORD_MISSING", "GENERIC_ERROR"} : setError(e, attempts) \in Change
    BY <1>0, ChangeTypes DEF ErrorState, Failure
  <2>2. CASE \E e \in {"PASSWORD_MISSING", "GENERIC_ERROR"} : Post(setError(e, attempts))
    <3>1. PICK e \in {"PASSWORD_MISSING", "GENERIC_ERROR"} : Post(setError(e, attempts))
      BY <2>2
    <3> QED BY <1>0, <2>0, <2>1, <3>1, OtherChanges, ShownPost
  <2>3. CASE UNCHANGED mainq
    BY <1>0, <2>0, <2>3, ShownSame DEF shownVars
  <2> QED BY <1>8, <2>2, <2>3 DEF Initiate, InitializeFails
<1>9. CASE CharonReports
  <2>0. UNCHANGED shownVars /\ UNCHANGED mCurrentProfile
    BY <1>9 DEF CharonReports, shownVars, serviceVars, threadVars
  <2>1. ~ToDisabled(report')
    BY <1>9 DEF CharonReports, updateStatus, setState, setError, setImcState,
       addRemediationInstruction, NoReport, Msg, ToDisabled
  <2> QED BY <2>0, <2>1, ShownSame
<1>10. CASE CharonPosts
  <2>0. /\ Post(report) /\ report' = NoReport
        /\ UNCHANGED <<mConnectionID, mState, attempts, mCurrentProfile>>
    BY <1>10 DEF CharonPosts, stateVars, threadVars
  <2>1. /\ report \in Change /\ report.id = attempts
        /\ mCurrentProfile # NoProfile
    BY <1>10 DEF CharonPosts, TypeOK, HandlerInv
  <2>2. ~ToDisabled(NoReport)
    BY DEF NoReport, ToDisabled
  <2> QED BY <1>0, <2>0, <2>1, <2>2, ShownPost
<1>11. CASE \/ onStartCommand \/ onServiceConnected \/ MainTick \/ Destroyed
            \/ (\E p \in Profile : UserConnect(p) \/ AlwaysOn(p))
            \/ onRevoke \/ onDestroy
            \/ SetDisconnecting \/ establish \/ UNCHANGED vars
  <2>1. UNCHANGED shownVars /\ UNCHANGED <<mCurrentProfile, report>>
    BY <1>11 DEF onStartCommand, onServiceConnected, MainTick, RetryTick, Destroyed,
       UserConnect, connect, AlwaysOn, onRevoke, onDestroy, SetDisconnecting, establish,
       vars, shownVars, stateVars, serviceVars, threadVars, charonVars
  <2> QED BY <1>0, <2>1, ShownSame
<1> QED BY <1>1, <1>2, <1>3, <1>4, <1>5, <1>6, <1>7, <1>8, <1>9, <1>10, <1>11
        DEF Next, Main, Environment, HandlerThread, Charon

-----------------------------------------------------------------------------
(* The refinement.                                                         *)

LEMMA ConnectionStep ==
    IInv /\ ShownInv /\ [Next]_vars => [Connection!Next]_(Connection!vars)
<1> SUFFICES ASSUME IInv, ShownInv, [Next]_vars
             PROVE  Connection!Next \/ UNCHANGED <<attempts, mCurrentProfile, mConnectionID, mState>>
  BY DEF Connection!vars
<1> USE DEF IInv
<1>1. CASE MainRun
  <2> DEFINE m == Head(mainq)
  <2>1. /\ m = mainq[1] /\ 1 \in 1..Len(mainq) /\ m \in Change
        /\ attempts \in Nat /\ mConnectionID \in Nat
    BY <1>1 DEF MainRun, RunChange, TypeOK, StateServiceTypeOK
  <2>2. /\ m.op = "start" => m.id = mConnectionID + 1
        /\ m.op # "start" => m.id = mConnectionID
    BY <2>1 DEF QueueInv, IdBefore
  <2>3. /\ m.id <= attempts
        /\ ToDisabled(m) => m.id < attempts \/ mCurrentProfile = NoProfile
        /\ ToActive(m) /\ mState = "DISABLED" => mConnectionID < m.id
    BY <2>1 DEF ShownInv, Over
  <2>4. UNCHANGED <<attempts, mCurrentProfile>>
    BY <1>1 DEF MainRun, threadVars
  <2>5. \/ /\ m.op = "start"
           /\ mConnectionID' = mConnectionID + 1 /\ mState' = "CONNECTING"
        \/ /\ m.op = "state" /\ mState' = m.arg
           /\ mConnectionID' = mConnectionID
        \/ mConnectionID' = mConnectionID /\ mState' = mState
    BY <1>1 DEF MainRun, RunChange, ApplyStart, ApplyState, ApplyError, ApplyImcState,
       ApplyInstruction, ApplyResetTimer, stateVars
  <2>6. m.op = "state" => m.arg \in State
    BY <2>1 DEF Change
  <2> HIDE DEF m
  <2>7. CASE m.op = "start" /\ mConnectionID' = mConnectionID + 1 /\ mState' = "CONNECTING"
    <3>1. mConnectionID < attempts
      BY <2>1, <2>2, <2>3, <2>7
    <3>2. Connection!ShowStart
      BY <2>4, <2>7, <3>1 DEF Connection!ShowStart
    <3> QED BY <3>2 DEF Connection!Next
  <2>8. CASE m.op = "state" /\ mState' = m.arg /\ mConnectionID' = mConnectionID
    <3>1. CASE m.arg = "DISABLED"
      <4>1. Connection!ShowDisabled
        BY <2>2, <2>3, <2>4, <2>8, <3>1 DEF ToDisabled, Connection!ShowDisabled
      <4> QED BY <4>1 DEF Connection!Next
    <3>2. CASE m.arg # "DISABLED"
      <4>1. mState # "DISABLED"
        BY <2>1, <2>2, <2>3, <2>8, <3>2 DEF ToActive
      <4>2. Connection!ShowActive
        BY <2>4, <2>6, <2>8, <3>2, <4>1 DEF State, Connection!ShowActive, Connection!Phase
      <4> QED BY <4>2 DEF Connection!Next
    <3> QED BY <3>1, <3>2
  <2> QED BY <2>4, <2>5, <2>7, <2>8
<1>2. CASE Start
  <2>1. /\ mCurrentProfile = NoProfile /\ mCurrentProfile' # NoProfile
        /\ attempts' = attempts + 1
        /\ UNCHANGED <<mConnectionID, mState>>
    BY <1>2 DEF Start, HandlerInv, stateVars
  <2>2. Connection!Begin
    BY <2>1 DEF Connection!Begin
  <2> QED BY <2>2 DEF Connection!Next
<1>3. CASE Deinitialize \/ DisableFailed
  <2>1. /\ mCurrentProfile # NoProfile /\ mCurrentProfile' = NoProfile
        /\ UNCHANGED <<attempts, mConnectionID, mState>>
    BY <1>3 DEF Deinitialize, DisableFailed, HandlerInv, stateVars
  <2>2. Connection!End
    BY <2>1 DEF Connection!End
  <2> QED BY <2>2 DEF Connection!Next
<1>4. CASE \/ onStartCommand \/ onServiceConnected \/ MainTick \/ Destroyed
           \/ Environment
           \/ Wake \/ SetDisconnecting \/ Disable \/ Initiate \/ InitializeFails
           \/ Charon \/ UNCHANGED vars
  BY <1>4 DEF onStartCommand, onServiceConnected, MainTick, RetryTick, Destroyed, Environment,
     UserConnect, connect, AlwaysOn, UserDisconnect, disconnect, UserReconnect, reconnect,
     onRevoke, onDestroy, Wake, SetDisconnecting, Disable, Initiate, InitializeFails, Charon,
     CharonReports, CharonPosts, establish, vars, stateVars, serviceVars, threadVars
<1> QED BY <1>1, <1>2, <1>3, <1>4 DEF Next, Main, HandlerThread

(* Whatever the user, the system and charon do, and in whatever order the  *)
(* threads run: connections are made one at a time, shown in their order,  *)
(* left only through DISABLED or the next one, and DISABLED is shown only  *)
(* for one that is over.                                                   *)
THEOREM Refinement == Spec => ImplementsConnection
<1>1. Init => ShownInv
  BY DEF Init, StateServiceInit, ShownInv, Over, ToDisabled, NoReport
<1>2. Init => Connection!Init
  BY DEF Init, StateServiceInit, Connection!Init
<1>3. Spec => []IInv
  BY Invariance
<1>4. IInv /\ ShownInv /\ [Next]_vars => ShownInv'
  BY ShownStep
<1>5. IInv /\ ShownInv /\ [Next]_vars => [Connection!Next]_(Connection!vars)
  BY ConnectionStep
<1> QED BY <1>1, <1>2, <1>3, <1>4, <1>5, PTL DEF Spec, ImplementsConnection, Connection!Spec
=============================================================================

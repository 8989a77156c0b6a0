-------------------------- MODULE OpenVPNServiceProofs --------------------------
(* Proofs about OpenVPNService, for every number of starts, failures and   *)
(* stops.                                                                  *)
EXTENDS OpenVPNService, SequenceTheorems, TLAPS

-----------------------------------------------------------------------------
(* Type correctness.                                                       *)

LEMMA TypeInit == Init => TypeOK
<1> SUFFICES ASSUME Init PROVE TypeOK
  OBVIOUS
<1>1. Null \in 0..MaxStarts /\ 0 \in 0..MaxFailures /\ 0 \in 0..MaxStops
  BY ServiceAssumption DEF Null
<1>2. active \in Seq(Session)
  BY DEF Init
<1>3. /\ starter \in [Session -> {"none", "done"} \cup Starting \cup Ending]
      /\ thread \in [Session -> {"none", "reading", "reporting", "deciding", "ended"} \cup Ending]
  BY DEF Init
<1>4. /\ starts \in 0..MaxStarts /\ failures \in 0..MaxFailures /\ stops \in 0..MaxStops
      /\ peer \in [Session -> 0..MaxStarts] /\ posted \in Nat
  BY <1>1, ServiceAssumption DEF Init, Null
<1> QED BY <1>1, <1>2, <1>3, <1>4 DEF Init, TypeOK

(* The variables the steps of endVpnService() may write.                   *)
LEMMA TypeEnd ==
    ASSUME TypeOK, NEW at, endVpnService(at)
    PROVE  /\ service' \in {"up", "stopping", "destroyed"} /\ foreground' \in BOOLEAN
           /\ mProcessThread' \in 0..MaxStarts /\ mOpenVPNThread' \in 0..MaxStarts
           /\ mDeviceStateReceiver' \in 0..MaxStarts /\ lastConnected' \in 0..MaxStarts
           /\ UNCHANGED <<mManagement, mStarting, lock, posted, status, mgmt, active, bound, peer>>
<1>1. Null \in 0..MaxStarts
  BY ServiceAssumption DEF Null
<1> QED BY <1>1 DEF TypeOK, endVpnService, EndLock, EndClear, EndStop, socketVars

LEMMA AfterType ==
    ASSUME NEW at \in Ending, NEW last
    PROVE  After(at, last) \in Ending \cup {last}
  BY DEF After, Ending

(* stopOpenVPN() closes sockets and signals processes.                     *)
LEMMA TypeStop ==
    ASSUME TypeOK, stopOpenVPN
    PROVE  /\ signalled' \in [Session -> BOOLEAN]
           /\ mgmt' \in [Session -> {"none", "accepting", "connected", "closed", "ended"}]
  BY DEF TypeOK, stopOpenVPN

(* What is left of the list when one thread is taken out.                  *)
LEMMA RemoveActive ==
    ASSUME NEW q \in Seq(Session), NEW i \in DOMAIN q
    PROVE  /\ RemoveAt(q, i) \in Seq(Session)
           /\ \A s \in Range(q) : s # q[i] => s \in Range(RemoveAt(q, i))
<1> DEFINE n == Len(q)
           r == RemoveAt(q, i)
<1>1. n \in Nat /\ i \in 1..n
  OBVIOUS
<1>2. /\ r \in Seq(Session) /\ Len(r) = n - 1
      /\ \A k \in 1..(n - 1) : r[k] = IF k < i THEN q[k] ELSE q[k + 1]
  <2>1. /\ SubSeq(q, 1, i - 1) \in Seq(Session) /\ Len(SubSeq(q, 1, i - 1)) = i - 1
        /\ \A k \in 1..(i - 1) : SubSeq(q, 1, i - 1)[k] = q[k]
    BY <1>1
  <2>2. /\ SubSeq(q, i + 1, n) \in Seq(Session) /\ Len(SubSeq(q, i + 1, n)) = n - i
        /\ \A k \in 1..(n - i) : SubSeq(q, i + 1, n)[k] = q[k + i]
    BY <1>1
  <2> DEFINE a == SubSeq(q, 1, i - 1)
             b == SubSeq(q, i + 1, n)
  <2>3. r = a \o b
    BY DEF RemoveAt
  <2> HIDE DEF n, r, a, b
  <2>4. /\ r \in Seq(Session) /\ Len(r) = (i - 1) + (n - i)
        /\ \A k \in 1..((i - 1) + (n - i)) : r[k] = IF k <= i - 1 THEN a[k] ELSE b[k - (i - 1)]
    <3>1. /\ a \in Seq(Session) /\ b \in Seq(Session)
          /\ Len(a) = i - 1 /\ Len(b) = n - i
      BY <2>1, <2>2 DEF a, b
    <3>2. /\ a \o b \in Seq(Session) /\ Len(a \o b) = Len(a) + Len(b)
          /\ \A k \in 1..(Len(a) + Len(b)) :
                (a \o b)[k] = IF k <= Len(a) THEN a[k] ELSE b[k - Len(a)]
      BY <3>1, ConcatProperties
    <3> QED BY <2>3, <3>1, <3>2
  <2>5. ASSUME NEW k \in 1..(n - 1)
        PROVE  r[k] = IF k < i THEN q[k] ELSE q[k + 1]
    <3>1. CASE k < i
      <4>1. k \in 1..(i - 1) /\ k \in 1..((i - 1) + (n - i)) /\ k <= i - 1
        BY <1>1, <3>1
      <4>2. r[k] = a[k]
        BY <2>4, <4>1
      <4>3. a[k] = q[k]
        BY <2>1, <4>1 DEF a
      <4> QED BY <3>1, <4>2, <4>3
    <3>2. CASE k >= i
      <4>1. k - (i - 1) \in 1..(n - i) /\ (k - (i - 1)) + i = k + 1
        BY <1>1, <3>2
      <4>2. r[k] = b[k - (i - 1)]
        BY <1>1, <2>4, <3>2
      <4>3. b[k - (i - 1)] = q[(k - (i - 1)) + i]
        BY <2>2, <4>1 DEF b
      <4>4. b[k - (i - 1)] = q[k + 1]
        BY <4>1, <4>3
      <4> QED BY <1>1, <3>2, <4>2, <4>4
    <3> QED BY <1>1, <3>1, <3>2
  <2>6. (i - 1) + (n - i) = n - 1
    BY <1>1
  <2> QED BY <2>4, <2>5, <2>6
<1> HIDE DEF r
<1>3. ASSUME NEW s \in Range(q), s # q[i]
      PROVE  s \in Range(r)
  <2>1. PICK k \in 1..n : q[k] = s
    BY <1>3 DEF Range
  <2>2. k # i
    BY <1>3, <2>1
  <2>3. CASE k < i
    <3>1. k \in 1..(n - 1) /\ r[k] = s
      BY <1>1, <1>2, <2>1, <2>3
    <3> QED BY <1>2, <3>1 DEF Range
  <2>4. CASE k > i
    <3>1. k - 1 \in 1..(n - 1) /\ r[k - 1] = s
      BY <1>1, <1>2, <2>1, <2>4
    <3> QED BY <1>2, <3>1 DEF Range
  <2> QED BY <1>1, <2>1, <2>2, <2>3, <2>4
<1> QED BY <1>2, <1>3 DEF r

(* The order of requests is a Boolean whatever it says.                    *)
LEMMA TypeOrderly ==
    ASSUME TypeOK, NEW counter, NEW max, Request(counter, max)
    PROVE  orderly' \in BOOLEAN
  BY DEF Request, TypeOK

LEMMA TypeRequests == TypeOK /\ Requests => TypeOK'
<1> SUFFICES ASSUME TypeOK, Requests PROVE TypeOK'
  OBVIOUS
<1>0. MaxStarts \in Nat /\ MaxStops \in Nat
  BY ServiceAssumption
<1>1. CASE onStartCommand
  <2>1. orderly' \in BOOLEAN
    BY <1>1, TypeOrderly DEF onStartCommand
  <2>2. starts + 1 \in 0..MaxStarts
    BY <1>0, <1>1 DEF onStartCommand, Request, TypeOK
  <2> QED BY <1>1, <2>1, <2>2 DEF onStartCommand, TypeOK, fieldVars, sessionVars, socketVars,
          Starting, Session
<1>2. CASE StartNoProfile
  <2>1. orderly' \in BOOLEAN
    BY <1>2, TypeOrderly DEF StartNoProfile
  <2>2. stops + 1 \in 0..MaxStops
    BY <1>0, <1>2 DEF StartNoProfile, Request, TypeOK
  <2> QED BY <1>2, <2>1, <2>2 DEF StartNoProfile, TypeOK, fieldVars, sessionVars, socketVars
<1>3. CASE stopVPN
  <2>1. orderly' \in BOOLEAN
    BY <1>3, TypeOrderly DEF stopVPN
  <2>2. stops + 1 \in 0..MaxStops
    BY <1>0, <1>3 DEF stopVPN, Request, TypeOK
  <2> QED BY <1>3, <2>1, <2>2, TypeStop DEF stopVPN, TypeOK, fieldVars
<1>4. CASE onRevoke
  <2>1. orderly' \in BOOLEAN
    BY <1>4, TypeOrderly DEF onRevoke
  <2>2. stops + 1 \in 0..MaxStops
    BY <1>0, <1>4 DEF onRevoke, Request, TypeOK
  <2> QED BY <1>4, <2>1, <2>2, TypeStop DEF onRevoke, TypeOK, fieldVars, Ending
<1> QED BY <1>1, <1>2, <1>3, <1>4 DEF Requests

LEMMA TypeMain == TypeOK /\ (MainThread \/ RevokeEnds) => TypeOK'
<1> SUFFICES ASSUME TypeOK, MainThread \/ RevokeEnds PROVE TypeOK'
  OBVIOUS
<1>1. CASE setConnectedVpnProfile
  BY <1>1 DEF setConnectedVpnProfile, TypeOK, sessionVars, socketVars, boundVars
<1>2. CASE registerDeviceStateReceiver
  BY <1>2 DEF registerDeviceStateReceiver, TypeOK, sessionVars, socketVars, boundVars
<1>3. CASE RevokeEnds
  <2>1. endVpnService(revoker) /\ After(revoker, "idle") \in Ending \cup {"idle"}
    BY <1>3, AfterType DEF RevokeEnds
  <2> QED BY <1>3, <2>1, TypeEnd DEF RevokeEnds, TypeOK, sessionVars, boundVars
<1>4. CASE onDestroy
  <2>1. CASE stopOpenVPN
    BY <1>4, <2>1, TypeStop DEF onDestroy, TypeOK, fieldVars, boundVars
  <2>2. CASE UNCHANGED <<signalled, mgmt>>
    BY <1>4, <2>2 DEF onDestroy, TypeOK, fieldVars, boundVars
  <2> QED BY <1>4, <2>1, <2>2, Zenon DEF onDestroy
<1> QED BY <1>1, <1>2, <1>3, <1>4 DEF MainThread

LEMMA TypeStarter ==
    ASSUME TypeOK, NEW s \in Session, Starter(s)
    PROVE  TypeOK'
<1> DEFINE Place == {"none", "done"} \cup Starting \cup Ending
<1>0. s \in 0..MaxStarts /\ Null \in 0..MaxStarts
  BY ServiceAssumption DEF Session, Null
<1>1. ASSUME NEW from, NEW to \in Place, Step(s, from, to)
      PROVE  starter' \in [Session -> Place]
  BY <1>1 DEF Step, TypeOK
<1>2. ASSUME StartFails
      PROVE  failures' \in 0..MaxFailures /\ orderly' \in BOOLEAN
  <2>1. failures \in 0..MaxFailures /\ MaxFailures \in Nat
    BY ServiceAssumption DEF TypeOK
  <2>2. failures' = failures + 1 /\ failures < MaxFailures
    BY <1>2 DEF StartFails
  <2>3. failures' \in 0..MaxFailures
    BY <2>1, <2>2
  <2>4. orderly' = FALSE
    BY <1>2 DEF StartFails
  <2> QED BY <2>3, <2>4
<1>3. CASE writeConfigFile(s)
  <2>1. starter' \in [Session -> Place]
    BY <1>1, <1>3 DEF writeConfigFile, Starting, Ending
  <2>2. /\ failures' \in 0..MaxFailures /\ orderly' \in BOOLEAN
        /\ mStarting' \in BOOLEAN
    BY <1>2, <1>3 DEF writeConfigFile, TypeOK
  <2> QED BY <1>3, <2>1, <2>2 DEF writeConfigFile, TypeOK, sessionVars, socketVars
<1>4. CASE stopOldOpenVPNProcess(s)
  <2>1. starter' \in [Session -> Place]
    BY <1>1, <1>4 DEF stopOldOpenVPNProcess, Starting
  <2>2. CASE setReplaceConnection /\ stopOpenVPN
    <3>1. /\ signalled' \in [Session -> BOOLEAN]
          /\ mgmt' \in [Session -> {"none", "accepting", "connected", "closed", "ended"}]
      BY <2>2, TypeStop
    <3>2. replaced' \in [Session -> BOOLEAN]
      BY <2>2 DEF setReplaceConnection, TypeOK
    <3> QED BY <1>4, <2>1, <3>1, <3>2 DEF stopOldOpenVPNProcess, TypeOK, fieldVars, boundVars
  <2>3. CASE UNCHANGED <<replaced, signalled, mgmt>>
    BY <1>4, <2>1, <2>3 DEF stopOldOpenVPNProcess, TypeOK, fieldVars, boundVars
  <2> QED BY <1>4, <2>2, <2>3 DEF stopOldOpenVPNProcess
<1>5. CASE SleepOver(s) \/ ForceSleepOver(s) \/ ClearStarting(s)
  <2>1. starter' \in [Session -> Place]
    BY <1>1, <1>5 DEF SleepOver, ForceSleepOver, ClearStarting, Starting
  <2>2. CASE SleepOver(s)
    BY <2>1, <2>2 DEF SleepOver, TypeOK, fieldVars, sessionVars, socketVars, boundVars
  <2>3. CASE ForceSleepOver(s)
    BY <1>0, <2>1, <2>3 DEF ForceSleepOver, TypeOK, fieldVars, sessionVars, socketVars, boundVars
  <2>4. CASE ClearStarting(s)
    BY <1>0, <2>1, <2>4 DEF ClearStarting, TypeOK, fieldVars, sessionVars, socketVars, boundVars
  <2> QED BY <1>5, <2>2, <2>3, <2>4
<1>6. CASE forceStopOpenVpnProcess(s)
  <2>1. starter' \in [Session -> Place]
    BY <1>1, <1>6 DEF forceStopOpenVpnProcess, Starting
  <2>2. interrupted' \in [Session -> BOOLEAN] /\ lock' \in 0..MaxStarts
    BY <1>0, <1>6 DEF forceStopOpenVpnProcess, TypeOK
  <2> QED BY <1>6, <2>1, <2>2 DEF forceStopOpenVpnProcess, TypeOK, fieldVars, socketVars, boundVars
<1>7. CASE openManagementInterface(s)
  <2>1. starter' \in [Session -> Place]
    BY <1>1, <1>7 DEF openManagementInterface, Starting, Ending
  <2>2. failures' \in 0..MaxFailures /\ orderly' \in BOOLEAN
    BY <1>2, <1>7 DEF openManagementInterface, TypeOK
  <2>3. /\ mgmt' \in [Session -> {"none", "accepting", "connected", "closed", "ended"}]
        /\ bound' \in 0..MaxStarts /\ mManagement' \in 0..MaxStarts
        /\ mOpenVPNThread' \in 0..MaxStarts
    BY <1>0, <1>7 DEF openManagementInterface, TypeOK
  <2>4. active' \in Seq(Session)
    <3>1. active \in Seq(Session)
      BY DEF TypeOK
    <3>2. active' = active \/ active' = Append(active, s)
      BY <1>7 DEF openManagementInterface
    <3> QED BY <3>1, <3>2
  <2> QED BY <1>7, <2>1, <2>2, <2>3, <2>4 DEF openManagementInterface, TypeOK, sessionVars
<1>8. CASE Launch(s)
  <2>1. starter' \in [Session -> Place]
    BY <1>1, <1>8 DEF Launch
  <2>2. mProcessThread' \in 0..MaxStarts /\ posted' \in Nat
    BY <1>0, <1>8 DEF Launch, TypeOK
  <2>3. /\ thread' \in [Session -> {"none", "reading", "reporting", "deciding", "ended"} \cup Ending]
        /\ proc' \in [Session -> {"none", "running", "exited"}]
    BY <1>8 DEF Launch, TypeOK
  <2> QED BY <1>8, <2>1, <2>2, <2>3 DEF Launch, TypeOK, socketVars, boundVars
<1>9. CASE FailedStartEnds(s)
  <2>1. starter' \in [Session -> Place]
    BY <1>9, AfterType DEF FailedStartEnds, TypeOK
  <2>2. endVpnService(starter[s])
    BY <1>9 DEF FailedStartEnds
  <2> QED BY <1>9, <2>1, <2>2, TypeEnd DEF FailedStartEnds, TypeOK, sessionVars, boundVars
<1> QED BY <1>3, <1>4, <1>5, <1>6, <1>7, <1>8, <1>9 DEF Starter

LEMMA TypeThread ==
    ASSUME TypeOK, NEW s \in Session, OpenVPNThread(s) \/ stopProcess(s)
    PROVE  TypeOK'
<1> DEFINE Place == {"none", "reading", "reporting", "deciding", "ended"} \cup Ending
<1>1. ASSUME NEW from, NEW to \in Place, ThreadStep(s, from, to)
      PROVE  thread' \in [Session -> Place]
  BY <1>1 DEF ThreadStep, TypeOK
<1>2. CASE EndOfOutput(s) \/ ReportNoProcess(s) \/ openvpnStopped(s)
  <2>1. thread' \in [Session -> Place]
    BY <1>1, <1>2 DEF EndOfOutput, ReportNoProcess, openvpnStopped, Ending
  <2>2. CASE EndOfOutput(s)
    BY <2>1, <2>2 DEF EndOfOutput, TypeOK, fieldVars, socketVars, boundVars
  <2>3. CASE ReportNoProcess(s)
    BY <2>1, <2>3 DEF ReportNoProcess, TypeOK, fieldVars, socketVars, boundVars
  <2>4. CASE openvpnStopped(s)
    BY <2>1, <2>4 DEF openvpnStopped, TypeOK, fieldVars, socketVars, boundVars
  <2> QED BY <1>2, <2>2, <2>3, <2>4
<1>3. CASE ThreadEnds(s)
  <2>1. thread' \in [Session -> Place]
    BY <1>3, AfterType DEF ThreadEnds, TypeOK
  <2>2. endVpnService(thread[s])
    BY <1>3 DEF ThreadEnds
  <2> QED BY <1>3, <2>1, <2>2, TypeEnd DEF ThreadEnds, TypeOK, boundVars
<1>4. CASE stopProcess(s)
  BY <1>4 DEF stopProcess, TypeOK, fieldVars, socketVars, boundVars
<1> QED BY <1>2, <1>3, <1>4 DEF OpenVPNThread

LEMMA TypeProcess ==
    ASSUME TypeOK, NEW s \in Session,
           Connect(s) \/ updateStateString(s) \/ Obey(s) \/ ExitAlone(s) \/ ManagementEnds(s)
    PROVE  TypeOK'
<1>1. CASE Connect(s)
  <2>1. s \in 0..MaxStarts
    BY DEF Session
  <2>2. mgmt' \in [Session -> {"none", "accepting", "connected", "closed", "ended"}]
    <3>1. mgmt' = mgmt \/ mgmt' = [mgmt EXCEPT ![bound] = "connected"]
      BY <1>1 DEF Connect
    <3> QED BY <3>1 DEF TypeOK
  <2>3. peer' \in [Session -> 0..MaxStarts]
    <3>1. peer' = peer \/ peer' = [peer EXCEPT ![bound] = s]
      BY <1>1 DEF Connect
    <3> QED BY <2>1, <3>1 DEF TypeOK
  <2>4. proc' \in [Session -> {"none", "running", "exited"}]
    <3>1. proc' = proc \/ proc' = [proc EXCEPT ![s] = "exited"]
      BY <1>1 DEF Connect
    <3> QED BY <3>1 DEF TypeOK
  <2> QED BY <1>1, <2>2, <2>3, <2>4 DEF Connect, TypeOK, fieldVars, boundVars
<1>2. CASE updateStateString(s) \/ Obey(s)
  <2>1. CASE updateStateString(s)
    BY <2>1 DEF updateStateString, TypeOK, fieldVars, sessionVars, socketVars, boundVars
  <2>2. CASE Obey(s)
    BY <2>2 DEF Obey, TypeOK, fieldVars, socketVars, boundVars
  <2> QED BY <1>2, <2>1, <2>2
<1>3. CASE ExitAlone(s)
  <2>1. stops' \in 0..MaxStops /\ orderly' \in BOOLEAN
    BY <1>3, ServiceAssumption DEF ExitAlone, TypeOK
  <2> QED BY <1>3, <2>1 DEF ExitAlone, TypeOK, fieldVars, socketVars
<1>4. CASE ManagementEnds(s)
  <2>1. active' \in Seq(Session)
    BY <1>4, RemoveActive DEF ManagementEnds, removeActive, TypeOK
  <2> QED BY <1>4, <2>1 DEF ManagementEnds, TypeOK, fieldVars, sessionVars, boundVars
<1> QED BY <1>1, <1>2, <1>3, <1>4

LEMMA TypeStep == TypeOK /\ [Next]_vars => TypeOK'
<1> SUFFICES ASSUME TypeOK, [Next]_vars PROVE TypeOK'
  OBVIOUS
<1>1. CASE UNCHANGED vars
  BY <1>1 DEF vars, fieldVars, sessionVars, socketVars, boundVars, TypeOK
<1>2. ASSUME NEW s \in Session,
             \/ Starter(s) \/ stopProcess(s) \/ OpenVPNThread(s) \/ Connect(s)
             \/ updateStateString(s) \/ Obey(s) \/ ExitAlone(s) \/ ManagementEnds(s)
      PROVE  TypeOK'
  BY <1>2, TypeStarter, TypeThread, TypeProcess
<1> QED BY <1>1, <1>2, TypeRequests, TypeMain DEF Next

-----------------------------------------------------------------------------
(* StopInv is invariant.                                                   *)

(* No thread goes back: one that is before the opening of its management   *)
(* interface, or before the launch of its process, was there already.      *)
GoesOn ==
    \A s \in Session :
        /\ s > starts' => starter'[s] = "none"
        /\ starter'[s] \in BeforeOpen => starter[s] \in BeforeOpen
        /\ starter'[s] \in BeforeOpen \cup {"launch"} => starter[s] \in BeforeOpen \cup {"launch"}

LEMMA GoesOnSame ==
    ASSUME StopInv, UNCHANGED <<starts, starter>>
    PROVE  GoesOn
  BY DEF StopInv, GoesOn

LEMMA GoesOnStep ==
    ASSUME TypeOK, StopInv, UNCHANGED starts, NEW s \in Session,
           NEW from, NEW to, Step(s, from, to), from # "none",
           to \in BeforeOpen \cup {"launch"} => from \in BeforeOpen,
           to # "launch" \/ from \in BeforeOpen
    PROVE  GoesOn
<1>1. /\ starter \in [Session -> {"none", "done"} \cup Starting \cup Ending]
      /\ starter[s] = from
      /\ starter' = [starter EXCEPT ![s] = to]
  BY DEF TypeOK, Step
<1>2. \A t \in Session : starter'[t] = IF t = s THEN to ELSE starter[t]
  BY <1>1
<1>3. \A t \in Session : t > starts => starter[t] = "none"
  BY DEF StopInv
<1>4. "launch" \notin BeforeOpen
  BY DEF BeforeOpen
<1> QED BY <1>1, <1>2, <1>3, <1>4 DEF GoesOn

LEMMA StopSame ==
    ASSUME StopInv, GoesOn, UNCHANGED <<mgmt, proc, peer, signalled, active>>
    PROVE  StopInv'
  BY DEF StopInv, GoesOn, AttachedIsStoppable

LEMMA StopStop ==
    ASSUME TypeOK, StopInv, GoesOn, stopOpenVPN, UNCHANGED <<proc, peer, active>>
    PROVE  StopInv'
<1>1. \A m \in Session :
         mgmt'[m] = IF m \in Range(active) /\ mgmt[m] = "connected" THEN "closed" ELSE mgmt[m]
  BY DEF stopOpenVPN
<1>2. \A m \in Session : signalled[m] => signalled'[m]
  BY DEF stopOpenVPN
<1>3. ASSUME NEW m \in Session, peer[m] # Null, m \in Range(active), mgmt[m] = "connected",
             proc[peer[m]] = "running"
      PROVE  signalled'[peer[m]]
  <2>1. peer[m] \in Session /\ CanCommand(m)
    BY <1>3, ServiceAssumption DEF TypeOK, Session, Null, CanCommand
  <2> QED BY <1>3, <2>1 DEF stopOpenVPN
<1>4. ASSUME NEW m \in Session, peer[m] # Null, proc[peer[m]] = "running"
      PROVE  signalled'[peer[m]]
  <2>1. peer[m] \in Session
    BY <1>4, ServiceAssumption DEF TypeOK, Session, Null
  <2>2. signalled[peer[m]] \/ (mgmt[m] = "connected" /\ m \in Range(active))
    BY <1>4 DEF StopInv, AttachedIsStoppable
  <2> QED BY <1>2, <1>3, <1>4, <2>1, <2>2
<1>5. AttachedIsStoppable'
  BY <1>4 DEF AttachedIsStoppable
<1> QED BY <1>1, <1>5 DEF StopInv, GoesOn

LEMMA StopExit ==
    ASSUME TypeOK, StopInv, NEW p \in Session, proc[p] = "running",
           proc' = [proc EXCEPT ![p] = "exited"],
           UNCHANGED <<mgmt, peer, signalled, active, starter, starts>>
    PROVE  StopInv'
<1>1. \A s \in Session : proc'[s] = IF s = p THEN "exited" ELSE proc[s]
  BY DEF TypeOK
<1>2. \A m \in Session : peer[m] # Null => peer[m] \in Session
  BY ServiceAssumption DEF TypeOK, Session, Null
<1>3. AttachedIsStoppable'
  BY <1>1, <1>2 DEF StopInv, AttachedIsStoppable
<1> QED BY <1>1, <1>2, <1>3 DEF StopInv

LEMMA StopOpen ==
    ASSUME TypeOK, StopInv, NEW s \in Session, openManagementInterface(s),
           mgmt' = [mgmt EXCEPT ![s] = "accepting"], active' = Append(active, s),
           Step(s, "open", "launch")
    PROVE  StopInv'
<1>1. /\ active \in Seq(Session)
      /\ mgmt \in [Session -> {"none", "accepting", "connected", "closed", "ended"}]
      /\ starter \in [Session -> {"none", "done"} \cup Starting \cup Ending]
  BY DEF TypeOK
<1>2. /\ s \in Range(active')
      /\ \A m \in Range(active) : m \in Range(active')
  <2>1. /\ Len(active') = Len(active) + 1 /\ active'[Len(active) + 1] = s
        /\ \A i \in 1..Len(active) : active'[i] = active[i]
        /\ Len(active) \in Nat /\ DOMAIN active = 1..Len(active)
        /\ DOMAIN active' = 1..Len(active')
    BY <1>1
  <2> QED BY <2>1 DEF Range
<1>3. /\ starter[s] = "open"
      /\ \A t \in Session : starter'[t] = IF t = s THEN "launch" ELSE starter[t]
      /\ \A t \in Session : mgmt'[t] = IF t = s THEN "accepting" ELSE mgmt[t]
  BY <1>1 DEF Step
<1>4. UNCHANGED <<proc, peer, signalled, starts>>
  BY DEF openManagementInterface, sessionVars
<1>5. mgmt[s] = "none" /\ proc[s] = "none" /\ peer[s] = Null
  BY <1>3 DEF StopInv, BeforeOpen
<1>6. AttachedIsStoppable'
  BY <1>2, <1>3, <1>4, <1>5 DEF StopInv, AttachedIsStoppable
<1>7. ASSUME NEW t \in Session
      PROVE  /\ t > starts' => starter'[t] = "none"
             /\ starter'[t] \in BeforeOpen => mgmt'[t] = "none"
             /\ starter'[t] \in BeforeOpen \cup {"launch"} => proc'[t] = "none"
             /\ mgmt'[t] \in {"accepting", "connected", "closed"} => t \in Range(active')
             /\ mgmt'[t] \in {"none", "accepting"} => peer'[t] = Null
             /\ peer'[t] # Null => proc'[peer'[t]] # "none"
  BY <1>2, <1>3, <1>4, <1>5 DEF StopInv, BeforeOpen
<1> QED BY <1>6, <1>7 DEF StopInv

LEMMA StopLaunch ==
    ASSUME TypeOK, StopInv, NEW s \in Session, Launch(s)
    PROVE  StopInv'
<1>1. /\ starter[s] = "launch"
      /\ \A t \in Session : starter'[t] = IF t = s THEN "done" ELSE starter[t]
      /\ \A t \in Session : proc'[t] = IF t = s THEN "running" ELSE proc[t]
      /\ UNCHANGED <<mgmt, peer, signalled, active, starts>>
  BY DEF Launch, Step, TypeOK, socketVars, boundVars
<1>2. \A m \in Session : peer[m] # s
  <2>1. proc[s] = "none" /\ s # Null
    BY <1>1, ServiceAssumption DEF StopInv, Session, Null
  <2> QED BY <2>1 DEF StopInv
<1>3. \A m \in Session : peer[m] # Null => peer[m] \in Session
  BY ServiceAssumption DEF TypeOK, Session, Null
<1>4. AttachedIsStoppable'
  BY <1>1, <1>2, <1>3 DEF StopInv, AttachedIsStoppable
<1> QED BY <1>1, <1>2, <1>3, <1>4 DEF StopInv, BeforeOpen

LEMMA StopConnect ==
    ASSUME TypeOK, StopInv, NEW p \in Session, Connect(p)
    PROVE  StopInv'
<1>1. CASE bound # Null /\ mgmt[bound] = "accepting"
  <2>1. bound \in Session /\ p # Null
    BY <1>1, ServiceAssumption DEF TypeOK, Session, Null
  <2>2. /\ \A m \in Session : mgmt'[m] = IF m = bound THEN "connected" ELSE mgmt[m]
        /\ \A m \in Session : peer'[m] = IF m = bound THEN p ELSE peer[m]
        /\ proc[p] = "running"
        /\ UNCHANGED <<proc, signalled, active, starter, starts>>
    BY <1>1, <2>1 DEF Connect, TypeOK, boundVars
  <2>3. bound \in Range(active)
    BY <1>1, <2>1 DEF StopInv
  <2>4. AttachedIsStoppable'
    BY <2>1, <2>2, <2>3 DEF StopInv, AttachedIsStoppable
  <2>5. starter[bound] \notin BeforeOpen
    BY <1>1, <2>1 DEF StopInv
  <2> QED BY <2>1, <2>2, <2>3, <2>4, <2>5 DEF StopInv
<1>2. CASE ~(bound # Null /\ mgmt[bound] = "accepting")
  <2>1. /\ proc[p] = "running" /\ proc' = [proc EXCEPT ![p] = "exited"]
        /\ UNCHANGED <<mgmt, peer, signalled, active, starter, starts>>
    BY <1>2 DEF Connect, boundVars
  <2> QED BY <2>1, StopExit
<1> QED BY <1>1, <1>2

LEMMA StopManagementEnds ==
    ASSUME TypeOK, StopInv, NEW m \in Session, ManagementEnds(m)
    PROVE  StopInv'
<1>1. /\ \A t \in Session : mgmt'[t] = IF t = m THEN "ended" ELSE mgmt[t]
      /\ UNCHANGED <<proc, peer, signalled, starter, starts>>
  BY DEF ManagementEnds, TypeOK, sessionVars, boundVars
<1>2. \A t \in Session : t # m /\ t \in Range(active) => t \in Range(active')
  <2>1. CASE UNCHANGED active
    BY <2>1
  <2>2. CASE removeActive(m)
    <3>1. active \in Seq(Session)
      BY DEF TypeOK
    <3>2. PICK i \in DOMAIN active : active[i] = m /\ active' = RemoveAt(active, i)
      BY <2>2 DEF removeActive
    <3> QED BY <3>1, <3>2, RemoveActive
  <2> QED BY <2>1, <2>2 DEF ManagementEnds
<1>3. \/ mgmt[m] = "connected" /\ proc[peer[m]] = "exited"
      \/ mgmt[m] = "closed"
  BY DEF ManagementEnds
<1>4. peer[m] # Null /\ proc[peer[m]] = "running" => signalled[peer[m]]
  BY <1>3 DEF StopInv, AttachedIsStoppable
<1>5. AttachedIsStoppable'
  BY <1>1, <1>2, <1>4 DEF StopInv, AttachedIsStoppable
<1>6. starter[m] \notin BeforeOpen
  BY <1>3 DEF StopInv
<1> QED BY <1>1, <1>2, <1>5, <1>6 DEF StopInv

socketFields == <<mgmt, proc, peer, signalled, active>>

LEMMA StopMain ==
    ASSUME TypeOK, StopInv, Requests \/ MainThread \/ RevokeEnds
    PROVE  StopInv'
<1>1. CASE onStartCommand
  <2>1. /\ starts \in Nat /\ starts + 1 \in Session
        /\ starter \in [Session -> {"none", "done"} \cup Starting \cup Ending]
    BY <1>1, ServiceAssumption DEF onStartCommand, Request, TypeOK, Session
  <2>2. starter[starts + 1] = "none"
    BY <2>1 DEF StopInv
  <2>3. /\ starts' = starts + 1
        /\ \A t \in Session : starter'[t] = IF t = starts + 1 THEN "config" ELSE starter[t]
    BY <1>1, <2>1 DEF onStartCommand
  <2>4. GoesOn
    BY <2>1, <2>2, <2>3 DEF GoesOn, StopInv, BeforeOpen, Session
  <2>5. UNCHANGED socketFields
    BY <1>1 DEF onStartCommand, sessionVars, socketVars, socketFields
  <2> QED BY <2>4, <2>5, StopSame DEF socketFields
<1>2. CASE StartNoProfile \/ setConnectedVpnProfile \/ registerDeviceStateReceiver \/ RevokeEnds
  <2>1. UNCHANGED socketFields /\ UNCHANGED <<starts, starter>>
    BY <1>2 DEF StartNoProfile, setConnectedVpnProfile, registerDeviceStateReceiver, RevokeEnds,
       endVpnService, sessionVars, socketVars, boundVars, socketFields
  <2> QED BY <2>1, StopSame, GoesOnSame DEF socketFields
<1>3. CASE stopVPN \/ onRevoke
  <2>1. stopOpenVPN /\ UNCHANGED <<proc, peer, active, starts, starter>>
    BY <1>3 DEF stopVPN, onRevoke
  <2> QED BY <2>1, StopStop, GoesOnSame
<1>4. CASE onDestroy
  <2>1. UNCHANGED <<proc, peer, active, starts, starter>>
    BY <1>4 DEF onDestroy, boundVars
  <2>2. CASE stopOpenVPN
    BY <2>1, <2>2, StopStop, GoesOnSame
  <2>3. CASE UNCHANGED <<signalled, mgmt>>
    BY <2>1, <2>3, StopSame, GoesOnSame
  <2> QED BY <1>4, <2>2, <2>3, Zenon DEF onDestroy
<1> QED BY <1>1, <1>2, <1>3, <1>4 DEF Requests, MainThread

LEMMA StopStarter ==
    ASSUME TypeOK, StopInv, NEW s \in Session, Starter(s)
    PROVE  StopInv'
<1>1. CASE stopOldOpenVPNProcess(s)
  <2>1. UNCHANGED <<proc, peer, active, starts>>
    BY <1>1 DEF stopOldOpenVPNProcess, boundVars
  <2>2. \E to \in {"sleeping", "force"} : Step(s, "stopping", to)
    BY <1>1 DEF stopOldOpenVPNProcess
  <2>3. GoesOn
    BY <2>1, <2>2, GoesOnStep DEF BeforeOpen
  <2>4. CASE stopOpenVPN
    BY <2>1, <2>3, <2>4, StopStop
  <2>5. CASE UNCHANGED <<signalled, mgmt>>
    BY <2>1, <2>3, <2>5, StopSame
  <2> QED BY <1>1, <2>4, <2>5 DEF stopOldOpenVPNProcess
<1>2. CASE openManagementInterface(s)
  <2>1. CASE Step(s, "open", "launch") /\ mgmt' = [mgmt EXCEPT ![s] = "accepting"]
             /\ active' = Append(active, s)
    BY <1>2, <2>1, StopOpen
  <2>2. CASE Step(s, "open", "lock") /\ UNCHANGED <<mgmt, active>>
    <3>1. GoesOn
      BY <1>2, <2>2, GoesOnStep DEF openManagementInterface, BeforeOpen
    <3> QED BY <1>2, <2>2, <3>1, StopSame DEF openManagementInterface, sessionVars
  <2> QED BY <1>2, <2>1, <2>2 DEF openManagementInterface
<1>3. CASE Launch(s)
  BY <1>3, StopLaunch
<1>4. CASE writeConfigFile(s) \/ SleepOver(s) \/ forceStopOpenVpnProcess(s)
           \/ ForceSleepOver(s) \/ ClearStarting(s)
  <2>1. UNCHANGED socketFields /\ UNCHANGED starts
    BY <1>4 DEF writeConfigFile, SleepOver, forceStopOpenVpnProcess, ForceSleepOver,
       ClearStarting, sessionVars, socketVars, boundVars, socketFields
  <2>2. \E from, to \in BeforeOpen \cup {"lock"} :
           from \in BeforeOpen /\ from # "none" /\ to # "launch" /\ Step(s, from, to)
    BY <1>4 DEF writeConfigFile, SleepOver, forceStopOpenVpnProcess, ForceSleepOver,
       ClearStarting, BeforeOpen
  <2>3. GoesOn
    BY <2>1, <2>2, GoesOnStep
  <2> QED BY <2>1, <2>3, StopSame DEF socketFields
<1>5. CASE FailedStartEnds(s)
  <2>1. UNCHANGED socketFields /\ UNCHANGED starts
    BY <1>5 DEF FailedStartEnds, endVpnService, sessionVars, socketVars, boundVars, socketFields
  <2>2. starter[s] \in Ending /\ After(starter[s], "done") \in Ending \cup {"done"}
    BY <1>5, AfterType DEF FailedStartEnds
  <2>3. Step(s, starter[s], After(starter[s], "done"))
    BY <1>5 DEF FailedStartEnds, Step
  <2>4. GoesOn
    BY <2>1, <2>2, <2>3, GoesOnStep DEF Ending, BeforeOpen
  <2> QED BY <2>1, <2>4, StopSame DEF socketFields
<1> QED BY <1>1, <1>2, <1>3, <1>4, <1>5 DEF Starter

LEMMA StopOthers ==
    ASSUME TypeOK, StopInv, NEW s \in Session,
           \/ OpenVPNThread(s) \/ stopProcess(s) \/ Connect(s) \/ updateStateString(s)
           \/ Obey(s) \/ ExitAlone(s) \/ ManagementEnds(s)
    PROVE  StopInv'
<1>1. CASE stopProcess(s) \/ Obey(s) \/ ExitAlone(s)
  <2>1. /\ proc[s] = "running" /\ proc' = [proc EXCEPT ![s] = "exited"]
        /\ UNCHANGED <<mgmt, peer, signalled, active, starter, starts>>
    BY <1>1 DEF stopProcess, Obey, ExitAlone, socketVars, boundVars
  <2> QED BY <2>1, StopExit
<1>2. CASE OpenVPNThread(s) \/ updateStateString(s)
  <2>1. UNCHANGED socketFields /\ UNCHANGED <<starter, starts>>
    BY <1>2 DEF OpenVPNThread, EndOfOutput, ReportNoProcess, openvpnStopped, ThreadEnds,
       updateStateString, endVpnService, sessionVars, socketVars, boundVars, socketFields
  <2> QED BY <2>1, StopSame, GoesOnSame DEF socketFields
<1> QED BY <1>1, <1>2, StopConnect, StopManagementEnds

LEMMA StopStep == TypeOK /\ StopInv /\ [Next]_vars => StopInv'
<1> SUFFICES ASSUME TypeOK, StopInv, [Next]_vars PROVE StopInv'
  OBVIOUS
<1>1. CASE UNCHANGED vars
  <2>1. UNCHANGED socketFields /\ UNCHANGED <<starter, starts>>
    BY <1>1 DEF vars, sessionVars, socketVars, boundVars, socketFields
  <2> QED BY <2>1, StopSame, GoesOnSame DEF socketFields
<1>2. ASSUME NEW s \in Session,
             \/ Starter(s) \/ stopProcess(s) \/ OpenVPNThread(s) \/ Connect(s)
             \/ updateStateString(s) \/ Obey(s) \/ ExitAlone(s) \/ ManagementEnds(s)
      PROVE  StopInv'
  BY <1>2, StopStarter, StopOthers
<1> QED BY <1>1, <1>2, StopMain DEF Next

-----------------------------------------------------------------------------
(* An orderly history.  The facts about a session that every step uses.    *)
invDefs == <<service, foreground, main, revoker, mProcessThread, mOpenVPNThread, mManagement, mStarting,
             mDeviceStateReceiver, lastConnected, posted, status, starter, thread, mgmt, proc,
             replaced, signalled, interrupted, bound, peer, starts>>

LEMMA OrderSame ==
    ASSUME InOrder, UNCHANGED invDefs
    PROVE  InOrder'
  BY DEF InOrder, invDefs, SessionInv, OldInv, LatestInv, StartingInv, RunningInv, Controlled,
     RunsOut, Over, Told, Idle

LEMMA SessionFacts ==
    ASSUME TypeOK, NEW s \in Session
    PROVE  /\ s \in Int /\ s > 0 /\ s # Null /\ starts \in Int
           /\ mgmt[s] \in {"none", "accepting", "connected", "closed", "ended"}
           /\ proc[s] \in {"none", "running", "exited"}
           /\ thread[s] \in {"none", "reading", "reporting", "deciding", "ended"} \cup Ending
           /\ starter[s] \in {"none", "done"} \cup Starting \cup Ending
  BY ServiceAssumption DEF TypeOK, Session, Null

(* A start goes on, and may interrupt the thread of the session before.    *)
LEMMA OrderGoesOn ==
    ASSUME TypeOK, StopInv, InOrder, NEW s \in Session,
           NEW from \in Starting, NEW to \in Starting, Step(s, from, to),
           from # "launch", to # "launch", to = "open" => ~mStarting',
           from \notin {"config", "stopping"} \/ to \in {"config", "stopping"},
           \A t \in Session : interrupted'[t] =>
              interrupted[t] \/ (t = mProcessThread /\ from = "force"),
           UNCHANGED <<service, foreground, main, revoker, mProcessThread, mOpenVPNThread, mManagement,
                       mDeviceStateReceiver, lastConnected, posted, status, thread, mgmt, proc,
                       replaced, signalled, bound, peer, starts>>
    PROVE  InOrder'
<1>1. /\ \A t \in Session : starter'[t] = IF t = s THEN to ELSE starter[t]
      /\ starter[s] = from /\ from # "done" /\ to # "done" /\ to \notin Ending /\ to # "none"
  BY DEF Step, TypeOK, Starting, Ending
<1>2. s = starts
  BY <1>1, SessionFacts DEF InOrder, SessionInv, StopInv, Starting
<1>3. ASSUME NEW t \in Session PROVE SessionInv(t)'
  <2>1. SessionInv(t) /\ mOpenVPNThread # s /\ mProcessThread # s
    BY <1>1 DEF InOrder, SessionInv
  <2>2. interrupted'[t] => interrupted[t] \/ t < starts
    BY <1>2, <2>1, SessionFacts DEF InOrder, SessionInv, StopInv
  <2> QED BY <1>1, <1>2, <2>1, <2>2, SessionFacts DEF SessionInv
<1>4. ASSUME NEW t \in Session, t < starts' PROVE OldInv(t)'
  BY <1>1, <1>2, <1>4, SessionFacts DEF InOrder, OldInv, Controlled, RunsOut, Over, Told
<1>5. LatestInv(s)'
  BY <1>1, <1>2, SessionFacts DEF InOrder, SessionInv, LatestInv, StartingInv, Idle
<1> QED BY <1>2, <1>3, <1>4, <1>5, SessionFacts DEF InOrder

(* What stopOpenVPN() does to sessions that have their own sockets.        *)
LEMMA StopFacts ==
    ASSUME TypeOK, StopInv, InOrder, stopOpenVPN, NEW t \in Session
    PROVE  /\ signalled[t] => signalled'[t]
           /\ signalled'[t] => signalled[t] \/ proc[t] = "running"
           /\ mgmt'[t] = mgmt[t] \/ (mgmt[t] = "connected" /\ mgmt'[t] = "closed")
           /\ proc[t] = "running" /\ mgmt[t] = "connected" => signalled'[t]
<1>1. signalled'[t] = (signalled[t] \/
         \E m \in Range(active) : CanCommand(m) /\ peer[m] = t)
  BY DEF stopOpenVPN
<1>2. ASSUME NEW m \in Range(active), CanCommand(m), peer[m] = t
      PROVE  proc[t] = "running"
  BY <1>2 DEF CanCommand
<1>3. mgmt'[t] = mgmt[t] \/ (mgmt[t] = "connected" /\ mgmt'[t] = "closed")
  BY DEF stopOpenVPN
<1>4. ASSUME proc[t] = "running", mgmt[t] = "connected"
      PROVE  signalled'[t]
  <2>1. peer[t] = t /\ t \in Range(active)
    BY <1>4 DEF InOrder, SessionInv, StopInv
  <2> QED BY <1>1, <1>4, <2>1 DEF CanCommand
<1> QED BY <1>1, <1>2, <1>3, <1>4

(* When everything has settled the earlier sessions have ended, and the    *)
(* latest is in the hand of the service unless that is being stopped.      *)
LEMMA SettledFacts ==
    ASSUME TypeOK, StopInv, InOrder, Settled, NEW t \in Session
    PROVE  /\ t < starts => thread[t] = "ended"
           /\ t = starts => starter[t] = "done" /\ thread[t] \in {"reading", "ended"}
           /\ t = starts /\ (thread[t] = "reading" \/ service = "up") =>
                 RunningInv(t) /\ ~Over(t) /\ mgmt[t] = "connected"
<1>1. /\ starter[t] \in {"none", "done"} /\ thread[t] \in {"none", "reading", "ended"}
      /\ thread[t] = "reading" => proc[t] = "running" /\ ~signalled[t] /\ Attached(t)
  BY DEF Settled
<1>2. ASSUME Attached(t) PROVE mgmt[t] = "connected"
  BY <1>2, SessionFacts DEF Attached, InOrder, SessionInv
<1>3. ASSUME t < starts PROVE thread[t] = "ended"
  <2>1. starts \in Session
    BY <1>3, ServiceAssumption DEF TypeOK, Session
  <2>2. starter[starts] \notin {"config", "stopping"}
    BY <2>1 DEF Settled
  <2> QED BY <1>1, <1>3, <2>2 DEF InOrder, OldInv, RunsOut
<1>4. ASSUME t = starts PROVE starter[t] = "done" /\ thread[t] \in {"reading", "ended"}
  BY <1>1, <1>4 DEF InOrder, SessionInv
<1>5. ASSUME t = starts, thread[t] = "reading" \/ service = "up"
      PROVE  RunningInv(t) /\ ~Over(t) /\ mgmt[t] = "connected"
  <2>1. thread[t] = "reading"
    BY <1>4, <1>5 DEF InOrder, LatestInv
  <2>2. proc[t] = "running" /\ ~signalled[t] /\ mgmt[t] = "connected"
    BY <1>1, <1>2, <2>1
  <2> QED BY <1>4, <1>5, <2>2 DEF InOrder, LatestInv, Over
<1> QED BY <1>3, <1>4, <1>5

(* Requests, which come when everything has settled.                       *)
LEMMA OrderStart ==
    ASSUME TypeOK, StopInv, InOrder, Settled, service = "up", onStartCommand
    PROVE  InOrder'
<1> DEFINE n == starts + 1
<1>1. /\ starts \in Nat /\ n \in Session /\ service = "up"
      /\ starter \in [Session -> {"none", "done"} \cup Starting \cup Ending]
  BY ServiceAssumption DEF onStartCommand, Request, TypeOK, Session
<1>2. /\ starts' = n /\ foreground' = TRUE /\ status' = "GENERATE_CONFIG" /\ main' = "setting"
      /\ \A t \in Session : starter'[t] = IF t = n THEN "config" ELSE starter[t]
      /\ UNCHANGED <<service, revoker, mProcessThread, mOpenVPNThread, mManagement, mStarting,
             mDeviceStateReceiver, lastConnected, posted, thread, mgmt, proc,
             replaced, signalled, interrupted, bound, peer>>
  BY <1>1 DEF onStartCommand, fieldVars, sessionVars, socketVars
<1>3. starter[n] = "none" /\ posted = 0 /\ Idle
  BY <1>1 DEF StopInv, Settled, Idle
<1>4. \A t \in Session : t = starts => RunningInv(t) /\ ~Over(t) /\ mgmt[t] = "connected" /\ starter[t] = "done"
  BY <1>1, SettledFacts
<1>5. \A t \in Session : t < starts => thread[t] = "ended"
  BY SettledFacts
<1> HIDE DEF n
<1>6. ASSUME NEW t \in Session PROVE SessionInv(t)'
  <2>1. n = starts + 1
    BY DEF n
  <2> QED BY <1>1, <1>2, <1>3, <1>4, <2>1, SessionFacts
          DEF InOrder, SessionInv, Ending, RunningInv, Controlled
<1>7. ASSUME NEW t \in Session, t < starts' PROVE OldInv(t)'
  <2>1. t = starts \/ t < starts
    BY <1>1, <1>2, <1>7, SessionFacts DEF n
  <2> QED BY <1>1, <1>2, <1>4, <1>5, <2>1 DEF OldInv, RunningInv, Controlled, Told
<1>8. ASSUME NEW t \in Session, t = starts' PROVE LatestInv(t)'
  <2>1. t > starts /\ starter[t] = "none"
    BY <1>1, <1>2, <1>3, <1>8 DEF n
  <2>2. ~signalled[t] /\ thread[t] = "none"
    BY <2>1, SessionFacts DEF InOrder, SessionInv
  <2>3. starter'[t] = "config" /\ signalled'[t] = FALSE /\ thread'[t] = "none"
    BY <1>2, <1>8, <2>2
  <2>4. StartingInv(t)'
    BY <1>1, <1>2, <1>3, <2>3 DEF StartingInv, Idle
  <2> QED BY <1>2, <2>3, <2>4 DEF LatestInv
<1>9. starts' # 0
  BY <1>1, <1>2 DEF n
<1> QED BY <1>6, <1>7, <1>8, <1>9 DEF InOrder

LEMMA OrderNoProfile ==
    ASSUME TypeOK, StopInv, InOrder, Settled, service = "up", StartNoProfile
    PROVE  InOrder'
<1>1. /\ service' = "stopping" /\ foreground' = TRUE /\ status' = "GENERATE_CONFIG"
      /\ UNCHANGED <<main, revoker, mProcessThread, mOpenVPNThread, mManagement, mStarting,
             mDeviceStateReceiver, lastConnected, posted, starter, thread, mgmt, proc,
             replaced, signalled, interrupted, bound, peer, starts>>
  BY DEF StartNoProfile, fieldVars, sessionVars, socketVars
<1>2. ASSUME NEW t \in Session PROVE SessionInv(t)'
  BY <1>1 DEF InOrder, SessionInv
<1>3. ASSUME NEW t \in Session, t < starts' PROVE OldInv(t)'
  BY <1>1, <1>3, SettledFacts DEF OldInv
<1>4. ASSUME NEW t \in Session, t = starts' PROVE LatestInv(t)'
  <2>1. starter[t] = "done" /\ service = "up"
    BY <1>1, <1>4, SettledFacts DEF StartNoProfile, Request
  <2>2. RunningInv(t) /\ mgmt[t] = "connected" /\ LatestInv(t)
    BY <1>1, <1>4, <2>1, SettledFacts DEF InOrder
  <2> QED BY <1>1, <2>1, <2>2 DEF LatestInv, RunningInv, Controlled, Over, Told, Idle, Starting
<1> QED BY <1>1, <1>2, <1>3, <1>4 DEF InOrder, Idle

(* stopVPN() and onRevoke() leave the latest session over.                 *)
LEMMA OrderStop ==
    ASSUME TypeOK, StopInv, InOrder, Settled, service = "up", stopVPN \/ onRevoke
    PROVE  InOrder'
<1>1. /\ stopOpenVPN /\ mManagement # Null /\ service = "up"
      /\ UNCHANGED <<service, foreground, main, mProcessThread, mOpenVPNThread, mManagement, mStarting,
             mDeviceStateReceiver, lastConnected, posted, status, starter, thread, proc,
             replaced, interrupted, bound, peer, starts>>
  BY DEF stopVPN, onRevoke, Request, fieldVars
<1>2. ASSUME NEW t \in Session PROVE SessionInv(t)'
  <2>1. t > starts => proc[t] # "running"
    BY DEF InOrder, SessionInv, StopInv
  <2>2. proc[t] = "running" => peer[t] = t
    <3>1. t < starts => thread[t] = "ended"
      BY SettledFacts
    <3>2. t = starts => mgmt[t] = "connected"
      BY <1>1, SettledFacts
    <3> QED BY <2>1, <3>1, <3>2, SessionFacts DEF InOrder, SessionInv
  <2> QED BY <1>1, <2>1, <2>2, StopFacts, SessionFacts DEF InOrder, SessionInv
<1>3. ASSUME NEW t \in Session, t < starts' PROVE OldInv(t)'
  BY <1>1, <1>3, SettledFacts DEF OldInv
<1>4. ASSUME NEW t \in Session, t = starts' PROVE LatestInv(t)'
  <2>1. RunningInv(t) /\ mgmt[t] = "connected" /\ LatestInv(t) /\ starter[t] = "done"
    BY <1>1, <1>4, SettledFacts DEF InOrder
  <2>2. signalled'[t]
    BY <1>1, <2>1, StopFacts DEF RunningInv, Controlled
  <2> QED BY <1>1, <2>1, <2>2 DEF LatestInv, Over, Starting
<1>5. starts # 0
  BY <1>1 DEF InOrder
<1> QED BY <1>1, <1>2, <1>3, <1>4, <1>5 DEF InOrder

(* The other steps of the main thread.                                     *)
LEMMA OrderMain ==
    ASSUME TypeOK, StopInv, InOrder, setConnectedVpnProfile \/ registerDeviceStateReceiver
    PROVE  InOrder'
<1>1. /\ main' = "idle"
      /\ UNCHANGED <<service, foreground, revoker, mProcessThread, mOpenVPNThread, mManagement, mStarting,
             status, starter, thread, mgmt, proc,
             replaced, signalled, interrupted, bound, peer, starts>>
  BY DEF setConnectedVpnProfile, registerDeviceStateReceiver, sessionVars, socketVars, boundVars
<1>2. \/ lastConnected' = starts /\ UNCHANGED <<posted, mDeviceStateReceiver>>
      \/ /\ main = "idle" /\ posted > 0 /\ mDeviceStateReceiver' = mManagement
         /\ UNCHANGED lastConnected
  BY DEF setConnectedVpnProfile, registerDeviceStateReceiver
<1>3. ASSUME NEW t \in Session PROVE SessionInv(t)'
  BY <1>1 DEF InOrder, SessionInv
<1>4. ASSUME NEW t \in Session, t < starts' PROVE OldInv(t)'
  BY <1>1, <1>4 DEF InOrder, OldInv, Controlled, RunsOut, Over, Told
<1>5. ASSUME NEW t \in Session, t = starts' PROVE LatestInv(t)'
  <2>1. LatestInv(t) /\ t = starts
    BY <1>1, <1>5 DEF InOrder
  <2>2. starter[t] \in Starting => posted = 0 /\ posted' = 0
    BY <1>2, <2>1 DEF LatestInv, StartingInv
  <2>3. starter'[t] \in Starting => StartingInv(t)'
    BY <1>1, <1>2, <2>1, <2>2 DEF LatestInv, StartingInv, Idle
  <2>4. starter'[t] = "done" /\ ~Over(t)' => RunningInv(t)'
    BY <1>1, <1>2, <2>1 DEF LatestInv, RunningInv, Controlled, Over, Told, Idle
  <2> QED BY <1>1, <2>1, <2>3, <2>4 DEF LatestInv
<1>6. starts = 0 => posted = 0 /\ posted' = 0
  BY <1>2 DEF InOrder
<1> QED BY <1>1, <1>3, <1>4, <1>5, <1>6 DEF InOrder, Idle

(* The session that is ended is over, whoever ends it.                     *)
LEMMA OrderEnds ==
    ASSUME TypeOK, StopInv, InOrder, NEW s \in Session, s = starts, starter[s] = "done", Over(s),
           NEW at \in Ending, endVpnService(at),
           \A t \in Session \ {s} : thread'[t] = thread[t],
           \/ thread'[s] = thread[s]
           \/ /\ thread[s] \in Ending /\ at = thread[s]
              /\ thread'[s] = After(at, "ended"),
           UNCHANGED <<main, starter, proc, replaced, signalled, interrupted, starts>>
    PROVE  InOrder'
<1>1. /\ service' = service \/ (service' = "stopping" /\ ~foreground')
      /\ foreground' = foreground \/ service' # "up"
      /\ at = "stop" => service' # "up"
      /\ mProcessThread' \in {mProcessThread, Null} /\ mOpenVPNThread' \in {mOpenVPNThread, Null}
      /\ UNCHANGED <<mManagement, mStarting, posted, status, mgmt, bound, peer>>
  <2>1. ~mStarting
    BY DEF InOrder, LatestInv
  <2> QED BY <2>1 DEF endVpnService, EndLock, EndClear, EndStop, Ending, socketVars, TypeOK
<1>2. ASSUME NEW t \in Session PROVE SessionInv(t)'
  <2>1. After(at, "ended") # "none" /\ (thread[s] = "reading" => thread[s] \notin Ending)
    BY DEF After, Ending
  <2> QED BY <1>1, <2>1, SessionFacts DEF InOrder, SessionInv
<1>3. ASSUME NEW t \in Session, t < starts' PROVE OldInv(t)'
  <2>1. t # s /\ t < starts
    BY <1>3, SessionFacts
  <2>2. thread[t] = "ended"
    BY <2>1 DEF InOrder, OldInv, Over
  <2> QED BY <2>1, <2>2 DEF OldInv
<1>4. LatestInv(s)'
  <2>1. LatestInv(s)
    BY DEF InOrder
  <2>2. thread'[s] = "ended" => service' # "up"
    BY <1>1, <2>1 DEF After, Ending, LatestInv
  <2> QED BY <1>1, <2>1, <2>2 DEF LatestInv, Over, Starting
<1>5. starts' # 0
  BY SessionFacts
<1> QED BY <1>2, <1>3, <1>4, <1>5 DEF InOrder

LEMMA OrderRevokeEnds ==
    ASSUME TypeOK, StopInv, InOrder, RevokeEnds
    PROVE  InOrder'
<1>1. revoker \in Ending /\ ~Idle
  BY DEF RevokeEnds, Idle, Ending
<1>2. starts \in Session
  BY <1>1, ServiceAssumption DEF InOrder, TypeOK, Session
<1>3. starter[starts] = "done" /\ Over(starts)
  BY <1>1, <1>2, SessionFacts DEF InOrder, LatestInv, SessionInv, StartingInv, RunningInv
<1>4. /\ endVpnService(revoker)
      /\ UNCHANGED <<main, starter, thread, proc, replaced, signalled, interrupted, starts>>
  BY DEF RevokeEnds, sessionVars, boundVars
<1> QED BY <1>1, <1>2, <1>3, <1>4, OrderEnds

(* When the service is destroyed the latest session is told to stop: it is *)
(* over already, or connected to its management thread.                    *)
LEMMA OrderDestroy ==
    ASSUME TypeOK, StopInv, InOrder, onDestroy
    PROVE  InOrder'
<1>1. /\ service = "stopping" /\ service' = "destroyed" /\ foreground' = FALSE
      /\ stopOpenVPN \/ (mProcessThread = Null /\ UNCHANGED <<signalled, mgmt>>)
      /\ UNCHANGED <<main, revoker, mProcessThread, mOpenVPNThread, mManagement, mStarting,
             mDeviceStateReceiver, lastConnected, posted, status, starter, thread, proc,
             replaced, interrupted, bound, peer, starts>>
  BY DEF onDestroy, fieldVars, boundVars
<1>2. ASSUME NEW t \in Session
      PROVE  /\ signalled[t] => signalled'[t]
             /\ signalled'[t] => signalled[t] \/ proc[t] = "running"
             /\ mgmt'[t] = mgmt[t] \/ (mgmt[t] = "connected" /\ mgmt'[t] = "closed")
  BY <1>1, StopFacts
<1>3. ASSUME NEW t \in Session, t = starts, starter[t] = "done"
      PROVE  Over(t)'
  <2>1. CASE Over(t)
    BY <1>1, <1>2, <2>1 DEF Over
  <2>2. CASE ~Over(t)
    <3>1. RunningInv(t) /\ mgmt[t] = "connected"
      BY <1>1, <1>3, <2>2 DEF InOrder, LatestInv, RunningInv
    <3>2. mProcessThread # Null
      BY <3>1, SessionFacts DEF RunningInv, Controlled
    <3> QED BY <1>1, <3>1, <3>2, StopFacts DEF RunningInv, Controlled, Over
  <2> QED BY <2>1, <2>2
<1>4. ASSUME NEW t \in Session PROVE SessionInv(t)'
  <2>1. t > starts => proc[t] # "running"
    BY DEF InOrder, SessionInv, StopInv
  <2> QED BY <1>1, <1>2, <2>1, SessionFacts DEF InOrder, SessionInv
<1>5. ASSUME NEW t \in Session, t = starts PROVE starter[t] = "done"
  BY <1>1, <1>5, SessionFacts DEF InOrder, LatestInv, SessionInv, StartingInv
<1>6. ASSUME NEW t \in Session, t < starts' PROVE OldInv(t)'
  <2>1. starts \in Session /\ t < starts
    BY <1>1, <1>6, ServiceAssumption DEF TypeOK, Session
  <2>2. thread[t] = "ended"
    BY <1>1, <1>5, <2>1 DEF InOrder, OldInv
  <2> QED BY <1>1, <2>2 DEF OldInv
<1>7. ASSUME NEW t \in Session, t = starts' PROVE LatestInv(t)'
  BY <1>1, <1>3, <1>5, <1>7 DEF InOrder, LatestInv, Starting
<1> QED BY <1>1, <1>4, <1>6, <1>7 DEF InOrder, Idle

(* The thread that starts a session.                                       *)
LEMMA OrderReplace ==
    ASSUME TypeOK, StopInv, InOrder, NEW s \in Session, stopOldOpenVPNProcess(s)
    PROVE  InOrder'
<1>1. PICK to \in {"sleeping", "force"} : Step(s, "stopping", to)
  BY DEF stopOldOpenVPNProcess
<1>2. /\ \A t \in Session : starter'[t] = IF t = s THEN to ELSE starter[t]
      /\ starter[s] = "stopping"
  BY <1>1 DEF Step, TypeOK
<1>3. /\ \/ /\ stopOpenVPN /\ mManagement # Null
            /\ \A t \in Session : replaced'[t] = (replaced[t] \/ t = mOpenVPNThread)
         \/ mManagement = Null /\ UNCHANGED <<replaced, signalled, mgmt>>
      /\ UNCHANGED <<service, foreground, main, revoker, mProcessThread, mOpenVPNThread, mManagement, mStarting,
             mDeviceStateReceiver, lastConnected, posted, status, thread, proc,
             interrupted, bound, peer, starts>>
  BY DEF stopOldOpenVPNProcess, setReplaceConnection, fieldVars, boundVars
<1>4. s = starts
  BY <1>2, SessionFacts DEF InOrder, SessionInv, StopInv
<1>5. ASSUME NEW t \in Session
      PROVE  /\ signalled[t] => signalled'[t]
             /\ signalled'[t] => signalled[t] \/ proc[t] = "running"
             /\ mgmt'[t] = mgmt[t] \/ (mgmt[t] = "connected" /\ mgmt'[t] = "closed")
             /\ replaced[t] => replaced'[t]
             /\ replaced'[t] => replaced[t] \/ t = mOpenVPNThread
  BY <1>3, StopFacts
<1>6. StartingInv(s) /\ proc[s] = "none" /\ LatestInv(s) /\ ~signalled'[s]
  <2>1. LatestInv(s) /\ proc[s] = "none"
    BY <1>2, <1>4 DEF InOrder, StopInv, BeforeOpen
  <2>2. StartingInv(s)
    BY <1>2, <2>1 DEF LatestInv, Starting
  <2> QED BY <1>5, <2>1, <2>2 DEF StartingInv
<1>7. ASSUME NEW t \in Session PROVE SessionInv(t)'
  <2>1. t >= starts => proc[t] # "running" /\ t # mOpenVPNThread
    BY <1>2, <1>4, <1>6, SessionFacts DEF InOrder, SessionInv, StopInv
  <2> QED BY <1>2, <1>3, <1>4, <1>5, <2>1, SessionFacts DEF InOrder, SessionInv, Ending
<1>8. ASSUME NEW t \in Session, t < starts' PROVE OldInv(t)'
  <2>1. OldInv(t) /\ t # s
    BY <1>3, <1>4, <1>8, SessionFacts DEF InOrder
  <2>2. CASE thread[t] = "ended"
    BY <1>3, <2>2 DEF OldInv
  <2>3. CASE RunsOut(t)
    BY <1>3, <1>4, <1>5, <1>6, <2>3 DEF OldInv, RunsOut, Over, StartingInv
  <2>4. CASE Controlled(t) /\ mgmt[t] = "connected"
    <3>1. signalled'[t] /\ replaced'[t]
      BY <1>3, <2>4, SessionFacts, StopFacts DEF Controlled
    <3> QED BY <1>3, <1>4, <1>6, <2>4, <3>1 DEF OldInv, RunsOut, Over, StartingInv, Controlled
  <2> QED BY <2>1, <2>2, <2>3, <2>4 DEF OldInv
<1>9. LatestInv(s)'
  BY <1>2, <1>3, <1>4, <1>6, SessionFacts DEF InOrder, SessionInv, LatestInv, StartingInv, Idle, Starting
<1> QED BY <1>3, <1>4, <1>7, <1>8, <1>9, SessionFacts DEF InOrder

LEMMA OrderOpen ==
    ASSUME TypeOK, StopInv, InOrder, NEW s \in Session, openManagementInterface(s),
           Step(s, "open", "launch"), mgmt' = [mgmt EXCEPT ![s] = "accepting"],
           bound' = s, mManagement' = s, mOpenVPNThread' = s
    PROVE  InOrder'
<1>1. /\ \A t \in Session : starter'[t] = IF t = s THEN "launch" ELSE starter[t]
      /\ \A t \in Session : mgmt'[t] = IF t = s THEN "accepting" ELSE mgmt[t]
      /\ starter[s] = "open"
      /\ UNCHANGED <<service, foreground, main, revoker, mProcessThread, mStarting,
             mDeviceStateReceiver, lastConnected, posted, status, thread, proc,
             replaced, signalled, interrupted, peer, starts>>
  BY DEF Step, TypeOK, openManagementInterface, sessionVars
<1>2. s = starts
  BY <1>1, SessionFacts DEF InOrder, SessionInv, StopInv
<1>3. StartingInv(s) /\ LatestInv(s) /\ proc[s] = "none" /\ peer[s] = Null
  <2>1. LatestInv(s) /\ proc[s] = "none" /\ peer[s] = Null
    BY <1>1, <1>2 DEF InOrder, StopInv, BeforeOpen
  <2> QED BY <1>1, <2>1 DEF LatestInv, Starting
<1>4. ASSUME NEW t \in Session PROVE SessionInv(t)'
  BY <1>1, <1>2, <1>3, SessionFacts DEF InOrder, SessionInv, Ending
<1>5. ASSUME NEW t \in Session, t < starts' PROVE OldInv(t)'
  BY <1>1, <1>2, <1>5, SessionFacts DEF InOrder, OldInv, RunsOut, Over
<1>6. LatestInv(s)'
  BY <1>1, <1>2, <1>3, SessionFacts DEF InOrder, SessionInv, LatestInv, StartingInv, Idle, Starting
<1> QED BY <1>1, <1>2, <1>4, <1>5, <1>6, SessionFacts DEF InOrder

LEMMA OrderLaunch ==
    ASSUME TypeOK, StopInv, InOrder, NEW s \in Session, Launch(s)
    PROVE  InOrder'
<1>1. /\ \A t \in Session : starter'[t] = IF t = s THEN "done" ELSE starter[t]
      /\ \A t \in Session : thread'[t] = IF t = s THEN "reading" ELSE thread[t]
      /\ \A t \in Session : proc'[t] = IF t = s THEN "running" ELSE proc[t]
      /\ starter[s] = "launch" /\ mProcessThread' = s /\ posted' = posted + 1
      /\ UNCHANGED <<service, foreground, main, revoker, mOpenVPNThread, mManagement, mStarting,
             mDeviceStateReceiver, lastConnected, status, mgmt,
             replaced, signalled, interrupted, bound, peer, starts>>
  BY DEF Launch, Step, TypeOK, socketVars, boundVars
<1>2. s = starts
  BY <1>1, SessionFacts DEF InOrder, SessionInv, StopInv
<1>3. StartingInv(s) /\ LatestInv(s)
  BY <1>1, <1>2 DEF InOrder, LatestInv, Starting
<1>4. ASSUME NEW t \in Session PROVE SessionInv(t)'
  BY <1>1, <1>2, <1>3, SessionFacts DEF InOrder, SessionInv, StartingInv, Ending
<1>5. ASSUME NEW t \in Session, t < starts' PROVE OldInv(t)'
  <2>1. thread[t] = "ended" \/ RunsOut(t)
    BY <1>1, <1>2, <1>5 DEF InOrder, OldInv
  <2>2. t # s
    BY <1>1, <1>2, <1>5, SessionFacts
  <2> QED BY <1>1, <1>2, <1>3, <2>1, <2>2 DEF OldInv, RunsOut, Over, StartingInv
<1>6. RunningInv(s)'
  <2>1. ~interrupted[s] /\ posted' # 0
    BY <1>1, <1>2, <1>3, SessionFacts DEF InOrder, SessionInv, StartingInv
  <2> QED BY <1>1, <1>2, <1>3, <2>1 DEF StartingInv, RunningInv, Controlled, Told, Idle
<1>7. LatestInv(s)'
  BY <1>1, <1>2, <1>3, <1>6 DEF LatestInv, Starting
<1> QED BY <1>1, <1>2, <1>4, <1>5, <1>7, SessionFacts DEF InOrder

LEMMA OrderStarter ==
    ASSUME TypeOK, StopInv, InOrder, orderly', NEW s \in Session, Starter(s)
    PROVE  InOrder'
<1>1. CASE writeConfigFile(s)
  <2>1. /\ Step(s, "config", "stopping")
        /\ UNCHANGED <<service, foreground, main, revoker, mProcessThread, mOpenVPNThread, mManagement,
                       mDeviceStateReceiver, lastConnected, posted, status, thread, mgmt, proc,
                       replaced, signalled, interrupted, bound, peer, starts>>
    BY <1>1 DEF writeConfigFile, StartFails, sessionVars, socketVars
  <2> QED BY <2>1, OrderGoesOn DEF Starting
<1>2. CASE SleepOver(s) \/ ForceSleepOver(s) \/ ClearStarting(s) \/ forceStopOpenVpnProcess(s)
  <2>1. UNCHANGED <<service, foreground, main, revoker, mProcessThread, mOpenVPNThread, mManagement,
                       mDeviceStateReceiver, lastConnected, posted, status, thread, mgmt, proc,
                       replaced, signalled, bound, peer, starts>>
    BY <1>2 DEF SleepOver, ForceSleepOver, ClearStarting, forceStopOpenVpnProcess,
       fieldVars, sessionVars, socketVars, boundVars
  <2>2. CASE forceStopOpenVpnProcess(s)
    <3>1. \A t \in Session : interrupted'[t] => interrupted[t] \/ t = mProcessThread
      BY <2>2 DEF forceStopOpenVpnProcess, TypeOK
    <3>2. Step(s, "force", "forcing") \/ Step(s, "force", "clearing")
      BY <2>2 DEF forceStopOpenVpnProcess
    <3> QED BY <2>1, <3>1, <3>2, OrderGoesOn DEF Starting
  <2>3. CASE ~forceStopOpenVpnProcess(s)
    <3>1. /\ UNCHANGED interrupted
          /\ \/ Step(s, "sleeping", "force")
             \/ Step(s, "forcing", "clearing")
             \/ Step(s, "clearing", "open") /\ ~mStarting'
      BY <1>2, <2>3 DEF SleepOver, ForceSleepOver, ClearStarting, sessionVars
    <3> QED BY <2>1, <3>1, OrderGoesOn DEF Starting
  <2> QED BY <2>2, <2>3
<1>3. CASE openManagementInterface(s)
  BY <1>3, OrderOpen DEF openManagementInterface, StartFails
<1>4. CASE FailedStartEnds(s)
  BY <1>4 DEF FailedStartEnds, InOrder, SessionInv
<1> QED BY <1>1, <1>2, <1>3, <1>4, OrderReplace, OrderLaunch DEF Starter

(* The thread of a process.                                                *)
LEMMA OrderThread ==
    ASSUME TypeOK, StopInv, InOrder, NEW s \in Session, OpenVPNThread(s)
    PROVE  InOrder'
<1>0. s = starts \/ s < starts
  <2>1. starter[s] # "none"
    <3>1. thread[s] # "none"
      BY DEF OpenVPNThread, EndOfOutput, ReportNoProcess, openvpnStopped, ThreadEnds, ThreadStep, Ending
    <3> QED BY <3>1 DEF InOrder, SessionInv
  <2> QED BY <2>1, SessionFacts DEF StopInv
<1>1. CASE ThreadEnds(s)
  <2>1. /\ thread[s] \in Ending /\ endVpnService(thread[s])
        /\ \A t \in Session : thread'[t] = IF t = s THEN After(thread[s], "ended") ELSE thread[t]
        /\ UNCHANGED <<main, revoker, starter, proc, replaced, signalled, interrupted, starts>>
    BY <1>1 DEF ThreadEnds, TypeOK, boundVars
  <2>2. proc[s] = "exited" /\ starter[s] = "done"
    BY <2>1, SessionFacts DEF InOrder, SessionInv, Ending
  <2>3. s = starts
    BY <1>0, <2>1, SessionFacts DEF InOrder, OldInv, RunsOut, Controlled, Ending
  <2> QED BY <2>1, <2>2, <2>3, OrderEnds DEF Over
<1>2. CASE ~ThreadEnds(s)
  <2>1. PICK to \in {"reporting", "deciding", "ended", "lock"} :
          /\ \A t \in Session : thread'[t] = IF t = s THEN to ELSE thread[t]
          /\ thread[s] \in {"reading", "reporting", "deciding"}
          /\ to = "ended" => replaced[s]
          /\ to = "lock" => ~replaced[s]
    BY <1>2 DEF OpenVPNThread, EndOfOutput, ReportNoProcess, openvpnStopped, ThreadStep, TypeOK
  <2>2. /\ proc[s] # "running" /\ UNCHANGED <<service, foreground, main, revoker, mProcessThread, mOpenVPNThread,
             mManagement, mStarting, mDeviceStateReceiver, lastConnected, posted, starter, mgmt, proc,
             replaced, signalled, interrupted, bound, peer, starts>>
        /\ status' = status \/ ~replaced[s]
    <3>1. proc[s] # "running"
      BY <1>2 DEF OpenVPNThread, EndOfOutput, ReportNoProcess, openvpnStopped, ThreadStep,
         InOrder, SessionInv
    <3> QED BY <1>2, <3>1 DEF OpenVPNThread, EndOfOutput, ReportNoProcess, openvpnStopped,
            fieldVars, socketVars, boundVars
  <2>3. starter[s] = "done" /\ proc[s] = "exited"
    BY <2>1, <2>2, SessionFacts DEF InOrder, SessionInv
  <2>4. ASSUME NEW t \in Session PROVE SessionInv(t)'
    BY <2>1, <2>2, SessionFacts DEF InOrder, SessionInv
  <2>5. ASSUME NEW t \in Session, t < starts' PROVE OldInv(t)'
    <3>1. OldInv(t) /\ ~Controlled(s)
      BY <2>2, <2>3, <2>5 DEF InOrder, Controlled
    <3> QED BY <2>1, <2>2, <3>1 DEF OldInv, RunsOut, Controlled, Over, Told
  <2>6. ASSUME NEW t \in Session, t = starts' PROVE LatestInv(t)'
    <3>1. LatestInv(t) /\ ~replaced[t]
      BY <2>2, <2>6, SessionFacts DEF InOrder, SessionInv
    <3>2. CASE t = s
      BY <2>1, <2>2, <2>3, <3>1, <3>2 DEF LatestInv, Over, Starting
    <3>3. CASE t # s
      <4>1. s < starts /\ ~(thread[s] = "ended")
        BY <1>0, <2>1, <2>2, <2>6, <3>3
      <4>2. replaced[s]
        BY <2>3, <4>1 DEF InOrder, OldInv, RunsOut, Controlled
      <4> QED BY <2>1, <2>2, <3>1, <3>3, <4>2 DEF LatestInv, StartingInv, RunningInv, Controlled, Over, Told, Idle
    <3> QED BY <3>2, <3>3
  <2> QED BY <2>2, <2>4, <2>5, <2>6 DEF InOrder, Idle
<1> QED BY <1>1, <1>2

(* A process exits that was told to or, when everything has settled, by    *)
(* itself.                                                                 *)
LEMMA OrderExit ==
    ASSUME TypeOK, StopInv, InOrder, NEW p \in Session, proc[p] = "running",
           proc' = [proc EXCEPT ![p] = "exited"],
           Told(p) \/ Settled,
           UNCHANGED <<service, foreground, main, revoker, mProcessThread, mOpenVPNThread, mManagement, mStarting,
             mDeviceStateReceiver, lastConnected, posted, status, starter, thread, mgmt,
             replaced, signalled, interrupted, bound, peer, starts>>
    PROVE  InOrder'
<1>1. \A t \in Session : proc'[t] = IF t = p THEN "exited" ELSE proc[t]
  BY DEF TypeOK
<1>2. ASSUME NEW t \in Session PROVE SessionInv(t)'
  BY <1>1 DEF InOrder, SessionInv
<1>3. thread[p] = "reading" /\ starter[p] = "done"
  BY DEF InOrder, SessionInv
<1>4. p = starts /\ ~Settled => Over(p)
  <2>1. p = starts => ~interrupted[p]
    BY SessionFacts DEF InOrder, SessionInv
  <2> QED BY <2>1 DEF Told, Over
<1>5. ASSUME NEW t \in Session, t < starts' PROVE OldInv(t)'
  <2>1. OldInv(t)
    BY <1>5 DEF InOrder
  <2>2. Settled => thread[t] = "ended"
    BY <1>5, SettledFacts
  <2> QED BY <1>1, <1>3, <1>4, <2>1, <2>2 DEF OldInv, RunsOut, Controlled, Over, Told
<1>6. ASSUME NEW t \in Session, t = starts' PROVE LatestInv(t)'
  BY <1>1, <1>3, <1>6, SessionFacts DEF InOrder, LatestInv, StartingInv, RunningInv, Controlled, Over, Told, Idle, Starting
<1> QED BY <1>2, <1>5, <1>6 DEF InOrder, Idle

(* The process connects, and its management thread ends.                   *)
LEMMA OrderConnect ==
    ASSUME TypeOK, StopInv, InOrder, NEW p \in Session, Connect(p)
    PROVE  InOrder'
<1>1. p = starts /\ mgmt[p] = "accepting" /\ bound = p /\ proc[p] = "running"
  BY DEF Connect, InOrder, SessionInv
<1>2. /\ \A t \in Session : mgmt'[t] = IF t = p THEN "connected" ELSE mgmt[t]
      /\ \A t \in Session : peer'[t] = IF t = p THEN p ELSE peer[t]
      /\ UNCHANGED <<service, foreground, main, revoker, mProcessThread, mOpenVPNThread, mManagement, mStarting,
             mDeviceStateReceiver, lastConnected, posted, status, starter, thread, proc,
             replaced, signalled, interrupted, bound, starts>>
  BY <1>1, SessionFacts DEF Connect, TypeOK, fieldVars, boundVars
<1>3. ASSUME NEW t \in Session PROVE SessionInv(t)'
  BY <1>1, <1>2 DEF InOrder, SessionInv
<1>4. ASSUME NEW t \in Session, t < starts' PROVE OldInv(t)'
  BY <1>1, <1>2, <1>4 DEF InOrder, OldInv, RunsOut, Controlled, Over, Told
<1>5. ASSUME NEW t \in Session, t = starts' PROVE LatestInv(t)'
  <2>1. starter[t] = "done"
    BY <1>1, <1>2, <1>5 DEF InOrder, SessionInv
  <2> QED BY <1>1, <1>2, <1>5, <2>1 DEF InOrder, LatestInv, RunningInv, Controlled, Over, Told, Idle, Starting
<1> QED BY <1>2, <1>3, <1>4, <1>5 DEF InOrder, Idle

LEMMA OrderManagementEnds ==
    ASSUME TypeOK, StopInv, InOrder, NEW m \in Session, ManagementEnds(m)
    PROVE  InOrder'
<1>1. /\ \A t \in Session : mgmt'[t] = IF t = m THEN "ended" ELSE mgmt[t]
      /\ UNCHANGED <<service, foreground, main, revoker, mProcessThread, mOpenVPNThread, mManagement, mStarting,
             mDeviceStateReceiver, lastConnected, posted, status, starter, thread, proc,
             replaced, signalled, interrupted, bound, peer, starts>>
  BY DEF ManagementEnds, TypeOK, fieldVars, sessionVars, boundVars
<1>2. mgmt[m] = "closed" \/ (mgmt[m] = "connected" /\ proc[m] = "exited")
  BY DEF ManagementEnds, InOrder, SessionInv
<1>3. ASSUME NEW t \in Session PROVE SessionInv(t)'
  BY <1>1, <1>2 DEF InOrder, SessionInv
<1>4. ASSUME NEW t \in Session, t < starts' PROVE OldInv(t)'
  BY <1>1, <1>2, <1>4 DEF InOrder, OldInv, RunsOut, Controlled, Over, Told
<1>5. ASSUME NEW t \in Session, t = starts' PROVE LatestInv(t)'
  BY <1>1, <1>2, <1>5 DEF InOrder, LatestInv, StartingInv, RunningInv, Controlled, Over, Told, Idle
<1> QED BY <1>1, <1>3, <1>4, <1>5 DEF InOrder, Idle

LEMMA OrderProcess ==
    ASSUME TypeOK, StopInv, InOrder, orderly', NEW s \in Session,
           stopProcess(s) \/ updateStateString(s) \/ Obey(s) \/ ExitAlone(s)
    PROVE  InOrder'
<1>1. CASE updateStateString(s)
  <2>1. /\ status' = "RUNNING"
        /\ UNCHANGED <<service, foreground, main, revoker, mProcessThread, mOpenVPNThread, mManagement, mStarting,
             mDeviceStateReceiver, lastConnected, posted, starter, thread, mgmt, proc,
             replaced, signalled, interrupted, bound, peer, starts>>
    BY <1>1 DEF updateStateString, fieldVars, sessionVars, socketVars, boundVars
  <2> QED BY <2>1 DEF InOrder, SessionInv, OldInv, LatestInv, StartingInv, RunningInv, Controlled,
          RunsOut, Over, Told, Idle
<1>2. CASE ~updateStateString(s)
  <2>1. /\ proc[s] = "running" /\ proc' = [proc EXCEPT ![s] = "exited"]
        /\ Told(s) \/ Settled
        /\ UNCHANGED <<service, foreground, main, revoker, mProcessThread, mOpenVPNThread, mManagement, mStarting,
             mDeviceStateReceiver, lastConnected, posted, status, starter, thread, mgmt,
             replaced, signalled, interrupted, bound, peer, starts>>
    BY <1>2 DEF stopProcess, Obey, ExitAlone, Told, fieldVars, socketVars, boundVars
  <2> QED BY <2>1, OrderExit
<1> QED BY <1>1, <1>2

LEMMA OrderStep == TypeOK /\ StopInv /\ OrderlyInv /\ [Next]_vars => OrderlyInv'
<1> SUFFICES ASSUME TypeOK, StopInv, OrderlyInv, [Next]_vars, orderly' PROVE InOrder'
  BY DEF OrderlyInv
<1>1. CASE UNCHANGED vars
  BY <1>1, OrderSame DEF vars, fieldVars, sessionVars, socketVars, boundVars, OrderlyInv, invDefs
<1>2. CASE Requests
  <2>1. orderly /\ Settled /\ service = "up"
    BY <1>2 DEF Requests, onStartCommand, StartNoProfile, stopVPN, onRevoke, Request
  <2>2. InOrder
    BY <2>1 DEF OrderlyInv
  <2> QED BY <1>2, <2>1, <2>2, OrderStart, OrderNoProfile, OrderStop DEF Requests
<1>3. CASE MainThread \/ RevokeEnds
  <2>1. orderly
    BY <1>3 DEF MainThread, setConnectedVpnProfile, registerDeviceStateReceiver, RevokeEnds, onDestroy
  <2>2. InOrder
    BY <2>1 DEF OrderlyInv
  <2> QED BY <1>3, <2>2, OrderMain, OrderRevokeEnds, OrderDestroy DEF MainThread
<1>4. ASSUME NEW s \in Session, Starter(s) PROVE InOrder'
  <2>1. orderly
    BY <1>4 DEF Starter, writeConfigFile, stopOldOpenVPNProcess, SleepOver, forceStopOpenVpnProcess,
       ForceSleepOver, ClearStarting, openManagementInterface, Launch, FailedStartEnds, StartFails
  <2>2. InOrder
    BY <2>1 DEF OrderlyInv
  <2> QED BY <1>4, <2>2, OrderStarter
<1>5. ASSUME NEW s \in Session,
             \/ stopProcess(s) \/ OpenVPNThread(s) \/ Connect(s) \/ updateStateString(s)
             \/ Obey(s) \/ ExitAlone(s) \/ ManagementEnds(s)
      PROVE  InOrder'
  <2>1. orderly
    BY <1>5 DEF OpenVPNThread, EndOfOutput, ReportNoProcess, openvpnStopped, ThreadEnds, Connect,
       stopProcess, updateStateString, Obey, ExitAlone, ManagementEnds
  <2>2. InOrder
    BY <2>1 DEF OrderlyInv
  <2> QED BY <1>5, <2>2, OrderThread, OrderConnect, OrderProcess, OrderManagementEnds
<1> QED BY <1>1, <1>2, <1>3, <1>4, <1>5 DEF Next

-----------------------------------------------------------------------------
(* The theorems.                                                           *)

(* Every field of the service and of its threads keeps its type.           *)
THEOREM ServiceTypeCorrect == Spec => []TypeOK
<1> QED BY TypeInit, TypeStep, PTL DEF Spec

LEMMA StopInvariance == Spec => []StopInv
<1>1. Init => StopInv
  BY DEF Init, StopInv, AttachedIsStoppable
<1> QED BY <1>1, StopStep, ServiceTypeCorrect, PTL DEF Spec

(* However many sessions there are and however their threads overlap, a    *)
(* process that runs attached to a management thread was told to exit or   *)
(* can be told by stopOpenVPN().                                           *)
THEOREM AttachedTheorem == Spec => []AttachedIsStoppable
<1>1. StopInv => AttachedIsStoppable
  BY DEF StopInv
<1> QED BY <1>1, StopInvariance, PTL

(* Every history in which each request came when the last one was done is  *)
(* in order, for every number of starts.                                   *)
THEOREM OrderlyInvariance == Spec => []OrderlyInv
<1>1. Init => OrderlyInv
  <2> SUFFICES ASSUME Init, NEW s \in Session
               PROVE  SessionInv(s) /\ ~(s < starts) /\ s # starts
    BY DEF Init, OrderlyInv, InOrder, Idle
  <2>1. s > 0 /\ s # Null /\ s \in Int /\ starts = 0
    BY ServiceAssumption DEF Init, Session, Null
  <2> QED BY <2>1 DEF Init, SessionInv, Ending
<1> QED BY <1>1, OrderStep, StopInvariance, ServiceTypeCorrect, PTL DEF Spec

(* Once an orderly replacement has settled, the process that runs is the   *)
(* only one and every field of the service is its own.                     *)
THEOREM ReplacementTheorem == Spec => []ReplacementIsComplete
<1>1. TypeOK /\ StopInv /\ OrderlyInv => ReplacementIsComplete
  <2> SUFFICES ASSUME TypeOK, StopInv, InOrder, Settled, NEW s \in Session, proc[s] = "running"
               PROVE  /\ \A t \in Session \ {s} : proc[t] # "running"
                      /\ mProcessThread = s /\ mOpenVPNThread = s /\ mManagement = s
                      /\ mDeviceStateReceiver = s /\ lastConnected = s
                      /\ service = "up" => foreground /\ status # "NOPROCESS"
    BY DEF OrderlyInv, ReplacementIsComplete
  <2>1. ASSUME NEW t \in Session, proc[t] = "running" PROVE t = starts
    <3>1. thread[t] = "reading" /\ ~(t > starts)
      BY <2>1 DEF InOrder, SessionInv, StopInv
    <3> QED BY <3>1, SessionFacts, SettledFacts
  <2>2. s = starts /\ thread[s] = "reading"
    BY <2>1 DEF InOrder, SessionInv
  <2>3. RunningInv(s) /\ LatestInv(s) /\ posted = 0 /\ main = "idle"
    BY <2>2, SettledFacts DEF InOrder, Settled
  <2> QED BY <2>1, <2>2, <2>3 DEF RunningInv, LatestInv, Controlled
<1> QED BY <1>1, StopInvariance, OrderlyInvariance, ServiceTypeCorrect, PTL

(* A service that is destroyed after an orderly history has told every     *)
(* process that still runs to stop.                                        *)
THEOREM DestroyedTheorem == Spec => []DestroyedLeavesNothing
<1>1. TypeOK /\ StopInv /\ OrderlyInv => DestroyedLeavesNothing
  <2> SUFFICES ASSUME TypeOK, StopInv, InOrder, service = "destroyed",
                      NEW s \in Session, proc[s] = "running"
               PROVE  Told(s)
    BY DEF OrderlyInv, DestroyedLeavesNothing
  <2>1. starter[s] = "done" /\ thread[s] = "reading" /\ ~(s > starts)
    BY DEF InOrder, SessionInv, StopInv
  <2>2. CASE s = starts
    BY <2>1, <2>2 DEF InOrder, LatestInv, RunningInv, Over, Told
  <2>3. CASE s < starts
    <3>1. starts \in Session
      BY <2>3, ServiceAssumption DEF TypeOK, Session
    <3>2. starter[starts] \notin {"config", "stopping"}
      BY <3>1 DEF InOrder, LatestInv, StartingInv, Starting
    <3> QED BY <2>1, <2>3, <3>2 DEF InOrder, OldInv, RunsOut
  <2> QED BY <2>1, <2>2, <2>3, SessionFacts
<1> QED BY <1>1, StopInvariance, OrderlyInvariance, ServiceTypeCorrect, PTL
=================================================================================

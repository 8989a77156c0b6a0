-------------------------- MODULE WireGuardServiceProofs --------------------------
(* Proofs about WireGuardService, for every set of names, number of        *)
(* retries and bound.                                                      *)
EXTENDS WireGuardService, TLAPS

JobPc == {"done", "same", "set", "each", "complete", "again", "broken", "failed"}
JobType == [pc : JobPc, tunnel : TunnelOrNull, want : State]

-----------------------------------------------------------------------------
(* Tunnels.                                                                *)

LEMMA TunnelType ==
    ASSUME NEW n \in Name, NEW k \in Number
    PROVE  <<n, k>> \in Tunnel /\ <<n, k>> # NoTunnel
  BY WireGuardAssumption DEF Tunnel, Number

(* The tunnel with a name is that of the map.                              *)
LEMMA GetTunnel ==
    ASSUME TypeOK, NEW n \in Name
    PROVE  /\ getTunnel(n) \in TunnelOrNull
           /\ getTunnel(n) = NoTunnel <=> tunnelMap[n] = 0
           /\ getTunnel(n) # NoTunnel =>
                 getTunnel(n) \in Tunnel /\ getTunnel(n) = <<n, tunnelMap[n]>>
<1>1. CASE tunnelMap[n] = 0
  BY <1>1 DEF getTunnel, TunnelOrNull
<1>2. CASE tunnelMap[n] # 0
  <2>1. tunnelMap[n] \in Number
    BY <1>2, WireGuardAssumption DEF TypeOK, Number
  <2> QED BY <1>2, <2>1, TunnelType DEF getTunnel, TunnelOrNull
<1> QED BY <1>1, <1>2

(* A job that is launched has the state asked for or is about to set it.   *)
LEMMA AsyncType ==
    ASSUME TypeOK, NEW t \in TunnelOrNull, NEW want \in State
    PROVE  setStateAsync(t, want) \in JobType
  BY DEF setStateAsync, NoJob, JobType, JobPc, TunnelOrNull, State

LEMMA NoJobType == NoJob \in JobType
  BY DEF NoJob, JobType, JobPc, TunnelOrNull, State

-----------------------------------------------------------------------------
(* Type correctness.                                                       *)

LEMMA TypeInit == Init => TypeOK
<1> SUFFICES ASSUME Init PROVE TypeOK
  OBVIOUS
<1>1. job \in [1..MaxJobs -> JobType]
  BY NoJobType DEF Init
<1>2. /\ NoTunnel \in TunnelOrNull /\ "DOWN" \in State
      /\ retryCount \in 0..MAX_RETRY /\ requests \in 0..MaxRequests
      /\ failures \in 0..MaxFailures /\ setups \in 0..MaxSetups
      /\ 1 \in 0..MaxSetups + 1
  BY WireGuardAssumption DEF Init, TunnelOrNull, State
<1> QED BY <1>1, <1>2 DEF Init, TypeOK, JobType, JobPc

(* What the backend does keeps the types of the tunnels.                   *)
LEMMA BackendType ==
    ASSUME TypeOK, NEW t \in TunnelOrNull, setStateUp(t) \/ setStateDown(t)
    PROVE  backend' \in TunnelOrNull /\ tstate' \in [Tunnel -> State]
  BY DEF TypeOK, setStateUp, setStateDown, Replaced, State, TunnelOrNull

LEMMA BackendFailsType ==
    ASSUME TypeOK, setStateFails
    PROVE  /\ backend' \in TunnelOrNull /\ tstate' \in [Tunnel -> State]
           /\ failures' \in 0..MaxFailures
<1>1. failures \in 0..MaxFailures /\ MaxFailures \in Nat
      /\ failures < MaxFailures /\ failures' = failures + 1
  BY WireGuardAssumption DEF TypeOK, setStateFails
<1>2. failures' \in 0..MaxFailures
  BY <1>1
<1>3. backend' \in TunnelOrNull /\ tstate' \in [Tunnel -> State]
  BY DEF TypeOK, setStateFails, State
<1> QED BY <1>2, <1>3

LEMMA EachType ==
    ASSUME TypeOK, NEW state, onEach(state)
    PROVE  shown' \in BOOLEAN /\ retryCount' \in 0..MAX_RETRY
  BY WireGuardAssumption DEF TypeOK, onEach

LEMMA JobStepType ==
    ASSUME TypeOK, NEW r \in 1..MaxJobs, NEW from, NEW to \in JobPc,
           JobStep(r, from, to) \/ JobEnds(r, from)
    PROVE  job' \in [1..MaxJobs -> JobType]
<1>1. job \in [1..MaxJobs -> JobType]
  BY DEF TypeOK, JobType, JobPc
<1>2. [job[r] EXCEPT !.pc = to] \in JobType
  BY <1>1 DEF JobType
<1>3. job' = [job EXCEPT ![r] = [job[r] EXCEPT !.pc = to]] \/ job' = [job EXCEPT ![r] = NoJob]
  BY <1>1 DEF JobStep, JobEnds
<1> QED BY <1>1, <1>2, <1>3, NoJobType

LEMMA TypeRequest ==
    ASSUME TypeOK,
           (\E n \in Name : startOrStopWireGuard(n)) \/ disconnectWireGuard
    PROVE  TypeOK'
<1>1. job \in [1..MaxJobs -> JobType] /\ Request
  BY DEF TypeOK, JobType, JobPc, startOrStopWireGuard, disconnectWireGuard
<1>2. /\ currentTunnel' \in TunnelOrNull /\ wanted' \in Name \cup {NoTunnel}
      /\ shown' \in BOOLEAN /\ job' \in [1..MaxJobs -> JobType]
  <2>1. ASSUME NEW n \in Name, connectToTunnelWithName(n)
        PROVE  /\ currentTunnel' \in TunnelOrNull /\ wanted' \in Name \cup {NoTunnel}
               /\ shown' \in BOOLEAN /\ job' \in [1..MaxJobs -> JobType]
    <3>1. getTunnel(n) \in TunnelOrNull
      BY GetTunnel
    <3>2. setStateAsync(getTunnel(n), "UP") \in JobType
      BY <3>1, AsyncType DEF State
    <3> QED BY <1>1, <2>1, <3>1, <3>2 DEF connectToTunnelWithName, TypeOK
  <2>2. ASSUME disconnect
        PROVE  /\ currentTunnel' \in TunnelOrNull /\ wanted' \in Name \cup {NoTunnel}
               /\ shown' \in BOOLEAN /\ job' \in [1..MaxJobs -> JobType]
    <3>1. setStateAsync(currentTunnel, "DOWN") \in JobType
      BY AsyncType DEF TypeOK, State
    <3> QED BY <1>1, <2>2, <3>1 DEF disconnect, TunnelOrNull
  <2> QED BY <2>1, <2>2 DEF startOrStopWireGuard, disconnectWireGuard
<1>3. requests' \in 0..MaxRequests /\ orderly' \in BOOLEAN
  BY <1>1, WireGuardAssumption DEF Request, TypeOK
<1> QED BY <1>1, <1>2, <1>3 DEF Request, TypeOK, managerVars, setupVars, JobType, JobPc

LEMMA TypeJob ==
    ASSUME TypeOK, NEW r \in 1..MaxJobs, Job(r)
    PROVE  TypeOK'
<1>1. job \in [1..MaxJobs -> JobType] /\ job[r] \in JobType
  BY DEF TypeOK, JobType, JobPc
<1>2. CASE EmitSame(r) \/ EmitAnswer(r) \/ EmitAgain(r)
  <2>1. job' \in [1..MaxJobs -> JobType]
    BY <1>2, JobStepType DEF EmitSame, EmitAnswer, EmitAgain, JobPc
  <2>2. shown' \in BOOLEAN /\ retryCount' \in 0..MAX_RETRY
    BY <1>2, EachType DEF EmitSame, EmitAnswer, EmitAgain
  <2>3. UNCHANGED <<currentTunnel, managerVars, tstate, backend, setupVars, requests,
                    failures, historyVars>>
    BY <1>2 DEF EmitSame, EmitAnswer, EmitAgain
  <2> QED BY <2>1, <2>2, <2>3 DEF TypeOK, managerVars, setupVars, historyVars, JobType, JobPc
<1>3. CASE setTunnelState(r)
  <2>1. job' \in [1..MaxJobs -> JobType]
    BY <1>3, JobStepType DEF setTunnelState, JobPc
  <2>2. job[r].tunnel \in TunnelOrNull
    BY <1>1 DEF JobType
  <2>3. /\ backend' \in TunnelOrNull /\ tstate' \in [Tunnel -> State]
        /\ failures' \in 0..MaxFailures /\ stuck' \in BOOLEAN
    <3>1. CASE setStateFails
      BY <1>3, <3>1, BackendFailsType DEF setTunnelState, TypeOK
    <3>2. CASE /\ setStateUp(job[r].tunnel) \/ setStateDown(job[r].tunnel)
               /\ UNCHANGED <<failures, stuck>>
      BY <2>2, <3>2, BackendType DEF TypeOK
    <3> QED BY <1>3, <3>1, <3>2 DEF setTunnelState
  <2> QED BY <1>3, <2>1, <2>3 DEF setTunnelState, TypeOK, serviceVars, managerVars, setupVars,
          JobType, JobPc
<1>4. CASE onCompletion(r)
  <2>1. job' \in [1..MaxJobs -> JobType]
    BY <1>4, JobStepType DEF onCompletion, JobPc
  <2>2. job[r].tunnel \in TunnelOrNull /\ job[r].want \in State
    BY <1>1 DEF JobType
  <2>3. tstate' \in [Tunnel -> State] /\ lastUsedTunnel' \in TunnelOrNull /\ saved' \subseteq Name
    BY <1>4, <2>2 DEF onCompletion, saveState, TypeOK
  <2> QED BY <1>4, <2>1, <2>3 DEF onCompletion, TypeOK, serviceVars, setupVars, historyVars,
          JobType, JobPc
<1>5. CASE onFailure(r)
  <2>1. job' \in [1..MaxJobs -> JobType]
    BY <1>5, JobStepType DEF onFailure, JobPc
  <2>2. shown' \in BOOLEAN /\ retryCount' \in 0..MAX_RETRY /\ saved' \subseteq Name
    BY <1>5, EachType DEF onFailure, saveState, TypeOK
  <2> QED BY <1>5, <2>1, <2>2 DEF onFailure, TypeOK, setupVars, historyVars, JobType, JobPc
<1>6. CASE Retry(r)
  <2>1. setStateAsync(currentTunnel, job[r].want) \in JobType
    BY <1>1, AsyncType DEF TypeOK, JobType
  <2>2. job' \in [1..MaxJobs -> JobType]
    BY <1>1, <1>6, <2>1, NoJobType DEF Retry
  <2>3. retryCount' \in 0..MAX_RETRY
    <3>1. retryCount \in 0..MAX_RETRY /\ MAX_RETRY \in Nat
      BY WireGuardAssumption DEF TypeOK
    <3>2. retryCount' = retryCount \/ (retryCount < MAX_RETRY /\ retryCount' = retryCount + 1)
      BY <1>6 DEF Retry
    <3> QED BY <3>1, <3>2
  <2> QED BY <1>6, <2>2, <2>3 DEF Retry, TypeOK, managerVars, setupVars, historyVars, JobType, JobPc
<1> QED BY <1>2, <1>3, <1>4, <1>5, <1>6 DEF Job

LEMMA TypeSetup ==
    ASSUME TypeOK,
           \/ deleteAll \/ Remove \/ Deleted
           \/ \E t \in Tunnel : Forget(t)
           \/ \E n \in Name : create(n)
    PROVE  TypeOK'
<1>0. \A n \in Name : getTunnel(n) # NoTunnel => getTunnel(n) \in Tunnel
  BY GetTunnel
<1>1. CASE deleteAll
  <2>1. doomed' \subseteq Tunnel
    BY <1>0, <1>1 DEF deleteAll
  <2>2. setups' \in 0..MaxSetups /\ orderly' \in BOOLEAN
    BY <1>1, WireGuardAssumption DEF deleteAll, TypeOK
  <2> QED BY <1>1, <2>1, <2>2 DEF deleteAll, TypeOK, serviceVars, managerVars
<1>2. CASE Remove
  <2>1. down[1] \in TunnelOrNull
    BY DEF TypeOK
  <2>2. /\ backend' \in TunnelOrNull /\ tstate' \in [Tunnel -> State]
        /\ failures' \in 0..MaxFailures
    <3>1. CASE setStateFails
      BY <3>1, BackendFailsType
    <3>2. CASE setStateDown(down[1]) /\ UNCHANGED failures
      BY <2>1, <3>2, BackendType DEF TypeOK
    <3> QED BY <1>2, <3>1, <3>2 DEF Remove, TypeOK
  <2>3. file' \subseteq Name /\ stuck' \in BOOLEAN /\ setup' \in {"deleting", "idle"}
    BY <1>2 DEF Remove, TypeOK
  <2> QED BY <1>2, <2>2, <2>3 DEF Remove, TypeOK, serviceVars
<1>3. CASE Deleted
  BY <1>3 DEF Deleted, TypeOK, serviceVars, managerVars, historyVars
<1>4. ASSUME NEW t \in Tunnel, Forget(t)
      PROVE  TypeOK'
  <2>1. down' \in TunnelOrNull \X State /\ lastUsedTunnel' \in TunnelOrNull
    BY <1>4 DEF Forget, TypeOK, TunnelOrNull
  <2>2. tunnelMap' \in [Name -> 0..MaxSetups + 1]
    <3>1. 0 \in 0..MaxSetups + 1
      BY WireGuardAssumption
    <3> QED BY <1>4, <3>1 DEF Forget, TypeOK
  <2> QED BY <1>4, <2>1, <2>2 DEF Forget, TypeOK, serviceVars, historyVars
<1>5. ASSUME NEW n \in Name, create(n)
      PROVE  TypeOK'
  <2>1. tunnelMap' \in [Name -> 0..MaxSetups + 1]
    BY <1>5, WireGuardAssumption DEF create, TypeOK
  <2>2. doomed' \subseteq Tunnel
    BY <1>0, <1>5 DEF create, TypeOK
  <2>3. file' \subseteq Name /\ setup' \in {"deleting", "empty", "idle"} /\ after' \in {"idle", "empty"}
    BY <1>5 DEF create, TypeOK
  <2> QED BY <1>5, <2>1, <2>2, <2>3 DEF create, TypeOK, serviceVars, historyVars
<1> QED BY <1>1, <1>2, <1>3, <1>4, <1>5

LEMMA TypeStep == TypeOK /\ [Next]_vars => TypeOK'
<1> SUFFICES ASSUME TypeOK, [Next]_vars PROVE TypeOK'
  OBVIOUS
<1>1. CASE UNCHANGED vars
  BY <1>1 DEF vars, serviceVars, managerVars, setupVars, historyVars, TypeOK
<1>2. CASE Next
  BY <1>2, TypeRequest, TypeJob, TypeSetup DEF Next
<1> QED BY <1>1, <1>2

-----------------------------------------------------------------------------
(* The backend: a tunnel has the state UP if and only if it runs.          *)

LEMMA StateUp ==
    ASSUME TypeOK, StateInv, NEW t \in Tunnel, setStateUp(t)
    PROVE  StateInv' /\ backend' = t /\ tstate'[t] = "UP"
<1>1. CASE backend = t
  BY <1>1 DEF StateInv, setStateUp
<1>2. CASE backend # t
  <2>1. \A u \in Tunnel : tstate'[u] = IF u = t THEN "UP" ELSE IF u = backend THEN "DOWN" ELSE tstate[u]
    <3>1. /\ NoTunnel \notin Tunnel /\ tstate \in [Tunnel -> State]
          /\ tstate' = [Replaced(t) EXCEPT ![t] = "UP"]
      BY <1>2, WireGuardAssumption DEF Tunnel, Number, setStateUp, TypeOK
    <3>2. CASE backend = NoTunnel
      BY <3>1, <3>2 DEF Replaced
    <3>3. CASE backend # NoTunnel
      <4>1. Replaced(t) = [tstate EXCEPT ![backend] = "DOWN"]
        BY <1>2, <3>3 DEF Replaced
      <4> QED BY <3>1, <4>1
    <3> QED BY <3>2, <3>3
  <2> QED BY <1>2, <2>1 DEF setStateUp, StateInv
<1> QED BY <1>1, <1>2

LEMMA StateDown ==
    ASSUME TypeOK, StateInv, NEW t \in Tunnel, setStateDown(t)
    PROVE  /\ StateInv' /\ tstate'[t] = "DOWN"
           /\ backend' = IF backend = t THEN NoTunnel ELSE backend
<1>1. CASE backend = t
  <2>1. NoTunnel \notin Tunnel
    BY WireGuardAssumption DEF Tunnel, Number
  <2>2. \A u \in Tunnel : tstate'[u] = IF u = t THEN "DOWN" ELSE tstate[u]
    BY <1>1 DEF setStateDown, TypeOK
  <2> QED BY <1>1, <2>1, <2>2 DEF setStateDown, StateInv
<1>2. CASE backend # t
  BY <1>2 DEF setStateDown, StateInv, TypeOK, State
<1> QED BY <1>1, <1>2

LEMMA StateFails ==
    ASSUME TypeOK, StateInv, setStateFails
    PROVE  StateInv' /\ UNCHANGED <<tstate, backend>>
<1>1. tstate' = tstate
  BY DEF setStateFails, StateInv, TypeOK, TunnelOrNull
<1> QED BY <1>1 DEF setStateFails, StateInv

-----------------------------------------------------------------------------
(* The steps of a job.                                                     *)

Parts ==
    /\ StateInv /\ JobInv /\ NumberInv /\ SetupInv /\ RetryInv
    /\ ~stuck => BackendInv

LEMMA StepFacts ==
    ASSUME TypeOK, JobInv, NEW r \in 1..MaxJobs, NEW from, NEW to,
           from # "done", to # "done", JobStep(r, from, to)
    PROVE  /\ Busy(r) /\ Busy(r)' /\ job[r].pc = from /\ job'[r].pc = to
           /\ job'[r].tunnel = job[r].tunnel /\ job'[r].want = job[r].want
           /\ JobOK(r) /\ job[r].tunnel \in Tunnel /\ job[r].want \in State
           /\ \A q \in 1..MaxJobs : q # r => ~Busy(q) /\ ~Busy(q)'
<1>1. job[r] \in JobType /\ job \in [1..MaxJobs -> JobType]
  BY DEF TypeOK, JobType, JobPc
<1>2. /\ job'[r] = [job[r] EXCEPT !.pc = to] /\ job[r].pc = from
      /\ \A q \in 1..MaxJobs : q # r => job'[q] = job[q]
  BY <1>1 DEF JobStep
<1>3. /\ job'[r].pc = to /\ job'[r].tunnel = job[r].tunnel /\ job'[r].want = job[r].want
  BY <1>1, <1>2 DEF JobType
<1>4. Busy(r) /\ Busy(r)'
  BY <1>2, <1>3 DEF Busy, NoJob
<1>5. JobOK(r) /\ \A q \in 1..MaxJobs : q # r => ~Busy(q)
  BY <1>4 DEF JobInv
<1>6. \A q \in 1..MaxJobs : q # r => ~Busy(q)'
  BY <1>2, <1>5 DEF Busy
<1>7. job[r].tunnel \in Tunnel /\ job[r].want \in State
  BY <1>1, <1>5 DEF JobOK, JobType
<1> QED BY <1>2, <1>3, <1>4, <1>5, <1>6, <1>7

LEMMA EndFacts ==
    ASSUME TypeOK, JobInv, NEW r \in 1..MaxJobs, job[r].pc # "done",
           job' = [job EXCEPT ![r] = NoJob]
    PROVE  /\ Busy(r) /\ JobOK(r) /\ job[r].tunnel \in Tunnel /\ job[r].want \in State
           /\ \A q \in 1..MaxJobs : (q # r => ~Busy(q)) /\ ~Busy(q)'
<1>1. job[r] \in JobType /\ job \in [1..MaxJobs -> JobType]
  BY DEF TypeOK, JobType, JobPc
<1>2. Busy(r)
  BY DEF Busy, NoJob
<1>3. JobOK(r) /\ \A q \in 1..MaxJobs : q # r => ~Busy(q)
  BY <1>2 DEF JobInv
<1>4. \A q \in 1..MaxJobs : ~Busy(q)'
  BY <1>1, <1>3 DEF Busy
<1> QED BY <1>1, <1>2, <1>3, <1>4 DEF JobOK, JobType

(* Nothing is being set up while a job is under way, except that tunnels   *)
(* nobody has started are created and deleted again.                       *)
LEMMA SetupOfJob ==
    ASSUME SetupInv, NEW r \in 1..MaxJobs, Busy(r),
           UNCHANGED <<setupVars, tunnelMap, wanted>>
    PROVE  SetupInv' /\ ~(Deleting /\ after = "empty")
<1>1. Mapped' = Mapped
  BY DEF Mapped, getTunnel
<1>2. ~(Deleting /\ after = "empty")
  BY DEF SetupInv
<1>3. UNCHANGED <<setup, after, doomed, down, setups, tunnelMap, wanted>>
  BY DEF setupVars
<1> QED BY <1>1, <1>2, <1>3 DEF SetupInv, Deleting

LEMMA JobInvOfStep ==
    ASSUME NEW r \in 1..MaxJobs, Busy(r)',
           \A q \in 1..MaxJobs : q # r => ~Busy(q)', JobOK(r)'
    PROVE  JobInv'
  BY DEF JobInv

LEMMA BackendInvOfStep ==
    ASSUME NEW r \in 1..MaxJobs, Busy(r)',
           \A q \in 1..MaxJobs : q # r => ~Busy(q)',
           job'[r].want = "UP" => UpOK(r)',
           job'[r].want # "UP" => DownOK(r)',
           setup' # "idle" => backend' = NoTunnel
    PROVE  BackendInv'
  BY DEF BackendInv

LEMMA NoJobLeft ==
    ASSUME \A q \in 1..MaxJobs : ~Busy(q)'
    PROVE  JobInv'
  BY DEF JobInv

LEMMA PartsOfEmit ==
    ASSUME TypeOK, Parts, NEW r \in 1..MaxJobs, EmitSame(r) \/ EmitAgain(r)
    PROVE  Parts'
<1>1. /\ job[r].pc \in {"same", "again"} /\ job' = [job EXCEPT ![r] = NoJob]
      /\ onEach(job[r].want)
      /\ UNCHANGED <<currentTunnel, managerVars, tstate, backend, setupVars, requests,
                     failures, historyVars>>
  BY DEF EmitSame, EmitAgain, JobEnds
<1>2. /\ Busy(r) /\ JobOK(r) /\ job[r].tunnel \in Tunnel /\ job[r].want \in State
      /\ \A q \in 1..MaxJobs : (q # r => ~Busy(q)) /\ ~Busy(q)'
  BY <1>1, EndFacts DEF Parts
<1>3. StateInv' /\ NumberInv' /\ JobInv'
  BY <1>1, <1>2, NoJobLeft DEF Parts, StateInv, NumberInv, managerVars, setupVars
<1>4. SetupInv'
  BY <1>1, <1>2, SetupOfJob DEF Parts, managerVars, historyVars
<1>5. RetryInv'
  <2>1. retryCount' = 0 /\ 0 <= failures
    BY <1>1 DEF onEach, TypeOK
  <2>2. wanted # NoTunnel /\ failures <= MAX_RETRY => backend # NoTunnel
    BY <1>1, <1>2 DEF Parts, RetryInv
  <2> QED BY <1>1, <2>1, <2>2 DEF RetryInv, historyVars
<1>6. ASSUME ~stuck'
      PROVE  BackendInv'
  <2>1. ~stuck /\ BackendInv
    BY <1>1, <1>6 DEF Parts, historyVars
  <2>2. CASE job[r].want = "UP"
    <3>1. UpOK(r) /\ job[r].pc = "again" /\ setup = "idle" /\ currentTunnel = job[r].tunnel
      BY <1>1, <1>2, <2>1, <2>2 DEF BackendInv, UpOK, JobOK
    <3>2. /\ backend = job[r].tunnel /\ backend = getTunnel(backend[1]) /\ backend[1] = wanted
          /\ lastUsedTunnel = backend /\ backend[1] \in saved /\ shown'
      BY <1>1, <2>2, <3>1 DEF UpOK, onEach
    <3> QED BY <1>1, <1>2, <3>1, <3>2 DEF BackendInv, managerVars, setupVars, historyVars, getTunnel
  <2>3. CASE job[r].want = "DOWN"
    <3>1. backend = NoTunnel
      BY <1>1, <1>2, <2>1, <2>3 DEF BackendInv, DownOK
    <3> QED BY <1>1, <1>2, <3>1 DEF BackendInv
  <2> QED BY <1>2, <2>2, <2>3 DEF State
<1> QED BY <1>3, <1>4, <1>5, <1>6 DEF Parts

LEMMA PartsOfAnswer ==
    ASSUME TypeOK, Parts, NEW r \in 1..MaxJobs, EmitAnswer(r)
    PROVE  Parts'
<1>1. /\ onEach(job[r].want)
      /\ UNCHANGED <<currentTunnel, managerVars, tstate, backend, setupVars, requests,
                     failures, historyVars>>
  BY DEF EmitAnswer
<1>2. /\ Busy(r) /\ Busy(r)' /\ job[r].pc = "each" /\ job'[r].pc = "complete"
      /\ job'[r].tunnel = job[r].tunnel /\ job'[r].want = job[r].want
      /\ JobOK(r) /\ job[r].tunnel \in Tunnel /\ job[r].want \in State
      /\ \A q \in 1..MaxJobs : q # r => ~Busy(q) /\ ~Busy(q)'
  BY StepFacts DEF EmitAnswer, Parts
<1>3. JobOK(r)'
  BY <1>1, <1>2 DEF JobOK, setupVars, historyVars
<1>4. StateInv' /\ NumberInv' /\ JobInv'
  BY <1>1, <1>2, <1>3, JobInvOfStep DEF Parts, StateInv, NumberInv, managerVars, setupVars
<1>5. SetupInv' /\ ~(Deleting /\ after = "empty")
  BY <1>1, <1>2, SetupOfJob DEF Parts, managerVars, historyVars
<1>6. RetryInv'
  <2>1. retryCount' = 0 /\ 0 <= failures
    BY <1>1 DEF onEach, TypeOK
  <2>2. wanted # NoTunnel /\ failures <= MAX_RETRY => backend # NoTunnel
    BY <1>1, <1>2 DEF Parts, RetryInv
  <2> QED BY <1>1, <2>1, <2>2 DEF RetryInv, historyVars
<1>7. ASSUME ~stuck'
      PROVE  BackendInv'
  <2>1. ~stuck /\ BackendInv
    BY <1>1, <1>7 DEF Parts, historyVars
  <2>2. job[r].want = "UP" => UpOK(r)'
    BY <1>1, <1>2, <2>1 DEF BackendInv, UpOK, onEach, managerVars, historyVars, getTunnel
  <2>3. job[r].want # "UP" => DownOK(r)'
    BY <1>1, <1>2, <2>1 DEF BackendInv, DownOK
  <2>4. setup' # "idle" => backend' = NoTunnel
    BY <1>1, <1>5, <2>1 DEF BackendInv, setupVars
  <2> QED BY <1>2, <2>2, <2>3, <2>4, BackendInvOfStep
<1> QED BY <1>4, <1>5, <1>6, <1>7 DEF Parts

LEMMA PartsOfSet ==
    ASSUME TypeOK, Parts, NEW r \in 1..MaxJobs, setTunnelState(r), failures' = failures,
           stuck' = stuck, JobStep(r, "set", "each"),
           IF job[r].want = "UP" THEN setStateUp(job[r].tunnel) ELSE setStateDown(job[r].tunnel)
    PROVE  Parts'
<1>1. UNCHANGED <<serviceVars, managerVars, setupVars, requests, failures, historyVars>>
  BY DEF setTunnelState, historyVars
<1>2. /\ Busy(r) /\ Busy(r)' /\ job[r].pc = "set" /\ job'[r].pc = "each"
      /\ job'[r].tunnel = job[r].tunnel /\ job'[r].want = job[r].want
      /\ JobOK(r) /\ job[r].tunnel \in Tunnel /\ job[r].want \in State
      /\ \A q \in 1..MaxJobs : q # r => ~Busy(q) /\ ~Busy(q)'
  BY StepFacts DEF Parts
<1>3. job[r].tunnel # NoTunnel
  BY <1>2, WireGuardAssumption DEF Tunnel, Number
<1>4. SetupInv' /\ ~(Deleting /\ after = "empty")
  BY <1>1, <1>2, SetupOfJob DEF Parts, managerVars, historyVars
<1>5. CASE job[r].want = "UP"
  <2>1. StateInv' /\ backend' = job[r].tunnel /\ tstate'[job[r].tunnel] = "UP"
    BY <1>2, <1>5, StateUp DEF Parts
  <2>2. setup = "idle" /\ currentTunnel = job[r].tunnel
    BY <1>2, <1>5 DEF JobOK
  <2>3. NumberInv'
    BY <1>1, <1>3, <2>1, <2>2 DEF Parts, NumberInv, serviceVars, managerVars, setupVars
  <2>4. JobOK(r)'
    BY <1>1, <1>2, <1>5, <2>1 DEF JobOK, serviceVars, setupVars, historyVars
  <2>5. JobInv'
    BY <1>2, <2>4, JobInvOfStep
  <2>6. RetryInv'
    BY <1>1, <1>3, <2>1 DEF Parts, RetryInv, serviceVars
  <2>7. ASSUME ~stuck'
        PROVE  BackendInv'
    <3>1. UpOK(r)
      BY <1>2, <1>5, <2>7 DEF Parts, BackendInv
    <3>2. UpOK(r)'
      BY <1>1, <1>2, <2>1, <3>1 DEF UpOK, managerVars, historyVars, getTunnel
    <3>3. setup' = "idle"
      BY <1>1, <2>2 DEF setupVars
    <3> QED BY <1>2, <1>5, <3>2, <3>3, BackendInvOfStep
  <2> QED BY <1>4, <2>1, <2>3, <2>5, <2>6, <2>7 DEF Parts
<1>6. CASE job[r].want = "DOWN"
  <2>1. /\ StateInv' /\ tstate'[job[r].tunnel] = "DOWN"
        /\ backend' = IF backend = job[r].tunnel THEN NoTunnel ELSE backend
    BY <1>2, <1>6, StateDown DEF Parts
  <2>2. wanted = NoTunnel /\ currentTunnel = NoTunnel
    BY <1>2, <1>6 DEF JobOK
  <2>3. NumberInv'
    BY <1>1, <2>1, <2>2 DEF Parts, NumberInv, serviceVars, managerVars, setupVars
  <2>4. JobOK(r)'
    BY <1>1, <1>2, <1>6, <2>1 DEF JobOK, serviceVars, setupVars, historyVars
  <2>5. JobInv'
    BY <1>2, <2>4, JobInvOfStep
  <2>6. RetryInv'
    BY <1>1, <2>2 DEF Parts, RetryInv, serviceVars, historyVars
  <2>7. ASSUME ~stuck'
        PROVE  BackendInv'
    <3>1. DownOK(r) /\ BackendInv
      BY <1>2, <1>6, <2>7 DEF Parts, BackendInv
    <3>2. backend' = NoTunnel
      BY <1>2, <2>1, <3>1 DEF DownOK
    <3>3. DownOK(r)'
      BY <1>2, <3>2 DEF DownOK
    <3> QED BY <1>2, <1>6, <3>2, <3>3, BackendInvOfStep
  <2> QED BY <1>4, <2>1, <2>3, <2>5, <2>6, <2>7 DEF Parts
<1> QED BY <1>2, <1>5, <1>6 DEF State

LEMMA PartsOfSetFails ==
    ASSUME TypeOK, Parts, NEW r \in 1..MaxJobs, setTunnelState(r), setStateFails,
           stuck' = (stuck \/ job[r].want = "DOWN"), JobStep(r, "set", "broken")
    PROVE  Parts'
<1>1. UNCHANGED <<serviceVars, managerVars, setupVars, requests, wanted, orderly>>
  BY DEF setTunnelState
<1>2. /\ Busy(r) /\ Busy(r)' /\ job[r].pc = "set" /\ job'[r].pc = "broken"
      /\ job'[r].tunnel = job[r].tunnel /\ job'[r].want = job[r].want
      /\ JobOK(r) /\ job[r].tunnel \in Tunnel /\ job[r].want \in State
      /\ \A q \in 1..MaxJobs : q # r => ~Busy(q) /\ ~Busy(q)'
  BY StepFacts DEF Parts
<1>3. StateInv' /\ UNCHANGED <<tstate, backend>>
  BY StateFails DEF Parts
<1>4. /\ failures' = failures + 1 /\ failures \in Nat /\ retryCount \in Nat
      /\ retryCount <= failures /\ retryCount' = retryCount
  BY <1>1, WireGuardAssumption DEF setStateFails, TypeOK, Parts, RetryInv, serviceVars
<1>5. SetupInv' /\ ~(Deleting /\ after = "empty")
  BY <1>1, <1>2, SetupOfJob DEF Parts, managerVars
<1>6. NumberInv'
  BY <1>1, <1>3 DEF Parts, NumberInv, serviceVars, managerVars, setupVars
<1>7. JobOK(r)'
  <2>1. retryCount' < failures'
    BY <1>4
  <2> QED BY <1>1, <1>2, <1>3, <2>1 DEF JobOK, serviceVars, setupVars
<1>8. JobInv'
  BY <1>2, <1>7, JobInvOfStep
<1>9. RetryInv'
  <2>1. retryCount' <= failures' /\ (failures' <= MAX_RETRY => failures <= MAX_RETRY)
    BY <1>4, WireGuardAssumption
  <2>2. CASE job[r].want = "UP"
    BY <1>2, <2>1, <2>2 DEF RetryInv
  <2>3. CASE job[r].want = "DOWN"
    BY <1>1, <1>2, <2>1, <2>3 DEF RetryInv, JobOK
  <2> QED BY <1>2, <2>2, <2>3 DEF State
<1>10. ASSUME ~stuck'
       PROVE  BackendInv'
  <2>1. ~stuck /\ job[r].want = "UP"
    BY <1>2, <1>10 DEF State
  <2>2. UpOK(r) /\ BackendInv /\ setup = "idle"
    BY <1>2, <2>1 DEF Parts, BackendInv, JobOK
  <2>3. UpOK(r)'
    BY <1>1, <1>2, <1>3, <2>2 DEF UpOK, managerVars, getTunnel
  <2>4. setup' = "idle"
    BY <1>1, <2>2 DEF setupVars
  <2> QED BY <1>2, <2>1, <2>3, <2>4, BackendInvOfStep
<1> QED BY <1>3, <1>5, <1>6, <1>8, <1>9, <1>10 DEF Parts

LEMMA PartsOfCompletion ==
    ASSUME TypeOK, Parts, NEW r \in 1..MaxJobs, onCompletion(r)
    PROVE  Parts'
<1>1. UNCHANGED <<serviceVars, tunnelMap, file, backend, setupVars, requests, failures,
                  historyVars>>
  BY DEF onCompletion
<1>2. /\ Busy(r) /\ Busy(r)' /\ job[r].pc = "complete" /\ job'[r].pc = "again"
      /\ job'[r].tunnel = job[r].tunnel /\ job'[r].want = job[r].want
      /\ JobOK(r) /\ job[r].tunnel \in Tunnel /\ job[r].want \in State
      /\ \A q \in 1..MaxJobs : q # r => ~Busy(q) /\ ~Busy(q)'
  BY StepFacts DEF onCompletion, Parts
<1>3. tstate' = tstate
  <2>1. tstate[job[r].tunnel] = job[r].want /\ tstate \in [Tunnel -> State]
    BY <1>2 DEF JobOK, TypeOK
  <2>2. tstate' = [tstate EXCEPT ![job[r].tunnel] = job[r].want]
    BY DEF onCompletion
  <2> QED BY <1>2, <2>1, <2>2
<1>4. StateInv' /\ NumberInv'
  BY <1>1, <1>3 DEF Parts, StateInv, NumberInv, serviceVars, setupVars
<1>5. SetupInv' /\ ~(Deleting /\ after = "empty")
  BY <1>1, <1>2, SetupOfJob DEF Parts, historyVars
<1>6. JobOK(r)'
  BY <1>1, <1>2, <1>3 DEF JobOK, serviceVars, setupVars, historyVars
<1>7. JobInv'
  BY <1>2, <1>6, JobInvOfStep
<1>8. RetryInv'
  BY <1>1, <1>2 DEF Parts, RetryInv, serviceVars, historyVars
<1>9. ASSUME ~stuck'
      PROVE  BackendInv'
  <2>1. ~stuck /\ BackendInv
    BY <1>1, <1>9 DEF Parts, historyVars
  <2>2. ASSUME job[r].want = "UP"
        PROVE  UpOK(r)'
    <3>1. UpOK(r) /\ backend = job[r].tunnel
      BY <1>2, <2>1, <2>2 DEF BackendInv, UpOK
    <3>2. backend \in Tunnel /\ backend[1] \in Name
      BY <1>2, <3>1 DEF Tunnel
    <3>3. backend = <<backend[1], tunnelMap[backend[1]]>> /\ tunnelMap[backend[1]] # 0
      <4>1. backend = getTunnel(backend[1]) /\ backend # NoTunnel
        BY <3>1, <3>2, WireGuardAssumption DEF UpOK, Tunnel, Number
      <4> QED BY <3>2, <4>1, GetTunnel
    <3>4. tstate[backend] = "UP"
      BY <3>2 DEF Parts, StateInv
    <3>5. backend[1] \in saved' /\ lastUsedTunnel' = backend
      BY <1>3, <2>2, <3>1, <3>2, <3>3, <3>4 DEF onCompletion, saveState
    <3> QED BY <1>1, <1>2, <3>1, <3>5 DEF UpOK, serviceVars, historyVars, getTunnel
  <2>3. job[r].want # "UP" => DownOK(r)'
    BY <1>1, <1>2, <2>1 DEF BackendInv, DownOK
  <2>4. setup' # "idle" => backend' = NoTunnel
    BY <1>1, <1>5, <2>1 DEF BackendInv, setupVars
  <2> QED BY <1>2, <2>2, <2>3, <2>4, BackendInvOfStep
<1> QED BY <1>4, <1>5, <1>7, <1>8, <1>9 DEF Parts

LEMMA PartsOfFailure ==
    ASSUME TypeOK, Parts, NEW r \in 1..MaxJobs, onFailure(r)
    PROVE  Parts'
<1>1. /\ UNCHANGED <<currentTunnel, tunnelMap, lastUsedTunnel, file, tstate, backend,
                     setupVars, requests, failures, historyVars>>
      /\ retryCount' = 0 \/ retryCount' = retryCount
  BY DEF onFailure, onEach
<1>2. /\ Busy(r) /\ Busy(r)' /\ job[r].pc = "broken" /\ job'[r].pc = "failed"
      /\ job'[r].tunnel = job[r].tunnel /\ job'[r].want = job[r].want
      /\ JobOK(r) /\ job[r].tunnel \in Tunnel /\ job[r].want \in State
      /\ \A q \in 1..MaxJobs : q # r => ~Busy(q) /\ ~Busy(q)'
  BY StepFacts DEF onFailure, Parts
<1>3. retryCount' < failures'
  BY <1>1, <1>2 DEF JobOK, TypeOK
<1>4. StateInv' /\ NumberInv'
  BY <1>1 DEF Parts, StateInv, NumberInv, setupVars
<1>5. SetupInv' /\ ~(Deleting /\ after = "empty")
  BY <1>1, <1>2, SetupOfJob DEF Parts, historyVars
<1>6. JobOK(r)'
  BY <1>1, <1>2, <1>3 DEF JobOK, setupVars, historyVars
<1>7. JobInv'
  BY <1>2, <1>6, JobInvOfStep
<1>8. RetryInv'
  <2>1. retryCount' <= failures'
    <3>1. retryCount \in Nat /\ failures \in Nat
      BY WireGuardAssumption DEF TypeOK
    <3> QED BY <1>1, <1>3, <3>1
  <2> QED BY <1>1, <1>2, <2>1 DEF Parts, RetryInv, historyVars
<1>9. ASSUME ~stuck'
      PROVE  BackendInv'
  <2>1. ~stuck /\ BackendInv
    BY <1>1, <1>9 DEF Parts, historyVars
  <2>2. job[r].want = "UP" => UpOK(r)'
    BY <1>1, <1>2, <2>1 DEF BackendInv, UpOK, historyVars, getTunnel
  <2>3. job[r].want = "UP"
    BY <1>2, <2>1 DEF BackendInv, DownOK
  <2>4. setup' # "idle" => backend' = NoTunnel
    BY <1>1, <1>5, <2>1 DEF BackendInv, setupVars
  <2> QED BY <1>2, <2>2, <2>3, <2>4, BackendInvOfStep
<1> QED BY <1>4, <1>5, <1>7, <1>8, <1>9 DEF Parts

(* The retries are used up.                                                *)
LEMMA PartsOfGivingUp ==
    ASSUME TypeOK, Parts, NEW r \in 1..MaxJobs, Retry(r), retryCount >= MAX_RETRY,
           UNCHANGED retryCount, job' = [job EXCEPT ![r] = NoJob]
    PROVE  Parts'
<1>1. /\ job[r].pc = "failed"
      /\ UNCHANGED <<currentTunnel, shown, managerVars, tstate, backend, setupVars, requests,
                     failures, historyVars>>
  BY DEF Retry
<1>2. /\ Busy(r) /\ JobOK(r) /\ job[r].tunnel \in Tunnel /\ job[r].want \in State
      /\ \A q \in 1..MaxJobs : (q # r => ~Busy(q)) /\ ~Busy(q)'
  BY <1>1, EndFacts DEF Parts
<1>3. StateInv' /\ NumberInv' /\ JobInv'
  BY <1>1, <1>2, NoJobLeft DEF Parts, StateInv, NumberInv, managerVars, setupVars
<1>4. SetupInv'
  BY <1>1, <1>2, SetupOfJob DEF Parts, managerVars, historyVars
<1>5. RetryInv'
  <2>1. retryCount < failures /\ failures \in Nat /\ retryCount \in Nat /\ MAX_RETRY \in Nat
    BY <1>1, <1>2, WireGuardAssumption DEF JobOK, TypeOK
  <2>2. ~(failures <= MAX_RETRY) /\ retryCount <= failures
    BY <2>1
  <2> QED BY <1>1, <2>2 DEF RetryInv
<1>6. ASSUME ~stuck'
      PROVE  BackendInv'
  <2>1. ~stuck /\ BackendInv
    BY <1>1, <1>6 DEF Parts, historyVars
  <2>2. backend = NoTunnel
    BY <1>1, <1>2, <2>1 DEF BackendInv, UpOK, DownOK
  <2> QED BY <1>1, <1>2, <2>2 DEF BackendInv
<1> QED BY <1>3, <1>4, <1>5, <1>6 DEF Parts

LEMMA PartsOfRetry ==
    ASSUME TypeOK, Parts, NEW r \in 1..MaxJobs, Retry(r), retryCount < MAX_RETRY,
           retryCount' = retryCount + 1,
           job' = [job EXCEPT ![r] = setStateAsync(currentTunnel, job[r].want)]
    PROVE  Parts'
<1>1. /\ job[r].pc = "failed"
      /\ UNCHANGED <<currentTunnel, shown, managerVars, tstate, backend, setupVars, requests,
                     failures, historyVars>>
  BY DEF Retry
<1>2. job[r] \in JobType /\ job \in [1..MaxJobs -> JobType]
  BY DEF TypeOK, JobType, JobPc
<1>3. /\ Busy(r) /\ JobOK(r) /\ job[r].tunnel \in Tunnel /\ job[r].want \in State
      /\ \A q \in 1..MaxJobs : q # r => ~Busy(q)
  <2>1. Busy(r)
    BY <1>1 DEF Busy, NoJob
  <2> QED BY <1>2, <2>1 DEF Parts, JobInv, JobOK, JobType
<1>4. /\ job'[r] = setStateAsync(currentTunnel, job[r].want)
      /\ \A q \in 1..MaxJobs : q # r => ~Busy(q)'
  BY <1>2, <1>3 DEF Busy
<1>5. retryCount' <= failures' /\ UNCHANGED failures
  <2>1. retryCount < failures /\ failures \in Nat /\ retryCount \in Nat
    BY <1>1, <1>3, WireGuardAssumption DEF JobOK, TypeOK
  <2> QED BY <1>1, <2>1
<1>6. StateInv' /\ NumberInv'
  BY <1>1 DEF Parts, StateInv, NumberInv, managerVars, setupVars
<1>7. SetupInv' /\ ~(Deleting /\ after = "empty")
  BY <1>1, <1>3, SetupOfJob DEF Parts, managerVars, historyVars
<1>8. CASE job[r].want = "UP"
  <2>1. /\ currentTunnel = job[r].tunnel /\ setup = "idle"
        /\ currentTunnel # NoTunnel
    BY <1>3, <1>8, WireGuardAssumption DEF JobOK, Tunnel, Number
  <2>2. job'[r] = [pc |-> IF tstate[job[r].tunnel] = "UP" THEN "same" ELSE "set",
                   tunnel |-> job[r].tunnel, want |-> "UP"]
    BY <1>4, <1>8, <2>1 DEF setStateAsync
  <2>3. Busy(r)'
    BY <2>2 DEF Busy, NoJob
  <2>4. JobOK(r)'
    BY <1>1, <1>3, <2>1, <2>2 DEF JobOK, setupVars, historyVars
  <2>5. JobInv'
    BY <1>4, <2>3, <2>4, JobInvOfStep
  <2>6. RetryInv'
    <3>1. CASE tstate[job[r].tunnel] = "UP"
      <4>1. backend = job[r].tunnel
        BY <1>3, <3>1 DEF Parts, StateInv
      <4> QED BY <1>1, <1>5, <2>1, <4>1 DEF RetryInv
    <3>2. CASE tstate[job[r].tunnel] # "UP"
      BY <1>5, <2>2, <2>3, <3>2 DEF RetryInv
    <3> QED BY <3>1, <3>2
  <2>7. ASSUME ~stuck'
        PROVE  BackendInv'
    <3>1. UpOK(r) /\ backend = NoTunnel
      BY <1>1, <1>3, <1>8, <2>7 DEF Parts, BackendInv, UpOK, historyVars
    <3>2. job'[r].pc = "set"
      BY <1>3, <2>1, <2>2, <3>1 DEF Parts, StateInv
    <3>3. UpOK(r)'
      BY <1>1, <2>2, <3>1, <3>2 DEF UpOK, managerVars, historyVars, getTunnel
    <3>4. setup' = "idle"
      BY <1>1, <2>1 DEF setupVars
    <3> QED BY <1>4, <2>2, <2>3, <3>3, <3>4, BackendInvOfStep
  <2> QED BY <1>6, <1>7, <2>5, <2>6, <2>7 DEF Parts
<1>9. CASE job[r].want = "DOWN"
  <2>1. currentTunnel = NoTunnel /\ wanted = NoTunnel
    BY <1>3, <1>9 DEF JobOK
  <2>2. \A q \in 1..MaxJobs : ~Busy(q)'
    BY <1>4, <2>1 DEF setStateAsync, Busy
  <2>3. JobInv'
    BY <2>2, NoJobLeft
  <2>4. RetryInv'
    BY <1>1, <1>5, <2>1 DEF RetryInv, historyVars
  <2>5. stuck'
    <3>1. ~DownOK(r)
      BY <1>1 DEF DownOK
    <3> QED BY <1>1, <1>3, <1>9, <3>1 DEF Parts, BackendInv, historyVars
  <2> QED BY <1>6, <1>7, <2>3, <2>4, <2>5 DEF Parts
<1> QED BY <1>3, <1>8, <1>9 DEF State

LEMMA PartsOfJob ==
    ASSUME TypeOK, Parts, NEW r \in 1..MaxJobs, Job(r)
    PROVE  Parts'
<1>1. CASE setTunnelState(r)
  BY <1>1, PartsOfSet, PartsOfSetFails DEF setTunnelState
<1>2. CASE Retry(r)
  BY <1>2, PartsOfRetry, PartsOfGivingUp DEF Retry
<1> QED BY <1>1, <1>2, PartsOfEmit, PartsOfAnswer, PartsOfCompletion, PartsOfFailure DEF Job

-----------------------------------------------------------------------------
(* The requests of the user, when all is quiet.                            *)

LEMMA QuietFacts ==
    ASSUME TypeOK, Parts, Quiet, NEW j \in JobType, job' = [job EXCEPT ![Free] = j],
           \E r \in 1..MaxJobs : job[r] = NoJob
    PROVE  /\ Free \in 1..MaxJobs /\ job'[Free] = j
           /\ \A q \in 1..MaxJobs : ~Busy(q) /\ (q # Free => job'[q] = NoJob)
           /\ setup \in {"idle", "empty"}
           /\ setup # "idle" => \A n \in Name : tunnelMap[n] = 0
<1>1. Free \in 1..MaxJobs
  BY DEF Free
<1>2. \A q \in 1..MaxJobs : job[q] = NoJob
  BY DEF Quiet
<1>3. job'[Free] = j /\ \A q \in 1..MaxJobs : q # Free => job'[q] = job[q]
  BY <1>1 DEF TypeOK
<1>4. /\ setup \in {"idle", "empty"}
      /\ setup # "idle" => \A n \in Name : tunnelMap[n] = 0
  BY DEF Quiet
<1> QED BY <1>1, <1>2, <1>3, <1>4 DEF Busy

(* A server that is connected, unless a DOWN failed, is the current one    *)
(* when all is quiet.                                                      *)
LEMMA QuietBackend ==
    ASSUME TypeOK, Parts, Quiet, ~stuck, backend # NoTunnel
    PROVE  backend = currentTunnel /\ getCurrentState = "UP" /\ setup = "idle"
<1>1. \A q \in 1..MaxJobs : ~Busy(q)
  BY DEF Quiet, Busy
<1>2. setup = "idle"
  BY DEF Parts, BackendInv, Quiet, Deleting
<1>3. backend = currentTunnel
  BY <1>1, <1>2 DEF Parts, BackendInv
<1>4. backend \in Tunnel
  BY DEF TypeOK, TunnelOrNull
<1> QED BY <1>2, <1>3, <1>4 DEF Parts, StateInv, getCurrentState

LEMMA PartsOfConnect ==
    ASSUME TypeOK, Parts, Quiet, Request, NEW n \in Name,
           getCurrentState # "UP", connectToTunnelWithName(n)
    PROVE  Parts'
<1> DEFINE t == getTunnel(n)
           j == setStateAsync(t, "UP")
<1>1. /\ UNCHANGED <<shown, retryCount, managerVars, tstate, backend, setupVars, failures, stuck>>
      /\ wanted' = IF t = NoTunnel THEN NoTunnel ELSE n
      /\ currentTunnel' = t
      /\ job' = [job EXCEPT ![Free] = j]
      /\ \E r \in 1..MaxJobs : job[r] = NoJob
  BY DEF Request, connectToTunnelWithName
<1>2. /\ t \in TunnelOrNull
      /\ t = NoTunnel <=> tunnelMap[n] = 0
      /\ t # NoTunnel => t \in Tunnel /\ t = <<n, tunnelMap[n]>>
  BY GetTunnel
<1>3. j \in JobType
  BY <1>2, AsyncType DEF State
<1>4. PICK f \in 1..MaxJobs :
      /\ job'[f] = j
      /\ \A q \in 1..MaxJobs : ~Busy(q) /\ (q # f => job'[q] = NoJob)
      /\ setup \in {"idle", "empty"}
      /\ setup # "idle" => \A m \in Name : tunnelMap[m] = 0
  BY <1>1, <1>3, QuietFacts
<1>5. \A q \in 1..MaxJobs : q # f => ~Busy(q)'
  BY <1>4 DEF Busy
<1>6. StateInv'
  BY <1>1 DEF Parts, StateInv
<1>7. NumberInv'
  BY <1>1, <1>2 DEF Parts, NumberInv, managerVars, setupVars
<1>8. SetupInv'
  <2>1. ~Deleting /\ ~Deleting' /\ UNCHANGED <<setup, setups, tunnelMap, after, down>>
    BY <1>1, <1>4 DEF Deleting, managerVars, setupVars
  <2>2. setup # "idle" => wanted' = NoTunnel
    BY <1>1, <1>2, <1>4
  <2> QED BY <1>4, <2>1, <2>2 DEF Parts, SetupInv, Deleting
<1>9. ~stuck => backend = NoTunnel
  BY QuietBackend
<1>10. CASE t = NoTunnel
  <2>1. \A q \in 1..MaxJobs : ~Busy(q)'
    BY <1>4, <1>5, <1>10 DEF setStateAsync, Busy
  <2>2. JobInv'
    BY <2>1, NoJobLeft
  <2>3. RetryInv'
    BY <1>1, <1>10 DEF Parts, RetryInv
  <2>4. ~stuck' => BackendInv'
    BY <1>1, <1>9, <2>1 DEF BackendInv
  <2> QED BY <1>6, <1>7, <1>8, <2>2, <2>3, <2>4 DEF Parts
<1>11. CASE t # NoTunnel
  <2>1. j = [pc |-> IF tstate[t] = "UP" THEN "same" ELSE "set", tunnel |-> t, want |-> "UP"]
    BY <1>11 DEF setStateAsync
  <2>2. t \in Tunnel /\ t[1] = n /\ setup = "idle" /\ setup' = "idle" /\ wanted' = n
    BY <1>1, <1>2, <1>4, <1>11 DEF setupVars
  <2>3. /\ job'[f].tunnel = t /\ job'[f].want = "UP" /\ Busy(f)'
        /\ job'[f].pc = IF tstate[t] = "UP" THEN "same" ELSE "set"
    BY <1>4, <2>1 DEF Busy, NoJob
  <2> HIDE DEF t, j
  <2>4. JobOK(f)'
    BY <1>1, <2>2, <2>3 DEF JobOK
  <2>5. JobInv'
    BY <1>4, <1>5, <2>3, <2>4, JobInvOfStep
  <2>6. RetryInv'
    <3>1. tstate[t] = "UP" => backend = t
      BY <2>2 DEF Parts, StateInv
    <3> QED BY <1>1, <1>4, <1>11, <2>3, <3>1 DEF Parts, RetryInv
  <2>7. ASSUME ~stuck'
        PROVE  BackendInv'
    <3>1. backend = NoTunnel /\ backend' = NoTunnel
      BY <1>1, <1>9, <2>7
    <3>2. tstate[t] # "UP"
      BY <1>11, <2>2, <3>1 DEF Parts, StateInv
    <3>3. t = getTunnel(n)'
      BY <1>1 DEF t, getTunnel, managerVars
    <3>4. UpOK(f)'
      BY <2>2, <2>3, <3>1, <3>2, <3>3 DEF UpOK
    <3> QED BY <1>4, <1>5, <2>2, <2>3, <3>4, BackendInvOfStep
  <2> QED BY <1>6, <1>7, <1>8, <2>5, <2>6, <2>7 DEF Parts
<1> QED BY <1>10, <1>11

LEMMA PartsOfDisconnect ==
    ASSUME TypeOK, Parts, Quiet, Request, disconnect
    PROVE  Parts'
<1> DEFINE t == currentTunnel
           j == setStateAsync(t, "DOWN")
<1>1. /\ UNCHANGED <<retryCount, managerVars, tstate, backend, setupVars, failures, stuck>>
      /\ wanted' = NoTunnel /\ currentTunnel' = NoTunnel
      /\ job' = [job EXCEPT ![Free] = j]
      /\ \E r \in 1..MaxJobs : job[r] = NoJob
  BY DEF Request, disconnect
<1>2. t \in TunnelOrNull
  BY DEF TypeOK
<1>3. j \in JobType
  BY <1>2, AsyncType DEF State
<1>4. PICK f \in 1..MaxJobs :
      /\ job'[f] = j
      /\ \A q \in 1..MaxJobs : ~Busy(q) /\ (q # f => job'[q] = NoJob)
      /\ setup \in {"idle", "empty"}
      /\ setup # "idle" => \A m \in Name : tunnelMap[m] = 0
  BY <1>1, <1>3, QuietFacts
<1>5. \A q \in 1..MaxJobs : q # f => ~Busy(q)'
  BY <1>4 DEF Busy
<1>6. StateInv' /\ NumberInv' /\ RetryInv'
  BY <1>1 DEF Parts, StateInv, NumberInv, RetryInv, managerVars, setupVars
<1>7. SetupInv'
  <2>1. ~Deleting /\ ~Deleting' /\ UNCHANGED <<setup, setups, tunnelMap, after, down>>
    BY <1>1, <1>4 DEF Deleting, managerVars, setupVars
  <2> QED BY <1>1, <1>4, <2>1 DEF Parts, SetupInv, Deleting
<1>8. ~stuck /\ backend # NoTunnel => backend = t /\ setup = "idle"
  BY QuietBackend
<1>9. CASE t = NoTunnel
  <2>1. \A q \in 1..MaxJobs : ~Busy(q)'
    BY <1>4, <1>5, <1>9 DEF setStateAsync, Busy
  <2>2. JobInv'
    BY <2>1, NoJobLeft
  <2>3. ~stuck' => BackendInv'
    BY <1>1, <1>8, <1>9, <2>1 DEF BackendInv
  <2> QED BY <1>6, <1>7, <2>2, <2>3 DEF Parts
<1>10. CASE t # NoTunnel
  <2>1. j = [pc |-> IF tstate[t] = "DOWN" THEN "same" ELSE "set", tunnel |-> t, want |-> "DOWN"]
    BY <1>10 DEF setStateAsync
  <2>2. t \in Tunnel
    BY <1>2, <1>10 DEF TunnelOrNull
  <2>3. /\ job'[f].tunnel = t /\ job'[f].want = "DOWN" /\ Busy(f)'
        /\ job'[f].pc = IF tstate[t] = "DOWN" THEN "same" ELSE "set"
    BY <1>4, <2>1 DEF Busy, NoJob
  <2>4. backend = t => tstate[t] # "DOWN"
    BY <2>2 DEF Parts, StateInv
  <2> HIDE DEF t, j
  <2>5. JobOK(f)'
    BY <1>1, <2>2, <2>3 DEF JobOK
  <2>6. JobInv'
    BY <1>4, <1>5, <2>3, <2>5, JobInvOfStep
  <2>7. ASSUME ~stuck'
        PROVE  BackendInv'
    <3>1. DownOK(f)'
      BY <1>1, <1>8, <2>3, <2>4, <2>7 DEF DownOK
    <3>2. setup' # "idle" => backend' = NoTunnel
      BY <1>1, <1>8, <2>7 DEF setupVars
    <3> QED BY <1>4, <1>5, <2>3, <3>1, <3>2, BackendInvOfStep
  <2> QED BY <1>6, <1>7, <2>6, <2>7 DEF Parts
<1> QED BY <1>9, <1>10

-----------------------------------------------------------------------------
(* Deleting the tunnels and creating them again.                           *)

(* While that goes on no job brings a tunnel up.                           *)
LEMMA SetupFacts ==
    ASSUME TypeOK, Parts, setup # "idle"
    PROVE  /\ wanted = NoTunnel
           /\ backend # NoTunnel => backend \in Tunnel /\ backend[2] <= setups
           /\ retryCount <= failures
           /\ \A r \in 1..MaxJobs : Busy(r) => job[r].want = "DOWN"
<1>1. \A r \in 1..MaxJobs : job[r].want \in State
  BY DEF TypeOK
<1>2. \A r \in 1..MaxJobs : Busy(r) => job[r].want # "UP"
  BY DEF Parts, JobInv, JobOK
<1>3. \A r \in 1..MaxJobs : Busy(r) => job[r].want = "DOWN"
  BY <1>1, <1>2 DEF State
<1>4. wanted = NoTunnel /\ retryCount <= failures
  BY DEF Parts, SetupInv, RetryInv
<1>5. backend # NoTunnel => backend \in Tunnel /\ backend[2] <= setups
  BY DEF Parts, NumberInv, TypeOK, TunnelOrNull
<1> QED BY <1>3, <1>4, <1>5

(* The jobs do not notice.                                                 *)
LEMMA JobsOfSetup ==
    ASSUME TypeOK, Parts, UNCHANGED <<job, tstate, wanted, currentTunnel, retryCount, failures>>,
           \A r \in 1..MaxJobs : Busy(r) => job[r].want = "DOWN"
    PROVE  JobInv'
<1>1. \A r \in 1..MaxJobs : Busy(r)' <=> Busy(r)
  BY DEF Busy
<1>2. ASSUME NEW r \in 1..MaxJobs, Busy(r)
      PROVE  JobOK(r)'
  <2>1. JobOK(r) /\ job[r].want = "DOWN"
    BY <1>2 DEF Parts, JobInv
  <2> QED BY <2>1 DEF JobOK
<1> QED BY <1>1, <1>2 DEF Parts, JobInv

LEMMA MappedName ==
    ASSUME TypeOK, NEW t \in Mapped
    PROVE  t \in Tunnel /\ t[1] \in Name /\ t = <<t[1], tunnelMap[t[1]]>> /\ t = getTunnel(t[1])
<1>1. PICK n \in Name : t = getTunnel(n) /\ t # NoTunnel
  BY DEF Mapped
<1>2. t \in Tunnel /\ t = <<n, tunnelMap[n]>>
  BY <1>1, GetTunnel
<1>3. t[1] = n
  BY <1>2
<1> QED BY <1>1, <1>2, <1>3

LEMMA PartsOfDeleteAll ==
    ASSUME TypeOK, Parts, deleteAll, \A r \in 1..MaxJobs : job[r] = NoJob
    PROVE  Parts'
<1>1. /\ setup \in {"idle", "empty"} /\ setups' = setups + 1
      /\ setup' = "deleting" /\ after' = "empty" /\ doomed' = Mapped /\ wanted' = NoTunnel
      /\ UNCHANGED <<currentTunnel, retryCount, shown, tunnelMap, lastUsedTunnel, saved, file,
                     tstate, backend, job, down, requests, failures, stuck>>
  BY DEF deleteAll, Mapped, serviceVars, managerVars
<1>2. (\A r \in 1..MaxJobs : ~Busy(r)) /\ (\A r \in 1..MaxJobs : ~Busy(r)')
  BY <1>1 DEF Busy
<1>3. StateInv' /\ JobInv'
  BY <1>1, <1>2, NoJobLeft DEF Parts, StateInv
<1>4. NumberInv'
  <2>1. setups \in Nat /\ tunnelMap \in [Name -> Nat]
    BY WireGuardAssumption DEF TypeOK
  <2>2. \A t \in Tunnel : t[2] \in Nat
    BY DEF Tunnel, Number
  <2>3. /\ currentTunnel # NoTunnel => currentTunnel[2] \in Nat
        /\ backend # NoTunnel => backend[2] \in Nat
    BY <2>2 DEF TypeOK, TunnelOrNull
  <2>4. \A n \in Name : tunnelMap'[n] <= setups' + 1
    BY <1>1, <2>1 DEF Parts, NumberInv
  <2>5. /\ currentTunnel' # NoTunnel => currentTunnel'[2] <= setups' + 1
        /\ backend' # NoTunnel => backend'[2] <= setups'
    BY <1>1, <2>1, <2>3 DEF Parts, NumberInv
  <2>6. backend' # NoTunnel => backend'[2] <= setups' + 1
    BY <1>1, <2>1, <2>3, <2>5
  <2> QED BY <2>4, <2>5, <2>6 DEF NumberInv
<1>5. SetupInv'
  <2>1. Mapped' = Mapped
    BY <1>1 DEF Mapped, getTunnel
  <2> QED BY <1>1, <1>2, <2>1 DEF SetupInv, Deleting
<1>6. RetryInv'
  BY <1>1 DEF Parts, RetryInv
<1>7. ASSUME ~stuck', backend' # NoTunnel
      PROVE  backend' \in doomed'
  <2>1. BackendInv /\ backend # NoTunnel
    BY <1>1, <1>7 DEF Parts
  <2>2. setup = "idle"
    BY <1>1, <2>1 DEF BackendInv, Deleting
  <2>3. backend = getTunnel(backend[1])
    BY <1>2, <2>1, <2>2 DEF BackendInv
  <2>4. backend[1] \in Name
    BY <2>1 DEF TypeOK, TunnelOrNull, Tunnel
  <2> QED BY <1>1, <2>1, <2>3, <2>4 DEF Mapped
<1>8. ~stuck' => BackendInv'
  BY <1>1, <1>2, <1>7 DEF BackendInv, Deleting
<1> QED BY <1>3, <1>4, <1>5, <1>6, <1>8 DEF Parts

LEMMA PartsOfForget ==
    ASSUME TypeOK, Parts, NEW t \in Tunnel, Forget(t)
    PROVE  Parts'
<1>1. /\ setup = "deleting" /\ t \in doomed /\ setup' = "removing"
      /\ doomed' = doomed \ {t} /\ down' = <<t, tstate[t]>>
      /\ tunnelMap' = [tunnelMap EXCEPT ![t[1]] = 0]
      /\ UNCHANGED <<currentTunnel, retryCount, shown, saved, file, tstate, backend, job,
                     requests, failures, after, setups, wanted, stuck, orderly>>
  BY DEF Forget, serviceVars, historyVars
<1>2. t \in Mapped
  BY <1>1 DEF Parts, SetupInv, Deleting
<1>3. t[1] \in Name /\ t = <<t[1], tunnelMap[t[1]]>>
  BY <1>2, MappedName
<1>4. \A m \in Name : tunnelMap'[m] = IF m = t[1] THEN 0 ELSE tunnelMap[m]
  BY <1>1, <1>3 DEF TypeOK
<1>5. Mapped' = Mapped \ {t}
  <2>1. \A m \in Name : getTunnel(m)' = IF m = t[1] THEN NoTunnel ELSE getTunnel(m)
    BY <1>4 DEF getTunnel
  <2>2. \A m \in Name : m # t[1] /\ getTunnel(m) # NoTunnel => getTunnel(m) # t
    BY GetTunnel
  <2>3. getTunnel(t[1]) = t
    BY <1>2, MappedName
  <2> QED BY <1>3, <2>1, <2>2, <2>3 DEF Mapped
<1>6. /\ wanted = NoTunnel
      /\ backend # NoTunnel => backend \in Tunnel /\ backend[2] <= setups
      /\ retryCount <= failures
      /\ \A r \in 1..MaxJobs : Busy(r) => job[r].want = "DOWN"
  BY <1>1, SetupFacts
<1>7. StateInv' /\ JobInv' /\ RetryInv'
  BY <1>1, <1>6, JobsOfSetup DEF Parts, StateInv, RetryInv
<1>8. NumberInv'
  <2>1. \A n \in Name : tunnelMap'[n] <= setups' + 1
    <3>1. setups \in Nat
      BY WireGuardAssumption DEF TypeOK
    <3> QED BY <1>1, <1>4, <3>1 DEF Parts, NumberInv
  <2> QED BY <1>1, <2>1 DEF Parts, NumberInv
<1>9. SetupInv'
  <2>1. after = "idle" => tstate[t] = "DOWN"
    <3>1. ASSUME after = "idle"
          PROVE  backend # t
      <4>1. tunnelMap[t[1]] \in {0, setups + 1}
        BY <1>1, <1>3, <3>1 DEF Parts, SetupInv, Deleting
      <4>2. t[2] = setups + 1
        BY <1>3, <4>1 DEF Tunnel, Number
      <4>3. t[2] \in Nat /\ setups \in Nat
        BY WireGuardAssumption DEF TypeOK, Tunnel, Number
      <4>4. t # NoTunnel
        BY <1>2 DEF Mapped
      <4> QED BY <1>6, <4>2, <4>3, <4>4
    <3> QED BY <3>1 DEF Parts, StateInv, TypeOK, State
  <2>2. (\A r \in 1..MaxJobs : ~Busy(r)) <=> (\A r \in 1..MaxJobs : ~Busy(r)')
    BY <1>1 DEF Busy
  <2>3. /\ doomed' \subseteq Mapped'
        /\ after' = "empty" => Mapped' \subseteq doomed' /\ \A r \in 1..MaxJobs : ~Busy(r)'
    BY <1>1, <1>5, <2>2 DEF Parts, SetupInv, Deleting
  <2>4. after' = "idle" => down'[2] = "DOWN" /\ \A n \in Name : tunnelMap'[n] \in {0, setups' + 1}
    BY <1>1, <1>4, <2>1 DEF Parts, SetupInv, Deleting
  <2> QED BY <1>1, <1>6, <2>3, <2>4 DEF SetupInv
<1>10. ASSUME ~stuck'
       PROVE  BackendInv'
  <2>1. BackendInv
    BY <1>1, <1>10 DEF Parts
  <2>2. ASSUME NEW r \in 1..MaxJobs, Busy(r)'
        PROVE  job'[r].want # "UP" /\ DownOK(r)'
    <3>1. Busy(r) /\ job[r].want = "DOWN"
      BY <1>1, <1>6, <2>2 DEF Busy
    <3>2. DownOK(r)
      BY <2>1, <3>1 DEF BackendInv
    <3> QED BY <1>1, <3>1, <3>2 DEF DownOK
  <2>3. ASSUME backend # NoTunnel
        PROVE  after = "empty" /\ (backend \in doomed' \/ down' = <<backend, "UP">>)
    <3>1. after = "empty" /\ backend \in doomed
      BY <1>1, <2>1, <2>3 DEF BackendInv
    <3>2. backend = t => tstate[t] = "UP"
      BY DEF Parts, StateInv
    <3> QED BY <1>1, <3>1, <3>2
  <2> QED BY <1>1, <2>2, <2>3 DEF BackendInv, Deleting
<1> QED BY <1>7, <1>8, <1>9, <1>10 DEF Parts

(* The tunnel is down and its file is gone.                                *)
LEMMA PartsOfRemove ==
    ASSUME TypeOK, Parts, setup = "removing", setup' = "deleting",
           IF down[2] = "UP" THEN setStateDown(down[1]) ELSE UNCHANGED <<tstate, backend>>,
           UNCHANGED <<serviceVars, tunnelMap, lastUsedTunnel, saved, job, after, doomed, down,
                       requests, setups, wanted, orderly, failures, stuck>>
    PROVE  Parts'
<1>1. UNCHANGED <<currentTunnel, retryCount, shown, tunnelMap, lastUsedTunnel, saved, job, after,
                  doomed, down, requests, setups, wanted, orderly, failures, stuck>>
  BY DEF serviceVars
<1>2. /\ wanted = NoTunnel
      /\ backend # NoTunnel => backend \in Tunnel /\ backend[2] <= setups
      /\ retryCount <= failures
      /\ \A r \in 1..MaxJobs : Busy(r) => job[r].want = "DOWN"
  BY SetupFacts
<1>3. down[1] \in Tunnel /\ (down[2] = "UP" => after = "empty")
  BY DEF Parts, SetupInv, TypeOK
<1>4. /\ StateInv'
      /\ backend' = IF down[2] = "UP" /\ backend = down[1] THEN NoTunnel ELSE backend
  <2>1. CASE down[2] = "UP"
    BY <1>3, <2>1, StateDown DEF Parts
  <2>2. CASE down[2] # "UP"
    BY <2>2 DEF Parts, StateInv
  <2> QED BY <2>1, <2>2
<1>5. \A r \in 1..MaxJobs : Busy(r)' <=> Busy(r)
  BY <1>1 DEF Busy
<1>6. down[2] = "UP" => \A r \in 1..MaxJobs : ~Busy(r)
  BY <1>3 DEF Parts, SetupInv, Deleting
<1>7. JobInv'
  <2>1. CASE down[2] = "UP"
    BY <1>5, <1>6, <2>1, NoJobLeft
  <2>2. CASE down[2] # "UP"
    BY <1>1, <1>2, <2>2, JobsOfSetup
  <2> QED BY <2>1, <2>2
<1>8. NumberInv' /\ RetryInv'
  BY <1>1, <1>2, <1>4 DEF Parts, NumberInv, RetryInv
<1>9. SetupInv'
  <2>1. Mapped' = Mapped
    BY <1>1 DEF Mapped, getTunnel
  <2> QED BY <1>1, <1>2, <1>5, <2>1 DEF Parts, SetupInv, Deleting
<1>10. ASSUME ~stuck'
       PROVE  BackendInv'
  <2>1. BackendInv
    BY <1>1, <1>10 DEF Parts
  <2>2. ASSUME NEW r \in 1..MaxJobs, Busy(r)'
        PROVE  job'[r].want # "UP" /\ DownOK(r)'
    <3>1. Busy(r) /\ job[r].want = "DOWN" /\ backend' = backend
      BY <1>2, <1>4, <1>5, <1>6, <2>2
    <3>2. DownOK(r)
      BY <2>1, <3>1 DEF BackendInv
    <3> QED BY <1>1, <3>1, <3>2 DEF DownOK
  <2>3. ASSUME backend' # NoTunnel
        PROVE  after = "empty" /\ backend' \in doomed
    BY <1>4, <2>1, <2>3 DEF BackendInv
  <2> QED BY <1>1, <2>2, <2>3 DEF BackendInv, Deleting
<1> QED BY <1>4, <1>7, <1>8, <1>9, <1>10 DEF Parts

(* Its file could not be deleted: the deletion ends.                       *)
LEMMA PartsOfRemoveAborted ==
    ASSUME TypeOK, Parts, setup = "removing", setup' = "idle", stuck' = TRUE,
           IF down[2] = "UP" THEN setStateDown(down[1]) ELSE UNCHANGED <<tstate, backend>>,
           UNCHANGED <<serviceVars, tunnelMap, lastUsedTunnel, saved, job, after, doomed, down,
                       requests, setups, wanted, orderly, failures>>
    PROVE  Parts'
<1>1. UNCHANGED <<currentTunnel, retryCount, tunnelMap, job, failures, setups, wanted>>
  BY DEF serviceVars
<1>2. /\ wanted = NoTunnel
      /\ backend # NoTunnel => backend \in Tunnel /\ backend[2] <= setups
      /\ retryCount <= failures
      /\ \A r \in 1..MaxJobs : Busy(r) => job[r].want = "DOWN"
  BY SetupFacts
<1>3. down[1] \in Tunnel /\ (down[2] = "UP" => after = "empty")
  BY DEF Parts, SetupInv, TypeOK
<1>4. /\ StateInv'
      /\ backend' = IF down[2] = "UP" /\ backend = down[1] THEN NoTunnel ELSE backend
  <2>1. CASE down[2] = "UP"
    BY <1>3, <2>1, StateDown DEF Parts
  <2>2. CASE down[2] # "UP"
    BY <2>2 DEF Parts, StateInv
  <2> QED BY <2>1, <2>2
<1>5. JobInv'
  <2>1. CASE down[2] = "UP"
    <3>1. \A r \in 1..MaxJobs : ~Busy(r)
      BY <1>3, <2>1 DEF Parts, SetupInv, Deleting
    <3> QED BY <1>1, <3>1, NoJobLeft DEF Busy
  <2>2. CASE down[2] # "UP"
    BY <1>1, <1>2, <2>2, JobsOfSetup
  <2> QED BY <2>1, <2>2
<1>6. NumberInv' /\ RetryInv'
  BY <1>1, <1>2, <1>4 DEF Parts, NumberInv, RetryInv
<1>7. SetupInv'
  BY DEF SetupInv, Deleting
<1> QED BY <1>4, <1>5, <1>6, <1>7 DEF Parts

(* It could not be taken down: the deletion ends.                          *)
LEMMA PartsOfRemoveFails ==
    ASSUME TypeOK, Parts, setup = "removing", setup' = "idle", down[2] = "UP", setStateFails,
           stuck' = TRUE,
           UNCHANGED <<serviceVars, tunnelMap, lastUsedTunnel, saved, job, after, doomed, down,
                       requests, setups, wanted, orderly>>
    PROVE  Parts'
<1>1. UNCHANGED <<currentTunnel, retryCount, tunnelMap, job, setups, wanted, orderly>>
  BY DEF serviceVars
<1>2. wanted = NoTunnel
  BY SetupFacts
<1>3. StateInv' /\ backend' = backend
  BY StateFails DEF Parts
<1>4. \A r \in 1..MaxJobs : ~Busy(r)
  <2>1. after = "empty"
    BY DEF Parts, SetupInv, TypeOK
  <2> QED BY <2>1 DEF Parts, SetupInv, Deleting
<1>5. JobInv'
  BY <1>1, <1>4, NoJobLeft DEF Busy
<1>6. NumberInv'
  BY <1>1, <1>3 DEF Parts, NumberInv
<1>7. RetryInv'
  <2>1. retryCount' <= failures'
    <3>1. retryCount \in Nat /\ failures \in Nat /\ failures' = failures + 1
      BY WireGuardAssumption DEF setStateFails, TypeOK
    <3> QED BY <1>1, <3>1 DEF Parts, RetryInv
  <2> QED BY <1>1, <1>2, <2>1 DEF RetryInv
<1>8. SetupInv'
  BY DEF SetupInv, Deleting
<1> QED BY <1>3, <1>5, <1>6, <1>7, <1>8 DEF Parts

LEMMA PartsOfDeleted ==
    ASSUME TypeOK, Parts, Deleted
    PROVE  Parts'
<1>1. /\ setup = "deleting" /\ doomed = {} /\ setup' = after
      /\ UNCHANGED <<currentTunnel, retryCount, shown, tunnelMap, lastUsedTunnel, saved, file,
                     tstate, backend, job, after, doomed, down, requests, failures, setups,
                     wanted, stuck, orderly>>
  BY DEF Deleted, serviceVars, managerVars, historyVars
<1>2. /\ wanted = NoTunnel
      /\ backend # NoTunnel => backend \in Tunnel /\ backend[2] <= setups
      /\ retryCount <= failures
      /\ \A r \in 1..MaxJobs : Busy(r) => job[r].want = "DOWN"
  BY <1>1, SetupFacts
<1>3. StateInv' /\ JobInv' /\ RetryInv' /\ NumberInv'
  BY <1>1, <1>2, JobsOfSetup DEF Parts, StateInv, RetryInv, NumberInv
<1>4. SetupInv'
  <2>1. ASSUME after = "empty", NEW n \in Name
        PROVE  tunnelMap[n] = 0
    <3>1. Mapped = {}
      BY <1>1, <2>1 DEF Parts, SetupInv, Deleting
    <3>2. getTunnel(n) = NoTunnel
      BY <3>1 DEF Mapped
    <3> QED BY <3>2, GetTunnel
  <2> QED BY <1>1, <1>2, <2>1 DEF SetupInv, Deleting, TypeOK
<1>5. ASSUME ~stuck'
      PROVE  BackendInv'
  <2>1. BackendInv /\ backend = NoTunnel
    BY <1>1, <1>5 DEF Parts, BackendInv
  <2>2. ASSUME NEW r \in 1..MaxJobs, Busy(r)'
        PROVE  job'[r].want # "UP" /\ DownOK(r)'
    <3>1. Busy(r) /\ job[r].want = "DOWN"
      BY <1>1, <1>2, <2>2 DEF Busy
    <3>2. DownOK(r)
      BY <2>1, <3>1 DEF BackendInv
    <3> QED BY <1>1, <3>1, <3>2 DEF DownOK
  <2> QED BY <1>1, <2>1, <2>2 DEF BackendInv
<1> QED BY <1>3, <1>4, <1>5 DEF Parts

LEMMA PartsOfCreate ==
    ASSUME TypeOK, Parts, NEW n \in Name, create(n)
    PROVE  Parts'
<1>1. /\ setup = "empty" /\ tunnelMap[n] = 0
      /\ UNCHANGED <<currentTunnel, retryCount, shown, lastUsedTunnel, saved, tstate, backend,
                     job, down, requests, failures, setups, wanted, stuck, orderly>>
      /\ \/ tunnelMap' = [tunnelMap EXCEPT ![n] = setups + 1] /\ setup' \in {"empty", "idle"}
         \/ /\ setup' = "deleting" /\ after' = "idle" /\ doomed' = Mapped
            /\ UNCHANGED tunnelMap
  BY DEF create, Mapped, serviceVars, historyVars
<1>2. /\ wanted = NoTunnel
      /\ backend # NoTunnel => backend \in Tunnel /\ backend[2] <= setups
      /\ retryCount <= failures
      /\ \A r \in 1..MaxJobs : Busy(r) => job[r].want = "DOWN"
  BY <1>1, SetupFacts
<1>3. StateInv' /\ JobInv' /\ RetryInv'
  BY <1>1, <1>2, JobsOfSetup DEF Parts, StateInv, RetryInv
<1>4. /\ setups \in Nat
      /\ \A m \in Name : tunnelMap'[m] \in {tunnelMap[m], setups + 1}
      /\ \A m \in Name : tunnelMap[m] \in {0, setups + 1}
  BY <1>1, WireGuardAssumption DEF Parts, SetupInv, TypeOK
<1>5. NumberInv'
  <2>1. \A m \in Name : tunnelMap'[m] <= setups' + 1
    BY <1>1, <1>4
  <2> QED BY <1>1, <2>1 DEF Parts, NumberInv
<1>6. SetupInv'
  <2>1. tunnelMap' = tunnelMap => Mapped' = Mapped
    BY DEF Mapped, getTunnel
  <2>2. \A m \in Name : tunnelMap'[m] \in {0, setups' + 1}
    BY <1>1, <1>4
  <2> QED BY <1>1, <1>2, <2>1, <2>2 DEF SetupInv, Deleting
<1>7. ASSUME ~stuck'
      PROVE  BackendInv'
  <2>1. BackendInv /\ backend = NoTunnel
    BY <1>1, <1>7 DEF Parts, BackendInv, Deleting
  <2>2. ASSUME NEW r \in 1..MaxJobs, Busy(r)'
        PROVE  job'[r].want # "UP" /\ DownOK(r)'
    <3>1. Busy(r) /\ job[r].want = "DOWN"
      BY <1>1, <1>2, <2>2 DEF Busy
    <3>2. DownOK(r)
      BY <2>1, <3>1 DEF BackendInv
    <3> QED BY <1>1, <3>1, <3>2 DEF DownOK
  <2> QED BY <1>1, <2>1, <2>2 DEF BackendInv
<1> QED BY <1>3, <1>5, <1>6, <1>7 DEF Parts

-----------------------------------------------------------------------------
(* The theorems.                                                           *)

LEMMA OrderlyStep == TypeOK /\ OrderlyInv /\ [Next]_vars => OrderlyInv'
<1> SUFFICES ASSUME TypeOK, OrderlyInv, [Next]_vars, orderly' PROVE Parts'
  BY DEF OrderlyInv, Parts
<1>1. CASE UNCHANGED vars
  <2>1. Parts
    BY <1>1 DEF vars, historyVars, OrderlyInv, Parts
  <2>2. UNCHANGED <<currentTunnel, retryCount, shown, tunnelMap, lastUsedTunnel, saved, tstate,
                    backend, job, setup, after, doomed, down, setups, failures, wanted, stuck>>
    BY <1>1 DEF vars, serviceVars, managerVars, setupVars, historyVars
  <2>3. StateInv' /\ JobInv' /\ NumberInv' /\ RetryInv'
    BY <2>1, <2>2 DEF Parts, StateInv, JobInv, JobOK, Busy, NumberInv, RetryInv
  <2>4. SetupInv'
    BY <2>1, <2>2 DEF Parts, SetupInv, Deleting, Mapped, getTunnel, Busy
  <2>5. ~stuck' => BackendInv'
    BY <2>1, <2>2 DEF Parts, BackendInv, UpOK, DownOK, Deleting, getTunnel, Busy
  <2> QED BY <2>3, <2>4, <2>5 DEF Parts
<1>2. ASSUME Request
      PROVE  Quiet /\ Parts
  BY <1>2 DEF Request, OrderlyInv, Parts
<1>3. CASE (\E n \in Name : startOrStopWireGuard(n)) \/ disconnectWireGuard
  <2>1. Request
    BY <1>3 DEF startOrStopWireGuard, disconnectWireGuard
  <2> QED BY <1>2, <1>3, <2>1, PartsOfConnect, PartsOfDisconnect
          DEF startOrStopWireGuard, disconnectWireGuard
<1>4. ASSUME NEW r \in 1..MaxJobs, Job(r)
      PROVE  Parts'
  <2>1. orderly' = orderly
    BY <1>4 DEF Job, EmitSame, setTunnelState, EmitAnswer, onCompletion, onFailure, EmitAgain,
       Retry, historyVars
  <2> QED BY <1>4, <2>1, PartsOfJob DEF OrderlyInv, Parts
<1>5. CASE deleteAll
  <2>1. Parts /\ \A r \in 1..MaxJobs : job[r] = NoJob
    BY <1>5 DEF deleteAll, OrderlyInv, Parts
  <2> QED BY <1>5, <2>1, PartsOfDeleteAll
<1>6. CASE Remove \/ Deleted \/ (\E t \in Tunnel : Forget(t)) \/ (\E n \in Name : create(n))
  <2>1. Parts
    BY <1>6 DEF Remove, Deleted, Forget, create, historyVars, OrderlyInv, Parts
  <2>2. CASE Remove
    BY <2>1, <2>2, PartsOfRemove, PartsOfRemoveFails, PartsOfRemoveAborted DEF Remove
  <2> QED BY <1>6, <2>1, <2>2, PartsOfDeleted, PartsOfForget, PartsOfCreate
<1> QED BY <1>1, <1>3, <1>4, <1>5, <1>6 DEF Next

LEMMA OrderlyInit == Init => OrderlyInv
<1> SUFFICES ASSUME Init PROVE Parts
  BY DEF OrderlyInv, Parts
<1>1. \A r \in 1..MaxJobs : ~Busy(r)
  BY DEF Init, Busy
<1>2. StateInv
  <2>1. NoTunnel \notin Tunnel
    BY WireGuardAssumption DEF Tunnel, Number
  <2> QED BY <2>1 DEF Init, StateInv
<1>3. JobInv /\ NumberInv
  BY <1>1 DEF Init, JobInv, NumberInv
<1>4. SetupInv /\ RetryInv
  BY DEF Init, SetupInv, Deleting, RetryInv
<1>5. BackendInv
  BY <1>1 DEF Init, BackendInv
<1> QED BY <1>2, <1>3, <1>4, <1>5 DEF Parts

(* The strengthening holds whatever the jobs, the backend and the logins   *)
(* do.                                                                     *)
THEOREM WireGuardInvariance == Spec => [](TypeOK /\ OrderlyInv)
<1>1. Init => TypeOK /\ OrderlyInv
  BY TypeInit, OrderlyInit
<1>2. TypeOK /\ OrderlyInv /\ [Next]_vars => (TypeOK /\ OrderlyInv)'
  BY TypeStep, OrderlyStep
<1> QED BY <1>1, <1>2, PTL DEF Spec

(* Every variable of the service, the manager and the jobs keeps its type. *)
THEOREM WireGuardTypeCorrect == Spec => []TypeOK
<1> QED BY WireGuardInvariance, PTL

(* For requests that come one after the other the state of every tunnel is *)
(* what the backend runs, in spite of failures, retries and the tunnel the *)
(* backend has restored.                                                   *)
THEOREM StateTheorem == Spec => []OrderlyStateIsBackend
<1>1. OrderlyInv => OrderlyStateIsBackend
  BY DEF OrderlyInv, StateInv, OrderlyStateIsBackend
<1> QED BY <1>1, WireGuardInvariance, PTL

LEMMA WhenQuiet ==
    ASSUME TypeOK, OrderlyInv, orderly, ~stuck, Quiet, backend # NoTunnel
    PROVE  /\ backend = getTunnel(backend[1]) /\ backend[1] = wanted
           /\ lastUsedTunnel = backend /\ backend[1] \in saved /\ shown
<1>1. \A r \in 1..MaxJobs : ~Busy(r)
  BY DEF Quiet, Busy
<1>2. BackendInv
  BY DEF OrderlyInv
<1>3. setup = "idle"
  BY <1>2 DEF BackendInv, Quiet, Deleting
<1> QED BY <1>1, <1>2, <1>3 DEF BackendInv

(* No tunnel is up after the user has disconnected or logged out, and one  *)
(* that is up is the one asked for.                                        *)
THEOREM DisconnectedTheorem == Spec => []DisconnectedMeansDown
<1>1. TypeOK /\ OrderlyInv => DisconnectedMeansDown
  BY WhenQuiet DEF DisconnectedMeansDown
<1> QED BY <1>1, WireGuardInvariance, PTL

(* A tunnel that is up is in the map, the preferences and the notification.*)
THEOREM KnownTheorem == Spec => []RunningIsKnown
<1>1. TypeOK /\ OrderlyInv => RunningIsKnown
  BY WhenQuiet DEF RunningIsKnown
<1> QED BY <1>1, WireGuardInvariance, PTL

(* MAX_RETRY retries are enough for MAX_RETRY failures, whatever their     *)
(* number and however often the user connected before.                     *)
THEOREM RetriesTheorem == Spec => []RetriesSuffice
<1>1. ASSUME OrderlyInv, orderly, Quiet, wanted # NoTunnel, failures <= MAX_RETRY
      PROVE  backend # NoTunnel
  <2>1. \A r \in 1..MaxJobs : ~Busy(r)
    BY <1>1 DEF Quiet, Busy
  <2> QED BY <1>1, <2>1 DEF OrderlyInv, RetryInv
<1>2. TypeOK /\ OrderlyInv => RetriesSuffice
  BY <1>1 DEF RetriesSuffice
<1> QED BY <1>2, WireGuardInvariance, PTL
===================================================================================

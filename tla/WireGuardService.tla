--------------------------- MODULE WireGuardService ---------------------------
(***************************************************************************)
(* WireGuard tunnels: WireGuardService.kt, TunnelManager.kt, EkoTunnel.kt  *)
(* and FileConfigStore.kt of wireguard/, with WireGuardConfigurator.kt as  *)
(* the one that deletes the tunnels and creates them again.                *)
(*                                                                         *)
(* Requests are short and run on the main thread.  Each one launches a job *)
(* (a coroutine) that runs on its own: it has the backend change the       *)
(* state, tells the service (onEach), updates the manager (onCompletion)   *)
(* and tells the service again.  Nothing orders two jobs, and both work on *)
(* the same tunnels.                                                       *)
(*                                                                         *)
(* A tunnel is an object: <<name, n>> is the n-th with that name.  The     *)
(* backend is external: it runs one tunnel, and restores that one when it  *)
(* cannot replace it.                                                      *)
(***************************************************************************)
EXTENDS Integers, FiniteSets

CONSTANTS
    Name,         \* names of the tunnels
    NoTunnel,     \* null
    MAX_RETRY,    \* attempts after a failure (4 in the code)
    MaxRequests,  \* bound: requests of the user and of the manager service
    MaxJobs,      \* bound: jobs that run at the same time
    MaxFailures,  \* bound: failures of the backend
    MaxSetups     \* bound: times the tunnels are deleted and created again

ASSUME WireGuardAssumption ==
    /\ MAX_RETRY \in Nat
    /\ MaxRequests \in Nat
    /\ MaxJobs \in Nat
    /\ MaxFailures \in Nat
    /\ MaxSetups \in Nat
    /\ NoTunnel \notin Name \X (1..MaxSetups + 1)

Number == 1..MaxSetups + 1
Tunnel == Name \X Number
TunnelOrNull == Tunnel \cup {NoTunnel}
State == {"UP", "DOWN"}

VARIABLES
    currentTunnel, retryCount,  \* fields of the service
    shown,                      \* the notification "Connected"
    tunnelMap,                  \* number of the tunnel with a name; 0: there is none
    lastUsedTunnel, saved,      \* preferences: last used, names that are up
    tstate,                     \* EkoTunnel.state
    file,                       \* names with a configuration file
    backend,                    \* the tunnel the backend runs
    job,                        \* the coroutines
    setup, after, doomed, down, \* deleteAll and create: step, next one, tunnels, the one at hand
    requests, failures, setups,
    wanted,                     \* history: the name asked for last, or null
    stuck,                      \* history: a DOWN or the deletion of a file failed
    orderly                     \* history: every request came when all was quiet

serviceVars == <<currentTunnel, retryCount, shown>>
managerVars == <<tunnelMap, lastUsedTunnel, saved, file>>
setupVars == <<setup, after, doomed, down, setups>>
historyVars == <<wanted, stuck, orderly>>
vars == <<serviceVars, managerVars, tstate, backend, job, setupVars, requests,
          failures, historyVars>>

NoJob == [pc |-> "done", tunnel |-> NoTunnel, want |-> "DOWN"]
Quiet ==
    /\ setup = "idle" \/ (setup = "empty" /\ \A n \in Name : tunnelMap[n] = 0)
    /\ \A r \in 1..MaxJobs : job[r] = NoJob

getTunnel(n) == IF tunnelMap[n] = 0 THEN NoTunnel ELSE <<n, tunnelMap[n]>>
getCurrentState == IF currentTunnel = NoTunnel THEN "DOWN" ELSE tstate[currentTunnel]

-----------------------------------------------------------------------------
(* The backend.                                                            *)

Replaced(t) == IF backend \in {NoTunnel, t} THEN tstate
               ELSE [tstate EXCEPT ![backend] = "DOWN"]

setStateUp(t) ==
    /\ backend' = t
    /\ tstate' = IF backend = t THEN tstate ELSE [Replaced(t) EXCEPT ![t] = "UP"]

setStateDown(t) ==
    /\ backend' = IF backend = t THEN NoTunnel ELSE backend
    /\ tstate' = IF backend = t THEN [tstate EXCEPT ![t] = "DOWN"] ELSE tstate

setStateFails ==
    /\ failures < MaxFailures
    /\ failures' = failures + 1
    /\ tstate' = IF backend = NoTunnel THEN tstate ELSE [tstate EXCEPT ![backend] = "UP"]
    /\ UNCHANGED backend

-----------------------------------------------------------------------------
(* The main thread.                                                        *)

(* EkoTunnel.setStateAsync: the state is looked at now, the job runs later.*)
(* The configuration it reads on the way is there: that of a tunnel in the *)
(* map has its file, and a tunnel that is up has its configuration.        *)
setStateAsync(t, want) ==
    IF t = NoTunnel THEN NoJob
    ELSE [pc |-> IF tstate[t] = want THEN "same" ELSE "set", tunnel |-> t, want |-> want]

(* The slot of the next job. *)
Free == CHOOSE r \in 1..MaxJobs : job[r] = NoJob

Request ==
    /\ requests < MaxRequests
    /\ \E r \in 1..MaxJobs : job[r] = NoJob
    /\ requests' = requests + 1
    /\ orderly' = (orderly /\ Quiet)
    /\ UNCHANGED <<retryCount, managerVars, tstate, backend, setupVars, failures, stuck>>

connectToTunnelWithName(n) ==
    /\ wanted' = IF getTunnel(n) = NoTunnel THEN NoTunnel ELSE n
    /\ currentTunnel' = getTunnel(n)
    /\ job' = [job EXCEPT ![Free] = setStateAsync(getTunnel(n), "UP")]
    /\ UNCHANGED shown

(* Mutant: the service forgets its tunnel before it takes it down.         *)
disconnectForgets ==
    /\ wanted' = NoTunnel
    /\ currentTunnel' = NoTunnel
    /\ shown' = FALSE
    /\ UNCHANGED job

disconnect ==
    /\ wanted' = NoTunnel
    /\ job' = [job EXCEPT ![Free] = setStateAsync(currentTunnel, "DOWN")]
    /\ currentTunnel' = NoTunnel
    /\ shown' = FALSE

(* A tap on a server: connects, or disconnects if the tunnel is up.        *)
startOrStopWireGuard(n) ==
    /\ Request
    /\ \/ getCurrentState # "UP" /\ connectToTunnelWithName(n)
       \/ getCurrentState = "UP" /\ disconnect

(* The time is over, or another server was chosen.                         *)
disconnectWireGuard == Request /\ disconnect

-----------------------------------------------------------------------------
(* Job r.                                                                  *)

JobEnds(r, from) == job[r].pc = from /\ job' = [job EXCEPT ![r] = NoJob]
JobStep(r, from, to) == job[r].pc = from /\ job' = [job EXCEPT ![r].pc = to]

(* onEach: the state that is emitted reaches the service.                  *)
onEach(state) ==
    /\ shown' = (shown \/ state = "UP")
    /\ retryCount' = 0

EmitSame(r) ==
    /\ JobEnds(r, "same")
    /\ onEach(job[r].want)
    /\ UNCHANGED <<currentTunnel, managerVars, tstate, backend, setupVars, requests,
                   failures, historyVars>>

setTunnelState(r) ==
    /\ \/ /\ JobStep(r, "set", "each")
          /\ IF job[r].want = "UP" THEN setStateUp(job[r].tunnel) ELSE setStateDown(job[r].tunnel)
          /\ UNCHANGED <<failures, stuck>>
       \/ /\ JobStep(r, "set", "broken")
          /\ setStateFails
          /\ stuck' = (stuck \/ job[r].want = "DOWN")
    /\ UNCHANGED <<serviceVars, managerVars, setupVars, requests, wanted, orderly>>

(* The backend answers with the state of the tunnel.                       *)
EmitAnswer(r) ==
    /\ JobStep(r, "each", "complete")
    /\ onEach(job[r].want)
    /\ UNCHANGED <<currentTunnel, managerVars, tstate, backend, setupVars, requests,
                   failures, historyVars>>

saveState(states) ==
    saved' = {n \in Name : tunnelMap[n] # 0 /\ states[<<n, tunnelMap[n]>>] = "UP"}

(* Mutant: a tunnel that came up is not remembered.                        *)
onCompletionForgets(r) ==
    /\ JobStep(r, "complete", "again")
    /\ tstate' = [tstate EXCEPT ![job[r].tunnel] = job[r].want]
    /\ saveState(tstate')
    /\ UNCHANGED <<serviceVars, tunnelMap, lastUsedTunnel, file, backend, setupVars,
                   requests, failures, historyVars>>

onCompletion(r) ==
    /\ JobStep(r, "complete", "again")
    /\ tstate' = [tstate EXCEPT ![job[r].tunnel] = job[r].want]
    /\ lastUsedTunnel' = IF job[r].want = "UP" THEN job[r].tunnel ELSE lastUsedTunnel
    /\ saveState(tstate')
    /\ UNCHANGED <<serviceVars, tunnelMap, file, backend, setupVars, requests, failures,
                   historyVars>>

(* Mutant: the state asked for is set whether or not it was reached.       *)
onFailureState(r) ==
    /\ JobStep(r, "broken", "failed")
    /\ tstate' = [tstate EXCEPT ![job[r].tunnel] = job[r].want]
    /\ saveState(tstate')
    /\ UNCHANGED <<serviceVars, tunnelMap, lastUsedTunnel, file, backend, setupVars,
                   requests, failures, historyVars>>

(* ... after a failure: the state stays.  Whether what is emitted then is  *)
(* delivered is up to the version of the coroutine library.                *)
onFailure(r) ==
    /\ JobStep(r, "broken", "failed")
    /\ saveState(tstate)
    /\ onEach(job[r].want) \/ UNCHANGED <<shown, retryCount>>
    /\ UNCHANGED <<currentTunnel, tunnelMap, lastUsedTunnel, file, tstate, backend,
                   setupVars, requests, failures, historyVars>>

EmitAgain(r) ==
    /\ JobEnds(r, "again")
    /\ onEach(job[r].want)
    /\ UNCHANGED <<currentTunnel, managerVars, tstate, backend, setupVars, requests,
                   failures, historyVars>>

(* Mutant: one attempt less.                                               *)
RetryOneLess(r) ==
    /\ job[r].pc = "failed"
    /\ \/ /\ retryCount < MAX_RETRY - 1
          /\ retryCount' = retryCount + 1
          /\ job' = [job EXCEPT ![r] = setStateAsync(currentTunnel, job[r].want)]
       \/ /\ retryCount >= MAX_RETRY - 1
          /\ job' = [job EXCEPT ![r] = NoJob]
          /\ UNCHANGED retryCount
    /\ UNCHANGED <<currentTunnel, shown, managerVars, tstate, backend, setupVars, requests,
                   failures, historyVars>>

(* Mutant: the count is not limited by what the code says it is.           *)
RetryUnbounded(r) ==
    /\ job[r].pc = "failed"
    /\ retryCount' = retryCount + 1
    /\ job' = [job EXCEPT ![r] = setStateAsync(currentTunnel, job[r].want)]
    /\ UNCHANGED <<currentTunnel, shown, managerVars, tstate, backend, setupVars, requests,
                   failures, historyVars>>

(* The retry is for the tunnel the service has by now.                     *)
Retry(r) ==
    /\ job[r].pc = "failed"
    /\ \/ /\ retryCount < MAX_RETRY
          /\ retryCount' = retryCount + 1
          /\ job' = [job EXCEPT ![r] = setStateAsync(currentTunnel, job[r].want)]
       \/ /\ retryCount >= MAX_RETRY
          /\ job' = [job EXCEPT ![r] = NoJob]
          /\ UNCHANGED retryCount
    /\ UNCHANGED <<currentTunnel, shown, managerVars, tstate, backend, setupVars, requests,
                   failures, historyVars>>

Job(r) ==
    \/ EmitSame(r)
    \/ setTunnelState(r)
    \/ EmitAnswer(r)
    \/ onCompletion(r)
    \/ onFailure(r)
    \/ EmitAgain(r)
    \/ Retry(r)

-----------------------------------------------------------------------------
(* Logging out and signing in again: deleteAll(), then create() for every  *)
(* tunnel of the new configuration.                                        *)

deleteAll ==
    /\ setup \in {"idle", "empty"}
    /\ setups < MaxSetups
    /\ setups' = setups + 1
    /\ setup' = "deleting" /\ after' = "empty"
    /\ doomed' = {getTunnel(n) : n \in Name} \ {NoTunnel}
    /\ wanted' = NoTunnel
    /\ orderly' = (orderly /\ \A r \in 1..MaxJobs : job[r] = NoJob)
    /\ UNCHANGED <<serviceVars, managerVars, tstate, backend, job, down, requests, failures, stuck>>

(* delete(): the manager forgets the tunnel first, ...                     *)
Forget(t) ==
    /\ setup = "deleting" /\ t \in doomed
    /\ setup' = "removing"
    /\ doomed' = doomed \ {t}
    /\ down' = <<t, tstate[t]>>
    /\ lastUsedTunnel' = IF lastUsedTunnel = t THEN NoTunnel ELSE lastUsedTunnel
    /\ tunnelMap' = [tunnelMap EXCEPT ![t[1]] = 0]
    /\ UNCHANGED <<serviceVars, saved, file, tstate, backend, job, requests, failures,
                   after, setups, historyVars>>

(* ... takes it down if it was up, and deletes its file.  An exception, of *)
(* the backend or of the file, ends the whole deletion.                    *)
Remove ==
    /\ setup = "removing"
    /\ \/ /\ IF down[2] = "UP" THEN setStateDown(down[1]) ELSE UNCHANGED <<tstate, backend>>
          /\ \/ file' = file \ {down[1][1]} /\ setup' = "deleting" /\ UNCHANGED stuck
             \/ setup' = "idle" /\ stuck' = TRUE /\ UNCHANGED file
          /\ UNCHANGED failures
       \/ /\ down[2] = "UP"
          /\ setStateFails
          /\ stuck' = TRUE
          /\ setup' = "idle"
          /\ UNCHANGED file
    /\ UNCHANGED <<serviceVars, tunnelMap, lastUsedTunnel, saved, job, after, doomed, down,
                   requests, setups, wanted, orderly>>

Deleted ==
    /\ setup = "deleting" /\ doomed = {}
    /\ setup' = after
    /\ UNCHANGED <<serviceVars, managerVars, tstate, backend, job, after, doomed, down, requests,
                   failures, setups, historyVars>>

(* create(): a name that still has a file is refused, and what was created *)
(* so far is deleted.                                                      *)
create(n) ==
    /\ setup = "empty" /\ tunnelMap[n] = 0
    /\ \/ /\ n \notin file
          /\ tunnelMap' = [tunnelMap EXCEPT ![n] = setups + 1]
          /\ file' = file \cup {n}
          /\ setup' = IF \E m \in Name \ {n} : tunnelMap[m] = 0 THEN "empty" ELSE "idle"
          /\ UNCHANGED <<after, doomed>>
       \/ /\ n \in file
          /\ setup' = "deleting" /\ after' = "idle"
          /\ doomed' = {getTunnel(m) : m \in Name} \ {NoTunnel}
          /\ UNCHANGED <<tunnelMap, file>>
    /\ UNCHANGED <<serviceVars, lastUsedTunnel, saved, tstate, backend, job, down,
                   requests, failures, setups, historyVars>>

-----------------------------------------------------------------------------
(* The tunnels of the files have been loaded and none is up.               *)
Init ==
    /\ currentTunnel = NoTunnel /\ retryCount = 0 /\ shown = FALSE
    /\ tunnelMap = [n \in Name |-> 1]
    /\ lastUsedTunnel = NoTunnel /\ saved = {} /\ file = Name
    /\ tstate = [t \in Tunnel |-> "DOWN"]
    /\ backend = NoTunnel
    /\ job = [r \in 1..MaxJobs |-> NoJob]
    /\ setup = "idle" /\ after = "idle" /\ doomed = {} /\ down = <<NoTunnel, "DOWN">>
    /\ requests = 0 /\ failures = 0 /\ setups = 0
    /\ wanted = NoTunnel /\ stuck = FALSE /\ orderly = TRUE

Next ==
    \/ \E n \in Name : startOrStopWireGuard(n) \/ create(n)
    \/ disconnectWireGuard
    \/ \E r \in 1..MaxJobs : Job(r)
    \/ deleteAll \/ Remove \/ Deleted
    \/ \E t \in Tunnel : Forget(t)

Spec == Init /\ [][Next]_vars

-----------------------------------------------------------------------------
(* Properties.                                                             *)

TypeOK ==
    /\ currentTunnel \in TunnelOrNull /\ lastUsedTunnel \in TunnelOrNull
    /\ backend \in TunnelOrNull
    /\ retryCount \in 0..MAX_RETRY
    /\ shown \in BOOLEAN /\ stuck \in BOOLEAN /\ orderly \in BOOLEAN
    /\ tunnelMap \in [Name -> 0..MaxSetups + 1]
    /\ saved \subseteq Name /\ file \subseteq Name
    /\ tstate \in [Tunnel -> State]
    /\ job \in [1..MaxJobs ->
                   [pc : {"done", "same", "set", "each", "complete", "again", "broken", "failed"},
                    tunnel : TunnelOrNull, want : State]]
    /\ setup \in {"idle", "deleting", "removing", "empty"}
    /\ after \in {"idle", "empty"}
    /\ doomed \subseteq Tunnel
    /\ down \in TunnelOrNull \X State
    /\ requests \in 0..MaxRequests /\ failures \in 0..MaxFailures /\ setups \in 0..MaxSetups
    /\ wanted \in Name \cup {NoTunnel}

(* If the requests came one after the other, the state of every tunnel is  *)
(* what the backend runs once nothing is under way, in spite of failures,  *)
(* retries and the tunnel the backend has restored.                        *)
OrderlyStateIsBackend ==
    orderly /\ Quiet => \A t \in Tunnel : tstate[t] = "UP" <=> backend = t

(* If the requests came one after the other and nothing is stuck, no       *)
(* tunnel is up once the user has disconnected or logged out, however      *)
(* often the connection was retried; and a tunnel that is up is the one    *)
(* asked for.                                                              *)
DisconnectedMeansDown ==
    orderly /\ ~stuck /\ Quiet /\ backend # NoTunnel => backend[1] = wanted

(* ... and it is known: it is in the map, the last used one, saved among   *)
(* those that are up, and no step of an earlier connection has taken the   *)
(* notification away.                                                      *)
RunningIsKnown ==
    orderly /\ ~stuck /\ Quiet /\ backend # NoTunnel =>
        /\ backend = getTunnel(backend[1])
        /\ lastUsedTunnel = backend
        /\ backend[1] \in saved
        /\ shown

(* The retries are enough: a tunnel that was asked for is up unless the    *)
(* backend failed more often than there are retries.                       *)
RetriesSuffice ==
    orderly /\ Quiet /\ wanted # NoTunnel /\ failures <= MAX_RETRY => backend # NoTunnel

-----------------------------------------------------------------------------
(* The inductive invariant behind these properties: what holds as long as  *)
(* the requests come one after the other.                                  *)

Busy(r) == job[r] # NoJob
Deleting == setup \in {"deleting", "removing"}

(* There is one job at a time.  It works for the request of the user that  *)
(* came last, and while it is under way no tunnel is started by another.   *)
JobOK(r) ==
    /\ job[r].tunnel \in Tunnel /\ job[r].pc # "done"
    /\ job[r].pc \in {"same", "each", "complete", "again"} =>
          tstate[job[r].tunnel] = job[r].want
    /\ job[r].want = "DOWN" => wanted = NoTunnel /\ currentTunnel = NoTunnel
    /\ job[r].want = "UP" => setup = "idle" /\ currentTunnel = job[r].tunnel
    /\ job[r].pc \in {"broken", "failed"} => retryCount < failures

JobInv ==
    /\ \A r, q \in 1..MaxJobs : Busy(r) /\ Busy(q) => r = q
    /\ \A r \in 1..MaxJobs : Busy(r) => JobOK(r)

(* A tunnel has the number of the set-up that created it.  Those of the    *)
(* current one are not started before all of them are there.               *)
NumberInv ==
    /\ \A n \in Name : tunnelMap[n] <= setups + 1
    /\ currentTunnel # NoTunnel => currentTunnel[2] <= setups + 1
    /\ backend # NoTunnel =>
          /\ backend[2] <= setups + 1
          /\ setup # "idle" => backend[2] <= setups

(* Deleting all tunnels takes every one of the map, and no job is under    *)
(* way; what create() deletes was never started.                           *)
Mapped == {getTunnel(n) : n \in Name} \ {NoTunnel}
SetupInv ==
    /\ setup # "idle" => wanted = NoTunnel
    /\ Deleting => doomed \subseteq Mapped
    /\ setup = "removing" => down[1] \in Tunnel
    /\ Deleting /\ after = "empty" =>
          Mapped \subseteq doomed /\ \A r \in 1..MaxJobs : ~Busy(r)
    /\ (Deleting /\ after = "idle") \/ setup = "empty" =>
          \A n \in Name : tunnelMap[n] \in {0, setups + 1}
    /\ setup = "removing" /\ after = "idle" => down[2] = "DOWN"

(* A failure is answered by one retry at most.                             *)
RetryInv ==
    /\ retryCount <= failures
    /\ wanted # NoTunnel /\ failures <= MAX_RETRY =>
          \/ backend # NoTunnel
          \/ \E r \in 1..MaxJobs :
                Busy(r) /\ job[r].want = "UP" /\ job[r].pc \in {"set", "broken", "failed"}

(* Unless something is stuck, the backend runs nothing but the tunnel the  *)
(* service wants, from the moment its job has started it; taking tunnels   *)
(* down leaves it nothing to run.                                          *)
UpOK(r) ==
    /\ job[r].pc # "same"
    /\ job[r].tunnel = getTunnel(job[r].tunnel[1]) /\ job[r].tunnel[1] = wanted
    /\ backend = IF job[r].pc \in {"set", "broken", "failed"} THEN NoTunnel ELSE job[r].tunnel
    /\ job[r].pc \in {"complete", "again"} => shown
    /\ job[r].pc = "again" => lastUsedTunnel = backend /\ backend[1] \in saved

DownOK(r) ==
    /\ job[r].pc \notin {"broken", "failed"}
    /\ backend # NoTunnel => job[r].pc = "set" /\ backend = job[r].tunnel

BackendInv ==
    /\ \A r \in 1..MaxJobs : Busy(r) => IF job[r].want = "UP" THEN UpOK(r) ELSE DownOK(r)
    /\ setup = "idle" /\ backend # NoTunnel /\ (\A r \in 1..MaxJobs : ~Busy(r)) =>
          /\ backend = currentTunnel /\ backend = getTunnel(backend[1])
          /\ backend[1] = wanted
          /\ lastUsedTunnel = backend /\ backend[1] \in saved /\ shown
    /\ setup # "idle" /\ backend # NoTunnel =>
          /\ Deleting /\ after = "empty"
          /\ backend \in doomed \/ (setup = "removing" /\ down = <<backend, "UP">>)

StateInv == \A t \in Tunnel : tstate[t] = "UP" <=> backend = t

OrderlyInv ==
    orderly =>
        /\ StateInv /\ JobInv /\ NumberInv /\ SetupInv /\ RetryInv
        /\ ~stuck => BackendInv
=============================================================================

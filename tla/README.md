# ekoVPN: a TLA+ model of the client

ekoVPN is an Android VPN client: one application (`src/ekovpn/`) drives three
VPN clients, each a library of its own: IKEv2 (`src/ikeV2/`, a strongSwan fork),
OpenVPN (`src/openvpn/`, an ics-openvpn fork) and WireGuard (`src/wireguard/`).
This directory holds TLA+ modules of the parts where threads, callbacks, timers
and external daemons meet, TLC configurations that check them on small
instances, and TLAPS proofs of what holds for every instance.

## Inventory

Path prefixes: `I` = `src/ikeV2/src/main/java/org/strongswan/android`,
`O` = `src/openvpn/src/main/java/de/blinkt/openvpn/core`,
`W` = `src/wireguard/src/main/java/com/ekovpn/wireguard`,
`E` = `src/ekovpn/src/main/java/com/ekovpn/android`.

| Component | State | Operations | Interacts with | What makes it correct |
|---|---|---|---|---|
| IKEv2 state service, `I/logic/VpnStateService.java` | state, error, profile, connection id, IMC state, remediation instructions, retry countdown and backoff | connect, disconnect, reconnect, the setters (posted to the main thread), RETRY_MSG | CharonVpnService through intents; listeners | the state shown is the daemon's; a change reaches the connection it is about; the countdown is sound and ends when the user says so |
| IKEv2 VPN service, `I/logic/CharonVpnService.java` | current and next profile, flags, TUN and blocking TUN device, notification | onStartCommand, onRevoke, onDestroy, the handler thread's run(), updateStatus, establish | charon (native threads), state service (posts), Android (intents, callbacks) | one daemon at a time; every request is served; nothing leaks between profiles; onDestroy returns |
| IKEv2 routes, `BuilderAdapter`/`BuilderCache` in `CharonVpnService.java`, `I/utils/IPRange*.java` | ranges of the profile, routes of charon, builder, cache of the last device | setProfile, addAddress, addRoute, establish, establishBlocking, establishNoDns; merge, remove, toSubnets | charon (JNI), Android's VpnService | a device takes exactly the traffic it should; the blocking device leaves nothing open |
| IKEv2 helpers, `I/logic/SimpleFetcher.java`, `NetworkManager.java` | running fetches, disabled flag | fetch, enable, disable | called by charon | no fetch runs while disabled |
| OpenVPN device state, `O/DeviceStateReceiver.java` | network, screen, user pause; delayed disconnect; last network | broadcasts, user pause, byte counts | management thread (pause, resume, networkChange) | paused exactly when a reason to pause exists |
| OpenVPN management, `O/OpenVpnManagementThread.java` | waiting for release, pause reason, shutting down, socket, list of active threads | HOLD, STATE and other lines; pause, resume, reconnect, stopVPN | openvpn process (socket), main looper | no lost release of a hold; a pause is not lost |
| OpenVPN service, `O/OpenVPNService.java`, `OpenVPNThread.java` | process thread, management, receiver, `mStarting` | onStartCommand, startOpenVPN, endVpnService, stopVPN, onRevoke | the process, the two above | a replaced connection does not end its successor |
| OpenVPN routes, `O/NetworkSpace.java` | the networks named, the queue of the loop | addIP, clear, generateIPList, getPositiveIPList | OpenVPNService | the routes are the addresses whose most specific network belongs to the VPN |
| OpenVPN status and profiles, `O/VpnStatus.java`, `ProfileManager.java` | last state, level, log buffer, listeners; profiles | updateStateString, log, listeners; add, save, delete | everything above | no stale state overwrites a newer one |
| WireGuard, `W/service/WireGuardService.kt`, `W/repo/*.kt` | current tunnel, retry count, tunnel map, last used tunnel, stored configs | connect, disconnect, setTunnelState, create, delete, rename, load | the Go backend | a failed change is rolled back; a disconnect is not undone by a retry |
| Manager service, `E/service/EkoVPNMgrService.kt` | countdown of paid time, current server, listeners | start free/paid, increase time, tick, finish, destroy | the three clients, time accounting | when time is up the connection ends; time is charged once |
| Home, `E/view/main/home/*.kt` | connection status, server shown, last used server | connect, switch, disconnect, callbacks of the clients | all services | the status shown follows the client that is in use |
| Time accounting, `E/data/repositories/user`, `E/data/cache`, `E/scheduling` | time left, ad allowance, reset flag | get/set/add time, claim rewards, periodic reset | manager service, ads | no update is lost, rewards count once |
| Server configuration, `E/data/repositories/config` | locations, servers, profiles, tunnels, completion mark | fetch, download, import, save, clear | the three clients' stores | the mark is set only when all three are configured |
| Authentication, `E/data/repositories/auth`, `E/data/remote/retrofit/tokens` | token, retry counter, user | login, refresh, fetch user | the remote service | bounded retries; the token sent is the newest |

Hard to test are, above all: the order in which changes posted by several
threads are applied; what a native thread still reports while it is being
stopped; timers that were cancelled but whose message is already queued; one
step of a sequence failing; requests that arrive while an earlier one is served.
`PROJECT.json` lists these hazards with their lines.

## Module by module

### IKEv2: `VpnStateService`, `CharonVpnService`

`CharonVpnService` extends `VpnStateService`: one state machine, four actors.

| Actor | Actions | Code |
|---|---|---|
| main thread | `MainRun`, `MainTick`, `onStartCommand`, `onServiceConnected`, `Destroyed` | the changes posted by `VpnStateService.notifyListeners()`, `RetryHandler`, service callbacks |
| user and system | `UserConnect`, `UserDisconnect`, `UserReconnect`, `AlwaysOn`, `onRevoke`, `onDestroy` | `connect()`, `disconnect()`, `reconnect()` as `VpnProfileControlActivity` and the state fragment call them, `onRevoke()`, `onDestroy()` |
| handler thread | `Wake`, `SetDisconnecting`, `Deinitialize`, `Disable`, `Start`, `Initiate`, `InitializeFails`, `DisableFailed` | `CharonVpnService.run()` with `stopCurrentConnection()`, cut where another thread can look in |
| charon | `CharonReports`, `CharonPosts`, `establish` | `updateStatus()`, `updateImcState()`, `addRemediationInstruction()`, `BuilderAdapter.establish()`, called by native threads |

How the code became state:

- Fields keep their names. A change that is posted to the main thread is a
  record in `mainq` and is applied in order by `MainRun`; an intent given to
  Android waits in `intents` until `onStartCommand` takes it; `RETRY_MSG` is the
  counter `retryMsgs`, because `resetRetryTimer()` does not remove messages.
- `run()` holds the service's monitor from one `wait()` to the next. `handler`
  says where it is. `setNextProfile()` is synchronized, so `onStartCommand`,
  `onRevoke` and `onDestroy` need the monitor to be free. The steps between are
  separate because charon and the main thread's queue run meanwhile:
  `SetDisconnecting` apart from `Wake`, because `updateStatus()` tests
  `mIsDisconnecting` first and posts later (`report` is the change it has
  decided on and not posted yet).
- `deinitializeCharon()` joins charon's threads: `Deinitialize` waits for a
  report that is being made.
- `onDestroy()` blocks the main thread in `join()`: while `joining`, no action of
  the main thread is enabled.
- The number `id` of a change, `attempts`, `charonConn`, `wanted` and `guarded` are not in the
  code. They name the connection a change is about, what the user last asked
  for, and whether the blocking device was opened for a profile that follows; only
  properties read them.
- `onRevoke()` is called on a binder thread. It takes the monitor, sets the next profile
  and touches nothing of the main thread, so that its place among the main thread's actions
  changes nothing. `onDestroy()` sets `mTerminate` just before it takes the monitor; it is
  one step here, because the handler thread, when it sees the flag that much earlier, ends the
  same way.
- `disconnect()` may be called in any state: the dialog that asks for it may be confirmed long
  after it was shown.

Abstractions: the two posts of `startConnection()` and the notification are one
step (both are made by the same thread with no test in between); a profile
stands for its settings and its password; a profile deleted from the database is the
choice `found`; texts, listeners, log files, certificate callbacks and `SimpleFetcher` are left
out; the routes of a device are in `BuilderCache`. The failures charon
reports differ in their base timeout, and `AUTH_FAILED` makes a reconnect ask for the
password as a missing one does; the runs take `LOOKUP_FAILED`, next to the
`GENERIC_ERROR` and `PASSWORD_MISSING` the service itself raises.

### OpenVPN pause and hold: `OpenVpnManagementThread`, `DeviceStateReceiver`

`DeviceStateReceiver` extends `OpenVpnManagementThread`, which models the
management interface and the openvpn process behind it (external). The
variables of the receiver the management thread reads are declared in the first.

| Actor | Actions | Code |
|---|---|---|
| main looper | `Register`, `DelayedDisconnect`, `ResumeHold` | registration, `mDelayDisconnectRunnable`, `mResumeHoldRunnable` |
| device and user, on the main thread | `ConnectivityAction`, `ScreenOff`, `ScreenOn`, `PauseVpn`, `ResumeVpn` | `onReceive()`, `userPause()` from the notification |
| binder threads | `ApiUserPause`, `StopVpn` | `pause()` and `resume()` of the remote API, `stopVPN()` |
| main or binder thread | `HoldRelease` | `releaseHoldCmd()` after its sleep |
| management thread | `processCommand`, `DecideHold`, `PostResume`, `ShowPause`, `EnoughTraffic`, `LittleTraffic`, `PauseScreenOff` | `processCommand()`, `handleHold()`, `updateByteCount()` |
| process | `ProcessTakes`, `ProcessRestarts`, `ProcessCounts` | the other end of the socket |

- `cmdq` and `lineq` are the two directions of the socket. The client believes
  what `mWaitingForRelease` says; the process is really in `ovpn`. They differ
  while a line or a command is on its way.
- `handleHold()` is three steps (flag, question to the receiver, post or
  message) because the main thread runs the receiver without a lock.
  `updateByteCount()` is two, for the same reason.
- `releaseHoldCmd()` takes back the callbacks, may sleep three seconds, and only
  then clears the flag and writes the command: two steps, and in between
  `releasing` says which thread is busy with it. No other action of that thread is
  enabled, the other threads go on.
- `resumes` and `delayed` count the pending callbacks. `removeCallbacks()` takes
  all of them back, running one takes one.
- A call of the receiver into the management (`pause`, `resume`, `networkChange`)
  is part of the broadcast that makes it, up to that sleep if it releases a hold.

Abstractions: time is the order of the callbacks, a delayed one may run at any
moment after it was posted; whether there was enough traffic is a choice;
`hold release` and the `bytecount` and `state` commands that follow it are one
"release", written in the step that clears the flag; whether the sleep is needed
depends on the time of the last release, so every release may be interrupted; the two variants of `network-change` are one command
after which the process may stay connected or hold again; of the process's
states only CONNECTED is shown. `onReceive()` and calls of the remote API are
single steps up to a release, and at most one call of the API is in progress. Passwords, proxies, TUN descriptors and signatures are left out,
and the list of active threads is in `OpenVPNService`.

### What the IKEv2 services promise: `VpnConnection`

The abstract specification: connections are made one at a time, what is shown
follows them in order and leaves none out, only a new connection leads out of
DISABLED, and DISABLED is shown only for a connection that is over.
`CharonVpnService` implements it under the mapping `number <- attempts`,
`running <- mCurrentProfile # NoProfile`, `shown <- mConnectionID`,
`phase <- mState`. `attempts` counts the calls of `startConnection()`; the number that
is shown is `mConnectionID`, which the code counts too.

### OpenVPN sessions: `OpenVPNService`

One instance of the service from `onCreate` to `onDestroy`; session `s` is the
`s`-th start intent.

| Actor | Actions | Code |
|---|---|---|
| main thread | `onStartCommand`, `setConnectedVpnProfile`, `StartNoProfile`, `onDestroy`, `registerDeviceStateReceiver` | the callbacks of the service and the runnable that registers the receiver |
| binder thread of a revocation | `onRevoke`, `RevokeEnds` | `onRevoke()` with its `endVpnService()`, whatever the main thread does meanwhile |
| any thread | `stopVPN` | `stopVPN()` of the notification, the API, the manager |
| starter of `s` | `writeConfigFile`, `stopOldOpenVPNProcess`, `SleepOver`, `forceStopOpenVpnProcess`, `ForceSleepOver`, `ClearStarting`, `openManagementInterface`, `Launch`, `FailedStartEnds` | `startOpenVPN()`, cut at its sleeps, its lock and the fields others read |
| `OpenVPNThread` of `s` | `stopProcess`, `EndOfOutput`, `ReportNoProcess`, `openvpnStopped`, `ThreadEnds` | `run()` to its end, and `endVpnService()` |
| management thread of `s` | `updateStateString`, `ManagementEnds` | `processState()`, the end of `run()` |
| process of `s` | `Connect`, `Obey`, `ExitAlone` | external |

- `mProcessLock` is `lock`. Only the sleep of `forceStopOpenVpnProcess()` holds it for more
  than a step; `EndLock`, `EndClear` and `EndStop` are the three parts of
  `endVpnService()`, between which every other actor can run.
- `active` is `OpenVpnManagementThread.active`; `stopOpenVPN()` returns the
  answer of the last thread in it, as the code does.
- `bound` is the path of the socket, which a process connects to whichever
  management thread has it: a late process may meet a later thread.
- A sleep may end at any time, so the properties do not depend on its length.
- A start may arrive between `stopSelf()` and `onDestroy()`: sent after `stopSelf()` it keeps a
  bound service up, on its way before it does not.
- `orderly` records that every request came when the one before was done, and none after
  `stopSelf()`; the properties that need it say so.

### WireGuard: `WireGuardService`

Requests (`connectToTunnelWithName`, `disconnect`) are short steps of the main
thread. Each launches a job, a coroutine that runs on its own: `EmitSame` if the
tunnel is already there, or `setTunnelState`, `EmitAnswer`, `saveState`/`onCompletion`,
`EmitAgain`, and `Retry` if it failed. `deleteAll`, `Forget`, `Remove`, `Deleted`
and `create` are what the configurator does to the tunnels at sign-in and log-out. The backend is external: it
runs one tunnel, and restores that one when it cannot replace it. A tunnel is an object,
`<<name, n>>`, because jobs keep references to deleted ones.

The configuration a job reads is taken for there: a tunnel in the map has its file, one that is up has
its configuration in memory.

`orderly` records that every request came when no job was running; `stuck` that a
DOWN, or the deletion of a file, failed; `wanted` the name asked for last. They are read by properties only.

### Manager, home screen and time: `EkoVPNMgrService`

`onStartCommand`, `Tick`, `onFinish` (called by it) and `onServiceConnected` are the
manager; `Hear`, `render`, `Delayed`, `TapConnect`, `TapDisconnect`,
`showDialogOrConnect`, `Leave` and `onResume` the home screen; `addMoreTime`,
`addToTimeLeft`, `doWork` and `updateUserWithOrderData` the others that write the
stored time or the account; `ServerUp`, `ServerFails`, `ServerDrops` and `Reconnects` (OpenVPN
reports "connected" again, without end) the VPN services. What waits is state: `intents` to the manager, `events` to the
screen, `callbacks` of bindings, `pending` rendering, `later` for the 1500 ms before another
server is connected to. A screen that is stopped hears only OpenVPN.

The code has no protection against a number of orders: an event nobody hears, one
that overtakes an intent, an ad credited after the end, a tap before the last one has
settled, a second "connected" of OpenVPN for a server that is counted already. `orderly` becomes
FALSE there (`Disorder`, `InOrder`), and three properties are stated for the rest;
under "What the code does otherwise" these orders are named. A tap on the server that is up is
orderly; `cancelled` records that its dialog was cancelled. One life of the
home screen is modelled, bound to the manager; the end of the process is not.

### Routes: `IPRange`, `BuilderCache`, `NetworkSpace`

Addresses have `WIDTH` bits instead of 32 or 128.

- `IPRange` has `IPRange.java`: ranges, `merge`, `remove`, `toSubnets`.
  `toSubnets()` is a loop over the bits that climbs from both ends; `Climb` is one
  turn, `After` the turns up to a bit. Bytes and carries are replaced by numbers; `inc` and `dec` wrap as the bytes do.
- `BuilderCache` has the sets (`unite` is a turn of `add` with its restart after every
  merge, of which there are at most as many as ranges) and the life
  of a device: the profile names ranges, a blocking device may be opened, charon adds
  addresses and routes, `establish` succeeds or fails, `establishNoDns` replaces the
  device. One family of addresses is modelled, the other has the same code. `Refused` are the
  multicast addresses on a version of Android that refuses routes to them: `applyData()` catches
  that and goes on without the subnet. A device that cannot be opened leaves in the builder all that was
  applied, or what came before the address or route that was refused.
- `NetworkSpace` has `generateIPList()`; every disjunct of `Loop` is one branch of
  its loop. The queue is a bag and offers any of the networks no other precedes,
  because `PriorityQueue` promises nothing about equal ones.

## Runs

| Run | Checks | Instance |
|---|---|---|
| `charon_safety` | `TypeOK`, `NoStaleReport`, `RetryHasProfile`, `CountdownAlive`, `StateMatchesDaemon`, `BlockedUntilReplaced`, `ImplementsConnection` | 2 profiles, one with a missing password, every request, 3 requests, 2 reports |
| `charon_liveness` | `DisconnectServed`, `DestroyReturns`, `RetryFires` | 1 profile, 2 requests, 2 reports, fair |
| `charon_disconnect_retry` | violated: `NoRetryUnlessWanted` | connect and disconnect |
| `pause` | `TypeOK`, `HoldHasRelease`, `HoldReleased` | 2 networks, 3 events, the remote API's pause, 1 restart, 1 byte count, fair |
| `pause_release` | `ReleaseOnlyIfWanted` | preference "netchangereconnect" off, 5 events, 2 restarts, no remote API, no byte counts |
| `openvpn_service` | `TypeOK`, `AttachedIsStoppable`, `ReplacementIsComplete`, `DestroyedLeavesNothing`, `StartCompletes`, `EverythingEnds` | 2 starts, 1 failure, 1 stop, fair |
| `openvpn_old` | violated: `OldIsOutOfTheWay` | 2 starts, 1 exit of a process |
| `wireguard` | `TypeOK`, `OrderlyStateIsBackend`, `DisconnectedMeansDown`, `RunningIsKnown`, `RetriesSuffice` | 2 names, 3 requests, 2 jobs, 2 failures, 1 retry, 2 setups |
| `manager` | `TypeOK`, `ConnectedIsTimed`, `TimedIsConnected`, `ScreenIsTrue`, `FreeConnectionEnds` | an OpenVPN and a WireGuard server, 2 taps, 1 move, 1 credit, 1 connection lost, reconnects without number, fair |
| `ike_routes` | `TypeOK`, `RangesAreNamed`, `SubnetsAreExact`, `DeviceIsConfigured`, `BlockingCovers` | 3-bit addresses, 2 ranges, or 3 if nothing is excluded; routes that begin with address 6 are refused |
| `openvpn_routes` | `TypeOK`, `RoutesAreDecided`, `DoneIsDisjoint`, `RegularIsAsserted`, `LoopEnds` | 3-bit addresses, 4 networks, fair |
| `openvpn_routes_assert` | violated: `AssertionsHold` | 3-bit addresses, 3 networks |

What the passing runs show:

- **`NoStaleReport`**: a change posted about one connection is never applied to
  another. The code carries no number to compare: it relies on charon being
  joined before the next `startConnection()` and on the queue being in order.
- **`StateMatchesDaemon`**: once nothing is in flight the state that is shown is
  the daemon's, although `updateStatus()` tests `mIsDisconnecting` before it
  posts, requests overwrite each other in `mNextProfile`, and starts fail.
- **`ImplementsConnection`**: the refinement above, on the instance of the run.
- **`BlockedUntilReplaced`**: while a profile replaces another, no packet leaves
  unprotected. From the moment the blocking device was opened for the profile that follows,
  while the old daemon is stopped and closes its own device, the new one is started, fails to start or
  negotiates, one of the two devices is open, until no profile follows any more. There is one exception:
  the old daemon may open a device of its own between `establishBlocking()`
  (`CharonVpnService.java:350`) and `deinitializeCharon()` (358); that closes the blocking device
  (896-899), and its own is closed when it stops. `guarded` is FALSE after that. **`BlockingCovers`** says
  that the blocking device did not take less than the one that replaces it, but
  for subnets that were refused to it.
- **`RetryHasProfile`, `CountdownAlive`**: an automatic retry has a profile and an
  error, and a countdown that is not over has a message that moves it on.
- **`DisconnectServed`, `DestroyReturns`, `RetryFires`**: a disconnect ends the
  connection unless a later connect overtakes it, `join()` returns, a countdown
  is cancelled or fires.
- **`HoldHasRelease`, `HoldReleased`**: `HOLD` on one thread against resume,
  pause and network changes on the other never leaves the process in its hold
  with no reason to pause and nobody to release it.
- **`ReleaseOnlyIfWanted`**: with "netchangereconnect" off, no release is
  written while there is a reason to pause, although seconds may pass between the
  decision and the command: the main thread, which decides, is the one that would
  learn of the reason. The two other writers of the reasons are
  excluded because with them it is false: a `pause()` of the remote API or a
  byte count that finds little traffic during the sleep is overridden when it
  ends (TLC finds both at once if the configuration admits them).
- **`AttachedIsStoppable`**: whatever sessions overlap, a running process that has a
  management thread is reached by `stopOpenVPN()` or was told to exit before.
- **`ReplacementIsComplete`, `DestroyedLeavesNothing`**: if requests come one
  after the other, the fields are those of the new session once it runs, no step
  of the old one's end touched them, and no process outlives the service.
- **`StartCompletes`, `EverythingEnds`**: nobody keeps `mProcessLock`; every start gets
  through, and if requests come one after the other a service that is stopped leaves nothing
  running. Both are of the form `<>[]`: requests are bounded and no start is made twice, so that
  they say of the end of a history what a leads-to would say of each start.
- **`OrderlyStateIsBackend`, `DisconnectedMeansDown`, `RunningIsKnown`,
  `RetriesSuffice`**: if requests come one after the other, failures, the tunnel the
  backend restores and the shared retry counter leave the tunnels' states, the
  stored names and the notification in agreement with what runs.
- **`ConnectedIsTimed`, `TimedIsConnected`, `ScreenIsTrue`,
  `FreeConnectionEnds`**: a connection is counted while it is up and not longer,
  the screen tells the truth, and the countdown ends a free connection whether or not
  the screen is there. The screen shows CONNECTED exactly if a server is up, but for one whose
  disconnect dialog was cancelled: that one stays shown as CONNECTING. A free connection ends
  unless OpenVPN loses and finds it again for ever: each time the countdown starts
  again with the time the screen has. (Without that disjunct TLC finds the history.)
- **`RangesAreNamed`, `SubnetsAreExact`, `DeviceIsConfigured`**: in whatever
  order ranges are named, the sets hold their addresses; subnets lose none and overlap
  nowhere; every device, after failed attempts and when it is replaced, takes no traffic but what the
  profile and charon ask for, and all of it but the largest subnets that begin with a refused
  multicast address.
- **`RoutesAreDecided`, `DoneIsDisjoint`, `RegularIsAsserted`, `LoopEnds`**: for
  every set of networks the loop ends with networks that do not overlap. Outside
  two kinds of input (`Irregular`) no assertion fails and the routes are the addresses whose
  most specific network belongs to the VPN.

**Bounds.** Three requests to the IKEv2 service are what the interesting cases need: a connect, a
second request while the first is served, a third while the second is. With two
reports of charon, one can be in the middle of `updateStatus()` when the
connection is replaced and another can follow. Two profiles distinguish "the
same" from "another", and the one with the missing password takes the path on which
charon is initialized and never initiated. `RETRY_INTERVAL` is 5000 and
`MAX_RETRY_INTERVAL` 15000 (ms) in the runs, 1000 and 120000 in the code: base
timeouts of 5000 and 10000 then take one and two steps, and the cap is met at
the second retry. In the pause model three events suffice to
lose a network, pause and resume, with a restart of the process in between, and five
(`pause_release`) to get the network back as well; the proofs of `HoldHasRelease` and
`ReleaseOnlyIfWanted` have no such bound. Waiting times of 0 in
`pause_release` and 5 in `pause` take both sides of the test `waittime > 1`. Queues and callback counters are not bounded themselves: they
are limited by the events that fill them.

Two OpenVPN sessions are a replacement; one failure and one stop (a stop, a revocation or
an exit of a process) may fall anywhere into it. With WireGuard, two names and a retry less than the two failures
cover success after a retry and giving up (`MAX_RETRY` is 4 in the code); two jobs overlap, two setups recreate a name.
The names are treated alike, so that `Symmetry` is sound; the run has no liveness property.
In the manager's run two servers of different protocols are connected to in
turn, one tick is the whole time (`DefaultTime` and `Credit` are 1); OpenVPN and
WireGuard are the two kinds that differ, IKEv2 is heard and disconnected like
WireGuard. Three bits leave room for a network inside a network inside a network with
one on either side; three networks suffice for both irregular kinds, a
fourth for the loop to meet one while it is splitting for another. Three ranges of eight
addresses touch, overlap and bridge each other, and take every path of `toSubnets()`:
single addresses, full halves, the first and the last address. One refused address in the middle of the upper half
begins a subnet of one, or of two addresses, and lies inside the larger ones.

**Deadlock.** `CHECK_DEADLOCK FALSE` is set where the system is idle
when its requests and events are used up and everything was delivered: in all
configurations but that of `ike_routes`. That the systems do not stop any earlier is what the
liveness properties say.

**Fairness.** Everywhere weak. IKEv2 and pause: Android delivers intents, service connections and
posted messages (the main looper is a loop over a queue); the scheduler runs
the handler thread, the management thread, a thread in the middle of a release
and a charon thread that is about to post; delayed callbacks run in the end; the process reads its socket.
`OpenVPNService`: its `Progress` is the main looper, the threads that start and watch
a session, and a process that obeys a signal; a process need never connect or exit on its own.
`EkoVPNMgrService`: `Progress` is the main thread handling what waits for the
manager, and the countdown; neither events, taps nor the screen are fair. `NetworkSpace`: the
loop runs, one thread. As `Progress` is one disjunction, fairness says only that some step of it is taken; the counters
and queues behind them are bounded, so that this is enough. Nothing is assumed of users, of the network or of what charon and the
server do; `establish`, reports and restarts need never happen.

## What the code does otherwise

Shown by runs that TLC refutes:

1. `charon_disconnect_retry`: `disconnect()` resets the countdown at once, but the
   daemon goes on until the handler thread has set `mIsDisconnecting`. A
   failure in between starts the countdown again, and the client connects after
   the user has disconnected.
2. `openvpn_old`: a thread whose process exited on its own has decided to
   end the service when the next start takes the old process for gone; it ends the
   service, or clears fields, under the new session.
3. `openvpn_routes_assert`: the upper half of a split network is put into the
   queue although the same network is there with the other decision. Include
   `0.0.0.0/0`, exclude `192.168.1.0/24` and `192.168.2.0/23`: a debug build stops
   on an assertion, a release build routes all of `192.168.2.0/23` but its first address
   into the VPN. This is `MeetsItself` of `Irregular`.

Met while modelling, with the steps in the modules and no property that states the contrary:

- IKEv2: `onRevoke()` leaves error and countdown alone, so that the retry brings back a VPN ended in
  the system's dialog. After `initializeCharon()` failed, the blocking
  device is open and `mCurrentProfile` null; a later disconnect does not close
  it. A cancelled countdown's `RETRY_MSG` counts down the next one as well, so
  that the retry comes early. An old daemon that connects again while it is about to be stopped closes the
  blocking device (the exception of `BlockedUntilReplaced`).
- IKEv2 routes: where Android refuses multicast routes, traffic to them leaves outside the VPN; of the blocking device
  that may be more than of the connection, because it asks for larger subnets, which begin with
  a multicast address where the smaller ones do not.
- Pause: with "netchangereconnect" on, the same network coming back within the delay
  releases a hold the user asked for (the reason why `ReleaseOnlyIfWanted` needs it
  off). A resume through the remote API when nothing is paused ends in `pause()`,
  which takes back the pending release (why `HoldHasRelease` has no `"apiResume"`).
  With the screen off, a network broadcast ends the watch on the traffic without
  pausing. The answer to "why paused" is "user" while no reason is definite. The
  byte count listener and the two writers of the shown state race with the main thread; a delayed disconnect
  posted for an earlier loss may act on a later one.
- OpenVPN: a stop before the process has connected finds no socket and is lost. A start that
  cannot write its configuration ends the service with the old process alive. A start between `stopSelf()`
  and `onDestroy()` may be destroyed with its session under way.
- Routes: a network inside one that starts at the same address, when a larger one around both
  agrees with it, is dropped (`ComesTooEarly`): include `0.0.0.0/0` and `10.0.0.0/24`,
  exclude `10.0.0.0/8`, and `10.0.0.0/24` stays excluded.
- WireGuard: two changes that overlap may leave a replaced tunnel UP in the state
  (its late completion sets it again); a disconnect that overtakes a connection
  is lost; `delete()` forgets a tunnel before it takes it down, and an exception of the backend or of the
  file ends the whole deletion, with the other tunnels still up or in place. After a failed change the state that
  was asked for may be emitted, "Connected" is then shown.
- Manager: a countdown goes on when the account becomes PAID and disconnects
  the user; events that nobody hears, or that overtake an intent, leave a
  connection uncounted or a countdown without one; an ad credited after the end starts a
  countdown without a server; each time OpenVPN reports "connected" again the countdown starts with the time the
  screen has, so that repeated reconnects keep a free connection up; a tap on the server that is up whose
  dialog is cancelled leaves the screen at CONNECTING; a reader between the two commits of
  the reset takes one hour; 1500 ms may be too short for the old connection to end; a reward that is
  stored while the countdown writes is lost.

## Proofs

Eight modules hold theorems. They are valid for all profiles, networks, statuses,
intervals, widths and bounds; the assumptions are the named ones of the modules
(`ProfileAssumption`, `IntervalAssumption`, `CharonAssumption`,
`ManagementAssumption`, `ReceiverAssumption`, `ServiceAssumption`,
`WireGuardAssumption`, `ManagerAssumption`, `RangeAssumption`, `NoRangeAssumption`,
`SpaceAssumption`, `PowersAssumption`), plus those stated below. `PowersAssumption`
restricts no value of `WIDTH`: it says that powers of two are positive and double, for
which the provers have no theory.

**`Induction`.** The provers can instantiate no induction theorem that takes a predicate.
Those here take sets instead: a set of numbers that is not empty has a least one
(`LeastNumber`), one with 0 and every successor is `Nat` (`NatInduct`), and what can be shown of a
finite set by taking out one member at a time holds of it (`SetInduct`). With them loops
that count, and folds over sets, are proved for any number of turns. `Quotient` and `Parts` are the
facts about `\div` and `%` that both kinds of routes need.

**IKEv2, `CharonVpnServiceProofs`.** `Invariance` shows `Spec => []IInv`, with
`IInv == TypeOK /\ QueueInv /\ HandlerInv /\ RetryInv`:

- `NoStaleReport` is about the head of the queue. To keep it, `QueueInv` states
  how the numbers run through the whole queue: each change has the number of
  the one before, plus one if it is a start, and the last has `attempts`.
- New changes get `attempts` only because of `HandlerInv`: a daemon that is not
  off works on the latest connection, a pending report is about it, and the
  places of the handler thread decide whether there is a daemon. `Deinitialize` needs
  that no report is pending, `Start` that charon is off.
- `RetryInv` adds to `RetryHasProfile` and `CountdownAlive` that a started
  connection has a profile, which holds because an error in the queue has a
  number above zero (a conjunct of `QueueInv`).

`QueuePost`, `QueueStart` and `QueueRun` are the three things a step can do to the
queue; each action is then one of them. From `Invariance` follow `TypeCorrect`,
`NoStaleReportTheorem`, `RetrySound` and `CountdownSound`.

**What is shown, in the same module.** `Refinement` is `Spec => ImplementsConnection`. Its invariant
`ShownInv` says that a change to DISABLED that was posted or applied is about a
connection that is over, and that only changes of later connections follow it.
With it, every step maps to a step of `VpnConnection` or a stutter (`ConnectionStep`).

`StateIsTheDaemons` proves `StateMatchesDaemon`, which speaks of a
queue that is empty. `DaemonInv` says of any queue where it leads: for each field, the last change
in it that writes the field, or else the field itself, has the value that the
place of the handler thread asks for (`Leads`). `LeadsPost` and `LeadsRun` are what
posting and applying a change do to it. `BlockedTheorem` proves
`BlockedUntilReplaced`. It is not inductive: it holds when the old daemon closes its device
because the blocking one is open by then. `GuardInv` says so, for the places of the handler thread
between opening the one and stopping the other, in which a profile follows because the handler
thread keeps the monitor.

**OpenVPN, `OpenVPNServiceProofs`.** `ServiceTypeCorrect`, and `AttachedTheorem` for
`AttachedIsStoppable` with any number of sessions. `StopInv` adds that a management
thread is among the active ones until it ends, has no process before one
connects, and that a process starts after its management thread: without the last, a
step that opens the interface could give a thread to a process that was told to exit.

`ReplacementTheorem` and `DestroyedTheorem` prove `ReplacementIsComplete` and
`DestroyedLeavesNothing`, which speak of histories in which each request came when the last
was done. `InOrder` describes such a history session by session: an earlier one has ended, runs
out without touching the service, or is in the hand of the service until the starter of the
latest one has stopped it (`OldInv`); the latest is being started (`StartingInv`), runs with
every field of the service its own (`RunningInv`), or is over. The difficult step is
`EndOfOutput` of a replaced session: that its three parts change no field of its
successor needs `RunsOut`, and that no later start begins before they are over needs `service = "up"`
and `~Over(starts)` in `OldInv`.

**WireGuard, `WireGuardServiceProofs`.** `WireGuardInvariance` shows `OrderlyInv` for any number of
tunnels, jobs, failures and retries; from it follow `StateTheorem`, `DisconnectedTheorem`,
`KnownTheorem` and `RetriesTheorem` for the four invariants of the run. The properties speak of moments
without a job; the invariant says of a job under way how far it is (`JobOK`, `UpOK`,
`DownOK`): what the backend runs is what the job's place says. `NumberInv`
and `SetupInv` are about the set-up of the tunnels: a deleted tunnel keeps its number, so
that a job of an earlier set-up cannot be mistaken for one of this. `RetryInv` bounds `retryCount` by
the failures, which is what `RetriesSuffice` needs. Only `BackendInv` asks that no DOWN and no deletion failed.

**Manager, `EkoVPNMgrServiceProofs`.** `TimeTheorem` shows that no amount of time, wherever it is
kept or on its way, exceeds the default and what was credited; `ManagerTypeCorrect` depends on it, because the
type of a time is bounded by the credits. `Mores` counts credits on their way, by the
cardinality of a set of places in the queue; `MoresAppend` and `MoresTail` are what a queue
does to it. `ConnectedTheorem`, `TimedTheorem` and `ScreenTheorem` prove the three
properties of orderly histories. They hold when all is quiet; `OneInv`,
`ManagerInv` and `UpInv` say of the time between which intent, event, callback or rendering
is still to come and will bring the manager and the screen to the truth.

**Pause, `DeviceStateReceiverProofs`.** `TypeCorrect` is inductive as it stands. `NoLostRelease` proves
`HoldHasRelease` if `"apiResume"` is not among the events, so that a resume is asked for
only during a pause. Its invariant is
`HoldInv`: `HoldServed` covers the middle of `handleHold()` and of a release as
well (a hold that should run has a pending callback, is being released, or has a
management thread that is about to decide), `LowTrafficPauses` says what the second
step of a byte count finds, `Unregistered` that nobody looks at the network before
registration. `MainStep` is the one argument all calls on the main thread share.
`ReleasesWanted` proves `ReleaseOnlyIfWanted` under the three restrictions of its
run: the preference is off, no
remote API, no byte counts. Its invariant is `WantedInv`: the network is never
`PENDINGDISCONNECT`, no byte count is handled or on its way, and whoever is
in a release has found the connection wanted (`ReleaseWanted`), which stays true
during the sleep because nobody else writes the reasons. `FlagCleared` shows that only the end of a release
clears the flag.

**Routes of IKEv2, `BuilderCacheProofs`.** For addresses of any size, first the operators:

- `MergeExact`: `merge()` is the union of two ranges, and null exactly if an address lies
  between them. `MergeStep` and `AddDone`: a turn of the loop of `IPRangeSet.add()`
  loses and gains no address, and when nothing can be united any more the ranges stand
  apart. `AddExact` concludes by counting turns: each takes a range out of the set, so that the
  loop ends within as many as there are. `RangeRemoved` and
  `RemoveExact` say the same of `remove()`; `AddAllExact` and `RemoveAllExact` of adding and removing the ranges
  of a set one by one, in whatever order.
- `ToSubnetsExact`: `toSubnets()` returns subnets that have the addresses of the range, do not
  overlap and are as large as the range allows. `Climbed` is what holds after each bit: what the two ends have
  passed is split exactly (`Split`), the rest lies between `Up` and `Down`, and both stay on
  their side of `Middle`, the address at which the ends part. `ClimbFrom` and `ClimbTo` are the
  turn of one end; `SubnetsSplit` is the case distinction behind the loop, on which of the ends were full.

Then the state. `BuilderInvariance` shows `Spec => []BuilderInv`, from which
`BuilderTypeCorrect`, `RangesNamedTheorem`, `SubnetsExactTheorem`,
`DeviceConfiguredTheorem` and `BlockingCoversTheorem` follow: every property of the run `ike_routes`.
`DeviceIsConfigured` is not inductive: a builder that failed keeps its routes, so `LeftoversAreConfigured` says
that they are no more than the next attempt adds, which holds because routes and families are only ever added
to `mCache` (`ConfiguredGrows`); and a device that is replaced would not fit a profile that grew,
which `ProfileFirst` excludes. `BlockingIsConfigured` says what the blocking device was
opened with, which is what `BlockingCovers` compares with. What a device may lack is stated without the
algorithm, as the `LargestSubnets` of its traffic that begin with a refused address; `SubnetsAreLargest`
shows that every subnet `toSubnets()` makes of ranges that stand apart is one of them, and `TakenExact` that
a device lacks no address of the others.

**Networks, `NetworkSpaceProofs`.** `DisjointTheorem` proves `DoneIsDisjoint` for addresses of any size, any
named networks and any choice among equal ones: the loop moves up
(`UpInv`), so that what is done lies below the current network. `SpaceTypeCorrect` says that networks keep
within the addresses. `split()` of a single address goes one beyond, and that this does not happen
twice is `HalvesInv`: such halves are in the queue once and ahead of the current network, so that none of them
is what the loop splits.

`DecidedInvariance` is the inductive form of what the routes are, from which `RoutesDecidedTheorem` and
`RegularAssertedTheorem` follow: for regular inputs the routes are the addresses whose most specific network belongs
to the VPN, and no assertion fails. The conjuncts of `RegularParts` are needed together:

- `DecidedAlike`: below the current network what is done routes an address exactly if the named networks decide so; from
  there on the most specific piece decides as the most specific named network. A branch of the loop either drops
  a piece (`DroppedAlike`) or replaces one by its halves (`RefinedAlike`).
- Dropping is right only if nothing between the two says otherwise. For that, every piece is part of a named
  network that says the same (`PiecesArePart`), no two compare as equal (`PiecesDiffer`), a piece ahead that was not
  named is the upper half of something split at the current address or before it (`AheadAreHalves`), what disagrees
  inside the current network was named (`DisagreeingAreNamed`), and of the pieces at the current
  address those that agree come first (`AgreeingComeFirst`).
- That the input is regular is used in two places, one for each kind of irregular input: `TooEarly` shows that otherwise a network
  `ComesTooEarly`, `HalfMeetsNone` that otherwise one `MeetsItself` as a half of another.

Each branch has a lemma for its step (`ApartStep`, `InsideStep`, `SplitNextStep`, `DroppedStep`, `SplitCurrentStep`).

**Only model-checked.** All liveness properties (`DisconnectServed`, `DestroyReturns`, `RetryFires`, `HoldReleased`,
`StartCompletes`, `EverythingEnds`, `FreeConnectionEnds`, `LoopEnds`): liveness under fairness is outside what the
installed provers do. Every safety property of a passing run is the subject of a theorem; two of the pause model's,
as said above, under the restrictions of events the theorem states.

## What could follow

A model of the merged flow that sets up the three clients
(`ConfigRepositoryImpl`), which needs the coroutine library's order of
`merge` and `take` as an external part. The process of the manager ending in the
middle of a countdown, with what is stored by then.

## Not modelled

- The native daemons and libraries (strongSwan, OpenVPN, OpenSSL, mbedTLS, LZO and others, vendored) are by
  far most of the lines in the repository. They are third-party code, modelled only as actors behind the calls
  the Java and Kotlin code makes; the modules cover the product's own logic, a
  small share of the lines.
- `SimpleFetcher` and `NetworkManager`: their results go to charon. `disable()` races
  fetches that are being submitted, and `enable()` may come while an old one is running.
- The token refresh: its retry counter is shared by all requests, so that one may use up another's.
- The merged flow of the server configuration: it completes on three values, and a failure of one
  client deletes the tunnels another may still be creating.
- The manager's `onDestroy()`, which forgets the server before it would disconnect
  it (the home screen keeps the manager bound), and the end of the process: the time is stored on
  ticks that hit a full second only.
- The order in which the last used server is saved and forgotten; rename and
  other operations of WireGuard that nothing calls; the routes of Android before 4.4, which the
  application does not support.
- The user interface, dependency injection, the SQLite and Realm
  stores themselves, parsing of configuration files, certificates and keys, the
  example applications of the OpenVPN client.

`PROJECT.json` gives the reason for each component, and a note for every hazard
that no property covers.

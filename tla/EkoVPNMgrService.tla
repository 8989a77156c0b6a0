--------------------------- MODULE EkoVPNMgrService ---------------------------
(***************************************************************************)
(* The manager service (EkoVPNMgrService.kt), the home screen that drives  *)
(* it (HomeFragment.kt, HomeViewModel.kt) and the time the user has left   *)
(* (UserRepositoryImpl.kt, TimeResetWorkerWM.kt, AdsFragment.kt).          *)
(*                                                                         *)
(* A free connection is limited by the countdown of the manager.  The      *)
(* manager does not know when a VPN comes up or goes down: the home screen *)
(* hears it from the services, changes its state, and starts the manager   *)
(* (an intent) or stops it (when the state is rendered).  Intents, events  *)
(* of the services, bindings and rendering are asynchronous; a screen that *)
(* is stopped hears only OpenVPN and renders nothing.                      *)
(*                                                                         *)
(* The three VPN services are external here: one server is up at a time.   *)
(* One life of the home screen is modelled, bound to the manager.          *)
(***************************************************************************)
EXTENDS Integers, Sequences, FiniteSets

CONSTANTS
    Server,       \* the servers the user may choose
    KindOf,       \* the protocol of each
    None,         \* null
    DefaultTime,  \* time left when nothing is stored (one hour in the code)
    Credit,       \* time an ad or a referral adds
    MaxTaps,      \* bound: connections and disconnections the user asks for
    MaxMoves,     \* bound: times the user leaves the home screen
    MaxCredits,   \* bound: ads and referrals
    MaxEvents     \* bound: connections that drop; events, intents and bindings on
                  \* their way when OpenVPN comes up again

Kind == {"ikev2", "openvpn", "wireguard"}

ASSUME ManagerAssumption ==
    /\ KindOf \in [Server -> Kind]
    /\ None \notin Server
    /\ DefaultTime \in Nat
    /\ Credit \in Nat \ {0}
    /\ {MaxTaps, MaxMoves, MaxCredits, MaxEvents} \subseteq Nat

ServerOrNull == Server \cup {None}
Time == 0..DefaultTime + MaxCredits * Credit
Status == {"DISCONNECTED", "CONNECTING", "CONNECTED"}
Screen == {"home", "ads", "hidden"}
Intent == [action : {"free", "paid", "more"}, server : ServerOrNull, left : Time]
Event == [up : BOOLEAN, kind : Kind]
Absent == -1

VARIABLES
    server, countDownTimer, timeLeft,  \* manager: server, countdown runs, time it has
    stored, resetting,                 \* TIME_LEFT, or Absent; the reset has still to store 0
    ui, pending,                       \* HomeState; it was not rendered yet
    cancelled,                         \* history: see connectToServer
    screen, paid,                      \* what is on the screen; the account is PAID
    vpn, connecting,                   \* the server that is up; those being connected to
    events, intents,                   \* on the way: to the home screen, to the manager
    callbacks,                         \* bindings the manager waits for, per protocol
    later,                             \* connectToServer(later) runs 1500 ms later
    taps, moves, credits, drops,
    orderly                            \* history: see Disorder

managerVars == <<server, countDownTimer, timeLeft>>
storedVars == <<stored, resetting>>
uiVars == <<ui, pending, cancelled>>
vpnVars == <<vpn, connecting, drops>>
userVars == <<taps, moves, credits>>
vars == <<managerVars, storedVars, uiVars, screen, paid, vpnVars, events, intents,
          callbacks, later, userVars, orderly>>

getTimeLeft == IF stored = Absent THEN DefaultTime ELSE stored
shouldShowAds == ~paid
Listening(k) == k = "openvpn" \/ screen = "home"
Up(k) == vpn # None /\ KindOf[vpn] = k
Active(k) == Up(k) \/ \E s \in connecting : KindOf[s] = k
Settled ==
    /\ connecting = {} /\ events = <<>> /\ intents = <<>>
    /\ \A k \in Kind : callbacks[k] = 0
Quiet == Settled /\ ~pending /\ screen = "home" /\ later = None

(***************************************************************************)
(* The manager.                                                            *)
(***************************************************************************)
\* disconnectCurrentVPN() of a manager whose server is s: the binding is asked for.
disconnectCurrentVPN(s) ==
    callbacks' = IF s = None \/ (KindOf[s] = "openvpn" /\ ~Active("openvpn"))
                 THEN callbacks ELSE [callbacks EXCEPT ![KindOf[s]] = @ + 1]

\* Mutant of onFinish: the server is forgotten before it is disconnected.
onFinishForgets(s) ==
    /\ server' = None
    /\ countDownTimer' = FALSE
    /\ timeLeft' = 0
    /\ stored' = 0
    /\ UNCHANGED callbacks

onFinish(s) ==
    /\ disconnectCurrentVPN(s)
    /\ server' = None
    /\ countDownTimer' = FALSE
    /\ timeLeft' = 0
    /\ stored' = 0

\* A CountDownTimer of no time finishes at once.
runCountDownTimer(s, left) ==
    IF left = 0 THEN onFinish(s)
    ELSE /\ server' = s
         /\ countDownTimer' = TRUE
         /\ timeLeft' = left
         /\ UNCHANGED callbacks

timeVPNConnection(i) ==
    IF i.server = None THEN UNCHANGED <<managerVars, stored, callbacks>>
    ELSE /\ runCountDownTimer(i.server, i.left)
         /\ i.left > 0 => UNCHANGED stored

runUnlimitedVPNConnection(i) ==
    /\ server' = IF i.server = None THEN server ELSE i.server
    /\ countDownTimer' = (countDownTimer /\ i.server = None)
    /\ UNCHANGED <<timeLeft, stored, callbacks>>

increaseTimeLeft ==
    /\ stored' = getTimeLeft + Credit
    /\ runCountDownTimer(server, stored')

onStartCommand ==
    /\ intents # <<>>
    /\ LET i == Head(intents) IN
       CASE i.action = "free" -> timeVPNConnection(i)
         [] i.action = "paid" -> runUnlimitedVPNConnection(i)
         [] OTHER -> increaseTimeLeft
    /\ orderly' = (orderly /\ (Head(intents).action = "more" => server # None))
    /\ intents' = Tail(intents)
    /\ UNCHANGED <<resetting, uiVars, screen, paid, vpnVars, events, later, userVars>>

\* Mutant of Tick: a countdown that goes on below zero.
TickBelowZero(hit) ==
    /\ countDownTimer
    /\ timeLeft > -2
    /\ timeLeft' = timeLeft - 1
    /\ stored' = IF hit /\ screen # "hidden" THEN timeLeft' ELSE stored
    /\ UNCHANGED <<server, countDownTimer, callbacks, resetting, uiVars, screen, paid, vpnVars,
                   events, intents, later, userVars, orderly>>

\* A second passes.  onTick is told only when the moment is a multiple of 1000 ms
\* to the millisecond (hit), and stores the time only for a listener.
Tick(hit) ==
    /\ countDownTimer
    /\ IF timeLeft > 1
       THEN /\ timeLeft' = timeLeft - 1
            /\ stored' = IF hit /\ screen # "hidden" THEN timeLeft' ELSE stored
            /\ UNCHANGED <<server, countDownTimer, callbacks>>
       ELSE onFinish(server)
    /\ UNCHANGED <<resetting, uiVars, screen, paid, vpnVars, events, intents, later,
                   userVars, orderly>>

\* The binding to the service of protocol k is there: it is told to disconnect.
onServiceConnected(k) ==
    /\ callbacks[k] > 0
    /\ callbacks' = [callbacks EXCEPT ![k] = @ - 1]
    /\ connecting' = {s \in connecting : KindOf[s] # k}
    /\ vpn' = IF Up(k) THEN None ELSE vpn
    /\ events' = IF Active(k) THEN Append(events, [up |-> FALSE, kind |-> k]) ELSE events
    /\ UNCHANGED <<managerVars, storedVars, uiVars, screen, paid, drops, intents, later,
                   userVars, orderly>>

(***************************************************************************)
(* The home screen.                                                        *)
(***************************************************************************)
\* Mutant of onStateChange: "down" is taken like any other state.
onStateChangeUpOnly(e) ==
    IF e.up
    THEN /\ ui' = [ui EXCEPT !.status = "CONNECTED"]
         /\ intents' = Append(intents, [action |-> IF shouldShowAds THEN "free" ELSE "paid",
                                        server |-> ui.current, left |-> ui.left])
    ELSE UNCHANGED <<ui, intents>>

\* The state the home screen has when it hears of e.
onStateChange(e) ==
    IF e.up
    THEN /\ ui' = [ui EXCEPT !.status = "CONNECTED"]
         /\ intents' = Append(intents, [action |-> IF shouldShowAds THEN "free" ELSE "paid",
                                        server |-> ui.current, left |-> ui.left])
    ELSE /\ ui' = [status |-> "DISCONNECTED", current |-> None, left |-> getTimeLeft]
         /\ UNCHANGED intents

\* What the code does not cope with: an event nobody hears; one that comes while a
\* command is still on its way to the manager; a second "connected" for a server
\* that is counted already.  (Also an ad credited to a countdown that has ended,
\* see onStartCommand, and a connection asked for while an earlier one is not
\* settled, see InOrder.)
Disorder(e) == ~Listening(e.kind) \/ intents # <<>> \/ (e.up /\ server # None)

Hear ==
    /\ events # <<>>
    /\ LET e == Head(events) IN
       /\ IF Listening(e.kind)
          THEN onStateChange(e) /\ pending' = TRUE /\ cancelled' = FALSE
          ELSE UNCHANGED <<uiVars, intents>>
       /\ orderly' = (orderly /\ ~Disorder(e))
    /\ events' = Tail(events)
    /\ UNCHANGED <<managerVars, storedVars, screen, paid, vpnVars, callbacks, later, userVars>>

\* Mutant of stopCountDownTimerService: stopTimer() is left out.
stopCountDownTimerServiceNoStop ==
    /\ disconnectCurrentVPN(server)
    /\ UNCHANGED <<server, countDownTimer>>

\* setUiDisconnectedState(): the manager disconnects and forgets its server.
stopCountDownTimerService ==
    /\ disconnectCurrentVPN(server)
    /\ server' = None
    /\ countDownTimer' = FALSE

\* Any change of HomeState is rendered, also one of a field that is not modelled.
render ==
    /\ screen = "home"
    /\ pending' = FALSE
    /\ IF ui.status = "DISCONNECTED" THEN stopCountDownTimerService
       ELSE UNCHANGED <<server, countDownTimer, callbacks>>
    /\ UNCHANGED <<timeLeft, storedVars, ui, cancelled, screen, paid, vpnVars, events, intents, later,
                   userVars, orderly>>

\* connectToServer(): start or stop, as the protocol has it.  The dialogs that
\* IKEv2 and OpenVPN show for the connected server may disconnect it or be cancelled.
startOrStop(s) ==
    CASE KindOf[s] = "wireguard" ->
            IF Up("wireguard")
            THEN disconnectCurrentVPN(server) /\ UNCHANGED connecting
            ELSE connecting' = connecting \cup {s} /\ UNCHANGED callbacks
      [] KindOf[s] # "wireguard" /\ s \in connecting \cup {vpn} ->
            /\ UNCHANGED connecting
            /\ \/ callbacks' = [callbacks EXCEPT ![KindOf[s]] = @ + 1]
               \/ UNCHANGED callbacks
      [] OTHER -> connecting' = connecting \cup {s} /\ UNCHANGED callbacks

\* The earlier connection is settled, and its end was rendered: the manager is
\* stopped by the rendering of DISCONNECTED, which a new state replaces.
InOrder == Settled /\ (ui.status = "DISCONNECTED" => ~pending)

\* Mutant of connectToServer: the state does not get the server.
connectToServerNoState(s) ==
    /\ startOrStop(s)
    /\ ui' = [ui EXCEPT !.status = "CONNECTING"]
    /\ pending' = TRUE
    /\ cancelled' = (vpn = s /\ callbacks' = callbacks)
    /\ orderly' = (orderly /\ InOrder /\ vpn \in {None, s})

\* The state says CONNECTING also when the server was up already; it keeps saying so
\* when the dialog is cancelled, until the next event is heard.
connectToServer(s) ==
    /\ startOrStop(s)
    /\ ui' = [ui EXCEPT !.status = "CONNECTING", !.current = s]
    /\ pending' = TRUE
    /\ cancelled' = (vpn = s /\ callbacks' = callbacks)
    /\ orderly' = (orderly /\ InOrder /\ vpn \in {None, s})

TapConnect(s) ==
    /\ screen = "home" /\ taps < MaxTaps
    /\ ui.status # "CONNECTING"
    /\ ui.left > 0 \/ ~shouldShowAds
    /\ connectToServer(s)
    /\ taps' = taps + 1
    /\ UNCHANGED <<managerVars, storedVars, screen, paid, vpn, drops, events, intents, later,
                   moves, credits>>

TapDisconnect ==
    /\ screen = "home" /\ taps < MaxTaps
    /\ ui.status = "CONNECTING" /\ ui.current # None
    /\ connectToServer(ui.current)
    /\ taps' = taps + 1
    /\ UNCHANGED <<managerVars, storedVars, screen, paid, vpn, drops, events, intents, later,
                   moves, credits>>

\* A server chosen from the list: no check of the time left.
showDialogOrConnect(s) ==
    /\ screen = "home" /\ taps < MaxTaps /\ later = None
    /\ IF server = None THEN connectToServer(s) /\ UNCHANGED later
       ELSE /\ disconnectCurrentVPN(server)
            /\ later' = s
            /\ UNCHANGED <<uiVars, connecting, orderly>>
    /\ taps' = taps + 1
    /\ UNCHANGED <<managerVars, storedVars, screen, paid, vpn, drops, events, intents,
                   moves, credits>>

Delayed ==
    /\ later # None /\ screen = "home"
    /\ later' = None
    /\ connectToServer(later)
    /\ UNCHANGED <<managerVars, storedVars, screen, paid, vpn, drops, events, intents, userVars>>

Leave(s) ==
    /\ screen = "home" /\ moves < MaxMoves
    /\ screen' = s
    /\ moves' = moves + 1
    /\ UNCHANGED <<managerVars, storedVars, uiVars, paid, vpnVars, events, intents, callbacks,
                   later, taps, credits, orderly>>

onResume ==
    /\ screen # "home"
    /\ screen' = "home"
    /\ ui' = [ui EXCEPT !.left = getTimeLeft]
    /\ pending' = TRUE
    /\ UNCHANGED <<managerVars, storedVars, cancelled, paid, vpnVars, events, intents, callbacks,
                   later, userVars, orderly>>

(***************************************************************************)
(* Time: ads, referrals, the daily reset, premium.                         *)
(***************************************************************************)
addMoreTime ==
    /\ screen = "ads" /\ credits < MaxCredits
    /\ credits' = credits + 1
    /\ IF server = None
       THEN stored' = getTimeLeft + Credit /\ UNCHANGED intents
       ELSE /\ intents' = Append(intents, [action |-> "more", server |-> None, left |-> 0])
            /\ UNCHANGED stored
    /\ UNCHANGED <<managerVars, resetting, uiVars, screen, paid, vpnVars, events, callbacks,
                   later, taps, moves, orderly>>

\* redeemReferral() and claimReferralRewards(): the countdown is not told.
addToTimeLeft ==
    /\ credits < MaxCredits
    /\ credits' = credits + 1
    /\ stored' = getTimeLeft + Credit
    /\ UNCHANGED <<managerVars, resetting, uiVars, screen, paid, vpnVars, events, intents,
                   callbacks, later, taps, moves, orderly>>

\* doWork(): setTimeLeft(0) deletes and then stores.
doWork ==
    /\ IF resetting THEN stored' = 0 /\ UNCHANGED credits
       ELSE /\ stored' = Absent
            /\ credits < MaxCredits /\ credits' = credits + 1
    /\ resetting' = ~resetting
    /\ UNCHANGED <<managerVars, uiVars, screen, paid, vpnVars, events, intents, callbacks,
                   later, taps, moves, orderly>>

updateUserWithOrderData ==
    /\ ~paid
    /\ paid' = TRUE
    /\ UNCHANGED <<managerVars, storedVars, uiVars, screen, vpnVars, events, intents, callbacks,
                   later, userVars, orderly>>

(***************************************************************************)
(* The VPN services.                                                       *)
(***************************************************************************)
\* s comes up; the VPN that was up is revoked by the system.
ServerUp(s) ==
    /\ s \in connecting
    /\ connecting' = connecting \ {s}
    /\ vpn' = s
    /\ LET up == [up |-> TRUE, kind |-> KindOf[s]] IN
       IF vpn \in {None, s} THEN events' = Append(events, up)
       ELSE LET down == [up |-> FALSE, kind |-> KindOf[vpn]] IN
            events' \in {events \o <<up, down>>, events \o <<down, up>>}
    /\ UNCHANGED <<managerVars, storedVars, uiVars, screen, paid, drops, intents, callbacks,
                   later, userVars, orderly>>

\* s is given up.  WireGuard reports only failed(), which shows CONNECTING again.
ServerFails(s) ==
    /\ s \in connecting
    /\ connecting' = connecting \ {s}
    /\ events' = IF KindOf[s] = "wireguard" THEN events
                 ELSE Append(events, [up |-> FALSE, kind |-> KindOf[s]])
    /\ UNCHANGED <<managerVars, storedVars, uiVars, screen, paid, vpn, drops, intents, callbacks,
                   later, userVars, orderly>>

\* The connection is lost for good.
ServerDrops ==
    /\ vpn # None /\ drops < MaxEvents
    /\ drops' = drops + 1
    /\ vpn' = None
    /\ events' = Append(events, [up |-> FALSE, kind |-> KindOf[vpn]])
    /\ UNCHANGED <<managerVars, storedVars, uiVars, screen, paid, connecting, intents, callbacks,
                   later, userVars, orderly>>

\* OpenVPN lost the connection and found it again, as often as the network has it.
Reconnects ==
    /\ Up("openvpn")
    /\ \A k \in Kind : Len(events) + Len(intents) + callbacks[k] < MaxEvents
    /\ events' = Append(events, [up |-> TRUE, kind |-> "openvpn"])
    /\ UNCHANGED <<managerVars, storedVars, uiVars, screen, paid, vpnVars, intents, callbacks,
                   later, userVars, orderly>>

Init ==
    /\ server = None /\ countDownTimer = FALSE /\ timeLeft = 0
    /\ stored = Absent /\ resetting = FALSE
    /\ ui = [status |-> "DISCONNECTED", current |-> None, left |-> DefaultTime] /\ pending = TRUE
    /\ cancelled = FALSE
    /\ screen = "home" /\ paid = FALSE
    /\ vpn = None /\ connecting = {}
    /\ events = <<>> /\ intents = <<>> /\ callbacks = [k \in Kind |-> 0] /\ later = None
    /\ taps = 0 /\ moves = 0 /\ credits = 0 /\ drops = 0
    /\ orderly = TRUE

System ==
    \/ onStartCommand \/ Hear \/ render \/ Delayed \/ Tick(TRUE)
    \/ \E k \in Kind : onServiceConnected(k)
User ==
    \/ \E s \in Server : TapConnect(s) \/ showDialogOrConnect(s)
    \/ TapDisconnect \/ onResume
    \/ \E s \in {"ads", "hidden"} : Leave(s)
    \/ addMoreTime \/ addToTimeLeft \/ updateUserWithOrderData
Environment ==
    \/ Tick(FALSE) \/ doWork \/ ServerDrops \/ Reconnects
    \/ \E s \in Server : ServerUp(s) \/ ServerFails(s)
Next == System \/ User \/ Environment
Spec == Init /\ [][Next]_vars

\* The main thread handles what waits for the manager, and the countdown counts,
\* whatever the user does and whether or not the home screen is there.
Progress == onStartCommand \/ Tick(TRUE) \/ \E k \in Kind : onServiceConnected(k)
FairSpec == Spec /\ WF_vars(Progress)

(***************************************************************************)
(* Properties.                                                             *)
(***************************************************************************)
TypeOK ==
    /\ server \in ServerOrNull /\ countDownTimer \in BOOLEAN /\ timeLeft \in Time
    /\ stored \in Time \cup {Absent} /\ resetting \in BOOLEAN
    /\ ui \in [status : Status, current : ServerOrNull, left : Time]
    /\ pending \in BOOLEAN /\ cancelled \in BOOLEAN /\ screen \in Screen /\ paid \in BOOLEAN
    /\ vpn \in ServerOrNull /\ connecting \subseteq Server
    /\ events \in Seq(Event) /\ intents \in Seq(Intent)
    /\ callbacks \in [Kind -> Nat] /\ later \in ServerOrNull
    /\ taps \in 0..MaxTaps /\ moves \in 0..MaxMoves /\ credits \in 0..MaxCredits
    /\ drops \in 0..MaxEvents /\ orderly \in BOOLEAN

\* Nobody is connected for nothing: when all is quiet, a server that is up is
\* the manager's, and counted, unless the account is PAID.
ConnectedIsTimed ==
    orderly /\ Quiet /\ vpn # None => server = vpn /\ (countDownTimer \/ paid)

\* Nobody pays for nothing: no countdown without a VPN, when all is quiet.
TimedIsConnected ==
    orderly /\ Quiet /\ (countDownTimer \/ server # None) => vpn # None

\* The home screen tells the truth when all is quiet: CONNECTED if and only if a
\* server is up, but for one that the user was asked about and did not disconnect,
\* which connectToServer() leaves shown as CONNECTING.
ScreenIsTrue ==
    orderly /\ Quiet => (ui.status = "CONNECTED" <=> vpn # None /\ ~cancelled)

\* The inductive invariants behind these and TypeOK.  No time is there that was not
\* credited: a credit on its way to the manager is not counted yet.
Mores == {i \in DOMAIN intents : intents[i].action = "more"}
Credited == credits - Cardinality(Mores)
Limit == DefaultTime + Credited * Credit
TimeInv ==
    /\ Credited >= 0
    /\ stored <= Limit /\ timeLeft <= Limit /\ ui.left <= Limit
    /\ \A i \in DOMAIN intents : intents[i].left <= Limit

\* One server at a time: before it is up nothing else is on its way; of its events
\* only the last says "down", and does so when it is down.
OneInv ==
    /\ connecting # {} =>
          /\ connecting = {ui.current} /\ vpn = None
          /\ events = <<>> /\ intents = <<>> /\ server = None
    /\ \A i \in DOMAIN events : events[i].up <=> (vpn # None \/ i < Len(events))
    /\ vpn # None => ui.current = vpn

Ended == vpn = None /\ events # <<>>

\* What the manager has, or is about to be told, is the server that is up or one
\* whose end is still to be heard of or rendered.
ManagerInv ==
    /\ server # None => vpn = server \/ Ended \/ (ui.status = "DISCONNECTED" /\ pending)
    /\ countDownTimer => server # None
    /\ server # None => countDownTimer \/ paid
    /\ \A i \in DOMAIN intents :
          /\ intents[i].action # "more" => intents[i].server = vpn \/ Ended
          /\ intents[i].action = "paid" => paid

\* A server that is up is counted, or is about to be counted or disconnected; the
\* screen shows it, or is about to hear of it or of its end.
UpInv ==
    /\ vpn # None =>
          /\ \/ server = vpn \/ events # <<>> \/ callbacks[KindOf[vpn]] > 0
             \/ \E i \in DOMAIN intents : intents[i].action # "more"
          /\ \/ ui.status = "CONNECTED" \/ cancelled
             \/ events # <<>> \/ callbacks[KindOf[vpn]] > 0
    /\ ui.status = "CONNECTED" => (vpn # None /\ ~cancelled) \/ Ended

OrderlyInv == orderly => OneInv /\ ManagerInv /\ UpInv

\* The servers the manager and the home screen are about to work with.
InPlay == {server, ui.current} \cup {intents[i].server : i \in DOMAIN intents}

\* A free connection that is counted ends, with the home screen or without it, unless
\* the account becomes PAID or the user asks for another server: an event of OpenVPN
\* is taken for the server asked for last, and the manager disconnects that one.
\* The other way out is an OpenVPN that reconnects again and again: each time the
\* countdown starts anew, with the time the screen was last told of.
FreeConnectionEnds ==
    \/ []<><<Reconnects>>_vars
    \/ \A s \in Server :
          (vpn = s /\ server = s /\ countDownTimer)
              ~> (vpn # s \/ paid \/ InPlay \ {s, None} # {})
===============================================================================

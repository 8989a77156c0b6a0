--------------------------- MODULE VpnStateService ---------------------------
(***************************************************************************)
(* The state service of the IKEv2 client (ikeV2/.../VpnStateService.java). *)
(*                                                                         *)
(* The service lives on the main thread: other threads never write its     *)
(* fields, they post a change that the main thread applies later           *)
(* (notifyListeners).  The posted changes are the FIFO queue mainq.        *)
(* RETRY_MSG is a delayed message: retryMsgs counts the ones in the        *)
(* handler, each of which may be delivered whenever its second is over.    *)
(* startService() and startForegroundService() hand an intent to the       *)
(* system, which delivers it to CharonVpnService later: the queue intents. *)
(*                                                                         *)
(* Every posted change carries id, the number of the connection it is      *)
(* about.  The code has no such field: it is there for the properties.     *)
(***************************************************************************)
EXTENDS Integers, Sequences

CONSTANTS
    Profile,            \* VPN profiles, each with the password it was started with
    NoProfile,          \* null
    UserPass,           \* profiles of a type with USER_PASS
    NeedsPassword,      \* of these, the ones whose password is null
    RETRY_INTERVAL,     \* ms between two steps of the retry countdown
    MAX_RETRY_INTERVAL  \* ms, cap of the exponential backoff

ASSUME ProfileAssumption ==
    /\ NoProfile \notin Profile
    /\ UserPass \subseteq Profile
    /\ NeedsPassword \subseteq UserPass
ASSUME IntervalAssumption ==
    /\ RETRY_INTERVAL \in Nat \ {0}
    /\ MAX_RETRY_INTERVAL \in Nat \ {0}

VARIABLES
    mState, mError, mProfile, mConnectionID, mImcState,
    mRemediationInstructions,   \* ids of the connections they came from
    mRetryTimeout, mRetryIn,    \* the retry countdown, in ms
    mRetry,                     \* RetryTimeoutProvider.mRetry
    retryMsgs,                  \* number of RETRY_MSG in the handler
    mainq,                      \* changes posted to the main thread
    intents                     \* start intents the system has not delivered yet

retryVars == <<mRetryTimeout, mRetryIn, mRetry, retryMsgs>>
stateVars == <<mState, mError, mProfile, mConnectionID, mImcState,
               mRemediationInstructions>>
serviceVars == <<mState, mError, mProfile, mConnectionID, mImcState,
                 mRemediationInstructions, mRetryTimeout, mRetryIn, mRetry,
                 retryMsgs, mainq, intents>>

State == {"DISABLED", "CONNECTING", "CONNECTED", "DISCONNECTING"}
NoError == "NO_ERROR"
Failure == {"AUTH_FAILED", "PEER_AUTH_FAILED", "LOOKUP_FAILED", "UNREACHABLE",
            "GENERIC_ERROR", "PASSWORD_MISSING", "CERTIFICATE_UNAVAILABLE"}
ErrorState == Failure \cup {NoError}
ImcState == {"UNKNOWN", "ALLOW", "BLOCK", "ISOLATE"}

Change ==
         [op : {"start"}, arg : Profile, id : Nat]
    \cup [op : {"state"}, arg : State, id : Nat]
    \cup [op : {"error"}, arg : ErrorState, id : Nat]
    \cup [op : {"imc"}, arg : ImcState, id : Nat]
    \cup [op : {"instruction", "resetTimer", "show", "hide"}, arg : {"none"}, id : Nat]

Intent == [op : {"connect"}, profile : Profile] \cup [op : {"disconnect"}, profile : {NoProfile}]

-----------------------------------------------------------------------------
(* Posting a change: notifyListeners() and Handler.post().                 *)

Msg(op, arg, id) == [op |-> op, arg |-> arg, id |-> id]
startConnection(p, id) == Msg("start", p, id)
setState(s, id) == Msg("state", s, id)
setError(e, id) == Msg("error", e, id)
setImcState(s, id) == Msg("imc", s, id)
addRemediationInstruction(id) == Msg("instruction", "none", id)

Post(m) == mainq' = Append(mainq, m)

-----------------------------------------------------------------------------
(* Retry timer with exponential backoff.                                   *)

getBaseTimeout(error) ==
    CASE error = "PASSWORD_MISSING" -> 0
      [] error \in {"PEER_AUTH_FAILED", "LOOKUP_FAILED", "UNREACHABLE",
                    "CERTIFICATE_UNAVAILABLE"} -> 5000
      [] OTHER -> 10000

(* Rounded to seconds and capped.                                          *)
getTimeout(error, retry) ==
    LET t == ((getBaseTimeout(error) * 2^retry) \div 1000) * 1000
    IN  IF t \in 0..MAX_RETRY_INTERVAL THEN t ELSE MAX_RETRY_INTERVAL

(* Mutant: the message is not sent for a timeout of one interval.          *)
setRetryTimerLongOnly(error) ==
    LET t == getTimeout(error, mRetry)
    IN  /\ mRetry' = mRetry + 1
        /\ mRetryTimeout' = t
        /\ mRetryIn' = t
        /\ retryMsgs' = IF t > RETRY_INTERVAL THEN retryMsgs + 1 ELSE retryMsgs

(* setRetryTimer: a RETRY_MSG is sent only for a positive timeout.         *)
setRetryTimer(error) ==
    LET t == getTimeout(error, mRetry)
    IN  /\ mRetry' = mRetry + 1
        /\ mRetryTimeout' = t
        /\ mRetryIn' = t
        /\ retryMsgs' = IF t > 0 THEN retryMsgs + 1 ELSE retryMsgs

(* resetRetryTimer: clears the countdown, leaves pending messages alone.   *)
resetRetryTimer ==
    /\ mRetryTimeout' = 0
    /\ mRetryIn' = 0

-----------------------------------------------------------------------------
(* The changes, applied on the main thread.                                *)

(* Mutant: a new connection leaves the old countdown running.              *)
ApplyStartKeepTimer(m) ==
    /\ mConnectionID' = mConnectionID + 1
    /\ mProfile' = m.arg
    /\ mState' = "CONNECTING"
    /\ mError' = NoError
    /\ mImcState' = "UNKNOWN"
    /\ mRemediationInstructions' = {}
    /\ UNCHANGED retryVars

ApplyStart(m) ==
    /\ resetRetryTimer
    /\ mConnectionID' = mConnectionID + 1
    /\ mProfile' = m.arg
    /\ mState' = "CONNECTING"
    /\ mError' = NoError
    /\ mImcState' = "UNKNOWN"
    /\ mRemediationInstructions' = {}
    /\ UNCHANGED <<mRetry, retryMsgs>>

ApplyState(m) ==
    /\ mRetry' = IF m.arg = "CONNECTED" THEN 0 ELSE mRetry
    /\ mState' = m.arg
    /\ UNCHANGED <<mError, mProfile, mConnectionID, mImcState,
                   mRemediationInstructions, mRetryTimeout, mRetryIn, retryMsgs>>

ApplyError(m) ==
    /\ mError' = m.arg
    /\ \/ /\ mError = NoError /\ m.arg # NoError
          /\ setRetryTimer(m.arg)
       \/ /\ mError # NoError /\ m.arg = NoError
          /\ resetRetryTimer
          /\ UNCHANGED <<mRetry, retryMsgs>>
       \/ /\ mError = NoError <=> m.arg = NoError
          /\ UNCHANGED retryVars
    /\ UNCHANGED <<mState, mProfile, mConnectionID, mImcState,
                   mRemediationInstructions>>

ApplyImcState(m) ==
    /\ mImcState' = m.arg
    /\ mRemediationInstructions' =
          IF m.arg = "UNKNOWN" THEN {} ELSE mRemediationInstructions
    /\ UNCHANGED <<mState, mError, mProfile, mConnectionID>>
    /\ UNCHANGED retryVars

ApplyInstruction(m) ==
    /\ mRemediationInstructions' = mRemediationInstructions \cup {m.id}
    /\ UNCHANGED <<mState, mError, mProfile, mConnectionID, mImcState>>
    /\ UNCHANGED retryVars

(* The change reconnect() posts when it asks for the password first.       *)
ApplyResetTimer ==
    /\ resetRetryTimer
    /\ UNCHANGED <<mRetry, retryMsgs>>
    /\ UNCHANGED stateVars

(* Runs the first posted change.  "show" and "hide" belong to              *)
(* CharonVpnService: they leave this service alone.                        *)
RunChange ==
    /\ mainq # <<>>
    /\ mainq' = Tail(mainq)
    /\ LET m == Head(mainq)
       IN  \/ m.op = "start" /\ ApplyStart(m)
           \/ m.op = "state" /\ ApplyState(m)
           \/ m.op = "error" /\ ApplyError(m)
           \/ m.op = "imc" /\ ApplyImcState(m)
           \/ m.op = "instruction" /\ ApplyInstruction(m)
           \/ m.op = "resetTimer" /\ ApplyResetTimer
           \/ m.op \in {"show", "hide"} /\ UNCHANGED stateVars /\ UNCHANGED retryVars
    /\ UNCHANGED intents

-----------------------------------------------------------------------------
(* Calls made on the main thread.                                          *)

ConnectIntent(p) == [op |-> "connect", profile |-> p]
DisconnectIntent == [op |-> "disconnect", profile |-> NoProfile]

(* connect(profileInfo, true): a new connection or a manual retry.         *)
connect(p) ==
    /\ mRetry' = 0
    /\ intents' = Append(intents, ConnectIntent(p))
    /\ UNCHANGED stateVars
    /\ UNCHANGED <<mRetryTimeout, mRetryIn, retryMsgs, mainq>>

(* disconnect(), called with id = the number of the latest connection.     *)
disconnect(id) ==
    /\ resetRetryTimer
    /\ Post(setError(NoError, id))
    /\ intents' = Append(intents, DisconnectIntent)
    /\ UNCHANGED stateVars
    /\ UNCHANGED <<mRetry, retryMsgs>>

(* reconnect(): connect to the previous profile, or ask for the password   *)
(* and only stop the countdown.                                            *)
AsksPassword ==
    mProfile \in UserPass /\ (mProfile \in NeedsPassword \/ mError = "AUTH_FAILED")

(* Mutant: the null check of mProfile is dropped.                          *)
CanReconnectUnchecked == TRUE

CanReconnect == mProfile # NoProfile

reconnect(id) ==
    /\ CanReconnect
    /\ \/ /\ AsksPassword
          /\ Post(Msg("resetTimer", "none", id))
          /\ UNCHANGED intents
          /\ UNCHANGED stateVars
          /\ UNCHANGED retryVars
       \/ /\ ~AsksPassword
          /\ connect(mProfile)

(* RetryHandler.handleMessage: one step of the countdown.  When it is over *)
(* the previous profile is connected again, with the backoff kept.         *)
RetryTick ==
    /\ retryMsgs > 0
    /\ \/ /\ mRetryTimeout <= 0
          /\ retryMsgs' = retryMsgs - 1
          /\ UNCHANGED <<mRetryIn, intents>>
       \/ /\ mRetryTimeout > 0
          /\ mRetryIn' = mRetryIn - RETRY_INTERVAL
          /\ IF mRetryIn' > 0
             THEN UNCHANGED <<retryMsgs, intents>>
             ELSE /\ retryMsgs' = retryMsgs - 1
                  /\ intents' = Append(intents, ConnectIntent(mProfile))
    /\ UNCHANGED <<mRetryTimeout, mRetry, mainq>>
    /\ UNCHANGED stateVars

StateServiceInit ==
    /\ mState = "DISABLED"
    /\ mError = NoError
    /\ mProfile = NoProfile
    /\ mConnectionID = 0
    /\ mImcState = "UNKNOWN"
    /\ mRemediationInstructions = {}
    /\ mRetryTimeout = 0
    /\ mRetryIn = 0
    /\ mRetry = 0
    /\ retryMsgs = 0
    /\ mainq = <<>>
    /\ intents = <<>>

StateServiceTypeOK ==
    /\ mState \in State
    /\ mError \in ErrorState
    /\ mProfile \in Profile \cup {NoProfile}
    /\ mConnectionID \in Nat
    /\ mImcState \in ImcState
    /\ mRemediationInstructions \subseteq Nat
    /\ mRetryTimeout \in Nat
    /\ mRetryIn \in Int
    /\ mRetry \in Nat
    /\ retryMsgs \in Nat
    /\ mainq \in Seq(Change)
    /\ intents \in Seq(Intent)
=============================================================================

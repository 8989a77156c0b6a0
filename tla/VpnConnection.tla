---------------------------- MODULE VpnConnection ----------------------------
(***************************************************************************)
(* What CharonVpnService and VpnStateService promise together to whoever   *)
(* listens to the state: connections are made one at a time, and the state *)
(* is shown late but never wrongly.  What is shown follows the connections *)
(* in their order, none is left out; only a new connection leads out of    *)
(* DISABLED; and DISABLED is shown only when the connection that is shown  *)
(* is over.  CharonVpnService refines it, see Connection there.            *)
(***************************************************************************)
EXTENDS Naturals

VARIABLES
    number,   \* connections made so far
    running,  \* the last of them is not over
    shown,    \* number of the connection that is shown
    phase     \* the state that is shown for it

vars == <<number, running, shown, phase>>

Phase == {"DISABLED", "CONNECTING", "CONNECTED", "DISCONNECTING"}

Init ==
    /\ number = 0 /\ running = FALSE
    /\ shown = 0 /\ phase = "DISABLED"

Begin ==
    /\ ~running
    /\ running' = TRUE
    /\ number' = number + 1
    /\ UNCHANGED <<shown, phase>>

End ==
    /\ running
    /\ running' = FALSE
    /\ UNCHANGED <<number, shown, phase>>

ShowStart ==
    /\ shown < number
    /\ shown' = shown + 1
    /\ phase' = "CONNECTING"
    /\ UNCHANGED <<number, running>>

ShowActive ==
    /\ phase # "DISABLED"
    /\ phase' \in Phase \ {"DISABLED"}
    /\ UNCHANGED <<number, running, shown>>

ShowDisabled ==
    /\ ~running \/ shown < number
    /\ phase' = "DISABLED"
    /\ UNCHANGED <<number, running, shown>>

Next == Begin \/ End \/ ShowStart \/ ShowActive \/ ShowDisabled

Spec == Init /\ [][Next]_vars
==============================================================================

------------------------------ MODULE MCManager ------------------------------
EXTENDS EkoVPNMgrService

\* One server per protocol, and two of them.
MCServer == Kind
MCTwoServers == {"openvpn", "wireguard"}
MCKindOf == [s \in MCServer |-> s]
MCKindOfTwo == [s \in MCTwoServers |-> s]
==============================================================================

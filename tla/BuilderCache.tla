---------------------------- MODULE BuilderCache ----------------------------
(***************************************************************************)
(* The routes of an IKEv2 connection: BuilderAdapter and BuilderCache of   *)
(* CharonVpnService.java, on top of IPRangeSet.java.                       *)
(*                                                                         *)
(* The profile names ranges to include and to exclude, and charon the      *)
(* routes it has negotiated.  A set of ranges merges what it is given, and *)
(* Android gets the subnets of what is left when a TUN device is opened.   *)
(* Before charon's there may be one that drops what it is sent.            *)
(*                                                                         *)
(* One profile and one family of addresses are modelled: the other family  *)
(* has the same code.  Android may refuse to open a device, and some of    *)
(* its versions refuse routes to multicast addresses.                      *)
(***************************************************************************)
EXTENDS IPRange

CONSTANTS
    NoDevice,     \* null, for a device and for a cache
    Refused,      \* the multicast addresses, if routes to them are refused
    MaxRanges,    \* bound: ranges named by the profile and by charon
    MaxIncluded   \* bound: the same, for a profile that excludes nothing

ASSUME BuilderAssumption ==
    /\ MaxRanges \in Nat
    /\ MaxIncluded \in Nat
    /\ Refused \subseteq Address \ {0}

VARIABLES
    blockUnrouted,     \* SPLIT_TUNNELING_BLOCK is set for the family
    dnsConfigured,     \* the profile names a DNS server of the family
    mIncludedSubnets,
    mExcludedSubnets,
    phase,             \* "profile", then "connection"
    mCache,            \* [seen: an address of the family, mRoutes: of charon]
    mEstablishedCache,
    mBuilder,          \* [routes, allowed: traffic may bypass the VPN]
    device,            \* what charon's TUN device was opened with
    blocking,          \* what the blocking device was opened with
    ranges,            \* how many ranges were named
    named              \* the addresses in them: [included, excluded]

profileVars == <<blockUnrouted, dnsConfigured, mIncludedSubnets, mExcludedSubnets, named>>
vars == <<profileVars, phase, mCache, mEstablishedCache, mBuilder, device, blocking, ranges>>

NewCache == [seen |-> dnsConfigured, mRoutes |-> {}]
NewBuilder == [routes |-> {}, allowed |-> FALSE]
All == [from |-> 0, to |-> LAST]
BlockingCache == [seen |-> TRUE, mRoutes |-> {All}]

-----------------------------------------------------------------------------
(* Sets of ranges.                                                         *)

First(set) == CHOOSE r \in set : \A s \in set : s = r \/ Comes(r, s)

addOnce(range, set) ==
    LET mergeable == {r \in set : merge(r, range) # NoRange}
        existing == First(mergeable)
    IN  IF range \in set \/ mergeable = {} THEN set \cup {range}
        ELSE (set \ {existing}) \cup {merge(existing, range)}

(* A turn of the loop of add(): the range is united with the first of the  *)
(* set that it can be united with, and what comes of it goes the same way. *)
unite(w) ==
    LET mergeable == {r \in w.set : merge(r, w.range) # NoRange}
        existing == First(mergeable)
    IN  IF mergeable = {} THEN w
        ELSE [range |-> merge(existing, w.range), set |-> w.set \ {existing}]

add(range, set) ==
    LET last == Cardinality(set)
        turn[k \in 0..last] ==
            IF k = 0 THEN [range |-> range, set |-> set] ELSE unite(turn[k - 1])
    IN  IF range \in set THEN set ELSE turn[last].set \cup {turn[last].range}

addAll(rs) == FoldSet(add, {}, rs)
removeAll(set, rs) == FoldSet(LAMBDA r, s : remove(s, r), set, rs)

subnets(set) == UNION {toSubnets(r) : r \in set}

-----------------------------------------------------------------------------
(* State formulae.                                                         *)

Cache == [seen: BOOLEAN, mRoutes: SUBSET IPRange]
Builder == [routes: SUBSET IPRange, allowed: BOOLEAN]

TypeOK ==
    /\ blockUnrouted \in BOOLEAN /\ dnsConfigured \in BOOLEAN
    /\ mIncludedSubnets \subseteq IPRange /\ mExcludedSubnets \subseteq IPRange
    /\ phase \in {"profile", "connection"}
    /\ mCache \in Cache
    /\ mEstablishedCache \in Cache \cup {NoDevice}
    /\ mBuilder \in Builder
    /\ {device, blocking} \subseteq Builder \cup {NoDevice}
    /\ ranges \in 0..Max({MaxRanges, MaxIncluded})
    /\ named \in [included: SUBSET Address, excluded: SUBSET Address]

(* BuilderCache.applyData(): what is added to a builder.  A subnet that is *)
(* refused is left out if it begins with a multicast address.              *)
applyData(cache, b) ==
    LET split == removeAll(IF mIncludedSubnets # {} THEN addAll(mIncludedSubnets)
                           ELSE addAll(cache.mRoutes),
                           mExcludedSubnets)
        routes == IF ~cache.seen THEN {}
                  ELSE IF blockUnrouted THEN {All}
                  ELSE {s \in subnets(split) : s.from \notin Refused}
    IN  [routes |-> b.routes \cup routes,
         allowed |-> b.allowed \/ (~cache.seen /\ ~blockUnrouted)]

-----------------------------------------------------------------------------
(* The profile, read when the cache is created.                            *)

include(r) ==
    /\ phase = "profile"
    /\ ranges < MaxRanges \/ (mExcludedSubnets = {} /\ ranges < MaxIncluded)
    /\ ranges' = ranges + 1
    /\ mIncludedSubnets' = add(r, mIncludedSubnets)
    /\ named' = [named EXCEPT !.included = @ \cup Addresses(r)]
    /\ UNCHANGED <<blockUnrouted, dnsConfigured, mExcludedSubnets, phase, mCache,
                   mEstablishedCache, mBuilder, device, blocking>>

exclude(r) ==
    /\ phase = "profile" /\ ranges < MaxRanges
    /\ ranges' = ranges + 1
    /\ mExcludedSubnets' = add(r, mExcludedSubnets)
    /\ named' = [named EXCEPT !.excluded = @ \cup Addresses(r)]
    /\ UNCHANGED <<blockUnrouted, dnsConfigured, mIncludedSubnets, phase, mCache,
                   mEstablishedCache, mBuilder, device, blocking>>

(* The blocking device may be opened first; then setProfile() is called    *)
(* again for the connection itself.                                        *)
setProfile ==
    /\ phase = "profile"
    /\ phase' = "connection"
    /\ mCache' = NewCache
    /\ UNCHANGED <<profileVars, mEstablishedCache, mBuilder, device, blocking, ranges>>

establishBlockingNoRoute ==
    /\ phase = "profile" /\ blocking = NoDevice
    /\ blocking' = applyData([seen |-> TRUE, mRoutes |-> {}], NewBuilder)
    /\ mEstablishedCache' = [seen |-> TRUE, mRoutes |-> {}]
    /\ mCache' = NewCache
    /\ phase' = "connection"
    /\ UNCHANGED <<profileVars, mBuilder, device, ranges>>

establishBlocking ==
    /\ phase = "profile" /\ blocking = NoDevice
    /\ blocking' = applyData(BlockingCache, NewBuilder)
    /\ mEstablishedCache' = BlockingCache
    /\ mCache' = NewCache
    /\ phase' = "connection"
    /\ UNCHANGED <<profileVars, mBuilder, device, ranges>>

-----------------------------------------------------------------------------
(* charon, which calls the adapter through JNI.                            *)

(* addAddress() and addDnsServer() record the family.                      *)
addAddress ==
    /\ phase = "connection"
    /\ mCache' = [mCache EXCEPT !.seen = TRUE]
    /\ UNCHANGED <<profileVars, phase, mEstablishedCache, mBuilder, device, blocking, ranges>>

addRoute(r) ==
    /\ phase = "connection" /\ ranges < MaxRanges
    /\ ranges' = ranges + 1
    /\ mCache' = [mCache EXCEPT !.mRoutes = @ \cup {r}]
    /\ UNCHANGED <<profileVars, phase, mEstablishedCache, mBuilder, device, blocking>>

establish ==
    /\ phase = "connection"
    /\ device' = applyData(mCache, mBuilder)
    /\ mBuilder' = NewBuilder
    /\ mEstablishedCache' = mCache
    /\ mCache' = NewCache
    /\ blocking' = NoDevice
    /\ UNCHANGED <<profileVars, phase, ranges>>

(* The builder keeps what was applied to it: all, if no device is opened,  *)
(* or what came before an address or a route that is refused.              *)
EstablishFails ==
    /\ phase = "connection"
    /\ LET applied == applyData(mCache, mBuilder)
       IN  \E routes \in SUBSET applied.routes, allowed \in {mBuilder.allowed, applied.allowed} :
              /\ mBuilder.routes \subseteq routes
              /\ mBuilder' = [routes |-> routes, allowed |-> allowed]
    /\ UNCHANGED <<profileVars, phase, mCache, mEstablishedCache, device, blocking, ranges>>

(* While charon connects again its device is replaced by one without DNS.  *)
establishNoDns ==
    /\ phase = "connection" /\ device # NoDevice /\ mEstablishedCache # NoDevice
    /\ device' = applyData(mEstablishedCache, NewBuilder)
    /\ UNCHANGED <<profileVars, phase, mCache, mEstablishedCache, mBuilder, blocking, ranges>>

Init ==
    /\ blockUnrouted \in BOOLEAN
    /\ dnsConfigured \in BOOLEAN
    /\ mIncludedSubnets = {} /\ mExcludedSubnets = {}
    /\ phase = "profile"
    /\ mCache = NewCache
    /\ mEstablishedCache = NoDevice
    /\ mBuilder = NewBuilder
    /\ device = NoDevice
    /\ blocking = NoDevice
    /\ ranges = 0
    /\ named = [included |-> {}, excluded |-> {}]

Next ==
    \/ \E r \in IPRange : include(r) \/ exclude(r)
    \/ setProfile
    \/ establishBlocking
    \/ addAddress
    \/ \E r \in IPRange : IsSubnet(r) /\ addRoute(r)
    \/ establish
    \/ EstablishFails
    \/ establishNoDns

Spec == Init /\ [][Next]_vars

-----------------------------------------------------------------------------
(* However ranges overlap, touch or repeat, and in whatever order they are *)
(* named, a set holds exactly their addresses and no two ranges that could *)
(* be one: IPRangeSet.add() takes out a range at a time, and adds what     *)
(* comes of merging with it again.                                         *)
RangesAreNamed ==
    /\ AddressesOf(mIncludedSubnets) = named.included /\ Merged(mIncludedSubnets)
    /\ AddressesOf(mExcludedSubnets) = named.excluded /\ Merged(mExcludedSubnets)

(* toSubnets() splits a range into subnets that have its addresses, do not *)
(* overlap, and are as large as the range allows.                          *)
SubnetsAreExact ==
    \A r \in mIncludedSubnets \cup mExcludedSubnets :
        /\ AddressesOf(toSubnets(r)) = Addresses(r)
        /\ \A s \in toSubnets(r) :
              /\ IsSubnet(s)
              /\ \A t \in toSubnets(r) : s # t => ~overlaps(s, t)
              /\ s = All \/ ~contains(r, Subnet(s.from, Common(s) - 1))

(* The traffic that the profile asks for, given what charon has            *)
(* negotiated.                                                             *)
Configured(cache) ==
    IF ~cache.seen THEN {}
    ELSE IF blockUnrouted THEN Address
    ELSE (IF named.included # {} THEN named.included ELSE AddressesOf(cache.mRoutes))
           \ named.excluded

(* The subnets that traffic is split into, and the addresses in those that *)
(* Android refuses.                                                        *)
LargestSubnets(traffic) ==
    {s \in IPRange :
        /\ IsSubnet(s)
        /\ Addresses(s) \subseteq traffic
        /\ s = All \/ ~(Addresses(Subnet(s.from, Common(s) - 1)) \subseteq traffic)}
Lost(traffic) == AddressesOf({s \in LargestSubnets(traffic) : s.from \in Refused})

Takes(d, traffic) ==
    /\ AddressesOf(d.routes) \subseteq traffic
    /\ traffic \ AddressesOf(d.routes) \subseteq Lost(traffic)

(* charon's device takes the traffic the profile asks for: everything if   *)
(* nothing may bypass the VPN, or else what is included (by the profile,   *)
(* or by the server if the profile names nothing) and not excluded.  All   *)
(* that may be missing is a subnet of that traffic, as large as can be,    *)
(* that begins with a multicast address and is refused.  This holds after  *)
(* failed attempts to open it, and for the device that is used while       *)
(* charon connects again, whatever it has negotiated so far.               *)
DeviceIsConfigured ==
    device # NoDevice => Takes(device, Configured(mEstablishedCache))

(* No address is routed by the connection that the blocking device it      *)
(* replaces left open, but for what the blocking device was refused: it    *)
(* asks for larger subnets, which may begin with a multicast address where *)
(* those of the connection do not.                                         *)
BlockingCovers ==
    [][blocking # NoDevice /\ blocking' = NoDevice
         => AddressesOf(device'.routes) \ AddressesOf(blocking.routes)
               \subseteq Lost(Configured(BlockingCache))]_vars

-----------------------------------------------------------------------------
(* The inductive invariant.                                                *)

(* The profile is complete before any of it is used.                       *)
ProfileFirst ==
    phase = "profile" =>
        mBuilder = NewBuilder /\ mEstablishedCache = NoDevice
            /\ device = NoDevice /\ blocking = NoDevice

(* What failed attempts leave in the builder is no more than the next one  *)
(* would put there.                                                        *)
LeftoversAreConfigured == AddressesOf(mBuilder.routes) \subseteq Configured(mCache)

BlockingIsConfigured ==
    blocking # NoDevice => Takes(blocking, Configured(BlockingCache))

BuilderInv ==
    /\ TypeOK /\ RangesAreNamed /\ ProfileFirst
    /\ LeftoversAreConfigured /\ DeviceIsConfigured /\ BlockingIsConfigured
=============================================================================

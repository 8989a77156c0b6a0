---------------------------- MODULE NetworkSpace ----------------------------
(***************************************************************************)
(* The routes of an OpenVPN connection: NetworkSpace.java.                 *)
(*                                                                         *)
(* The process names networks that belong to the VPN and networks that do  *)
(* not, and of two that overlap the more specific one decides.  Android    *)
(* takes only routes into the VPN, so generateIPList() splits networks     *)
(* until none overlaps another.  It works through a queue ordered by       *)
(* first address; each action of Loop is one turn of its loop.             *)
(*                                                                         *)
(* Addresses have WIDTH bits instead of 32 or 128, and a network is named  *)
(* by its first address.  What only runs before Android 4.4 is left out:   *)
(* the application needs a later one (minSdkVersion 21).                   *)
(***************************************************************************)
EXTENDS Integers, FiniteSets, Bags, BagsExt

CONSTANTS
    WIDTH,        \* bits of an address
    NoNet,        \* null
    MaxNetworks   \* bound: networks that are collected

ASSUME SpaceAssumption == WIDTH \in Nat /\ MaxNetworks \in Nat

(* A fact of arithmetic, which holds for every WIDTH: powers double.       *)
ASSUME PowersAssumption == \A n \in 0..WIDTH : 2^n \in Nat \ {0} /\ 2^(n + 1) = 2 * 2^n

VARIABLES
    mIpAddresses, \* the networks that were named
    phase,        \* "collecting", in the loop ("generating"), "generated"
    networks,     \* the queue of the loop, which may hold a network twice
    currentNet,
    ipsDone

vars == <<mIpAddresses, phase, networks, currentNet, ipsDone>>

-----------------------------------------------------------------------------
(* Networks.  split() of a single address goes beyond WIDTH, and what it   *)
(* returns has one address each.                                           *)

Net == [first: 0..2^WIDTH, networkMask: 0..WIDTH + 1, included: BOOLEAN]

Bits(n) == IF n.networkMask <= WIDTH THEN WIDTH - n.networkMask ELSE 0
Last(n) == n.first + 2^Bits(n) - 1
Addresses(n) == n.first..Last(n)

BeforeLargerFirst(n, m) == n.first < m.first \/ (n.first = m.first /\ n.networkMask < m.networkMask)
Before(n, m) == n.first < m.first \/ (n.first = m.first /\ n.networkMask > m.networkMask)
Same(n, m) == n.first = m.first /\ n.networkMask = m.networkMask

splitBehindAll(n) ==
    LET half == [n EXCEPT !.networkMask = @ + 1]
    IN  <<half, [half EXCEPT !.first = Last(n) + 1]>>

split(n) ==
    LET half == [n EXCEPT !.networkMask = @ + 1]
    IN  <<half, [half EXCEPT !.first = Last(half) + 1]>>

(* An ordered set keeps the first of two networks that compare as equal.   *)
Insert(set, n) == IF \E m \in set : Same(m, n) THEN set ELSE set \cup {n}

(* The queue offers one that no other precedes; it promises nothing about  *)
(* the order of two that compare as equal.                                 *)
Least(q) == {n \in BagToSet(q) : \A m \in BagToSet(q) : ~Before(m, n)}
AddMissing(q, n) == IF \E m \in BagToSet(q) : Same(m, n) THEN q ELSE BagAdd(q, n)

-----------------------------------------------------------------------------
(* State formulae.                                                         *)

TypeOK ==
    /\ mIpAddresses \subseteq Net
    /\ phase \in {"collecting", "generating", "generated"}
    /\ IsABag(networks) /\ BagToSet(networks) \subseteq Net
    /\ currentNet \in Net \cup {NoNet}
    /\ ipsDone \subseteq Net

(* What the most specific network of a set says of an address.             *)
Decided(set, a) ==
    \E n \in set :
        /\ a \in Addresses(n) /\ n.included
        /\ \A m \in set : a \in Addresses(m) => m.networkMask <= n.networkMask

Routed(list) == UNION {Addresses(n) : n \in list}

-----------------------------------------------------------------------------
(* Collecting: addRoute(), addRoutev6() and the networks of the device.    *)

Networks ==
    {n \in [first: 0..2^WIDTH - 1, networkMask: 0..WIDTH, included: BOOLEAN] :
        n.first % 2^Bits(n) = 0}

addIP(n) ==
    /\ phase = "collecting"
    /\ Cardinality(mIpAddresses) < MaxNetworks
    /\ mIpAddresses' = Insert(mIpAddresses, n)
    /\ UNCHANGED <<phase, networks, currentNet, ipsDone>>

(* The connection is established; the networks are forgotten.              *)
clear ==
    /\ phase = "generated"
    /\ phase' = "collecting"
    /\ mIpAddresses' = {}
    /\ ipsDone' = {}
    /\ UNCHANGED <<networks, currentNet>>

(* generateIPList() up to its loop.                                        *)
generateIPList ==
    /\ phase = "collecting"
    /\ LET q == SetToBag(mIpAddresses)
       IN  IF q = EmptyBag
           THEN phase' = "generated" /\ UNCHANGED <<networks, currentNet>>
           ELSE /\ phase' = "generating"
                /\ currentNet' \in Least(q)
                /\ networks' = BagRemove(q, currentNet')
    /\ UNCHANGED <<mIpAddresses, ipsDone>>

-----------------------------------------------------------------------------
(* One turn of the loop, by what it finds of currentNet and nextNet.       *)

Turn == phase = "generating" /\ UNCHANGED mIpAddresses

Apart(next) == Last(currentNet) < next.first
Inside(next) == currentNet.first = next.first /\ currentNet.networkMask >= next.networkMask
Agree(next) == currentNet.included = next.included

LastNet ==
    /\ Turn
    /\ networks = EmptyBag
    /\ ipsDone' = Insert(ipsDone, currentNet)
    /\ currentNet' = NoNet
    /\ phase' = "generated"
    /\ UNCHANGED networks

NextIsApartByMask(next) ==
    /\ Turn
    /\ Apart(next) \/ Last(currentNet) = Last(next)
    /\ ipsDone' = Insert(ipsDone, currentNet)
    /\ currentNet' = next
    /\ networks' = BagRemove(networks, next)
    /\ UNCHANGED phase

NextIsApart(next) ==
    /\ Turn
    /\ Apart(next)
    /\ ipsDone' = Insert(ipsDone, currentNet)
    /\ currentNet' = next
    /\ networks' = BagRemove(networks, next)
    /\ UNCHANGED phase

InsideNext(next) ==
    /\ Turn
    /\ ~Apart(next) /\ Inside(next) /\ Agree(next)
    /\ currentNet' = next
    /\ networks' = BagRemove(networks, next)
    /\ UNCHANGED <<phase, ipsDone>>

SplitNext(next) ==
    /\ Turn
    /\ ~Apart(next) /\ Inside(next) /\ ~Agree(next)
    /\ LET half == split(next)
           q == AddMissing(BagRemove(networks, next), half[2])
       IN  networks' = IF Last(half[1]) = Last(currentNet) THEN q ELSE AddMissing(q, half[1])
    /\ UNCHANGED <<phase, currentNet, ipsDone>>

NextInsideKept(next) ==
    /\ Turn
    /\ ~Apart(next) /\ ~Inside(next) /\ Agree(next)
    /\ UNCHANGED <<networks, phase, currentNet, ipsDone>>

SplitCurrentKeepingBoth(next) ==
    /\ Turn
    /\ ~Apart(next) /\ ~Inside(next) /\ ~Agree(next)
    /\ LET half == split(currentNet)
       IN  /\ currentNet' = half[1]
           /\ networks' = BagAdd(networks, half[2])
    /\ UNCHANGED <<phase, ipsDone>>

NextInside(next) ==
    /\ Turn
    /\ ~Apart(next) /\ ~Inside(next) /\ Agree(next)
    /\ networks' = BagRemove(networks, next)
    /\ UNCHANGED <<phase, currentNet, ipsDone>>

SplitCurrent(next) ==
    /\ Turn
    /\ ~Apart(next) /\ ~Inside(next) /\ ~Agree(next)
    /\ LET half == split(currentNet)
       IN  /\ currentNet' = half[1]
           /\ networks' = IF half[2].networkMask = next.networkMask
                          THEN networks
                          ELSE BagAdd(networks, half[2])
    /\ UNCHANGED <<phase, ipsDone>>

Loop ==
    \/ LastNet
    \/ \E next \in Least(networks) :
          \/ NextIsApart(next)
          \/ InsideNext(next)
          \/ SplitNext(next)
          \/ NextInside(next)
          \/ SplitCurrent(next)

(* The routes given to Android.                                            *)
getPositiveIPList == {n \in ipsDone : n.included}

-----------------------------------------------------------------------------
Init ==
    /\ mIpAddresses = {}
    /\ phase = "collecting"
    /\ networks = EmptyBag
    /\ currentNet = NoNet
    /\ ipsDone = {}

Next ==
    \/ \E n \in Networks : addIP(n)
    \/ generateIPList
    \/ Loop
    \/ clear

Spec == Init /\ [][Next]_vars
FairSpec == Spec /\ WF_vars(Loop)

-----------------------------------------------------------------------------
Within(n, m) == Addresses(n) \subseteq Addresses(m) /\ ~Same(n, m)

(* The upper half of a network that is split is put back into the queue    *)
(* without a look at what is there.  If that half was named on its own,    *)
(* with the other decision, the half meets itself: a smaller network that  *)
(* comes before it has made the loop split what is around both.            *)
MeetsItself(n) ==
    LET size == 2^Bits(n)
    IN  /\ (n.first \div size) % 2 = 1
        /\ \E outer \in mIpAddresses : outer.included # n.included /\ Within(n, outer)
        /\ \E inner \in mIpAddresses :
              /\ inner.networkMask > n.networkMask
              /\ inner.first \in (n.first - size)..n.first

(* A network inside one that starts at the same address comes before it,   *)
(* and is dropped if it agrees with a network around both.                 *)
ComesTooEarly(n) ==
    \E around, outer \in mIpAddresses :
        /\ Within(n, around) /\ Within(around, outer)
        /\ n.first = around.first
        /\ n.included = outer.included /\ n.included # around.included

(* The inputs generateIPList() does not treat as it should.                *)
Irregular == \E n \in mIpAddresses : MeetsItself(n) \/ ComesTooEarly(n)

(* The routes are the addresses whose most specific network belongs to the *)
(* VPN, however networks overlap and in whatever order the queue offers    *)
(* equal ones.                                                             *)
RoutesAreDecided ==
    phase = "generated" /\ ~Irregular =>
        Routed(getPositiveIPList) = {a \in 0..2^WIDTH - 1 : Decided(mIpAddresses, a)}

(* No address is in two networks of the result, so that none can be both   *)
(* routed and excluded.                                                    *)
DoneIsDisjoint ==
    \A n, m \in ipsDone : n # m => Addresses(n) \cap Addresses(m) = {}

(* The loop ends, although it puts back more networks than it takes.       *)
LoopEnds == phase = "generating" ~> phase = "generated"

(* The assertions of split() and of the loop: the halves have the          *)
(* addresses of the whole, the next network is inside the current one if   *)
(* it is not around it, and halves of the same size are the same.          *)
Halved(n) == Last(split(n)[2]) = Last(n)

Asserted(next) ==
    ~Apart(next) =>
        /\ Inside(next) /\ ~Agree(next) =>
              LET half == split(next)[1]
              IN  /\ Halved(next)
                  /\ Last(half) = Last(currentNet) => half.networkMask = currentNet.networkMask
        /\ ~Inside(next) =>
              /\ currentNet.networkMask < next.networkMask
              /\ next.first > currentNet.first
              /\ Last(currentNet) >= Last(next)
        /\ ~Inside(next) /\ ~Agree(next) =>
              LET half == split(currentNet)[2]
              IN  /\ Halved(currentNet)
                  /\ half.networkMask = next.networkMask => Same(half, next)

AssertionsHold == phase = "generating" => \A next \in Least(networks) : Asserted(next)

(* A debug build, which stops where an assertion fails, ends the loop with *)
(* a result for every regular input.                                       *)
RegularIsAsserted == ~Irregular => AssertionsHold
-----------------------------------------------------------------------------
(* The inductive invariant behind TypeOK and DoneIsDisjoint.               *)

(* A network ends where the addresses end; what comes of splitting a       *)
(* single address may be one beyond.                                       *)
Fits(n) == n.networkMask <= WIDTH => n.first + 2^Bits(n) <= 2^WIDTH

Beyond(n) == n.networkMask = WIDTH + 1

NamedInv == \A n \in mIpAddresses : n.networkMask <= WIDTH /\ Fits(n)

PhaseInv ==
    /\ phase = "collecting" => ipsDone = {}
    /\ phase # "generating" => networks = EmptyBag
    /\ phase = "generating" => currentNet \in Net /\ Fits(currentNet)

(* The loop moves up: what is done is below the current network, what is   *)
(* in the queue is not.                                                    *)
UpInv ==
    phase = "generating" =>
        /\ \A d \in ipsDone : Last(d) < currentNet.first
        /\ \A q \in BagToSet(networks) : currentNet.first <= q.first

(* Halves of a single address are in the queue once, ahead of the current  *)
(* network, so that none of them is split again.                           *)
HalvesInv ==
    \A q \in BagToSet(networks) :
        /\ Fits(q)
        /\ Beyond(q) =>
              /\ networks[q] = 1
              /\ currentNet.first < q.first
              /\ \A r \in BagToSet(networks) : Same(q, r) => r = q

DoneInv == \A d, e \in ipsDone : d = e \/ Last(d) < e.first \/ Last(e) < d.first

SpaceInv == TypeOK /\ NamedInv /\ PhaseInv /\ UpInv /\ HalvesInv /\ DoneInv

-----------------------------------------------------------------------------
(* The inductive invariant behind RoutesAreDecided and RegularIsAsserted,  *)
(* for regular inputs.                                                     *)

NamedDiffer ==
    mIpAddresses \subseteq Networks /\ \A n, m \in mIpAddresses : Same(n, m) => n = m

(* What the loop has not done yet.                                         *)
Queued == BagToSet(networks)
Pieces == Queued \cup {currentNet}

(* Part of a named network that says the same.                             *)
PartOf(p, n) == Addresses(p) \subseteq Addresses(n) /\ p.included = n.included

PiecesArePart ==
    Pieces \subseteq Networks /\ \A p \in Pieces : \E n \in mIpAddresses : PartOf(p, n)

PiecesDiffer == \A p, q \in Pieces : Same(p, q) => p = q

CurrentIsSmallest ==
    \A q \in Queued : q.first = currentNet.first => q.networkMask <= currentNet.networkMask

(* What is ahead and was not named is the upper half of what was split at  *)
(* the current address or before.                                          *)
Upper(q) == (q.first \div 2^Bits(q)) % 2 = 1

AheadAreHalves ==
    \A q \in Queued \ mIpAddresses :
        currentNet.first < q.first => Upper(q) /\ q.first <= currentNet.first + 2^Bits(q)

(* What disagrees inside the current network was named.                    *)
DisagreeingAreNamed ==
    \A q \in Queued :
        currentNet.first < q.first /\ q.first <= Last(currentNet) /\ ~Agree(q)
            => q \in mIpAddresses

(* Networks at the current address that agree come before those that do    *)
(* not, and nothing around an upper half that disagrees agrees.            *)
AgreeingComeFirst ==
    \A c \in Queued :
        c.first = currentNet.first /\ Agree(c) =>
            \A q \in Queued :
                ~Agree(q) /\ c.networkMask < q.networkMask =>
                    /\ q.first # currentNet.first
                    /\ q.first = currentNet.first + 2^Bits(q) => q \in mIpAddresses

(* The most specific piece decides as the most specific of the named       *)
(* networks does, and what is done as well.                                *)
DecidedAlike ==
    \A a \in 0..2^WIDTH - 1 :
        Decided(mIpAddresses, a) <=>
            IF a < currentNet.first THEN a \in Routed(getPositiveIPList) ELSE Decided(Pieces, a)

RegularParts ==
    /\ PiecesArePart /\ PiecesDiffer /\ CurrentIsSmallest
    /\ AheadAreHalves /\ DisagreeingAreNamed /\ AgreeingComeFirst
    /\ DecidedAlike

RegularInv == phase = "generating" /\ ~Irregular => RegularParts

DecidedInv == NamedDiffer /\ RegularInv /\ RoutesAreDecided
=============================================================================

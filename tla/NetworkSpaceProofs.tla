--------------------------- MODULE NetworkSpaceProofs ---------------------------
(* Proofs about NetworkSpace: its networks stay within the addresses, no   *)
(* two that generateIPList() is done with share one, and for regular       *)
(* inputs the routes are the addresses whose most specific network belongs *)
(* to the VPN.                                                             *)
EXTENDS NetworkSpace, Induction, TLAPS

-----------------------------------------------------------------------------
(* The queue.                                                              *)

(* BagAdd() adds one copy and touches no other element.                    *)
LEMMA Added ==
    ASSUME NEW B, IsABag(B), NEW x
    PROVE  /\ IsABag(BagAdd(B, x))
           /\ BagToSet(BagAdd(B, x)) = BagToSet(B) \cup {x}
           /\ \A y \in BagToSet(B) : y # x => BagAdd(B, x)[y] = B[y]
           /\ x \notin BagToSet(B) => BagAdd(B, x)[x] = 1
  BY DEF IsABag, BagToSet, BagAdd

(* BagRemove() takes off one copy, which may be the only one.              *)
LEMMA Removed ==
    ASSUME NEW B, IsABag(B), NEW x \in BagToSet(B)
    PROVE  /\ IsABag(BagRemove(B, x))
           /\ BagToSet(BagRemove(B, x)) \subseteq BagToSet(B)
           /\ B[x] = 1 => x \notin BagToSet(BagRemove(B, x))
           /\ \A y \in BagToSet(BagRemove(B, x)) : B[y] = 1 => BagRemove(B, x)[y] = 1
<1>1. B \in [DOMAIN B -> {n \in Nat : n > 0}] /\ x \in DOMAIN B
  BY DEF IsABag, BagToSet
<1>2. CASE B[x] = 1
  <2>1. BagRemove(B, x) = [e \in DOMAIN B \ {x} |-> B[e]]
    BY <1>1, <1>2 DEF BagRemove
  <2> QED BY <1>1, <1>2, <2>1 DEF IsABag, BagToSet
<1>3. CASE B[x] # 1
  <2>1. BagRemove(B, x) = [e \in DOMAIN B |-> IF e = x THEN B[e] - 1 ELSE B[e]]
    BY <1>1, <1>3 DEF BagRemove
  <2>2. B[x] - 1 \in {n \in Nat : n > 0}
    BY <1>1, <1>3
  <2>3. \A e \in DOMAIN B : (IF e = x THEN B[e] - 1 ELSE B[e]) \in {n \in Nat : n > 0}
    BY <1>1, <2>2
  <2> QED BY <1>1, <1>3, <2>1, <2>3 DEF IsABag, BagToSet
<1> QED BY <1>2, <1>3

(* AddMissing() adds a network or leaves the queue, in which there is one  *)
(* that compares as equal.                                                 *)
LEMMA AddedMissing ==
    ASSUME NEW B, IsABag(B), NEW x
    PROVE  \/ AddMissing(B, x) = B
           \/ /\ \A m \in BagToSet(B) : ~Same(m, x)
              /\ AddMissing(B, x) = BagAdd(B, x)
  BY DEF AddMissing

(* The queue of a new computation has nothing in it.                       *)
LEMMA Empty == IsABag(EmptyBag) /\ BagToSet(EmptyBag) = {}
  BY DEF IsABag, BagToSet, EmptyBag, SetToBag

-----------------------------------------------------------------------------
(* Addresses.                                                              *)

(* The larger of two powers of two is a multiple of the smaller.           *)
LEMMA Powers ==
    ASSUME NEW n \in 0..WIDTH
    PROVE  /\ 2^n \in Nat \ {0} /\ 2^(WIDTH - n) \in Nat \ {0}
           /\ 2^WIDTH = 2^(WIDTH - n) * 2^n
<1> DEFINE T == {k \in Nat : k <= WIDTH => 2^WIDTH = 2^(WIDTH - k) * 2^k}
<1>1. WIDTH \in Nat
  BY SpaceAssumption
<1>2. 0 \in T
  <2>1. 2^0 = 1 /\ WIDTH - 0 = WIDTH /\ 2^WIDTH \in Nat
    BY <1>1, PowersAssumption
  <2> QED BY <2>1
<1>3. ASSUME NEW k \in T PROVE k + 1 \in T
  <2>1. SUFFICES ASSUME k + 1 <= WIDTH PROVE 2^WIDTH = 2^(WIDTH - (k + 1)) * 2^(k + 1)
    BY <1>1
  <2> DEFINE j == WIDTH - (k + 1)
             a == 2^j
             b == 2^k
  <2>2. k \in 0..WIDTH /\ j \in 0..WIDTH /\ WIDTH - k = j + 1
    BY <1>1, <2>1
  <2>3. 2^(j + 1) = 2 * a /\ 2^(k + 1) = 2 * b /\ a \in Nat /\ b \in Nat
    BY <2>2, PowersAssumption
  <2>4. 2^WIDTH = 2^(j + 1) * b
    BY <1>1, <2>1, <2>2
  <2> HIDE DEF a, b
  <2>5. (2 * a) * b = a * (2 * b)
    BY <2>3
  <2>6. 2^WIDTH = a * 2^(k + 1)
    BY <2>3, <2>4, <2>5
  <2> QED BY <2>6 DEF a
<1>4. T = Nat
  <2>1. T \in SUBSET Nat
    OBVIOUS
  <2> HIDE DEF T
  <2> QED BY <1>2, <1>3, <2>1, NatInduct
<1>5. n \in T
  <2> HIDE DEF T
  <2> QED BY <1>1, <1>4
<1>6. 2^WIDTH = 2^(WIDTH - n) * 2^n
  BY <1>1, <1>5
<1>7. n \in 0..WIDTH /\ WIDTH - n \in 0..WIDTH
  BY <1>1
<1> QED BY <1>6, <1>7, PowersAssumption

(* A multiple of s below another one is at least s below it.               *)
LEMMA Multiples ==
    ASSUME NEW s \in Nat \ {0}, NEW t \in Nat, NEW f \in Nat, f % s = 0, f < t * s
    PROVE  f + s <= t * s
<1> DEFINE p == f \div s
<1>1. p \in Nat /\ f = s * p
  OBVIOUS
<1>2. p < t
  <2>1. SUFFICES ASSUME t <= p PROVE FALSE
    BY <1>1
  <2>2. t * s <= p * s
    BY <1>1, <2>1
  <2> QED BY <1>1, <2>2
<1> HIDE DEF p
<1>3. p + 1 <= t
  BY <1>1, <1>2
<1>4. (p + 1) * s <= t * s
  BY <1>1, <1>3
<1> QED BY <1>1, <1>4

(* The networks that can be named are networks, and end in time.           *)
LEMMA NamedFit == \A n \in Networks : n \in Net /\ n.networkMask <= WIDTH /\ Fits(n)
<1> SUFFICES ASSUME NEW n \in Networks PROVE n \in Net /\ n.networkMask <= WIDTH /\ Fits(n)
  OBVIOUS
<1>1. /\ n \in [first: 0..2^WIDTH - 1, networkMask: 0..WIDTH, included: BOOLEAN]
      /\ n.first % 2^Bits(n) = 0
  BY DEF Networks
<1> DEFINE b == Bits(n)
           s == 2^b
           t == 2^(WIDTH - b)
           w == 2^WIDTH
<1>2. b \in 0..WIDTH /\ WIDTH \in 0..WIDTH /\ WIDTH - b \in 0..WIDTH
  BY <1>1, SpaceAssumption DEF Bits
<1>3. /\ s \in Nat \ {0} /\ t \in Nat /\ w \in Nat
      /\ w = t * s
  BY <1>2, Powers
<1>4. n.first \in Nat /\ n.first % s = 0 /\ n.first < w
  BY <1>1, <1>3
<1> HIDE DEF b, s, t, w
<1>5. n.first + s <= w
  BY <1>3, <1>4, Multiples
<1>6. Fits(n)
  BY <1>5 DEF Fits, b, s, w
<1>7. n \in Net
  BY <1>1, <1>3, SpaceAssumption DEF Net, w
<1> QED BY <1>1, <1>6, <1>7

(* The addresses of a network are as many as its size, one at least.       *)
LEMMA Ends ==
    ASSUME NEW n \in Net
    PROVE  /\ n.first \in Nat /\ n.networkMask \in Nat
           /\ 2^Bits(n) \in Nat \ {0} /\ 2^WIDTH \in Nat
           /\ Last(n) = n.first + 2^Bits(n) - 1
           /\ Last(n) \in Nat /\ n.first <= Last(n)
<1>1. n.networkMask \in 0..WIDTH + 1 /\ n.first \in 0..2^WIDTH
  BY DEF Net
<1>2. Bits(n) \in 0..WIDTH /\ WIDTH \in 0..WIDTH
  BY <1>1, SpaceAssumption DEF Bits
<1>3. 2^Bits(n) \in Nat \ {0} /\ 2^WIDTH \in Nat
  BY <1>2, PowersAssumption
<1>4. n.first \in Nat /\ n.networkMask \in Nat
  BY <1>1, <1>3, SpaceAssumption
<1> HIDE DEF Net
<1>5. Last(n) = n.first + 2^Bits(n) - 1
  BY DEF Last
<1> QED BY <1>3, <1>4, <1>5

(* What split() returns: the same start, a later one, and only of a single *)
(* address halves that are beyond the smallest network.                    *)
LEMMA Halves ==
    ASSUME NEW n \in Net, n.networkMask <= WIDTH, Fits(n)
    PROVE  /\ \A i \in {1, 2} :
                 /\ split(n)[i] \in Net /\ Fits(split(n)[i])
                 /\ split(n)[i].networkMask = n.networkMask + 1
           /\ split(n)[1].first = n.first
           /\ n.first < split(n)[2].first
<1> DEFINE w == 2^WIDTH
           b == Bits(n)
           half == [n EXCEPT !.networkMask = @ + 1]
           other == [half EXCEPT !.first = Last(half) + 1]
           s == 2^Bits(half)
<1>1. /\ n.networkMask \in 0..WIDTH /\ n.first \in Nat /\ w \in Nat
      /\ 2^b \in Nat \ {0} /\ n.first + 2^b <= w
      /\ n.first \in 0..w /\ n.included \in BOOLEAN
      /\ WIDTH \in Nat
  BY Ends, SpaceAssumption DEF Net, Fits
<1>2. split(n) = <<half, other>>
  BY DEF split
<1>3. /\ half = [first |-> n.first, networkMask |-> n.networkMask + 1, included |-> n.included]
      /\ half \in Net
  BY <1>1 DEF Net
<1>4. s \in Nat \ {0} /\ Last(half) = n.first + s - 1
  BY <1>3, Ends
<1>5. /\ other.first = n.first + s
      /\ other.networkMask = n.networkMask + 1
      /\ other.included = n.included
      /\ DOMAIN other = {"first", "networkMask", "included"}
      /\ Bits(other) = Bits(half)
  <2>1. Last(half) + 1 = n.first + s
    <3> HIDE DEF s, half
    <3> QED BY <1>1, <1>4
  <2> QED BY <1>3, <2>1 DEF Bits
<1>6. CASE n.networkMask < WIDTH
  <2>1. /\ b = WIDTH - n.networkMask
        /\ Bits(half) = b - 1 /\ b - 1 \in 0..WIDTH
        /\ b = (b - 1) + 1
    BY <1>1, <1>3, <1>6 DEF Bits
  <2>2. 2^((b - 1) + 1) = 2 * 2^(b - 1)
    BY <2>1, PowersAssumption
  <2>3. 2^b = 2 * s
    BY <2>1, <2>2
  <2> HIDE DEF w, s
  <2>4. /\ n.first + s + s <= w
        /\ n.first + s \in 0..w /\ n.first + s <= w /\ n.first < n.first + s
    BY <1>1, <1>4, <2>3
  <2>5. Fits(half) /\ Fits(other)
    BY <1>3, <1>5, <2>4 DEF Fits, w, s
  <2>6. other \in Net
    BY <1>1, <1>3, <1>4, <1>5, <2>4 DEF Net, w
  <2> HIDE DEF other, half
  <2> QED BY <1>2, <1>3, <1>5, <2>4, <2>5, <2>6
<1>7. CASE n.networkMask = WIDTH
  <2>1. b = 0 /\ Bits(half) = 0
    BY <1>1, <1>3, <1>7 DEF Bits
  <2>2. s = 2^b
    BY <2>1
  <2> HIDE DEF w, s
  <2>3. n.first + s \in 0..w /\ n.first < n.first + s
    BY <1>1, <1>4, <2>2
  <2>4. Fits(half) /\ Fits(other)
    BY <1>1, <1>3, <1>5, <1>7 DEF Fits
  <2>5. other \in Net
    BY <1>1, <1>3, <1>4, <1>5, <2>3 DEF Net, w
  <2> HIDE DEF other, half
  <2> QED BY <1>2, <1>3, <1>5, <2>3, <2>4, <2>5
<1> QED BY <1>1, <1>6, <1>7

-----------------------------------------------------------------------------
(* The queue above an address.                                             *)

QueueOf(B, f) ==
    /\ IsABag(B)
    /\ BagToSet(B) \subseteq Net
    /\ \A q \in BagToSet(B) :
          /\ f <= q.first
          /\ Fits(q)
          /\ Beyond(q) =>
                /\ B[q] = 1
                /\ f < q.first
                /\ \A r \in BagToSet(B) : Same(q, r) => r = q

(* What SpaceInv says of the queue is QueueOf at the current address.      *)
LEMMA QueueSame ==
    ASSUME NEW B, NEW f, B = networks, phase = "generating", f = currentNet.first
    PROVE  SpaceInv => QueueOf(B, f)
  BY DEF SpaceInv, TypeOK, UpInv, HalvesInv, QueueOf

(* Taking a network out keeps QueueOf.                                     *)
LEMMA QueueRemoved ==
    ASSUME NEW B, NEW f \in Nat, QueueOf(B, f), NEW x \in BagToSet(B)
    PROVE  QueueOf(BagRemove(B, x), f)
  BY Removed DEF QueueOf

(* What no other network of the queue precedes is the start of the rest.   *)
LEMMA QueueNext ==
    ASSUME NEW B, NEW f \in Nat, QueueOf(B, f), NEW next \in Least(B)
    PROVE  /\ next \in BagToSet(B) /\ next \in Net /\ Fits(next)
           /\ f <= next.first /\ (Beyond(next) => f < next.first)
           /\ QueueOf(BagRemove(B, next), next.first)
<1> DEFINE R == BagRemove(B, next)
<1>1. /\ next \in BagToSet(B) /\ next \in Net
      /\ \A m \in BagToSet(B) : ~Before(m, next)
  BY DEF Least, QueueOf
<1>2. /\ Fits(next) /\ f <= next.first /\ (Beyond(next) => f < next.first)
      /\ QueueOf(R, f)
  BY <1>1, QueueRemoved DEF QueueOf
<1>3. IsABag(B) /\ BagToSet(R) \subseteq BagToSet(B)
  BY <1>1, Removed DEF QueueOf
<1>4. ASSUME NEW q \in BagToSet(R)
      PROVE  next.first <= q.first /\ (Beyond(q) => next.first < q.first)
  <2>1. q \in BagToSet(B) /\ q \in Net
    BY <1>2, <1>3 DEF QueueOf
  <2>2. /\ next.first \in Nat /\ q.first \in Nat
        /\ next.networkMask \in Nat /\ q.networkMask \in Nat
        /\ next.networkMask <= WIDTH + 1 /\ WIDTH \in Nat
    BY <1>1, <2>1, Ends, SpaceAssumption DEF Net
  <2>3. next.first <= q.first /\ (next.first = q.first => q.networkMask <= next.networkMask)
    BY <1>1, <2>1, <2>2 DEF Before
  <2>4. SUFFICES ASSUME Beyond(q), next.first = q.first PROVE FALSE
    BY <2>2, <2>3
  <2>5. Same(q, next)
    BY <2>2, <2>3, <2>4 DEF Same, Beyond
  <2>6. next = q /\ B[q] = 1
    BY <1>1, <2>1, <2>4, <2>5 DEF QueueOf
  <2> QED BY <1>1, <1>3, <2>6, Removed
<1>5. QueueOf(R, next.first)
  BY <1>2, <1>4 DEF QueueOf
<1> QED BY <1>1, <1>2, <1>5

(* So does putting back one that is within the addresses.                  *)
LEMMA QueueAdded ==
    ASSUME NEW B, NEW f \in Nat, QueueOf(B, f),
           NEW x \in Net, Fits(x), ~Beyond(x), f <= x.first
    PROVE  QueueOf(BagAdd(B, x), f)
<1> DEFINE A == BagAdd(B, x)
<1>1. /\ IsABag(A)
      /\ BagToSet(A) = BagToSet(B) \cup {x}
      /\ \A y \in BagToSet(B) : y # x => A[y] = B[y]
  BY Added DEF QueueOf
<1>2. \A q \in BagToSet(A) : Beyond(q) => q \in BagToSet(B) /\ q # x /\ ~Same(q, x)
  BY <1>1 DEF Beyond, Same
<1> HIDE DEF A
<1>3. QueueOf(A, f)
  BY <1>1, <1>2 DEF QueueOf
<1> QED BY <1>3 DEF A

(* So does adding a half that is not there yet, if it is ahead.            *)
LEMMA QueueAddedMissing ==
    ASSUME NEW B, NEW f \in Nat, QueueOf(B, f),
           NEW x \in Net, Fits(x), f <= x.first, Beyond(x) => f < x.first
    PROVE  QueueOf(AddMissing(B, x), f)
<1> SUFFICES ASSUME \A m \in BagToSet(B) : ~Same(m, x)
             PROVE  QueueOf(BagAdd(B, x), f)
  BY AddedMissing DEF QueueOf
<1> DEFINE A == BagAdd(B, x)
<1>1. x \notin BagToSet(B)
  BY DEF Same
<1>2. /\ IsABag(A)
      /\ BagToSet(A) = BagToSet(B) \cup {x}
      /\ \A y \in BagToSet(B) : A[y] = B[y]
      /\ A[x] = 1
  BY <1>1, Added DEF QueueOf
<1>3. \A q \in BagToSet(B) : ~Same(q, x) /\ ~Same(x, q)
  BY DEF Same
<1> HIDE DEF A
<1>4. QueueOf(A, f)
  BY <1>2, <1>3 DEF QueueOf
<1> QED BY <1>4 DEF A

-----------------------------------------------------------------------------
(* The invariant.                                                          *)

(* A turn of the loop that is not done with a network yet.                 *)
LEMMA TurnKeeps ==
    ASSUME SpaceInv, Turn, UNCHANGED <<phase, ipsDone>>,
           currentNet' \in Net, Fits(currentNet'),
           currentNet'.first = currentNet.first,
           QueueOf(networks', currentNet.first)
    PROVE  SpaceInv'
<1>1. TypeOK'
  BY DEF SpaceInv, TypeOK, Turn, QueueOf
<1>2. NamedInv' /\ DoneInv'
  BY DEF SpaceInv, NamedInv, DoneInv, Turn
<1>3. PhaseInv'
  BY DEF SpaceInv, PhaseInv, Turn
<1>4. UpInv' /\ HalvesInv'
  BY DEF SpaceInv, UpInv, HalvesInv, Turn, QueueOf
<1> QED BY <1>1, <1>2, <1>3, <1>4 DEF SpaceInv

(* The current network is done: all that is done is below the next one.    *)
LEMMA DoneKeeps ==
    ASSUME SpaceInv, phase = "generating"
    PROVE  LET done == Insert(ipsDone, currentNet)
           IN  /\ done \subseteq Net
               /\ \A d \in done : d = currentNet \/ Last(d) < currentNet.first
               /\ \A d, e \in done : d = e \/ Last(d) < e.first \/ Last(e) < d.first
<1>1. /\ currentNet \in Net /\ ipsDone \subseteq Net
      /\ \A d \in ipsDone : Last(d) < currentNet.first
      /\ DoneInv
  BY DEF SpaceInv, TypeOK, PhaseInv, UpInv
<1>2. Insert(ipsDone, currentNet) \subseteq ipsDone \cup {currentNet}
  BY DEF Insert
<1> QED BY <1>1, <1>2 DEF DoneInv

(* The service starts with no networks.                                    *)
LEMMA SpaceInit == Init => SpaceInv
<1> SUFFICES ASSUME Init PROVE SpaceInv
  OBVIOUS
<1>1. TypeOK
  BY Empty DEF Init, TypeOK
<1>2. HalvesInv
  BY Empty DEF Init, HalvesInv
<1> QED BY <1>1, <1>2 DEF Init, SpaceInv, NamedInv, PhaseInv, UpInv, DoneInv

(* Every step keeps SpaceInv.                                              *)
LEMMA SpaceStep == SpaceInv /\ [Next]_vars => SpaceInv'
<1> SUFFICES ASSUME SpaceInv, [Next]_vars PROVE SpaceInv'
  OBVIOUS
<1>1. CASE UNCHANGED vars
  BY <1>1 DEF vars, SpaceInv, TypeOK, NamedInv, PhaseInv, UpInv, HalvesInv, DoneInv
<1>2. ASSUME NEW n \in Networks, addIP(n) PROVE SpaceInv'
  <2>1. mIpAddresses' \subseteq mIpAddresses \cup {n}
    BY <1>2 DEF addIP, Insert
  <2>2. n \in Net /\ n.networkMask <= WIDTH /\ Fits(n)
    BY NamedFit
  <2> QED BY <1>2, <2>1, <2>2 DEF addIP, SpaceInv, TypeOK, NamedInv, PhaseInv, UpInv, HalvesInv, DoneInv
<1>3. CASE clear
  <2>1. BagToSet(networks) = {} /\ networks' = networks
    BY <1>3, Empty DEF clear, SpaceInv, PhaseInv
  <2> QED BY <1>3, <2>1 DEF clear, SpaceInv, TypeOK, NamedInv, PhaseInv, UpInv, HalvesInv, DoneInv
<1>4. CASE generateIPList
  <2> DEFINE B == SetToBag(mIpAddresses)
  <2>1. IsABag(B) /\ BagToSet(B) = mIpAddresses
    BY DEF IsABag, BagToSet, SetToBag
  <2>2. /\ phase = "collecting" /\ mIpAddresses' = mIpAddresses
        /\ ipsDone = {} /\ ipsDone' = {} /\ networks = EmptyBag
    BY <1>4 DEF generateIPList, SpaceInv, PhaseInv
  <2>3. CASE B = EmptyBag
    <3>1. phase' = "generated" /\ UNCHANGED <<networks, currentNet>>
      BY <1>4, <2>3 DEF generateIPList
    <3> QED BY <2>2, <3>1 DEF SpaceInv, TypeOK, NamedInv, PhaseInv, UpInv, HalvesInv, DoneInv
  <2>4. CASE B # EmptyBag
    <3>1. /\ phase' = "generating" /\ currentNet' \in Least(B)
          /\ networks' = BagRemove(B, currentNet')
      BY <1>4, <2>4 DEF generateIPList
    <3>2. QueueOf(B, 0)
      <4>1. \A q \in BagToSet(B) : q \in Net /\ Fits(q) /\ ~Beyond(q) /\ 0 <= q.first
        BY <2>1, Ends, SpaceAssumption DEF SpaceInv, TypeOK, NamedInv, Beyond
      <4> HIDE DEF B
      <4> QED BY <2>1, <4>1 DEF QueueOf
    <3> HIDE DEF B
    <3>3. /\ currentNet' \in Net /\ Fits(currentNet')
          /\ QueueOf(networks', currentNet'.first)
      BY <3>1, <3>2, QueueNext
    <3>4. TypeOK'
      BY <2>2, <3>1, <3>3 DEF SpaceInv, TypeOK, QueueOf
    <3>5. NamedInv' /\ DoneInv'
      BY <2>2 DEF SpaceInv, NamedInv, DoneInv
    <3>6. PhaseInv' /\ UpInv' /\ HalvesInv'
      BY <2>2, <3>1, <3>3 DEF PhaseInv, UpInv, HalvesInv, QueueOf
    <3> QED BY <3>4, <3>5, <3>6 DEF SpaceInv
  <2> QED BY <2>3, <2>4
<1>5. CASE LastNet
  <2>1. /\ phase = "generating" /\ phase' = "generated"
        /\ networks = EmptyBag /\ networks' = networks
        /\ mIpAddresses' = mIpAddresses
        /\ ipsDone' = Insert(ipsDone, currentNet) /\ currentNet' = NoNet
    BY <1>5 DEF LastNet, Turn
  <2>2. TypeOK' /\ DoneInv'
    BY <2>1, DoneKeeps DEF SpaceInv, TypeOK, DoneInv
  <2>3. NamedInv' /\ PhaseInv' /\ UpInv' /\ HalvesInv'
    BY <2>1, Empty DEF SpaceInv, NamedInv, PhaseInv, UpInv, HalvesInv
  <2> QED BY <2>2, <2>3 DEF SpaceInv
<1>6. ASSUME NEW next \in Least(networks), Turn,
             \/ NextIsApart(next)
             \/ InsideNext(next)
             \/ SplitNext(next)
             \/ NextInside(next)
             \/ SplitCurrent(next)
      PROVE  SpaceInv'
  <2> DEFINE f == currentNet.first
  <2>1. /\ phase = "generating" /\ mIpAddresses' = mIpAddresses
        /\ currentNet \in Net /\ Fits(currentNet) /\ f \in Nat
    BY <1>6, Ends DEF Turn, SpaceInv, PhaseInv
  <2>2. QueueOf(networks, f)
    BY <2>1, QueueSame
  <2>3. /\ next \in BagToSet(networks) /\ next \in Net /\ Fits(next)
        /\ f <= next.first /\ (Beyond(next) => f < next.first)
        /\ QueueOf(BagRemove(networks, next), next.first)
        /\ next.first \in Nat
    BY <2>1, <2>2, QueueNext, Ends
  <2>4. QueueOf(BagRemove(networks, next), f)
    BY <2>1, <2>2, <2>3, QueueRemoved
  <2>5. /\ currentNet.networkMask \in 0..WIDTH + 1 /\ WIDTH \in Nat
        /\ next.networkMask \in 0..WIDTH + 1
        /\ Last(currentNet) = f + 2^Bits(currentNet) - 1
        /\ 2^Bits(currentNet) \in Nat \ {0} /\ 2^Bits(next) \in Nat \ {0}
    BY <2>1, <2>3, Ends, SpaceAssumption DEF Net
  <2> HIDE DEF f
  <2>6. CASE NextIsApart(next)
    <3>1. /\ Last(currentNet) < next.first
          /\ ipsDone' = Insert(ipsDone, currentNet)
          /\ currentNet' = next
          /\ networks' = BagRemove(networks, next)
          /\ phase' = phase
      BY <2>6 DEF NextIsApart, Apart
    <3>2. TypeOK' /\ DoneInv'
      BY <2>1, <2>3, <3>1, DoneKeeps DEF SpaceInv, TypeOK, DoneInv, QueueOf
    <3>3. NamedInv' /\ PhaseInv' /\ HalvesInv'
      BY <2>1, <2>3, <3>1 DEF SpaceInv, NamedInv, PhaseInv, HalvesInv, QueueOf
    <3>4. UpInv'
      <4>1. \A d \in ipsDone' : Last(d) \in Nat /\ (d = currentNet \/ Last(d) < f)
        BY <2>1, <3>1, DoneKeeps, Ends DEF f
      <4>2. \A d \in ipsDone' : Last(d) < next.first
        BY <2>1, <2>3, <3>1, <4>1
      <4> QED BY <2>3, <3>1, <4>2 DEF UpInv, QueueOf
    <3> QED BY <3>2, <3>3, <3>4 DEF SpaceInv
  <2>7. CASE InsideNext(next)
    BY <1>6, <2>1, <2>3, <2>4, <2>7, TurnKeeps DEF InsideNext, Inside, f
  <2>8. CASE NextInside(next)
    BY <1>6, <2>1, <2>4, <2>8, TurnKeeps DEF NextInside, f
  <2>9. CASE SplitNext(next)
    <3> DEFINE half == split(next)
               q == AddMissing(BagRemove(networks, next), half[2])
    <3>1. /\ f = next.first /\ currentNet.networkMask >= next.networkMask
          /\ networks' = IF Last(half[1]) = Last(currentNet) THEN q ELSE AddMissing(q, half[1])
          /\ UNCHANGED <<phase, currentNet, ipsDone>>
      BY <2>9 DEF SplitNext, Inside, f
    <3>2. next.networkMask <= WIDTH
      BY <2>1, <2>3, <2>5, <3>1 DEF Beyond
    <3>3. /\ half[1] \in Net /\ Fits(half[1]) /\ half[2] \in Net /\ Fits(half[2])
          /\ half[1].networkMask = next.networkMask + 1
          /\ half[1].first = f /\ f < half[2].first
          /\ half[1].first \in Nat /\ half[2].first \in Nat
      BY <2>3, <3>1, <3>2, Halves, Ends
    <3>4. QueueOf(q, f)
      BY <2>1, <2>4, <3>3, QueueAddedMissing
    <3>5. Beyond(half[1]) => Last(half[1]) = Last(currentNet)
      <4>1. SUFFICES ASSUME Beyond(half[1]) PROVE Last(half[1]) = Last(currentNet)
        OBVIOUS
      <4>2. half[1].networkMask = WIDTH + 1 /\ currentNet.networkMask >= WIDTH
        BY <2>5, <3>1, <3>2, <3>3, <4>1 DEF Beyond
      <4>3. Bits(half[1]) = 0 /\ Bits(currentNet) = 0
        BY <2>5, <4>2 DEF Bits
      <4> QED BY <3>3, <4>3 DEF Last, f
    <3> HIDE DEF q, half
    <3>6. QueueOf(networks', f)
      BY <2>1, <3>1, <3>3, <3>4, <3>5, QueueAddedMissing
    <3> QED BY <1>6, <2>1, <3>1, <3>6, TurnKeeps DEF f
  <2>10. CASE SplitCurrent(next)
    <3> DEFINE half == split(currentNet)
    <3>1. /\ ~(Last(currentNet) < next.first)
          /\ ~(f = next.first /\ currentNet.networkMask >= next.networkMask)
          /\ currentNet' = half[1]
          /\ networks' \in {networks, BagAdd(networks, half[2])}
          /\ UNCHANGED <<phase, ipsDone>>
      BY <2>10 DEF SplitCurrent, Inside, Apart, f
    <3>2. currentNet.networkMask < WIDTH
      <4>1. SUFFICES ASSUME currentNet.networkMask >= WIDTH PROVE FALSE
        BY <2>5
      <4>2. Bits(currentNet) = 0
        BY <2>5, <4>1 DEF Bits
      <4>3. Last(currentNet) = f
        <5>1. 2^0 = 1
          OBVIOUS
        <5> QED BY <2>1, <2>5, <4>2, <5>1
      <4>4. f = next.first
        BY <2>1, <2>3, <3>1, <4>3
      <4> QED BY <2>1, <2>3, <2>5, <3>1, <4>1, <4>4 DEF Beyond
    <3>3. /\ half[1] \in Net /\ Fits(half[1]) /\ half[2] \in Net /\ Fits(half[2])
          /\ half[2].networkMask = currentNet.networkMask + 1
          /\ half[1].first = f /\ f < half[2].first
          /\ half[2].first \in Nat
      BY <2>1, <2>5, <3>2, Halves, Ends DEF f
    <3>4. ~Beyond(half[2])
      BY <2>5, <3>2, <3>3 DEF Beyond
    <3> HIDE DEF half
    <3>5. QueueOf(networks', f)
      BY <2>1, <2>2, <3>1, <3>3, <3>4, QueueAdded
    <3> QED BY <1>6, <2>1, <3>1, <3>3, <3>5, TurnKeeps DEF f
  <2> QED BY <1>6, <2>6, <2>7, <2>8, <2>9, <2>10
<1>7. ASSUME NEW next \in Least(networks),
             \/ NextIsApart(next)
             \/ InsideNext(next)
             \/ SplitNext(next)
             \/ NextInside(next)
             \/ SplitCurrent(next)
      PROVE  Turn
  BY <1>7 DEF NextIsApart, InsideNext, SplitNext, NextInside, SplitCurrent
<1> QED BY <1>1, <1>2, <1>3, <1>4, <1>5, <1>6, <1>7 DEF Next, Loop

-----------------------------------------------------------------------------
(* Whatever is named, the networks end where the addresses end, the loop   *)
(* moves up, and a single address is split once at most.                   *)
THEOREM SpaceInvariance == Spec => []SpaceInv
  BY SpaceInit, SpaceStep, PTL DEF Spec

(* Every network has a first address and a size, the halves of a single    *)
(* address that split() returns included.                                  *)
THEOREM SpaceTypeCorrect == Spec => []TypeOK
<1>1. SpaceInv => TypeOK
  BY DEF SpaceInv
<1> QED BY <1>1, SpaceInvariance, PTL

(* No address is in two networks of generateIPList(), whatever networks    *)
(* were named, however they overlap and whatever the queue offers first.   *)
THEOREM DisjointTheorem == Spec => []DoneIsDisjoint
<1>1. SpaceInv => DoneIsDisjoint
  <2> SUFFICES ASSUME SpaceInv, NEW n \in ipsDone, NEW m \in ipsDone, n # m
               PROVE  Addresses(n) \cap Addresses(m) = {}
    BY DEF DoneIsDisjoint
  <2>1. /\ n.first \in Nat /\ Last(n) \in Nat /\ m.first \in Nat /\ Last(m) \in Nat
        /\ Last(n) < m.first \/ Last(m) < n.first
    BY Ends DEF SpaceInv, TypeOK, DoneInv
  <2>2. Addresses(n) = n.first..Last(n) /\ Addresses(m) = m.first..Last(m)
    BY DEF Addresses
  <2> QED BY <2>1, <2>2
<1> QED BY <1>1, SpaceInvariance, PTL

-----------------------------------------------------------------------------
(* Networks, as trees: of two that share an address one is inside the     *)
(* other.                                                                  *)

(* The larger of two powers of two is a multiple of the smaller, and, if   *)
(* they differ, of twice the smaller.                                      *)
LEMMA PowersDivide ==
    ASSUME NEW i \in 0..WIDTH, NEW j \in 0..WIDTH, i <= j
    PROVE  \E k \in Nat \ {0} : 2^j = 2^i * k
<1> DEFINE T == {d \in Nat : i + d <= WIDTH => \E k \in Nat \ {0} : 2^(i + d) = 2^i * k}
<1>1. WIDTH \in Nat /\ 2^i \in Nat \ {0}
  BY SpaceAssumption, PowersAssumption
<1>2. 0 \in T
  <2>1. i + 0 = i /\ 2^i = 2^i * 1
    BY <1>1
  <2> QED BY <2>1
<1>3. ASSUME NEW d \in T PROVE d + 1 \in T
  <2> SUFFICES ASSUME i + (d + 1) <= WIDTH PROVE \E k \in Nat \ {0} : 2^(i + (d + 1)) = 2^i * k
    OBVIOUS
  <2>1. i + d \in 0..WIDTH /\ i + (d + 1) = (i + d) + 1
    BY <1>1
  <2>2. 2^(i + (d + 1)) = 2 * 2^(i + d)
    BY <2>1, PowersAssumption
  <2>3. PICK k \in Nat \ {0} : 2^(i + d) = 2^i * k
    BY <1>1, <2>1
  <2> DEFINE s == 2^i
  <2>4. s \in Nat /\ 2^(i + (d + 1)) = 2 * (s * k)
    BY <1>1, <2>2, <2>3
  <2> HIDE DEF s
  <2>5. 2 * (s * k) = s * (2 * k) /\ 2 * k \in Nat \ {0}
    BY <2>4
  <2>6. 2^(i + (d + 1)) = s * (2 * k)
    BY <2>4, <2>5
  <2> QED BY <2>5, <2>6 DEF s
<1>4. T = Nat
  <2>1. T \in SUBSET Nat
    OBVIOUS
  <2> HIDE DEF T
  <2> QED BY <1>2, <1>3, <2>1, NatInduct
<1>5. j - i \in T /\ i + (j - i) = j /\ j <= WIDTH
  <2> HIDE DEF T
  <2> QED BY <1>1, <1>4
<1> QED BY <1>5

Size(n) == 2^Bits(n)

(* What a network that can be named is.                                    *)
LEMMA NetFacts ==
    ASSUME NEW n \in Networks
    PROVE  /\ n \in Net /\ Fits(n) /\ ~Beyond(n)
           /\ n.first \in Nat /\ n.networkMask \in 0..WIDTH /\ n.included \in BOOLEAN
           /\ WIDTH \in Nat /\ 2^WIDTH \in Nat
           /\ Bits(n) = WIDTH - n.networkMask /\ Bits(n) \in 0..WIDTH
           /\ Size(n) \in Nat \ {0}
           /\ Last(n) = n.first + Size(n) - 1 /\ Last(n) \in Nat /\ n.first <= Last(n)
           /\ n.first + Size(n) <= 2^WIDTH /\ Last(n) < 2^WIDTH
           /\ n.first % Size(n) = 0
           /\ n.first \div Size(n) \in Nat /\ n.first = Size(n) * (n.first \div Size(n))
<1>1. /\ n \in Net /\ Fits(n) /\ n.networkMask <= WIDTH
      /\ n.networkMask \in 0..WIDTH /\ n.included \in BOOLEAN
      /\ n.first % Size(n) = 0 /\ WIDTH \in Nat
  BY NamedFit, SpaceAssumption DEF Networks, Size
<1>2. Bits(n) = WIDTH - n.networkMask /\ Bits(n) \in 0..WIDTH /\ ~Beyond(n)
  BY <1>1 DEF Bits, Beyond
<1>3. /\ n.first \in Nat /\ 2^WIDTH \in Nat /\ Size(n) \in Nat \ {0}
      /\ Last(n) = n.first + Size(n) - 1 /\ Last(n) \in Nat /\ n.first <= Last(n)
  BY <1>1, Ends DEF Size
<1>4. n.first + Size(n) <= 2^WIDTH
  BY <1>1 DEF Fits, Size
<1> DEFINE w == 2^WIDTH
           s == Size(n)
<1>5. n.first \div s \in Nat /\ n.first = s * (n.first \div s)
  <2> HIDE DEF s
  <2>1. /\ n.first \div s \in Nat /\ s * (n.first \div s) \in Nat
        /\ n.first = s * (n.first \div s) + (n.first % s)
    BY <1>3, Parts DEF s
  <2>2. n.first % s = 0
    BY <1>1 DEF s
  <2> QED BY <2>1, <2>2
<1>6. Last(n) < w
  <2> HIDE DEF w, s
  <2>1. w \in Nat /\ s \in Nat \ {0} /\ n.first + s <= w /\ Last(n) = n.first + s - 1
    BY <1>3, <1>4 DEF w, s
  <2> QED BY <1>3, <2>1
<1> HIDE DEF w, s
<1> QED BY <1>1, <1>2, <1>3, <1>4, <1>5, <1>6 DEF w, s

(* The size of a network is a multiple of the size of any that is more     *)
(* specific.                                                               *)
LEMMA SizesDivide ==
    ASSUME NEW n \in Networks, NEW m \in Networks, m.networkMask <= n.networkMask
    PROVE  /\ \E k \in Nat \ {0} : Size(m) = Size(n) * k
           /\ m.networkMask = n.networkMask => Size(m) = Size(n)
           /\ m.networkMask < n.networkMask =>
                 \E k \in Nat \ {0} : Size(m) = Size(n) * (2 * k)
<1>1. /\ Bits(n) = WIDTH - n.networkMask /\ Bits(m) = WIDTH - m.networkMask
      /\ Bits(n) \in 0..WIDTH /\ Bits(m) \in 0..WIDTH /\ Bits(n) <= Bits(m)
      /\ WIDTH \in Nat /\ n.networkMask \in 0..WIDTH /\ m.networkMask \in 0..WIDTH
  BY NetFacts
<1>2. \E k \in Nat \ {0} : Size(m) = Size(n) * k
  BY <1>1, PowersDivide DEF Size
<1>3. m.networkMask = n.networkMask => Size(m) = Size(n)
  BY <1>1 DEF Size
<1>4. ASSUME m.networkMask < n.networkMask
      PROVE  \E k \in Nat \ {0} : Size(m) = Size(n) * (2 * k)
  <2>1. Bits(n) + 1 \in 0..WIDTH /\ Bits(n) + 1 <= Bits(m)
    BY <1>1, <1>4
  <2>2. PICK k \in Nat \ {0} : 2^Bits(m) = 2^(Bits(n) + 1) * k
    BY <1>1, <2>1, PowersDivide
  <2>3. 2^(Bits(n) + 1) = 2 * Size(n) /\ Size(n) \in Nat
    BY <1>1, PowersAssumption DEF Size
  <2>4. Size(m) = (2 * Size(n)) * k
    BY <2>2, <2>3 DEF Size
  <2> DEFINE s == Size(n)
  <2> HIDE DEF s
  <2>5. s \in Nat /\ (2 * s) * k = s * (2 * k)
    BY <2>3 DEF s
  <2> QED BY <2>4, <2>5 DEF s
<1> QED BY <1>2, <1>3, <1>4

(* A smaller size is at most half.                                         *)
LEMMA SmallerSize ==
    ASSUME NEW n \in Networks, NEW m \in Networks, m.networkMask < n.networkMask
    PROVE  2 * Size(n) <= Size(m)
<1>1. /\ Size(n) \in Nat \ {0}
      /\ m.networkMask \in Int /\ n.networkMask \in Int
  BY NetFacts
<1>2. PICK k \in Nat \ {0} : Size(m) = Size(n) * (2 * k)
  BY <1>1, SizesDivide
<1> DEFINE s == Size(n)
<1>3. s \in Nat \ {0} /\ Size(m) = s * (2 * k)
  BY <1>1, <1>2
<1> HIDE DEF s
<1>4. s * (2 * k) >= 2 * s
  <2>1. s * k >= s * 1
    BY <1>3
  <2>2. s * (2 * k) = 2 * (s * k) /\ s * 1 = s /\ s * k \in Nat
    BY <1>3
  <2> QED BY <1>3, <2>1, <2>2
<1>5. s * (2 * k) \in Nat
  BY <1>3
<1> QED BY <1>3, <1>4, <1>5 DEF s

(* Two networks that share an address: the more specific one is inside.    *)
LEMMA Nested ==
    ASSUME NEW n \in Networks, NEW m \in Networks, m.networkMask <= n.networkMask,
           n.first <= Last(m), m.first <= Last(n)
    PROVE  /\ m.first <= n.first /\ Last(n) <= Last(m)
           /\ m.networkMask = n.networkMask => n.first = m.first
<1> DEFINE s == Size(n)
           i == n.first \div s
           j == m.first \div Size(m)
<1>1. /\ s \in Nat \ {0} /\ i \in Nat /\ n.first = s * i /\ Last(n) = n.first + s - 1
      /\ n.first \in Nat
  BY NetFacts
<1>2. /\ Size(m) \in Nat \ {0} /\ j \in Nat /\ m.first = Size(m) * j
      /\ Last(m) = m.first + Size(m) - 1 /\ m.first \in Nat
  BY NetFacts
<1>3. PICK k \in Nat \ {0} :
         Size(m) = s * k /\ (m.networkMask = n.networkMask => k = 1)
  <2>1. CASE m.networkMask = n.networkMask
    <3>1. Size(m) = Size(n) /\ s * 1 = s
      BY <1>1, <2>1, SizesDivide
    <3> QED BY <3>1
  <2>2. CASE m.networkMask # n.networkMask
    BY <2>2, SizesDivide
  <2> QED BY <2>1, <2>2
<1> DEFINE b == k * j
<1>4. b \in Nat /\ k \in Nat \ {0}
  BY <1>2
<1>5. m.first = s * b
  <2> HIDE DEF s, j
  <2>1. (s * k) * j = s * (k * j)
    BY <1>1, <1>2
  <2> QED BY <1>2, <1>3, <2>1
<1>6. m.first + Size(m) = s * (b + k)
  <2> HIDE DEF s, b
  <2>1. s * (b + k) = s * b + s * k
    BY <1>1, <1>4
  <2> QED BY <1>3, <1>5, <2>1
<1>7. Last(m) + 1 = s * (b + k) /\ Last(m) \in Int
  <2> HIDE DEF s, b
  <2>1. s * (b + k) \in Nat
    BY <1>1, <1>4
  <2> QED BY <1>2, <1>6, <2>1
<1>8. Last(n) + 1 = s * (i + 1)
  <2> HIDE DEF s, i
  <2>1. s * (i + 1) = s * i + s /\ s * i \in Nat
    BY <1>1
  <2> QED BY <1>1, <2>1
<1> HIDE DEF s, i, j, b
<1>9. i < b + k
  <2> SUFFICES ASSUME b + k <= i PROVE FALSE
    BY <1>1, <1>4
  <2>1. s * (b + k) <= s * i
    BY <1>1, <1>4
  <2>2. s * (b + k) \in Nat /\ s * i \in Nat
    BY <1>1, <1>4
  <2> QED BY <1>1, <1>7, <2>1, <2>2
<1>10. b < i + 1
  <2> SUFFICES ASSUME i + 1 <= b PROVE FALSE
    BY <1>1, <1>4
  <2>1. s * (i + 1) <= s * b
    BY <1>1, <1>4
  <2>2. s * (i + 1) \in Nat /\ s * b \in Nat
    BY <1>1, <1>4
  <2> QED BY <1>1, <1>5, <1>8, <2>1, <2>2
<1>11. s * b <= s * i /\ s * (i + 1) <= s * (b + k)
  <2>1. b <= i /\ i + 1 <= b + k
    BY <1>1, <1>4, <1>9, <1>10
  <2> QED BY <1>1, <1>4, <2>1
<1>12. s * b \in Nat /\ s * i \in Nat /\ s * (i + 1) \in Nat /\ s * (b + k) \in Nat
  BY <1>1, <1>4
<1>13. m.first <= n.first /\ Last(n) <= Last(m)
  BY <1>1, <1>5, <1>7, <1>8, <1>11, <1>12
<1>14. ASSUME m.networkMask = n.networkMask PROVE n.first = m.first
  <2>1. i = b
    BY <1>1, <1>3, <1>4, <1>9, <1>10, <1>14
  <2> QED BY <1>1, <1>5, <2>1
<1> QED BY <1>13, <1>14

(* Nothing larger starts where an upper half starts.                       *)
LEMMA UpperIsLargest ==
    ASSUME NEW q \in Networks, NEW p \in Networks, Upper(q), p.first = q.first
    PROVE  q.networkMask <= p.networkMask
<1> SUFFICES ASSUME p.networkMask < q.networkMask PROVE FALSE
  BY NetFacts
<1> DEFINE s == Size(q)
           j == p.first \div Size(p)
<1>1. s \in Nat \ {0} /\ j \in Nat /\ p.first = Size(p) * j
  BY NetFacts
<1>2. PICK k \in Nat \ {0} : Size(p) = s * (2 * k)
  <2>1. p.networkMask <= q.networkMask
    BY NetFacts
  <2> QED BY <2>1, SizesDivide
<1>3. k * j \in Nat /\ p.first = s * (2 * (k * j)) + 0
  <2> HIDE DEF s, j
  <2>1. k * j \in Nat /\ (s * (2 * k)) * j = s * (2 * (k * j)) /\ s * (2 * (k * j)) \in Nat
    BY <1>1, <1>2
  <2> QED BY <1>1, <1>2, <2>1
<1> DEFINE b == k * j
<1>4. b \in Nat /\ 2 * b \in Nat /\ 0 < s /\ 0 \in Nat /\ 2 * b + 0 = 2 * b /\ 2 \in Nat \ {0}
  BY <1>1, <1>3
<1> HIDE DEF s, j, b
<1>5. (s * (2 * b) + 0) \div s = 2 * b
  BY <1>1, <1>4, Quotient
<1>6. (2 * b + 0) % 2 = 0
  BY <1>4, Quotient
<1>7. q.first = s * (2 * b) + 0
  BY <1>3 DEF b
<1> QED BY <1>4, <1>5, <1>6, <1>7 DEF Upper, s, Size

(* The halves of a network of more than one address: they are networks,    *)
(* have its addresses, and the second is an upper half.                    *)
LEMMA SplitNet ==
    ASSUME NEW n \in Networks, n.networkMask < WIDTH
    PROVE  LET half == split(n)
           IN  /\ half[1] \in Networks /\ half[2] \in Networks
               /\ half[1].first = n.first /\ half[2].first = n.first + Size(half[2])
               /\ half[1].networkMask = n.networkMask + 1
               /\ half[2].networkMask = n.networkMask + 1
               /\ half[1].included = n.included /\ half[2].included = n.included
               /\ Last(half[1]) + 1 = half[2].first /\ Last(half[2]) = Last(n)
               /\ Size(half[1]) = Size(half[2]) /\ Size(n) = 2 * Size(half[2])
               /\ Upper(half[2])
<1> DEFINE half == split(n)
           h == [n EXCEPT !.networkMask = @ + 1]
           g == [h EXCEPT !.first = Last(h) + 1]
           b == Bits(n) - 1
           s == 2^b
           i == n.first \div Size(n)
<1>1. /\ n \in Net /\ n \in [first: 0..2^WIDTH - 1, networkMask: 0..WIDTH, included: BOOLEAN]
      /\ n.first \in Nat /\ n.networkMask \in 0..WIDTH /\ n.included \in BOOLEAN
      /\ WIDTH \in Nat /\ 2^WIDTH \in Nat /\ Bits(n) = WIDTH - n.networkMask
      /\ Size(n) \in Nat \ {0} /\ Last(n) = n.first + Size(n) - 1
      /\ n.first + Size(n) <= 2^WIDTH
      /\ i \in Nat /\ n.first = Size(n) * i
  BY NetFacts DEF Networks
<1>2. b \in 0..WIDTH /\ b + 1 = Bits(n) /\ n.networkMask + 1 \in 0..WIDTH
      /\ WIDTH - (n.networkMask + 1) = b
  BY <1>1
<1>3. Size(n) = 2 * s /\ s \in Nat \ {0}
  BY <1>2, PowersAssumption DEF Size
<1>4. half[1] = h /\ half[2] = g
  BY DEF split
<1>5. /\ h = [first |-> n.first, networkMask |-> n.networkMask + 1, included |-> n.included]
      /\ Bits(h) = b /\ Size(h) = s /\ Last(h) = n.first + s - 1
  <2>1. h = [first |-> n.first, networkMask |-> n.networkMask + 1, included |-> n.included]
    BY <1>1
  <2>2. Bits(h) = b
    BY <1>2, <2>1 DEF Bits
  <2> QED BY <2>1, <2>2 DEF Size, Last
<1>6. /\ g = [first |-> n.first + s, networkMask |-> n.networkMask + 1, included |-> n.included]
      /\ Bits(g) = b /\ Size(g) = s /\ Last(g) = n.first + s + s - 1
  <2>1. Last(h) + 1 = n.first + s
    <3> HIDE DEF h, s
    <3> QED BY <1>1, <1>3, <1>5
  <2>2. g = [first |-> n.first + s, networkMask |-> n.networkMask + 1, included |-> n.included]
    <3> HIDE DEF h, s
    <3> QED BY <1>5, <2>1
  <2>3. Bits(g) = b
    BY <1>2, <2>2 DEF Bits
  <2> QED BY <2>2, <2>3 DEF Size, Last
<1> HIDE DEF half, h, g, b, s
<1>7. n.first = s * (2 * i) + 0 /\ n.first + s = s * (2 * i + 1) + 0
      /\ 2 * i \in Nat /\ 2 * i + 1 \in Nat
  <2> HIDE DEF i
  <2>1. (2 * s) * i = s * (2 * i) /\ s * (2 * i) \in Nat /\ 2 * i \in Nat
    BY <1>1, <1>3
  <2>2. s * (2 * i + 1) = s * (2 * i) + s
    BY <1>1, <1>3, <2>1
  <2> QED BY <1>1, <1>3, <2>1, <2>2
<1>8. n.first % s = 0 /\ (n.first + s) % s = 0 /\ (n.first + s) \div s = 2 * i + 1
  <2>1. 0 < s /\ 0 \in Nat
    BY <1>3
  <2>2. (s * (2 * i) + 0) % s = 0
    BY <1>3, <1>7, <2>1, Quotient
  <2>3. (s * (2 * i + 1) + 0) % s = 0 /\ (s * (2 * i + 1) + 0) \div s = 2 * i + 1
    BY <1>3, <1>7, <2>1, Quotient
  <2> HIDE DEF i
  <2> QED BY <1>7, <2>2, <2>3
<1>9. (2 * i + 1) % 2 = 1
  <2> HIDE DEF i
  <2> QED BY <1>1, Quotient
<1>10. h \in Networks /\ g \in Networks
  <2>1. n.first + s \in 0..2^WIDTH - 1 /\ n.first \in 0..2^WIDTH - 1
    <3> DEFINE w == 2^WIDTH
    <3>1. w \in Nat /\ n.first + 2 * s <= w
      BY <1>1, <1>3
    <3> HIDE DEF w
    <3>2. n.first + s \in 0..w - 1 /\ n.first \in 0..w - 1
      BY <1>1, <1>3, <3>1
    <3> QED BY <3>2 DEF w
  <2>2. h.first % 2^Bits(h) = 0 /\ g.first % 2^Bits(g) = 0
    BY <1>5, <1>6, <1>8 DEF Size
  <2>3. h \in [first: 0..2^WIDTH - 1, networkMask: 0..WIDTH, included: BOOLEAN]
    BY <1>1, <1>2, <1>5, <2>1
  <2>4. g \in [first: 0..2^WIDTH - 1, networkMask: 0..WIDTH, included: BOOLEAN]
    BY <1>1, <1>2, <1>6, <2>1
  <2> QED BY <2>2, <2>3, <2>4 DEF Networks
<1>11. Upper(g)
  BY <1>6, <1>8, <1>9 DEF Upper, Size
<1>12. Last(h) + 1 = n.first + s /\ Last(g) = Last(n)
  BY <1>1, <1>3, <1>5, <1>6
<1>13. /\ half[1] \in Networks /\ half[2] \in Networks
       /\ half[1].first = n.first /\ half[2].first = n.first + Size(half[2])
       /\ half[1].networkMask = n.networkMask + 1
       /\ half[2].networkMask = n.networkMask + 1
       /\ half[1].included = n.included /\ half[2].included = n.included
       /\ Last(half[1]) + 1 = half[2].first /\ Last(half[2]) = Last(n)
       /\ Size(half[1]) = Size(half[2]) /\ Size(n) = 2 * Size(half[2])
       /\ Upper(half[2])
  BY <1>3, <1>4, <1>5, <1>6, <1>10, <1>11, <1>12
<1> QED BY <1>13 DEF half

(* Which addresses.                                                        *)
LEMMA Member ==
    ASSUME NEW n \in Networks, NEW a
    PROVE  a \in Addresses(n) <=> a \in Nat /\ n.first <= a /\ a <= Last(n)
<1>1. n.first \in Nat /\ Last(n) \in Nat
  BY NetFacts
<1> QED BY <1>1 DEF Addresses

(* An address that two networks share.                                     *)
LEMMA SharedAddress ==
    ASSUME NEW n \in Networks, NEW m \in Networks, m.networkMask <= n.networkMask,
           NEW a, a \in Addresses(n), a \in Addresses(m)
    PROVE  /\ m.first <= n.first /\ Last(n) <= Last(m)
           /\ m.networkMask = n.networkMask => Same(n, m)
<1>1. /\ n.first \in Nat /\ m.first \in Nat /\ Last(n) \in Nat /\ Last(m) \in Nat
      /\ n.networkMask \in Nat /\ m.networkMask \in Nat
      /\ a \in Nat /\ n.first <= a /\ a <= Last(n) /\ m.first <= a /\ a <= Last(m)
  BY NetFacts, Member
<1>2. n.first <= Last(m) /\ m.first <= Last(n)
  BY <1>1
<1> QED BY <1>2, Nested DEF Same

(* A network is part of one that reaches as far on both sides.             *)
LEMMA Contained ==
    ASSUME NEW n \in Networks, NEW m \in Networks, m.first <= n.first, Last(n) <= Last(m)
    PROVE  Addresses(n) \subseteq Addresses(m)
<1>1. n.first \in Nat /\ m.first \in Nat /\ Last(n) \in Nat /\ Last(m) \in Nat
  BY NetFacts
<1> QED BY <1>1 DEF Addresses

(* One that is part of another is as specific.                             *)
LEMMA PartIsSpecific ==
    ASSUME NEW n \in Networks, NEW m \in Networks, Addresses(n) \subseteq Addresses(m)
    PROVE  /\ m.networkMask <= n.networkMask /\ m.first <= n.first /\ Last(n) <= Last(m)
           /\ n.networkMask # m.networkMask => Within(n, m)
<1>1. /\ n.first \in Nat /\ m.first \in Nat /\ Last(n) \in Nat /\ Last(m) \in Nat
      /\ n.networkMask \in Nat /\ m.networkMask \in Nat
      /\ Size(n) \in Nat \ {0} /\ Size(m) \in Nat \ {0}
      /\ Last(n) = n.first + Size(n) - 1 /\ Last(m) = m.first + Size(m) - 1
      /\ n.first <= Last(n)
  BY NetFacts
<1>2. n.first \in Addresses(n) /\ Last(n) \in Addresses(n)
  BY <1>1 DEF Addresses
<1>3. m.first <= n.first /\ Last(n) <= Last(m)
  BY <1>1, <1>2, Member
<1>4. m.networkMask <= n.networkMask
  <2> SUFFICES ASSUME n.networkMask < m.networkMask PROVE FALSE
    BY <1>1
  <2>1. 2 * Size(m) <= Size(n)
    BY SmallerSize
  <2> QED BY <1>1, <1>3, <2>1
<1> QED BY <1>3, <1>4 DEF Within, Same

(* Of two networks at different starts, the one that is more specific and  *)
(* starts later is its size behind at least.                               *)
LEMMA Behind ==
    ASSUME NEW q \in Networks, NEW n \in Networks, n.networkMask <= q.networkMask,
           n.first < q.first
    PROVE  n.first + Size(q) <= q.first
<1> DEFINE s == Size(q)
           i == q.first \div s
           j == n.first \div Size(n)
<1>1. s \in Nat \ {0} /\ i \in Nat /\ q.first = s * i
  BY NetFacts
<1>2. j \in Nat /\ n.first = Size(n) * j
  BY NetFacts
<1>3. PICK k \in Nat \ {0} : Size(n) = s * k
  BY SizesDivide
<1> DEFINE b == k * j
<1>4. b \in Nat
  BY <1>2
<1>5. n.first = s * b
  <2> HIDE DEF s, j
  <2>1. (s * k) * j = s * (k * j)
    BY <1>1, <1>2
  <2> QED BY <1>2, <1>3, <2>1
<1> HIDE DEF s, i, b
<1>6. b < i
  <2> SUFFICES ASSUME i <= b PROVE FALSE
    BY <1>1, <1>4
  <2>1. s * i <= s * b /\ s * i \in Nat /\ s * b \in Nat
    BY <1>1, <1>4
  <2> QED BY <1>1, <1>5, <2>1
<1>7. s * (b + 1) <= s * i
  <2>1. b + 1 <= i
    BY <1>1, <1>4, <1>6
  <2> QED BY <1>1, <1>4, <2>1
<1>8. s * (b + 1) = s * b + s
  BY <1>1, <1>4
<1> QED BY <1>1, <1>5, <1>7, <1>8 DEF s

(* A network that starts inside another, behind its start, is inside.      *)
LEMMA InsideIsSpecific ==
    ASSUME NEW q \in Networks, NEW n \in Networks, n.first < q.first, q.first <= Last(n)
    PROVE  n.networkMask < q.networkMask /\ Last(q) <= Last(n)
<1>1. /\ q.first \in Nat /\ n.first \in Nat /\ q.networkMask \in Nat /\ n.networkMask \in Nat
      /\ q.first <= Last(q) /\ Last(q) \in Nat /\ Last(n) \in Nat
  BY NetFacts
<1>2. n.first <= Last(q) /\ q.first <= Last(n)
  BY <1>1
<1>3. n.networkMask < q.networkMask
  <2> SUFFICES ASSUME q.networkMask <= n.networkMask PROVE FALSE
    BY <1>1
  <2>1. q.first <= n.first
    BY <1>2, Nested
  <2> QED BY <1>1, <2>1
<1>4. n.networkMask <= q.networkMask
  BY <1>1, <1>3
<1> QED BY <1>2, <1>3, <1>4, Nested

(* Of two networks at the same start, the more specific one is inside.     *)
LEMMA SameStart ==
    ASSUME NEW q \in Networks, NEW n \in Networks, n.first = q.first,
           n.networkMask <= q.networkMask
    PROVE  Last(q) <= Last(n)
<1>1. /\ q.first \in Nat /\ q.first <= Last(q) /\ n.first <= Last(n)
      /\ Last(q) \in Nat /\ Last(n) \in Nat
  BY NetFacts
<1> QED BY <1>1, Nested

(* A network of the set that has the same first address and mask, and says *)
(* the same, is the same.                                                  *)
LEMMA SameNet ==
    ASSUME NEW n \in Networks, NEW m \in Networks, Same(n, m), n.included = m.included
    PROVE  n = m
  BY DEF Networks, Same

-----------------------------------------------------------------------------
(* What the queue holds.                                                   *)

(* BagRemove() touches no other element.                                   *)
LEMMA RestRemains ==
    ASSUME NEW B, IsABag(B), NEW x \in BagToSet(B)
    PROVE  BagToSet(B) \subseteq BagToSet(BagRemove(B, x)) \cup {x}
<1>1. BagToSet(BagRemove(B, x)) = IF B[x] = 1 THEN DOMAIN B \ {x} ELSE DOMAIN B
  BY DEF BagRemove, BagToSet
<1> QED BY <1>1 DEF BagToSet

(* AddMissing() adds what nothing in the queue compares as equal with.     *)
LEMMA SetOfMissing ==
    ASSUME NEW B, IsABag(B), NEW x
    PROVE  /\ IsABag(AddMissing(B, x))
           /\ \/ /\ \E m \in BagToSet(B) : Same(m, x)
                 /\ BagToSet(AddMissing(B, x)) = BagToSet(B)
              \/ /\ \A m \in BagToSet(B) : ~Same(m, x)
                 /\ BagToSet(AddMissing(B, x)) = BagToSet(B) \cup {x}
  BY Added DEF AddMissing

-----------------------------------------------------------------------------
(* The decision about an address.                                          *)

(* The most specific network of an address: if any has the address, one is *)
(* most specific.                                                          *)
Top(P, a, n) ==
    /\ n \in P /\ a \in Addresses(n)
    /\ \A m \in P : a \in Addresses(m) => m.networkMask <= n.networkMask

(* An address of some network has a most specific one.                     *)
LEMMA TopExists ==
    ASSUME NEW P, P \subseteq Networks, NEW a, NEW y \in P, a \in Addresses(y)
    PROVE  \E n \in P : Top(P, a, n)
<1> DEFINE T == {WIDTH - m.networkMask : m \in {m \in P : a \in Addresses(m)}}
<1>1. \A m \in P : m.networkMask \in Nat /\ WIDTH \in Nat /\ WIDTH - m.networkMask \in Nat
  BY NetFacts
<1>2. T \in SUBSET Nat /\ T # {}
  BY <1>1
<1>3. PICK x \in T : \A z \in T : x <= z
  <2> HIDE DEF T
  <2> QED BY <1>2, LeastNumber
<1>4. PICK n \in P : a \in Addresses(n) /\ x = WIDTH - n.networkMask
  BY <1>3
<1>5. ASSUME NEW m \in P, a \in Addresses(m) PROVE m.networkMask <= n.networkMask
  <2>1. WIDTH - m.networkMask \in T
    BY <1>5
  <2>2. WIDTH - n.networkMask <= WIDTH - m.networkMask
    BY <1>3, <1>4, <2>1
  <2> QED BY <1>1, <2>2
<1> QED BY <1>4, <1>5 DEF Top

(* Decided() asks whether a most specific one is included.                 *)
LEMMA DecidedByTop ==
    ASSUME NEW P, NEW a
    PROVE  Decided(P, a) <=> \E n \in P : Top(P, a, n) /\ n.included
  BY DEF Decided, Top

Differ(P) == \A p, q \in P : Same(p, q) => p = q

(* A network is dropped, where one that is as large decides as it does,    *)
(* and so does all between them.                                           *)
LEMMA DroppedAlike ==
    ASSUME NEW P, P \subseteq Networks, Differ(P), NEW R, R \subseteq P,
           NEW x \in P, P \subseteq R \cup {x}, NEW a,
           a \in Addresses(x) =>
             \/ x \in R
             \/ \E y \in R :
                  /\ a \in Addresses(y) /\ y.included = x.included
                  /\ y.networkMask <= x.networkMask
                  /\ \A m \in R :
                        /\ a \in Addresses(m)
                        /\ y.networkMask < m.networkMask
                        /\ m.networkMask <= x.networkMask
                        => m.included = x.included
    PROVE  Decided(P, a) <=> Decided(R, a)
<1>0. \A m \in P : m.networkMask \in Nat /\ m.included \in BOOLEAN
  BY NetFacts
<1>1. CASE x \in R
  <2>1. P = R
    BY <1>1
  <2> QED BY <2>1
<1>2. CASE a \notin Addresses(x)
  BY <1>2 DEF Decided
<1>3. CASE a \in Addresses(x) /\ x \notin R
  <2>1. PICK y \in R :
             /\ a \in Addresses(y) /\ y.included = x.included
             /\ y.networkMask <= x.networkMask
             /\ \A m \in R :
                   /\ a \in Addresses(m)
                   /\ y.networkMask < m.networkMask
                   /\ m.networkMask <= x.networkMask
                   => m.included = x.included
    BY <1>3
  <2>2. ASSUME NEW m \in R, a \in Addresses(m), y.networkMask <= m.networkMask,
               m.networkMask <= x.networkMask
        PROVE  m.included = x.included
    <3>1. CASE m.networkMask = y.networkMask
      <4>1. Same(m, y)
        BY <2>1, <2>2, <3>1, SharedAddress
      <4> QED BY <2>1, <4>1 DEF Differ
    <3>2. CASE m.networkMask # y.networkMask
      <4>1. y.networkMask < m.networkMask
        BY <1>0, <2>2, <3>2
      <4> QED BY <2>1, <2>2, <4>1
    <3> QED BY <3>1, <3>2
  <2>3. ASSUME NEW n \in P, Top(P, a, n), n.included PROVE Decided(R, a)
    <3>1. CASE n \in R
      BY <2>3, <3>1 DEF Top, Decided
    <3>2. CASE n = x
      <4>1. PICK m \in R : Top(R, a, m)
        BY <2>1, TopExists
      <4>2. a \in Addresses(m) /\ y.networkMask <= m.networkMask /\ m.networkMask <= x.networkMask
        BY <2>1, <2>3, <3>2, <4>1 DEF Top
      <4>3. m.included
        BY <1>0, <2>2, <2>3, <3>2, <4>2
      <4> QED BY <4>1, <4>3, DecidedByTop
    <3> QED BY <3>1, <3>2
  <2>4. ASSUME NEW n \in R, Top(R, a, n), n.included PROVE Decided(P, a)
    <3>1. n.networkMask \in Nat /\ x.networkMask \in Nat
      BY <1>0
    <3>2. CASE x.networkMask < n.networkMask
      <4>1. Top(P, a, n)
        BY <2>4, <3>1, <3>2 DEF Top
      <4> QED BY <2>4, <4>1, DecidedByTop
    <3>3. CASE n.networkMask <= x.networkMask
      <4>1. a \in Addresses(n) /\ y.networkMask <= n.networkMask
        BY <2>1, <2>4 DEF Top
      <4>2. x.included
        BY <1>0, <2>2, <2>4, <3>3, <4>1
      <4>3. \A m \in P : a \in Addresses(m) => m.networkMask <= x.networkMask
        <5> SUFFICES ASSUME NEW m \in P, a \in Addresses(m) PROVE m.networkMask <= x.networkMask
          OBVIOUS
        <5>1. m = x \/ m.networkMask <= n.networkMask
          BY <2>4 DEF Top
        <5> QED BY <1>0, <3>3, <5>1
      <4> QED BY <1>3, <4>2, <4>3 DEF Decided
    <3> QED BY <3>1, <3>2, <3>3
  <2> QED BY <2>3, <2>4, DecidedByTop
<1> QED BY <1>1, <1>2, <1>3

(* A network is replaced by its halves, where there is none yet that       *)
(* compares as equal.                                                      *)
LEMMA RefinedAlike ==
    ASSUME NEW P, P \subseteq Networks, Differ(P),
           NEW R, R \subseteq Networks, Differ(R),
           NEW x \in P, x.networkMask < WIDTH,
           P \subseteq R \cup {x}, R \subseteq P \cup {split(x)[1], split(x)[2]},
           \E s \in R : Same(s, split(x)[1]),
           \E s \in R : Same(s, split(x)[2]),
           NEW a
    PROVE  Decided(P, a) <=> Decided(R, a)
<1> DEFINE h == split(x)[1]
           g == split(x)[2]
<1>0. /\ \A m \in P \cup R : /\ m.networkMask \in Nat /\ m.included \in BOOLEAN
                             /\ m.first \in Nat /\ Last(m) \in Nat /\ m.first <= Last(m)
      /\ x.networkMask \in Nat /\ x.included \in BOOLEAN
  BY NetFacts
<1>1. /\ h \in Networks /\ g \in Networks
      /\ h.first = x.first /\ h.networkMask = x.networkMask + 1
      /\ g.networkMask = x.networkMask + 1
      /\ h.included = x.included /\ g.included = x.included
      /\ Last(h) + 1 = g.first /\ Last(g) = Last(x)
      /\ h.first \in Nat /\ Last(h) \in Nat /\ g.first \in Nat /\ Last(g) \in Nat
      /\ h.first <= Last(h) /\ g.first <= Last(g)
  BY SplitNet, NetFacts
<1>2. P \subseteq R \cup {x} /\ R \subseteq P \cup {h, g}
  OBVIOUS
<1>3. (\E s \in R : Same(s, h)) /\ (\E s \in R : Same(s, g))
  OBVIOUS
<1> HIDE DEF h, g
<1>4. Addresses(x) = Addresses(h) \cup Addresses(g)
  BY <1>0, <1>1 DEF Addresses
<1>5. CASE a \notin Addresses(x)
  BY <1>2, <1>4, <1>5 DEF Decided
<1>6. CASE a \in Addresses(x)
  <2>1. PICK s \in R : a \in Addresses(s) /\ s.networkMask = x.networkMask + 1
                         /\ (s \in P \/ s.included = x.included)
    <3>1. ASSUME NEW k \in {h, g}, a \in Addresses(k)
          PROVE  \E s \in R : a \in Addresses(s) /\ s.networkMask = x.networkMask + 1
                                /\ (s \in P \/ s.included = x.included)
      <4>1. PICK s \in R : Same(s, k)
        BY <1>3
      <4>2. s.networkMask = x.networkMask + 1 /\ (s \in P \/ s.included = x.included)
        BY <1>1, <1>2, <4>1 DEF Same
      <4>3. Addresses(s) = Addresses(k)
        BY <4>1 DEF Same, Addresses, Last, Bits
      <4> QED BY <3>1, <4>2, <4>3
    <3> QED BY <1>4, <1>6, <3>1
  <2>2. ASSUME NEW n \in P, Top(P, a, n), n.included PROVE Decided(R, a)
    <3>1. a \in Addresses(n) /\ x.networkMask <= n.networkMask
      BY <1>6, <2>2 DEF Top
    <3>2. CASE x.networkMask < n.networkMask
      <4>1. n \in R
        BY <1>0, <1>2, <3>2
      <4>2. \A m \in R : a \in Addresses(m) => m.networkMask <= n.networkMask
        <5> SUFFICES ASSUME NEW m \in R, a \in Addresses(m) PROVE m.networkMask <= n.networkMask
          OBVIOUS
        <5>1. m \in P \/ m.networkMask = x.networkMask + 1
          BY <1>1, <1>2
        <5> QED BY <1>0, <2>2, <3>2, <5>1 DEF Top
      <4> QED BY <2>2, <3>1, <4>1, <4>2 DEF Decided
    <3>3. CASE x.networkMask = n.networkMask
      <4>1. n = x
        <5>1. Same(n, x)
          BY <1>0, <1>6, <3>1, <3>3, SharedAddress
        <5> QED BY <5>1 DEF Differ
      <4>2. s \notin P
        <5>1. s \in P => s.networkMask <= x.networkMask
          BY <2>1, <2>2, <4>1 DEF Top
        <5> QED BY <1>0, <2>1, <5>1
      <4>3. s.included
        BY <1>0, <2>1, <2>2, <4>1, <4>2
      <4>4. \A m \in R : a \in Addresses(m) => m.networkMask <= s.networkMask
        <5> SUFFICES ASSUME NEW m \in R, a \in Addresses(m) PROVE m.networkMask <= s.networkMask
          OBVIOUS
        <5>1. m \in P \/ m.networkMask = x.networkMask + 1
          BY <1>1, <1>2
        <5>2. m \in P => m.networkMask <= x.networkMask
          BY <2>2, <4>1 DEF Top
        <5> QED BY <1>0, <2>1, <5>1, <5>2
      <4> QED BY <2>1, <4>3, <4>4 DEF Decided
    <3> QED BY <1>0, <3>1, <3>2, <3>3
  <2>3. ASSUME NEW n \in R, Top(R, a, n), n.included PROVE Decided(P, a)
    <3>1. a \in Addresses(n) /\ x.networkMask + 1 <= n.networkMask
      BY <2>1, <2>3 DEF Top
    <3>2. CASE n \in P
      <4>1. \A m \in P : a \in Addresses(m) => m.networkMask <= n.networkMask
        <5> SUFFICES ASSUME NEW m \in P, a \in Addresses(m) PROVE m.networkMask <= n.networkMask
          OBVIOUS
        <5>1. m = x \/ m \in R
          BY <1>2
        <5> QED BY <1>0, <2>3, <3>1, <5>1 DEF Top
      <4> QED BY <2>3, <3>1, <3>2, <4>1 DEF Decided
    <3>3. CASE n \notin P
      <4>1. n.networkMask = x.networkMask + 1 /\ n.included = x.included
        BY <1>1, <1>2, <3>3
      <4>2. \A m \in P : a \in Addresses(m) => m.networkMask <= x.networkMask
        <5> SUFFICES ASSUME NEW m \in P, a \in Addresses(m), x.networkMask < m.networkMask
                     PROVE  FALSE
          BY <1>0
        <5>1. m \in R /\ m.networkMask <= n.networkMask
          BY <1>0, <1>2, <2>3 DEF Top
        <5>2. m.networkMask = n.networkMask
          BY <1>0, <4>1, <5>1
        <5>3. Same(m, n)
          BY <1>0, <3>1, <5>1, <5>2, SharedAddress
        <5> QED BY <3>3, <5>1, <5>3 DEF Differ
      <4> QED BY <1>6, <2>3, <4>1, <4>2 DEF Decided
    <3> QED BY <3>2, <3>3
  <2> QED BY <2>2, <2>3, DecidedByTop
<1> QED BY <1>5, <1>6

-----------------------------------------------------------------------------
(* One turn of the loop, for regular inputs.                               *)

(* What a turn of the loop finds.                                          *)
LEMMA TurnFacts ==
    ASSUME SpaceInv, NamedDiffer, RegularParts, phase = "generating"
    PROVE  /\ IsABag(networks)
           /\ currentNet \in Networks /\ Queued \subseteq Networks
           /\ Pieces \subseteq Networks /\ Differ(Pieces) /\ Pieces = Queued \cup {currentNet}
           /\ mIpAddresses \subseteq Networks
           /\ \A q \in Queued : currentNet.first <= q.first
           /\ \A p \in Pieces \cup mIpAddresses :
                 /\ p.first \in Nat /\ Last(p) \in Nat /\ p.first <= Last(p)
                 /\ p.networkMask \in Nat /\ p.networkMask <= WIDTH /\ p.included \in BOOLEAN
                 /\ Size(p) \in Nat \ {0} /\ Last(p) = p.first + Size(p) - 1
           /\ WIDTH \in Nat
<1>1. IsABag(networks) /\ \A q \in Queued : currentNet.first <= q.first
  BY DEF SpaceInv, TypeOK, UpInv, Queued
<1>2. Pieces \subseteq Networks /\ Differ(Pieces) /\ Pieces = Queued \cup {currentNet}
  BY DEF RegularParts, PiecesArePart, PiecesDiffer, Differ, Pieces
<1>3. mIpAddresses \subseteq Networks
  BY DEF NamedDiffer
<1>4. \A p \in Networks :
         /\ p.first \in Nat /\ Last(p) \in Nat /\ p.first <= Last(p)
         /\ p.networkMask \in Nat /\ p.networkMask <= WIDTH /\ p.included \in BOOLEAN
         /\ Size(p) \in Nat \ {0} /\ Last(p) = p.first + Size(p) - 1
  BY NetFacts
<1> QED BY <1>1, <1>2, <1>3, <1>4, SpaceAssumption

(* The next network is the lowest, and the most specific of those.         *)
LEMMA NextFacts ==
    ASSUME Queued \subseteq Networks, IsABag(networks), NEW next \in Least(networks)
    PROVE  LET rest == BagToSet(BagRemove(networks, next))
           IN  /\ next \in Queued
               /\ \A q \in Queued : /\ next.first <= q.first
                                    /\ next.first = q.first => q.networkMask <= next.networkMask
               /\ rest \subseteq Queued /\ Queued \subseteq rest \cup {next}
<1>1. next \in Queued /\ \A q \in Queued : ~Before(q, next)
  BY DEF Least, Queued
<1>2. \A q \in Queued : q.first \in Nat /\ q.networkMask \in Nat
  BY NetFacts
<1>3. \A q \in Queued : /\ next.first <= q.first
                        /\ next.first = q.first => q.networkMask <= next.networkMask
  BY <1>1, <1>2 DEF Before
<1> QED BY <1>1, <1>3, Removed, RestRemains DEF Queued

(* A named network at the start of one it disagrees with, inside one it    *)
(* agrees with, comes too early.                                           *)
LEMMA TooEarly ==
    ASSUME mIpAddresses \subseteq Networks,
           NEW n \in mIpAddresses, NEW q \in mIpAddresses, NEW c \in Networks,
           \E o \in mIpAddresses : PartOf(c, o),
           n.first = q.first, q.networkMask < n.networkMask, c.networkMask < q.networkMask,
           Addresses(q) \subseteq Addresses(c),
           n.included = c.included, n.included # q.included
    PROVE  Irregular
<1>1. PICK o \in mIpAddresses : Addresses(c) \subseteq Addresses(o) /\ c.included = o.included
  BY DEF PartOf
<1>2. /\ n.networkMask \in Nat /\ q.networkMask \in Nat /\ c.networkMask \in Nat
      /\ o.networkMask \in Nat /\ n.included \in BOOLEAN /\ q.included \in BOOLEAN
  BY NetFacts
<1>3. o.networkMask <= c.networkMask
  BY <1>1, PartIsSpecific
<1>4. Within(q, o)
  BY <1>1, <1>2, <1>3 DEF Within, Same
<1>5. Within(n, q)
  <2>1. Last(n) <= Last(q)
    BY <1>2, SameStart
  <2>2. Addresses(n) \subseteq Addresses(q)
    <3>1. q.first <= n.first
      BY NetFacts
    <3> QED BY <2>1, <3>1, Contained
  <2> QED BY <1>2, <2>2 DEF Within, Same
<1>6. ComesTooEarly(n)
  BY <1>1, <1>4, <1>5 DEF ComesTooEarly
<1> QED BY <1>6 DEF Irregular

(* A network that something larger starts with is not an upper half.       *)
LEMMA NotUpper ==
    ASSUME NEW q \in Networks, NEW p \in Networks, p.first = q.first,
           p.networkMask < q.networkMask
    PROVE  ~Upper(q)
<1>1. q.networkMask \in Nat /\ p.networkMask \in Nat
  BY NetFacts
<1> QED BY <1>1, UpperIsLargest

-----------------------------------------------------------------------------
(* An agreeing network where the next starts leaves no other half-way.     *)
LEMMA ApartAgreeing ==
    ASSUME SpaceInv, NamedDiffer, RegularParts, phase = "generating", ~Irregular,
           NEW next \in Least(networks), currentNet.first < next.first,
           NEW c \in Queued, NEW q \in Queued,
           c.first = next.first, c.included = next.included,
           q.included # next.included, c.networkMask < q.networkMask
    PROVE  /\ q.first # next.first
           /\ q.first = next.first + Size(q) => q \in mIpAddresses
<1>0. /\ IsABag(networks) /\ Queued \subseteq Networks /\ mIpAddresses \subseteq Networks
      /\ \A p, r \in Queued : Same(p, r) => p = r
      /\ currentNet \in Networks
  BY TurnFacts DEF Differ
<1>1. /\ next \in Queued
      /\ \A r \in Queued : /\ next.first <= r.first
                           /\ next.first = r.first => r.networkMask <= next.networkMask
  BY <1>0, NextFacts
<1>2. \A r \in Queued : r \in mIpAddresses \/ r.first <= currentNet.first
                           \/ (Upper(r) /\ r.first <= currentNet.first + Size(r))
  <2> SUFFICES ASSUME NEW r \in Queued, r \notin mIpAddresses, ~(r.first <= currentNet.first)
               PROVE  Upper(r) /\ r.first <= currentNet.first + Size(r)
    OBVIOUS
  <2>1. currentNet.first < r.first
    BY <1>0, NetFacts
  <2> QED BY <2>1 DEF RegularParts, AheadAreHalves, Size
<1>3. /\ next \in Networks /\ q \in Networks /\ c \in Networks
      /\ next.first \in Nat /\ currentNet.first \in Nat
      /\ next.networkMask \in Nat /\ q.networkMask \in Nat /\ c.networkMask \in Nat
  BY <1>0, <1>1, NetFacts
<1>4. ASSUME q.first = next.first PROVE FALSE
  <2>1. q.networkMask < next.networkMask
    <3>1. q.networkMask <= next.networkMask
      BY <1>1, <1>4
    <3>2. q.networkMask # next.networkMask
      <4>1. Same(q, next) => q = next
        BY <1>0, <1>1
      <4> QED BY <1>4, <4>1 DEF Same
    <3> QED BY <1>3, <3>1, <3>2
  <2>2. ~Upper(next) /\ ~Upper(q)
    BY <1>3, <1>4, <2>1, NotUpper
  <2>3. next \in mIpAddresses /\ q \in mIpAddresses
    BY <1>1, <1>2, <1>3, <1>4, <2>2
  <2>4. Addresses(q) \subseteq Addresses(c)
    <3>1. Last(q) <= Last(c)
      BY <1>3, <1>4, SameStart
    <3>2. c.first <= q.first
      BY <1>3, <1>4
    <3> QED BY <1>3, <3>1, <3>2, Contained
  <2>5. \E o \in mIpAddresses : PartOf(c, o)
    BY DEF RegularParts, PiecesArePart, Pieces
  <2> QED BY <1>0, <1>3, <1>4, <2>1, <2>3, <2>4, <2>5, TooEarly
<1>5. ASSUME q.first = next.first + Size(q), q \notin mIpAddresses PROVE FALSE
  <2>1. Size(q) \in Nat \ {0} /\ q.first \in Nat
    BY <1>3, NetFacts
  <2>2. q.first <= currentNet.first + Size(q)
    BY <1>2, <1>3, <1>5, <2>1
  <2> QED BY <1>3, <1>5, <2>1, <2>2
<1> QED BY <1>4, <1>5

(* The current network is apart from the next one.                         *)
LEMMA ApartStep ==
    ASSUME SpaceInv, NamedDiffer, RegularParts, Turn, ~Irregular,
           NEW next \in Least(networks), NextIsApart(next)
    PROVE  RegularParts'
<1> DEFINE rest == BagToSet(BagRemove(networks, next))
<1>0. phase = "generating"
  BY DEF Turn
<1>1. /\ IsABag(networks) /\ Queued \subseteq Networks /\ mIpAddresses \subseteq Networks
      /\ Pieces \subseteq Networks /\ Differ(Pieces) /\ Pieces = Queued \cup {currentNet}
      /\ currentNet \in Networks
      /\ \A q \in Queued : currentNet.first <= q.first
  BY <1>0, TurnFacts
<1>2. /\ next \in Queued
      /\ \A q \in Queued : /\ next.first <= q.first
                           /\ next.first = q.first => q.networkMask <= next.networkMask
      /\ rest \subseteq Queued /\ Queued \subseteq rest \cup {next}
  BY <1>1, NextFacts
<1>3. /\ Last(currentNet) < next.first
      /\ currentNet' = next /\ Queued' = rest /\ Pieces' = Queued
      /\ mIpAddresses' = mIpAddresses
      /\ ipsDone' = Insert(ipsDone, currentNet)
  BY <1>2 DEF Turn, NextIsApart, Apart, Queued, Pieces
<1> HIDE DEF rest
<1>4. \A q \in Pieces : /\ q.first \in Nat /\ Last(q) \in Nat /\ q.first <= Last(q)
                        /\ Size(q) \in Nat \ {0} /\ q.included \in BOOLEAN
                        /\ q.networkMask \in Nat
  BY <1>1, NetFacts
<1>5. currentNet.first < next.first
  BY <1>1, <1>2, <1>3, <1>4
<1>6. PiecesArePart' /\ PiecesDiffer'
  BY <1>1, <1>3 DEF RegularParts, PiecesArePart, PiecesDiffer, Pieces
<1>7. CurrentIsSmallest'
  BY <1>2, <1>3 DEF CurrentIsSmallest
<1>8. AheadAreHalves'
  <2> SUFFICES ASSUME NEW q \in rest, q \notin mIpAddresses, next.first < q.first
               PROVE  Upper(q) /\ q.first <= next.first + Size(q)
    BY <1>3 DEF AheadAreHalves, Size
  <2>1. q \in Queued /\ currentNet.first < q.first
    BY <1>1, <1>2, <1>4, <1>5
  <2>2. Upper(q) /\ q.first <= currentNet.first + Size(q)
    BY <2>1 DEF RegularParts, AheadAreHalves, Size
  <2> QED BY <1>1, <1>2, <1>4, <1>5, <2>1, <2>2
<1>9. DisagreeingAreNamed'
  <2> SUFFICES ASSUME NEW q \in rest, next.first < q.first, q.first <= Last(next)
               PROVE  q \in mIpAddresses
    BY <1>3 DEF DisagreeingAreNamed
  <2>1. q \in Queued /\ next \in Networks /\ q \in Networks
    BY <1>1, <1>2
  <2>2. currentNet.first < q.first /\ next.networkMask <= q.networkMask
    BY <1>1, <1>2, <1>4, <1>5, <2>1, InsideIsSpecific
  <2>3. next.first + Size(q) <= q.first
    BY <2>1, <2>2, Behind
  <2>4. q \notin mIpAddresses => q.first <= currentNet.first + Size(q)
    BY <2>1, <2>2 DEF RegularParts, AheadAreHalves, Size
  <2> QED BY <1>1, <1>2, <1>4, <1>5, <2>1, <2>3, <2>4
<1>10. AgreeingComeFirst'
  <2> SUFFICES ASSUME NEW c \in rest, c.first = next.first, next.included = c.included,
                      NEW q \in rest, next.included # q.included, c.networkMask < q.networkMask
               PROVE  /\ q.first # next.first
                      /\ q.first = next.first + Size(q) => q \in mIpAddresses
    BY <1>3 DEF AgreeingComeFirst, Agree, Size
  <2>1. c \in Queued /\ q \in Queued
    BY <1>2
  <2> QED BY <1>0, <1>5, <2>1, ApartAgreeing
<1>11. DecidedAlike'
  <2> SUFFICES ASSUME NEW a \in 0..2^WIDTH - 1
               PROVE  Decided(mIpAddresses, a) <=>
                        IF a < next.first THEN a \in Routed({n \in ipsDone' : n.included})
                                          ELSE Decided(Queued, a)
    BY <1>3 DEF DecidedAlike, getPositiveIPList
  <2>1. Decided(mIpAddresses, a) <=>
           IF a < currentNet.first THEN a \in Routed({n \in ipsDone : n.included})
                                   ELSE Decided(Pieces, a)
    BY DEF RegularParts, DecidedAlike, getPositiveIPList
  <2>2. /\ a \in Nat /\ currentNet.first \in Nat /\ next.first \in Nat /\ Last(currentNet) \in Nat
    <3>1. 2^WIDTH \in Nat
      BY <1>1, NetFacts
    <3> QED BY <1>1, <1>2, <1>4, <3>1
  <2>3. ipsDone' = ipsDone \cup {currentNet}
    <3>1. \A d \in ipsDone : d \in Net /\ Last(d) < currentNet.first
      BY <1>0 DEF SpaceInv, TypeOK, UpInv
    <3>2. \A d \in ipsDone : d.first < currentNet.first
      BY <2>2, <3>1, Ends
    <3>3. \A d \in ipsDone : ~Same(d, currentNet)
      BY <2>2, <3>2 DEF Same
    <3> QED BY <1>3, <3>3 DEF Insert
  <2>4. a \in Routed({n \in ipsDone' : n.included})
          <=> a \in Routed({n \in ipsDone : n.included})
                 \/ (a \in Addresses(currentNet) /\ currentNet.included)
    BY <2>3 DEF Routed
  <2>5. CASE a < currentNet.first
    <3>1. a < next.first /\ a \notin Addresses(currentNet)
      BY <1>1, <1>5, <2>2, <2>5, Member
    <3> QED BY <2>1, <2>4, <2>5, <3>1
  <2>6. CASE ~(a < currentNet.first) /\ a < next.first
    <3>1. \A q \in Queued : a \notin Addresses(q)
      <4>1. \A q \in Queued : q.first \in Nat /\ ~(q.first <= a)
        BY <1>1, <1>2, <1>4, <2>2, <2>6
      <4> QED BY <1>1, <4>1, Member
    <3>2. a \notin Routed({n \in ipsDone : n.included})
      <4> SUFFICES ASSUME NEW d \in ipsDone, a \in Addresses(d) PROVE FALSE
        BY DEF Routed
      <4>1. d \in Net /\ Last(d) < currentNet.first
        BY <1>0 DEF SpaceInv, TypeOK, UpInv
      <4>2. Last(d) \in Nat /\ d.first \in Nat
        BY <4>1, Ends
      <4>3. a <= Last(d)
        BY <2>2, <4>2 DEF Addresses
      <4> QED BY <2>2, <2>6, <4>1, <4>2, <4>3
    <3>3. Decided(Pieces, a) <=> a \in Addresses(currentNet) /\ currentNet.included
      <4>1. \A m \in Pieces : a \in Addresses(m) => m = currentNet
        BY <1>1, <3>1
      <4>2. currentNet \in Pieces /\ currentNet.networkMask <= currentNet.networkMask
        BY <1>1, <1>4
      <4> QED BY <4>1, <4>2 DEF Decided
    <3> QED BY <2>1, <2>4, <2>6, <3>2, <3>3
  <2>7. CASE ~(a < next.first)
    <3>1. a \notin Addresses(currentNet) /\ ~(a < currentNet.first)
      BY <1>1, <1>3, <1>5, <2>2, <2>7, Member
    <3>2. Decided(Pieces, a) <=> Decided(Queued, a)
      BY <1>1, <3>1 DEF Decided
    <3> QED BY <2>1, <2>7, <3>1, <3>2
  <2> QED BY <2>2, <2>5, <2>6, <2>7
<1> QED BY <1>6, <1>7, <1>8, <1>9, <1>10, <1>11 DEF RegularParts

(* The current network is inside the next one, which says the same.        *)
LEMMA InsideStep ==
    ASSUME SpaceInv, NamedDiffer, RegularParts, Turn, ~Irregular,
           NEW next \in Least(networks), InsideNext(next)
    PROVE  RegularParts'
<1> DEFINE rest == BagToSet(BagRemove(networks, next))
           f == currentNet.first
<1>0. phase = "generating"
  BY DEF Turn
<1>1. /\ IsABag(networks) /\ Queued \subseteq Networks /\ mIpAddresses \subseteq Networks
      /\ Pieces \subseteq Networks /\ Differ(Pieces) /\ Pieces = Queued \cup {currentNet}
      /\ currentNet \in Networks
      /\ \A q \in Queued : f <= q.first
  BY <1>0, TurnFacts
<1>2. /\ next \in Queued
      /\ \A q \in Queued : /\ next.first <= q.first
                           /\ next.first = q.first => q.networkMask <= next.networkMask
      /\ rest \subseteq Queued /\ Queued \subseteq rest \cup {next}
  BY <1>1, NextFacts
<1>3. /\ f = next.first /\ next.networkMask <= currentNet.networkMask
      /\ currentNet.included = next.included
      /\ currentNet' = next /\ Queued' = rest /\ Pieces' = Queued
      /\ mIpAddresses' = mIpAddresses
      /\ ipsDone' = ipsDone
  BY <1>2 DEF Turn, InsideNext, Inside, Agree, Queued, Pieces
<1> HIDE DEF rest, f
<1>4. \A q \in Pieces : /\ q.first \in Nat /\ Last(q) \in Nat /\ q.first <= Last(q)
                        /\ Size(q) \in Nat \ {0} /\ q.included \in BOOLEAN
                        /\ q.networkMask \in Nat
  BY <1>1, NetFacts
<1>5. f \in Nat
  BY <1>1, <1>4 DEF f
<1>6. PiecesArePart' /\ PiecesDiffer'
  BY <1>1, <1>3 DEF RegularParts, PiecesArePart, PiecesDiffer, Pieces
<1>7. CurrentIsSmallest'
  BY <1>2, <1>3 DEF CurrentIsSmallest
<1>8. AheadAreHalves'
  BY <1>2, <1>3 DEF RegularParts, AheadAreHalves, f
<1>9. DisagreeingAreNamed'
  <2> SUFFICES ASSUME NEW q \in rest, next.first < q.first, q.first <= Last(next),
                      next.included # q.included, q \notin mIpAddresses
               PROVE  FALSE
    BY <1>3 DEF DisagreeingAreNamed, Agree
  <2>1. q \in Queued /\ next \in Networks /\ q \in Networks
    BY <1>1, <1>2
  <2>2. next.networkMask < q.networkMask
    BY <2>1, InsideIsSpecific
  <2>3. next.networkMask <= q.networkMask
    BY <1>1, <1>2, <1>4, <2>1, <2>2
  <2>4. next.first + Size(q) <= q.first
    BY <2>1, <2>3, Behind
  <2>5. q.first <= f + Size(q)
    BY <1>3, <2>1 DEF RegularParts, AheadAreHalves, Size, f
  <2>6. q.first = f + Size(q)
    BY <1>1, <1>3, <1>4, <1>5, <2>1, <2>4, <2>5
  <2>7. q.first = f + Size(q) => q \in mIpAddresses
    BY <1>2, <1>3, <2>1, <2>2 DEF RegularParts, AgreeingComeFirst, Agree, Size, f
  <2> QED BY <2>6, <2>7
<1>10. AgreeingComeFirst'
  BY <1>2, <1>3 DEF RegularParts, AgreeingComeFirst, Agree, f
<1>11. ASSUME NEW a PROVE Decided(Pieces, a) <=> Decided(Queued, a)
  <2> SUFFICES ASSUME a \in Addresses(currentNet), currentNet \notin Queued
               PROVE  \E y \in Queued :
                        /\ a \in Addresses(y) /\ y.included = currentNet.included
                        /\ y.networkMask <= currentNet.networkMask
                        /\ \A m \in Queued :
                              /\ a \in Addresses(m)
                              /\ y.networkMask < m.networkMask
                              /\ m.networkMask <= currentNet.networkMask
                              => m.included = currentNet.included
    BY <1>1, DroppedAlike
  <2>1. a \in Addresses(next)
    <3>1. Last(currentNet) <= Last(next)
      BY <1>1, <1>2, <1>3, SameStart DEF f
    <3>2. next.first <= currentNet.first
      BY <1>3, <1>5 DEF f
    <3> QED BY <1>1, <1>2, <3>1, <3>2, Contained
  <2>2. ASSUME NEW m \in Queued, a \in Addresses(m), next.networkMask < m.networkMask,
               m.networkMask <= currentNet.networkMask
        PROVE  FALSE
    <3>1. m.first <= f
      BY <1>1, <2>2, SharedAddress DEF f
    <3>2. m.first = next.first
      BY <1>1, <1>3, <1>4, <1>5, <2>2, <3>1
    <3>3. m.networkMask <= next.networkMask
      BY <1>2, <3>2
    <3> QED BY <1>1, <1>2, <1>4, <2>2, <3>3
  <2> QED BY <1>2, <1>3, <2>1, <2>2
<1>12. DecidedAlike'
  BY <1>3, <1>11 DEF RegularParts, DecidedAlike, getPositiveIPList, f
<1> QED BY <1>6, <1>7, <1>8, <1>9, <1>10, <1>12 DEF RegularParts

(* What starts at the current network is around it.                        *)
LEMMA NextIsInside ==
    ASSUME SpaceInv, NamedDiffer, RegularParts, phase = "generating",
           NEW next \in Least(networks), ~Apart(next), ~Inside(next)
    PROVE  /\ currentNet.first < next.first /\ next.first <= Last(currentNet)
           /\ currentNet.networkMask < next.networkMask
           /\ Last(next) <= Last(currentNet)
           /\ Addresses(next) \subseteq Addresses(currentNet)
<1>1. /\ currentNet \in Networks /\ next \in Networks /\ next \in Queued
      /\ currentNet.first <= next.first
      /\ currentNet.first \in Nat /\ next.first \in Nat
      /\ Last(currentNet) \in Nat
  BY TurnFacts, NextFacts, NetFacts
<1>2. currentNet.first # next.first
  <2>1. currentNet.first = next.first => next.networkMask <= currentNet.networkMask
    BY <1>1 DEF RegularParts, CurrentIsSmallest
  <2> QED BY <1>1, <2>1, NetFacts DEF Inside
<1>3. currentNet.first < next.first /\ next.first <= Last(currentNet)
  BY <1>1, <1>2 DEF Apart
<1>4. currentNet.networkMask < next.networkMask /\ Last(next) <= Last(currentNet)
  BY <1>1, <1>3, InsideIsSpecific
<1> QED BY <1>1, <1>3, <1>4, Contained

(* The next network is inside the current one, which says the same.        *)
LEMMA DroppedStep ==
    ASSUME SpaceInv, NamedDiffer, RegularParts, Turn, ~Irregular,
           NEW next \in Least(networks), NextInside(next)
    PROVE  RegularParts'
<1> DEFINE rest == BagToSet(BagRemove(networks, next))
           f == currentNet.first
           left == rest \cup {currentNet}
<1>0. phase = "generating" /\ ~Apart(next) /\ ~Inside(next)
  BY DEF Turn, NextInside
<1>1. /\ IsABag(networks) /\ Queued \subseteq Networks /\ mIpAddresses \subseteq Networks
      /\ Pieces \subseteq Networks /\ Differ(Pieces) /\ Pieces = Queued \cup {currentNet}
      /\ currentNet \in Networks
      /\ \A q \in Queued : f <= q.first
  BY <1>0, TurnFacts
<1>2. /\ next \in Queued
      /\ \A q \in Queued : /\ next.first <= q.first
                           /\ next.first = q.first => q.networkMask <= next.networkMask
      /\ rest \subseteq Queued /\ Queued \subseteq rest \cup {next}
  BY <1>1, NextFacts
<1>3. /\ currentNet.included = next.included
      /\ currentNet' = currentNet /\ Queued' = rest
      /\ mIpAddresses' = mIpAddresses
      /\ ipsDone' = ipsDone
  BY DEF Turn, NextInside, Agree, Queued
<1> HIDE DEF rest, f
<1>4. Pieces' = left /\ left \subseteq Pieces /\ Pieces \subseteq left \cup {next}
  BY <1>1, <1>2, <1>3 DEF Pieces
<1>5. /\ f < next.first /\ next.first <= Last(currentNet)
      /\ currentNet.networkMask < next.networkMask
      /\ Addresses(next) \subseteq Addresses(currentNet)
  BY <1>0, NextIsInside DEF f
<1>6. PiecesArePart' /\ PiecesDiffer'
  BY <1>1, <1>3, <1>4 DEF RegularParts, PiecesArePart, PiecesDiffer
<1>7. CurrentIsSmallest' /\ AheadAreHalves' /\ DisagreeingAreNamed' /\ AgreeingComeFirst'
  BY <1>2, <1>3 DEF RegularParts, CurrentIsSmallest, AheadAreHalves,
                    DisagreeingAreNamed, AgreeingComeFirst, Agree
<1>8. \A q \in Pieces : /\ q.first \in Nat /\ q.networkMask \in Nat /\ q.included \in BOOLEAN
                        /\ Last(q) \in Nat
  BY <1>1, NetFacts
<1>9. ASSUME NEW a PROVE Decided(Pieces, a) <=> Decided(left, a)
  <2> SUFFICES ASSUME a \in Addresses(next), next \notin left
               PROVE  \E y \in left :
                        /\ a \in Addresses(y) /\ y.included = next.included
                        /\ y.networkMask <= next.networkMask
                        /\ \A m \in left :
                              /\ a \in Addresses(m)
                              /\ y.networkMask < m.networkMask
                              /\ m.networkMask <= next.networkMask
                              => m.included = next.included
    <3> HIDE DEF left
    <3> QED BY <1>1, <1>2, <1>4, DroppedAlike
  <2>1. a \in Addresses(currentNet) /\ currentNet.networkMask <= next.networkMask
    BY <1>1, <1>2, <1>5, <1>8
  <2>2. ASSUME NEW m \in left, a \in Addresses(m), currentNet.networkMask < m.networkMask,
               m.networkMask <= next.networkMask, m.included # next.included
        PROVE  FALSE
    <3>1. m \in Queued /\ m \in Networks /\ next \in Networks
      BY <1>1, <1>2, <1>4, <2>2, <1>8
    <3>2. m.first <= next.first /\ (m.networkMask = next.networkMask => Same(next, m))
      BY <2>2, <3>1, SharedAddress
    <3>3. m.first = next.first
      BY <1>1, <1>2, <1>8, <3>1, <3>2
    <3>4. m.networkMask < next.networkMask
      <4>1. Same(next, m) => next = m
        BY <1>1, <1>2, <3>1 DEF Differ
      <4> QED BY <1>1, <1>2, <1>8, <2>2, <3>1, <3>2, <4>1
    <3>5. m \in mIpAddresses
      BY <1>3, <1>5, <2>2, <3>1, <3>3 DEF RegularParts, DisagreeingAreNamed, Agree, f
    <3>6. next \in mIpAddresses
      <4>1. ~Upper(next)
        BY <3>1, <3>3, <3>4, NotUpper
      <4> QED BY <1>2, <1>5, <4>1 DEF RegularParts, AheadAreHalves, f
    <3>7. Addresses(m) \subseteq Addresses(currentNet)
      <4>1. f < m.first /\ m.first <= Last(currentNet)
        BY <1>5, <3>3
      <4>2. Last(m) <= Last(currentNet) /\ currentNet.first <= m.first
        BY <1>1, <1>8, <3>1, <4>1, InsideIsSpecific DEF f
      <4> QED BY <1>1, <3>1, <4>2, Contained
    <3>8. \E o \in mIpAddresses : PartOf(currentNet, o)
      BY DEF RegularParts, PiecesArePart, Pieces
    <3> QED BY <1>1, <1>3, <2>2, <3>3, <3>4, <3>5, <3>6, <3>7, <3>8, TooEarly
  <2> QED BY <1>3, <2>1, <2>2
<1>10. DecidedAlike'
  BY <1>3, <1>4, <1>9 DEF RegularParts, DecidedAlike, getPositiveIPList
<1> QED BY <1>6, <1>7, <1>10 DEF RegularParts

(* The next network is around the current one and says otherwise.          *)
LEMMA SplitNextStep ==
    ASSUME SpaceInv, NamedDiffer, RegularParts, Turn, ~Irregular,
           NEW next \in Least(networks), SplitNext(next)
    PROVE  RegularParts'
<1> DEFINE rest == BagToSet(BagRemove(networks, next))
           f == currentNet.first
           h == split(next)[1]
           g == split(next)[2]
           R == BagRemove(networks, next)
           q1 == AddMissing(R, g)
           q2 == IF Last(h) = Last(currentNet) THEN q1 ELSE AddMissing(q1, h)
           left == BagToSet(q2) \cup {currentNet}
<1>0. phase = "generating"
  BY DEF Turn
<1>1. /\ IsABag(networks) /\ Queued \subseteq Networks /\ mIpAddresses \subseteq Networks
      /\ Pieces \subseteq Networks /\ Differ(Pieces) /\ Pieces = Queued \cup {currentNet}
      /\ currentNet \in Networks
      /\ \A q \in Queued : f <= q.first
  BY <1>0, TurnFacts
<1>2. /\ next \in Queued
      /\ \A q \in Queued : /\ next.first <= q.first
                           /\ next.first = q.first => q.networkMask <= next.networkMask
      /\ rest \subseteq Queued /\ Queued \subseteq rest \cup {next}
  BY <1>1, NextFacts
<1>3. /\ currentNet.included # next.included
      /\ f = next.first /\ next.networkMask <= currentNet.networkMask
      /\ currentNet' = currentNet /\ networks' = q2
      /\ mIpAddresses' = mIpAddresses
      /\ ipsDone' = ipsDone
  BY DEF Turn, SplitNext, Agree, Inside
<1>4. \A q \in Pieces : /\ q.first \in Nat /\ q.networkMask \in Nat /\ q.included \in BOOLEAN
                        /\ Last(q) \in Nat /\ q.networkMask <= WIDTH /\ WIDTH \in Nat
  BY <1>1, NetFacts
<1>5. next.networkMask < currentNet.networkMask /\ next.networkMask < WIDTH
  <2>1. Same(next, currentNet) => next = currentNet
    BY <1>1, <1>2 DEF Differ
  <2>2. next.networkMask # currentNet.networkMask
    BY <1>3, <2>1 DEF Same, f
  <2> QED BY <1>1, <1>2, <1>3, <1>4, <2>2
<1>6. /\ h \in Networks /\ g \in Networks
      /\ h.first = f /\ g.first = f + Size(g)
      /\ h.networkMask = next.networkMask + 1 /\ g.networkMask = next.networkMask + 1
      /\ h.included = next.included /\ g.included = next.included
      /\ Last(h) + 1 = g.first /\ Last(g) = Last(next) /\ Upper(g)
      /\ Size(g) \in Nat \ {0}
  BY <1>1, <1>2, <1>3, <1>5, SplitNet, NetFacts
<1>7. /\ BagToSet(q2) \subseteq rest \cup {h, g} /\ rest \subseteq BagToSet(q2)
      /\ (\E s \in BagToSet(q2) : Same(s, g))
      /\ (g \in rest \/ g \notin BagToSet(q2) \/ \A m \in rest : ~Same(m, g))
      /\ \/ Last(h) = Last(currentNet) /\ BagToSet(q2) \subseteq rest \cup {g}
         \/ /\ Last(h) # Last(currentNet)
            /\ \E s \in BagToSet(q2) : Same(s, h)
            /\ h \in rest \/ h \notin BagToSet(q2) \/ \A m \in rest : ~Same(m, h)
  <2>1. IsABag(R)
    BY <1>1, <1>2, Removed DEF Queued
  <2> HIDE DEF R, h, g
  <2>2. /\ IsABag(q1)
        /\ \/ (\E m \in rest : Same(m, g)) /\ BagToSet(q1) = rest
           \/ (\A m \in rest : ~Same(m, g)) /\ BagToSet(q1) = rest \cup {g}
    BY <2>1, SetOfMissing DEF R
  <2>3. \/ (\E m \in BagToSet(q1) : Same(m, h)) /\ BagToSet(AddMissing(q1, h)) = BagToSet(q1)
        \/ (\A m \in BagToSet(q1) : ~Same(m, h)) /\ BagToSet(AddMissing(q1, h)) = BagToSet(q1) \cup {h}
    <3> HIDE DEF q1
    <3> QED BY <2>2, SetOfMissing
  <2>4. Same(g, g) /\ Same(h, h)
    BY DEF Same
  <2>5. ~Same(h, g) /\ h # g
    BY <1>3, <1>4, <1>6, <1>1 DEF Same, f
  <2> HIDE DEF q1, rest
  <2>6. CASE Last(h) = Last(currentNet)
    BY <2>2, <2>4, <2>5, <2>6
  <2>7. CASE Last(h) # Last(currentNet)
    <3>1. q2 = AddMissing(q1, h)
      BY <2>7
    <3> HIDE DEF q2
    <3>2. BagToSet(q2) \subseteq rest \cup {h, g} /\ rest \subseteq BagToSet(q2)
      BY <2>2, <2>3, <3>1
    <3>3. \E s \in BagToSet(q2) : Same(s, g)
      BY <2>2, <2>3, <2>4, <3>1
    <3>4. g \in rest \/ g \notin BagToSet(q2) \/ \A m \in rest : ~Same(m, g)
      BY <2>2, <2>3, <2>5, <3>1
    <3>5. \E s \in BagToSet(q2) : Same(s, h)
      BY <2>3, <2>4, <3>1
    <3>6. h \in rest \/ h \notin BagToSet(q2) \/ \A m \in rest : ~Same(m, h)
      BY <2>2, <2>3, <2>5, <3>1
    <3> QED BY <2>7, <3>2, <3>3, <3>4, <3>5, <3>6
  <2> QED BY <2>6, <2>7
<1>8. Queued' = BagToSet(q2) /\ Pieces' = left
  BY <1>3 DEF Queued, Pieces
<1> DEFINE Q == BagToSet(q2)
<1> HIDE DEF rest, f, h, g, q2
<1>9. /\ left \subseteq Networks /\ left \subseteq Pieces \cup {h, g}
      /\ Pieces \subseteq left \cup {next}
  BY <1>1, <1>2, <1>6, <1>7
<1>10. Last(currentNet) <= Last(h) /\ (Last(h) = Last(currentNet) => Same(currentNet, h))
  <2>1. h.networkMask <= currentNet.networkMask
    BY <1>1, <1>2, <1>4, <1>5, <1>6
  <2>2. Last(currentNet) <= Last(h)
    BY <1>1, <1>6, <2>1, SameStart DEF f
  <2>3. ASSUME Last(h) = Last(currentNet) PROVE Same(currentNet, h)
    <3>1. Addresses(h) \subseteq Addresses(currentNet)
      BY <1>6, <2>3 DEF Addresses, f
    <3>2. currentNet.networkMask <= h.networkMask
      BY <1>1, <1>6, <3>1, PartIsSpecific
    <3>3. h.networkMask \in Nat /\ currentNet.networkMask \in Nat
      BY <1>1, <1>6, NetFacts
    <3> QED BY <1>6, <2>1, <3>2, <3>3 DEF Same, f
  <2> QED BY <2>2, <2>3
<1>11. f \in Nat /\ f < g.first /\ g.first \in Nat /\ Last(h) < g.first /\ Last(currentNet) < g.first
       /\ currentNet.first = f
  <2>1. f \in Nat /\ Last(h) \in Nat /\ g.first \in Nat /\ Last(currentNet) \in Nat /\ h.first <= Last(h)
    BY <1>1, <1>6, NetFacts DEF f
  <2> QED BY <1>6, <1>10, <2>1 DEF f
<1>12. PiecesArePart'
  <2>1. \E o \in mIpAddresses : PartOf(next, o)
    BY <1>1, <1>2 DEF RegularParts, PiecesArePart
  <2>2. Addresses(h) \subseteq Addresses(next) /\ Addresses(g) \subseteq Addresses(next)
    <3>1. /\ next.first <= h.first /\ next.first <= g.first
          /\ Last(h) <= Last(next) /\ Last(g) <= Last(next)
      <4>1. Last(h) \in Nat /\ Last(g) \in Nat /\ g.first <= Last(g)
        BY <1>6, NetFacts
      <4> QED BY <1>3, <1>6, <1>11, <4>1
    <3> QED BY <1>1, <1>2, <1>6, <3>1, Contained
  <2>3. \A p \in {h, g} : \E o \in mIpAddresses : PartOf(p, o)
    BY <1>6, <2>1, <2>2 DEF PartOf
  <2>4. \A p \in Pieces : \E o \in mIpAddresses : PartOf(p, o)
    BY DEF RegularParts, PiecesArePart
  <2> HIDE DEF left
  <2> QED BY <1>3, <1>8, <1>9, <2>3, <2>4 DEF PiecesArePart
<1>13. Differ(left)
  <2>1. ASSUME NEW p \in left, NEW k \in left \ Pieces, p # k PROVE ~Same(p, k) /\ ~Same(k, p)
    <3>1. k \in {h, g} /\ k \notin rest /\ k \in Q
      BY <1>1, <1>2, <1>9, <2>1
    <3>2. \A m \in rest : ~Same(m, k)
      BY <1>7, <3>1
    <3>4. ~Same(h, g) /\ Same(h, h)
      BY <1>6, <1>11 DEF Same
    <3>3. ~Same(currentNet, k)
      <4>1. k = g => ~Same(currentNet, k)
        BY <1>11 DEF Same
      <4>2. ASSUME k = h, Same(currentNet, k) PROVE FALSE
        <5>1. Last(h) = Last(currentNet)
          BY <4>2 DEF Same, Last, Bits
        <5>2. Q \subseteq rest \cup {g}
          BY <1>7, <5>1
        <5> QED BY <3>1, <3>4, <4>2, <5>2
      <4> QED BY <3>1, <4>1, <4>2
    <3>5. p \in rest \cup {currentNet, h, g}
      BY <1>7, <2>1
    <3> QED BY <2>1, <3>1, <3>2, <3>3, <3>4, <3>5 DEF Same
  <2> HIDE DEF left
  <2> QED BY <1>1, <2>1 DEF Differ
<1>14. PiecesDiffer'
  BY <1>8, <1>13 DEF PiecesDiffer, Differ
<1>15. \A q \in Q : q \in Queued \/ q \in {h, g}
  BY <1>2, <1>7
<1>16. CurrentIsSmallest'
  <2>1. h.networkMask <= currentNet.networkMask
    BY <1>1, <1>2, <1>4, <1>5, <1>6
  <2>2. g.first # f
    BY <1>11
  <2> QED BY <1>3, <1>8, <1>11, <1>15, <2>1, <2>2 DEF RegularParts, CurrentIsSmallest
<1>17. AheadAreHalves'
  <2> SUFFICES ASSUME NEW q \in Q, q \notin mIpAddresses, f < q.first
               PROVE  Upper(q) /\ q.first <= f + Size(q)
    BY <1>3, <1>8, <1>11 DEF AheadAreHalves, Size
  <2>1. CASE q \in Queued
    BY <1>11, <2>1 DEF RegularParts, AheadAreHalves, Size
  <2>2. q # h
    BY <1>6, <1>11
  <2>3. CASE q = g
    BY <1>6, <1>11, <2>3
  <2> QED BY <1>15, <2>1, <2>2, <2>3
<1>18. DisagreeingAreNamed'
  <2> SUFFICES ASSUME NEW q \in Q, f < q.first, q.first <= Last(currentNet),
                      currentNet.included # q.included
               PROVE  q \in mIpAddresses
    BY <1>3, <1>8, <1>11 DEF DisagreeingAreNamed, Agree
  <2>1. q # h
    BY <1>6, <1>11
  <2>2. q # g
    <3>1. Last(currentNet) \in Nat
      BY <1>1, NetFacts
    <3> QED BY <1>11, <3>1
  <2>3. q \in Queued
    BY <1>15, <2>1, <2>2
  <2> QED BY <1>11, <2>3 DEF RegularParts, DisagreeingAreNamed, Agree
<1>19. AgreeingComeFirst'
  <2> SUFFICES ASSUME NEW c \in Q, c.first = f, currentNet.included = c.included,
                      NEW q \in Q, currentNet.included # q.included,
                      c.networkMask < q.networkMask
               PROVE  /\ q.first # f
                      /\ q.first = f + Size(q) => q \in mIpAddresses
    BY <1>3, <1>8, <1>11 DEF AgreeingComeFirst, Agree, Size
  <2>1. c \in Queued
    BY <1>3, <1>6, <1>15
  <2>2. CASE q \in Queued
    BY <1>11, <2>1, <2>2 DEF RegularParts, AgreeingComeFirst, Agree, Size
  <2>3. CASE q \in {h, g}
    <3>1. c.networkMask <= next.networkMask
      BY <1>2, <1>3, <2>1
    <3>2. c.networkMask # next.networkMask
      <4>1. Same(c, next) => c = next
        BY <1>1, <1>2, <2>1 DEF Differ
      <4> QED BY <1>3, <4>1 DEF Same
    <3>3. c.networkMask < next.networkMask
      BY <1>1, <1>2, <1>4, <2>1, <3>1, <3>2
    <3>4. next.first # f
      BY <1>2, <1>3, <1>11, <2>1, <3>3 DEF RegularParts, AgreeingComeFirst, Agree
    <3> QED BY <1>3, <3>4
  <2> QED BY <1>15, <2>2, <2>3
<1>20. ASSUME NEW a PROVE Decided(Pieces, a) <=> Decided(left, a)
  <2>1. \E s \in left : Same(s, g)
    BY <1>7
  <2>2. \E s \in left : Same(s, h)
    BY <1>7, <1>10
  <2> HIDE DEF left
  <2>3. next \in Pieces
    BY <1>1, <1>2
  <2> QED BY <1>1, <1>5, <1>9, <1>13, <2>1, <2>2, <2>3, RefinedAlike DEF h, g
<1>21. DecidedAlike'
  BY <1>3, <1>8, <1>20 DEF RegularParts, DecidedAlike, getPositiveIPList
<1> QED BY <1>12, <1>14, <1>16, <1>17, <1>18, <1>19, <1>21 DEF RegularParts

(* The upper half of the current network meets no other decision.          *)
LEMMA HalfMeetsNone ==
    ASSUME SpaceInv, NamedDiffer, RegularParts, phase = "generating", ~Irregular,
           NEW next \in Least(networks), ~Apart(next), ~Inside(next), ~Agree(next),
           NEW g \in Networks, g.first = currentNet.first + Size(g),
           g.networkMask = currentNet.networkMask + 1, Last(g) = Last(currentNet),
           Upper(g), g.networkMask # next.networkMask,
           NEW m \in Queued, Same(m, g)
    PROVE  m.included = currentNet.included
<1> SUFFICES ASSUME m.included # currentNet.included PROVE FALSE
  OBVIOUS
<1>1. /\ currentNet \in Networks /\ next \in Networks /\ next \in Queued /\ m \in Networks
      /\ next.first <= m.first
  BY TurnFacts, NextFacts
<1>2. /\ currentNet.first \in Nat /\ next.first \in Nat /\ m.first \in Nat /\ g.first \in Nat
      /\ Size(g) \in Nat \ {0} /\ g.first <= Last(g) /\ Last(g) \in Nat
      /\ currentNet.networkMask \in Nat /\ next.networkMask \in Nat
      /\ m.networkMask \in Nat /\ g.networkMask \in Nat
  BY <1>1, NetFacts
<1>3. m.first = g.first /\ m.networkMask = g.networkMask /\ Bits(m) = Bits(g) /\ Size(m) = Size(g)
  BY DEF Same, Bits, Size
<1>4. /\ currentNet.first < next.first /\ next.first <= Last(currentNet)
      /\ currentNet.networkMask < next.networkMask
  BY NextIsInside
<1>5. next \in mIpAddresses
  BY <1>1, <1>4 DEF RegularParts, DisagreeingAreNamed
<1>6. m \in mIpAddresses
  <2>1. currentNet.first < m.first /\ m.first <= Last(currentNet)
    BY <1>2, <1>3
  <2> QED BY <2>1 DEF RegularParts, DisagreeingAreNamed, Agree
<1>7. PICK o \in mIpAddresses :
         Addresses(currentNet) \subseteq Addresses(o) /\ currentNet.included = o.included
  BY DEF RegularParts, PiecesArePart, Pieces, PartOf
<1>8. Within(m, o)
  <2>1. o \in Networks
    BY DEF NamedDiffer
  <2>2. o.networkMask \in Nat /\ o.networkMask <= currentNet.networkMask
    BY <1>1, <1>7, <2>1, NetFacts, PartIsSpecific
  <2>3. Addresses(m) \subseteq Addresses(currentNet)
    <3>1. currentNet.first <= m.first /\ Last(m) <= Last(currentNet)
      BY <1>2, <1>3 DEF Last
    <3> QED BY <1>1, <3>1, Contained
  <2>4. ~Same(m, o)
    BY <1>2, <1>3, <2>2 DEF Same
  <2> QED BY <1>7, <2>3, <2>4 DEF Within
<1>9. Upper(m)
  BY <1>3 DEF Upper
<1>10. next.networkMask > m.networkMask /\ next.first \in (m.first - Size(m))..m.first
  <2>1. m.first - Size(m) = currentNet.first /\ m.first - Size(m) \in Int
    BY <1>2, <1>3
  <2>2. m.first - Size(m) <= next.first
    BY <1>2, <1>4, <2>1
  <2>3. next.networkMask > m.networkMask
    BY <1>2, <1>3, <1>4
  <2> QED BY <1>1, <1>2, <2>1, <2>2, <2>3
<1>11. MeetsItself(m)
  <2>1. (m.first \div 2^Bits(m)) % 2 = 1
    BY <1>9 DEF Upper
  <2>2. \E outer \in mIpAddresses : outer.included # m.included /\ Within(m, outer)
    BY <1>7, <1>8
  <2>3. \E inner \in mIpAddresses :
           /\ inner.networkMask > m.networkMask
           /\ inner.first \in (m.first - 2^Bits(m))..m.first
    BY <1>5, <1>10 DEF Size
  <2> QED BY <2>1, <2>2, <2>3 DEF MeetsItself
<1> QED BY <1>6, <1>11 DEF Irregular

(* The upper half of the current network, if the next one is as large.     *)
LEMMA NextIsHalf ==
    ASSUME NEW n \in Networks, NEW next \in Networks, NEW g \in Networks,
           g.first = n.first + Size(g), Last(g) = Last(n),
           g.networkMask = n.networkMask + 1, next.networkMask = g.networkMask,
           n.first < next.first, next.first <= Last(n)
    PROVE  Same(next, g)
<1>1. /\ n.first \in Nat /\ next.first \in Nat /\ g.first \in Nat /\ Last(n) \in Nat
      /\ Last(next) \in Nat /\ next.first <= Last(next)
      /\ n.networkMask \in Nat /\ next.networkMask \in Nat /\ g.networkMask \in Nat
  BY NetFacts
<1>2. Size(next) = Size(g)
  BY DEF Size, Bits
<1>3. n.networkMask <= next.networkMask
  BY <1>1
<1>4. n.first + Size(next) <= next.first
  BY <1>3, Behind
<1>5. next.first <= Last(g) /\ g.first <= Last(next)
  BY <1>1, <1>2, <1>4
<1>6. g.networkMask <= next.networkMask
  BY <1>1
<1> QED BY <1>5, <1>6, Nested DEF Same

(* The next network is inside the current one and says otherwise.          *)
LEMMA SplitCurrentStep ==
    ASSUME SpaceInv, NamedDiffer, RegularParts, Turn, ~Irregular,
           NEW next \in Least(networks), SplitCurrent(next)
    PROVE  RegularParts'
<1> DEFINE f == currentNet.first
           h == split(currentNet)[1]
           g == split(currentNet)[2]
           q2 == IF g.networkMask = next.networkMask THEN networks ELSE BagAdd(networks, g)
           left == BagToSet(q2) \cup {h}
           Q == BagToSet(q2)
<1>0. phase = "generating" /\ ~Apart(next) /\ ~Inside(next) /\ ~Agree(next)
  BY DEF Turn, SplitCurrent
<1>1. /\ IsABag(networks) /\ Queued \subseteq Networks /\ mIpAddresses \subseteq Networks
      /\ Pieces \subseteq Networks /\ Differ(Pieces) /\ Pieces = Queued \cup {currentNet}
      /\ currentNet \in Networks
      /\ \A q \in Queued : f <= q.first
  BY <1>0, TurnFacts
<1>2. /\ next \in Queued /\ next \in Networks
      /\ \A q \in Queued : /\ next.first <= q.first
                           /\ next.first = q.first => q.networkMask <= next.networkMask
  BY <1>1, NextFacts
<1>3. /\ currentNet' = h /\ networks' = q2 /\ mIpAddresses' = mIpAddresses
      /\ ipsDone' = ipsDone
  BY DEF Turn, SplitCurrent
<1>4. \A q \in Pieces : /\ q.first \in Nat /\ q.networkMask \in Nat /\ q.included \in BOOLEAN
                        /\ Last(q) \in Nat /\ q.networkMask <= WIDTH /\ WIDTH \in Nat
  BY <1>1, NetFacts
<1>5. /\ f < next.first /\ next.first <= Last(currentNet)
      /\ currentNet.networkMask < next.networkMask
      /\ currentNet.networkMask < WIDTH
  BY <1>0, <1>1, <1>2, <1>4, NextIsInside
<1>6. /\ h \in Networks /\ g \in Networks
      /\ h.first = f /\ g.first = f + Size(g)
      /\ h.networkMask = currentNet.networkMask + 1
      /\ g.networkMask = currentNet.networkMask + 1
      /\ h.included = currentNet.included /\ g.included = currentNet.included
      /\ Last(h) + 1 = g.first /\ Last(g) = Last(currentNet) /\ Upper(g)
      /\ Size(g) \in Nat \ {0}
  BY <1>1, <1>5, SplitNet, NetFacts
<1>7. /\ Queued \subseteq Q /\ Q \subseteq Queued \cup {g}
      /\ \E s \in Q : Same(s, g)
  <2>1. CASE g.networkMask = next.networkMask
    <3>1. Q = Queued
      BY <2>1 DEF Queued
    <3>2. Same(next, g)
      <4> HIDE DEF g
      <4> QED BY <1>1, <1>2, <1>5, <1>6, <2>1, NextIsHalf DEF f
    <3> QED BY <1>2, <3>1, <3>2
  <2>2. CASE g.networkMask # next.networkMask
    <3> HIDE DEF g
    <3>1. Q = Queued \cup {g}
      BY <1>1, <2>2, Added DEF Queued
    <3>2. Same(g, g)
      BY DEF Same
    <3> QED BY <3>1, <3>2
  <2> QED BY <2>1, <2>2
<1>8. Queued' = Q /\ Pieces' = left
  BY <1>3 DEF Queued, Pieces
<1>9. ASSUME NEW m \in Queued, Same(m, g), g \in Q PROVE m = g
  <2>1. CASE g \in Queued
    BY <1>1, <1>9, <2>1 DEF Differ
  <2>2. CASE g \notin Queued
    <3>1. g.networkMask # next.networkMask
      BY <1>9, <2>2 DEF Queued
    <3> HIDE DEF g, q2, Q
    <3>2. m.included = currentNet.included
      BY <1>0, <1>6, <1>9, <3>1, HalfMeetsNone DEF f
    <3> QED BY <1>1, <1>6, <1>9, <3>2, SameNet
  <2> QED BY <2>1, <2>2
<1> HIDE DEF f, h, g, q2, Q
<1>10. left = Q \cup {h}
  BY DEF Q
<1> HIDE DEF left
<1>11. /\ f \in Nat /\ f < g.first /\ g.first \in Nat /\ Last(h) < g.first
       /\ Last(h) \in Nat /\ Last(h) < Last(currentNet) /\ Last(currentNet) \in Nat
       /\ currentNet.first = f
       /\ h.networkMask \in Nat /\ currentNet.networkMask \in Nat
  <2>1. /\ f \in Nat /\ Last(h) \in Nat /\ g.first \in Nat /\ Last(currentNet) \in Nat
        /\ g.first <= Last(g)
        /\ h.networkMask \in Nat /\ currentNet.networkMask \in Nat
    BY <1>1, <1>6, NetFacts DEF f
  <2> QED BY <1>6, <2>1 DEF f
<1>12. /\ left \subseteq Networks /\ left \subseteq Pieces \cup {h, g}
       /\ Pieces \subseteq left \cup {currentNet}
  BY <1>1, <1>6, <1>7, <1>10
<1>13. PiecesArePart'
  <2>1. \E o \in mIpAddresses : PartOf(currentNet, o)
    BY <1>1 DEF RegularParts, PiecesArePart
  <2>2. Addresses(h) \subseteq Addresses(currentNet) /\ Addresses(g) \subseteq Addresses(currentNet)
    <3>1. /\ currentNet.first <= h.first /\ currentNet.first <= g.first
          /\ Last(h) <= Last(currentNet) /\ Last(g) <= Last(currentNet)
      BY <1>6, <1>11
    <3> QED BY <1>1, <1>6, <3>1, Contained
  <2>3. \A p \in {h, g} : \E o \in mIpAddresses : PartOf(p, o)
    BY <1>6, <2>1, <2>2 DEF PartOf
  <2>4. \A p \in Pieces : \E o \in mIpAddresses : PartOf(p, o)
    BY DEF RegularParts, PiecesArePart
  <2> QED BY <1>3, <1>8, <1>12, <2>3, <2>4 DEF PiecesArePart
<1>14. \A q \in Queued : ~Same(q, h)
  <2> SUFFICES ASSUME NEW q \in Queued, Same(q, h) PROVE FALSE
    OBVIOUS
  <2>1. q.first = f /\ q.networkMask = currentNet.networkMask + 1
    BY <1>6 DEF Same
  <2>2. q.networkMask <= currentNet.networkMask
    BY <1>11, <2>1 DEF RegularParts, CurrentIsSmallest
  <2> QED BY <1>11, <2>1, <2>2
<1>15. Differ(left)
  <2>1. ~Same(h, g) /\ ~Same(g, h)
    BY <1>6, <1>11 DEF Same
  <2>2. ASSUME NEW p \in Q, NEW k \in Q, Same(p, k) PROVE p = k
    <3>1. CASE p \in Queued /\ k \in Queued
      BY <1>1, <2>2, <3>1 DEF Differ
    <3>2. CASE p \in Queued /\ k = g
      BY <1>9, <2>2, <3>2
    <3>3. CASE p = g /\ k \in Queued
      <4>1. Same(k, g)
        BY <2>2, <3>3 DEF Same
      <4> QED BY <1>9, <2>2, <3>3, <4>1
    <3> QED BY <1>7, <3>1, <3>2, <3>3
  <2>3. \A p \in Q : ~Same(p, h) /\ ~Same(h, p)
    BY <1>7, <1>14, <2>1 DEF Same
  <2> QED BY <1>10, <2>2, <2>3 DEF Differ
<1>16. PiecesDiffer'
  BY <1>8, <1>15 DEF PiecesDiffer, Differ
<1>17. CurrentIsSmallest'
  <2> SUFFICES ASSUME NEW q \in Q, q.first = f PROVE q.networkMask <= h.networkMask
    BY <1>3, <1>6, <1>8 DEF CurrentIsSmallest
  <2>1. q # g /\ q \in Queued
    BY <1>7, <1>11
  <2>2. q.networkMask <= currentNet.networkMask /\ q.networkMask \in Nat
    BY <1>1, <1>4, <1>11, <2>1 DEF RegularParts, CurrentIsSmallest
  <2> QED BY <1>6, <1>11, <2>2
<1>18. AheadAreHalves'
  <2> SUFFICES ASSUME NEW q \in Q, q \notin mIpAddresses, f < q.first
               PROVE  Upper(q) /\ q.first <= f + Size(q)
    BY <1>3, <1>6, <1>8 DEF AheadAreHalves, Size
  <2>1. CASE q \in Queued
    BY <1>11, <2>1 DEF RegularParts, AheadAreHalves, Size
  <2>2. CASE q = g
    BY <1>6, <1>11, <2>2
  <2> QED BY <1>7, <2>1, <2>2
<1>19. DisagreeingAreNamed'
  <2> SUFFICES ASSUME NEW q \in Q, f < q.first, q.first <= Last(h),
                      currentNet.included # q.included
               PROVE  q \in mIpAddresses
    BY <1>3, <1>6, <1>8 DEF DisagreeingAreNamed, Agree
  <2>1. q \in Queued
    BY <1>6, <1>7
  <2>2. q.first <= Last(currentNet)
    BY <1>1, <1>4, <1>11, <2>1
  <2> QED BY <1>11, <2>1, <2>2 DEF RegularParts, DisagreeingAreNamed, Agree
<1>20. AgreeingComeFirst'
  <2> SUFFICES ASSUME NEW c \in Q, c.first = f, currentNet.included = c.included,
                      NEW q \in Q, currentNet.included # q.included,
                      c.networkMask < q.networkMask
               PROVE  /\ q.first # f
                      /\ q.first = f + Size(q) => q \in mIpAddresses
    BY <1>3, <1>6, <1>8 DEF AgreeingComeFirst, Agree, Size
  <2>1. c \in Queued /\ q \in Queued
    BY <1>6, <1>7, <1>11
  <2> QED BY <1>11, <2>1 DEF RegularParts, AgreeingComeFirst, Agree, Size
<1>21. ASSUME NEW a PROVE Decided(Pieces, a) <=> Decided(left, a)
  <2>1. \E s \in left : Same(s, g)
    BY <1>7, <1>10
  <2>2. \E s \in left : Same(s, h)
    BY <1>10 DEF Same
  <2>3. currentNet \in Pieces
    BY <1>1
  <2> QED BY <1>1, <1>5, <1>12, <1>15, <2>1, <2>2, <2>3, RefinedAlike DEF h, g
<1>22. DecidedAlike'
  BY <1>3, <1>6, <1>8, <1>11, <1>21 DEF RegularParts, DecidedAlike, getPositiveIPList
<1> QED BY <1>13, <1>16, <1>17, <1>18, <1>19, <1>20, <1>22 DEF RegularParts

-----------------------------------------------------------------------------
(* The beginning, the end, and the theorems.                               *)

(* All networks were named, and none was looked at yet.                    *)
LEMMA FirstStep ==
    ASSUME SpaceInv, NamedDiffer, ~Irregular, generateIPList, phase' = "generating"
    PROVE  RegularParts'
<1> DEFINE B == SetToBag(mIpAddresses)
           next == currentNet'
<1>1. IsABag(B) /\ BagToSet(B) = mIpAddresses
  BY DEF IsABag, BagToSet, SetToBag
<1>2. /\ next \in Least(B) /\ networks' = BagRemove(B, next)
      /\ mIpAddresses' = mIpAddresses /\ ipsDone' = {}
  BY DEF generateIPList, SpaceInv, PhaseInv
<1>3. mIpAddresses \subseteq Networks /\ Differ(mIpAddresses)
  BY DEF NamedDiffer, Differ
<1>4. next \in mIpAddresses /\ \A m \in mIpAddresses : ~Before(m, next)
  BY <1>1, <1>2 DEF Least
<1>5. Queued' \subseteq mIpAddresses /\ Pieces' = mIpAddresses
  <2>1. Queued' = BagToSet(BagRemove(B, next))
    BY <1>2 DEF Queued
  <2>2. BagToSet(BagRemove(B, next)) \subseteq mIpAddresses
    BY <1>1, <1>4, Removed
  <2>3. mIpAddresses \subseteq BagToSet(BagRemove(B, next)) \cup {next}
    BY <1>1, <1>4, RestRemains
  <2> QED BY <1>4, <2>1, <2>2, <2>3 DEF Pieces, Queued
<1> HIDE DEF B
<1>6. \A q \in mIpAddresses : /\ q.first \in Nat /\ q.networkMask \in Nat /\ q.included \in BOOLEAN
                              /\ q \in Networks
  BY <1>3, NetFacts
<1>7. \A q \in mIpAddresses : /\ next.first <= q.first
                              /\ next.first = q.first => q.networkMask <= next.networkMask
  BY <1>4, <1>6 DEF Before
<1>8. PiecesArePart' /\ PiecesDiffer'
  BY <1>2, <1>3, <1>5 DEF PiecesArePart, PiecesDiffer, Differ, PartOf
<1>9. CurrentIsSmallest' /\ AheadAreHalves' /\ DisagreeingAreNamed'
  BY <1>2, <1>5, <1>7 DEF CurrentIsSmallest, AheadAreHalves, DisagreeingAreNamed
<1>10. AgreeingComeFirst'
  <2> SUFFICES ASSUME NEW c \in mIpAddresses, c.first = next.first, next.included = c.included,
                      NEW q \in mIpAddresses, next.included # q.included,
                      c.networkMask < q.networkMask, q.first = next.first
               PROVE  FALSE
    BY <1>2, <1>5 DEF AgreeingComeFirst, Agree
  <2>1. q.networkMask < next.networkMask
    <3>1. Same(q, next) => q = next
      BY <1>3, <1>4 DEF Differ
    <3>2. q.networkMask # next.networkMask
      BY <3>1 DEF Same
    <3> QED BY <1>4, <1>6, <1>7, <3>2
  <2>2. Addresses(q) \subseteq Addresses(c)
    <3>1. Last(q) <= Last(c)
      BY <1>6, SameStart
    <3>2. c.first <= q.first
      BY <1>6
    <3> QED BY <1>6, <3>1, <3>2, Contained
  <2>3. PartOf(c, c)
    BY DEF PartOf
  <2>4. next \in mIpAddresses /\ c \in Networks /\ next.included # q.included
    BY <1>4, <1>6
  <2> HIDE DEF next
  <2> QED BY <1>3, <2>1, <2>2, <2>3, <2>4, TooEarly
<1>11. DecidedAlike'
  <2> SUFFICES ASSUME NEW a \in 0..2^WIDTH - 1, a < next.first
               PROVE  ~Decided(mIpAddresses, a) /\ a \notin Routed({n \in {} : n.included})
    BY <1>2, <1>5 DEF DecidedAlike, getPositiveIPList, Routed
  <2>1. a \in Nat
    <3>1. 2^WIDTH \in Nat
      BY <1>4, <1>6, NetFacts
    <3> QED BY <3>1
  <2>2. \A m \in mIpAddresses : a \notin Addresses(m)
    <3> SUFFICES ASSUME NEW m \in mIpAddresses, m.first <= a PROVE FALSE
      BY <1>6, Member
    <3> QED BY <1>4, <1>6, <1>7, <2>1
  <2> QED BY <2>2 DEF Decided, Routed
<1> QED BY <1>8, <1>9, <1>10, <1>11 DEF RegularParts

(* The last network: what is done decides every address.                   *)
LEMMA LastStep ==
    ASSUME SpaceInv, NamedDiffer, RegularParts, LastNet
    PROVE  Routed(getPositiveIPList') = {a \in 0..2^WIDTH - 1 : Decided(mIpAddresses, a)}
<1> DEFINE f == currentNet.first
           w == 2^WIDTH
<1>0. phase = "generating" /\ networks = EmptyBag /\ ipsDone' = Insert(ipsDone, currentNet)
  BY DEF LastNet, Turn
<1>1. /\ currentNet \in Networks /\ Pieces = {currentNet}
  BY <1>0, TurnFacts, Empty DEF Queued
<1>2. /\ f \in Nat /\ Last(currentNet) \in Nat /\ f <= Last(currentNet) /\ w \in Nat
      /\ Last(currentNet) < w /\ currentNet.included \in BOOLEAN
      /\ currentNet.networkMask \in Nat
  BY <1>1, NetFacts
<1> HIDE DEF w
<1>3. \A d \in ipsDone : d \in Net /\ Last(d) < f
  BY <1>0 DEF SpaceInv, TypeOK, UpInv
<1>4. \A d \in ipsDone : d.first \in Nat /\ Last(d) \in Nat /\ d.first <= Last(d) /\ d.first # f
  BY <1>2, <1>3, Ends
<1>5. ipsDone' = ipsDone \cup {currentNet}
  BY <1>0, <1>4 DEF Insert, Same
<1>6. \A a : a \in Routed(getPositiveIPList')
               <=> a \in Routed(getPositiveIPList)
                     \/ (a \in Addresses(currentNet) /\ currentNet.included)
  BY <1>5 DEF Routed, getPositiveIPList
<1>7. \A a : Decided(Pieces, a) <=> a \in Addresses(currentNet) /\ currentNet.included
  <2>1. currentNet.networkMask <= currentNet.networkMask
    BY <1>2
  <2> QED BY <1>1, <2>1 DEF Decided
<1>8. \A a \in 0..w - 1 :
         Decided(mIpAddresses, a)
           <=> IF a < f THEN a \in Routed(getPositiveIPList) ELSE Decided(Pieces, a)
  BY DEF RegularParts, DecidedAlike, w
<1>9. \A a \in Routed(getPositiveIPList) : a \in Nat /\ a < f
  <2> SUFFICES ASSUME NEW d \in ipsDone, NEW a \in Addresses(d) PROVE a \in Nat /\ a < f
    BY DEF Routed, getPositiveIPList
  <2>1. d.first \in Nat /\ Last(d) \in Nat /\ a \in d.first..Last(d)
    BY <1>4 DEF Addresses
  <2> QED BY <1>2, <1>3, <2>1
<1>10. \A a \in Addresses(currentNet) : a \in Nat /\ ~(a < f) /\ a <= Last(currentNet)
  BY <1>1, <1>2, Member
<1>11. \A a \in Routed(getPositiveIPList') : a \in 0..w - 1
  <2> SUFFICES ASSUME NEW a \in Routed(getPositiveIPList') PROVE a \in 0..w - 1
    OBVIOUS
  <2>1. CASE a \in Routed(getPositiveIPList)
    BY <1>2, <1>9, <2>1
  <2>2. CASE a \in Addresses(currentNet)
    BY <1>2, <1>10, <2>2
  <2> QED BY <1>6, <2>1, <2>2
<1>12. ASSUME NEW a \in 0..w - 1
       PROVE  a \in Routed(getPositiveIPList') <=> Decided(mIpAddresses, a)
  <2>1. CASE a < f
    <3>1. a \notin Addresses(currentNet)
      BY <1>10, <2>1
    <3> QED BY <1>6, <1>8, <2>1, <3>1
  <2>2. CASE ~(a < f)
    <3>1. a \notin Routed(getPositiveIPList)
      BY <1>9, <2>2
    <3> QED BY <1>6, <1>7, <1>8, <2>2, <3>1
  <2> QED BY <2>1, <2>2
<1> QED BY <1>11, <1>12 DEF w

(* Every step keeps it.                                                    *)
LEMMA DecidedInit == Init => DecidedInv
  BY DEF Init, DecidedInv, NamedDiffer, RegularInv, RoutesAreDecided

(* Every step keeps DecidedInv.                                            *)
LEMMA DecidedStep == SpaceInv /\ SpaceInv' /\ DecidedInv /\ [Next]_vars => DecidedInv'
<1> SUFFICES ASSUME SpaceInv, DecidedInv, [Next]_vars PROVE DecidedInv'
  OBVIOUS
<1>0. /\ NamedDiffer /\ RoutesAreDecided
      /\ phase = "generating" /\ ~Irregular => RegularParts
  BY DEF DecidedInv, RegularInv, RegularParts
<1>1. ASSUME mIpAddresses' = mIpAddresses PROVE NamedDiffer' /\ (Irregular' <=> Irregular)
  BY <1>0, <1>1 DEF NamedDiffer, Irregular, MeetsItself, ComesTooEarly
<1>2. ASSUME NamedDiffer', phase' # "generating", phase' # "generated" PROVE DecidedInv'
  BY <1>2 DEF DecidedInv, RegularInv, RoutesAreDecided
<1>3. ASSUME mIpAddresses' = mIpAddresses, phase' = "generating", ~Irregular => RegularParts'
      PROVE  DecidedInv'
  BY <1>1, <1>3 DEF DecidedInv, RegularInv, RegularParts, RoutesAreDecided
<1>4. CASE UNCHANGED vars
  <2>1. /\ mIpAddresses' = mIpAddresses /\ phase' = phase /\ networks' = networks
        /\ currentNet' = currentNet /\ ipsDone' = ipsDone
    BY <1>4 DEF vars
  <2>2. CASE phase = "generating"
    <3>1. RegularParts' <=> RegularParts
      BY <2>1 DEF RegularParts, PiecesArePart, PiecesDiffer, CurrentIsSmallest, AheadAreHalves,
                  DisagreeingAreNamed, AgreeingComeFirst, Agree, DecidedAlike, Pieces, Queued,
                  getPositiveIPList
    <3> QED BY <1>0, <1>3, <2>1, <2>2, <3>1
  <2>3. CASE phase # "generating"
    BY <1>0, <1>1, <2>1, <2>3 DEF DecidedInv, RegularInv, RoutesAreDecided, getPositiveIPList
  <2> QED BY <2>2, <2>3
<1>5. ASSUME NEW n \in Networks, addIP(n) PROVE DecidedInv'
  <2>1. /\ mIpAddresses' = Insert(mIpAddresses, n) /\ phase' = "collecting"
    BY <1>5 DEF addIP
  <2>2. NamedDiffer'
    <3>1. \/ mIpAddresses' = mIpAddresses
          \/ mIpAddresses' = mIpAddresses \cup {n} /\ \A m \in mIpAddresses : ~Same(m, n)
      BY <2>1 DEF Insert
    <3> QED BY <1>0, <3>1 DEF NamedDiffer, Same
  <2> QED BY <1>2, <2>1, <2>2
<1>6. CASE clear
  <2>1. mIpAddresses' = {} /\ phase' = "collecting"
    BY <1>6 DEF clear
  <2> QED BY <1>2, <2>1 DEF NamedDiffer
<1>7. CASE generateIPList
  <2>1. mIpAddresses' = mIpAddresses /\ ipsDone' = ipsDone /\ ipsDone = {}
    BY <1>7 DEF generateIPList, SpaceInv, PhaseInv
  <2>2. CASE phase' = "generating"
    BY <1>0, <1>3, <1>7, <2>1, <2>2, FirstStep
  <2>3. CASE phase' # "generating"
    <3>1. SetToBag(mIpAddresses) = EmptyBag /\ phase' = "generated"
      BY <1>7, <2>3 DEF generateIPList
    <3>2. mIpAddresses = {}
      <4>1. BagToSet(SetToBag(mIpAddresses)) = mIpAddresses
        BY DEF BagToSet, SetToBag
      <4> QED BY <3>1, <4>1, Empty
    <3>3. RoutesAreDecided'
      BY <2>1, <3>2 DEF RoutesAreDecided, Routed, Decided, getPositiveIPList
    <3> QED BY <1>1, <2>1, <2>3, <3>3 DEF DecidedInv, RegularInv
  <2> QED BY <2>2, <2>3
<1>8. CASE LastNet
  <2>1. phase = "generating" /\ phase' = "generated" /\ mIpAddresses' = mIpAddresses
    BY <1>8 DEF LastNet, Turn
  <2>2. RoutesAreDecided'
    <3> SUFFICES ASSUME ~Irregular
                 PROVE  Routed(getPositiveIPList') = {a \in 0..2^WIDTH - 1 : Decided(mIpAddresses, a)}
      BY <1>1, <2>1 DEF RoutesAreDecided
    <3> QED BY <1>0, <1>8, <2>1, LastStep
  <2> QED BY <1>1, <2>1, <2>2 DEF DecidedInv, RegularInv
<1>9. ASSUME NEW next \in Least(networks),
             \/ NextIsApart(next)
             \/ InsideNext(next)
             \/ SplitNext(next)
             \/ NextInside(next)
             \/ SplitCurrent(next)
      PROVE  DecidedInv'
  <2>1. Turn /\ phase' = phase
    BY <1>9 DEF NextIsApart, InsideNext, SplitNext, NextInside, SplitCurrent
  <2>2. phase = "generating" /\ phase' = "generating" /\ mIpAddresses' = mIpAddresses
    BY <2>1 DEF Turn
  <2>3. ASSUME ~Irregular PROVE RegularParts'
    <3>1. RegularParts
      BY <1>0, <2>2, <2>3
    <3>2. NextIsApart(next) => RegularParts'
      BY <1>0, <2>1, <2>3, <3>1, ApartStep
    <3>3. InsideNext(next) => RegularParts'
      BY <1>0, <2>1, <2>3, <3>1, InsideStep
    <3>4. SplitNext(next) => RegularParts'
      BY <1>0, <2>1, <2>3, <3>1, SplitNextStep
    <3>5. NextInside(next) => RegularParts'
      BY <1>0, <2>1, <2>3, <3>1, DroppedStep
    <3>6. SplitCurrent(next) => RegularParts'
      BY <1>0, <2>1, <2>3, <3>1, SplitCurrentStep
    <3> QED BY <1>9, <3>2, <3>3, <3>4, <3>5, <3>6
  <2> QED BY <1>3, <2>2, <2>3
<1> QED BY <1>4, <1>5, <1>6, <1>7, <1>8, <1>9 DEF Next, Loop

(* The loop never meets a piece of which it could not tell what it is part *)
(* of, for every width, all regular inputs and any choice among equal      *)
(* networks.                                                               *)
THEOREM DecidedInvariance == Spec => [](SpaceInv /\ DecidedInv)
<1>1. Init => SpaceInv /\ DecidedInv
  BY SpaceInit, DecidedInit
<1>2. SpaceInv /\ DecidedInv /\ [Next]_vars => (SpaceInv /\ DecidedInv)'
  BY SpaceStep, DecidedStep
<1> QED BY <1>1, <1>2, PTL DEF Spec

(* generateIPList() routes the addresses whose most specific network       *)
(* belongs to the VPN, whatever regular networks were named.               *)
THEOREM RoutesDecidedTheorem == Spec => []RoutesAreDecided
<1>1. DecidedInv => RoutesAreDecided
  BY DEF DecidedInv
<1> QED BY <1>1, DecidedInvariance, PTL

(* No assertion of a debug build fails in it.                              *)
THEOREM RegularAssertedTheorem == Spec => []RegularIsAsserted
<1>1. SpaceInv /\ DecidedInv => RegularIsAsserted
  <2> SUFFICES ASSUME SpaceInv, DecidedInv, ~Irregular, phase = "generating",
                      NEW next \in Least(networks), ~Apart(next)
               PROVE  Asserted(next)
    BY DEF RegularIsAsserted, AssertionsHold, Asserted
  <2>1. NamedDiffer /\ RegularParts
    BY DEF DecidedInv, RegularInv, RegularParts
  <2>2. /\ currentNet \in Networks /\ next \in Networks /\ next \in Queued
        /\ Differ(Pieces) /\ Pieces = Queued \cup {currentNet}
    BY <2>1, TurnFacts, NextFacts
  <2>3. /\ currentNet.first \in Nat /\ next.first \in Nat
        /\ currentNet.networkMask \in Nat /\ next.networkMask \in Nat
        /\ currentNet.networkMask <= WIDTH /\ next.networkMask <= WIDTH /\ WIDTH \in Nat
        /\ Last(currentNet) \in Nat /\ Last(next) \in Nat
        /\ Size(currentNet) \in Nat \ {0} /\ Last(currentNet) = currentNet.first + Size(currentNet) - 1
    BY <2>2, NetFacts
  <2>4. ASSUME Inside(next), ~Agree(next)
        PROVE  LET half == split(next)[1]
               IN  /\ Halved(next)
                   /\ Last(half) = Last(currentNet) => half.networkMask = currentNet.networkMask
    <3>1. currentNet.first = next.first /\ next.networkMask < currentNet.networkMask
      <4>1. Same(currentNet, next) => currentNet = next
        BY <2>2 DEF Differ
      <4>2. currentNet.first = next.first /\ next.networkMask <= currentNet.networkMask
        BY <2>3, <2>4 DEF Inside
      <4>3. currentNet.networkMask # next.networkMask
        BY <2>4, <4>1, <4>2 DEF Same, Agree
      <4> QED BY <2>3, <4>2, <4>3
    <3>2. /\ split(next)[1] \in Networks /\ split(next)[1].first = next.first
          /\ Last(split(next)[2]) = Last(next)
          /\ split(next)[1].networkMask = next.networkMask + 1
      <4>1. next.networkMask < WIDTH
        BY <2>3, <3>1
      <4> QED BY <2>2, <4>1, SplitNet
    <3>3. ASSUME Last(split(next)[1]) = Last(currentNet)
          PROVE  split(next)[1].networkMask = currentNet.networkMask
      <4> DEFINE h == split(next)[1]
      <4>1. h \in Networks /\ h.first = currentNet.first /\ h.networkMask <= currentNet.networkMask
        BY <2>3, <3>1, <3>2
      <4>2. Last(h) = Last(currentNet)
        BY <3>3
      <4> HIDE DEF h
      <4>3. Addresses(h) \subseteq Addresses(currentNet)
        BY <4>1, <4>2 DEF Addresses
      <4>4. currentNet.networkMask <= h.networkMask /\ h.networkMask \in Nat
        BY <2>2, <4>1, <4>3, PartIsSpecific, NetFacts
      <4> QED BY <2>3, <4>1, <4>4 DEF h
    <3> QED BY <3>2, <3>3 DEF Halved
  <2>5. ASSUME ~Inside(next)
        PROVE  /\ currentNet.networkMask < next.networkMask
               /\ next.first > currentNet.first
               /\ next.first <= Last(currentNet)
               /\ Last(currentNet) >= Last(next)
    BY <2>1, <2>3, <2>5, NextIsInside
  <2>6. ASSUME ~Inside(next)
        PROVE  LET half == split(currentNet)[2]
               IN  /\ Halved(currentNet)
                   /\ half.networkMask = next.networkMask => Same(half, next)
    <3> DEFINE g == split(currentNet)[2]
    <3>1. /\ g \in Networks /\ g.first = currentNet.first + Size(g) /\ Last(g) = Last(currentNet)
          /\ g.networkMask = currentNet.networkMask + 1
      <4>1. currentNet.networkMask < WIDTH
        BY <2>3, <2>5, <2>6
      <4> QED BY <2>2, <4>1, SplitNet
    <3>2. Halved(currentNet)
      BY <3>1 DEF Halved
    <3> HIDE DEF g
    <3>3. g.networkMask = next.networkMask => Same(next, g)
      BY <2>2, <2>3, <2>5, <2>6, <3>1, NextIsHalf
    <3>4. g.networkMask = next.networkMask => Same(g, next)
      BY <3>3 DEF Same
    <3> QED BY <3>2, <3>4 DEF g
  <2> QED BY <2>4, <2>5, <2>6 DEF Asserted
<1> QED BY <1>1, DecidedInvariance, PTL
=============================================================================
